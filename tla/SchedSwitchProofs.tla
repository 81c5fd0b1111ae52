------------------------- MODULE SchedSwitchProofs --------------------------
(***************************************************************************)
(* Every process is in one place: the stages of schedule() that move a     *)
(* process between a queue, the parking slot, the choice and a CPU.        *)
(***************************************************************************)
EXTENDS SchedPlaceProofs

USE ZenonT(30) DEF PlaceInv, Placement, TypeInv, GoTo, procVars, callVars, schedVars,
        Built, Corpse, LockedPhase, CpuLockFree

LEMMA RequeuePendingPlaces ==
  ASSUME PlaceInv, NEW c \in Cpu, RequeuePending(c)
  PROVE  Placement'
  <1>0. /\ phase[c] = "reap" /\ pend' = [pend EXCEPT ![c] = Idle]
        /\ phase' = [phase EXCEPT ![c] = "retire"]
        /\ UNCHANGED <<pool, current, cand, stk, slock>>
    BY DEF RequeuePending
  <1>1. CASE pend[c] = Idle
    <2>0. UNCHANGED <<state, oncpu, rq>>
      BY <1>1 DEF RequeuePending
    <2>1. OneHolder'
      BY <1>0, <1>1, <2>0, SMTT(30) DEF OneHolder, HeldState, Holds
    <2>2. HeldState'
      BY <1>0, <1>1, <2>0, SchedAssumption, SMTT(30) DEF HeldState
    <2>3. CurrentState'
      BY <1>0, <1>1, <2>0, SMTT(30) DEF CurrentState
    <2>4. StackState'
      BY <1>0, <1>1, <2>0, SMTT(30) DEF StackState, Holds
    <2>5. CallState'
      BY <1>0, <1>1, <2>0, SMTT(30) DEF CallState
    <2> QED
      BY <2>1, <2>2, <2>3, <2>4, <2>5
  <1>2. CASE pend[c] \in Task /\ state[pend[c]] \in Corpse
    <2>0. oncpu' = [oncpu EXCEPT ![pend[c]] = NoCpu] /\ UNCHANGED <<state, rq>>
      BY <1>2, SchedAssumption DEF RequeuePending
    <2>1. OneHolder'
      BY <1>0, <1>2, <2>0, SchedAssumption, SMTT(30)
         DEF OneHolder, HeldState, CurrentState, StackState, CallState, Holds
    <2>2. HeldState'
      BY <1>0, <1>2, <2>0, SchedAssumption, SMTT(30) DEF HeldState, TypeOK
    <2>3. CurrentState'
      BY <1>0, <1>2, <2>0, SMTT(30) DEF HeldState, CurrentState
    <2>4. StackState'
      BY <1>0, <1>2, <2>0, SchedAssumption, SMTT(30) DEF OneHolder, StackState, Holds
    <2>5. CallState'
      BY <1>0, <1>2, <2>0, SMTT(30) DEF CallState
    <2> QED
      BY <2>1, <2>2, <2>3, <2>4, <2>5
  <1>3. CASE pend[c] \in Task /\ state[pend[c]] \notin Corpse
    <2> DEFINE q == pend[c]
    <2>a. state[q] = "READY" /\ oncpu[q] = c /\ ~Linked(q)
      BY <1>3, SMTT(30) DEF OneHolder, HeldState, Holds, Linked
    <2>b. EnqueueAs(q, "READY")
      BY <1>3, <2>a, SchedAssumption DEF RequeuePending
    <2>c. Target(q) = c
      BY <1>3, <2>a, TargetHeld
    <2>0. /\ state' = [state EXCEPT ![q] = "READY"]
          /\ oncpu' = [oncpu EXCEPT ![q] = c]
          /\ \A d \in Cpu : Injective(rq'[d])
          /\ \A d \in Cpu, r \in Task :
                r \in Members(rq'[d]) <=> r \in Members(rq[d]) \/ (d = c /\ r = q)
      BY <1>3, <2>a, <2>b, <2>c, EnqueuePlaces
    <2>p. /\ phase'[c] = "retire" /\ \A d \in Cpu : d # c => phase'[d] = phase[d]
          /\ pend'[c] = Idle /\ \A d \in Cpu : d # c => pend'[d] = pend[d]
      BY <1>0 DEF TypeOK
    <2>h. \A d \in Cpu, r \in Task : Holds(d, r)' => Holds(d, r)
      BY <1>0, <2>p, <2>0, SchedAssumption, SMTT(30) DEF Holds
    <2>x. \A d \in Cpu : Holds(d, q) => d = c
      BY <1>3 DEF OneHolder, Holds
    <2>1. OneHolder'
      BY <1>0, <1>3, <2>a, <2>0, <2>h DEF OneHolder
    <2>2. HeldState'
      BY <1>0, <1>3, <2>a, <2>0, <2>x, SchedAssumption, SMTT(30)
         DEF HeldState, CurrentState, Holds, TypeOK
    <2>3. CurrentState'
      BY <1>0, <1>3, <2>a, <2>0, <2>x, SchedAssumption, SMTT(30)
         DEF HeldState, CurrentState, Holds, TypeOK
    <2>4. StackState'
      BY <1>0, <1>3, <2>a, <2>0, <2>h, SchedAssumption, SMTT(30)
         DEF StackState, CurrentState, TypeOK
    <2>5. CallState'
      BY <1>0, <1>3, <2>a, <2>0, SchedAssumption, SMTT(30) DEF CallState, TypeOK
    <2> QED
      BY <2>1, <2>2, <2>3, <2>4, <2>5
  <1> QED
    BY <1>1, <1>2, <1>3 DEF TypeOK

LEMMA RetirePrevPlaces ==
  ASSUME PlaceInv, NEW c \in Cpu, RetirePrev(c)
  PROVE  Placement'
  <1>0. /\ phase[c] = "retire" /\ phase' = [phase EXCEPT ![c] = "pick"]
        /\ UNCHANGED <<pool, pend, cand, stk, slock>>
    BY DEF RetirePrev
  <1>1. CASE \/ current[c] = Idle
              \/ /\ current[c] \in Task
                 /\ state[current[c]] \notin Corpse \cup {"RUNNING", "READY"}
    <2>0. UNCHANGED <<state, oncpu, rq, current>>
      BY <1>1 DEF RetirePrev
    <2>1. OneHolder'
      BY <1>0, <1>1, <2>0, SMTT(30) DEF OneHolder, StackState, CallState, Holds
    <2>2. HeldState'
      BY <1>0, <1>1, <2>0, SMTT(30) DEF HeldState
    <2>3. CurrentState'
      BY <1>0, <1>1, <2>0, SMTT(30) DEF CurrentState
    <2>4. StackState'
      BY <1>0, <1>1, <2>0, SMTT(30) DEF OneHolder, StackState, CallState, Holds
    <2>5. CallState'
      BY <1>0, <1>1, <2>0, SMTT(30) DEF CallState
    <2> QED
      BY <2>1, <2>2, <2>3, <2>4, <2>5
  <1>2. CASE current[c] \in Task /\ state[current[c]] \in Corpse
    <2>0. /\ oncpu' = [oncpu EXCEPT ![current[c]] = NoCpu]
          /\ current' = [current EXCEPT ![c] = Idle]
          /\ UNCHANGED <<state, rq>>
      BY <1>2, SchedAssumption DEF RetirePrev
    <2>h. \A d \in Cpu, r \in Task : Holds(d, r)' => Holds(d, r)
      BY <1>0, <2>0, SchedAssumption DEF Holds, TypeOK
    <2>1. OneHolder'
      BY <2>0, <2>h DEF OneHolder
    <2>2. HeldState'
      BY <1>0, <1>2, <2>0, SMTT(30) DEF HeldState, CurrentState
    <2>3. CurrentState'
      BY <1>0, <1>2, <2>0, SchedAssumption, SMTT(30) DEF CurrentState, TypeOK
    <2>4. StackState'
      BY <1>0, <1>2, <2>0, SMTT(30)
         DEF OneHolder, HeldState, CurrentState, StackState, Holds, TypeOK
    <2>5. CallState'
      BY <1>0, <1>2, <2>0, SMTT(30) DEF CallState
    <2> QED
      BY <2>1, <2>2, <2>3, <2>4, <2>5
  <1>3. CASE current[c] \in Task /\ state[current[c]] \in {"RUNNING", "READY"}
    <2> DEFINE q == current[c]
    <2>a. oncpu[q] = c /\ ~Linked(q)
      BY <1>0, <1>3 DEF OneHolder, CurrentState, Holds, Linked
    <2>b. EnqueueAs(q, "READY") /\ UNCHANGED current
      BY <1>3, SchedAssumption DEF RetirePrev
    <2>c. Target(q) = c
      BY <1>3, <2>a, TargetHeld
    <2>0. /\ state' = [state EXCEPT ![q] = "READY"]
          /\ oncpu' = [oncpu EXCEPT ![q] = c]
          /\ \A d \in Cpu : Injective(rq'[d])
          /\ \A d \in Cpu, r \in Task :
                r \in Members(rq'[d]) <=> r \in Members(rq[d]) \/ (d = c /\ r = q)
      BY <1>3, <2>a, <2>b, <2>c, EnqueuePlaces
    <2>h. \A d \in Cpu, r \in Task : Holds(d, r)' => Holds(d, r)
      BY <1>0, <1>3, <2>a, <2>b, <2>0 DEF Holds, TypeOK
    <2>x. \A d \in Cpu : Holds(d, q) => d = c
      BY <1>3 DEF OneHolder, Holds
    <2>1. OneHolder'
      BY <1>0, <1>3, <2>a, <2>b, <2>0, <2>h DEF OneHolder
    <2>2. HeldState'
      BY <1>0, <1>3, <2>a, <2>b, <2>0, <2>x, SchedAssumption, SMTT(30)
         DEF HeldState, CurrentState, Holds, TypeOK
    <2>3. CurrentState'
      BY <1>0, <1>3, <2>a, <2>b, <2>0, <2>x, SchedAssumption, SMTT(30)
         DEF HeldState, CurrentState, Holds, TypeOK
    <2>4. StackState'
      BY <1>0, <1>3, <2>a, <2>b, <2>0, <2>h, SchedAssumption, SMTT(30)
         DEF StackState, CurrentState, TypeOK
    <2>5. CallState'
      BY <1>0, <1>3, <2>a, <2>b, <2>0, SchedAssumption, SMTT(30) DEF CallState, TypeOK
    <2> QED
      BY <2>1, <2>2, <2>3, <2>4, <2>5
  <1> QED
    BY <1>1, <1>2, <1>3 DEF TypeOK

LEMMA PickLocalPlaces ==
  ASSUME PlaceInv, NEW c \in Cpu, PickLocal(c)
  PROVE  Placement'
  <1>0. PICK q \in Task :
          /\ q \in Members(rq[c])
          /\ \A d \in Cpu : Injective(rq'[d])
          /\ \A d \in Cpu, r \in Task :
                r \in Members(rq'[d]) <=> r \in Members(rq[d]) /\ ~(d = c /\ r = q)
          /\ IF state[q] \in {"DEAD", "STOPPED"} THEN UNCHANGED <<phase, cand>>
             ELSE /\ cand' = [cand EXCEPT ![c] = q]
                  /\ phase' = [phase EXCEPT ![c] = "install"]
    <2>1. PICK i \in 1..Len(rq[c]) :
            /\ rq' = [rq EXCEPT ![c] = RemoveAt(@, i)]
            /\ IF state[rq[c][i]] = "DEAD" THEN UNCHANGED <<phase, cand>>
               ELSE IF state[rq[c][i]] = "STOPPED" THEN UNCHANGED <<phase, cand>>
                    ELSE /\ cand' = [cand EXCEPT ![c] = rq[c][i]]
                         /\ phase' = [phase EXCEPT ![c] = "install"]
      BY DEF PickLocal
    <2> DEFINE q == rq[c][i]
    <2>2. /\ q \in Task /\ q \in Members(rq[c])
          /\ \A d \in Cpu : Injective(rq'[d])
          /\ \A d \in Cpu, r \in Task :
                r \in Members(rq'[d]) <=> r \in Members(rq[d]) /\ ~(d = c /\ r = q)
      BY <2>1, RemovePlaces
    <2>3. IF state[q] \in {"DEAD", "STOPPED"} THEN UNCHANGED <<phase, cand>>
          ELSE /\ cand' = [cand EXCEPT ![c] = q]
               /\ phase' = [phase EXCEPT ![c] = "install"]
      BY <2>1
    <2> HIDE DEF q
    <2> QED
      BY <2>2, <2>3
  <1>f. phase[c] = "pick" /\ UNCHANGED <<state, oncpu, pool, current, pend, stk, slock>>
    BY DEF PickLocal
  <1>q. state[q] \in {"READY", "DEAD"} /\ (state[q] = "DEAD" => q # current[c])
    BY <1>0 DEF HeldState, CurrentState
  <1>1. CASE state[q] = "DEAD"
    <2>0. UNCHANGED <<phase, cand>>
      BY <1>0, <1>1
    <2>h. \A d \in Cpu, r \in Task : Holds(d, r)' => Holds(d, r)
      BY <1>f, <1>0, <1>q, <1>1, <2>0 DEF Holds, TypeOK
    <2>x. \A d \in Cpu : Holds(d, q) => d = c
      BY <1>0 DEF OneHolder, Holds
    <2>1. OneHolder'
      BY <1>f, <1>0, <1>q, <1>1, <2>0, <2>h DEF OneHolder
    <2>2. HeldState'
      BY <1>f, <1>0, <1>q, <1>1, <2>0, <2>x, SchedAssumption, SMTT(30)
         DEF HeldState, CurrentState, Holds, TypeOK
    <2>3. CurrentState'
      BY <1>f, <1>0, <1>q, <1>1, <2>0, <2>x, SchedAssumption, SMTT(30)
         DEF HeldState, CurrentState, Holds, TypeOK
    <2>4. StackState'
      BY <1>f, <1>0, <1>q, <1>1, <2>0, <2>h, SchedAssumption, SMTT(30)
         DEF StackState, CurrentState, TypeOK
    <2>5. CallState'
      BY <1>f, <1>0, <1>q, <1>1, <2>0, SchedAssumption, SMTT(30) DEF CallState, TypeOK
    <2> QED
      BY <2>1, <2>2, <2>3, <2>4, <2>5
  <1>2. CASE state[q] = "READY"
    <2>0. /\ cand' = [cand EXCEPT ![c] = q]
          /\ phase' = [phase EXCEPT ![c] = "install"]
      BY <1>0, <1>2
    <2>h. \A d \in Cpu, r \in Task : Holds(d, r)' => Holds(d, r)
      BY <1>f, <1>0, <1>q, <1>2, <2>0 DEF Holds, TypeOK
    <2>x. \A d \in Cpu : Holds(d, q) => d = c
      BY <1>0 DEF OneHolder, Holds
    <2>1. OneHolder'
      BY <1>f, <1>0, <1>q, <1>2, <2>0, <2>h DEF OneHolder
    <2>2. HeldState'
      BY <1>f, <1>0, <1>q, <1>2, <2>0, <2>x, SchedAssumption, SMTT(30)
         DEF HeldState, CurrentState, Holds, TypeOK
    <2>3. CurrentState'
      BY <1>f, <1>0, <1>q, <1>2, <2>0, <2>x, SchedAssumption, SMTT(30)
         DEF HeldState, CurrentState, Holds, TypeOK
    <2>4. StackState'
      BY <1>f, <1>0, <1>q, <1>2, <2>0, <2>h, SchedAssumption, SMTT(30)
         DEF StackState, CurrentState, TypeOK
    <2>5. CallState'
      BY <1>f, <1>0, <1>q, <1>2, <2>0, SchedAssumption, SMTT(30) DEF CallState, TypeOK
    <2> QED
      BY <2>1, <2>2, <2>3, <2>4, <2>5
  <1> QED
    BY <1>q, <1>1, <1>2

LEMMA StealWorkPlaces ==
  ASSUME PlaceInv, NEW c \in Cpu, StealWork(c)
  PROVE  Placement'
  <1>d. PICK d \in Cpu \ {c} : \E i \in 1..Len(rq[d]) :
          /\ CpuLockFree(d) /\ state[rq[d][i]] # "DEAD"
          /\ rq' = [rq EXCEPT ![d] = RemoveAt(@, i)]
          /\ cand' = [cand EXCEPT ![c] = rq[d][i]]
    BY DEF StealWork
  <1>0. PICK q \in Task :
          /\ q \in Members(rq[d]) /\ state[q] # "DEAD"
          /\ \A e \in Cpu : Injective(rq'[e])
          /\ \A e \in Cpu, r \in Task :
                r \in Members(rq'[e]) <=> r \in Members(rq[e]) /\ ~(e = d /\ r = q)
          /\ cand' = [cand EXCEPT ![c] = q]
    <2>1. PICK i \in 1..Len(rq[d]) :
            /\ state[rq[d][i]] # "DEAD"
            /\ rq' = [rq EXCEPT ![d] = RemoveAt(@, i)]
            /\ cand' = [cand EXCEPT ![c] = rq[d][i]]
      BY <1>d
    <2> DEFINE q == rq[d][i]
    <2>2. /\ q \in Task /\ q \in Members(rq[d])
          /\ \A e \in Cpu : Injective(rq'[e])
          /\ \A e \in Cpu, r \in Task :
                r \in Members(rq'[e]) <=> r \in Members(rq[e]) /\ ~(e = d /\ r = q)
      BY <2>1, RemovePlaces
    <2>3. state[q] # "DEAD" /\ cand' = [cand EXCEPT ![c] = q]
      BY <2>1
    <2> HIDE DEF q
    <2> QED
      BY <2>2, <2>3
  <1>s. /\ d \in Cpu /\ d # c /\ phase[d] \notin LockedPhase
        /\ phase[c] = "steal" /\ phase' = [phase EXCEPT ![c] = "install"]
        /\ UNCHANGED <<state, oncpu, pool, current, pend, stk, slock>>
    BY <1>d DEF StealWork
  <1>q. state[q] = "READY" /\ \A e \in Cpu : current[e] # q /\ pend[e] # q /\ stk[e] # q
    BY <1>0, <1>s, SMTT(30)
       DEF OneHolder, HeldState, CurrentState, StackState, Holds, TypeOK
  <1>h. \A e \in Cpu, r \in Task : Holds(e, r)' =>
            IF r = q THEN e = c ELSE Holds(e, r)
    BY <1>0, <1>s, <1>q, SMTT(30) DEF OneHolder, Holds, TypeOK
  <1>x. \A e \in Cpu : Holds(e, q) => e = d
    BY <1>0 DEF OneHolder, Holds
  <1>1. OneHolder'
    BY <1>0, <1>h DEF OneHolder
  <1>2. HeldState'
    BY <1>0, <1>s, <1>q, <1>x, SchedAssumption, SMTT(30) DEF HeldState, Holds, TypeOK
  <1>p. phase'[c] = "install" /\ \A e \in Cpu : e # c => phase'[e] = phase[e]
    BY <1>s DEF TypeOK
  <1>3. CurrentState'
    BY <1>0, <1>s, <1>q, <1>p, SchedAssumption, SMTT(30) DEF CurrentState
  <1>4. StackState'
    <2>1. ASSUME NEW e \in Cpu, NEW r \in Task, r = stk[e], r # current[e]
          PROVE  /\ state[r] \notin Built
                 /\ \/ phase'[e] = "iret" /\ r = pend[e]
                    \/ \A f \in Cpu : ~Holds(f, r)'
      BY <1>s, <1>q, <1>p, <1>h, <2>1 DEF StackState
    <2>2. ASSUME NEW e \in Cpu, stk[e] # current[e]
          PROVE  \/ phase'[e] = "iret"
                 \/ current[e] = Idle /\ phase'[e] \in {"pick", "steal", "install"}
      BY <1>s, <1>p, <2>2 DEF StackState
    <2> QED
      BY <1>s, <2>1, <2>2 DEF StackState
  <1>5. CallState'
    BY <1>0, <1>s, SchedAssumption, SMTT(30) DEF CallState, TypeOK
  <1> QED
    BY <1>1, <1>2, <1>3, <1>4, <1>5

(* The common part of Install: the CPU was in the locked phase "install",  *)
(* so nothing is parked on it and it stands on the stack of its current    *)
(* process, if it has one.                                                 *)
LEMMA InstallFacts ==
  ASSUME PlaceInv, NEW c \in Cpu, Install(c)
  PROVE  /\ phase[c] = "install" /\ pend[c] = Idle
         /\ current[c] # Idle => stk[c] = current[c]
         /\ cand[c] # Idle =>
               /\ cand[c] \in Task /\ state[cand[c]] \in {"READY", "DEAD"}
               /\ \A d \in Cpu : cand[c] \notin Members(rq[d])
               /\ \A d \in Cpu : Holds(d, cand[c]) => d = c
               /\ \A d \in Cpu : stk[d] = cand[c] => d = c /\ current[c] = cand[c]
  <1>1. phase[c] = "install" /\ pend[c] \in Task \cup {Idle} /\ cand[c] \in Task \cup {Idle}
    BY DEF Install, TypeOK
  <1>2. pend[c] = Idle
    BY <1>1 DEF HeldState
  <1>3. current[c] # Idle => stk[c] = current[c]
    BY <1>1 DEF StackState
  <1>4. ASSUME cand[c] # Idle
        PROVE  /\ cand[c] \in Task /\ state[cand[c]] \in {"READY", "DEAD"}
               /\ cand[c] \notin Members(rq[c]) /\ Holds(c, cand[c])
               /\ \A d \in Cpu : Holds(d, cand[c]) => d = c
    BY <1>1, <1>4 DEF OneHolder, HeldState, Holds
  <1>5. ASSUME cand[c] # Idle, NEW d \in Cpu, stk[d] = cand[c]
        PROVE  d = c /\ current[c] = cand[c]
    <2>1. CASE stk[d] = current[d]
      BY <1>4, <1>5, <2>1 DEF Holds
    <2>2. CASE stk[d] # current[d]
      <3>1. (phase[d] = "iret" /\ cand[c] = pend[d]) \/ \A e \in Cpu : ~Holds(e, cand[c])
        BY <1>4, <1>5, <2>2 DEF StackState
      <3>2. cand[c] # pend[d]
        BY <1>2, <1>4, <1>5 DEF Holds
      <3> QED
        BY <1>4, <1>5, <3>1, <3>2
    <2> QED
      BY <2>1, <2>2
  <1>6. ASSUME cand[c] # Idle, NEW d \in Cpu PROVE cand[c] \notin Members(rq[d])
    BY <1>4, <1>6 DEF Holds
  <1> QED
    BY <1>1, <1>2, <1>3, <1>4, <1>5, <1>6

LEMMA InstallPlaces ==
  ASSUME PlaceInv, NEW c \in Cpu, Install(c)
  PROVE  Placement'
  <1> DEFINE next == cand[c]
             prev == current[c]
             parks == prev \in Task /\ prev # next /\ state[prev] = "READY"
  <1>0. /\ phase[c] = "install" /\ pend[c] = Idle
        /\ prev # Idle => stk[c] = prev
        /\ next # Idle =>
              /\ next \in Task /\ state[next] \in {"READY", "DEAD"}
              /\ \A d \in Cpu : next \notin Members(rq[d])
              /\ \A d \in Cpu : Holds(d, next) => d = c
              /\ \A d \in Cpu : stk[d] = next => d = c /\ prev = next
    BY InstallFacts
  <1>1. /\ prev \in Task \cup {Idle}
        /\ prev \in Task => /\ oncpu[prev] = c /\ state[prev] \notin Built
                           /\ \A d \in Cpu : Holds(d, prev) => d = c
    BY DEF OneHolder, CurrentState, Holds, TypeOK
  <1>2. /\ cand'[c] = Idle /\ \A d \in Cpu : d # c => cand'[d] = cand[d]
        /\ current'[c] = next /\ \A d \in Cpu : d # c => current'[d] = current[d]
        /\ phase'[c] = IF stk[c] = next THEN "user" ELSE "iret"
        /\ \A d \in Cpu : d # c => phase'[d] = phase[d]
        /\ UNCHANGED <<pool, stk, slock>>
    BY DEF Install, TypeOK
  <1>3. /\ \A p \in Task : p # next => state'[p] = state[p] /\ oncpu'[p] = oncpu[p]
        /\ next # Idle => state'[next] = "RUNNING" /\ oncpu'[next] = c
    BY <1>0, SchedAssumption, SMTT(30) DEF Install, TypeOK
  <1>4. /\ \A d \in Cpu : Injective(rq'[d])
        /\ \A d \in Cpu, r \in Task : r \in Members(rq'[d]) <=>
              r \in Members(rq[d]) /\ ~(parks /\ r = prev)
        /\ pend'[c] = (IF parks THEN prev ELSE Idle)
        /\ \A d \in Cpu : d # c => pend'[d] = pend[d]
    <2>1. CASE parks
      <3>1. Unlink(prev) /\ pend' = [pend EXCEPT ![c] = prev]
        BY <2>1, SchedAssumption DEF Install
      <3> QED
        BY <2>1, <3>1, UnlinkPlaces DEF TypeOK
    <2>2. CASE ~parks
      <3>1. UNCHANGED <<rq, pend>>
        BY <1>1, <2>2 DEF Install
      <3> QED
        BY <1>0, <2>2, <3>1 DEF OneHolder
    <2> QED
      BY <2>1, <2>2
  <1>5. prev \in Task /\ ~parks => \A d \in Cpu : prev \notin Members(rq[d])
    <2>1. CASE prev = next
      BY <1>0, <2>1, SchedAssumption
    <2>2. CASE prev # next
      BY <1>0, <1>1, <2>2, SMTT(30) DEF CurrentState, Holds
    <2> QED
      BY <2>1, <2>2
  <1> HIDE DEF next, parks
  <1>6. \A d \in Cpu, r \in Task : Holds(d, r)' => Holds(d, r)
    BY <1>0, <1>2, <1>4, SchedAssumption, SMTT(30) DEF Holds, next, parks
  <1>7. OneHolder'
    BY <1>4, <1>6 DEF OneHolder
  <1>8. HeldState'
    BY <1>0, <1>1, <1>2, <1>3, <1>4, SchedAssumption, SMTT(30)
       DEF HeldState, Holds, parks
  <1>9. CurrentState'
    BY <1>0, <1>1, <1>2, <1>3, <1>4, SchedAssumption, SMTT(30) DEF CurrentState, Holds
  <1>10. StackState'
    BY <1>0, <1>1, <1>2, <1>3, <1>4, <1>5, <1>6, SchedAssumption, SMTT(30)
       DEF StackState, Holds
  <1>11. CallState'
    <2>e. \A p \in Task : /\ state'[p] # "STOPPED"
                          /\ state[p] \notin Built => state'[p] \notin Built
                          /\ state[p] # "UNUSED" => state'[p] # "UNUSED"
                          /\ state[p] = "SLEEPING" => state'[p] = "SLEEPING"
                          /\ state[p] = "CREATED" => state'[p] = "CREATED"
      BY <1>0, <1>3, SchedAssumption, SMTT(30) DEF CallState
    <2>1. \A p \in pool' : state'[p] # "UNUSED"
      BY <1>2, <2>e DEF CallState, TypeOK
    <2> QED
      BY <1>0, <1>2, <2>e, <2>1, SMTT(30) DEF CallState
  <1> QED
    BY <1>7, <1>8, <1>9, <1>10, <1>11

=============================================================================
