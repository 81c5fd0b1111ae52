------------------------ MODULE SchedPlacementProofs ------------------------
(***************************************************************************)
(* The scheduler keeps every process in one place, for every number of     *)
(* CPUs and processes, every priority assignment and every focus, as long  *)
(* as no process makes another one READY (Ops without "send" and "stop").  *)
(***************************************************************************)
EXTENDS SchedSwitchProofs

USE ZenonT(30) DEF PlaceInv, Placement, TypeInv, GoTo, procVars, callVars, schedVars,
        Built, Corpse, LockedPhase, CpuLockFree

LEMMA ExitPlaces ==
  ASSUME PlaceInv, NEW c \in Cpu, Exit(c)
  PROVE  Placement'
  <1>1. OneHolder'
    BY SMTT(30)
       DEF OneHolder, HeldState, CurrentState, StackState, CallState, Holds, Exit, Calls
  <1>2. HeldState'
    BY SMTT(30)
       DEF OneHolder, HeldState, CurrentState, StackState, CallState, Holds, Exit, Calls
  <1>3. CurrentState'
    BY SMTT(30)
       DEF OneHolder, HeldState, CurrentState, StackState, CallState, Exit, Calls
  <1>4. StackState'
    BY SMTT(30)
       DEF OneHolder, HeldState, CurrentState, StackState, CallState, Holds, Exit, Calls
  <1>5. CallState'
    BY SMTT(30) DEF CurrentState, StackState, CallState, Exit, Calls
  <1> QED
    BY <1>1, <1>2, <1>3, <1>4, <1>5

LEMMA KillSelfPlaces ==
  ASSUME PlaceInv, NEW c \in Cpu, KillSelf(c)
  PROVE  Placement'
  <1>1. OneHolder'
    BY SamePlaces DEF KillSelf
  <1>2. HeldState'
    BY SMTT(30) DEF OneHolder, HeldState, CurrentState, Holds, KillSelf, Calls
  <1>3. CurrentState'
    BY SMTT(30) DEF CurrentState, KillSelf, Calls
  <1>4. StackState'
    BY SMTT(30) DEF StackState, Holds, KillSelf, Calls
  <1>5. CallState'
    BY SMTT(30) DEF CurrentState, CallState, KillSelf, Calls
  <1> QED
    BY <1>1, <1>2, <1>3, <1>4, <1>5

LEMMA KillPlaces ==
  ASSUME PlaceInv, NEW c \in Cpu, NEW p \in Task, Kill(c, p)
  PROVE  Placement'
  <1>1. CASE UNCHANGED <<state, oncpu, pool, rq, current, pend, cand, stk, slock, phase>>
    <2>1. OneHolder'
      BY <1>1, SMTT(30) DEF OneHolder, Holds, Calls
    <2>2. HeldState'
      BY <1>1 DEF HeldState, Calls
    <2>3. CurrentState'
      BY <1>1, SMTT(30)
         DEF OneHolder, HeldState, CurrentState, StackState, CallState, Calls
    <2>4. StackState'
      BY <1>1, SMTT(30) DEF StackState, Holds, Calls
    <2>5. CallState'
      BY <1>1 DEF CallState, Calls
    <2> QED
      BY <2>1, <2>2, <2>3, <2>4, <2>5
  <1>2. CASE /\ phase[c] = "user" /\ slock = NoCpu /\ slock' = c
              /\ p \in pool /\ state[p] \notin Corpse \cup {"CREATED"}
              /\ cand' = [cand EXCEPT ![c] = p]
              /\ phase' = [phase EXCEPT ![c] =
                             IF state[p] \in {"READY", "RUNNING"} THEN "kmark" ELSE "ktail"]
              /\ UNCHANGED <<state, oncpu, pool, rq, current, pend, stk>>
    <2>0. state[p] \in {"READY", "RUNNING", "SLEEPING"}
      BY <1>2 DEF CallState, TypeOK, State
    <2>1. OneHolder'
      BY <1>2, SMTT(30) DEF OneHolder, HeldState, Holds, Calls
    <2>2. HeldState'
      BY <1>2, SMTT(30) DEF OneHolder, HeldState, Calls
    <2>3. CurrentState'
      BY <1>2, SMTT(30) DEF HeldState, CurrentState, Calls
    <2>4. StackState'
      BY <1>2, SMTT(30)
         DEF OneHolder, HeldState, CurrentState, StackState, CallState, Holds, Calls
    <2>5. CallState'
      BY <1>2, <2>0, NoCpuNotCpu, SMTT(30)
         DEF OneHolder, HeldState, CurrentState, CallState, Holds, TypeOK, Calls
    <2> QED
      BY <2>1, <2>2, <2>3, <2>4, <2>5
  <1> QED
    BY <1>1, <1>2 DEF Kill, Calls

LEMMA SpawnCreatePlaces ==
  ASSUME PlaceInv, NEW c \in Cpu, NEW p \in Task, SpawnCreate(c, p)
  PROVE  Placement'
  <1>1. OneHolder'
    BY SMTT(30)
       DEF OneHolder, HeldState, CurrentState, StackState, CallState, Holds, SpawnCreate, Calls
  <1>2. HeldState'
    BY SMTT(30) DEF OneHolder, HeldState, StackState, SpawnCreate, Calls
  <1>3. CurrentState'
    BY SMTT(30)
       DEF OneHolder, HeldState, CurrentState, StackState, CallState, SpawnCreate, Calls
  <1>4. StackState'
    BY SMTT(30)
       DEF OneHolder, HeldState, CurrentState, StackState, CallState, Holds, SpawnCreate, Calls
  <1>5. CallState'
    BY SMTT(30)
       DEF OneHolder, HeldState, CurrentState, StackState, CallState, Holds, TypeOK, SpawnCreate, Calls
  <1> QED
    BY <1>1, <1>2, <1>3, <1>4, <1>5

LEMMA SpawnFinishPlaces ==
  ASSUME PlaceInv, NEW c \in Cpu, NEW loaded \in BOOLEAN, SpawnFinish(c, loaded)
  PROVE  Placement'
  <1> DEFINE q == cand[c]
  <1>0. /\ phase[c] = "spawn" /\ q \in Task /\ state[q] = "CREATED"
        /\ \A d \in Cpu : ~Holds(d, q) /\ stk[d] # q
        /\ \A d \in Cpu : phase[d] = "spawn" /\ cand[d] = q => d = c
    <2>1. phase[c] = "spawn" /\ q \in Task /\ state[q] = "CREATED"
      BY DEF SpawnFinish, CallState
    <2>2. \A d \in Cpu : ~Holds(d, q)
      BY <2>1, SMTT(30) DEF HeldState, CurrentState, Holds
    <2>3. \A d \in Cpu : stk[d] # q
      BY <2>1, <2>2 DEF StackState, Holds
    <2> QED
      BY <2>1, <2>2, <2>3 DEF CallState
  <1>1. /\ cand'[c] = Idle /\ \A d \in Cpu : d # c => cand'[d] = cand[d]
        /\ phase'[c] = "user" /\ \A d \in Cpu : d # c => phase'[d] = phase[d]
        /\ pool' \subseteq pool /\ UNCHANGED <<current, pend, stk, slock>>
    BY DEF SpawnFinish, TypeOK
  <1>2. CASE UNCHANGED <<state, oncpu, rq>>
    <2>h. \A d \in Cpu, r \in Task : Holds(d, r)' => Holds(d, r)
      BY <1>1, <1>2 DEF Holds
    <2>1. OneHolder'
      BY <1>2, <2>h DEF OneHolder
    <2>2. HeldState'
      BY <1>0, <1>1, <1>2, SMTT(30) DEF HeldState
    <2>3. CurrentState'
      BY <1>0, <1>1, <1>2, SMTT(30) DEF CurrentState
    <2>4. StackState'
      BY <1>0, <1>1, <1>2, <2>h, SMTT(30) DEF StackState
    <2>5. CallState'
      BY <1>0, <1>1, <1>2, SMTT(30) DEF CallState
    <2> QED
      BY <2>1, <2>2, <2>3, <2>4, <2>5
  <1>3. CASE EnqueueAs(q, "CREATED")
    <2> DEFINE t == Target(q)
    <2>a. ~Linked(q)
      BY <1>0 DEF Linked, Holds
    <2>b. /\ t \in Cpu
          /\ state' = [state EXCEPT ![q] = "READY"] /\ oncpu' = [oncpu EXCEPT ![q] = t]
          /\ \A d \in Cpu : Injective(rq'[d])
          /\ \A d \in Cpu, r \in Task :
                r \in Members(rq'[d]) <=> r \in Members(rq[d]) \/ (d = t /\ r = q)
      BY <1>0, <1>3, <2>a, EnqueuePlaces
    <2>c. /\ state'[q] = "READY" /\ oncpu'[q] = t
          /\ \A r \in Task : r # q => state'[r] = state[r] /\ oncpu'[r] = oncpu[r]
      BY <1>0, <2>b DEF TypeOK
    <2> HIDE DEF q, t
    <2>h. \A d \in Cpu, r \in Task : Holds(d, r)' => Holds(d, r) \/ (d = t /\ r = q)
      BY <1>0, <1>1, <2>b DEF Holds
    <2>1. OneHolder'
      BY <1>0, <2>b, <2>h, SMTT(30) DEF OneHolder
    <2>2. HeldState'
      BY <1>0, <1>1, <2>b, <2>c, SchedAssumption, SMTT(30) DEF HeldState, Holds
    <2>3. CurrentState'
      BY <1>0, <1>1, <2>b, <2>c, SMTT(30) DEF CurrentState, Holds
    <2>4. StackState'
      BY <1>0, <1>1, <2>c, <2>h, SMTT(30) DEF StackState, Holds
    <2>5. CallState'
      <3>e. \A p \in Task : /\ state'[p] # "STOPPED"
                            /\ state[p] \notin Built => state'[p] \notin Built
                            /\ state[p] # "UNUSED" => state'[p] # "UNUSED"
                            /\ state[p] = "SLEEPING" => state'[p] = "SLEEPING"
                            /\ state[p] = "CREATED" /\ p # q => state'[p] = "CREATED"
        BY <1>0, <2>c DEF CallState
      <3>1. \A p \in pool' : state'[p] # "UNUSED"
        BY <1>1, <3>e DEF CallState, TypeOK
      <3> QED
        BY <1>0, <1>1, <3>e, <3>1, SMTT(30) DEF CallState, q
    <2> QED
      BY <2>1, <2>2, <2>3, <2>4, <2>5
  <1> QED
    BY <1>0, <1>2, <1>3 DEF SpawnFinish

----------------------------------------------------------------------------
(* The induction.                                                          *)

LEMMA InitPlaces == Init => Placement
  <1> SUFFICES ASSUME Init PROVE Placement
    OBVIOUS
  <1>1. PICK s \in [1..Cardinality(Boot) -> Boot] :
          Injective(s) /\ rq = [c \in Cpu |-> IF c = 0 THEN s ELSE <<>>]
    BY DEF Init
  <1>2. Injective(<<>>) /\ Members(<<>>) = {}
    BY SMTT(30) DEF Injective, Members
  <1>3. Members(s) \subseteq Boot
    <2>1. Cardinality(Boot) \in Nat
      BY SchedAssumption
    <2>2. Len(s) = Cardinality(Boot)
      BY <2>1, SMTT(30)
    <2> QED
      BY <2>1, <2>2 DEF Members
  <1>4. \A c \in Cpu : /\ Injective(rq[c])
                      /\ \A p \in Members(rq[c]) : p \in Boot /\ c = 0
    BY <1>1, <1>2, <1>3
  <1>5. \A c \in Cpu, p \in Task : Holds(c, p) => p \in Boot /\ c = 0
    BY <1>4, SchedAssumption DEF Init, Holds
  <1>6. OneHolder
    BY <1>4, <1>5 DEF OneHolder
  <1>7. HeldState
    BY <1>4, SchedAssumption DEF Init, HeldState
  <1>8. CurrentState
    BY SchedAssumption DEF Init, CurrentState
  <1>9. StackState
    BY SchedAssumption DEF Init, StackState
  <1>10. CallState
    BY SchedAssumption DEF Init, CallState
  <1> QED
    BY <1>6, <1>7, <1>8, <1>9, <1>10

LEMMA NextPlaces == NoWaker /\ PlaceInv /\ [Next]_vars => Placement'
  <1> SUFFICES ASSUME NoWaker, PlaceInv, [Next]_vars PROVE Placement'
    OBVIOUS
  <1>1. CASE UNCHANGED vars
    BY <1>1, SMTT(30)
       DEF vars, OneHolder, HeldState, CurrentState, StackState, CallState, Holds
  <1>2. ASSUME NEW c \in Cpu, Tick(c) \/ Schedule(c) \/ Recv(c) \/ Exit(c) \/ KillSelf(c)
        PROVE  Placement'
    BY <1>2, TickPlaces, ReapDeferredPlaces, RequeuePendingPlaces, RetirePrevPlaces,
       PickLocalPlaces, NothingLocalPlaces, StealWorkPlaces, StealNothingPlaces,
       InstallPlaces, IretPlaces, RecvPlaces, ExitPlaces, KillSelfPlaces, Zenon
       DEF Schedule
  <1>3. ASSUME NEW c \in Cpu, Finish(c) PROVE Placement'
    <2>1. ~SendWake(c)
      BY DEF SendWake, CallState
    <2> QED
      BY <1>3, <2>1, KillMarkPlaces, KillTailPlaces, KillScanPlaces, SpawnFinishPlaces, Zenon
         DEF Finish
  <1>4. ASSUME NEW c \in Cpu, NEW p \in Task,
               Send(c, p) \/ Kill(c, p) \/ Stop(c, p) \/ Cont(c, p) \/ SpawnCreate(c, p)
        PROVE  Placement'
    <2>1. ~Send(c, p) /\ ~Stop(c, p) /\ ~Cont(c, p)
      BY DEF NoWaker, Send, Stop, Cont, Calls
    <2> QED
      BY <1>4, <2>1, KillPlaces, SpawnCreatePlaces, Zenon
  <1> QED
    BY <1>1, <1>2, <1>3, <1>4 DEF Next, Syscall

(* Placement is an invariant: whatever the number of CPUs and processes,   *)
(* their priorities and the focus, every stage of schedule() on every CPU, *)
(* interleaved with spawns, receives, exits and kills, leaves each process *)
(* queued, parked, chosen or current on at most one CPU, in a state that   *)
(* fits the place.                                                         *)
THEOREM SchedPlacement == NoWaker /\ Spec => []Placement
  <1>1. Init => PlaceInv
    BY InitTyped, InitPlaces
  <1>2. NoWaker /\ PlaceInv /\ [Next]_vars => PlaceInv'
    BY NextTyped, NextPlaces
  <1>3. PlaceInv => Placement
    OBVIOUS
  <1> HIDE DEF PlaceInv, Placement
  <1>4. SUFFICES ASSUME NoWaker PROVE Spec => []Placement
    OBVIOUS
  <1> QED
    BY <1>1, <1>2, <1>3, <1>4, PTL DEF Spec

(* No process is current_task of two CPUs, for every instance.             *)
THEOREM SchedRunsOnOneCpu == NoWaker /\ Spec => []RunsOnOneCpu
  <1>1. PlaceInv => RunsOnOneCpu
    BY DEF OneHolder, Holds, RunsOnOneCpu, TypeOK
  <1>2. Init => PlaceInv
    BY InitTyped, InitPlaces
  <1>3. NoWaker /\ PlaceInv /\ [Next]_vars => PlaceInv'
    BY NextTyped, NextPlaces
  <1> HIDE DEF PlaceInv, RunsOnOneCpu
  <1>4. SUFFICES ASSUME NoWaker PROVE Spec => []RunsOnOneCpu
    OBVIOUS
  <1> QED
    BY <1>1, <1>2, <1>3, <1>4, PTL DEF Spec

(* A CPU is alone on the kernel stack it stands on until its iretq, for    *)
(* every instance: no other CPU stands on it or has the process current.   *)
THEOREM SchedStackExclusive == NoWaker /\ Spec => []StackExclusive
  <1>1. PlaceInv => StackExclusive
    BY SMTT(30) DEF OneHolder, StackState, Holds, StackExclusive, TypeOK
  <1>2. Init => PlaceInv
    BY InitTyped, InitPlaces
  <1>3. NoWaker /\ PlaceInv /\ [Next]_vars => PlaceInv'
    BY NextTyped, NextPlaces
  <1> HIDE DEF PlaceInv, StackExclusive
  <1>4. SUFFICES ASSUME NoWaker PROVE Spec => []StackExclusive
    OBVIOUS
  <1> QED
    BY <1>1, <1>2, <1>3, <1>4, PTL DEF Spec
=============================================================================
