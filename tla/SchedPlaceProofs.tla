-------------------------- MODULE SchedPlaceProofs --------------------------
(***************************************************************************)
(* Every process is in one place: what the queue operations do to the      *)
(* places, and the steps of schedule() and of the system calls that link   *)
(* no process to a queue.                                                  *)
(***************************************************************************)
EXTENDS SchedProofs

(* No system call of another process makes a process READY.                *)
NoWaker == Ops \cap {"send", "stop"} = {}

PlaceInv == TypeInv /\ Placement

USE ZenonT(30) DEF PlaceInv, Placement, TypeInv, GoTo, procVars, callVars, schedVars,
        Built, Corpse, LockedPhase, CpuLockFree

LEMMA NoCpuNotCpu == NoCpu \notin Cpu
  BY SMTT(30) DEF NoCpu, Cpu

(* What an enqueue does to the queues, for a process that is on none.      *)
LEMMA EnqueuePlaces ==
  ASSUME TypeOK, OneHolder, NEW p \in Task, NEW st \in {"CREATED", "READY"},
         ~Linked(p), EnqueueAs(p, st)
  PROVE  /\ Target(p) \in Cpu
         /\ state' = [state EXCEPT ![p] = "READY"]
         /\ oncpu' = [oncpu EXCEPT ![p] = Target(p)]
         /\ \A d \in Cpu : Injective(rq'[d])
         /\ \A d \in Cpu, r \in Task : r \in Members(rq'[d]) <=>
                 r \in Members(rq[d]) \/ (d = Target(p) /\ r = p)
  <1> DEFINE t == Target(p)
  <1>1. t \in Cpu
    BY TargetInCpu
  <1>2. /\ state' = [state EXCEPT ![p] = "READY"]
        /\ oncpu' = [oncpu EXCEPT ![p] = t]
        /\ rq' = [rq EXCEPT ![t] = Append(rq[t], p)]
    BY DEF EnqueueAs, Corpse
  <1>3. /\ rq'[t] = Append(rq[t], p) /\ rq[t] \in Seq(Task)
        /\ \A d \in Cpu : d # t => rq'[d] = rq[d]
    BY <1>1, <1>2 DEF TypeOK
  <1>4. p \notin Members(rq[t]) /\ \A d \in Cpu : Injective(rq[d])
    BY <1>1 DEF Linked, OneHolder
  <1>5. Members(rq'[t]) = Members(rq[t]) \cup {p} /\ Injective(rq'[t])
    BY <1>1, <1>3, <1>4, AppendFacts, SMTT(30)
  <1>6. ASSUME NEW d \in Cpu
        PROVE  /\ Injective(rq'[d])
               /\ \A r \in Task : r \in Members(rq'[d]) <=>
                     r \in Members(rq[d]) \/ (d = t /\ r = p)
    <2>1. CASE d = t
      BY <1>5, <2>1
    <2>2. CASE d # t
      BY <1>3, <1>4, <2>2
    <2> QED
      BY <2>1, <2>2
  <1> QED
    BY <1>1, <1>2, <1>6

(* What a dequeue does to the queues.                                      *)
LEMMA RemovePlaces ==
  ASSUME TypeOK, OneHolder, NEW c \in Cpu, NEW i \in 1..Len(rq[c]),
         rq' = [rq EXCEPT ![c] = RemoveAt(@, i)]
  PROVE  /\ rq[c][i] \in Task /\ rq[c][i] \in Members(rq[c])
         /\ \A d \in Cpu : Injective(rq'[d])
         /\ \A d \in Cpu, r \in Task : r \in Members(rq'[d]) <=>
                 r \in Members(rq[d]) /\ ~(d = c /\ r = rq[c][i])
  <1>1. /\ rq'[c] = RemoveAt(rq[c], i) /\ rq[c] \in Seq(Task)
        /\ \A d \in Cpu : d # c => rq'[d] = rq[d]
    BY DEF TypeOK
  <1>2. \A d \in Cpu : Injective(rq[d])
    BY DEF OneHolder
  <1>3. Members(rq'[c]) = Members(rq[c]) \ {rq[c][i]} /\ Injective(rq'[c])
    BY <1>1, <1>2, RemoveAtFacts, SMTT(30)
  <1>4. rq[c][i] \in Task /\ rq[c][i] \in Members(rq[c])
    BY <1>1, SMTT(30) DEF Members
  <1>5. ASSUME NEW d \in Cpu
        PROVE  /\ Injective(rq'[d])
               /\ \A r \in Task : r \in Members(rq'[d]) <=>
                     r \in Members(rq[d]) /\ ~(d = c /\ r = rq[c][i])
    <2>1. CASE d = c
      BY <1>3, <2>1
    <2>2. CASE d # c
      BY <1>1, <1>2, <2>2
    <2> QED
      BY <2>1, <2>2
  <1> QED
    BY <1>4, <1>5

LEMMA UnlinkPlaces ==
  ASSUME TypeOK, OneHolder, NEW p, Unlink(p)
  PROVE  /\ \A d \in Cpu : Injective(rq'[d])
         /\ \A d \in Cpu, r \in Task :
                r \in Members(rq'[d]) <=> r \in Members(rq[d]) /\ r # p
  <1> SUFFICES ASSUME NEW d \in Cpu
               PROVE  Injective(rq'[d]) /\ Members(rq'[d]) = Members(rq[d]) \ {p}
    OBVIOUS
  <1>1. Injective(rq[d]) /\ rq[d] \in Seq(Task)
    BY DEF OneHolder, TypeOK
  <1>2. CASE p \notin Members(rq[d])
    BY <1>1, <1>2 DEF Unlink
  <1>3. CASE p \in Members(rq[d])
    <2> DEFINE i == CHOOSE i \in 1..Len(rq[d]) : rq[d][i] = p
    <2>1. i \in 1..Len(rq[d]) /\ rq[d][i] = p
      BY <1>3 DEF Members
    <2>2. rq'[d] = RemoveAt(rq[d], i)
      BY <1>3 DEF Unlink
    <2> HIDE DEF i
    <2> QED
      BY <1>1, <2>1, <2>2, RemoveAtFacts, SMTT(30)
  <1> QED
    BY <1>2, <1>3

LEMMA TargetHeld == \A p \in Task : oncpu[p] \in Cpu => Target(p) = oncpu[p]
  BY SchedAssumption, SMTT(30) DEF Target, Cpu

(* A step that moves no process keeps the one holder.                      *)
LEMMA SamePlaces ==
  ASSUME OneHolder, UNCHANGED <<rq, pend, current, cand, phase>>
  PROVE  OneHolder'
  <1>1. \A d \in Cpu, r \in Task : Holds(d, r)' <=> Holds(d, r)
    BY DEF Holds
  <1> QED
    BY <1>1 DEF OneHolder

LEMMA TickPlaces ==
  ASSUME PlaceInv, NEW c \in Cpu, Tick(c)
  PROVE  Placement'
  <1>1. OneHolder'
    BY SMTT(30) DEF OneHolder, Holds, Tick
  <1>2. HeldState'
    BY SMTT(30) DEF HeldState, Tick
  <1>3. CurrentState'
    BY SMTT(30) DEF CurrentState, Tick
  <1>4. StackState'
    BY SMTT(30) DEF StackState, Holds, Tick
  <1>5. CallState'
    BY SMTT(30) DEF CallState, Tick
  <1> QED
    BY <1>1, <1>2, <1>3, <1>4, <1>5

LEMMA ReapDeferredPlaces ==
  ASSUME PlaceInv, NEW c \in Cpu, ReapDeferred(c)
  PROVE  Placement'
  <1>1. OneHolder'
    BY SMTT(30) DEF OneHolder, StackState, Holds, ReapDeferred
  <1>2. HeldState'
    BY SMTT(30) DEF HeldState, ReapDeferred
  <1>3. CurrentState'
    BY SMTT(30) DEF CurrentState, ReapDeferred
  <1>4. StackState'
    BY SMTT(30) DEF StackState, Holds, ReapDeferred
  <1>5. CallState'
    BY SMTT(30) DEF CallState, ReapDeferred
  <1> QED
    BY <1>1, <1>2, <1>3, <1>4, <1>5

LEMMA NothingLocalPlaces ==
  ASSUME PlaceInv, NEW c \in Cpu, NothingLocal(c)
  PROVE  Placement'
  <1>0. Members(rq[c]) = {}
    BY SMTT(30) DEF NothingLocal, Members
  <1>1. OneHolder'
    BY <1>0, SMTT(30) DEF OneHolder, Holds, NothingLocal
  <1>2. HeldState'
    BY <1>0, SMTT(30) DEF HeldState, NothingLocal
  <1>3. CurrentState'
    BY <1>0, SMTT(30) DEF CurrentState, NothingLocal
  <1>4. StackState'
    BY <1>0, SMTT(30) DEF StackState, Holds, NothingLocal
  <1>5. CallState'
    BY <1>0, SMTT(30) DEF CallState, NothingLocal
  <1> QED
    BY <1>1, <1>2, <1>3, <1>4, <1>5

LEMMA StealNothingPlaces ==
  ASSUME PlaceInv, NEW c \in Cpu, StealNothing(c)
  PROVE  Placement'
  <1>1. CASE /\ phase[c] = "steal" /\ phase' = [phase EXCEPT ![c] = "user"]
              /\ current[c] # Idle /\ state[current[c]] = "RUNNING"
              /\ UNCHANGED <<state, oncpu, pool, rq, current, pend, cand, stk, slock>>
    <2>1. OneHolder'
      BY <1>1, SMTT(30)
         DEF OneHolder, HeldState, CurrentState, StackState, CallState, Holds
    <2>2. HeldState'
      BY <1>1, SMTT(30) DEF OneHolder, HeldState, StackState
    <2>3. CurrentState'
      BY <1>1, SMTT(30) DEF OneHolder, HeldState, CurrentState, StackState, CallState
    <2>4. StackState'
      BY <1>1, SMTT(30) DEF OneHolder, CurrentState, StackState, Holds
    <2>5. CallState'
      BY <1>1, SMTT(30) DEF CallState
    <2> QED
      BY <2>1, <2>2, <2>3, <2>4, <2>5
  <1>2. CASE /\ phase[c] = "steal" /\ phase' = [phase EXCEPT ![c] = "install"]
              /\ cand' = [cand EXCEPT ![c] = Idle]
              /\ UNCHANGED <<state, oncpu, pool, rq, current, pend, stk, slock>>
    <2>1. OneHolder'
      BY <1>2, SchedAssumption, SMTT(30)
         DEF OneHolder, CurrentState, StackState, Holds, TypeOK
    <2>2. HeldState'
      BY <1>2, SMTT(30) DEF HeldState, TypeOK
    <2>3. CurrentState'
      BY <1>2, SMTT(30) DEF CurrentState
    <2>4. StackState'
      BY <1>2, SchedAssumption, NoCpuNotCpu, SMTT(30)
         DEF OneHolder, CurrentState, StackState, CallState, Holds, TypeOK
    <2>5. CallState'
      BY <1>2, SMTT(30) DEF CallState
    <2> QED
      BY <2>1, <2>2, <2>3, <2>4, <2>5
  <1> QED
    BY <1>1, <1>2 DEF StealNothing

LEMMA IretPlaces ==
  ASSUME PlaceInv, NEW c \in Cpu, Iret(c)
  PROVE  Placement'
  <1>1. OneHolder'
    BY SMTT(30) DEF OneHolder, Holds, Iret
  <1>2. HeldState'
    BY SMTT(30) DEF HeldState, Iret
  <1>3. CurrentState'
    BY SMTT(30) DEF CurrentState, Iret
  <1>4. StackState'
    BY SMTT(30)
       DEF OneHolder, HeldState, CurrentState, StackState, CallState, Holds, TypeOK, Iret
  <1>5. CallState'
    BY SMTT(30) DEF CallState, Iret
  <1> QED
    BY <1>1, <1>2, <1>3, <1>4, <1>5

LEMMA KillMarkPlaces ==
  ASSUME PlaceInv, NEW c \in Cpu, KillMark(c)
  PROVE  Placement'
  <1>0. \A p \in Task : oncpu[p] \in Cpu => Target(p) = oncpu[p]
    BY TargetHeld
  <1>1. OneHolder'
    BY <1>0, SMTT(30) DEF OneHolder, Holds, KillMark, KillReturns
  <1>2. HeldState'
    BY <1>0, SMTT(30) DEF HeldState, KillMark, KillReturns
  <1>3. CurrentState'
    BY <1>0, SMTT(30) DEF CurrentState, StackState, KillMark, KillReturns
  <1>4. StackState'
    BY <1>0, SMTT(30)
       DEF OneHolder, HeldState, CurrentState, StackState, CallState, Holds, KillMark, KillReturns
  <1>5. CallState'
    BY <1>0, SMTT(30)
       DEF HeldState, CurrentState, CallState, TypeOK, KillMark, KillReturns
  <1> QED
    BY <1>1, <1>2, <1>3, <1>4, <1>5

LEMMA KillTailPlaces ==
  ASSUME PlaceInv, NEW c \in Cpu, KillTail(c)
  PROVE  Placement'
  <1>1. OneHolder'
    BY SMTT(30) DEF OneHolder, StackState, Holds, KillTail
  <1>2. HeldState'
    BY SMTT(30) DEF HeldState, KillTail
  <1>3. CurrentState'
    BY SMTT(30) DEF OneHolder, CurrentState, CallState, KillTail
  <1>4. StackState'
    BY SMTT(30) DEF StackState, Holds, KillTail
  <1>5. CallState'
    BY DEF CallState, TypeOK, KillTail
  <1> QED
    BY <1>1, <1>2, <1>3, <1>4, <1>5

LEMMA KillScanPlaces ==
  ASSUME PlaceInv, NEW c \in Cpu, KillScan(c)
  PROVE  Placement'
  <1>1. CASE UNCHANGED <<state, oncpu, pool, rq, current, pend, cand, stk, slock, phase>>
    <2>1. OneHolder'
      BY <1>1, SMTT(30) DEF OneHolder, Holds, KillReturns
    <2>2. HeldState'
      BY <1>1, SMTT(30) DEF HeldState, KillReturns
    <2>3. CurrentState'
      BY <1>1, SMTT(30) DEF OneHolder, HeldState, CurrentState, StackState, KillReturns
    <2>4. StackState'
      BY <1>1, SMTT(30) DEF StackState, Holds, KillReturns
    <2>5. CallState'
      BY <1>1 DEF CallState, KillReturns
    <2> QED
      BY <2>1, <2>2, <2>3, <2>4, <2>5
  <1>2. CASE /\ phase[c] = "kscan" /\ pool' \subseteq pool /\ KillReturns(c)
              /\ UNCHANGED <<state, oncpu, rq, current, pend, stk>>
    <2>1. OneHolder'
      BY <1>2, SMTT(30)
         DEF OneHolder, HeldState, CurrentState, StackState, Holds, KillReturns
    <2>2. HeldState'
      BY <1>2, SMTT(30) DEF HeldState, KillReturns
    <2>3. CurrentState'
      BY <1>2, SMTT(30) DEF CurrentState, StackState, KillReturns
    <2>4. StackState'
      BY <1>2, SMTT(30)
         DEF HeldState, CurrentState, StackState, CallState, Holds, KillReturns
    <2>5. CallState'
      BY <1>2 DEF CallState, TypeOK, KillReturns
    <2> QED
      BY <2>1, <2>2, <2>3, <2>4, <2>5
  <1> QED
    BY <1>1, <1>2 DEF KillScan, KillReturns

LEMMA RecvPlaces ==
  ASSUME PlaceInv, NEW c \in Cpu, Recv(c)
  PROVE  Placement'
  <1>1. OneHolder'
    BY SMTT(30)
       DEF OneHolder, HeldState, CurrentState, StackState, CallState, Holds, Recv, Calls
  <1>2. HeldState'
    BY SMTT(30)
       DEF OneHolder, HeldState, CurrentState, StackState, CallState, Holds, TypeOK, Recv, Calls
  <1>3. CurrentState'
    BY SMTT(30)
       DEF OneHolder, HeldState, CurrentState, StackState, CallState, Holds, TypeOK, Recv, Calls
  <1>4. StackState'
    BY SMTT(30)
       DEF OneHolder, HeldState, CurrentState, StackState, CallState, Holds, TypeOK, Recv, Calls
  <1>5. CallState'
    BY SMTT(30)
       DEF OneHolder, HeldState, CurrentState, StackState, CallState, Holds, TypeOK, Recv, Calls
  <1> QED
    BY <1>1, <1>2, <1>3, <1>4, <1>5

=============================================================================
