----------------------------- MODULE SchedProofs -----------------------------
(***************************************************************************)
(* What the scheduler's queue operations do, and that every step keeps the *)
(* types: for every number of CPUs and processes, every priority           *)
(* assignment, every focus and every choice of system calls.               *)
(***************************************************************************)
EXTENDS Sched, TLAPS

(* A leaf is for Zenon unless it cites SMT.                                *)
USE ZenonT(30)

----------------------------------------------------------------------------
(* Queues.                                                                 *)

LEMMA AppendFacts ==
  ASSUME NEW S, NEW s \in Seq(S), NEW p \in S
  PROVE  /\ Append(s, p) \in Seq(S)
         /\ Members(Append(s, p)) = Members(s) \cup {p}
         /\ Injective(s) /\ p \notin Members(s) => Injective(Append(s, p))
  <1>1. /\ Append(s, p) \in Seq(S) /\ Len(Append(s, p)) = Len(s) + 1 /\ Len(s) \in Nat
        /\ \A i \in 1..Len(s) : Append(s, p)[i] = s[i]
        /\ Append(s, p)[Len(s) + 1] = p
    BY SMTT(30)
  <1>2. 1..(Len(s) + 1) = (1..Len(s)) \cup {Len(s) + 1}
    BY <1>1, SMTT(30)
  <1>3. Members(Append(s, p)) = Members(s) \cup {p}
    BY <1>1, <1>2 DEF Members
  <1>4. Injective(s) /\ p \notin Members(s) => Injective(Append(s, p))
    BY <1>1, <1>2, SMTT(30) DEF Members, Injective
  <1> QED
    BY <1>1, <1>3, <1>4

LEMMA RemoveAtFacts ==
  ASSUME NEW S, NEW s \in Seq(S), NEW i \in 1..Len(s)
  PROVE  /\ RemoveAt(s, i) \in Seq(S)
         /\ Injective(s) => Injective(RemoveAt(s, i))
         /\ Injective(s) => Members(RemoveAt(s, i)) = Members(s) \ {s[i]}
  <1> DEFINE n == Len(s) - 1
             t == [j \in 1..n |-> IF j < i THEN s[j] ELSE s[j + 1]]
  <1>1. Len(s) \in Nat /\ n \in Nat /\ i \in 1..(n + 1) /\ \A j \in 1..(n + 1) : s[j] \in S
    BY SMTT(30)
  <1>2. t \in [1..n -> S]
    BY <1>1, SMTT(30)
  <1>3. t \in Seq(S) /\ Len(t) = n
    BY <1>1, <1>2, SMTT(30)
  <1>4. RemoveAt(s, i) = t
    BY DEF RemoveAt
  <1>5. Injective(s) => Injective(t)
    BY <1>1, <1>3, SMTT(30) DEF Injective
  <1>6. ASSUME Injective(s) PROVE Members(t) = Members(s) \ {s[i]}
    <2>1. ASSUME NEW k \in 1..n PROVE t[k] \in Members(s) \ {s[i]}
      <3>1. CASE k < i
        BY <1>1, <1>6, <3>1, SMTT(30) DEF Members, Injective
      <3>2. CASE ~(k < i)
        <4>1. k + 1 \in 1..Len(s) /\ k + 1 # i /\ t[k] = s[k + 1]
          BY <1>1, <3>2, SMTT(30)
        <4> QED
          BY <1>1, <1>6, <4>1 DEF Members, Injective
      <3> QED
        BY <3>1, <3>2
    <2>2. ASSUME NEW k \in 1..Len(s), s[k] # s[i] PROVE s[k] \in Members(t)
      <3>1. CASE k < i
        <4>1. k \in 1..n /\ t[k] = s[k]
          BY <1>1, <3>1, SMTT(30)
        <4> QED
          BY <1>3, <4>1 DEF Members
      <3>2. CASE k > i
        <4>1. k - 1 \in 1..n /\ ~(k - 1 < i) /\ t[k - 1] = s[k]
          BY <1>1, <3>2, SMTT(30)
        <4> QED
          BY <1>3, <4>1 DEF Members
      <3> QED
        BY <1>1, <2>2, <3>1, <3>2, SMTT(30)
    <2> QED
      BY <1>3, <2>1, <2>2, ZenonT(30) DEF Members
  <1> QED
    BY <1>3, <1>4, <1>5, <1>6

----------------------------------------------------------------------------
(* Types, for every choice of Ops.                                         *)

(* A system call in progress has a process as its object.                  *)
CandOK ==
    \A c \in Cpu :
        phase[c] \in {"wake", "kmark", "ktail", "kscan", "spawn"} => cand[c] \in Task

TypeInv == TypeOK /\ CandOK

LEMMA TargetInCpu == ASSUME TypeOK, NEW p \in Task PROVE Target(p) \in Cpu
  <1>1. oncpu[p] \in Cpu \cup {NoCpu}
    BY DEF TypeOK
  <1>2. 0 \in Cpu /\ \A c \in Cpu : c >= 0
    BY SchedAssumption, SMTT(30) DEF Cpu
  <1>3. ~(NoCpu >= 0)
    BY SMTT(30) DEF NoCpu
  <1> QED
    BY <1>1, <1>2, <1>3 DEF Target

LEMMA EnqueueTyped ==
  ASSUME TypeOK, NEW p \in Task, NEW st \in State, EnqueueAs(p, st)
  PROVE  /\ state' \in [Task -> State]
         /\ oncpu' \in [Task -> Cpu \cup {NoCpu}]
         /\ rq' \in [Cpu -> Seq(Task)]
  <1>1. Target(p) \in Cpu
    BY TargetInCpu
  <1>2. Append(rq[Target(p)], p) \in Seq(Task)
    BY <1>1, AppendFacts DEF TypeOK
  <1>3. "READY" \in State
    BY DEF State
  <1>4. state' \in [Task -> State]
    BY <1>3 DEF TypeOK, EnqueueAs
  <1>5. oncpu' \in [Task -> Cpu \cup {NoCpu}] /\ rq' \in [Cpu -> Seq(Task)]
    <2>1. CASE UNCHANGED <<oncpu, rq>>
      BY <2>1 DEF TypeOK
    <2>2. CASE /\ oncpu' = [oncpu EXCEPT ![p] = Target(p)]
               /\ rq' = [rq EXCEPT ![Target(p)] = Append(@, p)]
      BY <1>1, <1>2, <2>2 DEF TypeOK
    <2> QED
      BY <2>1, <2>2 DEF EnqueueAs
  <1> QED
    BY <1>4, <1>5

LEMMA RemoveTyped ==
  ASSUME TypeOK, NEW c \in Cpu, NEW i \in 1..Len(rq[c]),
         rq' = [rq EXCEPT ![c] = RemoveAt(@, i)]
  PROVE  rq' \in [Cpu -> Seq(Task)] /\ rq[c][i] \in Task
  <1>1. rq[c] \in Seq(Task)
    BY DEF TypeOK
  <1>2. RemoveAt(rq[c], i) \in Seq(Task)
    BY <1>1, RemoveAtFacts
  <1> QED
    BY <1>1, <1>2, SMTT(30) DEF TypeOK

LEMMA InitTyped == Init => TypeInv
  <1> SUFFICES ASSUME Init PROVE TypeInv
    OBVIOUS
  <1>1. 0 \in Cpu /\ Boot \subseteq Task
    BY SchedAssumption, SMTT(30) DEF Cpu
  <1>2. rq \in [Cpu -> Seq(Task)]
    <2>1. PICK q \in [1..Cardinality(Boot) -> Boot] :
            rq = [c \in Cpu |-> IF c = 0 THEN q ELSE <<>>]
      BY DEF Init
    <2>2. Cardinality(Boot) \in Nat
      BY SchedAssumption
    <2>3. q \in [1..Cardinality(Boot) -> Task]
      BY <1>1
    <2>4. q \in Seq(Task)
      BY <2>2, <2>3, SMTT(30)
    <2>5. <<>> \in Seq(Task)
      BY SMTT(30)
    <2> QED
      BY <2>1, <2>4, <2>5
  <1>3. TypeOK
    BY <1>1, <1>2, SchedAssumption, SMTT(30) DEF Init, TypeOK, State, Phase
  <1> QED
    BY <1>3 DEF TypeInv, CandOK, Init

LEMMA UnlinkTyped ==
  ASSUME TypeOK, NEW p, Unlink(p)
  PROVE  rq' \in [Cpu -> Seq(Task)]
  <1>1. ASSUME NEW c \in Cpu, p \in Members(rq[c])
        PROVE  RemoveAt(rq[c], CHOOSE i \in 1..Len(rq[c]) : rq[c][i] = p) \in Seq(Task)
    <2>1. rq[c] \in Seq(Task) /\ \E i \in 1..Len(rq[c]) : rq[c][i] = p
      BY <1>1 DEF TypeOK, Members
    <2>2. (CHOOSE i \in 1..Len(rq[c]) : rq[c][i] = p) \in 1..Len(rq[c])
      BY <2>1
    <2> QED
      BY <2>1, <2>2, RemoveAtFacts
  <1> QED
    BY <1>1 DEF TypeOK, Unlink

LEMMA ReapPushTyped ==
  ASSUME TypeOK, NEW c \in Cpu, NEW p \in Task, ReapPush(c, p)
  PROVE  reaping' \subseteq Task /\ defer' \in [Cpu -> SUBSET Task]
  <1>1. defer[c] \cup {p} \in SUBSET Task
    BY DEF TypeOK
  <1> QED
    BY <1>1 DEF TypeOK, ReapPush

LEMMA NextTyped == TypeInv /\ [Next]_vars => TypeInv'
  <1> SUFFICES ASSUME TypeInv, [Next]_vars PROVE TypeInv'
    OBVIOUS
  <1> USE DEF TypeInv, GoTo, procVars, callVars, schedVars
  <1>s. /\ "READY" \in State /\ "RUNNING" \in State /\ "SLEEPING" \in State
        /\ "STOPPED" \in State /\ "ZOMBIE" \in State /\ "DEAD" \in State
        /\ "CREATED" \in State
    BY DEF State
  <1>z. 0 \in Cpu
    BY SchedAssumption, SMTT(30) DEF Cpu
  <1>p. \A ph \in {"user", "reap", "retire", "pick", "steal", "install", "iret",
                    "spawn", "wake", "kmark", "ktail", "kscan"} : ph \in Phase
    BY DEF Phase
  <1>1. ASSUME NEW c \in Cpu, Tick(c) PROVE TypeInv'
    BY <1>1, <1>s, <1>p DEF Tick, TypeOK, CandOK
  <1>2. ASSUME NEW c \in Cpu, ReapDeferred(c) PROVE TypeInv'
    <2>1. state' \in [Task -> State] /\ oncpu' \in [Task -> Cpu \cup {NoCpu}]
      BY <1>2, <1>s DEF ReapDeferred, TypeOK
    <2>2. inbox' \in [Task -> 0..MsgQueueMax] /\ killpend' \subseteq Task
      BY <1>2, SchedAssumption, SMTT(30) DEF ReapDeferred, TypeOK
    <2>3. pool' \subseteq Task /\ freed' \in [Task -> Nat] /\ rq' \in [Cpu -> Seq(Task)]
      BY <1>2, SMTT(30) DEF ReapDeferred, TypeOK
    <2>4. cand' \in [Cpu -> Task \cup {Idle}] /\ phase' \in [Cpu -> Phase] /\ CandOK'
      BY <1>2, <1>p DEF ReapDeferred, TypeOK, CandOK
    <2> QED
      BY <1>2, <1>z, <2>1, <2>2, <2>3, <2>4, SMTT(30) DEF ReapDeferred, TypeOK
  <1>3. ASSUME NEW c \in Cpu, RequeuePending(c) PROVE TypeInv'
    <2> DEFINE pr == pend[c]
    <2>1. /\ state' \in [Task -> State] /\ oncpu' \in [Task -> Cpu \cup {NoCpu}]
          /\ rq' \in [Cpu -> Seq(Task)] /\ reaping' \subseteq Task
          /\ defer' \in [Cpu -> SUBSET Task]
      <3>1. CASE pr = Idle
        BY <1>3, <3>1 DEF RequeuePending, TypeOK
      <3>2. CASE pr # Idle /\ state[pr] \in Corpse
        <4>1. pr \in Task /\ ReapPush(c, pr) /\ UNCHANGED <<state, rq>>
          BY <1>3, <3>2 DEF RequeuePending, TypeOK
        <4> QED
          BY <1>3, <3>2, <4>1, ReapPushTyped DEF RequeuePending, TypeOK
      <3>3. CASE pr # Idle /\ state[pr] \notin Corpse
        <4>1. pr \in Task /\ state[pr] \in State /\ EnqueueAs(pr, state[pr])
          BY <1>3, <3>3 DEF RequeuePending, TypeOK
        <4> QED
          BY <1>3, <3>3, <4>1, EnqueueTyped DEF RequeuePending, TypeOK
      <3> QED
        BY <3>1, <3>2, <3>3
    <2> QED
      BY <1>3, <1>p, <2>1 DEF RequeuePending, TypeOK, CandOK
  <1>4. ASSUME NEW c \in Cpu, RetirePrev(c) PROVE TypeInv'
    <2> DEFINE prev == current[c]
    <2>1. /\ state' \in [Task -> State] /\ oncpu' \in [Task -> Cpu \cup {NoCpu}]
          /\ rq' \in [Cpu -> Seq(Task)] /\ reaping' \subseteq Task
          /\ defer' \in [Cpu -> SUBSET Task] /\ current' \in [Cpu -> Task \cup {Idle}]
      <3>1. CASE prev = Idle
        BY <1>4, <3>1 DEF RetirePrev, TypeOK
      <3>2. CASE prev # Idle /\ state[prev] \in Corpse
        <4>1. prev \in Task /\ ReapPush(c, prev) /\ UNCHANGED <<state, rq>>
          BY <1>4, <3>2 DEF RetirePrev, TypeOK
        <4> QED
          BY <1>4, <3>2, <4>1, ReapPushTyped DEF RetirePrev, TypeOK
      <3>3. CASE prev # Idle /\ state[prev] \in {"RUNNING", "READY"}
        <4>1. prev \in Task /\ EnqueueAs(prev, "READY")
          BY <1>4, <3>3 DEF RetirePrev, TypeOK, Corpse
        <4> QED
          BY <1>4, <1>s, <3>3, <4>1, EnqueueTyped DEF RetirePrev, TypeOK, Corpse
      <3>4. CASE prev # Idle /\ state[prev] \notin Corpse \cup {"RUNNING", "READY"}
        BY <1>4, <3>4 DEF RetirePrev, TypeOK
      <3> QED
        BY <3>1, <3>2, <3>3, <3>4
    <2> QED
      BY <1>4, <1>p, <2>1 DEF RetirePrev, TypeOK, CandOK
  <1>5. ASSUME NEW c \in Cpu, PickLocal(c) PROVE TypeInv'
    <2>1. PICK i \in 1..Len(rq[c]) :
            /\ rq' = [rq EXCEPT ![c] = RemoveAt(@, i)]
            /\ streak' = [streak EXCEPT ![c] = IF FocusBoost(c) THEN @ + 1 ELSE 0]
            /\ \/ ReapPush(c, rq[c][i]) /\ UNCHANGED <<phase, cand>>
               \/ UNCHANGED <<reaping, defer, phase, cand>>
               \/ /\ cand' = [cand EXCEPT ![c] = rq[c][i]]
                  /\ phase' = [phase EXCEPT ![c] = "install"]
                  /\ UNCHANGED <<reaping, defer>>
            /\ UNCHANGED <<procVars, state, oncpu, current, pend, stk, callVars>>
      BY <1>5 DEF PickLocal
    <2>2. rq' \in [Cpu -> Seq(Task)] /\ rq[c][i] \in Task
      BY <2>1, RemoveTyped
    <2>3. streak' \in [Cpu -> 0..FocusBoostMax]
      BY <2>1, SchedAssumption, SMTT(30) DEF TypeOK, FocusBoost
    <2>4. reaping' \subseteq Task /\ defer' \in [Cpu -> SUBSET Task]
      BY <2>1, <2>2, ReapPushTyped DEF TypeOK
    <2>5. phase' \in [Cpu -> Phase] /\ cand' \in [Cpu -> Task \cup {Idle}] /\ CandOK'
      <3>1. CASE UNCHANGED <<phase, cand>>
        BY <3>1 DEF TypeOK, CandOK
      <3>2. CASE /\ cand' = [cand EXCEPT ![c] = rq[c][i]]
                 /\ phase' = [phase EXCEPT ![c] = "install"]
        BY <1>p, <2>2, <3>2 DEF TypeOK, CandOK
      <3> QED
        BY <2>1, <3>1, <3>2
    <2> QED
      BY <2>1, <2>2, <2>3, <2>4, <2>5 DEF TypeOK
  <1>6. ASSUME NEW c \in Cpu, NothingLocal(c) PROVE TypeInv'
    BY <1>6, <1>s, <1>p DEF NothingLocal, TypeOK, CandOK
  <1>7. ASSUME NEW c \in Cpu, StealWork(c) PROVE TypeInv'
    <2>d. PICK d \in Cpu : \E i \in 1..Len(rq[d]) :
            /\ rq' = [rq EXCEPT ![d] = RemoveAt(@, i)]
            /\ cand' = [cand EXCEPT ![c] = rq[d][i]]
      BY <1>7 DEF StealWork
    <2>1. PICK i \in 1..Len(rq[d]) :
            /\ rq' = [rq EXCEPT ![d] = RemoveAt(@, i)]
            /\ cand' = [cand EXCEPT ![c] = rq[d][i]]
      BY <2>d
    <2>2. rq' \in [Cpu -> Seq(Task)] /\ rq[d][i] \in Task
      BY <2>1, RemoveTyped
    <2> QED
      BY <1>7, <1>p, <2>1, <2>2 DEF StealWork, TypeOK, CandOK
  <1>8. ASSUME NEW c \in Cpu, StealNothing(c) PROVE TypeInv'
    <2>1. state' \in [Task -> State] /\ oncpu' \in [Task -> Cpu \cup {NoCpu}]
      BY <1>8, <1>s DEF StealNothing, TypeOK
    <2>2. inbox' \in [Task -> 0..MsgQueueMax] /\ killpend' \subseteq Task
      BY <1>8, SchedAssumption DEF StealNothing, TypeOK
    <2>3. pool' \subseteq Task /\ freed' \in [Task -> Nat] /\ rq' \in [Cpu -> Seq(Task)]
      BY <1>8 DEF StealNothing, TypeOK
    <2>4. cand' \in [Cpu -> Task \cup {Idle}] /\ phase' \in [Cpu -> Phase] /\ CandOK'
      <3>1. CASE /\ phase' = [phase EXCEPT ![c] = "user"] /\ UNCHANGED cand
        BY <1>p, <3>1 DEF TypeOK, CandOK
      <3>2. CASE /\ phase' = [phase EXCEPT ![c] = "install"]
                 /\ cand' = [cand EXCEPT ![c] = Idle]
        BY <1>p, <3>2 DEF TypeOK, CandOK
      <3> QED
        BY <3>1, <3>2, <1>8 DEF StealNothing
    <2> QED
      BY <1>8, <1>z, <2>1, <2>2, <2>3, <2>4 DEF StealNothing, TypeOK
  <1>9. ASSUME NEW c \in Cpu, Install(c) PROVE TypeInv'
    <2>1. rq' \in [Cpu -> Seq(Task)] /\ pend' \in [Cpu -> Task \cup {Idle}]
      <3>1. CASE UNCHANGED <<rq, pend>>
        BY <3>1 DEF TypeOK
      <3>2. CASE Unlink(current[c]) /\ pend' = [pend EXCEPT ![c] = current[c]]
        BY <3>2, UnlinkTyped DEF TypeOK
      <3> QED
        BY <1>9, <3>1, <3>2 DEF Install
    <2>2. state' \in [Task -> State] /\ oncpu' \in [Task -> Cpu \cup {NoCpu}]
      <3>1. CASE cand[c] = Idle
        BY <1>9, <3>1 DEF Install, TypeOK
      <3>2. CASE cand[c] # Idle
        <4>1. cand[c] \in Task
          BY <3>2 DEF TypeOK
        <4>2. /\ state' = [state EXCEPT ![cand[c]] = "RUNNING"]
              /\ oncpu' = [oncpu EXCEPT ![cand[c]] = c]
          BY <1>9, <3>2 DEF Install
        <4> QED
          BY <1>s, <4>1, <4>2 DEF TypeOK
      <3> QED
        BY <3>1, <3>2
    <2>3. /\ current' \in [Cpu -> Task \cup {Idle}] /\ cand' \in [Cpu -> Task \cup {Idle}]
          /\ phase' \in [Cpu -> Phase]
      BY <1>9, <1>p DEF Install, TypeOK
    <2>4. CandOK'
      BY <1>9 DEF Install, TypeOK, CandOK
    <2> QED
      BY <1>9, <2>1, <2>2, <2>3, <2>4 DEF Install, TypeOK
  <1>10. ASSUME NEW c \in Cpu, Iret(c) PROVE TypeInv'
    <2>1. state' \in [Task -> State] /\ oncpu' \in [Task -> Cpu \cup {NoCpu}]
      BY <1>10, <1>s DEF Iret, TypeOK
    <2>2. inbox' \in [Task -> 0..MsgQueueMax] /\ killpend' \subseteq Task
      BY <1>10, SchedAssumption DEF Iret, TypeOK
    <2>3. pool' \subseteq Task /\ freed' \in [Task -> Nat] /\ rq' \in [Cpu -> Seq(Task)]
      BY <1>10 DEF Iret, TypeOK
    <2>4. cand' \in [Cpu -> Task \cup {Idle}] /\ phase' \in [Cpu -> Phase] /\ CandOK'
      BY <1>10, <1>p DEF Iret, TypeOK, CandOK
    <2> QED
      BY <1>10, <1>z, <2>1, <2>2, <2>3, <2>4 DEF Iret, TypeOK
  <1>11. ASSUME NEW c \in Cpu, SendWake(c) PROVE TypeInv'
    <2>1. cand[c] \in Task /\ state[cand[c]] \in State /\ EnqueueAs(cand[c], state[cand[c]])
      BY <1>11 DEF SendWake, TypeOK, CandOK
    <2>2. state' \in [Task -> State] /\ oncpu' \in [Task -> Cpu \cup {NoCpu}]
          /\ rq' \in [Cpu -> Seq(Task)]
      BY <2>1, EnqueueTyped
    <2> QED
      BY <1>11, <1>p, <2>2 DEF SendWake, TypeOK, CandOK
  <1>12. ASSUME NEW c \in Cpu, KillMark(c) PROVE TypeInv'
    <2>1. state' \in [Task -> State] /\ oncpu' \in [Task -> Cpu \cup {NoCpu}]
      BY <1>12, <1>s DEF KillMark, TypeOK, KillReturns
    <2>2. inbox' \in [Task -> 0..MsgQueueMax] /\ killpend' \subseteq Task
      BY <1>12, SchedAssumption DEF KillMark, TypeOK, KillReturns
    <2>3. pool' \subseteq Task /\ freed' \in [Task -> Nat] /\ rq' \in [Cpu -> Seq(Task)]
      BY <1>12 DEF KillMark, TypeOK, KillReturns
    <2>4. cand' \in [Cpu -> Task \cup {Idle}] /\ phase' \in [Cpu -> Phase] /\ CandOK'
      BY <1>12, <1>p DEF KillMark, TypeOK, CandOK, KillReturns
    <2> QED
      BY <1>12, <1>z, <2>1, <2>2, <2>3, <2>4 DEF KillMark, TypeOK, KillReturns
  <1>13. ASSUME NEW c \in Cpu, KillTail(c) PROVE TypeInv'
    BY <1>13, <1>s, <1>p DEF KillTail, TypeOK, CandOK
  <1>14. ASSUME NEW c \in Cpu, KillScan(c) PROVE TypeInv'
    <2>1. pool' \subseteq Task /\ freed' \in [Task -> Nat]
      <3>1. CASE UNCHANGED <<pool, freed>>
        BY <3>1 DEF TypeOK
      <3>2. CASE /\ pool' = pool \ {cand[c]}
                 /\ freed' = IF cand[c] \in pool THEN [freed EXCEPT ![cand[c]] = @ + 1]
                             ELSE freed
        BY <3>2, SMTT(30) DEF TypeOK
      <3> QED
        BY <1>14, <3>1, <3>2 DEF KillScan
    <2>2. /\ cand' \in [Cpu -> Task \cup {Idle}] /\ phase' \in [Cpu -> Phase] /\ CandOK'
          /\ scan' \in [Cpu -> Cpu] /\ slock' \in Cpu \cup {NoCpu}
      <3>1. CASE /\ scan[c] + 1 \in Cpu /\ scan' = [scan EXCEPT ![c] = scan[c] + 1]
                 /\ UNCHANGED <<cand, slock, phase>>
        BY <3>1 DEF TypeOK, CandOK
      <3>2. CASE KillReturns(c)
        BY <1>p, <1>z, <3>2 DEF TypeOK, CandOK, KillReturns
      <3> QED
        BY <1>14, <3>1, <3>2 DEF KillScan
    <2> QED
      BY <1>14, <2>1, <2>2 DEF KillScan, TypeOK
  <1>15. ASSUME NEW c \in Cpu, Recv(c) PROVE TypeInv'
    <2>1. state' \in [Task -> State] /\ oncpu' \in [Task -> Cpu \cup {NoCpu}]
      BY <1>15, <1>s DEF Recv, TypeOK, Calls
    <2>2. inbox' \in [Task -> 0..MsgQueueMax] /\ killpend' \subseteq Task
      <3>1. CASE UNCHANGED inbox
        BY <1>15, <3>1 DEF Recv, TypeOK
      <3>2. CASE /\ current[c] \in Task /\ inbox[current[c]] > 0
                 /\ inbox' = [inbox EXCEPT ![current[c]] = @ - 1]
        BY <1>15, SchedAssumption, <3>2, SMTT(30) DEF Recv, TypeOK
      <3> QED
        BY <3>1, <3>2, <1>15 DEF Recv, Calls, TypeOK
    <2>3. pool' \subseteq Task /\ freed' \in [Task -> Nat] /\ rq' \in [Cpu -> Seq(Task)]
      BY <1>15 DEF Recv, TypeOK, Calls
    <2>4. cand' \in [Cpu -> Task \cup {Idle}] /\ phase' \in [Cpu -> Phase] /\ CandOK'
      BY <1>15, <1>p DEF Recv, TypeOK, CandOK, Calls
    <2> QED
      BY <1>15, <1>z, <2>1, <2>2, <2>3, <2>4 DEF Recv, TypeOK, Calls
  <1>16. ASSUME NEW c \in Cpu, Exit(c) PROVE TypeInv'
    BY <1>16, <1>s, <1>p DEF Exit, TypeOK, CandOK, Calls
  <1>17. ASSUME NEW c \in Cpu, KillSelf(c) PROVE TypeInv'
    BY <1>17, <1>s, <1>p DEF KillSelf, TypeOK, CandOK
  <1>18. ASSUME NEW c \in Cpu, NEW p \in Task, Send(c, p) PROVE TypeInv'
    <2>1. state' \in [Task -> State] /\ oncpu' \in [Task -> Cpu \cup {NoCpu}]
      <3>1. CASE UNCHANGED state
        BY <1>18, <3>1 DEF Send, TypeOK, schedVars
      <3>2. CASE state' = [state EXCEPT ![p] = "READY"]
        BY <1>18, <1>s, <3>2 DEF Send, TypeOK
      <3> QED
        BY <3>1, <3>2, <1>18 DEF Send
    <2>2. inbox' \in [Task -> 0..MsgQueueMax] /\ killpend' \subseteq Task
      BY <1>18, SchedAssumption, SMTT(30) DEF Send, TypeOK, Calls
    <2>3. pool' \subseteq Task /\ freed' \in [Task -> Nat] /\ rq' \in [Cpu -> Seq(Task)]
      BY <1>18 DEF Send, TypeOK, Calls
    <2>4. cand' \in [Cpu -> Task \cup {Idle}] /\ phase' \in [Cpu -> Phase] /\ CandOK'
      <3>1. CASE /\ cand' = [cand EXCEPT ![c] = p]
                 /\ phase' = [phase EXCEPT ![c] = "wake"]
        BY <1>p, <3>1 DEF TypeOK, CandOK
      <3>2. CASE phase' = [phase EXCEPT ![c] = "reap"] /\ UNCHANGED cand
        BY <1>p, <3>2 DEF TypeOK, CandOK
      <3> QED
        BY <3>1, <3>2, <1>18 DEF Send
    <2> QED
      BY <1>18, <1>z, <2>1, <2>2, <2>3, <2>4 DEF Send, TypeOK, Calls
  <1>19. ASSUME NEW c \in Cpu, NEW p \in Task, Kill(c, p) PROVE TypeInv'
    <2>1. state' \in [Task -> State] /\ oncpu' \in [Task -> Cpu \cup {NoCpu}]
      BY <1>19, <1>s DEF Kill, TypeOK
    <2>2. inbox' \in [Task -> 0..MsgQueueMax] /\ killpend' \subseteq Task
      BY <1>19, SchedAssumption, SMTT(30) DEF Kill, TypeOK
    <2>3. pool' \subseteq Task /\ freed' \in [Task -> Nat] /\ rq' \in [Cpu -> Seq(Task)]
      BY <1>19 DEF Kill, TypeOK
    <2>4. cand' \in [Cpu -> Task \cup {Idle}] /\ phase' \in [Cpu -> Phase] /\ CandOK'
      <3>1. CASE /\ cand' = [cand EXCEPT ![c] = p]
                 /\ \E ph \in {"kmark", "ktail"} : phase' = [phase EXCEPT ![c] = ph]
        BY <1>p, <3>1, SMTT(30) DEF TypeOK, CandOK
      <3>2. CASE UNCHANGED <<cand, phase>>
        BY <3>2 DEF TypeOK, CandOK
      <3> QED
        BY <3>1, <3>2, <1>19 DEF Kill
    <2> QED
      BY <1>19, <1>z, <2>1, <2>2, <2>3, <2>4 DEF Kill, TypeOK
  <1>20. ASSUME NEW c \in Cpu, NEW p \in Task, Stop(c, p) PROVE TypeInv'
    <2>1. state' \in [Task -> State] /\ oncpu' \in [Task -> Cpu \cup {NoCpu}]
      BY <1>20, <1>s DEF Stop, TypeOK
    <2>2. inbox' \in [Task -> 0..MsgQueueMax] /\ killpend' \subseteq Task
      BY <1>20, SchedAssumption DEF Stop, TypeOK
    <2>3. pool' \subseteq Task /\ freed' \in [Task -> Nat] /\ rq' \in [Cpu -> Seq(Task)]
      BY <1>20 DEF Stop, TypeOK
    <2>4. cand' \in [Cpu -> Task \cup {Idle}] /\ phase' \in [Cpu -> Phase] /\ CandOK'
      BY <1>20, <1>p DEF Stop, TypeOK, CandOK
    <2> QED
      BY <1>20, <1>z, <2>1, <2>2, <2>3, <2>4 DEF Stop, TypeOK
  <1>21. ASSUME NEW c \in Cpu, NEW p \in Task, Cont(c, p) PROVE TypeInv'
    <2>1. EnqueueAs(p, "READY")
      BY <1>21 DEF Cont
    <2>2. state' \in [Task -> State] /\ oncpu' \in [Task -> Cpu \cup {NoCpu}]
          /\ rq' \in [Cpu -> Seq(Task)]
      BY <1>s, <2>1, EnqueueTyped
    <2> QED
      BY <1>21, <2>2 DEF Cont, TypeOK, CandOK
  <1>22. ASSUME NEW c \in Cpu, NEW p \in Task, SpawnCreate(c, p) PROVE TypeInv'
    <2>1. state' \in [Task -> State] /\ oncpu' \in [Task -> Cpu \cup {NoCpu}]
      BY <1>22, <1>s DEF SpawnCreate, TypeOK
    <2>2. inbox' \in [Task -> 0..MsgQueueMax] /\ killpend' \subseteq Task
      BY <1>22, SchedAssumption DEF SpawnCreate, TypeOK
    <2>3. pool' \subseteq Task /\ freed' \in [Task -> Nat] /\ rq' \in [Cpu -> Seq(Task)]
      BY <1>22 DEF SpawnCreate, TypeOK
    <2>4. cand' \in [Cpu -> Task \cup {Idle}] /\ phase' \in [Cpu -> Phase] /\ CandOK'
      BY <1>22, <1>p DEF SpawnCreate, TypeOK, CandOK
    <2> QED
      BY <1>22, <1>z, <2>1, <2>2, <2>3, <2>4 DEF SpawnCreate, TypeOK
  <1>23. ASSUME NEW c \in Cpu, NEW loaded \in BOOLEAN, SpawnFinish(c, loaded) PROVE TypeInv'
    <2>1. cand[c] \in Task /\ state[cand[c]] \in State
      BY <1>23 DEF SpawnFinish, TypeOK, CandOK
    <2>2. state' \in [Task -> State] /\ oncpu' \in [Task -> Cpu \cup {NoCpu}]
          /\ rq' \in [Cpu -> Seq(Task)] /\ pool' \subseteq Task /\ freed' \in [Task -> Nat]
      <3>1. CASE EnqueueAs(cand[c], state[cand[c]]) /\ UNCHANGED <<pool, freed>>
        BY <2>1, <3>1, EnqueueTyped DEF TypeOK
      <3>2. CASE ~(loaded /\ cand[c] \notin killpend)
        <4>1. /\ pool' = pool \ {cand[c]} /\ freed' = [freed EXCEPT ![cand[c]] = @ + 1]
              /\ UNCHANGED <<state, oncpu, rq>>
          BY <1>23, <3>2 DEF SpawnFinish
        <4> QED
          BY <2>1, <4>1, SMTT(30) DEF TypeOK
      <3> QED
        BY <1>23, <3>1, <3>2 DEF SpawnFinish
    <2> QED
      BY <1>23, <1>p, <2>2 DEF SpawnFinish, TypeOK, CandOK
  <1>24. CASE UNCHANGED vars
    BY <1>24 DEF vars, TypeOK, CandOK
  <1> QED
    BY <1>1, <1>2, <1>3, <1>4, <1>5, <1>6, <1>7, <1>8, <1>9, <1>10,
       <1>11, <1>12, <1>13, <1>14, <1>15, <1>16, <1>17,
       <1>18, <1>19, <1>20, <1>21, <1>22, <1>23, <1>24
       DEF Next, Schedule, Finish, Syscall

(* TypeOK is an invariant, for every choice of Ops: in particular the focus *)
(* streak never exceeds FOCUS_BOOST_MAX, no inbox exceeds MSG_QUEUE_MAX and *)
(* on_cpu always names a CPU.                                               *)
THEOREM SchedTyped == Spec => []TypeOK
  <1>1. TypeInv => TypeOK
    BY DEF TypeInv
  <1> QED
    BY <1>1, InitTyped, NextTyped, PTL DEF Spec

=============================================================================
