---------------------------- MODULE SmpBootProofs ----------------------------
(* The boot handshake is safe for every number of CPUs, every set of       *)
(* present CPUs and both architectures.                                    *)
EXTENDS SmpBoot, TLAPS

IInv == TypeOK /\ HandshakeInv

LEMMA InitIInv == Init => IInv
  BY SmpAssumption
  DEF Init, IInv, TypeOK, HandshakeInv, OkMeansThisCpuAcked, Secondary,
      NoSlice, ApState

LEMMA NextTyped == IInv /\ [Next]_vars => TypeOK'
  <1> SUFFICES ASSUME IInv, [Next]_vars PROVE TypeOK'
    OBVIOUS
  <1> USE SmpAssumption DEF IInv, TypeOK, Secondary, NoSlice, ApState
  <1>0. UNCHANGED <<arch, present>>
    BY DEF Next, vars
  <1>1. CASE Prepare
    <2>1. bsp.cpu \in Secondary /\ bsp' = [bsp EXCEPT !.pc = "wake"]
      BY <1>0, <1>1 DEF Prepare
    <2>2. idle' \subseteq Secondary
      BY <1>0, <1>1, <2>1 DEF Prepare
    <2>3. bsp' \in [pc : {"loop", "wake", "wait", "done"}, cpu : 1..NCpu]
      BY <2>1
    <2> QED
      BY <1>0, <1>1, <2>2, <2>3 DEF Prepare
  <1>2. CASE LoopDone
    BY <1>0, <1>2 DEF LoopDone
  <1>3. CASE WakeOk
    <2>1. bsp' \in [pc : {"loop", "wake", "wait", "done"}, cpu : 1..NCpu]
      BY <1>3 DEF WakeOk
    <2>2. ap' \in [Secondary -> ApState] /\ tramp' \in 0..NoSlice
      BY <1>3 DEF WakeOk, StackSlice
    <2> QED
      BY <1>0, <1>3, <2>1, <2>2 DEF WakeOk
  <1>4. CASE WakeFailed
    BY <1>0, <1>4 DEF WakeFailed, Reclaim, HandshakeInv
  <1>5. CASE WaitAck
    BY <1>0, <1>5 DEF WaitAck, AckSeen, HandshakeInv
  <1>6. CASE WaitTimeout
    <2>1. bsp.cpu \in Secondary
      BY <1>0, <1>6 DEF WaitTimeout, HandshakeInv
    <2>2. freed' \subseteq Secondary
      BY <1>0, <1>6, <2>1 DEF WaitTimeout, Reclaim
    <2>3. bsp' \in [pc : {"loop", "wake", "wait", "done"}, cpu : 1..NCpu]
      BY <1>0, <1>6, <2>1 DEF WaitTimeout
    <2> QED
      BY <1>0, <1>6, <2>2, <2>3 DEF WaitTimeout
  <1>7. ASSUME NEW c \in Secondary, Start(c) PROVE TypeOK'
    BY <1>0, <1>7 DEF Start, StackSlice
  <1>8. ASSUME NEW c \in Secondary, AckBoot(c) PROVE TypeOK'
    BY <1>0, <1>8 DEF AckBoot
  <1>9. ASSUME NEW c \in Secondary, EnableIrq(c) PROVE TypeOK'
    BY <1>0, <1>9 DEF EnableIrq
  <1>10. CASE UNCHANGED vars
    BY <1>0, <1>10 DEF vars
  <1> QED
    BY <1>0, <1>1, <1>2, <1>3, <1>4, <1>5, <1>6, <1>7, <1>8, <1>9, <1>10
    DEF Next, Bsp, Ap

LEMMA NextHandshake == IInv /\ [Next]_vars => HandshakeInv'
  <1> SUFFICES ASSUME IInv, [Next]_vars PROVE HandshakeInv'
    OBVIOUS
  <1> USE SmpAssumption
      DEF IInv, TypeOK, HandshakeInv, OkMeansThisCpuAcked, Secondary, ApState
  <1>1. CASE Prepare
    <2>1. /\ ack' = 0 /\ ap' = ap /\ ret' = ret
          /\ bsp' = [bsp EXCEPT !.pc = "wake"]
          /\ bsp.pc = "loop" /\ bsp.cpu < NCpu
      BY <1>1 DEF Prepare
    <2>2. idle \subseteq idle'
      BY <1>1 DEF Prepare
    <2> QED
      BY <2>1, <2>2
  <1>2. CASE LoopDone
    BY <1>2 DEF LoopDone
  <1>3. CASE WakeOk
    BY <1>3 DEF WakeOk
  <1>4. CASE WakeFailed
    BY <1>4 DEF WakeFailed
  <1>5. CASE WaitAck
    BY <1>5 DEF WaitAck, AckSeen
  <1>6. CASE WaitTimeout
    BY <1>6 DEF WaitTimeout
  <1>7. ASSUME NEW c \in Secondary, Start(c) PROVE HandshakeInv'
    BY <1>7 DEF Start
  <1>8. ASSUME NEW c \in Secondary, AckBoot(c) PROVE HandshakeInv'
    BY <1>8 DEF AckBoot
  <1>9. ASSUME NEW c \in Secondary, EnableIrq(c) PROVE HandshakeInv'
    BY <1>9 DEF EnableIrq
  <1>10. CASE UNCHANGED vars
    BY <1>10 DEF vars
  <1> QED
    BY <1>1, <1>2, <1>3, <1>4, <1>5, <1>6, <1>7, <1>8, <1>9, <1>10
    DEF Next, Bsp, Ap

LEMMA HandshakeInductive == Spec => []IInv
  <1>1. IInv /\ [Next]_vars => IInv'
    BY NextTyped, NextHandshake DEF IInv
  <1> QED
    BY InitIInv, <1>1, PTL DEF Spec

(* Every variable of the bring-up keeps its type.                          *)
THEOREM SmpTyped == Spec => []TypeOK
  <1>1. IInv => TypeOK
    BY DEF IInv
  <1> QED
    BY HandshakeInductive, <1>1, PTL

(* smp_bringup_secondary reports success only for a CPU that acknowledged, *)
(* for every number of CPUs, late or absent secondaries included.          *)
THEOREM SmpOkMeansAcked == Spec => []OkMeansThisCpuAcked
  <1>1. IInv => OkMeansThisCpuAcked
    BY DEF IInv, HandshakeInv
  <1> QED
    BY HandshakeInductive, <1>1, PTL

(* No secondary takes interrupts before its idle task is published.        *)
THEOREM SmpIrqOnlyWithIdleTask == Spec => []IrqOnlyWithIdleTask
  <1>1. IInv => IrqOnlyWithIdleTask
    BY DEF IInv, HandshakeInv, IrqOnlyWithIdleTask
  <1> QED
    BY HandshakeInductive, <1>1, PTL
=============================================================================
