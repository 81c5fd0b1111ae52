------------------------------ MODULE SmpBoot ------------------------------
(***************************************************************************)
(* Secondary-CPU bring-up: smp_bringup_secondary and smp_ack_boot          *)
(* (kernel/core/smp.c), the arch_smp_init loops that call it, the wake     *)
(* contract arch_cpu_wake_secondary, and the secondary's own boot path     *)
(* kernel_secondary_main (kernel/main.c).                                  *)
(*                                                                         *)
(* The boot CPU (CPU 0) brings up CPUs 1..NCpu-1 in turn.  A secondary     *)
(* that was woken may start arbitrarily late: the boot CPU waits for its   *)
(* acknowledgement only up to a wall-clock deadline.                       *)
(***************************************************************************)
EXTENDS Naturals

CONSTANTS
    NCpu,       \* cpu_count, at most MaxCpus
    MaxCpus,    \* MAX_CPUS
    DynFrom     \* aarch64: CPUs from this id on get a PMM stack (8 in the code)

ASSUME SmpAssumption ==
    /\ NCpu \in Nat /\ MaxCpus \in Nat /\ DynFrom \in Nat
    /\ NCpu \in 1..MaxCpus

Secondary == 1..(NCpu - 1)

NoSlice == MaxCpus + 2

VARIABLES
    arch,       \* "aarch64" (PSCI) or "amd64" (INIT-SIPI-SIPI); never changes
    present,    \* the CPUs that exist; the count may exceed them; never changes
    bsp,        \* [pc, cpu]: where arch_smp_init is, and for which CPU
    ack,        \* cpu_boot_ack
    idle,       \* CPUs whose cpu_data[].idle_task is published
    ap,         \* each secondary's progress through its boot path
    stack,      \* the 128 KB stack slice each secondary runs on
    tramp,      \* trampoline_stack in the shared low page (amd64)
    freed,      \* PMM stacks returned by arch_smp_init (aarch64)
    ret         \* what smp_bringup_secondary returned per CPU

vars == <<arch, present, bsp, ack, idle, ap, stack, tramp, freed, ret>>

ApState == {"off", "woken", "init", "acked", "online"}

TypeOK ==
    /\ arch \in {"aarch64", "amd64"}
    /\ present \subseteq Secondary
    /\ bsp \in [pc : {"loop", "wake", "wait", "done"}, cpu : 1..NCpu]
    /\ ack \in 0..(NCpu - 1)
    /\ idle \subseteq Secondary
    /\ ap \in [Secondary -> ApState]
    /\ stack \in [Secondary -> 0..NoSlice]
    /\ tramp \in 0..NoSlice
    /\ freed \subseteq Secondary
    /\ ret \in [Secondary -> {"none", "ok", "wake_failed", "timeout"}]

(* The stack arch_smp_init hands to the wake call, as the index of the     *)
(* slice below its top.  On amd64 arch_get_kernel_stack already returns    *)
(* the top of the slice and the caller adds another 128 KB.                *)
StackSlice(c) == IF arch = "amd64" THEN c + 1 ELSE c

Dynamic(c) == arch = "aarch64" /\ c >= DynFrom

Init ==
    /\ arch \in {"aarch64", "amd64"}
    /\ present \in SUBSET Secondary
    /\ bsp = [pc |-> "loop", cpu |-> 1]
    /\ ack = 0
    /\ idle = {}
    /\ ap = [c \in Secondary |-> "off"]
    /\ stack = [c \in Secondary |-> NoSlice]
    /\ tramp = NoSlice
    /\ freed = {}
    /\ ret = [c \in Secondary |-> "none"]

(* Faulty variant: the loop runs one CPU too far.                          *)
PrepareOneTooFar ==
    /\ bsp.pc = "loop"
    /\ ack' = 0
    /\ idle' \in {idle, idle \cup {bsp.cpu}}
    /\ bsp' = [bsp EXCEPT !.pc = "wake"]
    /\ UNCHANGED <<ap, stack, tramp, freed, ret>>

(* for (i = 1; i < cpu_count; i++): reset the handshake cell and publish   *)
(* the idle task.  smp_create_idle_task returns without publishing when    *)
(* process_create fails, and its caller cannot tell.                       *)
Prepare ==
    /\ bsp.pc = "loop" /\ bsp.cpu < NCpu
    /\ ack' = 0
    /\ idle' \in {idle, idle \cup {bsp.cpu}}
    /\ bsp' = [bsp EXCEPT !.pc = "wake"]
    /\ UNCHANGED <<ap, stack, tramp, freed, ret>>

LoopDone ==
    /\ bsp.pc = "loop" /\ bsp.cpu = NCpu
    /\ bsp' = [bsp EXCEPT !.pc = "done"]
    /\ UNCHANGED <<ack, idle, ap, stack, tramp, freed, ret>>

(* arch_cpu_wake_secondary succeeded: the firmware starts the CPU with its *)
(* own context (aarch64), or the shared trampoline page is patched and the *)
(* IPIs are sent (amd64, which reports success for an absent CPU too).     *)
WakeOk ==
    /\ bsp.pc = "wake"
    /\ arch = "aarch64" => bsp.cpu \in present
    /\ tramp' = IF arch = "amd64" THEN StackSlice(bsp.cpu) ELSE tramp
    /\ ap' = IF bsp.cpu \in present
             THEN [ap EXCEPT ![bsp.cpu] = "woken"] ELSE ap
    /\ bsp' = [bsp EXCEPT !.pc = "wait"]
    /\ UNCHANGED <<ack, idle, stack, freed, ret>>

Reclaim(c) == IF Dynamic(c) THEN freed \cup {c} ELSE freed

(* PSCI CPU_ON failed: reclaim a dynamic stack and leave the loop.         *)
WakeFailed ==
    /\ bsp.pc = "wake"
    /\ arch = "aarch64"
    /\ ret' = [ret EXCEPT ![bsp.cpu] = "wake_failed"]
    /\ freed' = Reclaim(bsp.cpu)
    /\ bsp' = [bsp EXCEPT !.pc = "done"]
    /\ UNCHANGED <<ack, idle, ap, stack, tramp>>

(* Faulty variant: any acknowledgement ends the wait.                      *)
AckSeenAny(c) == ack # 0

AckSeen(c) == ack = c

WaitAck ==
    /\ bsp.pc = "wait"
    /\ AckSeen(bsp.cpu)
    /\ ret' = [ret EXCEPT ![bsp.cpu] = "ok"]
    /\ bsp' = [pc |-> "loop", cpu |-> bsp.cpu + 1]
    /\ UNCHANGED <<ack, idle, ap, stack, tramp, freed>>

(* Faulty variant: the wait has no deadline.                               *)
WaitTimeoutNever ==
    /\ FALSE
    /\ UNCHANGED vars

(* The deadline passed without the acknowledgement: skip this CPU.         *)
WaitTimeout ==
    /\ bsp.pc = "wait"
    /\ ~AckSeen(bsp.cpu)
    /\ ret' = [ret EXCEPT ![bsp.cpu] = "timeout"]
    /\ freed' = Reclaim(bsp.cpu)
    /\ bsp' = [pc |-> "loop", cpu |-> bsp.cpu + 1]
    /\ UNCHANGED <<ack, idle, ap, stack, tramp>>

(* The secondary starts executing and loads its stack pointer: from its    *)
(* PSCI context on aarch64, from the shared trampoline page on amd64.      *)
Start(c) ==
    /\ ap[c] = "woken"
    /\ ap' = [ap EXCEPT ![c] = "init"]
    /\ stack' = [stack EXCEPT ![c] =
                   IF arch = "amd64" THEN tramp ELSE StackSlice(c)]
    /\ UNCHANGED <<bsp, ack, idle, tramp, freed, ret>>

(* Faulty variant: the secondary does not wait for its idle task.          *)
AckBootNoIdleWait(c) ==
    /\ ap[c] = "init"
    /\ ack' = c
    /\ ap' = [ap EXCEPT ![c] = "acked"]
    /\ UNCHANGED <<bsp, idle, stack, tramp, freed, ret>>


(* kernel_secondary_main spins until its idle task is visible, and only    *)
(* then acknowledges.                                                      *)
AckBoot(c) ==
    /\ ap[c] = "init"
    /\ c \in idle
    /\ ack' = c
    /\ ap' = [ap EXCEPT ![c] = "acked"]
    /\ UNCHANGED <<bsp, idle, stack, tramp, freed, ret>>

(* local_irq_enable: from here the tick may call schedule() on this CPU.   *)
EnableIrq(c) ==
    /\ ap[c] = "acked"
    /\ ap' = [ap EXCEPT ![c] = "online"]
    /\ UNCHANGED <<bsp, ack, idle, stack, tramp, freed, ret>>

Bsp == Prepare \/ LoopDone \/ WakeOk \/ WakeFailed \/ WaitAck \/ WaitTimeout

Ap(c) == Start(c) \/ AckBoot(c) \/ EnableIrq(c)

Next ==
    /\ Bsp \/ \E c \in Secondary : Ap(c)
    /\ UNCHANGED <<arch, present>>

Spec == Init /\ [][Next]_vars

(* The boot CPU runs its loop, its deadline passes, and a CPU that was     *)
(* woken executes.                                                         *)
FairSpec ==
    /\ Spec
    /\ WF_vars(Bsp /\ UNCHANGED <<arch, present>>)
    /\ \A c \in Secondary : WF_vars(Ap(c) /\ UNCHANGED <<arch, present>>)

----------------------------------------------------------------------------
(* smp_bringup_secondary returns 0 for a CPU only if that very CPU has     *)
(* acknowledged: a late acknowledgement of an earlier CPU is not taken for *)
(* the one the boot CPU is waiting for.                                    *)
OkMeansThisCpuAcked ==
    \A c \in Secondary : ret[c] = "ok" => ap[c] \in {"acked", "online"}

(* SMP-IDLE-RACE: no CPU takes timer interrupts, and so enters schedule(), *)
(* without a published idle task, whether or not creating it failed.       *)
IrqOnlyWithIdleTask ==
    \A c \in Secondary : ap[c] = "online" => c \in idle

(* What makes the two invariants above inductive: the cell holds the id of *)
(* a CPU that did acknowledge, and a CPU acknowledges only with its idle   *)
(* task published.                                                         *)
HandshakeInv ==
    /\ ack # 0 => ap[ack] \in {"acked", "online"}
    /\ \A c \in Secondary : ap[c] \in {"acked", "online"} => c \in idle
    /\ OkMeansThisCpuAcked
    /\ bsp.pc \in {"wake", "wait"} => bsp.cpu \in Secondary
    /\ bsp.pc = "wake" => ap[bsp.cpu] = "off"
    /\ \A c \in Secondary : c > bsp.cpu => ap[c] = "off"
    /\ bsp.pc = "loop" /\ bsp.cpu \in Secondary => ap[bsp.cpu] = "off"

(* Two CPUs never run on the same boot stack, however late one of them     *)
(* starts.                                                                 *)
BootStacksExclusive ==
    \A c, d \in Secondary : c # d /\ stack[c] # NoSlice => stack[c] # stack[d]

(* The boot CPU leaves the bring-up loop even when CPUs are absent.        *)
BspFinishes == <>(bsp.pc = "done")

=============================================================================
