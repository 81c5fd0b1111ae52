------------------------------- MODULE Sched -------------------------------
(***************************************************************************)
(* The SMP scheduler of kernel/sched/process.c: per-CPU runqueues, the     *)
(* stages of schedule(), work stealing, deferred reaping, the pending      *)
(* re-enqueue slot, termination, job control and the sleep/wake side of    *)
(* IPC.                                                                    *)
(*                                                                         *)
(* Each CPU is a process of the model.  Its phase says which stage of      *)
(* schedule() or of a system call it has reached.  An action is a section  *)
(* of code between two points where another CPU can interfere: the global  *)
(* sched_lock is the variable slock, and a CPU's own sched_lock is held    *)
(* exactly in the phases LockedPhase.  System calls run with interrupts    *)
(* masked, so a CPU's own tick interferes only in phase "user".            *)
(***************************************************************************)
EXTENDS Integers, Sequences, FiniteSets

CONSTANTS
    NCpu,          \* online CPUs
    Task,          \* the processes that ever exist (pids are not reused)
    Machine,       \* PLVL_MACHINE processes: protected from kill and stop
    Boot,          \* processes queued on CPU 0 in the initial state
    Idle,          \* the idle task, one per CPU, never queued
    Prio,          \* Prio[p]: 0 is the most urgent
    Focus,         \* keyboard_focus_pid, or Idle when nothing has focus
    FocusBoostMax, \* FOCUS_BOOST_MAX
    MsgQueueMax,   \* MSG_QUEUE_MAX
    Ops            \* the system calls this instance exercises

Cpu == 0..(NCpu - 1)

NoCpu == -1

ASSUME SchedAssumption ==
    /\ NCpu \in Nat \ {0}
    /\ Idle \notin Task /\ Machine \subseteq Task
    /\ Boot \subseteq Task /\ Cardinality(Boot) \in Nat
    /\ Prio \in [Task -> Nat]
    /\ Focus \in Task \cup {Idle}
    /\ FocusBoostMax \in Nat /\ MsgQueueMax \in Nat
    /\ Ops \subseteq {"exit", "recv", "send", "kill", "killself", "stop", "spawn"}

VARIABLES
    state,    \* p->state; "UNUSED" before creation
    oncpu,    \* p->on_cpu
    inbox,    \* p->msg_count
    reaping,  \* processes whose p->reaping flag is set
    killpend, \* processes with p->kill_pending
    pool,     \* processes in process_pool[]
    freed,    \* how often a process's pages were freed
    rq,       \* run_list order of each CPU's runqueues
    current,  \* cpu->current_task (Idle also stands for NULL)
    pend,     \* cpu->pending_reenqueue
    defer,    \* cpu->deferred_free_proc chain
    streak,   \* sched_focus_streak[cpu]
    phase,    \* where the CPU is
    cand,     \* `next` of schedule(), or the object of a system call
    stk,      \* whose kernel stack the CPU is executing on
    scan,     \* loop index of __proc_still_current_anywhere
    slock     \* holder of the global sched_lock

vars == <<state, oncpu, inbox, reaping, killpend, pool, freed, rq, current,
          pend, defer, streak, phase, cand, stk, scan, slock>>

(* What most stages of schedule() leave alone.                             *)
procVars == <<inbox, killpend, pool, freed>>
callVars == <<scan, slock>>

State == {"UNUSED", "CREATED", "READY", "RUNNING", "SLEEPING", "STOPPED",
          "ZOMBIE", "DEAD"}
Corpse == {"DEAD", "ZOMBIE"}

Phase == {"user", "reap", "retire", "pick", "steal", "install", "iret",
          "spawn", "wake", "kmark", "ktail", "kscan"}
LockedPhase == {"retire", "pick", "steal", "install"}

TypeOK ==
    /\ state \in [Task -> State]
    /\ oncpu \in [Task -> Cpu \cup {NoCpu}]
    /\ inbox \in [Task -> 0..MsgQueueMax]
    /\ reaping \subseteq Task
    /\ killpend \subseteq Task
    /\ pool \subseteq Task
    /\ freed \in [Task -> Nat]
    /\ rq \in [Cpu -> Seq(Task)]
    /\ current \in [Cpu -> Task \cup {Idle}]
    /\ pend \in [Cpu -> Task \cup {Idle}]
    /\ defer \in [Cpu -> SUBSET Task]
    /\ streak \in [Cpu -> 0..FocusBoostMax]
    /\ phase \in [Cpu -> Phase]
    /\ cand \in [Cpu -> Task \cup {Idle}]
    /\ stk \in [Cpu -> Task \cup {Idle}]
    /\ scan \in [Cpu -> Cpu]
    /\ slock \in Cpu \cup {NoCpu}

----------------------------------------------------------------------------
(* Runqueue primitives.                                                    *)

Members(s) == {s[i] : i \in 1..Len(s)}

Injective(s) == \A i, j \in 1..Len(s) : s[i] = s[j] => i = j

Linked(p) == \E c \in Cpu : p \in Members(rq[c])

(* The CPU a process is enqueued on: its last CPU, or CPU 0.               *)
Target(p) == IF oncpu[p] >= 0 THEN oncpu[p] ELSE 0

CpuLockFree(c) == phase[c] \notin LockedPhase

RemoveAt(s, i) == [j \in 1..(Len(s) - 1) |-> IF j < i THEN s[j] ELSE s[j + 1]]

(* Faulty: no "already queued" guard.                                      *)
EnqueueAsUnguarded(p, st) ==
    IF st \in Corpse \cup {"STOPPED"}
    THEN UNCHANGED <<state, oncpu, rq>>
    ELSE /\ state' = [state EXCEPT ![p] = "READY"]
         /\ oncpu' = [oncpu EXCEPT ![p] = Target(p)]
         /\ rq' = [rq EXCEPT ![Target(p)] = Append(@, p)]

(* __enqueue_task for a process whose state is now st: refuse corpses and  *)
(* stopped processes, do nothing if it is READY and still linked.          *)
EnqueueAs(p, st) ==
    IF st \in Corpse \cup {"STOPPED"} \/ (st = "READY" /\ Linked(p))
    THEN /\ state' = [state EXCEPT ![p] = st]
         /\ UNCHANGED <<oncpu, rq>>
    ELSE /\ state' = [state EXCEPT ![p] = "READY"]
         /\ oncpu' = [oncpu EXCEPT ![p] = Target(p)]
         /\ rq' = [rq EXCEPT ![Target(p)] = Append(@, p)]

(* reap_push: the first push wins, later ones are dropped.                 *)
ReapPush(c, p) ==
    /\ reaping' = reaping \cup {p}
    /\ defer' = IF p \in reaping THEN defer
                ELSE [defer EXCEPT ![c] = @ \cup {p}]

GoTo(c, ph) == phase' = [phase EXCEPT ![c] = ph]

Init ==
    /\ state = [p \in Task |-> IF p \in Boot THEN "READY" ELSE "UNUSED"]
    /\ oncpu = [p \in Task |-> IF p \in Boot THEN 0 ELSE NoCpu]
    /\ inbox = [p \in Task |-> 0]
    /\ reaping = {}
    /\ killpend = {}
    /\ pool = Boot
    /\ freed = [p \in Task |-> 0]
    /\ \E s \in [1..Cardinality(Boot) -> Boot] :
          /\ Injective(s)
          /\ rq = [c \in Cpu |-> IF c = 0 THEN s ELSE <<>>]
    /\ current = [c \in Cpu |-> Idle]
    /\ pend = [c \in Cpu |-> Idle]
    /\ defer = [c \in Cpu |-> {}]
    /\ streak = [c \in Cpu |-> 0]
    /\ phase = [c \in Cpu |-> "user"]
    /\ cand = [c \in Cpu |-> Idle]
    /\ stk = [c \in Cpu |-> Idle]
    /\ scan = [c \in Cpu |-> 0]
    /\ slock = NoCpu

----------------------------------------------------------------------------
(* schedule(), stage by stage.                                             *)

(* The tick (or a yield without a timer) enters schedule().                *)
Tick(c) ==
    /\ phase[c] = "user"
    /\ GoTo(c, "reap")
    /\ UNCHANGED <<state, oncpu, inbox, reaping, killpend, pool, freed, rq,
                   current, pend, defer, streak, cand, stk, scan, slock>>

(* Stage 0: free one process parked by an earlier schedule() on this CPU.  *)
(* The pages go whether or not the process was still in the pool.          *)
ReapDeferred(c) ==
    /\ phase[c] = "reap"
    /\ slock = NoCpu
    /\ \E p \in defer[c] :
          /\ defer' = [defer EXCEPT ![c] = @ \ {p}]
          /\ pool' = pool \ {p}
          /\ inbox' = [inbox EXCEPT ![p] = 0]
          /\ freed' = [freed EXCEPT ![p] = @ + 1]
    /\ UNCHANGED <<state, oncpu, reaping, killpend, rq, current, pend, streak,
                   phase, cand, stk, scan, slock>>

(* Faulty: the pending slot is not cleared.                                *)
RequeuePendingKeepsSlot(c) ==
    LET pr == pend[c] IN
    /\ phase[c] = "reap" /\ defer[c] = {}
    /\ IF pr = Idle THEN UNCHANGED <<state, oncpu, rq>> ELSE EnqueueAs(pr, state[pr])
    /\ GoTo(c, "retire")
    /\ UNCHANGED <<procVars, reaping, defer, pend, current, streak, cand, stk, callVars>>

(* Stage 2: take the CPU's lock and requeue what the last switch parked.   *)
RequeuePending(c) ==
    LET pr == pend[c] IN
    /\ phase[c] = "reap" /\ defer[c] = {}
    /\ pend' = [pend EXCEPT ![c] = Idle]
    /\ IF pr = Idle THEN UNCHANGED <<state, oncpu, rq, reaping, defer>>
       ELSE IF state[pr] \in Corpse
            THEN /\ oncpu' = [oncpu EXCEPT ![pr] = NoCpu]
                 /\ ReapPush(c, pr)
                 /\ UNCHANGED <<state, rq>>
            ELSE /\ EnqueueAs(pr, state[pr])
                 /\ UNCHANGED <<reaping, defer>>
    /\ GoTo(c, "retire")
    /\ UNCHANGED <<procVars, current, streak, cand, stk, callVars>>


(* Stage 3: reap, requeue or leave the outgoing process.                   *)
RetirePrev(c) ==
    LET prev == current[c] IN
    /\ phase[c] = "retire"
    /\ IF prev = Idle THEN UNCHANGED <<state, oncpu, rq, reaping, defer, current>>
       ELSE IF state[prev] \in Corpse
            THEN /\ oncpu' = [oncpu EXCEPT ![prev] = NoCpu]
                 /\ ReapPush(c, prev)
                 /\ current' = [current EXCEPT ![c] = Idle]
                 /\ UNCHANGED <<state, rq>>
       ELSE IF state[prev] \in {"RUNNING", "READY"}
            THEN /\ EnqueueAs(prev, "READY")
                 /\ UNCHANGED <<reaping, defer, current>>
            ELSE UNCHANGED <<state, oncpu, rq, reaping, defer, current>>
    /\ GoTo(c, "pick")
    /\ UNCHANGED <<procVars, pend, streak, cand, stk, callVars>>

(* Position i heads the most urgent non-empty priority of queue s.         *)
Best(s, i) ==
    \A j \in 1..Len(s) : \/ Prio[s[i]] < Prio[s[j]]
                         \/ Prio[s[i]] = Prio[s[j]] /\ i <= j

(* Faulty: an off-by-one boost budget.                                     *)
FocusBoostOneMore(c) ==
    Focus \in Members(rq[c]) /\ streak[c] <= FocusBoostMax

FocusBoost(c) ==
    Focus \in Members(rq[c]) /\ streak[c] < FocusBoostMax

(* Faulty: the focused process is boosted without a budget.                *)
PicksFocusAlways(c, i) ==
    IF Focus \in Members(rq[c]) THEN rq[c][i] = Focus ELSE Best(rq[c], i)

(* pick_local takes position i: the bounded focus boost, else a fair pick. *)
Picks(c, i) == IF FocusBoost(c) THEN rq[c][i] = Focus ELSE Best(rq[c], i)


(* Stage 4: dequeue the choice; reap a corpse and skip a stopped process.  *)
PickLocal(c) ==
    \E i \in 1..Len(rq[c]) :
      LET p == rq[c][i] IN
      /\ phase[c] = "pick"
      /\ Picks(c, i)
      /\ rq' = [rq EXCEPT ![c] = RemoveAt(@, i)]
      /\ streak' = [streak EXCEPT ![c] = IF FocusBoost(c) THEN @ + 1 ELSE 0]
      /\ IF state[p] = "DEAD"
         THEN ReapPush(c, p) /\ UNCHANGED <<phase, cand>>
         ELSE /\ UNCHANGED <<reaping, defer>>
              /\ IF state[p] = "STOPPED" THEN UNCHANGED <<phase, cand>>
                 ELSE cand' = [cand EXCEPT ![c] = p] /\ GoTo(c, "install")
      /\ UNCHANGED <<procVars, state, oncpu, current, pend, stk, callVars>>

NothingLocal(c) ==
    /\ phase[c] = "pick" /\ rq[c] = <<>>
    /\ GoTo(c, "steal")
    /\ UNCHANGED <<procVars, state, oncpu, reaping, rq, current, pend, defer,
                   streak, cand, stk, callVars>>

(* Faulty: the stolen task stays linked on its old queue.                  *)
StealWorkKeepsLink(c) ==
    /\ phase[c] = "steal"
    /\ \E d \in Cpu \ {c} : \E i \in 1..Len(rq[d]) :
          /\ CpuLockFree(d)
          /\ Best(rq[d], i) /\ state[rq[d][i]] # "DEAD"
          /\ cand' = [cand EXCEPT ![c] = rq[d][i]]
    /\ GoTo(c, "install")
    /\ UNCHANGED <<procVars, state, oncpu, reaping, rq, current, pend, defer,
                   streak, stk, callVars>>

(* Stage 5: take the best task of another CPU, under a trylock that is     *)
(* dropped before the task's state and on_cpu are written (in Install).    *)
StealWork(c) ==
    /\ phase[c] = "steal"
    /\ \E d \in Cpu \ {c} : \E i \in 1..Len(rq[d]) :
          /\ CpuLockFree(d)
          /\ Best(rq[d], i) /\ state[rq[d][i]] # "DEAD"
          /\ rq' = [rq EXCEPT ![d] = RemoveAt(@, i)]
          /\ cand' = [cand EXCEPT ![c] = rq[d][i]]
    /\ GoTo(c, "install")
    /\ UNCHANGED <<procVars, state, oncpu, reaping, current, pend, defer,
                   streak, stk, callVars>>

(* Nothing stolen: every other queue was empty, headed by a corpse, or its *)
(* lock was busy.  A prev that is still RUNNING goes on; else the idle task.*)
StealNothing(c) ==
    LET prev == current[c] IN
    /\ phase[c] = "steal"
    /\ IF prev # Idle /\ state[prev] = "RUNNING"
       THEN GoTo(c, "user") /\ UNCHANGED cand
       ELSE GoTo(c, "install") /\ cand' = [cand EXCEPT ![c] = Idle]
    /\ UNCHANGED <<procVars, state, oncpu, reaping, rq, current, pend, defer,
                   streak, stk, callVars>>

(* list_del_init on p's run_list node, whichever queue it is linked on.    *)
Unlink(p) ==
    rq' = [c \in Cpu |->
             IF p \in Members(rq[c])
             THEN RemoveAt(rq[c], CHOOSE i \in 1..Len(rq[c]) : rq[c][i] = p)
             ELSE rq[c]]

(* Faulty: prev stays on the runqueue instead of being parked.             *)
InstallWithoutParking(c) ==
    LET next == cand[c] IN
    /\ phase[c] = "install"
    /\ cand' = [cand EXCEPT ![c] = Idle]
    /\ IF next = Idle THEN UNCHANGED <<state, oncpu>>
       ELSE /\ state' = [state EXCEPT ![next] = "RUNNING"]
            /\ oncpu' = [oncpu EXCEPT ![next] = c]
    /\ current' = [current EXCEPT ![c] = next]
    /\ GoTo(c, IF stk[c] = next THEN "user" ELSE "iret")
    /\ UNCHANGED <<procVars, rq, pend, reaping, defer, streak, stk, callVars>>

(* Stage 6: install `next`.  Without a switch the CPU simply returns.  A   *)
(* READY prev is parked in pending_reenqueue until the CPU is off its      *)
(* stack.                                                                  *)
Install(c) ==
    LET next == cand[c]
        prev == current[c]
    IN
    /\ phase[c] = "install"
    /\ cand' = [cand EXCEPT ![c] = Idle]
    /\ IF next = Idle THEN UNCHANGED <<state, oncpu>>
       ELSE /\ state' = [state EXCEPT ![next] = "RUNNING"]
            /\ oncpu' = [oncpu EXCEPT ![next] = c]
    /\ IF prev = next \/ prev = Idle \/ state[prev] # "READY"
       THEN UNCHANGED <<rq, pend>>
       ELSE Unlink(prev) /\ pend' = [pend EXCEPT ![c] = prev]
    /\ current' = [current EXCEPT ![c] = next]
    /\ GoTo(c, IF stk[c] = next THEN "user" ELSE "iret")
    /\ UNCHANGED <<procVars, reaping, defer, streak, stk, callVars>>

(* The dispatcher's IRET/ERET leaves the previous task's kernel stack.     *)
Iret(c) ==
    /\ phase[c] = "iret"
    /\ stk' = [stk EXCEPT ![c] = current[c]]
    /\ GoTo(c, "user")
    /\ UNCHANGED <<procVars, state, oncpu, reaping, rq, current, pend, defer,
                   streak, cand, callVars>>

----------------------------------------------------------------------------
(* System calls of the process running on CPU c.                           *)

Calls(c, op) == op \in Ops /\ phase[c] = "user" /\ current[c] # Idle

schedVars == <<reaping, pend, defer, streak, stk>>

(* sys_ipc_recv: take a message, or commit to sleep under msg_lock and the *)
(* own CPU's lock; the dispatcher then calls schedule() either way.        *)
Recv(c) ==
    LET p == current[c] IN
    /\ Calls(c, "recv")
    /\ IF inbox[p] > 0
       THEN inbox' = [inbox EXCEPT ![p] = @ - 1] /\ UNCHANGED state
       ELSE state' = [state EXCEPT ![p] = "SLEEPING"] /\ UNCHANGED inbox
    /\ GoTo(c, "reap")
    /\ UNCHANGED <<oncpu, killpend, pool, freed, rq, current, cand, schedVars,
                   callVars>>

(* kernel_ipc_send up to the wake-up: append, and mark a sleeper READY     *)
(* before its CPU's lock is taken.  SYS_SEND calls schedule() on success.  *)
Send(c, p) ==
    /\ Calls(c, "send")
    /\ slock = NoCpu
    /\ p \in pool /\ state[p] \notin Corpse
    /\ inbox[p] < MsgQueueMax
    /\ inbox' = [inbox EXCEPT ![p] = @ + 1]
    /\ IF state[p] = "SLEEPING"
       THEN /\ state' = [state EXCEPT ![p] = "READY"]
            /\ cand' = [cand EXCEPT ![c] = p]
            /\ slock' = c
            /\ GoTo(c, "wake")
       ELSE GoTo(c, "reap") /\ UNCHANGED <<state, cand, slock>>
    /\ UNCHANGED <<oncpu, killpend, pool, freed, rq, current, schedVars, scan>>

(* kernel_ipc_send's enqueue under the target CPU's lock.                  *)
SendWake(c) ==
    LET p == cand[c] IN
    /\ phase[c] = "wake"
    /\ CpuLockFree(Target(p))
    /\ EnqueueAs(p, state[p])
    /\ slock' = NoCpu
    /\ cand' = [cand EXCEPT ![c] = Idle]
    /\ GoTo(c, "reap")
    /\ UNCHANGED <<procVars, current, schedVars, scan>>

(* sys_exit: process_terminate(self), then schedule().                     *)
Exit(c) ==
    LET p == current[c] IN
    /\ Calls(c, "exit")
    /\ slock = NoCpu
    /\ p \notin Machine
    /\ state' = IF state[p] \in Corpse THEN state
                ELSE [state EXCEPT ![p] = "ZOMBIE"]
    /\ GoTo(c, "reap")
    /\ UNCHANGED <<procVars, oncpu, rq, current, cand, schedVars, callVars>>

(* SYS_KILL of the caller itself: as Exit, but the call returns to user    *)
(* mode.                                                                   *)
KillSelf(c) ==
    LET p == current[c] IN
    /\ Calls(c, "killself")
    /\ slock = NoCpu
    /\ p \notin Machine /\ state[p] \notin Corpse
    /\ state' = [state EXCEPT ![p] = "ZOMBIE"]
    /\ UNCHANGED <<procVars, oncpu, rq, current, cand, phase, schedVars, callVars>>

(* Faulty: no idempotence check, so a corpse is terminated again.          *)
KillTwice(c, p) ==
    /\ Calls(c, "kill")
    /\ slock = NoCpu
    /\ p \in pool \ (Machine \cup {current[c]})
    /\ state[p] # "CREATED"
    /\ inbox' = [inbox EXCEPT ![p] = 0]
    /\ cand' = [cand EXCEPT ![c] = p]
    /\ slock' = c
    /\ GoTo(c, IF state[p] \in {"READY", "RUNNING"} THEN "kmark" ELSE "ktail")
    /\ UNCHANGED <<state, oncpu, killpend, pool, freed, rq, current, schedVars, scan>>

(* Faulty: a queued victim is torn down like a sleeping one.               *)
KillQueued(c, p) ==
    /\ Calls(c, "kill")
    /\ slock = NoCpu
    /\ p \in pool \ (Machine \cup {current[c]})
    /\ state[p] \notin Corpse \cup {"CREATED"}
    /\ inbox' = [inbox EXCEPT ![p] = 0]
    /\ cand' = [cand EXCEPT ![c] = p]
    /\ slock' = c
    /\ GoTo(c, "ktail")
    /\ UNCHANGED <<state, oncpu, killpend, pool, freed, rq, current, schedVars, scan>>

(* process_terminate of another process, up to the dispatch on its state:  *)
(* a half-built child is only flagged, messages are drained.               *)
Kill(c, p) ==
    /\ Calls(c, "kill")
    /\ slock = NoCpu
    /\ p \in pool \ (Machine \cup {current[c]})
    /\ state[p] \notin Corpse
    /\ IF state[p] = "CREATED"
       THEN /\ killpend' = killpend \cup {p}
            /\ UNCHANGED <<inbox, cand, slock, phase>>
       ELSE /\ inbox' = [inbox EXCEPT ![p] = 0]
            /\ cand' = [cand EXCEPT ![c] = p]
            /\ slock' = c
            /\ GoTo(c, IF state[p] \in {"READY", "RUNNING"} THEN "kmark" ELSE "ktail")
            /\ UNCHANGED killpend
    /\ UNCHANGED <<state, oncpu, pool, freed, rq, current, schedVars, scan>>

(* Leaving process_terminate.                                              *)
KillReturns(c) ==
    /\ slock' = NoCpu
    /\ cand' = [cand EXCEPT ![c] = Idle]
    /\ scan' = [scan EXCEPT ![c] = 0]
    /\ GoTo(c, "user")

(* __proc_terminate_mark_dead_on_runqueue: mark under the lock of the CPU  *)
(* on_cpu names (re-read under that lock).                                 *)
KillMark(c) ==
    LET p == cand[c] IN
    /\ phase[c] = "kmark"
    /\ CpuLockFree(Target(p))
    /\ state' = [state EXCEPT ![p] = "DEAD"]
    /\ KillReturns(c)
    /\ UNCHANGED <<procVars, oncpu, rq, current, schedVars>>

(* The common tail marks the process DEAD without any CPU's lock ...       *)
KillTail(c) ==
    /\ phase[c] = "ktail"
    /\ state' = [state EXCEPT ![cand[c]] = "DEAD"]
    /\ GoTo(c, "kscan")
    /\ UNCHANGED <<procVars, oncpu, rq, current, cand, schedVars, callVars>>

(* ... looks for it on each CPU in turn, and frees it if it saw it nowhere.*)
KillScan(c) ==
    LET p == cand[c]
        i == scan[c]
    IN
    /\ phase[c] = "kscan"
    /\ CpuLockFree(i)
    /\ IF current[i] = p
       THEN KillReturns(c) /\ UNCHANGED <<pool, freed>>
       ELSE IF i + 1 \in Cpu
            THEN /\ scan' = [scan EXCEPT ![c] = i + 1]
                 /\ UNCHANGED <<cand, slock, phase, pool, freed>>
            ELSE /\ KillReturns(c)
                 /\ pool' = pool \ {p}
                 /\ freed' = IF p \in pool THEN [freed EXCEPT ![p] = @ + 1]
                             ELSE freed
    /\ UNCHANGED <<state, oncpu, inbox, killpend, rq, current, schedVars>>

(* process_stop: no runqueue is touched and no CPU lock taken.             *)
Stop(c, p) ==
    /\ Calls(c, "stop")
    /\ slock = NoCpu
    /\ p \in pool \ Machine
    /\ state[p] \in {"RUNNING", "READY", "SLEEPING"}
    /\ state' = [state EXCEPT ![p] = "STOPPED"]
    /\ UNCHANGED <<procVars, oncpu, rq, current, cand, phase, schedVars, callVars>>

(* process_cont.                                                           *)
Cont(c, p) ==
    /\ Calls(c, "stop")
    /\ slock = NoCpu
    /\ p \in pool /\ state[p] = "STOPPED"
    /\ CpuLockFree(Target(p))
    /\ EnqueueAs(p, "READY")
    /\ UNCHANGED <<procVars, current, cand, phase, schedVars, callVars>>

(* process_create_caps as the scheduler sees it: a pooled process that is  *)
(* on no queue while its image is loaded.                                  *)
SpawnCreate(c, p) ==
    /\ Calls(c, "spawn")
    /\ slock = NoCpu
    /\ state[p] = "UNUSED"
    /\ state' = [state EXCEPT ![p] = "CREATED"]
    /\ pool' = pool \cup {p}
    /\ cand' = [cand EXCEPT ![c] = p]
    /\ GoTo(c, "spawn")
    /\ UNCHANGED <<oncpu, inbox, killpend, freed, rq, current, schedVars, callVars>>

(* process_finalize_spawn: enqueue the child, or release one that was      *)
(* killed while loading; process_abort_spawn releases it when the load     *)
(* failed.                                                                 *)
SpawnFinish(c, loaded) ==
    LET p == cand[c] IN
    /\ phase[c] = "spawn"
    /\ slock = NoCpu
    /\ IF loaded /\ p \notin killpend
       THEN /\ CpuLockFree(Target(p))
            /\ EnqueueAs(p, state[p])
            /\ UNCHANGED <<pool, freed>>
       ELSE /\ pool' = pool \ {p}
            /\ freed' = [freed EXCEPT ![p] = @ + 1]
            /\ UNCHANGED <<state, oncpu, rq>>
    /\ cand' = [cand EXCEPT ![c] = Idle]
    /\ GoTo(c, "user")
    /\ UNCHANGED <<inbox, killpend, current, schedVars, callVars>>

Schedule(c) ==
    \/ ReapDeferred(c) \/ RequeuePending(c) \/ RetirePrev(c) \/ PickLocal(c)
    \/ NothingLocal(c) \/ StealWork(c) \/ StealNothing(c) \/ Install(c) \/ Iret(c)

(* The rest of a system call that has begun.                               *)
Finish(c) ==
    \/ SendWake(c) \/ KillMark(c) \/ KillTail(c) \/ KillScan(c)
    \/ \E loaded \in BOOLEAN : SpawnFinish(c, loaded)

Syscall(c) ==
    \/ Recv(c) \/ Exit(c) \/ KillSelf(c)
    \/ \E p \in Task : Send(c, p) \/ Kill(c, p) \/ Stop(c, p) \/ Cont(c, p)
                         \/ SpawnCreate(c, p)

Next == \E c \in Cpu : Tick(c) \/ Schedule(c) \/ Finish(c) \/ Syscall(c)

Spec == Init /\ [][Next]_vars

(* Fairness: every online CPU takes timer ticks and executes the kernel    *)
(* code it has entered; a CPU that spins on a lock which is free again and *)
(* again gets it.  Nothing obliges a process to make a system call.        *)
Fairness ==
    \A c \in Cpu : WF_vars(Tick(c)) /\ SF_vars(Schedule(c)) /\ SF_vars(Finish(c))

FairSpec == Spec /\ Fairness

----------------------------------------------------------------------------
(* Properties.                                                             *)

(* Where CPU c holds process p.                                            *)
Holds(c, p) ==
    \/ p \in Members(rq[c]) \/ p = pend[c] \/ p = current[c]
    \/ phase[c] = "install" /\ p = cand[c]

Built == {"CREATED", "UNUSED"}

(* No queue links a process twice, and one CPU at most holds it.           *)
OneHolder ==
    /\ \A c \in Cpu : Injective(rq[c])
    /\ \A c, d \in Cpu, p \in Task : Holds(c, p) /\ Holds(d, p) => c = d

(* What a CPU holds queued, parked or chosen: on_cpu names the CPU, and a  *)
(* parked process is neither queued nor current.                           *)
HeldState ==
    \A c \in Cpu, p \in Task :
        /\ p \in Members(rq[c]) => state[p] \in {"READY", "DEAD"} /\ oncpu[p] = c
        /\ p = pend[c] => /\ state[p] \in {"READY", "DEAD"} /\ oncpu[p] = c
                          /\ phase[c] \notin LockedPhase
                          /\ p \notin Members(rq[c]) /\ p # current[c]
        /\ phase[c] = "install" /\ p = cand[c] =>
              state[p] \in {"READY", "DEAD"} /\ p \notin Members(rq[c])

(* The current process is also queued only while its CPU's lock is held,   *)
(* and it sleeps only on its way through schedule().                       *)
CurrentState ==
    \A c \in Cpu, p \in Task : p = current[c] =>
        /\ oncpu[p] = c /\ state[p] \notin Built
        /\ p \in Members(rq[c]) => phase[c] \in {"pick", "install"} /\ state[p] = "READY"
        /\ state[p] = "SLEEPING" =>
              phase[c] \in {"reap", "retire", "pick", "steal", "install"}

(* A process whose stack a CPU still stands on without running it is       *)
(* parked by that CPU or held by none, and nobody else stands on it.       *)
StackState ==
    /\ \A c, d \in Cpu : c # d /\ stk[c] # Idle => stk[c] # stk[d]
    /\ \A c \in Cpu : stk[c] # current[c] =>
          \/ phase[c] = "iret"
          \/ current[c] = Idle /\ phase[c] \in {"pick", "steal", "install"}
    /\ \A c \in Cpu, p \in Task : p = stk[c] /\ p # current[c] =>
          /\ state[p] \notin Built
          /\ \/ phase[c] = "iret" /\ p = pend[c]
             \/ \A d \in Cpu : ~Holds(d, p)

(* The objects of system calls in progress; one terminator at a time.      *)
CallState ==
    /\ \A p \in Task : state[p] # "STOPPED"
    /\ \A p \in pool : state[p] # "UNUSED"
    /\ \A c \in Cpu :
          /\ phase[c] # "wake"
          /\ phase[c] \in {"kmark", "ktail", "kscan"} => slock = c
          /\ phase[c] = "kmark" => cand[c] \in Task /\ state[cand[c]] \notin Built
          /\ phase[c] = "ktail" => cand[c] \in Task /\ state[cand[c]] = "SLEEPING"
          /\ phase[c] = "spawn" =>
                /\ cand[c] \in Task /\ state[cand[c]] = "CREATED"
                /\ \A d \in Cpu : phase[d] = "spawn" /\ cand[d] = cand[c] => d = c

(* How schedule() keeps every process in one place as long as no other     *)
(* process makes it READY (no "send", no "stop"): the inductive invariant  *)
(* behind RunsOnOneCpu and StackExclusive.                                 *)
Placement == OneHolder /\ HeldState /\ CurrentState /\ StackState /\ CallState

(* No process is current_task of two CPUs: work stealing, parking and      *)
(* requeueing never let schedule() install a task that runs elsewhere.     *)
RunsOnOneCpu ==
    \A c, d \in Cpu : c # d /\ current[c] # Idle => current[c] # current[d]

(* A kernel stack is in use by one CPU: while a CPU stands on a process's  *)
(* stack (until its iretq), no other CPU stands on it or is installing     *)
(* that process.  This is what pending_reenqueue is for.                   *)
StackExclusive ==
    \A c, d \in Cpu : c # d /\ stk[c] # Idle => stk[c] \notin {stk[d], current[d]}

(* A run_list node is linked at most once over all runqueues, so no list   *)
(* operation of __enqueue_task/__dequeue_task corrupts a queue.            *)
QueuedOnce ==
    \A c, d \in Cpu : \A i \in 1..Len(rq[c]), j \in 1..Len(rq[d]) :
        rq[c][i] = rq[d][j] => c = d /\ i = j

(* The pages of a process are freed at most once, whether by               *)
(* process_terminate, by the deferred reaper or by an aborted spawn.       *)
FreedOnce == \A p \in Task : freed[p] <= 1

(* What __process_free_resources requires of its callers: a freed process  *)
(* is on no runqueue, in no pending slot, not current and not being        *)
(* installed, and no CPU stands on its stack.                              *)
FreedUnused ==
    \A p \in Task : freed[p] > 0 =>
        /\ ~Linked(p)
        /\ \A c \in Cpu : /\ p \notin {current[c], pend[c], stk[c]}
                           /\ phase[c] = "install" => cand[c] # p


(* A stopped process runs again only by way of process_cont, which makes   *)
(* it READY: schedule() never turns STOPPED into RUNNING.                  *)
StoppedNeverRuns ==
    [][\A p \in Task : state[p] = "STOPPED" => state'[p] # "RUNNING"]_vars

(* Every READY process is eventually dispatched (or stopped or killed),    *)
(* also while another one has the focus boost.                             *)
ReadyRuns == \A p \in Task : state[p] = "READY" ~> state[p] # "READY"

=============================================================================
