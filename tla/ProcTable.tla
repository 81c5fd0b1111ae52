----------------------------- MODULE ProcTable -----------------------------
(***************************************************************************)
(* The process table of kernel/sched/process.c: admission and identity of  *)
(* new processes, roll-back and release of half-built ones, termination,   *)
(* reaping with reparenting, the retained exit statuses, process_wait, and *)
(* the window-aware process_kill_subtree with its one static snapshot.     *)
(*                                                                         *)
(* Everything done in one critical section of sched_lock is one action.    *)
(* How the scheduler gets from a dead process to its reaping is the        *)
(* subject of module Sched; here a corpse is reaped at some later time,    *)
(* once its CPU is out of the kernel code it was executing (pc = "run").   *)
(***************************************************************************)
EXTENDS Integers, Sequences, FiniteSets

CONSTANTS
    NSlots,      \* MAX_PROCESSES
    ProcLimit,   \* proc_limit, derived from free memory in process_init
    Reserved,    \* RESERVED_PROC_SLOTS
    MaxChildren, \* MAX_PROCS_PER_PARENT
    ReapedMax,   \* REAPED_MAX
    IdleBase,    \* first pid of the idle tasks (32000)
    NIdle,       \* idle tasks created before init
    NServ,       \* services that init has already started
    MaxPid,      \* bound: next_pid stops here
    Level,       \* requested privilege levels, a subset of 0..3
    Owner,       \* the pids that OBJ_CTL_SETOWNER makes owners
    Windowed,    \* the pids that may own a window
    Waited,      \* the pids somebody calls process_wait for
    Killer       \* calls of process_kill_subtree in progress at once

Slot == 1..NSlots

MACHINE == 0
ROOT == 1
USER == 2

ASSUME ProcAssumption ==
    /\ NSlots \in Nat /\ ProcLimit \in 0..NSlots /\ Reserved \in Nat
    /\ MaxChildren \in Nat /\ ReapedMax \in Nat \ {0}
    /\ NIdle \in Nat /\ NServ \in Nat /\ NIdle + NServ < ProcLimit
    /\ MaxPid \in Nat /\ MaxPid > NServ /\ IdleBase \in Nat \ {0}
    /\ Level \subseteq 0..3 /\ Owner \subseteq 1..MaxPid /\ Waited \subseteq 1..MaxPid
    /\ Windowed \subseteq 1..MaxPid

VARIABLES
    proc,    \* process_pool[]: a record per slot
    active,  \* active_count
    nextPid, \* next_pid
    ring,    \* reaped_ring[]
    ringPos, \* reaped_next
    taken,   \* how often process_wait has handed out a pid's status
    died,    \* history: the last REAPED_MAX pids recorded in reaped_ring
    snap,    \* the static snap[] of process_kill_subtree
    call     \* the process_kill_subtree calls

table == <<proc, active, nextPid>>
waits == <<ring, ringPos, taken, died>>
kills == <<snap, call>>
vars == <<proc, active, nextPid, ring, ringPos, taken, died, snap, call>>

State == {"free", "created", "live", "dead"}

(* pc is what the process's CPU is doing for it: user code, or the spawn   *)
(* of the child in slot `child`.                                           *)
Process == [pid : Nat, parent : Nat, owner : Nat, level : 0..3, kids : Int,
            st : State, exited : BOOLEAN, killpend : BOOLEAN,
            pc : {"run", "make"}, child : 0..NSlots]

FreeSlot == [pid |-> 0, parent |-> 0, owner |-> 0, level |-> 3, kids |-> 0,
             st |-> "free", exited |-> FALSE, killpend |-> FALSE,
             pc |-> "run", child |-> 0]

(* A call of process_kill_subtree: its arguments and locals, the root's    *)
(* family when the snapshot was taken, and whom it has terminated.         *)
NoCall == [pc |-> "off", root |-> 0, idx |-> 0, n |-> 0, pos |-> 0,
           family |-> {}, hit |-> {}]

Used == {s \in Slot : proc[s].st # "free"}

(* __process_find_by_pid: the first slot that holds the pid, as a set.     *)
FindIn(S, pid) ==
    {s \in S : proc[s].pid = pid /\ \A r \in S : proc[r].pid = pid => s <= r}

Find(pid) == FindIn(Used, pid)
Privileged(s) == proc[s].level <= ROOT
Machine(s) == proc[s].level = MACHINE

(* A process that may be executing: alive, or killed while it runs and not *)
(* yet switched away from.  sys_exit never returns to a dead process.      *)
Acts(s) ==
    /\ proc[s].pid < IdleBase
    /\ proc[s].st = "live" \/ (proc[s].st = "dead" /\ ~proc[s].exited)

IdleTask(i) == [FreeSlot EXCEPT !.pid = IdleBase + i - 1, !.level = MACHINE, !.st = "live"]

InitTask == [FreeSlot EXCEPT !.pid = 1, !.level = MACHINE, !.st = "live", !.kids = NServ]

Service(pid) == [FreeSlot EXCEPT !.pid = pid, !.parent = 1, !.level = USER, !.st = "live"]

(* The idle tasks, then pid 1 and the services it has started.             *)
Init ==
    /\ proc = [s \in Slot |-> CASE s <= NIdle -> IdleTask(s)
                                [] s = NIdle + 1 -> InitTask
                                [] s \in (NIdle + 2)..(NIdle + 1 + NServ) -> Service(s - NIdle)
                                [] OTHER -> FreeSlot]
    /\ active = NIdle + 1 + NServ
    /\ nextPid = 2 + NServ
    /\ ring = [i \in 0..(ReapedMax - 1) |-> [pid |-> 0, code |-> 0]]
    /\ ringPos = 0
    /\ taken = [p \in 1..MaxPid |-> 0]
    /\ died = <<>>
    /\ snap = <<>>
    /\ call = [k \in Killer |-> NoCall]

----------------------------------------------------------------------------
(* Creation.                                                               *)

(* __proc_create_check_quota                                               *)
Admits(q) ==
    /\ active < ProcLimit
    /\ ~Privileged(q) => /\ proc[q].kids < MaxChildren
                         /\ active < ProcLimit - Reserved

MaxOf(a, b) == IF a > b THEN a ELSE b

(* Fault: the requested level is taken as it is.                           *)
IdentityUnclamped(q, lvl) ==
    [FreeSlot EXCEPT !.pid = nextPid, !.parent = proc[q].pid, !.level = lvl, !.st = "created"]

(* __proc_create_identity: never more privileged than the creator.         *)
Identity(q, lvl) ==
    [FreeSlot EXCEPT !.pid = nextPid, !.parent = proc[q].pid,
                     !.level = MaxOf(lvl, proc[q].level), !.st = "created"]

(* process_create_caps up to the release of sched_lock.                    *)
Create(q, lvl) ==
    /\ Acts(q) /\ proc[q].pc = "run"
    /\ nextPid <= MaxPid
    /\ Admits(q)
    /\ \E s \in Slot \ Used :
          /\ \A r \in Slot \ Used : s <= r
          /\ proc' = [proc EXCEPT ![s] = Identity(q, lvl),
                                  ![q].kids = @ + 1, ![q].pc = "make", ![q].child = s]
    /\ active' = active + 1
    /\ nextPid' = nextPid + 1
    /\ UNCHANGED <<waits, kills>>

(* __child_count_dec: the slot whose live-children count drops.            *)
ParentOf(s) == IF proc[s].parent > 0 THEN FindIn(Used \ {s}, proc[s].parent) ELSE {}

Drop(s) == [r \in Slot |->
              IF r = s THEN FreeSlot
              ELSE IF r \in ParentOf(s) /\ proc[r].kids > 0
                   THEN [proc[r] EXCEPT !.kids = @ - 1] ELSE proc[r]]

(* The heir of __reparent_children: the parent, else init, else nobody.    *)
Heir(s) ==
    IF ParentOf(s) # {} THEN ParentOf(s)
    ELSE IF proc[s].pid # 1 THEN FindIn(Used \ {s}, 1) ELSE {}

Orphans(s) == {r \in Used \ {s} : proc[r].parent = proc[s].pid}

(* Faults: nobody is adopted, or the heir is not charged for the adopted.  *)
RemovedUnheeded(s) == Drop(s)

RemovedUncharged(s) ==
    [r \in Slot |->
       [Drop(s)[r] EXCEPT
          !.parent = IF r \in Orphans(s) /\ Heir(s) # {}
                     THEN proc[CHOOSE h \in Heir(s) : TRUE].pid ELSE @]]

(* The pool without s: __child_count_dec and __reparent_children.          *)
Removed(s) ==
    LET heirPid == IF Heir(s) = {} THEN 0 ELSE proc[CHOOSE h \in Heir(s) : TRUE].pid
    IN  [r \in Slot |->
           [Drop(s)[r] EXCEPT
              !.parent = IF r \in Orphans(s) THEN heirPid ELSE @,
              !.owner = IF r \in Used /\ @ = proc[s].pid THEN 0 ELSE @,
              !.kids = IF r \in Heir(s) THEN @ + Cardinality(Orphans(s)) ELSE @]]

(* Fault: the roll-back forgets active_count.                              *)
CreateFailsUncounted(q) ==
    /\ proc[q].pc = "make"
    /\ proc' = [Drop(proc[q].child) EXCEPT ![q].pc = "run", ![q].child = 0]
    /\ UNCHANGED <<active, nextPid, waits, kills>>

(* process_create_caps fails after the slot was published, for want of     *)
(* handles, page table or stack: __proc_create_rollback.                   *)
CreateFails(q) ==
    LET s == proc[q].child IN
    /\ proc[q].pc = "make"
    /\ proc' = [Drop(s) EXCEPT ![q].pc = "run", ![q].child = 0]
    /\ active' = active - 1
    /\ UNCHANGED <<nextPid, waits, kills>>

(* Fault: the child is enqueued without a look at kill_pending.            *)
SpawnedBlind(q, loaded) ==
    LET s == proc[q].child IN
    /\ proc[q].pc = "make"
    /\ IF loaded
       THEN /\ proc' = [proc EXCEPT ![s].st = "live", ![q].pc = "run", ![q].child = 0]
            /\ UNCHANGED active
       ELSE /\ proc' = [Removed(s) EXCEPT ![q].pc = "run", ![q].child = 0]
            /\ active' = active - 1
    /\ UNCHANGED <<nextPid, waits, kills>>

(* dispatch_spawn's end: process_finalize_spawn enqueues the child unless  *)
(* a kill was deferred to it; then, or when the image did not load         *)
(* (process_abort_spawn), __process_release_created removes it.            *)
Spawned(q, loaded) ==
    LET s == proc[q].child IN
    /\ proc[q].pc = "make"
    /\ IF loaded /\ ~proc[s].killpend
       THEN /\ proc' = [proc EXCEPT ![s].st = "live", ![q].pc = "run", ![q].child = 0]
            /\ UNCHANGED active
       ELSE /\ proc' = [Removed(s) EXCEPT ![q].pc = "run", ![q].child = 0]
            /\ active' = active - 1
    /\ UNCHANGED <<nextPid, waits, kills>>

(* process_set_owner, for a privileged service.                            *)
SetOwner(s, pid) ==
    /\ s \in Used /\ Find(pid) # {}
    /\ proc' = [proc EXCEPT ![s].owner = pid]
    /\ UNCHANGED <<active, nextPid, waits, kills>>

----------------------------------------------------------------------------
(* Termination, reaping, waiting.                                          *)

Status(s) == IF proc[s].exited THEN 0 ELSE -9

(* Faults: reaped_next does not wrap around; the status is not recorded.   *)
PoolRemoveNoWrap(s) ==
    /\ ring' = [ring EXCEPT ![ringPos] = [pid |-> proc[s].pid, code |-> Status(s)]]
    /\ ringPos' = ringPos + 1
    /\ proc' = Removed(s)
    /\ active' = active - 1
    /\ UNCHANGED <<taken, died>>

PoolRemoveUnrecorded(s) ==
    /\ died' = <<proc[s].pid>>
    /\ proc' = Removed(s)
    /\ active' = active - 1
    /\ UNCHANGED <<ring, ringPos, taken>>

(* __proc_terminate_pool_remove: record the status, drop the slot.         *)
PoolRemove(s) ==
    /\ ring' = [ring EXCEPT ![ringPos] = [pid |-> proc[s].pid, code |-> Status(s)]]
    /\ ringPos' = (ringPos + 1) % ReapedMax
    /\ died' = LET d == Append(died, proc[s].pid)
               IN  IF Len(d) > ReapedMax THEN Tail(d) ELSE d
    /\ proc' = Removed(s)
    /\ active' = active - 1
    /\ UNCHANGED taken

(* process_terminate of the process in slot s, by another one.  A sleeping *)
(* victim that is current on no CPU is removed at once (now).              *)
Terminate(s, now) ==
    IF Machine(s) \/ proc[s].st = "dead" THEN UNCHANGED <<proc, active, waits>>
    ELSE IF proc[s].st = "created"
         THEN /\ proc' = [proc EXCEPT ![s].killpend = TRUE]
              /\ UNCHANGED <<active, waits>>
    ELSE IF now /\ proc[s].pc = "run" THEN PoolRemove(s)
         ELSE /\ proc' = [proc EXCEPT ![s].st = "dead"]
              /\ UNCHANGED <<active, waits>>

(* Self-termination: sys_exit, which sets the status whatever              *)
(* process_terminate then decides, or SYS_KILL of the caller itself.       *)
Exit(s, voluntary) ==
    /\ Acts(s) /\ proc[s].pc = "run"
    /\ proc' = [proc EXCEPT ![s].exited = @ \/ voluntary,
                            ![s].st = IF Machine(s) THEN @ ELSE "dead"]
    /\ UNCHANGED <<active, nextPid, waits, kills>>

(* __sched_reap_deferred: a corpse's CPU has switched away from it.        *)
Reap(s) ==
    /\ proc[s].st = "dead" /\ proc[s].pc = "run"
    /\ PoolRemove(s)
    /\ UNCHANGED <<nextPid, kills>>

(* process_wait when it has a status to hand out: that of a corpse, which  *)
(* stays, or a retained one, which is consumed.                            *)
Wait(pid) ==
    /\ \/ /\ \E s \in Find(pid) : proc[s].st = "dead"
          /\ UNCHANGED ring
       \/ /\ Find(pid) = {}
          /\ \E i \in 0..(ReapedMax - 1) :
                /\ ring[i].pid = pid /\ \A j \in 0..(i - 1) : ring[j].pid # pid
                /\ ring' = [ring EXCEPT ![i].pid = 0]
    /\ taken' = [taken EXCEPT ![pid] = IF @ < 2 THEN @ + 1 ELSE @]
    /\ UNCHANGED <<table, ringPos, died, kills>>

----------------------------------------------------------------------------
(* process_kill_subtree.                                                   *)

UsedBefore(s) == Cardinality({r \in Used : r < s})

(* __kill_snap_capture's view of the pool, in slot order.                  *)
Snapshot ==
    [i \in 1..Cardinality(Used) |->
       LET s == CHOOSE r \in Used : UsedBefore(r) = i - 1
       IN  [pid |-> proc[s].pid, parent |-> proc[s].parent, machine |-> Machine(s),
            winless |-> TRUE, kill |-> FALSE]]

(* The pids below root in the parent relation, root included.              *)
Family(root) ==
    LET F[m \in 0..NSlots] ==
          IF m = 0 THEN {root}
          ELSE LET G == F[m - 1]
               IN  G \cup {proc[s].pid : s \in {r \in Used : proc[r].parent \in G}}
    IN  F[NSlots]

(* Fault: the root's pool index, not its index in the compacted snapshot.  *)
RootIdxInPool(s) == s

RootIdx(s) == UsedBefore(s) + 1

(* What is kept when call k is over: the array and k's family as long as   *)
(* another call is in progress.                                            *)
LastCall(k) == \A j \in Killer \ {k} : call[j].pc = "off"
LeftSnap(k, sn) == IF LastCall(k) THEN <<>> ELSE sn
LeftCall(k) == IF LastCall(k) THEN [j \in Killer |-> NoCall]
               ELSE [call EXCEPT ![k] = [NoCall EXCEPT !.family = call[k].family]]

(* The snapshot array is static: a capture overwrites its first entries,   *)
(* whoever is still working with them.  A machine root ends the call.      *)
Capture(k, root) ==
    LET sn == Snapshot \o SubSeq(snap, Len(Snapshot) + 1, Len(snap)) IN
    /\ call[k].pc = "off"
    /\ \E s \in Find(root) :
          IF Machine(s) THEN snap' = LeftSnap(k, sn) /\ UNCHANGED call
          ELSE /\ snap' = sn
               /\ call' = [call EXCEPT ![k] =
                             [NoCall EXCEPT !.pc = "mark", !.root = root,
                                            !.idx = RootIdx(s),
                                            !.n = Len(Snapshot), !.family = Family(root)]]
    /\ UNCHANGED <<table, waits>>

(* Fault: a single pass.                                                   *)
PropagateOnce(sn, n, flagged) ==
    LET P[i \in 0..n] ==
          IF i = 0 THEN flagged
          ELSE LET K == P[i - 1]
               IN  IF /\ sn[i].winless /\ ~sn[i].machine
                      /\ \E j \in K : sn[j].pid = sn[i].parent
                   THEN K \cup {i} ELSE K
    IN  P[n]

(* __kill_snap_propagate on the first n entries: passes in slot order,     *)
(* from the flags already set.                                             *)
Propagate(sn, n, flagged) ==
    LET Joins(i, K) == /\ sn[i].winless /\ ~sn[i].machine
                       /\ \E j \in K : sn[j].pid = sn[i].parent
        Pass(K) == LET P[i \in 0..n] ==
                         IF i = 0 THEN K
                         ELSE LET L == P[i - 1]
                              IN  IF Joins(i, L) THEN L \cup {i} ELSE L
                   IN  P[n]
        Q[m \in 0..n] == IF m = 0 THEN flagged ELSE Pass(Q[m - 1])
    IN  Q[n]

(* The window probes, the root's flag and the propagation, none of them    *)
(* under a lock.  W is the set of window owners.                           *)
Mark(k, W) ==
    LET c == call[k]
        sn == [i \in DOMAIN snap |->
                 IF i <= c.n THEN [snap[i] EXCEPT !.winless = snap[i].pid \notin W,
                                                  !.kill = @ \/ i = c.idx]
                 ELSE snap[i]]
        K == Propagate(sn, c.n, {i \in 1..c.n : sn[i].kill})
    IN
    /\ c.pc = "mark"
    /\ snap' = [i \in DOMAIN sn |-> [sn[i] EXCEPT !.kill = @ \/ i \in K]]
    /\ call' = [call EXCEPT ![k].pc = "exec", ![k].pos = 1]
    /\ UNCHANGED <<table, waits>>

(* __kill_snap_execute, one process_terminate: the next flagged entry, or  *)
(* the root when there is none left.                                       *)
Execute(k, now) ==
    LET c == call[k]
        left == {i \in c.pos..c.n : snap[i].kill /\ snap[i].pid # c.root}
        i == CHOOSE j \in left : \A m \in left : j <= m
        pid == IF left = {} THEN c.root ELSE snap[i].pid
    IN
    /\ c.pc = "exec"
    /\ IF Find(pid) = {} THEN UNCHANGED <<proc, active, waits>>
       ELSE \E s \in Find(pid) : Terminate(s, now)
    /\ call' = IF left = {} THEN LeftCall(k)
               ELSE [call EXCEPT ![k].pos = i + 1, ![k].hit = @ \cup {pid}]
    /\ snap' = IF left = {} THEN LeftSnap(k, snap) ELSE snap
    /\ UNCHANGED nextPid

Next ==
    \/ \E q \in Slot : \/ \E lvl \in Level : Create(q, lvl)
                       \/ CreateFails(q)
                       \/ \E loaded \in BOOLEAN : Spawned(q, loaded)
                       \/ \E voluntary \in BOOLEAN : Exit(q, voluntary)
                       \/ Reap(q)
                       \/ \E pid \in Owner : SetOwner(q, pid)
    \/ \E pid \in Waited : Wait(pid)
    \/ \E k \in Killer : \/ \E pid \in 1..MaxPid : Capture(k, pid)
                         \/ \E W \in SUBSET Windowed : Mark(k, W)
                         \/ \E now \in BOOLEAN : Execute(k, now)

Spec == Init /\ [][Next]_vars

----------------------------------------------------------------------------
(* Properties.                                                             *)

TypeOK ==
    /\ proc \in [Slot -> Process]
    /\ active \in 0..ProcLimit
    /\ nextPid \in 1..(MaxPid + 1)
    /\ ring \in [0..(ReapedMax - 1) -> [pid : Nat, code : {0, -9}]]
    /\ ringPos \in 0..(ReapedMax - 1)
    /\ taken \in [1..MaxPid -> 0..2]

(* active_count is the number of occupied slots on every path (create,     *)
(* roll-back, release, terminate, reap).                                   *)
ActiveExact == active = Cardinality(Used)

(* Every process's parent_pid names a process in the pool, or nobody:      *)
(* __reparent_children leaves no orphan behind a removed parent.           *)
ParentLive == \A s \in Used : proc[s].parent = 0 \/ Find(proc[s].parent) # {}

(* child_count is exactly the number of pooled children, through any chain *)
(* of deaths and adoptions, so the per-parent quota can be trusted.        *)
ChildCountExact ==
    \A s \in Used : proc[s].kids = Cardinality({r \in Used : proc[r].parent = proc[s].pid})

(* A process is never more privileged than its current parent, and its pid *)
(* is larger: creation clamps the level, adoption goes up the tree.  The   *)
(* ancestry walks of process_kill_allowed rely on the second part.         *)
FamilyOrder ==
    \A s, r \in Used : proc[s].parent = proc[r].pid =>
        proc[r].pid < proc[s].pid /\ proc[r].level <= proc[s].level

(* owner_pid never names a corpse that has left the pool.                  *)
OwnerNotDead == \A s \in Used, i \in 1..Len(died) : proc[s].owner # died[i]

(* A status is retained for the last REAPED_MAX deaths: process_wait can   *)
(* still hand it out unless it already did.                                *)
StatusRetained ==
    \A i \in 1..Len(died) :
        \/ \E j \in 0..(ReapedMax - 1) : ring[j].pid = died[i]
        \/ taken[died[i]] > 0

(* process_wait hands a process's status out once.                         *)
StatusOnce == \A pid \in 1..MaxPid : taken[pid] <= 1

(* A child that was killed while its image was loading never runs.         *)
KilledChildNeverRuns ==
    [][\A s \in Slot : proc[s].killpend => proc'[s].st # "live"]_vars

(* __kill_snap_propagate computes the least set that holds the root and    *)
(* every windowless, unprotected child of a member.                        *)
MarksLeast ==
    \A k \in Killer : call[k].pc = "exec" =>
        LET E == 1..call[k].n
            K == {i \in E : snap[i].kill}
            Closed(S) == \A i \in E, j \in S :
                            snap[j].pid = snap[i].parent /\ snap[i].winless
                               /\ ~snap[i].machine => i \in S
        IN  Closed(K) /\ \A S \in SUBSET K : call[k].idx \in S /\ Closed(S) => S = K

(* process_kill_subtree terminates only processes that were below its root *)
(* when it took its snapshot, or below the root of an overlapping call.    *)
KillsOnlyFamily ==
    \A k \in Killer : call[k].hit \subseteq UNION {call[j].family : j \in Killer}
============================================================================
