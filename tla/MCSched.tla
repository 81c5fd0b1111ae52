------------------------------ MODULE MCSched ------------------------------
(***************************************************************************)
(* Instances of Sched: up to three processes, t1 being init (PLVL_MACHINE).*)
(***************************************************************************)
EXTENDS Sched

CONSTANTS t1, t2, t3

(* All at PROC_PRIO_USER.                                                  *)
FlatPrio == [p \in Task |-> 1]

(* init more urgent than the others.                                       *)
InitFirst == [p \in Task |-> IF p = t1 THEN 0 ELSE 1]
=============================================================================
