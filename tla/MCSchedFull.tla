---------------------------- MODULE MCSchedFull ----------------------------
(* The scheduler at its limits: three processes for queues of two slots,   *)
(* and one whose priority has no queue.                                    *)
EXTENDS Sched, TLC

CONSTANTS p1, p2, p3, p4

MCPrio == (p1 :> 0) @@ (p2 :> 0) @@ (p3 :> 0) @@ (p4 :> MAX_PRIO)

\* The processes of priority 0 differ in nothing, and neither do the CPUs.
MCSymmetry == Permutations(CPUs) \cup Permutations({p1, p2, p3})
=============================================================================
