------------------------------ MODULE MCSched ------------------------------
(* Two CPUs and the loader, three processes on two priority levels.        *)
EXTENDS Sched, TLC

CONSTANTS p1, p2, p3

MCPrio == (p1 :> 0) @@ (p2 :> 0) @@ (p3 :> 1)

\* p1 and p2 differ in nothing, and neither do the CPUs.
MCSymmetry == Permutations(CPUs) \cup Permutations({p1, p2})
=============================================================================
