----------------------------- MODULE MCSyscall -----------------------------
(* CPUs and the loader, three processes of one priority, and a list that   *)
(* can hold all of them.                                                   *)
EXTENDS Syscall, TLC

CONSTANTS p1, p2, p3

MCPrio == (p1 :> 0) @@ (p2 :> 0) @@ (p3 :> 0)

MCSymmetry == Permutations(CPUs) \cup Permutations(Procs)

\* Bound: what follows an overlap of the two locks' sections is not explored
\* further.
NoOverlap == ~overlap
=============================================================================
