------------------------------- MODULE MCMem -------------------------------
(* Processes that share a RAM too small for all the pages they touch.      *)
EXTENDS Mem, TLC

MCSymmetry == Permutations(Procs)

\* SYSMEM_MAP_OP: no page, one page, and three pages of two page tables, the
\* first of them one that a region may have.
MCMapArgs == {[addr |-> 2, pgnum |-> 0], [addr |-> 2, pgnum |-> 1],
              [addr |-> 2, pgnum |-> 3]}

\* SYSMEM_INC_OP: an area number below 0, that of the only area, and one more.
MCIncAreas == {-1, 0, 1}

\* Bound: what follows a race for the free list is not explored further.
RaceFree == ~raced
=============================================================================
