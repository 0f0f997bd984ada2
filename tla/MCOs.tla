------------------------------- MODULE MCOs --------------------------------
(* Two CPUs, four processes on two levels: two of them longer than a time  *)
(* slice, one that arrives while the others run and one that may arrive    *)
(* when all of them have ended.                                            *)
EXTENDS Os, TLC

CONSTANTS p1, p2, p3, p4

MCPrio     == (p1 :> 0) @@ (p2 :> 0) @@ (p3 :> 1) @@ (p4 :> 1)
MCWorkload == <<p3, p1, p2, p4>>
MCStart    == (p1 :> 0) @@ (p2 :> 3) @@ (p3 :> 0) @@ (p4 :> 8)
MCCode     == (p1 :> 3) @@ (p2 :> 3) @@ (p3 :> 1) @@ (p4 :> 3)
=============================================================================
