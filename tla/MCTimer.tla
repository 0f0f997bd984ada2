------------------------------ MODULE MCTimer ------------------------------
(* Two CPUs and the loader, for every order in which they work, detach and *)
(* wake up during the first slots.                                         *)
EXTENDS Timer
=============================================================================
