---------------------------- MODULE SlotBarrier ----------------------------
(***************************************************************************)
(* What src/timer.c promises to the devices attached to it: a reusable     *)
(* barrier.  The clock moves on only when every device still attached has  *)
(* finished its job for the current slot, and every device works exactly   *)
(* once in each slot.                                                      *)
(***************************************************************************)
EXTENDS Naturals

CONSTANT Devs      \* the devices attached to the timer

VARIABLES clock,   \* the current time slot
          phase    \* where each device is in that slot

barrierVars == <<clock, phase>>

Phases == {"busy",      \* doing its job of the slot
           "arrived",   \* job done, waiting for the next slot
           "released",  \* the next slot has begun, not yet resumed
           "gone"}      \* detached

Init ==
    /\ clock = 0
    /\ phase = [d \in Devs |-> "busy"]

\* next_slot() is called: the device has done its job.
Arrive(d) ==
    /\ phase[d] = "busy"
    /\ phase' = [phase EXCEPT ![d] = "arrived"]
    /\ UNCHANGED clock

\* detach_event() is called: the device takes no further part.
Leave(d) ==
    /\ phase[d] = "busy"
    /\ phase' = [phase EXCEPT ![d] = "gone"]
    /\ UNCHANGED clock

\* Every device has arrived or left: the next slot begins for all of them.
Advance ==
    /\ \A d \in Devs : phase[d] \in {"arrived", "gone"}
    /\ clock' = clock + 1
    /\ phase' = [d \in Devs |->
                    IF phase[d] = "arrived" THEN "released" ELSE phase[d]]

\* next_slot() returns.
Resume(d) ==
    /\ phase[d] = "released"
    /\ phase' = [phase EXCEPT ![d] = "busy"]
    /\ UNCHANGED clock

Next ==
    \/ \E d \in Devs : Arrive(d) \/ Leave(d) \/ Resume(d)
    \/ Advance

Spec == Init /\ [][Next]_barrierVars
=============================================================================
