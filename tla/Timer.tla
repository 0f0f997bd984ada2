------------------------------- MODULE Timer -------------------------------
(***************************************************************************)
(* src/timer.c and the part of main() in src/os.c that drives it: the      *)
(* timer thread, the devices (CPU threads and the loader thread) that call *)
(* next_slot and detach_event, and the main thread that attaches, starts,  *)
(* joins and stops them.                                                   *)
(*                                                                         *)
(* attach_event pushes on the head of dev_list, so with devices numbered   *)
(* 1..N in the order main attaches them (the CPUs, then the loader) the    *)
(* list is N, N-1, ..., 1 and a list cursor is a number.                   *)
(*                                                                         *)
(* Granularity.  A critical section of event_lock or timer_lock makes one  *)
(* access to the flags another thread can change (done, fsh), so each is   *)
(* one action; the two locks do not exclude each other, and neither do the *)
(* actions.  pthread_cond_wait gives up the lock: it ends an action in the *)
(* state "blocked", from which a signal or a spurious wakeup leads back to *)
(* the loop's test.                                                        *)
(***************************************************************************)
EXTENDS Naturals

CONSTANTS N,        \* number of devices: num_cpus CPUs and the loader
          MaxTime   \* bound: no device asks for another slot at MaxTime

ASSUME TimerAssumption == N \in Nat \ {0} /\ MaxTime \in Nat

Devs == 1..N

VARIABLES
    mainPc, mainI,       \* the main thread and its loop counter i
    timer_started, timer_stop,
    timerPc,             \* the timer thread
    cur,                 \* its list cursor temp
    nfsh, nevent,        \* its local counters fsh and event
    _time,
    done, fsh,           \* the two flags of each struct timer_id_t
    devPc                \* each device thread

mainVars  == <<mainPc, mainI, timer_started, timer_stop>>
timerVars == <<timerPc, cur, nfsh, nevent, _time>>
devVars   == <<done, fsh, devPc>>
vars      == <<mainVars, timerVars, devVars>>

Init ==
    /\ mainPc = "attach" /\ mainI = 0
    /\ timer_started = 0 /\ timer_stop = 0
    /\ timerPc = "none" /\ cur = 0 /\ nfsh = 0 /\ nevent = 0
    /\ _time = 0
    /\ done = [d \in Devs |-> 0]
    /\ fsh  = [d \in Devs |-> 0]
    /\ devPc = [d \in Devs |-> "new"]

-----------------------------------------------------------------------------
(* The main thread.                                                        *)

attach_event ==
    /\ mainPc = "attach" /\ mainI < N /\ timer_started = 0
    /\ mainI' = mainI + 1
    /\ done' = [done EXCEPT ![mainI + 1] = 0]
    /\ fsh'  = [fsh EXCEPT ![mainI + 1] = 0]
    /\ UNCHANGED <<mainPc, timer_started, timer_stop, timerVars, devPc>>

\* Variant: the loop counter is not reset for the second loop.
start_timer_KeepI ==
    /\ mainPc = "attach" /\ mainI = N
    /\ timer_started' = 1
    /\ timerPc' = "top"
    /\ mainPc' = "spawn"
    /\ UNCHANGED <<mainI, timer_stop, cur, nfsh, nevent, _time, devVars>>

start_timer ==
    /\ mainPc = "attach" /\ mainI = N
    /\ timer_started' = 1
    /\ timerPc' = "top"
    /\ mainPc' = "spawn" /\ mainI' = 0
    /\ UNCHANGED <<timer_stop, cur, nfsh, nevent, _time, devVars>>

SpawnDevice ==
    /\ mainPc = "spawn"
    /\ devPc' = [devPc EXCEPT ![mainI + 1] = "work"]
    /\ mainI' = mainI + 1
    /\ mainPc' = IF mainI + 1 = N THEN "join" ELSE "spawn"
    /\ UNCHANGED <<timer_started, timer_stop, timerVars, done, fsh>>

\* Variant: main does not join the devices.
stop_timer_NoJoin ==
    /\ mainPc = "join"
    /\ timer_stop' = 1
    /\ mainPc' = "stop"
    /\ UNCHANGED <<mainI, timer_started, timerVars, devVars>>

\* Every device thread has exited: main sets timer_stop ...
stop_timer ==
    /\ mainPc = "join"
    /\ \A d \in Devs : devPc[d] = "off"
    /\ timer_stop' = 1
    /\ mainPc' = "stop"
    /\ UNCHANGED <<mainI, timer_started, timerVars, devVars>>

\* ... joins the timer thread and frees dev_list.
FreeDevList ==
    /\ mainPc = "stop" /\ timerPc = "exit"
    /\ mainPc' = "end"
    /\ UNCHANGED <<mainI, timer_started, timer_stop, timerVars, devVars>>

Main == attach_event \/ start_timer \/ SpawnDevice \/ stop_timer \/ FreeDevList

-----------------------------------------------------------------------------
(* The timer thread: timer_routine.                                        *)

\* Variant: the timer does not wait for the devices.
BeginRound_NoPoll ==
    /\ timerPc = "top"
    /\ IF timer_stop = 1
         THEN timerPc' = "exit" /\ UNCHANGED <<cur, nfsh, nevent>>
         ELSE timerPc' = "tick" /\ cur' = N /\ nfsh' = 0 /\ nevent' = 1
    /\ UNCHANGED <<mainVars, _time, devVars>>

BeginRound ==
    /\ timerPc = "top"
    /\ IF timer_stop = 1
         THEN timerPc' = "exit" /\ UNCHANGED <<cur, nfsh, nevent>>
         ELSE timerPc' = "poll" /\ cur' = N /\ nfsh' = 0 /\ nevent' = 0
    /\ UNCHANGED <<mainVars, _time, devVars>>

\* One device of the first loop, under its event_lock: wait while it has
\* neither done its job nor finished, else count it.
PollDevice ==
    /\ timerPc = "poll"
    /\ IF done[cur] = 0 /\ fsh[cur] = 0
         THEN timerPc' = "blocked" /\ UNCHANGED <<cur, nfsh, nevent>>
         ELSE /\ nfsh' = nfsh + fsh[cur]
              /\ nevent' = nevent + 1
              /\ cur' = cur - 1
              /\ timerPc' = IF cur = 1 THEN "tick" ELSE "poll"
    /\ UNCHANGED <<mainVars, _time, devVars>>

Tick ==
    /\ timerPc = "tick"
    /\ _time' = _time + 1
    /\ cur' = N
    /\ timerPc' = "release"
    /\ UNCHANGED <<mainVars, nfsh, nevent, devVars>>

\* Variant: the flag is cleared and the device not signalled.
ReleaseDevice_NoSignal ==
    /\ timerPc = "release"
    /\ done' = [done EXCEPT ![cur] = 0]
    /\ cur' = cur - 1
    /\ timerPc' = IF cur > 1 THEN "release"
                  ELSE IF nfsh = nevent THEN "exit" ELSE "top"
    /\ UNCHANGED <<mainVars, nfsh, nevent, _time, fsh, devPc>>

\* One device of the second loop, under its timer_lock: clear its flag and
\* signal it.  After the last one the round ends.
ReleaseDevice ==
    /\ timerPc = "release"
    /\ done' = [done EXCEPT ![cur] = 0]
    /\ devPc' = IF devPc[cur] = "blocked"
                  THEN [devPc EXCEPT ![cur] = "recheck"] ELSE devPc
    /\ cur' = cur - 1
    /\ timerPc' = IF cur > 1 THEN "release"
                  ELSE IF nfsh = nevent THEN "exit" ELSE "top"
    /\ UNCHANGED <<mainVars, nfsh, nevent, _time, fsh>>

\* A spurious wakeup of the timer's pthread_cond_wait.
SpuriousTimer ==
    /\ timerPc = "blocked"
    /\ timerPc' = "poll"
    /\ UNCHANGED <<mainVars, cur, nfsh, nevent, _time, devVars>>

TimerThread == BeginRound \/ PollDevice \/ Tick \/ ReleaseDevice

-----------------------------------------------------------------------------
(* A device thread.                                                        *)

\* Variant: the timer is not signalled.
SignalEvent_None(d) == timerPc' = timerPc

\* pthread_cond_signal(event_cond): the timer, if it waits for d, wakes up.
SignalEvent(d) ==
    timerPc' = IF timerPc = "blocked" /\ cur = d THEN "poll" ELSE timerPc

\* next_slot, first critical section: the job of this slot is done.
NextSlotDone(d) ==
    /\ devPc[d] = "work" /\ _time < MaxTime
    /\ done' = [done EXCEPT ![d] = 1]
    /\ SignalEvent(d)
    /\ devPc' = [devPc EXCEPT ![d] = "recheck"]
    /\ UNCHANGED <<mainVars, cur, nfsh, nevent, _time, fsh>>

\* Variant: pthread_cond_wait outside a loop; any wakeup returns.
NextSlotWait_NoLoop(d) ==
    /\ devPc[d] = "recheck"
    /\ devPc' = [devPc EXCEPT ![d] = "work"]
    /\ UNCHANGED <<mainVars, timerVars, done, fsh>>

\* next_slot, second critical section: wait while done is set, else return.
NextSlotWait(d) ==
    /\ devPc[d] = "recheck"
    /\ devPc' = [devPc EXCEPT ![d] = IF done[d] = 1 THEN "blocked" ELSE "work"]
    /\ UNCHANGED <<mainVars, timerVars, done, fsh>>

detach_event(d) ==
    /\ devPc[d] = "work"
    /\ fsh' = [fsh EXCEPT ![d] = 1]
    /\ SignalEvent(d)
    /\ devPc' = [devPc EXCEPT ![d] = "off"]
    /\ UNCHANGED <<mainVars, cur, nfsh, nevent, _time, done>>

SpuriousDevice(d) ==
    /\ devPc[d] = "blocked"
    /\ devPc' = [devPc EXCEPT ![d] = "recheck"]
    /\ UNCHANGED <<mainVars, timerVars, done, fsh>>

DeviceThread(d) == NextSlotDone(d) \/ NextSlotWait(d) \/ detach_event(d)

-----------------------------------------------------------------------------
\* main has returned: nothing moves any more.
Finished == mainPc = "end" /\ UNCHANGED vars

Next ==
    \/ Main
    \/ TimerThread
    \/ SpuriousTimer
    \/ \E d \in Devs : DeviceThread(d) \/ SpuriousDevice(d)
    \/ Finished

\* Every thread that can take a step eventually does; wakeups need a signal.
Fairness ==
    /\ WF_vars(Main)
    /\ WF_vars(TimerThread)
    /\ \A d \in Devs : WF_vars(DeviceThread(d))

Spec == Init /\ [][Next]_vars
FairSpec == Spec /\ Fairness

-----------------------------------------------------------------------------
(* Properties.                                                             *)

\* Type invariant of the timer's state (src/timer.c:8-18, include/timer.h).
TypeOK ==
    /\ mainPc \in {"attach", "spawn", "join", "stop", "end"}
    /\ mainI \in 0..N
    /\ timer_started \in {0, 1} /\ timer_stop \in {0, 1}
    /\ timerPc \in {"none", "top", "poll", "blocked", "tick", "release", "exit"}
    /\ cur \in 0..N
    /\ nfsh \in Nat /\ nevent \in Nat
    /\ _time \in Nat
    /\ done \in [Devs -> {0, 1}]
    /\ fsh \in [Devs -> {0, 1}]
    /\ devPc \in [Devs -> {"new", "work", "recheck", "blocked", "off"}]

\* No signal is lost: a device sleeping in next_slot still has its done flag
\* set, and the timer never sleeps on a device that has already reported
\* (the two pthread_cond_wait loops of timer.c:31 and timer.c:70).
NoLostWakeup ==
    /\ \A d \in Devs : devPc[d] = "blocked" => done[d] = 1
    /\ timerPc = "blocked" => done[cur] = 0 /\ fsh[cur] = 0

\* The timer thread exits only after every device has detached, so no device
\* is left waiting for a slot that never comes (timer.c:54, timer.c:22).
ExitsLast ==
    timerPc = "exit" => \A d \in Devs : devPc[d] = "off"

\* A device that works in a slot sees one value of _time throughout: the
\* clock is advanced only while nobody is working, which is what makes the
\* unlocked read in current_time() (timer.c:79, os.c:124) stable.
TimeIsStable ==
    [][_time' # _time => \A d \in Devs : devPc[d] \notin {"new", "work"}]_vars

\* The flags, the cursor and the condition variables implement the barrier:
\* a device has arrived until the timer ticks, and is released from the tick on.
BarrierPhase(d) ==
    CASE devPc[d] \in {"new", "work"} -> "busy"
      [] devPc[d] = "off" -> "gone"
      [] devPc[d] \in {"recheck", "blocked"} ->
            IF done[d] = 0 \/ (timerPc = "release" /\ d <= cur)
              THEN "released" ELSE "arrived"

Barrier == INSTANCE SlotBarrier
             WITH clock <- _time, phase <- [d \in Devs |-> BarrierPhase(d)]

\* Refinement: the timer of timer.c is the reusable barrier of SlotBarrier.
ImplementsBarrier == Barrier!Spec

\* next_slot returns: a device that waits for the next slot gets it, whatever
\* the order in which the flags, the signals and the wakeups happen.
NextSlotReturns ==
    \A d \in Devs :
        devPc[d] \in {"recheck", "blocked"} ~> devPc[d] = "work"

\* Once every device has detached the timer thread stops and main returns.
TimerTerminates ==
    (\A d \in Devs : devPc[d] = "off") ~> (mainPc = "end")
=============================================================================
