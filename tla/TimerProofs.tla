---------------------------- MODULE TimerProofs ----------------------------
(***************************************************************************)
(* Proofs about the timer of src/timer.c, for any number N of devices and  *)
(* any MaxTime: no signal is lost, the timer thread exits last, _time is   *)
(* stable while a device works, and the timer implements SlotBarrier.      *)
(***************************************************************************)
EXTENDS Timer, TLAPS

\* The main thread and what it has done so far to the other threads.
MainInv ==
    /\ mainPc = "attach" =>
          timerPc = "none" /\ \A d \in Devs : devPc[d] = "new"
    /\ mainPc = "spawn" =>
          mainI < N /\ \A d \in Devs : d > mainI => devPc[d] = "new"
    /\ mainPc \in {"stop", "end"} => \A d \in Devs : devPc[d] = "off"
    /\ timer_stop = 1 => mainPc \in {"stop", "end"}

\* What a device's two flags say of where its thread is.
FlagInv ==
    \A d \in Devs :
        /\ done[d] = 1 => devPc[d] \in {"recheck", "blocked"}
        /\ fsh[d] = 1 <=> devPc[d] = "off"
        /\ devPc[d] = "blocked" => done[d] = 1

\* The list cursor points at a device wherever the timer dereferences it.
CursorInv ==
    /\ timerPc \in {"poll", "blocked", "release"} => cur \in 1..N
    /\ timerPc = "blocked" => done[cur] = 0 /\ fsh[cur] = 0

\* The devices the timer has polled and not yet released again.
Reported(d) ==
    \/ timerPc \in {"poll", "blocked"} /\ d > cur
    \/ timerPc = "tick"
    \/ timerPc = "release" /\ d <= cur

\* A polled device stays where it is until it is released.
ReportedInv ==
    \A d \in Devs : Reported(d) => done[d] = 1 \/ fsh[d] = 1

\* The devices counted in event so far in this round.
Counted(d) ==
    \/ timerPc \in {"poll", "blocked"} /\ d > cur
    \/ timerPc \in {"tick", "release"}

\* The counter fsh catches up with event only if every counted device has
\* finished.
CountInv ==
    timerPc \in {"poll", "blocked", "tick", "release"} =>
        /\ nfsh <= nevent
        /\ nfsh = nevent => \A d \in Devs : Counted(d) => fsh[d] = 1

IInv == /\ TypeOK /\ MainInv /\ FlagInv /\ CursorInv /\ ReportedInv
        /\ CountInv /\ ExitsLast
-----------------------------------------------------------------------------
\* The inductive invariant holds before any device thread runs.
LEMMA InitInv == Init => IInv
  BY TimerAssumption
  DEF Init, IInv, TypeOK, MainInv, FlagInv, CursorInv, ReportedInv, Reported,
      CountInv, ExitsLast, Devs

\* Every step of every thread keeps the invariant.
LEMMA NextInv == IInv /\ [Next]_vars => IInv'
  <1> SUFFICES ASSUME IInv, [Next]_vars PROVE IInv'
    OBVIOUS
  <1> USE TimerAssumption DEF Devs, IInv
  <1>1. CASE attach_event
    <2>1. TypeOK'
      BY <1>1 DEF attach_event, timerVars, TypeOK
    <2>2. MainInv'
      BY <1>1 DEF attach_event, timerVars, MainInv
    <2>3. FlagInv'
      BY <1>1 DEF attach_event, MainInv, FlagInv
    <2>4. CursorInv'
      BY <1>1 DEF attach_event, timerVars, CursorInv
    <2>5. ReportedInv'
      BY <1>1 DEF attach_event, timerVars, MainInv, ReportedInv, Reported
    <2>6. CountInv'
      BY <1>1 DEF attach_event, timerVars, MainInv, CountInv
    <2>7. ExitsLast'
      BY <1>1 DEF attach_event, timerVars, ExitsLast
    <2> QED BY <2>1, <2>2, <2>3, <2>4, <2>5, <2>6, <2>7
  <1>2. CASE start_timer
    <2>1. TypeOK'
      BY <1>2 DEF start_timer, devVars, TypeOK
    <2>2. MainInv'
      BY <1>2 DEF start_timer, devVars, MainInv
    <2>3. FlagInv'
      BY <1>2 DEF start_timer, devVars, FlagInv
    <2>4. CursorInv'
      BY <1>2 DEF start_timer, CursorInv
    <2>5. ReportedInv'
      BY <1>2 DEF start_timer, ReportedInv, Reported
    <2>6. CountInv'
      BY <1>2 DEF start_timer, CountInv
    <2>7. ExitsLast'
      BY <1>2 DEF start_timer, ExitsLast
    <2> QED BY <2>1, <2>2, <2>3, <2>4, <2>5, <2>6, <2>7
  <1>3. CASE SpawnDevice
    <2>1. TypeOK'
      BY <1>3 DEF SpawnDevice, timerVars, TypeOK, MainInv
    <2>2. MainInv'
      BY <1>3 DEF SpawnDevice, TypeOK, MainInv
    <2>3. FlagInv'
      BY <1>3 DEF SpawnDevice, TypeOK, MainInv, FlagInv
    <2>4. CursorInv'
      BY <1>3 DEF SpawnDevice, timerVars, CursorInv
    <2>5. ReportedInv'
      BY <1>3 DEF SpawnDevice, timerVars, ReportedInv, Reported
    <2>6. CountInv'
      BY <1>3 DEF SpawnDevice, timerVars, CountInv, Counted
    <2>7. ExitsLast'
      BY <1>3 DEF SpawnDevice, timerVars, MainInv, ExitsLast
    <2> QED BY <2>1, <2>2, <2>3, <2>4, <2>5, <2>6, <2>7
  <1>4. CASE stop_timer
    <2>1. TypeOK'
      BY <1>4 DEF stop_timer, timerVars, devVars, TypeOK
    <2>2. MainInv'
      BY <1>4 DEF stop_timer, devVars, MainInv
    <2>3. FlagInv'
      BY <1>4 DEF stop_timer, devVars, FlagInv
    <2>4. CursorInv'
      BY <1>4 DEF stop_timer, timerVars, devVars, CursorInv
    <2>5. ReportedInv'
      BY <1>4 DEF stop_timer, devVars, FlagInv, ReportedInv
    <2>6. CountInv'
      BY <1>4 DEF stop_timer, timerVars, devVars, FlagInv, CountInv
    <2>7. ExitsLast'
      BY <1>4 DEF stop_timer, devVars, ExitsLast
    <2> QED BY <2>1, <2>2, <2>3, <2>4, <2>5, <2>6, <2>7
  <1>5. CASE FreeDevList
    <2>1. TypeOK'
      BY <1>5 DEF FreeDevList, timerVars, devVars, TypeOK
    <2>2. MainInv'
      BY <1>5 DEF FreeDevList, devVars, MainInv
    <2>3. FlagInv'
      BY <1>5 DEF FreeDevList, devVars, FlagInv
    <2>4. CursorInv'
      BY <1>5 DEF FreeDevList, timerVars, CursorInv
    <2>5. ReportedInv'
      BY <1>5 DEF FreeDevList, devVars, MainInv, FlagInv, ReportedInv
    <2>6. CountInv'
      BY <1>5 DEF FreeDevList, timerVars, CountInv
    <2>7. ExitsLast'
      BY <1>5 DEF FreeDevList, devVars, ExitsLast
    <2> QED BY <2>1, <2>2, <2>3, <2>4, <2>5, <2>6, <2>7
  <1>6. CASE BeginRound
    <2>1. TypeOK'
      BY <1>6 DEF BeginRound, mainVars, devVars, TypeOK
    <2>2. MainInv'
      BY <1>6 DEF BeginRound, mainVars, devVars, MainInv
    <2>3. FlagInv'
      BY <1>6 DEF BeginRound, devVars, FlagInv
    <2>4. CursorInv'
      BY <1>6 DEF BeginRound, CursorInv
    <2>5. ReportedInv'
      BY <1>6 DEF BeginRound, ReportedInv, Reported
    <2>6. CountInv'
      BY <1>6 DEF BeginRound, CountInv, Counted
    <2>7. ExitsLast'
      BY <1>6 DEF BeginRound, devVars, MainInv, ExitsLast
    <2> QED BY <2>1, <2>2, <2>3, <2>4, <2>5, <2>6, <2>7
  <1>7. CASE PollDevice
    <2>1. TypeOK'
      BY <1>7 DEF PollDevice, mainVars, devVars, TypeOK, CursorInv
    <2>2. MainInv'
      BY <1>7 DEF PollDevice, mainVars, devVars, MainInv
    <2>3. FlagInv'
      BY <1>7 DEF PollDevice, devVars, FlagInv
    <2>4. CursorInv'
      BY <1>7 DEF PollDevice, devVars, CursorInv
    <2>5. ReportedInv'
      BY <1>7 DEF PollDevice, devVars, TypeOK, ReportedInv, Reported
    <2>6. CountInv'
      BY <1>7 DEF PollDevice, devVars, TypeOK, CursorInv, CountInv, Counted
    <2>7. ExitsLast'
      BY <1>7 DEF PollDevice, ExitsLast
    <2> QED BY <2>1, <2>2, <2>3, <2>4, <2>5, <2>6, <2>7
  <1>8. CASE Tick
    <2>1. TypeOK'
      BY <1>8 DEF Tick, mainVars, devVars, TypeOK
    <2>2. MainInv'
      BY <1>8 DEF Tick, mainVars, devVars, MainInv
    <2>3. FlagInv'
      BY <1>8 DEF Tick, devVars, FlagInv
    <2>4. CursorInv'
      BY <1>8 DEF Tick, CursorInv
    <2>5. ReportedInv'
      BY <1>8 DEF Tick, devVars, ReportedInv, Reported
    <2>6. CountInv'
      BY <1>8 DEF Tick, devVars, CountInv, Counted
    <2>7. ExitsLast'
      BY <1>8 DEF Tick, ExitsLast
    <2> QED BY <2>1, <2>2, <2>3, <2>4, <2>5, <2>6, <2>7
  <1>9. CASE ReleaseDevice
    <2>1. TypeOK'
      BY <1>9 DEF ReleaseDevice, mainVars, TypeOK, CursorInv
    <2>2. MainInv'
      BY <1>9 DEF ReleaseDevice, mainVars, MainInv
    <2>3. FlagInv'
      BY <1>9 DEF ReleaseDevice, TypeOK, FlagInv
    <2>4. CursorInv'
      BY <1>9 DEF ReleaseDevice, CursorInv
    <2>5. ReportedInv'
      BY <1>9 DEF ReleaseDevice, TypeOK, ReportedInv, Reported
    <2>6. CountInv'
      BY <1>9 DEF ReleaseDevice, CountInv, Counted
    <2>7. ExitsLast'
      BY <1>9 DEF ReleaseDevice, FlagInv, CountInv, Counted, ExitsLast
    <2> QED BY <2>1, <2>2, <2>3, <2>4, <2>5, <2>6, <2>7
  <1>10. CASE SpuriousTimer
    <2>1. TypeOK'
      BY <1>10 DEF SpuriousTimer, mainVars, devVars, TypeOK
    <2>2. MainInv'
      BY <1>10 DEF SpuriousTimer, mainVars, devVars, MainInv
    <2>3. FlagInv'
      BY <1>10 DEF SpuriousTimer, devVars, FlagInv
    <2>4. CursorInv'
      BY <1>10 DEF SpuriousTimer, CursorInv
    <2>5. ReportedInv'
      BY <1>10 DEF SpuriousTimer, devVars, ReportedInv, Reported
    <2>6. CountInv'
      BY <1>10 DEF SpuriousTimer, devVars, CountInv, Counted
    <2>7. ExitsLast'
      BY <1>10 DEF SpuriousTimer, ExitsLast
    <2> QED BY <2>1, <2>2, <2>3, <2>4, <2>5, <2>6, <2>7
  <1>11. ASSUME NEW e \in Devs, NextSlotDone(e) PROVE IInv'
    <2>1. TypeOK'
      BY <1>11 DEF NextSlotDone, SignalEvent, mainVars, TypeOK
    <2>2. MainInv'
      BY <1>11 DEF NextSlotDone, mainVars, MainInv
    <2>3. FlagInv'
      BY <1>11 DEF NextSlotDone, TypeOK, FlagInv
    <2>4. CursorInv'
      BY <1>11 DEF NextSlotDone, SignalEvent, CursorInv
    <2>5. ReportedInv'
      BY <1>11 DEF NextSlotDone, SignalEvent, ReportedInv, Reported
    <2>6. CountInv'
      BY <1>11 DEF NextSlotDone, SignalEvent, CountInv, Counted
    <2>7. ExitsLast'
      BY <1>11 DEF NextSlotDone, SignalEvent, ExitsLast
    <2> QED BY <2>1, <2>2, <2>3, <2>4, <2>5, <2>6, <2>7
  <1>12. ASSUME NEW e \in Devs, NextSlotWait(e) PROVE IInv'
    <2>1. TypeOK'
      BY <1>12 DEF NextSlotWait, mainVars, timerVars, TypeOK
    <2>2. MainInv'
      BY <1>12 DEF NextSlotWait, mainVars, MainInv
    <2>3. FlagInv'
      BY <1>12 DEF NextSlotWait, FlagInv
    <2>4. CursorInv'
      BY <1>12 DEF NextSlotWait, timerVars, CursorInv
    <2>5. ReportedInv'
      BY <1>12 DEF NextSlotWait, timerVars, ReportedInv, Reported
    <2>6. CountInv'
      BY <1>12 DEF NextSlotWait, timerVars, CountInv, Counted
    <2>7. ExitsLast'
      BY <1>12 DEF NextSlotWait, timerVars, ExitsLast
    <2> QED BY <2>1, <2>2, <2>3, <2>4, <2>5, <2>6, <2>7
  <1>13. ASSUME NEW e \in Devs, detach_event(e) PROVE IInv'
    <2>1. TypeOK'
      BY <1>13 DEF detach_event, SignalEvent, mainVars, TypeOK
    <2>2. MainInv'
      BY <1>13 DEF detach_event, mainVars, MainInv
    <2>3. FlagInv'
      BY <1>13 DEF detach_event, TypeOK, FlagInv
    <2>4. CursorInv'
      BY <1>13 DEF detach_event, SignalEvent, CursorInv
    <2>5. ReportedInv'
      BY <1>13 DEF detach_event, SignalEvent, ReportedInv, Reported
    <2>6. CountInv'
      BY <1>13 DEF detach_event, SignalEvent, CountInv, Counted
    <2>7. ExitsLast'
      BY <1>13 DEF detach_event, SignalEvent, ExitsLast
    <2> QED BY <2>1, <2>2, <2>3, <2>4, <2>5, <2>6, <2>7
  <1>14. ASSUME NEW e \in Devs, SpuriousDevice(e) PROVE IInv'
    <2>1. TypeOK'
      BY <1>14 DEF SpuriousDevice, mainVars, timerVars, TypeOK
    <2>2. MainInv'
      BY <1>14 DEF SpuriousDevice, mainVars, MainInv
    <2>3. FlagInv'
      BY <1>14 DEF SpuriousDevice, FlagInv
    <2>4. CursorInv'
      BY <1>14 DEF SpuriousDevice, timerVars, CursorInv
    <2>5. ReportedInv'
      BY <1>14 DEF SpuriousDevice, timerVars, ReportedInv, Reported
    <2>6. CountInv'
      BY <1>14 DEF SpuriousDevice, timerVars, CountInv, Counted
    <2>7. ExitsLast'
      BY <1>14 DEF SpuriousDevice, timerVars, ExitsLast
    <2> QED BY <2>1, <2>2, <2>3, <2>4, <2>5, <2>6, <2>7
  <1>15. CASE UNCHANGED vars
    BY <1>15 DEF vars, mainVars, timerVars, devVars, TypeOK, MainInv,
       FlagInv, CursorInv, ReportedInv, Reported, CountInv, Counted,
       ExitsLast
  <1> QED
    BY <1>1, <1>2, <1>3, <1>4, <1>5, <1>6, <1>7, <1>8, <1>9, <1>10, <1>11,
       <1>12, <1>13, <1>14, <1>15 DEF Next, Main, TimerThread,
       DeviceThread, Finished

\* The inductive invariant holds throughout.
LEMMA Invariance == Spec => []IInv
  BY InitInv, NextInv, PTL DEF Spec

\* Every variable of the timer keeps its type (timer.c:8-18).
THEOREM TypeCorrect == Spec => []TypeOK
  <1>1. IInv => TypeOK
    BY DEF IInv
  <1> QED BY <1>1, Invariance, PTL

\* For any number of devices neither side of a condition variable sleeps on
\* a condition that already holds (timer.c:31, timer.c:70).
THEOREM WakeupsAreKept == Spec => []NoLostWakeup
  <1>1. IInv => NoLostWakeup
    BY DEF IInv, NoLostWakeup, FlagInv, CursorInv
  <1> QED BY <1>1, Invariance, PTL

\* The timer thread leaves its loop only when every device has detached
\* (timer.c:22, timer.c:54).
THEOREM TimerExitsLast == Spec => []ExitsLast
  <1>1. IInv => ExitsLast
    BY DEF IInv
  <1> QED BY <1>1, Invariance, PTL

\* No step but the timer's tick changes the clock.
LEMMA OnlyTickAdvances ==
  ASSUME IInv, [Next]_vars, _time' # _time
  PROVE  Tick
  BY DEF Next, Main, TimerThread, DeviceThread, Finished, vars, mainVars,
         timerVars, devVars, attach_event, start_timer, SpawnDevice,
         stop_timer, FreeDevList, BeginRound, PollDevice, ReleaseDevice,
         SpuriousTimer, NextSlotDone, NextSlotWait, detach_event,
         SpuriousDevice

\* When the timer ticks no device is at work in the slot it closes.
LEMMA QuietAtTick ==
  ASSUME IInv, timerPc = "tick"
  PROVE  \A d \in Devs : devPc[d] \in {"recheck", "blocked", "off"}
  BY DEF IInv, ReportedInv, Reported, FlagInv

\* _time never moves under a working device (timer.c:44-45, os.c:124).
THEOREM ClockIsStable == Spec => TimeIsStable
  <1>1. IInv /\ [Next]_vars =>
          [_time' # _time => \A d \in Devs : devPc[d] \notin {"new", "work"}]_vars
    <2> SUFFICES ASSUME IInv, [Next]_vars, _time' # _time
                 PROVE  \A d \in Devs : devPc[d] \notin {"new", "work"}
      OBVIOUS
    <2>1. Tick
      BY OnlyTickAdvances
    <2> QED
      BY <2>1, QuietAtTick DEF Tick
  <1> QED
    BY <1>1, Invariance, PTL DEF Spec, TimeIsStable

-----------------------------------------------------------------------------
(* The refinement.  BarrierPhase is a state function of each device; a step *)
(* of the timer either leaves all of them alone or is a step of SlotBarrier.*)

\* A step after which every device is in the phase it was in.
SamePhases ==
    _time' = _time /\ \A d \in Devs : BarrierPhase(d)' = BarrierPhase(d)

\* A step after which only device e has changed its phase.
OnlyMoves(e, from, to) ==
    /\ _time' = _time
    /\ BarrierPhase(e) = from /\ BarrierPhase(e)' = to
    /\ \A d \in Devs \ {e} : BarrierPhase(d)' = BarrierPhase(d)

\* The steps that only move flags, cursors and threads.
LEMMA InternalSteps ==
  ASSUME IInv,
         \/ attach_event
         \/ start_timer
         \/ SpawnDevice
         \/ stop_timer
         \/ FreeDevList
         \/ BeginRound
         \/ PollDevice
         \/ ReleaseDevice
         \/ SpuriousTimer
         \/ UNCHANGED vars
  PROVE  SamePhases
  <1> USE TimerAssumption DEF Devs, IInv, SamePhases
  <1>1. CASE attach_event
    BY <1>1 DEF attach_event, BarrierPhase, timerVars
  <1>2. CASE start_timer
    BY <1>2 DEF start_timer, BarrierPhase, devVars
  <1>3. CASE SpawnDevice
    BY <1>3 DEF SpawnDevice, BarrierPhase, timerVars, TypeOK, MainInv
  <1>4. CASE stop_timer
    BY <1>4 DEF stop_timer, BarrierPhase, timerVars, devVars
  <1>5. CASE FreeDevList
    BY <1>5 DEF FreeDevList, BarrierPhase, timerVars, devVars
  <1>6. CASE BeginRound
    BY <1>6 DEF BeginRound, BarrierPhase, devVars
  <1>7. CASE PollDevice
    BY <1>7 DEF PollDevice, BarrierPhase, devVars
  <1>8. CASE ReleaseDevice
    BY <1>8 DEF ReleaseDevice, BarrierPhase, TypeOK
  <1>9. CASE SpuriousTimer
    BY <1>9 DEF SpuriousTimer, BarrierPhase, devVars
  <1>10. CASE UNCHANGED vars
    BY <1>10 DEF vars, mainVars, timerVars, devVars, BarrierPhase
  <1> QED BY <1>1, <1>2, <1>3, <1>4, <1>5, <1>6, <1>7, <1>8, <1>9, <1>10

\* What the calls of a device do to its phase.
LEMMA DeviceSteps ==
  ASSUME IInv, NEW e \in Devs
  PROVE  /\ NextSlotDone(e) => OnlyMoves(e, "busy", "arrived")
         /\ NextSlotWait(e) => SamePhases \/ OnlyMoves(e, "released", "busy")
         /\ detach_event(e) => OnlyMoves(e, "busy", "gone")
         /\ SpuriousDevice(e) => SamePhases
  <1> USE TimerAssumption DEF Devs, IInv, SamePhases, OnlyMoves, BarrierPhase,
          TypeOK, FlagInv
  <1>1. NextSlotDone(e) => OnlyMoves(e, "busy", "arrived")
    BY DEF NextSlotDone, SignalEvent, mainVars, ReportedInv, Reported
  <1>2. NextSlotWait(e) => SamePhases \/ OnlyMoves(e, "released", "busy")
    BY DEF NextSlotWait, mainVars, timerVars
  <1>3. detach_event(e) => OnlyMoves(e, "busy", "gone")
    BY DEF detach_event, SignalEvent, mainVars
  <1>4. SpuriousDevice(e) => SamePhases
    BY DEF SpuriousDevice, mainVars, timerVars
  <1> QED BY <1>1, <1>2, <1>3, <1>4

\* The tick finds every device arrived or gone and releases the arrived ones.
LEMMA TickStep ==
  ASSUME IInv, Tick
  PROVE  /\ _time' = _time + 1
         /\ \A d \in Devs :
               /\ BarrierPhase(d) \in {"arrived", "gone"}
               /\ BarrierPhase(d)' = IF BarrierPhase(d) = "arrived"
                                       THEN "released" ELSE BarrierPhase(d)
  BY TimerAssumption
  DEF Tick, mainVars, devVars, Devs, IInv, BarrierPhase, TypeOK, FlagInv,
      ReportedInv, Reported

\* The timer's initial states are the barrier's.
LEMMA BarrierInit == Init => Barrier!Init
  BY DEF Init, Barrier!Init, BarrierPhase

\* Every step of the timer and its devices is a step of the barrier or a stutter.
LEMMA BarrierNext ==
  ASSUME IInv, [Next]_vars
  PROVE  [Barrier!Next]_(Barrier!barrierVars)
  <1> DEFINE phase == [d \in Devs |-> BarrierPhase(d)]
  <1>1. ASSUME SamePhases PROVE UNCHANGED Barrier!barrierVars
    <2>1. phase' = phase
      BY <1>1 DEF SamePhases
    <2> QED BY <1>1, <2>1 DEF SamePhases, Barrier!barrierVars
  <1>2. ASSUME NEW e \in Devs, NEW from, NEW to, OnlyMoves(e, from, to)
        PROVE  /\ phase[e] = from
               /\ phase' = [phase EXCEPT ![e] = to]
               /\ _time' = _time
    BY <1>2 DEF OnlyMoves
  <1>3. CASE Tick
    <2>1. \A d \in Devs : phase[d] \in {"arrived", "gone"}
      BY <1>3, TickStep
    <2>2. phase' = [d \in Devs |->
                      IF phase[d] = "arrived" THEN "released" ELSE phase[d]]
      BY <1>3, TickStep
    <2>3. Barrier!Advance
      BY <1>3, <2>1, <2>2, TickStep DEF Barrier!Advance
    <2> QED BY <2>3 DEF Barrier!Next
  <1>4. ASSUME NEW e \in Devs, DeviceThread(e) \/ SpuriousDevice(e)
        PROVE  [Barrier!Next]_(Barrier!barrierVars)
    <2>1. CASE OnlyMoves(e, "busy", "arrived")
      BY <2>1, <1>2 DEF Barrier!Next, Barrier!Arrive
    <2>2. CASE OnlyMoves(e, "released", "busy")
      BY <2>2, <1>2 DEF Barrier!Next, Barrier!Resume
    <2>3. CASE OnlyMoves(e, "busy", "gone")
      BY <2>3, <1>2 DEF Barrier!Next, Barrier!Leave
    <2>4. CASE SamePhases
      BY <2>4, <1>1
    <2> QED BY <1>4, <2>1, <2>2, <2>3, <2>4, DeviceSteps DEF DeviceThread
  <1>5. CASE SamePhases
    BY <1>1, <1>5
  <1> QED
    BY <1>3, <1>4, <1>5, InternalSteps DEF Next, Main, TimerThread, Finished

\* The flags, the two locks and the two condition variables of every device
\* implement the reusable barrier (timer.c:21-93).
THEOREM TimerImplementsBarrier == Spec => ImplementsBarrier
  BY BarrierInit, BarrierNext, Invariance, PTL
  DEF Spec, ImplementsBarrier, Barrier!Spec

=============================================================================
