--------------------------------- MODULE Os --------------------------------
(***************************************************************************)
(* src/os.c: cpu_routine and ld_routine, composed with the scheduler of    *)
(* module Sched (every interleaving of its two kinds of critical section)  *)
(* and with the barrier the timer implements (SlotBarrier, which module    *)
(* TimerProofs proves of timer.c).  run() of src/cpu.c is reduced to what  *)
(* the scheduler sees of it: the program counter.                          *)
(*                                                                         *)
(* The clock is only compared with start times, so it stops counting at    *)
(* MaxClock, the last of them: the behaviours stay infinite where the      *)
(* program's do and the states finite.                                     *)
(***************************************************************************)
EXTENDS Queue, Integers, Sequences, FiniteSets

CONSTANTS CPUs, Loader, MAX_PRIO, Prio,
          TimeSlots,       \* what the configuration file may begin with
          Workload,        \* the processes in the order of that file
          start_time,      \* ld_processes.start_time, by process
          CodeSize         \* proc->code->size, by process

Threads == CPUs \cup {Loader}
num_processes == Len(Workload)
MaxClock == CHOOSE m \in {start_time[p] : p \in Procs} :
                \A p \in Procs : start_time[p] <= m

\* The scheduler's assumption, a CPU at least, and a workload that has a last
\* start time.
ASSUME OsAssumption ==
    /\ MAX_PRIO \in Nat \ {0}
    /\ Prio \in [Procs -> Nat]
    /\ Loader \notin CPUs /\ CPUs # {}
    /\ TimeSlots \subseteq Nat
    /\ Workload \in Seq(Procs)
    /\ Procs = {Workload[i] : i \in 1 .. num_processes}
    /\ start_time \in [Procs -> Nat]
    /\ \E p \in Procs : \A q \in Procs : start_time[q] <= start_time[p]
    /\ CodeSize \in [Procs -> Nat]

VARIABLES
    ready, running, at, proc, lvl, tmp, life, overlap,   \* module Sched
    clock, phase,     \* the barrier
    time_slot,        \* length of a time slice, set by read_config
    cpuPc,            \* each CPU's place in cpu_routine
    time_left,        \* cpu_routine's local
    pc,               \* proc->pc of each process
    loaded,           \* ld_routine's local i
    done,             \* the flag of os.c:16
    ran,              \* history: the processes run in this time slot
    burst             \* history: slots run by each CPU's present process

schedVars   == <<ready, running, at, proc, lvl, tmp, life, overlap>>
barrierVars == <<clock, phase>>
cpuVars     == <<cpuPc, time_left, pc, ran, burst>>
ldVars      == <<loaded, done>>
vars        == <<time_slot, schedVars, barrierVars, cpuVars, ldVars>>

S == INSTANCE Sched
Barrier == INSTANCE SlotBarrier WITH Devs <- Threads

\* The workload, the start times and the priorities are constants.  Nothing is
\* checked of the numbers read: a slice may be 0.
read_config == time_slot \in TimeSlots

\* A program is as long as its file says and starts at its first instruction.
load == pc = [p \in Procs |-> 0]

Init ==
    /\ read_config
    /\ S!Init
    /\ Barrier!Init
    /\ cpuPc = [c \in CPUs |-> "top"]
    /\ time_left = [c \in CPUs |-> 0]
    /\ load
    /\ loaded = 0 /\ done = 0
    /\ ran = {}
    /\ burst = [c \in CPUs |-> 0]

\* A thread is between two calls: neither in the scheduler nor in next_slot.
Awake(t) == at[t] = "none" /\ phase[t] = "busy"

-----------------------------------------------------------------------------
(* cpu_routine.                                                            *)

\* No process is running: get one.
LoadFirst(c) ==
    /\ cpuPc[c] = "top" /\ Awake(c) /\ proc[c] = NULL
    /\ S!CallGet(c)
    /\ cpuPc' = [cpuPc EXCEPT ![c] = "first"]
    /\ UNCHANGED <<time_slot, barrierVars, time_left, pc, ran, burst, ldVars>>

\* Variant: the rest of the time slice goes to the next process.
FinishProcess_KeepSlice(c) ==
    /\ cpuPc[c] = "top" /\ Awake(c) /\ proc[c] # NULL
    /\ pc[proc[c]] = CodeSize[proc[c]]
    /\ S!Free(c)
    /\ cpuPc' = [cpuPc EXCEPT ![c] = "reload"]
    /\ burst' = [burst EXCEPT ![c] = 0]
    /\ UNCHANGED <<time_slot, barrierVars, time_left, pc, ran, ldVars>>

\* The process has finished its job: free(proc), and get another one.
FinishProcess(c) ==
    /\ cpuPc[c] = "top" /\ Awake(c) /\ proc[c] # NULL
    /\ pc[proc[c]] = CodeSize[proc[c]]
    /\ S!Free(c)
    /\ time_left' = [time_left EXCEPT ![c] = 0]
    /\ cpuPc' = [cpuPc EXCEPT ![c] = "reload"]
    /\ burst' = [burst EXCEPT ![c] = 0]
    /\ UNCHANGED <<time_slot, barrierVars, pc, ran, ldVars>>

\* The time slice is over: put_proc(proc), and get another one.
Preempt(c) ==
    /\ cpuPc[c] = "top" /\ Awake(c) /\ proc[c] # NULL
    /\ pc[proc[c]] # CodeSize[proc[c]] /\ time_left[c] = 0
    /\ S!CallPut(c)
    /\ cpuPc' = [cpuPc EXCEPT ![c] = "reload"]
    /\ burst' = [burst EXCEPT ![c] = 0]
    /\ UNCHANGED <<time_slot, barrierVars, time_left, pc, ran, ldVars>>

Reload(c) ==
    /\ cpuPc[c] = "reload" /\ Awake(c)
    /\ S!CallGet(c)
    /\ cpuPc' = [cpuPc EXCEPT ![c] = "again"]
    /\ UNCHANGED <<time_slot, barrierVars, time_left, pc, ran, burst, ldVars>>

\* The process goes on in its time slice.
Continue(c) ==
    /\ cpuPc[c] = "top" /\ Awake(c) /\ proc[c] # NULL
    /\ pc[proc[c]] # CodeSize[proc[c]] /\ time_left[c] # 0

\* Variant: the CPU tries again without waiting for the next slot.
SkipSlot_Spin(c) ==
    /\ \/ cpuPc[c] = "first"
       \/ cpuPc[c] = "again" /\ done = 0
    /\ Awake(c) /\ proc[c] = NULL
    /\ cpuPc' = [cpuPc EXCEPT ![c] = "top"]
    /\ UNCHANGED <<time_slot, schedVars, barrierVars, time_left, pc, ran, burst, ldVars>>

\* get_proc has returned NULL: skip this slot.  After a failed first load the
\* flag done is not looked at.
SkipSlot(c) ==
    /\ \/ cpuPc[c] = "first"
       \/ cpuPc[c] = "again" /\ done = 0
    /\ Awake(c) /\ proc[c] = NULL
    /\ Barrier!Arrive(c)
    /\ cpuPc' = [cpuPc EXCEPT ![c] = "top"]
    /\ UNCHANGED <<time_slot, schedVars, time_left, pc, ran, burst, ldVars>>

\* Variant: the CPU stops as soon as it finds no process.
CpuStops_NoDone(c) ==
    /\ cpuPc[c] = "again" /\ Awake(c) /\ proc[c] = NULL
    /\ Barrier!Leave(c)
    /\ cpuPc' = [cpuPc EXCEPT ![c] = "off"]
    /\ UNCHANGED <<time_slot, schedVars, time_left, pc, ran, burst, ldVars>>

\* No process to run, exit.
CpuStops(c) ==
    /\ cpuPc[c] = "again" /\ Awake(c) /\ proc[c] = NULL /\ done = 1
    /\ Barrier!Leave(c)
    /\ cpuPc' = [cpuPc EXCEPT ![c] = "off"]
    /\ UNCHANGED <<time_slot, schedVars, time_left, pc, ran, burst, ldVars>>

\* Variant: a slice that is not renewed.
dispatch_NoReload(n) == n

run(p) == pc' = [pc EXCEPT ![p] = IF @ >= CodeSize[p] THEN @ ELSE @ + 1]

\* A slice that is used up is renewed when the process is dispatched.
dispatch(n) == IF n = 0 THEN time_slot ELSE n

\* Dispatch if the slice is new, run one instruction, wait for the next slot.
RunSlot(c) ==
    /\ \/ Continue(c)
       \/ cpuPc[c] \in {"first", "again"} /\ Awake(c) /\ proc[c] # NULL
    /\ time_left' = [time_left EXCEPT ![c] = dispatch(@) - 1]
    /\ run(proc[c])
    /\ ran' = ran \cup {proc[c]}
    /\ burst' = [burst EXCEPT ![c] = @ + 1]
    /\ Barrier!Arrive(c)
    /\ cpuPc' = [cpuPc EXCEPT ![c] = "top"]
    /\ UNCHANGED <<time_slot, schedVars, ldVars>>

cpu_routine(c) ==
    \/ LoadFirst(c) \/ FinishProcess(c) \/ Preempt(c) \/ Reload(c)
    \/ SkipSlot(c) \/ CpuStops(c) \/ RunSlot(c)

-----------------------------------------------------------------------------
(* ld_routine.                                                             *)

NextToLoad == Workload[loaded + 1]

\* Not yet time to load the next process.
LoaderWaits ==
    /\ loaded < num_processes /\ Awake(Loader) /\ life[NextToLoad] = "new"
    /\ clock < start_time[NextToLoad]
    /\ Barrier!Arrive(Loader)
    /\ UNCHANGED <<time_slot, schedVars, cpuVars, ldVars>>

LoadProcess ==
    /\ loaded < num_processes /\ Awake(Loader)
    /\ clock >= start_time[NextToLoad]
    /\ S!CallAdd(Loader, NextToLoad)
    /\ UNCHANGED <<time_slot, barrierVars, cpuVars, ldVars>>

\* Variant: i is incremented twice, and a process is left out.
LoadNext_Twice ==
    /\ loaded < num_processes /\ Awake(Loader) /\ life[NextToLoad] # "new"
    /\ loaded' = loaded + 2
    /\ Barrier!Arrive(Loader)
    /\ UNCHANGED <<time_slot, schedVars, cpuVars, done>>

\* add_proc has returned: one process per slot.
LoadNext ==
    /\ loaded < num_processes /\ Awake(Loader) /\ life[NextToLoad] # "new"
    /\ loaded' = loaded + 1
    /\ Barrier!Arrive(Loader)
    /\ UNCHANGED <<time_slot, schedVars, cpuVars, done>>

LoaderStops ==
    /\ loaded = num_processes /\ Awake(Loader)
    /\ done' = 1
    /\ Barrier!Leave(Loader)
    /\ UNCHANGED <<time_slot, schedVars, cpuVars, loaded>>

ld_routine == LoaderWaits \/ LoadProcess \/ LoadNext \/ LoaderStops

-----------------------------------------------------------------------------
\* The scheduler's part of a call, and the return of next_slot.
InCall(t) ==
    S!Call(t) /\ UNCHANGED <<time_slot, barrierVars, cpuVars, ldVars>>

\* Variant: next_slot returns before the next slot.
NextSlotReturns_Early(t) ==
    /\ phase[t] \in {"arrived", "released"}
    /\ phase' = [phase EXCEPT ![t] = "busy"]
    /\ UNCHANGED <<clock, time_slot, schedVars, cpuVars, ldVars>>

NextSlotReturns(t) ==
    Barrier!Resume(t) /\ UNCHANGED <<time_slot, schedVars, cpuVars, ldVars>>

\* The timer: Barrier!Advance with a clock that stops at MaxClock.
TimeSlot ==
    /\ \A t \in Threads : phase[t] \in {"arrived", "gone"}
    /\ \E t \in Threads : phase[t] = "arrived"
    /\ clock' = IF clock < MaxClock THEN clock + 1 ELSE clock
    /\ phase' = [t \in Threads |->
                    IF phase[t] = "arrived" THEN "released" ELSE phase[t]]
    /\ ran' = {}
    /\ UNCHANGED <<time_slot, schedVars, cpuPc, time_left, pc, burst, ldVars>>

Cpu(c) == ~S!Clash /\ (cpu_routine(c) \/ InCall(c) \/ NextSlotReturns(c))
Ld     == ~S!Clash /\ (ld_routine \/ InCall(Loader) \/ NextSlotReturns(Loader))
Timer  == ~S!Clash /\ TimeSlot

AllOff == \A t \in Threads : phase[t] = "gone"
Stop   == (S!Clash \/ AllOff) /\ UNCHANGED vars

Next == (\E c \in CPUs : Cpu(c)) \/ Ld \/ Timer \/ Stop

\* Every thread that can take a step eventually takes one.  Between two time
\* slots a thread makes a bounded number of calls, so a lock is free again
\* and again and weak fairness of each thread is enough.
Fairness ==
    /\ \A c \in CPUs : WF_vars(Cpu(c))
    /\ WF_vars(Ld)
    /\ WF_vars(Timer)

Spec     == Init /\ [][Next]_vars
FairSpec == Spec /\ Fairness

-----------------------------------------------------------------------------
(* Properties.                                                             *)

\* Type invariant of os.c's own state.
TypeOK ==
    /\ clock \in 0 .. MaxClock
    /\ phase \in [Threads -> Barrier!Phases]
    /\ cpuPc \in [CPUs -> {"top", "first", "reload", "again", "off"}]
    /\ time_left \in [CPUs -> Int] /\ burst \in [CPUs -> Nat]
    /\ \A c \in CPUs :
          time_left[c] <= time_slot /\ (time_slot > 0 => time_left[c] >= 0)
    /\ \A p \in Procs : pc[p] \in 0 .. CodeSize[p]
    /\ loaded \in 0 .. num_processes /\ done \in {0, 1}

Ended(p) == life[p] \in {"freed", "dropped"}

\* The CPUs do not leave work behind: when the last of them has stopped,
\* every process has run to its end (os.c:81-84), unless the split locks let
\* two sections overlap.
NothingLeftBehind ==
    \/ overlap
    \/ (\A c \in CPUs : cpuPc[c] = "off") => \A p \in Procs : Ended(p)

\* Whichever way a CPU came to its process, the process is put back when it
\* has run for a whole time slice and not before (os.c:65-98): nothing carries
\* over from the process before it.  With a time_slot of 0 time_left never
\* comes back to 0, and the process keeps its CPU to its end.
WholeSlice ==
    \A c \in CPUs :
        /\ cpuPc[c] = "top" /\ proc[c] # NULL =>
               time_left[c] = time_slot - burst[c] /\ burst[c] > 0
        /\ cpuPc[c] = "reload" /\ at[c] # "none" => time_slot > 0

\* A process executes at most one instruction in a time slot, even when it is
\* put back by one CPU and taken by another in the same slot (os.c:72-103).
OneInstructionPerSlot ==
    [][\A p \in Procs : pc'[p] # pc[p] => overlap \/ p \notin ran]_vars

\* Every process of the workload is run to its end, or dropped for want of
\* room, unless sections overlap.
EveryProcessEnds == <>(overlap \/ \A p \in Procs : Ended(p))

\* A thread in next_slot comes back, whatever the others do: nobody waits for
\* everybody.
SlotsGoOn ==
    \A t \in Threads :
        phase[t] = "arrived" ~> (S!Clash \/ phase[t] = "released")

\* "Wait for CPU and loader finishing" (os.c:282): the joins return.
SimulationEnds == <>(overlap \/ AllOff)
=============================================================================
