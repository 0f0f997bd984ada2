------------------------------ MODULE OsProofs ------------------------------
(***************************************************************************)
(* Proofs about src/os.c for any number of CPUs, processes, priorities and *)
(* time slots.  The threads of os.c use the scheduler as module Sched says *)
(* they do, so everything proved of it holds here too; on top of that come *)
(* the time slices, the slots of the timer and the end of the simulation.  *)
(***************************************************************************)
EXTENDS Os, TLAPS

P == INSTANCE MlqProofs

-----------------------------------------------------------------------------
(* The scheduler of os.c is the scheduler of MlqProofs.                    *)

\* What MlqProofs assumes is assumed here.
LEMMA SchedFacts == P!SchedAssumption /\ P!QueueAssumption
  BY OsAssumption, QueueAssumption DEF P!SchedAssumption, P!QueueAssumption

\* The two have the same initial states and steps.
LEMMA SameSched ==
    /\ S!Init => P!Init
    /\ \A t : S!Call(t) => P!Call(t)
    /\ [S!Next]_(S!vars) => [P!Next]_(P!vars)
  <1>1. S!Init => P!Init
    BY Zenon DEF S!Init, P!Init, S!Levels, P!Levels, S!Threads, P!Threads,
                 S!NewQueue, P!NewQueue, S!Slots, P!Slots
  <1>2. /\ S!Clash <=> P!Clash
        /\ (UNCHANGED S!vars) <=> (UNCHANGED P!vars)
        /\ S!Threads = P!Threads
    BY DEF S!Clash, P!Clash, S!vars, P!vars, S!Threads, P!Threads
  <1>3. ASSUME NEW t
        PROVE  (S!Call(t) => P!Call(t)) /\ (S!Client(t) => P!Client(t))
    BY Zenon
    DEF S!Client, P!Client, S!CallGet, P!CallGet, S!CallPut, P!CallPut,
        S!Free, P!Free, S!CallAdd, P!CallAdd, S!Call, P!Call,
        S!get_mlq_proc, P!get_mlq_proc, S!put_mlq_proc, P!put_mlq_proc,
        S!GetLock, P!GetLock, S!ScanNext, P!ScanNext, S!ScanNone, P!ScanNone,
        S!ScanTake, P!ScanTake, S!DequeueLoad, P!DequeueLoad,
        S!DequeueSize, P!DequeueSize, S!RunningStore, P!RunningStore,
        S!RunningLoad, P!RunningLoad, S!RunningSize, P!RunningSize,
        S!PutLock, P!PutLock, S!Purge, P!Purge, S!PurgeLoad, P!PurgeLoad,
        S!PurgeSize, P!PurgeSize, S!PurgeClear, P!PurgeClear,
        S!EnqueueStore, P!EnqueueStore, S!EnqueueLoad, P!EnqueueLoad,
        S!EnqueueSize, P!EnqueueSize, S!Goto, P!Goto, S!Held, P!Held,
        S!GetSection, P!GetSection, S!PutSection, P!PutSection,
        S!Threads, P!Threads, S!empty, P!empty, S!full, P!full,
        S!store, P!store, S!shift, P!shift, S!front, P!front,
        S!holding, P!holding, S!first, P!first, S!Slots, P!Slots
  <1>4. S!Next => P!Next
    BY <1>2, <1>3 DEF S!Next, P!Next, S!Stop, P!Stop
  <1> QED BY <1>1, <1>2, <1>3, <1>4

-----------------------------------------------------------------------------
(* The threads of os.c use the scheduler as Sched says.                    *)

\* The workload consists of processes.
LEMMA WorkloadProcs ==
    num_processes \in Nat /\ \A i \in 1 .. num_processes : Workload[i] \in Procs
  BY OsAssumption DEF num_processes

\* The next one is one of them.
LEMMA NextIsProc ==
    ASSUME loaded \in Nat, loaded < num_processes
    PROVE  NextToLoad \in Procs
  BY WorkloadProcs DEF NextToLoad

\* Every step of os.c is a step of the scheduler or leaves it alone, as long
\* as the loader's counter is one.
LEMMA SchedNext ==
    loaded \in Nat /\ [Next]_vars => [S!Next]_(S!vars)
  <1> SUFFICES ASSUME loaded \in Nat, [Next]_vars
               PROVE  S!Next \/ UNCHANGED S!vars
    OBVIOUS
  <1>1. ASSUME NEW t \in Threads, S!Call(t) \/ S!Client(t), ~S!Clash
        PROVE  S!Next
    BY <1>1 DEF S!Next, S!Threads, Threads
  <1>2. ASSUME UNCHANGED schedVars
        PROVE  UNCHANGED S!vars
    BY <1>2 DEF schedVars, S!vars
  <1>3. ASSUME NEW c \in CPUs, Cpu(c)
        PROVE  S!Next \/ UNCHANGED S!vars
    <2>1. CASE cpu_routine(c)
      <3>1. S!Client(c) \/ UNCHANGED schedVars
        BY <2>1 DEF cpu_routine, LoadFirst, FinishProcess, Preempt, Reload,
                    SkipSlot, CpuStops, RunSlot, S!Client
      <3> QED BY <1>1, <1>2, <1>3, <3>1 DEF Cpu, Threads
    <2>2. CASE InCall(c)
      BY <1>1, <1>3, <2>2 DEF InCall, Cpu, Threads
    <2>3. CASE NextSlotReturns(c)
      BY <1>2, <2>3 DEF NextSlotReturns
    <2> QED BY <1>3, <2>1, <2>2, <2>3 DEF Cpu
  <1>4. ASSUME Ld
        PROVE  S!Next \/ UNCHANGED S!vars
    <2>1. CASE LoadProcess
      <3>1. NextToLoad \in Procs /\ S!CallAdd(Loader, NextToLoad)
        BY <2>1, NextIsProc DEF LoadProcess
      <3>2. S!Client(Loader)
        BY <3>1 DEF S!Client
      <3> QED BY <1>1, <1>4, <3>2 DEF Ld, Threads
    <2>2. CASE LoaderWaits \/ LoadNext \/ LoaderStops
      BY <1>2, <2>2 DEF LoaderWaits, LoadNext, LoaderStops
    <2>3. CASE InCall(Loader)
      BY <1>1, <1>4, <2>3 DEF InCall, Ld, Threads
    <2>4. CASE NextSlotReturns(Loader)
      BY <1>2, <2>4 DEF NextSlotReturns
    <2> QED BY <1>4, <2>1, <2>2, <2>3, <2>4 DEF Ld, ld_routine
  <1>5. CASE Timer
    BY <1>2, <1>5 DEF Timer, TimeSlot
  <1>6. CASE Stop \/ UNCHANGED vars
    BY <1>2, <1>6 DEF Stop, vars
  <1> QED BY <1>3, <1>4, <1>5, <1>6 DEF Next

\* The loader's counter.
LEMMA LoadedType ==
    loaded \in Nat /\ [Next]_vars => (loaded \in Nat)'
  BY DEF Next, vars, ldVars, cpuVars, Cpu, cpu_routine, LoadFirst,
         FinishProcess, Preempt, Reload, SkipSlot, CpuStops, RunSlot, InCall,
         NextSlotReturns, Ld, ld_routine, LoaderWaits, LoadProcess, LoadNext,
         LoaderStops, Timer, TimeSlot, Stop

\* cpu_routine and ld_routine call the scheduler only as module Sched says:
\* get_proc with no process in hand, put_proc and free with one, add_proc for
\* a process that is new (os.c:61-112, os.c:128-146).  What is proved of the
\* scheduler therefore holds in the simulator.
THEOREM OsUsesSched == Spec => S!Spec
  <1>1. Init => S!Init /\ loaded \in Nat
    BY DEF Init
  <1> QED BY <1>1, SchedNext, LoadedType, PTL DEF Spec, S!Spec

\* The invariants of SchedProofs and MlqProofs.
LEMMA SchedInvariants ==
    Spec => []( /\ P!RaceInv
                /\ P!ReadySlotsFilled
                /\ overlap \/ P!SerialInv
                /\ P!OnePlace)
  <1>1. S!Spec => P!Spec
    BY SameSched, PTL DEF S!Spec, P!Spec
  <1>2. P!Spec => [](P!RaceInv /\ (overlap \/ P!SerialInv))
    BY SchedFacts, P!SerialAlways
  <1>3. P!Spec => []P!ReadySlotsFilled
    BY SchedFacts, P!NeverHandsOutNull
  <1>4. P!Spec => []P!OnePlace
    BY SchedFacts, P!NoProcessLost
  <1> QED BY <1>1, <1>2, <1>3, <1>4, OsUsesSched, PTL

-----------------------------------------------------------------------------
(* What a step inside the scheduler does to the thread that takes it.      *)

\* Where a thread is between the call of get_proc and its return, and of
\* put_proc or add_proc.
InGet == {"get"} \cup P!GetSection
InPut == {"put", "add"} \cup P!PutSection

\* The other threads keep their place and their process, and no process
\* becomes new again.
Others(t) ==
    /\ \A u \in Threads \ {t} : at'[u] = at[u] /\ proc'[u] = proc[u]
    /\ \A p \in Procs : life[p] # "new" => life'[p] # "new"

\* A step of get_mlq_proc stays in the call or returns with a process from
\* a queue or, when the scan has passed the last level, without one.
GetStep(t) ==
    /\ at[t] \in InGet
    /\ at'[t] \in {"none"} \cup P!GetSection
    /\ at'[t] = "none" /\ proc'[t] = NULL => at[t] = "scan" /\ lvl[t] = MAX_PRIO
    /\ at'[t] = "none" => ready' = ready

\* A step of put_mlq_proc or add_mlq_proc stays in the call with its process
\* or returns without it.
PutStep(t) ==
    /\ at[t] \in InPut
    /\ at'[t] \in {"none"} \cup P!PutSection
    /\ proc'[t] = IF at'[t] = "none" THEN NULL ELSE proc[t]

\* Every step inside a call is one of the two.
LEMMA CallEffect ==
    ASSUME P!RaceInv, NEW t \in Threads, S!Call(t)
    PROVE  Others(t) /\ (GetStep(t) \/ PutStep(t))
  <1> USE DEF P!Goto, P!GetSection, P!PutSection, InGet, InPut
  <1>0. /\ at \in [Threads -> P!Places] /\ proc \in [Threads -> P!Ptr]
        /\ life \in [Procs -> {"new", "live", "freed", "dropped"}]
        /\ P!PlaceInv /\ P!FilledAt(t)
        /\ NULL \notin Procs
    BY QueueAssumption DEF P!RaceInv, P!TypeOK, P!FilledInv, P!Threads, Threads
  <1>1. P!Call(t)
    BY SameSched
  <1>2. CASE P!get_mlq_proc(t)
    <2>1. CASE P!GetLock(t) \/ P!ScanNext(t) \/ P!ScanNone(t)
      BY <1>0, <2>1 DEF P!GetLock, P!ScanNext, P!ScanNone, Others, GetStep
    <2>2. CASE P!ScanTake(t)
      BY <1>0, <2>2 DEF P!ScanTake, Others, GetStep
    <2>3. CASE P!DequeueLoad(t) \/ P!DequeueSize(t)
      BY <1>0, <2>3 DEF P!DequeueLoad, P!DequeueSize, Others, GetStep
    <2>4. CASE P!RunningStore(t) \/ P!RunningLoad(t) \/ P!RunningSize(t)
      BY <1>0, <2>4 DEF P!RunningStore, P!RunningLoad, P!RunningSize, Others,
         GetStep, P!FilledAt
    <2> QED BY <1>2, <2>1, <2>2, <2>3, <2>4 DEF P!get_mlq_proc
  <1>3. CASE P!put_mlq_proc(t)
    <2>1. CASE P!PutLock(t)
      BY <1>0, <2>1 DEF P!PutLock, Others, PutStep
    <2>2. CASE P!Purge(t) \/ P!PurgeLoad(t) \/ P!PurgeSize(t)
               \/ P!PurgeClear(t)
      BY <1>0, <2>2 DEF P!Purge, P!PurgeLoad, P!PurgeSize, P!PurgeClear,
         Others, PutStep
    <2>3. CASE P!EnqueueStore(t)
      <3>1. proc[t] \in Procs
        BY <1>0, <2>3 DEF P!EnqueueStore, P!PlaceInv, P!Threads, Threads
      <3> QED BY <1>0, <2>3, <3>1 DEF P!EnqueueStore, Others, PutStep
    <2>4. CASE P!EnqueueLoad(t) \/ P!EnqueueSize(t)
      BY <1>0, <2>4 DEF P!EnqueueLoad, P!EnqueueSize, Others, PutStep
    <2> QED BY <1>3, <2>1, <2>2, <2>3, <2>4 DEF P!put_mlq_proc
  <1> QED BY <1>1, <1>2, <1>3 DEF P!Call

-----------------------------------------------------------------------------
(* The routines of os.c.                                                   *)

\* A CPU's place in cpu_routine, its call into the scheduler, its slice and
\* its place in the time slot belong together.
CpuAt(c) ==
    /\ cpuPc[c] = "top" =>
          /\ at[c] = "none"
          /\ proc[c] = NULL => time_left[c] = 0 /\ burst[c] = 0
          /\ proc[c] # NULL => time_left[c] = time_slot - burst[c] /\ burst[c] > 0
    /\ cpuPc[c] \in {"first", "again"} =>
          /\ at[c] \in {"none"} \cup InGet
          /\ time_left[c] = 0 /\ burst[c] = 0
    /\ cpuPc[c] = "reload" =>
          /\ at[c] \in {"none"} \cup InPut
          /\ time_left[c] = 0 /\ burst[c] = 0
          /\ proc[c] = NULL <=> at[c] = "none"
          /\ at[c] # "none" => time_slot > 0
    /\ cpuPc[c] = "off" => at[c] = "none" /\ proc[c] = NULL /\ done = 1
    /\ phase[c] # "busy" => cpuPc[c] \in {"top", "off"}
    /\ phase[c] = "gone" => cpuPc[c] = "off"

\* The loader calls the scheduler within its slot and before it is done, and
\* done is set as it leaves.
LoaderAt ==
    /\ at[Loader] \in {"none"} \cup InPut
    /\ at[Loader] # "none" => loaded < num_processes /\ phase[Loader] = "busy"
    /\ done = 1 <=> phase[Loader] = "gone"
    /\ done = 1 => loaded = num_processes

\* The processes before the loader's counter have been loaded.
LoadedInv == \A i \in 1 .. loaded : life[Workload[i]] # "new"

\* A process that has run in this time slot is with a CPU that waits for the
\* next one.
RanInv == \A p \in ran : \E c \in CPUs : proc[c] = p /\ phase[c] = "arrived"

OsInv ==
    /\ TypeOK /\ time_slot \in Nat /\ pc \in [Procs -> Nat]
    /\ \A c \in CPUs : CpuAt(c)
    /\ LoaderAt /\ LoadedInv /\ RanInv

\* Some start time is the last.
LEMMA ClockBound == MaxClock \in Nat
  <1> DEFINE T == {start_time[p] : p \in Procs}
  <1>1. \E m \in T : \A p \in Procs : start_time[p] <= m
    BY OsAssumption
  <1>2. MaxClock \in T
    BY <1>1 DEF MaxClock
  <1> QED BY <1>2, OsAssumption

\* The first slot.
LEMMA OsInit == Init => OsInv
  <1> SUFFICES ASSUME Init PROVE OsInv
    OBVIOUS
  <1>1. TypeOK /\ time_slot \in Nat /\ pc \in [Procs -> Nat]
    BY OsAssumption, ClockBound DEF Init, TypeOK, read_config, load,
       Barrier!Init, Barrier!Phases, num_processes
  <1>2. \A c \in CPUs : CpuAt(c)
    BY DEF Init, CpuAt, S!Init, Barrier!Init, S!Threads, Threads
  <1>3. LoaderAt /\ LoadedInv /\ RanInv
    BY DEF Init, S!Init, Barrier!Init, LoaderAt, LoadedInv, RanInv, S!Threads,
           Threads
  <1> QED BY <1>1, <1>2, <1>3 DEF OsInv

\* A CPU on which nothing changes keeps its part.
LEMMA CpuSame ==
    ASSUME NEW c \in CPUs, CpuAt(c), at'[c] = at[c], proc'[c] = proc[c],
           cpuPc'[c] = cpuPc[c], time_left'[c] = time_left[c],
           burst'[c] = burst[c], phase'[c] = phase[c],
           time_slot' = time_slot, done = 1 => done' = 1
    PROVE  CpuAt(c)'
  BY DEF CpuAt

\* Facts that every step uses: the scheduler's variables are functions, and
\* the loader is not a CPU.
LEMMA StateTyped ==
    ASSUME P!RaceInv
    PROVE  /\ at \in [Threads -> P!Places] /\ proc \in [Threads -> P!Ptr]
           /\ life \in [Procs -> {"new", "live", "freed", "dropped"}]
           /\ NULL \notin Procs /\ Loader \notin CPUs
           /\ CPUs \subseteq Threads /\ Loader \in Threads
  BY QueueAssumption, OsAssumption
     DEF P!RaceInv, P!TypeOK, P!Threads, Threads

\* No process is running: get_proc is called.
LEMMA LoadFirstKeeps ==
    ASSUME P!RaceInv, OsInv, NEW c \in CPUs, LoadFirst(c)
    PROVE  OsInv'
  <1> USE StateTyped DEF OsInv
  <1>1. (TypeOK /\ time_slot \in Nat /\ pc \in [Procs -> Nat])'
    BY DEF LoadFirst, S!CallGet, S!Goto, Awake, TypeOK, barrierVars, ldVars,
       Barrier!Phases
  <1>2. ASSUME NEW d \in CPUs
        PROVE  CpuAt(d)'
    <2>1. CASE d = c
      BY <2>1 DEF LoadFirst, S!CallGet, S!Goto, Awake, CpuAt, TypeOK, InGet,
         InPut, barrierVars, schedVars, ldVars
    <2>2. CASE d # c
      BY <2>2, CpuSame DEF LoadFirst, S!CallGet, S!Goto, Awake, TypeOK,
         barrierVars, schedVars, ldVars
    <2> QED BY <2>1, <2>2
  <1>3. LoaderAt' /\ LoadedInv'
    BY DEF LoadFirst, S!CallGet, S!Goto, Awake, LoaderAt, LoadedInv, TypeOK,
       barrierVars, schedVars, ldVars
  <1>4. RanInv'
    BY DEF LoadFirst, S!CallGet, S!Goto, Awake, RanInv, TypeOK, barrierVars,
       schedVars
  <1> QED BY <1>1, <1>2, <1>3, <1>4

\* The process has come to its end and is freed.
LEMMA FinishProcessKeeps ==
    ASSUME P!RaceInv, OsInv, NEW c \in CPUs, FinishProcess(c)
    PROVE  OsInv'
  <1> USE StateTyped DEF OsInv
  <1>1. (TypeOK /\ time_slot \in Nat /\ pc \in [Procs -> Nat])'
    BY DEF FinishProcess, S!Free, Awake, TypeOK, barrierVars, ldVars,
       Barrier!Phases
  <1>2. ASSUME NEW d \in CPUs
        PROVE  CpuAt(d)'
    <2>1. CASE d = c
      BY <2>1 DEF FinishProcess, S!Free, Awake, CpuAt, TypeOK, InGet, InPut,
         barrierVars, schedVars, ldVars
    <2>2. CASE d # c
      BY <2>2, CpuSame DEF FinishProcess, S!Free, Awake, TypeOK, barrierVars,
         schedVars, ldVars
    <2> QED BY <2>1, <2>2
  <1>3. LoaderAt' /\ LoadedInv'
    BY DEF FinishProcess, S!Free, Awake, LoaderAt, LoadedInv, TypeOK,
       barrierVars, schedVars, ldVars
  <1>4. RanInv'
    BY DEF FinishProcess, S!Free, Awake, RanInv, TypeOK, barrierVars, schedVars
  <1> QED BY <1>1, <1>2, <1>3, <1>4

\* The slice is over: it was a whole one, so it had a length.
LEMMA PreemptKeeps ==
    ASSUME P!RaceInv, OsInv, NEW c \in CPUs, Preempt(c)
    PROVE  OsInv'
  <1> USE StateTyped DEF OsInv
  <1>1. (TypeOK /\ time_slot \in Nat /\ pc \in [Procs -> Nat])'
    BY DEF Preempt, S!CallPut, S!Goto, Awake, TypeOK, barrierVars, ldVars,
       Barrier!Phases
  <1>2. ASSUME NEW d \in CPUs
        PROVE  CpuAt(d)'
    <2>1. CASE d = c
      BY <2>1 DEF Preempt, S!CallPut, S!Goto, Awake, CpuAt, TypeOK, InGet,
         InPut, barrierVars, schedVars, ldVars
    <2>2. CASE d # c
      BY <2>2, CpuSame DEF Preempt, S!CallPut, S!Goto, Awake, TypeOK,
         barrierVars, schedVars, ldVars
    <2> QED BY <2>1, <2>2
  <1>3. LoaderAt' /\ LoadedInv'
    BY DEF Preempt, S!CallPut, S!Goto, Awake, LoaderAt, LoadedInv, TypeOK,
       barrierVars, schedVars, ldVars
  <1>4. RanInv'
    BY DEF Preempt, S!CallPut, S!Goto, Awake, RanInv, TypeOK, barrierVars,
       schedVars
  <1> QED BY <1>1, <1>2, <1>3, <1>4

\* get_proc is called after put_proc or free.
LEMMA ReloadKeeps ==
    ASSUME P!RaceInv, OsInv, NEW c \in CPUs, Reload(c)
    PROVE  OsInv'
  <1> USE StateTyped DEF OsInv
  <1>1. (TypeOK /\ time_slot \in Nat /\ pc \in [Procs -> Nat])'
    BY DEF Reload, S!CallGet, S!Goto, Awake, TypeOK, barrierVars, ldVars,
       Barrier!Phases
  <1>2. ASSUME NEW d \in CPUs
        PROVE  CpuAt(d)'
    <2>1. CASE d = c
      BY <2>1 DEF Reload, S!CallGet, S!Goto, Awake, CpuAt, TypeOK, InGet,
         InPut, barrierVars, schedVars, ldVars
    <2>2. CASE d # c
      BY <2>2, CpuSame DEF Reload, S!CallGet, S!Goto, Awake, TypeOK,
         barrierVars, schedVars, ldVars
    <2> QED BY <2>1, <2>2
  <1>3. LoaderAt' /\ LoadedInv'
    BY DEF Reload, S!CallGet, S!Goto, Awake, LoaderAt, LoadedInv, TypeOK,
       barrierVars, schedVars, ldVars
  <1>4. RanInv'
    BY DEF Reload, S!CallGet, S!Goto, Awake, RanInv, TypeOK, barrierVars,
       schedVars
  <1> QED BY <1>1, <1>2, <1>3, <1>4

\* A CPU without a process waits for the next slot.
LEMMA SkipSlotKeeps ==
    ASSUME P!RaceInv, OsInv, NEW c \in CPUs, SkipSlot(c)
    PROVE  OsInv'
  <1> USE StateTyped DEF OsInv
  <1>1. (TypeOK /\ time_slot \in Nat /\ pc \in [Procs -> Nat])'
    BY DEF SkipSlot, Barrier!Arrive, Awake, TypeOK, barrierVars, ldVars,
       Barrier!Phases
  <1>2. ASSUME NEW d \in CPUs
        PROVE  CpuAt(d)'
    <2>1. CASE d = c
      BY <2>1 DEF SkipSlot, Barrier!Arrive, Awake, CpuAt, TypeOK, InGet, InPut,
         barrierVars, schedVars, ldVars
    <2>2. CASE d # c
      BY <2>2, CpuSame DEF SkipSlot, Barrier!Arrive, Awake, TypeOK,
         barrierVars, schedVars, ldVars
    <2> QED BY <2>1, <2>2
  <1>3. LoaderAt' /\ LoadedInv'
    BY DEF SkipSlot, Barrier!Arrive, Awake, LoaderAt, LoadedInv, TypeOK,
       barrierVars, schedVars, ldVars
  <1>4. RanInv'
    BY DEF SkipSlot, Barrier!Arrive, Awake, RanInv, TypeOK, barrierVars,
       schedVars
  <1> QED BY <1>1, <1>2, <1>3, <1>4

\* A CPU without a process stops.
LEMMA CpuStopsKeeps ==
    ASSUME P!RaceInv, OsInv, NEW c \in CPUs, CpuStops(c)
    PROVE  OsInv'
  <1> USE StateTyped DEF OsInv
  <1>1. (TypeOK /\ time_slot \in Nat /\ pc \in [Procs -> Nat])'
    BY DEF CpuStops, Barrier!Leave, Awake, TypeOK, barrierVars, ldVars,
       Barrier!Phases
  <1>2. ASSUME NEW d \in CPUs
        PROVE  CpuAt(d)'
    <2>1. CASE d = c
      BY <2>1 DEF CpuStops, Barrier!Leave, Awake, CpuAt, TypeOK, InGet, InPut,
         barrierVars, schedVars, ldVars
    <2>2. CASE d # c
      BY <2>2, CpuSame DEF CpuStops, Barrier!Leave, Awake, TypeOK, barrierVars,
         schedVars, ldVars
    <2> QED BY <2>1, <2>2
  <1>3. LoaderAt' /\ LoadedInv'
    BY DEF CpuStops, Barrier!Leave, Awake, LoaderAt, LoadedInv, TypeOK,
       barrierVars, schedVars, ldVars
  <1>4. RanInv'
    BY DEF CpuStops, Barrier!Leave, Awake, RanInv, TypeOK, barrierVars,
       schedVars
  <1> QED BY <1>1, <1>2, <1>3, <1>4

\* A process runs for one slot: the slice it is in, or a new one, gets
\* shorter by one, and the program counter stays within the program.
LEMMA RunSlotKeeps ==
    ASSUME P!RaceInv, OsInv, NEW c \in CPUs, RunSlot(c)
    PROVE  OsInv'
  <1> USE StateTyped DEF OsInv
  <1>1. proc[c] \in Procs /\ CodeSize[proc[c]] \in Nat
    BY OsAssumption DEF RunSlot, Continue, P!Ptr
  <1>2. time_left[c] \in Int /\ burst[c] \in Nat /\ time_slot \in Nat
    BY DEF TypeOK
  <1>3. /\ time_left'[c] = time_slot - burst'[c] /\ burst'[c] > 0
        /\ time_left'[c] <= time_slot
        /\ time_slot > 0 => time_left'[c] >= 0
    BY <1>2 DEF RunSlot, Continue, dispatch, CpuAt, TypeOK
  <1>4. (\A p \in Procs : pc[p] \in 0 .. CodeSize[p])'
    <2> SUFFICES ASSUME NEW p \in Procs
                 PROVE  pc'[p] \in 0 .. CodeSize[p]
      BY DEF RunSlot
    <2>1. CodeSize[p] \in Nat /\ pc[p] \in 0 .. CodeSize[p]
      BY OsAssumption DEF TypeOK
    <2>2. pc'[p] = pc[p] \/ (pc'[p] = pc[p] + 1 /\ ~(pc[p] >= CodeSize[p]))
      BY <1>1 DEF RunSlot, run
    <2> QED BY <2>1, <2>2
  <1>5. (TypeOK /\ time_slot \in Nat /\ pc \in [Procs -> Nat])'
    <2>1. (time_left \in [CPUs -> Int] /\ burst \in [CPUs -> Nat])'
      BY <1>2 DEF RunSlot, dispatch, TypeOK
    <2>2. \A d \in CPUs : d # c => time_left'[d] = time_left[d]
      BY DEF RunSlot, TypeOK
    <2>3. (pc \in [Procs -> Nat])'
      BY <1>1 DEF RunSlot, run
    <2> QED BY <1>3, <1>4, <2>1, <2>2, <2>3
            DEF RunSlot, TypeOK, Barrier!Arrive, Barrier!Phases, ldVars
  <1>6. ASSUME NEW d \in CPUs
        PROVE  CpuAt(d)'
    <2>1. CASE d = c
      BY <1>1, <1>3, <2>1 DEF RunSlot, Continue, Awake, CpuAt, TypeOK,
         schedVars, Barrier!Arrive
    <2>2. CASE d # c
      BY <2>2, CpuSame DEF RunSlot, TypeOK, schedVars, ldVars, Barrier!Arrive
    <2> QED BY <2>1, <2>2
  <1>7. LoaderAt' /\ LoadedInv'
    BY DEF RunSlot, LoaderAt, LoadedInv, TypeOK, schedVars, ldVars,
       Barrier!Arrive
  <1>8. RanInv'
    BY DEF RunSlot, RanInv, TypeOK, schedVars, Barrier!Arrive
  <1> QED BY <1>5, <1>6, <1>7, <1>8

\* A step of a CPU inside the scheduler.
LEMMA CpuCallKeeps ==
    ASSUME P!RaceInv, OsInv, NEW c \in CPUs, InCall(c)
    PROVE  OsInv'
  <1> USE StateTyped DEF OsInv
  <1>1. Others(c) /\ (GetStep(c) \/ PutStep(c))
    BY CallEffect DEF InCall
  <1>2. /\ UNCHANGED <<time_slot, barrierVars, cpuVars, ldVars>>
        /\ at[c] # "none"
    BY <1>1 DEF InCall, GetStep, PutStep, InGet, InPut, P!GetSection,
       P!PutSection
  <1>3. (TypeOK /\ time_slot \in Nat /\ pc \in [Procs -> Nat])'
    BY <1>2 DEF TypeOK, barrierVars, cpuVars, ldVars
  <1>4. ASSUME NEW d \in CPUs
        PROVE  CpuAt(d)'
    <2>1. CASE d = c
      <3>1. CpuAt(c)
        OBVIOUS
      <3>2. CASE GetStep(c)
        BY <1>2, <2>1, <3>1, <3>2 DEF CpuAt, GetStep, InGet, InPut,
           P!GetSection, P!PutSection, barrierVars, cpuVars, ldVars, TypeOK
      <3>3. CASE PutStep(c)
        BY <1>2, <2>1, <3>1, <3>3 DEF CpuAt, PutStep, InGet, InPut,
           P!GetSection, P!PutSection, barrierVars, cpuVars, ldVars, TypeOK
      <3> QED BY <1>1, <3>2, <3>3
    <2>2. CASE d # c
      BY <1>1, <1>2, <2>2, CpuSame DEF Others, barrierVars, cpuVars, ldVars
    <2> QED BY <2>1, <2>2
  <1>5. LoaderAt'
    BY <1>1, <1>2 DEF Others, LoaderAt, barrierVars, ldVars
  <1>6. LoadedInv'
    BY <1>1, <1>2, WorkloadProcs DEF Others, LoadedInv, TypeOK, ldVars
  <1>7. RanInv'
    <2> SUFFICES ASSUME NEW p \in ran
                 PROVE  \E d \in CPUs : proc'[d] = p /\ phase'[d] = "arrived"
      BY <1>2 DEF RanInv, cpuVars
    <2>1. PICK d \in CPUs : proc[d] = p /\ phase[d] = "arrived"
      BY DEF RanInv
    <2>2. d # c
      BY <1>2, <2>1 DEF CpuAt
    <2> QED BY <1>1, <1>2, <2>1, <2>2 DEF Others, barrierVars
  <1> QED BY <1>3, <1>4, <1>5, <1>6, <1>7

\* A step of the loader inside the scheduler.
LEMMA LoaderCallKeeps ==
    ASSUME P!RaceInv, OsInv, InCall(Loader)
    PROVE  OsInv'
  <1> USE StateTyped DEF OsInv
  <1>1. Others(Loader) /\ (GetStep(Loader) \/ PutStep(Loader))
    BY CallEffect DEF InCall
  <1>2. UNCHANGED <<time_slot, barrierVars, cpuVars, ldVars>>
    BY DEF InCall
  <1>3. (TypeOK /\ time_slot \in Nat /\ pc \in [Procs -> Nat])'
    BY <1>2 DEF TypeOK, barrierVars, cpuVars, ldVars
  <1>4. \A d \in CPUs : at'[d] = at[d] /\ proc'[d] = proc[d]
    BY <1>1 DEF Others
  <1>5. ASSUME NEW d \in CPUs
        PROVE  CpuAt(d)'
    BY <1>2, <1>4, CpuSame DEF barrierVars, cpuVars, ldVars
  <1>6. LoaderAt'
    BY <1>1, <1>2 DEF GetStep, PutStep, InGet, InPut, P!GetSection,
       P!PutSection, LoaderAt, barrierVars, ldVars
  <1>7. LoadedInv'
    BY <1>1, <1>2, WorkloadProcs DEF Others, LoadedInv, TypeOK, ldVars
  <1>8. RanInv'
    BY <1>2, <1>4 DEF RanInv, barrierVars, cpuVars
  <1> QED BY <1>3, <1>5, <1>6, <1>7, <1>8

\* next_slot returns, to a CPU or to the loader.
LEMMA ResumeKeeps ==
    ASSUME P!RaceInv, OsInv, NEW t \in Threads, NextSlotReturns(t)
    PROVE  OsInv'
  <1> USE StateTyped DEF OsInv
  <1>1. /\ UNCHANGED <<time_slot, schedVars, cpuVars, ldVars, clock>>
        /\ phase[t] = "released" /\ phase' = [phase EXCEPT ![t] = "busy"]
    BY DEF NextSlotReturns, Barrier!Resume
  <1>2. (TypeOK /\ time_slot \in Nat /\ pc \in [Procs -> Nat])'
    BY <1>1 DEF TypeOK, cpuVars, ldVars, Barrier!Phases
  <1>3. ASSUME NEW d \in CPUs
        PROVE  CpuAt(d)'
    <2>1. CASE d = t
      BY <1>1, <2>1 DEF CpuAt, schedVars, cpuVars, ldVars, TypeOK
    <2>2. CASE d # t
      BY <1>1, <2>2, CpuSame DEF schedVars, cpuVars, ldVars, TypeOK
    <2> QED BY <2>1, <2>2
  <1>4. LoaderAt' /\ LoadedInv'
    BY <1>1 DEF LoaderAt, LoadedInv, schedVars, ldVars, TypeOK
  <1>5. RanInv'
    BY <1>1 DEF RanInv, schedVars, cpuVars, TypeOK
  <1> QED BY <1>2, <1>3, <1>4, <1>5

\* The steps of ld_routine.
LEMMA LoaderKeeps ==
    ASSUME P!RaceInv, OsInv, ld_routine
    PROVE  OsInv'
  <1> USE StateTyped DEF OsInv
  <1>1. /\ UNCHANGED <<time_slot, cpuVars, clock>>
        /\ phase[Loader] = "busy" /\ at[Loader] = "none"
        /\ \A d \in CPUs : phase'[d] = phase[d] /\ at'[d] = at[d]
                                               /\ proc'[d] = proc[d]
    BY DEF ld_routine, LoaderWaits, LoadProcess, LoadNext, LoaderStops, Awake,
           Barrier!Arrive, Barrier!Leave, S!CallAdd, S!Goto, TypeOK, schedVars,
           barrierVars
  <1>2. loaded \in 0 .. num_processes /\ num_processes \in Nat
    BY OsAssumption DEF TypeOK, num_processes
  <1>3. (TypeOK /\ time_slot \in Nat /\ pc \in [Procs -> Nat])'
    BY <1>1, <1>2 DEF ld_routine, LoaderWaits, LoadProcess, LoadNext,
       LoaderStops, Barrier!Arrive, Barrier!Leave, Barrier!Phases, TypeOK,
       cpuVars, barrierVars, ldVars
  <1>4. ASSUME NEW d \in CPUs
        PROVE  CpuAt(d)'
    <2>1. done = 1 => done' = 1
      BY DEF ld_routine, LoaderWaits, LoadProcess, LoadNext, LoaderStops,
         ldVars
    <2> QED BY <1>1, <2>1, CpuSame DEF cpuVars
  <1>5. LoaderAt'
    BY <1>1, <1>2 DEF ld_routine, LoaderWaits, LoadProcess, LoadNext,
       LoaderStops, Barrier!Arrive, Barrier!Leave, S!CallAdd, S!Goto, LoaderAt,
       InPut, TypeOK, schedVars, barrierVars, ldVars
  <1>6. LoadedInv'
    <2>1. \A p \in Procs : life[p] # "new" => life'[p] # "new"
      BY DEF ld_routine, LoaderWaits, LoadProcess, LoadNext, LoaderStops,
             S!CallAdd, schedVars
    <2>2. \A i \in 1 .. num_processes : Workload[i] \in Procs
      BY WorkloadProcs
    <2>3. loaded' = loaded \/ (loaded' = loaded + 1 /\ LoadNext)
      BY DEF ld_routine, LoaderWaits, LoadProcess, LoadNext, LoaderStops,
         ldVars
    <2>4. CASE loaded' = loaded
      BY <1>2, <2>1, <2>2, <2>4 DEF LoadedInv
    <2>5. CASE loaded' = loaded + 1 /\ LoadNext
      BY <1>2, <2>5 DEF LoadNext, NextToLoad, LoadedInv, schedVars
    <2> QED BY <2>3, <2>4, <2>5
  <1>7. RanInv'
    BY <1>1 DEF RanInv, cpuVars
  <1> QED BY <1>3, <1>4, <1>5, <1>6, <1>7

\* The next time slot: nobody is at work, and nothing has run in it yet.
LEMMA TimeSlotKeeps ==
    ASSUME P!RaceInv, OsInv, TimeSlot
    PROVE  OsInv'
  <1> USE StateTyped DEF OsInv
  <1>1. (TypeOK /\ time_slot \in Nat /\ pc \in [Procs -> Nat])'
    BY ClockBound DEF TimeSlot, TypeOK, Barrier!Phases, ldVars
  <1>2. ASSUME NEW d \in CPUs
        PROVE  CpuAt(d)'
    BY DEF TimeSlot, CpuAt, schedVars, ldVars
  <1>3. LoaderAt' /\ LoadedInv'
    BY DEF TimeSlot, LoaderAt, LoadedInv, schedVars, ldVars
  <1>4. RanInv'
    BY DEF TimeSlot, RanInv
  <1> QED BY <1>1, <1>2, <1>3, <1>4

\* Every step keeps the invariant.
LEMMA OsNext == P!RaceInv /\ OsInv /\ [Next]_vars => OsInv'
  <1> SUFFICES ASSUME P!RaceInv, OsInv, [Next]_vars PROVE OsInv'
    OBVIOUS
  <1>1. ASSUME NEW c \in CPUs, Cpu(c)
        PROVE  OsInv'
    BY <1>1, LoadFirstKeeps, FinishProcessKeeps, PreemptKeeps, ReloadKeeps,
       SkipSlotKeeps, CpuStopsKeeps, RunSlotKeeps, CpuCallKeeps, ResumeKeeps
       DEF Cpu, cpu_routine, Threads
  <1>2. CASE Ld
    BY <1>2, LoaderKeeps, LoaderCallKeeps, ResumeKeeps DEF Ld, Threads
  <1>3. CASE Timer
    BY <1>3, TimeSlotKeeps DEF Timer
  <1>4. CASE UNCHANGED vars
    <2>1. UNCHANGED <<time_slot, clock, phase, cpuPc, time_left, pc, ran, burst,
                      loaded, done, at, proc, life>>
      BY <1>4 DEF vars, schedVars, barrierVars, cpuVars, ldVars
    <2> QED BY <2>1 DEF OsInv, TypeOK, CpuAt, LoaderAt, LoadedInv, RanInv
  <1> QED BY <1>1, <1>2, <1>3, <1>4 DEF Next, Stop

\* The invariants of the scheduler and of os.c hold throughout.
LEMMA OsAlways == Spec => [](P!RaceInv /\ OsInv)
  BY SchedInvariants, OsInit, OsNext, PTL DEF Spec

\* os.c's counters stay in range: a slice is never longer than time_slot and,
\* unless time_slot is 0, never negative, and no program counter passes the
\* end of its program (os.c:65-103, cpu.c).
THEOREM OsTyped == Spec => []TypeOK
  BY OsAlways, PTL DEF OsInv

\* Whichever way a CPU came to its process, the process is put back when it
\* has run for a whole time slice and not before (os.c:65-98).
THEOREM SlicesAreWhole == Spec => []WholeSlice
  <1>1. OsInv => WholeSlice
    BY DEF OsInv, CpuAt, WholeSlice
  <1> QED BY <1>1, OsAlways, PTL

\* A process executes at most one instruction in a time slot (os.c:72-103):
\* a CPU that has run it keeps it until the slot is over, and two CPUs that
\* have the same process are a clash.
THEOREM OneStepPerSlot == Spec => OneInstructionPerSlot
  <1>1. P!RaceInv /\ OsInv /\ [Next]_vars =>
           [\A p \in Procs : pc'[p] # pc[p] => overlap \/ p \notin ran]_vars
    <2> SUFFICES ASSUME P!RaceInv, OsInv, Next,
                        NEW p \in Procs, pc'[p] # pc[p], p \in ran
                 PROVE  FALSE
      OBVIOUS
    <2>1. PICK c \in CPUs : ~S!Clash /\ RunSlot(c)
      BY DEF Next, Cpu, cpu_routine, LoadFirst, FinishProcess, Preempt, Reload,
             SkipSlot, CpuStops, InCall, NextSlotReturns, Ld, ld_routine,
             LoaderWaits, LoadProcess, LoadNext, LoaderStops, Timer, TimeSlot,
             Stop, vars, cpuVars
    <2>2. proc[c] = p /\ phase[c] = "busy" /\ proc[c] # NULL
      BY <2>1 DEF RunSlot, run, Continue, Barrier!Arrive, OsInv
    <2>3. PICK d \in CPUs : proc[d] = p /\ phase[d] = "arrived"
      BY DEF OsInv, RanInv
    <2> QED BY <2>1, <2>2, <2>3 DEF S!Clash
  <1> QED BY <1>1, OsAlways, PTL DEF Spec, OneInstructionPerSlot

-----------------------------------------------------------------------------
(* No work is left behind.                                                 *)

\* The CPU has stopped, or has come back from get_proc without a process and
\* will stop if the loader is done.
Idle(c) ==
    \/ cpuPc[c] = "off"
    \/ cpuPc[c] = "again" /\ at[c] = "none" /\ proc[c] = NULL

\* The last process was loaded in an earlier time slot.
AllLoaded == loaded = num_processes /\ phase[Loader] # "arrived"

\* The last CPU to find nothing has found the queues empty, and a CPU that
\* has put a process back since is not idle.  The time slot between the last
\* add_proc and done is what makes this so: a CPU that looked before the
\* process was added has skipped to the next slot before done is set.
WorkInv ==
    AllLoaded /\ (\A c \in CPUs : Idle(c)) =>
        \A k \in P!Levels : ready[k].size = 0

\* There is something to load first.
LEMMA WorkInit == Init => WorkInv
  BY OsAssumption DEF Init, WorkInv, AllLoaded, num_processes

\* A step that leaves the loader where it is and is taken by a CPU.
LEMMA WorkCpu ==
    ASSUME P!RaceInv, P!SerialInv, OsInv, WorkInv, NEW c \in CPUs,
           cpu_routine(c)
    PROVE  WorkInv'
  <1> USE StateTyped DEF OsInv
  <1>1. ready' = ready /\ (AllLoaded' => AllLoaded)
    BY DEF cpu_routine, LoadFirst, FinishProcess, Preempt, Reload, SkipSlot,
           CpuStops, RunSlot, S!CallGet, S!CallPut, S!Free, Barrier!Arrive,
           Barrier!Leave, AllLoaded, TypeOK, schedVars, barrierVars, ldVars
  <1>2. \A d \in CPUs : Idle(d)' => Idle(d)
    BY DEF cpu_routine, LoadFirst, FinishProcess, Preempt, Reload, SkipSlot,
           CpuStops, RunSlot, S!CallGet, S!CallPut, S!Free, S!Goto, Awake,
           Idle, TypeOK, schedVars
  <1> QED BY <1>1, <1>2 DEF WorkInv

\* A step inside the scheduler: get_proc returns without a process only when
\* the queues are empty.
LEMMA WorkCall ==
    ASSUME P!RaceInv, P!SerialInv, OsInv, WorkInv, NEW t \in Threads, InCall(t)
    PROVE  WorkInv'
  <1> USE StateTyped DEF OsInv
  <1>1. Others(t) /\ (GetStep(t) \/ PutStep(t))
    BY CallEffect DEF InCall
  <1>2. UNCHANGED <<barrierVars, cpuVars, ldVars>> /\ at[t] # "none"
    BY <1>1 DEF InCall, GetStep, PutStep, InGet, InPut, P!GetSection,
       P!PutSection
  <1> SUFFICES ASSUME AllLoaded', \A c \in CPUs : Idle(c)', NEW k \in P!Levels
               PROVE  ready'[k].size = 0
    BY DEF WorkInv
  <1>3. AllLoaded
    BY <1>2 DEF AllLoaded, barrierVars, ldVars
  <1>4. t \in CPUs
    BY <1>2, <1>3, WorkloadProcs DEF LoaderAt, AllLoaded, Threads
  <1>5. cpuPc[t] = "again" /\ at'[t] = "none" /\ proc'[t] = NULL
    BY <1>2, <1>4 DEF Idle, CpuAt, cpuVars
  <1>6. at[t] = "scan" /\ lvl[t] = MAX_PRIO /\ ready' = ready
    BY <1>1, <1>4, <1>5, <1>2 DEF GetStep, PutStep, CpuAt, InGet, InPut,
       P!GetSection, P!PutSection
  <1>7. k < lvl[t]
    BY <1>6, OsAssumption DEF P!Levels
  <1> QED BY <1>6, <1>7 DEF P!SerialInv, P!ScanInv, P!Threads, Threads

\* A step of ld_routine: loading makes the loader wait for the next slot.
LEMMA WorkLoader ==
    ASSUME P!RaceInv, OsInv, WorkInv, ld_routine
    PROVE  WorkInv'
  <1> USE StateTyped DEF OsInv
  <1>1. ready' = ready /\ \A d \in CPUs : Idle(d)' => Idle(d)
    BY DEF ld_routine, LoaderWaits, LoadProcess, LoadNext, LoaderStops,
           S!CallAdd, S!Goto, Idle, schedVars, cpuVars
  <1>2. AllLoaded' => AllLoaded
    BY DEF ld_routine, LoaderWaits, LoadProcess, LoadNext, LoaderStops, Awake,
           Barrier!Arrive, Barrier!Leave, AllLoaded, TypeOK, barrierVars,
           ldVars
  <1> QED BY <1>1, <1>2 DEF WorkInv

\* next_slot returns.
LEMMA WorkResume ==
    ASSUME P!RaceInv, OsInv, WorkInv, NEW t \in Threads, NextSlotReturns(t)
    PROVE  WorkInv'
  <1> USE StateTyped DEF OsInv
  <1>1. ready' = ready /\ \A d \in CPUs : Idle(d)' => Idle(d)
    BY DEF NextSlotReturns, Idle, schedVars, cpuVars
  <1>2. AllLoaded' => AllLoaded
    BY DEF NextSlotReturns, Barrier!Resume, AllLoaded, TypeOK, ldVars
  <1> QED BY <1>1, <1>2 DEF WorkInv

\* The slot after the last process was loaded: no CPU is idle when it begins.
LEMMA WorkTimeSlot ==
    ASSUME P!RaceInv, OsInv, WorkInv, TimeSlot
    PROVE  WorkInv'
  <1> USE StateTyped DEF OsInv
  <1>1. ready' = ready /\ \A d \in CPUs : Idle(d)' => Idle(d)
    BY DEF TimeSlot, Idle, schedVars
  <1>2. CASE phase[Loader] # "arrived"
    <2>1. AllLoaded' => AllLoaded
      BY <1>2 DEF TimeSlot, AllLoaded, ldVars
    <2> QED BY <1>1, <2>1 DEF WorkInv
  <1>3. CASE phase[Loader] = "arrived"
    <2>1. done # 1
      BY <1>3 DEF LoaderAt
    <2>2. ASSUME NEW c \in CPUs
          PROVE  ~Idle(c)
      <3>1. cpuPc[c] # "off"
        BY <2>1 DEF CpuAt
      <3>2. cpuPc[c] = "top"
        BY <3>1 DEF CpuAt, TimeSlot
      <3> QED BY <3>2 DEF Idle
    <2> QED BY <1>1, <2>2, OsAssumption DEF WorkInv
  <1> QED BY <1>2, <1>3

\* A step after which no sections have overlapped keeps the invariant.
LEMMA WorkNext ==
    /\ P!RaceInv /\ (overlap \/ P!SerialInv) /\ OsInv /\ (overlap \/ WorkInv)
    /\ [Next]_vars
    => (overlap \/ WorkInv)'
  <1> SUFFICES ASSUME P!RaceInv, overlap \/ P!SerialInv, OsInv,
                      overlap \/ WorkInv, [Next]_vars, ~overlap'
               PROVE  WorkInv'
    OBVIOUS
  <1>1. ~overlap
    <2>1. [P!Next]_(P!vars)
      BY SchedNext, SameSched, WorkloadProcs DEF OsInv, TypeOK
    <2>2. CASE \E t \in P!Threads : P!Call(t) \/ P!Client(t)
      BY <2>2, SchedFacts, P!OverlapStays
    <2>3. CASE UNCHANGED P!vars
      BY <2>3 DEF P!vars
    <2> QED BY <2>1, <2>2, <2>3 DEF P!Next, P!Stop
  <1>2. P!SerialInv /\ WorkInv
    BY <1>1
  <1>3. ASSUME NEW c \in CPUs, Cpu(c)
        PROVE  WorkInv'
    BY <1>2, <1>3, WorkCpu, WorkCall, WorkResume DEF Cpu, Threads
  <1>4. CASE Ld
    BY <1>2, <1>4, WorkLoader, WorkCall, WorkResume DEF Ld, Threads
  <1>5. CASE Timer
    BY <1>2, <1>5, WorkTimeSlot DEF Timer
  <1>6. CASE UNCHANGED vars
    <2>1. UNCHANGED <<ready, loaded, phase, cpuPc, at, proc>>
      BY <1>6 DEF vars, schedVars, barrierVars, cpuVars, ldVars
    <2> QED BY <1>2, <2>1 DEF WorkInv, AllLoaded, Idle
  <1> QED BY <1>3, <1>4, <1>5, <1>6 DEF Next, Stop

\* When every CPU has stopped, nothing is in the queues or with a thread.
LEMMA StoppedEmpty ==
    ASSUME P!RaceInv, OsInv, WorkInv, P!OnePlace, ~overlap,
           \A c \in CPUs : cpuPc[c] = "off", NEW p \in Procs
    PROVE  Ended(p)
  <1> USE StateTyped DEF OsInv
  <1>1. PICK c \in CPUs : cpuPc[c] = "off" /\ done = 1
    BY OsAssumption DEF CpuAt
  <1>2. loaded = num_processes /\ phase[Loader] = "gone"
    BY <1>1 DEF LoaderAt
  <1>3. \A t \in Threads : at[t] = "none" /\ proc[t] = NULL
    <2>1. \A d \in CPUs : at[d] = "none" /\ proc[d] = NULL
      BY DEF CpuAt
    <2>2. at[Loader] = "none"
      BY <1>2 DEF LoaderAt
    <2>3. proc[Loader] = NULL
      BY <2>2 DEF P!RaceInv, P!LoaderInv
    <2> QED BY <2>1, <2>2, <2>3 DEF Threads
  <1>4. \A k \in P!Levels : ready[k].size = 0
    BY <1>2 DEF WorkInv, AllLoaded, Idle
  <1>5. P!Quiet
    BY <1>3 DEF P!Quiet, P!Held, P!GetSection, P!PutSection, P!Threads, Threads
  <1>6. P!PlacesOf(p) = {}
    <2> SUFFICES ASSUME NEW x \in P!PlacesOf(p)
                 PROVE  FALSE
      OBVIOUS
    <2>1. CASE x \in {t \in P!Threads : proc[t] = p}
      BY <1>3, <2>1 DEF P!Threads, Threads
    <2>2. ~(x \in {t \in P!Threads : proc[t] = p}) =>
             x[1] \in P!Levels /\ x[2] \in P!Slots /\ x[2] < ready[x[1]].size
      BY DEF P!PlacesOf
    <2> QED BY <1>4, <2>1, <2>2, QueueAssumption DEF P!Slots
  <1>7. life[p] # "live"
    BY <1>5, <1>6, SchedFacts, P!LiveHasPlace
  <1>8. life[p] # "new"
    BY <1>2, OsAssumption DEF LoadedInv
  <1> QED BY <1>7, <1>8 DEF Ended

\* The CPUs do not leave work behind: when the last of them has stopped every
\* process has run to its end or was dropped (os.c:81-84), unless the split
\* locks let two sections overlap.
THEOREM NoWorkLeft == Spec => []NothingLeftBehind
  <1>1. Init => overlap \/ WorkInv
    BY WorkInit
  <1>2. P!RaceInv /\ OsInv /\ (overlap \/ WorkInv) /\ P!OnePlace
           => NothingLeftBehind
    BY StoppedEmpty DEF NothingLeftBehind
  <1> QED BY <1>1, <1>2, WorkNext, OsAlways, SchedInvariants, PTL DEF Spec
=============================================================================
