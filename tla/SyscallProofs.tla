--------------------------- MODULE SyscallProofs ---------------------------
(***************************************************************************)
(* Proofs about the system calls that search running_list without a lock,  *)
(* for any number of CPUs, processes, priorities, slots and calls.         *)
(***************************************************************************)
EXTENDS Syscall, TLAPS

P == INSTANCE MlqProofs

-----------------------------------------------------------------------------
(* The invariant.                                                          *)

\* What is proved of the scheduler in SchedProofs and MlqProofs and does not
\* depend on who frees a process: a system call that misses its process frees
\* one that runs.
SchedInv ==
    /\ P!RaceInv /\ P!FreshInv
    /\ overlap \/ P!SerialInv
    /\ overlap \/ P!RunInv

\* A CPU in a system call is outside the scheduler and has a process, and the
\* loop's index is that of a slot where the slot is read.
CallAt(c) ==
    /\ sys[c] # "none" =>
          at[c] = "none" /\ proc[c] \in Procs /\ pid[c] \in Procs
    /\ sys[c] \in {"look", "read", "take"} => i[c] < MAX_QUEUE_SIZE
    /\ walk[c] \in {"first", "second"} => sys[c] # "none" /\ pid[c] = proc[c]

CallInv == \A c \in CPUs : CallAt(c)

\* The process looked for is at or behind the loop's index.
Ahead(c) ==
    \E j \in Slots :
        i[c] <= j /\ j < running.size /\ running.proc[j] = pid[c]

\* What the loop knows of the list while nobody removes an entry: the slot it
\* looks at is counted, the slot it takes has the process or a freed one, and
\* the second loop of memmap has its process still before it.
WalkAt(c) ==
    /\ sys[c] \in {"look", "read", "take"} => i[c] < running.size
    /\ sys[c] = "take" => \/ running.proc[i[c]] = pid[c]
                          \/ life[running.proc[i[c]]] = "freed"
    /\ sys[c] = "op" =>
          /\ caller[c] \in Procs
          /\ caller[c] = pid[c] \/ life[caller[c]] = "freed"
          /\ \E j \in Slots : j < running.size /\ running.proc[j] = caller[c]
    /\ P!ListIsLargeEnough /\ walk[c] = "second" =>
          sys[c] # "missed" /\ (sys[c] \in {"test", "read"} => Ahead(c))

WalkInv == \A c \in CPUs : overlap \/ purged[c] \/ WalkAt(c)

SysInv == TypeOK /\ SchedInv /\ CallInv /\ WalkInv /\ WalkSeesProcesses

-----------------------------------------------------------------------------
(* The scheduler under the system calls is the scheduler of MlqProofs.     *)

\* What MlqProofs assumes is assumed here.
LEMMA SchedFacts == P!SchedAssumption /\ P!QueueAssumption
  BY SyscallAssumption, QueueAssumption
  DEF P!SchedAssumption, P!QueueAssumption

\* The two have the same initial states, steps and clashes.
LEMMA SameSched ==
    /\ S!Init => P!Init
    /\ S!Clash <=> P!Clash
    /\ \A t : S!Call(t) \/ S!Client(t) => P!Call(t) \/ P!Client(t)
  <1>1. S!Init => P!Init
    BY Zenon DEF S!Init, P!Init, S!Levels, P!Levels, S!Threads, P!Threads,
                 S!NewQueue, P!NewQueue, S!Slots, P!Slots
  <1>2. S!Clash <=> P!Clash
    BY Zenon DEF S!Clash, P!Clash
  <1>3. ASSUME NEW t, S!Call(t) \/ S!Client(t)
        PROVE  P!Call(t) \/ P!Client(t)
    BY <1>3, Zenon
    DEF S!Client, P!Client, S!CallGet, P!CallGet, S!CallPut, P!CallPut,
        S!Free, P!Free, S!CallAdd, P!CallAdd, S!Call, P!Call,
        S!get_mlq_proc, P!get_mlq_proc, S!put_mlq_proc, P!put_mlq_proc,
        S!GetLock, P!GetLock, S!ScanNext, P!ScanNext, S!ScanNone, P!ScanNone,
        S!ScanTake, P!ScanTake, S!DequeueLoad, P!DequeueLoad,
        S!DequeueSize, P!DequeueSize, S!RunningStore, P!RunningStore,
        S!RunningLoad, P!RunningLoad, S!RunningSize, P!RunningSize,
        S!PutLock, P!PutLock, S!Purge, P!Purge, S!PurgeLoad, P!PurgeLoad,
        S!PurgeSize, P!PurgeSize, S!PurgeClear, P!PurgeClear,
        S!EnqueueStore, P!EnqueueStore, S!EnqueueLoad, P!EnqueueLoad,
        S!EnqueueSize, P!EnqueueSize, S!Goto, P!Goto, S!Held, P!Held,
        S!GetSection, P!GetSection, S!PutSection, P!PutSection,
        S!Threads, P!Threads, S!empty, P!empty, S!full, P!full,
        S!store, P!store, S!shift, P!shift, S!front, P!front,
        S!holding, P!holding, S!first, P!first, S!Slots, P!Slots
  <1> QED BY <1>1, <1>2, <1>3

\* A step in the scheduler keeps what is known of it.
LEMMA SchedStep ==
    ASSUME SchedInv, NEW t \in Threads, P!Call(t) \/ P!Client(t), ~P!Clash
    PROVE  SchedInv'
  <1>1. P!Next
    BY DEF P!Next, P!Threads, Threads
  <1> QED BY <1>1, SchedFacts, P!RaceNext, P!FreshNext, P!SerialNext,
             P!RunNext DEF SchedInv

\* So does a step that leaves the scheduler's variables alone or only frees
\* a process.
LEMMA SchedFrees ==
    ASSUME SchedInv, UNCHANGED <<ready, running, at, proc, lvl, tmp, overlap>>,
           life' \in [Procs -> {"new", "live", "freed", "dropped"}],
           \A p \in Procs : life'[p] = life[p] \/ life'[p] = "freed"
    PROVE  SchedInv'
  <1>1. P!RaceInv'
    BY DEF SchedInv, P!RaceInv, P!TypeOK, P!Exclusive, P!PlaceInv,
           P!LoaderInv, P!SizeInv, P!SizeAt, P!FilledInv, P!FilledAt, P!Filled
  <1>2. P!FreshInv'
    <2>1. proc[Loader] # NULL => proc[Loader] \in Procs
      BY QueueAssumption
      DEF SchedInv, P!RaceInv, P!TypeOK, P!Threads, P!Ptr
    <2> QED BY <2>1 DEF SchedInv, P!FreshInv, P!Fresh, P!Nowhere
  <1>3. overlap' \/ P!SerialInv'
    BY DEF SchedInv, P!SerialInv, P!Alone, P!ScanInv, P!CopyInv, P!CopyAt
  <1>4. overlap' \/ P!RunInv'
    <2>1. P!Listing' = P!Listing
      BY DEF P!Listing
    <2>2. \A p \in Procs :
             /\ P!Listed(p)' <=> P!Listed(p)
             /\ \A c \in CPUs : P!Runs(c, p)' <=> P!Runs(c, p)
      BY <2>1 DEF P!Listed, P!Runs
    <2> QED BY <2>1, <2>2 DEF SchedInv, P!RunInv
  <1> QED BY <1>1, <1>2, <1>3, <1>4 DEF SchedInv

-----------------------------------------------------------------------------
(* The steps.                                                              *)

\* Nothing has happened before the threads start.
LEMMA SysInit == Init => SysInv
  <1> SUFFICES ASSUME Init PROVE SysInv
    OBVIOUS
  <1>1. TypeOK
    <2>1. 0 \in 0 .. MAX_QUEUE_SIZE /\ 0 \in 0 .. MaxCalls /\ NULL \in Ptr
      BY SyscallAssumption, QueueAssumption DEF Ptr
    <2> QED BY <2>1, Zenon DEF Init, TypeOK
  <1>2. SchedInv
    BY SameSched, SchedFacts, P!RaceInit, P!FreshInit, P!SerialInit, P!RunInit
    DEF Init, SchedInv
  <1>3. CallInv
    BY DEF Init, CallInv, CallAt
  <1>4. WalkInv
    BY DEF Init, WalkInv, WalkAt
  <1>5. WalkSeesProcesses
    BY DEF Init, WalkSeesProcesses
  <1> QED BY <1>1, <1>2, <1>3, <1>4, <1>5 DEF SysInv

\* Without an overlap and while nobody removes an entry, every counted slot
\* of the list has a process, and the process of a CPU that is outside the
\* scheduler is in one of them if the list is large enough.
LEMMA QuietList ==
    ASSUME SchedInv, ~overlap, ~Purging
    PROVE  /\ \A j \in Slots : j < running.size => running.proc[j] \in Procs
           /\ P!ListIsLargeEnough =>
                 \A c \in CPUs : proc[c] \in Procs /\ at[c] = "none" =>
                    \E j \in Slots : j < running.size /\ running.proc[j] = proc[c]
  <1>1. P!Listing = running.size
    BY DEF SchedInv, P!RaceInv, P!LoaderInv, P!Listing, P!Threads, Purging
  <1> QED BY <1>1
          DEF SchedInv, P!RunInv, P!Listed, P!Runs, P!Slots, Slots

\* The list's size and the places of the threads.
LEMMA SchedTypes ==
    ASSUME SchedInv
    PROVE  /\ running.size \in 0 .. MAX_QUEUE_SIZE
           /\ MAX_QUEUE_SIZE \in Nat
           /\ \A j \in Slots : running.proc[j] \in Ptr
           /\ at \in [Threads -> P!Places] /\ proc \in [Threads -> Ptr]
           /\ life \in [Procs -> {"new", "live", "freed", "dropped"}]
           /\ NULL \notin Procs
  <1>1. P!TypeOK /\ P!QueueAssumption
    BY SchedFacts DEF SchedInv, P!RaceInv
  <1> QED BY <1>1
          DEF P!TypeOK, P!QueueAssumption, P!queue_t, P!Slots, Slots, P!Ptr,
              Ptr, P!Threads, Threads

\* A step in the scheduler keeps the invariant: the list a loop has seen only
\* grows under it unless an entry is being removed.
LEMMA SchedulingKeeps ==
    ASSUME SysInv, ~Dead, NEW t \in Threads, Scheduling(t), Remember
    PROVE  SysInv'
  <1>1. /\ P!Call(t) \/ P!Client(t)
        /\ ~P!Clash /\ ~crashed
        /\ t \in CPUs => sys[t] = "none"
        /\ UNCHANGED <<sys, walk, pid, i, caller, calls, crashed>>
    BY SameSched DEF Scheduling, Dead, callVars
  <1>2. SchedInv'
    BY <1>1, SchedStep DEF SysInv
  <1>3. TypeOK'
    BY <1>1 DEF SysInv, TypeOK, Remember
  <1>4. \A u \in Threads \ {t} : at'[u] = at[u] /\ proc'[u] = proc[u]
    BY <1>1, SchedFacts, P!OwnPlace DEF SysInv, SchedInv, P!Threads, Threads
  <1>5. CallInv'
    BY <1>1, <1>4 DEF SysInv, CallInv, CallAt, Threads
  <1>6. WalkInv'
    <2> SUFFICES ASSUME NEW c \in CPUs, ~overlap', ~purged'[c]
                 PROVE  WalkAt(c)'
      BY DEF WalkInv
    <2>1. CASE sys[c] = "none"
      BY <1>1, <2>1 DEF SysInv, CallInv, CallAt, WalkAt
    <2>2. CASE sys[c] # "none"
      <3>1. ~purged[c] /\ ~Purging /\ ~Purging'
        BY <1>1, <2>2 DEF Remember
      <3>2. ~overlap
        BY <1>1, SchedFacts, P!OverlapStays DEF P!Threads, Threads
      <3>3. /\ running.size <= running'.size
            /\ \A j \in Slots : j < running.size =>
                  /\ running'.proc[j] = running.proc[j]
                  /\ life[running.proc[j]] = "freed" =>
                        life'[running.proc[j]] = "freed"
        BY <1>1, <3>1, <3>2, SchedFacts, P!ListGrows
        DEF SysInv, SchedInv, Purging, P!Purges, P!Threads, Threads, P!Slots,
            Slots
      <3>4. WalkAt(c) /\ CallAt(c) /\ i[c] \in Nat
        BY <3>1, <3>2 DEF SysInv, WalkInv, CallInv, TypeOK
      <3>5. /\ running.size \in Nat /\ running'.size \in Nat
            /\ \A j \in Slots : j \in Nat
        <4>1. P!TypeOK'
          BY <1>2 DEF SchedInv, P!RaceInv
        <4> QED BY <4>1, SchedTypes DEF SysInv, Slots, P!TypeOK, P!queue_t
      <3>6. sys[c] \in {"look", "read", "take"} => i[c] \in Slots
        BY <3>4, SchedTypes DEF SysInv, CallAt, Slots
      <3>7. Ahead(c) => Ahead(c)'
        BY <1>1, <3>3, <3>5 DEF Ahead
      <3> QED BY <1>1, <3>3, <3>4, <3>5, <3>6, <3>7 DEF WalkAt
    <2> QED BY <2>1, <2>2
  <1>7. WalkSeesProcesses'
    BY <1>1 DEF WalkSeesProcesses
  <1> QED BY <1>2, <1>3, <1>5, <1>6, <1>7 DEF SysInv

\* A step of CPU c in its system call: the scheduler's variables stay as they
\* are but for a process that may be freed, and so do the other CPUs' calls.
Local(c) ==
    /\ UNCHANGED <<ready, running, at, proc, lvl, tmp, overlap>>
    /\ life' \in [Procs -> {"new", "live", "freed", "dropped"}]
    /\ \A p \in Procs : life'[p] = life[p] \/ life'[p] = "freed"
    /\ \A d \in CPUs \ {c} :
          /\ sys'[d] = sys[d] /\ walk'[d] = walk[d] /\ pid'[d] = pid[d]
          /\ i'[d] = i[d] /\ caller'[d] = caller[d]

\* Such a step keeps the invariant if it keeps it for c.
LEMMA LocalKeeps ==
    ASSUME SysInv, NEW c \in CPUs, Local(c), Remember, TypeOK', CallAt(c)',
           ~overlap /\ ~purged[c] /\ ~Purging => WalkAt(c)',
           crashed' => overlap \/ purged'[c]
    PROVE  SysInv'
  <1>1. SchedInv'
    BY SchedFrees DEF Local, SysInv
  <1>2. CallInv'
    BY DEF SysInv, CallInv, CallAt, Local
  <1>3. WalkInv'
    <2> SUFFICES ASSUME NEW d \in CPUs, ~overlap', ~purged'[d]
                 PROVE  WalkAt(d)'
      BY DEF WalkInv
    <2>1. CASE sys'[d] = "none"
      BY <1>2, <2>1 DEF CallInv, CallAt, WalkAt
    <2>2. CASE sys'[d] # "none"
      <3>1. ~purged[d] /\ ~Purging /\ ~overlap
        BY <2>2 DEF Remember, Local
      <3>2. CASE d = c
        BY <3>1, <3>2
      <3>3. CASE d # c
        <4>1. /\ sys'[d] = sys[d] /\ walk'[d] = walk[d] /\ pid'[d] = pid[d]
              /\ i'[d] = i[d] /\ caller'[d] = caller[d]
              /\ running' = running
          BY <3>3 DEF Local
        <4>2. WalkAt(d) /\ CallAt(d) /\ i[d] \in 0 .. MAX_QUEUE_SIZE
          BY <3>1 DEF SysInv, WalkInv, CallInv, TypeOK
        <4>3. sys[d] = "take" => i[d] \in Slots
          BY <4>2, SchedTypes DEF SysInv, CallAt, Slots
        <4>4. \A j \in Slots : j < running.size =>
                 (life[running.proc[j]] = "freed" =>
                     life'[running.proc[j]] = "freed")
          BY <3>1, QuietList DEF SysInv, Local
        <4> QED BY <4>1, <4>2, <4>3, <4>4 DEF WalkAt, Ahead
      <3> QED BY <3>2, <3>3
    <2> QED BY <2>1, <2>2
  <1>4. WalkSeesProcesses'
    BY DEF WalkSeesProcesses, Remember, Local
  <1> QED BY <1>1, <1>2, <1>3, <1>4 DEF SysInv

\* A step that changes none of the scheduler's variables and only its own
\* CPU's call is a local one.
LEMMA LocalStep ==
    ASSUME SysInv, NEW c \in CPUs, UNCHANGED schedVars,
           \A d \in CPUs \ {c} :
              /\ sys'[d] = sys[d] /\ walk'[d] = walk[d] /\ pid'[d] = pid[d]
              /\ i'[d] = i[d] /\ caller'[d] = caller[d]
    PROVE  Local(c)
  BY SchedTypes DEF SysInv, Local, schedVars

\* The history variable keeps its type.
LEMMA RememberTyped == Remember => purged' \in [CPUs -> BOOLEAN]
  BY DEF Remember

\* libsyscall: the loop starts, of memmap for the CPU's own process.
LEMMA EnterKeeps ==
    ASSUME SysInv, ~Dead, NEW c \in CPUs, libsyscall(c), Remember
    PROVE  SysInv'
  <1>1. PICK w \in {"first", "stats"}, p \in Procs :
           Enter(c, w, p) /\ (w = "first" => p = proc[c])
    <2>1. proc[c] # NULL => proc[c] \in Procs
      BY SchedTypes DEF SysInv, Threads, Ptr
    <2> QED BY <2>1 DEF libsyscall, Enter
  <1>2. /\ sys' = [sys EXCEPT ![c] = "test"] /\ walk' = [walk EXCEPT ![c] = w]
        /\ pid' = [pid EXCEPT ![c] = p] /\ calls' = calls + 1
        /\ at[c] = "none" /\ proc[c] # NULL /\ calls < MaxCalls
        /\ UNCHANGED schedVars /\ UNCHANGED <<i, caller, crashed>>
    BY <1>1 DEF Enter
  <1>3. TypeOK'
    <2>1. calls + 1 \in 0 .. MaxCalls
      BY <1>2, SyscallAssumption DEF SysInv, TypeOK
    <2>2. p \in Ptr
      BY DEF Ptr
    <2> QED BY <1>2, <2>1, <2>2, RememberTyped DEF SysInv, TypeOK
  <1>4. Local(c)
    BY <1>2, LocalStep DEF SysInv, TypeOK
  <1>5. CallAt(c)'
    <2>1. proc[c] \in Procs
      BY <1>2, SchedTypes DEF SysInv, Threads, Ptr
    <2> QED BY <1>1, <1>2, <2>1 DEF CallAt, SysInv, TypeOK, schedVars
  <1>6. WalkAt(c)'
    BY <1>2 DEF WalkAt, SysInv, TypeOK
  <1>7. ~crashed'
    BY <1>2 DEF Dead
  <1> QED BY <1>3, <1>4, <1>5, <1>6, <1>7, LocalKeeps

\* What is known of a CPU in its call.
LEMMA InCall ==
    ASSUME SysInv, NEW c \in CPUs, sys[c] # "none"
    PROVE  /\ at[c] = "none" /\ proc[c] \in Procs /\ pid[c] \in Procs
           /\ i[c] \in 0 .. MAX_QUEUE_SIZE /\ i[c] \in Nat
           /\ sys[c] \in {"look", "read", "take"} =>
                 i[c] < MAX_QUEUE_SIZE /\ i[c] \in Slots
                 /\ i[c] + 1 \in 0 .. MAX_QUEUE_SIZE
                 /\ running.proc[i[c]] \in Ptr
           /\ walk[c] \in {"first", "second"} => pid[c] = proc[c]
           /\ caller[c] \in Ptr
  <1>1. i[c] \in 0 .. MAX_QUEUE_SIZE /\ caller[c] \in Ptr /\ CallAt(c)
    BY DEF SysInv, TypeOK, CallInv
  <1>2. /\ MAX_QUEUE_SIZE \in Nat
        /\ \A j \in Slots : running.proc[j] \in Ptr
    BY SchedTypes DEF SysInv
  <1>3. sys[c] \in {"look", "read", "take"} =>
           i[c] \in Slots /\ i[c] + 1 \in 0 .. MAX_QUEUE_SIZE
    BY <1>1, <1>2 DEF CallAt, Slots
  <1> QED BY <1>1, <1>2, <1>3 DEF CallAt

\* The first loop of memmap ends: the second one has its process before it.
LEMMA SecondStarts ==
    ASSUME SysInv, NEW c \in CPUs, sys[c] # "none", walk[c] = "first",
           EndWalk(c, "op") \/ EndWalk(c, "missed"),
           UNCHANGED schedVars, UNCHANGED pid
    PROVE  ~overlap /\ ~Purging => WalkAt(c)'
  <1> SUFFICES ASSUME ~overlap, ~Purging PROVE WalkAt(c)'
    OBVIOUS
  <1>1. sys'[c] = "test" /\ walk'[c] = "second" /\ i'[c] = 0
    BY DEF EndWalk, SysInv, TypeOK
  <1>2. P!ListIsLargeEnough => Ahead(c)'
    <2>1. P!ListIsLargeEnough =>
             \E j \in Slots : j < running.size /\ running.proc[j] = pid[c]
      BY InCall, QuietList DEF SysInv
    <2>2. \A j \in Slots : 0 <= j
      BY DEF Slots
    <2> QED BY <1>1, <2>1, <2>2 DEF Ahead, schedVars
  <1> QED BY <1>1, <1>2 DEF WalkAt

\* The loop's condition (sys_mem.c:34, sys_mem.c:55, sys_mmstats.c:34).
LEMMA TestKeeps ==
    ASSUME SysInv, ~Dead, NEW c \in CPUs, Test(c), Remember
    PROVE  SysInv'
  <1>1. /\ sys[c] = "test" /\ UNCHANGED schedVars
        /\ UNCHANGED <<pid, caller, calls, crashed>> /\ ~crashed
    BY DEF Test, Dead
  <1>2. /\ at[c] = "none" /\ proc[c] \in Procs /\ pid[c] \in Procs
        /\ i[c] \in 0 .. MAX_QUEUE_SIZE /\ i[c] \in Nat
        /\ walk[c] \in {"first", "second"} => pid[c] = proc[c]
    BY <1>1, InCall
  <1>3. MAX_QUEUE_SIZE \in Nat /\ running.size \in 0 .. MAX_QUEUE_SIZE
    BY SchedTypes DEF SysInv
  <1>4. ~overlap /\ ~purged[c] => WalkAt(c)
    BY DEF SysInv, WalkInv
  <1>5. CASE InList(c) /\ UNCHANGED <<walk, i>>
             /\ sys' = [sys EXCEPT ![c] = IF walk[c] = "stats" THEN "look"
                                                             ELSE "read"]
    <2>1. i[c] < running.size /\ i[c] < MAX_QUEUE_SIZE
      BY <1>2, <1>3, <1>5 DEF InList
    <2>2. TypeOK'
      BY <1>1, <1>5, RememberTyped DEF SysInv, TypeOK
    <2>3. Local(c)
      BY <1>1, <1>5, LocalStep DEF SysInv, TypeOK
    <2>4. sys'[c] \in {"look", "read"}
      BY <1>5 DEF SysInv, TypeOK
    <2>5. CallAt(c)'
      BY <1>1, <1>2, <1>5, <2>1, <2>4 DEF CallAt, schedVars
    <2>6. ~overlap /\ ~purged[c] /\ ~Purging => WalkAt(c)'
      BY <1>1, <1>4, <1>5, <2>1, <2>4 DEF WalkAt, Ahead, schedVars
    <2> QED BY <1>1, <2>2, <2>3, <2>5, <2>6, LocalKeeps
  <1>6. CASE ~InList(c) /\ EndWalk(c, "missed")
    <2>1. TypeOK'
      <3>1. 0 \in 0 .. MAX_QUEUE_SIZE
        BY <1>3
      <3> QED BY <1>1, <1>6, <3>1, RememberTyped DEF SysInv, TypeOK, EndWalk
    <2>2. Local(c)
      BY <1>1, <1>6, LocalStep DEF SysInv, TypeOK, EndWalk
    <2>3. sys'[c] \in {"test", "missed"} /\ (walk'[c] = "second" =>
              walk[c] \in {"first", "second"}) /\ walk'[c] # "first"
      BY <1>6 DEF SysInv, TypeOK, EndWalk
    <2>4. CallAt(c)'
      BY <1>1, <1>2, <2>3 DEF CallAt, schedVars
    <2>5. ~overlap /\ ~purged[c] /\ ~Purging => WalkAt(c)'
      <3>1. CASE walk[c] = "first"
        BY <1>1, <1>6, <3>1, SecondStarts
      <3>2. CASE walk[c] # "first"
        <4>1. sys'[c] = "missed" /\ walk'[c] = walk[c] /\ ~(i[c] < running.size)
          BY <1>6, <3>2 DEF SysInv, TypeOK, EndWalk, InList
        <4>2. ~Ahead(c)
          BY <1>2, <1>3, <4>1 DEF Ahead, Slots
        <4> QED BY <1>1, <1>4, <4>1, <4>2 DEF WalkAt
      <3> QED BY <3>1, <3>2
    <2> QED BY <1>1, <2>1, <2>2, <2>4, <2>5, LocalKeeps
  <1> QED BY <1>5, <1>6 DEF Test

\* mmstats passes over an empty slot (sys_mmstats.c:35).
LEMMA LookKeeps ==
    ASSUME SysInv, ~Dead, NEW c \in CPUs, walk[c] = "stats", Look(c), Remember
    PROVE  SysInv'
  <1>1. /\ sys[c] = "look" /\ UNCHANGED schedVars
        /\ UNCHANGED <<walk, pid, caller, calls, crashed>> /\ ~crashed
    BY DEF Look, Dead
  <1>2. /\ at[c] = "none" /\ proc[c] \in Procs /\ pid[c] \in Procs
        /\ i[c] < MAX_QUEUE_SIZE /\ i[c] + 1 \in 0 .. MAX_QUEUE_SIZE
    BY <1>1, InCall
  <1>3. \/ /\ i' = [i EXCEPT ![c] = i[c] + 1]
           /\ sys' = [sys EXCEPT ![c] = "test"]
        \/ i' = i /\ sys' = [sys EXCEPT ![c] = "read"]
    BY DEF Look, Skip
  <1>4. TypeOK'
    BY <1>1, <1>2, <1>3, RememberTyped DEF SysInv, TypeOK
  <1>5. Local(c)
    BY <1>1, <1>3, LocalStep DEF SysInv, TypeOK
  <1>6. sys'[c] = "test" \/ (sys'[c] = "read" /\ i' = i)
    BY <1>3 DEF SysInv, TypeOK
  <1>7. CallAt(c)'
    BY <1>1, <1>2, <1>6 DEF CallAt, schedVars
  <1>8. ~overlap /\ ~purged[c] => WalkAt(c)'
    BY <1>1, <1>6 DEF SysInv, WalkInv, WalkAt, schedVars
  <1> QED BY <1>1, <1>4, <1>5, <1>7, <1>8, LocalKeeps

\* The comparison of the pid (sys_mem.c:35, sys_mem.c:56, sys_mmstats.c:36):
\* a null pointer is met only where an entry is being removed, and memmap does
\* not pass over its own process.
LEMMA ReadKeeps ==
    ASSUME SysInv, ~Dead, NEW c \in CPUs, Read(c), Remember
    PROVE  SysInv'
  <1> DEFINE q == running.proc[i[c]]
  <1>1. /\ sys[c] = "read" /\ UNCHANGED schedVars
        /\ UNCHANGED <<walk, pid, caller, calls>> /\ ~crashed
    BY DEF Read, Crash, Dead
  <1>2. /\ at[c] = "none" /\ proc[c] \in Procs /\ pid[c] \in Procs
        /\ i[c] < MAX_QUEUE_SIZE /\ i[c] + 1 \in 0 .. MAX_QUEUE_SIZE
        /\ i[c] \in Nat /\ i[c] \in Slots
        /\ walk[c] \in {"first", "second"} => pid[c] = proc[c]
    BY <1>1, InCall
  <1>3. ~overlap /\ ~purged[c] => WalkAt(c)
    BY DEF SysInv, WalkInv
  <1>4. NULL \notin Procs /\ \A j \in Slots : j \in Nat
    BY SchedTypes DEF SysInv, Slots
  <1>5. CASE q = NULL /\ Crash
    <2>1. crashed' = TRUE /\ UNCHANGED <<sys, i>>
      BY <1>5 DEF Crash
    <2>2. overlap \/ purged[c] \/ Purging
      <3> SUFFICES ASSUME ~overlap, ~purged[c], ~Purging PROVE FALSE
        OBVIOUS
      <3>1. i[c] < running.size
        BY <1>1, <1>3 DEF WalkAt
      <3>2. q \in Procs
        BY <1>2, <3>1, QuietList DEF SysInv
      <3> QED BY <1>4, <1>5, <3>2
    <2>3. overlap \/ purged'[c]
      BY <1>1, <2>1, <2>2 DEF Remember
    <2>4. TypeOK'
      BY <1>1, <2>1, RememberTyped DEF SysInv, TypeOK
    <2>5. Local(c)
      BY <1>1, <2>1, LocalStep
    <2>6. CallAt(c)'
      BY <1>1, <1>2, <2>1 DEF CallAt, schedVars
    <2>7. ~overlap /\ ~purged[c] => WalkAt(c)'
      BY <1>1, <1>3, <2>1 DEF WalkAt, Ahead, schedVars
    <2> QED BY <2>3, <2>4, <2>5, <2>6, <2>7, LocalKeeps
  <1>6. CASE /\ q # NULL /\ (q = pid[c] \/ life[q] = "freed")
             /\ sys' = [sys EXCEPT ![c] = "take"] /\ UNCHANGED <<i, crashed>>
    <2>1. sys'[c] = "take"
      BY <1>6 DEF SysInv, TypeOK
    <2>2. TypeOK'
      BY <1>1, <1>6, RememberTyped DEF SysInv, TypeOK
    <2>3. Local(c)
      BY <1>1, <1>6, LocalStep DEF SysInv, TypeOK
    <2>4. CallAt(c)'
      BY <1>1, <1>2, <1>6, <2>1 DEF CallAt, schedVars
    <2>5. ~overlap /\ ~purged[c] => WalkAt(c)'
      BY <1>1, <1>3, <1>6, <2>1 DEF WalkAt, schedVars
    <2> QED BY <1>1, <1>6, <2>2, <2>3, <2>4, <2>5, LocalKeeps
  <1>7. CASE /\ q # NULL /\ (q # pid[c] \/ life[q] = "freed")
             /\ Skip(c) /\ UNCHANGED crashed
    <2>1. /\ i' = [i EXCEPT ![c] = i[c] + 1]
          /\ sys' = [sys EXCEPT ![c] = "test"]
      BY <1>7 DEF Skip
    <2>2. TypeOK'
      BY <1>1, <1>2, <1>7, <2>1, RememberTyped DEF SysInv, TypeOK
    <2>3. Local(c)
      BY <1>1, <2>1, LocalStep DEF SysInv, TypeOK
    <2>4. sys'[c] = "test" /\ i'[c] = i[c] + 1
      BY <2>1 DEF SysInv, TypeOK
    <2>5. CallAt(c)'
      BY <1>1, <1>2, <2>4 DEF CallAt, schedVars
    <2>6. walk[c] = "second" /\ Ahead(c) => Ahead(c)'
      <3> SUFFICES ASSUME walk[c] = "second", Ahead(c) PROVE Ahead(c)'
        OBVIOUS
      <3>1. q # pid[c]
        <4>1. life[proc[c]] # "freed"
          BY <1>2, <1>4, SameSched DEF Dead, P!Clash
        <4> QED BY <1>2, <1>7, <4>1
      <3>2. PICK j \in Slots :
               i[c] <= j /\ j < running.size /\ running.proc[j] = pid[c]
        BY DEF Ahead
      <3>3. i[c] + 1 <= j
        BY <1>2, <1>4, <3>1, <3>2
      <3> QED BY <1>1, <2>4, <3>2, <3>3 DEF Ahead, schedVars
    <2>7. ~overlap /\ ~purged[c] => WalkAt(c)'
      BY <1>1, <1>3, <2>4, <2>6 DEF WalkAt
    <2> QED BY <1>1, <1>7, <2>2, <2>3, <2>5, <2>7, LocalKeeps
  <1> QED BY <1>5, <1>6, <1>7 DEF Read

\* The slot is read again (sys_mem.c:36, sys_mem.c:58, sys_mmstats.c:37): it
\* still has what was compared unless an entry is being removed.
LEMMA TakeKeeps ==
    ASSUME SysInv, ~Dead, NEW c \in CPUs, Take(c), Remember
    PROVE  SysInv'
  <1>1. /\ sys[c] = "take" /\ UNCHANGED schedVars
        /\ UNCHANGED <<pid, calls, crashed>> /\ ~crashed
        /\ caller' = [caller EXCEPT ![c] = running.proc[i[c]]]
        /\ EndWalk(c, "op")
    BY DEF Take, Dead
  <1>2. /\ at[c] = "none" /\ proc[c] \in Procs /\ pid[c] \in Procs
        /\ running.proc[i[c]] \in Ptr /\ i[c] \in Slots
        /\ walk[c] \in {"first", "second"} => pid[c] = proc[c]
        /\ 0 \in 0 .. MAX_QUEUE_SIZE
    BY <1>1, InCall, SchedTypes DEF SysInv
  <1>3. TypeOK'
    BY <1>1, <1>2, RememberTyped DEF SysInv, TypeOK, EndWalk
  <1>4. Local(c)
    BY <1>1, LocalStep DEF SysInv, TypeOK, EndWalk
  <1>5. sys'[c] \in {"test", "op"} /\ (walk'[c] = "second" =>
            walk[c] \in {"first", "second"}) /\ walk'[c] # "first"
    BY <1>1 DEF SysInv, TypeOK, EndWalk
  <1>6. CallAt(c)'
    BY <1>1, <1>2, <1>5 DEF CallAt, schedVars
  <1>7. ~overlap /\ ~purged[c] /\ ~Purging => WalkAt(c)'
    <2>1. CASE walk[c] = "first"
      BY <1>1, <2>1, SecondStarts
    <2>2. CASE walk[c] # "first"
      <3>1. sys'[c] = "op" /\ caller'[c] = running.proc[i[c]]
        BY <1>1, <2>2 DEF SysInv, TypeOK, EndWalk
      <3>2. ~overlap /\ ~purged[c] =>
               /\ i[c] < running.size
               /\ running.proc[i[c]] = pid[c]
                     \/ life[running.proc[i[c]]] = "freed"
        BY <1>1 DEF SysInv, WalkInv, WalkAt
      <3>3. ~overlap /\ ~purged[c] /\ ~Purging => running.proc[i[c]] \in Procs
        BY <1>2, <3>2, QuietList DEF SysInv
      <3> QED BY <1>1, <1>2, <3>1, <3>2, <3>3 DEF WalkAt, schedVars
    <2> QED BY <2>1, <2>2
  <1> QED BY <1>1, <1>3, <1>4, <1>6, <1>7, LocalKeeps

\* A call that returns leaves nothing behind.
LEMMA ReturnKeeps ==
    ASSUME SysInv, ~Dead, NEW c \in CPUs, Return(c), Remember,
           UNCHANGED <<ready, running, at, proc, lvl, tmp, overlap, calls,
                       crashed>>,
           life' \in [Procs -> {"new", "live", "freed", "dropped"}],
           \A p \in Procs : life'[p] = life[p] \/ life'[p] = "freed"
    PROVE  SysInv'
  <1>1. 0 \in 0 .. MAX_QUEUE_SIZE /\ NULL \in Ptr /\ ~crashed'
    BY SchedTypes DEF SysInv, Ptr, Dead
  <1>2. TypeOK'
    BY <1>1, RememberTyped DEF SysInv, TypeOK, Return
  <1>3. Local(c)
    BY DEF SysInv, TypeOK, Return, Local
  <1>4. sys'[c] = "none" /\ walk'[c] = "none"
    BY DEF SysInv, TypeOK, Return
  <1> QED BY <1>1, <1>2, <1>3, <1>4, LocalKeeps DEF CallAt, WalkAt

\* The handler works on what it has found (sys_mem.c:69-92,
\* sys_mmstats.c:43-50).
LEMMA OperateKeeps ==
    ASSUME SysInv, ~Dead, NEW c \in CPUs, Operate(c), Remember
    PROVE  SysInv'
  <1>1. sys[c] = "op" /\ UNCHANGED schedVars /\ UNCHANGED calls
    BY DEF Operate, Crash
  <1>2. /\ life \in [Procs -> {"new", "live", "freed", "dropped"}]
        /\ NULL \notin Procs
    BY SchedTypes DEF SysInv
  <1>3. CASE Return(c) /\ UNCHANGED crashed
    BY <1>1, <1>2, <1>3, ReturnKeeps DEF schedVars
  <1>4. CASE caller[c] = NULL /\ Crash
    <2>1. crashed' = TRUE /\ UNCHANGED <<sys, walk, pid, i, caller>>
      BY <1>4 DEF Crash
    <2>2. ~overlap /\ ~purged[c] => WalkAt(c)
      BY DEF SysInv, WalkInv
    <2>3. overlap \/ purged[c]
      BY <1>1, <1>2, <1>4, <2>2 DEF WalkAt
    <2>4. overlap \/ purged'[c]
      BY <1>1, <2>1, <2>3 DEF Remember
    <2>5. TypeOK'
      BY <1>1, <2>1, RememberTyped DEF SysInv, TypeOK
    <2>6. Local(c)
      BY <1>1, <2>1, LocalStep
    <2>7. CallAt(c)'
      BY <1>1, <2>1 DEF SysInv, CallInv, CallAt, schedVars
    <2>8. ~overlap /\ ~purged[c] => WalkAt(c)'
      BY <1>1, <2>1, <2>2 DEF WalkAt, Ahead, schedVars
    <2> QED BY <2>4, <2>5, <2>6, <2>7, <2>8, LocalKeeps
  <1> QED BY <1>3, <1>4 DEF Operate

\* The handler has not found its process (sys_mem.c:64-68,
\* sys_mmstats.c:43-46).
LEMMA NotFoundKeeps ==
    ASSUME SysInv, ~Dead, NEW c \in CPUs, NotFound(c), Remember
    PROVE  SysInv'
  <1>1. /\ life \in [Procs -> {"new", "live", "freed", "dropped"}]
        /\ caller[c] # NULL => caller[c] \in Procs
    BY SchedTypes DEF SysInv, TypeOK, Ptr
  <1>2. /\ life' \in [Procs -> {"new", "live", "freed", "dropped"}]
        /\ \A p \in Procs : life'[p] = life[p] \/ life'[p] = "freed"
    BY <1>1 DEF NotFound
  <1> QED BY <1>2, ReturnKeeps DEF NotFound

\* Every step keeps the invariant.
LEMMA SysNext == SysInv /\ [Next]_vars => SysInv'
  <1> SUFFICES ASSUME SysInv, [Next]_vars PROVE SysInv'
    OBVIOUS
  <1>1. CASE UNCHANGED vars
    <2>1. UNCHANGED schedVars /\ UNCHANGED callVars /\ UNCHANGED purged
      BY <1>1 DEF vars
    <2>2. SchedInv'
      BY <2>1, SchedTypes, SchedFrees DEF SysInv, schedVars
    <2> QED BY <2>1, <2>2
            DEF SysInv, TypeOK, CallInv, CallAt, WalkInv, WalkAt, Ahead,
                WalkSeesProcesses, schedVars, callVars
  <1>2. ASSUME ~Dead, Remember, NEW t \in Threads, Scheduling(t)
        PROVE  SysInv'
    BY <1>2, SchedulingKeeps
  <1>3. ASSUME ~Dead, Remember, NEW c \in CPUs, libsyscall(c)
        PROVE  SysInv'
    BY <1>3, EnterKeeps
  <1>4. ASSUME ~Dead, Remember, NEW c \in CPUs,
               __sys_memmap(c) \/ __sys_mmstats(c)
        PROVE  SysInv'
    BY <1>4, TestKeeps, LookKeeps, ReadKeeps, TakeKeeps, OperateKeeps,
       NotFoundKeeps DEF __sys_memmap, __sys_mmstats
  <1> QED BY <1>1, <1>2, <1>3, <1>4 DEF Next, Stop

\* The invariant holds in every reachable state.
LEMMA SysAlways == Spec => []SysInv
  BY SysInit, SysNext, PTL DEF Spec

-----------------------------------------------------------------------------
\* The index of an unlocked walk never leaves the list, whatever the other
\* threads do to it (sys_mem.c:34, sys_mem.c:55, sys_mmstats.c:34).
THEOREM IndexStaysInList == Spec => []TypeOK
  <1>1. SysInv => TypeOK
    BY DEF SysInv
  <1> QED BY <1>1, SysAlways, PTL

\* A walk meets a null pointer only when sections of the scheduler have
\* overlapped or an entry was being removed during the call (sys_mem.c:35,
\* sys_mem.c:56, sys_mmstats.c:35-36).
THEOREM WalksMeetProcesses == Spec => []WalkSeesProcesses
  <1>1. SysInv => WalkSeesProcesses
    BY DEF SysInv
  <1> QED BY <1>1, SysAlways, PTL

\* Under the same provisos, and with a slot for every process, a handler
\* works on the process it was asked for or on a pcb that was freed and is
\* still listed, and memmap never refuses the process that runs
\* (sys_mem.c:54-68, sys_mmstats.c:34-46).
THEOREM CallersAreServed ==
    P!ListIsLargeEnough => (Spec => []ServesTheCaller)
  <1> SUFFICES ASSUME P!ListIsLargeEnough PROVE Spec => []ServesTheCaller
    OBVIOUS
  <1>1. SysInv => ServesTheCaller
    <2> SUFFICES ASSUME SysInv, NEW c \in CPUs, ~overlap, ~purged[c]
                 PROVE  /\ sys[c] = "op" =>
                              \/ caller[c] = pid[c]
                              \/ caller[c] # NULL /\ life[caller[c]] = "freed"
                        /\ walk[c] = "second" => sys[c] # "missed"
      BY DEF ServesTheCaller
    <2>1. WalkAt(c)
      BY DEF SysInv, WalkInv
    <2> QED BY <2>1, QueueAssumption DEF WalkAt
  <1> QED BY <1>1, SysAlways, PTL
=============================================================================
