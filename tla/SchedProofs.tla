---------------------------- MODULE SchedProofs ----------------------------
(***************************************************************************)
(* Proofs about src/sched.c for any number of CPUs, processes, priorities  *)
(* and slots.  The first part holds in every race of the two locks: no     *)
(* size leaves its range and no CPU is handed NULL from a queue it found   *)
(* non-empty.                                                              *)
(***************************************************************************)
EXTENDS Sched, QueueProofs

\* mlq_lock and queue_lock each admit one thread.
Exclusive ==
    \A t, u \in Threads :
        \/ t = u
        \/ /\ ~(at[t] \in GetSection /\ at[u] \in GetSection)
           /\ ~(at[t] \in PutSection /\ at[u] \in PutSection)

\* What a thread's pointer and level are where the code uses them.
PlaceInv ==
    \A t \in Threads :
        /\ at[t] \in {"put", "add"} \cup PutSection => proc[t] \in Procs
        /\ at[t] \in {"get", "scan"} => proc[t] = NULL
        /\ at[t] \in {"dload", "dsize"} => lvl[t] < MAX_PRIO
        /\ at[t] \in {"eload", "esize"} => Prio[proc[t]] < MAX_PRIO
        /\ at[t] \notin {"scan", "dload", "dsize"} => lvl[t] = 0

\* The loader calls add_proc only, and has nothing between two calls.
LoaderInv ==
    /\ at[Loader] \in {"none", "add", "estore", "eload", "esize"}
    /\ at[Loader] = "none" => proc[Loader] = NULL

\* A size that a section has tested, or the copy it has loaded of it, still
\* leaves room for the section's own step: the other section can only move
\* the size away from the limit.
SizeAt(t) ==
    /\ at[t] = "dload" => ready[lvl[t]].size > 0
    /\ at[t] = "dsize" => tmp[t] > 0
    /\ at[t] = "rload" => running.size < MAX_QUEUE_SIZE
    /\ at[t] = "rsize" => tmp[t] < MAX_QUEUE_SIZE
    /\ at[t] = "pload" => running.size > 0
    /\ at[t] = "psize" => tmp[t] > 0
    /\ at[t] = "eload" => ready[Prio[proc[t]]].size < MAX_QUEUE_SIZE
    /\ at[t] = "esize" => tmp[t] < MAX_QUEUE_SIZE

SizeInv == \A t \in Threads : SizeAt(t)

\* The first n slots hold processes.
Filled(q, n) == \A i \in Slots : i < n => q.proc[i] # NULL

\* The slots below every size a section may still write are filled.
FilledAt(t) ==
    /\ at[t] = "dsize" => Filled(ready[lvl[t]], tmp[t])
    /\ at[t] = "eload" => Filled(ready[Prio[proc[t]]],
                                 ready[Prio[proc[t]]].size + 1)
    /\ at[t] = "esize" => Filled(ready[Prio[proc[t]]], tmp[t] + 1)
    /\ at[t] \in GetSection \ {"scan"} => proc[t] # NULL

FilledInv ==
    /\ \A k \in Levels : Filled(ready[k], ready[k].size)
    /\ \A t \in Threads : FilledAt(t)

RaceInv == TypeOK /\ Exclusive /\ PlaceInv /\ LoaderInv /\ SizeInv /\ FilledInv
-----------------------------------------------------------------------------
\* Nothing is queued and nobody is in a section before the threads start.
LEMMA RaceInit == Init => RaceInv
  <1> SUFFICES ASSUME Init PROVE RaceInv
    OBVIOUS
  <1> USE SchedAssumption, QueueAssumption, NewQueueProps DEF Init
  <1>1. TypeOK
    <2>1. lvl \in [Threads -> 0 .. MAX_PRIO] /\ tmp \in [Threads -> 0 .. MAX_QUEUE_SIZE]
      OBVIOUS
    <2>2. ready \in [Levels -> queue_t] /\ running \in queue_t
      OBVIOUS
    <2>3. at \in [Threads -> Places] /\ proc \in [Threads -> Ptr]
      BY DEF Places, Ptr
    <2> QED BY <2>1, <2>2, <2>3 DEF TypeOK
  <1>2. Exclusive
    BY DEF Exclusive, GetSection, PutSection
  <1>3. PlaceInv
    BY DEF PlaceInv, PutSection
  <1>4. LoaderInv
    BY DEF LoaderInv, GetSection, Threads
  <1>5. SizeInv
    BY DEF SizeInv, SizeAt
  <1>6. FilledInv
    BY DEF FilledInv, FilledAt, Filled, GetSection, Slots
  <1> QED BY <1>1, <1>2, <1>3, <1>4, <1>5, <1>6 DEF RaceInv

-----------------------------------------------------------------------------
(* What the steps that write a queue do to its slots, for any state that   *)
(* satisfies the invariant.                                                *)

\* The queues and the numbers of a state have the types of their declarations.
StateTyped ==
    /\ MAX_PRIO \in Nat /\ MAX_QUEUE_SIZE \in Nat
    /\ \A k \in Levels : /\ ready[k] \in queue_t
                         /\ ready[k].size \in 0 .. MAX_QUEUE_SIZE
    /\ running \in queue_t /\ running.size \in 0 .. MAX_QUEUE_SIZE
    /\ \A t \in Threads : /\ at[t] \in Places
                          /\ proc[t] \in Ptr
                          /\ lvl[t] \in 0 .. MAX_PRIO
                          /\ tmp[t] \in 0 .. MAX_QUEUE_SIZE
                          /\ at[t] \in {"dload", "dsize"} => lvl[t] \in Levels
                          /\ at[t] \in {"eload", "esize"} =>
                                proc[t] \in Procs /\ Prio[proc[t]] \in Levels
    /\ \A p \in Procs : Prio[p] \in Nat

\* They have, in every state of the invariant.
LEMMA StateTypes ==
    ASSUME RaceInv
    PROVE  StateTyped
  BY QueueType, QueueAssumption, SchedAssumption
  DEF StateTyped, RaceInv, TypeOK, PlaceInv, PutSection, Levels

\* dequeue's read of slot 0 and its loop (queue.c:30-36, sched.c:73).
ScanTakeDoes(t) ==
    /\ at[t] = "scan" /\ at' = [at EXCEPT ![t] = "dload"]
    /\ lvl[t] \in Levels /\ ready[lvl[t]].size > 0 /\ 0 \in Slots
    /\ ready' \in [Levels -> queue_t]
    /\ \A k \in Levels : k # lvl[t] => ready'[k] = ready[k]
    /\ ready'[lvl[t]].size = ready[lvl[t]].size
    /\ \A j \in Slots :
          /\ ready'[lvl[t]].proc[j] =
                IF j + 1 < ready[lvl[t]].size
                  THEN ready[lvl[t]].proc[j + 1]
                  ELSE ready[lvl[t]].proc[j]
          /\ j + 1 < ready[lvl[t]].size => j + 1 \in Slots
    /\ proc' = [proc EXCEPT ![t] = ready[lvl[t]].proc[0]]
    /\ ready[lvl[t]].proc[0] \in Procs
    /\ UNCHANGED <<running, lvl, tmp, life, overlap>>

\* That is what a thread's ScanTake step does, whatever has raced with it.
LEMMA ScanTakeEffect ==
    ASSUME RaceInv, NEW t \in Threads, ScanTake(t)
    PROVE  ScanTakeDoes(t)
  <1> USE DEF ScanTakeDoes, StateTyped
  <1>0. StateTyped
    BY StateTypes
  <1> DEFINE q == ready[lvl[t]]
  <1>1. lvl[t] \in Levels /\ at[t] = "scan"
    BY <1>0 DEF ScanTake, Levels
  <1>2. q \in queue_t /\ q.size > 0
    BY <1>1, <1>0 DEF ScanTake, empty
  <1>3. 0 \in Slots
    BY QueueAssumption DEF Slots
  <1>4. q.proc[0] \in Procs /\ front(q) = q.proc[0]
    BY <1>1, <1>2, <1>3, QueueType
    DEF front, empty, RaceInv, FilledInv, Filled, Ptr
  <1>5. /\ ready' \in [Levels -> queue_t]
        /\ \A k \in Levels : k # lvl[t] => ready'[k] = ready[k]
        /\ ready'[lvl[t]] = shift(q, 0)
    BY <1>1, <1>2, ShiftProps DEF ScanTake, RaceInv, TypeOK
  <1>6. /\ shift(q, 0).size = q.size
        /\ \A j \in Slots :
              /\ shift(q, 0).proc[j] = IF 0 <= j /\ j + 1 < q.size
                                         THEN q.proc[j + 1] ELSE q.proc[j]
              /\ j + 1 < q.size => j + 1 \in Slots
    BY <1>2, ShiftProps
  <1>7. \A j \in Slots : 0 <= j
    BY DEF Slots
  <1>8. /\ proc' = [proc EXCEPT ![t] = front(q)]
        /\ at' = [at EXCEPT ![t] = "dload"]
        /\ UNCHANGED <<running, lvl, tmp, life, overlap>>
    BY DEF ScanTake, Goto
  <1> QED BY <1>1, <1>2, <1>3, <1>4, <1>5, <1>6, <1>7, <1>8

\* q->size-- of dequeue, with the size loaded before (queue.c:37).
DequeueSizeDoes(t) ==
    /\ at[t] = "dsize" /\ at' = [at EXCEPT ![t] = "rstore"]
    /\ lvl[t] \in Levels /\ tmp[t] > 0
    /\ ready' \in [Levels -> queue_t]
    /\ \A k \in Levels : k # lvl[t] => ready'[k] = ready[k]
    /\ ready'[lvl[t]].size = tmp[t] - 1
    /\ ready'[lvl[t]].proc = ready[lvl[t]].proc
    /\ tmp' = [tmp EXCEPT ![t] = 0]
    /\ lvl' = [lvl EXCEPT ![t] = 0]
    /\ UNCHANGED <<running, proc, life, overlap>>

\* That is what a thread's DequeueSize step does, whatever has raced with it.
LEMMA DequeueSizeEffect ==
    ASSUME RaceInv, NEW t \in Threads, DequeueSize(t)
    PROVE  DequeueSizeDoes(t)
  <1> USE DEF DequeueSizeDoes, StateTyped
  <1>0. StateTyped
    BY StateTypes
  <1>1. lvl[t] \in Levels /\ at[t] = "dsize" /\ tmp[t] > 0
    BY <1>0 DEF DequeueSize, RaceInv, SizeInv, SizeAt
  <1>2. tmp[t] - 1 \in 0 .. MAX_QUEUE_SIZE
    BY <1>1, <1>0
  <1>3. /\ ready' = [ready EXCEPT ![lvl[t]] = [@ EXCEPT !.size = tmp[t] - 1]]
        /\ tmp' = [tmp EXCEPT ![t] = 0]
        /\ lvl' = [lvl EXCEPT ![t] = 0]
        /\ at' = [at EXCEPT ![t] = "rstore"]
        /\ UNCHANGED <<running, proc, life, overlap>>
    BY DEF DequeueSize, Goto
  <1> QED BY <1>1, <1>2, <1>3, SizeProps, <1>0 DEF RaceInv, TypeOK

\* enqueue(&running_list, proc) up to the store (queue.c:13-20).
RunningStoreDoes(t) ==
    /\ at[t] = "rstore"
    /\ \/ /\ running.size = MAX_QUEUE_SIZE
          /\ at' = [at EXCEPT ![t] = "none"] /\ running' = running
       \/ /\ running.size < MAX_QUEUE_SIZE
          /\ at' = [at EXCEPT ![t] = "rload"]
          /\ running.size \in Slots
          /\ running'.proc[running.size] = proc[t]
          /\ \A i \in Slots : i # running.size =>
                running'.proc[i] = running.proc[i]
    /\ running' \in queue_t /\ running'.size = running.size
    /\ UNCHANGED <<ready, proc, lvl, tmp, life, overlap>>

\* That is what a thread's RunningStore step does, whatever has raced with it.
LEMMA RunningStoreEffect ==
    ASSUME RaceInv, NEW t \in Threads, RunningStore(t)
    PROVE  RunningStoreDoes(t)
  <1> USE DEF RunningStoreDoes, StateTyped
  <1>0. StateTyped
    BY StateTypes
  <1>1. running \in queue_t /\ running.size \in 0 .. MAX_QUEUE_SIZE
        /\ proc[t] \in Ptr /\ MAX_QUEUE_SIZE \in Nat
    BY <1>0
  <1>2. at[t] = "rstore" /\ UNCHANGED <<ready, proc, lvl, tmp, life, overlap>>
    BY DEF RunningStore
  <1>3. CASE running.size = MAX_QUEUE_SIZE
    BY <1>1, <1>2, <1>3 DEF RunningStore, full, Goto
  <1>4. CASE running.size # MAX_QUEUE_SIZE
    <2>1. running.size < MAX_QUEUE_SIZE /\ ~full(running)
      BY <1>1, <1>4 DEF full
    <2>2. running' = store(running, proc[t]) /\ at' = [at EXCEPT ![t] = "rload"]
      BY <2>1 DEF RunningStore, Goto
    <2> QED BY <1>1, <1>2, <2>1, <2>2, StoreProps
  <1> QED BY <1>3, <1>4

\* q->size++ of that enqueue (queue.c:21).
RunningSizeDoes(t) ==
    /\ at[t] = "rsize" /\ at' = [at EXCEPT ![t] = "none"]
    /\ tmp[t] < MAX_QUEUE_SIZE
    /\ running' \in queue_t /\ running'.size = tmp[t] + 1
    /\ running'.proc = running.proc
    /\ tmp' = [tmp EXCEPT ![t] = 0]
    /\ UNCHANGED <<ready, proc, lvl, life, overlap>>

\* That is what a thread's RunningSize step does, whatever has raced with it.
LEMMA RunningSizeEffect ==
    ASSUME RaceInv, NEW t \in Threads, RunningSize(t)
    PROVE  RunningSizeDoes(t)
  <1> USE DEF RunningSizeDoes, StateTyped
  <1>0. StateTyped
    BY StateTypes
  <1>1. at[t] = "rsize" /\ tmp[t] < MAX_QUEUE_SIZE
    BY DEF RunningSize, RaceInv, SizeInv, SizeAt
  <1>2. tmp[t] + 1 \in 0 .. MAX_QUEUE_SIZE
    BY <1>1, <1>0
  <1>3. /\ running' = [running EXCEPT !.size = tmp[t] + 1]
        /\ tmp' = [tmp EXCEPT ![t] = 0]
        /\ at' = [at EXCEPT ![t] = "none"]
        /\ UNCHANGED <<ready, proc, lvl, life, overlap>>
    BY DEF RunningSize, Goto
  <1> QED BY <1>1, <1>2, <1>3, SizeProps, <1>0

\* purgequeue's search and its loop (queue.c:44-52).
PurgeDoes(t) ==
    /\ at[t] = "purge"
    /\ \/ /\ holding(running, proc[t]) = {}
          /\ at' = [at EXCEPT ![t] = "estore"] /\ running' = running
       \/ /\ at' = [at EXCEPT ![t] = "pload"]
          /\ running.size > 0
          /\ \E i \in Slots :
                /\ i < running.size /\ running.proc[i] = proc[t]
                /\ \A j \in Slots : j < i => running.proc[j] # proc[t]
                /\ \A j \in Slots :
                      /\ running'.proc[j] =
                            IF i <= j /\ j + 1 < running.size
                              THEN running.proc[j + 1]
                              ELSE running.proc[j]
                      /\ j + 1 < running.size => j + 1 \in Slots
    /\ running' \in queue_t /\ running'.size = running.size
    /\ UNCHANGED <<ready, proc, lvl, tmp, life, overlap>>

\* That is what a thread's Purge step does, whatever has raced with it.
LEMMA PurgeEffect ==
    ASSUME RaceInv, NEW t \in Threads, Purge(t)
    PROVE  PurgeDoes(t)
  <1> USE DEF PurgeDoes, StateTyped
  <1>0. StateTyped
    BY StateTypes
  <1>1. running \in queue_t /\ running.size \in 0 .. MAX_QUEUE_SIZE
    BY <1>0
  <1>2. at[t] = "purge" /\ UNCHANGED <<ready, proc, lvl, tmp, life, overlap>>
    BY DEF Purge
  <1>3. CASE holding(running, proc[t]) = {}
    BY <1>1, <1>2, <1>3 DEF Purge, Goto
  <1>4. CASE holding(running, proc[t]) # {}
    <2> DEFINE i == first(running, proc[t])
    <2>1. running' = shift(running, i) /\ at' = [at EXCEPT ![t] = "pload"]
      BY <1>4 DEF Purge, Goto
    <2>2. /\ \A j \in holding(running, proc[t]) : i <= j
          /\ i \in Slots /\ i \in Nat
          /\ i < running.size /\ running.proc[i] = proc[t]
      BY <1>1, <1>4, FirstProps
    <2> HIDE DEF i
    <2>3. running.size > 0
      BY <1>1, <2>2
    <2>4. ASSUME NEW j \in Slots, j < i PROVE running.proc[j] # proc[t]
      <3>1. j < running.size /\ ~(i <= j)
        BY <1>1, <2>2, <2>4 DEF Slots
      <3> QED BY <2>2, <3>1 DEF holding
    <2>5. /\ shift(running, i) \in queue_t
          /\ shift(running, i).size = running.size
          /\ \A j \in Slots :
                /\ shift(running, i).proc[j] =
                      IF i <= j /\ j + 1 < running.size
                        THEN running.proc[j + 1] ELSE running.proc[j]
                /\ j + 1 < running.size => j + 1 \in Slots
      BY <1>1, <2>2, ShiftProps
    <2> QED BY <1>2, <2>1, <2>2, <2>3, <2>4, <2>5
  <1> QED BY <1>3, <1>4

\* q->size-- of purgequeue (queue.c:53).
PurgeSizeDoes(t) ==
    /\ at[t] = "psize" /\ at' = [at EXCEPT ![t] = "pclear"]
    /\ tmp[t] > 0
    /\ running' \in queue_t /\ running'.size = tmp[t] - 1
    /\ running'.proc = running.proc
    /\ tmp' = [tmp EXCEPT ![t] = 0]
    /\ UNCHANGED <<ready, proc, lvl, life, overlap>>

\* That is what a thread's PurgeSize step does, whatever has raced with it.
LEMMA PurgeSizeEffect ==
    ASSUME RaceInv, NEW t \in Threads, PurgeSize(t)
    PROVE  PurgeSizeDoes(t)
  <1> USE DEF PurgeSizeDoes, StateTyped
  <1>0. StateTyped
    BY StateTypes
  <1>1. at[t] = "psize" /\ tmp[t] > 0
    BY DEF PurgeSize, RaceInv, SizeInv, SizeAt
  <1>2. tmp[t] - 1 \in 0 .. MAX_QUEUE_SIZE
    BY <1>1, <1>0
  <1>3. /\ running' = [running EXCEPT !.size = tmp[t] - 1]
        /\ tmp' = [tmp EXCEPT ![t] = 0]
        /\ at' = [at EXCEPT ![t] = "pclear"]
        /\ UNCHANGED <<ready, proc, lvl, life, overlap>>
    BY DEF PurgeSize, Goto
  <1> QED BY <1>1, <1>2, <1>3, SizeProps, <1>0

\* q->proc[q->size] = NULL (queue.c:54): the slot above size, or, when a
\* racing enqueue has filled the list, size itself.
PurgeClearDoes(t) ==
    /\ at[t] = "pclear" /\ at' = [at EXCEPT ![t] = "estore"]
    /\ running' \in queue_t
    /\ \/ /\ running.size = MAX_QUEUE_SIZE /\ running'.size = 0
          /\ running'.proc = running.proc
       \/ /\ running.size < MAX_QUEUE_SIZE
          /\ running'.size = running.size
          /\ running.size \in Slots /\ running'.proc[running.size] = NULL
          /\ \A i \in Slots : i # running.size =>
                running'.proc[i] = running.proc[i]
    /\ UNCHANGED <<ready, proc, lvl, tmp, life, overlap>>

\* That is what a thread's PurgeClear step does, whatever has raced with it.
LEMMA PurgeClearEffect ==
    ASSUME RaceInv, NEW t \in Threads, PurgeClear(t)
    PROVE  PurgeClearDoes(t)
  <1> USE DEF PurgeClearDoes, StateTyped
  <1>0. StateTyped
    BY StateTypes
  <1>1. /\ running \in queue_t /\ running.size \in 0 .. MAX_QUEUE_SIZE
        /\ MAX_QUEUE_SIZE \in Nat /\ NULL \in Ptr
    BY <1>0 DEF Ptr
  <1>2. /\ at[t] = "pclear" /\ at' = [at EXCEPT ![t] = "estore"]
        /\ UNCHANGED <<ready, proc, lvl, tmp, life, overlap>>
    BY DEF PurgeClear, Goto
  <1>3. CASE running.size = MAX_QUEUE_SIZE
    <2>1. running' = [running EXCEPT !.size = 0] /\ 0 \in 0 .. MAX_QUEUE_SIZE
      BY <1>1, <1>3 DEF PurgeClear
    <2> QED BY <1>1, <1>2, <1>3, <2>1, SizeProps
  <1>4. CASE running.size # MAX_QUEUE_SIZE
    <2>1. running.size < MAX_QUEUE_SIZE /\ running' = store(running, NULL)
      BY <1>1, <1>4 DEF PurgeClear
    <2> QED BY <1>1, <1>2, <2>1, StoreProps
  <1> QED BY <1>3, <1>4

\* enqueue into a ready queue up to the store (queue.c:13-20, sched.c:88).
EnqueueStoreDoes(t) ==
    /\ at[t] = "estore" /\ proc[t] \in Procs
    /\ \/ /\ at' = [at EXCEPT ![t] = "none"]
          /\ life' = [life EXCEPT ![proc[t]] = "dropped"]
          /\ proc' = [proc EXCEPT ![t] = NULL]
          /\ ready' = ready
       \/ /\ at' = [at EXCEPT ![t] = "eload"]
          /\ Prio[proc[t]] \in Levels
          /\ ready[Prio[proc[t]]].size < MAX_QUEUE_SIZE
          /\ \A k \in Levels : k # Prio[proc[t]] => ready'[k] = ready[k]
          /\ ready'[Prio[proc[t]]].size = ready[Prio[proc[t]]].size
          /\ ready[Prio[proc[t]]].size \in Slots
          /\ ready'[Prio[proc[t]]].proc[ready[Prio[proc[t]]].size]
                = proc[t]
          /\ \A i \in Slots : i # ready[Prio[proc[t]]].size =>
                ready'[Prio[proc[t]]].proc[i]
                   = ready[Prio[proc[t]]].proc[i]
          /\ UNCHANGED <<life, proc>>
    /\ ready' \in [Levels -> queue_t]
    /\ UNCHANGED <<running, lvl, tmp, overlap>>

\* That is what a thread's EnqueueStore step does, whatever has raced with it.
LEMMA EnqueueStoreEffect ==
    ASSUME RaceInv, NEW t \in Threads, EnqueueStore(t)
    PROVE  EnqueueStoreDoes(t)
  <1> USE DEF EnqueueStoreDoes, StateTyped
  <1>0. StateTyped
    BY StateTypes
  <1> DEFINE p == proc[t]
             q == ready[Prio[p]]
  <1>1. /\ at[t] = "estore" /\ p \in Procs /\ p \in Ptr
        /\ UNCHANGED <<running, lvl, tmp, overlap>>
        /\ ready \in [Levels -> queue_t]
    BY DEF EnqueueStore, RaceInv, PlaceInv, PutSection, Ptr, TypeOK
  <1>2. CASE Prio[p] >= MAX_PRIO \/ full(q)
    BY <1>1, <1>2 DEF EnqueueStore, Goto
  <1>3. CASE ~(Prio[p] >= MAX_PRIO \/ full(q))
    <2>1. Prio[p] \in Levels
      BY <1>1, <1>3, <1>0 DEF Levels
    <2>2. q \in queue_t /\ q.size < MAX_QUEUE_SIZE
      BY <1>3, <2>1, <1>0 DEF full
    <2>3. /\ at' = [at EXCEPT ![t] = "eload"]
          /\ ready' = [ready EXCEPT ![Prio[p]] = store(@, p)]
          /\ UNCHANGED <<life, proc>>
      BY <1>3 DEF EnqueueStore, Goto
    <2>4. /\ ready'[Prio[p]] = store(q, p)
          /\ \A k \in Levels : k # Prio[p] => ready'[k] = ready[k]
      BY <1>1, <2>1, <2>3
    <2>5. /\ store(q, p) \in queue_t /\ store(q, p).size = q.size
          /\ q.size \in Slots /\ store(q, p).proc[q.size] = p
          /\ \A i \in Slots : i # q.size => store(q, p).proc[i] = q.proc[i]
      BY <1>1, <2>2, StoreProps
    <2>6. ready' \in [Levels -> queue_t]
      BY <1>1, <2>1, <2>3, <2>5
    <2> QED BY <1>1, <2>1, <2>2, <2>3, <2>4, <2>5, <2>6
  <1> QED BY <1>2, <1>3

\* q->size++ of that enqueue (queue.c:21).
EnqueueSizeDoes(t) ==
    /\ at[t] = "esize" /\ at' = [at EXCEPT ![t] = "none"]
    /\ proc[t] \in Procs /\ Prio[proc[t]] \in Levels
    /\ tmp[t] < MAX_QUEUE_SIZE
    /\ ready' \in [Levels -> queue_t]
    /\ \A k \in Levels : k # Prio[proc[t]] => ready'[k] = ready[k]
    /\ ready'[Prio[proc[t]]].size = tmp[t] + 1
    /\ ready'[Prio[proc[t]]].proc = ready[Prio[proc[t]]].proc
    /\ proc' = [proc EXCEPT ![t] = NULL]
    /\ tmp' = [tmp EXCEPT ![t] = 0]
    /\ UNCHANGED <<running, lvl, life, overlap>>

\* That is what a thread's EnqueueSize step does, whatever has raced with it.
LEMMA EnqueueSizeEffect ==
    ASSUME RaceInv, NEW t \in Threads, EnqueueSize(t)
    PROVE  EnqueueSizeDoes(t)
  <1> USE DEF EnqueueSizeDoes, StateTyped
  <1>0. StateTyped
    BY StateTypes
  <1>1. at[t] = "esize" /\ proc[t] \in Procs /\ tmp[t] < MAX_QUEUE_SIZE
    BY DEF EnqueueSize, RaceInv, PlaceInv, PutSection, SizeInv, SizeAt
  <1>2. Prio[proc[t]] \in Levels /\ tmp[t] + 1 \in 0 .. MAX_QUEUE_SIZE
    BY <1>1, <1>0 DEF RaceInv, PlaceInv, Levels
  <1>3. /\ ready' = [ready EXCEPT ![Prio[proc[t]]] =
                        [@ EXCEPT !.size = tmp[t] + 1]]
        /\ proc' = [proc EXCEPT ![t] = NULL]
        /\ tmp' = [tmp EXCEPT ![t] = 0]
        /\ at' = [at EXCEPT ![t] = "none"]
        /\ UNCHANGED <<running, lvl, life, overlap>>
    BY DEF EnqueueSize, Goto
  <1> QED BY <1>1, <1>2, <1>3, SizeProps, <1>0 DEF RaceInv, TypeOK



\* Every step of every thread keeps the invariant.
LEMMA RaceStep ==
    ASSUME RaceInv, NEW t \in Threads, Call(t) \/ Client(t)
    PROVE  RaceInv'
  <1> USE SchedAssumption, QueueAssumption
      DEF RaceInv, Goto
  <1>0. StateTyped
    BY StateTypes
  <1>1. CASE CallGet(t)
    <2>1. TypeOK'
      BY <1>0, <1>1 DEF CallGet, StateTyped,
         TypeOK, Places, GetSection, PutSection, Ptr
    <2>2. Exclusive'
      BY <1>0, <1>1 DEF CallGet, StateTyped,
         Exclusive, GetSection, PutSection, Held, TypeOK
    <2>3. PlaceInv'
      BY <1>0, <1>1 DEF CallGet, StateTyped,
         PlaceInv, TypeOK, Ptr, Levels, GetSection, PutSection
    <2>4. LoaderInv'
      BY <1>0, <1>1 DEF CallGet, StateTyped,
         LoaderInv, TypeOK, Threads, GetSection, PutSection
    <2>5. SizeInv'
      BY <1>0, <1>1 DEF CallGet, StateTyped, SizeInv, SizeAt, PlaceInv, TypeOK,
         Exclusive, Levels, GetSection, PutSection
    <2>6. FilledInv'
      BY <1>0, <1>1 DEF CallGet, StateTyped, FilledInv, FilledAt, Filled,
         PlaceInv, TypeOK, SizeInv, SizeAt, Exclusive, Levels, GetSection,
         PutSection
    <2> QED BY <2>1, <2>2, <2>3, <2>4, <2>5, <2>6
  <1>2. CASE CallPut(t)
    <2>1. TypeOK'
      BY <1>0, <1>2 DEF CallPut, StateTyped,
         TypeOK, Places, GetSection, PutSection, Ptr
    <2>2. Exclusive'
      BY <1>0, <1>2 DEF CallPut, StateTyped,
         Exclusive, GetSection, PutSection, Held, TypeOK
    <2>3. PlaceInv'
      BY <1>0, <1>2 DEF CallPut, StateTyped,
         PlaceInv, TypeOK, Ptr, Levels, GetSection, PutSection
    <2>4. LoaderInv'
      BY <1>0, <1>2 DEF CallPut, StateTyped,
         LoaderInv, TypeOK, Threads, GetSection, PutSection
    <2>5. SizeInv'
      BY <1>0, <1>2 DEF CallPut, StateTyped, SizeInv, SizeAt, PlaceInv, TypeOK,
         Exclusive, Levels, GetSection, PutSection
    <2>6. FilledInv'
      BY <1>0, <1>2 DEF CallPut, StateTyped, FilledInv, FilledAt, Filled,
         PlaceInv, TypeOK, SizeInv, SizeAt, Exclusive, Levels, GetSection,
         PutSection
    <2> QED BY <2>1, <2>2, <2>3, <2>4, <2>5, <2>6
  <1>3. CASE Free(t)
    <2>1. TypeOK'
      BY <1>0, <1>3 DEF Free, StateTyped,
         TypeOK, Places, GetSection, PutSection, Ptr
    <2>2. Exclusive'
      BY <1>0, <1>3 DEF Free, StateTyped,
         Exclusive, GetSection, PutSection, Held, TypeOK
    <2>3. PlaceInv'
      BY <1>0, <1>3 DEF Free, StateTyped,
         PlaceInv, TypeOK, Ptr, Levels, GetSection, PutSection
    <2>4. LoaderInv'
      BY <1>0, <1>3 DEF Free, StateTyped,
         LoaderInv, TypeOK, Threads, GetSection, PutSection
    <2>5. SizeInv'
      BY <1>0, <1>3 DEF Free, StateTyped, SizeInv, SizeAt, PlaceInv, TypeOK,
         Exclusive, Levels, GetSection, PutSection
    <2>6. FilledInv'
      BY <1>0, <1>3 DEF Free, StateTyped, FilledInv, FilledAt, Filled,
         PlaceInv, TypeOK, SizeInv, SizeAt, Exclusive, Levels, GetSection,
         PutSection
    <2> QED BY <2>1, <2>2, <2>3, <2>4, <2>5, <2>6
  <1>4. CASE GetLock(t)
    <2>1. TypeOK'
      BY <1>0, <1>4 DEF GetLock, StateTyped,
         TypeOK, Places, GetSection, PutSection, Ptr
    <2>2. Exclusive'
      BY <1>0, <1>4 DEF GetLock, StateTyped,
         Exclusive, GetSection, PutSection, Held, TypeOK
    <2>3. PlaceInv'
      BY <1>0, <1>4 DEF GetLock, StateTyped,
         PlaceInv, TypeOK, Ptr, Levels, GetSection, PutSection
    <2>4. LoaderInv'
      BY <1>0, <1>4 DEF GetLock, StateTyped,
         LoaderInv, TypeOK, Threads, GetSection, PutSection
    <2>5. SizeInv'
      BY <1>0, <1>4 DEF GetLock, StateTyped, SizeInv, SizeAt, PlaceInv, TypeOK,
         Exclusive, Levels, GetSection, PutSection
    <2>6. FilledInv'
      BY <1>0, <1>4 DEF GetLock, StateTyped, FilledInv, FilledAt, Filled,
         PlaceInv, TypeOK, SizeInv, SizeAt, Exclusive, Levels, GetSection,
         PutSection
    <2> QED BY <2>1, <2>2, <2>3, <2>4, <2>5, <2>6
  <1>5. CASE ScanNext(t)
    <2>1. TypeOK'
      BY <1>0, <1>5 DEF ScanNext, StateTyped,
         TypeOK, Places, GetSection, PutSection, Ptr
    <2>2. Exclusive'
      BY <1>0, <1>5 DEF ScanNext, StateTyped,
         Exclusive, GetSection, PutSection, Held, TypeOK
    <2>3. PlaceInv'
      BY <1>0, <1>5 DEF ScanNext, StateTyped,
         PlaceInv, TypeOK, Ptr, Levels, GetSection, PutSection
    <2>4. LoaderInv'
      BY <1>0, <1>5 DEF ScanNext, StateTyped,
         LoaderInv, TypeOK, Threads, GetSection, PutSection
    <2>5. SizeInv'
      BY <1>0, <1>5 DEF ScanNext, StateTyped, SizeInv, SizeAt, PlaceInv,
         TypeOK, Exclusive, Levels, GetSection, PutSection
    <2>6. FilledInv'
      BY <1>0, <1>5 DEF ScanNext, StateTyped, FilledInv, FilledAt, Filled,
         PlaceInv, TypeOK, SizeInv, SizeAt, Exclusive, Levels, GetSection,
         PutSection
    <2> QED BY <2>1, <2>2, <2>3, <2>4, <2>5, <2>6
  <1>6. CASE ScanNone(t)
    <2>1. TypeOK'
      BY <1>0, <1>6 DEF ScanNone, StateTyped,
         TypeOK, Places, GetSection, PutSection, Ptr
    <2>2. Exclusive'
      BY <1>0, <1>6 DEF ScanNone, StateTyped,
         Exclusive, GetSection, PutSection, Held, TypeOK
    <2>3. PlaceInv'
      BY <1>0, <1>6 DEF ScanNone, StateTyped,
         PlaceInv, TypeOK, Ptr, Levels, GetSection, PutSection
    <2>4. LoaderInv'
      BY <1>0, <1>6 DEF ScanNone, StateTyped,
         LoaderInv, TypeOK, Threads, GetSection, PutSection
    <2>5. SizeInv'
      BY <1>0, <1>6 DEF ScanNone, StateTyped, SizeInv, SizeAt, PlaceInv,
         TypeOK, Exclusive, Levels, GetSection, PutSection
    <2>6. FilledInv'
      BY <1>0, <1>6 DEF ScanNone, StateTyped, FilledInv, FilledAt, Filled,
         PlaceInv, TypeOK, SizeInv, SizeAt, Exclusive, Levels, GetSection,
         PutSection
    <2> QED BY <2>1, <2>2, <2>3, <2>4, <2>5, <2>6
  <1>7. CASE ScanTake(t)
    <2>0. ScanTakeDoes(t)
      BY <1>7, ScanTakeEffect
    <2>1. TypeOK'
      BY <1>0, <2>0 DEF ScanTakeDoes, StateTyped,
         TypeOK, Places, GetSection, PutSection, Ptr
    <2>2. Exclusive'
      BY <1>0, <2>0 DEF ScanTakeDoes, StateTyped,
         Exclusive, GetSection, PutSection, Held, TypeOK
    <2>3. PlaceInv'
      BY <1>0, <2>0 DEF ScanTakeDoes, StateTyped,
         PlaceInv, TypeOK, Ptr, Levels, GetSection, PutSection
    <2>4. LoaderInv'
      BY <1>0, <2>0 DEF ScanTakeDoes, StateTyped,
         LoaderInv, TypeOK, Threads, GetSection, PutSection
    <2>5. SizeInv'
      <3> SUFFICES ASSUME NEW u \in Threads PROVE SizeAt(u)'
        BY DEF SizeInv
      <3>1. SizeAt(u)
        BY DEF SizeInv
      <3>2. CASE u = t
        BY <1>0, <2>0, <3>2 DEF ScanTakeDoes, SizeAt, TypeOK
      <3>3. CASE u # t
        <4>1. /\ at'[u] = at[u] /\ at[u] # "dload"
              /\ proc'[u] = proc[u] /\ tmp'[u] = tmp[u] /\ running' = running
          BY <2>0, <3>3 DEF ScanTakeDoes, Exclusive, GetSection, TypeOK
        <4>2. \A k \in Levels : ready'[k].size = ready[k].size
          BY <2>0 DEF ScanTakeDoes
        <4> QED BY <1>0, <3>1, <4>1, <4>2 DEF SizeAt, StateTyped
      <3> QED BY <3>2, <3>3
    <2>6. FilledInv'
      <3>1. ASSUME NEW k \in Levels, NEW n \in Nat, Filled(ready[k], n)
            PROVE  Filled(ready'[k], n)
        <4>1. CASE k # lvl[t]
          BY <2>0, <3>1, <4>1 DEF ScanTakeDoes
        <4>2. CASE k = lvl[t]
          <5> SUFFICES ASSUME NEW i \in Slots, i < n
                       PROVE  ready'[lvl[t]].proc[i] # NULL
            BY <4>2 DEF Filled
          <5>1. /\ ready[lvl[t]].proc[i] # NULL
                /\ i + 1 < ready[lvl[t]].size =>
                      ready[lvl[t]].proc[i + 1] # NULL
            BY <2>0, <3>1, <4>2 DEF ScanTakeDoes, FilledInv, Filled
          <5> QED BY <2>0, <5>1 DEF ScanTakeDoes
        <4> QED BY <4>1, <4>2
      <3>2. \A k \in Levels : /\ ready'[k].size = ready[k].size
                              /\ ready[k].size \in Nat
        BY <1>0, <2>0 DEF ScanTakeDoes, StateTyped
      <3>3. ASSUME NEW k \in Levels PROVE Filled(ready'[k], ready'[k].size)
        BY <3>1, <3>2 DEF FilledInv
      <3>4. ASSUME NEW u \in Threads PROVE FilledAt(u)'
        <4>1. CASE u = t
          BY <1>0, <2>0, <4>1, QueueAssumption
          DEF ScanTakeDoes, FilledAt, TypeOK
        <4>2. CASE u # t
          <5>1. /\ at'[u] = at[u] /\ at[u] \notin GetSection
                /\ proc'[u] = proc[u] /\ tmp'[u] = tmp[u]
            BY <2>0, <4>2 DEF ScanTakeDoes, Exclusive, GetSection, TypeOK
          <5>2. FilledAt(u) /\ tmp[u] + 1 \in Nat
            BY <1>0 DEF FilledInv, StateTyped
          <5>3. at[u] = "eload" =>
                   Filled(ready'[Prio[proc[u]]], ready'[Prio[proc[u]]].size + 1)
            BY <1>0, <3>1, <3>2, <5>2 DEF FilledAt, StateTyped
          <5>4. at[u] = "esize" => Filled(ready'[Prio[proc[u]]], tmp[u] + 1)
            BY <1>0, <3>1, <5>2 DEF FilledAt, StateTyped
          <5> QED BY <5>1, <5>3, <5>4 DEF FilledAt, GetSection
        <4> QED BY <4>1, <4>2
      <3> QED BY <3>3, <3>4 DEF FilledInv
    <2> QED BY <2>1, <2>2, <2>3, <2>4, <2>5, <2>6
  <1>8. CASE DequeueLoad(t)
    <2>1. TypeOK'
      BY <1>0, <1>8 DEF DequeueLoad, StateTyped,
         TypeOK, Places, GetSection, PutSection, Ptr, PlaceInv, Levels
    <2>2. Exclusive'
      BY <1>0, <1>8 DEF DequeueLoad, StateTyped,
         Exclusive, GetSection, PutSection, Held, TypeOK
    <2>3. PlaceInv'
      BY <1>0, <1>8 DEF DequeueLoad, StateTyped,
         PlaceInv, TypeOK, Ptr, Levels, GetSection, PutSection
    <2>4. LoaderInv'
      BY <1>0, <1>8 DEF DequeueLoad, StateTyped,
         LoaderInv, TypeOK, Threads, GetSection, PutSection
    <2>5. SizeInv'
      BY <1>0, <1>8 DEF DequeueLoad, StateTyped, SizeInv, SizeAt, PlaceInv,
         TypeOK, Exclusive, Levels, GetSection, PutSection
    <2>6. FilledInv'
      BY <1>0, <1>8 DEF DequeueLoad, StateTyped, FilledInv, FilledAt, Filled,
         PlaceInv, TypeOK, SizeInv, SizeAt, Exclusive, Levels, GetSection,
         PutSection
    <2> QED BY <2>1, <2>2, <2>3, <2>4, <2>5, <2>6
  <1>9. CASE DequeueSize(t)
    <2>0. DequeueSizeDoes(t)
      BY <1>9, DequeueSizeEffect
    <2>1. TypeOK'
      BY <1>0, <2>0 DEF DequeueSizeDoes, StateTyped,
         TypeOK, Places, GetSection, PutSection, Ptr
    <2>2. Exclusive'
      BY <1>0, <2>0 DEF DequeueSizeDoes, StateTyped,
         Exclusive, GetSection, PutSection, Held, TypeOK
    <2>3. PlaceInv'
      BY <1>0, <2>0 DEF DequeueSizeDoes, StateTyped,
         PlaceInv, TypeOK, Ptr, Levels, GetSection, PutSection
    <2>4. LoaderInv'
      BY <1>0, <2>0 DEF DequeueSizeDoes, StateTyped,
         LoaderInv, TypeOK, Threads, GetSection, PutSection
    <2>5. SizeInv'
      <3> SUFFICES ASSUME NEW u \in Threads PROVE SizeAt(u)'
        BY DEF SizeInv
      <3>1. SizeAt(u)
        BY DEF SizeInv
      <3>2. CASE u = t
        BY <1>0, <2>0, <3>2 DEF DequeueSizeDoes, SizeAt, TypeOK
      <3>3. CASE u # t
        <4>1. /\ at'[u] = at[u] /\ at[u] # "dload"
              /\ proc'[u] = proc[u] /\ tmp'[u] = tmp[u] /\ running' = running
          BY <2>0, <3>3 DEF DequeueSizeDoes, Exclusive, GetSection, TypeOK
        <4>2. \A k \in Levels : ready[k].size < MAX_QUEUE_SIZE =>
                                   ready'[k].size < MAX_QUEUE_SIZE
          BY <1>0, <2>0 DEF DequeueSizeDoes, StateTyped
        <4> QED BY <1>0, <3>1, <4>1, <4>2 DEF SizeAt, StateTyped
      <3> QED BY <3>2, <3>3
    <2>6. FilledInv'
      <3>1. ASSUME NEW k \in Levels, NEW n \in Nat, Filled(ready[k], n)
            PROVE  Filled(ready'[k], n)
        BY <2>0, <3>1 DEF DequeueSizeDoes, Filled
      <3>2. Filled(ready[lvl[t]], tmp[t]) /\ tmp[t] \in Nat /\ tmp[t] > 0
        BY <1>0, <2>0 DEF DequeueSizeDoes, FilledInv, FilledAt, StateTyped
      <3>3. Filled(ready[lvl[t]], tmp[t] - 1) /\ tmp[t] - 1 \in Nat
        BY <3>2 DEF Filled, Slots
      <3>4. ASSUME NEW k \in Levels PROVE Filled(ready'[k], ready'[k].size)
        <4>1. CASE k = lvl[t]
          BY <2>0, <3>1, <3>3, <4>1 DEF DequeueSizeDoes
        <4>2. CASE k # lvl[t]
          BY <2>0, <4>2 DEF DequeueSizeDoes, FilledInv
        <4> QED BY <4>1, <4>2
      <3>5. ASSUME NEW u \in Threads PROVE FilledAt(u)'
        <4>1. CASE u = t
          BY <1>0, <2>0, <4>1
          DEF DequeueSizeDoes, FilledInv, FilledAt, TypeOK, GetSection
        <4>2. CASE u # t
          <5>1. /\ at'[u] = at[u] /\ at[u] \notin GetSection
                /\ proc'[u] = proc[u] /\ tmp'[u] = tmp[u]
            BY <2>0, <4>2 DEF DequeueSizeDoes, Exclusive, GetSection, TypeOK
          <5>2. FilledAt(u) /\ tmp[u] + 1 \in Nat
            BY <1>0 DEF FilledInv, StateTyped
          <5>3. at[u] = "eload" =>
                   Filled(ready'[Prio[proc[u]]], ready'[Prio[proc[u]]].size + 1)
            <6> SUFFICES ASSUME at[u] = "eload"
                         PROVE  Filled(ready'[Prio[proc[u]]],
                                       ready'[Prio[proc[u]]].size + 1)
              OBVIOUS
            <6>1. Prio[proc[u]] \in Levels
              BY <1>0 DEF StateTyped
            <6>2. CASE Prio[proc[u]] = lvl[t]
              <7>1. ready'[Prio[proc[u]]].size + 1 = tmp[t]
                BY <2>0, <3>2, <6>2 DEF DequeueSizeDoes
              <7> QED BY <3>1, <3>2, <6>1, <6>2, <7>1
            <6>3. CASE Prio[proc[u]] # lvl[t]
              BY <2>0, <5>2, <6>1, <6>3 DEF DequeueSizeDoes, FilledAt
            <6> QED BY <6>2, <6>3
          <5>4. at[u] = "esize" => Filled(ready'[Prio[proc[u]]], tmp[u] + 1)
            BY <1>0, <3>1, <5>2 DEF FilledAt, StateTyped
          <5> QED BY <5>1, <5>3, <5>4 DEF FilledAt, GetSection
        <4> QED BY <4>1, <4>2
      <3> QED BY <3>4, <3>5 DEF FilledInv
    <2> QED BY <2>1, <2>2, <2>3, <2>4, <2>5, <2>6
  <1>10. CASE RunningStore(t)
    <2>0. RunningStoreDoes(t)
      BY <1>10, RunningStoreEffect
    <2>1. TypeOK'
      BY <1>0, <2>0 DEF RunningStoreDoes, StateTyped,
         TypeOK, Places, GetSection, PutSection, Ptr
    <2>2. Exclusive'
      BY <1>0, <2>0 DEF RunningStoreDoes, StateTyped,
         Exclusive, GetSection, PutSection, Held, TypeOK
    <2>3. PlaceInv'
      BY <1>0, <2>0 DEF RunningStoreDoes, StateTyped,
         PlaceInv, TypeOK, Ptr, Levels, GetSection, PutSection
    <2>4. LoaderInv'
      BY <1>0, <2>0 DEF RunningStoreDoes, StateTyped,
         LoaderInv, TypeOK, Threads, GetSection, PutSection
    <2>5. SizeInv'
      BY <1>0, <2>0 DEF RunningStoreDoes, StateTyped, SizeInv, SizeAt,
         PlaceInv, TypeOK, Exclusive, Levels, GetSection, PutSection
    <2>6. FilledInv'
      BY <1>0, <2>0 DEF RunningStoreDoes, StateTyped, FilledInv, FilledAt,
         Filled, PlaceInv, TypeOK, SizeInv, SizeAt, Exclusive, Levels,
         GetSection, PutSection
    <2> QED BY <2>1, <2>2, <2>3, <2>4, <2>5, <2>6
  <1>11. CASE RunningLoad(t)
    <2>1. TypeOK'
      BY <1>0, <1>11 DEF RunningLoad, StateTyped,
         TypeOK, Places, GetSection, PutSection, Ptr, PlaceInv, Levels
    <2>2. Exclusive'
      BY <1>0, <1>11 DEF RunningLoad, StateTyped,
         Exclusive, GetSection, PutSection, Held, TypeOK
    <2>3. PlaceInv'
      BY <1>0, <1>11 DEF RunningLoad, StateTyped,
         PlaceInv, TypeOK, Ptr, Levels, GetSection, PutSection
    <2>4. LoaderInv'
      BY <1>0, <1>11 DEF RunningLoad, StateTyped,
         LoaderInv, TypeOK, Threads, GetSection, PutSection
    <2>5. SizeInv'
      BY <1>0, <1>11 DEF RunningLoad, StateTyped, SizeInv, SizeAt, PlaceInv,
         TypeOK, Exclusive, Levels, GetSection, PutSection
    <2>6. FilledInv'
      BY <1>0, <1>11 DEF RunningLoad, StateTyped, FilledInv, FilledAt, Filled,
         PlaceInv, TypeOK, SizeInv, SizeAt, Exclusive, Levels, GetSection,
         PutSection
    <2> QED BY <2>1, <2>2, <2>3, <2>4, <2>5, <2>6
  <1>12. CASE RunningSize(t)
    <2>0. RunningSizeDoes(t)
      BY <1>12, RunningSizeEffect
    <2>1. TypeOK'
      BY <1>0, <2>0 DEF RunningSizeDoes, StateTyped,
         TypeOK, Places, GetSection, PutSection, Ptr
    <2>2. Exclusive'
      BY <1>0, <2>0 DEF RunningSizeDoes, StateTyped,
         Exclusive, GetSection, PutSection, Held, TypeOK
    <2>3. PlaceInv'
      BY <1>0, <2>0 DEF RunningSizeDoes, StateTyped,
         PlaceInv, TypeOK, Ptr, Levels, GetSection, PutSection
    <2>4. LoaderInv'
      BY <1>0, <2>0 DEF RunningSizeDoes, StateTyped,
         LoaderInv, TypeOK, Threads, GetSection, PutSection
    <2>5. SizeInv'
      BY <1>0, <2>0 DEF RunningSizeDoes, StateTyped, SizeInv, SizeAt, PlaceInv,
         TypeOK, Exclusive, Levels, GetSection, PutSection
    <2>6. FilledInv'
      BY <1>0, <2>0 DEF RunningSizeDoes, StateTyped, FilledInv, FilledAt,
         Filled, PlaceInv, TypeOK, SizeInv, SizeAt, Exclusive, Levels,
         GetSection, PutSection
    <2> QED BY <2>1, <2>2, <2>3, <2>4, <2>5, <2>6
  <1>13. CASE PutLock(t)
    <2>1. TypeOK'
      BY <1>0, <1>13 DEF PutLock, StateTyped,
         TypeOK, Places, GetSection, PutSection, Ptr
    <2>2. Exclusive'
      BY <1>0, <1>13 DEF PutLock, StateTyped,
         Exclusive, GetSection, PutSection, Held, TypeOK
    <2>3. PlaceInv'
      BY <1>0, <1>13 DEF PutLock, StateTyped,
         PlaceInv, TypeOK, Ptr, Levels, GetSection, PutSection
    <2>4. LoaderInv'
      BY <1>0, <1>13 DEF PutLock, StateTyped,
         LoaderInv, TypeOK, Threads, GetSection, PutSection
    <2>5. SizeInv'
      BY <1>0, <1>13 DEF PutLock, StateTyped, SizeInv, SizeAt, PlaceInv,
         TypeOK, Exclusive, Levels, GetSection, PutSection
    <2>6. FilledInv'
      BY <1>0, <1>13 DEF PutLock, StateTyped, FilledInv, FilledAt, Filled,
         PlaceInv, TypeOK, SizeInv, SizeAt, Exclusive, Levels, GetSection,
         PutSection
    <2> QED BY <2>1, <2>2, <2>3, <2>4, <2>5, <2>6
  <1>14. CASE Purge(t)
    <2>0. PurgeDoes(t)
      BY <1>14, PurgeEffect
    <2>1. TypeOK'
      BY <1>0, <2>0 DEF PurgeDoes, StateTyped,
         TypeOK, Places, GetSection, PutSection, Ptr
    <2>2. Exclusive'
      BY <1>0, <2>0 DEF PurgeDoes, StateTyped,
         Exclusive, GetSection, PutSection, Held, TypeOK
    <2>3. PlaceInv'
      BY <1>0, <2>0 DEF PurgeDoes, StateTyped,
         PlaceInv, TypeOK, Ptr, Levels, GetSection, PutSection
    <2>4. LoaderInv'
      BY <1>0, <2>0 DEF PurgeDoes, StateTyped,
         LoaderInv, TypeOK, Threads, GetSection, PutSection
    <2>5. SizeInv'
      BY <1>0, <2>0 DEF PurgeDoes, StateTyped, SizeInv, SizeAt, PlaceInv,
         TypeOK, Exclusive, Levels, GetSection, PutSection
    <2>6. FilledInv'
      BY <1>0, <2>0 DEF PurgeDoes, StateTyped, FilledInv, FilledAt, Filled,
         PlaceInv, TypeOK, SizeInv, SizeAt, Exclusive, Levels, GetSection,
         PutSection
    <2> QED BY <2>1, <2>2, <2>3, <2>4, <2>5, <2>6
  <1>15. CASE PurgeLoad(t)
    <2>1. TypeOK'
      BY <1>0, <1>15 DEF PurgeLoad, StateTyped,
         TypeOK, Places, GetSection, PutSection, Ptr, PlaceInv, Levels
    <2>2. Exclusive'
      BY <1>0, <1>15 DEF PurgeLoad, StateTyped,
         Exclusive, GetSection, PutSection, Held, TypeOK
    <2>3. PlaceInv'
      BY <1>0, <1>15 DEF PurgeLoad, StateTyped,
         PlaceInv, TypeOK, Ptr, Levels, GetSection, PutSection
    <2>4. LoaderInv'
      BY <1>0, <1>15 DEF PurgeLoad, StateTyped,
         LoaderInv, TypeOK, Threads, GetSection, PutSection
    <2>5. SizeInv'
      BY <1>0, <1>15 DEF PurgeLoad, StateTyped, SizeInv, SizeAt, PlaceInv,
         TypeOK, Exclusive, Levels, GetSection, PutSection
    <2>6. FilledInv'
      BY <1>0, <1>15 DEF PurgeLoad, StateTyped, FilledInv, FilledAt, Filled,
         PlaceInv, TypeOK, SizeInv, SizeAt, Exclusive, Levels, GetSection,
         PutSection
    <2> QED BY <2>1, <2>2, <2>3, <2>4, <2>5, <2>6
  <1>16. CASE PurgeSize(t)
    <2>0. PurgeSizeDoes(t)
      BY <1>16, PurgeSizeEffect
    <2>1. TypeOK'
      BY <1>0, <2>0 DEF PurgeSizeDoes, StateTyped,
         TypeOK, Places, GetSection, PutSection, Ptr
    <2>2. Exclusive'
      BY <1>0, <2>0 DEF PurgeSizeDoes, StateTyped,
         Exclusive, GetSection, PutSection, Held, TypeOK
    <2>3. PlaceInv'
      BY <1>0, <2>0 DEF PurgeSizeDoes, StateTyped,
         PlaceInv, TypeOK, Ptr, Levels, GetSection, PutSection
    <2>4. LoaderInv'
      BY <1>0, <2>0 DEF PurgeSizeDoes, StateTyped,
         LoaderInv, TypeOK, Threads, GetSection, PutSection
    <2>5. SizeInv'
      BY <1>0, <2>0 DEF PurgeSizeDoes, StateTyped, SizeInv, SizeAt, PlaceInv,
         TypeOK, Exclusive, Levels, GetSection, PutSection
    <2>6. FilledInv'
      BY <1>0, <2>0 DEF PurgeSizeDoes, StateTyped, FilledInv, FilledAt, Filled,
         PlaceInv, TypeOK, SizeInv, SizeAt, Exclusive, Levels, GetSection,
         PutSection
    <2> QED BY <2>1, <2>2, <2>3, <2>4, <2>5, <2>6
  <1>17. CASE PurgeClear(t)
    <2>0. PurgeClearDoes(t)
      BY <1>17, PurgeClearEffect
    <2>1. TypeOK'
      BY <1>0, <2>0 DEF PurgeClearDoes, StateTyped,
         TypeOK, Places, GetSection, PutSection, Ptr
    <2>2. Exclusive'
      BY <1>0, <2>0 DEF PurgeClearDoes, StateTyped,
         Exclusive, GetSection, PutSection, Held, TypeOK
    <2>3. PlaceInv'
      BY <1>0, <2>0 DEF PurgeClearDoes, StateTyped,
         PlaceInv, TypeOK, Ptr, Levels, GetSection, PutSection
    <2>4. LoaderInv'
      BY <1>0, <2>0 DEF PurgeClearDoes, StateTyped,
         LoaderInv, TypeOK, Threads, GetSection, PutSection
    <2>5. SizeInv'
      BY <1>0, <2>0 DEF PurgeClearDoes, StateTyped, SizeInv, SizeAt, PlaceInv,
         TypeOK, Exclusive, Levels, GetSection, PutSection
    <2>6. FilledInv'
      BY <1>0, <2>0 DEF PurgeClearDoes, StateTyped, FilledInv, FilledAt,
         Filled, PlaceInv, TypeOK, SizeInv, SizeAt, Exclusive, Levels,
         GetSection, PutSection
    <2> QED BY <2>1, <2>2, <2>3, <2>4, <2>5, <2>6
  <1>18. CASE EnqueueStore(t)
    <2>0. EnqueueStoreDoes(t)
      BY <1>18, EnqueueStoreEffect
    <2>1. TypeOK'
      BY <1>0, <2>0 DEF EnqueueStoreDoes, StateTyped,
         TypeOK, Places, GetSection, PutSection, Ptr
    <2>2. Exclusive'
      BY <1>0, <2>0 DEF EnqueueStoreDoes, StateTyped,
         Exclusive, GetSection, PutSection, Held, TypeOK
    <2>3. PlaceInv'
      BY <1>0, <2>0 DEF EnqueueStoreDoes, StateTyped,
         PlaceInv, TypeOK, Ptr, Levels, GetSection, PutSection
    <2>4. LoaderInv'
      BY <1>0, <2>0 DEF EnqueueStoreDoes, StateTyped,
         LoaderInv, TypeOK, Threads, GetSection, PutSection
    <2>5. SizeInv'
      <3> SUFFICES ASSUME NEW u \in Threads PROVE SizeAt(u)'
        BY DEF SizeInv
      <3>1. SizeAt(u)
        BY DEF SizeInv
      <3>2. CASE u = t
        BY <1>0, <2>0, <3>2 DEF EnqueueStoreDoes, SizeAt, TypeOK
      <3>3. CASE u # t
        <4>1. /\ at'[u] = at[u] /\ at[u] \notin {"eload", "esize"}
              /\ lvl'[u] = lvl[u] /\ tmp'[u] = tmp[u] /\ running' = running
          BY <2>0, <3>3 DEF EnqueueStoreDoes, Exclusive, PutSection, TypeOK
        <4>2. \A k \in Levels : ready'[k].size = ready[k].size
          BY <2>0 DEF EnqueueStoreDoes
        <4> QED BY <1>0, <3>1, <4>1, <4>2 DEF SizeAt, StateTyped
      <3> QED BY <3>2, <3>3
    <2>6. FilledInv'
      <3>1. ASSUME NEW k \in Levels, NEW n \in Nat, Filled(ready[k], n)
            PROVE  Filled(ready'[k], n)
        BY <2>0, <3>1, QueueAssumption DEF EnqueueStoreDoes, Filled
      <3>2. \A k \in Levels : /\ ready'[k].size = ready[k].size
                              /\ ready[k].size \in Nat
        BY <1>0, <2>0 DEF EnqueueStoreDoes, StateTyped
      <3>3. ASSUME NEW k \in Levels PROVE Filled(ready'[k], ready'[k].size)
        BY <3>1, <3>2 DEF FilledInv
      <3>4. ASSUME NEW u \in Threads PROVE FilledAt(u)'
        <4>1. CASE u = t
          <5>1. CASE at'[t] = "eload"
            <6> DEFINE k == Prio[proc[t]]
            <6>1. /\ k \in Levels /\ proc[t] \in Procs /\ ready[k].size \in Slots
                  /\ ready'[k].proc[ready[k].size] = proc[t] /\ proc' = proc
              BY <2>0, <5>1 DEF EnqueueStoreDoes, TypeOK
            <6>2. Filled(ready'[k], ready[k].size)
              BY <3>2, <3>3, <6>1
            <6>3. Filled(ready'[k], ready[k].size + 1)
              BY <6>1, <6>2, QueueAssumption DEF Filled, Slots
            <6> QED BY <3>2, <4>1, <5>1, <6>1, <6>3 DEF FilledAt, GetSection
          <5>2. CASE at'[t] # "eload"
            BY <2>0, <4>1, <5>2
            DEF EnqueueStoreDoes, FilledAt, GetSection, TypeOK
          <5> QED BY <5>1, <5>2
        <4>2. CASE u # t
          <5>1. /\ at'[u] = at[u] /\ at[u] \notin {"eload", "esize"}
                /\ proc'[u] = proc[u] /\ lvl'[u] = lvl[u] /\ tmp'[u] = tmp[u]
            BY <2>0, <4>2 DEF EnqueueStoreDoes, Exclusive, PutSection, TypeOK
          <5>2. FilledAt(u) /\ tmp[u] \in Nat
            BY <1>0 DEF FilledInv, StateTyped
          <5>3. at[u] = "dsize" => Filled(ready'[lvl[u]], tmp[u])
            BY <1>0, <3>1, <5>2 DEF FilledAt, StateTyped
          <5> QED BY <5>1, <5>2, <5>3 DEF FilledAt
        <4> QED BY <4>1, <4>2
      <3> QED BY <3>3, <3>4 DEF FilledInv
    <2> QED BY <2>1, <2>2, <2>3, <2>4, <2>5, <2>6
  <1>19. CASE EnqueueLoad(t)
    <2>1. TypeOK'
      BY <1>0, <1>19 DEF EnqueueLoad, StateTyped,
         TypeOK, Places, GetSection, PutSection, Ptr, PlaceInv, Levels
    <2>2. Exclusive'
      BY <1>0, <1>19 DEF EnqueueLoad, StateTyped,
         Exclusive, GetSection, PutSection, Held, TypeOK
    <2>3. PlaceInv'
      BY <1>0, <1>19 DEF EnqueueLoad, StateTyped,
         PlaceInv, TypeOK, Ptr, Levels, GetSection, PutSection
    <2>4. LoaderInv'
      BY <1>0, <1>19 DEF EnqueueLoad, StateTyped,
         LoaderInv, TypeOK, Threads, GetSection, PutSection
    <2>5. SizeInv'
      BY <1>0, <1>19 DEF EnqueueLoad, StateTyped, SizeInv, SizeAt, PlaceInv,
         TypeOK, Exclusive, Levels, GetSection, PutSection
    <2>6. FilledInv'
      BY <1>0, <1>19 DEF EnqueueLoad, StateTyped, FilledInv, FilledAt, Filled,
         PlaceInv, TypeOK, SizeInv, SizeAt, Exclusive, Levels, GetSection,
         PutSection
    <2> QED BY <2>1, <2>2, <2>3, <2>4, <2>5, <2>6
  <1>20. CASE EnqueueSize(t)
    <2>0. EnqueueSizeDoes(t)
      BY <1>20, EnqueueSizeEffect
    <2>1. TypeOK'
      BY <1>0, <2>0 DEF EnqueueSizeDoes, StateTyped,
         TypeOK, Places, GetSection, PutSection, Ptr
    <2>2. Exclusive'
      BY <1>0, <2>0 DEF EnqueueSizeDoes, StateTyped,
         Exclusive, GetSection, PutSection, Held, TypeOK
    <2>3. PlaceInv'
      BY <1>0, <2>0 DEF EnqueueSizeDoes, StateTyped,
         PlaceInv, TypeOK, Ptr, Levels, GetSection, PutSection
    <2>4. LoaderInv'
      BY <1>0, <2>0 DEF EnqueueSizeDoes, StateTyped,
         LoaderInv, TypeOK, Threads, GetSection, PutSection
    <2>5. SizeInv'
      <3> SUFFICES ASSUME NEW u \in Threads PROVE SizeAt(u)'
        BY DEF SizeInv
      <3>1. SizeAt(u)
        BY DEF SizeInv
      <3>2. CASE u = t
        BY <1>0, <2>0, <3>2 DEF EnqueueSizeDoes, SizeAt, TypeOK
      <3>3. CASE u # t
        <4>1. /\ at'[u] = at[u] /\ at[u] \notin {"eload", "esize"}
              /\ lvl'[u] = lvl[u] /\ tmp'[u] = tmp[u] /\ running' = running
          BY <2>0, <3>3 DEF EnqueueSizeDoes, Exclusive, PutSection, TypeOK
        <4>2. \A k \in Levels : ready[k].size > 0 => ready'[k].size > 0
          BY <1>0, <2>0 DEF EnqueueSizeDoes, StateTyped
        <4> QED BY <1>0, <3>1, <4>1, <4>2 DEF SizeAt, StateTyped
      <3> QED BY <3>2, <3>3
    <2>6. FilledInv'
      <3>1. ASSUME NEW k \in Levels, NEW n \in Nat, Filled(ready[k], n)
            PROVE  Filled(ready'[k], n)
        BY <2>0, <3>1 DEF EnqueueSizeDoes, Filled
      <3>2. Filled(ready[Prio[proc[t]]], tmp[t] + 1) /\ tmp[t] + 1 \in Nat
        BY <1>0, <2>0 DEF EnqueueSizeDoes, FilledInv, FilledAt, StateTyped
      <3>3. ASSUME NEW k \in Levels PROVE Filled(ready'[k], ready'[k].size)
        <4>1. CASE k = Prio[proc[t]]
          BY <2>0, <3>1, <3>2, <4>1 DEF EnqueueSizeDoes
        <4>2. CASE k # Prio[proc[t]]
          BY <2>0, <4>2 DEF EnqueueSizeDoes, FilledInv
        <4> QED BY <4>1, <4>2
      <3>4. ASSUME NEW u \in Threads PROVE FilledAt(u)'
        <4>1. CASE u = t
          BY <2>0, <4>1 DEF EnqueueSizeDoes, FilledAt, GetSection, TypeOK
        <4>2. CASE u # t
          <5>1. /\ at'[u] = at[u] /\ at[u] \notin {"eload", "esize"}
                /\ proc'[u] = proc[u] /\ lvl'[u] = lvl[u] /\ tmp'[u] = tmp[u]
            BY <2>0, <4>2 DEF EnqueueSizeDoes, Exclusive, PutSection, TypeOK
          <5>2. FilledAt(u) /\ tmp[u] \in Nat
            BY <1>0 DEF FilledInv, StateTyped
          <5>3. at[u] = "dsize" => Filled(ready'[lvl[u]], tmp[u])
            BY <1>0, <3>1, <5>2 DEF FilledAt, StateTyped
          <5> QED BY <5>1, <5>2, <5>3 DEF FilledAt
        <4> QED BY <4>1, <4>2
      <3> QED BY <3>3, <3>4 DEF FilledInv
    <2> QED BY <2>1, <2>2, <2>3, <2>4, <2>5, <2>6
  <1>21. ASSUME NEW p \in Procs, CallAdd(t, p) PROVE RaceInv'
    <2>1. TypeOK'
      BY <1>0, <1>21 DEF CallAdd, StateTyped,
         TypeOK, Places, GetSection, PutSection, Ptr
    <2>2. Exclusive'
      BY <1>0, <1>21 DEF CallAdd, StateTyped,
         Exclusive, GetSection, PutSection, Held, TypeOK
    <2>3. PlaceInv'
      BY <1>0, <1>21 DEF CallAdd, StateTyped,
         PlaceInv, TypeOK, Ptr, Levels, GetSection, PutSection
    <2>4. LoaderInv'
      BY <1>0, <1>21 DEF CallAdd, StateTyped,
         LoaderInv, TypeOK, Threads, GetSection, PutSection
    <2>5. SizeInv'
      BY <1>0, <1>21 DEF CallAdd, StateTyped, SizeInv, SizeAt, PlaceInv,
         TypeOK, Exclusive, Levels, GetSection, PutSection
    <2>6. FilledInv'
      BY <1>0, <1>21 DEF CallAdd, StateTyped, FilledInv, FilledAt, Filled,
         PlaceInv, TypeOK, SizeInv, SizeAt, Exclusive, Levels, GetSection,
         PutSection
    <2> QED BY <2>1, <2>2, <2>3, <2>4, <2>5, <2>6
  <1> QED BY <1>1, <1>2, <1>3, <1>4, <1>5, <1>6, <1>7, <1>8, <1>9, <1>10,
             <1>11, <1>12, <1>13, <1>14, <1>15, <1>16, <1>17, <1>18, <1>19,
             <1>20, <1>21 DEF Call, get_mlq_proc, put_mlq_proc, Client

\* A step of the specification keeps the invariant.
LEMMA RaceNext == RaceInv /\ [Next]_vars => RaceInv'
  <1> SUFFICES ASSUME RaceInv, [Next]_vars PROVE RaceInv'
    OBVIOUS
  <1>1. CASE \E t \in Threads : Call(t) \/ Client(t)
    BY <1>1, RaceStep
  <1>2. CASE UNCHANGED vars
    BY <1>2
    DEF vars, RaceInv, TypeOK, Exclusive, PlaceInv, LoaderInv, SizeInv, SizeAt,
        FilledInv, FilledAt, Filled
  <1> QED BY <1>1, <1>2 DEF Next, Stop

\* The invariant holds in every reachable state.
LEMMA RaceAlways == Spec => []RaceInv
  BY RaceInit, RaceNext, PTL DEF Spec

\* In every interleaving of get_proc, put_proc and add_proc, with sections of
\* the two locks overlapping as they like, every size stays within
\* 0..MAX_QUEUE_SIZE and every slot written is a slot of the array
\* (queue.c:12-60).
THEOREM SizesStayInRange == Spec => []TypeOK
  <1>1. RaceInv => TypeOK
    BY DEF RaceInv
  <1> QED BY <1>1, RaceAlways, PTL

\* In every interleaving the slots below a ready queue's size hold processes
\* and the pointer get_mlq_proc has read from one is not NULL
\* (sched.c:62-79).
THEOREM NeverHandsOutNull == Spec => []ReadySlotsFilled
  <1>1. RaceInv => ReadySlotsFilled
    BY DEF RaceInv, FilledInv, FilledAt, Filled, ReadySlotsFilled
  <1> QED BY <1>1, RaceAlways, PTL

\* Whatever queue a race leaves behind, enqueue, dequeue and purgequeue do to
\* it what Append, Tail and RemoveFirst do to its contents (queue.c:12-60).
THEOREM QueuesAreSequences == Spec => []QueueIsSequence
  <1>1. TypeOK => QueueIsSequence
    <2> SUFFICES ASSUME TypeOK,
                        NEW q \in {running} \cup {ready[k] : k \in Levels}
                 PROVE
                   LET s == contents(q) IN
                   /\ \A p \in Procs :
                         /\ contents(enqueue(q, p)) =
                               IF Len(s) < MAX_QUEUE_SIZE THEN Append(s, p) ELSE s
                         /\ contents(purgequeue(q, p)) = SeqExt!RemoveFirst(s, p)
                   /\ contents(dequeue(q)) = IF s = <<>> THEN <<>> ELSE Tail(s)
                   /\ front(q) = IF s = <<>> THEN NULL ELSE Head(s)
      BY DEF QueueIsSequence
    <2>1. q \in queue_t
      BY DEF TypeOK
    <2>2. contents(q) \in Seq(Ptr) /\ Len(contents(q)) = q.size
      BY <2>1, ContentsType
    <2>3. contents(q) = <<>> <=> empty(q)
      BY <2>2 DEF empty
    <2>4. CASE empty(q)
      BY <2>1, <2>2, <2>3, <2>4, EnqueueAppends, PurgeRemovesFirst
         DEF dequeue, front
    <2>5. CASE ~empty(q)
      BY <2>1, <2>2, <2>3, <2>5, EnqueueAppends, PurgeRemovesFirst,
         DequeueTakesFirst
    <2> QED BY <2>4, <2>5
  <1> QED BY <1>1, SizesStayInRange, PTL
=============================================================================
