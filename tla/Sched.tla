------------------------------- MODULE Sched -------------------------------
(***************************************************************************)
(* src/sched.c (the MLQ build) over the queues of src/queue.c, called by   *)
(* any number of CPU threads and the loader thread in any order.           *)
(*                                                                         *)
(* get_mlq_proc works under mlq_lock, put_mlq_proc and add_mlq_proc under  *)
(* queue_lock, and both sections read and write the same queues: the two   *)
(* kinds of section exclude their own kind only.  The build has no         *)
(* optimisation (Makefile: CFLAGS = -Wall -c), so q->size++ and q->size--  *)
(* are a load and a store, and an action here is a run of a section's code *)
(* with one access that another section can tell apart from its            *)
(* neighbours.                                                             *)
(*                                                                         *)
(* at[t] is the place of thread t in the call it makes; a lock is held iff *)
(* some thread is at a place of its section.  proc[t] is the pcb pointer   *)
(* the thread works on: the variable proc of cpu_routine and ld_routine,   *)
(* NULL as soon as the thread has handed the process over.                 *)
(***************************************************************************)
EXTENDS Queue, Sequences, FiniteSets

CONSTANTS CPUs, Loader,
          MAX_PRIO,       \* include/os-cfg.h: 140
          Prio            \* proc->prio, set once by the loader

ASSUME SchedAssumption ==
    /\ MAX_PRIO \in Nat \ {0}
    /\ Prio \in [Procs -> Nat]
    /\ Loader \notin CPUs

Threads == CPUs \cup {Loader}
Levels  == 0 .. MAX_PRIO - 1

VARIABLES
    ready,      \* mlq_ready_queue
    running,    \* running_list
    at, proc,   \* each thread's place and pcb pointer
    lvl, tmp,   \* the locals prio of get_mlq_proc and the loaded size,
                \* 0 while they are not in use
    life,       \* "new", "live", "freed" or, when no queue took it, "dropped"
    overlap     \* history: a get section and a put or add section have met

vars == <<ready, running, at, proc, lvl, tmp, life, overlap>>

GetSection == {"scan", "dload", "dsize", "rstore", "rload", "rsize"}
PutSection == {"purge", "pload", "psize", "pclear", "estore", "eload", "esize"}
Places     == {"none", "get", "put", "add"} \cup GetSection \cup PutSection

Held(section) == \E t \in Threads : at[t] \in section

Init ==
    /\ ready = [k \in Levels |-> NewQueue]
    /\ running = NewQueue
    /\ at = [t \in Threads |-> "none"]
    /\ proc = [t \in Threads |-> NULL]
    /\ lvl = [t \in Threads |-> 0]
    /\ tmp = [t \in Threads |-> 0]
    /\ life = [p \in Procs |-> "new"]
    /\ overlap = FALSE

Goto(t, place) == at' = [at EXCEPT ![t] = place]

-----------------------------------------------------------------------------
(* The calls.                                                              *)

CallGet(t) ==
    /\ t \in CPUs /\ at[t] = "none" /\ proc[t] = NULL
    /\ Goto(t, "get")
    /\ UNCHANGED <<ready, running, proc, lvl, tmp, life, overlap>>

CallPut(t) ==
    /\ t \in CPUs /\ at[t] = "none" /\ proc[t] # NULL
    /\ Goto(t, "put")
    /\ UNCHANGED <<ready, running, proc, lvl, tmp, life, overlap>>

CallAdd(t, p) ==
    /\ t = Loader /\ at[t] = "none" /\ life[p] = "new"
    /\ Goto(t, "add")
    /\ proc' = [proc EXCEPT ![t] = p]
    /\ life' = [life EXCEPT ![p] = "live"]
    /\ UNCHANGED <<ready, running, lvl, tmp, overlap>>

\* free(proc): the process has run to its end.  No queue is told.  A later
\* process is a pcb of its own: that malloc may give it the freed address, which
\* running still holds, is left out.
Free(t) ==
    /\ t \in CPUs /\ at[t] = "none" /\ proc[t] # NULL
    /\ life' = [life EXCEPT ![proc[t]] = "freed"]
    /\ proc' = [proc EXCEPT ![t] = NULL]
    /\ UNCHANGED <<ready, running, at, lvl, tmp, overlap>>

-----------------------------------------------------------------------------
(* get_mlq_proc, under mlq_lock.                                           *)

\* Variant: the scan leaves out the most urgent queue.
GetLock_FromOne(t) ==
    /\ at[t] = "get" /\ ~Held(GetSection)
    /\ Goto(t, "scan")
    /\ lvl' = [lvl EXCEPT ![t] = 1]
    /\ overlap' = (overlap \/ Held(PutSection))
    /\ UNCHANGED <<ready, running, proc, tmp, life>>

GetLock(t) ==
    /\ at[t] = "get" /\ ~Held(GetSection)
    /\ Goto(t, "scan")
    /\ overlap' = (overlap \/ Held(PutSection))
    /\ UNCHANGED <<ready, running, proc, lvl, tmp, life>>

ScanNext(t) ==
    /\ at[t] = "scan" /\ lvl[t] < MAX_PRIO /\ empty(ready[lvl[t]])
    /\ lvl' = [lvl EXCEPT ![t] = lvl[t] + 1]
    /\ UNCHANGED <<ready, running, at, proc, tmp, life, overlap>>

\* No queue has a process: unlock and return NULL.
ScanNone(t) ==
    /\ at[t] = "scan" /\ lvl[t] = MAX_PRIO
    /\ Goto(t, "none")
    /\ lvl' = [lvl EXCEPT ![t] = 0]
    /\ UNCHANGED <<ready, running, proc, tmp, life, overlap>>

\* dequeue: read slot 0 and move the rest down; size follows.
ScanTake(t) ==
    /\ at[t] = "scan" /\ lvl[t] < MAX_PRIO /\ ~empty(ready[lvl[t]])
    /\ proc' = [proc EXCEPT ![t] = front(ready[lvl[t]])]
    /\ ready' = [ready EXCEPT ![lvl[t]] = shift(@, 0)]
    /\ Goto(t, "dload")
    /\ UNCHANGED <<running, lvl, tmp, life, overlap>>

DequeueLoad(t) ==
    /\ at[t] = "dload"
    /\ tmp' = [tmp EXCEPT ![t] = ready[lvl[t]].size]
    /\ Goto(t, "dsize")
    /\ UNCHANGED <<ready, running, proc, lvl, life, overlap>>

DequeueSize(t) ==
    /\ at[t] = "dsize"
    /\ ready' = [ready EXCEPT ![lvl[t]].size = tmp[t] - 1]
    /\ Goto(t, "rstore")
    /\ tmp' = [tmp EXCEPT ![t] = 0]
    /\ lvl' = [lvl EXCEPT ![t] = 0]
    /\ UNCHANGED <<running, proc, life, overlap>>

\* Variant: the entry goes into the slot behind the free one.
RunningStore_SkipSlot(t) ==
    /\ at[t] = "rstore"
    /\ IF running.size + 1 >= MAX_QUEUE_SIZE
         THEN Goto(t, "none") /\ UNCHANGED running
         ELSE /\ Goto(t, "rload")
              /\ running' = [running EXCEPT !.proc[running.size + 1] = proc[t]]
    /\ UNCHANGED <<ready, proc, lvl, tmp, life, overlap>>

\* enqueue(&running_list, proc): a full list is left alone.
RunningStore(t) ==
    /\ at[t] = "rstore"
    /\ IF full(running)
         THEN Goto(t, "none") /\ UNCHANGED running
         ELSE Goto(t, "rload") /\ running' = store(running, proc[t])
    /\ UNCHANGED <<ready, proc, lvl, tmp, life, overlap>>

RunningLoad(t) ==
    /\ at[t] = "rload"
    /\ tmp' = [tmp EXCEPT ![t] = running.size]
    /\ Goto(t, "rsize")
    /\ UNCHANGED <<ready, running, proc, lvl, life, overlap>>

\* ... unlock and return the process.
RunningSize(t) ==
    /\ at[t] = "rsize"
    /\ running' = [running EXCEPT !.size = tmp[t] + 1]
    /\ Goto(t, "none")
    /\ tmp' = [tmp EXCEPT ![t] = 0]
    /\ UNCHANGED <<ready, proc, lvl, life, overlap>>

-----------------------------------------------------------------------------
(* put_mlq_proc and add_mlq_proc, under queue_lock.                        *)

\* Variant: queue_lock is not taken.
PutLock_NoLock(t) ==
    /\ at[t] \in {"put", "add"}
    /\ Goto(t, IF at[t] = "put" THEN "purge" ELSE "estore")
    /\ overlap' = (overlap \/ Held(GetSection))
    /\ UNCHANGED <<ready, running, proc, lvl, tmp, life>>

PutLock(t) ==
    /\ at[t] \in {"put", "add"} /\ ~Held(PutSection)
    /\ Goto(t, IF at[t] = "put" THEN "purge" ELSE "estore")
    /\ overlap' = (overlap \/ Held(GetSection))
    /\ UNCHANGED <<ready, running, proc, lvl, tmp, life>>

\* Variant: the head of the list is removed instead of proc.
Purge_Head(t) ==
    /\ at[t] = "purge"
    /\ IF holding(running, proc[t]) = {}
         THEN Goto(t, "estore") /\ UNCHANGED running
         ELSE /\ Goto(t, "pload")
              /\ running' = shift(running, 0)
    /\ UNCHANGED <<ready, proc, lvl, tmp, life, overlap>>

\* purgequeue(&running_list, proc), in four parts when proc is there.
Purge(t) ==
    /\ at[t] = "purge"
    /\ IF holding(running, proc[t]) = {}
         THEN Goto(t, "estore") /\ UNCHANGED running
         ELSE /\ Goto(t, "pload")
              /\ running' = shift(running, first(running, proc[t]))
    /\ UNCHANGED <<ready, proc, lvl, tmp, life, overlap>>

PurgeLoad(t) ==
    /\ at[t] = "pload"
    /\ tmp' = [tmp EXCEPT ![t] = running.size]
    /\ Goto(t, "psize")
    /\ UNCHANGED <<ready, running, proc, lvl, life, overlap>>

PurgeSize(t) ==
    /\ at[t] = "psize"
    /\ running' = [running EXCEPT !.size = tmp[t] - 1]
    /\ Goto(t, "pclear")
    /\ tmp' = [tmp EXCEPT ![t] = 0]
    /\ UNCHANGED <<ready, proc, lvl, life, overlap>>

\* q->proc[q->size] = NULL with a size read anew; one past the last slot of
\* struct queue_t lies size itself.
PurgeClear(t) ==
    /\ at[t] = "pclear"
    /\ running' = IF running.size = MAX_QUEUE_SIZE
                    THEN [running EXCEPT !.size = 0]
                    ELSE store(running, NULL)
    /\ Goto(t, "estore")
    /\ UNCHANGED <<ready, proc, lvl, tmp, life, overlap>>

\* enqueue into the queue of the process's priority.  A priority that has no
\* queue, or a full queue, loses the process: unlock and return.
EnqueueStore(t) ==
    LET p == proc[t] IN
    /\ at[t] = "estore"
    /\ IF Prio[p] >= MAX_PRIO \/ full(ready[Prio[p]])
         THEN /\ Goto(t, "none")
              /\ life' = [life EXCEPT ![p] = "dropped"]
              /\ proc' = [proc EXCEPT ![t] = NULL]
              /\ UNCHANGED ready
         ELSE /\ Goto(t, "eload")
              /\ ready' = [ready EXCEPT ![Prio[p]] = store(@, p)]
              /\ UNCHANGED <<life, proc>>
    /\ UNCHANGED <<running, lvl, tmp, overlap>>

EnqueueLoad(t) ==
    /\ at[t] = "eload"
    /\ tmp' = [tmp EXCEPT ![t] = ready[Prio[proc[t]]].size]
    /\ Goto(t, "esize")
    /\ UNCHANGED <<ready, running, proc, lvl, life, overlap>>

EnqueueSize(t) ==
    /\ at[t] = "esize"
    /\ ready' = [ready EXCEPT ![Prio[proc[t]]].size = tmp[t] + 1]
    /\ Goto(t, "none")
    /\ proc' = [proc EXCEPT ![t] = NULL]
    /\ tmp' = [tmp EXCEPT ![t] = 0]
    /\ UNCHANGED <<running, lvl, life, overlap>>

-----------------------------------------------------------------------------
\* What a thread does inside its call.
get_mlq_proc(t) ==
    \/ GetLock(t) \/ ScanNext(t) \/ ScanNone(t) \/ ScanTake(t)
    \/ DequeueLoad(t) \/ DequeueSize(t)
    \/ RunningStore(t) \/ RunningLoad(t) \/ RunningSize(t)

put_mlq_proc(t) ==
    \/ PutLock(t) \/ Purge(t) \/ PurgeLoad(t) \/ PurgeSize(t) \/ PurgeClear(t)
    \/ EnqueueStore(t) \/ EnqueueLoad(t) \/ EnqueueSize(t)

Call(t) == get_mlq_proc(t) \/ put_mlq_proc(t)

Client(t) ==
    \/ CallGet(t) \/ CallPut(t) \/ Free(t)
    \/ \E p \in Procs : CallAdd(t, p)

\* Two CPUs have the same pcb, or one has a pcb that was freed.  What the
\* program does from there on depends on the allocator: the model stops.
Clash ==
    \E c \in CPUs :
        /\ proc[c] # NULL
        /\ \/ life[proc[c]] = "freed"
           \/ \E d \in CPUs \ {c} : proc[d] = proc[c]

Stop == Clash /\ UNCHANGED vars

Next ==
    \/ ~Clash /\ \E t \in Threads : Call(t) \/ Client(t)
    \/ Stop

Spec == Init /\ [][Next]_vars

-----------------------------------------------------------------------------
(* Properties.                                                             *)

\* Type invariant.  It holds through every race of the two locks: no size
\* leaves 0..MAX_QUEUE_SIZE (queue.c:17, queue.c:37, queue.c:55).
TypeOK ==
    /\ ready \in [Levels -> queue_t]
    /\ running \in queue_t
    /\ at \in [Threads -> Places]
    /\ proc \in [Threads -> Ptr]
    /\ lvl \in [Threads -> 0 .. MAX_PRIO]
    /\ tmp \in [Threads -> 0 .. MAX_QUEUE_SIZE]
    /\ life \in [Procs -> {"new", "live", "freed", "dropped"}]
    /\ overlap \in BOOLEAN

\* get_proc never hands out NULL from a queue it found non-empty, whatever
\* has raced with it (sched.c:69-79): the slots below size hold processes.
ReadySlotsFilled ==
    /\ \A k \in Levels : \A i \in Slots :
          i < ready[k].size => ready[k].proc[i] # NULL
    /\ \A t \in Threads : at[t] \in GetSection \ {"scan"} => proc[t] # NULL

\* From every queue the scheduler's races can leave behind, with duplicates
\* and whatever the slots above size hold: enqueue appends, or does nothing
\* on a full queue; dequeue takes the first entry and keeps the order of the
\* rest; purgequeue removes the first entry that is proc and keeps the order
\* of the rest (queue.c:12-60).
QueueIsSequence ==
    \A q \in {running} \cup {ready[k] : k \in Levels} :
        LET s == contents(q) IN
        /\ \A p \in Procs :
              /\ contents(enqueue(q, p)) =
                    IF Len(s) < MAX_QUEUE_SIZE THEN Append(s, p) ELSE s
              /\ contents(purgequeue(q, p)) = SeqExt!RemoveFirst(s, p)
        /\ contents(dequeue(q)) = IF s = <<>> THEN <<>> ELSE Tail(s)
        /\ front(q) = IF s = <<>> THEN NULL ELSE Head(s)

\* Nobody is inside the scheduler.
Quiet == ~Held(GetSection) /\ ~Held(PutSection)

\* The places p is at: the threads that have it and the ready slots.
PlacesOf(p) ==
    {t \in Threads : proc[t] = p} \cup
    {slot \in Levels \X Slots :
        LET q == ready[slot[1]] IN slot[2] < q.size /\ q.proc[slot[2]] = p}

\* Every live process is with exactly one thread or in exactly one slot of
\* the queue of its priority, and no other process is anywhere.
EachInOnePlace ==
    Quiet => \A p \in Procs :
        /\ Cardinality(PlacesOf(p)) = IF life[p] = "live" THEN 1 ELSE 0
        /\ \A k \in Levels : holding(ready[k], p) # {} => k = Prio[p]

\* No process is lost or duplicated as long as no get section has overlapped
\* a put or add section (sched.c:62-118).
OnePlace == overlap \/ EachInOnePlace

\* The same for running_list: as long as no sections overlap, the process a
\* CPU runs is in it exactly once, so that a system call finds its caller
\* (sys_mem.c:34-62).  The list must be large enough for all processes.
HeldIsListed ==
    \/ overlap
    \/ Quiet => \A c \in CPUs : proc[c] # NULL =>
                    Cardinality(holding(running, proc[c])) = 1

\* The queues as sequences; a dequeue counts from the moment it has read
\* slot 0.
ReadySeq(k) ==
    IF \E t \in Threads : at[t] \in {"dload", "dsize"} /\ lvl[t] = k
      THEN SubSeq(contents(ready[k]), 1, ready[k].size - 1)
      ELSE contents(ready[k])

MLQ == INSTANCE Mlq WITH rq <- [k \in Levels |-> ReadySeq(k)], own <- proc

\* Refinement: as long as no sections overlap, the arrays, sizes and loops
\* behave as one FIFO queue per priority served in the order of priority.
ImplementsMlq ==
    MLQ!Init /\ [][overlap' \/ MLQ!Next]_(MLQ!mlqVars)

\* Stated without the proviso: the locks alone keep every process in one
\* place (sched.c:107-108, sched.c:111).
NeverLost == EachInOnePlace
=============================================================================
