------------------------------- MODULE Queue -------------------------------
(***************************************************************************)
(* src/queue.c: struct queue_t, a fixed array of pcb pointers and a size.  *)
(* Slots are numbered from 0 as in the code; slots at and above size keep  *)
(* whatever was last written to them.  store and shift are the parts of    *)
(* enqueue, dequeue and purgequeue between two accesses to size, which is  *)
(* where another thread can come in (module Sched).                        *)
(***************************************************************************)
EXTENDS Naturals

CONSTANTS Procs,            \* pcb pointers
          NULL,             \* the null pointer
          MAX_QUEUE_SIZE    \* include/queue.h: 50

ASSUME QueueAssumption ==
    /\ MAX_QUEUE_SIZE \in Nat \ {0}
    /\ NULL \notin Procs

Slots == 0 .. MAX_QUEUE_SIZE - 1
Ptr   == Procs \cup {NULL}

\* A static queue_t after init_scheduler.
NewQueue == [proc |-> [i \in Slots |-> NULL], size |-> 0]

queue_t == [proc : [Slots -> Ptr], size : 0 .. MAX_QUEUE_SIZE]

\* Variants: a queue that never looks empty; a limit that is off by one.
empty_Never(q)   == FALSE
full_OffByOne(q) == q.size > MAX_QUEUE_SIZE

empty(q) == q.size = 0
full(q)  == q.size >= MAX_QUEUE_SIZE

\* q->proc[q->size] = p
store(q, p) == [q EXCEPT !.proc[q.size] = p]

\* Variant: the loop stops one entry early.
shift_Short(q, i) ==
    [q EXCEPT !.proc = [j \in Slots |-> IF i <= j /\ j + 2 < q.size
                                          THEN q.proc[j + 1] ELSE q.proc[j]]]

\* The loop that moves every entry behind slot i down by one.
shift(q, i) ==
    [q EXCEPT !.proc = [j \in Slots |-> IF i <= j /\ j + 1 < q.size
                                          THEN q.proc[j + 1] ELSE q.proc[j]]]

enqueue(q, p) ==
    IF p = NULL \/ full(q) THEN q ELSE [store(q, p) EXCEPT !.size = q.size + 1]

\* What dequeue returns, and what it leaves.
front(q)   == IF empty(q) THEN NULL ELSE q.proc[0]
dequeue(q) == IF empty(q) THEN q ELSE [shift(q, 0) EXCEPT !.size = q.size - 1]

\* The slots below size that hold p, and the first of them.
holding(q, p) == {i \in Slots : i < q.size /\ q.proc[i] = p}
first(q, p)   == CHOOSE i \in holding(q, p) : \A j \in holding(q, p) : i <= j

purgequeue(q, p) ==
    IF p = NULL \/ holding(q, p) = {} THEN q
    ELSE [proc |-> [shift(q, first(q, p)).proc EXCEPT ![q.size - 1] = NULL],
          size |-> q.size - 1]

\* The queue as a sequence.
contents(q) == [i \in 1 .. q.size |-> q.proc[i - 1]]

SeqExt == INSTANCE SequencesExt
=============================================================================
