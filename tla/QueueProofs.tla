---------------------------- MODULE QueueProofs ----------------------------
(***************************************************************************)
(* Proofs about the arrays of src/queue.c, for every MAX_QUEUE_SIZE: what  *)
(* a store and the loop of a dequeue or a purge leave in the slots, and    *)
(* that enqueue, dequeue and purgequeue are the operations of a sequence.  *)
(***************************************************************************)
EXTENDS Queue, TLAPS, NaturalsInduction, WellFoundedInduction,
        SequenceTheorems

\* The entry a thread finds in a slot is a pointer, and the size is a number.
LEMMA QueueType ==
    ASSUME NEW q \in queue_t
    PROVE  /\ q = [proc |-> q.proc, size |-> q.size]
           /\ q.size \in 0 .. MAX_QUEUE_SIZE
           /\ q.size \in Nat
           /\ MAX_QUEUE_SIZE \in Nat
           /\ q.proc \in [Slots -> Ptr]
           /\ \A i \in Slots : q.proc[i] \in Ptr
  BY QueueAssumption DEF queue_t

\* The queue init_scheduler makes.
LEMMA NewQueueProps ==
    /\ NewQueue \in queue_t
    /\ NewQueue.size = 0
    /\ \A i \in Slots : NewQueue.proc[i] = NULL
  BY QueueAssumption DEF NewQueue, queue_t, Ptr

\* q->size = n changes the size and nothing else.
LEMMA SizeProps ==
    ASSUME NEW q \in queue_t, NEW n \in 0 .. MAX_QUEUE_SIZE
    PROVE  /\ [q EXCEPT !.size = n] \in queue_t
           /\ [q EXCEPT !.size = n].size = n
           /\ [q EXCEPT !.size = n].proc = q.proc
  BY DEF queue_t

\* q->proc[q->size] = p on a queue that is not full (queue.c:20): one slot
\* changes.
LEMMA StoreProps ==
    ASSUME NEW q \in queue_t, NEW p \in Ptr, q.size < MAX_QUEUE_SIZE
    PROVE  /\ store(q, p) \in queue_t
           /\ store(q, p).size = q.size
           /\ q.size \in Slots
           /\ store(q, p).proc[q.size] = p
           /\ \A i \in Slots : i # q.size => store(q, p).proc[i] = q.proc[i]
  BY QueueAssumption DEF queue_t, store, Slots

\* The loop that closes the gap at slot i (queue.c:33-36, queue.c:49-52).
LEMMA ShiftProps ==
    ASSUME NEW q \in queue_t, NEW i \in Nat
    PROVE  /\ shift(q, i) \in queue_t
           /\ shift(q, i).size = q.size
           /\ \A j \in Slots :
                 shift(q, i).proc[j] = IF i <= j /\ j + 1 < q.size
                                         THEN q.proc[j + 1] ELSE q.proc[j]
           /\ \A j \in Slots : j + 1 < q.size => j + 1 \in Slots
  <1>1. q.size \in 0 .. MAX_QUEUE_SIZE /\ q.proc \in [Slots -> Ptr]
    BY QueueType
  <1>2. \A j \in Slots : j + 1 < q.size => j + 1 \in Slots
    BY <1>1, QueueAssumption DEF Slots
  <1> DEFINE f == [j \in Slots |-> IF i <= j /\ j + 1 < q.size
                                     THEN q.proc[j + 1] ELSE q.proc[j]]
  <1>3. f \in [Slots -> Ptr]
    BY <1>1, <1>2
  <1>4. shift(q, i) = [q EXCEPT !.proc = f]
    BY DEF shift
  <1> HIDE DEF f
  <1>5. /\ shift(q, i).proc = f
        /\ shift(q, i).size = q.size
        /\ shift(q, i) \in queue_t
    BY <1>3, <1>4 DEF queue_t
  <1> QED BY <1>2, <1>5 DEF f

\* When the list holds p, purgequeue's search stops at the first slot that
\* does (queue.c:45-47).
LEMMA FirstProps ==
    ASSUME NEW q \in queue_t, NEW p, holding(q, p) # {}
    PROVE  /\ first(q, p) \in holding(q, p)
           /\ \A j \in holding(q, p) : first(q, p) <= j
           /\ first(q, p) \in Slots
           /\ first(q, p) \in Nat
           /\ first(q, p) < q.size
           /\ q.proc[first(q, p)] = p
  <1> DEFINE H == holding(q, p)
  <1>1. H \subseteq Nat /\ H \subseteq Slots
    BY QueueAssumption DEF holding, Slots
  <1> DEFINE R == {ss \in Nat \X Nat : ss[1] < ss[2]}
  <1>2. IsWellFoundedOn(R, Nat)
    BY NatLessThanWellFounded DEF OpToRel
  <1>3. \A a, b \in Nat : a < b => <<a, b>> \in R
    OBVIOUS
  <1> HIDE DEF R
  <1>4. PICK x \in H : \A y \in H : ~(<<y, x>> \in R)
    BY <1>1, <1>2, WFMin, Zenon
  <1>5. \A y \in H : ~(y < x)
    BY <1>1, <1>4, <1>3, Zenon
  <1> HIDE DEF H
  <1>6. \A y \in H : x <= y
    BY <1>1, <1>5
  <1>7. first(q, p) \in H /\ \A j \in H : first(q, p) <= j
    BY <1>6 DEF first, H
  <1> QED BY <1>1, <1>7 DEF holding, H

-----------------------------------------------------------------------------
(* The queue as a sequence.                                                *)

\* contents is a sequence of as many pointers as size says.
LEMMA ContentsType ==
    ASSUME NEW q \in queue_t
    PROVE  /\ contents(q) \in Seq(Ptr)
           /\ Len(contents(q)) = q.size
           /\ \A i \in 1 .. q.size :
                 /\ contents(q)[i] = q.proc[i - 1]
                 /\ i - 1 \in Slots
  <1>1. \A i \in 1 .. q.size : i - 1 \in Slots
    BY QueueType DEF Slots
  <1>2. \A i \in 1 .. q.size : q.proc[i - 1] \in Ptr
    BY <1>1, QueueType
  <1>3. contents(q) \in [1 .. q.size -> Ptr] /\ q.size \in Nat
    BY <1>2, QueueType DEF contents
  <1>4. contents(q) \in Seq(Ptr) /\ Len(contents(q)) = q.size
    BY <1>3
  <1>5. \A i \in 1 .. q.size : contents(q)[i] = q.proc[i - 1]
    BY DEF contents
  <1> QED BY <1>1, <1>4, <1>5

\* Writing the slot above size and then counting it appends the entry
\* (enqueue, queue.c:20-21).
LEMMA ContentsAppend ==
    ASSUME NEW q \in queue_t, NEW r \in queue_t, NEW p \in Ptr,
           r.size = q.size + 1, r.proc[q.size] = p,
           \A i \in Slots : i < q.size => r.proc[i] = q.proc[i]
    PROVE  contents(r) = Append(contents(q), p)
  <1>1. /\ contents(q) \in Seq(Ptr) /\ Len(contents(q)) = q.size
        /\ \A i \in 1 .. q.size : /\ contents(q)[i] = q.proc[i - 1]
                                  /\ i - 1 \in Slots
    BY ContentsType
  <1>2. /\ contents(r) \in Seq(Ptr) /\ Len(contents(r)) = r.size
        /\ \A i \in 1 .. r.size : contents(r)[i] = r.proc[i - 1]
    BY ContentsType
  <1>3. q.size \in Nat
    BY QueueType
  <1>4. /\ Append(contents(q), p) \in Seq(Ptr)
        /\ Len(Append(contents(q), p)) = q.size + 1
        /\ Append(contents(q), p)[q.size + 1] = p
        /\ \A i \in 1 .. q.size : Append(contents(q), p)[i] = contents(q)[i]
    BY <1>1, AppendProperties
  <1>5. ASSUME NEW i \in 1 .. q.size + 1
        PROVE  contents(r)[i] = Append(contents(q), p)[i]
    <2>1. CASE i = q.size + 1
      BY <1>2, <1>3, <1>4, <2>1
    <2>2. CASE i # q.size + 1
      <3>1. i \in 1 .. q.size /\ i \in 1 .. r.size /\ i - 1 < q.size
        BY <1>3, <2>2
      <3> QED BY <1>1, <1>2, <1>4, <3>1
    <2> QED BY <2>1, <2>2
  <1> QED BY <1>2, <1>4, <1>5, SeqEqual

\* An entry below size - 1 of a queue whose loop has run is the next one of
\* the queue before: dropping the first entry (dequeue, queue.c:32-37).
LEMMA ContentsTail ==
    ASSUME NEW q \in queue_t, NEW r \in queue_t,
           q.size > 0, r.size = q.size - 1,
           \A i \in Slots : i + 1 < q.size => r.proc[i] = q.proc[i + 1]
    PROVE  /\ contents(q) # <<>>
           /\ Head(contents(q)) = q.proc[0]
           /\ contents(r) = Tail(contents(q))
  <1>1. /\ contents(q) \in Seq(Ptr) /\ Len(contents(q)) = q.size
        /\ \A i \in 1 .. q.size : /\ contents(q)[i] = q.proc[i - 1]
                                  /\ i - 1 \in Slots
    BY ContentsType
  <1>2. /\ contents(r) \in Seq(Ptr) /\ Len(contents(r)) = r.size
        /\ \A i \in 1 .. r.size : /\ contents(r)[i] = r.proc[i - 1]
                                  /\ i - 1 \in Slots
    BY ContentsType
  <1>3. q.size \in Nat
    BY QueueType
  <1>4. contents(q) # <<>>
    BY <1>1, <1>3
  <1>5. Head(contents(q)) = q.proc[0]
    BY <1>1, <1>3, <1>4
  <1>6. /\ Tail(contents(q)) \in Seq(Ptr)
        /\ Len(Tail(contents(q))) = q.size - 1
        /\ \A i \in 1 .. q.size - 1 : Tail(contents(q))[i] = contents(q)[i + 1]
    BY <1>1, <1>3, <1>4, HeadTailProperties
  <1>7. ASSUME NEW i \in 1 .. q.size - 1
        PROVE  contents(r)[i] = Tail(contents(q))[i]
    <2>1. i \in 1 .. r.size /\ i + 1 \in 1 .. q.size /\ (i - 1) + 1 < q.size
      BY <1>3
    <2>2. contents(r)[i] = q.proc[(i - 1) + 1]
      BY <1>2, <2>1
    <2>3. Tail(contents(q))[i] = q.proc[(i + 1) - 1]
      BY <1>1, <1>6, <2>1
    <2>4. (i - 1) + 1 = (i + 1) - 1
      OBVIOUS
    <2> QED BY <2>2, <2>3, <2>4
  <1> QED BY <1>2, <1>4, <1>5, <1>6, <1>7, SeqEqual

\* The slots below size are all that contents depends on.
LEMMA ContentsEqual ==
    ASSUME NEW q \in queue_t, NEW r \in queue_t, r.size = q.size,
           \A i \in Slots : i < q.size => r.proc[i] = q.proc[i]
    PROVE  contents(r) = contents(q)
  <1>1. \A i \in 1 .. q.size : i - 1 \in Slots /\ i - 1 < q.size
    BY ContentsType, QueueType
  <1> QED BY <1>1 DEF contents

\* enqueue appends to a queue that is not full and leaves a full one alone
\* (queue.c:12-22).
THEOREM EnqueueAppends ==
    ASSUME NEW q \in queue_t, NEW p \in Procs
    PROVE  /\ enqueue(q, p) \in queue_t
           /\ contents(enqueue(q, p)) =
                 IF q.size < MAX_QUEUE_SIZE THEN Append(contents(q), p)
                                            ELSE contents(q)
  <1>1. CASE q.size < MAX_QUEUE_SIZE
    <2> DEFINE s == store(q, p)
               r == [s EXCEPT !.size = q.size + 1]
    <2>1. p \in Ptr /\ p # NULL
      BY QueueAssumption DEF Ptr
    <2>2. enqueue(q, p) = r
      BY <1>1, <2>1, QueueType DEF enqueue, full
    <2>3. /\ s \in queue_t /\ s.size = q.size
          /\ q.size \in Slots /\ s.proc[q.size] = p
          /\ \A i \in Slots : i # q.size => s.proc[i] = q.proc[i]
      BY <1>1, <2>1, StoreProps
    <2>4. q.size + 1 \in 0 .. MAX_QUEUE_SIZE
      BY <1>1, QueueType
    <2> HIDE DEF s
    <2>5. r \in queue_t /\ r.size = q.size + 1 /\ r.proc = s.proc
      BY <2>3, <2>4, SizeProps
    <2> HIDE DEF r
    <2>6. \A i \in Slots : i < q.size => i # q.size
      BY QueueType
    <2>7. contents(r) = Append(contents(q), p)
      BY <2>1, <2>3, <2>5, <2>6, ContentsAppend
    <2> QED BY <1>1, <2>2, <2>5, <2>7
  <1>2. CASE ~(q.size < MAX_QUEUE_SIZE)
    BY <1>2, QueueType DEF enqueue, full
  <1> QED BY <1>1, <1>2

\* dequeue returns the first entry of a queue that is not empty and keeps
\* the order of the rest (queue.c:25-40).
THEOREM DequeueTakesFirst ==
    ASSUME NEW q \in queue_t, ~empty(q)
    PROVE  /\ dequeue(q) \in queue_t
           /\ contents(q) # <<>>
           /\ front(q) = Head(contents(q))
           /\ contents(dequeue(q)) = Tail(contents(q))
  <1> DEFINE s == shift(q, 0)
             r == [s EXCEPT !.size = q.size - 1]
  <1>1. q.size > 0 /\ q.size - 1 \in 0 .. MAX_QUEUE_SIZE
    BY QueueType DEF empty
  <1>2. /\ s \in queue_t /\ s.size = q.size
        /\ \A j \in Slots :
              s.proc[j] = IF 0 <= j /\ j + 1 < q.size
                            THEN q.proc[j + 1] ELSE q.proc[j]
    BY ShiftProps
  <1>3. dequeue(q) = r
    BY DEF dequeue
  <1> HIDE DEF s
  <1>4. r \in queue_t /\ r.size = q.size - 1 /\ r.proc = s.proc
    BY <1>1, <1>2, SizeProps
  <1> HIDE DEF r
  <1>5. \A i \in Slots : i + 1 < q.size => r.proc[i] = q.proc[i + 1]
    BY <1>2, <1>4 DEF Slots
  <1>6. /\ contents(q) # <<>>
        /\ Head(contents(q)) = q.proc[0]
        /\ contents(r) = Tail(contents(q))
    BY <1>1, <1>4, <1>5, ContentsTail
  <1> QED BY <1>3, <1>4, <1>6 DEF front

\* RemoveFirst leaves out the first entry that is p, at index i.
LEMMA RemoveFirstAt ==
    ASSUME NEW s \in Seq(Ptr), NEW p, NEW i \in 1 .. Len(s), s[i] = p,
           \A j \in 1 .. Len(s) : s[j] = p => i <= j
    PROVE  SeqExt!RemoveFirst(s, p) =
              SubSeq(s, 1, i - 1) \o SubSeq(s, i + 1, Len(s))
  <1> DEFINE I == {j \in 1 .. Len(s) : s[j] = p}
             m == CHOOSE x \in I : \A y \in I : x <= y
  <1>1. i \in I /\ \A y \in I : i <= y
    OBVIOUS
  <1>2. m \in I /\ \A y \in I : m <= y
    BY <1>1
  <1>3. m = i
    BY <1>1, <1>2
  <1>4. SeqExt!SelectInSeq(s, LAMBDA v : v = p) = m
    BY <1>1 DEF SeqExt!SelectInSeq, SeqExt!Min
  <1> HIDE DEF I, m
  <1> QED BY <1>3, <1>4 DEF SeqExt!RemoveFirst, SeqExt!RemoveAt

\* Without p there is nothing to remove.
LEMMA RemoveFirstNone ==
    ASSUME NEW s \in Seq(Ptr), NEW p, \A j \in 1 .. Len(s) : s[j] # p
    PROVE  SeqExt!RemoveFirst(s, p) = s
  BY DEF SeqExt!RemoveFirst

\* Leaving out entry i of a sequence moves those behind it down by one.
LEMMA CutProps ==
    ASSUME NEW s \in Seq(Ptr), NEW i \in 1 .. Len(s)
    PROVE  LET c == SubSeq(s, 1, i - 1) \o SubSeq(s, i + 1, Len(s)) IN
           /\ c \in Seq(Ptr)
           /\ Len(c) = Len(s) - 1
           /\ \A j \in 1 .. Len(s) - 1 :
                 c[j] = IF j < i THEN s[j] ELSE s[j + 1]
  <1>1. PICK n \in Nat : n = Len(s) /\ i \in 1 .. n
    OBVIOUS
  <1> DEFINE a == SubSeq(s, 1, i - 1)
             b == SubSeq(s, i + 1, Len(s))
  <1>2. /\ a \in Seq(Ptr)
        /\ Len(a) = IF 1 <= i - 1 THEN (i - 1) - 1 + 1 ELSE 0
        /\ \A j \in 1 .. (i - 1) - 1 + 1 : a[j] = s[1 + j - 1]
    <2>1. 1 \in Int /\ i - 1 \in Int /\ \A j \in 1 .. i - 1 : s[j] \in Ptr
      BY <1>1
    <2> QED BY <2>1, SubSeqProperties
  <1>3. /\ b \in Seq(Ptr)
        /\ Len(b) = IF i + 1 <= Len(s) THEN Len(s) - (i + 1) + 1 ELSE 0
        /\ \A j \in 1 .. Len(s) - (i + 1) + 1 : b[j] = s[(i + 1) + j - 1]
    <2>1. /\ i + 1 \in Int /\ Len(s) \in Int
          /\ \A j \in i + 1 .. Len(s) : s[j] \in Ptr
      BY <1>1
    <2> QED BY <2>1, SubSeqProperties
  <1> HIDE DEF a, b
  <1>4. /\ a \o b \in Seq(Ptr) /\ Len(a \o b) = Len(a) + Len(b)
        /\ \A j \in 1 .. Len(a) + Len(b) :
              (a \o b)[j] = IF j <= Len(a) THEN a[j] ELSE b[j - Len(a)]
    BY <1>2, <1>3, ConcatProperties
  <1>5. Len(a) = i - 1 /\ Len(b) = n - i /\ Len(a) + Len(b) = n - 1
    <2>1. Len(a) = i - 1
      BY <1>1, <1>2
    <2>2. Len(b) = n - i
      BY <1>1, <1>3
    <2> QED BY <1>1, <2>1, <2>2
  <1>6. ASSUME NEW j \in 1 .. n - 1
        PROVE  (a \o b)[j] = IF j < i THEN s[j] ELSE s[j + 1]
    <2>1. CASE j < i
      BY <1>1, <1>2, <1>4, <1>5, <2>1
    <2>2. CASE ~(j < i)
      <3>1. PICK k \in Int : k = j - (i - 1)
        BY <1>1
      <3>2. k \in 1 .. n - (i + 1) + 1 /\ (i + 1) + k - 1 = j + 1
        BY <1>1, <2>2, <3>1
      <3>3. (a \o b)[j] = b[k]
        BY <1>1, <1>4, <1>5, <2>2, <3>1
      <3>4. b[k] = s[j + 1]
        BY <1>1, <1>3, <3>2
      <3> QED BY <2>2, <3>3, <3>4
    <2> QED BY <2>1, <2>2
  <1> QED BY <1>1, <1>4, <1>5, <1>6 DEF a, b

\* purgequeue removes the first entry that is p and keeps the order of the
\* rest (queue.c:43-60).
THEOREM PurgeRemovesFirst ==
    ASSUME NEW q \in queue_t, NEW p \in Procs
    PROVE  /\ purgequeue(q, p) \in queue_t
           /\ contents(purgequeue(q, p)) = SeqExt!RemoveFirst(contents(q), p)
  <1> DEFINE c == contents(q)
  <1>1. p # NULL /\ p \in Ptr /\ NULL \in Ptr
    BY QueueAssumption DEF Ptr
  <1>2. /\ c \in Seq(Ptr) /\ Len(c) = q.size
        /\ \A j \in 1 .. q.size : c[j] = q.proc[j - 1] /\ j - 1 \in Slots
    BY ContentsType
  <1>3. q.size \in 0 .. MAX_QUEUE_SIZE /\ MAX_QUEUE_SIZE \in Nat
    BY QueueType
  <1> HIDE DEF c
  <1>4. CASE holding(q, p) = {}
    <2>1. ASSUME NEW j \in 1 .. Len(c)
          PROVE  c[j] # p
      BY <1>2, <1>3, <1>4 DEF holding
    <2> QED BY <1>2, <1>4, <2>1, RemoveFirstNone DEF purgequeue, c
  <1>5. CASE holding(q, p) # {}
    <2> DEFINE f == first(q, p)
               s == shift(q, f)
               r == purgequeue(q, p)
               a == [s.proc EXCEPT ![q.size - 1] = NULL]
    <2>1. /\ f \in Slots /\ f \in Nat /\ f < q.size /\ q.proc[f] = p
          /\ \A j \in holding(q, p) : f <= j
      BY <1>5, FirstProps
    <2>2. /\ s \in queue_t
          /\ \A j \in Slots : s.proc[j] = IF f <= j /\ j + 1 < q.size
                                            THEN q.proc[j + 1] ELSE q.proc[j]
      BY <2>1, ShiftProps
    <2>3. r = [proc |-> a, size |-> q.size - 1]
      BY <1>1, <1>5 DEF purgequeue
    <2> HIDE DEF f, s, r
    <2>4. /\ s.proc \in [Slots -> Ptr]
          /\ q.size - 1 \in Slots /\ q.size - 1 \in 0 .. MAX_QUEUE_SIZE
      BY <1>3, <2>1, <2>2, QueueType DEF Slots
    <2>5. /\ a \in [Slots -> Ptr]
          /\ \A j \in Slots : j # q.size - 1 => a[j] = s.proc[j]
      BY <1>1, <2>4
    <2> HIDE DEF a
    <2>6. r \in queue_t /\ r.size = q.size - 1 /\ r.proc = a
      BY <2>3, <2>4, <2>5 DEF queue_t
    <2> DEFINE i == f + 1
               d == SubSeq(c, 1, i - 1) \o SubSeq(c, i + 1, Len(c))
    <2>7. i \in 1 .. Len(c) /\ c[i] = p
      BY <1>2, <1>3, <2>1
    <2>8. ASSUME NEW j \in 1 .. Len(c), c[j] = p
          PROVE  i <= j
      <3>1. j - 1 \in holding(q, p)
        BY <1>2, <1>3, <2>8 DEF holding
      <3> QED BY <1>2, <1>3, <2>1, <3>1
    <2>9. SeqExt!RemoveFirst(c, p) = d
      BY <1>2, <2>7, <2>8, RemoveFirstAt
    <2>10. /\ d \in Seq(Ptr) /\ Len(d) = q.size - 1
           /\ \A j \in 1 .. q.size - 1 :
                 d[j] = IF j < i THEN c[j] ELSE c[j + 1]
      BY <1>2, <2>7, CutProps
    <2> HIDE DEF d
    <2>11. /\ contents(r) \in Seq(Ptr) /\ Len(contents(r)) = q.size - 1
           /\ \A j \in 1 .. q.size - 1 : contents(r)[j] = a[j - 1]
      BY <2>6, ContentsType
    <2>12. ASSUME NEW j \in 1 .. q.size - 1
           PROVE  contents(r)[j] = d[j]
      <3>1. /\ j - 1 \in Slots /\ j - 1 # q.size - 1 /\ (j - 1) + 1 < q.size
            /\ j \in 1 .. q.size /\ j + 1 \in 1 .. q.size
            /\ (j - 1) + 1 = (j + 1) - 1
        BY <1>2, <1>3
      <3>2. contents(r)[j] = IF f <= j - 1 THEN q.proc[(j + 1) - 1]
                                           ELSE q.proc[j - 1]
        BY <2>2, <2>5, <2>11, <3>1
      <3>3. f <= j - 1 <=> ~(j < i)
        BY <1>3, <2>1
      <3> QED BY <1>2, <2>10, <3>1, <3>2, <3>3
    <2>13. contents(r) = d
      BY <2>10, <2>11, <2>12, SeqEqual
    <2> QED BY <2>6, <2>9, <2>13 DEF r, c
  <1> QED BY <1>4, <1>5
=============================================================================
