----------------------------- MODULE MlqProofs -----------------------------
(***************************************************************************)
(* Proofs about src/sched.c for the behaviours in which no get section     *)
(* overlaps a put or add section: the arrays then implement the queues of  *)
(* module Mlq, no process is lost or duplicated, and running_list has the  *)
(* process of every CPU.                                                   *)
(***************************************************************************)
EXTENDS SchedProofs, FiniteSetTheorems

Sections == GetSection \cup PutSection

\* One thread is inside the scheduler.
Alone ==
    \A t, u \in Threads : at[t] \in Sections /\ at[u] \in Sections => t = u

\* The queues get_mlq_proc has passed are empty.
ScanInv ==
    \A t \in Threads : at[t] = "scan" =>
        \A j \in Levels : j < lvl[t] => ready[j].size = 0

\* The loaded size is the queue's size, and the entry that is not counted
\* yet is the thread's process.
CopyAt(t) ==
    /\ at[t] = "dsize" => tmp[t] = ready[lvl[t]].size
    /\ at[t] \in {"rsize", "psize"} => tmp[t] = running.size
    /\ at[t] = "esize" => tmp[t] = ready[Prio[proc[t]]].size
    /\ at[t] \in {"eload", "esize"} =>
          ready[Prio[proc[t]]].proc[ready[Prio[proc[t]]].size] = proc[t]
    /\ at[t] \in {"rload", "rsize"} => running.proc[running.size] = proc[t]
    /\ at[t] = "pclear" => running.size < MAX_QUEUE_SIZE

CopyInv == \A t \in Threads : CopyAt(t)

SerialInv == Alone /\ ScanInv /\ CopyInv
-----------------------------------------------------------------------------
\* SerialInv holds while every thread is outside the two sections.
LEMMA SerialInit == Init => SerialInv
  BY DEF Init, SerialInv, Alone, ScanInv, CopyInv, CopyAt, Sections,
         GetSection, PutSection

\* A step after which no sections have overlapped keeps the invariant.
LEMMA SerialStep ==
    ASSUME RaceInv, SerialInv, NEW t \in Threads, Call(t) \/ Client(t),
           ~overlap'
    PROVE  SerialInv' /\ ~overlap
  <1> USE SchedAssumption DEF RaceInv, SerialInv, Goto
  <1>0. StateTyped
    BY StateTypes
  <1>1. CASE CallGet(t)
    <2>1. Alone'
      BY <1>1 DEF CallGet, Alone, Sections, GetSection, PutSection, Held,
         TypeOK
    <2>2. ScanInv'
      BY <1>0, <1>1 DEF CallGet, StateTyped, ScanInv, Alone, Sections,
         GetSection, PutSection, TypeOK, Levels, PlaceInv, empty
    <2>3. CopyInv'
      BY <1>0, <1>1 DEF CallGet, StateTyped, CopyInv, CopyAt, Alone, Sections,
         GetSection, PutSection, TypeOK, SizeInv, SizeAt
    <2>4. ~overlap
      BY <1>1 DEF CallGet
    <2> QED BY <2>1, <2>2, <2>3, <2>4
  <1>2. CASE CallPut(t)
    <2>1. Alone'
      BY <1>2 DEF CallPut, Alone, Sections, GetSection, PutSection, Held,
         TypeOK
    <2>2. ScanInv'
      BY <1>0, <1>2 DEF CallPut, StateTyped, ScanInv, Alone, Sections,
         GetSection, PutSection, TypeOK, Levels, PlaceInv, empty
    <2>3. CopyInv'
      BY <1>0, <1>2 DEF CallPut, StateTyped, CopyInv, CopyAt, Alone, Sections,
         GetSection, PutSection, TypeOK, SizeInv, SizeAt
    <2>4. ~overlap
      BY <1>2 DEF CallPut
    <2> QED BY <2>1, <2>2, <2>3, <2>4
  <1>3. CASE Free(t)
    <2>1. Alone'
      BY <1>3 DEF Free, Alone, Sections, GetSection, PutSection, Held, TypeOK
    <2>2. ScanInv'
      BY <1>0, <1>3 DEF Free, StateTyped, ScanInv, Alone, Sections, GetSection,
         PutSection, TypeOK, Levels, PlaceInv, empty
    <2>3. CopyInv'
      BY <1>0, <1>3 DEF Free, StateTyped, CopyInv, CopyAt, Alone, Sections,
         GetSection, PutSection, TypeOK, SizeInv, SizeAt
    <2>4. ~overlap
      BY <1>3 DEF Free
    <2> QED BY <2>1, <2>2, <2>3, <2>4
  <1>4. CASE GetLock(t)
    <2>1. Alone'
      BY <1>4 DEF GetLock, Alone, Sections, GetSection, PutSection, Held,
         TypeOK
    <2>2. ScanInv'
      <3>1. lvl' = lvl /\ lvl[t] = 0 /\ ready' = ready
        BY <1>4 DEF GetLock, PlaceInv
      <3>2. ASSUME NEW u \in Threads, at'[u] = "scan" PROVE u = t
        BY <1>4, <3>2 DEF GetLock, TypeOK, Held, GetSection
      <3>3. \A j \in Levels : ~(j < 0)
        BY DEF Levels
      <3> QED BY <3>1, <3>2, <3>3 DEF ScanInv
    <2>3. CopyInv'
      BY <1>0, <1>4 DEF GetLock, StateTyped, CopyInv, CopyAt, Alone, Sections,
         GetSection, PutSection, TypeOK, SizeInv, SizeAt
    <2>4. ~overlap
      BY <1>4 DEF GetLock
    <2> QED BY <2>1, <2>2, <2>3, <2>4
  <1>5. CASE ScanNext(t)
    <2>1. Alone'
      BY <1>5 DEF ScanNext, Alone, Sections, GetSection, PutSection, Held,
         TypeOK
    <2>2. ScanInv'
      BY <1>0, <1>5 DEF ScanNext, StateTyped, ScanInv, Alone, Sections,
         GetSection, PutSection, TypeOK, Levels, PlaceInv, empty
    <2>3. CopyInv'
      BY <1>0, <1>5 DEF ScanNext, StateTyped, CopyInv, CopyAt, Alone, Sections,
         GetSection, PutSection, TypeOK, SizeInv, SizeAt
    <2>4. ~overlap
      BY <1>5 DEF ScanNext
    <2> QED BY <2>1, <2>2, <2>3, <2>4
  <1>6. CASE ScanNone(t)
    <2>1. Alone'
      BY <1>6 DEF ScanNone, Alone, Sections, GetSection, PutSection, Held,
         TypeOK
    <2>2. ScanInv'
      BY <1>0, <1>6 DEF ScanNone, StateTyped, ScanInv, Alone, Sections,
         GetSection, PutSection, TypeOK, Levels, PlaceInv, empty
    <2>3. CopyInv'
      BY <1>0, <1>6 DEF ScanNone, StateTyped, CopyInv, CopyAt, Alone, Sections,
         GetSection, PutSection, TypeOK, SizeInv, SizeAt
    <2>4. ~overlap
      BY <1>6 DEF ScanNone
    <2> QED BY <2>1, <2>2, <2>3, <2>4
  <1>7. CASE ScanTake(t)
    <2>0. ScanTakeDoes(t)
      BY <1>7, ScanTakeEffect
    <2>1. Alone'
      BY <2>0 DEF ScanTakeDoes, Alone, Sections, GetSection, PutSection, Held,
         TypeOK
    <2>2. ScanInv'
      BY <1>0, <2>0 DEF ScanTakeDoes, StateTyped, ScanInv, Alone, Sections,
         GetSection, PutSection, TypeOK, Levels, PlaceInv, empty
    <2>3. CopyInv'
      <3>1. /\ at[t] = "scan" /\ at'[t] = "dload"
            /\ \A u \in Threads \ {t} : at'[u] = at[u]
        BY <2>0 DEF ScanTakeDoes, TypeOK
      <3>2. \A u \in Threads \ {t} : at[u] \notin Sections
        BY <3>1 DEF Alone, Sections, GetSection
      <3> QED BY <3>1, <3>2 DEF CopyInv, CopyAt, Sections, GetSection,
                 PutSection
    <2>4. ~overlap
      BY <2>0 DEF ScanTakeDoes
    <2> QED BY <2>1, <2>2, <2>3, <2>4
  <1>8. CASE DequeueLoad(t)
    <2>1. Alone'
      BY <1>8 DEF DequeueLoad, Alone, Sections, GetSection, PutSection, Held,
         TypeOK
    <2>2. ScanInv'
      BY <1>0, <1>8 DEF DequeueLoad, StateTyped, ScanInv, Alone, Sections,
         GetSection, PutSection, TypeOK, Levels, PlaceInv, empty
    <2>3. CopyInv'
      BY <1>0, <1>8 DEF DequeueLoad, StateTyped, CopyInv, CopyAt, Alone,
         Sections, GetSection, PutSection, TypeOK, SizeInv, SizeAt
    <2>4. ~overlap
      BY <1>8 DEF DequeueLoad
    <2> QED BY <2>1, <2>2, <2>3, <2>4
  <1>9. CASE DequeueSize(t)
    <2>0. DequeueSizeDoes(t)
      BY <1>9, DequeueSizeEffect
    <2>1. Alone'
      BY <2>0 DEF DequeueSizeDoes, Alone, Sections, GetSection, PutSection,
         Held, TypeOK
    <2>2. ScanInv'
      BY <1>0, <2>0 DEF DequeueSizeDoes, StateTyped, ScanInv, Alone, Sections,
         GetSection, PutSection, TypeOK, Levels, PlaceInv, empty
    <2>3. CopyInv'
      BY <1>0, <2>0 DEF DequeueSizeDoes, StateTyped, CopyInv, CopyAt, Alone,
         Sections, GetSection, PutSection, TypeOK, SizeInv, SizeAt
    <2>4. ~overlap
      BY <2>0 DEF DequeueSizeDoes
    <2> QED BY <2>1, <2>2, <2>3, <2>4
  <1>10. CASE RunningStore(t)
    <2>0. RunningStoreDoes(t)
      BY <1>10, RunningStoreEffect
    <2>1. Alone'
      BY <2>0 DEF RunningStoreDoes, Alone, Sections, GetSection, PutSection,
         Held, TypeOK
    <2>2. ScanInv'
      BY <1>0, <2>0 DEF RunningStoreDoes, StateTyped, ScanInv, Alone, Sections,
         GetSection, PutSection, TypeOK, Levels, PlaceInv, empty
    <2>3. CopyInv'
      BY <1>0, <2>0 DEF RunningStoreDoes, StateTyped, CopyInv, CopyAt, Alone,
         Sections, GetSection, PutSection, TypeOK, SizeInv, SizeAt
    <2>4. ~overlap
      BY <2>0 DEF RunningStoreDoes
    <2> QED BY <2>1, <2>2, <2>3, <2>4
  <1>11. CASE RunningLoad(t)
    <2>1. Alone'
      BY <1>11 DEF RunningLoad, Alone, Sections, GetSection, PutSection, Held,
         TypeOK
    <2>2. ScanInv'
      BY <1>0, <1>11 DEF RunningLoad, StateTyped, ScanInv, Alone, Sections,
         GetSection, PutSection, TypeOK, Levels, PlaceInv, empty
    <2>3. CopyInv'
      BY <1>0, <1>11 DEF RunningLoad, StateTyped, CopyInv, CopyAt, Alone,
         Sections, GetSection, PutSection, TypeOK, SizeInv, SizeAt
    <2>4. ~overlap
      BY <1>11 DEF RunningLoad
    <2> QED BY <2>1, <2>2, <2>3, <2>4
  <1>12. CASE RunningSize(t)
    <2>0. RunningSizeDoes(t)
      BY <1>12, RunningSizeEffect
    <2>1. Alone'
      BY <2>0 DEF RunningSizeDoes, Alone, Sections, GetSection, PutSection,
         Held, TypeOK
    <2>2. ScanInv'
      BY <1>0, <2>0 DEF RunningSizeDoes, StateTyped, ScanInv, Alone, Sections,
         GetSection, PutSection, TypeOK, Levels, PlaceInv, empty
    <2>3. CopyInv'
      BY <1>0, <2>0 DEF RunningSizeDoes, StateTyped, CopyInv, CopyAt, Alone,
         Sections, GetSection, PutSection, TypeOK, SizeInv, SizeAt
    <2>4. ~overlap
      BY <2>0 DEF RunningSizeDoes
    <2> QED BY <2>1, <2>2, <2>3, <2>4
  <1>13. CASE PutLock(t)
    <2>1. Alone'
      BY <1>13 DEF PutLock, Alone, Sections, GetSection, PutSection, Held,
         TypeOK
    <2>2. ScanInv'
      BY <1>0, <1>13 DEF PutLock, StateTyped, ScanInv, Alone, Sections,
         GetSection, PutSection, TypeOK, Levels, PlaceInv, empty
    <2>3. CopyInv'
      BY <1>0, <1>13 DEF PutLock, StateTyped, CopyInv, CopyAt, Alone, Sections,
         GetSection, PutSection, TypeOK, SizeInv, SizeAt
    <2>4. ~overlap
      BY <1>13 DEF PutLock
    <2> QED BY <2>1, <2>2, <2>3, <2>4
  <1>14. CASE Purge(t)
    <2>0. PurgeDoes(t)
      BY <1>14, PurgeEffect
    <2>1. Alone'
      BY <2>0 DEF PurgeDoes, Alone, Sections, GetSection, PutSection, Held,
         TypeOK
    <2>2. ScanInv'
      BY <1>0, <2>0 DEF PurgeDoes, StateTyped, ScanInv, Alone, Sections,
         GetSection, PutSection, TypeOK, Levels, PlaceInv, empty
    <2>3. CopyInv'
      BY <1>0, <2>0 DEF PurgeDoes, StateTyped, CopyInv, CopyAt, Alone,
         Sections, GetSection, PutSection, TypeOK, SizeInv, SizeAt
    <2>4. ~overlap
      BY <2>0 DEF PurgeDoes
    <2> QED BY <2>1, <2>2, <2>3, <2>4
  <1>15. CASE PurgeLoad(t)
    <2>1. Alone'
      BY <1>15 DEF PurgeLoad, Alone, Sections, GetSection, PutSection, Held,
         TypeOK
    <2>2. ScanInv'
      BY <1>0, <1>15 DEF PurgeLoad, StateTyped, ScanInv, Alone, Sections,
         GetSection, PutSection, TypeOK, Levels, PlaceInv, empty
    <2>3. CopyInv'
      BY <1>0, <1>15 DEF PurgeLoad, StateTyped, CopyInv, CopyAt, Alone,
         Sections, GetSection, PutSection, TypeOK, SizeInv, SizeAt
    <2>4. ~overlap
      BY <1>15 DEF PurgeLoad
    <2> QED BY <2>1, <2>2, <2>3, <2>4
  <1>16. CASE PurgeSize(t)
    <2>0. PurgeSizeDoes(t)
      BY <1>16, PurgeSizeEffect
    <2>1. Alone'
      BY <2>0 DEF PurgeSizeDoes, Alone, Sections, GetSection, PutSection, Held,
         TypeOK
    <2>2. ScanInv'
      BY <1>0, <2>0 DEF PurgeSizeDoes, StateTyped, ScanInv, Alone, Sections,
         GetSection, PutSection, TypeOK, Levels, PlaceInv, empty
    <2>3. CopyInv'
      BY <1>0, <2>0 DEF PurgeSizeDoes, StateTyped, CopyInv, CopyAt, Alone,
         Sections, GetSection, PutSection, TypeOK, SizeInv, SizeAt
    <2>4. ~overlap
      BY <2>0 DEF PurgeSizeDoes
    <2> QED BY <2>1, <2>2, <2>3, <2>4
  <1>17. CASE PurgeClear(t)
    <2>0. PurgeClearDoes(t)
      BY <1>17, PurgeClearEffect
    <2>1. Alone'
      BY <2>0 DEF PurgeClearDoes, Alone, Sections, GetSection, PutSection,
         Held, TypeOK
    <2>2. ScanInv'
      BY <1>0, <2>0 DEF PurgeClearDoes, StateTyped, ScanInv, Alone, Sections,
         GetSection, PutSection, TypeOK, Levels, PlaceInv, empty
    <2>3. CopyInv'
      BY <1>0, <2>0 DEF PurgeClearDoes, StateTyped, CopyInv, CopyAt, Alone,
         Sections, GetSection, PutSection, TypeOK, SizeInv, SizeAt
    <2>4. ~overlap
      BY <2>0 DEF PurgeClearDoes
    <2> QED BY <2>1, <2>2, <2>3, <2>4
  <1>18. CASE EnqueueStore(t)
    <2>0. EnqueueStoreDoes(t)
      BY <1>18, EnqueueStoreEffect
    <2>1. Alone'
      BY <2>0 DEF EnqueueStoreDoes, Alone, Sections, GetSection, PutSection,
         Held, TypeOK
    <2>2. ScanInv'
      BY <1>0, <2>0 DEF EnqueueStoreDoes, StateTyped, ScanInv, Alone, Sections,
         GetSection, PutSection, TypeOK, Levels, PlaceInv, empty
    <2>3. CopyInv'
      BY <1>0, <2>0 DEF EnqueueStoreDoes, StateTyped, CopyInv, CopyAt, Alone,
         Sections, GetSection, PutSection, TypeOK, SizeInv, SizeAt
    <2>4. ~overlap
      BY <2>0 DEF EnqueueStoreDoes
    <2> QED BY <2>1, <2>2, <2>3, <2>4
  <1>19. CASE EnqueueLoad(t)
    <2>1. Alone'
      BY <1>19 DEF EnqueueLoad, Alone, Sections, GetSection, PutSection, Held,
         TypeOK
    <2>2. ScanInv'
      BY <1>0, <1>19 DEF EnqueueLoad, StateTyped, ScanInv, Alone, Sections,
         GetSection, PutSection, TypeOK, Levels, PlaceInv, empty
    <2>3. CopyInv'
      BY <1>0, <1>19 DEF EnqueueLoad, StateTyped, CopyInv, CopyAt, Alone,
         Sections, GetSection, PutSection, TypeOK, SizeInv, SizeAt
    <2>4. ~overlap
      BY <1>19 DEF EnqueueLoad
    <2> QED BY <2>1, <2>2, <2>3, <2>4
  <1>20. CASE EnqueueSize(t)
    <2>0. EnqueueSizeDoes(t)
      BY <1>20, EnqueueSizeEffect
    <2>1. Alone'
      BY <2>0 DEF EnqueueSizeDoes, Alone, Sections, GetSection, PutSection,
         Held, TypeOK
    <2>2. ScanInv'
      BY <1>0, <2>0 DEF EnqueueSizeDoes, StateTyped, ScanInv, Alone, Sections,
         GetSection, PutSection, TypeOK, Levels, PlaceInv, empty
    <2>3. CopyInv'
      BY <1>0, <2>0 DEF EnqueueSizeDoes, StateTyped, CopyInv, CopyAt, Alone,
         Sections, GetSection, PutSection, TypeOK, SizeInv, SizeAt
    <2>4. ~overlap
      BY <2>0 DEF EnqueueSizeDoes
    <2> QED BY <2>1, <2>2, <2>3, <2>4
  <1>21. ASSUME NEW p \in Procs, CallAdd(t, p) PROVE SerialInv' /\ ~overlap
    <2>1. Alone'
      BY <1>21 DEF CallAdd, Alone, Sections, GetSection, PutSection, Held,
         TypeOK
    <2>2. ScanInv'
      BY <1>0, <1>21 DEF CallAdd, StateTyped, ScanInv, Alone, Sections,
         GetSection, PutSection, TypeOK, Levels, PlaceInv, empty
    <2>3. CopyInv'
      BY <1>0, <1>21 DEF CallAdd, StateTyped, CopyInv, CopyAt, Alone, Sections,
         GetSection, PutSection, TypeOK, SizeInv, SizeAt
    <2>4. ~overlap
      BY <1>21 DEF CallAdd
    <2> QED BY <2>1, <2>2, <2>3, <2>4
  <1> QED BY <1>1, <1>2, <1>3, <1>4, <1>5, <1>6, <1>7, <1>8, <1>9, <1>10,
             <1>11, <1>12, <1>13, <1>14, <1>15, <1>16, <1>17, <1>18, <1>19,
             <1>20, <1>21 DEF Call, get_mlq_proc, put_mlq_proc, Client

-----------------------------------------------------------------------------
(* The refinement.                                                         *)

\* A thread has taken slot 0 of queue k and not stored the new size yet.
Taking(k) == \E t \in Threads : at[t] \in {"dload", "dsize"} /\ lvl[t] = k

\* The entries below size - 1 are the queue with the smaller size.
LEMMA ContentsShorter ==
    ASSUME NEW q \in queue_t, q.size > 0
    PROVE  SubSeq(contents(q), 1, q.size - 1) =
              contents([q EXCEPT !.size = q.size - 1])
  <1> DEFINE r == [q EXCEPT !.size = q.size - 1]
  <1>1. q.size \in Nat /\ q.size - 1 \in 0 .. MAX_QUEUE_SIZE
    BY QueueType
  <1>2. r \in queue_t /\ r.size = q.size - 1 /\ r.proc = q.proc
    BY <1>1, SizeProps
  <1> HIDE DEF r
  <1>3. /\ contents(q) \in Seq(Ptr) /\ Len(contents(q)) = q.size
        /\ \A i \in 1 .. q.size : contents(q)[i] = q.proc[i - 1]
    BY ContentsType
  <1>4. /\ contents(r) \in Seq(Ptr) /\ Len(contents(r)) = r.size
        /\ \A i \in 1 .. r.size : contents(r)[i] = r.proc[i - 1]
    BY <1>2, ContentsType
  <1>5. /\ SubSeq(contents(q), 1, q.size - 1) \in Seq(Ptr)
        /\ Len(SubSeq(contents(q), 1, q.size - 1)) = q.size - 1
        /\ \A i \in 1 .. q.size - 1 :
              SubSeq(contents(q), 1, q.size - 1)[i] = contents(q)[i]
    BY <1>1, <1>3
  <1>6. \A i \in 1 .. q.size - 1 :
           SubSeq(contents(q), 1, q.size - 1)[i] = contents(r)[i]
    <2> SUFFICES ASSUME NEW i \in 1 .. q.size - 1
                 PROVE  SubSeq(contents(q), 1, q.size - 1)[i] = contents(r)[i]
      OBVIOUS
    <2>1. i \in 1 .. q.size /\ i \in 1 .. r.size
      BY <1>1, <1>2
    <2> QED BY <1>2, <1>3, <1>4, <1>5, <2>1
  <1>7. SubSeq(contents(q), 1, q.size - 1) = contents(r)
    BY <1>2, <1>4, <1>5, <1>6, SeqEqual
  <1> QED BY <1>7 DEF r

\* A step that leaves the slots below size, the sizes and the taking thread
\* alone leaves the abstract queues alone.
LEMMA ReadySeqSame ==
    ASSUME RaceInv, ready' \in [Levels -> queue_t],
           \A k \in Levels :
              /\ Taking(k)' <=> Taking(k)
              /\ ready'[k].size = ready[k].size
              /\ \A i \in Slots : i < ready[k].size =>
                    ready'[k].proc[i] = ready[k].proc[i]
    PROVE  UNCHANGED [k \in Levels |-> ReadySeq(k)]
  <1> SUFFICES ASSUME NEW k \in Levels PROVE ReadySeq(k)' = ReadySeq(k)
    OBVIOUS
  <1>1. ready[k] \in queue_t /\ ready'[k] \in queue_t
    BY DEF RaceInv, TypeOK
  <1>2. contents(ready'[k]) = contents(ready[k])
    BY <1>1, ContentsEqual
  <1> QED BY <1>2 DEF ReadySeq, Taking

\* Every step of a thread is a step of the abstract queues or leaves them
\* alone, as long as no sections have overlapped.
LEMMA MlqStep ==
    ASSUME RaceInv, SerialInv, NEW t \in Threads, Call(t) \/ Client(t),
           ~overlap'
    PROVE  MLQ!Next \/ UNCHANGED MLQ!mlqVars
  <1> USE DEF RaceInv, SerialInv
  <1>0. StateTyped /\ ready \in [Levels -> queue_t]
    BY StateTypes DEF TypeOK
  <1>1. CASE CallGet(t)
    <2>1. \A k \in Levels : Taking(k)' <=> Taking(k)
      BY <1>1 DEF CallGet, Goto, Taking, TypeOK
    <2>2. ready' = ready /\ proc' = proc /\ life' = life
      BY <1>1 DEF CallGet, Goto
    <2>3. UNCHANGED [k \in Levels |-> ReadySeq(k)]
      BY <1>0, <2>1, <2>2, ReadySeqSame
    <2> QED BY <2>2, <2>3 DEF MLQ!mlqVars
  <1>2. CASE CallPut(t)
    <2>1. \A k \in Levels : Taking(k)' <=> Taking(k)
      BY <1>2 DEF CallPut, Goto, Taking, TypeOK
    <2>2. ready' = ready /\ proc' = proc /\ life' = life
      BY <1>2 DEF CallPut, Goto
    <2>3. UNCHANGED [k \in Levels |-> ReadySeq(k)]
      BY <1>0, <2>1, <2>2, ReadySeqSame
    <2> QED BY <2>2, <2>3 DEF MLQ!mlqVars
  <1>3. CASE Free(t)
    <2>1. UNCHANGED [k \in Levels |-> ReadySeq(k)]
      BY <1>3 DEF Free, ReadySeq
    <2>2. MLQ!Leave(t)
      BY <1>3, <2>1 DEF Free, MLQ!Leave
    <2> QED BY <2>2 DEF MLQ!Next
  <1>4. CASE GetLock(t)
    <2>1. \A k \in Levels : Taking(k)' <=> Taking(k)
      BY <1>4 DEF GetLock, Goto, Taking, TypeOK
    <2>2. ready' = ready /\ proc' = proc /\ life' = life
      BY <1>4 DEF GetLock, Goto
    <2>3. UNCHANGED [k \in Levels |-> ReadySeq(k)]
      BY <1>0, <2>1, <2>2, ReadySeqSame
    <2> QED BY <2>2, <2>3 DEF MLQ!mlqVars
  <1>5. CASE ScanNext(t)
    <2>1. \A k \in Levels : Taking(k)' <=> Taking(k)
      BY <1>5 DEF ScanNext, Taking, TypeOK
    <2>2. ready' = ready /\ proc' = proc /\ life' = life
      BY <1>5 DEF ScanNext
    <2>3. UNCHANGED [k \in Levels |-> ReadySeq(k)]
      BY <1>0, <2>1, <2>2, ReadySeqSame
    <2> QED BY <2>2, <2>3 DEF MLQ!mlqVars
  <1>6. CASE ScanNone(t)
    <2>1. \A k \in Levels : Taking(k)' <=> Taking(k)
      BY <1>6 DEF ScanNone, Goto, Taking, TypeOK
    <2>2. ready' = ready /\ proc' = proc /\ life' = life
      BY <1>6 DEF ScanNone, Goto
    <2>3. UNCHANGED [k \in Levels |-> ReadySeq(k)]
      BY <1>0, <2>1, <2>2, ReadySeqSame
    <2> QED BY <2>2, <2>3 DEF MLQ!mlqVars
  <1>7. CASE ScanTake(t)
    <2>0. ScanTakeDoes(t)
      BY <1>7, ScanTakeEffect
    <2>1. PICK k \in Levels : k = lvl[t]
      BY <2>0 DEF ScanTakeDoes
    <2>2. /\ ready[k].size > 0 /\ ready'[k] \in queue_t
          /\ ready[k] \in queue_t /\ ready[k].size \in 0 .. MAX_QUEUE_SIZE
          /\ ready'[k].size = ready[k].size
      BY <1>0, <2>0, <2>1 DEF ScanTakeDoes, StateTyped
    <2>3. \A j \in Levels : ~Taking(j)
      BY <2>0 DEF ScanTakeDoes, Alone, Sections, GetSection, Taking
    <2>4. \A j \in Levels : Taking(j)' <=> j = k
      BY <2>0, <2>1, <2>3 DEF ScanTakeDoes, Taking, TypeOK
    <2>5. \A j \in Levels : ReadySeq(j) = contents(ready[j])
      BY <2>3 DEF ReadySeq, Taking
    <2>6. \A j \in Levels : j # k => ReadySeq(j)' = ReadySeq(j)
      BY <2>0, <2>1, <2>4, <2>5 DEF ScanTakeDoes, ReadySeq, Taking
    <2> DEFINE r == [ready'[k] EXCEPT !.size = ready'[k].size - 1]
    <2>7. ReadySeq(k)' = contents(r)
      <3>1. ReadySeq(k)' = SubSeq(contents(ready'[k]), 1, ready'[k].size - 1)
        BY <2>4 DEF ReadySeq, Taking
      <3> QED BY <2>2, <3>1, ContentsShorter
    <2>8. /\ r \in queue_t /\ r.size = ready[k].size - 1
          /\ \A i \in Slots : i + 1 < ready[k].size =>
                r.proc[i] = ready[k].proc[i + 1]
      <3>1. ready'[k].size - 1 \in 0 .. MAX_QUEUE_SIZE
        BY <1>0, <2>2 DEF StateTyped
      <3>2. /\ r \in queue_t /\ r.size = ready[k].size - 1
            /\ r.proc = ready'[k].proc
        BY <2>2, <3>1, SizeProps
      <3> QED BY <2>0, <2>1, <3>2 DEF ScanTakeDoes
    <2> HIDE DEF r
    <2>9. /\ contents(ready[k]) # <<>>
          /\ Head(contents(ready[k])) = ready[k].proc[0]
          /\ contents(r) = Tail(contents(ready[k]))
      BY <2>2, <2>8, ContentsTail
    <2> DEFINE rq == [j \in Levels |-> ReadySeq(j)]
    <2>10. rq' = [rq EXCEPT ![k] = Tail(@)]
      BY <2>5, <2>6, <2>7, <2>9
    <2>11. ASSUME NEW j \in Levels, j < k PROVE rq[j] = <<>>
      <3>1. ready[j].size = 0
        BY <2>0, <2>1, <2>11 DEF ScanTakeDoes, ScanInv
      <3>2. contents(ready[j]) = <<>>
        BY <1>0, <3>1, ContentsType DEF StateTyped
      <3> QED BY <2>5, <3>2
    <2>12. proc[t] = NULL /\ proc' = [proc EXCEPT ![t] = Head(rq[k])]
      BY <2>0, <2>1, <2>5, <2>9 DEF ScanTakeDoes, PlaceInv
    <2>13. rq[k] # <<>>
      BY <2>5, <2>9
    <2>14. MLQ!Levels = Levels /\ life' = life
      BY <2>0 DEF ScanTakeDoes, MLQ!Levels, Levels
    <2>15. MLQ!Dispatch(t)
      BY <2>10, <2>11, <2>12, <2>13, <2>14 DEF MLQ!Dispatch
    <2> QED BY <2>15 DEF MLQ!Next
  <1>8. CASE DequeueLoad(t)
    <2>1. \A k \in Levels : Taking(k)' <=> Taking(k)
      BY <1>8 DEF DequeueLoad, Goto, Taking, TypeOK
    <2>2. ready' = ready /\ proc' = proc /\ life' = life
      BY <1>8 DEF DequeueLoad, Goto
    <2>3. UNCHANGED [k \in Levels |-> ReadySeq(k)]
      BY <1>0, <2>1, <2>2, ReadySeqSame
    <2> QED BY <2>2, <2>3 DEF MLQ!mlqVars
  <1>9. CASE DequeueSize(t)
    <2>0. DequeueSizeDoes(t)
      BY <1>9, DequeueSizeEffect
    <2>1. PICK k \in Levels : k = lvl[t]
      BY <2>0 DEF DequeueSizeDoes
    <2>2. /\ ready[k].size > 0 /\ ready'[k] \in queue_t
          /\ ready[k] \in queue_t /\ ready[k].size \in 0 .. MAX_QUEUE_SIZE
          /\ ready'[k].size = ready[k].size - 1
          /\ ready'[k].proc = ready[k].proc
      BY <1>0, <2>0, <2>1 DEF DequeueSizeDoes, StateTyped, CopyInv, CopyAt
    <2>3. \A j \in Levels : Taking(j) <=> j = k
      BY <2>0, <2>1 DEF DequeueSizeDoes, Alone, Sections, GetSection, Taking
    <2>4. \A j \in Levels : ~Taking(j)'
      BY <2>0 DEF DequeueSizeDoes, Alone, Sections, GetSection, Taking, TypeOK
    <2>5. \A j \in Levels : j # k => ReadySeq(j)' = ReadySeq(j)
      BY <2>0, <2>1, <2>3, <2>4 DEF DequeueSizeDoes, ReadySeq, Taking
    <2>6. ReadySeq(k)' = ReadySeq(k)
      <3> DEFINE r == [ready[k] EXCEPT !.size = ready[k].size - 1]
      <3>1. ReadySeq(k)' = contents(ready'[k])
        BY <2>4 DEF ReadySeq, Taking
      <3>2. ReadySeq(k) = SubSeq(contents(ready[k]), 1, ready[k].size - 1)
        BY <2>3 DEF ReadySeq, Taking
      <3>3. ReadySeq(k) = contents(r)
        BY <2>2, <3>2, ContentsShorter
      <3>4. ready[k].size - 1 \in 0 .. MAX_QUEUE_SIZE
        BY <1>0, <2>2 DEF StateTyped
      <3>5. r \in queue_t /\ r.size = ready[k].size - 1 /\ r.proc = ready[k].proc
        BY <2>2, <3>4, SizeProps
      <3> HIDE DEF r
      <3>6. contents(ready'[k]) = contents(r)
        BY <2>2, <3>5, ContentsEqual
      <3> QED BY <3>1, <3>3, <3>6
    <2>7. proc' = proc /\ life' = life
      BY <2>0 DEF DequeueSizeDoes
    <2> QED BY <2>5, <2>6, <2>7 DEF MLQ!mlqVars
  <1>10. CASE RunningStore(t)
    <2>0. RunningStoreDoes(t)
      BY <1>10, RunningStoreEffect
    <2>1. \A k \in Levels : Taking(k)' <=> Taking(k)
      BY <2>0 DEF RunningStoreDoes, Taking, TypeOK
    <2>2. ready' = ready /\ proc' = proc /\ life' = life
      BY <2>0 DEF RunningStoreDoes
    <2>3. UNCHANGED [k \in Levels |-> ReadySeq(k)]
      BY <1>0, <2>1, <2>2, ReadySeqSame
    <2> QED BY <2>2, <2>3 DEF MLQ!mlqVars
  <1>11. CASE RunningLoad(t)
    <2>1. \A k \in Levels : Taking(k)' <=> Taking(k)
      BY <1>11 DEF RunningLoad, Goto, Taking, TypeOK
    <2>2. ready' = ready /\ proc' = proc /\ life' = life
      BY <1>11 DEF RunningLoad, Goto
    <2>3. UNCHANGED [k \in Levels |-> ReadySeq(k)]
      BY <1>0, <2>1, <2>2, ReadySeqSame
    <2> QED BY <2>2, <2>3 DEF MLQ!mlqVars
  <1>12. CASE RunningSize(t)
    <2>0. RunningSizeDoes(t)
      BY <1>12, RunningSizeEffect
    <2>1. \A k \in Levels : Taking(k)' <=> Taking(k)
      BY <2>0 DEF RunningSizeDoes, Taking, TypeOK
    <2>2. ready' = ready /\ proc' = proc /\ life' = life
      BY <2>0 DEF RunningSizeDoes
    <2>3. UNCHANGED [k \in Levels |-> ReadySeq(k)]
      BY <1>0, <2>1, <2>2, ReadySeqSame
    <2> QED BY <2>2, <2>3 DEF MLQ!mlqVars
  <1>13. CASE PutLock(t)
    <2>1. \A k \in Levels : Taking(k)' <=> Taking(k)
      BY <1>13 DEF PutLock, Goto, Taking, TypeOK
    <2>2. ready' = ready /\ proc' = proc /\ life' = life
      BY <1>13 DEF PutLock, Goto
    <2>3. UNCHANGED [k \in Levels |-> ReadySeq(k)]
      BY <1>0, <2>1, <2>2, ReadySeqSame
    <2> QED BY <2>2, <2>3 DEF MLQ!mlqVars
  <1>14. CASE Purge(t)
    <2>0. PurgeDoes(t)
      BY <1>14, PurgeEffect
    <2>1. \A k \in Levels : Taking(k)' <=> Taking(k)
      BY <2>0 DEF PurgeDoes, Taking, TypeOK
    <2>2. ready' = ready /\ proc' = proc /\ life' = life
      BY <2>0 DEF PurgeDoes
    <2>3. UNCHANGED [k \in Levels |-> ReadySeq(k)]
      BY <1>0, <2>1, <2>2, ReadySeqSame
    <2> QED BY <2>2, <2>3 DEF MLQ!mlqVars
  <1>15. CASE PurgeLoad(t)
    <2>1. \A k \in Levels : Taking(k)' <=> Taking(k)
      BY <1>15 DEF PurgeLoad, Goto, Taking, TypeOK
    <2>2. ready' = ready /\ proc' = proc /\ life' = life
      BY <1>15 DEF PurgeLoad, Goto
    <2>3. UNCHANGED [k \in Levels |-> ReadySeq(k)]
      BY <1>0, <2>1, <2>2, ReadySeqSame
    <2> QED BY <2>2, <2>3 DEF MLQ!mlqVars
  <1>16. CASE PurgeSize(t)
    <2>0. PurgeSizeDoes(t)
      BY <1>16, PurgeSizeEffect
    <2>1. \A k \in Levels : Taking(k)' <=> Taking(k)
      BY <2>0 DEF PurgeSizeDoes, Taking, TypeOK
    <2>2. ready' = ready /\ proc' = proc /\ life' = life
      BY <2>0 DEF PurgeSizeDoes
    <2>3. UNCHANGED [k \in Levels |-> ReadySeq(k)]
      BY <1>0, <2>1, <2>2, ReadySeqSame
    <2> QED BY <2>2, <2>3 DEF MLQ!mlqVars
  <1>17. CASE PurgeClear(t)
    <2>0. PurgeClearDoes(t)
      BY <1>17, PurgeClearEffect
    <2>1. \A k \in Levels : Taking(k)' <=> Taking(k)
      BY <2>0 DEF PurgeClearDoes, Taking, TypeOK
    <2>2. ready' = ready /\ proc' = proc /\ life' = life
      BY <2>0 DEF PurgeClearDoes
    <2>3. UNCHANGED [k \in Levels |-> ReadySeq(k)]
      BY <1>0, <2>1, <2>2, ReadySeqSame
    <2> QED BY <2>2, <2>3 DEF MLQ!mlqVars
  <1>18. CASE EnqueueStore(t)
    <2>0. EnqueueStoreDoes(t)
      BY <1>18, EnqueueStoreEffect
    <2>1. \A k \in Levels : Taking(k)' <=> Taking(k)
      BY <2>0 DEF EnqueueStoreDoes, Taking, TypeOK
    <2>2. UNCHANGED [k \in Levels |-> ReadySeq(k)]
      BY <1>0, <2>0, <2>1, ReadySeqSame DEF EnqueueStoreDoes, StateTyped
    <2>3. CASE at' = [at EXCEPT ![t] = "none"]
      <3>1. /\ life' = [life EXCEPT ![proc[t]] = "dropped"]
            /\ proc' = [proc EXCEPT ![t] = NULL] /\ proc[t] \in Procs
        BY <2>0, <2>3 DEF EnqueueStoreDoes, TypeOK
      <3>2. MLQ!Leave(t)
        BY <2>2, <3>1, QueueAssumption DEF MLQ!Leave
      <3> QED BY <3>2 DEF MLQ!Next
    <2>4. CASE at' # [at EXCEPT ![t] = "none"]
      BY <2>0, <2>2, <2>4 DEF EnqueueStoreDoes, MLQ!mlqVars
    <2> QED BY <2>3, <2>4
  <1>19. CASE EnqueueLoad(t)
    <2>1. \A k \in Levels : Taking(k)' <=> Taking(k)
      BY <1>19 DEF EnqueueLoad, Goto, Taking, TypeOK
    <2>2. ready' = ready /\ proc' = proc /\ life' = life
      BY <1>19 DEF EnqueueLoad, Goto
    <2>3. UNCHANGED [k \in Levels |-> ReadySeq(k)]
      BY <1>0, <2>1, <2>2, ReadySeqSame
    <2> QED BY <2>2, <2>3 DEF MLQ!mlqVars
  <1>20. CASE EnqueueSize(t)
    <2>0. EnqueueSizeDoes(t)
      BY <1>20, EnqueueSizeEffect
    <2>1. PICK k \in Levels : k = Prio[proc[t]]
      BY <2>0 DEF EnqueueSizeDoes
    <2>2. PICK p \in Procs : p = proc[t]
      BY <2>0 DEF EnqueueSizeDoes
    <2>3. /\ ready'[k] \in queue_t /\ ready[k] \in queue_t
          /\ ready'[k].size = ready[k].size + 1
          /\ ready'[k].proc = ready[k].proc
          /\ ready[k].proc[ready[k].size] = p
      BY <1>0, <2>0, <2>1, <2>2
      DEF EnqueueSizeDoes, StateTyped, CopyInv, CopyAt
    <2>4. \A j \in Levels : ~Taking(j)
      BY <2>0
      DEF EnqueueSizeDoes, Alone, Sections, GetSection, PutSection, Taking
    <2>5. \A j \in Levels : ~Taking(j)'
      BY <2>0, <2>4 DEF EnqueueSizeDoes, Taking, TypeOK
    <2>6. \A j \in Levels : /\ ReadySeq(j) = contents(ready[j])
                            /\ ReadySeq(j)' = contents(ready'[j])
      BY <2>4, <2>5 DEF ReadySeq, Taking
    <2>7. \A j \in Levels : j # k => ReadySeq(j)' = ReadySeq(j)
      BY <2>0, <2>1, <2>6 DEF EnqueueSizeDoes
    <2>8. contents(ready'[k]) = Append(contents(ready[k]), p)
      BY <2>3, ContentsAppend DEF Ptr
    <2> DEFINE rq == [j \in Levels |-> ReadySeq(j)]
    <2>9. rq' = [rq EXCEPT ![k] = Append(@, p)]
      BY <2>6, <2>7, <2>8
    <2>10. proc' = [proc EXCEPT ![t] = NULL] /\ life' = life
      BY <2>0 DEF EnqueueSizeDoes
    <2>11. MLQ!Ready(t)
      BY <2>1, <2>2, <2>9, <2>10, QueueAssumption DEF MLQ!Ready, MLQ!Levels,
         Levels
    <2> QED BY <2>11 DEF MLQ!Next
  <1>21. ASSUME NEW p \in Procs, CallAdd(t, p)
         PROVE  MLQ!Next \/ UNCHANGED MLQ!mlqVars
    <2>1. UNCHANGED [k \in Levels |-> ReadySeq(k)]
      <3>1. \A k \in Levels : Taking(k)' <=> Taking(k)
        BY <1>21 DEF CallAdd, Goto, Taking, TypeOK
      <3> QED BY <1>0, <1>21, <3>1, ReadySeqSame DEF CallAdd
    <2>2. MLQ!Load(t, p)
      BY <1>21, <2>1 DEF CallAdd, MLQ!Load, LoaderInv
    <2> QED BY <2>2 DEF MLQ!Next
  <1> QED BY <1>1, <1>2, <1>3, <1>4, <1>5, <1>6, <1>7, <1>8, <1>9, <1>10,
             <1>11, <1>12, <1>13, <1>14, <1>15, <1>16, <1>17, <1>18, <1>19,
             <1>20, <1>21 DEF Call, get_mlq_proc, put_mlq_proc, Client

\* Sections that have overlapped have overlapped for good.
LEMMA OverlapStays ==
    ASSUME NEW t \in Threads, Call(t) \/ Client(t), overlap
    PROVE  overlap'
  BY DEF Call, get_mlq_proc, put_mlq_proc, Client, CallGet, CallPut, CallAdd,
         Free, GetLock, ScanNext, ScanNone, ScanTake, DequeueLoad, DequeueSize,
         RunningStore, RunningLoad, RunningSize, PutLock, Purge, PurgeLoad,
         PurgeSize, PurgeClear, EnqueueStore, EnqueueLoad, EnqueueSize

\* A step of the specification keeps the invariant of the serial behaviours.
LEMMA SerialNext ==
    RaceInv /\ (overlap \/ SerialInv) /\ [Next]_vars => (overlap \/ SerialInv)'
  <1> SUFFICES ASSUME RaceInv, overlap \/ SerialInv, [Next]_vars
               PROVE  (overlap \/ SerialInv)'
    OBVIOUS
  <1>1. CASE \E t \in Threads : Call(t) \/ Client(t)
    BY <1>1, SerialStep, OverlapStays
  <1>2. CASE UNCHANGED vars
    BY <1>2 DEF vars, SerialInv, Alone, ScanInv, CopyInv, CopyAt
  <1> QED BY <1>1, <1>2 DEF Next, Stop

\* Both invariants hold in every reachable state.
LEMMA SerialAlways == Spec => [](RaceInv /\ (overlap \/ SerialInv))
  BY RaceInit, RaceNext, SerialInit, SerialNext, PTL DEF Spec

\* As long as no sections overlap, the arrays, sizes and loops of queue.c and
\* sched.c behave as one FIFO queue per priority served in the order of
\* priority (sched.c:62-118).
THEOREM SchedImplementsMlq == Spec => ImplementsMlq
  <1>1. Init => MLQ!Init
    <2> SUFFICES ASSUME Init PROVE MLQ!Init
      OBVIOUS
    <2>1. ASSUME NEW k \in Levels PROVE ReadySeq(k) = <<>>
      <3>1. ReadySeq(k) = contents(NewQueue)
        BY DEF Init, ReadySeq
      <3> QED BY <3>1, NewQueueProps, ContentsType
    <2> QED BY <2>1 DEF Init, MLQ!Init, MLQ!Levels, Levels
  <1>2. RaceInv /\ (overlap \/ SerialInv) /\ [Next]_vars
           => [overlap' \/ MLQ!Next]_(MLQ!mlqVars)
    <2> SUFFICES ASSUME RaceInv, overlap \/ SerialInv, [Next]_vars, ~overlap'
                 PROVE  MLQ!Next \/ UNCHANGED MLQ!mlqVars
      OBVIOUS
    <2>1. CASE \E t \in Threads : Call(t) \/ Client(t)
      BY <2>1, MlqStep, OverlapStays
    <2>2. CASE UNCHANGED vars
      BY <2>2 DEF vars, MLQ!mlqVars, ReadySeq
    <2> QED BY <2>1, <2>2 DEF Next, Stop
  <1> QED BY <1>1, <1>2, SerialAlways, PTL DEF Spec, ImplementsMlq

-----------------------------------------------------------------------------
(* No process is lost or duplicated: an invariant of the abstract queues.  *)

\* The entries of the queues are live, in the queue of their priority, and
\* different from each other.
QueuedOnce(rq, lf) ==
    \A k \in Levels :
        /\ \A i \in 1 .. Len(rq[k]) : lf[rq[k][i]] = "live" /\ Prio[rq[k][i]] = k
        /\ \A i, j \in 1 .. Len(rq[k]) : rq[k][i] = rq[k][j] => i = j

\* A thread's process is live, in no queue and with no other thread.
OwnedOnce(rq, own, lf) ==
    \A t \in Threads : own[t] # NULL =>
        /\ lf[own[t]] = "live"
        /\ \A k \in Levels : \A i \in 1 .. Len(rq[k]) : rq[k][i] # own[t]
        /\ \A u \in Threads : own[u] = own[t] => u = t

\* A live process is with a thread or in a queue.
Kept(rq, own, lf) ==
    \A p \in Procs : lf[p] = "live" =>
        \/ \E t \in Threads : own[t] = p
        \/ \E k \in Levels : \E i \in 1 .. Len(rq[k]) : rq[k][i] = p

OneOwner(rq, own, lf) ==
    /\ rq \in [Levels -> Seq(Procs)]
    /\ own \in [Threads -> Ptr]
    /\ lf \in [Procs -> {"new", "live", "freed", "dropped"}]
    /\ QueuedOnce(rq, lf) /\ OwnedOnce(rq, own, lf) /\ Kept(rq, own, lf)

\* The loader's new process is nowhere else.
LEMMA LoadKeeps ==
    ASSUME NEW rq, NEW own, NEW lf, OneOwner(rq, own, lf),
           NEW t \in Threads, NEW p \in Procs, own[t] = NULL, lf[p] = "new"
    PROVE  OneOwner(rq, [own EXCEPT ![t] = p], [lf EXCEPT ![p] = "live"])
  <1> DEFINE o == [own EXCEPT ![t] = p]
             l == [lf EXCEPT ![p] = "live"]
  <1> USE DEF OneOwner
  <1>1. o \in [Threads -> Ptr] /\ l \in [Procs -> {"new", "live", "freed", "dropped"}]
    BY DEF Ptr
  <1>2. \A k \in Levels : \A i \in 1 .. Len(rq[k]) :
           rq[k][i] \in Procs /\ rq[k][i] # p
    BY DEF QueuedOnce
  <1>3. \A u \in Threads : own[u] # p
    BY QueueAssumption DEF OwnedOnce
  <1>4. QueuedOnce(rq, l)
    BY <1>2 DEF QueuedOnce
  <1>5. OwnedOnce(rq, o, l)
    BY <1>2, <1>3 DEF OwnedOnce, Ptr
  <1>6. Kept(rq, o, l)
    BY <1>2, <1>3, QueueAssumption DEF Kept
  <1> QED BY <1>1, <1>4, <1>5, <1>6

\* A process that is put at the end of its queue leaves its thread.
LEMMA ReadyKeeps ==
    ASSUME NEW rq, NEW own, NEW lf, OneOwner(rq, own, lf),
           NEW t \in Threads, NEW p \in Procs, own[t] = p, Prio[p] \in Levels
    PROVE  OneOwner([rq EXCEPT ![Prio[p]] = Append(@, p)],
                    [own EXCEPT ![t] = NULL], lf)
  <1> DEFINE k == Prio[p]
             r == [rq EXCEPT ![k] = Append(@, p)]
             o == [own EXCEPT ![t] = NULL]
  <1> USE DEF OneOwner
  <1>0. p # NULL /\ k \in Levels /\ Prio[p] = k
    BY QueueAssumption
  <1> HIDE DEF k
  <1>1. /\ rq[k] \in Seq(Procs) /\ Append(rq[k], p) \in Seq(Procs)
        /\ Len(rq[k]) \in Nat
        /\ Len(Append(rq[k], p)) = Len(rq[k]) + 1
        /\ \A i \in 1 .. Len(rq[k]) : Append(rq[k], p)[i] = rq[k][i]
        /\ Append(rq[k], p)[Len(rq[k]) + 1] = p
    BY <1>0, AppendProperties
  <1>2. /\ r \in [Levels -> Seq(Procs)] /\ o \in [Threads -> Ptr]
        /\ r[k] = Append(rq[k], p)
        /\ \A j \in Levels : j # k => r[j] = rq[j]
    BY <1>0, <1>1 DEF Ptr
  <1> HIDE DEF r
  <1>3. /\ lf[p] = "live"
        /\ \A j \in Levels : \A i \in 1 .. Len(rq[j]) : rq[j][i] # p
        /\ \A u \in Threads : own[u] = p => u = t
    BY <1>0 DEF OwnedOnce
  <1>4. \A i \in 1 .. Len(r[k]) :
           \/ i \in 1 .. Len(rq[k]) /\ r[k][i] = rq[k][i]
           \/ i = Len(rq[k]) + 1 /\ r[k][i] = p
    BY <1>1, <1>2
  <1>5. /\ \A i \in 1 .. Len(rq[k]) : lf[rq[k][i]] = "live" /\ Prio[rq[k][i]] = k
        /\ \A i, j \in 1 .. Len(rq[k]) : rq[k][i] = rq[k][j] => i = j
    BY <1>0 DEF QueuedOnce
  <1>6. QueuedOnce(r, lf)
    <2> SUFFICES ASSUME NEW j \in Levels
                 PROVE  /\ \A i \in 1 .. Len(r[j]) :
                              lf[r[j][i]] = "live" /\ Prio[r[j][i]] = j
                        /\ \A i, h \in 1 .. Len(r[j]) :
                              r[j][i] = r[j][h] => i = h
      BY DEF QueuedOnce
    <2>1. CASE j = k
      <3>1. ASSUME NEW i \in 1 .. Len(r[k])
            PROVE  lf[r[k][i]] = "live" /\ Prio[r[k][i]] = k
        <4>1. CASE i \in 1 .. Len(rq[k]) /\ r[k][i] = rq[k][i]
          <5>1. lf[rq[k][i]] = "live" /\ Prio[rq[k][i]] = k
            BY <1>5, <4>1
          <5> QED BY <4>1, <5>1
        <4>2. CASE r[k][i] = p
          BY <1>0, <1>3, <4>2
        <4> QED BY <1>4, <4>1, <4>2
      <3>2. ASSUME NEW i \in 1 .. Len(r[k]), NEW h \in 1 .. Len(r[k]),
                   r[k][i] = r[k][h]
            PROVE  i = h
        <4>1. \A g \in 1 .. Len(rq[k]) : rq[k][g] # p
          BY <1>0, <1>3
        <4>2. CASE i = Len(rq[k]) + 1 /\ r[k][i] = p
          BY <1>4, <3>2, <4>1, <4>2
        <4>3. CASE i \in 1 .. Len(rq[k]) /\ r[k][i] = rq[k][i]
          <5>1. h \in 1 .. Len(rq[k]) /\ r[k][h] = rq[k][h]
            BY <1>4, <3>2, <4>1, <4>3
          <5> QED BY <1>5, <3>2, <4>3, <5>1
        <4> QED BY <1>4, <4>2, <4>3
      <3> QED BY <2>1, <3>1, <3>2
    <2>2. CASE j # k
      BY <1>2, <2>2 DEF QueuedOnce
    <2> QED BY <2>1, <2>2
  <1>7. OwnedOnce(r, o, lf)
    <2> SUFFICES ASSUME NEW u \in Threads, o[u] # NULL
                 PROVE  /\ lf[o[u]] = "live"
                        /\ \A j \in Levels : \A i \in 1 .. Len(r[j]) :
                              r[j][i] # o[u]
                        /\ \A v \in Threads : o[v] = o[u] => v = u
      BY DEF OwnedOnce
    <2>1. u # t /\ o[u] = own[u] /\ own[u] # p
      BY <1>3
    <2>2. ASSUME NEW j \in Levels, NEW i \in 1 .. Len(r[j])
          PROVE  r[j][i] # own[u]
      <3>1. CASE j = k
        <4>1. \A h \in 1 .. Len(rq[k]) : rq[k][h] # own[u]
          BY <1>0, <2>1 DEF OwnedOnce
        <4> QED BY <1>4, <2>1, <3>1, <4>1
      <3>2. CASE j # k
        BY <1>2, <2>1, <3>2 DEF OwnedOnce
      <3> QED BY <3>1, <3>2
    <2> QED BY <2>1, <2>2 DEF OwnedOnce
  <1>8. Kept(r, o, lf)
    <2> SUFFICES ASSUME NEW x \in Procs, lf[x] = "live"
                 PROVE  \/ \E u \in Threads : o[u] = x
                        \/ \E j \in Levels : \E i \in 1 .. Len(r[j]) : r[j][i] = x
      BY DEF Kept
    <2>1. CASE x = p
      <3>1. Len(rq[k]) + 1 \in 1 .. Len(r[k]) /\ r[k][Len(rq[k]) + 1] = x
        BY <1>0, <1>1, <1>2, <2>1
      <3> QED BY <1>0, <3>1
    <2>2. CASE x # p /\ \E u \in Threads : own[u] = x
      <3>1. PICK u \in Threads : own[u] = x
        BY <2>2
      <3>2. u # t /\ o[u] = x
        BY <2>2, <3>1
      <3> QED BY <3>2
    <2>3. CASE \E j \in Levels : \E i \in 1 .. Len(rq[j]) : rq[j][i] = x
      <3>0. PICK j \in Levels : \E i \in 1 .. Len(rq[j]) : rq[j][i] = x
        BY <2>3
      <3>1. PICK i \in 1 .. Len(rq[j]) : rq[j][i] = x
        BY <3>0
      <3>2. i \in 1 .. Len(r[j]) /\ r[j][i] = x
        <4>1. CASE j = k
          <5>1. i \in 1 .. Len(rq[k]) /\ i \in 1 .. Len(rq[k]) + 1
            BY <1>1, <4>1
          <5> QED BY <1>1, <1>2, <3>1, <4>1, <5>1
        <4>2. CASE j # k
          BY <1>2, <3>1, <4>2
        <4> QED BY <4>1, <4>2
      <3> QED BY <3>2
    <2> QED BY <2>1, <2>2, <2>3 DEF Kept
  <1> QED BY <1>2, <1>6, <1>7, <1>8 DEF r, k

\* A dispatched process leaves its queue.
LEMMA DispatchKeeps ==
    ASSUME NEW rq, NEW own, NEW lf, OneOwner(rq, own, lf),
           NEW t \in Threads, NEW k \in Levels, own[t] = NULL, rq[k] # <<>>
    PROVE  OneOwner([rq EXCEPT ![k] = Tail(@)],
                    [own EXCEPT ![t] = Head(rq[k])], lf)
  <1> DEFINE p == Head(rq[k])
             r == [rq EXCEPT ![k] = Tail(@)]
             o == [own EXCEPT ![t] = p]
  <1> USE DEF OneOwner
  <1>1. /\ rq[k] \in Seq(Procs) /\ p \in Procs /\ Tail(rq[k]) \in Seq(Procs)
        /\ Len(Tail(rq[k])) = Len(rq[k]) - 1
        /\ \A i \in 1 .. Len(Tail(rq[k])) : Tail(rq[k])[i] = rq[k][i + 1]
    BY HeadTailProperties
  <1>2. Len(rq[k]) \in Nat /\ Len(rq[k]) > 0 /\ p = rq[k][1]
    BY <1>1
  <1>3. /\ r \in [Levels -> Seq(Procs)] /\ o \in [Threads -> Ptr]
        /\ r[k] = Tail(rq[k])
        /\ \A j \in Levels : j # k => r[j] = rq[j]
        /\ p # NULL
    BY <1>1, QueueAssumption DEF Ptr
  <1> HIDE DEF r, p
  <1>4. \A i \in 1 .. Len(r[k]) :
           i + 1 \in 1 .. Len(rq[k]) /\ r[k][i] = rq[k][i + 1] /\ i + 1 # 1
    BY <1>1, <1>2, <1>3
  <1>5. /\ \A i \in 1 .. Len(rq[k]) : lf[rq[k][i]] = "live" /\ Prio[rq[k][i]] = k
        /\ \A i, j \in 1 .. Len(rq[k]) : rq[k][i] = rq[k][j] => i = j
    BY DEF QueuedOnce
  <1>6. QueuedOnce(r, lf)
    <2> SUFFICES ASSUME NEW j \in Levels
                 PROVE  /\ \A i \in 1 .. Len(r[j]) :
                              lf[r[j][i]] = "live" /\ Prio[r[j][i]] = j
                        /\ \A i, h \in 1 .. Len(r[j]) :
                              r[j][i] = r[j][h] => i = h
      BY DEF QueuedOnce
    <2>1. CASE j = k
      <3>1. ASSUME NEW i \in 1 .. Len(r[k])
            PROVE  lf[r[k][i]] = "live" /\ Prio[r[k][i]] = k
        <4>1. i + 1 \in 1 .. Len(rq[k]) /\ r[k][i] = rq[k][i + 1]
          BY <1>4
        <4>2. lf[rq[k][i + 1]] = "live" /\ Prio[rq[k][i + 1]] = k
          BY <1>5, <4>1
        <4> QED BY <4>1, <4>2
      <3>2. ASSUME NEW i \in 1 .. Len(r[k]), NEW h \in 1 .. Len(r[k]),
                   r[k][i] = r[k][h]
            PROVE  i = h
        <4>1. i + 1 = h + 1
          BY <1>4, <1>5, <3>2
        <4> QED BY <4>1
      <3> QED BY <2>1, <3>1, <3>2
    <2>2. CASE j # k
      BY <1>3, <2>2 DEF QueuedOnce
    <2> QED BY <2>1, <2>2
  <1>7. /\ lf[p] = "live" /\ Prio[p] = k /\ 1 \in 1 .. Len(rq[k])
        /\ \A u \in Threads : own[u] # p
    BY <1>2, <1>3 DEF QueuedOnce, OwnedOnce
  <1>8. \A j \in Levels : \A i \in 1 .. Len(r[j]) : r[j][i] # p
    <2> SUFFICES ASSUME NEW j \in Levels, NEW i \in 1 .. Len(r[j])
                 PROVE  r[j][i] # p
      OBVIOUS
    <2>1. CASE j = k
      BY <1>2, <1>4, <1>7, <2>1 DEF QueuedOnce
    <2>2. CASE j # k
      BY <1>3, <1>7, <2>2 DEF QueuedOnce
    <2> QED BY <2>1, <2>2
  <1>9. OwnedOnce(r, o, lf)
    <2> SUFFICES ASSUME NEW u \in Threads, o[u] # NULL
                 PROVE  /\ lf[o[u]] = "live"
                        /\ \A j \in Levels : \A i \in 1 .. Len(r[j]) :
                              r[j][i] # o[u]
                        /\ \A v \in Threads : o[v] = o[u] => v = u
      BY DEF OwnedOnce
    <2>1. CASE u = t
      BY <1>7, <1>8, <2>1
    <2>2. CASE u # t
      <3>1. o[u] = own[u] /\ own[u] # p /\ own[u] # NULL
        BY <1>7, <2>2
      <3>2. \A j \in Levels : \A i \in 1 .. Len(r[j]) : r[j][i] # own[u]
        <4> SUFFICES ASSUME NEW j \in Levels, NEW i \in 1 .. Len(r[j])
                     PROVE  r[j][i] # own[u]
          OBVIOUS
        <4>1. CASE j = k
          BY <1>4, <3>1, <4>1 DEF OwnedOnce
        <4>2. CASE j # k
          BY <1>3, <3>1, <4>2 DEF OwnedOnce
        <4> QED BY <4>1, <4>2
      <3> QED BY <3>1, <3>2 DEF OwnedOnce
    <2> QED BY <2>1, <2>2
  <1>10. Kept(r, o, lf)
    <2> SUFFICES ASSUME NEW x \in Procs, lf[x] = "live"
                 PROVE  \/ \E u \in Threads : o[u] = x
                        \/ \E j \in Levels : \E i \in 1 .. Len(r[j]) : r[j][i] = x
      BY DEF Kept
    <2>1. CASE x = p
      BY <2>1
    <2>2. CASE \E u \in Threads : own[u] = x
      <3>1. PICK u \in Threads : own[u] = x
        BY <2>2
      <3>2. u # t /\ o[u] = x
        BY <3>1, QueueAssumption
      <3> QED BY <3>2
    <2>3. CASE x # p /\ \E j \in Levels : \E i \in 1 .. Len(rq[j]) : rq[j][i] = x
      <3>0. PICK j \in Levels : \E i \in 1 .. Len(rq[j]) : rq[j][i] = x
        BY <2>3
      <3>1. PICK i \in 1 .. Len(rq[j]) : rq[j][i] = x
        BY <3>0
      <3>2. CASE j # k
        BY <1>3, <3>1, <3>2
      <3>3. CASE j = k
        <4>1. i - 1 \in 1 .. Len(r[k]) /\ i = (i - 1) + 1
          BY <1>1, <1>2, <1>3, <2>3, <3>1, <3>3
        <4>2. r[k][i - 1] = x
          BY <1>4, <3>1, <3>3, <4>1
        <4> QED BY <4>1, <4>2
      <3> QED BY <3>2, <3>3
    <2> QED BY <2>1, <2>2, <2>3 DEF Kept
  <1> QED BY <1>3, <1>6, <1>9, <1>10 DEF r, p

\* A process that ends, or that no queue takes, leaves its thread.
LEMMA LeaveKeeps ==
    ASSUME NEW rq, NEW own, NEW lf, OneOwner(rq, own, lf),
           NEW t \in Threads, NEW how \in {"freed", "dropped"}, own[t] # NULL
    PROVE  OneOwner(rq, [own EXCEPT ![t] = NULL], [lf EXCEPT ![own[t]] = how])
  <1> DEFINE p == own[t]
             o == [own EXCEPT ![t] = NULL]
             l == [lf EXCEPT ![p] = how]
  <1> USE DEF OneOwner
  <1>1. /\ p \in Procs
        /\ o \in [Threads -> Ptr] /\ l \in [Procs -> {"new", "live", "freed", "dropped"}]
    BY DEF Ptr
  <1>2. /\ lf[p] = "live"
        /\ \A k \in Levels : \A i \in 1 .. Len(rq[k]) :
              rq[k][i] \in Procs /\ rq[k][i] # p
        /\ \A u \in Threads : own[u] = p => u = t
    BY DEF OwnedOnce
  <1>3. QueuedOnce(rq, l)
    BY <1>1, <1>2 DEF QueuedOnce
  <1>4. OwnedOnce(rq, o, l)
    BY <1>1, <1>2 DEF OwnedOnce, Ptr
  <1>5. Kept(rq, o, l)
    BY <1>1, <1>2 DEF Kept
  <1> QED BY <1>1, <1>3, <1>4, <1>5

\* The queues of sched.c and the pointers of its threads.
rqueues == [k \in Levels |-> ReadySeq(k)]

OwnerInv == OneOwner(rqueues, proc, life)

\* Every step of module Mlq keeps every live process in one place.
LEMMA MlqNextKeeps == OwnerInv /\ MLQ!Next => OwnerInv'
  <1> SUFFICES ASSUME OwnerInv, MLQ!Next PROVE OwnerInv'
    OBVIOUS
  <1> SUFFICES OneOwner(rqueues', proc', life')
    BY Zenon DEF OwnerInv, OneOwner, QueuedOnce, OwnedOnce, Kept
  <1>0. MLQ!Levels = Levels
    BY DEF MLQ!Levels, Levels
  <1>1. PICK t \in Threads : \/ \E p \in Procs : MLQ!Load(t, p)
                             \/ MLQ!Ready(t) \/ MLQ!Dispatch(t) \/ MLQ!Leave(t)
    BY DEF MLQ!Next
  <1>2. ASSUME NEW p \in Procs, MLQ!Load(t, p)
        PROVE  OneOwner(rqueues', proc', life')
    <2>1. /\ proc[t] = NULL /\ life[p] = "new" /\ rqueues' = rqueues
          /\ proc' = [proc EXCEPT ![t] = p] /\ life' = [life EXCEPT ![p] = "live"]
      BY <1>2 DEF MLQ!Load, rqueues
    <2> QED BY <2>1, LoadKeeps DEF OwnerInv
  <1>3. CASE MLQ!Ready(t)
    <2>1. PICK p \in Procs : p = proc[t]
      BY <1>3 DEF MLQ!Ready, OwnerInv, OneOwner, Ptr
    <2>2. /\ Prio[p] \in Levels
          /\ rqueues' = [rqueues EXCEPT ![Prio[p]] = Append(@, p)]
          /\ proc' = [proc EXCEPT ![t] = NULL] /\ life' = life
      BY <1>0, <1>3, <2>1 DEF MLQ!Ready, rqueues
    <2> QED BY <2>1, <2>2, ReadyKeeps DEF OwnerInv
  <1>4. CASE MLQ!Dispatch(t)
    <2>1. PICK k \in Levels : /\ rqueues[k] # <<>> /\ proc[t] = NULL
                              /\ proc' = [proc EXCEPT ![t] = Head(rqueues[k])]
                              /\ rqueues' = [rqueues EXCEPT ![k] = Tail(@)]
                              /\ life' = life
      BY <1>0, <1>4 DEF MLQ!Dispatch, rqueues
    <2> QED BY <2>1, DispatchKeeps DEF OwnerInv
  <1>5. CASE MLQ!Leave(t)
    <2>1. PICK how \in {"freed", "dropped"} :
             /\ proc[t] # NULL
             /\ life' = [life EXCEPT ![proc[t]] = how]
             /\ proc' = [proc EXCEPT ![t] = NULL] /\ rqueues' = rqueues
      BY <1>5 DEF MLQ!Leave, rqueues
    <2> QED BY <2>1, LeaveKeeps DEF OwnerInv
  <1> QED BY <1>1, <1>2, <1>3, <1>4, <1>5

\* Initially every process is new.
LEMMA OwnerInit == Init => OwnerInv
  <1> SUFFICES ASSUME Init PROVE OwnerInv
    OBVIOUS
  <1>1. ASSUME NEW k \in Levels PROVE ReadySeq(k) = <<>>
    <2>1. ReadySeq(k) = contents(NewQueue)
      BY DEF Init, ReadySeq
    <2> QED BY <2>1, NewQueueProps, ContentsType
  <1>2. rqueues = [k \in Levels |-> <<>>]
    BY <1>1 DEF rqueues
  <1>3. rqueues \in [Levels -> Seq(Procs)]
    BY <1>2
  <1>4. \A k \in Levels : Len(rqueues[k]) = 0
    BY <1>2
  <1>5. QueuedOnce(rqueues, life)
    BY <1>4 DEF QueuedOnce
  <1> QED BY <1>3, <1>5 DEF OwnerInv, OneOwner, OwnedOnce, Kept, Init, Ptr

\* A step of the specification keeps every live process in one place until
\* sections have overlapped.
LEMMA OwnerNext ==
    /\ RaceInv /\ (overlap \/ SerialInv) /\ (overlap \/ OwnerInv)
    /\ [Next]_vars
    => (overlap \/ OwnerInv)'
  <1> SUFFICES ASSUME RaceInv, overlap \/ SerialInv, overlap \/ OwnerInv,
                      [Next]_vars, ~overlap'
               PROVE  OwnerInv'
    OBVIOUS
  <1>1. ASSUME OwnerInv, rqueues' = rqueues, proc' = proc, life' = life
        PROVE  OwnerInv'
    <2>1. OneOwner(rqueues', proc', life')
      BY <1>1 DEF OwnerInv
    <2> QED BY <2>1, Zenon DEF OwnerInv, OneOwner, QueuedOnce, OwnedOnce, Kept
  <1>2. CASE \E t \in Threads : Call(t) \/ Client(t)
    <2>1. PICK t \in Threads : Call(t) \/ Client(t)
      BY <1>2
    <2>2. ~overlap
      BY <2>1, OverlapStays
    <2>3. MLQ!Next \/ UNCHANGED MLQ!mlqVars
      BY <2>1, <2>2, MlqStep
    <2>4. UNCHANGED MLQ!mlqVars =>
             rqueues' = rqueues /\ proc' = proc /\ life' = life
      BY DEF MLQ!mlqVars, rqueues
    <2> QED BY <1>1, <2>2, <2>3, <2>4, MlqNextKeeps
  <1>3. CASE UNCHANGED vars
    <2>1. rqueues' = rqueues /\ proc' = proc /\ life' = life /\ ~overlap
      BY <1>3 DEF vars, rqueues, ReadySeq
    <2> QED BY <1>1, <2>1
  <1> QED BY <1>2, <1>3 DEF Next, Stop

\* With nobody inside the scheduler the abstract queues are the arrays.
LEMMA QuietOnePlace ==
    ASSUME RaceInv, OwnerInv, Quiet, NEW p \in Procs
    PROVE  /\ Cardinality(PlacesOf(p)) = IF life[p] = "live" THEN 1 ELSE 0
           /\ \A k \in Levels : holding(ready[k], p) # {} => k = Prio[p]
  <1>0. StateTyped
    BY StateTypes
  <1>1. \A k \in Levels : rqueues[k] = contents(ready[k])
    BY DEF Quiet, Held, GetSection, ReadySeq, rqueues
  <1>2. ASSUME NEW k \in Levels, NEW i \in Slots, i < ready[k].size
        PROVE  /\ i + 1 \in 1 .. Len(rqueues[k])
               /\ rqueues[k][i + 1] = ready[k].proc[i]
    <2>1. /\ ready[k] \in queue_t /\ Len(contents(ready[k])) = ready[k].size
          /\ \A j \in 1 .. ready[k].size :
                contents(ready[k])[j] = ready[k].proc[j - 1]
      BY <1>0, ContentsType DEF StateTyped
    <2>2. i + 1 \in 1 .. ready[k].size /\ (i + 1) - 1 = i
      BY <1>0, <1>2 DEF StateTyped, Slots
    <2> QED BY <1>1, <2>1, <2>2
  <1>3. ASSUME NEW k \in Levels, NEW j \in 1 .. Len(rqueues[k])
        PROVE  /\ j - 1 \in Slots /\ j - 1 < ready[k].size
               /\ ready[k].proc[j - 1] = rqueues[k][j]
    BY <1>0, <1>1, ContentsType DEF StateTyped
  <1>4. /\ QueuedOnce(rqueues, life) /\ OwnedOnce(rqueues, proc, life)
        /\ Kept(rqueues, proc, life)
    BY DEF OwnerInv, OneOwner
  <1> DEFINE In(k, i) == i < ready[k].size /\ ready[k].proc[i] = p
  <1>5. ASSUME NEW k \in Levels, NEW i \in Slots, In(k, i)
        PROVE  life[p] = "live" /\ Prio[p] = k
    BY <1>2, <1>4, <1>5 DEF QueuedOnce
  <1>6. ASSUME NEW k \in Levels, NEW i \in Slots, NEW j \in Slots,
               In(k, i), In(k, j)
        PROVE  i = j
    <2>1. i + 1 = j + 1
      BY <1>2, <1>4, <1>6 DEF QueuedOnce
    <2> QED BY <2>1 DEF Slots
  <1>7. ASSUME NEW t \in Threads, proc[t] = p
        PROVE  /\ life[p] = "live"
               /\ \A k \in Levels : \A i \in Slots : ~In(k, i)
               /\ \A u \in Threads : proc[u] = p => u = t
    <2>1. proc[t] # NULL
      BY <1>7, QueueAssumption
    <2> QED BY <1>2, <1>4, <1>7, <2>1 DEF OwnedOnce
  <1>8. PlacesOf(p) = {t \in Threads : proc[t] = p} \cup
                      {s \in Levels \X Slots : In(s[1], s[2])}
    BY DEF PlacesOf
  <1>9. Cardinality(PlacesOf(p)) = IF life[p] = "live" THEN 1 ELSE 0
    <2>1. CASE life[p] # "live"
      <3>1. \A s \in Levels \X Slots : ~In(s[1], s[2])
        BY <1>5, <2>1
      <3>2. PlacesOf(p) = {}
        BY <1>7, <1>8, <2>1, <3>1
      <3> QED BY <2>1, <3>2, FS_EmptySet
    <2>2. CASE life[p] = "live" /\ \E t \in Threads : proc[t] = p
      <3>1. PICK t \in Threads : proc[t] = p
        BY <2>2
      <3>2. \A s \in Levels \X Slots : ~In(s[1], s[2])
        BY <1>7, <3>1
      <3>3. PlacesOf(p) = {t}
        BY <1>7, <1>8, <3>1, <3>2
      <3> QED BY <2>2, <3>3, FS_Singleton
    <2>3. CASE life[p] = "live" /\ ~\E t \in Threads : proc[t] = p
      <3>1. PICK k \in Levels : \E j \in 1 .. Len(rqueues[k]) : rqueues[k][j] = p
        BY <1>4, <2>3 DEF Kept
      <3>2. PICK j \in 1 .. Len(rqueues[k]) : rqueues[k][j] = p
        BY <3>1
      <3>3. PICK i \in Slots : In(k, i)
        BY <1>3, <3>2
      <3>4. ASSUME NEW s \in Levels \X Slots, In(s[1], s[2]) PROVE s = <<k, i>>
        <4>1. s[1] = k
          BY <1>5, <3>3, <3>4
        <4>2. s[2] = i
          BY <1>6, <3>3, <3>4, <4>1
        <4> QED BY <4>1, <4>2
      <3>5. PlacesOf(p) = {<<k, i>>}
        BY <1>8, <2>3, <3>3, <3>4
      <3> QED BY <2>3, <3>5, FS_Singleton
    <2> QED BY <2>1, <2>2, <2>3
  <1>10. \A k \in Levels : holding(ready[k], p) # {} => k = Prio[p]
    BY <1>5 DEF holding
  <1> QED BY <1>9, <1>10

\* As long as no get section has overlapped a put or add section, every live
\* process is with exactly one thread or in exactly one slot of the queue of
\* its priority, and no other process is anywhere (sched.c:62-118).
THEOREM NoProcessLost == Spec => []OnePlace
  <1> DEFINE I == RaceInv /\ (overlap \/ SerialInv) /\ (overlap \/ OwnerInv)
  <1>1. Init => I
    BY RaceInit, SerialInit, OwnerInit
  <1>2. I /\ [Next]_vars => I'
    BY RaceNext, SerialNext, OwnerNext
  <1>3. I => OnePlace
    BY QuietOnePlace DEF OnePlace, EachInOnePlace
  <1> HIDE DEF I
  <1> QED BY <1>1, <1>2, <1>3, PTL DEF Spec

\* A live process is somewhere.
LEMMA LiveHasPlace ==
    ASSUME OnePlace, ~overlap, Quiet, NEW p \in Procs, life[p] = "live"
    PROVE  PlacesOf(p) # {}
  <1>1. Cardinality(PlacesOf(p)) = 1
    BY DEF OnePlace, EachInOnePlace
  <1> QED BY <1>1, FS_EmptySet

-----------------------------------------------------------------------------
(* The process the loader is about to enqueue.                             *)

\* No queue slot, counted or not, and no CPU has p.
Nowhere(p) ==
    /\ \A k \in Levels : \A i \in Slots : ready[k].proc[i] # p
    /\ \A i \in Slots : running.proc[i] # p
    /\ \A c \in CPUs : proc[c] # p

\* p has not been stored in a queue yet.
Fresh(p) ==
    \/ life[p] = "new"
    \/ at[Loader] \in {"add", "estore"} /\ proc[Loader] = p

\* Only the loader knows of a process it has not enqueued, in every race.
FreshInv ==
    /\ \A p \in Procs : Fresh(p) => Nowhere(p)
    /\ proc[Loader] # NULL => life[proc[Loader]] # "new"

\* No process is anywhere before the threads start.
LEMMA FreshInit == Init => FreshInv
  <1> SUFFICES ASSUME Init PROVE FreshInv
    OBVIOUS
  <1>1. \A p \in Procs : Nowhere(p)
    BY QueueAssumption DEF Init, Nowhere, NewQueue, Threads
  <1> QED BY <1>1 DEF FreshInv, Init, Threads

\* A step that makes no process fresh, and brings a fresh one nowhere, keeps
\* the invariant.
LEMMA FreshSame ==
    ASSUME FreshInv,
           \A p \in Procs : Fresh(p)' => Fresh(p),
           \A p \in Procs : Fresh(p)' /\ Nowhere(p) => Nowhere(p)',
           proc'[Loader] # NULL => life'[proc'[Loader]] # "new"
    PROVE  FreshInv'
  BY DEF FreshInv

\* Every step of every thread keeps the invariant.
LEMMA FreshStep ==
    ASSUME RaceInv, FreshInv, NEW t \in Threads, Call(t) \/ Client(t)
    PROVE  FreshInv'
  <1> USE DEF RaceInv
  <1>0. StateTyped
    BY StateTypes
  <1>1. /\ \A u \in Threads : proc[u] # NULL => proc[u] \in Procs
        /\ CPUs \subseteq Threads /\ NULL \notin Procs
        /\ Loader \in Threads /\ Loader \notin CPUs
        /\ t # Loader => t \in CPUs
    BY QueueAssumption, SchedAssumption DEF TypeOK, Threads, Ptr
  <1>2. CASE CallGet(t)
    <2>1. \A p \in Procs : Fresh(p)' => Fresh(p)
      BY <1>1, <1>2 DEF CallGet, Goto, Fresh, TypeOK, LoaderInv
    <2>2. \A p \in Procs : Fresh(p)' /\ Nowhere(p) => Nowhere(p)'
      BY <1>1, <1>2 DEF CallGet, Goto, Nowhere, Fresh, TypeOK, LoaderInv
    <2>3. proc'[Loader] # NULL => life'[proc'[Loader]] # "new"
      BY <1>1, <1>2 DEF CallGet, Goto, FreshInv, TypeOK, LoaderInv
    <2> QED BY <2>1, <2>2, <2>3, FreshSame
  <1>3. CASE CallPut(t)
    <2>1. \A p \in Procs : Fresh(p)' => Fresh(p)
      BY <1>1, <1>3 DEF CallPut, Goto, Fresh, TypeOK, LoaderInv
    <2>2. \A p \in Procs : Fresh(p)' /\ Nowhere(p) => Nowhere(p)'
      BY <1>1, <1>3 DEF CallPut, Goto, Nowhere, Fresh, TypeOK, LoaderInv
    <2>3. proc'[Loader] # NULL => life'[proc'[Loader]] # "new"
      BY <1>1, <1>3 DEF CallPut, Goto, FreshInv, TypeOK, LoaderInv
    <2> QED BY <2>1, <2>2, <2>3, FreshSame
  <1>4. CASE Free(t)
    <2>1. \A p \in Procs : Fresh(p)' => Fresh(p)
      BY <1>1, <1>4 DEF Free, Goto, Fresh, TypeOK, LoaderInv
    <2>2. \A p \in Procs : Fresh(p)' /\ Nowhere(p) => Nowhere(p)'
      BY <1>1, <1>4 DEF Free, Goto, Nowhere, Fresh, TypeOK, LoaderInv
    <2>3. proc'[Loader] # NULL => life'[proc'[Loader]] # "new"
      BY <1>1, <1>4 DEF Free, Goto, FreshInv, TypeOK, LoaderInv
    <2> QED BY <2>1, <2>2, <2>3, FreshSame
  <1>5. CASE GetLock(t)
    <2>1. \A p \in Procs : Fresh(p)' => Fresh(p)
      BY <1>1, <1>5 DEF GetLock, Goto, Fresh, TypeOK, LoaderInv
    <2>2. \A p \in Procs : Fresh(p)' /\ Nowhere(p) => Nowhere(p)'
      BY <1>1, <1>5 DEF GetLock, Goto, Nowhere, Fresh, TypeOK, LoaderInv
    <2>3. proc'[Loader] # NULL => life'[proc'[Loader]] # "new"
      BY <1>1, <1>5 DEF GetLock, Goto, FreshInv, TypeOK, LoaderInv
    <2> QED BY <2>1, <2>2, <2>3, FreshSame
  <1>6. CASE ScanNext(t)
    <2>1. \A p \in Procs : Fresh(p)' => Fresh(p)
      BY <1>1, <1>6 DEF ScanNext, Goto, Fresh, TypeOK, LoaderInv
    <2>2. \A p \in Procs : Fresh(p)' /\ Nowhere(p) => Nowhere(p)'
      BY <1>1, <1>6 DEF ScanNext, Goto, Nowhere, Fresh, TypeOK, LoaderInv
    <2>3. proc'[Loader] # NULL => life'[proc'[Loader]] # "new"
      BY <1>1, <1>6 DEF ScanNext, Goto, FreshInv, TypeOK, LoaderInv
    <2> QED BY <2>1, <2>2, <2>3, FreshSame
  <1>7. CASE ScanNone(t)
    <2>1. \A p \in Procs : Fresh(p)' => Fresh(p)
      BY <1>1, <1>7 DEF ScanNone, Goto, Fresh, TypeOK, LoaderInv
    <2>2. \A p \in Procs : Fresh(p)' /\ Nowhere(p) => Nowhere(p)'
      BY <1>1, <1>7 DEF ScanNone, Goto, Nowhere, Fresh, TypeOK, LoaderInv
    <2>3. proc'[Loader] # NULL => life'[proc'[Loader]] # "new"
      BY <1>1, <1>7 DEF ScanNone, Goto, FreshInv, TypeOK, LoaderInv
    <2> QED BY <2>1, <2>2, <2>3, FreshSame
  <1>8. CASE ScanTake(t)
    <2>0. ScanTakeDoes(t)
      BY <1>8, ScanTakeEffect
    <2>1. \A p \in Procs : Fresh(p)' => Fresh(p)
      BY <1>1, <2>0 DEF ScanTakeDoes, Fresh, TypeOK, LoaderInv
    <2>2. \A p \in Procs : Fresh(p)' /\ Nowhere(p) => Nowhere(p)'
      BY <1>1, <2>0 DEF ScanTakeDoes, Nowhere, Fresh, TypeOK, LoaderInv
    <2>3. proc'[Loader] # NULL => life'[proc'[Loader]] # "new"
      BY <1>1, <2>0 DEF ScanTakeDoes, FreshInv, TypeOK, LoaderInv
    <2> QED BY <2>1, <2>2, <2>3, FreshSame
  <1>9. CASE DequeueLoad(t)
    <2>1. \A p \in Procs : Fresh(p)' => Fresh(p)
      BY <1>1, <1>9 DEF DequeueLoad, Goto, Fresh, TypeOK, LoaderInv
    <2>2. \A p \in Procs : Fresh(p)' /\ Nowhere(p) => Nowhere(p)'
      BY <1>1, <1>9 DEF DequeueLoad, Goto, Nowhere, Fresh, TypeOK, LoaderInv
    <2>3. proc'[Loader] # NULL => life'[proc'[Loader]] # "new"
      BY <1>1, <1>9 DEF DequeueLoad, Goto, FreshInv, TypeOK, LoaderInv
    <2> QED BY <2>1, <2>2, <2>3, FreshSame
  <1>10. CASE DequeueSize(t)
    <2>0. DequeueSizeDoes(t)
      BY <1>10, DequeueSizeEffect
    <2>1. \A p \in Procs : Fresh(p)' => Fresh(p)
      BY <1>1, <2>0 DEF DequeueSizeDoes, Fresh, TypeOK, LoaderInv
    <2>2. \A p \in Procs : Fresh(p)' /\ Nowhere(p) => Nowhere(p)'
      BY <1>1, <2>0 DEF DequeueSizeDoes, Nowhere, Fresh, TypeOK, LoaderInv
    <2>3. proc'[Loader] # NULL => life'[proc'[Loader]] # "new"
      BY <1>1, <2>0 DEF DequeueSizeDoes, FreshInv, TypeOK, LoaderInv
    <2> QED BY <2>1, <2>2, <2>3, FreshSame
  <1>11. CASE RunningStore(t)
    <2>0. RunningStoreDoes(t)
      BY <1>11, RunningStoreEffect
    <2>1. \A p \in Procs : Fresh(p)' => Fresh(p)
      BY <1>1, <2>0 DEF RunningStoreDoes, Fresh, TypeOK, LoaderInv
    <2>2. \A p \in Procs : Fresh(p)' /\ Nowhere(p) => Nowhere(p)'
      BY <1>1, <2>0 DEF RunningStoreDoes, Nowhere, Fresh, TypeOK, LoaderInv
    <2>3. proc'[Loader] # NULL => life'[proc'[Loader]] # "new"
      BY <1>1, <2>0 DEF RunningStoreDoes, FreshInv, TypeOK, LoaderInv
    <2> QED BY <2>1, <2>2, <2>3, FreshSame
  <1>12. CASE RunningLoad(t)
    <2>1. \A p \in Procs : Fresh(p)' => Fresh(p)
      BY <1>1, <1>12 DEF RunningLoad, Goto, Fresh, TypeOK, LoaderInv
    <2>2. \A p \in Procs : Fresh(p)' /\ Nowhere(p) => Nowhere(p)'
      BY <1>1, <1>12 DEF RunningLoad, Goto, Nowhere, Fresh, TypeOK, LoaderInv
    <2>3. proc'[Loader] # NULL => life'[proc'[Loader]] # "new"
      BY <1>1, <1>12 DEF RunningLoad, Goto, FreshInv, TypeOK, LoaderInv
    <2> QED BY <2>1, <2>2, <2>3, FreshSame
  <1>13. CASE RunningSize(t)
    <2>0. RunningSizeDoes(t)
      BY <1>13, RunningSizeEffect
    <2>1. \A p \in Procs : Fresh(p)' => Fresh(p)
      BY <1>1, <2>0 DEF RunningSizeDoes, Fresh, TypeOK, LoaderInv
    <2>2. \A p \in Procs : Fresh(p)' /\ Nowhere(p) => Nowhere(p)'
      BY <1>1, <2>0 DEF RunningSizeDoes, Nowhere, Fresh, TypeOK, LoaderInv
    <2>3. proc'[Loader] # NULL => life'[proc'[Loader]] # "new"
      BY <1>1, <2>0 DEF RunningSizeDoes, FreshInv, TypeOK, LoaderInv
    <2> QED BY <2>1, <2>2, <2>3, FreshSame
  <1>14. CASE PutLock(t)
    <2>1. \A p \in Procs : Fresh(p)' => Fresh(p)
      BY <1>1, <1>14 DEF PutLock, Goto, Fresh, TypeOK, LoaderInv
    <2>2. \A p \in Procs : Fresh(p)' /\ Nowhere(p) => Nowhere(p)'
      BY <1>1, <1>14 DEF PutLock, Goto, Nowhere, Fresh, TypeOK, LoaderInv
    <2>3. proc'[Loader] # NULL => life'[proc'[Loader]] # "new"
      BY <1>1, <1>14 DEF PutLock, Goto, FreshInv, TypeOK, LoaderInv
    <2> QED BY <2>1, <2>2, <2>3, FreshSame
  <1>15. CASE Purge(t)
    <2>0. PurgeDoes(t)
      BY <1>15, PurgeEffect
    <2>1. \A p \in Procs : Fresh(p)' => Fresh(p)
      BY <1>1, <2>0 DEF PurgeDoes, Fresh, TypeOK, LoaderInv
    <2>2. \A p \in Procs : Fresh(p)' /\ Nowhere(p) => Nowhere(p)'
      BY <1>1, <2>0 DEF PurgeDoes, Nowhere, Fresh, TypeOK, LoaderInv
    <2>3. proc'[Loader] # NULL => life'[proc'[Loader]] # "new"
      BY <1>1, <2>0 DEF PurgeDoes, FreshInv, TypeOK, LoaderInv
    <2> QED BY <2>1, <2>2, <2>3, FreshSame
  <1>16. CASE PurgeLoad(t)
    <2>1. \A p \in Procs : Fresh(p)' => Fresh(p)
      BY <1>1, <1>16 DEF PurgeLoad, Goto, Fresh, TypeOK, LoaderInv
    <2>2. \A p \in Procs : Fresh(p)' /\ Nowhere(p) => Nowhere(p)'
      BY <1>1, <1>16 DEF PurgeLoad, Goto, Nowhere, Fresh, TypeOK, LoaderInv
    <2>3. proc'[Loader] # NULL => life'[proc'[Loader]] # "new"
      BY <1>1, <1>16 DEF PurgeLoad, Goto, FreshInv, TypeOK, LoaderInv
    <2> QED BY <2>1, <2>2, <2>3, FreshSame
  <1>17. CASE PurgeSize(t)
    <2>0. PurgeSizeDoes(t)
      BY <1>17, PurgeSizeEffect
    <2>1. \A p \in Procs : Fresh(p)' => Fresh(p)
      BY <1>1, <2>0 DEF PurgeSizeDoes, Fresh, TypeOK, LoaderInv
    <2>2. \A p \in Procs : Fresh(p)' /\ Nowhere(p) => Nowhere(p)'
      BY <1>1, <2>0 DEF PurgeSizeDoes, Nowhere, Fresh, TypeOK, LoaderInv
    <2>3. proc'[Loader] # NULL => life'[proc'[Loader]] # "new"
      BY <1>1, <2>0 DEF PurgeSizeDoes, FreshInv, TypeOK, LoaderInv
    <2> QED BY <2>1, <2>2, <2>3, FreshSame
  <1>18. CASE PurgeClear(t)
    <2>0. PurgeClearDoes(t)
      BY <1>18, PurgeClearEffect
    <2>1. \A p \in Procs : Fresh(p)' => Fresh(p)
      BY <1>1, <2>0 DEF PurgeClearDoes, Fresh, TypeOK, LoaderInv
    <2>2. \A p \in Procs : Fresh(p)' /\ Nowhere(p) => Nowhere(p)'
      BY <1>1, <2>0 DEF PurgeClearDoes, Nowhere, Fresh, TypeOK, LoaderInv
    <2>3. proc'[Loader] # NULL => life'[proc'[Loader]] # "new"
      BY <1>1, <2>0 DEF PurgeClearDoes, FreshInv, TypeOK, LoaderInv
    <2> QED BY <2>1, <2>2, <2>3, FreshSame
  <1>19. CASE EnqueueStore(t)
    <2>0. EnqueueStoreDoes(t)
      BY <1>19, EnqueueStoreEffect
    <2>1. \A p \in Procs : Fresh(p)' => Fresh(p)
      BY <1>1, <2>0 DEF EnqueueStoreDoes, Fresh, TypeOK, LoaderInv
    <2>2. \A p \in Procs : Fresh(p)' /\ Nowhere(p) => Nowhere(p)'
      <3> SUFFICES ASSUME NEW p \in Procs, Fresh(p)', Nowhere(p)
                   PROVE  Nowhere(p)'
        OBVIOUS
      <3>1. CASE at' = [at EXCEPT ![t] = "none"] /\ ready' = ready
                 /\ proc' = [proc EXCEPT ![t] = NULL]
        BY <1>1, <2>0, <3>1 DEF EnqueueStoreDoes, Nowhere, TypeOK
      <3>2. CASE at' = [at EXCEPT ![t] = "eload"]
        <4>1. proc' = proc /\ life' = life /\ running' = running
          BY <2>0, <3>2 DEF EnqueueStoreDoes, TypeOK
        <4>2. proc[t] # p
          <5>1. CASE t = Loader
            BY <2>0, <3>2, <4>1, <5>1, <1>1
            DEF EnqueueStoreDoes, Fresh, FreshInv, TypeOK
          <5>2. CASE t # Loader
            BY <1>1, <5>2 DEF Nowhere
          <5> QED BY <5>1, <5>2
        <4>3. \A k \in Levels : \A i \in Slots :
                 ready'[k].proc[i] = ready[k].proc[i] \/ ready'[k].proc[i] = proc[t]
          BY <2>0, <3>2 DEF EnqueueStoreDoes, TypeOK
        <4> QED BY <4>1, <4>2, <4>3 DEF Nowhere
      <3> QED BY <2>0, <3>1, <3>2 DEF EnqueueStoreDoes
    <2>3. proc'[Loader] # NULL => life'[proc'[Loader]] # "new"
      BY <1>1, <2>0 DEF EnqueueStoreDoes, FreshInv, TypeOK, LoaderInv
    <2> QED BY <2>1, <2>2, <2>3, FreshSame
  <1>20. CASE EnqueueLoad(t)
    <2>1. \A p \in Procs : Fresh(p)' => Fresh(p)
      BY <1>1, <1>20 DEF EnqueueLoad, Goto, Fresh, TypeOK, LoaderInv
    <2>2. \A p \in Procs : Fresh(p)' /\ Nowhere(p) => Nowhere(p)'
      BY <1>1, <1>20 DEF EnqueueLoad, Goto, Nowhere, Fresh, TypeOK, LoaderInv
    <2>3. proc'[Loader] # NULL => life'[proc'[Loader]] # "new"
      BY <1>1, <1>20 DEF EnqueueLoad, Goto, FreshInv, TypeOK, LoaderInv
    <2> QED BY <2>1, <2>2, <2>3, FreshSame
  <1>21. CASE EnqueueSize(t)
    <2>0. EnqueueSizeDoes(t)
      BY <1>21, EnqueueSizeEffect
    <2>1. \A p \in Procs : Fresh(p)' => Fresh(p)
      BY <1>1, <2>0 DEF EnqueueSizeDoes, Fresh, TypeOK, LoaderInv
    <2>2. \A p \in Procs : Fresh(p)' /\ Nowhere(p) => Nowhere(p)'
      BY <1>1, <2>0 DEF EnqueueSizeDoes, Nowhere, Fresh, TypeOK, LoaderInv
    <2>3. proc'[Loader] # NULL => life'[proc'[Loader]] # "new"
      BY <1>1, <2>0 DEF EnqueueSizeDoes, FreshInv, TypeOK, LoaderInv
    <2> QED BY <2>1, <2>2, <2>3, FreshSame
  <1>22. ASSUME NEW x \in Procs, CallAdd(t, x) PROVE FreshInv'
    <2>1. \A p \in Procs : Fresh(p)' => Fresh(p)
      BY <1>1, <1>22 DEF CallAdd, Goto, Fresh, TypeOK, LoaderInv
    <2>2. \A p \in Procs : Fresh(p)' /\ Nowhere(p) => Nowhere(p)'
      BY <1>1, <1>22 DEF CallAdd, Goto, Nowhere, Fresh, TypeOK, LoaderInv
    <2>3. proc'[Loader] # NULL => life'[proc'[Loader]] # "new"
      BY <1>1, <1>22 DEF CallAdd, Goto, FreshInv, TypeOK, LoaderInv
    <2> QED BY <2>1, <2>2, <2>3, FreshSame
  <1> QED BY <1>2, <1>3, <1>4, <1>5, <1>6, <1>7, <1>8, <1>9, <1>10, <1>11,
             <1>12, <1>13, <1>14, <1>15, <1>16, <1>17, <1>18, <1>19, <1>20,
             <1>21, <1>22 DEF Call, get_mlq_proc, put_mlq_proc, Client

\* A step of the specification keeps the invariant.
LEMMA FreshNext == RaceInv /\ FreshInv /\ [Next]_vars => FreshInv'
  <1> SUFFICES ASSUME RaceInv, FreshInv, [Next]_vars PROVE FreshInv'
    OBVIOUS
  <1>1. CASE UNCHANGED vars
    BY <1>1 DEF vars, FreshInv, Fresh, Nowhere
  <1> QED BY <1>1, FreshStep DEF Next, Stop

\* A pcb that was freed stays so as long as running_list has it: only the
\* loader's process and those of the CPUs can be dropped.
LEMMA FreedStays ==
    ASSUME RaceInv, FreshInv, ~Clash, NEW t \in Threads, Call(t) \/ Client(t),
           NEW p \in Procs, life[p] = "freed",
           \E i \in Slots : running.proc[i] = p
    PROVE  life'[p] = "freed"
  <1>1. /\ t # Loader => t \in CPUs
        /\ NULL \notin Procs
        /\ life \in [Procs -> {"new", "live", "freed", "dropped"}]
    BY QueueAssumption DEF RaceInv, TypeOK, Threads
  <1>2. CASE EnqueueStore(t)
    <2>0. EnqueueStoreDoes(t)
      BY <1>2, EnqueueStoreEffect
    <2>1. proc[t] # p
      <3>1. CASE t = Loader
        BY <2>0, <3>1 DEF EnqueueStoreDoes, FreshInv, Fresh, Nowhere
      <3>2. CASE t # Loader
        BY <1>1, <3>2 DEF Clash
      <3> QED BY <3>1, <3>2
    <2> QED BY <1>1, <2>0, <2>1 DEF EnqueueStoreDoes
  <1>3. CASE Free(t)
    BY <1>1, <1>3 DEF Free
  <1>4. CASE \E x \in Procs : CallAdd(t, x)
    BY <1>1, <1>4 DEF CallAdd
  <1>5. CASE life' = life
    BY <1>5
  <1> QED BY <1>2, <1>3, <1>4, <1>5
          DEF Call, get_mlq_proc, put_mlq_proc, Client, CallGet, CallPut,
              GetLock, ScanNext, ScanNone, ScanTake, DequeueLoad, DequeueSize,
              RunningStore, RunningLoad, RunningSize, PutLock, Purge,
              PurgeLoad, PurgeSize, PurgeClear, EnqueueLoad, EnqueueSize

-----------------------------------------------------------------------------
(* running_list has the process of every CPU.                              *)

\* The list has a slot for every process.
ListIsLargeEnough ==
    IsFiniteSet(Procs) /\ Cardinality(Procs) <= MAX_QUEUE_SIZE

\* The entries of running_list; a purge counts from the moment it has moved
\* the entries behind the purged one.
Listing == IF \E t \in Threads : at[t] \in {"pload", "psize"}
             THEN running.size - 1 ELSE running.size

Listed(p) == \E i \in Slots : i < Listing /\ running.proc[i] = p

\* CPU c runs p, or has not taken it off the list yet.
Runs(c, p) == proc[c] = p /\ at[c] \in {"none", "put", "purge"}

\* The entries are processes, each at most once, and a listed process runs
\* or has been freed without being taken off the list.
RunInv ==
    /\ \A t \in Threads : at[t] = "add" => t = Loader
    /\ \A i \in Slots : i < Listing => running.proc[i] \in Procs
    /\ \A i, j \in Slots :
          i < Listing /\ j < Listing /\ running.proc[i] = running.proc[j] => i = j
    /\ \A p \in Procs : Listed(p) =>
          life[p] = "freed" \/ \E c \in CPUs : Runs(c, p)
    /\ ListIsLargeEnough =>
          \A p \in Procs : \A c \in CPUs : Runs(c, p) => Listed(p)

\* RunInv holds while the list of running processes is empty.
LEMMA RunInit == Init => RunInv
  <1> SUFFICES ASSUME Init PROVE RunInv
    OBVIOUS
  <1>1. Listing = 0 /\ \A i \in Slots : ~(i < 0)
    BY NewQueueProps DEF Init, Listing, Slots
  <1>2. \A p \in Procs : ~Listed(p) /\ \A c \in CPUs : ~Runs(c, p)
    BY <1>1, QueueAssumption DEF Init, Listed, Runs, Threads
  <1> QED BY <1>1, <1>2 DEF RunInv, Init

\* A step that leaves the entries of the list and the processes the CPUs run
\* alone keeps the invariant.
LEMMA RunSame ==
    ASSUME RunInv,
           \A t \in Threads : at'[t] = "add" => t = Loader,
           Listing' = Listing,
           \A i \in Slots : i < Listing => running'.proc[i] = running.proc[i],
           \A p \in Procs : \A c \in CPUs : Runs(c, p)' <=> Runs(c, p),
           \A p \in Procs : life[p] = "freed" /\ Listed(p) =>
                               life'[p] = "freed"
    PROVE  RunInv'
  <1>1. \A p \in Procs : Listed(p)' <=> Listed(p)
    BY DEF Listed
  <1> QED BY <1>1 DEF RunInv

\* A list that is full has no room for one process more than the listed ones:
\* a process that is not listed finds a slot.
LEMMA RoomForUnlisted ==
    ASSUME ListIsLargeEnough, RaceInv, RunInv, NEW p \in Procs, ~Listed(p),
           Listing = running.size
    PROVE  running.size < MAX_QUEUE_SIZE
  <1> DEFINE n == running.size
             D == 0 .. n - 1
             f == [i \in D |-> running.proc[i]]
             R == Procs \ {p}
  <1>1. n \in Nat /\ n <= MAX_QUEUE_SIZE /\ MAX_QUEUE_SIZE \in Nat
    BY StateTypes DEF StateTyped
  <1>2. \A i \in D : i \in Slots /\ i < n
    BY <1>1 DEF Slots
  <1>3. f \in [D -> R]
    BY <1>2 DEF RunInv, Listed
  <1>4. \A i, j \in D : f[i] = f[j] => i = j
    BY <1>2 DEF RunInv
  <1>5. IsInjective(f)
    BY <1>3, <1>4 DEF IsInjective
  <1>6. f \in Injection(D, R)
    BY <1>3, <1>5 DEF Injection
  <1>7. /\ IsFiniteSet(Procs) /\ Cardinality(Procs) \in Nat
        /\ IsFiniteSet(R) /\ Cardinality(R) = Cardinality(Procs) - 1
    BY FS_RemoveElement, FS_CardinalityType DEF ListIsLargeEnough
  <1>8. IsFiniteSet(D) /\ Cardinality(D) = n
    <2>1. 0 \in Int /\ n - 1 \in Int
      BY <1>1
    <2>2. /\ IsFiniteSet(D)
          /\ Cardinality(D) = IF 0 > n - 1 THEN 0 ELSE (n - 1) - 0 + 1
      BY <2>1, FS_Interval
    <2> QED BY <1>1, <2>2
  <1>9. Cardinality(D) <= Cardinality(R)
    BY <1>6, <1>7, FS_Injection
  <1> QED BY <1>1, <1>7, <1>8, <1>9 DEF ListIsLargeEnough

\* A step after which no sections have overlapped keeps the invariant.
LEMMA RunStep ==
    ASSUME RaceInv, SerialInv, FreshInv, RunInv, ~Clash,
           NEW t \in Threads, Call(t) \/ Client(t), ~overlap'
    PROVE  RunInv'
  <1> USE DEF RaceInv, SerialInv
  <1>0. StateTyped
    BY StateTypes
  <1>1. /\ \A u \in Threads : proc[u] # NULL => proc[u] \in Procs
        /\ \A c, d \in CPUs : proc[c] # NULL /\ proc[c] = proc[d] => c = d
        /\ CPUs \subseteq Threads /\ NULL \notin Procs
        /\ Loader \notin CPUs
        /\ t # Loader => t \in CPUs
    BY QueueAssumption, SchedAssumption DEF Clash, TypeOK, Threads, Ptr
  <1>2. ASSUME NEW u \in CPUs, proc[u] \in Procs, Listed(proc[u])
        PROVE  Runs(u, proc[u])
    <2>1. life[proc[u]] # "freed"
      BY <1>1, <1>2 DEF Clash
    <2> QED BY <1>1, <1>2, <2>1 DEF RunInv, Runs
  <1>F. \A x \in Procs : life[x] = "freed" /\ Listed(x) => life'[x] = "freed"
    BY FreedStays DEF Listed
  <1>3. CASE CallGet(t)
    <2>1. \A u \in Threads : at'[u] = "add" => u = Loader
      BY <1>3 DEF CallGet, Goto, RunInv, TypeOK
    <2>2. Listing' = Listing
      BY <1>3 DEF CallGet, Goto, Listing, TypeOK
    <2>3. \A i \in Slots : i < Listing => running'.proc[i] = running.proc[i]
      BY <1>3 DEF CallGet, Goto
    <2>4. \A x \in Procs : \A c \in CPUs : Runs(c, x)' <=> Runs(c, x)
      BY <1>1, <1>3 DEF CallGet, Goto, Runs, TypeOK, PlaceInv
    <2> QED BY <1>F, <2>1, <2>2, <2>3, <2>4, RunSame
  <1>4. CASE CallPut(t)
    <2>1. \A u \in Threads : at'[u] = "add" => u = Loader
      BY <1>4 DEF CallPut, Goto, RunInv, TypeOK
    <2>2. Listing' = Listing
      BY <1>4 DEF CallPut, Goto, Listing, TypeOK
    <2>3. \A i \in Slots : i < Listing => running'.proc[i] = running.proc[i]
      BY <1>4 DEF CallPut, Goto
    <2>4. \A x \in Procs : \A c \in CPUs : Runs(c, x)' <=> Runs(c, x)
      BY <1>1, <1>4 DEF CallPut, Goto, Runs, TypeOK
    <2> QED BY <1>F, <2>1, <2>2, <2>3, <2>4, RunSame
  <1>5. CASE Free(t)
    <2>1. PICK p \in Procs : p = proc[t]
      BY <1>5, <1>1 DEF Free
    <2>2. /\ at' = at /\ running' = running /\ Listing' = Listing
          /\ life' = [life EXCEPT ![p] = "freed"]
          /\ proc' = [proc EXCEPT ![t] = NULL]
      BY <1>5, <2>1 DEF Free, Listing
    <2>3. \A x \in Procs : Listed(x)' <=> Listed(x)
      BY <2>2 DEF Listed
    <2>4. \A x \in Procs : \A c \in CPUs :
             Runs(c, x)' <=> Runs(c, x) /\ x # p
      BY <1>1, <1>5, <2>1, <2>2 DEF Free, Runs, TypeOK
    <2>5. \A x \in Procs : life'[x] = IF x = p THEN "freed" ELSE life[x]
      BY <2>2 DEF TypeOK
    <2>6. ASSUME NEW x \in Procs, Listed(x)'
          PROVE  life'[x] = "freed" \/ \E c \in CPUs : Runs(c, x)'
      BY <2>3, <2>4, <2>5, <2>6 DEF RunInv
    <2>7. ListIsLargeEnough =>
             \A x \in Procs : \A c \in CPUs : Runs(c, x)' => Listed(x)'
      BY <2>3, <2>4 DEF RunInv
    <2> QED BY <2>2, <2>6, <2>7 DEF RunInv
  <1>6. CASE GetLock(t)
    <2>1. \A u \in Threads : at'[u] = "add" => u = Loader
      BY <1>6 DEF GetLock, Goto, RunInv, TypeOK
    <2>2. Listing' = Listing
      BY <1>6 DEF GetLock, Goto, Listing, TypeOK
    <2>3. \A i \in Slots : i < Listing => running'.proc[i] = running.proc[i]
      BY <1>6 DEF GetLock, Goto
    <2>4. \A x \in Procs : \A c \in CPUs : Runs(c, x)' <=> Runs(c, x)
      BY <1>1, <1>6 DEF GetLock, Goto, Runs, TypeOK
    <2> QED BY <1>F, <2>1, <2>2, <2>3, <2>4, RunSame
  <1>7. CASE ScanNext(t)
    <2>1. \A u \in Threads : at'[u] = "add" => u = Loader
      BY <1>7 DEF ScanNext, RunInv, TypeOK
    <2>2. Listing' = Listing
      BY <1>7 DEF ScanNext, Listing, TypeOK
    <2>3. \A i \in Slots : i < Listing => running'.proc[i] = running.proc[i]
      BY <1>7 DEF ScanNext
    <2>4. \A x \in Procs : \A c \in CPUs : Runs(c, x)' <=> Runs(c, x)
      BY <1>1, <1>7 DEF ScanNext, Runs, TypeOK
    <2> QED BY <1>F, <2>1, <2>2, <2>3, <2>4, RunSame
  <1>8. CASE ScanNone(t)
    <2>1. \A u \in Threads : at'[u] = "add" => u = Loader
      BY <1>8 DEF ScanNone, Goto, RunInv, TypeOK
    <2>2. Listing' = Listing
      BY <1>8 DEF ScanNone, Goto, Listing, TypeOK
    <2>3. \A i \in Slots : i < Listing => running'.proc[i] = running.proc[i]
      BY <1>8 DEF ScanNone, Goto
    <2>4. \A x \in Procs : \A c \in CPUs : Runs(c, x)' <=> Runs(c, x)
      BY <1>1, <1>8 DEF ScanNone, Goto, Runs, TypeOK, PlaceInv
    <2> QED BY <1>F, <2>1, <2>2, <2>3, <2>4, RunSame
  <1>9. CASE ScanTake(t)
    <2>0. ScanTakeDoes(t)
      BY <1>9, ScanTakeEffect
    <2>1. \A u \in Threads : at'[u] = "add" => u = Loader
      BY <2>0 DEF ScanTakeDoes, RunInv, TypeOK
    <2>2. Listing' = Listing
      BY <2>0 DEF ScanTakeDoes, Listing, TypeOK
    <2>3. \A i \in Slots : i < Listing => running'.proc[i] = running.proc[i]
      BY <2>0 DEF ScanTakeDoes
    <2>4. \A x \in Procs : \A c \in CPUs : Runs(c, x)' <=> Runs(c, x)
      BY <1>1, <2>0 DEF ScanTakeDoes, Runs, TypeOK, PlaceInv
    <2> QED BY <1>F, <2>1, <2>2, <2>3, <2>4, RunSame
  <1>10. CASE DequeueLoad(t)
    <2>1. \A u \in Threads : at'[u] = "add" => u = Loader
      BY <1>10 DEF DequeueLoad, Goto, RunInv, TypeOK
    <2>2. Listing' = Listing
      BY <1>10 DEF DequeueLoad, Goto, Listing, TypeOK
    <2>3. \A i \in Slots : i < Listing => running'.proc[i] = running.proc[i]
      BY <1>10 DEF DequeueLoad, Goto
    <2>4. \A x \in Procs : \A c \in CPUs : Runs(c, x)' <=> Runs(c, x)
      BY <1>1, <1>10 DEF DequeueLoad, Goto, Runs, TypeOK
    <2> QED BY <1>F, <2>1, <2>2, <2>3, <2>4, RunSame
  <1>11. CASE DequeueSize(t)
    <2>0. DequeueSizeDoes(t)
      BY <1>11, DequeueSizeEffect
    <2>1. \A u \in Threads : at'[u] = "add" => u = Loader
      BY <2>0 DEF DequeueSizeDoes, RunInv, TypeOK
    <2>2. Listing' = Listing
      BY <2>0 DEF DequeueSizeDoes, Listing, TypeOK
    <2>3. \A i \in Slots : i < Listing => running'.proc[i] = running.proc[i]
      BY <2>0 DEF DequeueSizeDoes
    <2>4. \A x \in Procs : \A c \in CPUs : Runs(c, x)' <=> Runs(c, x)
      BY <1>1, <2>0 DEF DequeueSizeDoes, Runs, TypeOK
    <2> QED BY <1>F, <2>1, <2>2, <2>3, <2>4, RunSame
  <1>12. CASE RunningStore(t)
    <2>0. RunningStoreDoes(t)
      BY <1>12, RunningStoreEffect
    <2>1. PICK p \in Procs : p = proc[t]
      BY <1>1, <2>0 DEF RunningStoreDoes, FilledInv, FilledAt, GetSection
    <2>2. /\ Listing = running.size /\ t \in CPUs
          /\ proc' = proc /\ life' = life /\ running'.size = running.size
      BY <1>1, <2>0
      DEF RunningStoreDoes, Listing, Alone, Sections, GetSection, PutSection,
          LoaderInv
    <2>3. ~Listed(p)
      BY <1>2, <2>0, <2>1, <2>2 DEF RunningStoreDoes, Runs
    <2>4. ListIsLargeEnough => running.size < MAX_QUEUE_SIZE
      BY <2>2, <2>3, RoomForUnlisted
    <2>5. CASE running.size < MAX_QUEUE_SIZE
      <3>1. /\ at' = [at EXCEPT ![t] = "rload"]
            /\ \A i \in Slots : i # running.size =>
                  running'.proc[i] = running.proc[i]
            /\ at[t] = "rstore"
        BY <1>0, <2>0, <2>5 DEF RunningStoreDoes, StateTyped
      <3>2. Listing' = Listing
        BY <2>2, <3>1 DEF Listing, TypeOK
      <3>3. \A i \in Slots : i < Listing => running'.proc[i] = running.proc[i]
        BY <1>0, <2>2, <3>1 DEF StateTyped, Slots
      <3>4. \A x \in Procs : \A c \in CPUs : Runs(c, x)' <=> Runs(c, x)
        BY <1>1, <2>2, <3>1 DEF Runs, TypeOK
      <3>5. \A u \in Threads : at'[u] = "add" => u = Loader
        BY <3>1 DEF RunInv, TypeOK
      <3> QED BY <1>F, <3>2, <3>3, <3>4, <3>5, RunSame
    <2>6. CASE ~(running.size < MAX_QUEUE_SIZE)
      <3>1. /\ at' = [at EXCEPT ![t] = "none"] /\ running' = running
            /\ at[t] = "rstore" /\ ~ListIsLargeEnough
        BY <2>0, <2>4, <2>6 DEF RunningStoreDoes
      <3>2. Listing' = Listing
        BY <2>2, <3>1 DEF Listing, TypeOK
      <3>3. \A x \in Procs : Listed(x)' <=> Listed(x)
        BY <3>1, <3>2 DEF Listed
      <3>4. \A x \in Procs : \A c \in CPUs : Runs(c, x) => Runs(c, x)'
        BY <1>1, <2>2, <3>1 DEF Runs, TypeOK
      <3>5. \A u \in Threads : at'[u] = "add" => u = Loader
        BY <3>1 DEF RunInv, TypeOK
      <3>6. \A x \in Procs : Listed(x)' =>
               life'[x] = "freed" \/ \E c \in CPUs : Runs(c, x)'
        BY <2>2, <3>3, <3>4 DEF RunInv
      <3> QED BY <3>1, <3>2, <3>5, <3>6 DEF RunInv
    <2> QED BY <2>5, <2>6
  <1>13. CASE RunningLoad(t)
    <2>1. \A u \in Threads : at'[u] = "add" => u = Loader
      BY <1>13 DEF RunningLoad, Goto, RunInv, TypeOK
    <2>2. Listing' = Listing
      BY <1>13 DEF RunningLoad, Goto, Listing, TypeOK
    <2>3. \A i \in Slots : i < Listing => running'.proc[i] = running.proc[i]
      BY <1>13 DEF RunningLoad, Goto
    <2>4. \A x \in Procs : \A c \in CPUs : Runs(c, x)' <=> Runs(c, x)
      BY <1>1, <1>13 DEF RunningLoad, Goto, Runs, TypeOK
    <2> QED BY <1>F, <2>1, <2>2, <2>3, <2>4, RunSame
  <1>14. CASE RunningSize(t)
    <2>0. RunningSizeDoes(t)
      BY <1>14, RunningSizeEffect
    <2>1. PICK p \in Procs : p = proc[t]
      BY <1>1, <2>0 DEF RunningSizeDoes, FilledInv, FilledAt, GetSection
    <2>2. /\ Listing = running.size /\ running.size \in Nat
          /\ running.proc[running.size] = p
          /\ running.size \in Slots
      BY <1>0, <2>0, <2>1
      DEF RunningSizeDoes, Listing, Alone, Sections, GetSection, PutSection,
          CopyInv, CopyAt, StateTyped, Slots
    <2>3. /\ Listing' = Listing + 1 /\ running'.proc = running.proc
          /\ proc' = proc /\ life' = life /\ at' = [at EXCEPT ![t] = "none"]
      BY <1>0, <2>0, <2>2
      DEF RunningSizeDoes, Listing, Alone, Sections, GetSection, PutSection,
          CopyInv, CopyAt, TypeOK, StateTyped
    <2>4. t \in CPUs /\ ~Listed(p)
      BY <1>1, <1>2, <2>0, <2>1 DEF RunningSizeDoes, Runs, LoaderInv
    <2>5. \A i \in Slots : i < Listing' <=> i < Listing \/ i = running.size
      BY <2>2, <2>3 DEF Slots
    <2>6. \A x \in Procs : Listed(x)' <=> Listed(x) \/ x = p
      BY <2>2, <2>3, <2>5 DEF Listed
    <2>8. \A x \in Procs : \A c \in CPUs :
             Runs(c, x)' <=> Runs(c, x) \/ (c = t /\ x = p)
      BY <1>1, <2>0, <2>1, <2>3 DEF RunningSizeDoes, Runs, TypeOK
    <2>9. /\ \A u \in Threads : at'[u] = "add" => u = Loader
          /\ \A i \in Slots : i < Listing' => running'.proc[i] \in Procs
      BY <2>2, <2>3, <2>5 DEF RunInv, TypeOK
    <2>10. ASSUME NEW i \in Slots, NEW j \in Slots, i < Listing', j < Listing',
                  running'.proc[i] = running'.proc[j]
           PROVE  i = j
      BY <2>2, <2>3, <2>4, <2>5, <2>10 DEF RunInv, Listed
    <2>11. \A x \in Procs : Listed(x)' =>
              life'[x] = "freed" \/ \E c \in CPUs : Runs(c, x)'
      BY <2>3, <2>4, <2>6, <2>8 DEF RunInv
    <2>12. ListIsLargeEnough =>
              \A x \in Procs : \A c \in CPUs : Runs(c, x)' => Listed(x)'
      BY <2>6, <2>8 DEF RunInv
    <2> QED BY <2>9, <2>10, <2>11, <2>12 DEF RunInv
  <1>15. CASE PutLock(t)
    <2>1. \A u \in Threads : at'[u] = "add" => u = Loader
      BY <1>15 DEF PutLock, Goto, RunInv, TypeOK
    <2>2. Listing' = Listing
      BY <1>15 DEF PutLock, Goto, Listing, TypeOK
    <2>3. \A i \in Slots : i < Listing => running'.proc[i] = running.proc[i]
      BY <1>15 DEF PutLock, Goto
    <2>4. \A x \in Procs : \A c \in CPUs : Runs(c, x)' <=> Runs(c, x)
      BY <1>1, <1>15 DEF PutLock, Goto, Runs, TypeOK, RunInv, Threads
    <2> QED BY <1>F, <2>1, <2>2, <2>3, <2>4, RunSame
  <1>16. CASE Purge(t)
    <2>0. PurgeDoes(t)
      BY <1>16, PurgeEffect
    <2>1. PICK p \in Procs : p = proc[t]
      BY <2>0 DEF PurgeDoes, PlaceInv, PutSection
    <2>2. /\ Listing = running.size /\ running.size \in Nat
          /\ proc' = proc /\ life' = life /\ running'.size = running.size
          /\ t \in CPUs /\ at[t] = "purge"
      BY <1>0, <1>1, <2>0
      DEF PurgeDoes, Listing, Alone, Sections, PutSection, StateTyped,
          LoaderInv
    <2>3. CASE holding(running, proc[t]) = {} /\ running' = running
               /\ at' = [at EXCEPT ![t] = "estore"]
      <3>1. ~Listed(p)
        BY <2>1, <2>2, <2>3 DEF Listed, holding
      <3>2. Listing' = Listing
        BY <2>2, <2>3
        DEF Listing, TypeOK, Alone, Sections, PutSection
      <3>3. \A x \in Procs : \A c \in CPUs :
               Runs(c, x)' <=> Runs(c, x) /\ x # p
        BY <1>1, <2>1, <2>2, <2>3 DEF Runs, TypeOK
      <3>4. \A u \in Threads : at'[u] = "add" => u = Loader
        BY <2>3 DEF RunInv, TypeOK
      <3>5. \A x \in Procs : Listed(x)' <=> Listed(x)
        BY <2>3, <3>2 DEF Listed
      <3>6. \A x \in Procs : Listed(x)' =>
               life'[x] = "freed" \/ \E c \in CPUs : Runs(c, x)'
        BY <2>2, <3>1, <3>3, <3>5 DEF RunInv
      <3>7. ListIsLargeEnough =>
               \A x \in Procs : \A c \in CPUs : Runs(c, x)' => Listed(x)'
        BY <3>3, <3>5 DEF RunInv
      <3> QED BY <2>3, <3>2, <3>4, <3>6, <3>7 DEF RunInv
    <2>4. CASE ~(holding(running, proc[t]) = {} /\ running' = running
                 /\ at' = [at EXCEPT ![t] = "estore"])
      <3>1. /\ at' = [at EXCEPT ![t] = "pload"] /\ running.size > 0
            /\ at[t] = "purge"
        BY <2>0, <2>4 DEF PurgeDoes
      <3>2. PICK i \in Slots :
               /\ i < running.size /\ running.proc[i] = p
               /\ \A j \in Slots :
                     /\ running'.proc[j] = IF i <= j /\ j + 1 < running.size
                                             THEN running.proc[j + 1]
                                             ELSE running.proc[j]
                     /\ j + 1 < running.size => j + 1 \in Slots
        BY <2>0, <2>1, <2>4 DEF PurgeDoes
      <3>3. Listing' = running.size - 1
        BY <2>2, <3>1 DEF Listing, TypeOK
      <3>4. ASSUME NEW j \in Slots, j < Listing'
            PROVE  \E h \in Slots : /\ h < Listing /\ h # i
                                    /\ h = (IF i <= j THEN j + 1 ELSE j)
                                    /\ running'.proc[j] = running.proc[h]
        <4>1. j \in Nat /\ i \in Nat /\ j + 1 < running.size
          BY <2>2, <3>3, <3>4 DEF Slots
        <4> QED BY <2>2, <3>2, <4>1
      <3>5. ASSUME NEW h \in Slots, h < Listing, h # i
            PROVE  \E j \in Slots : j < Listing' /\ running'.proc[j] = running.proc[h]
        <4>1. h \in Nat /\ i \in Nat
          BY DEF Slots
        <4>2. CASE h < i
          <5>1. h < Listing' /\ ~(i <= h)
            BY <2>2, <3>2, <3>3, <4>1, <4>2
          <5> QED BY <3>2, <5>1
        <4>3. CASE h > i
          <5>1. /\ h - 1 \in Slots /\ h - 1 < Listing' /\ i <= h - 1
                /\ (h - 1) + 1 = h /\ h < running.size
            BY <1>0, <2>2, <3>3, <3>5, <4>1, <4>3 DEF Slots, StateTyped
          <5>2. running'.proc[h - 1] = running.proc[h]
            BY <3>2, <5>1
          <5> QED BY <5>1, <5>2
        <4> QED BY <3>5, <4>1, <4>2, <4>3
      <3>6. \A x \in Procs : Listed(x)' <=> Listed(x) /\ x # p
        <4> SUFFICES ASSUME NEW x \in Procs
                     PROVE  Listed(x)' <=> Listed(x) /\ x # p
          OBVIOUS
        <4>1. ASSUME Listed(x)' PROVE Listed(x) /\ x # p
          <5>1. PICK j \in Slots : j < Listing' /\ running'.proc[j] = x
            BY <4>1 DEF Listed
          <5>2. PICK h \in Slots : h < Listing /\ h # i /\ running.proc[h] = x
            BY <3>4, <5>1
          <5> QED BY <2>2, <3>2, <5>2 DEF Listed, RunInv
        <4>2. ASSUME Listed(x), x # p PROVE Listed(x)'
          <5>1. PICK h \in Slots : h < Listing /\ running.proc[h] = x
            BY <4>2 DEF Listed
          <5>2. h # i
            BY <3>2, <4>2, <5>1
          <5>3. PICK j \in Slots : j < Listing' /\ running'.proc[j] = x
            BY <3>5, <5>1, <5>2
          <5> QED BY <5>3 DEF Listed
        <4> QED BY <4>1, <4>2
      <3>7. \A x \in Procs : \A c \in CPUs : Runs(c, x)' <=> Runs(c, x) /\ x # p
        BY <1>1, <2>1, <2>2, <3>1 DEF Runs, TypeOK
      <3>8. \A u \in Threads : at'[u] = "add" => u = Loader
        BY <3>1 DEF RunInv, TypeOK
      <3>9. \A j \in Slots : j < Listing' => running'.proc[j] \in Procs
        BY <3>4 DEF RunInv
      <3>10. ASSUME NEW j \in Slots, NEW m \in Slots, j < Listing', m < Listing',
                    running'.proc[j] = running'.proc[m]
             PROVE  j = m
        <4>1. PICK h \in Slots : /\ h < Listing
                                 /\ h = (IF i <= j THEN j + 1 ELSE j)
                                 /\ running'.proc[j] = running.proc[h]
          BY <3>4, <3>10
        <4>2. PICK g \in Slots : /\ g < Listing
                                 /\ g = (IF i <= m THEN m + 1 ELSE m)
                                 /\ running'.proc[m] = running.proc[g]
          BY <3>4, <3>10
        <4>3. h = g
          BY <3>10, <4>1, <4>2 DEF RunInv
        <4> QED BY <4>1, <4>2, <4>3 DEF Slots
      <3>11. \A x \in Procs : Listed(x)' =>
                life'[x] = "freed" \/ \E c \in CPUs : Runs(c, x)'
        BY <2>2, <3>6, <3>7 DEF RunInv
      <3>12. ListIsLargeEnough =>
                \A x \in Procs : \A c \in CPUs : Runs(c, x)' => Listed(x)'
        BY <3>6, <3>7 DEF RunInv
      <3> QED BY <3>8, <3>9, <3>10, <3>11, <3>12 DEF RunInv
    <2> QED BY <2>3, <2>4
  <1>17. CASE PurgeLoad(t)
    <2>1. \A u \in Threads : at'[u] = "add" => u = Loader
      BY <1>17 DEF PurgeLoad, Goto, RunInv, TypeOK
    <2>2. Listing' = Listing
      BY <1>17 DEF PurgeLoad, Goto, Listing, TypeOK
    <2>3. \A i \in Slots : i < Listing => running'.proc[i] = running.proc[i]
      BY <1>17 DEF PurgeLoad, Goto
    <2>4. \A x \in Procs : \A c \in CPUs : Runs(c, x)' <=> Runs(c, x)
      BY <1>1, <1>17 DEF PurgeLoad, Goto, Runs, TypeOK
    <2> QED BY <1>F, <2>1, <2>2, <2>3, <2>4, RunSame
  <1>18. CASE PurgeSize(t)
    <2>0. PurgeSizeDoes(t)
      BY <1>18, PurgeSizeEffect
    <2>1. \A u \in Threads : at'[u] = "add" => u = Loader
      BY <2>0 DEF PurgeSizeDoes, RunInv, TypeOK
    <2>2. Listing' = Listing
      BY <1>0, <2>0 DEF PurgeSizeDoes, Listing, TypeOK, StateTyped, Alone,
         Sections, PutSection, CopyInv, CopyAt
    <2>3. \A i \in Slots : i < Listing => running'.proc[i] = running.proc[i]
      BY <2>0 DEF PurgeSizeDoes
    <2>4. \A x \in Procs : \A c \in CPUs : Runs(c, x)' <=> Runs(c, x)
      BY <1>1, <2>0 DEF PurgeSizeDoes, Runs, TypeOK
    <2> QED BY <1>F, <2>1, <2>2, <2>3, <2>4, RunSame
  <1>19. CASE PurgeClear(t)
    <2>0. PurgeClearDoes(t)
      BY <1>19, PurgeClearEffect
    <2>1. \A u \in Threads : at'[u] = "add" => u = Loader
      BY <2>0 DEF PurgeClearDoes, RunInv, TypeOK
    <2>2. Listing' = Listing
      BY <1>0, <2>0 DEF PurgeClearDoes, Listing, TypeOK, StateTyped, Alone,
         Sections, PutSection, CopyInv, CopyAt
    <2>3. \A i \in Slots : i < Listing => running'.proc[i] = running.proc[i]
      BY <1>0, <2>0 DEF PurgeClearDoes, Listing, Alone, Sections, PutSection,
         StateTyped, Slots
    <2>4. \A x \in Procs : \A c \in CPUs : Runs(c, x)' <=> Runs(c, x)
      BY <1>1, <2>0 DEF PurgeClearDoes, Runs, TypeOK
    <2> QED BY <1>F, <2>1, <2>2, <2>3, <2>4, RunSame
  <1>20. CASE EnqueueStore(t)
    <2>0. EnqueueStoreDoes(t)
      BY <1>20, EnqueueStoreEffect
    <2>1. \A u \in Threads : at'[u] = "add" => u = Loader
      BY <2>0 DEF EnqueueStoreDoes, RunInv, TypeOK
    <2>2. Listing' = Listing
      BY <2>0 DEF EnqueueStoreDoes, Listing, TypeOK
    <2>3. \A i \in Slots : i < Listing => running'.proc[i] = running.proc[i]
      BY <2>0 DEF EnqueueStoreDoes
    <2>4. \A x \in Procs : \A c \in CPUs : Runs(c, x)' <=> Runs(c, x)
      BY <1>1, <2>0 DEF EnqueueStoreDoes, Runs, TypeOK
    <2> QED BY <1>F, <2>1, <2>2, <2>3, <2>4, RunSame
  <1>21. CASE EnqueueLoad(t)
    <2>1. \A u \in Threads : at'[u] = "add" => u = Loader
      BY <1>21 DEF EnqueueLoad, Goto, RunInv, TypeOK
    <2>2. Listing' = Listing
      BY <1>21 DEF EnqueueLoad, Goto, Listing, TypeOK
    <2>3. \A i \in Slots : i < Listing => running'.proc[i] = running.proc[i]
      BY <1>21 DEF EnqueueLoad, Goto
    <2>4. \A x \in Procs : \A c \in CPUs : Runs(c, x)' <=> Runs(c, x)
      BY <1>1, <1>21 DEF EnqueueLoad, Goto, Runs, TypeOK
    <2> QED BY <1>F, <2>1, <2>2, <2>3, <2>4, RunSame
  <1>22. CASE EnqueueSize(t)
    <2>0. EnqueueSizeDoes(t)
      BY <1>22, EnqueueSizeEffect
    <2>1. \A u \in Threads : at'[u] = "add" => u = Loader
      BY <2>0 DEF EnqueueSizeDoes, RunInv, TypeOK
    <2>2. Listing' = Listing
      BY <2>0 DEF EnqueueSizeDoes, Listing, TypeOK
    <2>3. \A i \in Slots : i < Listing => running'.proc[i] = running.proc[i]
      BY <2>0 DEF EnqueueSizeDoes
    <2>4. \A x \in Procs : \A c \in CPUs : Runs(c, x)' <=> Runs(c, x)
      BY <1>1, <2>0 DEF EnqueueSizeDoes, Runs, TypeOK
    <2> QED BY <1>F, <2>1, <2>2, <2>3, <2>4, RunSame
  <1>23. ASSUME NEW p \in Procs, CallAdd(t, p) PROVE RunInv'
    <2>1. \A u \in Threads : at'[u] = "add" => u = Loader
      BY <1>23 DEF CallAdd, Goto, RunInv, TypeOK
    <2>2. Listing' = Listing
      BY <1>23 DEF CallAdd, Goto, Listing, TypeOK
    <2>3. \A i \in Slots : i < Listing => running'.proc[i] = running.proc[i]
      BY <1>23 DEF CallAdd, Goto
    <2>4. \A x \in Procs : \A c \in CPUs : Runs(c, x)' <=> Runs(c, x)
      BY <1>1, <1>23 DEF CallAdd, Goto, Runs, TypeOK, LoaderInv
    <2> QED BY <1>F, <2>1, <2>2, <2>3, <2>4, RunSame
  <1> QED BY <1>3, <1>4, <1>5, <1>6, <1>7, <1>8, <1>9, <1>10, <1>11, <1>12,
             <1>13, <1>14, <1>15, <1>16, <1>17, <1>18, <1>19, <1>20, <1>21,
             <1>22, <1>23 DEF Call, get_mlq_proc, put_mlq_proc, Client

\* A step of the specification keeps the list complete until sections have
\* overlapped.
LEMMA RunNext ==
    /\ RaceInv /\ FreshInv /\ (overlap \/ SerialInv) /\ (overlap \/ RunInv)
    /\ [Next]_vars
    => (overlap \/ RunInv)'
  <1> SUFFICES ASSUME RaceInv, FreshInv, overlap \/ SerialInv,
                      overlap \/ RunInv, [Next]_vars, ~overlap'
               PROVE  RunInv'
    OBVIOUS
  <1>1. CASE ~Clash /\ \E t \in Threads : Call(t) \/ Client(t)
    BY <1>1, RunStep, OverlapStays
  <1>2. CASE UNCHANGED vars
    BY <1>2 DEF vars, RunInv, Listing, Listed, Runs
  <1> QED BY <1>1, <1>2 DEF Next, Stop

\* A step changes nobody's place and process but the thread's own.
LEMMA OwnPlace ==
    ASSUME RaceInv, NEW t \in Threads, Call(t) \/ Client(t)
    PROVE  \A u \in Threads \ {t} : at'[u] = at[u] /\ proc'[u] = proc[u]
  BY DEF RaceInv, TypeOK, Goto, Call, get_mlq_proc, put_mlq_proc, Client,
         CallGet, CallPut, CallAdd, Free, GetLock, ScanNext, ScanNone,
         ScanTake, DequeueLoad, DequeueSize, RunningStore, RunningLoad,
         RunningSize, PutLock, Purge, PurgeLoad, PurgeSize, PurgeClear,
         EnqueueStore, EnqueueLoad, EnqueueSize

\* The places of a thread that takes an entry out of running_list.
Purges == {"pload", "psize", "pclear"}

\* While nobody takes an entry out, running_list only grows, and freed entries
\* stay freed.
LEMMA ListGrows ==
    ASSUME RaceInv, SerialInv, FreshInv, RunInv, ~Clash,
           NEW t \in Threads, Call(t) \/ Client(t), ~overlap',
           \A c \in CPUs : at[c] \notin Purges /\ at'[c] \notin Purges
    PROVE  /\ running.size <= running'.size
           /\ \A i \in Slots : i < running.size =>
                 /\ running'.proc[i] = running.proc[i]
                 /\ life[running.proc[i]] = "freed" =>
                       life'[running.proc[i]] = "freed"
  <1>0. StateTyped /\ LoaderInv /\ CopyInv
    BY StateTypes DEF RaceInv, SerialInv
  <1>1. /\ t # Loader => t \in CPUs
        /\ Loader \in Threads
        /\ at \in [Threads -> Places]
    BY DEF RaceInv, TypeOK, Threads
  <1>2. (\A u \in Threads : at[u] \notin Purges) /\ at'[t] \notin Purges
    <2>1. LoaderInv'
      BY RaceStep DEF RaceInv
    <2> QED BY <1>0, <1>1, <2>1 DEF LoaderInv, Purges, Threads
  <1>3. Listing = running.size
    BY <1>2 DEF Listing, Purges
  <1>4. ASSUME NEW i \in Slots, i < running.size,
               life[running.proc[i]] = "freed"
        PROVE  life'[running.proc[i]] = "freed"
    BY <1>3, <1>4, FreedStays DEF RunInv
  <1>5. /\ running.size <= running'.size
        /\ \A i \in Slots : i < running.size =>
              running'.proc[i] = running.proc[i]
    <2>1. CASE running' = running
      BY <1>0, <2>1 DEF StateTyped
    <2>2. CASE RunningStore(t)
      <3>1. RunningStoreDoes(t)
        BY <2>2, RunningStoreEffect
      <3> QED BY <1>0, <3>1 DEF RunningStoreDoes, StateTyped, Slots
    <2>3. CASE RunningSize(t)
      <3>1. RunningSizeDoes(t)
        BY <2>3, RunningSizeEffect
      <3> QED BY <1>0, <3>1 DEF RunningSizeDoes, StateTyped, CopyInv, CopyAt
    <2>4. CASE Purge(t)
      <3>1. PurgeDoes(t)
        BY <2>4, PurgeEffect
      <3>2. running' = running
        BY <1>1, <1>2, <3>1 DEF PurgeDoes, Purges
      <3> QED BY <2>1, <3>2
    <2>5. CASE PurgeLoad(t) \/ PurgeSize(t) \/ PurgeClear(t)
      BY <1>2, <2>5 DEF PurgeLoad, PurgeSize, PurgeClear, Purges
    <2> QED BY <2>1, <2>2, <2>3, <2>4, <2>5
            DEF Call, get_mlq_proc, put_mlq_proc, Client, CallGet, CallPut,
                CallAdd, Free, GetLock, ScanNext, ScanNone, ScanTake,
                DequeueLoad, DequeueSize, RunningLoad, PutLock, EnqueueStore,
                EnqueueLoad, EnqueueSize
  <1> QED BY <1>4, <1>5

\* With nobody inside the scheduler a CPU's process is in the list once.
LEMMA QuietListed ==
    ASSUME ListIsLargeEnough, RaceInv, RunInv, Quiet,
           NEW c \in CPUs, proc[c] # NULL
    PROVE  Cardinality(holding(running, proc[c])) = 1
  <1>1. Listing = running.size
    BY DEF Quiet, Held, PutSection, Listing
  <1>2. c \in Threads /\ proc[c] \in Procs /\ c # Loader
    BY SchedAssumption DEF Threads, RaceInv, TypeOK, Ptr
  <1>3. at[c] \in {"none", "put"}
    BY <1>2
    DEF Quiet, Held, RaceInv, TypeOK, Places, PlaceInv, RunInv
  <1>4. PICK i \in Slots : i < Listing /\ running.proc[i] = proc[c]
    BY <1>2, <1>3 DEF RunInv, Runs, Listed
  <1>5. holding(running, proc[c]) = {i}
    BY <1>1, <1>4 DEF RunInv, holding
  <1> QED BY <1>5, FS_Singleton

\* As long as no sections overlap and running_list has a slot for every
\* process, the process a CPU runs is in running_list exactly once, so that a
\* system call finds its caller (sched.c:76, sched.c:85, sys_mem.c:34-62).
THEOREM CallerIsListed == ListIsLargeEnough => (Spec => []HeldIsListed)
  <1> SUFFICES ASSUME ListIsLargeEnough PROVE Spec => []HeldIsListed
    OBVIOUS
  <1> DEFINE I == /\ RaceInv /\ FreshInv
                  /\ (overlap \/ SerialInv) /\ (overlap \/ RunInv)
  <1>1. Init => I
    BY RaceInit, FreshInit, SerialInit, RunInit
  <1>2. I /\ [Next]_vars => I'
    BY RaceNext, FreshNext, SerialNext, RunNext
  <1>3. I => HeldIsListed
    BY QuietListed DEF HeldIsListed
  <1> HIDE DEF I
  <1> QED BY <1>1, <1>2, <1>3, PTL DEF Spec
=============================================================================
