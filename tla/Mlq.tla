-------------------------------- MODULE Mlq --------------------------------
(***************************************************************************)
(* What the scheduler promises: one FIFO queue per priority, and three     *)
(* indivisible operations.  A process is new, or in exactly one queue, or  *)
(* with exactly one thread, or gone.                                       *)
(***************************************************************************)
EXTENDS Naturals, Sequences

CONSTANTS Procs, Threads, NULL, MAX_PRIO, Prio

VARIABLES rq,     \* the ready processes of each priority, in order
          own,    \* the process each thread has, or NULL
          life    \* what has become of each process

mlqVars == <<rq, own, life>>

Levels == 0 .. MAX_PRIO - 1

Init ==
    /\ rq = [k \in Levels |-> <<>>]
    /\ own = [t \in Threads |-> NULL]
    /\ life = [p \in Procs |-> "new"]

\* The loader has a new process in hand.
Load(t, p) ==
    /\ own[t] = NULL /\ life[p] = "new"
    /\ own' = [own EXCEPT ![t] = p]
    /\ life' = [life EXCEPT ![p] = "live"]
    /\ UNCHANGED rq

\* add_proc and put_proc: to the end of the queue of its priority.
Ready(t) ==
    /\ own[t] # NULL /\ Prio[own[t]] \in Levels
    /\ rq' = [rq EXCEPT ![Prio[own[t]]] = Append(@, own[t])]
    /\ own' = [own EXCEPT ![t] = NULL]
    /\ UNCHANGED life

\* get_proc: the first process of the most urgent queue that has one.
Dispatch(t) ==
    /\ own[t] = NULL
    /\ \E k \in Levels :
          /\ rq[k] # <<>>
          /\ \A j \in Levels : j < k => rq[j] = <<>>
          /\ own' = [own EXCEPT ![t] = Head(rq[k])]
          /\ rq' = [rq EXCEPT ![k] = Tail(@)]
    /\ UNCHANGED life

\* The process ends, or its queue does not take it.
Leave(t) ==
    /\ own[t] # NULL
    /\ \E how \in {"freed", "dropped"} :
          life' = [life EXCEPT ![own[t]] = how]
    /\ own' = [own EXCEPT ![t] = NULL]
    /\ UNCHANGED rq

Next ==
    \E t \in Threads :
        \/ \E p \in Procs : Load(t, p)
        \/ Ready(t) \/ Dispatch(t) \/ Leave(t)
=============================================================================
