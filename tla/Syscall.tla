------------------------------ MODULE Syscall ------------------------------
(***************************************************************************)
(* System calls: libsyscall of src/libstd.c, the dispatch of src/syscall.c *)
(* and the handlers of src/sys_mem.c and src/sys_mmstats.c, made by        *)
(* processes on their CPUs while other threads are in the scheduler.       *)
(*                                                                         *)
(* A handler is given a pid and looks its pcb up in running_list, with no  *)
(* lock: memmap twice, mmstats once.  The build has no optimisation, so    *)
(* the loop reads size and the slot anew at every use, and an action here  *)
(* has one such read.  pids are unique (avail_pid of src/loader.c counts   *)
(* up), so a pid is the process it was given to.                           *)
(*                                                                         *)
(* listsyscall only prints and a number without a handler returns 0:       *)
(* neither touches any state.  What memmap does to the process it has      *)
(* found is in module Mem; what mmstats counts is printed.                 *)
(***************************************************************************)
EXTENDS Queue, Integers, Sequences, FiniteSets

CONSTANTS CPUs, Loader, MAX_PRIO, Prio,
          MaxCalls         \* bound: system calls in a behaviour

\* As in module Sched.
ASSUME SyscallAssumption ==
    /\ MaxCalls \in Nat
    /\ MAX_PRIO \in Nat \ {0}
    /\ Prio \in [Procs -> Nat]
    /\ Loader \notin CPUs

VARIABLES
    ready, running, at, proc, lvl, tmp, life, overlap,   \* module Sched
    sys,       \* the CPU's place in its system call
    walk,      \* which loop it is in: memmap's "first" or "second", "stats"
    pid,       \* the pid looked for
    i, caller, \* the handler's locals
    calls,     \* system calls made
    crashed,   \* a null pointer was dereferenced
    purged     \* history: an entry was being removed during the call

schedVars == <<ready, running, at, proc, lvl, tmp, life, overlap>>
callVars  == <<sys, walk, pid, i, caller, calls, crashed>>
vars      == <<schedVars, callVars, purged>>

S == INSTANCE Sched

Threads == CPUs \cup {Loader}

Init ==
    /\ S!Init
    /\ sys = [c \in CPUs |-> "none"]
    /\ walk = [c \in CPUs |-> "none"]
    /\ pid = [c \in CPUs |-> NULL]
    /\ i = [c \in CPUs |-> 0]
    /\ caller = [c \in CPUs |-> NULL]
    /\ calls = 0
    /\ crashed = FALSE
    /\ purged = [c \in CPUs |-> FALSE]

-----------------------------------------------------------------------------
\* A handler starts: which loop first, and which pid.
Enter(c, w, p) ==
    /\ sys[c] = "none" /\ at[c] = "none" /\ proc[c] # NULL
    /\ calls < MaxCalls
    /\ calls' = calls + 1
    /\ sys' = [sys EXCEPT ![c] = "test"]
    /\ walk' = [walk EXCEPT ![c] = w]
    /\ pid' = [pid EXCEPT ![c] = p]
    /\ UNCHANGED <<schedVars, i, caller, crashed>>

\* libsyscall and syscall: memmap is for the caller itself, mmstats for any
\* process the program names.
libsyscall(c) ==
    \/ Enter(c, "first", proc[c])
    \/ \E p \in Procs : Enter(c, "stats", p)

\* The call returns to run().
Return(c) ==
    /\ sys' = [sys EXCEPT ![c] = "none"]
    /\ walk' = [walk EXCEPT ![c] = "none"]
    /\ pid' = [pid EXCEPT ![c] = NULL]
    /\ i' = [i EXCEPT ![c] = 0]
    /\ caller' = [caller EXCEPT ![c] = NULL]

Crash == crashed' = TRUE /\ UNCHANGED <<schedVars, sys, walk, pid, i, caller, calls>>

\* Variant: i is incremented twice.
Skip_Two(c) ==
    /\ i' = [i EXCEPT ![c] = i[c] + 2]
    /\ sys' = [sys EXCEPT ![c] = "test"]

\* i++
Skip(c) ==
    /\ i' = [i EXCEPT ![c] = i[c] + 1]
    /\ sys' = [sys EXCEPT ![c] = "test"]

\* A loop of memmap ends; the second one starts from 0 whatever the first
\* one found.
EndWalk(c, next) ==
    /\ sys' = [sys EXCEPT ![c] = IF walk[c] = "first" THEN "test" ELSE next]
    /\ walk' = [walk EXCEPT ![c] = IF @ = "first" THEN "second" ELSE @]
    /\ i' = [i EXCEPT ![c] = IF walk[c] = "first" THEN 0 ELSE @]

\* i < running_list->size
InList(c) == i[c] < running.size

Test(c) ==
    /\ sys[c] = "test"
    /\ \/ /\ InList(c)
          /\ sys' = [sys EXCEPT ![c] = IF walk[c] = "stats" THEN "look" ELSE "read"]
          /\ UNCHANGED <<walk, i>>
       \/ ~InList(c) /\ EndWalk(c, "missed")
    /\ UNCHANGED <<schedVars, pid, caller, calls, crashed>>

\* mmstats passes over an empty slot.
Look(c) ==
    /\ sys[c] = "look"
    /\ IF running.proc[i[c]] = NULL
         THEN Skip(c)
         ELSE sys' = [sys EXCEPT ![c] = "read"] /\ UNCHANGED i
    /\ UNCHANGED <<schedVars, walk, pid, caller, calls, crashed>>

\* running_list->proc[i]->pid == pid.  An empty slot ends the program.  The
\* memory of a freed pcb may hold anything, this pid too.
Read(c) ==
    LET q == running.proc[i[c]] IN
    /\ sys[c] = "read"
    /\ \/ q = NULL /\ Crash
       \/ /\ q # NULL /\ (q = pid[c] \/ life[q] = "freed")
          /\ sys' = [sys EXCEPT ![c] = "take"]
          /\ UNCHANGED <<schedVars, walk, pid, i, caller, calls, crashed>>
       \/ /\ q # NULL /\ (q # pid[c] \/ life[q] = "freed")
          /\ Skip(c)
          /\ UNCHANGED <<schedVars, walk, pid, caller, calls, crashed>>

\* Variant: the loop keeps the entry before the one it has found.
Take_Before(c) ==
    /\ sys[c] = "take"
    /\ caller' = [caller EXCEPT ![c] = running.proc[IF i[c] = 0 THEN 0 ELSE i[c] - 1]]
    /\ EndWalk(c, "op")
    /\ UNCHANGED <<schedVars, pid, calls, crashed>>

\* caller = running_list->proc[i]: the slot is read again.
Take(c) ==
    /\ sys[c] = "take"
    /\ caller' = [caller EXCEPT ![c] = running.proc[i[c]]]
    /\ EndWalk(c, "op")
    /\ UNCHANGED <<schedVars, pid, calls, crashed>>

\* The handler has its process.  mmstats returns -1 for a null pointer;
\* memmap hands it on: INC returns, the other operations dereference it.
Operate(c) ==
    /\ sys[c] = "op"
    /\ \/ Return(c) /\ UNCHANGED <<schedVars, calls, crashed>>
       \/ caller[c] = NULL /\ walk[c] = "second" /\ Crash

\* The handler has not found it and returns -1.  memmap frees its variable
\* caller, which the first loop may have set.
NotFound(c) ==
    /\ sys[c] = "missed"
    /\ life' = IF walk[c] = "second" /\ caller[c] # NULL
                 THEN [life EXCEPT ![caller[c]] = "freed"] ELSE life
    /\ Return(c)
    /\ UNCHANGED <<ready, running, at, proc, lvl, tmp, overlap, calls, crashed>>

__sys_memmap(c)  == walk[c] \in {"first", "second"} /\
                    (Test(c) \/ Read(c) \/ Take(c) \/ Operate(c) \/ NotFound(c))
__sys_mmstats(c) == walk[c] = "stats" /\
                    (Test(c) \/ Look(c) \/ Read(c) \/ Take(c) \/ Operate(c)
                             \/ NotFound(c))

\* What the threads do in the scheduler; a CPU in a system call does nothing
\* else.
Scheduling(t) ==
    /\ t \in CPUs => sys[t] = "none"
    /\ S!Call(t) \/ S!Client(t)
    /\ UNCHANGED callVars

-----------------------------------------------------------------------------
\* Some thread is taking an entry out of running_list.
Purging == \E t \in CPUs : at[t] \in {"pload", "psize", "pclear"}

\* The history variable.
Remember ==
    purged' = [c \in CPUs |-> sys'[c] # "none" /\ (purged[c] \/ Purging \/ Purging')]

Dead == crashed \/ S!Clash
Stop == Dead /\ UNCHANGED vars

Next ==
    \/ /\ ~Dead
       /\ \/ \E t \in Threads : Scheduling(t)
          \/ \E c \in CPUs : libsyscall(c) \/ __sys_memmap(c) \/ __sys_mmstats(c)
       /\ Remember
    \/ Stop

Spec == Init /\ [][Next]_vars

-----------------------------------------------------------------------------
(* Properties.                                                             *)

\* Type invariant.  The index of a walk never leaves the list, however the
\* list changes under it (sys_mem.c:34, sys_mem.c:55, sys_mmstats.c:34).
TypeOK ==
    /\ sys \in [CPUs -> {"none", "test", "look", "read", "take", "op", "missed"}]
    /\ walk \in [CPUs -> {"none", "first", "second", "stats"}]
    /\ pid \in [CPUs -> Ptr]
    /\ i \in [CPUs -> 0 .. MAX_QUEUE_SIZE]
    /\ caller \in [CPUs -> Ptr]
    /\ calls \in 0 .. MaxCalls
    /\ crashed \in BOOLEAN
    /\ purged \in [CPUs -> BOOLEAN]

\* The unlocked walks meet no null pointer although other CPUs append to the
\* list under them (sys_mem.c:35, sys_mem.c:56, sys_mmstats.c:35-36): only an
\* entry that is being removed, or sections that have overlapped, can lead
\* to one.
WalkSeesProcesses ==
    crashed => overlap \/ \E c \in CPUs : sys[c] # "none" /\ purged[c]

\* Under the same provisos a handler works on the process it was asked for,
\* or on a pcb that was freed and is still listed, and memmap never refuses
\* the process that runs (sys_mem.c:54-68, sys_mmstats.c:34-46).  The list
\* must be large enough for all processes.
ServesTheCaller ==
    \A c \in CPUs : overlap \/ purged[c] \/
        /\ sys[c] = "op" => \/ caller[c] = pid[c]
                            \/ caller[c] # NULL /\ life[caller[c]] = "freed"
        /\ walk[c] = "second" => sys[c] # "missed"

\* "If process not found, free dummy and return error" (sys_mem.c:64): the
\* pointer that is freed is never that of a process.
FreesOnlyDummy ==
    \A c \in CPUs : overlap \/ (sys[c] = "missed" => caller[c] = NULL)
=============================================================================
