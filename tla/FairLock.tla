------------------------------- MODULE FairLock -------------------------------
(***************************************************************************)
(* What the blocking locks of the library promise: a mutual-exclusion lock *)
(* with direct hand-off.  A thread that finds the lock held takes a place  *)
(* in a queue; a release gives the lock to the thread that has waited      *)
(* longest, so a free lock never has waiters and nobody can overtake.      *)
(*                                                                         *)
(* LwMutex (4-byte mutex) and LwMutex2b (2-byte mutex) implement it.       *)
(***************************************************************************)
EXTENDS Naturals, Sequences

CONSTANTS Threads,  \* the waiter ids of the threads that use the lock
          NULL      \* LW_WAITER_ID_MAX, the id of no thread

VARIABLES owner,    \* the thread the lock belongs to, or NULL
          queue     \* the threads waiting for it, longest waiting first

lockVars == <<owner, queue>>

Init == owner = NULL /\ queue = <<>>

(* The lock is free: the caller becomes its owner. *)
Acquire(t) ==
    /\ owner = NULL
    /\ owner' = t
    /\ UNCHANGED queue

(* The lock is held: the caller waits behind everybody else. *)
Enqueue(t) ==
    /\ owner \notin {NULL, t}
    /\ \A i \in 1..Len(queue) : queue[i] # t
    /\ queue' = Append(queue, t)
    /\ UNCHANGED owner

(* The owner leaves; the longest-waiting thread, if any, is the next owner. *)
Release(t) ==
    /\ owner = t
    /\ IF queue = <<>>
       THEN owner' = NULL /\ UNCHANGED queue
       ELSE owner' = Head(queue) /\ queue' = Tail(queue)

Next == \E t \in Threads : Acquire(t) \/ Enqueue(t) \/ Release(t)

Spec == Init /\ [][Next]_lockVars
===============================================================================
