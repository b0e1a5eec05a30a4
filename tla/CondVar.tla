-------------------------------- MODULE CondVar --------------------------------
(***************************************************************************)
(* The condition variable of src/lw_cond_var.c with the client's mutex.    *)
(*                                                                         *)
(* The wait queue is doubly linked through the waiters and protected by    *)
(* waitq_lock, a 2-byte mutex: what happens under it is one step (LwMutex2b *)
(* shows that it excludes).  Three things happen outside of it: the first  *)
(* read of signal and broadcast, the signalling of the threads taken off   *)
(* the queue, and broadcast's walk of the queue it has detached.           *)
(*                                                                         *)
(* The client's mutex is the lock FairLock specifies.  It hands over in    *)
(* two steps, the change of owner and the signal, and it uses the same     *)
(* one-bit event of the thread as the condition variable does: a signal    *)
(* nobody consumed would be taken for a hand-off of the mutex.             *)
(***************************************************************************)
EXTENDS Naturals, Sequences, SequencesExt, FiniteSets

CONSTANTS Threads,  \* waiter ids
          NULL,     \* LW_WAITER_ID_MAX
          Clients   \* the programs: which operations each thread uses

ASSUME ThreadsAssumption == IsFiniteSet(Threads) /\ NULL \notin Threads
ASSUME ClientsAssumption ==
    Clients \subseteq
        [Threads -> SUBSET {"wait", "timedwait", "signal", "broadcast"}]

VARIABLES
    ops,            \* the program, which does not change
    waitq,          \* lw_condvar_t.waitq: the oldest waiter
    next, prev,     \* lw_waiter_t.next and .prev
    signal_pending, \* the thread event of each waiter
    owner, queue,   \* the client's mutex
    pc,             \* where each thread is
    timed,          \* its wait has a deadline
    res,            \* what its last wait returned
    cur,            \* the cursor of lw_waiter_wake_all
    target,         \* the waiter it is about to signal
    back            \* where it goes on after that

vars == <<waitq, next, prev, signal_pending, owner, queue, pc, timed, res, cur,
          target, back>>

list == <<waitq, next, prev>>
mutex == <<owner, queue>>
locals == <<timed, res, cur, target, back>>

Init ==
    /\ ops \in Clients
    /\ waitq = NULL
    /\ next = [t \in Threads |-> NULL] /\ prev = [t \in Threads |-> NULL]
    /\ signal_pending = [t \in Threads |-> FALSE]
    /\ owner = NULL /\ queue = <<>>
    /\ pc = [t \in Threads |-> "out"]
    /\ timed = [t \in Threads |-> FALSE]
    /\ res = [t \in Threads |-> "0"]
    /\ cur = [t \in Threads |-> NULL]
    /\ target = [t \in Threads |-> NULL]
    /\ back = [t \in Threads |-> "out"]

Goto(t, l) == pc' = [pc EXCEPT ![t] = l]

(* Go on where `back' says. *)
Return(t) == Goto(t, back[t]) /\ back' = [back EXCEPT ![t] = "out"]

-------------------------------------------------------------------------------
(* The client's mutex. *)

Mutex == INSTANCE FairLock

(* Lock: it is the caller's, or the caller queues. *)
Acquire(t) ==
    \/ Mutex!Acquire(t) /\ Goto(t, "in")
    \/ Mutex!Enqueue(t) /\ Goto(t, "lock_wait")

(* Unlock, on the way to l: the next owner, if any, is to be signalled. *)
Drop(t, l) ==
    /\ Mutex!Release(t)
    /\ IF queue = <<>>
       THEN Goto(t, l) /\ UNCHANGED <<target, back>>
       ELSE /\ Goto(t, "wake")
            /\ target' = [target EXCEPT ![t] = Head(queue)]
            /\ back' = [back EXCEPT ![t] = l]

Lock(t) ==
    /\ pc[t] = "out" /\ ops[t] # {}
    /\ Acquire(t)
    /\ UNCHANGED <<list, signal_pending, locals>>

(* Wait for the hand-off: "No need to retry getting the lock". *)
LockWait(t) ==
    /\ pc[t] = "lock_wait" /\ signal_pending[t]
    /\ signal_pending' = [signal_pending EXCEPT ![t] = FALSE]
    /\ Goto(t, "in")
    /\ UNCHANGED <<list, mutex, locals>>

Unlock(t) ==
    /\ pc[t] = "in"
    /\ Drop(t, "out")
    /\ UNCHANGED <<list, signal_pending, timed, res, cur>>

(* lw_waiter_wakeup: signal the event of the waiter taken off a queue. *)
Wakeup(t) ==
    /\ pc[t] = "wake"
    /\ signal_pending' = [signal_pending EXCEPT ![target[t]] = TRUE]
    /\ target' = [target EXCEPT ![t] = NULL]
    /\ Return(t)
    /\ UNCHANGED <<list, mutex, timed, res, cur>>

-------------------------------------------------------------------------------
(* Waiting. *)

(* The waiters met on the way from the first along the links. *)
ListFrom(first, link) ==
    LET prefix[n \in 0..Cardinality(Threads)] ==
            IF n = 0 THEN <<>>
            ELSE LET s == prefix[n - 1]
                     id == IF s = <<>> THEN first ELSE link[Last(s)]
                 IN  IF id = NULL THEN s ELSE Append(s, id)
    IN  prefix[Cardinality(Threads)]

(* The queue of the condition variable. *)
WaitList == ListFrom(waitq, next)

(* Mutant of Enqueue: the new waiter goes to the head of the queue. *)
EnqueueFirst(t) ==
    /\ waitq' = t
    /\ next' = [next EXCEPT ![t] = waitq]
    /\ prev' = IF waitq = NULL THEN prev ELSE [prev EXCEPT ![waitq] = t]

(* Link the caller behind the last waiter. *)
Enqueue(t) ==
    IF waitq = NULL
    THEN waitq' = t /\ prev' = [prev EXCEPT ![t] = NULL] /\ UNCHANGED next
    ELSE /\ next' = [next EXCEPT ![Last(WaitList)] = t]
         /\ prev' = [prev EXCEPT ![t] = Last(WaitList)]
         /\ UNCHANGED waitq

(* lw_condvar_wait and lw_condvar_timedwait up to the unlock of waitq_lock. *)
Wait(t) ==
    /\ pc[t] = "in"
    /\ \E op \in ops[t] \cap {"wait", "timedwait"} :
            timed' = [timed EXCEPT ![t] = (op = "timedwait")]
    /\ Enqueue(t)
    /\ res' = [res EXCEPT ![t] = "0"]
    /\ Goto(t, "drop")
    /\ UNCHANGED <<signal_pending, mutex, cur, target, back>>

(* "Now drop the mutex and wait". *)
DropMutex(t) ==
    /\ pc[t] = "drop"
    /\ Drop(t, "cv_wait")
    /\ UNCHANGED <<list, signal_pending, timed, res, cur>>

(* The end of a wait: take the signal and go on to get the mutex back. *)
TakeSignal(t) ==
    /\ signal_pending[t]
    /\ signal_pending' = [signal_pending EXCEPT ![t] = FALSE]
    /\ res' = [res EXCEPT ![t] = "0"]
    /\ timed' = [timed EXCEPT ![t] = FALSE]
    /\ Goto(t, "reacquire")
    /\ UNCHANGED <<list, mutex, cur, target, back>>

(* lw_waiter_timedwait returns 0. *)
Awake(t) == pc[t] = "cv_wait" /\ TakeSignal(t)

(* lw_waiter_timedwait returns ETIMEDOUT. *)
Timeout(t) ==
    /\ pc[t] = "cv_wait" /\ timed[t] /\ ~signal_pending[t]
    /\ Goto(t, "expired")
    /\ UNCHANGED <<list, signal_pending, mutex, locals>>

(* One direction of lw_waiter_remove_from_id_list: links p after waiter c, *)
(* whose neighbour in the other direction q is told, has left the list.    *)
Unlinked(p, q, c) ==
    [x \in Threads |-> IF x = c THEN NULL ELSE IF x = q[c] THEN p[c] ELSE p[x]]

(* Take waiter c off the queue. *)
Dequeue(c) ==
    /\ waitq' = IF waitq = c THEN next[c] ELSE waitq
    /\ next' = Unlinked(next, prev, c)
    /\ prev' = Unlinked(prev, next, c)

(* Mutant of OffList: a timed-out waiter always believes it is queued. *)
OffListNever(t) == FALSE

(* How a timed-out waiter knows that it "got removed from list already". *)
OffList(t) == prev[t] = NULL /\ t # waitq

(* The timeout under waitq_lock: leave the queue, or find that somebody    *)
(* has taken the caller off it and owes it a signal.                       *)
Expired(t) ==
    /\ pc[t] = "expired"
    /\ \/ /\ OffList(t)
          /\ Goto(t, "consume")
          /\ UNCHANGED <<list, res, timed>>
       \/ /\ ~OffList(t)
          /\ Dequeue(t)
          /\ res' = [res EXCEPT ![t] = "ETIMEDOUT"]
          /\ timed' = [timed EXCEPT ![t] = FALSE]
          /\ Goto(t, "reacquire")
    /\ UNCHANGED <<signal_pending, mutex, cur, target, back>>

(* "There is a pending signal (or soon will be)": wait for it. *)
Consume(t) == pc[t] = "consume" /\ TakeSignal(t)

(* Get the mutex back before returning. *)
Reacquire(t) ==
    /\ pc[t] = "reacquire"
    /\ Acquire(t)
    /\ UNCHANGED <<list, signal_pending, locals>>

-------------------------------------------------------------------------------
(* Notifying, with or without the mutex. *)

(* The unlocked look at waitq: an empty queue ends the call at once. *)
Notify(t, op, l) ==
    /\ pc[t] \in {"in", "out"}
    /\ op \in ops[t]
    /\ waitq # NULL
    /\ back' = [back EXCEPT ![t] = pc[t]]
    /\ Goto(t, l)
    /\ UNCHANGED <<list, signal_pending, mutex, timed, res, cur, target>>

Signal(t) == Notify(t, "signal", "signal")

Broadcast(t) == Notify(t, "broadcast", "broadcast")

(* Mutant of SignalPop: the waiter read before the lock is woken anyway. *)
SignalPopKeeps(t) ==
    /\ pc[t] = "signal"
    /\ IF waitq = NULL
       THEN Return(t) /\ UNCHANGED target
       ELSE /\ target' = [target EXCEPT ![t] = waitq]
            /\ Goto(t, "wake") /\ UNCHANGED back
    /\ UNCHANGED <<list, signal_pending, mutex, timed, res, cur>>

(* lw_condvar_signal under waitq_lock: take the first waiter, if any. *)
SignalPop(t) ==
    /\ pc[t] = "signal"
    /\ IF waitq = NULL
       THEN Return(t) /\ UNCHANGED <<list, target>>
       ELSE /\ Dequeue(waitq)
            /\ target' = [target EXCEPT ![t] = waitq]
            /\ Goto(t, "wake") /\ UNCHANGED back
    /\ UNCHANGED <<signal_pending, mutex, timed, res, cur>>

(* lw_condvar_broadcast under waitq_lock: detach the whole queue. *)
BroadcastDetach(t) ==
    /\ pc[t] = "broadcast"
    /\ cur' = [cur EXCEPT ![t] = waitq]
    /\ waitq' = NULL
    /\ Goto(t, "wake_all")
    /\ UNCHANGED <<next, prev, signal_pending, mutex, timed, res, target, back>>

(* lw_waiter_wake_all, without a lock: unlink the waiter at the cursor,    *)
(* having read who is next.                                                *)
WakeAll(t) ==
    /\ pc[t] = "wake_all"
    /\ LET c == cur[t] IN
       IF c = NULL
       THEN Return(t) /\ UNCHANGED <<next, prev, cur, target>>
       ELSE /\ cur' = [cur EXCEPT ![t] = next[c]]
            /\ next' = [next EXCEPT ![c] = NULL]
            /\ prev' = [prev EXCEPT ![c] = NULL]
            /\ target' = [target EXCEPT ![t] = c]
            /\ Goto(t, "wake_one") /\ UNCHANGED back
    /\ UNCHANGED <<waitq, signal_pending, mutex, timed, res>>

(* Mutant of WakeOne: the loop ends after the first waiter. *)
WakeOneOnly(t) ==
    /\ pc[t] = "wake_one"
    /\ signal_pending' = [signal_pending EXCEPT ![target[t]] = TRUE]
    /\ target' = [target EXCEPT ![t] = NULL]
    /\ cur' = [cur EXCEPT ![t] = NULL]
    /\ Return(t)
    /\ UNCHANGED <<list, mutex, timed, res>>

(* Its signal to that waiter. *)
WakeOne(t) ==
    /\ pc[t] = "wake_one"
    /\ signal_pending' = [signal_pending EXCEPT ![target[t]] = TRUE]
    /\ target' = [target EXCEPT ![t] = NULL]
    /\ Goto(t, "wake_all")
    /\ UNCHANGED <<list, mutex, timed, res, cur, back>>

-------------------------------------------------------------------------------
(* A step inside a call, which a running thread always goes on to take; a  *)
(* deadline always comes.                                                  *)
Internal(t) ==
    \/ LockWait(t) \/ Wakeup(t) \/ DropMutex(t) \/ Awake(t) \/ Timeout(t)
    \/ Expired(t) \/ Consume(t) \/ Reacquire(t) \/ SignalPop(t)
    \/ BroadcastDetach(t) \/ WakeAll(t) \/ WakeOne(t)

(* The client's choices. *)
Call(t) == Lock(t) \/ Unlock(t) \/ Wait(t) \/ Signal(t) \/ Broadcast(t)

Next == UNCHANGED ops /\ \E t \in Threads : Internal(t) \/ Call(t)

(* A client that keeps coming back with the mutex in hand gives it up. *)
Fairness ==
    \A t \in Threads : WF_vars(Internal(t)) /\ SF_vars(Unlock(t) \/ Wait(t))

Spec == Init /\ [][Next]_<<vars, ops>> /\ Fairness

-------------------------------------------------------------------------------
(* Properties. *)

(* From Wait to the end of the wait, but for a timeout that was accepted. *)
Waiting(t) ==
    \/ pc[t] \in {"drop", "cv_wait", "expired", "consume"}
    \/ pc[t] = "wake" /\ back[t] = "cv_wait"

Woken == {t \in Threads : Waiting(t) /\ ~Contains(WaitList, t)}

(* A thread that returned from a lock, or from a wait, holds the mutex:    *)
(* no signal meant for the condition variable was mistaken for a hand-off. *)
HoldsMutex ==
    \A t \in Threads :
        \/ pc[t] \in {"in", "drop"}
        \/ /\ pc[t] \in {"signal", "broadcast", "wake_all", "wake_one", "wake"}
           /\ back[t] = "in"
        => owner = t

(* The queue is doubly linked, holds nobody who was woken or who does not  *)
(* wait, and a thread in no wait is not linked: the code asserts this when *)
(* it unlinks a waiter and when the thread next uses its waiter.           *)
ListSound ==
    /\ IsInjective(WaitList)
    /\ \A i \in DOMAIN WaitList :
            LET w == WaitList[i] IN
            /\ prev[w] = IF i = 1 THEN NULL ELSE WaitList[i - 1]
            /\ Waiting(w) /\ ~signal_pending[w]
    /\ \A t \in Threads : ~Waiting(t) => next[t] = NULL /\ prev[t] = NULL

(* A signal is sent to a thread that has none pending and that cannot go   *)
(* on without it: a waiter taken off the queue, or the mutex's next owner; *)
(* and the queue the signals are taken from is sound.                      *)
SignalExpected ==
    /\ ListSound
    /\ \A t \in Threads : pc[t] \in {"wake", "wake_one"} =>
          LET w == target[t] IN
          /\ ~signal_pending[w]
          /\ w \in Woken \/ (pc[w] = "lock_wait" /\ owner = w)

(* The abstract condition variable. *)
Abstract == INSTANCE CondVarSpec
    WITH waiting <- WaitList, woken <- Woken, result <- res

(* Signal wakes the thread that has waited longest, broadcast all of them; *)
(* and a wait that was chosen by either never reports a timeout.           *)
ImplementsCondVar == Abstract!Spec

(* A thread taken off the queue returns from its wait, and a wait with a   *)
(* deadline returns, signalled or not.                                     *)
WaitsReturn ==
    \A t \in Threads :
        /\ t \in Woken ~> pc[t] = "in"
        /\ (Waiting(t) /\ timed[t]) ~> pc[t] = "in"

===============================================================================
