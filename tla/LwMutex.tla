-------------------------------- MODULE LwMutex --------------------------------
(***************************************************************************)
(* The 4-byte mutex of src/lw_mutex.c, at the granularity of its atomic    *)
(* accesses.  The 32-bit word holds the owner's waiter id and the id of    *)
(* the newest waiter; every waiter's `next' names the waiter that arrived  *)
(* just before it ("Reverse linked FIFO").  Unlock walks that chain to its *)
(* far end, filling in the `prev' pointers, and hands the lock to the      *)
(* oldest waiter before it signals it.                                     *)
(*                                                                         *)
(* A thread is identified with its waiter (one lw_waiter_t per thread).    *)
(* The thread event is the one-bit signal of ThreadEvent: signal sets it,  *)
(* wait blocks until it is set and clears it.  wait_src is not a variable: *)
(* it is non-NULL exactly while pc is "lock_swap" or "wait".               *)
(***************************************************************************)
EXTENDS Naturals, Sequences

CONSTANTS Threads,  \* waiter ids of the threads that use the mutex
          NULL      \* LW_WAITER_ID_MAX

ASSUME NullAssumption == NULL \notin Threads

VARIABLES
    val,            \* lw_mutex_t: the word [owner, waitq]
    next, prev,     \* lw_waiter_t.next and .prev
    signal_pending, \* lw_thread_event_t.signal_pending
    pc,             \* where each thread is
    old,            \* the local snapshot of the word
    cur,            \* the walk's cursor, then waiter_to_wake_up
    fifo            \* history: the waiters in order of arrival, oldest first

vars == <<val, next, prev, signal_pending, pc, old, cur, fifo>>

Ids == Threads \cup {NULL}

Words == [owner : Ids, waitq : Ids]

PCs == {"idle",         \* does not hold the mutex, in no call
        "lock",         \* lw_mutex_lock_if_not_held is about to call lock
        "lock_swap",    \* lock_async: snapshot taken, before the swap
        "wait",         \* queued: lock_async returned FALSE
        "try_swap",     \* trylock saw a free mutex, before the cmpxchg
        "held",         \* holds the mutex, in no call
        "unlock",       \* unlock_if_held is about to call unlock
        "walk",         \* unlock: in setup_prev_id_pointers
        "unlock_swap",  \* unlock: walk done, before the swap
        "remove",       \* unlock: swapped, before remove_from_id_list
        "wake"}         \* unlock: before lw_waiter_wakeup

Init ==
    /\ val = [owner |-> NULL, waitq |-> NULL]
    /\ next = [t \in Threads |-> NULL]
    /\ prev = [t \in Threads |-> NULL]
    /\ signal_pending = [t \in Threads |-> FALSE]
    /\ pc = [t \in Threads |-> "idle"]
    /\ old = [t \in Threads |-> val]
    /\ cur = [t \in Threads |-> NULL]
    /\ fifo = <<>>

Goto(t, l) == pc' = [pc EXCEPT ![t] = l]

-------------------------------------------------------------------------------
(* Locking. *)

(* lw_mutex_lock_async up to the first read of the word. *)
LockAsync(t) ==
    /\ pc[t] \in {"idle", "lock"}
    /\ old' = [old EXCEPT ![t] = val]
    /\ Goto(t, "lock_swap")
    /\ UNCHANGED <<val, next, prev, signal_pending, cur, fifo>>

(* What the loop of lock_async stores in waiter->next for the snapshot w. *)
LinkTo(w) == IF w.owner = NULL THEN NULL ELSE w.waitq

(* Mutant of LockedWord: a queued thread does not publish itself. *)
LockedWordNoQueue(w, t) ==
    IF w.owner = NULL THEN [w EXCEPT !.owner = t] ELSE w

(* The word lock_async swaps in: owner if it was free, else newest waiter. *)
LockedWord(w, t) ==
    IF w.owner = NULL THEN [w EXCEPT !.owner = t] ELSE [w EXCEPT !.waitq = t]

(* One turn of the lock_async loop.  A failed swap refreshes the snapshot; *)
(* a successful one makes the caller the owner or the newest waiter.       *)
LockSwap(t) ==
    /\ pc[t] = "lock_swap"
    /\ next' = [next EXCEPT ![t] = LinkTo(old[t])]
    /\ \/ /\ val = old[t]
          /\ val' = LockedWord(val, t)
          /\ IF val.owner = NULL
             THEN Goto(t, "held") /\ UNCHANGED fifo
             ELSE Goto(t, "wait") /\ fifo' = Append(fifo, t)
          /\ UNCHANGED old
       \/ /\ val # old[t]
          /\ old' = [old EXCEPT ![t] = val]
          /\ UNCHANGED <<val, pc, fifo>>
    /\ UNCHANGED <<prev, signal_pending, cur>>

(* lw_mutex_lock_complete_wait: block on the event; the waker has already  *)
(* made this thread the owner.                                             *)
CompleteWait(t) ==
    /\ pc[t] = "wait"
    /\ signal_pending[t]
    /\ signal_pending' = [signal_pending EXCEPT ![t] = FALSE]
    /\ Goto(t, "held")
    /\ UNCHANGED <<val, next, prev, old, cur, fifo>>

(* lw_mutex_trylock up to its read: EBUSY, a stuttering step, when held. *)
Trylock(t) ==
    /\ pc[t] = "idle"
    /\ val.owner = NULL
    /\ old' = [old EXCEPT ![t] = val]
    /\ Goto(t, "try_swap")
    /\ UNCHANGED <<val, next, prev, signal_pending, cur, fifo>>

(* Mutant of TrylockSwap: a plain store instead of the cmpxchg. *)
TrylockStore(t) ==
    /\ pc[t] = "try_swap"
    /\ val' = [owner |-> t, waitq |-> NULL]
    /\ Goto(t, "held")
    /\ UNCHANGED <<next, prev, signal_pending, old, cur, fifo>>

(* The cmpxchg of trylock; EBUSY if the word has changed since the read. *)
TrylockSwap(t) ==
    /\ pc[t] = "try_swap"
    /\ IF val = old[t]
       THEN val' = [owner |-> t, waitq |-> NULL] /\ Goto(t, "held")
       ELSE UNCHANGED val /\ Goto(t, "idle")
    /\ UNCHANGED <<next, prev, signal_pending, old, cur, fifo>>

(* lw_mutex_lock_if_not_held: only the owner field is read, and only its   *)
(* being the caller or not matters.                                        *)
LockIfNotHeld(t) ==
    /\ pc[t] \in {"idle", "held"}
    /\ Goto(t, IF val.owner # t THEN "lock" ELSE "held")
    /\ UNCHANGED <<val, next, prev, signal_pending, old, cur, fifo>>

-------------------------------------------------------------------------------
(* Unlocking. *)

(* lw_mutex_unlock_if_held: goes on to unlock if the caller is the owner. *)
UnlockIfHeld(t) ==
    /\ pc[t] \in {"idle", "held"}
    /\ val.owner = t
    /\ Goto(t, "unlock")
    /\ UNCHANGED <<val, next, prev, signal_pending, old, cur, fifo>>

(* Take a snapshot and start the walk at its newest waiter. *)
Snapshot(t) ==
    /\ old' = [old EXCEPT ![t] = val]
    /\ cur' = [cur EXCEPT ![t] = val.waitq]
    /\ Goto(t, "walk")

(* lw_mutex_unlock up to the first call of setup_prev_id_pointers. *)
Unlock(t) ==
    /\ pc[t] \in {"held", "unlock"}
    /\ Snapshot(t)
    /\ UNCHANGED <<val, next, prev, signal_pending, fifo>>

(* One step of lw_mutex_setup_prev_id_pointers: tell the next older waiter *)
(* who is behind it, and move to it; stop at the oldest.                   *)
Walk(t) ==
    /\ pc[t] = "walk"
    /\ IF cur[t] # NULL /\ next[cur[t]] # NULL
       THEN /\ prev' = [prev EXCEPT ![next[cur[t]]] = cur[t]]
            /\ cur' = [cur EXCEPT ![t] = next[cur[t]]]
            /\ UNCHANGED pc
       ELSE Goto(t, "unlock_swap") /\ UNCHANGED <<prev, cur>>
    /\ UNCHANGED <<val, next, signal_pending, old, fifo>>

(* Mutant of HandedOver: the last waiter stays in the word. *)
HandedOverKeepsQueue(w, c) == [owner |-> c, waitq |-> w.waitq]

(* The word unlock swaps in for the snapshot w when c is the oldest waiter. *)
HandedOver(w, c) ==
    [owner |-> c, waitq |-> IF w.waitq = c THEN NULL ELSE w.waitq]

(* Mutant of UnlockSwap: the walk is not repeated after a failed swap. *)
UnlockSwapNoRewalk(t) ==
    /\ pc[t] = "unlock_swap"
    /\ IF val = old[t]
       THEN /\ val' = HandedOver(val, cur[t])
            /\ fifo' = IF fifo = <<>> THEN fifo ELSE Tail(fifo)
            /\ Goto(t, IF cur[t] = NULL THEN "idle" ELSE "remove")
            /\ UNCHANGED <<old, cur>>
       ELSE /\ old' = [old EXCEPT ![t] = val]
            /\ UNCHANGED <<val, fifo, cur, pc>>
    /\ UNCHANGED <<next, prev, signal_pending>>

(* The swap of unlock: it changes the owner to the oldest waiter, or frees *)
(* the mutex; if somebody queued meanwhile it starts over.                 *)
UnlockSwap(t) ==
    /\ pc[t] = "unlock_swap"
    /\ IF val = old[t]
       THEN /\ val' = HandedOver(val, cur[t])
            /\ fifo' = IF fifo = <<>> THEN fifo ELSE Tail(fifo)
            /\ Goto(t, IF cur[t] = NULL THEN "idle" ELSE "remove")
            /\ UNCHANGED <<old, cur>>
       ELSE Snapshot(t) /\ UNCHANGED <<val, fifo>>
    /\ UNCHANGED <<next, prev, signal_pending>>

(* One direction of lw_waiter_remove_from_id_list: links p after waiter c, *)
(* whose neighbour in the other direction q is told, has left the list.    *)
Unlinked(p, q, c) ==
    [x \in Threads |-> IF x = c THEN NULL ELSE IF x = q[c] THEN p[c] ELSE p[x]]

(* lw_waiter_remove_from_id_list(waiter_to_wake_up). *)
RemoveFromIdList(t) ==
    /\ pc[t] = "remove"
    /\ next' = Unlinked(next, prev, cur[t])
    /\ prev' = Unlinked(prev, next, cur[t])
    /\ Goto(t, "wake")
    /\ UNCHANGED <<val, signal_pending, old, cur, fifo>>

(* lw_waiter_wakeup: signal the new owner's event. *)
Wakeup(t) ==
    /\ pc[t] = "wake"
    /\ signal_pending' = [signal_pending EXCEPT ![cur[t]] = TRUE]
    /\ Goto(t, "idle")
    /\ UNCHANGED <<val, next, prev, old, cur, fifo>>

-------------------------------------------------------------------------------
(* The specification. *)

(* A step inside a call, which a running thread always goes on to take.    *)
Internal(t) ==
    \/ pc[t] = "lock" /\ LockAsync(t)
    \/ LockSwap(t) \/ CompleteWait(t) \/ TrylockSwap(t)
    \/ pc[t] = "unlock" /\ Unlock(t)
    \/ Walk(t) \/ UnlockSwap(t) \/ RemoveFromIdList(t) \/ Wakeup(t)

(* A step that enters a call: up to the client. *)
Call(t) ==
    \/ pc[t] = "idle" /\ LockAsync(t)
    \/ Trylock(t) \/ LockIfNotHeld(t) \/ UnlockIfHeld(t)
    \/ pc[t] = "held" /\ Unlock(t)

Next == \E t \in Threads : Internal(t) \/ Call(t)

Spec == Init /\ [][Next]_vars

(* Running threads finish their calls, and an owner does not keep the      *)
(* mutex forever.                                                          *)
Fairness ==
    \A t \in Threads : WF_vars(Internal(t)) /\ WF_vars(Unlock(t))

FairSpec == Spec /\ Fairness

-------------------------------------------------------------------------------
(* Properties. *)

TypeOK ==
    /\ val \in Words
    /\ next \in [Threads -> Ids]
    /\ prev \in [Threads -> Ids]
    /\ signal_pending \in [Threads -> BOOLEAN]
    /\ pc \in [Threads -> PCs]
    /\ old \in [Threads -> Words]
    /\ cur \in [Threads -> Ids]
    /\ fifo \in Seq(Threads)

(* The control points at which a thread believes it owns the mutex: from   *)
(* the return of a lock call to the swap of unlock.                        *)
Holding == {"held", "unlock", "walk", "unlock_swap"}

(* No two threads are between lock and unlock at the same time, and the    *)
(* thread that is there is the one the word names.                         *)
MutualExclusion ==
    \A t \in Threads : pc[t] \in Holding => val.owner = t

(* None of the lw_verify checks on the way can fire for clients that lock  *)
(* only what they do not hold: lock_async never finds the caller as the    *)
(* owner in its (possibly stale) snapshot; a thread that gets its signal   *)
(* is the owner ("The thread waking this up will also transfer the lock to *)
(* it"); nobody is signalled twice; and the waiter of a thread outside any *)
(* call is unlinked and unsignalled, as thread exit demands.               *)
VerifiesHold ==
    \A t \in Threads :
        /\ pc[t] = "lock_swap" => old[t].owner # t
        /\ signal_pending[t] => pc[t] = "wait" /\ val.owner = t
        /\ pc[t] = "wake" => ~signal_pending[cur[t]]
        /\ pc[t] = "idle" => next[t] = NULL /\ prev[t] = NULL

(* The abstract lock: its owner is the word's, its queue the arrival order. *)
Fair == INSTANCE FairLock WITH owner <- val.owner, queue <- fifo

(* The mutex implements the fair lock: each swap is one of its operations, *)
(* everything else a stuttering step; in particular unlock, which only     *)
(* follows pointers, hands over to the thread that has waited longest.     *)
ImplementsFairLock == Fair!Spec

(* A queued thread gets the mutex, whatever the other threads do. *)
QueuedThreadGetsMutex ==
    \A t \in Threads : pc[t] = "wait" ~> pc[t] = "held"

-------------------------------------------------------------------------------
(* The inductive invariant. *)

Queued(t) == \E i \in 1..Len(fifo) : fifo[i] = t

Waking == {"remove", "wake"}

(* Who the owner is.  Between the swap of unlock and its wakeup the new    *)
(* owner is asleep and the old one (the waker) still works on its behalf.  *)
OwnerInv ==
    /\ \A t \in Threads : pc[t] \in Holding => val.owner = t
    /\ \A t \in Threads : val.owner = t => pc[t] \in Holding \cup {"wait"}
    /\ \A t \in Threads : signal_pending[t] => pc[t] = "wait" /\ val.owner = t
    /\ \A u \in Threads : pc[u] \in Waking =>
            /\ cur[u] # NULL
            /\ val.owner = cur[u]
            /\ pc[cur[u]] = "wait"
            /\ ~signal_pending[cur[u]]
    /\ \A u, v \in Threads : pc[u] \in Waking /\ pc[v] \in Waking => u = v
    /\ \A t \in Threads : pc[t] = "lock_swap" => old[t].owner # t
    /\ \A t \in Threads : pc[t] = "try_swap" =>
            old[t] = [owner |-> NULL, waitq |-> NULL]

(* Who is queued: exactly the waiting threads that do not own the mutex. *)
QueueInv ==
    /\ \A i, j \in 1..Len(fifo) : fifo[i] = fifo[j] => i = j
    /\ \A i \in 1..Len(fifo) : pc[fifo[i]] = "wait" /\ val.owner # fifo[i]
    /\ \A t \in Threads : pc[t] = "wait" => Queued(t) \/ val.owner = t
    /\ val.owner = NULL => fifo = <<>>
    /\ val.waitq = IF fifo = <<>> THEN NULL ELSE fifo[Len(fifo)]

(* The next pointers spell the queue, except that the oldest waiter still  *)
(* names the new owner while the waker has not yet unlinked it.            *)
NextInv ==
    /\ \A i \in 1..Len(fifo) : i > 1 => next[fifo[i]] = fifo[i - 1]
    /\ fifo # <<>> =>
          \/ next[fifo[1]] = NULL
          \/ \E u \in Threads : /\ pc[u] = "remove"
                                /\ prev[cur[u]] = fifo[1]
                                /\ next[fifo[1]] = cur[u]
    /\ \A t \in Threads : next[t] # NULL => Queued(t) \/ pc[t] = "lock_swap"

(* A prev pointer is NULL or names the waiter right behind; only queued    *)
(* waiters, and the one being unlinked, have one.                          *)
PrevInv ==
    /\ \A i \in 1..Len(fifo) :
            prev[fifo[i]] # NULL => i < Len(fifo) /\ prev[fifo[i]] = fifo[i + 1]
    /\ \A u \in Threads : pc[u] = "remove" /\ prev[cur[u]] # NULL =>
            fifo # <<>> /\ prev[cur[u]] = fifo[1]
    /\ \A t \in Threads : prev[t] # NULL =>
            Queued(t) \/ \E u \in Threads : pc[u] = "remove" /\ cur[u] = t

(* How far the walk of unlock has come: it is at position j of the queue,  *)
(* started at position k, and everyone it passed knows who is behind.      *)
WalkInv ==
    \A t \in Threads : pc[t] \in {"walk", "unlock_swap"} =>
        /\ old[t].owner = t
        /\ cur[t] = NULL => old[t].waitq = NULL
        /\ cur[t] # NULL =>
              \E j, k \in 1..Len(fifo) :
                  /\ j <= k
                  /\ cur[t] = fifo[j]
                  /\ old[t].waitq = fifo[k]
                  /\ j < k => prev[fifo[j]] = fifo[j + 1]
                  /\ pc[t] = "unlock_swap" => j = 1

(* The conjunction is inductive, and implies MutualExclusion and           *)
(* VerifiesHold.                                                           *)
IInv == TypeOK /\ OwnerInv /\ QueueInv /\ NextInv /\ PrevInv /\ WalkInv
===============================================================================
