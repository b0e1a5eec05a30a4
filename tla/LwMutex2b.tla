------------------------------- MODULE LwMutex2b -------------------------------
(***************************************************************************)
(* The 2-byte mutex of src/lw_mutex2b.c.  Its word is a single waiter id,  *)
(* that of the newest arrival; the owner is the far end of the chain of    *)
(* `next' pointers and is named nowhere else.  Lock pushes the caller on   *)
(* the chain, and owns the mutex if the chain was empty; unlock finds the  *)
(* waiter whose `next' is the caller, cuts the chain there and wakes it.   *)
(*                                                                         *)
(* Each thread is its own waiter; lock_with_waiter and unlock_with_waiter  *)
(* are given it explicitly, lock and unlock look it up.                    *)
(***************************************************************************)
EXTENDS Naturals, Sequences

CONSTANTS Threads,  \* waiter ids
          NULL      \* LW_WAITER_ID_MAX

ASSUME NullAssumption == NULL \notin Threads

VARIABLES
    word,           \* lw_mutex2b_t: id of the newest arrival
    next,           \* lw_waiter_t.next
    signal_pending, \* lw_thread_event_t.signal_pending
    pc,             \* where each thread is
    old,            \* local snapshot of the word
    cur,            \* the cursor of find_oldest_waiter
    towake,         \* unlock: waiter_to_wake_up
    chain           \* history: the owner, then the waiters by arrival

vars == <<word, next, signal_pending, pc, old, cur, towake, chain>>

Ids == Threads \cup {NULL}

PCs == {"idle",         \* does not hold the mutex, in no call
        "lock",         \* lock: before the read at the loop's head
        "lock_swap",    \* lock: before the cmpxchg
        "wait",         \* lock: waiting for the hand-off
        "try_swap",     \* trylock saw a free mutex, before the cmpxchg
        "held",         \* holds the mutex, in no call
        "unlock",       \* unlock: before the read at the loop's head
        "walk",         \* unlock: in find_oldest_waiter
        "unlock_swap",  \* unlock: before the cmpxchg
        "handoff",      \* unlock: before waiter_to_wake_up->next = MAX
        "wake"}         \* unlock: before lw_waiter_wakeup

Init ==
    /\ word = NULL
    /\ next = [t \in Threads |-> NULL]
    /\ signal_pending = [t \in Threads |-> FALSE]
    /\ pc = [t \in Threads |-> "idle"]
    /\ old = [t \in Threads |-> NULL]
    /\ cur = [t \in Threads |-> NULL]
    /\ towake = [t \in Threads |-> NULL]
    /\ chain = <<>>

Goto(t, l) == pc' = [pc EXCEPT ![t] = l]

(* Leave the call for control point l: its local variables are gone. *)
Return(t, l) ==
    /\ Goto(t, l)
    /\ old' = [old EXCEPT ![t] = NULL]
    /\ cur' = [cur EXCEPT ![t] = NULL]
    /\ towake' = [towake EXCEPT ![t] = NULL]

-------------------------------------------------------------------------------
(* Locking. *)

(* lw_mutex2b_lock_with_waiter is called. *)
Lock(t) ==
    /\ pc[t] = "idle"
    /\ Goto(t, "lock")
    /\ UNCHANGED <<word, next, signal_pending, old, cur, towake, chain>>

(* The head of its loop: read the word and link to the newest arrival. *)
LockRead(t) ==
    /\ pc[t] = "lock"
    /\ old' = [old EXCEPT ![t] = word]
    /\ next' = [next EXCEPT ![t] = word]
    /\ Goto(t, "lock_swap")
    /\ UNCHANGED <<word, signal_pending, cur, towake, chain>>

(* Mutant of LockSwap: a plain store instead of the cmpxchg. *)
LockStore(t) ==
    /\ pc[t] = "lock_swap"
    /\ word' = t
    /\ chain' = Append(chain, t)
    /\ Return(t, IF old[t] = NULL THEN "held" ELSE "wait")
    /\ UNCHANGED <<next, signal_pending>>

(* Its cmpxchg; the lock is the caller's if the chain was empty. *)
LockSwap(t) ==
    /\ pc[t] = "lock_swap"
    /\ IF word = old[t]
       THEN /\ word' = t
            /\ chain' = Append(chain, t)
            /\ Return(t, IF old[t] = NULL THEN "held" ELSE "wait")
       ELSE Return(t, "lock") /\ UNCHANGED <<word, chain>>
    /\ UNCHANGED <<next, signal_pending>>

(* Its wait: whoever wakes the thread has made it the end of the chain. *)
LockWait(t) ==
    /\ pc[t] = "wait"
    /\ signal_pending[t]
    /\ signal_pending' = [signal_pending EXCEPT ![t] = FALSE]
    /\ Goto(t, "held")
    /\ UNCHANGED <<word, next, old, cur, towake, chain>>

(* lw_mutex2b_trylock up to its read: EBUSY, a stuttering step, when held. *)
Trylock(t) ==
    /\ pc[t] = "idle"
    /\ word = NULL
    /\ Goto(t, "try_swap")
    /\ UNCHANGED <<word, next, signal_pending, old, cur, towake, chain>>

(* Mutant of TrylockSwap: a plain store instead of the cmpxchg. *)
TrylockStore(t) ==
    /\ pc[t] = "try_swap"
    /\ word' = t
    /\ chain' = Append(chain, t)
    /\ Goto(t, "held")
    /\ UNCHANGED <<next, signal_pending, old, cur, towake>>

(* Its cmpxchg.  Note that it leaves waiter->next alone. *)
TrylockSwap(t) ==
    /\ pc[t] = "try_swap"
    /\ IF word = NULL
       THEN word' = t /\ chain' = Append(chain, t) /\ Goto(t, "held")
       ELSE Goto(t, "idle") /\ UNCHANGED <<word, chain>>
    /\ UNCHANGED <<next, signal_pending, old, cur, towake>>

-------------------------------------------------------------------------------
(* Unlocking. *)

(* lw_mutex2b_unlock_with_waiter is called. *)
Unlock(t) ==
    /\ pc[t] = "held"
    /\ Goto(t, "unlock")
    /\ UNCHANGED <<word, next, signal_pending, old, cur, towake, chain>>

(* The head of its loop: look for the oldest waiter, but only once.  The   *)
(* oldest waiter cannot change while the caller owns the mutex.            *)
UnlockRead(t) ==
    /\ pc[t] = "unlock"
    /\ old' = [old EXCEPT ![t] = word]
    /\ IF word \notin {t, NULL} /\ towake[t] = NULL
       THEN cur' = [cur EXCEPT ![t] = word] /\ Goto(t, "walk")
       ELSE Goto(t, "unlock_swap") /\ UNCHANGED cur
    /\ UNCHANGED <<word, next, signal_pending, towake, chain>>

(* Mutant of Walk: the newest waiter is taken for the oldest. *)
WalkNewest(t) ==
    /\ pc[t] = "walk"
    /\ towake' = [towake EXCEPT ![t] = cur[t]]
    /\ Goto(t, "unlock_swap")
    /\ UNCHANGED <<word, next, signal_pending, old, cur, chain>>

(* One step of lw_mutex2b_find_oldest_waiter, which stops at the end of    *)
(* the chain or at the waiter that points to the owner.                    *)
Walk(t) ==
    /\ pc[t] = "walk"
    /\ IF cur[t] # NULL /\ next[cur[t]] # t
       THEN cur' = [cur EXCEPT ![t] = next[cur[t]]] /\ UNCHANGED <<towake, pc>>
       ELSE /\ towake' = [towake EXCEPT ![t] = cur[t]]
            /\ cur' = [cur EXCEPT ![t] = NULL]
            /\ Goto(t, "unlock_swap")
    /\ UNCHANGED <<word, next, signal_pending, old, chain>>

(* Its cmpxchg: free the mutex if nobody waits, else write the word back   *)
(* unchanged.                                                              *)
UnlockSwap(t) ==
    /\ pc[t] = "unlock_swap"
    /\ IF word = old[t]
       THEN /\ word' = IF old[t] = t THEN NULL ELSE old[t]
            /\ chain' = IF old[t] = t THEN Tail(chain) ELSE chain
            /\ IF towake[t] = NULL THEN Return(t, "idle")
               ELSE Goto(t, "handoff") /\ UNCHANGED <<old, cur, towake>>
       ELSE Goto(t, "unlock") /\ UNCHANGED <<word, chain, old, cur, towake>>
    /\ UNCHANGED <<next, signal_pending>>

(* Cutting the chain behind the oldest waiter makes it the owner. *)
Handoff(t) ==
    /\ pc[t] = "handoff"
    /\ next' = [next EXCEPT ![towake[t]] = NULL]
    /\ chain' = Tail(chain)
    /\ Goto(t, "wake")
    /\ UNCHANGED <<word, signal_pending, old, cur, towake>>

(* Mutant of Wakeup: the signal goes to the newest waiter. *)
WakeupNewest(t) ==
    /\ pc[t] = "wake"
    /\ signal_pending' = [signal_pending EXCEPT ![old[t]] = TRUE]
    /\ Return(t, "idle")
    /\ UNCHANGED <<word, next, chain>>

(* lw_waiter_wakeup(waiter_to_wake_up). *)
Wakeup(t) ==
    /\ pc[t] = "wake"
    /\ signal_pending' = [signal_pending EXCEPT ![towake[t]] = TRUE]
    /\ Return(t, "idle")
    /\ UNCHANGED <<word, next, chain>>

-------------------------------------------------------------------------------
(* The specification. *)

(* A step inside a call, which a running thread always goes on to take. *)
Internal(t) ==
    \/ LockRead(t) \/ LockSwap(t) \/ LockWait(t) \/ TrylockSwap(t)
    \/ UnlockRead(t) \/ Walk(t) \/ UnlockSwap(t) \/ Handoff(t) \/ Wakeup(t)

(* A step that enters a call: up to the client. *)
Call(t) == Lock(t) \/ Trylock(t) \/ Unlock(t)

Next == \E t \in Threads : Internal(t) \/ Call(t)

Spec == Init /\ [][Next]_vars

(* Running threads finish their calls, and an owner does not keep the      *)
(* mutex forever.                                                          *)
Fairness ==
    \A t \in Threads : WF_vars(Internal(t)) /\ WF_vars(Unlock(t))

FairSpec == Spec /\ Fairness

-------------------------------------------------------------------------------
(* Properties. *)

TypeOK ==
    /\ word \in Ids
    /\ next \in [Threads -> Ids]
    /\ signal_pending \in [Threads -> BOOLEAN]
    /\ pc \in [Threads -> PCs]
    /\ old \in [Threads -> Ids]
    /\ cur \in [Threads -> Ids]
    /\ towake \in [Threads -> Ids]
    /\ chain \in Seq(Threads)

(* From the return of a lock call to the step that gives the mutex away. *)
Holding == {"held", "unlock", "walk", "unlock_swap", "handoff"}

(* At most one thread is between lock and unlock. *)
MutualExclusion ==
    \A t, u \in Threads : pc[t] \in Holding /\ pc[u] \in Holding => t = u

(* The checks the code makes on the way hold: the walk of unlock finds a   *)
(* waiter, and one that "points to owner (fairness)"; an unlock that wakes *)
(* nobody "really had no waiters"; nobody is signalled twice, or before    *)
(* the chain ends at it; a thread outside any call has no next pointer, as *)
(* the next lock call and thread exit demand.                              *)
VerifiesHold ==
    \A t \in Threads :
        /\ pc[t] \in {"unlock_swap", "handoff"} =>
              IF towake[t] = NULL THEN old[t] = t ELSE next[towake[t]] = t
        /\ pc[t] = "wake" => ~signal_pending[towake[t]]
        /\ signal_pending[t] => pc[t] = "wait" /\ next[t] = NULL
        /\ pc[t] = "idle" => next[t] = NULL

(* The abstract lock: its owner is the end of the chain. *)
Fair == INSTANCE FairLock
    WITH owner <- IF chain = <<>> THEN NULL ELSE Head(chain),
         queue <- IF chain = <<>> THEN <<>> ELSE Tail(chain)

(* The 2-byte mutex implements the same fair lock as the 4-byte one; its   *)
(* hand-off happens where the chain is cut.                                *)
ImplementsFairLock == Fair!Spec

(* A queued thread gets the mutex, whatever the other threads do. *)
QueuedThreadGetsMutex ==
    \A t \in Threads : pc[t] = "wait" ~> pc[t] = "held"

-------------------------------------------------------------------------------
(* The inductive invariant. *)

InChain(t) == \E i \in 1..Len(chain) : chain[i] = t

(* The next pointers spell the chain from the word to the owner; nobody    *)
(* else is linked but a thread in the loop of lock.                        *)
ChainInv ==
    /\ \A i, j \in 1..Len(chain) : chain[i] = chain[j] => i = j
    /\ word = IF chain = <<>> THEN NULL ELSE chain[Len(chain)]
    /\ chain # <<>> => next[chain[1]] = NULL
    /\ \A i \in 1..Len(chain) : i > 1 => next[chain[i]] = chain[i - 1]
    /\ \A t \in Threads :
            next[t] # NULL => InChain(t) \/ pc[t] \in {"lock", "lock_swap"}

(* The end of the chain holds the mutex or is about to be told that it     *)
(* does; everybody else on the chain waits without a signal.               *)
OwnerInv ==
    /\ \A t \in Threads : pc[t] \in Holding => chain # <<>> /\ chain[1] = t
    /\ \A t \in Threads : pc[t] = "wait" => InChain(t)
    /\ \A i \in 1..Len(chain) : i > 1 => pc[chain[i]] = "wait"
    /\ chain # <<>> => pc[chain[1]] \in Holding \cup {"wait"}
    /\ \A t \in Threads : signal_pending[t] =>
            pc[t] = "wait" /\ chain # <<>> /\ chain[1] = t
    /\ \A u \in Threads : pc[u] = "wake" =>
            /\ chain # <<>> /\ towake[u] = chain[1]
            /\ pc[chain[1]] = "wait" /\ ~signal_pending[chain[1]]
    /\ \A u, v \in Threads : pc[u] = "wake" /\ pc[v] = "wake" => u = v

(* What the locals say: the walk of unlock is at a waiter, the waiter it   *)
(* found is the one next to the owner, and lock has linked the caller to   *)
(* its snapshot.                                                           *)
LocalsInv ==
    \A t \in Threads :
        /\ pc[t] = "walk" => /\ old[t] # t
                             /\ \E j \in 1..Len(chain) : j > 1 /\ cur[t] = chain[j]
        /\ pc[t] \in {"unlock", "unlock_swap", "handoff"} /\ towake[t] # NULL =>
              Len(chain) > 1 /\ towake[t] = chain[2]
        /\ pc[t] = "unlock_swap" => (towake[t] = NULL <=> old[t] = t)
        /\ pc[t] = "lock_swap" => next[t] = old[t]
        /\ pc[t] = "handoff" => towake[t] # NULL
        /\ pc[t] \notin {"unlock", "unlock_swap", "handoff", "wake"} =>
              towake[t] = NULL

(* The conjunction is inductive, and implies MutualExclusion and           *)
(* VerifiesHold.                                                           *)
IInv == TypeOK /\ ChainInv /\ OwnerInv /\ LocalsInv
===============================================================================
