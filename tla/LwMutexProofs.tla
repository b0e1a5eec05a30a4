----------------------------- MODULE LwMutexProofs -----------------------------
(***************************************************************************)
(* The 4-byte mutex is correct for any number of threads: IInv of LwMutex  *)
(* is inductive, implies mutual exclusion and the checks of the code, and  *)
(* makes every step a step of FairLock.  One lemma per action says that    *)
(* the action preserves every conjunct of IInv but the types, which        *)
(* TypeStep deals with.                                                    *)
(***************************************************************************)
EXTENDS LwMutex, SequenceTheorems, TLAPS

(* The step relation, one case per atomic action of lw_mutex.c. *)
LEMMA StepCases ==
    ASSUME Next
    PROVE  \E t \in Threads :
              \/ LockAsync(t) \/ LockSwap(t) \/ CompleteWait(t)
              \/ Trylock(t) \/ TrylockSwap(t)
              \/ LockIfNotHeld(t) \/ UnlockIfHeld(t)
              \/ Unlock(t) \/ Walk(t) \/ UnlockSwap(t)
              \/ RemoveFromIdList(t) \/ Wakeup(t)
BY DEF Next, Internal, Call

(* A free mutex without waiters, as lw_mutex_init leaves it. *)
LEMMA InitIInv == Init => IInv
<1> SUFFICES ASSUME Init PROVE IInv
    OBVIOUS
<1> USE NullAssumption DEF Init, Ids
<1>1. TypeOK
    BY DEF TypeOK, Words, PCs
<1>2. OwnerInv
    BY DEF OwnerInv, Holding, Waking
<1>3. QueueInv /\ NextInv /\ PrevInv /\ WalkInv
    BY DEF QueueInv, NextInv, PrevInv, WalkInv, Queued
<1>4. QED
    BY <1>1, <1>2, <1>3 DEF IInv

(* Type correctness of one step needs the invariant only for the walk:     *)
(* waiter_to_wake_up and the cursor's successor are waiters, not NULL.     *)
LEMMA TypeStep ==
    ASSUME TypeOK, OwnerInv, [Next]_vars
    PROVE  TypeOK'
<1> USE NullAssumption DEF TypeOK, Ids, Words, PCs
<1>1. CASE UNCHANGED vars
    BY <1>1 DEF vars
<1>2. ASSUME NEW t \in Threads, LockAsync(t)
      PROVE  TypeOK'
    BY <1>2 DEF LockAsync, Goto
<1>3. ASSUME NEW t \in Threads, LockSwap(t)
      PROVE  TypeOK'
    <2>1. LinkTo(old[t]) \in Ids
        BY <1>3 DEF LinkTo
    <2>2. LockedWord(val, t) \in Words
        BY <1>3 DEF LockedWord
    <2>3. Append(fifo, t) \in Seq(Threads)
        BY <1>3
    <2>4. val' \in Words /\ old' \in [Threads -> Words]
        BY <1>3, <2>2 DEF LockSwap
    <2>5. fifo' \in Seq(Threads)
        BY <1>3, <2>3 DEF LockSwap
    <2>6. next' \in [Threads -> Ids] /\ pc' \in [Threads -> PCs]
        BY <1>3, <2>1 DEF LockSwap, Goto
    <2>7. QED
        BY <1>3, <2>4, <2>5, <2>6 DEF LockSwap
<1>4. ASSUME NEW t \in Threads, CompleteWait(t)
      PROVE  TypeOK'
    BY <1>4 DEF CompleteWait, Goto
<1>5. ASSUME NEW t \in Threads, Trylock(t)
      PROVE  TypeOK'
    BY <1>5 DEF Trylock, Goto
<1>6. ASSUME NEW t \in Threads, TrylockSwap(t)
      PROVE  TypeOK'
    BY <1>6 DEF TrylockSwap, Goto
<1>7. ASSUME NEW t \in Threads, LockIfNotHeld(t)
      PROVE  TypeOK'
    BY <1>7 DEF LockIfNotHeld, Goto
<1>8. ASSUME NEW t \in Threads, UnlockIfHeld(t)
      PROVE  TypeOK'
    BY <1>8 DEF UnlockIfHeld, Goto
<1>9. ASSUME NEW t \in Threads, Unlock(t)
      PROVE  TypeOK'
    BY <1>9 DEF Unlock, Snapshot, Goto
<1>10. ASSUME NEW t \in Threads, Walk(t)
       PROVE  TypeOK'
    BY <1>10 DEF Walk, Goto
<1>11. ASSUME NEW t \in Threads, UnlockSwap(t)
       PROVE  TypeOK'
    <2>1. fifo' \in Seq(Threads)
        BY <1>11 DEF UnlockSwap
    <2>2. val' \in Words
        BY <1>11 DEF UnlockSwap, HandedOver
    <2>3. /\ old' \in [Threads -> Words]
          /\ cur' \in [Threads -> Ids]
          /\ pc' \in [Threads -> PCs]
        <3>1. CASE val = old[t]
            BY <1>11, <3>1 DEF UnlockSwap, Goto
        <3>2. CASE val # old[t]
            BY <1>11, <3>2 DEF UnlockSwap, Snapshot, Goto
        <3>3. QED
            BY <3>1, <3>2
    <2>4. /\ next' \in [Threads -> Ids]
          /\ prev' \in [Threads -> Ids]
          /\ signal_pending' \in [Threads -> BOOLEAN]
        BY <1>11 DEF UnlockSwap
    <2>5. QED
        BY <2>1, <2>2, <2>3, <2>4
<1>12. ASSUME NEW t \in Threads, RemoveFromIdList(t)
       PROVE  TypeOK'
    <2>1. cur[t] \in Threads
        BY <1>12 DEF RemoveFromIdList, OwnerInv, Waking
    <2>2. QED
        BY <1>12, <2>1 DEF RemoveFromIdList, Unlinked, Goto
<1>13. ASSUME NEW t \in Threads, Wakeup(t)
       PROVE  TypeOK'
    BY <1>13 DEF Wakeup, Goto
<1>14. QED
    BY <1>1, <1>2, <1>3, <1>4, <1>5, <1>6, <1>7, <1>8, <1>9, <1>10, <1>11,
       <1>12, <1>13, StepCases

-------------------------------------------------------------------------------
(* The rest of the invariant, action by action. *)

(* Reading the word and moving on: no shared state changes. *)
LEMMA LockAsyncStep ==
    ASSUME IInv, NEW t \in Threads, LockAsync(t)
    PROVE  OwnerInv' /\ QueueInv' /\ NextInv' /\ PrevInv' /\ WalkInv'
<1> USE NullAssumption DEF IInv, TypeOK, Ids, Words, LockAsync, Goto
<1>1. OwnerInv'
    BY DEF OwnerInv, Holding, Waking
<1>2. QueueInv'
    BY DEF QueueInv, Queued
<1>3. NextInv'
    BY DEF NextInv, Queued
<1>4. PrevInv'
    BY DEF PrevInv, Queued
<1>5. WalkInv'
    BY DEF WalkInv
<1>6. QED
    BY <1>1, <1>2, <1>3, <1>4, <1>5

(* The signalled waiter is the owner, and starts to hold the mutex. *)
LEMMA CompleteWaitStep ==
    ASSUME IInv, NEW t \in Threads, CompleteWait(t)
    PROVE  OwnerInv' /\ QueueInv' /\ NextInv' /\ PrevInv' /\ WalkInv'
<1> USE NullAssumption DEF IInv, TypeOK, Ids, Words, CompleteWait, Goto
<1>1. OwnerInv'
    BY DEF OwnerInv, Holding, Waking
<1>2. QueueInv'
    BY DEF QueueInv, Queued, OwnerInv
<1>3. NextInv'
    BY DEF NextInv, Queued
<1>4. PrevInv'
    BY DEF PrevInv, Queued
<1>5. WalkInv'
    BY DEF WalkInv
<1>6. QED
    BY <1>1, <1>2, <1>3, <1>4, <1>5

(* trylock has seen a free mutex; nothing shared changes. *)
LEMMA TrylockStep ==
    ASSUME IInv, NEW t \in Threads, Trylock(t)
    PROVE  OwnerInv' /\ QueueInv' /\ NextInv' /\ PrevInv' /\ WalkInv'
<1> USE NullAssumption DEF IInv, TypeOK, Ids, Words, Trylock, Goto
<1>1. OwnerInv'
    BY DEF OwnerInv, QueueInv, Holding, Waking
<1>2. QueueInv'
    BY DEF QueueInv, Queued
<1>3. NextInv'
    BY DEF NextInv, Queued
<1>4. PrevInv'
    BY DEF PrevInv, Queued
<1>5. WalkInv'
    BY DEF WalkInv
<1>6. QED
    BY <1>1, <1>2, <1>3, <1>4, <1>5

(* The cmpxchg of trylock succeeds only on a mutex nobody owns. *)
LEMMA TrylockSwapStep ==
    ASSUME IInv, NEW t \in Threads, TrylockSwap(t)
    PROVE  OwnerInv' /\ QueueInv' /\ NextInv' /\ PrevInv' /\ WalkInv'
<1> USE NullAssumption DEF IInv, TypeOK, Ids, Words, TrylockSwap, Goto
<1>1. OwnerInv'
    BY DEF OwnerInv, QueueInv, Holding, Waking
<1>2. QueueInv'
    BY DEF QueueInv, Queued, OwnerInv
<1>3. NextInv'
    BY DEF NextInv, Queued
<1>4. PrevInv'
    BY DEF PrevInv, Queued
<1>5. WalkInv'
    BY DEF WalkInv
<1>6. QED
    BY <1>1, <1>2, <1>3, <1>4, <1>5

(* lock_if_not_held only reads: the caller is the owner iff it holds. *)
LEMMA LockIfNotHeldStep ==
    ASSUME IInv, NEW t \in Threads, LockIfNotHeld(t)
    PROVE  OwnerInv' /\ QueueInv' /\ NextInv' /\ PrevInv' /\ WalkInv'
<1> USE NullAssumption DEF IInv, TypeOK, Ids, Words, LockIfNotHeld, Goto
<1>1. OwnerInv'
    BY DEF OwnerInv, Holding, Waking
<1>2. QueueInv'
    BY DEF QueueInv, Queued
<1>3. NextInv'
    BY DEF NextInv, Queued
<1>4. PrevInv'
    BY DEF PrevInv, Queued
<1>5. WalkInv'
    BY DEF WalkInv
<1>6. QED
    BY <1>1, <1>2, <1>3, <1>4, <1>5

(* unlock_if_held goes on to unlock only for the owner. *)
LEMMA UnlockIfHeldStep ==
    ASSUME IInv, NEW t \in Threads, UnlockIfHeld(t)
    PROVE  OwnerInv' /\ QueueInv' /\ NextInv' /\ PrevInv' /\ WalkInv'
<1> USE NullAssumption DEF IInv, TypeOK, Ids, Words, UnlockIfHeld, Goto
<1>1. OwnerInv'
    BY DEF OwnerInv, Holding, Waking
<1>2. QueueInv'
    BY DEF QueueInv, Queued
<1>3. NextInv'
    BY DEF NextInv, Queued
<1>4. PrevInv'
    BY DEF PrevInv, Queued
<1>5. WalkInv'
    BY DEF WalkInv
<1>6. QED
    BY <1>1, <1>2, <1>3, <1>4, <1>5

(* The walk starts at the newest waiter, the end of the queue. *)
LEMMA UnlockStep ==
    ASSUME IInv, NEW t \in Threads, Unlock(t)
    PROVE  OwnerInv' /\ QueueInv' /\ NextInv' /\ PrevInv' /\ WalkInv'
<1> USE NullAssumption DEF IInv, TypeOK, Ids, Words, Unlock, Snapshot, Goto
<1>1. OwnerInv'
    BY DEF OwnerInv, Holding, Waking
<1>2. QueueInv'
    BY DEF QueueInv, Queued
<1>3. NextInv'
    BY DEF NextInv, Queued
<1>4. PrevInv'
    BY DEF PrevInv, Queued
<1>5. WalkInv'
    BY DEF WalkInv, QueueInv, OwnerInv, Holding
<1>6. QED
    BY <1>1, <1>2, <1>3, <1>4, <1>5

(* One more link of the chain: the cursor moves from position j to j - 1. *)
LEMMA WalkStep ==
    ASSUME IInv, NEW t \in Threads, Walk(t)
    PROVE  OwnerInv' /\ QueueInv' /\ NextInv' /\ PrevInv' /\ WalkInv'
<1> USE NullAssumption DEF IInv, TypeOK, Ids, Words
<1>0. /\ pc[t] = "walk"
      /\ val.owner = t
      /\ \A u \in Threads : pc[u] \in {"walk", "unlock_swap"} => u = t
      /\ \A u \in Threads : pc[u] \notin Waking
    BY DEF Walk, OwnerInv, Holding, Waking
<1>1. CASE cur[t] # NULL /\ next[cur[t]] # NULL
    <2>0. PICK j, k \in 1..Len(fifo) :
                  /\ j <= k
                  /\ cur[t] = fifo[j]
                  /\ old[t].waitq = fifo[k]
                  /\ j < k => prev[fifo[j]] = fifo[j + 1]
        BY <1>0, <1>1 DEF WalkInv
    <2>1. next[fifo[1]] = NULL
        BY <1>0, <2>0 DEF NextInv, Waking
    <2>2. j > 1 /\ next[cur[t]] = fifo[j - 1] /\ fifo[j - 1] \in Threads
        BY <1>1, <2>0, <2>1 DEF NextInv
    <2>3. /\ prev' = [prev EXCEPT ![fifo[j - 1]] = fifo[j]]
          /\ cur' = [cur EXCEPT ![t] = fifo[j - 1]]
          /\ UNCHANGED <<pc, val, next, signal_pending, old, fifo>>
        BY <1>1, <2>0, <2>2 DEF Walk
    <2>4. OwnerInv'
        BY <1>0, <2>3 DEF OwnerInv, Waking
    <2>5. QueueInv'
        BY <2>3 DEF QueueInv, Queued
    <2>6. NextInv'
        BY <1>0, <2>3 DEF NextInv, Queued, Waking
    <2>7. PrevInv'
        <3>1. ASSUME NEW i \in 1..Len(fifo), prev'[fifo[i]] # NULL
              PROVE  i < Len(fifo) /\ prev'[fifo[i]] = fifo[i + 1]
            BY <2>0, <2>2, <2>3, <3>1 DEF PrevInv, QueueInv
        <3>2. Queued(fifo[j - 1])
            BY <2>0, <2>2 DEF Queued
        <3>3. ASSUME NEW x \in Threads, prev'[x] # NULL
              PROVE  Queued(x)
            BY <1>0, <2>2, <2>3, <3>2, <3>3 DEF PrevInv, Waking
        <3>4. QED
            BY <1>0, <2>3, <3>1, <3>3 DEF PrevInv, Queued, Waking
    <2>8. WalkInv'
        <3>1. /\ j - 1 \in 1..Len(fifo)
              /\ j - 1 <= k
              /\ cur'[t] = fifo[j - 1]
              /\ prev'[fifo[j - 1]] = fifo[(j - 1) + 1]
            BY <2>0, <2>2, <2>3
        <3>2. QED
            BY <1>0, <2>0, <2>3, <3>1 DEF WalkInv
    <2>9. QED
        BY <2>4, <2>5, <2>6, <2>7, <2>8
<1>2. CASE ~(cur[t] # NULL /\ next[cur[t]] # NULL)
    <2>1. /\ pc' = [pc EXCEPT ![t] = "unlock_swap"]
          /\ UNCHANGED <<val, next, prev, signal_pending, old, cur, fifo>>
        BY <1>2 DEF Walk, Goto
    <2>2. OwnerInv'
        BY <1>0, <2>1 DEF OwnerInv, Holding, Waking
    <2>3. QueueInv'
        BY <1>0, <2>1 DEF QueueInv, Queued
    <2>4. NextInv'
        BY <1>0, <2>1 DEF NextInv, Queued
    <2>5. PrevInv'
        BY <1>0, <2>1 DEF PrevInv, Queued
    <2>6. WalkInv'
        <3>1. ASSUME NEW j \in 1..Len(fifo), j > 1
              PROVE  next[fifo[j]] # NULL
            BY <3>1 DEF NextInv
        <3>2. QED
            BY <1>0, <1>2, <2>1, <3>1 DEF WalkInv
    <2>7. QED
        BY <2>2, <2>3, <2>4, <2>5, <2>6
<1>3. QED
    BY <1>1, <1>2

(* The new owner has its signal; the waker is done with it. *)
LEMMA WakeupStep ==
    ASSUME IInv, NEW t \in Threads, Wakeup(t)
    PROVE  OwnerInv' /\ QueueInv' /\ NextInv' /\ PrevInv' /\ WalkInv'
<1> USE NullAssumption DEF IInv, TypeOK, Ids, Words, Wakeup, Goto
<1>1. OwnerInv'
    BY DEF OwnerInv, Holding, Waking
<1>2. QueueInv'
    BY DEF QueueInv, Queued
<1>3. NextInv'
    BY DEF NextInv, Queued
<1>4. PrevInv'
    BY DEF PrevInv, Queued
<1>5. WalkInv'
    BY DEF WalkInv
<1>6. QED
    BY <1>1, <1>2, <1>3, <1>4, <1>5

(* The waker unlinks the new owner: the oldest waiter is again the end of  *)
(* the chain, and the new owner's pointers are NULL.                       *)
LEMMA RemoveStep ==
    ASSUME IInv, NEW t \in Threads, RemoveFromIdList(t)
    PROVE  OwnerInv' /\ QueueInv' /\ NextInv' /\ PrevInv' /\ WalkInv'
<1> USE NullAssumption DEF IInv, TypeOK, Ids, Words
<1>0. /\ pc[t] = "remove"
      /\ cur[t] \in Threads
      /\ val.owner = cur[t]
      /\ pc[cur[t]] = "wait"
      /\ ~Queued(cur[t])
      /\ \A u \in Threads : pc[u] \in Waking => u = t
      /\ \A u \in Threads : pc[u] \notin Holding
    BY DEF RemoveFromIdList, OwnerInv, QueueInv, Queued, Waking, Holding
<1>1. /\ next[cur[t]] = NULL
      /\ prev[cur[t]] # NULL => fifo # <<>> /\ prev[cur[t]] = fifo[1]
    BY <1>0 DEF NextInv, PrevInv
<1>2. /\ pc' = [pc EXCEPT ![t] = "wake"]
      /\ UNCHANGED <<val, signal_pending, old, cur, fifo>>
      /\ next' = [x \in Threads |-> IF x = cur[t] \/ x = prev[cur[t]]
                                    THEN NULL ELSE next[x]]
      /\ prev' = [x \in Threads |-> IF x = cur[t] THEN NULL ELSE prev[x]]
    BY <1>0, <1>1 DEF RemoveFromIdList, Goto, Unlinked
<1>3. OwnerInv'
    BY <1>0, <1>2 DEF OwnerInv, Holding, Waking
<1>4. QueueInv'
    BY <1>0, <1>2 DEF QueueInv, Queued
<1>5. NextInv'
    <2>1. ASSUME NEW i \in 1..Len(fifo), i > 1
          PROVE  next'[fifo[i]] = fifo[i - 1]
        BY <1>0, <1>1, <1>2, <2>1 DEF NextInv, QueueInv, Queued
    <2>2. fifo # <<>> => next'[fifo[1]] = NULL
        BY <1>0, <1>1, <1>2 DEF NextInv, Waking
    <2>3. QED
        BY <1>0, <1>2, <2>1, <2>2 DEF NextInv, Queued
<1>6. PrevInv'
    <2>1. ASSUME NEW i \in 1..Len(fifo), prev'[fifo[i]] # NULL
          PROVE  i < Len(fifo) /\ prev'[fifo[i]] = fifo[i + 1]
        BY <1>2, <2>1 DEF PrevInv
    <2>2. ASSUME NEW x \in Threads, prev'[x] # NULL
          PROVE  Queued(x)
        BY <1>0, <1>2, <2>2 DEF PrevInv, Waking
    <2>3. QED
        BY <1>0, <1>2, <2>1, <2>2 DEF PrevInv, Queued, Waking
<1>7. WalkInv'
    BY <1>0, <1>2 DEF WalkInv, Holding
<1>8. QED
    BY <1>3, <1>4, <1>5, <1>6, <1>7

(* What the swap of lock_async does, case by case. *)
LEMMA LockSwapCases ==
    ASSUME IInv, NEW t \in Threads, LockSwap(t)
    PROVE  \/ /\ val.owner = NULL /\ fifo = <<>>
              /\ val' = [owner |-> t, waitq |-> NULL]
              /\ next' = [next EXCEPT ![t] = NULL]
              /\ pc' = [pc EXCEPT ![t] = "held"]
              /\ UNCHANGED <<prev, signal_pending, old, cur, fifo>>
           \/ /\ val.owner \in Threads /\ val.owner # t
              /\ val' = [owner |-> val.owner, waitq |-> t]
              /\ next' = [next EXCEPT ![t] = val.waitq]
              /\ pc' = [pc EXCEPT ![t] = "wait"]
              /\ fifo' = Append(fifo, t)
              /\ UNCHANGED <<prev, signal_pending, old, cur>>
           \/ /\ old' = [old EXCEPT ![t] = val]
              /\ \E x \in Ids : next' = [next EXCEPT ![t] = x]
              /\ UNCHANGED <<val, prev, signal_pending, pc, cur, fifo>>
<1> USE NullAssumption DEF IInv, TypeOK, Ids, Words, LockSwap, LinkTo,
                           LockedWord, Goto
<1>1. CASE val = old[t] /\ val.owner = NULL
    BY <1>1 DEF QueueInv
<1>2. CASE val = old[t] /\ val.owner # NULL
    BY <1>2 DEF OwnerInv
<1>3. CASE val # old[t]
    BY <1>3
<1>4. QED
    BY <1>1, <1>2, <1>3

(* The swap of lock_async: a new owner, or a new end of the queue. *)
LEMMA LockSwapStep ==
    ASSUME IInv, NEW t \in Threads, LockSwap(t)
    PROVE  OwnerInv' /\ QueueInv' /\ NextInv' /\ PrevInv' /\ WalkInv'
<1> USE NullAssumption DEF IInv, TypeOK, Ids, Words
<1>0. pc[t] = "lock_swap" /\ ~Queued(t) /\ val.owner # t
    BY DEF LockSwap, QueueInv, OwnerInv, Queued, Holding
<1>1. CASE /\ val.owner = NULL /\ fifo = <<>>
           /\ val' = [owner |-> t, waitq |-> NULL]
           /\ next' = [next EXCEPT ![t] = NULL]
           /\ pc' = [pc EXCEPT ![t] = "held"]
           /\ UNCHANGED <<prev, signal_pending, old, cur, fifo>>
    <2>1. OwnerInv'
        BY <1>0, <1>1 DEF OwnerInv, Holding, Waking
    <2>2. QueueInv'
        BY <1>0, <1>1 DEF QueueInv, Queued
    <2>3. NextInv'
        BY <1>0, <1>1 DEF NextInv, Queued
    <2>4. PrevInv'
        BY <1>0, <1>1 DEF PrevInv, Queued
    <2>5. WalkInv'
        BY <1>0, <1>1 DEF WalkInv
    <2>6. QED
        BY <2>1, <2>2, <2>3, <2>4, <2>5
<1>2. CASE /\ val.owner \in Threads /\ val.owner # t
           /\ val' = [owner |-> val.owner, waitq |-> t]
           /\ next' = [next EXCEPT ![t] = val.waitq]
           /\ pc' = [pc EXCEPT ![t] = "wait"]
           /\ fifo' = Append(fifo, t)
           /\ UNCHANGED <<prev, signal_pending, old, cur>>
    <2>0. /\ Len(fifo') = Len(fifo) + 1
          /\ \A i \in 1..Len(fifo) : fifo'[i] = fifo[i] /\ fifo[i] # t
          /\ fifo'[Len(fifo) + 1] = t
          /\ fifo' # <<>>
          /\ Len(fifo) \in Nat
        BY <1>0, <1>2 DEF Queued
    <2>a. \A x \in Threads : Queued(x)' <=> Queued(x) \/ x = t
        <3>1. ASSUME NEW x \in Threads, Queued(x)
              PROVE  Queued(x)'
            <4>1. PICK i \in 1..Len(fifo) : fifo[i] = x
                BY <3>1 DEF Queued
            <4>2. i \in 1..Len(fifo') /\ fifo'[i] = x
                BY <2>0, <4>1
            <4>3. QED
                BY <4>2 DEF Queued
        <3>2. ASSUME NEW x \in Threads, Queued(x)', x # t
              PROVE  Queued(x)
            <4>1. PICK i \in 1..Len(fifo') : fifo'[i] = x
                BY <3>2 DEF Queued
            <4>2. i \in 1..Len(fifo) /\ fifo[i] = x
                BY <2>0, <3>2, <4>1
            <4>3. QED
                BY <4>2 DEF Queued
        <3>3. Queued(t)'
            <4>1. Len(fifo) + 1 \in 1..Len(fifo')
                BY <2>0
            <4>2. QED
                BY <2>0, <4>1 DEF Queued
        <3>4. QED
            BY <3>1, <3>2, <3>3
    <2>1. OwnerInv'
        BY <1>0, <1>2 DEF OwnerInv, Holding, Waking
    <2>2. QueueInv'
        <3>1. \A i, j \in 1..Len(fifo') : fifo'[i] = fifo'[j] => i = j
            BY <2>0 DEF QueueInv
        <3>2. \A i \in 1..Len(fifo') :
                  pc'[fifo'[i]] = "wait" /\ val'.owner # fifo'[i]
            BY <1>0, <1>2, <2>0 DEF QueueInv
        <3>3. \A x \in Threads : pc'[x] = "wait" => Queued(x)' \/ val'.owner = x
            BY <1>2, <2>a DEF QueueInv
        <3>4. QED
            BY <1>2, <2>0, <3>1, <3>2, <3>3 DEF QueueInv
    <2>3. NextInv'
        <3>1. ASSUME NEW i \in 1..Len(fifo'), i > 1
              PROVE  next'[fifo'[i]] = fifo'[i - 1]
            <4>1. CASE i = Len(fifo) + 1
                BY <1>2, <2>0, <3>1, <4>1 DEF QueueInv
            <4>2. CASE i # Len(fifo) + 1
                BY <1>2, <2>0, <3>1, <4>2 DEF NextInv
            <4>3. QED
                BY <4>1, <4>2
        <3>2. \/ next'[fifo'[1]] = NULL
              \/ \E u \in Threads : /\ pc'[u] = "remove"
                                    /\ prev'[cur'[u]] = fifo'[1]
                                    /\ next'[fifo'[1]] = cur'[u]
            <4>1. CASE fifo = <<>>
                BY <1>2, <2>0, <4>1 DEF QueueInv
            <4>2. CASE fifo # <<>>
                <5>1. fifo'[1] = fifo[1] /\ next'[fifo[1]] = next[fifo[1]]
                    BY <1>2, <2>0, <4>2
                <5>2. QED
                    BY <1>0, <1>2, <4>2, <5>1 DEF NextInv
            <4>3. QED
                BY <4>1, <4>2
        <3>3. \A x \in Threads :
                  next'[x] # NULL => Queued(x)' \/ pc'[x] = "lock_swap"
            BY <1>2, <2>a DEF NextInv
        <3>4. QED
            BY <3>1, <3>2, <3>3 DEF NextInv
    <2>4. PrevInv'
        <3>1. ASSUME NEW i \in 1..Len(fifo'), prev'[fifo'[i]] # NULL
              PROVE  i < Len(fifo') /\ prev'[fifo'[i]] = fifo'[i + 1]
            <4>1. i # Len(fifo) + 1
                <5>1. ASSUME prev[t] # NULL PROVE FALSE
                    BY <1>0, <5>1 DEF PrevInv, OwnerInv, Waking
                <5>2. QED
                    BY <1>2, <2>0, <3>1, <5>1
            <4>2. QED
                BY <1>2, <2>0, <3>1, <4>1 DEF PrevInv
        <3>2. ASSUME NEW u \in Threads, pc'[u] = "remove", prev'[cur'[u]] # NULL
              PROVE  fifo' # <<>> /\ prev'[cur'[u]] = fifo'[1]
            BY <1>2, <2>0, <3>2 DEF PrevInv
        <3>3. \A x \in Threads : prev'[x] # NULL =>
                  Queued(x)' \/ \E u \in Threads : pc'[u] = "remove" /\ cur'[u] = x
            BY <1>0, <1>2, <2>a DEF PrevInv
        <3>4. QED
            BY <3>1, <3>2, <3>3 DEF PrevInv
    <2>5. WalkInv'
        <3>1. SUFFICES ASSUME NEW u \in Threads,
                              pc'[u] \in {"walk", "unlock_swap"},
                              cur'[u] # NULL
                       PROVE  \E j, k \in 1..Len(fifo') :
                                  /\ j <= k
                                  /\ cur'[u] = fifo'[j]
                                  /\ old'[u].waitq = fifo'[k]
                                  /\ j < k => prev'[fifo'[j]] = fifo'[j + 1]
                                  /\ pc'[u] = "unlock_swap" => j = 1
            BY <1>2 DEF WalkInv
        <3>2. PICK j, k \in 1..Len(fifo) :
                  /\ j <= k
                  /\ cur[u] = fifo[j]
                  /\ old[u].waitq = fifo[k]
                  /\ j < k => prev[fifo[j]] = fifo[j + 1]
                  /\ pc[u] = "unlock_swap" => j = 1
            BY <1>2, <3>1 DEF WalkInv
        <3>3. j \in 1..Len(fifo') /\ k \in 1..Len(fifo')
            BY <2>0
        <3>4. j < k => fifo'[j + 1] = fifo[j + 1]
            BY <2>0, <3>2
        <3>5. QED
            BY <1>2, <2>0, <3>1, <3>2, <3>3, <3>4
    <2>6. QED
        BY <2>1, <2>2, <2>3, <2>4, <2>5
<1>3. CASE /\ old' = [old EXCEPT ![t] = val]
           /\ \E x \in Ids : next' = [next EXCEPT ![t] = x]
           /\ UNCHANGED <<val, prev, signal_pending, pc, cur, fifo>>
    <2>0. \A i \in 1..Len(fifo) : fifo[i] # t
        BY <1>0 DEF Queued
    <2>1. OwnerInv'
        BY <1>0, <1>3 DEF OwnerInv, Holding, Waking
    <2>2. QueueInv'
        BY <1>0, <1>3 DEF QueueInv, Queued
    <2>3. NextInv'
        BY <1>0, <1>3, <2>0 DEF NextInv, Queued
    <2>4. PrevInv'
        BY <1>0, <1>3 DEF PrevInv, Queued
    <2>5. WalkInv'
        BY <1>0, <1>3 DEF WalkInv
    <2>6. QED
        BY <2>1, <2>2, <2>3, <2>4, <2>5
<1>4. QED
    BY <1>1, <1>2, <1>3, LockSwapCases

(* What the swap of unlock does, case by case: nobody waits; the oldest    *)
(* waiter becomes the owner; somebody queued meanwhile.                    *)
LEMMA UnlockSwapCases ==
    ASSUME IInv, NEW t \in Threads, UnlockSwap(t)
    PROVE  \/ /\ fifo = <<>>
              /\ val' = [owner |-> NULL, waitq |-> NULL]
              /\ pc' = [pc EXCEPT ![t] = "idle"]
              /\ UNCHANGED <<next, prev, signal_pending, old, cur, fifo>>
           \/ /\ fifo # <<>>
              /\ cur[t] = fifo[1]
              /\ val' = [owner |-> fifo[1],
                         waitq |-> IF Len(fifo) = 1 THEN NULL ELSE val.waitq]
              /\ fifo' = Tail(fifo)
              /\ pc' = [pc EXCEPT ![t] = "remove"]
              /\ Len(fifo) = 1 => prev[fifo[1]] = NULL
              /\ Len(fifo) > 1 => prev[fifo[1]] = fifo[2]
              /\ UNCHANGED <<next, prev, signal_pending, old, cur>>
           \/ /\ old' = [old EXCEPT ![t] = val]
              /\ cur' = [cur EXCEPT ![t] = val.waitq]
              /\ pc' = [pc EXCEPT ![t] = "walk"]
              /\ UNCHANGED <<val, next, prev, signal_pending, fifo>>
<1> USE NullAssumption DEF IInv, TypeOK, Ids, Words
<1>0. pc[t] = "unlock_swap"
    BY DEF UnlockSwap
<1>1. CASE val = old[t] /\ cur[t] = NULL
    <2>1. old[t].waitq = NULL
        BY <1>0, <1>1 DEF WalkInv
    <2>2. fifo = <<>>
        BY <1>1, <2>1 DEF QueueInv
    <2>3. QED
        BY <1>1, <2>1, <2>2 DEF UnlockSwap, HandedOver, Goto
<1>2. CASE val = old[t] /\ cur[t] # NULL
    <2>1. PICK k \in 1..Len(fifo) :
              /\ cur[t] = fifo[1]
              /\ old[t].waitq = fifo[k]
              /\ 1 < k => prev[fifo[1]] = fifo[2]
        BY <1>0, <1>2 DEF WalkInv
    <2>2. fifo # <<>> /\ Len(fifo) \in Nat /\ Len(fifo) >= 1
        BY <2>1
    <2>3. k = Len(fifo) /\ val.waitq = fifo[Len(fifo)]
        BY <1>2, <2>1, <2>2 DEF QueueInv
    <2>4. Len(fifo) = 1 => prev[fifo[1]] = NULL
        BY <2>2 DEF PrevInv
    <2>5. val.waitq = fifo[1] <=> Len(fifo) = 1
        BY <2>2, <2>3 DEF QueueInv
    <2>6. QED
        BY <1>2, <2>1, <2>2, <2>3, <2>4, <2>5 DEF UnlockSwap, HandedOver, Goto
<1>3. CASE val # old[t]
    BY <1>3 DEF UnlockSwap, Snapshot, Goto
<1>4. QED
    BY <1>1, <1>2, <1>3

(* The swap of unlock: the head of the queue becomes the owner. *)
LEMMA UnlockSwapStep ==
    ASSUME IInv, NEW t \in Threads, UnlockSwap(t)
    PROVE  OwnerInv' /\ QueueInv' /\ NextInv' /\ PrevInv' /\ WalkInv'
<1> USE NullAssumption DEF IInv, TypeOK, Ids, Words
<1>0. /\ pc[t] = "unlock_swap"
      /\ val.owner = t
      /\ ~signal_pending[t]
      /\ \A u \in Threads : pc[u] \in Holding => u = t
      /\ \A u \in Threads : pc[u] \notin Waking
      /\ \A u \in Threads : ~signal_pending[u]
      /\ next[t] = NULL /\ prev[t] = NULL
    BY DEF UnlockSwap, OwnerInv, QueueInv, NextInv, PrevInv, Queued, Holding, Waking
<1>1. CASE /\ fifo = <<>>
           /\ val' = [owner |-> NULL, waitq |-> NULL]
           /\ pc' = [pc EXCEPT ![t] = "idle"]
           /\ UNCHANGED <<next, prev, signal_pending, old, cur, fifo>>
    <2>1. OwnerInv'
        BY <1>0, <1>1 DEF OwnerInv, Holding, Waking
    <2>2. QueueInv'
        BY <1>0, <1>1 DEF QueueInv, Queued
    <2>3. NextInv'
        BY <1>0, <1>1 DEF NextInv, Queued
    <2>4. PrevInv'
        BY <1>0, <1>1 DEF PrevInv, Queued
    <2>5. WalkInv'
        BY <1>0, <1>1 DEF WalkInv
    <2>6. QED
        BY <2>1, <2>2, <2>3, <2>4, <2>5
<1>2. CASE /\ fifo # <<>>
           /\ cur[t] = fifo[1]
           /\ val' = [owner |-> fifo[1],
                      waitq |-> IF Len(fifo) = 1 THEN NULL ELSE val.waitq]
           /\ fifo' = Tail(fifo)
           /\ pc' = [pc EXCEPT ![t] = "remove"]
           /\ Len(fifo) = 1 => prev[fifo[1]] = NULL
           /\ Len(fifo) > 1 => prev[fifo[1]] = fifo[2]
           /\ UNCHANGED <<next, prev, signal_pending, old, cur>>
    <2>0. /\ Len(fifo) \in Nat /\ Len(fifo) >= 1
          /\ fifo' \in Seq(Threads)
          /\ Len(fifo') = Len(fifo) - 1
          /\ \A i \in 1..Len(fifo') : fifo'[i] = fifo[i + 1] /\ i + 1 \in 1..Len(fifo)
          /\ fifo' = <<>> <=> Len(fifo) = 1
          /\ fifo[1] \in Threads
          /\ 1 \in 1..Len(fifo)
        <3>1. Len(fifo) \in Nat /\ Len(fifo) >= 1
            BY <1>2
        <3>2. fifo' \in Seq(Threads) /\ Len(fifo') = Len(fifo) - 1
            BY <1>2, <3>1
        <3>3. \A i \in 1..Len(fifo') :
                  fifo'[i] = fifo[i + 1] /\ i + 1 \in 1..Len(fifo)
            BY <1>2, <3>1, <3>2
        <3>4. fifo' = <<>> <=> Len(fifo) = 1
            <4>1. fifo' = <<>> <=> Len(fifo') = 0
                BY <3>2, EmptySeq
            <4>2. QED
                BY <3>1, <3>2, <4>1
        <3>5. QED
            BY <3>1, <3>2, <3>3, <3>4
    <2>a. pc[fifo[1]] = "wait" /\ fifo[1] # t
        BY <1>0, <2>0 DEF QueueInv
    <2>b. \A x \in Threads : Queued(x) => Queued(x)' \/ x = fifo[1]
        <3>1. ASSUME NEW i \in 1..Len(fifo), i # 1
              PROVE  i - 1 \in 1..Len(fifo') /\ fifo'[i - 1] = fifo[i]
            BY <2>0, <3>1
        <3>2. QED
            BY <3>1 DEF Queued
    <2>c. \A i \in 1..Len(fifo') : fifo'[i] # fifo[1]
        BY <2>0 DEF QueueInv
    <2>1. OwnerInv'
        BY <1>0, <1>2, <2>0, <2>a DEF OwnerInv, Holding, Waking
    <2>2. QueueInv'
        <3>1. \A i, j \in 1..Len(fifo') : fifo'[i] = fifo'[j] => i = j
            BY <2>0 DEF QueueInv
        <3>2. \A i \in 1..Len(fifo') :
                  pc'[fifo'[i]] = "wait" /\ val'.owner # fifo'[i]
            BY <1>0, <1>2, <2>0, <2>c DEF QueueInv
        <3>3. \A x \in Threads : pc'[x] = "wait" => Queued(x)' \/ val'.owner = x
            BY <1>0, <1>2, <2>b DEF QueueInv
        <3>4. val'.waitq = IF fifo' = <<>> THEN NULL ELSE fifo'[Len(fifo')]
            <4>1. CASE Len(fifo) = 1
                BY <1>2, <2>0, <4>1
            <4>2. CASE Len(fifo) # 1
                <5>1. /\ Len(fifo') \in 1..Len(fifo')
                      /\ fifo'[Len(fifo')] = fifo[Len(fifo)]
                    BY <2>0, <4>2
                <5>2. val'.waitq = fifo[Len(fifo)]
                    BY <1>2, <2>0, <4>2 DEF QueueInv
                <5>3. QED
                    BY <2>0, <4>2, <5>1, <5>2
            <4>3. QED
                BY <4>1, <4>2
        <3>5. val'.owner # NULL
            BY <1>2, <2>0
        <3>6. QED
            BY <3>1, <3>2, <3>3, <3>4, <3>5 DEF QueueInv
    <2>3. NextInv'
        <3>1. ASSUME NEW i \in 1..Len(fifo'), i > 1
              PROVE  next'[fifo'[i]] = fifo'[i - 1]
            BY <1>2, <2>0, <3>1 DEF NextInv
        <3>2. fifo' # <<>> => /\ pc'[t] = "remove"
                              /\ prev'[cur'[t]] = fifo'[1]
                              /\ next'[fifo'[1]] = cur'[t]
            <4>1. fifo' # <<>> => fifo'[1] = fifo[2] /\ next[fifo[2]] = fifo[1]
                BY <2>0 DEF NextInv
            <4>2. QED
                BY <1>0, <1>2, <2>0, <4>1
        <3>3. next[fifo[1]] = NULL
            BY <1>0, <2>0 DEF NextInv, Waking
        <3>4. \A x \in Threads :
                  next'[x] # NULL => Queued(x)' \/ pc'[x] = "lock_swap"
            BY <1>0, <1>2, <2>b, <3>3 DEF NextInv
        <3>5. QED
            BY <3>1, <3>2, <3>4 DEF NextInv
    <2>4. PrevInv'
        <3>1. ASSUME NEW i \in 1..Len(fifo'), prev'[fifo'[i]] # NULL
              PROVE  i < Len(fifo') /\ prev'[fifo'[i]] = fifo'[i + 1]
            BY <1>2, <2>0, <3>1 DEF PrevInv
        <3>2. ASSUME NEW u \in Threads, pc'[u] = "remove", prev'[cur'[u]] # NULL
              PROVE  fifo' # <<>> /\ prev'[cur'[u]] = fifo'[1]
            BY <1>0, <1>2, <2>0, <3>2 DEF Waking
        <3>3. \A x \in Threads : prev'[x] # NULL =>
                  Queued(x)' \/ \E u \in Threads : pc'[u] = "remove" /\ cur'[u] = x
            BY <1>0, <1>2, <2>b DEF PrevInv, Waking
        <3>4. QED
            BY <3>1, <3>2, <3>3 DEF PrevInv
    <2>5. WalkInv'
        BY <1>0, <1>2 DEF WalkInv, Holding
    <2>6. QED
        BY <2>1, <2>2, <2>3, <2>4, <2>5
<1>3. CASE /\ old' = [old EXCEPT ![t] = val]
           /\ cur' = [cur EXCEPT ![t] = val.waitq]
           /\ pc' = [pc EXCEPT ![t] = "walk"]
           /\ UNCHANGED <<val, next, prev, signal_pending, fifo>>
    <2>1. OwnerInv'
        BY <1>0, <1>3 DEF OwnerInv, Holding, Waking
    <2>2. QueueInv'
        BY <1>0, <1>3 DEF QueueInv, Queued
    <2>3. NextInv'
        BY <1>0, <1>3 DEF NextInv, Queued, Waking
    <2>4. PrevInv'
        BY <1>0, <1>3 DEF PrevInv, Queued, Waking
    <2>5. WalkInv'
        BY <1>0, <1>3 DEF WalkInv, QueueInv, Holding
    <2>6. QED
        BY <2>1, <2>2, <2>3, <2>4, <2>5
<1>4. QED
    BY <1>1, <1>2, <1>3, UnlockSwapCases

(* IInv is inductive. *)
LEMMA StepIInv == IInv /\ [Next]_vars => IInv'
<1> SUFFICES ASSUME IInv, [Next]_vars PROVE IInv'
    OBVIOUS
<1>1. TypeOK'
    BY TypeStep DEF IInv
<1>2. OwnerInv' /\ QueueInv' /\ NextInv' /\ PrevInv' /\ WalkInv'
    <2>1. CASE UNCHANGED vars
        BY <2>1 DEF IInv, vars, OwnerInv, QueueInv, NextInv, PrevInv, WalkInv,
                    Queued
    <2>2. CASE Next
        BY <2>2, StepCases, LockAsyncStep, LockSwapStep, CompleteWaitStep,
           TrylockStep, TrylockSwapStep, LockIfNotHeldStep, UnlockIfHeldStep,
           UnlockStep, WalkStep, UnlockSwapStep, RemoveStep, WakeupStep
    <2>3. QED
        BY <2>1, <2>2
<1>3. QED
    BY <1>1, <1>2 DEF IInv

(* The inductive invariant holds of every reachable state. *)
THEOREM Invariance == Spec => []IInv
BY InitIInv, StepIInv, PTL DEF Spec

(* Every variable keeps its type: in particular cur[t] is a waiter, never  *)
(* NULL, whenever unlock dereferences it.                                  *)
THEOREM TypeCorrect == Spec => []TypeOK
<1>1. IInv => TypeOK
    BY DEF IInv
<1>2. QED
    BY <1>1, Invariance, PTL

(* Mutual exclusion: a thread between lock and unlock is the one owner the *)
(* word names.                                                             *)
THEOREM MutexSafety == Spec => []MutualExclusion
<1>1. IInv => MutualExclusion
    BY DEF IInv, OwnerInv, MutualExclusion
<1>2. QED
    BY <1>1, Invariance, PTL

(* No lw_verify of the lock, unlock, signal and thread-exit paths fires. *)
THEOREM VerifySafety == Spec => []VerifiesHold
<1>1. IInv => VerifiesHold
    <2> SUFFICES ASSUME IInv, NEW t \in Threads
                 PROVE  /\ pc[t] = "lock_swap" => old[t].owner # t
                        /\ signal_pending[t] => pc[t] = "wait" /\ val.owner = t
                        /\ pc[t] = "wake" => ~signal_pending[cur[t]]
                        /\ pc[t] = "idle" => next[t] = NULL /\ prev[t] = NULL
        BY DEF VerifiesHold
    <2>1. /\ pc[t] = "lock_swap" => old[t].owner # t
          /\ signal_pending[t] => pc[t] = "wait" /\ val.owner = t
          /\ pc[t] = "wake" => ~signal_pending[cur[t]]
        BY DEF IInv, OwnerInv, Waking
    <2>2. pc[t] = "idle" => ~Queued(t)
        BY DEF IInv, QueueInv, Queued
    <2>3. pc[t] = "idle" => next[t] = NULL /\ prev[t] = NULL
        BY <2>2 DEF IInv, OwnerInv, NextInv, PrevInv, Waking
    <2>4. QED
        BY <2>1, <2>3
<1>2. QED
    BY <1>1, Invariance, PTL

(* Every step of the mutex is a step of the fair lock, or none. *)
LEMMA StepFairLock ==
    ASSUME IInv, [Next]_vars
    PROVE  [Fair!Next]_(Fair!lockVars)
<1> USE NullAssumption DEF Fair!lockVars
<1>1. CASE UNCHANGED vars
    BY <1>1 DEF vars
<1>2. ASSUME NEW t \in Threads, LockSwap(t)
      PROVE  Fair!Next \/ UNCHANGED Fair!lockVars
    <2>1. \A i \in 1..Len(fifo) : fifo[i] # t
        BY <1>2 DEF IInv, QueueInv, LockSwap
    <2>2. CASE val.owner = NULL /\ val'.owner = t /\ fifo' = fifo
        BY <2>2 DEF Fair!Next, Fair!Acquire
    <2>3. CASE /\ val.owner \in Threads /\ val.owner # t
               /\ val'.owner = val.owner /\ fifo' = Append(fifo, t)
        BY <2>1, <2>3 DEF Fair!Next, Fair!Enqueue
    <2>4. CASE UNCHANGED <<val, fifo>>
        BY <2>4
    <2>5. QED
        BY <1>2, <2>2, <2>3, <2>4, LockSwapCases
<1>3. ASSUME NEW t \in Threads, UnlockSwap(t)
      PROVE  Fair!Next \/ UNCHANGED Fair!lockVars
    <2>1. val.owner = t
        BY <1>3 DEF IInv, OwnerInv, Holding, UnlockSwap
    <2>2. CASE fifo = <<>> /\ val'.owner = NULL /\ fifo' = fifo
        BY <2>1, <2>2 DEF Fair!Next, Fair!Release
    <2>3. CASE fifo # <<>> /\ val'.owner = fifo[1] /\ fifo' = Tail(fifo)
        <3>1. Head(fifo) = fifo[1]
            BY <2>3 DEF IInv, TypeOK
        <3>2. QED
            BY <2>1, <2>3, <3>1 DEF Fair!Next, Fair!Release
    <2>4. CASE UNCHANGED <<val, fifo>>
        BY <2>4
    <2>5. QED
        BY <1>3, <2>2, <2>3, <2>4, UnlockSwapCases
<1>4. ASSUME NEW t \in Threads, TrylockSwap(t)
      PROVE  Fair!Next \/ UNCHANGED Fair!lockVars
    <2>1. CASE val = old[t]
        <3>1. val.owner = NULL
            BY <1>4, <2>1 DEF IInv, OwnerInv, TrylockSwap
        <3>2. QED
            BY <1>4, <2>1, <3>1 DEF TrylockSwap, Fair!Next, Fair!Acquire
    <2>2. CASE val # old[t]
        BY <1>4, <2>2 DEF TrylockSwap
    <2>3. QED
        BY <2>1, <2>2
<1>5. ASSUME NEW t \in Threads,
             \/ LockAsync(t) \/ CompleteWait(t) \/ Trylock(t)
             \/ LockIfNotHeld(t) \/ UnlockIfHeld(t) \/ Unlock(t)
             \/ Walk(t) \/ RemoveFromIdList(t) \/ Wakeup(t)
      PROVE  UNCHANGED <<val, fifo>>
    BY <1>5 DEF LockAsync, CompleteWait, Trylock, LockIfNotHeld, UnlockIfHeld,
                Unlock, Walk, RemoveFromIdList, Wakeup
<1>6. QED
    BY <1>1, <1>2, <1>3, <1>4, <1>5, StepCases

(* The mutex implements the fair hand-off lock: whatever its threads do,   *)
(* the pointer chain and the swaps of lw_mutex.c give the lock to the      *)
(* waiters one at a time and in the order in which they queued.            *)
THEOREM FairLockRefinement == Spec => ImplementsFairLock
<1>1. Init => Fair!Init
    BY DEF Init, Fair!Init
<1>2. IInv /\ [Next]_vars => [Fair!Next]_(Fair!lockVars)
    BY StepFairLock
<1>3. QED
    BY <1>1, <1>2, Invariance, PTL DEF Spec, ImplementsFairLock, Fair!Spec
===============================================================================
