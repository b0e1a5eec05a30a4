------------------------------- MODULE BitRwLock -------------------------------
(***************************************************************************)
(* Reader-writer bit locks (src/lw_bitlock.c): a writer bit w and a small  *)
(* reader count r of a word.  The count is used in four ways: r readers    *)
(* hold the lock; with w, r readers hold it and a writer waits, or a       *)
(* writer holds it and r # 0 says that somebody waits; and r = MaxReaders  *)
(* says that there may be more readers, each of which has an entry on the  *)
(* wait list although it does not wait (tag.have_lock).                    *)
(*                                                                         *)
(* One step is one atomic access to the word, or one to a waiter's tag     *)
(* outside of the lock of the wait list; the second access to the word in  *)
(* a section that holds that lock is a step of its own.  All the locks     *)
(* here are on one wait list.  A waiter is found by the bits of the word   *)
(* its lock consists of (Bits), not by the word.  Each thread has one      *)
(* waiter, a reader's on its stack.                                        *)
(*                                                                         *)
(* The clients run a program: a sequence of calls, each of which takes a   *)
(* lock and gives it up again, whenever it likes.                          *)
(*                                                                         *)
(* Two things can happen after which nothing is right any more; the        *)
(* history variable `mishap' says which of them have happened:             *)
(*  - "tag": a woken reader has written its tag back over a newer one;     *)
(*  - "word": an unlock has found a waiter of another lock that has the    *)
(*    same bits of another word.                                           *)
(***************************************************************************)
EXTENDS Naturals, Sequences, SequencesExt, FiniteSets

CONSTANTS Threads, NULL,
          Locks,       \* the locks on the wait list
          Bits,        \* start_bit and num_bits of each
          MaxReaders,  \* the largest reader count
          Programs     \* what the threads may do

OpNames == {"read", "tryread", "write", "trywrite"}

ASSUME BitRwAssumption ==
    /\ MaxReaders \in Nat /\ MaxReaders >= 3
    /\ DOMAIN Bits = Locks
    /\ \A p \in Programs : p \in [Threads -> Seq([op : OpNames, lock : Locks])]

VARIABLES
    prog,     \* the calls each thread still has to make or is in
    word,     \* [w, r] of each lock
    list,     \* wait_list: the threads whose waiters are on it
    mutex,    \* the writer side of the list's lock: who has it
    tag,      \* waiter->event.tag of each thread's waiter
    signal,   \* the event of each waiter
    local,    \* where each thread is, and its locals
    mishap    \* history: what has gone wrong

vars == <<prog, word, list, mutex, tag, signal, local, mishap>>

NoTag == [rdlock |-> FALSE, in_list |-> FALSE, have_lock |-> FALSE,
          need_to_wait |-> FALSE, waited_for_lock |-> FALSE]

Idle == [pc |-> "idle", old |-> NULL, tag |-> NoTag, wake |-> <<>>, more |-> <<>>,
         new |-> NULL]

(* lw_bitlock32_rwlock_init *)
Init ==
    /\ prog \in Programs
    /\ word = [l \in Locks |-> [w |-> FALSE, r |-> 0]]
    /\ list = <<>> /\ mutex = NULL
    /\ tag = [t \in Threads |-> NoTag]
    /\ signal = [t \in Threads |-> FALSE]
    /\ local = [t \in Threads |-> Idle]
    /\ mishap = {}

At(t, p) == local[t].pc = p
Goto(t, p) == local' = [local EXCEPT ![t].pc = p]

Calls(t, ops) == prog[t] # <<>> /\ Head(prog[t]).op \in ops
Lock(t) == Head(prog[t]).lock
Writer(t) == Calls(t, {"write", "trywrite"})
Reader(t) == Calls(t, {"read", "tryread"})
Try(t) == Calls(t, {"tryread", "trywrite"})

(* The call is over, with or without the lock. *)
Return(t) ==
    /\ local' = [local EXCEPT ![t] = Idle]
    /\ prog' = [prog EXCEPT ![t] = Tail(@)]

SetTag(t, g) == tag' = [tag EXCEPT ![t] = g]

Got(t, rd) ==
    /\ SetTag(t, [NoTag EXCEPT !.rdlock = rd, !.have_lock = TRUE])
    /\ Goto(t, "held")

-------------------------------------------------------------------------------
(* The lock of the list. *)

ListLock(t) ==
    /\ At(t, "list") /\ mutex = NULL
    /\ mutex' = t
    /\ Goto(t, "section")
    /\ UNCHANGED <<prog, word, list, tag, signal, mishap>>

(* The waiter of t joins the list; it has the lock already or waits. *)
Enqueue(t, rd, have) ==
    /\ list' = Append(list, t)
    /\ SetTag(t, [NoTag EXCEPT !.rdlock = rd, !.in_list = TRUE, !.have_lock = have,
                               !.need_to_wait = ~have])
    /\ Goto(t, IF have THEN "held" ELSE "wait")

-------------------------------------------------------------------------------
(* lw_bitlock32_readlock_async *)

(* set_rdlock can count one more reader. *)
Countable(l) == ~word[l].w /\ word[l].r < MaxReaders

CountReader(l) == word' = [word EXCEPT ![l].r = @ + 1]

ReadLock(t) ==
    LET l == Lock(t) IN
    /\ At(t, "idle") /\ Reader(t)
    /\ IF Countable(l)
       THEN CountReader(l) /\ Got(t, TRUE) /\ UNCHANGED prog
       ELSE IF Try(t) /\ word[l].w
       THEN Return(t) /\ UNCHANGED <<word, tag>>
       ELSE Goto(t, "list") /\ UNCHANGED <<prog, word, tag>>
    /\ UNCHANGED <<list, mutex, signal, mishap>>

(* With the lock of the list: count, or join the list.  Who waits for a    *)
(* writer makes sure that r says so; who comes when the count is saturated *)
(* has the lock.                                                           *)
ReadLockSection(t) ==
    LET l == Lock(t) IN
    /\ At(t, "section") /\ Reader(t) /\ ~tag[t].have_lock
    /\ mutex' = NULL
    /\ IF Countable(l)
       THEN CountReader(l) /\ Got(t, TRUE) /\ UNCHANGED <<prog, list>>
       ELSE IF Try(t) /\ word[l].w
       THEN Return(t) /\ UNCHANGED <<word, tag, list>>
       ELSE /\ word' = [word EXCEPT ![l].r = IF word[l].w /\ @ = 0 THEN 1 ELSE @]
            /\ Enqueue(t, TRUE, ~word[l].w)
            /\ UNCHANGED prog
    /\ UNCHANGED <<signal, mishap>>

(* lw_bitlock_rw_complete_wait: the waiter is signalled and its tag read, *)
CompleteWait(t) ==
    /\ At(t, "wait") /\ signal[t]
    /\ signal' = [signal EXCEPT ![t] = FALSE]
    /\ local' = [local EXCEPT ![t].pc = "woken", ![t].tag = tag[t]]
    /\ UNCHANGED <<prog, word, list, mutex, tag, mishap>>

(* and written back with waited_for_lock, without any lock. *)
CompleteWaitTag(t) ==
    /\ At(t, "woken")
    /\ SetTag(t, [local[t].tag EXCEPT !.waited_for_lock = TRUE])
    /\ Goto(t, "held")
    /\ mishap' = IF tag[t] = local[t].tag THEN mishap ELSE mishap \cup {"tag"}
    /\ UNCHANGED <<prog, word, list, mutex, signal>>

-------------------------------------------------------------------------------
(* The waiters of lock l, as find_next_matching_waiter finds them. *)
Matching(l) ==
    SelectSeq(list, LAMBDA x : Bits[Lock(x)] = Bits[l])

(* It finds waiters of another lock. *)
FindsStrangers(l) == \E x \in ToSet(Matching(l)) : Lock(x) # l

(* clear_rdlock has to leave it to the caller. *)
Contended(s) == s.r = MaxReaders \/ (s.w /\ s.r = 1)

Uncount(l) == word' = [word EXCEPT ![l].r = @ - 1]

(* The thread's use of the lock is over, and so is its waiter. *)
Release(t) == Return(t) /\ SetTag(t, NoTag)

(* lw_bitlock32_readunlock *)
ReadUnlock(t) ==
    /\ At(t, "held") /\ Reader(t)
    /\ IF Contended(word[Lock(t)])
       THEN Goto(t, "list") /\ UNCHANGED <<prog, word, tag>>
       ELSE Uncount(Lock(t)) /\ Release(t)
    /\ UNCHANGED <<list, mutex, signal, mishap>>

(* Once more with the lock of the list, ... *)
ReadUnlockSection(t) ==
    /\ At(t, "section") /\ Reader(t) /\ tag[t].have_lock
    /\ IF Contended(word[Lock(t)])
       THEN /\ local' = [local EXCEPT ![t].pc = "readout", ![t].old = word[Lock(t)]]
            /\ UNCHANGED <<prog, word, tag, mutex>>
       ELSE Uncount(Lock(t)) /\ Release(t) /\ mutex' = NULL
    /\ mishap' = IF Contended(word[Lock(t)]) /\ ~tag[t].in_list /\ FindsStrangers(Lock(t))
                 THEN mishap \cup {"word"} ELSE mishap
    /\ UNCHANGED <<list, signal>>

(* The end of a section in which waiter x has left the list. *)
Unlist(x) ==
    /\ list' = Remove(list, x)
    /\ tag' = [tag EXCEPT ![x].in_list = FALSE]

(* ... and then one that stays contended.  A reader whose waiter is on the *)
(* list was never counted.                                                 *)
ReadUnlockUncounted(t) ==
    /\ At(t, "readout") /\ tag[t].in_list
    /\ list' = Remove(list, t)
    /\ Release(t)
    /\ mutex' = NULL
    /\ UNCHANGED <<word, signal, mishap>>

(* Nobody is on the list: the count leaves its limit. *)
ReadUnlockAlone(t) ==
    /\ At(t, "readout") /\ ~tag[t].in_list /\ Matching(Lock(t)) = <<>>
    /\ Uncount(Lock(t))
    /\ Release(t)
    /\ mutex' = NULL
    /\ UNCHANGED <<list, signal, mishap>>

(* Mutant of ReadUnlockSwap: the tag is not told. *)
ReadUnlockSwapUntold(t) ==
    LET m == Matching(Lock(t)) IN
    /\ At(t, "readout") /\ ~tag[t].in_list /\ m # <<>>
    /\ tag[m[1]].have_lock
    /\ list' = Remove(list, m[1])
    /\ Release(t)
    /\ mutex' = NULL
    /\ UNCHANGED <<word, signal, mishap>>

(* An uncounted reader takes the place of this one. *)
ReadUnlockSwap(t) ==
    LET m == Matching(Lock(t)) IN
    /\ At(t, "readout") /\ ~tag[t].in_list /\ m # <<>>
    /\ tag[m[1]].have_lock
    /\ list' = Remove(list, m[1])
    /\ tag' = [tag EXCEPT ![m[1]].in_list = FALSE, ![t] = NoTag]
    /\ Return(t)
    /\ mutex' = NULL
    /\ UNCHANGED <<word, signal, mishap>>

(* A writer is first.  The last reader takes it off the list, and leaves   *)
(* the count at 1 if there are others behind it.                           *)
ReadUnlockToWriter(t) ==
    LET l == Lock(t)
        m == Matching(l)
        last == local[t].old.r = 1
    IN  /\ At(t, "readout") /\ ~tag[t].in_list /\ m # <<>>
        /\ ~tag[m[1]].have_lock
        /\ IF Len(m) = 1 \/ ~last THEN Uncount(l) ELSE UNCHANGED word
        /\ IF last
           THEN /\ Unlist(m[1])
                /\ local' = [local EXCEPT ![t].pc = "wake", ![t].wake = <<m[1]>>]
                /\ UNCHANGED prog
           ELSE Release(t) /\ UNCHANGED list
        /\ mutex' = NULL
        /\ UNCHANGED <<signal, mishap>>

(* The waiters a thread has chosen get the lock and are woken, one by one. *)
Wake(t) ==
    LET x == Head(local[t].wake)
        given == [tag EXCEPT ![x].in_list = FALSE, ![x].have_lock = TRUE]
    IN  /\ At(t, "wake")
        /\ signal' = [signal EXCEPT ![x] = TRUE]
        /\ IF Len(local[t].wake) = 1
           THEN Return(t) /\ tag' = [given EXCEPT ![t] = NoTag]
           ELSE /\ local' = [local EXCEPT ![t].wake = Tail(@)]
                /\ tag' = given /\ UNCHANGED prog
        /\ UNCHANGED <<word, list, mutex, mishap>>

-------------------------------------------------------------------------------
(* lw_bitlock32_writelock_async *)

Untaken(l) == ~word[l].w /\ word[l].r = 0

TakeWrite(t, l) == word' = [word EXCEPT ![l].w = TRUE] /\ Got(t, FALSE)

WriteLock(t) ==
    LET l == Lock(t) IN
    /\ At(t, "idle") /\ Writer(t)
    /\ IF Untaken(l)
       THEN TakeWrite(t, l) /\ UNCHANGED prog
       ELSE IF Try(t)
       THEN Return(t) /\ UNCHANGED <<word, tag>>
       ELSE Goto(t, "list") /\ UNCHANGED <<prog, word, tag>>
    /\ UNCHANGED <<list, mutex, signal, mishap>>

(* Mutant of WriteLockSection: a writer behind a writer says nothing. *)
WriteLockSectionSilent(t) ==
    LET l == Lock(t) IN
    /\ At(t, "section") /\ Writer(t) /\ ~tag[t].have_lock
    /\ mutex' = NULL
    /\ IF Untaken(l)
       THEN TakeWrite(t, l) /\ UNCHANGED list
       ELSE word' = [word EXCEPT ![l].w = TRUE] /\ Enqueue(t, FALSE, FALSE)
    /\ UNCHANGED <<prog, signal, mishap>>

(* Behind readers a writer sets w, behind a writer it makes r say so. *)
WriteLockSection(t) ==
    LET l == Lock(t) IN
    /\ At(t, "section") /\ Writer(t) /\ ~tag[t].have_lock
    /\ mutex' = NULL
    /\ IF Untaken(l)
       THEN TakeWrite(t, l) /\ UNCHANGED list
       ELSE /\ word' = [word EXCEPT ![l] =
                           IF ~@.w THEN [@ EXCEPT !.w = TRUE]
                           ELSE [@ EXCEPT !.r = IF @ = 0 THEN 1 ELSE @]]
            /\ Enqueue(t, FALSE, FALSE)
    /\ UNCHANGED <<prog, signal, mishap>>

(* lw_bitlock32_writeunlock *)
WriteUnlock(t) ==
    /\ At(t, "held") /\ Writer(t)
    /\ IF word[Lock(t)].r = 0
       THEN word' = [word EXCEPT ![Lock(t)].w = FALSE] /\ Release(t)
       ELSE /\ local' = [local EXCEPT ![t].pc = "list", ![t].old = word[Lock(t)]]
            /\ UNCHANGED <<prog, word, tag>>
    /\ UNCHANGED <<list, mutex, signal, mishap>>

(* The readers m starts with. *)
Readers(m) ==
    SubSeq(m, 1, Cardinality({i \in 1..Len(m) : \A k \in 1..i : tag[m[k]].rdlock}))

(* find_eligible_waiters: the first writer, or the readers before it, as   *)
(* many as can be counted.                                                 *)
Eligible(m) ==
    IF Readers(m) = <<>> THEN <<m[1]>>
    ELSE SubSeq(Readers(m), 1, IF Len(Readers(m)) < MaxReaders THEN Len(Readers(m))
                               ELSE MaxReaders)

(* Mutant of NewWord: whoever stays on the list is taken to wait. *)
NewWordFromList(m) ==
    IF Readers(m) = <<>>
    THEN [w |-> TRUE, r |-> IF Len(m) > 1 THEN 1 ELSE 0]
    ELSE [w |-> Len(m) > Len(Eligible(m)), r |-> Len(Eligible(m))]

(* The word that says so.  Readers who cannot be counted do not wait, so   *)
(* that w is for a writer behind them.                                     *)
NewWord(m) ==
    IF Readers(m) = <<>>
    THEN [w |-> TRUE, r |-> IF Len(m) > 1 THEN 1 ELSE 0]
    ELSE [w |-> Len(m) > Len(Readers(m)), r |-> Len(Eligible(m))]

WriteUnlockSection(t) ==
    LET m == Matching(Lock(t)) IN
    /\ At(t, "section") /\ Writer(t) /\ tag[t].have_lock
    /\ list' = SelectSeq(list, LAMBDA x : x \notin ToSet(Eligible(m)))
    /\ local' = [local EXCEPT ![t].pc = "store", ![t].wake = Eligible(m),
                    ![t].new = NewWord(m),
                    ![t].more = SubSeq(Readers(m), MaxReaders + 1, Len(Readers(m)))]
    /\ mishap' = IF FindsStrangers(Lock(t)) THEN mishap \cup {"word"} ELSE mishap
    /\ UNCHANGED <<prog, word, mutex, tag, signal>>

(* wake_eligible_readers: readers beyond the count are woken but stay on   *)
(* the list.                                                               *)
WakeUncounted(t) ==
    LET x == Head(local[t].more) IN
    /\ At(t, "store") /\ local[t].more # <<>>
    /\ tag' = [tag EXCEPT ![x].have_lock = TRUE]
    /\ signal' = [signal EXCEPT ![x] = TRUE]
    /\ local' = [local EXCEPT ![t].more = Tail(@)]
    /\ UNCHANGED <<prog, word, list, mutex, mishap>>

WriteUnlockStore(t) ==
    /\ At(t, "store") /\ local[t].more = <<>>
    /\ word' = [word EXCEPT ![Lock(t)] = local[t].new]
    /\ mutex' = NULL
    /\ Goto(t, "wake")
    /\ UNCHANGED <<prog, list, tag, signal, mishap>>

-------------------------------------------------------------------------------
Step(t) ==
    \/ ListLock(t) \/ ReadLock(t) \/ ReadLockSection(t) \/ CompleteWait(t)
    \/ CompleteWaitTag(t) \/ ReadUnlock(t) \/ ReadUnlockSection(t)
    \/ ReadUnlockUncounted(t) \/ ReadUnlockAlone(t) \/ ReadUnlockSwap(t)
    \/ ReadUnlockToWriter(t) \/ Wake(t) \/ WriteLock(t) \/ WriteLockSection(t)
    \/ WriteUnlock(t) \/ WriteUnlockSection(t) \/ WakeUncounted(t)
    \/ WriteUnlockStore(t)

Finished == \A t \in Threads : prog[t] = <<>>

Next == (\E t \in Threads : Step(t)) \/ (Finished /\ UNCHANGED vars)

(* Threads are scheduled, and hold the lock for a finite time. *)
Spec == Init /\ [][Next]_vars /\ WF_vars(\E t \in Threads : Step(t))

-------------------------------------------------------------------------------
(* Thread t has been given lock l, whether it knows it or not. *)
Given(t) == \/ tag[t].have_lock
            \/ \E u \in Threads : t \in ToSet(local[u].wake) \cup ToSet(local[u].more)

(* ... and has not given it up. *)
Owns(t, l) ==
    /\ prog[t] # <<>> /\ Lock(t) = l /\ Given(t)
    /\ ~At(t, "wake") /\ ~(At(t, "store"))

ReadOwners(l) == {t \in Threads : Owns(t, l) /\ Reader(t)}
WriteOwners(l) == {t \in Threads : Owns(t, l) /\ Writer(t)}

OnList(l) == {t \in ToSet(list) : Lock(t) = l}
Waiting(l) == {t \in OnList(l) : ~Given(t)}

(* No mishap has happened: what a woken reader wrote to its tag was what   *)
(* it had read, and an unlock found waiters of its own lock only.          *)
Unharmed == mishap = {}

(* A writer has the lock to itself, and the word says all there is to say  *)
(* about the owners of the lock and those who wait for it, except while an *)
(* unlock has still to store it: whoever comes and leaves when, until a    *)
(* tag is overwritten or a waiter is taken for one of another word.        *)
WordExact ==
    Unharmed => \A l \in Locks :
        LET s == word[l]
            n == Cardinality(ReadOwners(l))
        IN  /\ WriteOwners(l) # {} => n = 0 /\ Cardinality(WriteOwners(l)) = 1
            /\ \/ \E t \in Threads : At(t, "store") /\ Lock(t) = l
               \/ /\ WriteOwners(l) # {}
                  /\ s.w /\ s.r = IF Waiting(l) = {} THEN 0 ELSE 1
               \/ /\ WriteOwners(l) = {}
                  /\ s.r = IF n > MaxReaders THEN MaxReaders ELSE n
                  /\ s.w <=> Waiting(l) # {}
                  /\ Cardinality(OnList(l) \ Waiting(l)) = n - s.r

(* What the code asserts: the tag of a waiter says whether it is on the    *)
(* list, a contended word is not changed by others while the list is       *)
(* locked, a contended unlock finds a waiter, and a last reader finds a    *)
(* writer.  Only the two mishaps make an assertion fail.                   *)
AssertionsHold ==
    Unharmed => \A t \in Threads :
        LET m == Matching(Lock(t)) IN
        prog[t] # <<>> =>
        /\ At(t, "held") /\ tag[t].in_list => t \in ToSet(list)
        /\ t \in ToSet(list) => tag[t].in_list
        /\ At(t, "readout") => word[Lock(t)] = local[t].old
        /\ At(t, "store") => word[Lock(t)] = local[t].old /\ local[t].wake # <<>>
        /\ At(t, "readout") /\ tag[t].in_list => local[t].old.r = MaxReaders
        /\ At(t, "readout") /\ ~tag[t].in_list /\ m # <<>> =>
              IF tag[m[1]].have_lock THEN local[t].old.r = MaxReaders
                                     ELSE ~tag[m[1]].rdlock

(* No wakeup is lost: every call of every thread returns, unless there is  *)
(* a mishap.                                                               *)
CallsReturn == <>(Finished \/ ~Unharmed)
===============================================================================
