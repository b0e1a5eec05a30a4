-------------------------------- MODULE BitLock --------------------------------
(***************************************************************************)
(* Bit locks (src/lw_bitlock.c): a lock bit, a wait bit and, for condition *)
(* waits, a cv bit of a word that also has a payload.  The waiters of all  *)
(* the words are kept in a small array of lists, found by the hash of the  *)
(* word's address, each under a fair reader-writer lock of its own.  The   *)
(* 32-bit and the 64-bit functions are the same code.                      *)
(*                                                                         *)
(* One step is one atomic access to a word.  swap_with_mask retries when   *)
(* only the retained bits changed, so it is one step.  What is done under  *)
(* the lock of a list is one step with its access to the word: the list is *)
(* read and written there only.  The lock of a list (only its write side   *)
(* is used) is the fair lock RwLock implements: `mutexq' has its owner and *)
(* then those who wait for it.  They wait on the event of the thread's     *)
(* waiter, the same that the bit lock uses; hence the temporary waiter of  *)
(* an unlock whose caller is still queued for another word.                *)
(*                                                                         *)
(* The clients follow the rules of the code's one user, lw_monitor.c:      *)
(*  - words are locked in increasing order;                                *)
(*  - between lock_async and complete_wait other words may be unlocked;    *)
(*  - a word is rekeyed by a thread that has first made it unreachable for *)
(*    others and then locked it like everybody else.                       *)
(***************************************************************************)
EXTENDS Naturals, Sequences, SequencesExt, FiniteSets, Filters

CONSTANTS Threads, NULL,
          Locks,     \* the words, in locking order
          Hash,      \* the wait list of each word
          Payloads,  \* what the rest of each word may hold
          Ops        \* the operations each thread uses

OpNames == {"lock", "trylock", "payload", "grab", "cvwait", "signal",
            "broadcast", "rekey"}

(* The temporary waiter of a thread. *)
Temp(t) == <<t>>

ASSUME NullAssumption ==
    /\ NULL \notin Threads /\ NULL \notin Locks
    /\ NULL \notin OpNames \cup {"unlock", "append"}
    /\ \A t \in Threads : Temp(t) \notin Threads
ASSUME ParametersAssumption ==
    /\ Locks \subseteq Nat
    /\ DOMAIN Hash = Locks /\ DOMAIN Payloads = Locks
    /\ \A l \in Locks : Payloads[l] # {}
    /\ Ops \in [Threads -> SUBSET OpNames]

Lists == {Hash[l] : l \in Locks}

Waiters == Threads \cup {Temp(t) : t \in Threads}

VARIABLES
    word,           \* [lock, wait, cv, pay] of each word
    list,           \* wait_lists: the threads on each list
    mutexq,         \* the lock of each list: owner and queue
    wait_src, tag,  \* lw_waiter_t.event of each thread's waiter
    signal_pending, \* the events of the waiters, temporary ones included
    local,          \* where each thread is, and its locals
    awaits,         \* the word of a lock_async whose complete_wait is to come
    expect,         \* the payload a thread asked for, while it waits or holds
    held,           \* the words each thread believes to hold
    retired,        \* who has made a word unreachable, to rekey it
    owner           \* history: to whom each word was given

waiter == <<wait_src, tag>>
client == <<awaits, expect, held, retired>>
vars == <<word, list, mutexq, waiter, signal_pending, local, client, owner>>

(* A thread outside of all calls. *)
Idle == [pc |-> "run", then |-> "run", op |-> NULL, lock |-> NULL,
         newlock |-> NULL, to_wake_up |-> NULL, moving |-> <<>>, bits |-> <<>>]

Init ==
    /\ word = [l \in Locks |-> [lock |-> FALSE, wait |-> FALSE, cv |-> FALSE,
                                pay |-> CHOOSE p \in Payloads[l] : TRUE]]
    /\ list = [i \in Lists |-> <<>>]
    /\ mutexq = [i \in Lists |-> <<>>]
    /\ wait_src = [t \in Threads |-> NULL]
    /\ tag = [t \in Threads |-> "wait"]
    /\ signal_pending = [w \in Waiters |-> FALSE]
    /\ local = [t \in Threads |-> Idle]
    /\ awaits = [t \in Threads |-> NULL]
    /\ expect = [t \in Threads |-> NULL]
    /\ held = [t \in Threads |-> {}]
    /\ retired = [l \in Locks |-> NULL]
    /\ owner = [l \in Locks |-> NULL]

At(t, p) == local[t].pc = p
Goto(t, p) == local' = [local EXCEPT ![t].pc = p]
Return(t) == local' = [local EXCEPT ![t] = Idle]

(* Operation op on word l goes on under the lock of the list. *)
Begin(t, p, op, l) ==
    local' = [local EXCEPT ![t] = [Idle EXCEPT !.pc = p, !.op = op, !.lock = l]]

(* A thread that is in no call, and in no lock_async either. *)
Free(t) == At(t, "run") /\ awaits[t] = NULL

-------------------------------------------------------------------------------
(* The lock of a list. *)

(* The list of the operation a thread is in. *)
WaitList(t) ==
    Hash[IF local[t].op = "append" THEN local[t].newlock ELSE local[t].lock]

(* The waiter lw_waiter_get finds: a temporary one in an unlock whose      *)
(* caller is queued for another word.                                      *)
CurrentWaiter(t) ==
    IF local[t].op = "unlock" /\ wait_src[t] # NULL THEN Temp(t) ELSE t

(* lw_dl_lock_writer *)
LockList(t) ==
    /\ At(t, "list")
    /\ mutexq' = [mutexq EXCEPT ![WaitList(t)] = Append(@, CurrentWaiter(t))]
    /\ Goto(t, IF mutexq[WaitList(t)] = <<>> THEN "section" ELSE "listwait")
    /\ UNCHANGED <<word, list, waiter, signal_pending, client, owner>>

LockListWait(t) ==
    /\ At(t, "listwait") /\ signal_pending[CurrentWaiter(t)]
    /\ signal_pending' = [signal_pending EXCEPT ![CurrentWaiter(t)] = FALSE]
    /\ Goto(t, "section")
    /\ UNCHANGED <<word, list, mutexq, waiter, client, owner>>

(* lw_dl_unlock_writer, after which the thread goes on at p; lc has the    *)
(* other locals it leaves the section with.                                *)
UnlockList(t, p, lc) ==
    /\ mutexq' = [mutexq EXCEPT ![WaitList(t)] = Tail(@)]
    /\ local' = [local EXCEPT ![t] =
          IF Len(mutexq[WaitList(t)]) > 1
          THEN [lc EXCEPT !.pc = "listwake", !.then = p]
          ELSE IF p = "run" THEN Idle ELSE [lc EXCEPT !.pc = p]]

(* The next owner of the list's lock is signalled. *)
UnlockListWake(t) ==
    /\ At(t, "listwake")
    /\ signal_pending' = [signal_pending EXCEPT ![Head(mutexq[WaitList(t)])] = TRUE]
    /\ IF local[t].then = "run" THEN Return(t) ELSE Goto(t, local[t].then)
    /\ UNCHANGED <<word, list, mutexq, waiter, client, owner>>

InSection(t, op) == At(t, "section") /\ local[t].op = op

-------------------------------------------------------------------------------
(* Taking a word. *)

Retiring(t) == \E l \in Locks : retired[l] = t

MayLock(t, l) ==
    /\ Free(t) /\ ~Retiring(t)
    /\ retired[l] = NULL
    /\ \A h \in held[t] : h < l

(* The swap of set_lock_bit that finds neither bit set. *)
Obtain(t, l) ==
    /\ word' = [word EXCEPT ![l].lock = TRUE]
    /\ held' = [held EXCEPT ![t] = @ \cup {l}]
    /\ owner' = [owner EXCEPT ![l] = t]

(* Neither bit is set. *)
Available(l) == ~word[l].lock /\ ~word[l].wait

(* lw_bitlock_lock_async up to the lock of the list. *)
LockAsync(t, l) ==
    \/ Available(l) /\ Obtain(t, l) /\ UNCHANGED local
    \/ ~Available(l) /\ Begin(t, "list", "lock", l) /\ UNCHANGED <<word, held, owner>>

Lock(t, l) ==
    /\ "lock" \in Ops[t] /\ MayLock(t, l)
    /\ LockAsync(t, l)
    /\ UNCHANGED <<list, mutexq, waiter, signal_pending, awaits, expect, retired>>

(* lw_bitlock_trylock; a failure changes nothing. *)
Trylock(t, l) ==
    /\ "trylock" \in Ops[t] /\ MayLock(t, l) /\ Available(l)
    /\ Obtain(t, l)
    /\ UNCHANGED <<list, mutexq, waiter, signal_pending, local, awaits, expect,
                   retired>>

(* lw_bitlock_trylock_cmpxchng_payload with the current payload expected   *)
(* and p the new one; a failure changes nothing.                           *)
Grab(t, l, p) ==
    /\ "grab" \in Ops[t] /\ MayLock(t, l) /\ Available(l)
    /\ word' = [word EXCEPT ![l].lock = TRUE, ![l].pay = p]
    /\ held' = [held EXCEPT ![t] = @ \cup {l}]
    /\ owner' = [owner EXCEPT ![l] = t]
    /\ UNCHANGED <<list, mutexq, waiter, signal_pending, local, awaits, expect,
                   retired>>

(* lw_bitlock_lock_if_payload for the payload p (to which the cv bit       *)
(* belongs), up to the lock of the list.  A different payload is a return. *)
LockIfPayload(t, l, p) ==
    /\ "payload" \in Ops[t] /\ MayLock(t, l) /\ expect[t] = NULL
    /\ word[l].pay = p
    /\ expect' = [expect EXCEPT ![t] = <<l, word[l].cv, p>>]
    /\ \/ Available(l) /\ Obtain(t, l) /\ UNCHANGED local
       \/ /\ ~Available(l) /\ Begin(t, "list", "payload", l)
          /\ UNCHANGED <<word, held, owner>>
    /\ UNCHANGED <<list, mutexq, waiter, signal_pending, awaits, retired>>

(* The waiter goes on the list with the given tag. *)
SetWaiter(t, l, g) ==
    /\ wait_src' = [wait_src EXCEPT ![t] = l]
    /\ tag' = [tag EXCEPT ![t] = g]

(* Mutant of LockSection: the wait bit is not set. *)
LockSectionNoBit(t) ==
    LET l == local[t].lock IN
    /\ InSection(t, "lock") \/ InSection(t, "payload")
    /\ IF ~word[l].lock
       THEN Obtain(t, l) /\ UNCHANGED <<list, waiter, awaits>>
       ELSE /\ SetWaiter(t, l, "wait")
            /\ list' = [list EXCEPT ![Hash[l]] = Append(@, t)]
            /\ awaits' = [awaits EXCEPT ![t] = l]
            /\ UNCHANGED <<word, held, owner>>
    /\ UnlockList(t, "run", local[t])
    /\ UNCHANGED <<signal_pending, expect, retired>>

(* Under the lock of the list: take the word if it is free after all, else *)
(* set the wait bit and join the list.                                     *)
LockSection(t) ==
    LET l == local[t].lock IN
    /\ InSection(t, "lock") \/ InSection(t, "payload")
    /\ local[t].op = "payload" => expect[t] = <<l, word[l].cv, word[l].pay>>
    /\ IF ~word[l].lock
       THEN Obtain(t, l) /\ UNCHANGED <<list, waiter, awaits>>
       ELSE /\ word' = [word EXCEPT ![l].wait = TRUE]
            /\ SetWaiter(t, l, "wait")
            /\ list' = [list EXCEPT ![Hash[l]] = Append(@, t)]
            /\ awaits' = [awaits EXCEPT ![t] = l]
            /\ UNCHANGED <<held, owner>>
    /\ UnlockList(t, "run", local[t])
    /\ UNCHANGED <<signal_pending, expect, retired>>

(* The payload has changed on the way: lock_if_payload returns FALSE. *)
PayloadChanged(t) ==
    LET l == local[t].lock IN
    /\ InSection(t, "payload")
    /\ expect[t] # <<l, word[l].cv, word[l].pay>>
    /\ expect' = [expect EXCEPT ![t] = NULL]
    /\ UnlockList(t, "run", local[t])
    /\ UNCHANGED <<word, list, waiter, signal_pending, awaits, held, retired, owner>>

(* lw_bitlock_complete_wait looks whether it has to wait at all ... *)
CompleteWait(t) ==
    /\ At(t, "run") /\ awaits[t] # NULL
    /\ IF wait_src[t] = awaits[t]
       THEN Goto(t, "wait") /\ UNCHANGED <<awaits, held>>
       ELSE /\ awaits' = [awaits EXCEPT ![t] = NULL]
            /\ held' = [held EXCEPT ![t] = @ \cup {awaits[t]}]
            /\ UNCHANGED local
    /\ UNCHANGED <<word, list, mutexq, waiter, signal_pending, expect, retired, owner>>

(* ... and does. *)
CompleteWaitDone(t) ==
    /\ At(t, "wait") /\ signal_pending[t]
    /\ signal_pending' = [signal_pending EXCEPT ![t] = FALSE]
    /\ wait_src' = [wait_src EXCEPT ![t] = NULL]
    /\ awaits' = [awaits EXCEPT ![t] = NULL]
    /\ held' = [held EXCEPT ![t] = @ \cup {awaits[t]}]
    /\ Return(t)
    /\ UNCHANGED <<word, list, mutexq, tag, expect, retired, owner>>

-------------------------------------------------------------------------------
(* Giving it up. *)

(* The waiters of word l, and those of them with tag g. *)
Sources(l) == {x \in Threads : wait_src[x] = l}
Matching(l, g) == Filter(list[Hash[l]], {x \in Sources(l) : tag[x] = g})

GiveUp(t, l) ==
    /\ held' = [held EXCEPT ![t] = @ \ {l}]
    /\ expect' = IF expect[t] # NULL /\ expect[t][1] = l
                 THEN [expect EXCEPT ![t] = NULL] ELSE expect

(* lw_bitlock_unlock_return_waiter: drop the lock if nobody waits. *)
Unlock(t, l) ==
    /\ At(t, "run") /\ l \in held[t] /\ ~Retiring(t)
    /\ GiveUp(t, l)
    /\ IF ~word[l].wait
       THEN /\ word' = [word EXCEPT ![l].lock = FALSE]
            /\ owner' = [owner EXCEPT ![l] = NULL]
            /\ UNCHANGED local
       ELSE Begin(t, "list", "unlock", l) /\ UNCHANGED <<word, owner>>
    /\ UNCHANGED <<list, mutexq, waiter, signal_pending, awaits, retired>>

(* get_one_waiter: the oldest waiter of the word is off the list, and the  *)
(* wait bit stays if there is another.  q is what joins the list after it. *)
GetOneWaiter(t, l, q) ==
    LET m == Matching(l, "wait") IN
    /\ word' = [word EXCEPT ![l].wait = Len(m) > 1]
    /\ owner' = [owner EXCEPT ![l] = m[1]]
    /\ list' = [list EXCEPT ![Hash[l]] = Filter(@, Threads \ {m[1]}) \o q]
    /\ UnlockList(t, "wake", [local[t] EXCEPT !.to_wake_up = m[1]])

UnlockSection(t) ==
    /\ InSection(t, "unlock")
    /\ GetOneWaiter(t, local[t].lock, <<>>)
    /\ UNCHANGED <<waiter, signal_pending, client>>

(* lw_waiter_wakeup *)
Wakeup(t) ==
    /\ At(t, "wake")
    /\ signal_pending' = [signal_pending EXCEPT ![local[t].to_wake_up] = TRUE]
    /\ IF local[t].op = "cvwait" THEN Goto(t, "cvwait") ELSE Return(t)
    /\ UNCHANGED <<word, list, mutexq, waiter, client, owner>>

-------------------------------------------------------------------------------
(* Condition waits. *)

(* lw_bitlock_cv_wait sets the cv bit before it takes the lock of the list. *)
CvWait(t, l) ==
    /\ "cvwait" \in Ops[t] /\ Free(t) /\ held[t] = {l} /\ ~Retiring(t)
    /\ word' = [word EXCEPT ![l].cv = TRUE]
    /\ Begin(t, "list", "cvwait", l)
    /\ UNCHANGED <<list, mutexq, waiter, signal_pending, client, owner>>

(* Drop the lock or pass it on, and join the list. *)
CvWaitSection(t) ==
    LET l == local[t].lock IN
    /\ InSection(t, "cvwait")
    /\ SetWaiter(t, l, "cv")
    /\ GiveUp(t, l)
    /\ IF ~word[l].wait
       THEN /\ word' = [word EXCEPT ![l].lock = FALSE]
            /\ owner' = [owner EXCEPT ![l] = NULL]
            /\ list' = [list EXCEPT ![Hash[l]] = Append(@, t)]
            /\ UnlockList(t, "cvwait", local[t])
       ELSE GetOneWaiter(t, l, <<t>>)
    /\ UNCHANGED <<signal_pending, awaits, retired>>

(* The wait is over; wait_src tells which word it ended with. *)
CvWaitDone(t) ==
    /\ At(t, "cvwait") /\ signal_pending[t]
    /\ signal_pending' = [signal_pending EXCEPT ![t] = FALSE]
    /\ wait_src' = [wait_src EXCEPT ![t] = NULL]
    /\ held' = [held EXCEPT ![t] = @ \cup {wait_src[t]}]
    /\ Return(t)
    /\ UNCHANGED <<word, list, mutexq, tag, awaits, expect, retired, owner>>

(* lw_bitlock_cv_signal and _broadcast, unless the cv bit is clear. *)
Notify(t, l, op) ==
    /\ op \in Ops[t] \cap {"signal", "broadcast"}
    /\ Free(t) /\ l \in held[t] /\ ~Retiring(t)
    /\ word[l].cv
    /\ Begin(t, "list", op, l)
    /\ UNCHANGED <<word, list, mutexq, waiter, signal_pending, client, owner>>

Bit(l, name, value) == [lock |-> l, name |-> name, value |-> value]

(* Mutant of NotifyBits: the wait bit is not set. *)
NotifyBitsNoWait(l, last) ==
    IF last THEN <<Bit(l, "cv", FALSE)>> ELSE <<Bit(l, "cv", TRUE)>>

(* What a notification does to the bits after it has unlocked the list. *)
NotifyBits(l, last) ==
    (IF last THEN <<Bit(l, "cv", FALSE)>> ELSE <<>>) \o <<Bit(l, "wait", TRUE)>>

(* One or all of the condition waiters now wait for the lock. *)
NotifySection(t) ==
    LET l == local[t].lock
        m == Matching(l, "cv")
        s == IF local[t].op = "signal" THEN {m[1]} ELSE ToSet(m)
    IN
    /\ InSection(t, "signal") \/ InSection(t, "broadcast")
    /\ tag' = [x \in Threads |-> IF x \in s THEN "wait" ELSE tag[x]]
    /\ UnlockList(t, "bits", [local[t] EXCEPT !.bits = NotifyBits(l, s = ToSet(m))])
    /\ UNCHANGED <<word, list, wait_src, signal_pending, client, owner>>

(* The next of the bits a notification or a rekey changes. *)
SetBits(t) ==
    LET b == Head(local[t].bits) IN
    /\ At(t, "bits")
    /\ word' = [word EXCEPT ![b.lock] = [@ EXCEPT ![b.name] = b.value]]
    /\ IF Len(local[t].bits) > 1
       THEN local' = [local EXCEPT ![t].bits = Tail(@)]
       ELSE IF local[t].op = "append" THEN Goto(t, "release") ELSE Return(t)
    /\ UNCHANGED <<list, mutexq, waiter, signal_pending, client, owner>>

-------------------------------------------------------------------------------
(* Moving the users of a word to another one. *)

(* Mutant of Retire: others may still be on their way to the word. *)
RetireEarly(t, l) ==
    /\ "rekey" \in Ops[t] /\ MayLock(t, l) /\ held[t] # {}
    /\ retired' = [retired EXCEPT ![l] = t]
    /\ LockAsync(t, l)
    /\ UNCHANGED <<list, mutexq, waiter, signal_pending, awaits, expect>>

(* lw_monitor_lock takes word l out of its chain, so that nobody finds it  *)
(* any more, and locks it, having locked another word.  Whoever found l    *)
(* before has gone through its lock_async: both happen under one lock.     *)
Retire(t, l) ==
    /\ "rekey" \in Ops[t] /\ MayLock(t, l) /\ held[t] # {}
    /\ \A u \in Threads :
          ~(local[u].lock = l /\ local[u].op \in {"lock", "payload"})
    /\ retired' = [retired EXCEPT ![l] = t]
    /\ LockAsync(t, l)
    /\ UNCHANGED <<list, mutexq, waiter, signal_pending, awaits, expect>>

(* lw_bitlock64_rekey up to the lock of the first list. *)
Rekey(t, l, m) ==
    /\ Free(t) /\ {l, m} \subseteq held[t] /\ l # m /\ retired[l] = t
    /\ local' = [local EXCEPT ![t] =
          [Idle EXCEPT !.pc = IF word[l].wait \/ word[l].cv THEN "list" ELSE "release",
                       !.op = "rekey", !.lock = l, !.newlock = m]]
    /\ UNCHANGED <<word, list, mutexq, waiter, signal_pending, client, owner>>

(* Mutant of RekeyBits: the bits of the new word are forgotten. *)
RekeyBitsOld(l, m, tags) ==
    <<Bit(l, "wait", FALSE), Bit(l, "cv", FALSE)>>

(* The bits rekey sets in m and clears in l, for the waiters it moved. *)
RekeyBits(l, m, tags) ==
    (IF "wait" \in tags THEN <<Bit(m, "wait", TRUE), Bit(l, "wait", FALSE)>>
     ELSE <<>>) \o
    (IF "cv" \in tags THEN <<Bit(m, "cv", TRUE), Bit(l, "cv", FALSE)>> ELSE <<>>)

(* All the waiters of the word leave the list, with another source. *)
RekeySection(t) ==
    LET l == local[t].lock
        m == local[t].newlock
        s == Filter(list[Hash[l]], Sources(l))
    IN
    /\ InSection(t, "rekey")
    /\ list' = [list EXCEPT ![Hash[l]] = Filter(@, Threads \ Sources(l))]
    /\ wait_src' = [x \in Threads |-> IF x \in ToSet(s) THEN m ELSE wait_src[x]]
    /\ UnlockList(t, "moved", [local[t] EXCEPT
          !.moving = s,
          !.bits = RekeyBits(l, m, {tag[x] : x \in ToSet(s)})])
    /\ UNCHANGED <<word, tag, signal_pending, client, owner>>

(* On to the second list. *)
RekeyAppend(t) ==
    /\ At(t, "moved")
    /\ local' = [local EXCEPT ![t].op = "append", ![t].pc = "list"]
    /\ UNCHANGED <<word, list, mutexq, waiter, signal_pending, client, owner>>

AppendSection(t) ==
    /\ InSection(t, "append")
    /\ list' = [list EXCEPT ![WaitList(t)] = @ \o local[t].moving]
    /\ UnlockList(t, "bits", [local[t] EXCEPT !.moving = <<>>])
    /\ UNCHANGED <<word, waiter, signal_pending, client, owner>>

(* lw_monitor_release: unlock the word for good; it may be used again. *)
Release(t) ==
    LET l == local[t].lock IN
    /\ At(t, "release") /\ ~word[l].wait
    /\ word' = [word EXCEPT ![l].lock = FALSE]
    /\ owner' = [owner EXCEPT ![l] = NULL]
    /\ GiveUp(t, l)
    /\ retired' = [retired EXCEPT ![l] = NULL]
    /\ Return(t)
    /\ UNCHANGED <<list, mutexq, waiter, signal_pending, awaits>>

-------------------------------------------------------------------------------
Internal(t) ==
    \/ LockList(t) \/ LockListWait(t) \/ UnlockListWake(t)
    \/ LockSection(t) \/ PayloadChanged(t) \/ CompleteWait(t) \/ CompleteWaitDone(t)
    \/ UnlockSection(t) \/ Wakeup(t)
    \/ CvWaitSection(t) \/ CvWaitDone(t) \/ NotifySection(t) \/ SetBits(t)
    \/ RekeySection(t) \/ RekeyAppend(t) \/ AppendSection(t) \/ Release(t)
    \/ \E l, m \in Locks : Rekey(t, l, m)

Call(t) ==
    \E l \in Locks :
        \/ Lock(t, l) \/ Trylock(t, l) \/ Unlock(t, l) \/ CvWait(t, l)
        \/ Retire(t, l)
        \/ \E p \in Payloads[l] : Grab(t, l, p) \/ LockIfPayload(t, l, p)
        \/ \E op \in {"signal", "broadcast"} : Notify(t, l, op)

Next == \E t \in Threads : Internal(t) \/ Call(t)

Spec == Init /\ [][Next]_vars

(* Threads inside a call run, and who has a lock gives it up some time. *)
FairSpec ==
    /\ Spec
    /\ \A t \in Threads : WF_vars(Internal(t))
    /\ \A l \in Locks : SF_vars(\E t \in Threads : Unlock(t, l))

-------------------------------------------------------------------------------
entry == [l \in Locks |->
             {t \in Threads : wait_src[t] = l /\ tag[t] = "wait" /\ owner[l] # t}]
waitset == [l \in Locks |-> {t \in Threads : wait_src[t] = l /\ tag[t] = "cv"}]

(* The owner of word l is about to change bits of it. *)
Changing(l) ==
    \E t \in Threads :
        /\ local[t].op \in {"cvwait", "signal", "broadcast", "rekey", "append"}
        /\ l \in {local[t].lock, local[t].newlock}
        /\ local[t].pc # "run" /\ owner[l] = t

(* The bits tell who waits: an unlock that finds no wait bit and a         *)
(* notification that finds no cv bit miss nobody, a thread that finds the  *)
(* wait bit finds a waiter.  Only the word's own owner sees it otherwise,  *)
(* in the middle of a call.  And the lock bit is set while a word is held, *)
(* by one thread at a time, the one it was given to.                       *)
BitsExact ==
    /\ \A l \in Locks : ~Changing(l) =>
          /\ word[l].wait <=> entry[l] # {}
          /\ word[l].cv <=> waitset[l] # {}
    /\ \A t \in Threads : \A l \in held[t] : owner[l] = t /\ word[l].lock

(* A signal is there only for the wait its receiver is in: for the lock of *)
(* a list while it contends for that, for a word once it was given the     *)
(* word; also when a thread unlocks a word while it is queued for another. *)
(* Who signals never finds the last signal still there (lw_waiter.c:86).   *)
SignalExpected ==
    /\ \A t \in Threads : signal_pending[t] =>
          IF At(t, "listwait") /\ CurrentWaiter(t) = t
          THEN Head(mutexq[WaitList(t)]) = t
          ELSE wait_src[t] # NULL /\ owner[wait_src[t]] = t
    /\ \A t \in Threads : signal_pending[Temp(t)] =>
          At(t, "listwait") /\ Head(mutexq[WaitList(t)]) = Temp(t)
    /\ \A t \in Threads :
          /\ At(t, "wake") => ~signal_pending[local[t].to_wake_up]
          /\ At(t, "listwake") => ~signal_pending[Head(mutexq[WaitList(t)])]

(* The assertions: complete_wait still finds the word it queued for, also  *)
(* when the word's users were moved meanwhile; unlock and notification     *)
(* find a waiter; a rekey that starts has somebody to move and leaves no   *)
(* bits; lock_if_payload gets the lock with the payload it asked for; and  *)
(* every signal is expected.                                               *)
AssertionsHold ==
    SignalExpected /\ \A t \in Threads :
        /\ awaits[t] # NULL => wait_src[t] = awaits[t]
        /\ InSection(t, "unlock") => Matching(local[t].lock, "wait") # <<>>
        /\ InSection(t, "signal") \/ InSection(t, "broadcast")
              => Matching(local[t].lock, "cv") # <<>>
        /\ At(t, "moved") => local[t].moving # <<>>
        /\ At(t, "release") => ~word[local[t].lock].wait /\ ~word[local[t].lock].cv
        /\ \A l \in held[t] : expect[t] # NULL /\ expect[t][1] = l
              => word[l].pay = expect[t][3]

Monitor == INSTANCE MonitorSpec

(* The words are monitors, although their waiters share lists. *)
ImplementsMonitor == Monitor!Spec

(* A thread that is queued for a word gets it. *)
QueuedGetsLock ==
    \A t \in Threads :
        (wait_src[t] # NULL /\ tag[t] = "wait") ~> wait_src[t] = NULL
===============================================================================
