-------------------------------- MODULE RwLock ---------------------------------
(***************************************************************************)
(* The reader-writer lock of src/lw_rwlock.c, fair or unfair, at the       *)
(* granularity of its atomic accesses.  The 32-bit word holds the writer   *)
(* bit, the number of readers and the newest waiter; every waiter's `next' *)
(* names the one that arrived before it.                                   *)
(*                                                                         *)
(* A thread that gives up the lock passes it on with the swap that gives   *)
(* it up, and signals the new holders afterwards.  Scanning the queue, the *)
(* cut and the swap that follows are one step: ListsPrivate says that no   *)
(* other thread touches those links meanwhile.  The walks that do race,    *)
(* those of an upgrade and of the unfair unlock that puts writers back,    *)
(* take a step per link.                                                   *)
(*                                                                         *)
(* A lock with LW_RWLOCK_WAIT_DEFERRED is the same as one without: waiting *)
(* is a step of its own.  `mode' and `queue' are history variables, the    *)
(* state of RwLockSpec.                                                    *)
(***************************************************************************)
EXTENDS Naturals, Sequences, SequencesExt, FiniteSets, Filters

CONSTANTS Threads,   \* waiter ids
          NULL,      \* LW_WAITER_ID_MAX
          ReaderMod, \* readers is counted modulo this: 2^14 in the code
          Clients    \* the programs: the values of LW_RWLOCK_UNFAIR a lock is
                     \* initialised with, the operations each thread uses, and
                     \* a bound on its lock calls, 0 for none

ASSUME NullAssumption == NULL \notin Threads
ASSUME ParametersAssumption ==
    /\ \A c \in Clients :
          /\ c.unfair \subseteq BOOLEAN
          /\ c.ops \in [Threads -> SUBSET {"rd", "wr", "tryrd", "trywr", "upgrade",
                                           "downgrade"}]
          /\ c.max \in Nat
    /\ IsFiniteSet(Threads)
    /\ ReaderMod \in Nat /\ Cardinality(Threads) < ReaderMod

VARIABLES
    client,         \* the program, which does not change
    val,            \* lw_rwlock_t: [unfair, wlocked, readers, waitq]
    next, tag,      \* lw_waiter_t.next and .event.tag
    signal_pending, \* the thread event of each waiter
    pc,             \* where each thread is
    back,           \* where it goes on when its unlock returns
    old,            \* its snapshot of the word
    want,           \* the operation it performs
    excl,           \* it gives up a write lock
    cur,            \* its cursor, or the waiter it signals
    wait_list,      \* the waiters to wake up, taken off the queue
    writers,        \* unfair: writer_wait_list, to be put back
    oldest,         \* unfair: oldest_waiting_writer
    count,          \* wait_list_count, readers_count
    newq,           \* unfair: the waitq its next swap puts in
    calls,          \* lock calls made, if they are bounded
    mode, queue     \* history: RwLockSpec

word == <<val, next, tag, signal_pending>>
unfairLocals == <<writers, oldest, newq>>
listLocals == <<wait_list, count, unfairLocals>>
callLocals == <<want, back, excl, calls>>
history == <<mode, queue>>
vars == <<word, pc, old, cur, callLocals, listLocals, history>>

Ids == Threads \cup {NULL}

FreeWord(u) == [unfair |-> u, wlocked |-> FALSE, readers |-> 0, waitq |-> NULL]

Init ==
    /\ client \in Clients
    /\ val \in {FreeWord(u) : u \in client.unfair}
    /\ next = [t \in Threads |-> NULL]
    /\ tag = [t \in Threads |-> "shared"]
    /\ signal_pending = [t \in Threads |-> FALSE]
    /\ pc = [t \in Threads |-> "idle"] /\ back = [t \in Threads |-> "idle"]
    /\ old = [t \in Threads |-> val]
    /\ want = [t \in Threads |-> "none"] /\ excl = [t \in Threads |-> FALSE]
    /\ cur = [t \in Threads |-> NULL]
    /\ wait_list = [t \in Threads |-> NULL] /\ writers = [t \in Threads |-> NULL]
    /\ oldest = [t \in Threads |-> NULL] /\ newq = [t \in Threads |-> NULL]
    /\ count = [t \in Threads |-> 0]
    /\ calls = [t \in Threads |-> 0]
    /\ mode = [t \in Threads |-> "none"] /\ queue = <<>>

Goto(t, l) == pc' = [pc EXCEPT ![t] = l]

(* Assign local variable x of t. *)
Set(x, t, v) == x' = [x EXCEPT ![t] = v]

Read(t) == Set(old, t, val)

(* A local variable that is not used any more is reset. *)
Forget(t) == Set(old, t, FreeWord(val.unfair))

(* lw_uint32_swap: put w in if the word is still the snapshot, else take a *)
(* new snapshot.                                                           *)
Swapped(t, w) == val = old[t] /\ val' = w /\ Forget(t)
Missed(t) == val # old[t] /\ Read(t) /\ UNCHANGED val

Locked(w) == w.wlocked \/ w.readers # 0

Plus(w, n) == [w EXCEPT !.readers = (@ + n) % ReaderMod]

(* The word without the caller's share, or without its write lock. *)
Released(w, x) ==
    IF x THEN [w EXCEPT !.wlocked = FALSE] ELSE Plus(w, ReaderMod - 1)

(* The waiters from id along the next pointers. *)
Chain(id) ==
    LET c[n \in 0..Cardinality(Threads)] ==
            IF n = 0 THEN <<>>
            ELSE LET s == c[n - 1]
                     i == IF s = <<>> THEN id ELSE next[Last(s)]
                 IN  IF i = NULL THEN s ELSE Append(s, i)
    IN  c[Cardinality(Threads)]

Hold(W, m, t) ==
    mode' = [u \in Threads |-> IF u \in W THEN m
                               ELSE IF u = t THEN "none" ELSE mode[u]]

(* What threads wait for, and the queue without the threads of W. *)
Kinds == {"shared", "excl", "upgrade"}
Dequeued(W) == Filter(queue, (Threads \ W) \X Kinds)

-------------------------------------------------------------------------------
(* lw_rwlock_lock *)

(* The call, up to its first read of the word. *)
Lock(t) ==
    /\ pc[t] = "idle"
    /\ client.max = 0 \/ calls[t] < client.max
    /\ \E op \in client.ops[t] \cap {"rd", "wr", "tryrd", "trywr"} : Set(want, t, op)
    /\ Set(calls, t, IF client.max = 0 THEN 0 ELSE calls[t] + 1)
    /\ Read(t)
    /\ Goto(t, "lock")
    /\ UNCHANGED <<word, cur, back, excl, listLocals, history>>

Exclusive(t) == want[t] \in {"wr", "trywr"}

ModeOf(t) == IF Exclusive(t) THEN "wr" ELSE "rd"

(* Whether the word lets a thread in. *)
Grantable(w, x) ==
    IF x THEN ~Locked(w) /\ w.waitq = NULL
    ELSE ~w.wlocked /\ (w.waitq = NULL \/ w.unfair)

Granted(w, x) == IF x THEN [w EXCEPT !.wlocked = TRUE] ELSE Plus(w, 1)

(* The lock is the caller's. *)
Enter(t) ==
    /\ Swapped(t, Granted(old[t], Exclusive(t)))
    /\ Goto(t, ModeOf(t))
    /\ Set(want, t, "none")
    /\ Set(mode, t, ModeOf(t)) /\ UNCHANGED queue

(* A turn of its loop: take the lock, give up, or go and queue. *)
LockTurn(t) ==
    /\ pc[t] = "lock"
    /\ \/ /\ Grantable(old[t], Exclusive(t))
          /\ Enter(t) \/ (Missed(t) /\ UNCHANGED <<pc, want, history>>)
       \/ /\ ~Grantable(old[t], Exclusive(t))
          /\ IF want[t] \in {"tryrd", "trywr"}
             THEN Goto(t, "idle") /\ Forget(t) /\ Set(want, t, "none")
             ELSE Goto(t, "contention") /\ Read(t) /\ UNCHANGED want
          /\ UNCHANGED <<val, history>>
    /\ UNCHANGED <<next, tag, signal_pending, cur, back, excl, calls, listLocals>>

(* A turn of the loop of lw_rwlock_lock_contention: take the lock, or link *)
(* the caller in front of the queue and publish it.                        *)
Contention(t) ==
    /\ pc[t] = "contention"
    /\ LET ok == Grantable(old[t], Exclusive(t))
           k == IF Exclusive(t) THEN "excl" ELSE "shared"
       IN  /\ Set(next, t, IF ok THEN NULL ELSE old[t].waitq)
           /\ tag' = IF ok THEN tag ELSE [tag EXCEPT ![t] = k]
           /\ \/ ok /\ Enter(t)
              \/ /\ ~ok /\ Swapped(t, [old[t] EXCEPT !.waitq = t])
                 /\ Goto(t, "wait")
                 /\ queue' = Append(queue, <<t, k>>) /\ UNCHANGED <<mode, want>>
              \/ Missed(t) /\ UNCHANGED <<pc, want, history>>
    /\ UNCHANGED <<signal_pending, cur, back, excl, calls, listLocals>>

(* Wait for the signal, and return as holder: "the lock is transferred". *)
Woken(t, from, to) ==
    /\ pc[t] = from /\ signal_pending[t]
    /\ signal_pending' = [signal_pending EXCEPT ![t] = FALSE]
    /\ Goto(t, to) /\ Set(want, t, "none")
    /\ UNCHANGED <<val, next, tag, old, cur, back, excl, calls, listLocals, history>>

LockWait(t) == Woken(t, "wait", ModeOf(t))

-------------------------------------------------------------------------------
(* lw_rwlock_unlock *)

(* The call, by a client or by upgrade and downgrade. *)
UnlockBegin(t) ==
    /\ pc[t] \in {"rd", "wr", "up_unlock", "down_unlock"}
    /\ Set(excl, t, pc[t] \in {"wr", "down_unlock"})
    /\ Set(back, t, CASE pc[t] = "up_unlock" -> "up_wait"
                      [] pc[t] = "down_unlock" -> "down_wait"
                      [] OTHER -> "idle")
    /\ Read(t)
    /\ Goto(t, "unlock")
    /\ UNCHANGED <<word, cur, want, calls, listLocals, history>>

Return(t) ==
    Goto(t, back[t]) /\ Set(back, t, "idle") /\ Set(excl, t, FALSE)

(* How lw_rwlock_unlock_contention passes the lock on. *)
Path(w, x) ==
    IF ~w.unfair THEN "fair" ELSE IF x THEN "unfair" ELSE "try_upgrade"

(* A turn of its loop.  If nobody would hold the lock and somebody waits,  *)
(* the lock has to be passed on.                                           *)
Unlock(t) ==
    /\ pc[t] = "unlock"
    /\ LET w == Released(old[t], excl[t]) IN
       \/ /\ ~Locked(w) /\ w.waitq # NULL
          /\ Goto(t, Path(old[t], excl[t]))
          /\ Read(t)
          /\ UNCHANGED <<val, back, excl, history>>
       \/ /\ Locked(w) \/ w.waitq = NULL
          /\ \/ Swapped(t, w) /\ Return(t) /\ Hold({}, "none", t) /\ UNCHANGED queue
             \/ Missed(t) /\ UNCHANGED <<pc, back, excl, history>>
    /\ UNCHANGED <<next, tag, signal_pending, cur, want, calls, listLocals>>

(* The waiters a fair unlock wakes: the oldest if it is to write, else the *)
(* readers that have no writer before them.  c is the queue, newest first. *)
Group(c) ==
    LET Alone(i) == tag[c[i - 1]] # "shared" \/ tag[c[i]] # "shared"
        starts == {1} \cup {i \in 2..Len(c) : Alone(i)}
        start == CHOOSE i \in starts : \A j \in starts : j <= i
    IN  SubSeq(c, start, Len(c))

(* Mutant of KeptList: also the whole queue is kept. *)
KeptListAlways(g, whole) == g[1]

(* What is left of group g for the next turn when the swap fails: nothing  *)
(* if it was the whole queue, which then was not cut.                      *)
KeptList(g, whole) == IF whole THEN NULL ELSE g[1]

(* A turn of lw_rwlock_unlock_fair_contention: cut the group off the old   *)
(* end of the queue and pass the lock to it.  Its case for a lock that is  *)
(* still held does not arise, see AssertionsHold.                          *)
FairTurn(t) ==
    /\ pc[t] = "fair"
    /\ LET kept == wait_list[t] # NULL
           c == Chain(old[t].waitq)
           g == IF kept THEN Chain(wait_list[t]) ELSE Group(c)
           whole == ~kept /\ Len(g) = Len(c)
           shared == tag[Last(g)] = "shared"
           w == [Released(old[t], excl[t]) EXCEPT
                    !.waitq = IF whole THEN NULL ELSE @,
                    !.wlocked = ~shared,
                    !.readers = IF shared THEN Len(g) % ReaderMod ELSE @]
       IN  /\ next' = IF whole \/ kept THEN next
                      ELSE [next EXCEPT ![c[Len(c) - Len(g)]] = NULL]
           /\ \/ /\ Swapped(t, w)
                 /\ Goto(t, IF shared THEN "wake_all" ELSE "wake")
                 /\ Set(cur, t, g[1]) /\ Set(wait_list, t, NULL)
                 /\ Hold(Range(g), IF shared THEN "rd" ELSE "wr", t)
                 /\ queue' = Dequeued(Range(g))
              \/ /\ Missed(t)
                 /\ Set(wait_list, t, KeptList(g, whole))
                 /\ UNCHANGED <<pc, cur, history>>
    /\ UNCHANGED <<tag, signal_pending, callLocals, count, unfairLocals>>

(* lw_waiter_wakeup for a writer: it is the last of the queue, its next is *)
(* clear.                                                                  *)
Wake(t) ==
    /\ pc[t] = "wake"
    /\ signal_pending' = [signal_pending EXCEPT ![cur[t]] = TRUE]
    /\ Set(cur, t, NULL)
    /\ Return(t)
    /\ UNCHANGED <<val, next, tag, old, want, calls, listLocals, history>>

(* Mutant of WakeAll: the woken readers stay linked. *)
WakeAllLinked(t) ==
    /\ pc[t] = "wake_all"
    /\ IF cur[t] = NULL
       THEN Return(t) /\ UNCHANGED <<signal_pending, cur>>
       ELSE /\ Set(cur, t, next[cur[t]])
            /\ signal_pending' = [signal_pending EXCEPT ![cur[t]] = TRUE]
            /\ UNCHANGED <<pc, back, excl>>
    /\ UNCHANGED <<val, next, tag, old, want, calls, listLocals, history>>

(* Mutant of WakeAll: the loop ends after the first reader. *)
WakeAllOne(t) ==
    /\ pc[t] = "wake_all"
    /\ IF cur[t] = NULL
       THEN UNCHANGED <<next, signal_pending>>
       ELSE /\ next' = [next EXCEPT ![cur[t]] = NULL]
            /\ signal_pending' = [signal_pending EXCEPT ![cur[t]] = TRUE]
    /\ Set(cur, t, NULL) /\ Return(t)
    /\ UNCHANGED <<val, tag, old, want, calls, listLocals, history>>

(* lw_waiter_wake_all for readers: unlink one and signal it. *)
WakeAll(t) ==
    /\ pc[t] = "wake_all"
    /\ IF cur[t] = NULL
       THEN Return(t) /\ UNCHANGED <<next, signal_pending, cur>>
       ELSE /\ Set(cur, t, next[cur[t]])
            /\ next' = [next EXCEPT ![cur[t]] = NULL]
            /\ signal_pending' = [signal_pending EXCEPT ![cur[t]] = TRUE]
            /\ UNCHANGED <<pc, back, excl>>
    /\ UNCHANGED <<val, tag, old, want, calls, listLocals, history>>

-------------------------------------------------------------------------------
(* Unlocking an unfair lock. *)

(* Mutant of TryUpgrade: the last reader does not take the write lock. *)
TryUpgradeNot(t) ==
    /\ pc[t] = "try_upgrade"
    /\ LET w == Plus(old[t], ReaderMod - 1) IN
       \/ /\ Swapped(t, w) /\ Return(t)
          /\ Hold({}, "none", t) /\ UNCHANGED queue
       \/ Missed(t) /\ UNCHANGED <<pc, back, excl, history>>
    /\ UNCHANGED <<next, tag, signal_pending, cur, want, calls, listLocals>>

(* A turn of try_rwlock_upgrade_or_release: the last reader becomes the    *)
(* writer, so that it can pass the lock on with no reader coming in.       *)
TryUpgrade(t) ==
    /\ pc[t] = "try_upgrade"
    /\ LET w == Plus(old[t], ReaderMod - 1) IN
       \/ /\ w.readers = 0
          /\ Swapped(t, [w EXCEPT !.wlocked = TRUE])
          /\ Set(excl, t, TRUE) /\ Goto(t, "fair_begin") /\ UNCHANGED back
          /\ Set(mode, t, "wr") /\ UNCHANGED queue
       \/ /\ w.readers # 0
          /\ Swapped(t, w) /\ Return(t)
          /\ Hold({}, "none", t) /\ UNCHANGED queue
       \/ Missed(t) /\ UNCHANGED <<pc, back, excl, history>>
    /\ UNCHANGED <<next, tag, signal_pending, cur, want, calls, listLocals>>

(* lw_rwlock_unlock_unfair_contention looks at the oldest waiter: a writer *)
(* is served as by a fair lock, a reader with all the readers.             *)
UnfairOldest(t) ==
    /\ pc[t] = "unfair"
    /\ Goto(t, IF tag[Last(Chain(old[t].waitq))] = "shared" THEN "detach"
               ELSE "fair")
    /\ Read(t)
    /\ UNCHANGED <<word, cur, callLocals, listLocals, history>>

(* The first read of lw_rwlock_unlock_fair_contention. *)
FairBegin(t) ==
    /\ pc[t] = "fair_begin"
    /\ Read(t)
    /\ Goto(t, "fair")
    /\ UNCHANGED <<word, cur, callLocals, listLocals, history>>

(* A turn of lw_rwlock_downgrade_and_ret_wait_list: become a reader and    *)
(* take the whole queue.                                                   *)
Detach(t) ==
    /\ pc[t] = "detach"
    /\ \/ /\ Swapped(t, Plus(FreeWord(old[t].unfair), 1))
          /\ Set(wait_list, t, old[t].waitq)
          /\ Goto(t, "separate")
          /\ Set(mode, t, "rd") /\ UNCHANGED queue
       \/ Missed(t) /\ UNCHANGED <<pc, wait_list, history>>
    /\ UNCHANGED <<next, tag, signal_pending, cur, callLocals, count, unfairLocals>>

(* The sequence s as a list: what the next pointer of its member w is. *)
LinkIn(s, w) ==
    LET i == CHOOSE j \in 1..Len(s) : s[j] = w
    IN  IF i = Len(s) THEN NULL ELSE s[i + 1]

FirstOf(s) == IF s = <<>> THEN NULL ELSE s[1]

(* The loop that separates writers, in their order, from readers, in the   *)
(* reverse order, and the next read of the word.                           *)
Separate(t) ==
    /\ pc[t] = "separate"
    /\ LET c == Chain(wait_list[t])
           r == Reverse(Filter(c, {w \in Threads : tag[w] = "shared"}))
           x == Filter(c, {w \in Threads : tag[w] # "shared"})
       IN  /\ next' = [w \in Threads |-> IF Contains(r, w) THEN LinkIn(r, w)
                                         ELSE IF Contains(x, w) THEN LinkIn(x, w)
                                         ELSE next[w]]
           /\ Set(wait_list, t, FirstOf(r)) /\ Set(count, t, Len(r))
           /\ Set(writers, t, FirstOf(x))
           /\ Set(oldest, t, IF x = <<>> THEN NULL ELSE Last(x))
    /\ Read(t)
    /\ Goto(t, "regrant")
    /\ UNCHANGED <<val, tag, signal_pending, cur, callLocals, newq, history>>

(* The turn of the loop that lets the readers in: the writers become the   *)
(* queue if there is none, else they have to be put in behind its end.     *)
Regrant(t) ==
    /\ pc[t] = "regrant"
    /\ IF writers[t] = NULL \/ old[t].waitq = NULL
       THEN /\ Set(newq, t, IF writers[t] = NULL THEN old[t].waitq ELSE writers[t])
            /\ Goto(t, "regrant_swap") /\ UNCHANGED cur
       ELSE Set(cur, t, old[t].waitq) /\ Goto(t, "reinsert") /\ UNCHANGED newq
    /\ UNCHANGED <<word, old, callLocals, wait_list, writers, oldest, count, history>>

(* lw_rwlock_unlock_unfair_reinsert_waiters walks to the oldest waiter.  A *)
(* reader that wants an upgrade stays in front of the old writers.         *)
Reinsert(t) ==
    /\ pc[t] = "reinsert"
    /\ LET c == cur[t]  n == next[c] IN
       \/ /\ n # NULL /\ tag[n] = "upgrade"
          /\ next' = [next EXCEPT ![oldest[t]] = n]
          /\ Goto(t, "reinsert_link") /\ UNCHANGED <<cur, newq>>
       \/ /\ n # NULL /\ tag[n] # "upgrade"
          /\ Set(cur, t, n) /\ UNCHANGED <<next, pc, newq>>
       \/ /\ n = NULL /\ tag[c] = "upgrade"
          /\ next' = [next EXCEPT ![oldest[t]] = c]
          /\ Set(newq, t, writers[t]) /\ Set(cur, t, NULL)
          /\ Goto(t, "regrant_swap")
       \/ /\ n = NULL /\ tag[c] # "upgrade"
          /\ Goto(t, "reinsert_swap") /\ UNCHANGED <<next, cur, newq>>
    /\ UNCHANGED <<val, tag, signal_pending, old, callLocals, wait_list, writers,
                   oldest, count, history>>

(* The writers are behind waiter c: they are part of the queue again. *)
Hang(t, c) ==
    /\ next' = [next EXCEPT ![c] = writers[t]]
    /\ Set(writers, t, NULL) /\ Set(newq, t, old[t].waitq) /\ Set(cur, t, NULL)
    /\ Goto(t, "regrant_swap")

(* Its compare-and-swap of the oldest waiter's next, against an upgrade. *)
ReinsertSwap(t) ==
    /\ pc[t] = "reinsert_swap"
    /\ \/ next[cur[t]] = NULL /\ Hang(t, cur[t])
       \/ /\ next[cur[t]] # NULL
          /\ next' = [next EXCEPT ![oldest[t]] = next[cur[t]]]
          /\ Goto(t, "reinsert_link")
          /\ UNCHANGED <<cur, newq, writers>>
    /\ UNCHANGED <<val, tag, signal_pending, old, callLocals, wait_list, oldest,
                   count, history>>

ReinsertLink(t) ==
    /\ pc[t] = "reinsert_link"
    /\ Hang(t, cur[t])
    /\ UNCHANGED <<val, tag, signal_pending, old, callLocals, wait_list, oldest,
                   count, history>>

(* Mutant of Admitted: the caller's own share is not given up. *)
AdmittedAll(n) == n

(* "-1 to subtract current thread" *)
Admitted(n) == n + ReaderMod - 1

(* The swap that ends the turn: the readers get in, the caller leaves. *)
RegrantSwap(t) ==
    /\ pc[t] = "regrant_swap"
    /\ LET R == Range(Chain(wait_list[t])) IN
       \/ /\ Swapped(t, [Plus(old[t], Admitted(count[t])) EXCEPT
                               !.waitq = newq[t]])
          /\ Goto(t, "wake_all") /\ Set(cur, t, wait_list[t])
          /\ Set(wait_list, t, NULL) /\ Set(writers, t, NULL)
          /\ Set(oldest, t, NULL) /\ Set(count, t, 0)
          /\ Hold(R, "rd", t) /\ queue' = Dequeued(R)
       \/ /\ Missed(t) /\ Goto(t, "regrant")
          /\ UNCHANGED <<cur, wait_list, writers, oldest, count, history>>
    /\ Set(newq, t, NULL)
    /\ UNCHANGED <<next, tag, signal_pending, callLocals>>

-------------------------------------------------------------------------------
(* lw_rwlock_downgrade *)

Downgrade(t) ==
    /\ pc[t] = "wr" /\ "downgrade" \in client.ops[t]
    /\ Read(t)
    /\ Goto(t, "downgrade")
    /\ UNCHANGED <<word, cur, callLocals, listLocals, history>>

(* A turn of its loop: with nobody waiting the word is changed; else the   *)
(* caller makes itself the oldest waiter, for a share, and unlocks.        *)
DowngradeTurn(t) ==
    /\ pc[t] = "downgrade"
    /\ \/ /\ old[t].waitq = NULL
          /\ \/ /\ Swapped(t, Plus(FreeWord(old[t].unfair), 1))
                /\ Goto(t, "rd")
                /\ Set(mode, t, "rd")
             \/ Missed(t) /\ UNCHANGED <<pc, mode>>
          /\ UNCHANGED <<next, tag, queue>>
       \/ /\ old[t].waitq # NULL
          /\ next' = [next EXCEPT ![Last(Chain(old[t].waitq))] = t]
          /\ tag' = [tag EXCEPT ![t] = "shared"]
          /\ queue' = <<<<t, "shared">>>> \o queue
          /\ Goto(t, "down_unlock") /\ Forget(t)
          /\ UNCHANGED <<val, mode>>
    /\ UNCHANGED <<signal_pending, cur, callLocals, listLocals>>

DowngradeWait(t) == Woken(t, "down_wait", "rd")

-------------------------------------------------------------------------------
(* lw_rwlock_upgrade *)

Upgrade(t) ==
    /\ pc[t] = "rd" /\ "upgrade" \in client.ops[t]
    /\ Read(t)
    /\ Goto(t, "upgrade")
    /\ UNCHANGED <<word, cur, callLocals, listLocals, history>>

(* A turn of its loop: the only reader becomes the writer; one of several  *)
(* queues and gives up its share; with a queue it has to get in first.     *)
UpgradeTurn(t) ==
    /\ pc[t] = "upgrade"
    /\ LET alone == old[t].waitq = NULL /\ old[t].readers = 1
           first == old[t].waitq = NULL /\ old[t].readers # 1
       IN  /\ tag' = IF alone THEN tag ELSE [tag EXCEPT ![t] = "upgrade"]
           /\ \/ /\ alone
                 /\ Swapped(t, [old[t] EXCEPT !.wlocked = TRUE, !.readers = 0])
                 /\ Goto(t, "wr")
                 /\ Set(mode, t, "wr") /\ UNCHANGED queue
              \/ /\ first
                 /\ Swapped(t, [Plus(old[t], ReaderMod - 1) EXCEPT !.waitq = t])
                 /\ Goto(t, "up_wait")
                 /\ Set(mode, t, "none") /\ queue' = <<<<t, "upgrade">>>> \o queue
              \/ /\ alone \/ first
                 /\ Missed(t) /\ UNCHANGED <<pc, history>>
              \/ /\ ~alone /\ ~first
                 /\ Goto(t, "insert") /\ Forget(t) /\ UNCHANGED <<val, history>>
    /\ UNCHANGED <<next, signal_pending, cur, callLocals, listLocals>>

(* lw_rwlock_insert_for_upgrade: start from the newest waiter ... *)
Insert(t) ==
    /\ pc[t] = "insert"
    /\ Set(cur, t, val.waitq)
    /\ Goto(t, "insert_walk")
    /\ UNCHANGED <<word, old, callLocals, listLocals, history>>

(* "Someone else already waiting for upgrade": return EPERM. *)
Refused(t) == Goto(t, "rd") /\ Set(cur, t, NULL)

(* ... go to the oldest ... *)
InsertWalk(t) ==
    /\ pc[t] = "insert_walk"
    /\ \/ /\ next[cur[t]] # NULL
          /\ Set(cur, t, next[cur[t]]) /\ UNCHANGED pc
       \/ next[cur[t]] = NULL /\ tag[cur[t]] = "upgrade" /\ Refused(t)
       \/ /\ next[cur[t]] = NULL /\ tag[cur[t]] # "upgrade"
          /\ Goto(t, "insert_swap") /\ UNCHANGED cur
    /\ UNCHANGED <<word, old, callLocals, listLocals, history>>

(* ... and get in behind it with a compare-and-swap. *)
InsertSwap(t) ==
    /\ pc[t] = "insert_swap"
    /\ LET n == next[cur[t]] IN
       \/ /\ n = NULL
          /\ next' = [next EXCEPT ![cur[t]] = t]
          /\ queue' = <<<<t, "upgrade">>>> \o queue
          /\ Goto(t, "up_unlock") /\ Set(cur, t, NULL)
       \/ /\ n # NULL /\ tag[n] = "upgrade"
          /\ Refused(t) /\ UNCHANGED <<next, queue>>
       \/ /\ n # NULL /\ tag[n] # "upgrade"
          /\ Goto(t, "insert") /\ Set(cur, t, NULL) /\ UNCHANGED <<next, queue>>
    /\ UNCHANGED <<val, tag, signal_pending, old, callLocals, listLocals, mode>>

UpgradeWait(t) == Woken(t, "up_wait", "wr")

-------------------------------------------------------------------------------
(* A step inside a call. *)
Internal(t) ==
    \/ LockTurn(t) \/ Contention(t) \/ LockWait(t)
    \/ (pc[t] \in {"up_unlock", "down_unlock"} /\ UnlockBegin(t))
    \/ Unlock(t) \/ FairTurn(t) \/ Wake(t) \/ WakeAll(t) \/ TryUpgrade(t)
    \/ UnfairOldest(t) \/ FairBegin(t) \/ Detach(t) \/ Separate(t)
    \/ Regrant(t) \/ Reinsert(t) \/ ReinsertSwap(t) \/ ReinsertLink(t)
    \/ RegrantSwap(t) \/ DowngradeTurn(t) \/ DowngradeWait(t)
    \/ UpgradeTurn(t) \/ Insert(t) \/ InsertWalk(t) \/ InsertSwap(t)
    \/ UpgradeWait(t)

(* The client gives up what it holds. *)
ClientUnlock(t) == pc[t] \in {"rd", "wr"} /\ UnlockBegin(t)

(* A bounded program has come to its end. *)
Finished ==
    /\ client.max # 0 /\ UNCHANGED vars
    /\ \A t \in Threads : pc[t] = "idle" /\ (calls[t] = client.max \/ client.ops[t] = {})

Next ==
    /\ UNCHANGED client
    /\ \/ Finished
       \/ \E t \in Threads :
             Internal(t) \/ Lock(t) \/ ClientUnlock(t) \/ Upgrade(t) \/ Downgrade(t)

Spec == Init /\ [][Next]_<<vars, client>>

(* Threads inside calls go on, and a client that keeps holding the lock    *)
(* gives it up in the end.                                                 *)
FairSpec ==
    /\ Spec
    /\ \A t \in Threads : WF_vars(Internal(t)) /\ SF_vars(ClientUnlock(t))

-------------------------------------------------------------------------------
(* Properties. *)

(* A writer that has returned from its call is alone, told by where the    *)
(* threads are and nothing else; and the word counts exactly the threads   *)
(* the lock was given to, those that do not know yet included, so that no  *)
(* release is lost or counted twice.                                       *)
CountExact ==
    /\ \A t, u \in Threads : t # u /\ pc[t] = "wr" => pc[u] \notin {"rd", "wr"}
    /\ val.readers = Cardinality({t \in Threads : mode[t] = "rd"})
    /\ val.wlocked <=> \E t \in Threads : mode[t] = "wr"
    /\ \A t \in Threads : pc[t] \in {"rd", "wr"} => mode[t] = pc[t]

(* The thread that has taken the queue of an unfair lock apart. *)
TakesApart(t) ==
    pc[t] \in {"separate", "regrant", "reinsert", "reinsert_swap",
               "reinsert_link", "regrant_swap"}

(* Nobody is lost: whoever waits and has not been given the lock is in the *)
(* queue, in order of arrival with an upgrade first, but for the group an  *)
(* unlock has cut off and the queue one has taken apart.                   *)
QueueExact ==
    LET T == {t \in Threads : TakesApart(t)}
        C == {t \in Threads : pc[t] = "fair"}
        cut == IF C = {} THEN <<>> ELSE Chain(wait_list[CHOOSE t \in C : TRUE])
        lists == {Chain(val.waitq)} \cup {Chain(wait_list[t]) : t \in T}
                                   \cup {Chain(writers[t]) : t \in T}
    IN  IF T = {}
        THEN Reverse(Chain(val.waitq) \o cut) = [i \in 1..Len(queue) |-> queue[i][1]]
        ELSE UNION {Range(l) : l \in lists} = {queue[i][1] : i \in 1..Len(queue)}

(* The threads that rewrite links of waiters other than their own. *)
Cutting == {t \in Threads : pc[t] \in {"fair", "unfair", "downgrade"}}
Linking == {t \in Threads : TakesApart(t) \/ pc[t] \in {"insert_walk", "insert_swap"}}

(* While a thread cuts waiters off the queue no other writes to its links, *)
(* and one thread at most has taken a queue apart.                         *)
ListsPrivate ==
    /\ Cardinality(Cutting) <= 1
    /\ Cutting # {} => Linking = {}
    /\ Cardinality({t \in Threads : TakesApart(t)}) <= 1

(* The assertions the code makes on the way, and what it relies on without *)
(* one: nobody else touches the links it changes.                          *)
AssertionsHold ==
    ListsPrivate /\ \A t \in Threads :
        /\ pc[t] \in {"idle", "lock", "rd", "wr", "upgrade", "insert"} => next[t] = NULL
        /\ pc[t] = "fair" =>
              /\ old[t].waitq # NULL /\ ~Locked(Released(old[t], excl[t]))
              /\ tag[Last(Chain(old[t].waitq) \o Chain(wait_list[t]))] = "shared"
                     => excl[t] /\ ~old[t].unfair
        /\ pc[t] = "wake" => next[cur[t]] = NULL /\ ~signal_pending[cur[t]]
        /\ pc[t] = "wake_all" /\ cur[t] # NULL =>
              \A w \in Range(Chain(cur[t])) :
                  tag[w] = "shared" /\ ~signal_pending[w] /\ mode[w] = "rd"
        /\ pc[t] = "separate" =>
              \A w \in Range(Chain(wait_list[t])) : tag[w] # "upgrade"
        /\ pc[t] \in {"reinsert", "reinsert_swap"} =>
              \A w \in Range(Chain(cur[t])) :
                  /\ tag[w] # "shared"
                  /\ tag[w] = "upgrade" => next[w] = NULL
        /\ pc[t] = "insert_walk" =>
              /\ cur[t] # NULL
              /\ tag[cur[t]] = "upgrade" => next[cur[t]] = NULL

(* What the lock promises: it is passed on with the release, in order.     *)
Abstract == INSTANCE RwLockSpec WITH unfair <- val.unfair

ImplementsRwLock == Abstract!Spec

(* A thread that was given the lock is told, and returns. *)
GrantedReturns ==
    \A t \in Threads :
        pc[t] \in {"wait", "up_wait", "down_wait"} /\ mode[t] # "none"
            ~> pc[t] \in {"rd", "wr"}

(* No thread waits for ever for a fair lock, readers and writers alike;    *)
(* nor for any lock it was given.                                          *)
QueuedGetsLock ==
    /\ GrantedReturns
    /\ \A t \in Threads :
          ~val.unfair /\ pc[t] \in {"wait", "up_wait"} ~> pc[t] \in {"rd", "wr"}
===============================================================================
