# lwlock in TLA+

lwlock is a C library of small locks (2, 4 or 1-2 bits of a word), a condition
variable, events, and concurrent structures built from them. Everything it
promises rests on compare-and-swap loops on packed words and on lists whose
links live in per-thread `lw_waiter_t` structures, so the interesting
behaviours are interleavings that no unit test schedules. This directory holds
TLA+ models of that code, TLC configurations that check them on small
instances, and proofs for TLAPS.

Contents: [inventory](#inventory), [modules](#modules), [runs](#runs),
[fairness](#fairness), [proofs](#proofs), [findings](#findings),
[what is left out](#what-is-left-out), [plan](#plan).

## Inventory

Paths are relative to the repository. `LW_WAITER_ID_MAX` is the null id,
written NULL in the models.

| component | state | operations | correct when |
|---|---|---|---|
| `lw_waiter.c`: thread event | `signal_pending`, `waiter_waiting`, a pthread mutex and condition | signal, wait with optional deadline | a signal ends exactly one wait, also when the deadline passes at that moment |
| `lw_waiter.c`: waiter domain | array of blocks, free list of waiters, id counter, thread-specific waiter | get, alloc, free, from_id, shutdown | an id names one live waiter; ids stay below the null id |
| `lw_mutex.c` | 4-byte word `[owner, waitq]`; `next`, `prev` of waiters | lock, lock_async + complete_wait, trylock, lock_if_not_held, unlock_if_held, unlock | exclusion; first come first served hand-off |
| `lw_mutex2b.c` | 2-byte word: newest arrival; `next` | lock, trylock, unlock | the same, with no owner stored |
| `lw_rwlock.c` | 4-byte word `[wlocked, readers, unfair, waitq]`; `next`, `event.tag` | lock, trylock, deferred contention, unlock, downgrade, upgrade, all for readers and writers | writers exclude; nobody is lost when the queue is cut and put back; fair locks serve in order |
| `lw_cond_var.c`, `lw_lock_common.h` | `waitq`, `waitq_lock`; `next`, `prev` | wait, timedwait, signal, broadcast | a wait returns with the lock; no signal is lost or left behind |
| `lw_event.c` | `tag`, `wait_src`, the waiter on the stack | init, wait, signal | the signaller never touches a dead frame; the owner gets its signal |
| `lf_stack.c` | `top` = `[next, aba_tag]`; `next` of elements | init, push, pop | linearizable LIFO; no element lost or given out twice |
| `lw_bitlock.c` | a lock bit and a wait bit of a 32/64-bit word; wait lists hashed by address, shared by all bit locks | lock, trylock, unlock, async, rekey, condition wait/signal, reader-writer variant | exclusion per word although the lists are shared; the wait bit is set while somebody waits |
| `lw_monitor.c` | bit-lock word and waiters tagged with the operation they wait for | enter, leave, wait, notify | as for a monitor; a waiter that moves between queues is on exactly one |
| `delegate.c` | word `[lock, waiting, incoming, pending]`, incoming stack, queued and blocked jobs | submit, run, cancel, unblock | every submitted job is done once, by the thread that holds the lock, and none is left behind when it gives the lock up |
| `counter.c` | units available, a field of its delegate's word | try_alloc, alloc, alloc_async, cancel, free | first come first served; an allocation that can be served is |
| `atomic_list.c` | adlist: links, a reader-writer lock and a reference count with a mask per element, `head_lock`, `tail_lock`, `count` | insert at four places, remove, dequeue, pop, iterate both ways, pop and seek in an iterator | a well-formed doubly linked list; a pinned element stays; iterators miss nothing; no deadlock though the list is walked in both directions |
| `slist32.c`, `ptr_map.c`, `lw_dlist.c` | sequential lists, packed pointers | the usual ones | they compute the sequence operation |
| `lw_lock.c`, `lw_atomic.h`, `lw_cycles.c`, `lw_debug.h`, `lw_magic.h`, `lw_util.h`, `murmur.h` | none, or statistics | init, shutdown, atomics, assertions | |

How they interact. Every blocking primitive takes the calling thread's
`lw_waiter_t` from the global domain, links it into its own list through
`next`/`prev`, and sleeps on the waiter's thread event; whoever releases
unlinks it, and signals the event. A waiter is therefore shared, in turn, by
all the primitives its thread uses: a signal that is sent late by one of them
would be taken for a hand-off by another. That is the central invariant of the
library, and it is what `SignalExpected`, `VerifiesHold`, `AssertionsHold` and
the refinements are about. The condition variable and the monitor hand the waiter from one
primitive to another (a `signal` may move the waiter straight to the lock's
queue). Bit locks keep their waiters in hashed
lists, each under a reader-writer lock of its own; the delegate and the counter
use a bit lock and stack events; adlist uses a small reader-writer lock for each
element.

What is hard: every operation is a few atomic accesses of several threads, with
local snapshots in between (`interleaving`, `stale_state`); lists are detached
by one swap and walked or put back later (`atomicity`); a deadline races with a
signal already on its way (`timeout_retry`); a swap fails and the loop
continues with links prepared for the old value; the count of readers and the
tag of the stack wrap (`numeric_edge`). The list, with lines and the
properties aimed at each, is in `PROJECT.json` under `hazards`.

There is no persistence, no crash recovery and no message passing.

## Modules

One step of a model is one atomic access of the shared words, or of a link
another thread may read, together with the local computation up to the next
one. A thread's `pc` says before which access it is; the names of the actions
and of the `pc` values follow the functions. Each primitive of `lw_atomic.h`
is one indivisible step (the x86 lock-prefixed instructions they compile to);
weaker memory orderings are not modelled. An aborted `lw_verify`/`lw_assert`
is a property, not a step.

| module | models | notes |
|---|---|---|
| `FairLock` | abstract | owner and queue: acquire, enqueue, pass to the oldest, release |
| `LwMutex` | `lw_mutex.c` | `val` the word; `old`, `cur` the locals; `Internal(t)` all the steps inside calls, `Call(t)` the starts of calls. History: `fifo`, the arrival order |
| `LwMutex2b` | `lw_mutex2b.c` | `chain`, the history, is the owner followed by the waiters |
| `ThreadEvent` | `lw_thread_event_*` of `lw_waiter.c` | the condition variable of pthread is external: spurious wakeups and a timeout that coincides with a signal are actions. It has no specification of its own: `StackEvent` composes it with its client |
| `StackEvent` | `lw_event.c`, with the `ThreadEvent` of the waiter on the stack | `frame` tells whether the stack waiter is alive; `Uninitialized` is the set of values the unassigned `wait_res` may hold; `lost` is history: a wait that had its signal returned such a value other than 0 |
| `CondVarSpec` | abstract | who waits, who was woken and what the wait returned |
| `CondVar` | `lw_cond_var.c`, `lw_waiter_wake_all`, the mutex cases of `lw_lock_common.h` | sections under `waitq_lock` are one step, the mutex of the client is `FairLock`'s state with the signal of the hand-off kept separate, because the event is the one the condition variable uses too |
| `StackSpec` | abstract | a sequence and what every thread has in hand |
| `LfStack` | `lf_stack.c` | `Use` lets a client write anything into an element it popped, so `pop` may read garbage from a stale top |
| `RwLockSpec` | abstract | `mode` of every thread and the queue; an `unfair` lock may be overtaken |
| `RwLock` | `lw_rwlock.c` | shared and exclusive lock, try and deferred forms; unlock passes on to a run of readers, to a writer, or (unfair) separates and puts back; `mode` and `queue` are history. `client` is the program, chosen in the initial state from `Clients` |
| `MonitorSpec` | abstract | of every word the owner, the threads that queue for it and those in a condition wait; moving all of them to another word |
| `BitLock` | the exclusive locks of `lw_bitlock.c`, 32 and 64 bits; the way `lw_monitor.c` uses rekey | `word` has the bits and the payload, `list` the hashed wait lists, `mutexq` the lock of each list (the fair lock that `RwLock` implements), on whose waiters the same events are used. Steps under the lock of a list are one step with their access to the word. `Retire` stands for the part of `lw_monitor_lock` that makes a word unreachable before it is rekeyed: without it `complete_wait` would miss its word. `owner` is history |
| `BitRwLock` | the reader-writer locks of `lw_bitlock.c` | `word` has the writer bit and the count of each lock, which means four things; `list` the one wait list they share, `mutex` its lock, `tag` the tag of each waiter, which its thread also reads and writes without that lock. `mishap` is history: a tag was written back over a newer one, or an unlock found a waiter of another word |
| `Delegate` | `delegate.c` | `word` is the state word, with the lock and wait bits of a `BitLock` and the units of a counter; `incoming_stack` and `next` the stack, pushed as the code does it, with two reads of its head; `queued_jobs`, `blocked_jobs` the lists of the holder. `client` is the program, chosen in the initial state from `Clients`: the operations of each thread and the owner of each job. It has no specification of its own |
| `Counter` | `counter.c`, composed with `Delegate` | `word.available`: the free that makes the runner's release swap fail is the coupling. `allocated` is what the clients have. History: `torn`, a push whose two reads of the head differed has succeeded; `overlooked`, the runner's snapshot got an incoming bit it had not acted on; `ahead`, the allocations known to wait when each job came |
| `AtomicList` | `atomic_list.c` | HEAD and TAIL are nodes, so that an operation at an end is one in the middle; `lock` has the owners and the queue of each fair lock (`RwLockSpec`), `ref` the reference count with the waiters it names, `cur`, `back` the iterator; `owed` is history |

The `MC` modules say which thread uses which operation and, for `RwLock`, which
threads are interchangeable; the other modules are run as they are.
`xxxProofs.tla` hold the theorems; those of the list rest on `AtomicListInv`, its
inductive invariant. `Filters` has the operator that picks some members of a
list, which `BitLock` and `RwLock` share.

What the models ask of clients, besides that only a holder unlocks:

 - `Delegate`: a job is submitted again only after its event was waited for or a
   cancel took it back, it is cancelled by one thread at a time and after its
   submit has returned, and unblocked once, after its function asked for it.
 - `Counter`: no more is freed than was allocated.
 - `AtomicList`: an element is inserted by a thread that has it to itself; a
   thread has one iterator and moves it between two pops. A second pop without a
   move would find `return_current` set (`src/atomic_list.c:1429-1434`) and not
   search; the search of `UncountWait` is for the pops that this rule allows.

`BitRwLock` asks nothing: its readers and writers come and go as they like.

## Runs

All state spaces are finite without a bound except where one is named.

| run | instance | shows |
|---|---|---|
| `mutex` | 3 threads | exclusion, run-time checks, implements `FairLock`, a queued thread gets the mutex although arrivals make the swap of `unlock` fail. Three threads give a queue of two that is handed over while its old owner queues again behind it, so that a walk meets prev pointers of an earlier one; the theorems cover every number of threads |
| `mutex2b` | 4 threads | the same for the 2-byte mutex; four so that the walk to the oldest waiter has two links while another thread arrives |
| `stack_event` | 3 uses, 3 timeouts each, an unassigned `wait_res` of 0, `ETIMEDOUT` or neither | the signaller never touches a dead frame; nobody sleeps over a signal, whatever timeouts and spurious wakeups come between; the owner gets its signal, or is told something else by the unassigned value, and only then; a reused event starts clean |
| `condvar` | 4 threads; either wait, signal, broadcast, or timedwait, wait, signal (chosen in the initial state) | two waiters in a detached list, one that arrives meanwhile and one that broadcasts; a deadline that races with a signal neither loses it nor leaves it behind; waits return with the mutex, nobody is notified twice |
| `condvar_mixed` | 3 threads: timedwait, broadcast | violation: see findings |
| `lfstack` | 3 threads, 2 elements, 5 calls | no element lost or duplicated, with clients scribbling over popped ones; linearizable; calls return. Five calls cover the shortest ABA (a pop stalled over pop, pop, push) with one call to spare |
| `rwlock` | 3 threads, every operation, a fair and an unfair lock; 5 threads, 1 call each, roles fixed, unfair (all in one set of initial states) | exact count and queue, hence exclusion; assertions; first come first served for the fair lock, and the unfair one that takes its queue apart loses nobody. The five are a holder, two queued writers that are put back, a writer that arrives meanwhile and a reader that upgrades |
| `rwlock_live` | 3 threads: one upgrades, one downgrades | nobody waits for ever for a fair lock; who was passed a lock of either kind is signalled and returns. A writer queued for an unfair lock may starve, as the name says |
| `bitlock` | 3 threads, 2 words on one list, 2 payloads of one word | each word is a monitor although the waiters share a list; the bits tell who waits, also across rekey; signals for the list's lock and for the word never meet; assertions; a queued thread gets the word. Three threads give two waiters of different kinds behind one owner, a signal that leaves one of two condition waiters, a rekey that moves a waiter that was notified, and an unlock that has to wait for the list while its thread is queued for the other word |
| `bitrw` | 5 threads, `MaxReaders` = 3, 3 locks on one list, two of them the same bits of different words; five sets of programs of plain readers and writers | the word tells who has the lock and who waits although the count saturates: five threads give a fourth reader, who holds the lock as an entry on the wait list, and a writer. Assertions; every call returns. All of it until the first `mishap`, which the run reaches in both kinds |
| `counter` | 2 threads, 2 jobs, 2 units; six clients: `Peers` (both submit, cancel, unblock), `Worker` (one posts jobs that block all, the other runs the delegate), `TwoPushers` (both post), `Pool` (both allocate, one waiting for it), `Overlapping` (two allocations of one thread), `Cancelling` (an allocation that is cancelled while it is served) | one place for every job, one runner, nothing left behind at the release unless it was `overlooked`, cancel tells the truth, no allocation overtakes one that was known before it, what is to be run is run. All of it until a `torn` push, which the run reaches. Two threads suffice for every race between a runner and one thread that pushes, frees or cancels, and for a push that is torn by a second one; two jobs give a queue of two allocations |
| `atomic_list` | 3 threads, 3 elements, eight stories | sound links, pinned elements stay, iterators miss nothing, assertions, every call returns. Three elements give a removal whose two neighbours are removed at the same time; three threads put an iterator between them. `Ends`, `Neighbours` and `Backward` set removals against each other and against backward walks, `Meeting` has two iterators that remove, `Again` reinserts, `Beside` and `Before` insert at an element whose neighbours change, `Empty` empties the list |

`ReaderMod` and `TagMod` stand for 2^14 and 2^32 and are larger than what the
instances can count. Deadlock is not checked where calls are bounded or where
all threads may legally sleep (a condition variable nobody signals).

`bitrw` and `counter` do not go on from a state in which the program has gone
wrong for good (`CONSTRAINT Unharmed`, `CONSTRAINT Intact`). This hides nothing:
the two conditions are never true again once they are false, every invariant is
an implication from them, and the leads-to properties are fulfilled by the state
that breaks them. A behaviour that could only go on into such a state does not
count as fair if it stops before it, since the action stays enabled.

Symmetry is used in `RwLock` only, between threads with the same operations, and
only in runs without liveness properties.

For every property there is a mutant of a modelled definition, a plausible bug
(a dropped guard, a missing reset, a swapped order), under which TLC finds the
property violated with the same configuration; they are the definitions whose
comment says `Mutant`, and `PROJECT.json` lists them.

## Fairness

`WF(Internal(t))`: a thread inside a call that can take a step takes one. It
is what an operating system that runs every ready thread gives. A sleeping
thread is not ready until its signal is there, so nothing is assumed about
wakeups. `WF(Unlock(t))`, or `SF` where the client has other things to do with
the lock in hand (wait, downgrade, upgrade): a client does not hold the lock
for ever; without it no lock is live. In `BitLock` it is stated per word: only
its holder can unlock it. In `StackEvent` the job completes and its
owner waits for it, which is how `delegate.c` and `counter.c` use the event. No
fairness is assumed of the starts of calls, of timeouts except that a deadline
passes (part of `Internal` in `CondVar`, since time goes on), or of spurious
wakeups.

In `BitRwLock` and `AtomicList` the threads run finite programs, so one weak
fairness condition on all of them together is enough: some thread that can go
on does. It includes the end of each lock section and of each pin. In `Counter`
a thread in a call goes on; a client's job that is run again and again is done
some day (`SF`: it may yield and block in between); a client that uses
`delegate_run`, or that frees, does so again and again. Without the last two
a job that blocked the delegate is never looked at again, which is how it is
meant.

`JobsFinish` is about jobs the delegate has been given: the push that gives them
is lock-free, and a thread may fail at it for ever while others push and drain.
`CallsReturn` of `lfstack` holds because calls are bounded: the stack is
lock-free, not wait-free.

## Proofs

The theorems hold for every set of threads (and, for the stack and the list,
every number of elements), from the assumptions named in the modules: NULL is
no thread; for the stack, a finite set of threads and fewer calls than the tag
has values; for the condition variable, a finite set of threads; for the list,
finite sets of threads and elements; for the bit locks, words that are numbered
in the order in which they are locked, and that NULL and the temporary waiters
are distinct from threads; for the reader-writer lock, a finite set of threads,
fewer than the count of readers has values; and what is listed below.

`LwMutexProofs`. `TypeCorrect`, `Invariance`, `MutexSafety`, `VerifySafety`,
`FairLockRefinement`. Exclusion is not inductive: that the unlocker's walk ends
at the right waiter depends on all the links. `IInv` says
 - `OwnerInv`: the word's owner is the one thread that holds the mutex, or the
   one it was passed to and that has a signal pending or coming;
 - `QueueInv`: `fifo` lists the waiters without repetition and its last is the
   word's `waitq`;
 - `NextInv`: the next pointers of the waiters spell `fifo` backwards, and the
   oldest one's ends the list or still names the waiter being unlinked;
 - `PrevInv`: prev pointers are unset or right, whatever walk set them;
 - `WalkInv`: the cursor of an unlock is on the queue, and everything behind it
   towards the snapshot has its prev pointer.
The refinement maps the word's owner and `fifo` to `FairLock`: the successful
swaps are the abstract steps and all others stutter.

`LwMutex2bProofs`. The same four results. `ChainInv`: from the word the next
pointers spell `chain` down to the owner; an arrival only extends it at the
newest end, so a waiter found to be the oldest stays so (`LocalsInv`). The
owner needs no field in the word: it is the one at the end (`OwnerInv`).

`LfStackProofs`. `Invariance`, `NoLoss`, `StackRefinement`. `LinkInv`: the links
from `top` spell `stk`. `EachElementOnce`: an element is on the stack, in the
hands of one thread, or in one call. `TagInv`: a snapshot's tag is at most the
current one, counts calls, and while it is equal the top has not changed since
(that is what rules out ABA, and why calls are bounded by the tag's period);
`LocalsInv`: hence a pop whose swap can succeed has read the right successor.

`StackEventProofs`. `Invariance`, `FrameSafety`, `Rendezvous`, for any number of
uses and timeouts. `IInv` (in `StackEvent`) says that the tag counts the arrivals
still to come (`TagInv`), that the frame and `wait_src` are there from the
publication until both sides have passed the tag (`FrameInv`), and how the
thread event inside the frame stands (`EventInv`), and that the owner of a sent
signal has it, is about to return with it, or has lost it to an unassigned
result (`ReceiptInv`). All three hold whatever `Uninitialized` is.

`CondVarProofs`. `Invariance`, `WaiterHoldsMutex`, `SignalsExpected` and
`Refinement` (of `CondVarSpec`), for every set `Clients` of programs none of which
has both a thread that waits with a deadline and one that broadcasts
(`Separated`); `condvar_mixed` shows that this hypothesis is needed. That a signal
is not mistaken is not inductive: it depends on every signal in flight and on
who is linked where. `IInv` says
 - `MutexInv`: the mutex belongs to the one thread inside, or to one that waits
   for it and is no longer queued;
 - `Linked`: there are disjoint sequences of threads, one for the queue and one
   for each broadcast under way, that the heads and the next and prev pointers
   spell, but for the prev of the first of a detached one; who is on none of them
   has both pointers cleared;
 - `SignalOK`: who is on a list waits; a thread has a signal, or one thread that is
   about to send it one, never both, exactly when it waits and is on no list or
   was handed the mutex;
 - `LocalOK`: the locals of a thread where it is. Together with `Separated` it
   gives `StillQueued`: while there are deadlines no list is detached, so a
   timed-out waiter that finds itself linked is on the queue.
The lists are manipulated by four lemmas without state (`Enqueued`, `Dequeued`,
`Detached`, `Popped`), the signals by four about what a step does to one
(`SignalsStill`, `SignalDue`, `SignalSent`, `SignalTaken`). `Found` shows that the
recursive function behind `WaitList` computes the linked sequence: a solution of
its equation is exhibited, and two solutions agree at the least argument at
which they could differ (`Least`), which takes the place of an induction.
The abstract steps are `Wait`, the end of a wait, the accepted timeout, and the
two sections of signal and broadcast under `waitq_lock`; all others stutter.

`AtomicListProofs`. `Invariance`, `ListSoundness`, `NothingDangles` and
`NoAssertionFails`: for any finite sets of threads and elements, any initial list
and any programs of the threads, from `AtomicListAssumption` (the ends, NULL and
the mark of a finished iterator are no elements) and `ScenariosAssumption` (at
the beginning an element is on the list once, or one thread has it, or
neither). The invariant is in `AtomicListInv`. Its parts need each other:
 - `LocalInv`: the locals of a thread where it is;
 - `LockInv`: which locks a thread must have (`Must`) and may have asked for
   (`May`) at each place, that these are all, and that the fair locks are well
   formed: `WellLocked` says that a writer is alone and nobody is queued twice.
   Who clears an element is the last in the queue of its lock (`EndOK`), and a
   lock of an element off the list is free;
 - `LinkInv`: next and prev agree between `Members`, and the nodes can be
   numbered along next (`Ordered`), so that there is no cycle;
 - `NearInv`: how the nodes a thread works with lie to each other, and what keeps
   them on the list meanwhile: a lock, a pin, or its own claim (`Anchored`);
 - `PinInv`: the pin count of an element is the number of pairs of a thread and
   one of the four ways in which it can hold the element (`Tokens`);
 - `ClaimInv`: a masked element on the list is being inserted or removed by
   exactly one thread, and an element off the list is nobody's or one thread's;
 - `WaitInv`: a remover that goes on has no pins left on its element, one that
   waits is the only name in the wait id while there are pins, and a backward
   search waits only for a removal that will wake it;
 - `CountInv`: what `list->count` counts.
The argument is rely-guarantee. `Rely(t)` says what a step of
t may do to what others depend on: it changes links only of nodes it has locked
for writing or of the element it inserts, only the element it removes leaves
the list, none without pins is pinned anew once it is masked, and whom it does
not wake still waits. `NearOthers`, `WaitOthers`, `OthersLocks` show that a step that
keeps to it preserves the parts of IInv about the others; so a step lemma has
only to look at its own thread. Lemmas of their own say what a request and an
unlock do to one lock and its queue (`RequestOne`, `UnlockOne`, `BatchIsPrefix`)
and how the pins are counted (`PinsCounted`). That the list has no cycle
after an insertion is shown with a numbering twice as wide (`Linking`), since
induction over the list is out of reach of the provers.

`RwLockProofs`. `InvHolds`, `CountsAreExact`, `QueueIsExact`, `AssertionsAreTrue` and
`FairLocksImplement` (of `RwLockSpec`): for any programs, with upgrades and
downgrades, that initialise the lock without `LW_RWLOCK_UNFAIR` (`FairLocks`, the
hypothesis of each; the fair lock is what the rest of the library uses). That
the word and the links are right depends on what threads remember: an unlock
acts on a snapshot, cuts a group off the queue before its swap and keeps it
when the swap fails, while others queue and one reader may put itself in at
the far end. `IInv` says
 - `LocalOK`: what each thread holds where it is, and the tag it waits with;
 - `HoldInv`: the word counts the readers and has the writer, who is alone;
 - `QueueInv`: the waiters are in `queue` once, an upgrade only as the first and
   only while readers hold the lock, readers are first only behind a writer, and
   there are waiters only while the lock is held;
 - `CutInv(k)`: the k oldest have been cut off, by the one thread whose `wait_list`
   names them; the links spell the rest and the group; the group is the one a
   fair unlock serves (`Serves`), however many have queued since;
 - `SnapOK`: a thread that goes on to pass the lock on holds it alone, and the
   waiter its snapshot names is still linked above the cut, so that its walk ends
   at the oldest; an inserting reader stands on a queued waiter; who has queued
   for a downgrade is still the oldest;
 - `WakeInv(L)`: the waiters each unlock has still to signal are linked in the
   order L, on one such list each, hold the lock already and have no signal
   pending; all other threads that hold it unknowingly have one.
The number k and the lists L are quantified in `IInv`, since a term for them would
need recursion along the links. Seven lemmas say what a kind of step does to
all of it (`QuietStep`, `AppendStep`, `PrependStep`, `CutStep`, `PassStep`,
`SignalStep`, `WokenStep`, with `CalmStep` for a change of the word alone), and the
lemma of an action shows it to be of a kind. `ChainIs`, `GroupIs` and `FilterDrops`
show what `Chain`, `Group` and `Filter` compute, by the least argument as above. The
abstract steps are the successful swaps and the links that put a thread in
first; `Pass` is the swap of `FairTurn`.

`BitLockProofs`. `InvHolds`, `BitsAreExact`, `AssertionsAreTrue` and
`BitLocksAreMonitors` (of `MonitorSpec`): for any sets of threads and words, any
`Hash` of the words to lists and any `Ops` of the threads. The bits of a word are
not inductive for three reasons. They are wrong in the middle of a call:
`cvwait` sets its bit before it is on the list, a notification and a rekey
change the lists in one section and the bits one by one afterwards. Whether a
wait bit is right depends on who is on a list that belongs to several words,
whose order decides who is woken. And a rekey is right only because nobody can
still come for its word. `Inv` has
 - `LocalOK`: for each operation where a thread may be and what it has then: its
   words, the word it waits for, the waiters it moves and the bits it has still
   to write. `Stage` is where the thread will be once it has woken the next user
   of a list, a step that comes between two of its own;
 - `MutexInv`: the lock of a list is a queue of the waiters of those who contend
   for it, the temporary ones included, and only its first is inside;
 - `OwnerInv`: a word is with the one thread it was given to, which holds it, waits
   for it and has not noticed yet, or is about to pass it on; while it is free
   nobody is queued for it;
 - `QueueInv`: who waits is on the list of its word, or carried by one rekey, and
   nowhere twice;
 - `WakeInv`: a signal pending, or about to be sent by one thread, is for the wait
   its receiver is in: that for a word it was given or that for the lock of a
   list of which it is first. Both use the same event, which is the hazard;
 - `BitsInv`: a bit is right, or its right value is pending with the owner of the
   word and it alone;
 - `RetireInv`: nobody goes for a retired word but who retired it, and it comes
   behind all who have a `complete_wait` on that word to come;
 - `PayloadInv`: who asked for a payload has the word with it or is yet to look.
The many actions do only ten things to the words and
lists (get a free word, free it, queue, hand over, begin and end a call, notify,
move, append, write a bit): `ObtainData` to `ChangeData` show each to preserve the
part of `Inv` about them; four lemmas do the same for the locks of lists and four for
the signals. `QuietStep` and `SectionStep` put these together, so that the proof
for an action names the kind of its step and looks at its own locals.
`FilterSelects` shows what the recursive function that takes the waiters of one
word from a list computes, by the least argument as above. For the refinement
`SetsAre` rewrites the queues and wait sets of `MonitorSpec`; each kind of step
then maps to one abstract action, and bits, list locks and signals to
stuttering.

The inductive invariants were checked by TLC, on the instances of the runs,
before they were proved (with `Ordered` restricted to numbers up to 4, and the
lists of the condition variable and of the reader-writer lock computed from the
pointers).

Only model-checked: all liveness and the absence of deadlock (the prover has no
fairness reasoning and no ENABLED); of the list, `IterComplete` (that an iterator
returns all it owes is about the order of the elements on the two sides of it,
and needs reachability along the links, hence induction); the unfair
reader-writer lock, whose unlock puts writers back into a queue that is being
used, so that `CutInv` and `SnapOK` would have to describe a queue in two pieces
and whoever walks between them; the delegate with the counter, for which no
inductive invariant has been written; and the reader-writer bit lock, whose
properties hold until a mishap only, so that its invariant would have to say how
far every unlock is from one.

## Findings

`condvar_mixed`. A waiter that times out while a broadcast walks the detached
queue cannot tell that it is on it: `prev` is cleared by the walk, not by the
detaching. It unlinks itself and returns, gets the broadcast's signal later,
and takes it for the hand-off of the mutex it waits for. Timed waits with
`signal` only, and broadcast with untimed waits only, are right (`condvar`).

In the following cases the code does not do what it says. They all happen in the
passing runs, and a history variable notes each of them; the properties hold up
to that event, or except for it, and for nothing less: without the exception TLC
finds each violated. So the runs show that these are the only ways in which the
properties fail in the instances.

 - `lost`, in `stack_event`: `lw_stack_event_wait` (`src/lw_event.c:16`) returns an
   unassigned `wait_res` when the signal comes between its test of the tag and
   its decrement (lines 33-34); a caller who takes it for a timeout waits again
   for a signal it has had (`lw_event_wait` verifies that an untimed wait returns
   0, `src/lw_event.h:82`). `OwnerReceives` without `\/ lost` is violated.
 - `torn`, in `counter` (`TwoPushers`, `Pool`): `push_incoming` reads the head of
   the stack twice (`src/delegate.c:96-100`). When another push gets between the
   two reads and the runner empties the stack, the swap succeeds with a link to
   a job that was already taken. `JobsAccounted` without `Intact` is violated.
 - `overlooked`, in `counter` (`Pool`, `Overlapping`, `Cancelling`):
   `counter_reserve_work` hands the word it has written to the runner as its new
   snapshot (`src/counter.c:52-54`). If a job came in meanwhile the snapshot has
   `incoming` set, the swap that gives up the lock succeeds
   (`src/delegate.c:233-238`), and nobody looks at the job until the next call,
   although the comment at line 217 says that the runner drains and runs "until
   it is all done". `NoneLeftBehind` without `overlooked` is violated. Such a job
   is late, not lost: `StrictlyFair` and `JobsFinish` have no exception for it,
   since a later free finds the incoming bit and a later allocation does not
   pass it.
 - `"tag"` in `mishap`, in `bitrw`: `rw_complete_wait` writes the tag of its waiter
   back without the lock of the list (`src/lw_bitlock.c:1488-1491`) while a
   `readunlock` that takes the waiter off the list changes it under that lock
   (lines 1749-1751). The assertion at line 1690 or the check at 1710 then fails.
 - `"word"` in `mishap`, in `bitrw` (`Shared(c)`): `find_next_matching_waiter`
   (`src/lw_bitlock.c:1627-1655`) compares the bits a waiter waits for, not its
   word, so two words that use the same bits and hash to one list wake each
   other's waiters. With `Unharmed` about one kind of mishap only, `WordExact` is
   violated by the other one, and a tag overwritten breaks `AssertionsHold`.

One more can be read off the code. `adlist_iter_seek`
(`src/atomic_list.c:1565-1584`) leaves `return_current` as it is, so that after a
pop the next call returns the element sought itself and not the one after it,
which is what the comment above it says.

## What is left out

 - `lw_cycles.*`, `lw_magic.h`, `lw_util.h`, `lw_types.h`, `murmur.h`,
   `lw_compiler.h`: statistics, tags, macros and a hash, with no protocol.
 - `lw_lock.c`: sequential calls of initialisers.
 - `lw_atomic.*`: the primitives are the steps of the models.
 - debug-only helpers that read shared state racily and only assert.
 - pthread objects: external, modelled by what the callers rely on.
 - reader counts and tags that wrap: the assumptions on `ReaderMod` and
   `MaxCalls` exclude it; beyond them exclusion and `NoLoss` do not hold.
 - `lw_waiter.c` other than the thread event: allocation of waiters and ids. That
   the last id of the last block is the null id (`src/lw_waiter.c:229`) is not
   covered by a property.
 - `lw_monitor.c` other than its use of rekey, which is in `BitLock`.
 - `slist32.c`, `ptr_map.c`, `lw_dlist.c`: sequential; one thread calls them under a
   lock of its own.
 - of the bit locks, `swap_payload` by threads that do not hold the lock; of the
   delegate, `DELEGATED_RELOAD`, which leaves the lists to the job, and `deinit`,
   which verifies that the lists are empty; of adlist, the debug counters.
 - what the program does after a torn push or a mishap of the bit locks: the
   models take the step, the runs end there.
 - in `AtomicList`, the two unlocks at the end of `_adl_last`
   (`src/atomic_list.c:673-674`) are one step, `PrevCross`. Nobody tries a lock or
   looks at its state, so the second unlock can only let a thread go on that
   would otherwise sleep in the queue; had it come at once, that thread would
   have been granted the lock on request and the states after it are the same.

## Plan

Done: the events, mutexes, condition variable, stack, reader-writer lock, both
kinds of bit lock, delegate, counter and atomic list, and proofs for both
mutexes, the stack, the stack event, the condition variable, the atomic list,
the exclusive bit locks and the fair reader-writer lock. Left, in this order:

 1. `Monitor` on top of `BitLock`: the chain of monitors of a pointer, the search
    in it, insertion of a second copy and its removal by `Retire`. It should
    show that the rule `BitLock` takes from it really holds.
 2. `WaiterDomain`: growth of the array of blocks, the last id.
 3. `SList32`, `Dlist`: operations against sequence operators on bounded inputs.
 4. Condition variable with reader-writer and bit locks.

Theorems still worth proving, in this order: `RwLockProofs` without `FairLocks`;
`JobsAccounted` for the lists of the delegate; `WordExact` of `BitRwLock`.
