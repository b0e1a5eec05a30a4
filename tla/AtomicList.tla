------------------------------- MODULE AtomicList ------------------------------
(***************************************************************************)
(* The doubly linked list of src/atomic_list.c, whose elements have a lock *)
(* and a count of pins each.  The head and the tail of the list are nodes  *)
(* here: next[HEAD] is list->head, and an element whose prev is HEAD has   *)
(* the prev NULL of the code.  The lock of node HEAD is head_lock.  With   *)
(* that, to insert at the front is to insert after HEAD, to append is to   *)
(* insert before TAIL, the first element is the next of HEAD and the last  *)
(* one the prev of TAIL.                                                   *)
(*                                                                         *)
(* Locks are taken in the order of the list.  Who has a node and wants the *)
(* one before it queues for that without waiting, gives up its own, waits, *)
(* takes its own again and looks whether the list has changed.             *)
(*                                                                         *)
(* The locks are fair reader-writer locks, as RwLockSpec describes them: a *)
(* thread that has queued is given the lock by the one that gives it up.   *)
(* One step is one request of a lock, one access to a reference count, or  *)
(* one unlock; an access to the links, which only the locks protect, goes  *)
(* with the step before or after it.                                       *)
(***************************************************************************)
EXTENDS Integers, Sequences, SequencesExt, FiniteSets

CONSTANTS Threads, NULL,
          Elems,      \* the elements there are
          HEAD, TAIL, \* the two ends of the list
          Done,       \* current_elem of an iterator at its end
          Scenarios   \* what is on the list, and what the threads do

Nodes == Elems \cup {HEAD, TAIL}

(* The calls of a client: adlist_iter_next of a forward and a backward     *)
(* iterator, adlist_iter_pop_start and _finish of the two,                 *)
(* adlist_iter_seek, adlist_iter_destroy, the removals and the insertions. *)
OpNames == {"fwd", "bwd", "fwdpop", "bwdpop", "seek", "stop",
            "delete", "dequeue", "pop", "front", "append", "before", "after"}

(* seek and delete name an element; an insertion may return its pinned. *)
Op == {o \in [op : OpNames, elem : Elems \cup {NULL}, pin : BOOLEAN] :
          o.op \in {"seek", "delete"} => o.elem # NULL}

ASSUME AtomicListAssumption ==
    /\ IsFiniteSet(Threads) /\ IsFiniteSet(Elems)
    /\ HEAD \notin Elems /\ TAIL \notin Elems /\ HEAD # TAIL
    /\ NULL \notin Nodes /\ Done \notin Nodes /\ Done # NULL
    /\ NULL \notin {"iter", "peek", "again", "remove"}

(* An element is on the list once, or one thread has it, or neither. *)
ASSUME ScenariosAssumption ==
    \A s \in Scenarios :
        /\ s.list \in Seq(Elems) /\ \A i, j \in 1..Len(s.list) : s.list[i] = s.list[j] => i = j
        /\ s.prog \in [Threads -> Seq(Op)]
        /\ s.mine \in [Threads -> Elems \cup {NULL}]
        /\ \A t \in Threads : s.mine[t] # NULL =>
              /\ \A i \in 1..Len(s.list) : s.list[i] # s.mine[t]
              /\ \A u \in Threads : s.mine[u] = s.mine[t] => u = t

VARIABLES
    prog,    \* the calls each thread still has to make or is in
    next, prev, \* the links of the nodes; NULL is ADL_DBG_BADELEM
    lock,    \* the lock of each node: its owners and its queue
    ref,     \* refcnt of each element: mask, pin_count and wait_id
    count,   \* list->count
    signal,  \* the event of each thread
    cur,     \* current_elem of the iterator of each thread
    back,    \* return_current of it
    mine,    \* an element the thread has and no list has
    owed,    \* what the iterator has yet to return (no state of the code)
    local    \* where each thread is, and its locals

links == <<next, prev>>
iter == <<cur, back, owed>>
vars == <<prog, links, lock, ref, count, signal, iter, mine, local>>

(* n is the node a thread works from, x its neighbour or a result, el the  *)
(* element it removes or inserts, pinned what it has still to unpin, then  *)
(* what it does with the element it looks for.                             *)
Idle == [pc |-> "idle", n |-> NULL, x |-> NULL, el |-> NULL, pinned |-> NULL,
         then |-> NULL]

Free == [own |-> {}, excl |-> FALSE, queue |-> <<>>]

(* adl_init, and the insertions before the story begins. *)
InitList(s) ==
    LET chain == <<HEAD>> \o s.list \o <<TAIL>>
        Pos(n) == CHOOSE i \in 1..Len(chain) : chain[i] = n
    IN  /\ next = [n \in Nodes |-> IF n \in ToSet(chain) \ {TAIL}
                                   THEN chain[Pos(n) + 1] ELSE NULL]
        /\ prev = [n \in Nodes |-> IF n \in ToSet(chain) \ {HEAD}
                                   THEN chain[Pos(n) - 1] ELSE NULL]
        /\ ref = [e \in Elems |->
                     [mask |-> e \notin ToSet(s.list), pin |-> 0, wait |-> {}]]
        /\ count = Len(s.list)
        /\ prog = s.prog
        /\ mine = s.mine

Init ==
    /\ \E s \in Scenarios : InitList(s)
    /\ lock = [n \in Nodes |-> Free]
    /\ signal = [t \in Threads |-> FALSE]
    /\ cur = [t \in Threads |-> NULL]
    /\ back = [t \in Threads |-> FALSE]
    /\ owed = [t \in Threads |-> {}]
    /\ local = [t \in Threads |-> Idle]

At(t, p) == local[t].pc = p
Goto(t, p) == local' = [local EXCEPT ![t].pc = p]

Call(t) == Head(prog[t])
Calls(t, ops) == prog[t] # <<>> /\ Call(t).op \in ops

(* The call is over. *)
Return(t) ==
    /\ local' = [local EXCEPT ![t] = Idle]
    /\ prog' = [prog EXCEPT ![t] = Tail(@)]

-------------------------------------------------------------------------------
(* The fair locks: adl_lock_sync, adl_lock_async and adl_unlock. *)

Grantable(l, excl) ==
    l.queue = <<>> /\ (l.own = {} \/ (~excl /\ ~l.excl))

(* Lock l once t has asked for it: it has it, or it is queued. *)
Requested(l, t, excl) ==
    IF Grantable(l, excl) THEN [l EXCEPT !.own = @ \cup {t}, !.excl = excl]
    ELSE [l EXCEPT !.queue = Append(@, [thread |-> t, excl |-> excl])]

Request(lk, n, t, excl) == [lk EXCEPT ![n] = Requested(@, t, excl)]

(* The oldest waiter if it is to write, or the readers before the first    *)
(* writer.                                                                 *)
Batch(q) ==
    {i \in 1..Len(q) : (i = 1 /\ q[1].excl) \/ \A k \in 1..i : ~q[k].excl}

Pass(l) ==
    LET B == Batch(l.queue) IN
    [own |-> {l.queue[i].thread : i \in B},
     excl |-> \E i \in B : l.queue[i].excl,
     queue |-> SubSeq(l.queue, Cardinality(B) + 1, Len(l.queue))]

(* Lock l once t has given it up. *)
Unlocked(l, t) == IF l.own = {t} THEN Pass(l) ELSE [l EXCEPT !.own = @ \ {t}]

Unlock(lk, n, t) == [lk EXCEPT ![n] = Unlocked(@, t)]

Owns(t, n) == t \in lock[n].own

-------------------------------------------------------------------------------
(* The reference counts. *)

OnList(e) == next[e] # NULL

(* adl_elem_pin *)
Pinnable(e) == ~ref[e].mask
Pin(e) == ref' = [ref EXCEPT ![e].pin = @ + 1]

(* Mutant of Unpin: nobody is woken by the last pin. *)
UnpinQuiet(e) ==
    /\ ref' = [ref EXCEPT ![e].pin = @ - 1]
    /\ UNCHANGED signal

(* adl_elem_unpin: the last pin of a masked element wakes who removes it. *)
Unpin(e) ==
    LET last == ref[e].mask /\ ref[e].pin = 1 IN
    /\ ref' = [ref EXCEPT ![e].pin = @ - 1, ![e].wait = IF last THEN {} ELSE @]
    /\ signal' = [u \in Threads |-> signal[u] \/ (last /\ u \in ref[e].wait)]

-------------------------------------------------------------------------------
(* Looking for the neighbour of node n: adl_next_intern, adl_prev_intern,  *)
(* _adl_first and _adl_last.                                               *)

Find(t, dir, n, pinned, then, el) ==
    /\ lock' = Request(lock, n, t, FALSE)
    /\ local' = [local EXCEPT ![t] = [pc |-> dir, n |-> n, x |-> NULL, el |-> el,
                                      pinned |-> pinned, then |-> then]]

FindAt(t, n, x, p) == local' = [local EXCEPT ![t].pc = p, ![t].n = n, ![t].x = x]

(* Forward, hand over hand across the masked elements. *)
NextElem(t) ==
    LET n == local[t].n
        x == next[n]
    IN  /\ At(t, "next") /\ Owns(t, n)
        /\ IF x = TAIL THEN FindAt(t, n, NULL, "leave") /\ UNCHANGED <<lock, ref>>
           ELSE IF Pinnable(x) THEN Pin(x) /\ FindAt(t, n, x, "leave") /\ UNCHANGED lock
           ELSE /\ lock' = Request(lock, x, t, FALSE)
                /\ FindAt(t, n, x, "hop") /\ UNCHANGED ref
        /\ UNCHANGED <<prog, links, count, signal, iter, mine>>

NextHop(t) ==
    LET n == local[t].n
        x == local[t].x
    IN  /\ At(t, "hop") /\ Owns(t, x)
        /\ lock' = Unlock(lock, n, t)
        /\ FindAt(t, x, NULL, "next")
        /\ UNCHANGED <<prog, links, ref, count, signal, iter, mine>>

(* Backward: a masked element is queued for, and n given up if the queue   *)
(* is not empty.                                                           *)
PrevElem(t) ==
    LET n == local[t].n
        x == prev[n]
    IN  /\ At(t, "prev") /\ Owns(t, n)
        /\ IF x = HEAD THEN FindAt(t, n, NULL, "leave") /\ UNCHANGED <<lock, ref>>
           ELSE IF Pinnable(x) THEN Pin(x) /\ FindAt(t, n, x, "leave") /\ UNCHANGED lock
           ELSE /\ lock' = Request(lock, x, t, FALSE)
                /\ FindAt(t, n, x, IF Grantable(lock[x], FALSE) THEN "look" ELSE "yield")
                /\ UNCHANGED ref
        /\ UNCHANGED <<prog, links, count, signal, iter, mine>>

PrevYield(t) ==
    /\ At(t, "yield")
    /\ lock' = Unlock(lock, local[t].n, t)
    /\ Goto(t, "relock")
    /\ UNCHANGED <<prog, links, ref, count, signal, iter, mine>>

PrevRelock(t) ==
    /\ At(t, "relock") /\ Owns(t, local[t].x)
    /\ lock' = Request(lock, local[t].n, t, FALSE)
    /\ Goto(t, "look")
    /\ UNCHANGED <<prog, links, ref, count, signal, iter, mine>>

(* Has the list changed?  If not, the masked element is pinned nonetheless *)
(* (adl_elem_force_pin_masked), unless its removal has begun.              *)
PrevLook(t) ==
    LET n == local[t].n
        x == local[t].x
    IN  /\ At(t, "look") /\ Owns(t, n)
        /\ IF prev[n] # x
           THEN lock' = Unlock(lock, x, t) /\ Goto(t, "prev") /\ UNCHANGED ref
           ELSE IF ref[x].pin > 0
           THEN Pin(x) /\ Goto(t, "cross") /\ UNCHANGED lock
           ELSE lock' = Unlock(lock, n, t) /\ Goto(t, "defer") /\ UNCHANGED ref
        /\ UNCHANGED <<prog, links, count, signal, iter, mine>>

(* Go on from x.  _adl_last gives up both locks and calls _adl_prev. *)
PrevCross(t) ==
    LET n == local[t].n
        x == local[t].x
    IN  /\ At(t, "cross")
        /\ lock' = IF n = TAIL THEN Unlock(Unlock(lock, n, t), x, t) ELSE Unlock(lock, n, t)
        /\ Goto(t, "crossed")
        /\ UNCHANGED <<prog, links, ref, count, signal, iter, mine>>

PrevCrossed(t) ==
    LET l == local[t] IN
    /\ At(t, "crossed")
    /\ IF l.pinned = NULL THEN UNCHANGED <<ref, signal>> ELSE Unpin(l.pinned)
    /\ lock' = IF l.n = TAIL THEN Request(lock, l.x, t, FALSE) ELSE lock
    /\ local' = [local EXCEPT ![t].pc = "prev", ![t].n = l.x, ![t].pinned = l.x]
    /\ UNCHANGED <<prog, links, count, iter, mine>>

(* adl_elem_delete_wait: let the removal go first. *)
PrevDefer(t) ==
    /\ At(t, "defer")
    /\ ref' = [ref EXCEPT ![local[t].x].wait = @ \cup {t}]
    /\ Goto(t, "deferred")
    /\ UNCHANGED <<prog, links, lock, count, signal, iter, mine>>

PrevDeferred(t) ==
    /\ At(t, "deferred")
    /\ lock' = Unlock(lock, local[t].x, t)
    /\ Goto(t, "asleep")
    /\ UNCHANGED <<prog, links, ref, count, signal, iter, mine>>

PrevAwake(t) ==
    /\ At(t, "asleep") /\ signal[t]
    /\ signal' = [signal EXCEPT ![t] = FALSE]
    /\ lock' = Request(lock, local[t].n, t, FALSE)
    /\ Goto(t, "prev")
    /\ UNCHANGED <<prog, links, ref, count, iter, mine>>

(* The neighbour is found, or there is none: n is given up, *)
Leave(t) ==
    /\ At(t, "leave")
    /\ lock' = Unlock(lock, local[t].n, t)
    /\ Goto(t, IF local[t].pinned = NULL THEN "found" ELSE "unpin")
    /\ UNCHANGED <<prog, links, ref, count, signal, iter, mine>>

(* and the element the search began with is unpinned. *)
LeaveUnpin(t) ==
    /\ At(t, "unpin")
    /\ Unpin(local[t].pinned)
    /\ local' = [local EXCEPT ![t].pc = "found", ![t].pinned = NULL]
    /\ UNCHANGED <<prog, links, lock, count, iter, mine>>

-------------------------------------------------------------------------------
(* Iterators. *)

OrDone(x) == IF x = NULL THEN Done ELSE x

SetIter(t, e, b) ==
    /\ cur' = [cur EXCEPT ![t] = e]
    /\ back' = [back EXCEPT ![t] = b]

Dir(t) == IF Calls(t, {"fwd", "fwdpop", "dequeue"}) THEN "next" ELSE "prev"

(* _adlist_iter_next *)
IterNext(t) ==
    /\ At(t, "idle") /\ Calls(t, {"fwd", "bwd"})
    /\ IF cur[t] = Done
       THEN Return(t) /\ UNCHANGED <<iter, lock>>
       ELSE IF back[t]
       THEN /\ SetIter(t, cur[t], FALSE) /\ Return(t)
            /\ owed' = [owed EXCEPT ![t] = @ \ {cur[t]}]
            /\ UNCHANGED lock
       ELSE IF cur[t] # NULL
       THEN Find(t, Dir(t), cur[t], cur[t], "iter", NULL) /\ UNCHANGED <<prog, iter>>
       ELSE /\ Find(t, Dir(t), IF Dir(t) = "next" THEN HEAD ELSE TAIL, NULL, "iter", NULL)
            /\ owed' = [owed EXCEPT ![t] = {e \in Elems : ~ref[e].mask}]
            /\ UNCHANGED <<prog, cur, back>>
    /\ UNCHANGED <<links, ref, count, signal, mine>>

IterFound(t) ==
    /\ At(t, "found") /\ local[t].then = "iter"
    /\ SetIter(t, OrDone(local[t].x), back[t])
    /\ owed' = [owed EXCEPT ![t] = @ \ {local[t].x}]
    /\ Return(t)
    /\ UNCHANGED <<links, lock, ref, count, signal, mine>>

(* adlist_iter_seek *)
IterSeek(t) ==
    LET e == Call(t).elem IN
    /\ At(t, "idle") /\ Calls(t, {"seek"})
    /\ IF ~Pinnable(e)
       THEN Return(t) /\ UNCHANGED <<ref, iter>>
       ELSE /\ Pin(e)
            /\ SetIter(t, e, back[t])
            /\ owed' = [owed EXCEPT ![t] = {}]
            /\ IF cur[t] \in Elems
               THEN /\ local' = [local EXCEPT ![t].pc = "putback", ![t].pinned = cur[t]]
                    /\ UNCHANGED prog
               ELSE Return(t)
    /\ UNCHANGED <<links, lock, count, signal, mine>>

(* adlist_iter_destroy *)
IterDestroy(t) ==
    /\ At(t, "idle") /\ Calls(t, {"stop"})
    /\ SetIter(t, NULL, FALSE)
    /\ owed' = [owed EXCEPT ![t] = {}]
    /\ IF cur[t] \in Elems
       THEN /\ local' = [local EXCEPT ![t].pc = "putback", ![t].pinned = cur[t]]
            /\ UNCHANGED prog
       ELSE Return(t)
    /\ UNCHANGED <<links, lock, ref, count, signal, mine>>

(* Unpin, and the call is over. *)
PutBack(t) ==
    /\ At(t, "putback")
    /\ Unpin(local[t].pinned)
    /\ Return(t)
    /\ UNCHANGED <<links, lock, count, iter, mine>>

(* adlist_iter_pop_start, of an element adlist_iter_next has returned,     *)
(* pins it once more;                                                      *)
IterPop(t) ==
    /\ At(t, "idle") /\ Calls(t, {"fwdpop", "bwdpop"})
    /\ IF cur[t] \in Elems /\ Pinnable(cur[t])
       THEN /\ Pin(cur[t])
            /\ local' = [local EXCEPT ![t].pc = "mask", ![t].el = cur[t]]
            /\ UNCHANGED prog
       ELSE Return(t) /\ UNCHANGED ref
    /\ UNCHANGED <<links, lock, count, signal, iter, mine>>

(* Mutant of IterPeeked: the element the iterator moved to is not kept for *)
(* the next call.                                                          *)
IterPeekedAdvances(t) ==
    /\ At(t, "found") /\ local[t].then = "peek"
    /\ SetIter(t, OrDone(local[t].x), FALSE)
    /\ Goto(t, IF local[t].x = NULL THEN "settle" ELSE "unpeek")
    /\ UNCHANGED <<prog, links, lock, ref, count, signal, owed, mine>>

(* adlist_iter_pop_finish: the iterator moves to the neighbour, *)
IterPeeked(t) ==
    /\ At(t, "found") /\ local[t].then = "peek"
    /\ SetIter(t, OrDone(local[t].x), TRUE)
    /\ Goto(t, IF local[t].x = NULL THEN "settle" ELSE "unpeek")
    /\ UNCHANGED <<prog, links, lock, ref, count, signal, owed, mine>>

(* but unpins it before it waits for the element to be free, *)
IterUnpeek(t) ==
    /\ At(t, "unpeek")
    /\ Unpin(local[t].x)
    /\ Goto(t, "settle")
    /\ UNCHANGED <<prog, links, lock, count, iter, mine>>

(* and looks for a neighbour again. *)
IterAgain(t) ==
    LET l == local[t] IN
    /\ At(t, "found") /\ l.then = "again"
    /\ SetIter(t, OrDone(l.x), back[t])
    /\ lock' = Request(lock, l.el, t, TRUE)
    /\ local' = [local EXCEPT ![t].pc = "pair", ![t].n = l.el, ![t].then = NULL]
    /\ UNCHANGED <<prog, links, ref, count, signal, owed, mine>>

-------------------------------------------------------------------------------
(* Removal. *)

(* adl_elem_delete of an element its caller has not pinned *)
Delete(t) ==
    LET e == Call(t).elem IN
    /\ At(t, "idle") /\ Calls(t, {"delete"})
    /\ IF Pinnable(e)
       THEN /\ Pin(e)
            /\ local' = [local EXCEPT ![t].pc = "mask", ![t].el = e]
            /\ UNCHANGED prog
       ELSE Return(t) /\ UNCHANGED ref
    /\ UNCHANGED <<links, lock, count, signal, iter, mine>>

(* _adl_dequeue and _adl_pop *)
Dequeue(t) ==
    /\ At(t, "idle") /\ Calls(t, {"dequeue", "pop"})
    /\ Find(t, Dir(t), IF Dir(t) = "next" THEN HEAD ELSE TAIL, NULL, "remove", NULL)
    /\ UNCHANGED <<prog, links, ref, count, signal, iter, mine>>

DequeueFound(t) ==
    LET x == local[t].x IN
    /\ At(t, "found") /\ local[t].then = "remove"
    /\ IF x = NULL THEN Return(t)
       ELSE local' = [local EXCEPT ![t].pc = "mask", ![t].el = x] /\ UNCHANGED prog
    /\ UNCHANGED <<links, lock, ref, count, signal, iter, mine>>

(* adl_elem_mask: who masks the element removes it, at once if nobody else *)
(* has it pinned.                                                          *)
Mask(t) ==
    LET e == local[t].el IN
    /\ At(t, "mask")
    /\ IF ref[e].mask
       THEN Goto(t, "fail") /\ UNCHANGED <<ref, owed>>
       ELSE /\ ref' = [ref EXCEPT ![e].mask = TRUE, ![e].pin = IF @ = 1 THEN 0 ELSE @]
            /\ owed' = [u \in Threads |-> owed[u] \ {e}]
            /\ Goto(t, IF ref[e].pin = 1 THEN "uncount" ELSE "uncountwait")
    /\ UNCHANGED <<prog, links, lock, count, signal, cur, back, mine>>

(* Somebody else removes it. *)
RemoveFail(t) ==
    /\ At(t, "fail")
    /\ Unpin(local[t].el)
    /\ IF Calls(t, {"dequeue", "pop"})
       THEN /\ Find(t, Dir(t), IF Dir(t) = "next" THEN HEAD ELSE TAIL, NULL, "remove", NULL)
            /\ UNCHANGED prog
       ELSE Return(t) /\ UNCHANGED lock
    /\ UNCHANGED <<links, count, iter, mine>>

(* adl_remove_elem_start goes on to adl_remove_elem_do, *)
Uncount(t) ==
    LET e == local[t].el IN
    /\ At(t, "uncount")
    /\ count' = count - 1
    /\ lock' = Request(lock, e, t, TRUE)
    /\ local' = [local EXCEPT ![t].pc = "pair", ![t].n = e]
    /\ UNCHANGED <<prog, links, ref, signal, iter, mine>>

(* or leaves that to the caller; an iterator moves on first. *)
UncountWait(t) ==
    LET e == local[t].el IN
    /\ At(t, "uncountwait")
    /\ count' = count - 1
    /\ IF Calls(t, {"fwdpop", "bwdpop"})
       THEN Find(t, Dir(t), e, e, "peek", e)
       ELSE Goto(t, "settle") /\ UNCHANGED lock
    /\ UNCHANGED <<prog, links, ref, signal, iter, mine>>

(* The element is unpinned: adl_remove_elem_do, but an iterator that is    *)
(* not at its end looks for its neighbour again before that.               *)
GoOn(t) ==
    LET e == local[t].el IN
    IF Calls(t, {"fwdpop", "bwdpop"}) /\ cur[t] # Done
    THEN Find(t, Dir(t), e, NULL, "again", e)
    ELSE /\ lock' = Request(lock, e, t, TRUE)
         /\ local' = [local EXCEPT ![t].pc = "pair", ![t].n = e, ![t].then = NULL]

(* Mutant of RemoveWait: the pins are given up without a wait id. *)
RemoveWaitUnnamed(t) ==
    LET e == local[t].el IN
    /\ At(t, "settle")
    /\ ref' = [ref EXCEPT ![e].pin = @ - 1]
    /\ IF ref[e].pin = 1 THEN GoOn(t) ELSE Goto(t, "await") /\ UNCHANGED lock
    /\ UNCHANGED <<prog, links, count, signal, iter, mine>>

(* adl_remove_elem_wait *)
RemoveWait(t) ==
    LET e == local[t].el IN
    /\ At(t, "settle")
    /\ ref' = [ref EXCEPT ![e].pin = @ - 1, ![e].wait = IF ref[e].pin = 1 THEN @ ELSE {t}]
    /\ IF ref[e].pin = 1 THEN GoOn(t) ELSE Goto(t, "await") /\ UNCHANGED lock
    /\ UNCHANGED <<prog, links, count, signal, iter, mine>>

RemoveAwake(t) ==
    /\ At(t, "await") /\ signal[t]
    /\ signal' = [signal EXCEPT ![t] = FALSE]
    /\ GoOn(t)
    /\ UNCHANGED <<prog, links, ref, count, iter, mine>>

-------------------------------------------------------------------------------
(* Having node n, take the one before it too, for adl_remove_elem_do,      *)
(* adl_insert_elem_before and adl_append_at_end.                           *)

Pair(t) ==
    LET n == local[t].n
        x == prev[n]
    IN  /\ At(t, "pair") /\ Owns(t, n)
        /\ lock' = Request(lock, x, t, TRUE)
        /\ FindAt(t, n, x, IF Grantable(lock[x], TRUE) THEN "paired" ELSE "pairyield")
        /\ UNCHANGED <<prog, links, ref, count, signal, iter, mine>>

PairYield(t) ==
    /\ At(t, "pairyield")
    /\ lock' = Unlock(lock, local[t].n, t)
    /\ Goto(t, "pairrelock")
    /\ UNCHANGED <<prog, links, ref, count, signal, iter, mine>>

PairRelock(t) ==
    /\ At(t, "pairrelock") /\ Owns(t, local[t].x)
    /\ lock' = Request(lock, local[t].n, t, TRUE)
    /\ Goto(t, "pairlook")
    /\ UNCHANGED <<prog, links, ref, count, signal, iter, mine>>

(* Mutant of PairLook: the list is not looked at again. *)
PairLookTrusting(t) ==
    /\ At(t, "pairlook") /\ Owns(t, local[t].n)
    /\ Goto(t, "paired")
    /\ UNCHANGED <<prog, links, lock, ref, count, signal, iter, mine>>

(* Has the list changed? *)
PairLook(t) ==
    LET n == local[t].n
        x == local[t].x
    IN  /\ At(t, "pairlook") /\ Owns(t, n)
        /\ IF prev[n] # x
           THEN lock' = Unlock(lock, x, t) /\ Goto(t, "pair")
           ELSE Goto(t, "paired") /\ UNCHANGED lock
        /\ UNCHANGED <<prog, links, ref, count, signal, iter, mine>>

Inserts(t) == Calls(t, {"front", "append", "before", "after"})

(* adl_remove_elem_do takes the node behind the element as well, *)
RemoveNext(t) ==
    LET e == local[t].el IN
    /\ At(t, "paired") /\ ~Inserts(t)
    /\ lock' = Request(lock, next[e], t, TRUE)
    /\ Goto(t, "unlink")
    /\ UNCHANGED <<prog, links, ref, count, signal, iter, mine>>

(* and the element leaves the list. *)
Unlink(t) ==
    LET e == local[t].el
        p == local[t].x
        n == next[e]
    IN  /\ At(t, "unlink") /\ Owns(t, n)
        /\ next' = [next EXCEPT ![p] = n]
        /\ prev' = [prev EXCEPT ![n] = p]
        /\ lock' = Unlock(lock, p, t)
        /\ FindAt(t, n, p, "unlinked")
        /\ UNCHANGED <<prog, ref, count, signal, iter, mine>>

Unlinked(t) ==
    /\ At(t, "unlinked")
    /\ lock' = Unlock(lock, local[t].n, t)
    /\ Goto(t, "clear")
    /\ UNCHANGED <<prog, links, ref, count, signal, iter, mine>>

(* Mutant of Clear: who has queued for the lock is forgotten. *)
ClearAtOnce(t) ==
    LET e == local[t].el IN
    /\ At(t, "clear")
    /\ signal' = [u \in Threads |-> signal[u] \/ u \in ref[e].wait]
    /\ ref' = [ref EXCEPT ![e].wait = {}]
    /\ Goto(t, "cleared")
    /\ UNCHANGED <<prog, links, lock, count, iter, mine>>

(* adl_elem_clear wakes those who have let the removal go first, and lets  *)
(* those who have queued for the lock have it.                             *)
Clear(t) ==
    LET e == local[t].el IN
    /\ At(t, "clear")
    /\ signal' = [u \in Threads |-> signal[u] \/ u \in ref[e].wait]
    /\ ref' = [ref EXCEPT ![e].wait = {}]
    /\ IF lock[e].queue # <<>>
       THEN lock' = Request(lock, e, t, TRUE) /\ Goto(t, "clearyield")
       ELSE Goto(t, "cleared") /\ UNCHANGED lock
    /\ UNCHANGED <<prog, links, count, iter, mine>>

ClearYield(t) ==
    /\ At(t, "clearyield")
    /\ lock' = Unlock(lock, local[t].el, t)
    /\ Goto(t, "cleared")
    /\ UNCHANGED <<prog, links, ref, count, signal, iter, mine>>

(* The element is the caller's. *)
Cleared(t) ==
    LET e == local[t].el IN
    /\ At(t, "cleared") /\ Owns(t, e)
    /\ next' = [next EXCEPT ![e] = NULL]
    /\ prev' = [prev EXCEPT ![e] = NULL]
    /\ lock' = Unlock(lock, e, t)
    /\ mine' = [mine EXCEPT ![t] = e]
    /\ Return(t)
    /\ UNCHANGED <<ref, count, signal, iter>>

-------------------------------------------------------------------------------
(* Insertion of the element the thread has, if it has one: at an end of    *)
(* the list, or next to the pinned element of its iterator.                *)

Anchor(t) ==
    IF Calls(t, {"front"}) THEN HEAD ELSE IF Calls(t, {"append"}) THEN TAIL ELSE cur[t]

(* adl_elem_init and the first lock. *)
Insert(t) ==
    LET e == mine[t] IN
    /\ At(t, "idle") /\ Inserts(t)
    /\ IF e # NULL /\ Anchor(t) \in Nodes
       THEN /\ ref' = [ref EXCEPT ![e] = [mask |-> TRUE, wait |-> {},
                                          pin |-> IF Call(t).pin THEN 1 ELSE 0]]
            /\ lock' = Request(lock, Anchor(t), t, TRUE)
            /\ mine' = [mine EXCEPT ![t] = NULL]
            /\ local' = [local EXCEPT ![t].n = Anchor(t), ![t].el = e, ![t].pc =
                             IF Calls(t, {"front", "after"}) THEN "insnext" ELSE "pair"]
            /\ UNCHANGED prog
       ELSE Return(t) /\ UNCHANGED <<ref, lock, mine>>
    /\ UNCHANGED <<links, count, signal, iter>>

(* adl_insert_at_front, adl_insert_elem_after *)
InsertNext(t) ==
    LET n == local[t].n IN
    /\ At(t, "insnext") /\ Owns(t, n)
    /\ lock' = Request(lock, next[n], t, TRUE)
    /\ FindAt(t, n, next[n], "link")
    /\ UNCHANGED <<prog, links, ref, count, signal, iter, mine>>

Link(t) ==
    LET l == local[t]
        p == IF At(t, "link") THEN l.n ELSE l.x
        n == IF At(t, "link") THEN l.x ELSE l.n
    IN  /\ At(t, "link") \/ (At(t, "paired") /\ Inserts(t))
        /\ Owns(t, l.x)
        /\ next' = [next EXCEPT ![p] = l.el, ![l.el] = n]
        /\ prev' = [prev EXCEPT ![n] = l.el, ![l.el] = p]
        /\ count' = count + 1
        /\ Goto(t, "expose")
        /\ UNCHANGED <<prog, lock, ref, signal, iter, mine>>

(* adl_elem_expose *)
Expose(t) ==
    /\ At(t, "expose")
    /\ ref' = [ref EXCEPT ![local[t].el].mask = FALSE]
    /\ Goto(t, "linked")
    /\ UNCHANGED <<prog, links, lock, count, signal, iter, mine>>

Linked(t) ==
    /\ At(t, "linked")
    /\ lock' = Unlock(lock, local[t].x, t)
    /\ Goto(t, "inserted")
    /\ UNCHANGED <<prog, links, ref, count, signal, iter, mine>>

(* A pinned element is put back at once. *)
Inserted(t) ==
    /\ At(t, "inserted")
    /\ lock' = Unlock(lock, local[t].n, t)
    /\ IF Call(t).pin
       THEN /\ local' = [local EXCEPT ![t].pc = "putback", ![t].pinned = local[t].el]
            /\ UNCHANGED prog
       ELSE Return(t)
    /\ UNCHANGED <<links, ref, count, signal, iter, mine>>

-------------------------------------------------------------------------------
Step(t) ==
    \/ NextElem(t) \/ NextHop(t) \/ PrevElem(t) \/ PrevYield(t) \/ PrevRelock(t)
    \/ PrevLook(t) \/ PrevCross(t) \/ PrevCrossed(t) \/ PrevDefer(t)
    \/ PrevDeferred(t) \/ PrevAwake(t) \/ Leave(t) \/ LeaveUnpin(t)
    \/ IterNext(t) \/ IterFound(t) \/ IterSeek(t) \/ IterDestroy(t) \/ PutBack(t)
    \/ IterPop(t) \/ IterPeeked(t) \/ IterUnpeek(t) \/ IterAgain(t)
    \/ Delete(t) \/ Dequeue(t) \/ DequeueFound(t) \/ Mask(t) \/ RemoveFail(t)
    \/ Uncount(t) \/ UncountWait(t) \/ RemoveWait(t) \/ RemoveAwake(t)
    \/ Pair(t) \/ PairYield(t) \/ PairRelock(t) \/ PairLook(t)
    \/ RemoveNext(t) \/ Unlink(t) \/ Unlinked(t) \/ Clear(t) \/ ClearYield(t)
    \/ Cleared(t) \/ Insert(t) \/ InsertNext(t) \/ Link(t) \/ Expose(t)
    \/ Linked(t) \/ Inserted(t)

Finished == \A t \in Threads : prog[t] = <<>>

Next == (\E t \in Threads : Step(t)) \/ (Finished /\ UNCHANGED vars)

(* Threads are scheduled, and hold a pin for a finite time. *)
Spec == Init /\ [][Next]_vars /\ WF_vars(\E t \in Threads : Step(t))

-------------------------------------------------------------------------------
(* The elements a thread has pinned: what its iterator is at unless it     *)
(* moves, what its search began with and has found, and what it removes.   *)
Pinned(t) ==
    LET l == local[t]
        found == l.pc \in {"leave", "unpin", "found", "unpeek"}
        removes == \/ l.then = "peek" /\ l.pc # "await"
                   \/ l.pc \in {"mask", "fail", "uncountwait", "settle"}
    IN  {e \in Elems : \/ e = cur[t] /\ l.then \notin {"iter", "peek", "again"}
                       \/ e = l.pinned
                       \/ e = l.x /\ found
                       \/ e = l.el /\ removes}

(* What is on the list and has not been unlinked. *)
Members ==
    {e \in Elems : OnList(e) /\ \A t \in Threads :
        local[t].el = e => local[t].pc \notin {"unlinked", "clear", "clearyield", "cleared"}}

(* The nodes of the list agree about who is next to whom, whatever can be  *)
(* pinned is one of them, and list->count "is conservatively an upper      *)
(* bound" of what can be found.                                            *)
ListSound ==
    /\ \A n \in Members \cup {HEAD} :
          next[n] \in Members \cup {TAIL} /\ prev[next[n]] = n
    /\ \A n \in Members \cup {TAIL} :
          prev[n] \in Members \cup {HEAD} /\ next[prev[n]] = n
    /\ \A e \in Elems : ~ref[e].mask => e \in Members
    /\ Cardinality({e \in Elems : ~ref[e].mask}) <= count

(* A pinned element stays on the list, however its removal goes.  Of an    *)
(* element that has been cleared nobody has the lock or a place in its     *)
(* queue, and no traversal that let the removal go first is left behind.   *)
NoDangling ==
    /\ \A t \in Threads : \A e \in Pinned(t) : e \in Members /\ ref[e].pin > 0
    /\ \A e \in Elems : ~OnList(e) =>
          lock[e] = Free /\ ref[e].mask /\ ref[e].wait = {}

(* An iterator that has come to its end has returned every element that    *)
(* was on the list all the while.                                          *)
IterComplete == \A t \in Threads : cur[t] = Done => owed[t] = {}

(* What the code asserts: the last to unpin a masked element finds its     *)
(* remover waiting, who is the only one to wait before that; an element is *)
(* inserted with nobody waiting; a removal begins with no pins, does not   *)
(* find its neighbours changed and ends with nobody queued; what a         *)
(* backward search finds masked stays masked, and the count is positive    *)
(* when it is lowered.                                                     *)
AssertionsHold ==
    \A t \in Threads :
        LET l == local[t]
            unpins == CASE At(t, "unpeek") -> {l.x}
                        [] At(t, "fail") -> {l.el}
                        [] l.pc \in {"crossed", "unpin", "putback"} -> {l.pinned}
                        [] OTHER -> {}
        IN  /\ \A e \in unpins \ {NULL} :
                  ref[e].mask /\ ref[e].pin = 1 => ref[e].wait # {}
            /\ At(t, "settle") => ref[l.el].wait = {} /\ ref[l.el].mask
            /\ At(t, "expose") => ref[l.el].mask /\ ref[l.el].wait = {}
                                  /\ (Call(t).pin => ref[l.el].pin = 1)
            /\ l.pc \in {"uncount", "uncountwait"} => count > 0
            /\ l.pc \in {"look", "cross", "defer"} /\ prev[l.n] = l.x => ref[l.x].mask
            /\ At(t, "defer") => ref[l.x].pin = 0
            /\ At(t, "unlink") => prev[l.el] = l.x /\ next[l.x] = l.el
            /\ l.pc \in {"unlink", "unlinked", "clear", "cleared"} =>
                  ref[l.el].mask /\ ref[l.el].pin = 0
            /\ At(t, "cleared") /\ Owns(t, l.el) => lock[l.el].queue = <<>>

(* Every call returns: nobody waits for ever for a lock, for a pin or for  *)
(* a removal.                                                              *)
CallsReturn == <>Finished
===============================================================================
