----------------------------- MODULE AtomicListInv -----------------------------
(***************************************************************************)
(* What holds of the list of AtomicList in every state, in a form that     *)
(* every step preserves.  The parts say                                    *)
(*                                                                         *)
(*    TypeOK    what the variables range over;                             *)
(*    LocalInv  what the locals of a thread are where it is;               *)
(*    LockInv   which locks a thread has or has asked for where it is;     *)
(*    LinkInv   that the list is one, from HEAD to TAIL, without a cycle;  *)
(*    NearInv   how the nodes a thread works with lie to each other, and   *)
(*              why they cannot leave the list meanwhile;                  *)
(*    PinInv    that the pins of an element are counted;                   *)
(*    ClaimInv  that an element that is masked is inserted or removed by   *)
(*              one thread;                                                *)
(*    WaitInv   who waits for an element, and that it will be woken;       *)
(*    CountInv  what list->count counts.                                   *)
(***************************************************************************)
EXTENDS AtomicList

(* The places of a thread: a search for a neighbour, ... *)
SearchPcs == {"next", "hop", "leave", "prev", "yield", "relock", "look", "cross",
              "crossed", "defer", "deferred", "asleep", "unpin", "found"}

(* ... the lock of the node before, ... *)
PairPcs == {"pair", "pairyield", "pairrelock", "pairlook", "paired"}

(* ... an element that has left the list, and an insertion. *)
OffPcs == {"unlinked", "clear", "clearyield", "cleared"}
InsPcs == {"insnext", "link", "expose", "linked", "inserted"}

(* The searches of an iterator: its pin is not that of current_elem. *)
Moving == {"iter", "peek", "again"}

(* Thread t has masked its element, and removes it; *)
Removing(t) ==
    LET l == local[t] IN
    \/ l.pc \in {"uncount", "uncountwait", "settle", "await", "unpeek", "unlink"} \cup OffPcs
    \/ l.then \in {"peek", "again"}
    \/ l.pc \in PairPcs /\ ~Inserts(t)

(* it has an element that is not exposed yet, and inserts it. *)
Inserting(t) == local[t].pc \in PairPcs \cup {"insnext", "link", "expose"} /\ Inserts(t)

Claims(t) == Removing(t) \/ Inserting(t)

-------------------------------------------------------------------------------
LockRec == [own : SUBSET Threads, excl : BOOLEAN,
            queue : Seq([thread : Threads, excl : BOOLEAN])]

Pcs == SearchPcs \cup PairPcs \cup OffPcs \cup InsPcs
       \cup {"idle", "putback", "mask", "fail", "uncount", "uncountwait", "unpeek", "settle",
             "await", "unlink"}

LocalRec == [pc : Pcs, n : Nodes \cup {NULL}, x : Nodes \cup {NULL},
             el : Elems \cup {NULL}, pinned : Elems \cup {NULL},
             then : Moving \cup {"remove", NULL}]

TypeOK ==
    /\ prog \in [Threads -> Seq(Op)]
    /\ next \in [Nodes -> Nodes \cup {NULL}] /\ prev \in [Nodes -> Nodes \cup {NULL}]
    /\ lock \in [Nodes -> LockRec]
    /\ ref \in [Elems -> [mask : BOOLEAN, pin : Nat, wait : SUBSET Threads]]
    /\ signal \in [Threads -> BOOLEAN]
    /\ cur \in [Threads -> Elems \cup {NULL, Done}]
    /\ mine \in [Threads -> Elems \cup {NULL}]
    /\ local \in [Threads -> LocalRec]

(* The locals of a thread. *)
LocalOK(t) ==
    LET l == local[t] IN
    /\ l.pc = "idle" => l = Idle
    /\ l.pc # "idle" => prog[t] # <<>>
    /\ l.pc \in InsPcs => Inserts(t)
    /\ l.pc \notin PairPcs \cup InsPcs \cup {"idle", "putback"} => ~Inserts(t)
    /\ l.pc \in SearchPcs => l.then # NULL
    /\ l.pc = "unpeek" => l.then = "peek" /\ l.x # NULL
    /\ l.pc \notin SearchPcs \cup {"unpeek", "settle", "await"} => l.then \notin Moving
    /\ l.pc \in {"settle", "await"} => l.then \notin {"iter", "again"}
    /\ l.pc \notin SearchPcs \cup {"idle", "putback"} => l.el # NULL
    /\ l.then \in {"peek", "again"} => l.el # NULL /\ Calls(t, {"fwdpop", "bwdpop"})
    /\ l.then = "remove" => Calls(t, {"dequeue", "pop"})
    /\ l.pc \in {"settle", "await"} /\ Calls(t, {"fwdpop", "bwdpop"}) => l.then = "peek"
    /\ l.pc \in {"mask", "uncountwait"} /\ Calls(t, {"fwdpop", "bwdpop"}) => cur[t] = l.el
    /\ l.pc \in {"unpin", "putback"} => l.pinned # NULL
    /\ l.pc \notin SearchPcs \cup {"putback"} => l.pinned = NULL
    /\ l.pc = "found" => l.pinned = NULL
    /\ l.pc \in {"leave", "found", "unpin", "unpeek"} => l.x \notin {HEAD, TAIL}
    /\ l.pc \in {"hop", "yield", "relock", "look", "cross", "crossed", "defer", "deferred",
                 "asleep"} => l.x \in Elems /\ l.n # l.x
    /\ l.pc \in {"pairyield", "pairrelock", "pairlook", "paired", "unlink", "link", "expose",
                 "linked"} => l.x # NULL /\ l.x # l.n
    /\ l.pc \in (SearchPcs \ {"found", "unpin"}) \cup PairPcs \cup InsPcs
                 \cup {"unlink", "unlinked"} => l.n # NULL
    /\ l.pc = "unlinked" => l.n # l.el

LocalInv == \A t \in Threads : LocalOK(t)

-------------------------------------------------------------------------------
(* Thread t has the lock of m ... *)
Must(t, m) ==
    LET l == local[t] IN
    \/ m = l.n /\ l.pc \in {"hop", "leave", "yield", "cross", "paired", "pairyield", "unlink",
                            "unlinked", "link", "expose", "linked", "inserted"}
    \/ m = l.x /\ l.pc \in {"look", "cross", "defer", "deferred", "paired", "pairlook",
                            "unlink", "expose", "linked"}
    \/ m = l.x /\ l.pc = "crossed" /\ l.n # TAIL
    \/ m = l.el /\ l.pc \in {"unlinked", "clear", "clearyield"}

(* ... or has asked for it. *)
May(t, m) ==
    LET l == local[t] IN
    \/ m = l.n /\ l.pc \in {"next", "prev", "look", "pair", "pairlook", "insnext"}
    \/ m = l.x /\ l.pc \in {"hop", "yield", "relock", "pairyield", "pairrelock", "link"}
    \/ l.pc = "unlink" /\ m = next[l.el]
    \/ m = l.el /\ l.pc = "cleared"

(* Who changes the list has exclusive locks, who searches shared ones. *)
XMode(t) == local[t].pc \in PairPcs \cup OffPcs \cup InsPcs \cup {"unlink"}
XModes == [t \in Threads |-> XMode(t)]

Queued(t, l) == \E i \in 1..Len(l.queue) : l.queue[i].thread = t
Asks(t, l) == t \in l.own \/ Queued(t, l)
QueuedLast(t, l) == Len(l.queue) > 0 /\ l.queue[Len(l.queue)].thread = t

(* A fair lock: nobody waits for a lock nobody has, a writer is alone, and *)
(* everybody is in the queue once, with the mode X gives.                  *)
WellLocked(l, X) ==
    /\ l.own = {} => l.queue = <<>>
    /\ \A t \in l.own : l.excl = X[t]
    /\ \A i \in 1..Len(l.queue) : l.queue[i].excl = X[l.queue[i].thread]
    /\ l.excl => \A t, u \in l.own : t = u
    /\ \A i, j \in 1..Len(l.queue) : l.queue[i].thread = l.queue[j].thread => i = j

LockOK(t, m) ==
    /\ Must(t, m) => t \in lock[m].own
    /\ Asks(t, lock[m]) <=> Must(t, m) \/ May(t, m)
    /\ t \in lock[m].own /\ Queued(t, lock[m]) => At(t, "clearyield") /\ m = local[t].el

(* Who clears an element is the last to have its lock; and an element that *)
(* nobody can have found has a free one.                                   *)
EndOK(t) ==
    LET l == local[t] IN
    /\ l.pc = "clearyield" => QueuedLast(t, lock[l.el])
    /\ l.pc = "cleared" => IF Owns(t, l.el) THEN lock[l.el].queue = <<>>
                           ELSE QueuedLast(t, lock[l.el])
    /\ l.pc = "expose" => lock[l.el] = Free

LockInv ==
    /\ \A m \in Nodes : WellLocked(lock[m], XModes)
    /\ \A t \in Threads, m \in Nodes : LockOK(t, m)
    /\ \A t \in Threads : EndOK(t)
    /\ \A e \in Elems : ~OnList(e) => lock[e] = Free

-------------------------------------------------------------------------------
(* The list has no cycle: its nodes can be numbered in their order. *)
Ordered ==
    \E rank \in [Nodes -> Int] :
        \A n \in Members \cup {HEAD} : rank[n] < rank[next[n]]

LinkInv ==
    /\ \A n \in Members \cup {HEAD} : next[n] \in Members \cup {TAIL} /\ prev[next[n]] = n
    /\ \A n \in Members \cup {TAIL} : prev[n] \in Members \cup {HEAD} /\ next[prev[n]] = n
    /\ next[TAIL] = NULL /\ prev[HEAD] = NULL
    /\ Ordered

(* Node m is pinned by the search of t, or is what t removes. *)
Anchored(t, m) ==
    LET l == local[t] IN
    m \in Elems /\ (m = l.pinned \/ (l.then = "again" /\ m = l.el))

NearOK(t) ==
    LET l == local[t] IN
    /\ l.pc \in {"hop", "link"} => next[l.n] = l.x
    /\ l.pc \in {"yield", "paired", "pairyield", "unlink"} => prev[l.n] = l.x
    /\ l.pc \in {"next", "hop"} =>
          l.n \in Members \cup {HEAD} /\ (l.n = HEAD \/ Anchored(t, l.n) \/ Owns(t, l.n))
    /\ l.pc \in {"prev", "yield", "relock", "look", "defer", "deferred", "asleep"} =>
          l.n = TAIL \/ Anchored(t, l.n)
    /\ l.pc \in PairPcs => IF Inserts(t) THEN l.n = TAIL \/ l.n = cur[t] ELSE l.n = l.el
    /\ l.pc \in {"insnext", "link"} => l.n = HEAD \/ l.n = cur[t]
    /\ l.pc = "unlink" => l.n = l.el
    /\ l.pc = "expose" => prev[l.el] \in {l.n, l.x} /\ next[l.el] \in {l.n, l.x}
    /\ l.pc \in {"yield", "relock", "look", "cross", "defer", "deferred"} => ref[l.x].mask
    /\ l.pc \in {"defer", "deferred"} => l.x \in Members /\ ref[l.x].pin = 0
    /\ l.pc \in {"relock", "look"} => OnList(l.x)

NearInv == \A t \in Threads : NearOK(t)

-------------------------------------------------------------------------------
(* A thread has up to four pins: of what its iterator is at, of what its   *)
(* search began with, of what it has found, and of what it removes or      *)
(* inserts.                                                                *)
Kinds == {"cur", "pinned", "x", "el"}

PinsEl(t) ==
    LET l == local[t] IN
    \/ l.then = "peek" /\ l.pc # "await"
    \/ l.pc \in {"mask", "fail", "uncountwait", "settle"}
    \/ l.pc \in PairPcs \cup InsPcs /\ Inserts(t) /\ Call(t).pin

Holds(t, k, e) ==
    LET l == local[t] IN
    \/ k = "cur" /\ cur[t] = e /\ l.then \notin Moving
    \/ k = "pinned" /\ l.pinned = e
    \/ k = "x" /\ l.x = e /\ l.pc \in {"leave", "unpin", "found", "unpeek", "cross", "crossed"}
    \/ k = "el" /\ l.el = e /\ PinsEl(t)

Tokens(e) == {p \in Threads \X Kinds : Holds(p[1], p[2], e)}

(* What is not exposed is pinned by nobody else. *)
PinInv ==
    /\ \A e \in Elems : ref[e].pin = Cardinality(Tokens(e))
    /\ \A t, u \in Threads : \A k \in Kinds :
          Inserting(t) /\ Holds(u, k, local[t].el) => u = t /\ k = "el"

ClaimOK(t) ==
    LET l == local[t] IN
    /\ Claims(t) => ref[l.el].mask
    /\ Removing(t) => OnList(l.el)
    /\ Inserting(t) => (OnList(l.el) <=> l.pc = "expose")

MineOK(t) ==
    mine[t] # NULL =>
        /\ ~OnList(mine[t])
        /\ \A u \in Threads : Claims(u) => local[u].el # mine[t]
        /\ \A u \in Threads : mine[u] = mine[t] => u = t

ElemOK(e) ==
    /\ ref[e].mask /\ OnList(e) => \E t \in Threads : Claims(t) /\ local[t].el = e
    /\ ~ref[e].mask => OnList(e)
    /\ ~OnList(e) => ref[e].wait = {}
    /\ ~OnList(e) /\ ref[e].pin # 0 => \E t \in Threads : Inserting(t) /\ local[t].el = e

ClaimInv ==
    /\ \A t, u \in Threads : Claims(t) /\ Claims(u) /\ local[t].el = local[u].el => t = u
    /\ \A t \in Threads : ClaimOK(t)
    /\ \A t \in Threads : MineOK(t)
    /\ \A e \in Elems : ElemOK(e)

-------------------------------------------------------------------------------
(* A removal that goes on has no pins left; one that waits for the last    *)
(* pin is signalled with it.  A backward search waits for a removal that   *)
(* has no pins left.                                                       *)
WaitOK(t) ==
    LET l == local[t] IN
    /\ Removing(t) /\ ~PinsEl(t) /\ l.pc # "await" => ref[l.el].pin = 0
    /\ l.pc = "await" => IF signal[t] THEN ref[l.el].pin = 0
                         ELSE ref[l.el].pin > 0 /\ ref[l.el].wait = {t}
    /\ signal[t] => l.pc \in {"await", "deferred", "asleep"}
    /\ \A e \in Elems : t \in ref[e].wait =>
          /\ ~signal[t]
          /\ \/ l.pc = "await" /\ l.el = e
             \/ l.pc \in {"deferred", "asleep"} /\ l.x = e /\ ref[e].pin = 0
    /\ Inserting(t) => ref[l.el].wait = {}
    /\ l.pc \in {"clearyield", "cleared"} => ref[l.el].wait = {}

WaitInv ==
    /\ \A t \in Threads : WaitOK(t)
    /\ \A e \in Elems : ref[e].wait # {} => ref[e].mask

(* An element counts from its insertion, before it is exposed, until its   *)
(* removal, after it is masked.                                            *)
Counted ==
    {e \in Elems : \/ ~ref[e].mask
                   \/ \E t \in Threads : /\ local[t].el = e
                                         /\ local[t].pc \in {"uncount", "uncountwait", "expose"}}

CountInv == count = Cardinality(Counted)

IInv ==
    /\ TypeOK /\ LocalInv /\ LockInv /\ LinkInv /\ NearInv
    /\ PinInv /\ ClaimInv /\ WaitInv /\ CountInv
===============================================================================
