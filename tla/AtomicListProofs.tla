---------------------------- MODULE AtomicListProofs ---------------------------
(***************************************************************************)
(* Proofs about AtomicList: every step preserves IInv, and what follows    *)
(* from IInv holds of the list.  First the fair locks: what one request    *)
(* and one unlock do to the owners and to the queue of a lock, and that    *)
(* LockInv is preserved by a step that asks for one lock or gives one up.  *)
(* Then what IInv says of the nodes a thread may ask for, what a step of   *)
(* one thread leaves to the others, and the parts of IInv that a step does *)
(* not disturb.  Then the steps: those that walk along the list, work an   *)
(* iterator or wait; those that begin or end a removal or an insertion,    *)
(* count an element or change the links.                                   *)
(***************************************************************************)
EXTENDS AtomicListInv, FiniteSetTheorems, SequenceTheorems, WellFoundedInduction, TLAPS

Entry == [thread : Threads, excl : BOOLEAN]

(* The least element of a set of natural numbers. *)
LEMMA Least ==
    ASSUME NEW S, S \subseteq Nat, S # {}
    PROVE  \E x \in S : \A y \in S : x <= y
<1> DEFINE R == OpToRel(<, Nat)
<1>1. \A x, y \in Nat : <<y, x>> \in R <=> y < x
    BY DEF OpToRel
<1>2. IsWellFoundedOn(R, Nat)
    BY NatLessThanWellFounded, Zenon
<1> HIDE DEF R
<1>3. PICK x \in S : \A y \in S : ~(<<y, x>> \in R)
    BY <1>2, WFMin, Zenon
<1>4. \A y \in S : y \in Nat /\ x \in Nat /\ ~(y < x)
    BY <1>1, <1>3, Zenon
<1>5. \A y \in S : x <= y
    BY <1>4
<1>6. QED
    BY <1>5

(* Who is served is a prefix of the queue: one writer, or only readers. *)
LEMMA BatchIsPrefix ==
    ASSUME NEW q \in Seq(Entry), q # <<>>
    PROVE  \E k \in 1..Len(q) :
              /\ Batch(q) = 1..k /\ Cardinality(Batch(q)) = k
              /\ \/ k = 1 /\ q[1].excl
                 \/ \A i \in 1..k : ~q[i].excl
<1> DEFINE W == {i \in 1..Len(q) : q[i].excl}
<1>0. Len(q) \in Nat /\ Len(q) >= 1
    OBVIOUS
<1>1. SUFFICES \E k \in 1..Len(q) :
              /\ Batch(q) = 1..k
              /\ \/ k = 1 /\ q[1].excl
                 \/ \A i \in 1..k : ~q[i].excl
    <2>1. \A k \in 1..Len(q) : Cardinality(1..k) = k
        BY <1>0, FS_Interval
    <2>2. QED
        BY <1>1, <2>1
<1>2. CASE q[1].excl
    <2>1. Batch(q) = 1..1
        BY <1>0, <1>2 DEF Batch
    <2>2. QED
        BY <1>0, <1>2, <2>1
<1>3. CASE ~q[1].excl /\ W = {}
    <2>1. Batch(q) = 1..Len(q)
        BY <1>0, <1>3 DEF Batch
    <2>2. QED
        BY <1>0, <1>3, <2>1
<1>4. CASE ~q[1].excl /\ W # {}
    <2>1. PICK w \in W : \A y \in W : w <= y
        <3>1. W \subseteq Nat
            BY <1>0
        <3>2. QED
            BY <1>4, <3>1, Least
    <2>2. w \in 2..Len(q) /\ q[w].excl /\ \A i \in 1..(w - 1) : ~q[i].excl
        BY <1>0, <1>4, <2>1
    <2>3. Batch(q) = 1..(w - 1)
        BY <1>0, <1>4, <2>2 DEF Batch
    <2>4. QED
        BY <1>0, <2>2, <2>3
<1>5. QED
    BY <1>2, <1>3, <1>4

-------------------------------------------------------------------------------
(* A request: the others keep what they have. *)
LEMMA RequestOne ==
    ASSUME NEW l \in LockRec, NEW X \in [Threads -> BOOLEAN], NEW t \in Threads,
           WellLocked(l, X), ~Queued(t, l), t \in l.own => l.queue # <<>>,
           NEW r, r = Requested(l, t, X[t])
    PROVE  /\ r \in LockRec /\ WellLocked(r, X)
           /\ Asks(t, r)
           /\ Grantable(l, X[t]) => t \in r.own
           /\ t \notin l.own => ~(t \in r.own /\ Queued(t, r))
           /\ t \in l.own => t \in r.own /\ QueuedLast(t, r)
           /\ \A u \in Threads \ {t} : /\ u \in r.own <=> u \in l.own
                                       /\ Queued(u, r) <=> Queued(u, l)
<1> DEFINE e == [thread |-> t, excl |-> X[t]]
<1>0. e \in Entry /\ l.queue \in Seq(Entry) /\ Len(l.queue) \in Nat /\ l.own \subseteq Threads
    BY DEF Entry, LockRec
<1>1. CASE Grantable(l, X[t])
    <2>1. /\ r = [own |-> l.own \cup {t}, excl |-> X[t], queue |-> <<>>]
          /\ l.queue = <<>> /\ (l.own = {} \/ (~X[t] /\ ~l.excl))
        BY <1>1 DEF Requested, Grantable, LockRec
    <2>2. r \in LockRec
        BY <2>1, <1>0 DEF LockRec
    <2>3. WellLocked(r, X)
        BY <2>1, <1>0 DEF WellLocked
    <2>4. QED
        BY <1>0, <1>1, <2>1, <2>2, <2>3 DEF Asks, Queued
<1>2. CASE ~Grantable(l, X[t])
    <2>1. r = [own |-> l.own, excl |-> l.excl, queue |-> Append(l.queue, e)]
        BY <1>2 DEF Requested, LockRec
    <2>2. /\ r.queue \in Seq(Entry) /\ Len(r.queue) = Len(l.queue) + 1
          /\ \A i \in 1..Len(l.queue) : r.queue[i] = l.queue[i]
          /\ r.queue[Len(l.queue) + 1] = e
          /\ r.own = l.own /\ r.excl = l.excl
        BY <2>1, <1>0
    <2>3. r \in LockRec
        BY <2>1, <2>2, <1>0 DEF LockRec, Entry
    <2>4. l.own # {}
        BY <1>2 DEF Grantable, WellLocked
    <2>5. WellLocked(r, X)
        <3>1. \A i \in 1..Len(r.queue) : r.queue[i].excl = X[r.queue[i].thread]
            <4>1. \A i \in 1..Len(r.queue) : i \in 1..Len(l.queue) \/ i = Len(l.queue) + 1
                BY <2>2, <1>0
            <4>2. QED
                BY <4>1, <2>2 DEF WellLocked
        <3>2. \A i, j \in 1..Len(r.queue) : r.queue[i].thread = r.queue[j].thread => i = j
            <4> SUFFICES ASSUME NEW i \in 1..Len(r.queue), NEW j \in 1..Len(r.queue),
                                r.queue[i].thread = r.queue[j].thread
                         PROVE  i = j
                OBVIOUS
            <4>1. CASE i \in 1..Len(l.queue) /\ j \in 1..Len(l.queue)
                BY <4>1, <2>2 DEF WellLocked
            <4>2. CASE i \in 1..Len(l.queue) /\ j = Len(l.queue) + 1
                BY <4>2, <2>2 DEF Queued
            <4>3. CASE j \in 1..Len(l.queue) /\ i = Len(l.queue) + 1
                BY <4>3, <2>2 DEF Queued
            <4>4. QED
                BY <4>1, <4>2, <4>3, <2>2, <1>0
        <3>3. QED
            BY <3>1, <3>2, <2>2, <2>4 DEF WellLocked
    <2>6. Queued(t, r) /\ QueuedLast(t, r)
        BY <2>2, <1>0 DEF Queued, QueuedLast
    <2>7. \A u \in Threads \ {t} : Queued(u, r) <=> Queued(u, l)
        <3>1. \A i \in 1..Len(r.queue) : i \in 1..Len(l.queue) \/ i = Len(l.queue) + 1
            BY <2>2, <1>0
        <3>2. \A i \in 1..Len(l.queue) : i \in 1..Len(r.queue)
            BY <2>2, <1>0
        <3>3. QED
            BY <3>1, <3>2, <2>2 DEF Queued
    <2>8. QED
        BY <1>2, <2>2, <2>3, <2>5, <2>6, <2>7 DEF Asks
<1>3. QED
    BY <1>1, <1>2

(* The lock is passed on: those who are served have it, with their mode,   *)
(* and the others wait on.                                                 *)
LEMMA PassOne ==
    ASSUME NEW l \in LockRec, NEW X \in [Threads -> BOOLEAN], WellLocked(l, X)
    PROVE  /\ Pass(l) \in LockRec /\ WellLocked(Pass(l), X)
           /\ l.queue = <<>> => Pass(l) = Free
           /\ \A u \in Threads : Asks(u, Pass(l)) <=> Queued(u, l)
           /\ \A u \in Threads : ~(u \in Pass(l).own /\ Queued(u, Pass(l)))
           /\ \A u \in Threads : QueuedLast(u, l) /\ X[u] =>
                 IF u \in Pass(l).own THEN Pass(l).queue = <<>> ELSE QueuedLast(u, Pass(l))
<1> DEFINE q == l.queue
           r == Pass(l)
<1>0. q \in Seq(Entry) /\ Len(q) \in Nat
    BY DEF Entry, LockRec
<1>1. CASE q = <<>>
    <2>1. Batch(q) = {}
        BY <1>1 DEF Batch
    <2>2. r.own = {} /\ r.excl = FALSE /\ Cardinality(Batch(q)) = 0
        BY <2>1, FS_EmptySet DEF Pass
    <2>3. r.queue = <<>>
        BY <1>1, <2>2 DEF Pass
    <2>4. r = Free
        BY <2>2, <2>3 DEF Pass, Free
    <2>5. r \in LockRec
        BY <2>4 DEF Free, LockRec
    <2>6. QED
        BY <1>1, <2>4, <2>5 DEF Free, WellLocked, Asks, Queued, QueuedLast
<1>2. CASE q # <<>>
    <2>1. PICK k \in 1..Len(q) :
              /\ Batch(q) = 1..k /\ Cardinality(Batch(q)) = k
              /\ (k = 1 /\ q[1].excl) \/ \A i \in 1..k : ~q[i].excl
        BY <1>0, <1>2, BatchIsPrefix
    <2>2. /\ r = [own |-> {q[i].thread : i \in 1..k},
                  excl |-> \E i \in 1..k : q[i].excl,
                  queue |-> SubSeq(q, k + 1, Len(q))]
        BY <2>1 DEF Pass
    <2>3. /\ SubSeq(q, k + 1, Len(q)) \in Seq(Entry)
          /\ Len(SubSeq(q, k + 1, Len(q))) = Len(q) - k
          /\ \A i \in 1..(Len(q) - k) : SubSeq(q, k + 1, Len(q))[i] = q[i + k]
        BY <1>0, <2>1
    <2>4. /\ r.queue \in Seq(Entry) /\ Len(r.queue) = Len(q) - k
          /\ \A i \in 1..Len(r.queue) : r.queue[i] = q[i + k] /\ i + k \in 1..Len(q)
          /\ r.own = {q[i].thread : i \in 1..k}
          /\ r.excl = \E i \in 1..k : q[i].excl
        BY <1>0, <2>1, <2>2, <2>3
    <2>5. \A i \in 1..Len(q) : q[i] \in Entry /\ q[i].thread \in Threads
                               /\ q[i].excl \in BOOLEAN /\ q[i].excl = X[q[i].thread]
        <3>1. \A i \in 1..Len(q) : q[i] \in Entry
            BY <1>0
        <3>2. \A i \in 1..Len(q) : q[i].excl = X[q[i].thread]
            BY DEF WellLocked
        <3>3. QED
            BY <3>1, <3>2 DEF Entry
    <2>6. r \in LockRec
        <3>1. r.own \in SUBSET Threads
            BY <2>1, <2>4, <2>5
        <3>2. r.excl \in BOOLEAN
            BY <2>4
        <3>3. QED
            BY <2>2, <2>4, <3>1, <3>2 DEF LockRec, Entry
    <2>7. \A i, j \in 1..Len(q) : q[i].thread = q[j].thread => i = j
        BY DEF WellLocked
    <2> HIDE DEF q, r
    <2>13. /\ \A t \in r.own : \E i \in 1..k : q[i].thread = t
           /\ r.excl => k = 1 /\ q[1].excl
           /\ ~r.excl => \A i \in 1..k : ~q[i].excl
           /\ k \in 1..Len(q) /\ r.excl \in BOOLEAN
        BY <2>1, <2>4
    <2>8. WellLocked(r, X)
        <3>1. r.own # {}
            <4>1. q[1].thread \in r.own
                BY <2>1, <2>4
            <4>2. QED
                BY <4>1
        <3>2. \A t \in r.own : r.excl = X[t]
            <4> SUFFICES ASSUME NEW t \in r.own PROVE r.excl = X[t]
                OBVIOUS
            <4>1. PICK i \in 1..k : q[i].thread = t
                BY <2>13
            <4>2. i \in 1..Len(q) /\ q[i].excl = X[t] /\ q[i].excl \in BOOLEAN
                BY <4>1, <2>5, <1>0
            <4>3. r.excl => i = 1 /\ q[i].excl
                BY <2>13
            <4>4. ~r.excl => ~q[i].excl
                BY <2>13
            <4>5. QED
                BY <4>2, <4>3, <4>4, <2>13
        <3>3. \A i \in 1..Len(r.queue) : r.queue[i].excl = X[r.queue[i].thread]
            BY <2>4, <2>5
        <3>4. r.excl => \A t, u \in r.own : t = u
            <4>1. r.excl => \A t \in r.own : t = q[1].thread
                BY <2>13
            <4>2. QED
                BY <4>1
        <3>5. \A i, j \in 1..Len(r.queue) : r.queue[i].thread = r.queue[j].thread => i = j
            <4> SUFFICES ASSUME NEW i \in 1..Len(r.queue), NEW j \in 1..Len(r.queue),
                                r.queue[i].thread = r.queue[j].thread
                         PROVE  i = j
                OBVIOUS
            <4>1. i + k \in 1..Len(q) /\ j + k \in 1..Len(q)
                  /\ q[i + k].thread = q[j + k].thread
                BY <2>4
            <4>2. i + k = j + k
                BY <4>1, <2>7
            <4>3. QED
                BY <4>2, <2>1, <2>4, <1>0
        <3>6. QED
            BY <3>1, <3>2, <3>3, <3>4, <3>5 DEF WellLocked
    <2>9. \A u \in Threads : Asks(u, r) <=> Queued(u, l)
        <3>1. \A u \in Threads : Asks(u, r) => Queued(u, l)
            <4> SUFFICES ASSUME NEW u \in Threads, Asks(u, r)
                         PROVE  \E i \in 1..Len(q) : q[i].thread = u
                BY DEF Queued, q
            <4>1. CASE u \in r.own
                BY <4>1, <2>13, <1>0
            <4>2. CASE Queued(u, r)
                BY <4>2, <2>4 DEF Queued
            <4>3. QED
                BY <4>1, <4>2 DEF Asks
        <3>2. ASSUME NEW u \in Threads, NEW i \in 1..Len(q), q[i].thread = u
              PROVE  Asks(u, r)
            <4>1. CASE i <= k
                BY <1>0, <3>2, <4>1, <2>4 DEF Asks
            <4>2. CASE i > k
                <5>1. i - k \in 1..Len(r.queue) /\ r.queue[i - k] = q[i]
                    BY <1>0, <4>2, <2>1, <2>4
                <5>2. QED
                    BY <5>1, <3>2 DEF Asks, Queued
            <4>3. QED
                BY <4>1, <4>2, <1>0, <2>1
        <3>3. QED
            BY <3>1, <3>2 DEF Queued, q
    <2>10. \A u \in Threads : ~(u \in r.own /\ Queued(u, r))
        <3> SUFFICES ASSUME NEW u \in Threads, u \in r.own, Queued(u, r) PROVE FALSE
            OBVIOUS
        <3>1. PICK i \in 1..k : q[i].thread = u
            BY <2>4
        <3>2. PICK j \in 1..Len(r.queue) : r.queue[j].thread = u
            BY DEF Queued
        <3>3. q[j + k].thread = u /\ j + k \in 1..Len(q) /\ i \in 1..Len(q) /\ i # j + k
            BY <3>1, <3>2, <2>1, <2>4
        <3>4. QED
            BY <3>1, <3>3, <2>7
    <2>11. ASSUME NEW u \in Threads, QueuedLast(u, l), X[u]
           PROVE  IF u \in r.own THEN r.queue = <<>> ELSE QueuedLast(u, r)
        <3>1. Len(q) \in 1..Len(q) /\ q[Len(q)].thread = u /\ q[Len(q)].excl
            BY <1>0, <2>5, <2>11 DEF QueuedLast, q
        <3>2. CASE k = Len(q)
            BY <1>0, <2>4, <3>1, <3>2
        <3>3. CASE k < Len(q)
            <4>1. Len(r.queue) \in 1..Len(r.queue) /\ r.queue[Len(r.queue)].thread = u
                <5>1. Len(r.queue) = Len(q) - k /\ Len(r.queue) \in 1..Len(r.queue)
                    BY <1>0, <2>1, <2>4, <3>3
                <5>2. r.queue[Len(r.queue)] = q[Len(r.queue) + k]
                    BY <5>1, <2>4
                <5>3. Len(r.queue) + k = Len(q)
                    BY <1>0, <5>1
                <5>4. QED
                    BY <5>1, <5>2, <5>3, <3>1
            <4>2. Queued(u, r)
                BY <4>1 DEF Queued
            <4>3. QED
                BY <4>1, <4>2, <2>10 DEF QueuedLast
        <3>4. QED
            BY <3>2, <3>3, <1>0, <2>1
    <2>12. QED
        BY <1>2, <2>6, <2>8, <2>9, <2>10, <2>11 DEF q, r
<1>3. QED
    BY <1>1, <1>2

(* An unlock: the others keep what they have, and may get it. *)
LEMMA UnlockOne ==
    ASSUME NEW l \in LockRec, NEW X \in [Threads -> BOOLEAN], NEW t \in Threads,
           WellLocked(l, X), t \in l.own,
           NEW r, r = Unlocked(l, t)
    PROVE  /\ r \in LockRec /\ WellLocked(r, X)
           /\ Asks(t, r) <=> Queued(t, l)
           /\ X[t] /\ l.queue = <<>> => r = Free
           /\ X[t] => ~(t \in r.own /\ Queued(t, r))
           /\ X[t] /\ QueuedLast(t, l) =>
                 IF t \in r.own THEN r.queue = <<>> ELSE QueuedLast(t, r)
           /\ \A u \in Threads \ {t} :
                 /\ u \in l.own => u \in r.own
                 /\ Asks(u, r) <=> Asks(u, l)
                 /\ ~(u \in l.own /\ Queued(u, l)) => ~(u \in r.own /\ Queued(u, r))
                 /\ u \notin l.own /\ QueuedLast(u, l) /\ X[u] =>
                       IF u \in r.own THEN r.queue = <<>> ELSE QueuedLast(u, r)
<1>0. X[t] => l.own = {t}
    BY DEF WellLocked
<1>1. CASE l.own = {t}
    <2>1. r = Pass(l)
        BY <1>1 DEF Unlocked
    <2>2. QED
        BY <1>1, <2>1, PassOne DEF Asks
<1>2. CASE l.own # {t}
    <2>1. r = [own |-> l.own \ {t}, excl |-> l.excl, queue |-> l.queue]
        BY <1>2 DEF Unlocked, LockRec
    <2>2. r \in LockRec /\ r.own # {}
        BY <1>2, <2>1 DEF LockRec
    <2>3. WellLocked(r, X)
        BY <2>1, <2>2 DEF WellLocked
    <2>4. QED
        BY <1>0, <1>2, <2>1, <2>2, <2>3 DEF Asks, Queued, QueuedLast
<1>3. QED
    BY <1>1, <1>2

-------------------------------------------------------------------------------
(* Only the modes of those who ask for a lock matter to it. *)
LEMMA ModesOfAskers ==
    ASSUME NEW l \in LockRec, NEW X \in [Threads -> BOOLEAN], NEW Y \in [Threads -> BOOLEAN],
           WellLocked(l, X), \A u \in Threads : Asks(u, l) => X[u] = Y[u]
    PROVE  WellLocked(l, Y)
<1>1. l.queue \in Seq(Entry) /\ l.own \subseteq Threads
    BY DEF LockRec, Entry
<1>2. \A i \in 1..Len(l.queue) : l.queue[i].thread \in Threads /\ Asks(l.queue[i].thread, l)
    <2>1. \A i \in 1..Len(l.queue) : l.queue[i] \in Entry
        BY <1>1
    <2>2. QED
        BY <2>1 DEF Asks, Queued, Entry
<1>3. \A t \in l.own : l.excl = Y[t]
    BY <1>1 DEF WellLocked, Asks
<1>4. QED
    BY <1>2, <1>3 DEF WellLocked

(* The locks after a request and after an unlock, one by one. *)
LEMMA LocksAfter ==
    ASSUME TypeOK, NEW a \in Nodes, NEW t \in Threads, NEW x \in BOOLEAN
    PROVE  /\ lock[a] \in LockRec
           /\ Request(lock, a, t, x) = [lock EXCEPT ![a] = Requested(lock[a], t, x)]
           /\ Unlock(lock, a, t) = [lock EXCEPT ![a] = Unlocked(lock[a], t)]
BY DEF TypeOK, Request, Unlock

(* What a step of thread t leaves to the others: their locals, and the     *)
(* links of the nodes they have locked.                                    *)
Others(t) ==
    \A u \in Threads \ {t} :
        /\ local'[u] = local[u] /\ prog'[u] = prog[u]
        /\ cur'[u] = cur[u] /\ mine'[u] = mine[u]

Still(t) ==
    \A u \in Threads \ {t}, m \in Nodes :
        u \in lock[m].own => next'[m] = next[m] /\ prev'[m] = prev[m]

(* The others keep the locks they have. *)
OwnersKept(t) ==
    \A u \in Threads \ {t}, m \in Nodes : u \in lock[m].own => u \in lock'[m].own

(* Nobody clears or exposes node a but t. *)
Fresh(t, a) ==
    /\ a \in Nodes /\ (a \in Elems => OnList(a))
    /\ \A u \in Threads \ {t} :
          local[u].pc \in {"clearyield", "cleared", "expose"} => local[u].el # a

(* The locks the other threads have and ask for stay the same. *)
LEMMA OthersLocks ==
    ASSUME TypeOK, LocalInv, LockInv, NearInv, NEW t \in Threads, Others(t), Still(t),
           NEW u \in Threads, u # t
    PROVE  /\ \A m \in Nodes : Must(u, m)' <=> Must(u, m)
           /\ \A m \in Nodes : May(u, m)' <=> May(u, m)
           /\ XMode(u)' = XMode(u)
<1>1. local'[u] = local[u]
    BY DEF Others
<1>2. local[u].pc = "unlink" => next'[local[u].el] = next[local[u].el]
    <2>1. local[u].pc = "unlink" => local[u].n = local[u].el /\ local[u].n \in Nodes
        BY DEF NearInv, NearOK, LocalInv, LocalOK, TypeOK, LocalRec
    <2>2. local[u].pc = "unlink" => u \in lock[local[u].n].own
        BY <2>1 DEF LockInv, LockOK, Must
    <2>3. QED
        BY <2>1, <2>2 DEF Still
<1>3. QED
    BY <1>1, <1>2 DEF Must, May, XMode

(* What EndOK speaks of is the lock of an element. *)
LEMMA EndIsElem ==
    ASSUME TypeOK, LocalInv, NEW u \in Threads,
           local[u].pc \in {"clearyield", "cleared", "expose"}
    PROVE  local[u].el \in Elems
<1>1. LocalOK(u) /\ local[u].el \in Elems \cup {NULL}
    BY DEF LocalInv, TypeOK, LocalRec
<1>2. QED
    BY <1>1 DEF LocalOK, SearchPcs

(* XModes gives every thread a mode. *)
LEMMA XModesType ==
    /\ XModes \in [Threads -> BOOLEAN] /\ XModes' \in [Threads -> BOOLEAN]
    /\ \A u \in Threads : XModes[u] = XMode(u) /\ XModes'[u] = XMode(u)'
BY DEF XModes, XMode

(* A step that leaves the locks alone. *)
LEMMA LocksKept ==
    ASSUME TypeOK, LocalInv, LockInv, NearInv, NEW t \in Threads, Others(t), Still(t),
           \A e \in Elems : OnList(e) => OnList(e)',
           lock' = lock,
           \A m \in Nodes : Must(t, m)' => t \in lock[m].own,
           \A m \in Nodes : Must(t, m)' \/ May(t, m)' <=> Must(t, m) \/ May(t, m),
           XMode(t)' = XMode(t) \/ \A m \in Nodes : ~Must(t, m) /\ ~May(t, m),
           ~At(t, "clearyield"), EndOK(t)'
    PROVE  LockInv'
<1>1. \A u \in Threads \ {t} : /\ \A m \in Nodes : Must(u, m)' <=> Must(u, m)
                               /\ \A m \in Nodes : May(u, m)' <=> May(u, m)
                               /\ XMode(u)' = XMode(u)
    BY OthersLocks
<1>2. \A m \in Nodes : WellLocked(lock'[m], XModes')
    <2> SUFFICES ASSUME NEW m \in Nodes PROVE WellLocked(lock[m], XModes')
        OBVIOUS
    <2>1. \A u \in Threads : Asks(u, lock[m]) => XModes[u] = XModes'[u]
        BY <1>1, XModesType DEF LockInv, LockOK
    <2>2. lock[m] \in LockRec /\ WellLocked(lock[m], XModes)
        BY DEF TypeOK, LockInv
    <2>3. QED
        BY <2>1, <2>2, XModesType, ModesOfAskers
<1>3. \A u \in Threads, m \in Nodes : LockOK(u, m)'
    <2>1. \A u \in Threads \ {t} : local'[u] = local[u]
        BY DEF Others
    <2>2. \A m \in Nodes : LockOK(t, m)'
        BY DEF LockInv, LockOK, At
    <2>3. \A u \in Threads \ {t}, m \in Nodes : LockOK(u, m)'
        BY <1>1, <2>1 DEF LockInv, LockOK, At
    <2>4. QED
        BY <2>2, <2>3
<1>4. \A u \in Threads : EndOK(u)'
    <2>1. \A u \in Threads \ {t} : EndOK(u)'
        BY DEF LockInv, EndOK, Others, Owns
    <2>2. QED
        BY <2>1
<1>5. QED
    BY <1>2, <1>3, <1>4 DEF LockInv

(* A step that asks for the lock of node a. *)
LEMMA LocksRequested ==
    ASSUME TypeOK, LocalInv, LockInv, NearInv, NEW t \in Threads, Others(t), Still(t),
           \A e \in Elems : OnList(e) => OnList(e)',
           NEW a, Fresh(t, a), NEW x \in BOOLEAN, x = XMode(t)',
           lock' = Request(lock, a, t, x),
           ~Queued(t, lock[a]),
           t \in lock[a].own => lock[a].queue # <<>> /\ At(t, "clearyield")' /\ local'[t].el = a,
           Must(t, a)' \/ May(t, a)',
           Must(t, a)' => t \in lock[a].own \/ Grantable(lock[a], x),
           \A m \in Nodes \ {a} : Must(t, m)' => t \in lock[m].own,
           \A m \in Nodes \ {a} : Must(t, m)' \/ May(t, m)' <=> Must(t, m) \/ May(t, m),
           XMode(t)' = XMode(t) \/ \A m \in Nodes : ~Must(t, m) /\ ~May(t, m),
           ~At(t, "clearyield"), EndOK(t)'
    PROVE  LockInv' /\ lock' \in [Nodes -> LockRec] /\ OwnersKept(t)
<1>0. a \in Nodes /\ lock[a] \in LockRec /\ lock \in [Nodes -> LockRec]
    BY DEF Fresh, TypeOK
<1>1. \A u \in Threads \ {t} : /\ \A m \in Nodes : Must(u, m)' <=> Must(u, m)
                               /\ \A m \in Nodes : May(u, m)' <=> May(u, m)
                               /\ XMode(u)' = XMode(u)
    BY OthersLocks
<1>2. lock' = [lock EXCEPT ![a] = Requested(lock[a], t, x)]
    BY <1>0, LocksAfter
<1>3. PICK r : r = Requested(lock[a], t, x)
    OBVIOUS
<1>4. lock'[a] = r /\ \A m \in Nodes \ {a} : lock'[m] = lock[m]
    BY <1>0, <1>2, <1>3
<1>5. \A m \in Nodes : WellLocked(lock[m], XModes')
    <2> SUFFICES ASSUME NEW m \in Nodes PROVE WellLocked(lock[m], XModes')
        OBVIOUS
    <2>1. \A u \in Threads : Asks(u, lock[m]) => XModes[u] = XModes'[u]
        BY <1>1, XModesType DEF LockInv, LockOK
    <2>2. lock[m] \in LockRec /\ WellLocked(lock[m], XModes)
        BY DEF TypeOK, LockInv
    <2>3. QED
        BY <2>1, <2>2, XModesType, ModesOfAskers
<1>6. /\ r \in LockRec /\ WellLocked(r, XModes')
      /\ Asks(t, r)
      /\ Grantable(lock[a], x) => t \in r.own
      /\ t \notin lock[a].own => ~(t \in r.own /\ Queued(t, r))
      /\ t \in lock[a].own => t \in r.own /\ QueuedLast(t, r)
      /\ \A u \in Threads \ {t} : /\ u \in r.own <=> u \in lock[a].own
                                  /\ Queued(u, r) <=> Queued(u, lock[a])
    <2>1. XModes' \in [Threads -> BOOLEAN] /\ XModes'[t] = x
        BY XModesType
    <2>2. r = Requested(lock[a], t, XModes'[t])
        BY <1>3, <2>1
    <2>3. WellLocked(lock[a], XModes')
        BY <1>0, <1>5
    <2>4. QED
        BY <1>0, <2>1, <2>2, <2>3, RequestOne
<1>7. \A m \in Nodes : WellLocked(lock'[m], XModes')
    BY <1>4, <1>5, <1>6
<1>8. \A u \in Threads, m \in Nodes : LockOK(u, m)'
    <2>1. \A u \in Threads \ {t} : local'[u] = local[u]
        BY DEF Others
    <2>2. \A m \in Nodes \ {a} : LockOK(t, m)'
        BY <1>4 DEF LockInv, LockOK, At
    <2>3. LockOK(t, a)'
        BY <1>0, <1>4, <1>6 DEF LockOK, At
    <2>4. \A u \in Threads \ {t}, m \in Nodes \ {a} : LockOK(u, m)'
        BY <1>1, <1>4, <2>1 DEF LockInv, LockOK, At
    <2>5. \A u \in Threads \ {t} : LockOK(u, a)'
        BY <1>0, <1>1, <1>4, <1>6, <2>1 DEF LockInv, LockOK, At, Asks
    <2>6. QED
        BY <2>2, <2>3, <2>4, <2>5
<1>9. \A u \in Threads : EndOK(u)'
    <2> SUFFICES ASSUME NEW u \in Threads \ {t} PROVE EndOK(u)'
        OBVIOUS
    <2>1. local'[u] = local[u] /\ EndOK(u)
        BY DEF Others, LockInv
    <2>2. local[u].pc \in {"clearyield", "cleared", "expose"} =>
              local[u].el # a /\ local[u].el \in Nodes
        BY EndIsElem DEF Fresh, Nodes
    <2>3. QED
        BY <1>4, <2>1, <2>2 DEF EndOK, Owns
<1>10. \A e \in Elems : ~OnList(e)' => lock'[e] = Free
    BY <1>4 DEF LockInv, Fresh, Nodes
<1>11. QED
    BY <1>0, <1>2, <1>4, <1>6, <1>7, <1>8, <1>9, <1>10 DEF LockInv, OwnersKept

(* A step that gives up the locks of the nodes S. *)
LEMMA LocksUnlocked ==
    ASSUME TypeOK, LocalInv, LockInv, NearInv, NEW t \in Threads, Others(t), Still(t),
           NEW S \in SUBSET Nodes,
           lock' = [m \in Nodes |-> IF m \in S THEN Unlocked(lock[m], t) ELSE lock[m]],
           \A e \in Elems : OnList(e) => OnList(e)' \/ lock'[e] = Free,
           \A a \in S : t \in lock[a].own /\ ~Must(t, a)'
                        /\ (May(t, a)' <=> Queued(t, lock[a])),
           \A m \in Nodes \ S : Must(t, m)' => t \in lock[m].own,
           \A m \in Nodes \ S : Must(t, m)' \/ May(t, m)' <=> Must(t, m) \/ May(t, m),
           XMode(t)' = XMode(t) \/ \A m \in Nodes : ~Must(t, m)' /\ ~May(t, m)',
           At(t, "clearyield") => local[t].el \in S, EndOK(t)'
    PROVE  LockInv' /\ lock' \in [Nodes -> LockRec] /\ OwnersKept(t)
<1>0. \A m \in Nodes : lock[m] \in LockRec /\ WellLocked(lock[m], XModes)
    BY DEF TypeOK, LockInv
<1>1. \A u \in Threads \ {t} : /\ \A m \in Nodes : Must(u, m)' <=> Must(u, m)
                               /\ \A m \in Nodes : May(u, m)' <=> May(u, m)
                               /\ XMode(u)' = XMode(u)
    BY OthersLocks
<1>2. \A m \in Nodes : /\ m \in S => lock'[m] = Unlocked(lock[m], t)
                       /\ m \notin S => lock'[m] = lock[m]
    OBVIOUS
<1>3. \A m \in S : t \in lock[m].own /\ Queued(t, lock[m]) => XModes[t]
    <2>1. \A m \in S : t \in lock[m].own /\ Queued(t, lock[m]) => At(t, "clearyield")
        BY DEF LockInv, LockOK
    <2>2. At(t, "clearyield") => XMode(t)
        BY DEF At, XMode, OffPcs
    <2>3. QED
        BY <2>1, <2>2, XModesType
<1>4. ASSUME NEW m \in S
      PROVE  /\ lock'[m] \in LockRec /\ WellLocked(lock'[m], XModes)
             /\ Asks(t, lock'[m]) <=> Queued(t, lock[m])
             /\ ~(t \in lock'[m].own /\ Queued(t, lock'[m]))
             /\ \A u \in Threads \ {t} :
                   /\ u \in lock[m].own => u \in lock'[m].own
                   /\ Asks(u, lock'[m]) <=> Asks(u, lock[m])
                   /\ ~(u \in lock[m].own /\ Queued(u, lock[m])) =>
                         ~(u \in lock'[m].own /\ Queued(u, lock'[m]))
                   /\ u \notin lock[m].own /\ QueuedLast(u, lock[m]) /\ XModes[u] =>
                         IF u \in lock'[m].own THEN lock'[m].queue = <<>>
                         ELSE QueuedLast(u, lock'[m])
    <2>1. m \in Nodes /\ lock[m] \in LockRec /\ WellLocked(lock[m], XModes)
          /\ t \in lock[m].own
        BY <1>0
    <2>2. PICK r : r = Unlocked(lock[m], t)
        OBVIOUS
    <2>3. lock'[m] = r
        BY <1>2, <2>1, <2>2
    <2>4. /\ r \in LockRec /\ WellLocked(r, XModes)
          /\ Asks(t, r) <=> Queued(t, lock[m])
          /\ XModes[t] => ~(t \in r.own /\ Queued(t, r))
          /\ \A u \in Threads \ {t} :
                   /\ u \in lock[m].own => u \in r.own
                   /\ Asks(u, r) <=> Asks(u, lock[m])
                   /\ ~(u \in lock[m].own /\ Queued(u, lock[m])) => ~(u \in r.own /\ Queued(u, r))
                   /\ u \notin lock[m].own /\ QueuedLast(u, lock[m]) /\ XModes[u] =>
                         IF u \in r.own THEN r.queue = <<>> ELSE QueuedLast(u, r)
        BY <2>1, <2>2, XModesType, UnlockOne
    <2>5. ~(t \in r.own /\ Queued(t, r))
        BY <1>3, <2>1, <2>4 DEF Asks
    <2>6. QED
        BY <2>3, <2>4, <2>5
<1>5. \A m \in Nodes : lock'[m] \in LockRec /\ WellLocked(lock'[m], XModes)
    BY <1>0, <1>2, <1>4
<1>6. \A u \in Threads, m \in Nodes : LockOK(u, m)'
    <2>1. \A u \in Threads \ {t} : local'[u] = local[u]
        BY DEF Others
    <2>2. \A m \in Nodes \ S : LockOK(t, m)'
        BY <1>2 DEF LockInv, LockOK, At
    <2>3. \A m \in S : LockOK(t, m)'
        BY <1>4 DEF LockOK, At
    <2>4. \A u \in Threads \ {t}, m \in Nodes \ S : LockOK(u, m)'
        BY <1>1, <1>2, <2>1 DEF LockInv, LockOK, At
    <2>5. \A u \in Threads \ {t}, m \in S : LockOK(u, m)'
        BY <1>1, <1>4, <2>1 DEF LockInv, LockOK, At
    <2>6. QED
        BY <2>2, <2>3, <2>4, <2>5
<1>7. \A m \in Nodes : WellLocked(lock'[m], XModes')
    <2> SUFFICES ASSUME NEW m \in Nodes PROVE WellLocked(lock'[m], XModes')
        OBVIOUS
    <2>1. \A u \in Threads : Asks(u, lock'[m]) => XModes[u] = XModes'[u]
        BY <1>1, <1>6, XModesType DEF LockOK
    <2>2. QED
        BY <1>5, <2>1, XModesType, ModesOfAskers
<1>8. \A u \in Threads : EndOK(u)'
    <2> SUFFICES ASSUME NEW u \in Threads \ {t} PROVE EndOK(u)'
        OBVIOUS
    <2> DEFINE e == local[u].el
    <2>1. local'[u] = local[u] /\ EndOK(u)
        BY DEF Others, LockInv
    <2>2. local[u].pc \in {"clearyield", "cleared", "expose"} => e \in Nodes
        BY EndIsElem DEF Nodes
    <2>3. local[u].pc \in {"clearyield", "cleared"} => XModes[u]
        BY XModesType DEF XMode, OffPcs
    <2>4. local[u].pc = "clearyield" => u \in lock[e].own
        BY <2>2 DEF LockInv, LockOK, Must
    <2>5. local[u].pc \in {"clearyield", "cleared"} /\ u \in lock[e].own => e \notin S
        BY <1>0, <2>2, <2>3 DEF WellLocked
    <2>6. local[u].pc = "expose" => e \notin S
        BY <2>1 DEF EndOK, Free
    <2>7. local[u].pc = "clearyield" => EndOK(u)'
        BY <1>2, <2>1, <2>2, <2>4, <2>5 DEF EndOK
    <2>8. local[u].pc = "cleared" => EndOK(u)'
        <3> SUFFICES ASSUME local[u].pc = "cleared" PROVE EndOK(u)'
            OBVIOUS
        <3>1. CASE e \notin S
            BY <3>1, <1>2, <2>1, <2>2 DEF EndOK, Owns
        <3>2. CASE e \in S
            BY <3>2, <1>4, <2>1, <2>3, <2>5 DEF EndOK, Owns
        <3>3. QED
            BY <3>1, <3>2
    <2>9. local[u].pc = "expose" => EndOK(u)'
        BY <1>2, <2>1, <2>2, <2>6 DEF EndOK
    <2>10. QED
        BY <2>1, <2>7, <2>8, <2>9 DEF EndOK
<1>9. \A e \in Elems : ~OnList(e)' => lock'[e] = Free
    <2>1. \A e \in Elems : ~OnList(e) => lock[e] = Free /\ e \notin S
        BY DEF LockInv, Free
    <2>2. QED
        BY <1>2, <2>1 DEF Nodes
<1>10. QED
    BY <1>2, <1>4, <1>5, <1>6, <1>7, <1>8, <1>9 DEF LockInv, OwnersKept

-------------------------------------------------------------------------------
(* What IInv says of one thread. *)
LEMMA Here ==
    ASSUME IInv, NEW t \in Threads
    PROVE  /\ LocalOK(t) /\ EndOK(t) /\ NearOK(t) /\ ClaimOK(t) /\ MineOK(t) /\ WaitOK(t)
           /\ \A m \in Nodes : LockOK(t, m)
           /\ local[t].pc \in Pcs /\ local[t].n \in Nodes \cup {NULL}
           /\ local[t].x \in Nodes \cup {NULL} /\ local[t].el \in Elems \cup {NULL}
           /\ local[t].pinned \in Elems \cup {NULL}
           /\ local[t].then \in Moving \cup {"remove", NULL}
           /\ cur[t] \in Elems \cup {NULL, Done} /\ mine[t] \in Elems \cup {NULL}
           /\ prog[t] \in Seq(Op)
BY DEF IInv, TypeOK, LocalRec, LocalInv, LockInv, NearInv, ClaimInv, WaitInv

(* Who removes or inserts has an element. *)
LEMMA ClaimElem ==
    ASSUME IInv, NEW u \in Threads, Claims(u)
    PROVE  local[u].el \in Elems
<1>1. LocalOK(u) /\ local[u].el \in Elems \cup {NULL}
    BY Here
<1>2. local[u].el # NULL
    BY <1>1 DEF LocalOK, Claims, Removing, Inserting, SearchPcs, PairPcs, OffPcs, InsPcs
<1>3. QED
    BY <1>1, <1>2

(* A writer is the only owner. *)
LEMMA OneWriter ==
    ASSUME IInv, NEW t \in Threads, NEW u \in Threads, NEW m \in Nodes,
           t \in lock[m].own, u \in lock[m].own, XMode(t)
    PROVE  u = t
BY XModesType DEF IInv, LockInv, WellLocked

(* An element has finitely many pins. *)
LEMMA TokensFinite ==
    ASSUME NEW e
    PROVE  IsFiniteSet(Tokens(e)) /\ Tokens(e) \subseteq Threads \X Kinds
<1>1. IsFiniteSet(Kinds)
    <2>1. Kinds = ((({} \cup {"cur"}) \cup {"pinned"}) \cup {"x"}) \cup {"el"}
        BY DEF Kinds
    <2>2. IsFiniteSet({} \cup {"cur"})
        BY FS_EmptySet, FS_AddElement
    <2>3. IsFiniteSet(({} \cup {"cur"}) \cup {"pinned"})
        BY <2>2, FS_AddElement
    <2>4. IsFiniteSet((({} \cup {"cur"}) \cup {"pinned"}) \cup {"x"})
        BY <2>3, FS_AddElement
    <2>5. QED
        BY <2>1, <2>4, FS_AddElement
<1>2. IsFiniteSet(Threads \X Kinds)
    BY <1>1, AtomicListAssumption, FS_Product
<1>3. Tokens(e) \subseteq Threads \X Kinds
    BY DEF Tokens
<1>4. QED
    BY <1>2, <1>3, FS_Subset

(* What is held is pinned. *)
LEMMA HeldIsPinned ==
    ASSUME IInv, NEW t \in Threads, NEW k \in Kinds, NEW e \in Elems, Holds(t, k, e)
    PROVE  ref[e].pin > 0
<1>1. <<t, k>> \in Tokens(e)
    BY DEF Tokens
<1>2. Cardinality(Tokens(e)) # 0 /\ Cardinality(Tokens(e)) \in Nat
    BY <1>1, TokensFinite, FS_EmptySet, FS_CardinalityType
<1>3. QED
    BY <1>2 DEF IInv, PinInv

(* What nobody removes is a member. *)
LEMMA ClaimedOff ==
    ASSUME IInv, NEW t \in Threads, local[t].pc \in OffPcs
    PROVE  /\ Removing(t) /\ Claims(t) /\ ~PinsEl(t)
           /\ local[t].el \in Elems /\ ref[local[t].el].pin = 0
<1>1. Removing(t) /\ Claims(t)
    BY DEF Removing, Claims
<1>2. LocalOK(t) /\ WaitOK(t) /\ local[t].el \in Elems \cup {NULL}
    BY Here
<1>3. local[t].then \notin Moving /\ local[t].el # NULL /\ local[t].pc # "await"
    BY <1>2 DEF LocalOK, OffPcs, SearchPcs
<1>4. ~PinsEl(t)
    BY <1>3 DEF PinsEl, OffPcs, PairPcs, InsPcs, Moving
<1>5. QED
    BY <1>1, <1>2, <1>3, <1>4 DEF WaitOK

(* A pin keeps an element on the list, and it is not one that is inserted. *)
LEMMA HeldIsMember ==
    ASSUME IInv, NEW t \in Threads, NEW k \in Kinds, NEW e \in Elems, Holds(t, k, e),
           ~(Inserting(t) /\ local[t].el = e /\ k = "el")
    PROVE  e \in Members /\ OnList(e) /\ \A u \in Threads : Inserting(u) => local[u].el # e
<1>1. ref[e].pin > 0 /\ ref[e].pin # 0
    <2>1. ref[e].pin > 0 /\ ref[e].pin \in Nat
        BY HeldIsPinned DEF IInv, TypeOK
    <2>2. QED
        BY <2>1
<1>2. \A u \in Threads : Inserting(u) => local[u].el # e
    BY DEF IInv, PinInv
<1>3. OnList(e)
    BY <1>1, <1>2 DEF IInv, ClaimInv, ElemOK
<1>4. \A u \in Threads : local[u].el = e => local[u].pc \notin OffPcs
    BY <1>1, ClaimedOff
<1>5. QED
    BY <1>2, <1>3, <1>4 DEF Members, OffPcs

(* What is removed is on the list until it is unlinked. *)
LEMMA RemovedIsMember ==
    ASSUME IInv, NEW t \in Threads, Removing(t), local[t].pc \notin OffPcs,
           local[t].el \in Elems
    PROVE  local[t].el \in Members
<1>1. OnList(local[t].el)
    BY Here DEF ClaimOK
<1>2. \A u \in Threads : local[u].pc \in OffPcs /\ local[u].el = local[t].el => u = t
    <2>1. \A u \in Threads : local[u].pc \in OffPcs => Claims(u)
        BY ClaimedOff
    <2>2. QED
        BY <2>1 DEF IInv, ClaimInv, Claims
<1>3. QED
    BY <1>1, <1>2 DEF Members, OffPcs

(* Neighbours are not the same node. *)
LEMMA Neighbours ==
    ASSUME IInv
    PROVE  /\ Members \subseteq Elems
           /\ \A n \in Members \cup {HEAD} :
                 next[n] \in Members \cup {TAIL} /\ prev[next[n]] = n /\ next[n] # n
           /\ \A n \in Members \cup {TAIL} :
                 prev[n] \in Members \cup {HEAD} /\ next[prev[n]] = n /\ prev[n] # n
           /\ \A n \in Members : next[n] # prev[n]
<1>1. /\ \A n \in Members \cup {HEAD} : next[n] \in Members \cup {TAIL} /\ prev[next[n]] = n
      /\ \A n \in Members \cup {TAIL} : prev[n] \in Members \cup {HEAD} /\ next[prev[n]] = n
    BY DEF IInv, LinkInv
<1>2. Members \subseteq Elems
    BY DEF Members
<1>3. PICK rank \in [Nodes -> Int] : \A n \in Members \cup {HEAD} : rank[n] < rank[next[n]]
    BY DEF IInv, LinkInv, Ordered
<1>4. \A n \in Nodes : rank[n] \in Int
    BY <1>3
<1>5. \A n \in Members \cup {HEAD, TAIL} : n \in Nodes
    BY <1>2 DEF Nodes
<1>6. \A n \in Members \cup {HEAD} : next[n] # n
    BY <1>3, <1>4, <1>5
<1>7. \A n \in Members \cup {TAIL} : prev[n] # n
    BY <1>1, <1>6
<1>8. \A n \in Members : next[n] # prev[n]
    <2> SUFFICES ASSUME NEW n \in Members, next[n] = prev[n] PROVE FALSE
        OBVIOUS
    <2>1. rank[n] < rank[next[n]] /\ rank[prev[n]] < rank[n]
        BY <1>1, <1>3
    <2>2. rank[n] \in Int /\ rank[next[n]] \in Int
        BY <1>1, <1>4, <1>5
    <2>3. QED
        BY <2>1, <2>2
<1>9. QED
    BY <1>1, <1>2, <1>6, <1>7, <1>8

-------------------------------------------------------------------------------
(* The nodes a thread may ask for. *)

(* The members that nobody exposes, and the ends. *)
LEMMA FreshMember ==
    ASSUME IInv, NEW t \in Threads, NEW a \in Members \cup {HEAD, TAIL},
           \A u \in Threads \ {t} : local[u].pc = "expose" => local[u].el # a
    PROVE  Fresh(t, a)
<1>1. a \in Nodes /\ (a \in Elems => OnList(a))
    BY AtomicListAssumption DEF Members, Nodes
<1>2. \A u \in Threads : local[u].pc \in {"clearyield", "cleared"} => local[u].el # a
    <2>1. \A u \in Threads : local[u].pc \in {"clearyield", "cleared"} => local[u].el \in Elems
        BY ClaimedOff DEF OffPcs
    <2>2. QED
        BY <2>1, AtomicListAssumption DEF Members
<1>3. QED
    BY <1>1, <1>2 DEF Fresh

(* The ends of the list never leave it. *)
LEMMA FreshEnd ==
    ASSUME IInv, NEW t \in Threads, NEW a \in {HEAD, TAIL}
    PROVE  Fresh(t, a)
<1>1. \A u \in Threads : local[u].pc = "expose" => local[u].el \in Elems
    BY EndIsElem DEF IInv
<1>2. QED
    BY <1>1, FreshMember, AtomicListAssumption

(* What a thread has pinned is not cleared by another. *)
LEMMA FreshHeld ==
    ASSUME IInv, NEW t \in Threads, NEW k \in Kinds, NEW e \in Elems, Holds(t, k, e),
           ~(Inserting(t) /\ local[t].el = e /\ k = "el")
    PROVE  Fresh(t, e)
<1>1. e \in Members /\ \A u \in Threads : Inserting(u) => local[u].el # e
    BY HeldIsMember
<1>2. \A u \in Threads : local[u].pc = "expose" => Inserting(u)
    BY Here DEF LocalOK, InsPcs, Inserting
<1>3. QED
    BY <1>1, <1>2, FreshMember

(* What a thread removes is not cleared by another. *)
LEMMA FreshRemoved ==
    ASSUME IInv, NEW t \in Threads, Removing(t), local[t].el \in Elems
    PROVE  Fresh(t, local[t].el)
<1>1. \A u \in Threads : local[u].pc \in {"clearyield", "cleared", "expose"} => Claims(u)
    <2>1. \A u \in Threads : local[u].pc = "expose" => Inserting(u)
        BY Here DEF LocalOK, InsPcs, Inserting
    <2>2. QED
        BY <2>1 DEF Claims, Removing, OffPcs
<1>2. OnList(local[t].el)
    BY Here DEF ClaimOK
<1>3. QED
    BY <1>1, <1>2 DEF Fresh, Nodes, Claims, IInv, ClaimInv

(* What the search of a thread began with. *)
LEMMA AnchorIsMember ==
    ASSUME IInv, NEW t \in Threads, NEW m, Anchored(t, m),
           local[t].pc \notin OffPcs, ~Inserting(t)
    PROVE  m \in Members /\ m \in Elems /\ Fresh(t, m)
<1>1. m \in Elems
    BY DEF Anchored
<1>2. CASE m = local[t].pinned
    <2>1. Holds(t, "pinned", m)
        BY <1>2 DEF Holds
    <2>2. QED
        BY <1>1, <2>1, HeldIsMember, FreshHeld DEF Kinds
<1>3. CASE local[t].then = "again" /\ m = local[t].el
    <2>1. Removing(t)
        BY <1>3 DEF Removing
    <2>2. QED
        BY <1>1, <1>3, <2>1, RemovedIsMember, FreshRemoved
<1>4. QED
    BY <1>2, <1>3 DEF Anchored

(* Who exposes an element has its neighbours. *)
LEMMA FreshNeighbour ==
    ASSUME IInv, NEW t \in Threads, NEW n \in Nodes, t \in lock[n].own
    PROVE  /\ n \in Members \cup {HEAD} => Fresh(t, next[n])
           /\ n \in Members \cup {TAIL} => Fresh(t, prev[n])
<1>1. ASSUME NEW u \in Threads \ {t}, local[u].pc = "expose"
      PROVE  prev[local[u].el] # n /\ next[local[u].el] # n
    <2>1. prev[local[u].el] \in {local[u].n, local[u].x}
          /\ next[local[u].el] \in {local[u].n, local[u].x}
        BY <1>1, Here DEF NearOK
    <2>2. local[u].n \in Nodes /\ local[u].x \in Nodes
        <3>1. LocalOK(u) /\ local[u].n \in Nodes \cup {NULL} /\ local[u].x \in Nodes \cup {NULL}
            BY Here
        <3>2. QED
            BY <1>1, <3>1 DEF LocalOK, InsPcs
    <2>3. u \in lock[local[u].n].own /\ u \in lock[local[u].x].own
        BY <1>1, <2>2 DEF IInv, LockInv, LockOK, Must
    <2>4. XMode(u)
        BY <1>1 DEF XMode, InsPcs
    <2>5. QED
        BY <2>1, <2>2, <2>3, <2>4, OneWriter
<1>2. ASSUME n \in Members \cup {HEAD} PROVE Fresh(t, next[n])
    BY <1>1, <1>2, Neighbours, FreshMember
<1>3. ASSUME n \in Members \cup {TAIL} PROVE Fresh(t, prev[n])
    BY <1>1, <1>3, Neighbours, FreshMember
<1>4. QED
    BY <1>2, <1>3

-------------------------------------------------------------------------------
(* What a step of thread t leaves to the others: it changes the links of   *)
(* nodes it has the exclusive locks of, or of the element it inserts; only *)
(* its own element leaves the list, is exposed or is pinned anew when it   *)
(* was masked and not pinned; it waits for what it removes or has let go   *)
(* first, and whom it does not wake still waits.                           *)
Rely(t) ==
    LET el == local[t].el IN
    /\ \A m \in Nodes : \/ next'[m] = next[m] /\ prev'[m] = prev[m]
                        \/ t \in lock[m].own /\ XMode(t)
                        \/ Inserting(t) /\ m = el /\ ~OnList(m)
    /\ \A e \in Elems : OnList(e) =>
          OnList(e)' \/ (At(t, "cleared") /\ e = el /\ t \in lock[e].own)
    /\ \A e \in Members : e \in Members' \/ (At(t, "unlink") /\ e = el)
    /\ \A e \in Elems : ref[e].mask => ref'[e].mask \/ (At(t, "expose") /\ e = el)
    /\ \A e \in Elems : ref[e].mask /\ ref[e].pin = 0 /\ OnList(e) => ref'[e].pin = 0
    /\ \A e \in Elems : t \in ref'[e].wait =>
          t \in ref[e].wait \/ (At(t, "settle") /\ e = el) \/ (At(t, "defer") /\ e = local[t].x)
    /\ \A u \in Threads \ {t}, e \in Elems :
          /\ u \in ref'[e].wait => u \in ref[e].wait
          /\ u \in ref[e].wait =>
                \/ signal'[u] /\ ref'[e].pin = 0 /\ ref'[e].wait = {}
                \/ signal'[u] = signal[u]
                   /\ (ref[e].pin > 0 => ref'[e].pin > 0 /\ ref'[e].wait = ref[e].wait)
    /\ \A u \in Threads \ {t} :
          /\ signal[u] => signal'[u]
          /\ signal'[u] => signal[u] \/ \E e \in Elems : u \in ref[e].wait /\ ref'[e].wait = {}

(* The others are where they were. *)
LEMMA OthersSame ==
    ASSUME NEW t \in Threads, Others(t), NEW u \in Threads, u # t
    PROVE  /\ local'[u] = local[u] /\ cur'[u] = cur[u] /\ mine'[u] = mine[u]
           /\ Inserts(u)' <=> Inserts(u)
           /\ Removing(u)' <=> Removing(u)
           /\ Inserting(u)' <=> Inserting(u)
           /\ Claims(u)' <=> Claims(u)
           /\ PinsEl(u)' <=> PinsEl(u)
           /\ \A k, e : Holds(u, k, e)' <=> Holds(u, k, e)
           /\ LocalOK(u) => LocalOK(u)'
<1>1. local'[u] = local[u] /\ prog'[u] = prog[u] /\ cur'[u] = cur[u] /\ mine'[u] = mine[u]
    BY DEF Others
<1>2. \A S : Calls(u, S)' <=> Calls(u, S)
    BY <1>1 DEF Calls, Call
<1>3. (Inserts(u)' <=> Inserts(u)) /\ Call(u)' = Call(u)
    BY <1>1, <1>2 DEF Inserts, Call
<1>4. Removing(u)' <=> Removing(u)
    BY <1>1, <1>3 DEF Removing
<1>5. Inserting(u)' <=> Inserting(u)
    BY <1>1, <1>3 DEF Inserting
<1>6. PinsEl(u)' <=> PinsEl(u)
    BY <1>1, <1>3 DEF PinsEl
<1>7. \A k, e : Holds(u, k, e)' <=> Holds(u, k, e)
    BY <1>1, <1>6 DEF Holds
<1>8. LocalOK(u) => LocalOK(u)'
    BY <1>1, <1>2, <1>3 DEF LocalOK
<1>9. QED
    BY <1>1, <1>3, <1>4, <1>5, <1>6, <1>7, <1>8 DEF Claims

(* Who keeps to Rely changes the links of no node that another has locked. *)
LEMMA RelyStill ==
    ASSUME IInv, NEW t \in Threads, Rely(t)
    PROVE  Still(t)
<1> SUFFICES ASSUME NEW u \in Threads \ {t}, NEW m \in Nodes, u \in lock[m].own
             PROVE  next'[m] = next[m] /\ prev'[m] = prev[m]
    BY DEF Still
<1>1. ~(t \in lock[m].own /\ XMode(t))
    BY OneWriter
<1>2. ~(Inserting(t) /\ m = local[t].el /\ ~OnList(m))
    <2>1. m = local[t].el => m \in Elems
        <3>1. local[t].el \in Elems \cup {NULL}
            BY Here
        <3>2. QED
            BY <3>1, AtomicListAssumption
    <2>2. QED
        BY <2>1 DEF IInv, LockInv, Free
<1>3. QED
    BY <1>1, <1>2 DEF Rely

(* What a thread has asked for is not exposed or cleared by another. *)
LEMMA AskedStays ==
    ASSUME IInv, NEW t \in Threads, Rely(t), NEW u \in Threads, u # t,
           NEW e \in Elems, Asks(u, lock[e])
    PROVE  /\ ref[e].mask => ref'[e].mask
           /\ OnList(e) => OnList(e)'
<1>1. ~(At(t, "expose") /\ e = local[t].el)
    <2>1. At(t, "expose") /\ e = local[t].el => lock[e] = Free
        BY Here DEF EndOK, At
    <2>2. QED
        BY <2>1 DEF Free, Asks, Queued
<1>2. ~(At(t, "cleared") /\ e = local[t].el /\ t \in lock[e].own)
    <2> SUFFICES ASSUME At(t, "cleared"), e = local[t].el, t \in lock[e].own PROVE FALSE
        OBVIOUS
    <2>1. lock[e].queue = <<>>
        BY Here DEF EndOK, At, Owns
    <2>2. u \in lock[e].own
        BY <2>1 DEF Asks, Queued
    <2>3. XMode(t)
        BY DEF XMode, At, OffPcs
    <2>4. QED
        BY <2>2, <2>3, OneWriter DEF Nodes
<1>3. QED
    BY <1>1, <1>2 DEF Rely

(* What a thread has locked or pinned, or removes, is not unlinked by      *)
(* another.                                                                *)
LEMMA AnchorStays ==
    ASSUME IInv, NEW t \in Threads, Rely(t), NEW u \in Threads, u # t,
           NEW e \in Members, u \in lock[e].own \/ Anchored(u, e)
    PROVE  e \in Members'
<1> SUFFICES ASSUME At(t, "unlink"), e = local[t].el PROVE FALSE
    BY DEF Rely
<1>0. e \in Elems
    BY DEF Members
<1>1. Removing(t) /\ XMode(t)
    BY DEF Removing, XMode, At
<1>2. LocalOK(t) /\ NearOK(t) /\ WaitOK(t)
    BY Here
<1>3. local[t].then \notin Moving /\ local[t].n = e
    BY <1>2 DEF LocalOK, NearOK, At, SearchPcs
<1>4. ~PinsEl(t)
    BY <1>3 DEF PinsEl, At, PairPcs, InsPcs, Moving
<1>5. ref[e].pin = 0
    BY <1>1, <1>2, <1>4 DEF WaitOK, At
<1>6. CASE u \in lock[e].own
    <2>1. t \in lock[e].own
        BY <1>0, <1>3 DEF IInv, LockInv, LockOK, Must, At, Nodes
    <2>2. QED
        BY <1>0, <1>1, <1>6, <2>1, OneWriter DEF Nodes
<1>7. CASE local[u].pinned = e
    <2>1. Holds(u, "pinned", e)
        BY <1>7 DEF Holds
    <2>2. QED
        BY <1>0, <1>5, <2>1, HeldIsPinned DEF Kinds
<1>8. CASE local[u].then = "again" /\ e = local[u].el
    <2>1. Claims(u) /\ Claims(t)
        BY <1>1, <1>8 DEF Claims, Removing
    <2>2. QED
        BY <1>8, <2>1 DEF IInv, ClaimInv
<1>9. QED
    BY <1>6, <1>7, <1>8 DEF Anchored

(* The nodes another thread works with stay as they were. *)
LEMMA NearOthers ==
    ASSUME IInv, NEW t \in Threads, Others(t), OwnersKept(t), Rely(t),
           NEW u \in Threads, u # t
    PROVE  NearOK(u)'
<1> DEFINE l == local[u]
<1>0. /\ local'[u] = l /\ cur'[u] = cur[u] /\ (Inserts(u)' <=> Inserts(u))
    BY OthersSame
<1>1. /\ LocalOK(u) /\ NearOK(u) /\ EndOK(u) /\ \A m \in Nodes : LockOK(u, m)
      /\ l.n \in Nodes \cup {NULL} /\ l.x \in Nodes \cup {NULL} /\ l.el \in Elems \cup {NULL}
    BY Here
<1>2. \A m \in Nodes : u \in lock[m].own =>
          next'[m] = next[m] /\ prev'[m] = prev[m] /\ u \in lock'[m].own
    BY RelyStill DEF Still, OwnersKept
<1>3. l.pc \in {"hop", "link"} => next'[l.n] = l.x
    <2>1. l.pc \in {"hop", "link"} => l.n \in Nodes
        BY <1>1 DEF LocalOK, SearchPcs, InsPcs
    <2>2. l.pc \in {"hop", "link"} => u \in lock[l.n].own
        BY <1>1, <2>1 DEF LockOK, Must
    <2>3. QED
        BY <1>1, <1>2, <2>1, <2>2 DEF NearOK
<1>4. l.pc \in {"yield", "paired", "pairyield", "unlink"} => prev'[l.n] = l.x
    <2>1. l.pc \in {"yield", "paired", "pairyield", "unlink"} => l.n \in Nodes
        BY <1>1 DEF LocalOK, SearchPcs, PairPcs
    <2>2. l.pc \in {"yield", "paired", "pairyield", "unlink"} => u \in lock[l.n].own
        BY <1>1, <2>1 DEF LockOK, Must
    <2>3. QED
        BY <1>1, <1>2, <2>1, <2>2 DEF NearOK
<1>5. l.pc \in {"next", "hop"} =>
          l.n \in Members' \cup {HEAD}
          /\ (l.n = HEAD \/ Anchored(u, l.n) \/ u \in lock'[l.n].own)
    <2> SUFFICES ASSUME l.pc \in {"next", "hop"}, l.n # HEAD
                 PROVE  l.n \in Members' /\ (Anchored(u, l.n) \/ u \in lock'[l.n].own)
        OBVIOUS
    <2>1. l.n \in Members /\ (Anchored(u, l.n) \/ u \in lock[l.n].own)
        BY <1>1 DEF NearOK, Owns
    <2>2. l.n \in Nodes
        BY <2>1 DEF Members, Nodes
    <2>3. QED
        BY <1>2, <2>1, <2>2, AnchorStays
<1>6. l.pc = "expose" => prev'[l.el] \in {l.n, l.x} /\ next'[l.el] \in {l.n, l.x}
    <2> SUFFICES ASSUME l.pc = "expose" PROVE next'[l.el] = next[l.el] /\ prev'[l.el] = prev[l.el]
        BY <1>1 DEF NearOK
    <2>1. l.el \in Elems /\ lock[l.el] = Free /\ Inserting(u)
        <3>1. l.el \in Elems
            BY EndIsElem DEF IInv
        <3>2. Inserting(u)
            BY <1>1 DEF LocalOK, InsPcs, Inserting
        <3>3. QED
            BY <1>1, <3>1, <3>2 DEF EndOK
    <2>2. ~(t \in lock[l.el].own)
        BY <2>1 DEF Free
    <2>3. ~(Inserting(t) /\ l.el = local[t].el)
        BY <2>1 DEF IInv, ClaimInv, Claims
    <2>4. QED
        BY <2>1, <2>2, <2>3 DEF Rely, Nodes
<1>7. l.pc \in {"yield", "relock", "look", "cross", "defer", "deferred"} =>
          l.x \in Elems /\ Asks(u, lock[l.x])
    <2>1. l.pc \in {"yield", "relock", "look", "cross", "defer", "deferred"} => l.x \in Elems
        BY <1>1 DEF LocalOK
    <2>2. l.pc \in {"yield", "relock", "look", "cross", "defer", "deferred"} =>
              Must(u, l.x) \/ May(u, l.x)
        BY DEF Must, May
    <2>3. QED
        BY <1>1, <2>1, <2>2 DEF LockOK, Nodes
<1>8. l.pc \in {"yield", "relock", "look", "cross", "defer", "deferred"} => ref'[l.x].mask
    BY <1>1, <1>7, AskedStays DEF NearOK
<1>9. l.pc \in {"relock", "look"} => next'[l.x] # NULL
    BY <1>1, <1>7, AskedStays DEF NearOK, OnList
<1>10. l.pc \in {"defer", "deferred"} => l.x \in Members' /\ ref'[l.x].pin = 0
    <2> SUFFICES ASSUME l.pc \in {"defer", "deferred"}
                 PROVE  l.x \in Members' /\ ref'[l.x].pin = 0
        OBVIOUS
    <2>1. l.x \in Members /\ ref[l.x].pin = 0 /\ ref[l.x].mask
        BY <1>1 DEF NearOK
    <2>2. l.x \in Elems /\ OnList(l.x)
        BY <2>1 DEF Members
    <2>3. u \in lock[l.x].own
        BY <1>1, <2>2 DEF LockOK, Must, Nodes
    <2>4. l.x \in Members'
        BY <2>1, <2>3, AnchorStays
    <2>5. QED
        BY <2>1, <2>2, <2>4 DEF Rely
<1>11. QED
    <2>1. /\ l.pc \in {"prev", "yield", "relock", "look", "defer", "deferred", "asleep"} =>
                l.n = TAIL \/ Anchored(u, l.n)
          /\ l.pc \in PairPcs => IF Inserts(u) THEN l.n = TAIL \/ l.n = cur[u] ELSE l.n = l.el
          /\ l.pc \in {"insnext", "link"} => l.n = HEAD \/ l.n = cur[u]
          /\ l.pc = "unlink" => l.n = l.el
        BY <1>1 DEF NearOK
    <2>2. QED
        BY <1>0, <1>3, <1>4, <1>5, <1>6, <1>8, <1>9, <1>10, <2>1
        DEF NearOK, Owns, OnList, Anchored

(* A thread waits for one element. *)
LEMMA OneWait ==
    ASSUME IInv, NEW u \in Threads, NEW e \in Elems, NEW f \in Elems,
           u \in ref[e].wait, u \in ref[f].wait
    PROVE  e = f
<1>1. WaitOK(u)
    BY Here
<1>2. QED
    BY <1>1 DEF WaitOK

(* Who waits is woken or waits on. *)
LEMMA WaitOthers ==
    ASSUME IInv, TypeOK', NEW t \in Threads, Others(t), Rely(t), NEW u \in Threads, u # t
    PROVE  WaitOK(u)'
<1> DEFINE l == local[u]
           e == local[u].el
<1>0. /\ local'[u] = l /\ (Removing(u)' <=> Removing(u)) /\ (PinsEl(u)' <=> PinsEl(u))
      /\ (Inserting(u)' <=> Inserting(u))
    BY OthersSame
<1>1. /\ LocalOK(u) /\ WaitOK(u) /\ EndOK(u) /\ ClaimOK(u)
      /\ l.el \in Elems \cup {NULL}
    BY Here
<1>2. Claims(u) => e \in Elems
    BY ClaimElem
<1>3. Removing(u) /\ ref[e].pin = 0 => ref'[e].pin = 0
    BY <1>1, <1>2 DEF Rely, ClaimOK, Claims
<1>4. Removing(u) /\ ~PinsEl(u) /\ l.pc # "await" => ref'[e].pin = 0
    BY <1>1, <1>3 DEF WaitOK
<1>5. l.pc = "await" => IF signal'[u] THEN ref'[e].pin = 0
                        ELSE ref'[e].pin > 0 /\ ref'[e].wait = {u}
    <2> SUFFICES ASSUME l.pc = "await"
                 PROVE  IF signal'[u] THEN ref'[e].pin = 0
                        ELSE ref'[e].pin > 0 /\ ref'[e].wait = {u}
        OBVIOUS
    <2>1. Removing(u) /\ e \in Elems
        BY <1>2 DEF Removing, Claims
    <2>2. CASE signal[u]
        BY <1>1, <1>3, <2>1, <2>2 DEF WaitOK, Rely
    <2>3. CASE ~signal[u]
        <3>1. ref[e].pin > 0 /\ ref[e].wait = {u}
            BY <1>1, <2>3 DEF WaitOK
        <3>2. u \in ref[e].wait
            BY <3>1
        <3>3. \/ signal'[u] /\ ref'[e].pin = 0 /\ ref'[e].wait = {}
              \/ signal'[u] = signal[u] /\ ref'[e].pin > 0 /\ ref'[e].wait = ref[e].wait
            BY <2>1, <3>1, <3>2 DEF Rely
        <3>4. QED
            BY <2>3, <3>1, <3>3
    <2>4. QED
        BY <2>2, <2>3
<1>6. signal'[u] => l.pc \in {"await", "deferred", "asleep"}
    BY <1>1 DEF WaitOK, Rely
<1>7. ASSUME NEW f \in Elems, u \in ref'[f].wait
      PROVE  /\ ~signal'[u]
             /\ \/ l.pc = "await" /\ l.el = f
                \/ l.pc \in {"deferred", "asleep"} /\ l.x = f /\ ref'[f].pin = 0
    <2>1. u \in ref[f].wait
        BY <1>7 DEF Rely
    <2>2. /\ ~signal[u]
          /\ \/ l.pc = "await" /\ l.el = f
             \/ l.pc \in {"deferred", "asleep"} /\ l.x = f /\ ref[f].pin = 0
        BY <1>1, <2>1 DEF WaitOK
    <2>3. ~signal'[u]
        <3> SUFFICES ASSUME signal'[u] PROVE FALSE
            OBVIOUS
        <3>1. PICK g \in Elems : u \in ref[g].wait /\ ref'[g].wait = {}
            BY <2>2 DEF Rely
        <3>2. g = f
            BY <2>1, <3>1, OneWait
        <3>3. QED
            BY <1>7, <3>1, <3>2
    <2>4. ref[f].pin = 0 => ref'[f].pin = 0
        <3>1. ref[f].mask
            BY <2>1 DEF IInv, WaitInv
        <3>2. OnList(f)
            BY <2>1 DEF IInv, ClaimInv, ElemOK
        <3>3. QED
            BY <3>1, <3>2 DEF Rely
    <2>5. QED
        BY <2>2, <2>3, <2>4
<1>8. ASSUME NEW f \in Elems, ref[f].wait = {}, ~(At(t, "settle") /\ f = local[t].el),
             ~(At(t, "defer") /\ f = local[t].x)
      PROVE  ref'[f].wait = {}
    <2>1. ref'[f].wait \subseteq Threads
        BY DEF TypeOK
    <2>2. \A w \in Threads : w \notin ref'[f].wait
        BY <1>8 DEF Rely
    <2>3. QED
        BY <2>1, <2>2
<1>9. At(t, "settle") => Claims(t)
    BY DEF At, Claims, Removing
<1>10. Claims(u) => ~(At(t, "settle") /\ e = local[t].el)
    BY <1>9 DEF IInv, ClaimInv
<1>11. At(t, "defer") => local[t].x \in Members /\ t \in lock[local[t].x].own
    <2> SUFFICES ASSUME At(t, "defer")
                 PROVE  local[t].x \in Members /\ t \in lock[local[t].x].own
        OBVIOUS
    <2>1. local[t].x \in Members /\ \A m \in Nodes : LockOK(t, m)
        BY Here DEF NearOK, At
    <2>2. local[t].x \in Nodes
        BY <2>1 DEF Members, Nodes
    <2>3. QED
        BY <2>1, <2>2 DEF LockOK, Must, At
<1>12. Inserting(u) => ~(At(t, "defer") /\ e = local[t].x)
    <2> SUFFICES ASSUME Inserting(u), At(t, "defer"), e = local[t].x PROVE FALSE
        OBVIOUS
    <2>1. OnList(e)
        BY <1>11 DEF Members
    <2>2. l.pc = "expose"
        BY <1>1, <2>1 DEF ClaimOK
    <2>3. lock[e] = Free
        BY <1>1, <2>2 DEF EndOK
    <2>4. QED
        BY <1>11, <2>3 DEF Free
<1>13. l.pc \in {"clearyield", "cleared"} => ~(At(t, "defer") /\ e = local[t].x)
    BY <1>11 DEF Members
<1>14. Inserting(u) => ref'[e].wait = {}
    <2>1. Inserting(u) => ref[e].wait = {} /\ e \in Elems
        BY <1>1, <1>2 DEF WaitOK, Claims
    <2>2. QED
        BY <1>8, <1>10, <1>12, <2>1 DEF Claims
<1>15. l.pc \in {"clearyield", "cleared"} => ref'[e].wait = {}
    <2>1. l.pc \in {"clearyield", "cleared"} => Claims(u)
        BY DEF Claims, Removing, OffPcs
    <2>2. QED
        BY <1>1, <1>2, <1>8, <1>10, <1>13, <2>1 DEF WaitOK
<1> HIDE DEF l
<1>16. QED
    BY <1>0, <1>4, <1>5, <1>6, <1>7, <1>14, <1>15 DEF WaitOK, l

-------------------------------------------------------------------------------
(* The pins of one thread. *)
One(b) == IF b THEN 1 ELSE 0

Pins(t, e) == One(Holds(t, "cur", e)) + One(Holds(t, "pinned", e))
              + One(Holds(t, "x", e)) + One(Holds(t, "el", e))

(* One more element is one more in the cardinality. *)
LEMMA AddOne ==
    ASSUME NEW S, IsFiniteSet(S), NEW x, x \notin S, NEW b, NEW T,
           T = S \cup (IF b THEN {x} ELSE {})
    PROVE  IsFiniteSet(T) /\ Cardinality(T) = Cardinality(S) + One(b) /\ Cardinality(S) \in Nat
<1>1. Cardinality(S) \in Nat
    BY FS_CardinalityType
<1>2. CASE b
    <2>1. T = S \cup {x}
        BY <1>2
    <2>2. QED
        BY <1>1, <1>2, <2>1, FS_AddElement DEF One
<1>3. CASE ~b
    <2>1. T = S
        BY <1>3
    <2>2. QED
        BY <1>1, <1>3, <2>1 DEF One
<1>4. QED
    BY <1>2, <1>3

TokensOf(t, h) == {<<t, k>> : k \in {j \in Kinds : h[j]}}

(* The pins of one thread are counted kind by kind. *)
LEMMA CountTokens ==
    ASSUME NEW O, IsFiniteSet(O), NEW t, \A p \in O : p[1] # t, NEW h, NEW T,
           T = O \cup TokensOf(t, h)
    PROVE  Cardinality(T) = Cardinality(O) + One(h["cur"]) + One(h["pinned"])
                            + One(h["x"]) + One(h["el"])
<1> DEFINE c == h["cur"]
           p == h["pinned"]
           x == h["x"]
           l == h["el"]
<1>1. PICK A : A = O \cup (IF c THEN {<<t, "cur">>} ELSE {})
    OBVIOUS
<1>2. PICK B : B = A \cup (IF p THEN {<<t, "pinned">>} ELSE {})
    OBVIOUS
<1>3. PICK C : C = B \cup (IF x THEN {<<t, "x">>} ELSE {})
    OBVIOUS
<1>4. T = C \cup (IF l THEN {<<t, "el">>} ELSE {})
    BY <1>1, <1>2, <1>3 DEF Kinds, TokensOf
<1> HIDE DEF c, p, x, l
<1>5. IsFiniteSet(A) /\ Cardinality(A) = Cardinality(O) + One(c) /\ Cardinality(O) \in Nat
    <2>1. <<t, "cur">> \notin O
        OBVIOUS
    <2>2. IsFiniteSet(A) /\ Cardinality(A) = Cardinality(O) + One(c)
        BY <1>1, <2>1, AddOne
    <2>3. QED
        BY <2>2, FS_CardinalityType
<1>6. IsFiniteSet(B) /\ Cardinality(B) = Cardinality(A) + One(p)
    <2>1. <<t, "pinned">> \notin A
        BY <1>1
    <2>2. QED
        BY <1>2, <1>5, <2>1, AddOne
<1>7. IsFiniteSet(C) /\ Cardinality(C) = Cardinality(B) + One(x)
    <2>1. <<t, "x">> \notin B
        BY <1>1, <1>2
    <2>2. QED
        BY <1>3, <1>6, <2>1, AddOne
<1>8. Cardinality(T) = Cardinality(C) + One(l)
    <2>1. <<t, "el">> \notin C
        BY <1>1, <1>2, <1>3
    <2>2. QED
        BY <1>4, <1>7, <2>1, AddOne
<1>9. One(c) \in Nat /\ One(p) \in Nat /\ One(x) \in Nat /\ One(l) \in Nat
    BY DEF One
<1>10. QED
    BY <1>5, <1>6, <1>7, <1>8, <1>9 DEF c, p, x, l

(* The pins of an element change as those of the thread that takes a step. *)
LEMMA PinsCounted ==
    ASSUME IInv, NEW t \in Threads, Others(t), NEW e \in Elems
    PROVE  /\ Pins(t, e) \in 0..4 /\ Pins(t, e)' \in 0..4
           /\ ref[e].pin >= Pins(t, e)
           /\ Cardinality(Tokens(e))' = ref[e].pin + Pins(t, e)' - Pins(t, e)
<1> DEFINE O == {p \in Threads \X Kinds : p[1] # t /\ Holds(p[1], p[2], e)}
<1>1. O' = O
    <2>1. \A u \in Threads, k \in Kinds : u # t => (Holds(u, k, e)' <=> Holds(u, k, e))
        BY OthersSame
    <2>2. O' = {p \in Threads \X Kinds : p[1] # t /\ Holds(p[1], p[2], e)'}
        OBVIOUS
    <2>3. QED
        BY <2>1, <2>2
<1>2. IsFiniteSet(O) /\ \A p \in O : p[1] # t
    <2>1. O \subseteq Tokens(e)
        BY DEF Tokens
    <2>2. QED
        BY <2>1, TokensFinite, FS_Subset
<1>3. PICK h : h = [k \in Kinds |-> Holds(t, k, e)]
    OBVIOUS
<1>4. PICK g : g = [k \in Kinds |-> Holds(t, k, e)']
    OBVIOUS
<1>5. Cardinality(Tokens(e)) = Cardinality(O) + One(h["cur"]) + One(h["pinned"])
                               + One(h["x"]) + One(h["el"])
    <2>1. Tokens(e) = O \cup TokensOf(t, h)
        BY <1>3 DEF Tokens, TokensOf
    <2> HIDE DEF O
    <2>2. QED
        BY <1>2, <2>1, CountTokens
<1>6. Cardinality(Tokens(e)') = Cardinality(O) + One(g["cur"]) + One(g["pinned"])
                                + One(g["x"]) + One(g["el"])
    <2>1. Tokens(e)' = O' \cup TokensOf(t, g)
        BY <1>4 DEF Tokens, TokensOf
    <2> HIDE DEF O
    <2>2. Tokens(e)' = O \cup TokensOf(t, g)
        BY <1>1, <2>1
    <2>3. PICK T : T = Tokens(e)'
        OBVIOUS
    <2>4. T = O \cup TokensOf(t, g)
        BY <2>2, <2>3
    <2>5. Cardinality(T) = Cardinality(O) + One(g["cur"]) + One(g["pinned"])
                           + One(g["x"]) + One(g["el"])
        BY <1>2, <2>4, CountTokens
    <2>6. QED
        BY <2>3, <2>5
<1>7. /\ Pins(t, e) = One(h["cur"]) + One(h["pinned"]) + One(h["x"]) + One(h["el"])
      /\ Pins(t, e)' = One(g["cur"]) + One(g["pinned"]) + One(g["x"]) + One(g["el"])
    BY <1>3, <1>4 DEF Pins, One, Kinds
<1>8. \A b : One(b) \in 0..1
    BY DEF One
<1>9. Pins(t, e) \in 0..4 /\ Pins(t, e)' \in 0..4
    <2>1. Pins(t, e) \in 0..4
        BY <1>7, <1>8
    <2>2. Pins(t, e)' \in 0..4
        BY <1>7, <1>8
    <2>3. QED
        BY <2>1, <2>2
<1>10. ref[e].pin = Cardinality(Tokens(e))
    BY DEF IInv, PinInv
<1>11. /\ Cardinality(Tokens(e)) = Cardinality(O) + Pins(t, e)
       /\ Cardinality(Tokens(e)') = Cardinality(O) + Pins(t, e)'
    <2>1. One(h["cur"]) \in Int /\ One(h["pinned"]) \in Int /\ One(h["x"]) \in Int
          /\ One(h["el"]) \in Int /\ One(g["cur"]) \in Int /\ One(g["pinned"]) \in Int
          /\ One(g["x"]) \in Int /\ One(g["el"]) \in Int
        BY <1>8
    <2>2. Cardinality(O) \in Int
        BY <1>2, FS_CardinalityType
    <2> HIDE DEF O
    <2>3. QED
        BY <1>5, <1>6, <1>7, <2>1, <2>2
<1>12. Cardinality(O) \in Nat
    BY <1>2, FS_CardinalityType
<1>13. QED
    BY <1>9, <1>10, <1>11, <1>12

(* A thread that has pins of an element holds it in some way. *)
LEMMA PinsHeld ==
    ASSUME NEW t, NEW e
    PROVE  /\ Pins(t, e) > 0 <=> \E k \in Kinds : Holds(t, k, e)
           /\ Pins(t, e)' > 0 <=> \E k \in Kinds : Holds(t, k, e)'
<1>1. Pins(t, e) > 0 <=> \E k \in Kinds : Holds(t, k, e)
    BY DEF Pins, One, Kinds
<1>2. Pins(t, e)' > 0 <=> \E k \in Kinds : Holds(t, k, e)'
    BY DEF Pins, One, Kinds
<1>3. QED
    BY <1>1, <1>2

-------------------------------------------------------------------------------
(* What a step does not disturb. *)

Counting == {"uncount", "uncountwait", "expose"}

(* The step neither begins nor ends a removal or an insertion. *)
Steady(t) ==
    /\ Removing(t)' <=> Removing(t)
    /\ Inserting(t)' <=> Inserting(t)
    /\ Claims(t) => local'[t].el = local[t].el
    /\ local'[t].pc \in OffPcs <=> local[t].pc \in OffPcs
    /\ local[t].pc \notin Counting /\ local'[t].pc \notin Counting

(* The list is the same as long as its links and its members are. *)
LEMMA LinksKept ==
    ASSUME IInv, NEW t \in Threads, Others(t), UNCHANGED links,
           local'[t].pc \in OffPcs <=> local[t].pc \in OffPcs,
           local[t].pc \in OffPcs => local'[t].el = local[t].el
    PROVE  Members' = Members /\ LinkInv'
<1>1. next' = next /\ prev' = prev
    BY DEF links
<1>2. \A u \in Threads : (local'[u].pc \in OffPcs <=> local[u].pc \in OffPcs)
                         /\ (local[u].pc \in OffPcs => local'[u].el = local[u].el)
    BY DEF Others
<1>3. /\ Members = {e \in Elems : next[e] # NULL /\ \A u \in Threads :
                        local[u].el = e => local[u].pc \notin OffPcs}
      /\ Members' = {e \in Elems : next'[e] # NULL /\ \A u \in Threads :
                        local'[u].el = e => local'[u].pc \notin OffPcs}
    BY DEF Members, OnList, OffPcs
<1>4. Members' = Members
    BY <1>1, <1>2, <1>3
<1>5. LinkInv'
    BY <1>1, <1>4 DEF IInv, LinkInv, Ordered
<1>6. QED
    BY <1>4, <1>5

(* list->count still counts what it counted. *)
LEMMA CountKept ==
    ASSUME IInv, NEW t \in Threads, Others(t), count' = count,
           \A e \in Elems : ref'[e].mask = ref[e].mask,
           local[t].pc \notin Counting, local'[t].pc \notin Counting
    PROVE  CountInv'
<1>1. /\ Counted = {e \in Elems : ~ref[e].mask \/ \E u \in Threads :
                       local[u].el = e /\ local[u].pc \in Counting}
      /\ Counted' = {e \in Elems : ~ref'[e].mask \/ \E u \in Threads :
                       local'[u].el = e /\ local'[u].pc \in Counting}
    BY DEF Counted, Counting
<1>2. \A u \in Threads, e \in Elems :
          local[u].el = e /\ local[u].pc \in Counting
          <=> local'[u].el = e /\ local'[u].pc \in Counting
    BY DEF Others
<1>3. Counted' = Counted
    BY <1>1, <1>2
<1>4. QED
    BY <1>3 DEF IInv, CountInv

(* The step neither begins nor ends a removal or an insertion: a part of   *)
(* Steady that does not say where the thread is.                           *)
SameClaims(t) ==
    /\ Removing(t)' <=> Removing(t)
    /\ Inserting(t)' <=> Inserting(t)
    /\ Claims(t) => local'[t].el = local[t].el

(* A thread that goes on with the same element claims what it claimed. *)
LEMMA SteadyClaims ==
    ASSUME NEW t \in Threads, Steady(t)
    PROVE  SameClaims(t) /\ local[t].pc # "expose" /\ local'[t].pc # "expose"
BY DEF Steady, SameClaims, Counting

(* Who claims what is the same when no element joins or leaves the list. *)
LEMMA ClaimsSame ==
    ASSUME IInv, NEW t \in Threads, Others(t), SameClaims(t), UNCHANGED mine,
           \A e \in Elems : next'[e] # NULL <=> next[e] # NULL,
           local[t].pc # "expose" /\ local'[t].pc # "expose",
           \A e \in Elems : ref'[e].mask = ref[e].mask,
           \A e \in Elems : ~OnList(e) => ref'[e] = ref[e]
    PROVE  ClaimInv'
<1>1. /\ mine' = mine /\ \A u \in Threads : mine[u] # NULL => mine[u] \in Elems
      /\ \A e \in Elems : next'[e] # NULL <=> next[e] # NULL
    BY DEF IInv, TypeOK
<1>2. \A u \in Threads : /\ Removing(u)' <=> Removing(u)
                         /\ Inserting(u)' <=> Inserting(u)
                         /\ Claims(u)' <=> Claims(u)
                         /\ Claims(u) => local'[u].el = local[u].el /\ local[u].el \in Elems
    BY OthersSame, ClaimElem DEF SameClaims, Claims
<1>3. \A e \in Elems : OnList(e)' <=> OnList(e)
    BY <1>1 DEF OnList
<1>4. \A u, w \in Threads : Claims(u)' /\ Claims(w)' /\ local'[u].el = local'[w].el => u = w
    BY <1>2 DEF IInv, ClaimInv
<1>5. \A u \in Threads : ClaimOK(u)'
    <2> SUFFICES ASSUME NEW u \in Threads PROVE ClaimOK(u)'
        OBVIOUS
    <2>1. ClaimOK(u) /\ (local'[u].pc = "expose" <=> local[u].pc = "expose")
        BY Here DEF Others
    <2>2. QED
        BY <1>1, <1>2, <2>1 DEF ClaimOK, OnList, Claims
<1>6. \A u \in Threads : MineOK(u)'
    BY <1>1, <1>2 DEF IInv, ClaimInv, MineOK, OnList
<1>7. \A e \in Elems : ElemOK(e)'
    <2> SUFFICES ASSUME NEW e \in Elems PROVE ElemOK(e)'
        OBVIOUS
    <2>1. ElemOK(e)
        BY DEF IInv, ClaimInv
    <2>2. ref'[e].mask /\ OnList(e)' => \E u \in Threads : Claims(u)' /\ local'[u].el = e
        BY <1>2, <1>3, <2>1 DEF ElemOK
    <2>3. ~OnList(e)' /\ ref'[e].pin # 0 => \E u \in Threads : Inserting(u)' /\ local'[u].el = e
        BY <1>2, <1>3, <2>1 DEF ElemOK, Claims
    <2>4. QED
        BY <1>3, <2>1, <2>2, <2>3 DEF ElemOK
<1>8. QED
    BY <1>4, <1>5, <1>6, <1>7 DEF ClaimInv

(* The claims of a step that leaves the links alone. *)
LEMMA ClaimsKept ==
    ASSUME IInv, NEW t \in Threads, Others(t), Steady(t), UNCHANGED <<links, mine>>,
           \A e \in Elems : ref'[e].mask = ref[e].mask,
           \A e \in Elems : ~OnList(e) => ref'[e] = ref[e]
    PROVE  ClaimInv'
BY SteadyClaims, ClaimsSame DEF links

(* Nobody else inserts e. *)
Uninserted(t, e) == \A w \in Threads \ {t} : Inserting(w) => local[w].el # e

(* The counts of the pins follow the pins of the thread that takes a step. *)
LEMMA PinsAfter ==
    ASSUME IInv, NEW t \in Threads, Others(t),
           \A e \in Elems : ref'[e].pin = ref[e].pin + Pins(t, e)' - Pins(t, e),
           \A e \in Elems : Pins(t, e)' > 0 => Pins(t, e) > 0 \/ Uninserted(t, e),
           Inserting(t)' => local'[t].el \in Elems,
           \A u \in Threads, k \in Kinds, e \in Elems :
              Inserting(t)' /\ e = local'[t].el /\ Holds(u, k, e)' => u = t /\ k = "el"
    PROVE  PinInv'
<1>1. \A e \in Elems : ref'[e].pin = Cardinality(Tokens(e))'
    BY PinsCounted
<1>2. ASSUME NEW w \in Threads \ {t}, NEW u \in Threads, NEW k \in Kinds,
             Inserting(w)', Holds(u, k, local[w].el)'
      PROVE  u = w /\ k = "el"
    <2>1. local'[w].el = local[w].el /\ Inserting(w)
        BY <1>2, OthersSame
    <2>2. local[w].el \in Elems
        BY <2>1, ClaimElem DEF Claims
    <2>3. PICK e \in Elems : e = local[w].el
        BY <2>2
    <2>4. Holds(u, k, e)'
        BY <1>2, <2>1, <2>3 DEF Holds
    <2>5. CASE u # t
        <3>1. Holds(u, k, e)
            BY <2>4, <2>5, OthersSame
        <3>2. QED
            BY <2>1, <2>3, <3>1 DEF IInv, PinInv
    <2>6. CASE u = t
        <3>1. Pins(t, e)' > 0
            BY <2>4, <2>6, PinsHeld
        <3>2. ~Uninserted(t, e)
            BY <2>1, <2>3 DEF Uninserted
        <3>3. PICK j \in Kinds : Holds(t, j, e)
            BY <3>1, <3>2, PinsHeld
        <3>4. QED
            BY <2>1, <2>3, <3>3 DEF IInv, PinInv
    <2>7. QED
        BY <2>5, <2>6
<1>3. ASSUME NEW u \in Threads, NEW k \in Kinds, Inserting(t)', Holds(u, k, local[t].el)'
      PROVE  u = t /\ k = "el"
    <2>1. PICK e \in Elems : e = local'[t].el
        BY <1>3
    <2>2. Holds(u, k, e)'
        BY <1>3, <2>1 DEF Holds
    <2>3. QED
        BY <1>3, <2>1, <2>2
<1>4. QED
    BY <1>1, <1>2, <1>3 DEF PinInv

-------------------------------------------------------------------------------
(* A step preserves IInv if it does so for the thread that takes it. *)
LEMMA StepKeeps ==
    ASSUME IInv, NEW t \in Threads, Others(t), OwnersKept(t), Rely(t),
           TypeOK', LocalOK(t)', LockInv', LinkInv', NearOK(t)', PinInv', ClaimInv',
           WaitOK(t)', CountInv'
    PROVE  IInv'
<1>1. LocalInv'
    BY OthersSame, Here DEF LocalInv
<1>2. NearInv'
    BY NearOthers DEF NearInv
<1>3. \A u \in Threads : WaitOK(u)'
    BY WaitOthers
<1>4. ASSUME NEW e \in Elems, ref'[e].wait # {} PROVE ref'[e].mask
    <2>1. PICK w \in Threads : w \in ref'[e].wait
        BY <1>4 DEF TypeOK
    <2>2. CASE w \in ref[e].wait
        <3>1. ref[e].mask
            BY <2>2 DEF IInv, WaitInv
        <3>2. ~(At(t, "expose") /\ e = local[t].el)
            <4>1. At(t, "expose") => Inserting(t)
                BY Here DEF LocalOK, InsPcs, Inserting, At
            <4>2. QED
                BY <2>2, <4>1, Here DEF WaitOK
        <3>3. QED
            BY <3>1, <3>2 DEF Rely
    <2>3. CASE At(t, "settle") /\ e = local[t].el
        <3>1. Claims(t)
            BY <2>3 DEF Claims, Removing, At
        <3>2. ref[e].mask
            BY <2>3, <3>1, Here DEF ClaimOK
        <3>3. QED
            BY <2>3, <3>2 DEF Rely, At
    <2>4. CASE At(t, "defer") /\ e = local[t].x
        <3>1. ref[e].mask
            BY <2>4, Here DEF NearOK, At
        <3>2. QED
            BY <2>4, <3>1 DEF Rely, At
    <2>5. QED
        BY <2>1, <2>2, <2>3, <2>4 DEF Rely
<1>5. WaitInv'
    BY <1>3, <1>4 DEF WaitInv
<1>6. QED
    BY <1>1, <1>2, <1>5 DEF IInv

(* A step that neither begins nor ends a removal or an insertion. *)
LEMMA SteadyStep ==
    ASSUME IInv, NEW t \in Threads, Others(t), Steady(t), OwnersKept(t), Rely(t),
           UNCHANGED <<links, mine, count>>,
           TypeOK', LocalOK(t)', LockInv', NearOK(t)', WaitOK(t)',
           \A e \in Elems : ref'[e].mask = ref[e].mask,
           \A e \in Elems : ~OnList(e) => ref'[e] = ref[e],
           \A e \in Elems : ref'[e].pin = ref[e].pin + Pins(t, e)' - Pins(t, e),
           \A e \in Elems : Pins(t, e)' > 0 => Pins(t, e) > 0 \/ Uninserted(t, e),
           Inserting(t) => \A k \in Kinds \ {"el"}, e \in Elems : Holds(t, k, e)' => Holds(t, k, e)
    PROVE  IInv'
<1>1. LinkInv'
    <2>1. local[t].pc \in OffPcs => local'[t].el = local[t].el
        BY ClaimedOff DEF Steady
    <2>2. QED
        BY <2>1, LinksKept DEF Steady
<1>2. PinInv'
    <2>1. Inserting(t)' => Inserting(t) /\ local'[t].el = local[t].el /\ local[t].el \in Elems
        BY ClaimElem DEF Steady, Claims
    <2>2. ASSUME NEW u \in Threads, NEW k \in Kinds, NEW e \in Elems,
                 Inserting(t)', e = local'[t].el, Holds(u, k, e)'
          PROVE  u = t /\ k = "el"
        <3>1. CASE u # t
            <4>1. Holds(u, k, e)
                BY <2>2, <3>1, OthersSame
            <4>2. QED
                BY <2>1, <2>2, <4>1 DEF IInv, PinInv
        <3>2. CASE u = t /\ k # "el"
            <4>1. Holds(u, k, e)
                BY <2>1, <2>2, <3>2
            <4>2. QED
                BY <2>1, <2>2, <3>2, <4>1 DEF IInv, PinInv
        <3>3. QED
            BY <3>1, <3>2
    <2>3. QED
        BY <2>1, <2>2, PinsAfter
<1>3. ClaimInv'
    BY ClaimsKept
<1>4. CountInv'
    BY CountKept DEF Steady
<1>5. QED
    BY <1>1, <1>2, <1>3, <1>4, StepKeeps

(* The thread neither begins nor ends to wait. *)
Calm(t) ==
    /\ local[t].pc # "await" /\ local'[t].pc # "await"
    /\ local[t].pc \in {"deferred", "asleep"} =>
          local'[t].pc \in {"deferred", "asleep"} /\ local'[t].x = local[t].x
    /\ Removing(t) /\ PinsEl(t) => PinsEl(t)'
    /\ local'[t].pc \in {"clearyield", "cleared"} => local[t].pc \in {"clearyield", "cleared"}

(* A step that changes no link and no reference count keeps to Rely. *)
LEMMA RelyQuiet ==
    ASSUME IInv, NEW t \in Threads, Others(t), Steady(t), UNCHANGED <<links, ref>>,
           \A u \in Threads \ {t} : signal'[u] = signal[u]
    PROVE  Rely(t)
<1>1. next' = next /\ prev' = prev /\ ref' = ref
    BY DEF links
<1>2. Members' = Members
    <2>1. local[t].pc \in OffPcs => local'[t].el = local[t].el
        BY ClaimedOff DEF Steady
    <2>2. QED
        BY <2>1, LinksKept DEF Steady
<1>3. QED
    BY <1>1, <1>2 DEF Rely, OnList

(* Who waits for what is the same when no count, wait id or event changes. *)
LEMMA WaitSame ==
    ASSUME IInv, TypeOK', NEW t \in Threads, Others(t), SameClaims(t), Calm(t), Rely(t),
           \A e \in Elems : ref'[e].wait \subseteq ref[e].wait, signal'[t] <=> signal[t]
    PROVE  WaitOK(t)'
<1>1. WaitOK(t) /\ ClaimOK(t)
    BY Here
<1>2. Claims(t) => local'[t].el = local[t].el /\ local[t].el \in Elems
    BY ClaimElem DEF SameClaims
<1>3. Removing(t)' /\ ~PinsEl(t)' /\ local'[t].pc # "await" => ref'[local'[t].el].pin = 0
    <2> SUFFICES ASSUME Removing(t), ~PinsEl(t) PROVE ref'[local'[t].el].pin = 0
        BY DEF SameClaims, Calm
    <2>1. Claims(t) /\ ref[local[t].el].pin = 0 /\ ref[local[t].el].mask /\ OnList(local[t].el)
        BY <1>1 DEF Claims, WaitOK, ClaimOK, Calm
    <2>2. QED
        BY <1>2, <2>1 DEF Rely
<1>4. signal'[t] => local'[t].pc \in {"await", "deferred", "asleep"}
    BY <1>1 DEF WaitOK, Calm
<1>5. ASSUME NEW e \in Elems, t \in ref'[e].wait
      PROVE  /\ ~signal'[t]
             /\ \/ local'[t].pc = "await" /\ local'[t].el = e
                \/ local'[t].pc \in {"deferred", "asleep"} /\ local'[t].x = e /\ ref'[e].pin = 0
    <2>1. t \in ref[e].wait
        BY <1>5
    <2>2. ref[e].mask /\ OnList(e)
        BY <2>1 DEF IInv, WaitInv, ClaimInv, ElemOK
    <2>3. local[t].pc \in {"deferred", "asleep"} /\ local[t].x = e /\ ref[e].pin = 0 /\ ~signal[t]
        BY <1>1, <2>1 DEF WaitOK, Calm
    <2>4. QED
        BY <2>2, <2>3 DEF Rely, Calm
<1>6. Inserting(t)' => ref'[local'[t].el].wait = {}
    BY <1>1, <1>2 DEF WaitOK, SameClaims, Claims
<1>7. local'[t].pc \in {"clearyield", "cleared"} => ref'[local'[t].el].wait = {}
    <2>1. local[t].pc \in {"clearyield", "cleared"} => Claims(t)
        BY DEF Claims, Removing, OffPcs
    <2>2. QED
        BY <1>1, <1>2, <2>1 DEF WaitOK, Calm
<1>8. local'[t].pc # "await"
    BY DEF Calm
<1>9. QED
    BY <1>3, <1>4, <1>5, <1>6, <1>7, <1>8 DEF WaitOK

(* The same of a step that leaves the reference counts and the events alone. *)
LEMMA WaitCalm ==
    ASSUME IInv, TypeOK', NEW t \in Threads, Others(t), Steady(t), Calm(t), Rely(t),
           \A e \in Elems : ref'[e].wait \subseteq ref[e].wait, signal'[t] <=> signal[t]
    PROVE  WaitOK(t)'
BY SteadyClaims, WaitSame

(* The pins that an insertion begins with are those of its element. *)
InsertsAlone(t) ==
    Inserting(t) => \A k \in Kinds \ {"el"}, e \in Elems : Holds(t, k, e)' => Holds(t, k, e)

(* A step that changes only the locals of a thread, its iterator and the   *)
(* locks.                                                                  *)
LEMMA QuietStep ==
    ASSUME IInv, NEW t \in Threads, Others(t), Steady(t), Calm(t), OwnersKept(t),
           UNCHANGED <<links, ref, count, signal, mine>>,
           TypeOK', LocalOK(t)', LockInv', NearOK(t)',
           \A e \in Elems : Pins(t, e)' = Pins(t, e), InsertsAlone(t)
    PROVE  IInv'
<1>1. ref' = ref /\ signal' = signal
    OBVIOUS
<1>2. Rely(t)
    BY <1>1, RelyQuiet
<1>3. WaitOK(t)'
    BY <1>1, <1>2, WaitCalm
<1>4. \A e \in Elems : ref'[e].pin = ref[e].pin + Pins(t, e)' - Pins(t, e)
    <2>1. \A e \in Elems : Pins(t, e) \in 0..4 /\ ref[e].pin \in Nat
        BY PinsCounted DEF IInv, TypeOK
    <2>2. QED
        BY <1>1, <2>1
<1>5. QED
    BY <1>1, <1>2, <1>3, <1>4, SteadyStep DEF InsertsAlone

(* Members after a step that leaves the links alone. *)
LEMMA SteadyMembers ==
    ASSUME IInv, NEW t \in Threads, Others(t), Steady(t), UNCHANGED links
    PROVE  Members' = Members /\ next' = next /\ prev' = prev
<1>1. local[t].pc \in OffPcs => local'[t].el = local[t].el
    BY ClaimedOff DEF Steady
<1>2. QED
    BY <1>1, LinksKept DEF Steady, links

(* A step that pins element e. *)
LEMMA PinStep ==
    ASSUME IInv, NEW t \in Threads, Others(t), Steady(t), Calm(t), OwnersKept(t),
           UNCHANGED <<links, count, signal, mine>>,
           NEW e \in Elems, OnList(e), Pin(e), ~ref[e].mask \/ ref[e].pin > 0, Uninserted(t, e),
           TypeOK', LocalOK(t)', LockInv', NearOK(t)',
           \A f \in Elems : Pins(t, f)' = Pins(t, f) + One(f = e), InsertsAlone(t)
    PROVE  IInv'
<1>1. /\ ref'[e].pin = ref[e].pin + 1
      /\ \A f \in Elems : ref'[f].mask = ref[f].mask /\ ref'[f].wait = ref[f].wait
      /\ \A f \in Elems \ {e} : ref'[f] = ref[f]
    BY DEF Pin, IInv, TypeOK
<1>2. signal' = signal /\ \A f \in Elems : ref[f].pin \in Nat
    BY DEF IInv, TypeOK
<1>3. \A f \in Elems : /\ ref[f].mask /\ ref[f].pin = 0 => ref'[f].pin = 0
                       /\ ref[f].pin > 0 => ref'[f].pin > 0
    BY <1>1, <1>2
<1>4. Rely(t)
    BY <1>1, <1>2, <1>3, SteadyMembers DEF Rely, OnList
<1>5. WaitOK(t)'
    BY <1>1, <1>2, <1>4, WaitCalm
<1>6. \A f \in Elems : Pins(t, f) \in 0..4
    BY PinsCounted
<1>7. \A f \in Elems : ref'[f].pin = ref[f].pin + Pins(t, f)' - Pins(t, f)
    BY <1>1, <1>2, <1>6 DEF One
<1>8. \A f \in Elems : Pins(t, f)' > 0 => Pins(t, f) > 0 \/ Uninserted(t, f)
    BY <1>6 DEF One
<1>9. \A f \in Elems : ~OnList(f) => ref'[f] = ref[f]
    BY <1>1
<1>10. QED
    BY <1>1, <1>4, <1>5, <1>7, <1>8, <1>9, SteadyStep DEF InsertsAlone

(* A step that unpins element e. *)
LEMMA UnpinStep ==
    ASSUME IInv, NEW t \in Threads, Others(t), Steady(t), Calm(t), OwnersKept(t),
           UNCHANGED <<links, count, mine>>,
           NEW e \in Elems, Unpin(e), Pins(t, e) > 0, ~Inserting(t),
           local[t].pc \notin {"await", "deferred", "asleep"},
           TypeOK', LocalOK(t)', LockInv', NearOK(t)',
           \A f \in Elems : Pins(t, f)' = Pins(t, f) - One(f = e)
    PROVE  IInv'
<1> DEFINE last == ref[e].mask /\ ref[e].pin = 1
<1>0. OnList(e) /\ ref[e].pin > 0
    BY PinsHeld, HeldIsMember, HeldIsPinned
<1>1. /\ ref'[e].pin = ref[e].pin - 1
      /\ ref'[e].wait = IF last THEN {} ELSE ref[e].wait
      /\ \A f \in Elems : ref'[f].mask = ref[f].mask
      /\ \A f \in Elems \ {e} : ref'[f] = ref[f]
    BY DEF Unpin, IInv, TypeOK
<1>2. /\ \A u \in Threads : signal'[u] <=> signal[u] \/ (last /\ u \in ref[e].wait)
      /\ \A f \in Elems : ref[f].pin \in Nat
      /\ signal \in [Threads -> BOOLEAN] /\ signal' \in [Threads -> BOOLEAN]
    BY DEF Unpin, IInv, TypeOK
<1>3. ref[e].wait # {} => ref[e].mask
    BY DEF IInv, WaitInv
<1> HIDE DEF last
<1>4. Rely(t)
    <2>1. \A f \in Elems : ref[f].mask /\ ref[f].pin = 0 /\ OnList(f) => ref'[f].pin = 0
        BY <1>0, <1>1
    <2>2. \A f \in Elems : ref'[f].wait \subseteq ref[f].wait
        BY <1>1
    <2>3. ASSUME NEW u \in Threads \ {t}, NEW f \in Elems, u \in ref[f].wait
          PROVE  \/ signal'[u] /\ ref'[f].pin = 0 /\ ref'[f].wait = {}
                 \/ signal'[u] = signal[u]
                    /\ (ref[f].pin > 0 => ref'[f].pin > 0 /\ ref'[f].wait = ref[f].wait)
        <3>1. CASE f # e
            <4>1. ~(u \in ref[e].wait)
                BY <2>3, <3>1, OneWait
            <4>2. signal'[u] = signal[u]
                BY <1>2, <4>1
            <4>3. QED
                BY <1>1, <3>1, <4>2
        <3>2. CASE f = e /\ last
            BY <1>1, <1>2, <2>3, <3>2 DEF last
        <3>3. CASE f = e /\ ~last
            <4>1. ref[e].mask /\ ref[e].pin # 1
                BY <1>3, <2>3, <3>3 DEF last
            <4>2. ref'[e].pin > 0 /\ ref'[e].wait = ref[e].wait
                BY <1>0, <1>1, <1>2, <3>3, <4>1
            <4>3. signal'[u] = signal[u]
                BY <1>2, <3>3
            <4>4. QED
                BY <3>3, <4>2, <4>3
        <3>4. QED
            BY <3>1, <3>2, <3>3
    <2>4. \A u \in Threads : signal'[u] => signal[u] \/ \E f \in Elems :
              u \in ref[f].wait /\ ref'[f].wait = {}
        BY <1>1, <1>2
    <2>5. \A u \in Threads : signal[u] => signal'[u]
        BY <1>2
    <2>6. QED
        BY <1>1, <2>1, <2>2, <2>3, <2>4, <2>5, SteadyMembers DEF Rely, OnList
<1>5. WaitOK(t)'
    <2>1. t \notin ref[e].wait
        BY Here DEF WaitOK
    <2>2. \A f \in Elems : ref'[f].wait \subseteq ref[f].wait
        BY <1>1
    <2>3. QED
        BY <1>2, <1>4, <2>1, <2>2, WaitCalm
<1>6. \A f \in Elems : Pins(t, f) \in 0..4
    BY PinsCounted
<1>7. \A f \in Elems : ref'[f].pin = ref[f].pin + Pins(t, f)' - Pins(t, f)
    BY <1>1, <1>2, <1>6 DEF One
<1>8. \A f \in Elems : Pins(t, f)' > 0 => Pins(t, f) > 0
    BY <1>6 DEF One
<1>9. \A f \in Elems : ~OnList(f) => ref'[f] = ref[f]
    BY <1>0, <1>1
<1>10. QED
    BY <1>1, <1>4, <1>5, <1>7, <1>8, <1>9, SteadyStep

-------------------------------------------------------------------------------
(* The node a thread works from is on the list, and may be asked for. *)

(* The node of a forward search is on the list. *)
LEMMA ForwardNode ==
    ASSUME IInv, NEW t \in Threads, local[t].pc \in {"next", "hop"}
    PROVE  local[t].n \in Members \cup {HEAD} /\ local[t].n \in Nodes
<1>1. local[t].n \in Members \cup {HEAD}
    BY Here DEF NearOK
<1>2. QED
    BY <1>1 DEF Members, Nodes

(* The node of a backward search is on the list. *)
LEMMA BackwardNode ==
    ASSUME IInv, NEW t \in Threads,
           local[t].pc \in {"prev", "yield", "relock", "look", "defer", "deferred", "asleep"}
    PROVE  local[t].n \in Members \cup {TAIL} /\ local[t].n \in Nodes /\ Fresh(t, local[t].n)
<1>1. local[t].n = TAIL \/ Anchored(t, local[t].n)
    BY Here DEF NearOK
<1>2. ~Inserting(t) /\ local[t].pc \notin OffPcs
    BY DEF Inserting, PairPcs, OffPcs
<1>3. QED
    BY <1>1, <1>2, AnchorIsMember, FreshEnd DEF Nodes

(* An insertion is next to what the iterator is at. *)
LEMMA CurNode ==
    ASSUME IInv, NEW t \in Threads, local[t].then \notin Moving,
           NEW n \in Nodes, n = cur[t]
    PROVE  n \in Members /\ n \in Elems /\ Fresh(t, n)
<1>1. n \in Elems
    <2>1. cur[t] \in Elems \cup {NULL, Done}
        BY Here
    <2>2. QED
        BY <2>1, AtomicListAssumption
<1>2. Holds(t, "cur", n)
    BY DEF Holds
<1>3. QED
    BY <1>1, <1>2, HeldIsMember, FreshHeld DEF Kinds

(* The node whose predecessor is wanted is on the list. *)
LEMMA PairNode ==
    ASSUME IInv, NEW t \in Threads, local[t].pc \in PairPcs
    PROVE  local[t].n \in Members \cup {TAIL} /\ local[t].n \in Nodes /\ Fresh(t, local[t].n)
<1>0. LocalOK(t) /\ local[t].n \in Nodes \cup {NULL} /\ local[t].el \in Elems \cup {NULL}
    BY Here
<1>1. local[t].n \in Nodes /\ local[t].then \notin Moving /\ local[t].el \in Elems
    <2>1. local[t].n # NULL /\ local[t].el # NULL
        BY <1>0 DEF LocalOK, PairPcs, SearchPcs
    <2>2. local[t].then \notin Moving
        BY <1>0 DEF LocalOK, PairPcs, SearchPcs
    <2>3. QED
        BY <1>0, <2>1, <2>2
<1>2. IF Inserts(t) THEN local[t].n = TAIL \/ local[t].n = cur[t] ELSE local[t].n = local[t].el
    BY Here DEF NearOK
<1>3. CASE local[t].n = TAIL
    BY <1>1, <1>3, FreshEnd
<1>4. CASE local[t].n = cur[t]
    BY <1>1, <1>4, CurNode
<1>5. CASE ~Inserts(t)
    <2>1. Removing(t) /\ local[t].pc \notin OffPcs
        BY <1>5 DEF Removing, PairPcs, OffPcs
    <2>2. QED
        BY <1>1, <1>2, <1>5, <2>1, RemovedIsMember, FreshRemoved
<1>6. QED
    BY <1>2, <1>3, <1>4, <1>5

(* The node behind which an insertion is made is on the list. *)
LEMMA InsertNode ==
    ASSUME IInv, NEW t \in Threads, local[t].pc \in {"insnext", "link"}
    PROVE  local[t].n \in Members \cup {HEAD} /\ local[t].n \in Nodes
<1>0. LocalOK(t) /\ local[t].n \in Nodes \cup {NULL}
    BY Here
<1>1. local[t].n \in Nodes /\ local[t].then \notin Moving
    <2>1. local[t].n # NULL
        BY <1>0 DEF LocalOK, InsPcs
    <2>2. local[t].then \notin Moving
        BY <1>0 DEF LocalOK, InsPcs, SearchPcs
    <2>3. QED
        BY <1>0, <2>1, <2>2
<1>2. local[t].n = HEAD \/ local[t].n = cur[t]
    BY Here DEF NearOK
<1>3. QED
    BY <1>1, <1>2, CurNode

-----------------------------------------------------------------------------
(***************************************************************************)
(* The steps that walk along the list, that work an iterator or that wait  *)
(* preserve IInv.                                                          *)
(***************************************************************************)

(* The step takes thread t to p, with the locals given. *)
Now(t, p, n, x, el, pinned, then) ==
    /\ local' \in [Threads -> LocalRec]
    /\ \A u \in Threads \ {t} : local'[u] = local[u]
    /\ local'[t].pc = p /\ local'[t].n = n /\ local'[t].x = x
    /\ local'[t].el = el /\ local'[t].pinned = pinned /\ local'[t].then = then

(* The locals after a step that only moves the thread, ... *)
LEMMA GotoNow ==
    ASSUME TypeOK, NEW t \in Threads, NEW p \in Pcs, Goto(t, p)
    PROVE  Now(t, p, local[t].n, local[t].x, local[t].el, local[t].pinned, local[t].then)
BY DEF TypeOK, LocalRec, Goto, Now

(* ... after one that also sets n and x, ... *)
LEMMA FindAtNow ==
    ASSUME TypeOK, NEW t \in Threads, NEW p \in Pcs, NEW n \in Nodes \cup {NULL},
           NEW x \in Nodes \cup {NULL}, FindAt(t, n, x, p)
    PROVE  Now(t, p, n, x, local[t].el, local[t].pinned, local[t].then)
BY DEF TypeOK, LocalRec, FindAt, Now

(* ... one that has a pin to put back, ... *)
LEMMA PutNow ==
    ASSUME TypeOK, NEW t \in Threads, NEW p \in Pcs, NEW e \in Elems \cup {NULL},
           local' = [local EXCEPT ![t].pc = p, ![t].pinned = e]
    PROVE  Now(t, p, local[t].n, local[t].x, local[t].el, e, local[t].then)
BY DEF TypeOK, LocalRec, Now

(* ... one that takes an element to remove, ... *)
LEMMA TakeNow ==
    ASSUME TypeOK, NEW t \in Threads, NEW p \in Pcs, NEW e \in Elems \cup {NULL},
           local' = [local EXCEPT ![t].pc = p, ![t].el = e]
    PROVE  Now(t, p, local[t].n, local[t].x, e, local[t].pinned, local[t].then)
BY DEF TypeOK, LocalRec, Now

(* ... one that goes on from a masked element, ... *)
LEMMA CrossNow ==
    ASSUME TypeOK, NEW t \in Threads, NEW p \in Pcs, NEW e \in Elems,
           local' = [local EXCEPT ![t].pc = p, ![t].n = e, ![t].pinned = e]
    PROVE  Now(t, p, e, local[t].x, local[t].el, e, local[t].then)
BY DEF TypeOK, LocalRec, Now, Nodes

(* ... one that begins with the lock of the node before, ... *)
LEMMA PairNow ==
    ASSUME TypeOK, NEW t \in Threads, NEW p \in Pcs, NEW e \in Elems,
           NEW h \in Moving \cup {"remove", NULL},
           local' = [local EXCEPT ![t].pc = p, ![t].n = e, ![t].then = h]
    PROVE  Now(t, p, e, local[t].x, local[t].el, local[t].pinned, h)
BY DEF TypeOK, LocalRec, Now, Nodes

(* ... one that begins a search, ... *)
LEMMA FindNow ==
    ASSUME TypeOK, NEW t \in Threads, NEW p \in Pcs, NEW n \in Nodes,
           NEW e \in Elems \cup {NULL}, NEW pinned \in Elems \cup {NULL},
           NEW h \in Moving \cup {"remove"}, Find(t, p, n, pinned, h, e)
    PROVE  Now(t, p, n, NULL, e, pinned, h) /\ lock' = Request(lock, n, t, FALSE)
BY DEF TypeOK, LocalRec, Find, Now

(* ... and one that returns. *)
LEMMA ReturnNow ==
    ASSUME TypeOK, NEW t \in Threads, Return(t)
    PROVE  /\ Now(t, "idle", NULL, NULL, NULL, NULL, NULL) /\ local'[t] = Idle
           /\ prog' \in [Threads -> Seq(Op)] \/ prog[t] = <<>>
           /\ \A u \in Threads \ {t} : prog'[u] = prog[u]
<1>1. local' = [local EXCEPT ![t] = Idle] /\ prog' = [prog EXCEPT ![t] = Tail(prog[t])]
    BY DEF Return
<1>2. Idle \in LocalRec
    BY DEF Idle, LocalRec, Pcs
<1>3. local' \in [Threads -> LocalRec] /\ local'[t] = Idle
      /\ \A u \in Threads \ {t} : local'[u] = local[u]
    BY <1>1, <1>2 DEF TypeOK
<1>4. prog[t] # <<>> => Tail(prog[t]) \in Seq(Op)
    BY DEF TypeOK
<1>5. QED
    BY <1>1, <1>3, <1>4 DEF TypeOK, Now, Idle

(* What IInv says of thread t. *)
Known(t) ==
    /\ TypeOK /\ LocalInv /\ LockInv /\ NearInv
    /\ LocalOK(t) /\ EndOK(t) /\ NearOK(t) /\ ClaimOK(t) /\ MineOK(t) /\ WaitOK(t)
    /\ \A m \in Nodes : LockOK(t, m)
    /\ local[t].pc \in Pcs /\ local[t].n \in Nodes \cup {NULL}
    /\ local[t].x \in Nodes \cup {NULL} /\ local[t].el \in Elems \cup {NULL}
    /\ local[t].pinned \in Elems \cup {NULL}
    /\ local[t].then \in Moving \cup {"remove", NULL}
    /\ cur[t] \in Elems \cup {NULL, Done} /\ mine[t] \in Elems \cup {NULL}
    /\ prog[t] \in Seq(Op)

(* Known follows from IInv. *)
LEMMA Knows ==
    ASSUME IInv, NEW t \in Threads
    PROVE  Known(t)
BY Here DEF IInv, Known

(* The locks of the nodes other than S that the thread has and asks for    *)
(* are those it had and asked for.                                         *)
GoesOn(t, S) ==
    /\ \A m \in Nodes \ S : Must(t, m)' => t \in lock[m].own
    /\ \A m \in Nodes \ S : Must(t, m)' \/ May(t, m)' <=> Must(t, m) \/ May(t, m)

(* The links stay the same. *)
LEMMA SameLinks ==
    ASSUME NEW t \in Threads, UNCHANGED links
    PROVE  /\ Still(t) /\ next' = next /\ prev' = prev
           /\ \A e \in Elems : OnList(e) => OnList(e)'
BY DEF links, Still, OnList

RefRec == [mask : BOOLEAN, pin : Nat, wait : SUBSET Threads]

(* A pin keeps the type of the reference counts, ... *)
LEMMA PinType ==
    ASSUME TypeOK, NEW e \in Elems, Pin(e)
    PROVE  ref' \in [Elems -> [mask : BOOLEAN, pin : Nat, wait : SUBSET Threads]]
<1>1. ref \in [Elems -> RefRec] /\ ref' = [ref EXCEPT ![e].pin = @ + 1]
    BY DEF TypeOK, Pin, RefRec
<1>2. ref[e].pin + 1 \in Nat
    BY <1>1 DEF RefRec
<1>3. QED
    BY <1>1, <1>2 DEF RefRec

(* ... as does a change of a wait id, ... *)
LEMMA WaitType ==
    ASSUME TypeOK, NEW e \in Elems, NEW w \in SUBSET Threads, ref' = [ref EXCEPT ![e].wait = w]
    PROVE  ref' \in [Elems -> [mask : BOOLEAN, pin : Nat, wait : SUBSET Threads]]
<1>1. ref \in [Elems -> RefRec]
    BY DEF TypeOK, RefRec
<1>2. QED
    BY <1>1 DEF RefRec

(* ... and an unpin. *)
LEMMA UnpinType ==
    ASSUME TypeOK, NEW e \in Elems, Unpin(e), ref[e].pin > 0
    PROVE  /\ ref' \in [Elems -> [mask : BOOLEAN, pin : Nat, wait : SUBSET Threads]]
           /\ signal' \in [Threads -> BOOLEAN]
<1>1. ref \in [Elems -> RefRec]
    BY DEF TypeOK, RefRec
<1>2. PICK w : w = IF ref[e].mask /\ ref[e].pin = 1 THEN {} ELSE ref[e].wait
    OBVIOUS
<1>3. ref' = [ref EXCEPT ![e].pin = @ - 1, ![e].wait = w]
    BY <1>1, <1>2 DEF Unpin
<1>4. ref[e].pin - 1 \in Nat /\ w \in SUBSET Threads
    BY <1>1, <1>2 DEF RefRec
<1>5. ref' \in [Elems -> RefRec]
    BY <1>1, <1>3, <1>4 DEF RefRec
<1>6. signal' \in [Threads -> BOOLEAN]
    BY DEF TypeOK, Unpin
<1>7. QED
    BY <1>5, <1>6 DEF RefRec

(* What is not masked can be pinned. *)
LEMMA Unmasked ==
    ASSUME IInv, NEW t \in Threads, NEW e \in Elems, ~ref[e].mask
    PROVE  OnList(e) /\ Uninserted(t, e)
<1>1. OnList(e)
    BY DEF IInv, ClaimInv, ElemOK
<1>2. \A w \in Threads : Inserting(w) => ref[local[w].el].mask
    BY DEF IInv, ClaimInv, ClaimOK, Claims
<1>3. QED
    BY <1>1, <1>2 DEF Uninserted

(* Who gives up one lock preserves LockInv, ... *)
LEMMA OneUnlock ==
    ASSUME IInv, NEW t \in Threads, Others(t), UNCHANGED links,
           NEW a \in Nodes, lock' = Unlock(lock, a, t), t \in lock[a].own,
           ~Must(t, a)', ~May(t, a)', GoesOn(t, {a}),
           XMode(t)' = XMode(t) \/ \A m \in Nodes : ~Must(t, m)' /\ ~May(t, m)',
           local[t].pc # "clearyield", EndOK(t)'
    PROVE  LockInv' /\ lock' \in [Nodes -> LockRec] /\ OwnersKept(t)
<1>1. TypeOK /\ LocalInv /\ LockInv /\ NearInv /\ LockOK(t, a)
    BY Here DEF IInv
<1>2. lock' = [m \in Nodes |-> IF m \in {a} THEN Unlocked(lock[m], t) ELSE lock[m]]
    BY <1>1 DEF TypeOK, Unlock
<1>3. ~Queued(t, lock[a])
    BY <1>1 DEF LockOK, At
<1>4. QED
    BY <1>1, <1>2, <1>3, SameLinks, LocksUnlocked DEF GoesOn, At

(* ... as does who asks for one, ... *)
LEMMA OneRequest ==
    ASSUME IInv, NEW t \in Threads, Others(t), UNCHANGED links,
           NEW a, Fresh(t, a), NEW x \in BOOLEAN, x = XMode(t)', lock' = Request(lock, a, t, x),
           ~Must(t, a), ~May(t, a), Must(t, a)' \/ May(t, a)',
           Must(t, a)' => Grantable(lock[a], x), GoesOn(t, {a}),
           XMode(t)' = XMode(t) \/ \A m \in Nodes : ~Must(t, m) /\ ~May(t, m),
           local[t].pc # "clearyield", EndOK(t)'
    PROVE  LockInv' /\ lock' \in [Nodes -> LockRec] /\ OwnersKept(t)
<1>1. TypeOK /\ LocalInv /\ LockInv /\ NearInv /\ a \in Nodes /\ LockOK(t, a)
    BY Here DEF IInv, Fresh
<1>2. ~Asks(t, lock[a])
    BY <1>1 DEF LockOK
<1>3. QED
    BY <1>1, <1>2, SameLinks, LocksRequested DEF GoesOn, At, Asks

(* ... and who leaves the locks alone. *)
LEMMA NoRequest ==
    ASSUME IInv, NEW t \in Threads, Others(t), UNCHANGED <<links, lock>>, GoesOn(t, {}),
           XMode(t)' = XMode(t) \/ \A m \in Nodes : ~Must(t, m) /\ ~May(t, m),
           local[t].pc # "clearyield", EndOK(t)'
    PROVE  LockInv' /\ lock' \in [Nodes -> LockRec] /\ OwnersKept(t)
<1>1. TypeOK /\ LocalInv /\ LockInv /\ NearInv
    BY DEF IInv
<1>2. LockInv'
    BY <1>1, SameLinks, LocksKept DEF GoesOn, At
<1>3. QED
    BY <1>1, <1>2 DEF TypeOK, OwnersKept

(* PrevYield preserves IInv. *)
LEMMA PrevYieldStep ==
    ASSUME IInv, NEW t \in Threads, PrevYield(t)
    PROVE  IInv'
<1> DEFINE l == local[t]
<1>0. Known(t)
    BY Knows
<1>1. /\ l.pc = "yield" /\ Now(t, "relock", l.n, l.x, l.el, l.pinned, l.then)
      /\ lock' = Unlock(lock, l.n, t)
      /\ UNCHANGED <<prog, links, ref, count, signal, iter, mine>>
    <2>1. Goto(t, "relock") /\ "relock" \in Pcs
        BY DEF PrevYield, Pcs, SearchPcs, PairPcs, OffPcs, InsPcs
    <2>2. QED
        BY <1>0, <2>1, GotoNow DEF Known, PrevYield, At, Owns
<1>2. Others(t) /\ next' = next /\ prev' = prev /\ cur' = cur
    BY <1>1 DEF Others, Now, links, iter
<1>3. OnList(l.x)
    <2>1. l.n = TAIL \/ Anchored(t, l.n)
        BY <1>0, <1>1 DEF Known, NearOK
    <2>2. l.n \in Members \cup {TAIL}
        BY <1>1, <2>1, AnchorIsMember DEF OffPcs, Inserting, PairPcs
    <2>3. QED
        BY <1>0, <1>1, <2>2, Neighbours, AtomicListAssumption DEF Known, NearOK, LocalOK, Members
<1>4. LocalOK(t)'
    BY <1>0, <1>1, <1>2, AtomicListAssumption
       DEF Known, Nodes, LocalOK, Now, Calls, Call, Inserts, SearchPcs, PairPcs, InsPcs, Moving,
           iter
<1>5. Steady(t) /\ Calm(t)
    BY <1>0, <1>1, <1>2 DEF Known, Steady, Calm, Now, Removing, Inserting, Claims, Counting, PinsEl,
       LocalOK, Calls, Call, Inserts, SearchPcs, PairPcs, InsPcs, OffPcs, Moving
<1>6. LockInv' /\ lock' \in [Nodes -> LockRec] /\ OwnersKept(t)
    <2>1. l.n \in Nodes /\ t \in lock[l.n].own
        BY <1>0, <1>1 DEF Known, LocalOK, LockOK, Must, Owns, SearchPcs, PairPcs, InsPcs, Nodes
    <2>2. PICK a \in Nodes : a = l.n
        BY <2>1
    <2>3. ~Must(t, a)' /\ ~May(t, a)'
        BY <1>0, <1>1, <1>2, <2>2 DEF Known, LocalOK, Now, Must, May
    <2>4. GoesOn(t, {a})
        BY <1>0, <1>1, <1>2, <2>2 DEF Known, GoesOn, LockOK, Now, Must, May, Owns, LocalOK
    <2>5. XMode(t)' = XMode(t) /\ EndOK(t)' /\ l.pc # "clearyield"
        BY <1>1 DEF XMode, EndOK, Now, PairPcs, OffPcs, InsPcs
    <2>6. QED
        BY <1>1, <1>2, <2>1, <2>2, <2>3, <2>4, <2>5, OneUnlock
<1>7. Members' = Members
    BY <1>1, <1>2, <1>5, SteadyMembers
<1>8. NearOK(t)'
    BY <1>0, <1>1, <1>2, <1>7, <1>3 DEF Known, NearOK, Now, Anchored, OnList, PairPcs, Inserts,
                                        Calls, Call, OnList
<1>9. TypeOK'
    BY <1>0, <1>1, <1>6 DEF Known, TypeOK, Now, links, iter
<1>10. (\A f \in Elems : Pins(t, f)' = Pins(t, f)) /\ InsertsAlone(t)
    <2>1. \A f \in Elems :
             /\ Holds(t, "cur", f)' <=> Holds(t, "cur", f)
             /\ Holds(t, "pinned", f)' <=> Holds(t, "pinned", f)
             /\ Holds(t, "x", f)' <=> Holds(t, "x", f)
             /\ Holds(t, "el", f)' <=> Holds(t, "el", f)
        BY <1>0, <1>1, <1>2, AtomicListAssumption
           DEF Known, Nodes, Holds, Now, PinsEl, LocalOK, Calls, Call, Inserts,
       SearchPcs, PairPcs, InsPcs, Moving, iter
    <2>2. \A f \in Elems : Pins(t, f)' = Pins(t, f)
        BY <2>1 DEF Pins, One
    <2>3. InsertsAlone(t)
        BY <1>1, <2>1 DEF InsertsAlone, Kinds, Inserting, PairPcs
    <2>4. QED
        BY <2>2, <2>3
<1>11. QED
    BY <1>1, <1>2, <1>4, <1>8, <1>5, <1>6, <1>9, <1>10, QuietStep

(* PrevDeferred preserves IInv. *)
LEMMA PrevDeferredStep ==
    ASSUME IInv, NEW t \in Threads, PrevDeferred(t)
    PROVE  IInv'
<1> DEFINE l == local[t]
<1>0. Known(t)
    BY Knows
<1>1. /\ l.pc = "deferred" /\ Now(t, "asleep", l.n, l.x, l.el, l.pinned, l.then)
      /\ lock' = Unlock(lock, l.x, t)
      /\ UNCHANGED <<prog, links, ref, count, signal, iter, mine>>
    <2>1. Goto(t, "asleep") /\ "asleep" \in Pcs
        BY DEF PrevDeferred, Pcs, SearchPcs, PairPcs, OffPcs, InsPcs
    <2>2. QED
        BY <1>0, <2>1, GotoNow DEF Known, PrevDeferred, At, Owns
<1>2. Others(t) /\ next' = next /\ prev' = prev /\ cur' = cur
    BY <1>1 DEF Others, Now, links, iter
<1>3. LocalOK(t)'
    BY <1>0, <1>1, <1>2, AtomicListAssumption
       DEF Known, Nodes, LocalOK, Now, Calls, Call, Inserts, SearchPcs, PairPcs, InsPcs, Moving,
           iter
<1>4. Steady(t) /\ Calm(t)
    BY <1>0, <1>1, <1>2 DEF Known, Steady, Calm, Now, Removing, Inserting, Claims, Counting, PinsEl,
       LocalOK, Calls, Call, Inserts, SearchPcs, PairPcs, InsPcs, OffPcs, Moving
<1>5. LockInv' /\ lock' \in [Nodes -> LockRec] /\ OwnersKept(t)
    <2>1. l.x \in Nodes /\ t \in lock[l.x].own
        BY <1>0, <1>1 DEF Known, LocalOK, LockOK, Must, Owns, SearchPcs, PairPcs, InsPcs, Nodes
    <2>2. PICK a \in Nodes : a = l.x
        BY <2>1
    <2>3. ~Must(t, a)' /\ ~May(t, a)'
        BY <1>0, <1>1, <1>2, <2>2 DEF Known, LocalOK, Now, Must, May
    <2>4. GoesOn(t, {a})
        BY <1>0, <1>1, <1>2, <2>2 DEF Known, GoesOn, LockOK, Now, Must, May, Owns, LocalOK
    <2>5. XMode(t)' = XMode(t) /\ EndOK(t)' /\ l.pc # "clearyield"
        BY <1>1 DEF XMode, EndOK, Now, PairPcs, OffPcs, InsPcs
    <2>6. QED
        BY <1>1, <1>2, <2>1, <2>2, <2>3, <2>4, <2>5, OneUnlock
<1>6. Members' = Members
    BY <1>1, <1>2, <1>4, SteadyMembers
<1>7. NearOK(t)'
    BY <1>0, <1>1, <1>2, <1>6 DEF Known, NearOK, Now, Anchored, OnList, PairPcs, Inserts, Calls,
                                  Call
<1>8. TypeOK'
    BY <1>0, <1>1, <1>5 DEF Known, TypeOK, Now, links, iter
<1>9. (\A f \in Elems : Pins(t, f)' = Pins(t, f)) /\ InsertsAlone(t)
    <2>1. \A f \in Elems :
             /\ Holds(t, "cur", f)' <=> Holds(t, "cur", f)
             /\ Holds(t, "pinned", f)' <=> Holds(t, "pinned", f)
             /\ Holds(t, "x", f)' <=> Holds(t, "x", f)
             /\ Holds(t, "el", f)' <=> Holds(t, "el", f)
        BY <1>0, <1>1, <1>2, AtomicListAssumption
           DEF Known, Nodes, Holds, Now, PinsEl, LocalOK, Calls, Call, Inserts,
       SearchPcs, PairPcs, InsPcs, Moving, iter
    <2>2. \A f \in Elems : Pins(t, f)' = Pins(t, f)
        BY <2>1 DEF Pins, One
    <2>3. InsertsAlone(t)
        BY <1>1, <2>1 DEF InsertsAlone, Kinds, Inserting, PairPcs
    <2>4. QED
        BY <2>2, <2>3
<1>10. QED
    BY <1>1, <1>2, <1>3, <1>7, <1>4, <1>5, <1>8, <1>9, QuietStep

(* PairYield preserves IInv. *)
LEMMA PairYieldStep ==
    ASSUME IInv, NEW t \in Threads, PairYield(t)
    PROVE  IInv'
<1> DEFINE l == local[t]
<1>0. Known(t)
    BY Knows
<1>1. /\ l.pc = "pairyield" /\ Now(t, "pairrelock", l.n, l.x, l.el, l.pinned, l.then)
      /\ lock' = Unlock(lock, l.n, t)
      /\ UNCHANGED <<prog, links, ref, count, signal, iter, mine>>
    <2>1. Goto(t, "pairrelock") /\ "pairrelock" \in Pcs
        BY DEF PairYield, Pcs, SearchPcs, PairPcs, OffPcs, InsPcs
    <2>2. QED
        BY <1>0, <2>1, GotoNow DEF Known, PairYield, At, Owns
<1>2. Others(t) /\ next' = next /\ prev' = prev /\ cur' = cur
    BY <1>1 DEF Others, Now, links, iter
<1>3. LocalOK(t)'
    BY <1>0, <1>1, <1>2, AtomicListAssumption
       DEF Known, Nodes, LocalOK, Now, Calls, Call, Inserts, SearchPcs, PairPcs, InsPcs, Moving,
           iter
<1>4. Steady(t) /\ Calm(t)
    BY <1>0, <1>1, <1>2 DEF Known, Steady, Calm, Now, Removing, Inserting, Claims, Counting, PinsEl,
       LocalOK, Calls, Call, Inserts, SearchPcs, PairPcs, InsPcs, OffPcs, Moving
<1>5. LockInv' /\ lock' \in [Nodes -> LockRec] /\ OwnersKept(t)
    <2>1. l.n \in Nodes /\ t \in lock[l.n].own
        BY <1>0, <1>1 DEF Known, LocalOK, LockOK, Must, Owns, SearchPcs, PairPcs, InsPcs, Nodes
    <2>2. PICK a \in Nodes : a = l.n
        BY <2>1
    <2>3. ~Must(t, a)' /\ ~May(t, a)'
        BY <1>0, <1>1, <1>2, <2>2 DEF Known, LocalOK, Now, Must, May
    <2>4. GoesOn(t, {a})
        BY <1>0, <1>1, <1>2, <2>2 DEF Known, GoesOn, LockOK, Now, Must, May, Owns, LocalOK
    <2>5. XMode(t)' = XMode(t) /\ EndOK(t)' /\ l.pc # "clearyield"
        BY <1>1 DEF XMode, EndOK, Now, PairPcs, OffPcs, InsPcs
    <2>6. QED
        BY <1>1, <1>2, <2>1, <2>2, <2>3, <2>4, <2>5, OneUnlock
<1>6. Members' = Members
    BY <1>1, <1>2, <1>4, SteadyMembers
<1>7. NearOK(t)'
    BY <1>0, <1>1, <1>2, <1>6 DEF Known, NearOK, Now, Anchored, OnList, PairPcs, Inserts, Calls,
                                  Call
<1>8. TypeOK'
    BY <1>0, <1>1, <1>5 DEF Known, TypeOK, Now, links, iter
<1>9. (\A f \in Elems : Pins(t, f)' = Pins(t, f)) /\ InsertsAlone(t)
    <2>1. \A f \in Elems :
             /\ Holds(t, "cur", f)' <=> Holds(t, "cur", f)
             /\ Holds(t, "pinned", f)' <=> Holds(t, "pinned", f)
             /\ Holds(t, "x", f)' <=> Holds(t, "x", f)
             /\ Holds(t, "el", f)' <=> Holds(t, "el", f)
        BY <1>0, <1>1, <1>2, AtomicListAssumption
           DEF Known, Nodes, Holds, Now, PinsEl, LocalOK, Calls, Call, Inserts,
       SearchPcs, PairPcs, InsPcs, Moving, iter
    <2>2. \A f \in Elems : Pins(t, f)' = Pins(t, f)
        BY <2>1 DEF Pins, One
    <2>3. InsertsAlone(t)
        BY <1>1, <2>1 DEF InsertsAlone, Kinds, Inserting, PairPcs
    <2>4. QED
        BY <2>2, <2>3
<1>10. QED
    BY <1>1, <1>2, <1>3, <1>7, <1>4, <1>5, <1>8, <1>9, QuietStep

(* Unlinked preserves IInv. *)
LEMMA UnlinkedStep ==
    ASSUME IInv, NEW t \in Threads, Unlinked(t)
    PROVE  IInv'
<1> DEFINE l == local[t]
<1>0. Known(t)
    BY Knows
<1>1. /\ l.pc = "unlinked" /\ Now(t, "clear", l.n, l.x, l.el, l.pinned, l.then)
      /\ lock' = Unlock(lock, l.n, t)
      /\ UNCHANGED <<prog, links, ref, count, signal, iter, mine>>
    <2>1. Goto(t, "clear") /\ "clear" \in Pcs
        BY DEF Unlinked, Pcs, SearchPcs, PairPcs, OffPcs, InsPcs
    <2>2. QED
        BY <1>0, <2>1, GotoNow DEF Known, Unlinked, At, Owns
<1>2. Others(t) /\ next' = next /\ prev' = prev /\ cur' = cur
    BY <1>1 DEF Others, Now, links, iter
<1>3. LocalOK(t)'
    BY <1>0, <1>1, <1>2, AtomicListAssumption
       DEF Known, Nodes, LocalOK, Now, Calls, Call, Inserts, SearchPcs, PairPcs, InsPcs, Moving,
           iter
<1>4. Steady(t) /\ Calm(t)
    BY <1>0, <1>1, <1>2 DEF Known, Steady, Calm, Now, Removing, Inserting, Claims, Counting, PinsEl,
       LocalOK, Calls, Call, Inserts, SearchPcs, PairPcs, InsPcs, OffPcs, Moving
<1>5. LockInv' /\ lock' \in [Nodes -> LockRec] /\ OwnersKept(t)
    <2>1. l.n \in Nodes /\ t \in lock[l.n].own
        BY <1>0, <1>1 DEF Known, LocalOK, LockOK, Must, Owns, SearchPcs, PairPcs, InsPcs, Nodes
    <2>2. PICK a \in Nodes : a = l.n
        BY <2>1
    <2>3. ~Must(t, a)' /\ ~May(t, a)'
        BY <1>0, <1>1, <1>2, <2>2 DEF Known, LocalOK, Now, Must, May
    <2>4. GoesOn(t, {a})
        BY <1>0, <1>1, <1>2, <2>2 DEF Known, GoesOn, LockOK, Now, Must, May, Owns, LocalOK
    <2>5. XMode(t)' = XMode(t) /\ EndOK(t)' /\ l.pc # "clearyield"
        BY <1>1 DEF XMode, EndOK, Now, PairPcs, OffPcs, InsPcs
    <2>6. QED
        BY <1>1, <1>2, <2>1, <2>2, <2>3, <2>4, <2>5, OneUnlock
<1>6. Members' = Members
    BY <1>1, <1>2, <1>4, SteadyMembers
<1>7. NearOK(t)'
    BY <1>0, <1>1, <1>2, <1>6 DEF Known, NearOK, Now, Anchored, OnList, PairPcs, Inserts, Calls,
                                  Call
<1>8. TypeOK'
    BY <1>0, <1>1, <1>5 DEF Known, TypeOK, Now, links, iter
<1>9. (\A f \in Elems : Pins(t, f)' = Pins(t, f)) /\ InsertsAlone(t)
    <2>1. \A f \in Elems :
             /\ Holds(t, "cur", f)' <=> Holds(t, "cur", f)
             /\ Holds(t, "pinned", f)' <=> Holds(t, "pinned", f)
             /\ Holds(t, "x", f)' <=> Holds(t, "x", f)
             /\ Holds(t, "el", f)' <=> Holds(t, "el", f)
        BY <1>0, <1>1, <1>2, AtomicListAssumption
           DEF Known, Nodes, Holds, Now, PinsEl, LocalOK, Calls, Call, Inserts,
       SearchPcs, PairPcs, InsPcs, Moving, iter
    <2>2. \A f \in Elems : Pins(t, f)' = Pins(t, f)
        BY <2>1 DEF Pins, One
    <2>3. InsertsAlone(t)
        BY <1>1, <2>1 DEF InsertsAlone, Kinds, Inserting, PairPcs
    <2>4. QED
        BY <2>2, <2>3
<1>10. QED
    BY <1>1, <1>2, <1>3, <1>7, <1>4, <1>5, <1>8, <1>9, QuietStep

(* Linked preserves IInv. *)
LEMMA LinkedStep ==
    ASSUME IInv, NEW t \in Threads, Linked(t)
    PROVE  IInv'
<1> DEFINE l == local[t]
<1>0. Known(t)
    BY Knows
<1>1. /\ l.pc = "linked" /\ Now(t, "inserted", l.n, l.x, l.el, l.pinned, l.then)
      /\ lock' = Unlock(lock, l.x, t)
      /\ UNCHANGED <<prog, links, ref, count, signal, iter, mine>>
    <2>1. Goto(t, "inserted") /\ "inserted" \in Pcs
        BY DEF Linked, Pcs, SearchPcs, PairPcs, OffPcs, InsPcs
    <2>2. QED
        BY <1>0, <2>1, GotoNow DEF Known, Linked, At, Owns
<1>2. Others(t) /\ next' = next /\ prev' = prev /\ cur' = cur
    BY <1>1 DEF Others, Now, links, iter
<1>3. LocalOK(t)'
    BY <1>0, <1>1, <1>2, AtomicListAssumption
       DEF Known, Nodes, LocalOK, Now, Calls, Call, Inserts, SearchPcs, PairPcs, InsPcs, Moving,
           iter
<1>4. Steady(t) /\ Calm(t)
    BY <1>0, <1>1, <1>2 DEF Known, Steady, Calm, Now, Removing, Inserting, Claims, Counting, PinsEl,
       LocalOK, Calls, Call, Inserts, SearchPcs, PairPcs, InsPcs, OffPcs, Moving
<1>5. LockInv' /\ lock' \in [Nodes -> LockRec] /\ OwnersKept(t)
    <2>1. l.x \in Nodes /\ t \in lock[l.x].own
        BY <1>0, <1>1 DEF Known, LocalOK, LockOK, Must, Owns, SearchPcs, PairPcs, InsPcs, Nodes
    <2>2. PICK a \in Nodes : a = l.x
        BY <2>1
    <2>3. ~Must(t, a)' /\ ~May(t, a)'
        BY <1>0, <1>1, <1>2, <2>2 DEF Known, LocalOK, Now, Must, May
    <2>4. GoesOn(t, {a})
        BY <1>0, <1>1, <1>2, <2>2 DEF Known, GoesOn, LockOK, Now, Must, May, Owns, LocalOK
    <2>5. XMode(t)' = XMode(t) /\ EndOK(t)' /\ l.pc # "clearyield"
        BY <1>1 DEF XMode, EndOK, Now, PairPcs, OffPcs, InsPcs
    <2>6. QED
        BY <1>1, <1>2, <2>1, <2>2, <2>3, <2>4, <2>5, OneUnlock
<1>6. Members' = Members
    BY <1>1, <1>2, <1>4, SteadyMembers
<1>7. NearOK(t)'
    BY <1>0, <1>1, <1>2, <1>6 DEF Known, NearOK, Now, Anchored, OnList, PairPcs, Inserts, Calls,
                                  Call
<1>8. TypeOK'
    BY <1>0, <1>1, <1>5 DEF Known, TypeOK, Now, links, iter
<1>9. (\A f \in Elems : Pins(t, f)' = Pins(t, f)) /\ InsertsAlone(t)
    <2>1. \A f \in Elems :
             /\ Holds(t, "cur", f)' <=> Holds(t, "cur", f)
             /\ Holds(t, "pinned", f)' <=> Holds(t, "pinned", f)
             /\ Holds(t, "x", f)' <=> Holds(t, "x", f)
             /\ Holds(t, "el", f)' <=> Holds(t, "el", f)
        BY <1>0, <1>1, <1>2, AtomicListAssumption
           DEF Known, Nodes, Holds, Now, PinsEl, LocalOK, Calls, Call, Inserts,
       SearchPcs, PairPcs, InsPcs, Moving, iter
    <2>2. \A f \in Elems : Pins(t, f)' = Pins(t, f)
        BY <2>1 DEF Pins, One
    <2>3. InsertsAlone(t)
        BY <1>1, <2>1 DEF InsertsAlone, Kinds, Inserting, PairPcs
    <2>4. QED
        BY <2>2, <2>3
<1>10. QED
    BY <1>1, <1>2, <1>3, <1>7, <1>4, <1>5, <1>8, <1>9, QuietStep

(* The end of the list is found. *)
LEMMA NextElemEnd ==
    ASSUME IInv, NEW t \in Threads, NextElem(t), next[local[t].n] = TAIL
    PROVE  IInv'
<1> DEFINE l == local[t]
<1>0. Known(t)
    BY Knows
<1>1. l.pc = "next" /\ l.n \in Members \cup {HEAD} /\ l.n \in Nodes
      /\ next[l.n] \in Members \cup {TAIL} /\ next[l.n] # l.n /\ Members \subseteq Elems
    <2>1. l.pc = "next"
        BY DEF NextElem, At
    <2>2. QED
        BY <2>1, ForwardNode, Neighbours
<1>2. /\ l.pc = "next" /\ t \in lock[l.n].own /\ lock' = lock
      /\ Now(t, "leave", l.n, NULL, l.el, l.pinned, l.then)
      /\ UNCHANGED <<prog, links, ref, count, signal, iter, mine>>
    <2>1. FindAt(t, l.n, NULL, "leave") /\ "leave" \in Pcs /\ l.n \in Nodes
             /\ NULL \in Nodes \cup {NULL}
        BY <1>0, <1>1 DEF NextElem, Known, TypeOK, Pcs, SearchPcs, PairPcs, OffPcs, InsPcs
    <2>2. QED
        BY <1>0, <2>1, FindAtNow DEF Known, NextElem, At, Owns
<1>3. Others(t) /\ next' = next /\ prev' = prev /\ cur' = cur
    BY <1>2 DEF Others, Now, links, iter
<1>4. LocalOK(t)'
    BY <1>0, <1>2, <1>3, AtomicListAssumption
       DEF Known, Nodes, LocalOK, Now, Calls, Call, Inserts, SearchPcs, PairPcs, InsPcs, Moving,
           iter
<1>5. Steady(t) /\ Calm(t)
    BY <1>0, <1>2, <1>3 DEF Known, Steady, Calm, Now, Removing, Inserting, Claims, Counting, PinsEl,
       LocalOK, Calls, Call, Inserts, SearchPcs, PairPcs, InsPcs, OffPcs, Moving
<1>6. LockInv' /\ lock' \in [Nodes -> LockRec] /\ OwnersKept(t)
    <2>1. GoesOn(t, {})
        BY <1>0, <1>2, <1>3 DEF Known, GoesOn, LockOK, Now, Must, May, Owns, LocalOK
    <2>2. (XMode(t)' = XMode(t) \/ \A m \in Nodes : ~Must(t, m) /\ ~May(t, m)) /\ EndOK(t)'
          /\ l.pc # "clearyield"
        BY <1>2 DEF XMode, EndOK, Now, PairPcs, OffPcs, InsPcs, Must, May
    <2>3. QED
        BY <1>2, <1>3, <2>1, <2>2, NoRequest
<1>7. Members' = Members
    BY <1>2, <1>3, <1>5, SteadyMembers
<1>8. NearOK(t)'
    BY <1>0, <1>2, <1>3, <1>7 DEF Known, NearOK, Now, Anchored, OnList, PairPcs, Inserts, Calls,
                                  Call
<1>9. TypeOK'
    BY <1>0, <1>2, <1>6 DEF Known, TypeOK, Now, links, iter
<1>10. (\A f \in Elems : Pins(t, f)' = Pins(t, f)) /\ InsertsAlone(t)
    <2>1. \A f \in Elems :
             /\ Holds(t, "cur", f)' <=> Holds(t, "cur", f)
             /\ Holds(t, "pinned", f)' <=> Holds(t, "pinned", f)
             /\ Holds(t, "x", f)' <=> Holds(t, "x", f)
             /\ Holds(t, "el", f)' <=> Holds(t, "el", f)
        BY <1>0, <1>2, <1>3, AtomicListAssumption
           DEF Known, Nodes, Holds, Now, PinsEl, LocalOK, Calls, Call, Inserts,
       SearchPcs, PairPcs, InsPcs, Moving, iter
    <2>2. \A f \in Elems : Pins(t, f)' = Pins(t, f)
        BY <2>1 DEF Pins, One
    <2>3. InsertsAlone(t)
        BY <1>2, <2>1 DEF InsertsAlone, Kinds, Inserting, PairPcs
    <2>4. QED
        BY <2>2, <2>3
<1>11. QED
    BY <1>2, <1>3, <1>4, <1>8, <1>5, <1>6, <1>9, <1>10, QuietStep

(* An element is found and pinned. *)
LEMMA NextElemPin ==
    ASSUME IInv, NEW t \in Threads, NextElem(t), next[local[t].n] # TAIL, Pinnable(next[local[t].n])
    PROVE  IInv'
<1> DEFINE l == local[t]
<1>0. Known(t)
    BY Knows
<1>1. l.pc = "next" /\ l.n \in Members \cup {HEAD} /\ l.n \in Nodes
      /\ next[l.n] \in Members \cup {TAIL} /\ next[l.n] # l.n /\ Members \subseteq Elems
    <2>1. l.pc = "next"
        BY DEF NextElem, At
    <2>2. QED
        BY <2>1, ForwardNode, Neighbours
<1>2. /\ l.pc = "next" /\ t \in lock[l.n].own /\ lock' = lock /\ Pin(next[l.n])
      /\ Now(t, "leave", l.n, next[l.n], l.el, l.pinned, l.then)
      /\ UNCHANGED <<prog, links, count, signal, iter, mine>>
    <2>1. FindAt(t, l.n, next[l.n], "leave") /\ "leave" \in Pcs /\ l.n \in Nodes
             /\ next[l.n] \in Nodes \cup {NULL}
        BY <1>0, <1>1 DEF NextElem, Known, TypeOK, Pcs, SearchPcs, PairPcs, OffPcs, InsPcs, Nodes
    <2>2. QED
        BY <1>0, <2>1, FindAtNow DEF Known, NextElem, At, Owns, Nodes
<1>3. Others(t) /\ next' = next /\ prev' = prev /\ cur' = cur
    BY <1>2 DEF Others, Now, links, iter
<1>4. PICK e \in Elems : e = next[l.n] /\ OnList(e) /\ ~ref[e].mask /\ Uninserted(t, e) /\ Pin(e)
    BY <1>2, <1>1, Unmasked, AtomicListAssumption DEF Pinnable
<1>5. LocalOK(t)'
    BY <1>0, <1>2, <1>3, <1>4, AtomicListAssumption, AtomicListAssumption
       DEF Known, Nodes, LocalOK, Now, Calls, Call, Inserts, SearchPcs, PairPcs, InsPcs, Moving,
           iter
<1>6. Steady(t) /\ Calm(t)
    BY <1>0, <1>2, <1>3 DEF Known, Steady, Calm, Now, Removing, Inserting, Claims, Counting, PinsEl,
       LocalOK, Calls, Call, Inserts, SearchPcs, PairPcs, InsPcs, OffPcs, Moving
<1>7. LockInv' /\ lock' \in [Nodes -> LockRec] /\ OwnersKept(t)
    <2>1. GoesOn(t, {})
        BY <1>0, <1>2, <1>3 DEF Known, GoesOn, LockOK, Now, Must, May, Owns, LocalOK
    <2>2. (XMode(t)' = XMode(t) \/ \A m \in Nodes : ~Must(t, m) /\ ~May(t, m)) /\ EndOK(t)'
          /\ l.pc # "clearyield"
        BY <1>2 DEF XMode, EndOK, Now, PairPcs, OffPcs, InsPcs, Must, May
    <2>3. QED
        BY <1>2, <1>3, <2>1, <2>2, NoRequest
<1>8. Members' = Members
    BY <1>2, <1>3, <1>6, SteadyMembers
<1>9. NearOK(t)'
    BY <1>0, <1>2, <1>3, <1>8 DEF Known, NearOK, Now, Anchored, OnList, PairPcs, Inserts, Calls,
                                  Call
<1>10. TypeOK'
    <2>1. ref' \in [Elems -> [mask : BOOLEAN, pin : Nat, wait : SUBSET Threads]]
        BY <1>0, <1>4, PinType DEF Known
    <2>2. QED
        BY <1>0, <1>2, <1>7, <2>1 DEF Known, TypeOK, Now, links, iter
<1>11. (\A f \in Elems : Pins(t, f)' = Pins(t, f) + One(f = e)) /\ ~Inserting(t)
    BY <1>0, <1>2, <1>3, <1>4, AtomicListAssumption
       DEF Known, One, Inserting, Nodes, Pins, Holds, Now, PinsEl, LocalOK, Calls, Call, Inserts,
       SearchPcs, PairPcs, InsPcs, Moving, iter
<1>12. QED
    BY <1>2, <1>3, <1>4, <1>5, <1>9, <1>6, <1>7, <1>10, <1>11, PinStep DEF InsertsAlone

(* A masked element is asked for. *)
LEMMA NextElemHop ==
    ASSUME IInv, NEW t \in Threads, NextElem(t), next[local[t].n] # TAIL,
           ~Pinnable(next[local[t].n])
    PROVE  IInv'
<1> DEFINE l == local[t]
<1>0. Known(t)
    BY Knows
<1>1. l.pc = "next" /\ l.n \in Members \cup {HEAD} /\ l.n \in Nodes
      /\ next[l.n] \in Members \cup {TAIL} /\ next[l.n] # l.n /\ Members \subseteq Elems
    <2>1. l.pc = "next"
        BY DEF NextElem, At
    <2>2. QED
        BY <2>1, ForwardNode, Neighbours
<1>2. /\ l.pc = "next" /\ t \in lock[l.n].own /\ lock' = Request(lock, next[l.n], t, FALSE)
      /\ Now(t, "hop", l.n, next[l.n], l.el, l.pinned, l.then)
      /\ UNCHANGED <<prog, links, ref, count, signal, iter, mine>>
    <2>1. FindAt(t, l.n, next[l.n], "hop") /\ "hop" \in Pcs /\ l.n \in Nodes
             /\ next[l.n] \in Nodes \cup {NULL}
        BY <1>0, <1>1 DEF NextElem, Known, TypeOK, Pcs, SearchPcs, PairPcs, OffPcs, InsPcs, Nodes
    <2>2. QED
        BY <1>0, <2>1, FindAtNow DEF Known, NextElem, At, Owns, Nodes
<1>3. Others(t) /\ next' = next /\ prev' = prev /\ cur' = cur
    BY <1>2 DEF Others, Now, links, iter
<1>4. Fresh(t, next[l.n])
    BY <1>2, <1>1, FreshNeighbour
<1>5. LocalOK(t)'
    BY <1>0, <1>2, <1>3, <1>1, AtomicListAssumption
       DEF Known, Nodes, LocalOK, Now, Calls, Call, Inserts, SearchPcs, PairPcs, InsPcs, Moving,
           iter
<1>6. Steady(t) /\ Calm(t)
    BY <1>0, <1>2, <1>3 DEF Known, Steady, Calm, Now, Removing, Inserting, Claims, Counting, PinsEl,
       LocalOK, Calls, Call, Inserts, SearchPcs, PairPcs, InsPcs, OffPcs, Moving
<1>7. LockInv' /\ lock' \in [Nodes -> LockRec] /\ OwnersKept(t)
    <2>1. PICK a \in Nodes : a = next[l.n] /\ Fresh(t, a)
        BY <1>4 DEF Fresh
    <2>2. ~Must(t, a) /\ ~May(t, a)
        BY <1>0, <1>2, <1>3, <1>4, <2>1, <1>1 DEF Known, LocalOK, Must, May
    <2>3. (Must(t, a)' \/ May(t, a)') /\ (Must(t, a)' => Grantable(lock[a], FALSE))
        BY <1>0, <1>2, <1>3, <1>4, <2>1, <1>1 DEF Known, LocalOK, Now, Must, May
    <2>4. GoesOn(t, {a})
        BY <1>0, <1>2, <1>3, <1>4, <2>1, <1>1
           DEF Known, GoesOn, LockOK, Now, Must, May, Owns, LocalOK
    <2>5. XMode(t)' = FALSE /\ (XMode(t) = FALSE \/ \A m \in Nodes : ~Must(t, m) /\ ~May(t, m))
        BY <1>0, <1>2 DEF XMode, Now, PairPcs, OffPcs, InsPcs, Must, May
    <2>6. EndOK(t)' /\ l.pc # "clearyield"
        BY <1>2 DEF EndOK, Now
    <2>7. QED
        BY <1>2, <1>3, <2>1, <2>2, <2>3, <2>4, <2>5, <2>6, OneRequest
<1>8. Members' = Members
    BY <1>2, <1>3, <1>6, SteadyMembers
<1>9. NearOK(t)'
    BY <1>0, <1>2, <1>3, <1>8, <1>1, <1>7 DEF Known, NearOK, Now, Anchored, OnList, PairPcs,
                                              Inserts, Calls, Call, LockInv, LockOK, Must, Owns
<1>10. TypeOK'
    BY <1>0, <1>2, <1>7 DEF Known, TypeOK, Now, links, iter
<1>11. (\A f \in Elems : Pins(t, f)' = Pins(t, f)) /\ InsertsAlone(t)
    <2>1. \A f \in Elems :
             /\ Holds(t, "cur", f)' <=> Holds(t, "cur", f)
             /\ Holds(t, "pinned", f)' <=> Holds(t, "pinned", f)
             /\ Holds(t, "x", f)' <=> Holds(t, "x", f)
             /\ Holds(t, "el", f)' <=> Holds(t, "el", f)
        BY <1>0, <1>2, <1>3, AtomicListAssumption
           DEF Known, Nodes, Holds, Now, PinsEl, LocalOK, Calls, Call, Inserts,
       SearchPcs, PairPcs, InsPcs, Moving, iter
    <2>2. \A f \in Elems : Pins(t, f)' = Pins(t, f)
        BY <2>1 DEF Pins, One
    <2>3. InsertsAlone(t)
        BY <1>2, <2>1 DEF InsertsAlone, Kinds, Inserting, PairPcs
    <2>4. QED
        BY <2>2, <2>3
<1>12. QED
    BY <1>2, <1>3, <1>5, <1>9, <1>6, <1>7, <1>10, <1>11, QuietStep

(* NextElem preserves IInv. *)
LEMMA NextElemStep ==
    ASSUME IInv, NEW t \in Threads, NextElem(t)
    PROVE  IInv'
BY NextElemEnd, NextElemPin, NextElemHop

(* NextHop preserves IInv. *)
LEMMA NextHopStep ==
    ASSUME IInv, NEW t \in Threads, NextHop(t)
    PROVE  IInv'
<1> DEFINE l == local[t]
<1>0. Known(t)
    BY Knows
<1>1. l.pc = "hop" /\ l.n \in Nodes /\ l.x \in Members /\ l.x \in Elems /\ l.x # l.n
    <2>1. l.pc = "hop"
        BY DEF NextHop, At
    <2>2. l.n \in Members \cup {HEAD} /\ l.n \in Nodes
        BY <2>1, ForwardNode
    <2>3. l.x \in Elems /\ l.x # l.n /\ next[l.n] = l.x
        BY <1>0, <2>1 DEF Known, LocalOK, NearOK
    <2>4. QED
        BY <2>1, <2>2, <2>3, Neighbours, AtomicListAssumption
<1>2. /\ l.pc = "hop" /\ t \in lock[l.x].own /\ lock' = Unlock(lock, l.n, t)
      /\ Now(t, "next", l.x, NULL, l.el, l.pinned, l.then)
      /\ UNCHANGED <<prog, links, ref, count, signal, iter, mine>>
    <2>1. FindAt(t, l.x, NULL, "next") /\ "next" \in Pcs /\ l.x \in Nodes
             /\ NULL \in Nodes \cup {NULL}
        BY <1>0, <1>1 DEF NextHop, Known, TypeOK, Pcs, SearchPcs, PairPcs, OffPcs, InsPcs, Nodes
    <2>2. QED
        BY <1>0, <2>1, FindAtNow DEF Known, NextHop, At, Owns, Nodes
<1>3. Others(t) /\ next' = next /\ prev' = prev /\ cur' = cur
    BY <1>2 DEF Others, Now, links, iter
<1>4. LocalOK(t)'
    BY <1>0, <1>2, <1>3, AtomicListAssumption
       DEF Known, Nodes, LocalOK, Now, Calls, Call, Inserts, SearchPcs, PairPcs, InsPcs, Moving,
           iter
<1>5. Steady(t) /\ Calm(t)
    BY <1>0, <1>2, <1>3 DEF Known, Steady, Calm, Now, Removing, Inserting, Claims, Counting, PinsEl,
       LocalOK, Calls, Call, Inserts, SearchPcs, PairPcs, InsPcs, OffPcs, Moving
<1>6. LockInv' /\ lock' \in [Nodes -> LockRec] /\ OwnersKept(t)
    <2>1. l.n \in Nodes /\ t \in lock[l.n].own
        BY <1>0, <1>2, <1>1 DEF Known, LocalOK, LockOK, Must, Owns, SearchPcs, PairPcs, InsPcs,
                                Nodes
    <2>2. PICK a \in Nodes : a = l.n
        BY <2>1
    <2>3. ~Must(t, a)' /\ ~May(t, a)'
        BY <1>0, <1>2, <1>3, <2>2, <1>1 DEF Known, LocalOK, Now, Must, May
    <2>4. GoesOn(t, {a})
        BY <1>0, <1>2, <1>3, <2>2, <1>1 DEF Known, GoesOn, LockOK, Now, Must, May, Owns, LocalOK
    <2>5. XMode(t)' = XMode(t) /\ EndOK(t)' /\ l.pc # "clearyield"
        BY <1>2 DEF XMode, EndOK, Now, PairPcs, OffPcs, InsPcs
    <2>6. QED
        BY <1>2, <1>3, <2>1, <2>2, <2>3, <2>4, <2>5, OneUnlock
<1>7. Members' = Members
    BY <1>2, <1>3, <1>5, SteadyMembers
<1>8. NearOK(t)'
    BY <1>0, <1>2, <1>3, <1>7, <1>1, <1>6 DEF Known, NearOK, Now, Anchored, OnList, PairPcs,
                                              Inserts, Calls, Call, TypeOK, LockInv, LockOK,
                                              Owns, Unlock
<1>9. TypeOK'
    BY <1>0, <1>2, <1>6 DEF Known, TypeOK, Now, links, iter
<1>10. (\A f \in Elems : Pins(t, f)' = Pins(t, f)) /\ InsertsAlone(t)
    <2>1. \A f \in Elems :
             /\ Holds(t, "cur", f)' <=> Holds(t, "cur", f)
             /\ Holds(t, "pinned", f)' <=> Holds(t, "pinned", f)
             /\ Holds(t, "x", f)' <=> Holds(t, "x", f)
             /\ Holds(t, "el", f)' <=> Holds(t, "el", f)
        BY <1>0, <1>2, <1>3, AtomicListAssumption
           DEF Known, Nodes, Holds, Now, PinsEl, LocalOK, Calls, Call, Inserts,
       SearchPcs, PairPcs, InsPcs, Moving, iter
    <2>2. \A f \in Elems : Pins(t, f)' = Pins(t, f)
        BY <2>1 DEF Pins, One
    <2>3. InsertsAlone(t)
        BY <1>2, <2>1 DEF InsertsAlone, Kinds, Inserting, PairPcs
    <2>4. QED
        BY <2>2, <2>3
<1>11. QED
    BY <1>2, <1>3, <1>4, <1>8, <1>5, <1>6, <1>9, <1>10, QuietStep

(* The end of the list is found. *)
LEMMA PrevElemEnd ==
    ASSUME IInv, NEW t \in Threads, PrevElem(t), prev[local[t].n] = HEAD
    PROVE  IInv'
<1> DEFINE l == local[t]
<1>0. Known(t)
    BY Knows
<1>1. l.pc = "prev" /\ l.n \in Members \cup {TAIL} /\ l.n \in Nodes
      /\ prev[l.n] \in Members \cup {HEAD} /\ prev[l.n] # l.n /\ Members \subseteq Elems
    <2>1. l.pc = "prev"
        BY DEF PrevElem, At
    <2>2. QED
        BY <2>1, BackwardNode, Neighbours
<1>2. /\ l.pc = "prev" /\ t \in lock[l.n].own /\ lock' = lock
      /\ Now(t, "leave", l.n, NULL, l.el, l.pinned, l.then)
      /\ UNCHANGED <<prog, links, ref, count, signal, iter, mine>>
    <2>1. FindAt(t, l.n, NULL, "leave") /\ "leave" \in Pcs /\ l.n \in Nodes
             /\ NULL \in Nodes \cup {NULL}
        BY <1>0, <1>1 DEF PrevElem, Known, TypeOK, Pcs, SearchPcs, PairPcs, OffPcs, InsPcs
    <2>2. QED
        BY <1>0, <2>1, FindAtNow DEF Known, PrevElem, At, Owns
<1>3. Others(t) /\ next' = next /\ prev' = prev /\ cur' = cur
    BY <1>2 DEF Others, Now, links, iter
<1>4. LocalOK(t)'
    BY <1>0, <1>2, <1>3, AtomicListAssumption
       DEF Known, Nodes, LocalOK, Now, Calls, Call, Inserts, SearchPcs, PairPcs, InsPcs, Moving,
           iter
<1>5. Steady(t) /\ Calm(t)
    BY <1>0, <1>2, <1>3 DEF Known, Steady, Calm, Now, Removing, Inserting, Claims, Counting, PinsEl,
       LocalOK, Calls, Call, Inserts, SearchPcs, PairPcs, InsPcs, OffPcs, Moving
<1>6. LockInv' /\ lock' \in [Nodes -> LockRec] /\ OwnersKept(t)
    <2>1. GoesOn(t, {})
        BY <1>0, <1>2, <1>3 DEF Known, GoesOn, LockOK, Now, Must, May, Owns, LocalOK
    <2>2. (XMode(t)' = XMode(t) \/ \A m \in Nodes : ~Must(t, m) /\ ~May(t, m)) /\ EndOK(t)'
          /\ l.pc # "clearyield"
        BY <1>2 DEF XMode, EndOK, Now, PairPcs, OffPcs, InsPcs, Must, May
    <2>3. QED
        BY <1>2, <1>3, <2>1, <2>2, NoRequest
<1>7. Members' = Members
    BY <1>2, <1>3, <1>5, SteadyMembers
<1>8. NearOK(t)'
    BY <1>0, <1>2, <1>3, <1>7 DEF Known, NearOK, Now, Anchored, OnList, PairPcs, Inserts, Calls,
                                  Call
<1>9. TypeOK'
    BY <1>0, <1>2, <1>6 DEF Known, TypeOK, Now, links, iter
<1>10. (\A f \in Elems : Pins(t, f)' = Pins(t, f)) /\ InsertsAlone(t)
    <2>1. \A f \in Elems :
             /\ Holds(t, "cur", f)' <=> Holds(t, "cur", f)
             /\ Holds(t, "pinned", f)' <=> Holds(t, "pinned", f)
             /\ Holds(t, "x", f)' <=> Holds(t, "x", f)
             /\ Holds(t, "el", f)' <=> Holds(t, "el", f)
        BY <1>0, <1>2, <1>3, AtomicListAssumption
           DEF Known, Nodes, Holds, Now, PinsEl, LocalOK, Calls, Call, Inserts,
       SearchPcs, PairPcs, InsPcs, Moving, iter
    <2>2. \A f \in Elems : Pins(t, f)' = Pins(t, f)
        BY <2>1 DEF Pins, One
    <2>3. InsertsAlone(t)
        BY <1>2, <2>1 DEF InsertsAlone, Kinds, Inserting, PairPcs
    <2>4. QED
        BY <2>2, <2>3
<1>11. QED
    BY <1>2, <1>3, <1>4, <1>8, <1>5, <1>6, <1>9, <1>10, QuietStep

(* An element is found and pinned. *)
LEMMA PrevElemPin ==
    ASSUME IInv, NEW t \in Threads, PrevElem(t), prev[local[t].n] # HEAD, Pinnable(prev[local[t].n])
    PROVE  IInv'
<1> DEFINE l == local[t]
<1>0. Known(t)
    BY Knows
<1>1. l.pc = "prev" /\ l.n \in Members \cup {TAIL} /\ l.n \in Nodes
      /\ prev[l.n] \in Members \cup {HEAD} /\ prev[l.n] # l.n /\ Members \subseteq Elems
    <2>1. l.pc = "prev"
        BY DEF PrevElem, At
    <2>2. QED
        BY <2>1, BackwardNode, Neighbours
<1>2. /\ l.pc = "prev" /\ t \in lock[l.n].own /\ lock' = lock /\ Pin(prev[l.n])
      /\ Now(t, "leave", l.n, prev[l.n], l.el, l.pinned, l.then)
      /\ UNCHANGED <<prog, links, count, signal, iter, mine>>
    <2>1. FindAt(t, l.n, prev[l.n], "leave") /\ "leave" \in Pcs /\ l.n \in Nodes
             /\ prev[l.n] \in Nodes \cup {NULL}
        BY <1>0, <1>1 DEF PrevElem, Known, TypeOK, Pcs, SearchPcs, PairPcs, OffPcs, InsPcs, Nodes
    <2>2. QED
        BY <1>0, <2>1, FindAtNow DEF Known, PrevElem, At, Owns, Nodes
<1>3. Others(t) /\ next' = next /\ prev' = prev /\ cur' = cur
    BY <1>2 DEF Others, Now, links, iter
<1>4. PICK e \in Elems : e = prev[l.n] /\ OnList(e) /\ ~ref[e].mask /\ Uninserted(t, e) /\ Pin(e)
    BY <1>2, <1>1, Unmasked, AtomicListAssumption DEF Pinnable
<1>5. LocalOK(t)'
    BY <1>0, <1>2, <1>3, <1>4, AtomicListAssumption
       DEF Known, Nodes, LocalOK, Now, Calls, Call, Inserts, SearchPcs, PairPcs, InsPcs, Moving,
           iter
<1>6. Steady(t) /\ Calm(t)
    BY <1>0, <1>2, <1>3 DEF Known, Steady, Calm, Now, Removing, Inserting, Claims, Counting, PinsEl,
       LocalOK, Calls, Call, Inserts, SearchPcs, PairPcs, InsPcs, OffPcs, Moving
<1>7. LockInv' /\ lock' \in [Nodes -> LockRec] /\ OwnersKept(t)
    <2>1. GoesOn(t, {})
        BY <1>0, <1>2, <1>3 DEF Known, GoesOn, LockOK, Now, Must, May, Owns, LocalOK
    <2>2. (XMode(t)' = XMode(t) \/ \A m \in Nodes : ~Must(t, m) /\ ~May(t, m)) /\ EndOK(t)'
          /\ l.pc # "clearyield"
        BY <1>2 DEF XMode, EndOK, Now, PairPcs, OffPcs, InsPcs, Must, May
    <2>3. QED
        BY <1>2, <1>3, <2>1, <2>2, NoRequest
<1>8. Members' = Members
    BY <1>2, <1>3, <1>6, SteadyMembers
<1>9. NearOK(t)'
    BY <1>0, <1>2, <1>3, <1>8 DEF Known, NearOK, Now, Anchored, OnList, PairPcs, Inserts, Calls,
                                  Call
<1>10. TypeOK'
    <2>1. ref' \in [Elems -> [mask : BOOLEAN, pin : Nat, wait : SUBSET Threads]]
        BY <1>0, <1>4, PinType DEF Known
    <2>2. QED
        BY <1>0, <1>2, <1>7, <2>1 DEF Known, TypeOK, Now, links, iter
<1>11. (\A f \in Elems : Pins(t, f)' = Pins(t, f) + One(f = e)) /\ ~Inserting(t)
    BY <1>0, <1>2, <1>3, <1>4, AtomicListAssumption
       DEF Known, One, Inserting, Nodes, Pins, Holds, Now, PinsEl, LocalOK, Calls, Call, Inserts,
       SearchPcs, PairPcs, InsPcs, Moving, iter
<1>12. QED
    BY <1>2, <1>3, <1>4, <1>5, <1>9, <1>6, <1>7, <1>10, <1>11, PinStep DEF InsertsAlone

(* A masked element is asked for. *)
LEMMA PrevElemAsk ==
    ASSUME IInv, NEW t \in Threads, PrevElem(t), prev[local[t].n] # HEAD,
           ~Pinnable(prev[local[t].n])
    PROVE  IInv'
<1> DEFINE l == local[t]
           p == IF Grantable(lock[prev[local[t].n]], FALSE) THEN "look" ELSE "yield"
<1>0. Known(t)
    BY Knows
<1>1. l.pc = "prev" /\ l.n \in Members \cup {TAIL} /\ l.n \in Nodes
      /\ prev[l.n] \in Members \cup {HEAD} /\ prev[l.n] # l.n /\ Members \subseteq Elems
    <2>1. l.pc = "prev"
        BY DEF PrevElem, At
    <2>2. QED
        BY <2>1, BackwardNode, Neighbours
<1>2. /\ l.pc = "prev" /\ t \in lock[l.n].own /\ lock' = Request(lock, prev[l.n], t, FALSE)
      /\ Now(t, p, l.n, prev[l.n], l.el, l.pinned, l.then)
      /\ UNCHANGED <<prog, links, ref, count, signal, iter, mine>>
    <2>1. FindAt(t, l.n, prev[l.n], p) /\ p \in Pcs /\ l.n \in Nodes
             /\ prev[l.n] \in Nodes \cup {NULL}
        BY <1>0, <1>1 DEF PrevElem, Known, TypeOK, Pcs, SearchPcs, PairPcs, OffPcs, InsPcs, Nodes
    <2>2. QED
        BY <1>0, <2>1, FindAtNow DEF Known, PrevElem, At, Owns, Nodes
<1>3. Others(t) /\ next' = next /\ prev' = prev /\ cur' = cur
    BY <1>2 DEF Others, Now, links, iter
<1>4. Fresh(t, prev[l.n]) /\ prev[l.n] \in Elems
    BY <1>2, <1>1, FreshNeighbour
<1>5. LocalOK(t)'
    BY <1>0, <1>2, <1>3, <1>1, AtomicListAssumption
       DEF Known, Nodes, LocalOK, Now, Calls, Call, Inserts, SearchPcs, PairPcs, InsPcs, Moving,
           iter
<1>6. Steady(t) /\ Calm(t)
    BY <1>0, <1>2, <1>3 DEF Known, Steady, Calm, Now, Removing, Inserting, Claims, Counting, PinsEl,
       LocalOK, Calls, Call, Inserts, SearchPcs, PairPcs, InsPcs, OffPcs, Moving
<1>7. LockInv' /\ lock' \in [Nodes -> LockRec] /\ OwnersKept(t)
    <2>1. PICK a \in Nodes : a = prev[l.n] /\ Fresh(t, a)
        BY <1>4 DEF Fresh
    <2>2. ~Must(t, a) /\ ~May(t, a)
        BY <1>0, <1>2, <1>3, <1>4, <2>1, <1>1 DEF Known, LocalOK, Must, May
    <2>3. (Must(t, a)' \/ May(t, a)') /\ (Must(t, a)' => Grantable(lock[a], FALSE))
        BY <1>0, <1>2, <1>3, <1>4, <2>1, <1>1 DEF Known, LocalOK, Now, Must, May
    <2>4. GoesOn(t, {a})
        BY <1>0, <1>2, <1>3, <1>4, <2>1, <1>1
           DEF Known, GoesOn, LockOK, Now, Must, May, Owns, LocalOK
    <2>5. XMode(t)' = FALSE /\ (XMode(t) = FALSE \/ \A m \in Nodes : ~Must(t, m) /\ ~May(t, m))
        BY <1>0, <1>2 DEF XMode, Now, PairPcs, OffPcs, InsPcs, Must, May
    <2>6. EndOK(t)' /\ l.pc # "clearyield"
        BY <1>2 DEF EndOK, Now
    <2>7. QED
        BY <1>2, <1>3, <2>1, <2>2, <2>3, <2>4, <2>5, <2>6, OneRequest
<1>8. Members' = Members
    BY <1>2, <1>3, <1>6, SteadyMembers
<1>9. NearOK(t)'
    BY <1>0, <1>2, <1>3, <1>8, <1>1, <1>4 DEF Known, NearOK, Now, Anchored, OnList, PairPcs,
                                              Inserts, Calls, Call, Fresh, Pinnable
<1>10. TypeOK'
    BY <1>0, <1>2, <1>7 DEF Known, TypeOK, Now, links, iter
<1>11. (\A f \in Elems : Pins(t, f)' = Pins(t, f)) /\ InsertsAlone(t)
    <2>1. \A f \in Elems :
             /\ Holds(t, "cur", f)' <=> Holds(t, "cur", f)
             /\ Holds(t, "pinned", f)' <=> Holds(t, "pinned", f)
             /\ Holds(t, "x", f)' <=> Holds(t, "x", f)
             /\ Holds(t, "el", f)' <=> Holds(t, "el", f)
        BY <1>0, <1>2, <1>3, AtomicListAssumption
           DEF Known, Nodes, Holds, Now, PinsEl, LocalOK, Calls, Call, Inserts,
       SearchPcs, PairPcs, InsPcs, Moving, iter
    <2>2. \A f \in Elems : Pins(t, f)' = Pins(t, f)
        BY <2>1 DEF Pins, One
    <2>3. InsertsAlone(t)
        BY <1>2, <2>1 DEF InsertsAlone, Kinds, Inserting, PairPcs
    <2>4. QED
        BY <2>2, <2>3
<1>12. QED
    BY <1>2, <1>3, <1>5, <1>9, <1>6, <1>7, <1>10, <1>11, QuietStep

(* PrevElem preserves IInv. *)
LEMMA PrevElemStep ==
    ASSUME IInv, NEW t \in Threads, PrevElem(t)
    PROVE  IInv'
BY PrevElemEnd, PrevElemPin, PrevElemAsk

(* PrevRelock preserves IInv. *)
LEMMA PrevRelockStep ==
    ASSUME IInv, NEW t \in Threads, PrevRelock(t)
    PROVE  IInv'
<1> DEFINE l == local[t]
<1>0. Known(t)
    BY Knows
<1>1. /\ l.pc = "relock" /\ Now(t, "look", l.n, l.x, l.el, l.pinned, l.then)
      /\ lock' = Request(lock, l.n, t, FALSE) /\ t \in lock[l.x].own
      /\ UNCHANGED <<prog, links, ref, count, signal, iter, mine>>
    <2>1. Goto(t, "look") /\ "look" \in Pcs
        BY DEF PrevRelock, Pcs, SearchPcs, PairPcs, OffPcs, InsPcs
    <2>2. QED
        BY <1>0, <2>1, GotoNow DEF Known, PrevRelock, At, Owns
<1>2. Others(t) /\ next' = next /\ prev' = prev /\ cur' = cur
    BY <1>1 DEF Others, Now, links, iter
<1>3. Fresh(t, l.n)
    BY <1>1, BackwardNode
<1>4. LocalOK(t)'
    BY <1>0, <1>1, <1>2, AtomicListAssumption
       DEF Known, Nodes, LocalOK, Now, Calls, Call, Inserts, SearchPcs, PairPcs, InsPcs, Moving,
           iter
<1>5. Steady(t) /\ Calm(t)
    BY <1>0, <1>1, <1>2 DEF Known, Steady, Calm, Now, Removing, Inserting, Claims, Counting, PinsEl,
       LocalOK, Calls, Call, Inserts, SearchPcs, PairPcs, InsPcs, OffPcs, Moving
<1>6. LockInv' /\ lock' \in [Nodes -> LockRec] /\ OwnersKept(t)
    <2>1. PICK a \in Nodes : a = l.n /\ Fresh(t, a)
        BY <1>3 DEF Fresh
    <2>2. ~Must(t, a) /\ ~May(t, a)
        BY <1>0, <1>1, <1>2, <1>3, <2>1 DEF Known, LocalOK, Must, May
    <2>3. (Must(t, a)' \/ May(t, a)') /\ (Must(t, a)' => Grantable(lock[a], FALSE))
        BY <1>0, <1>1, <1>2, <1>3, <2>1 DEF Known, LocalOK, Now, Must, May
    <2>4. GoesOn(t, {a})
        BY <1>0, <1>1, <1>2, <1>3, <2>1 DEF Known, GoesOn, LockOK, Now, Must, May, Owns, LocalOK
    <2>5. XMode(t)' = FALSE /\ (XMode(t) = FALSE \/ \A m \in Nodes : ~Must(t, m) /\ ~May(t, m))
        BY <1>0, <1>1 DEF XMode, Now, PairPcs, OffPcs, InsPcs, Must, May
    <2>6. EndOK(t)' /\ l.pc # "clearyield"
        BY <1>1 DEF EndOK, Now
    <2>7. QED
        BY <1>1, <1>2, <2>1, <2>2, <2>3, <2>4, <2>5, <2>6, OneRequest
<1>7. Members' = Members
    BY <1>1, <1>2, <1>5, SteadyMembers
<1>8. NearOK(t)'
    BY <1>0, <1>1, <1>2, <1>7 DEF Known, NearOK, Now, Anchored, OnList, PairPcs, Inserts, Calls,
                                  Call
<1>9. TypeOK'
    BY <1>0, <1>1, <1>6 DEF Known, TypeOK, Now, links, iter
<1>10. (\A f \in Elems : Pins(t, f)' = Pins(t, f)) /\ InsertsAlone(t)
    <2>1. \A f \in Elems :
             /\ Holds(t, "cur", f)' <=> Holds(t, "cur", f)
             /\ Holds(t, "pinned", f)' <=> Holds(t, "pinned", f)
             /\ Holds(t, "x", f)' <=> Holds(t, "x", f)
             /\ Holds(t, "el", f)' <=> Holds(t, "el", f)
        BY <1>0, <1>1, <1>2, AtomicListAssumption
           DEF Known, Nodes, Holds, Now, PinsEl, LocalOK, Calls, Call, Inserts,
       SearchPcs, PairPcs, InsPcs, Moving, iter
    <2>2. \A f \in Elems : Pins(t, f)' = Pins(t, f)
        BY <2>1 DEF Pins, One
    <2>3. InsertsAlone(t)
        BY <1>1, <2>1 DEF InsertsAlone, Kinds, Inserting, PairPcs
    <2>4. QED
        BY <2>2, <2>3
<1>11. QED
    BY <1>1, <1>2, <1>4, <1>8, <1>5, <1>6, <1>9, <1>10, QuietStep

(* The list has changed. *)
LEMMA PrevLookChanged ==
    ASSUME IInv, NEW t \in Threads, PrevLook(t), prev[local[t].n] # local[t].x
    PROVE  IInv'
<1> DEFINE l == local[t]
<1>0. Known(t)
    BY Knows
<1>1. l.pc = "look" /\ l.n \in Members \cup {TAIL} /\ l.n \in Nodes /\ l.x \in Elems /\ l.x # l.n
      /\ t \in lock[l.x].own /\ ref[l.x].mask
    <2>1. l.pc = "look"
        BY DEF PrevLook, At
    <2>2. l.x \in Elems /\ l.x # l.n /\ ref[l.x].mask
        BY <1>0, <2>1 DEF Known, LocalOK, NearOK
    <2>3. t \in lock[l.x].own
        BY <1>0, <2>1, <2>2 DEF Known, LockOK, Must, Nodes
    <2>4. QED
        BY <2>1, <2>2, <2>3, BackwardNode
<1>2. /\ l.pc = "look" /\ Now(t, "prev", l.n, l.x, l.el, l.pinned, l.then)
      /\ lock' = Unlock(lock, l.x, t) /\ t \in lock[l.n].own
      /\ UNCHANGED <<prog, links, ref, count, signal, iter, mine>>
    <2>1. Goto(t, "prev") /\ "prev" \in Pcs
        BY DEF PrevLook, Pcs, SearchPcs, PairPcs, OffPcs, InsPcs
    <2>2. QED
        BY <1>0, <2>1, GotoNow DEF Known, PrevLook, At, Owns
<1>3. Others(t) /\ next' = next /\ prev' = prev /\ cur' = cur
    BY <1>2 DEF Others, Now, links, iter
<1>4. LocalOK(t)'
    BY <1>0, <1>2, <1>3, AtomicListAssumption
       DEF Known, Nodes, LocalOK, Now, Calls, Call, Inserts, SearchPcs, PairPcs, InsPcs, Moving,
           iter
<1>5. Steady(t) /\ Calm(t)
    BY <1>0, <1>2, <1>3 DEF Known, Steady, Calm, Now, Removing, Inserting, Claims, Counting, PinsEl,
       LocalOK, Calls, Call, Inserts, SearchPcs, PairPcs, InsPcs, OffPcs, Moving
<1>6. LockInv' /\ lock' \in [Nodes -> LockRec] /\ OwnersKept(t)
    <2>1. l.x \in Nodes /\ t \in lock[l.x].own
        BY <1>0, <1>2, <1>1 DEF Known, LocalOK, LockOK, Must, Owns, SearchPcs, PairPcs, InsPcs,
                                Nodes
    <2>2. PICK a \in Nodes : a = l.x
        BY <2>1
    <2>3. ~Must(t, a)' /\ ~May(t, a)'
        BY <1>0, <1>2, <1>3, <2>2, <1>1 DEF Known, LocalOK, Now, Must, May
    <2>4. GoesOn(t, {a})
        BY <1>0, <1>2, <1>3, <2>2, <1>1 DEF Known, GoesOn, LockOK, Now, Must, May, Owns, LocalOK
    <2>5. XMode(t)' = XMode(t) /\ EndOK(t)' /\ l.pc # "clearyield"
        BY <1>2 DEF XMode, EndOK, Now, PairPcs, OffPcs, InsPcs
    <2>6. QED
        BY <1>2, <1>3, <2>1, <2>2, <2>3, <2>4, <2>5, OneUnlock
<1>7. Members' = Members
    BY <1>2, <1>3, <1>5, SteadyMembers
<1>8. NearOK(t)'
    BY <1>0, <1>2, <1>3, <1>7 DEF Known, NearOK, Now, Anchored, OnList, PairPcs, Inserts, Calls,
                                  Call
<1>9. TypeOK'
    BY <1>0, <1>2, <1>6 DEF Known, TypeOK, Now, links, iter
<1>10. (\A f \in Elems : Pins(t, f)' = Pins(t, f)) /\ InsertsAlone(t)
    <2>1. \A f \in Elems :
             /\ Holds(t, "cur", f)' <=> Holds(t, "cur", f)
             /\ Holds(t, "pinned", f)' <=> Holds(t, "pinned", f)
             /\ Holds(t, "x", f)' <=> Holds(t, "x", f)
             /\ Holds(t, "el", f)' <=> Holds(t, "el", f)
        BY <1>0, <1>2, <1>3, AtomicListAssumption
           DEF Known, Nodes, Holds, Now, PinsEl, LocalOK, Calls, Call, Inserts,
       SearchPcs, PairPcs, InsPcs, Moving, iter
    <2>2. \A f \in Elems : Pins(t, f)' = Pins(t, f)
        BY <2>1 DEF Pins, One
    <2>3. InsertsAlone(t)
        BY <1>2, <2>1 DEF InsertsAlone, Kinds, Inserting, PairPcs
    <2>4. QED
        BY <2>2, <2>3
<1>11. QED
    BY <1>2, <1>3, <1>4, <1>8, <1>5, <1>6, <1>9, <1>10, QuietStep

(* The masked element is pinned. *)
LEMMA PrevLookPin ==
    ASSUME IInv, NEW t \in Threads, PrevLook(t), prev[local[t].n] = local[t].x,
           ref[local[t].x].pin > 0
    PROVE  IInv'
<1> DEFINE l == local[t]
<1>0. Known(t)
    BY Knows
<1>1. l.pc = "look" /\ l.n \in Members \cup {TAIL} /\ l.n \in Nodes /\ l.x \in Elems /\ l.x # l.n
      /\ t \in lock[l.x].own /\ ref[l.x].mask
    <2>1. l.pc = "look"
        BY DEF PrevLook, At
    <2>2. l.x \in Elems /\ l.x # l.n /\ ref[l.x].mask
        BY <1>0, <2>1 DEF Known, LocalOK, NearOK
    <2>3. t \in lock[l.x].own
        BY <1>0, <2>1, <2>2 DEF Known, LockOK, Must, Nodes
    <2>4. QED
        BY <2>1, <2>2, <2>3, BackwardNode
<1>2. /\ l.pc = "look" /\ Now(t, "cross", l.n, l.x, l.el, l.pinned, l.then)
      /\ lock' = lock /\ t \in lock[l.n].own /\ Pin(l.x)
      /\ UNCHANGED <<prog, links, count, signal, iter, mine>>
    <2>1. Goto(t, "cross") /\ "cross" \in Pcs
        BY DEF PrevLook, Pcs, SearchPcs, PairPcs, OffPcs, InsPcs
    <2>2. QED
        BY <1>0, <2>1, GotoNow DEF Known, PrevLook, At, Owns
<1>3. Others(t) /\ next' = next /\ prev' = prev /\ cur' = cur
    BY <1>2 DEF Others, Now, links, iter
<1>4. ref'[l.x].mask
    BY <1>0, <1>2, <1>1 DEF Known, TypeOK, Pin
<1>5. PICK e \in Elems : e = l.x /\ OnList(e) /\ ref[e].pin > 0 /\ Uninserted(t, e) /\ Pin(e)
    <2>1. l.x \in Members /\ OnList(l.x)
        BY <1>1, Neighbours, AtomicListAssumption DEF Members
    <2>2. \A w \in Threads : Inserting(w) /\ local[w].el = l.x => local[w].pc = "expose"
        BY <2>1, Here DEF ClaimOK
    <2>3. \A w \in Threads : local[w].pc = "expose" => lock[local[w].el] = Free
        BY Here DEF EndOK
    <2>4. Uninserted(t, l.x)
        BY <1>1, <2>2, <2>3 DEF Uninserted, Free
    <2>5. QED
        BY <1>2, <1>1, <2>1, <2>4
<1>6. LocalOK(t)'
    BY <1>0, <1>2, <1>3, AtomicListAssumption
       DEF Known, Nodes, LocalOK, Now, Calls, Call, Inserts, SearchPcs, PairPcs, InsPcs, Moving,
           iter
<1>7. Steady(t) /\ Calm(t)
    BY <1>0, <1>2, <1>3 DEF Known, Steady, Calm, Now, Removing, Inserting, Claims, Counting, PinsEl,
       LocalOK, Calls, Call, Inserts, SearchPcs, PairPcs, InsPcs, OffPcs, Moving
<1>8. LockInv' /\ lock' \in [Nodes -> LockRec] /\ OwnersKept(t)
    <2>1. GoesOn(t, {})
        BY <1>0, <1>2, <1>3, <1>1 DEF Known, GoesOn, LockOK, Now, Must, May, Owns, LocalOK
    <2>2. (XMode(t)' = XMode(t) \/ \A m \in Nodes : ~Must(t, m) /\ ~May(t, m)) /\ EndOK(t)'
          /\ l.pc # "clearyield"
        BY <1>2 DEF XMode, EndOK, Now, PairPcs, OffPcs, InsPcs, Must, May
    <2>3. QED
        BY <1>2, <1>3, <2>1, <2>2, NoRequest
<1>9. Members' = Members
    BY <1>2, <1>3, <1>7, SteadyMembers
<1>10. NearOK(t)'
    BY <1>0, <1>2, <1>3, <1>9, <1>1, <1>4 DEF Known, NearOK, Now, Anchored, OnList, PairPcs,
                                              Inserts, Calls, Call
<1>11. TypeOK'
    <2>1. ref' \in [Elems -> [mask : BOOLEAN, pin : Nat, wait : SUBSET Threads]]
        BY <1>0, <1>5, PinType DEF Known
    <2>2. QED
        BY <1>0, <1>2, <1>8, <2>1 DEF Known, TypeOK, Now, links, iter
<1>12. (\A f \in Elems : Pins(t, f)' = Pins(t, f) + One(f = e)) /\ ~Inserting(t)
    BY <1>0, <1>2, <1>3, <1>5, AtomicListAssumption
       DEF Known, One, Inserting, Nodes, Pins, Holds, Now, PinsEl, LocalOK, Calls, Call, Inserts,
       SearchPcs, PairPcs, InsPcs, Moving, iter
<1>13. QED
    BY <1>2, <1>3, <1>5, <1>6, <1>10, <1>7, <1>8, <1>11, <1>12, PinStep DEF InsertsAlone

(* Its removal has begun. *)
LEMMA PrevLookDefer ==
    ASSUME IInv, NEW t \in Threads, PrevLook(t), prev[local[t].n] = local[t].x,
           ~(ref[local[t].x].pin > 0)
    PROVE  IInv'
<1> DEFINE l == local[t]
<1>0. Known(t)
    BY Knows
<1>1. l.pc = "look" /\ l.n \in Members \cup {TAIL} /\ l.n \in Nodes /\ l.x \in Elems /\ l.x # l.n
      /\ t \in lock[l.x].own /\ ref[l.x].mask
    <2>1. l.pc = "look"
        BY DEF PrevLook, At
    <2>2. l.x \in Elems /\ l.x # l.n /\ ref[l.x].mask
        BY <1>0, <2>1 DEF Known, LocalOK, NearOK
    <2>3. t \in lock[l.x].own
        BY <1>0, <2>1, <2>2 DEF Known, LockOK, Must, Nodes
    <2>4. QED
        BY <2>1, <2>2, <2>3, BackwardNode
<1>2. /\ l.pc = "look" /\ Now(t, "defer", l.n, l.x, l.el, l.pinned, l.then)
      /\ lock' = Unlock(lock, l.n, t) /\ t \in lock[l.n].own
      /\ UNCHANGED <<prog, links, ref, count, signal, iter, mine>>
    <2>1. Goto(t, "defer") /\ "defer" \in Pcs
        BY DEF PrevLook, Pcs, SearchPcs, PairPcs, OffPcs, InsPcs
    <2>2. QED
        BY <1>0, <2>1, GotoNow DEF Known, PrevLook, At, Owns
<1>3. Others(t) /\ next' = next /\ prev' = prev /\ cur' = cur
    BY <1>2 DEF Others, Now, links, iter
<1>4. l.x \in Members /\ ref[l.x].pin = 0
    <2>1. l.x \in Members
        BY <1>1, Neighbours, AtomicListAssumption
    <2>2. ref[l.x].pin \in Nat
        BY <1>0, <1>1 DEF Known, TypeOK
    <2>3. QED
        BY <2>1, <2>2
<1>5. LocalOK(t)'
    BY <1>0, <1>2, <1>3, AtomicListAssumption
       DEF Known, Nodes, LocalOK, Now, Calls, Call, Inserts, SearchPcs, PairPcs, InsPcs, Moving,
           iter
<1>6. Steady(t) /\ Calm(t)
    BY <1>0, <1>2, <1>3 DEF Known, Steady, Calm, Now, Removing, Inserting, Claims, Counting, PinsEl,
       LocalOK, Calls, Call, Inserts, SearchPcs, PairPcs, InsPcs, OffPcs, Moving
<1>7. LockInv' /\ lock' \in [Nodes -> LockRec] /\ OwnersKept(t)
    <2>1. l.n \in Nodes /\ t \in lock[l.n].own
        BY <1>0, <1>2, <1>1 DEF Known, LocalOK, LockOK, Must, Owns, SearchPcs, PairPcs, InsPcs,
                                Nodes
    <2>2. PICK a \in Nodes : a = l.n
        BY <2>1
    <2>3. ~Must(t, a)' /\ ~May(t, a)'
        BY <1>0, <1>2, <1>3, <2>2, <1>1 DEF Known, LocalOK, Now, Must, May
    <2>4. GoesOn(t, {a})
        BY <1>0, <1>2, <1>3, <2>2, <1>1 DEF Known, GoesOn, LockOK, Now, Must, May, Owns, LocalOK
    <2>5. XMode(t)' = XMode(t) /\ EndOK(t)' /\ l.pc # "clearyield"
        BY <1>2 DEF XMode, EndOK, Now, PairPcs, OffPcs, InsPcs
    <2>6. QED
        BY <1>2, <1>3, <2>1, <2>2, <2>3, <2>4, <2>5, OneUnlock
<1>8. Members' = Members
    BY <1>2, <1>3, <1>6, SteadyMembers
<1>9. NearOK(t)'
    BY <1>0, <1>2, <1>3, <1>8, <1>4 DEF Known, NearOK, Now, Anchored, OnList, PairPcs, Inserts,
                                        Calls, Call
<1>10. TypeOK'
    BY <1>0, <1>2, <1>7 DEF Known, TypeOK, Now, links, iter
<1>11. (\A f \in Elems : Pins(t, f)' = Pins(t, f)) /\ InsertsAlone(t)
    <2>1. \A f \in Elems :
             /\ Holds(t, "cur", f)' <=> Holds(t, "cur", f)
             /\ Holds(t, "pinned", f)' <=> Holds(t, "pinned", f)
             /\ Holds(t, "x", f)' <=> Holds(t, "x", f)
             /\ Holds(t, "el", f)' <=> Holds(t, "el", f)
        BY <1>0, <1>2, <1>3, AtomicListAssumption
           DEF Known, Nodes, Holds, Now, PinsEl, LocalOK, Calls, Call, Inserts,
       SearchPcs, PairPcs, InsPcs, Moving, iter
    <2>2. \A f \in Elems : Pins(t, f)' = Pins(t, f)
        BY <2>1 DEF Pins, One
    <2>3. InsertsAlone(t)
        BY <1>2, <2>1 DEF InsertsAlone, Kinds, Inserting, PairPcs
    <2>4. QED
        BY <2>2, <2>3
<1>12. QED
    BY <1>2, <1>3, <1>5, <1>9, <1>6, <1>7, <1>10, <1>11, QuietStep

(* PrevLook preserves IInv. *)
LEMMA PrevLookStep ==
    ASSUME IInv, NEW t \in Threads, PrevLook(t)
    PROVE  IInv'
BY PrevLookChanged, PrevLookPin, PrevLookDefer

(* From an element, the lock of the next one is kept. *)
LEMMA PrevCrossElem ==
    ASSUME IInv, NEW t \in Threads, PrevCross(t), local[t].n # TAIL
    PROVE  IInv'
<1> DEFINE l == local[t]
<1>0. Known(t)
    BY Knows
<1>1. /\ l.pc = "cross" /\ Now(t, "crossed", l.n, l.x, l.el, l.pinned, l.then)
      /\ lock' = Unlock(lock, l.n, t)
      /\ UNCHANGED <<prog, links, ref, count, signal, iter, mine>>
    <2>1. Goto(t, "crossed") /\ "crossed" \in Pcs
        BY DEF PrevCross, Pcs, SearchPcs, PairPcs, OffPcs, InsPcs
    <2>2. QED
        BY <1>0, <2>1, GotoNow DEF Known, PrevCross, At, Owns
<1>2. Others(t) /\ next' = next /\ prev' = prev /\ cur' = cur
    BY <1>1 DEF Others, Now, links, iter
<1>3. LocalOK(t)'
    BY <1>0, <1>1, <1>2, AtomicListAssumption
       DEF Known, Nodes, LocalOK, Now, Calls, Call, Inserts, SearchPcs, PairPcs, InsPcs, Moving,
           iter
<1>4. Steady(t) /\ Calm(t)
    BY <1>0, <1>1, <1>2 DEF Known, Steady, Calm, Now, Removing, Inserting, Claims, Counting, PinsEl,
       LocalOK, Calls, Call, Inserts, SearchPcs, PairPcs, InsPcs, OffPcs, Moving
<1>5. LockInv' /\ lock' \in [Nodes -> LockRec] /\ OwnersKept(t)
    <2>1. l.n \in Nodes /\ t \in lock[l.n].own
        BY <1>0, <1>1 DEF Known, LocalOK, LockOK, Must, Owns, SearchPcs, PairPcs, InsPcs, Nodes
    <2>2. PICK a \in Nodes : a = l.n
        BY <2>1
    <2>3. ~Must(t, a)' /\ ~May(t, a)'
        BY <1>0, <1>1, <1>2, <2>2 DEF Known, LocalOK, Now, Must, May
    <2>4. GoesOn(t, {a})
        BY <1>0, <1>1, <1>2, <2>2 DEF Known, GoesOn, LockOK, Now, Must, May, Owns, LocalOK
    <2>5. XMode(t)' = XMode(t) /\ EndOK(t)' /\ l.pc # "clearyield"
        BY <1>1 DEF XMode, EndOK, Now, PairPcs, OffPcs, InsPcs
    <2>6. QED
        BY <1>1, <1>2, <2>1, <2>2, <2>3, <2>4, <2>5, OneUnlock
<1>6. Members' = Members
    BY <1>1, <1>2, <1>4, SteadyMembers
<1>7. NearOK(t)'
    BY <1>0, <1>1, <1>2, <1>6 DEF Known, NearOK, Now, Anchored, OnList, PairPcs, Inserts, Calls,
                                  Call
<1>8. TypeOK'
    BY <1>0, <1>1, <1>5 DEF Known, TypeOK, Now, links, iter
<1>9. (\A f \in Elems : Pins(t, f)' = Pins(t, f)) /\ InsertsAlone(t)
    <2>1. \A f \in Elems :
             /\ Holds(t, "cur", f)' <=> Holds(t, "cur", f)
             /\ Holds(t, "pinned", f)' <=> Holds(t, "pinned", f)
             /\ Holds(t, "x", f)' <=> Holds(t, "x", f)
             /\ Holds(t, "el", f)' <=> Holds(t, "el", f)
        BY <1>0, <1>1, <1>2, AtomicListAssumption
           DEF Known, Nodes, Holds, Now, PinsEl, LocalOK, Calls, Call, Inserts,
       SearchPcs, PairPcs, InsPcs, Moving, iter
    <2>2. \A f \in Elems : Pins(t, f)' = Pins(t, f)
        BY <2>1 DEF Pins, One
    <2>3. InsertsAlone(t)
        BY <1>1, <2>1 DEF InsertsAlone, Kinds, Inserting, PairPcs
    <2>4. QED
        BY <2>2, <2>3
<1>10. QED
    BY <1>1, <1>2, <1>3, <1>7, <1>4, <1>5, <1>8, <1>9, QuietStep

(* From the tail, both locks are given up. *)
LEMMA PrevCrossTail ==
    ASSUME IInv, NEW t \in Threads, PrevCross(t), local[t].n = TAIL
    PROVE  IInv'
<1> DEFINE l == local[t]
<1>0. Known(t)
    BY Knows
<1>1. /\ l.pc = "cross" /\ Now(t, "crossed", l.n, l.x, l.el, l.pinned, l.then)
      /\ lock' = Unlock(Unlock(lock, l.n, t), l.x, t)
      /\ UNCHANGED <<prog, links, ref, count, signal, iter, mine>>
    <2>1. Goto(t, "crossed") /\ "crossed" \in Pcs
        BY DEF PrevCross, Pcs, SearchPcs, PairPcs, OffPcs, InsPcs
    <2>2. QED
        BY <1>0, <2>1, GotoNow DEF Known, PrevCross, At, Owns
<1>2. Others(t) /\ next' = next /\ prev' = prev /\ cur' = cur
    BY <1>1 DEF Others, Now, links, iter
<1>3. LocalOK(t)'
    BY <1>0, <1>1, <1>2, AtomicListAssumption
       DEF Known, Nodes, LocalOK, Now, Calls, Call, Inserts, SearchPcs, PairPcs, InsPcs, Moving,
           iter
<1>4. Steady(t) /\ Calm(t)
    BY <1>0, <1>1, <1>2 DEF Known, Steady, Calm, Now, Removing, Inserting, Claims, Counting, PinsEl,
       LocalOK, Calls, Call, Inserts, SearchPcs, PairPcs, InsPcs, OffPcs, Moving
<1>5. LockInv' /\ lock' \in [Nodes -> LockRec] /\ OwnersKept(t)
    <2>1. l.n \in Nodes /\ l.x \in Nodes /\ l.x # l.n
        BY <1>0, <1>1 DEF Known, LocalOK, SearchPcs, Nodes
    <2>2. PICK S \in SUBSET Nodes : S = {l.n, l.x}
        BY <2>1
    <2>3. lock' = [m \in Nodes |-> IF m \in S THEN Unlocked(lock[m], t) ELSE lock[m]]
        BY <1>0, <1>1, <2>1, <2>2 DEF Known, TypeOK, Unlock
    <2>4. \A a \in S : t \in lock[a].own /\ ~Must(t, a)' /\ ~May(t, a)' /\ ~Queued(t, lock[a])
        BY <1>0, <1>1, <2>1, <2>2 DEF Known, LockOK, Must, May, Now, At
    <2>5. \A m \in Nodes \ S : ~Must(t, m)' /\ ~May(t, m)' /\ ~Must(t, m) /\ ~May(t, m)
        BY <1>1, <2>2 DEF Must, May, Now
    <2>6. XMode(t)' = XMode(t) /\ EndOK(t)' /\ ~At(t, "clearyield")
        BY <1>1 DEF XMode, EndOK, Now, At, PairPcs, OffPcs, InsPcs
    <2>7. QED
        BY <1>0, <1>1, <1>2, <2>3, <2>4, <2>5, <2>6, SameLinks, LocksUnlocked DEF Known
<1>6. Members' = Members
    BY <1>1, <1>2, <1>4, SteadyMembers
<1>7. NearOK(t)'
    BY <1>0, <1>1, <1>2, <1>6 DEF Known, NearOK, Now, Anchored, OnList, PairPcs, Inserts, Calls,
                                  Call
<1>8. TypeOK'
    BY <1>0, <1>1, <1>5 DEF Known, TypeOK, Now, links, iter
<1>9. (\A f \in Elems : Pins(t, f)' = Pins(t, f)) /\ InsertsAlone(t)
    <2>1. \A f \in Elems :
             /\ Holds(t, "cur", f)' <=> Holds(t, "cur", f)
             /\ Holds(t, "pinned", f)' <=> Holds(t, "pinned", f)
             /\ Holds(t, "x", f)' <=> Holds(t, "x", f)
             /\ Holds(t, "el", f)' <=> Holds(t, "el", f)
        BY <1>0, <1>1, <1>2, AtomicListAssumption
           DEF Known, Nodes, Holds, Now, PinsEl, LocalOK, Calls, Call, Inserts,
       SearchPcs, PairPcs, InsPcs, Moving, iter
    <2>2. \A f \in Elems : Pins(t, f)' = Pins(t, f)
        BY <2>1 DEF Pins, One
    <2>3. InsertsAlone(t)
        BY <1>1, <2>1 DEF InsertsAlone, Kinds, Inserting, PairPcs
    <2>4. QED
        BY <2>2, <2>3
<1>10. QED
    BY <1>1, <1>2, <1>3, <1>7, <1>4, <1>5, <1>8, <1>9, QuietStep

(* PrevCross preserves IInv. *)
LEMMA PrevCrossStep ==
    ASSUME IInv, NEW t \in Threads, PrevCross(t)
    PROVE  IInv'
BY PrevCrossElem, PrevCrossTail

(* Pair preserves IInv. *)
LEMMA PairStep ==
    ASSUME IInv, NEW t \in Threads, Pair(t)
    PROVE  IInv'
<1> DEFINE l == local[t]
           p == IF Grantable(lock[prev[local[t].n]], TRUE) THEN "paired" ELSE "pairyield"
<1>0. Known(t)
    BY Knows
<1>1. l.pc = "pair" /\ l.n \in Members \cup {TAIL} /\ l.n \in Nodes
      /\ prev[l.n] \in Members \cup {HEAD} /\ prev[l.n] # l.n /\ Members \subseteq Elems
    <2>1. l.pc = "pair"
        BY DEF Pair, At
    <2>2. QED
        BY <2>1, PairNode, Neighbours DEF PairPcs
<1>2. /\ l.pc = "pair" /\ t \in lock[l.n].own /\ lock' = Request(lock, prev[l.n], t, TRUE)
      /\ Now(t, p, l.n, prev[l.n], l.el, l.pinned, l.then)
      /\ UNCHANGED <<prog, links, ref, count, signal, iter, mine>>
    <2>1. FindAt(t, l.n, prev[l.n], p) /\ p \in Pcs /\ l.n \in Nodes
             /\ prev[l.n] \in Nodes \cup {NULL}
        BY <1>0, <1>1 DEF Pair, Known, TypeOK, Pcs, SearchPcs, PairPcs, OffPcs, InsPcs, Nodes
    <2>2. QED
        BY <1>0, <2>1, FindAtNow DEF Known, Pair, At, Owns, Nodes
<1>3. Others(t) /\ next' = next /\ prev' = prev /\ cur' = cur
    BY <1>2 DEF Others, Now, links, iter
<1>4. Fresh(t, prev[l.n])
    BY <1>2, <1>1, FreshNeighbour
<1>5. LocalOK(t)'
    BY <1>0, <1>2, <1>3, <1>1, AtomicListAssumption
       DEF Known, Nodes, LocalOK, Now, Calls, Call, Inserts, SearchPcs, PairPcs, InsPcs, Moving,
           iter
<1>6. Steady(t) /\ Calm(t)
    BY <1>0, <1>2, <1>3 DEF Known, Steady, Calm, Now, Removing, Inserting, Claims, Counting, PinsEl,
       LocalOK, Calls, Call, Inserts, SearchPcs, PairPcs, InsPcs, OffPcs, Moving
<1>7. LockInv' /\ lock' \in [Nodes -> LockRec] /\ OwnersKept(t)
    <2>1. PICK a \in Nodes : a = prev[l.n] /\ Fresh(t, a)
        BY <1>4 DEF Fresh
    <2>2. ~Must(t, a) /\ ~May(t, a)
        BY <1>0, <1>2, <1>3, <1>4, <2>1, <1>1 DEF Known, LocalOK, Must, May
    <2>3. (Must(t, a)' \/ May(t, a)') /\ (Must(t, a)' => Grantable(lock[a], TRUE))
        BY <1>0, <1>2, <1>3, <1>4, <2>1, <1>1 DEF Known, LocalOK, Now, Must, May
    <2>4. GoesOn(t, {a})
        BY <1>0, <1>2, <1>3, <1>4, <2>1, <1>1
           DEF Known, GoesOn, LockOK, Now, Must, May, Owns, LocalOK
    <2>5. XMode(t)' = TRUE /\ (XMode(t) = TRUE \/ \A m \in Nodes : ~Must(t, m) /\ ~May(t, m))
        BY <1>0, <1>2 DEF XMode, Now, PairPcs, OffPcs, InsPcs, Must, May
    <2>6. EndOK(t)' /\ l.pc # "clearyield"
        BY <1>2 DEF EndOK, Now
    <2>7. QED
        BY <1>2, <1>3, <2>1, <2>2, <2>3, <2>4, <2>5, <2>6, OneRequest
<1>8. Members' = Members
    BY <1>2, <1>3, <1>6, SteadyMembers
<1>9. NearOK(t)'
    BY <1>0, <1>2, <1>3, <1>8, <1>1, <1>4 DEF Known, NearOK, Now, Anchored, OnList, PairPcs,
                                              Inserts, Calls, Call
<1>10. TypeOK'
    BY <1>0, <1>2, <1>7 DEF Known, TypeOK, Now, links, iter
<1>11. (\A f \in Elems : Pins(t, f)' = Pins(t, f)) /\ InsertsAlone(t)
    <2>1. \A f \in Elems :
             /\ Holds(t, "cur", f)' <=> Holds(t, "cur", f)
             /\ Holds(t, "pinned", f)' <=> Holds(t, "pinned", f)
             /\ Holds(t, "x", f)' <=> Holds(t, "x", f)
             /\ Holds(t, "el", f)' <=> Holds(t, "el", f)
        BY <1>0, <1>2, <1>3, AtomicListAssumption
           DEF Known, Nodes, Holds, Now, PinsEl, LocalOK, Calls, Call, Inserts,
       SearchPcs, PairPcs, InsPcs, Moving, iter
    <2>2. \A f \in Elems : Pins(t, f)' = Pins(t, f)
        BY <2>1 DEF Pins, One
    <2>3. InsertsAlone(t)
        BY <1>2, <2>1 DEF InsertsAlone, Kinds, Inserting, PairPcs
    <2>4. QED
        BY <2>2, <2>3
<1>12. QED
    BY <1>2, <1>3, <1>5, <1>9, <1>6, <1>7, <1>10, <1>11, QuietStep

(* PairRelock preserves IInv. *)
LEMMA PairRelockStep ==
    ASSUME IInv, NEW t \in Threads, PairRelock(t)
    PROVE  IInv'
<1> DEFINE l == local[t]
<1>0. Known(t)
    BY Knows
<1>1. /\ l.pc = "pairrelock" /\ Now(t, "pairlook", l.n, l.x, l.el, l.pinned, l.then)
      /\ lock' = Request(lock, l.n, t, TRUE) /\ t \in lock[l.x].own
      /\ UNCHANGED <<prog, links, ref, count, signal, iter, mine>>
    <2>1. Goto(t, "pairlook") /\ "pairlook" \in Pcs
        BY DEF PairRelock, Pcs, SearchPcs, PairPcs, OffPcs, InsPcs
    <2>2. QED
        BY <1>0, <2>1, GotoNow DEF Known, PairRelock, At, Owns
<1>2. Others(t) /\ next' = next /\ prev' = prev /\ cur' = cur
    BY <1>1 DEF Others, Now, links, iter
<1>3. Fresh(t, l.n)
    BY <1>1, PairNode DEF PairPcs
<1>4. LocalOK(t)'
    BY <1>0, <1>1, <1>2, AtomicListAssumption
       DEF Known, Nodes, LocalOK, Now, Calls, Call, Inserts, SearchPcs, PairPcs, InsPcs, Moving,
           iter
<1>5. Steady(t) /\ Calm(t)
    BY <1>0, <1>1, <1>2 DEF Known, Steady, Calm, Now, Removing, Inserting, Claims, Counting, PinsEl,
       LocalOK, Calls, Call, Inserts, SearchPcs, PairPcs, InsPcs, OffPcs, Moving
<1>6. LockInv' /\ lock' \in [Nodes -> LockRec] /\ OwnersKept(t)
    <2>1. PICK a \in Nodes : a = l.n /\ Fresh(t, a)
        BY <1>3 DEF Fresh
    <2>2. ~Must(t, a) /\ ~May(t, a)
        BY <1>0, <1>1, <1>2, <1>3, <2>1 DEF Known, LocalOK, Must, May
    <2>3. (Must(t, a)' \/ May(t, a)') /\ (Must(t, a)' => Grantable(lock[a], TRUE))
        BY <1>0, <1>1, <1>2, <1>3, <2>1 DEF Known, LocalOK, Now, Must, May
    <2>4. GoesOn(t, {a})
        BY <1>0, <1>1, <1>2, <1>3, <2>1 DEF Known, GoesOn, LockOK, Now, Must, May, Owns, LocalOK
    <2>5. XMode(t)' = TRUE /\ (XMode(t) = TRUE \/ \A m \in Nodes : ~Must(t, m) /\ ~May(t, m))
        BY <1>0, <1>1 DEF XMode, Now, PairPcs, OffPcs, InsPcs, Must, May
    <2>6. EndOK(t)' /\ l.pc # "clearyield"
        BY <1>1 DEF EndOK, Now
    <2>7. QED
        BY <1>1, <1>2, <2>1, <2>2, <2>3, <2>4, <2>5, <2>6, OneRequest
<1>7. Members' = Members
    BY <1>1, <1>2, <1>5, SteadyMembers
<1>8. NearOK(t)'
    BY <1>0, <1>1, <1>2, <1>7 DEF Known, NearOK, Now, Anchored, OnList, PairPcs, Inserts, Calls,
                                  Call
<1>9. TypeOK'
    BY <1>0, <1>1, <1>6 DEF Known, TypeOK, Now, links, iter
<1>10. (\A f \in Elems : Pins(t, f)' = Pins(t, f)) /\ InsertsAlone(t)
    <2>1. \A f \in Elems :
             /\ Holds(t, "cur", f)' <=> Holds(t, "cur", f)
             /\ Holds(t, "pinned", f)' <=> Holds(t, "pinned", f)
             /\ Holds(t, "x", f)' <=> Holds(t, "x", f)
             /\ Holds(t, "el", f)' <=> Holds(t, "el", f)
        BY <1>0, <1>1, <1>2, AtomicListAssumption
           DEF Known, Nodes, Holds, Now, PinsEl, LocalOK, Calls, Call, Inserts,
       SearchPcs, PairPcs, InsPcs, Moving, iter
    <2>2. \A f \in Elems : Pins(t, f)' = Pins(t, f)
        BY <2>1 DEF Pins, One
    <2>3. InsertsAlone(t)
        BY <1>1, <2>1 DEF InsertsAlone, Kinds, Inserting, PairPcs
    <2>4. QED
        BY <2>2, <2>3
<1>11. QED
    BY <1>1, <1>2, <1>4, <1>8, <1>5, <1>6, <1>9, <1>10, QuietStep

(* The list has changed. *)
LEMMA PairLookChanged ==
    ASSUME IInv, NEW t \in Threads, PairLook(t), prev[local[t].n] # local[t].x
    PROVE  IInv'
<1> DEFINE l == local[t]
<1>0. Known(t)
    BY Knows
<1>1. /\ l.pc = "pairlook" /\ Now(t, "pair", l.n, l.x, l.el, l.pinned, l.then)
      /\ lock' = Unlock(lock, l.x, t) /\ t \in lock[l.n].own
      /\ UNCHANGED <<prog, links, ref, count, signal, iter, mine>>
    <2>1. Goto(t, "pair") /\ "pair" \in Pcs
        BY DEF PairLook, Pcs, SearchPcs, PairPcs, OffPcs, InsPcs
    <2>2. QED
        BY <1>0, <2>1, GotoNow DEF Known, PairLook, At, Owns
<1>2. Others(t) /\ next' = next /\ prev' = prev /\ cur' = cur
    BY <1>1 DEF Others, Now, links, iter
<1>3. LocalOK(t)'
    BY <1>0, <1>1, <1>2, AtomicListAssumption
       DEF Known, Nodes, LocalOK, Now, Calls, Call, Inserts, SearchPcs, PairPcs, InsPcs, Moving,
           iter
<1>4. Steady(t) /\ Calm(t)
    BY <1>0, <1>1, <1>2 DEF Known, Steady, Calm, Now, Removing, Inserting, Claims, Counting, PinsEl,
       LocalOK, Calls, Call, Inserts, SearchPcs, PairPcs, InsPcs, OffPcs, Moving
<1>5. LockInv' /\ lock' \in [Nodes -> LockRec] /\ OwnersKept(t)
    <2>1. l.x \in Nodes /\ t \in lock[l.x].own
        BY <1>0, <1>1 DEF Known, LocalOK, LockOK, Must, Owns, SearchPcs, PairPcs, InsPcs, Nodes
    <2>2. PICK a \in Nodes : a = l.x
        BY <2>1
    <2>3. ~Must(t, a)' /\ ~May(t, a)'
        BY <1>0, <1>1, <1>2, <2>2 DEF Known, LocalOK, Now, Must, May
    <2>4. GoesOn(t, {a})
        BY <1>0, <1>1, <1>2, <2>2 DEF Known, GoesOn, LockOK, Now, Must, May, Owns, LocalOK
    <2>5. XMode(t)' = XMode(t) /\ EndOK(t)' /\ l.pc # "clearyield"
        BY <1>1 DEF XMode, EndOK, Now, PairPcs, OffPcs, InsPcs
    <2>6. QED
        BY <1>1, <1>2, <2>1, <2>2, <2>3, <2>4, <2>5, OneUnlock
<1>6. Members' = Members
    BY <1>1, <1>2, <1>4, SteadyMembers
<1>7. NearOK(t)'
    BY <1>0, <1>1, <1>2, <1>6 DEF Known, NearOK, Now, Anchored, OnList, PairPcs, Inserts, Calls,
                                  Call
<1>8. TypeOK'
    BY <1>0, <1>1, <1>5 DEF Known, TypeOK, Now, links, iter
<1>9. (\A f \in Elems : Pins(t, f)' = Pins(t, f)) /\ InsertsAlone(t)
    <2>1. \A f \in Elems :
             /\ Holds(t, "cur", f)' <=> Holds(t, "cur", f)
             /\ Holds(t, "pinned", f)' <=> Holds(t, "pinned", f)
             /\ Holds(t, "x", f)' <=> Holds(t, "x", f)
             /\ Holds(t, "el", f)' <=> Holds(t, "el", f)
        BY <1>0, <1>1, <1>2, AtomicListAssumption
           DEF Known, Nodes, Holds, Now, PinsEl, LocalOK, Calls, Call, Inserts,
       SearchPcs, PairPcs, InsPcs, Moving, iter
    <2>2. \A f \in Elems : Pins(t, f)' = Pins(t, f)
        BY <2>1 DEF Pins, One
    <2>3. InsertsAlone(t)
        BY <1>1, <2>1 DEF InsertsAlone, Kinds, Inserting, PairPcs
    <2>4. QED
        BY <2>2, <2>3
<1>10. QED
    BY <1>1, <1>2, <1>3, <1>7, <1>4, <1>5, <1>8, <1>9, QuietStep

(* PairLook finds the list as it was. *)
LEMMA PairLookSame ==
    ASSUME IInv, NEW t \in Threads, PairLook(t), prev[local[t].n] = local[t].x
    PROVE  IInv'
<1> DEFINE l == local[t]
<1>0. Known(t)
    BY Knows
<1>1. /\ l.pc = "pairlook" /\ Now(t, "paired", l.n, l.x, l.el, l.pinned, l.then)
      /\ lock' = lock /\ t \in lock[l.n].own
      /\ UNCHANGED <<prog, links, ref, count, signal, iter, mine>>
    <2>1. Goto(t, "paired") /\ "paired" \in Pcs
        BY DEF PairLook, Pcs, SearchPcs, PairPcs, OffPcs, InsPcs
    <2>2. QED
        BY <1>0, <2>1, GotoNow DEF Known, PairLook, At, Owns
<1>2. Others(t) /\ next' = next /\ prev' = prev /\ cur' = cur
    BY <1>1 DEF Others, Now, links, iter
<1>3. LocalOK(t)'
    BY <1>0, <1>1, <1>2, AtomicListAssumption
       DEF Known, Nodes, LocalOK, Now, Calls, Call, Inserts, SearchPcs, PairPcs, InsPcs, Moving,
           iter
<1>4. Steady(t) /\ Calm(t)
    BY <1>0, <1>1, <1>2 DEF Known, Steady, Calm, Now, Removing, Inserting, Claims, Counting, PinsEl,
       LocalOK, Calls, Call, Inserts, SearchPcs, PairPcs, InsPcs, OffPcs, Moving
<1>5. LockInv' /\ lock' \in [Nodes -> LockRec] /\ OwnersKept(t)
    <2>1. GoesOn(t, {})
        BY <1>0, <1>1, <1>2 DEF Known, GoesOn, LockOK, Now, Must, May, Owns, LocalOK
    <2>2. (XMode(t)' = XMode(t) \/ \A m \in Nodes : ~Must(t, m) /\ ~May(t, m)) /\ EndOK(t)'
          /\ l.pc # "clearyield"
        BY <1>1 DEF XMode, EndOK, Now, PairPcs, OffPcs, InsPcs, Must, May
    <2>3. QED
        BY <1>1, <1>2, <2>1, <2>2, NoRequest
<1>6. Members' = Members
    BY <1>1, <1>2, <1>4, SteadyMembers
<1>7. NearOK(t)'
    BY <1>0, <1>1, <1>2, <1>6 DEF Known, NearOK, Now, Anchored, OnList, PairPcs, Inserts, Calls,
                                  Call
<1>8. TypeOK'
    BY <1>0, <1>1, <1>5 DEF Known, TypeOK, Now, links, iter
<1>9. (\A f \in Elems : Pins(t, f)' = Pins(t, f)) /\ InsertsAlone(t)
    <2>1. \A f \in Elems :
             /\ Holds(t, "cur", f)' <=> Holds(t, "cur", f)
             /\ Holds(t, "pinned", f)' <=> Holds(t, "pinned", f)
             /\ Holds(t, "x", f)' <=> Holds(t, "x", f)
             /\ Holds(t, "el", f)' <=> Holds(t, "el", f)
        BY <1>0, <1>1, <1>2, AtomicListAssumption
           DEF Known, Nodes, Holds, Now, PinsEl, LocalOK, Calls, Call, Inserts,
       SearchPcs, PairPcs, InsPcs, Moving, iter
    <2>2. \A f \in Elems : Pins(t, f)' = Pins(t, f)
        BY <2>1 DEF Pins, One
    <2>3. InsertsAlone(t)
        BY <1>1, <2>1 DEF InsertsAlone, Kinds, Inserting, PairPcs
    <2>4. QED
        BY <2>2, <2>3
<1>10. QED
    BY <1>1, <1>2, <1>3, <1>7, <1>4, <1>5, <1>8, <1>9, QuietStep

(* PairLook preserves IInv. *)
LEMMA PairLookStep ==
    ASSUME IInv, NEW t \in Threads, PairLook(t)
    PROVE  IInv'
BY PairLookChanged, PairLookSame

(* RemoveNext preserves IInv. *)
LEMMA RemoveNextStep ==
    ASSUME IInv, NEW t \in Threads, RemoveNext(t)
    PROVE  IInv'
<1> DEFINE l == local[t]
<1>0. Known(t)
    BY Knows
<1>1. /\ l.pc = "paired" /\ Now(t, "unlink", l.n, l.x, l.el, l.pinned, l.then)
      /\ lock' = Request(lock, next[l.el], t, TRUE) /\ ~Inserts(t)
      /\ UNCHANGED <<prog, links, ref, count, signal, iter, mine>>
    <2>1. Goto(t, "unlink") /\ "unlink" \in Pcs
        BY DEF RemoveNext, Pcs, SearchPcs, PairPcs, OffPcs, InsPcs
    <2>2. QED
        BY <1>0, <2>1, GotoNow DEF Known, RemoveNext, At, Owns
<1>2. Others(t) /\ next' = next /\ prev' = prev /\ cur' = cur
    BY <1>1 DEF Others, Now, links, iter
<1>3. l.el \in Members /\ l.n = l.el /\ l.el \in Nodes /\ t \in lock[l.el].own
      /\ next[l.el] # l.el /\ next[l.el] # l.x
    <2>1. l.n = l.el /\ prev[l.n] = l.x
        BY <1>0, <1>1 DEF Known, NearOK, PairPcs
    <2>2. l.n \in Members \cup {TAIL} /\ l.n \in Nodes
        BY <1>1, PairNode DEF PairPcs
    <2>3. t \in lock[l.el].own
        BY <1>0, <1>1, <2>1, <2>2 DEF Known, LockOK, Must
    <2>4. l.el \in Members
        BY <1>0, <2>1, <2>2, AtomicListAssumption DEF Known, Nodes
    <2>5. QED
        BY <2>1, <2>2, <2>3, <2>4, Neighbours
<1>4. Fresh(t, next[l.el])
    BY <1>3, FreshNeighbour
<1>5. LocalOK(t)'
    BY <1>0, <1>1, <1>2, <1>3, AtomicListAssumption
       DEF Known, Nodes, LocalOK, Now, Calls, Call, Inserts, SearchPcs, PairPcs, InsPcs, Moving,
           iter
<1>6. Steady(t) /\ Calm(t)
    BY <1>0, <1>1, <1>2 DEF Known, Steady, Calm, Now, Removing, Inserting, Claims, Counting, PinsEl,
       LocalOK, Calls, Call, Inserts, SearchPcs, PairPcs, InsPcs, OffPcs, Moving
<1>7. LockInv' /\ lock' \in [Nodes -> LockRec] /\ OwnersKept(t)
    <2>1. PICK a \in Nodes : a = next[l.el] /\ Fresh(t, a)
        BY <1>4 DEF Fresh
    <2>2. ~Must(t, a) /\ ~May(t, a)
        BY <1>0, <1>1, <1>2, <1>4, <2>1, <1>3 DEF Known, LocalOK, Must, May
    <2>3. (Must(t, a)' \/ May(t, a)') /\ (Must(t, a)' => Grantable(lock[a], TRUE))
        BY <1>0, <1>1, <1>2, <1>4, <2>1, <1>3 DEF Known, LocalOK, Now, Must, May
    <2>4. GoesOn(t, {a})
        BY <1>0, <1>1, <1>2, <1>4, <2>1, <1>3
           DEF Known, GoesOn, LockOK, Now, Must, May, Owns, LocalOK
    <2>5. XMode(t)' = TRUE /\ (XMode(t) = TRUE \/ \A m \in Nodes : ~Must(t, m) /\ ~May(t, m))
        BY <1>0, <1>1 DEF XMode, Now, PairPcs, OffPcs, InsPcs, Must, May
    <2>6. EndOK(t)' /\ l.pc # "clearyield"
        BY <1>1 DEF EndOK, Now
    <2>7. QED
        BY <1>1, <1>2, <2>1, <2>2, <2>3, <2>4, <2>5, <2>6, OneRequest
<1>8. Members' = Members
    BY <1>1, <1>2, <1>6, SteadyMembers
<1>9. NearOK(t)'
    BY <1>0, <1>1, <1>2, <1>8, <1>3 DEF Known, NearOK, Now, Anchored, OnList, PairPcs, Inserts,
                                        Calls, Call
<1>10. TypeOK'
    BY <1>0, <1>1, <1>7 DEF Known, TypeOK, Now, links, iter
<1>11. (\A f \in Elems : Pins(t, f)' = Pins(t, f)) /\ InsertsAlone(t)
    <2>1. \A f \in Elems :
             /\ Holds(t, "cur", f)' <=> Holds(t, "cur", f)
             /\ Holds(t, "pinned", f)' <=> Holds(t, "pinned", f)
             /\ Holds(t, "x", f)' <=> Holds(t, "x", f)
             /\ Holds(t, "el", f)' <=> Holds(t, "el", f)
        BY <1>0, <1>1, <1>2, AtomicListAssumption
           DEF Known, Nodes, Holds, Now, PinsEl, LocalOK, Calls, Call, Inserts,
       SearchPcs, PairPcs, InsPcs, Moving, iter
    <2>2. \A f \in Elems : Pins(t, f)' = Pins(t, f)
        BY <2>1 DEF Pins, One
    <2>3. InsertsAlone(t)
        BY <1>1, <2>1 DEF InsertsAlone, Kinds, Inserting, PairPcs
    <2>4. QED
        BY <2>2, <2>3
<1>12. QED
    BY <1>1, <1>2, <1>5, <1>9, <1>6, <1>7, <1>10, <1>11, QuietStep

(* InsertNext preserves IInv. *)
LEMMA InsertNextStep ==
    ASSUME IInv, NEW t \in Threads, InsertNext(t)
    PROVE  IInv'
<1> DEFINE l == local[t]
<1>0. Known(t)
    BY Knows
<1>1. l.pc = "insnext" /\ l.n \in Members \cup {HEAD} /\ l.n \in Nodes
      /\ next[l.n] \in Members \cup {TAIL} /\ next[l.n] # l.n /\ Members \subseteq Elems
    <2>1. l.pc = "insnext"
        BY DEF InsertNext, At
    <2>2. QED
        BY <2>1, InsertNode, Neighbours
<1>2. /\ l.pc = "insnext" /\ t \in lock[l.n].own /\ lock' = Request(lock, next[l.n], t, TRUE)
      /\ Now(t, "link", l.n, next[l.n], l.el, l.pinned, l.then)
      /\ UNCHANGED <<prog, links, ref, count, signal, iter, mine>>
    <2>1. FindAt(t, l.n, next[l.n], "link") /\ "link" \in Pcs /\ l.n \in Nodes
             /\ next[l.n] \in Nodes \cup {NULL}
        BY <1>0, <1>1 DEF InsertNext, Known, TypeOK, Pcs, SearchPcs, PairPcs, OffPcs, InsPcs, Nodes
    <2>2. QED
        BY <1>0, <2>1, FindAtNow DEF Known, InsertNext, At, Owns, Nodes
<1>3. Others(t) /\ next' = next /\ prev' = prev /\ cur' = cur
    BY <1>2 DEF Others, Now, links, iter
<1>4. Fresh(t, next[l.n])
    BY <1>2, <1>1, FreshNeighbour
<1>5. LocalOK(t)'
    BY <1>0, <1>2, <1>3, <1>1, AtomicListAssumption
       DEF Known, Nodes, LocalOK, Now, Calls, Call, Inserts, SearchPcs, PairPcs, InsPcs, Moving,
           iter
<1>6. Steady(t) /\ Calm(t)
    BY <1>0, <1>2, <1>3 DEF Known, Steady, Calm, Now, Removing, Inserting, Claims, Counting, PinsEl,
       LocalOK, Calls, Call, Inserts, SearchPcs, PairPcs, InsPcs, OffPcs, Moving
<1>7. LockInv' /\ lock' \in [Nodes -> LockRec] /\ OwnersKept(t)
    <2>1. PICK a \in Nodes : a = next[l.n] /\ Fresh(t, a)
        BY <1>4 DEF Fresh
    <2>2. ~Must(t, a) /\ ~May(t, a)
        BY <1>0, <1>2, <1>3, <1>4, <2>1, <1>1 DEF Known, LocalOK, Must, May
    <2>3. (Must(t, a)' \/ May(t, a)') /\ (Must(t, a)' => Grantable(lock[a], TRUE))
        BY <1>0, <1>2, <1>3, <1>4, <2>1, <1>1 DEF Known, LocalOK, Now, Must, May
    <2>4. GoesOn(t, {a})
        BY <1>0, <1>2, <1>3, <1>4, <2>1, <1>1
           DEF Known, GoesOn, LockOK, Now, Must, May, Owns, LocalOK
    <2>5. XMode(t)' = TRUE /\ (XMode(t) = TRUE \/ \A m \in Nodes : ~Must(t, m) /\ ~May(t, m))
        BY <1>0, <1>2 DEF XMode, Now, PairPcs, OffPcs, InsPcs, Must, May
    <2>6. EndOK(t)' /\ l.pc # "clearyield"
        BY <1>2 DEF EndOK, Now
    <2>7. QED
        BY <1>2, <1>3, <2>1, <2>2, <2>3, <2>4, <2>5, <2>6, OneRequest
<1>8. Members' = Members
    BY <1>2, <1>3, <1>6, SteadyMembers
<1>9. NearOK(t)'
    BY <1>0, <1>2, <1>3, <1>8, <1>1 DEF Known, NearOK, Now, Anchored, OnList, PairPcs, Inserts,
                                        Calls, Call
<1>10. TypeOK'
    BY <1>0, <1>2, <1>7 DEF Known, TypeOK, Now, links, iter
<1>11. (\A f \in Elems : Pins(t, f)' = Pins(t, f)) /\ InsertsAlone(t)
    <2>1. \A f \in Elems :
             /\ Holds(t, "cur", f)' <=> Holds(t, "cur", f)
             /\ Holds(t, "pinned", f)' <=> Holds(t, "pinned", f)
             /\ Holds(t, "x", f)' <=> Holds(t, "x", f)
             /\ Holds(t, "el", f)' <=> Holds(t, "el", f)
        BY <1>0, <1>2, <1>3, AtomicListAssumption
           DEF Known, Nodes, Holds, Now, PinsEl, LocalOK, Calls, Call, Inserts,
       SearchPcs, PairPcs, InsPcs, Moving, iter
    <2>2. \A f \in Elems : Pins(t, f)' = Pins(t, f)
        BY <2>1 DEF Pins, One
    <2>3. InsertsAlone(t)
        BY <1>2, <2>1 DEF InsertsAlone, Kinds, Inserting, PairPcs
    <2>4. QED
        BY <2>2, <2>3
<1>12. QED
    BY <1>2, <1>3, <1>5, <1>9, <1>6, <1>7, <1>10, <1>11, QuietStep

(* Leave preserves IInv. *)
LEMMA LeaveStep ==
    ASSUME IInv, NEW t \in Threads, Leave(t)
    PROVE  IInv'
<1> DEFINE l == local[t]
           p == IF local[t].pinned = NULL THEN "found" ELSE "unpin"
<1>0. Known(t)
    BY Knows
<1>1. /\ l.pc = "leave" /\ Now(t, p, l.n, l.x, l.el, l.pinned, l.then)
      /\ lock' = Unlock(lock, l.n, t)
      /\ UNCHANGED <<prog, links, ref, count, signal, iter, mine>>
    <2>1. Goto(t, p) /\ p \in Pcs
        BY DEF Leave, Pcs, SearchPcs, PairPcs, OffPcs, InsPcs
    <2>2. QED
        BY <1>0, <2>1, GotoNow DEF Known, Leave, At, Owns
<1>2. Others(t) /\ next' = next /\ prev' = prev /\ cur' = cur
    BY <1>1 DEF Others, Now, links, iter
<1>3. LocalOK(t)'
    BY <1>0, <1>1, <1>2, AtomicListAssumption
       DEF Known, Nodes, LocalOK, Now, Calls, Call, Inserts, SearchPcs, PairPcs, InsPcs, Moving,
           iter
<1>4. Steady(t) /\ Calm(t)
    BY <1>0, <1>1, <1>2 DEF Known, Steady, Calm, Now, Removing, Inserting, Claims, Counting, PinsEl,
       LocalOK, Calls, Call, Inserts, SearchPcs, PairPcs, InsPcs, OffPcs, Moving
<1>5. LockInv' /\ lock' \in [Nodes -> LockRec] /\ OwnersKept(t)
    <2>1. l.n \in Nodes /\ t \in lock[l.n].own
        BY <1>0, <1>1 DEF Known, LocalOK, LockOK, Must, Owns, SearchPcs, PairPcs, InsPcs, Nodes
    <2>2. PICK a \in Nodes : a = l.n
        BY <2>1
    <2>3. ~Must(t, a)' /\ ~May(t, a)'
        BY <1>0, <1>1, <1>2, <2>2 DEF Known, LocalOK, Now, Must, May
    <2>4. GoesOn(t, {a})
        BY <1>0, <1>1, <1>2, <2>2 DEF Known, GoesOn, LockOK, Now, Must, May, Owns, LocalOK
    <2>5. XMode(t)' = XMode(t) /\ EndOK(t)' /\ l.pc # "clearyield"
        BY <1>1 DEF XMode, EndOK, Now, PairPcs, OffPcs, InsPcs
    <2>6. QED
        BY <1>1, <1>2, <2>1, <2>2, <2>3, <2>4, <2>5, OneUnlock
<1>6. Members' = Members
    BY <1>1, <1>2, <1>4, SteadyMembers
<1>7. NearOK(t)'
    BY <1>0, <1>1, <1>2, <1>6 DEF Known, NearOK, Now, Anchored, OnList, PairPcs, Inserts, Calls,
                                  Call
<1>8. TypeOK'
    BY <1>0, <1>1, <1>5 DEF Known, TypeOK, Now, links, iter
<1>9. (\A f \in Elems : Pins(t, f)' = Pins(t, f)) /\ InsertsAlone(t)
    <2>1. \A f \in Elems :
             /\ Holds(t, "cur", f)' <=> Holds(t, "cur", f)
             /\ Holds(t, "pinned", f)' <=> Holds(t, "pinned", f)
             /\ Holds(t, "x", f)' <=> Holds(t, "x", f)
             /\ Holds(t, "el", f)' <=> Holds(t, "el", f)
        BY <1>0, <1>1, <1>2, AtomicListAssumption
           DEF Known, Nodes, Holds, Now, PinsEl, LocalOK, Calls, Call, Inserts,
       SearchPcs, PairPcs, InsPcs, Moving, iter
    <2>2. \A f \in Elems : Pins(t, f)' = Pins(t, f)
        BY <2>1 DEF Pins, One
    <2>3. InsertsAlone(t)
        BY <1>1, <2>1 DEF InsertsAlone, Kinds, Inserting, PairPcs
    <2>4. QED
        BY <2>2, <2>3
<1>10. QED
    BY <1>1, <1>2, <1>3, <1>7, <1>4, <1>5, <1>8, <1>9, QuietStep

-------------------------------------------------------------------------------
(* Calls that begin and end.  A thread between two calls has no lock, and  *)
(* pins what its iterator is at.                                           *)
LEMMA IdleFacts ==
    ASSUME IInv, NEW t \in Threads, local[t].pc = "idle"
    PROVE  /\ local[t] = Idle /\ ~Removing(t) /\ ~Inserting(t)
           /\ \A m \in Nodes : ~Must(t, m) /\ ~May(t, m)
           /\ \A f \in Elems : Pins(t, f) = One(cur[t] = f)
<1>1. local[t] = Idle
    BY Here DEF LocalOK
<1>2. ~Removing(t) /\ ~Inserting(t) /\ \A m \in Nodes : ~Must(t, m) /\ ~May(t, m)
    BY <1>1, AtomicListAssumption DEF Idle, Removing, Inserting, PairPcs, OffPcs, Must, May
<1>3. \A f \in Elems : Pins(t, f) = One(cur[t] = f)
    BY <1>1, AtomicListAssumption DEF Idle, Pins, One, Holds, PinsEl, PairPcs, InsPcs, Moving, Nodes
<1>4. QED
    BY <1>1, <1>2, <1>3

(* The call returns. *)
LEMMA Returning ==
    ASSUME IInv, NEW t \in Threads, Return(t), prog[t] # <<>>, UNCHANGED <<links, mine>>,
           \A u \in Threads \ {t} : cur'[u] = cur[u], ~Removing(t), ~Inserting(t),
           local[t].pc \notin {"await", "deferred", "asleep"} \cup Counting \cup OffPcs
    PROVE  /\ Others(t) /\ Steady(t) /\ Calm(t) /\ LocalOK(t)' /\ NearOK(t)'
           /\ prog' \in [Threads -> Seq(Op)] /\ local' \in [Threads -> LocalRec]
           /\ EndOK(t)' /\ \A m \in Nodes : ~Must(t, m)' /\ ~May(t, m)'
           /\ \A f \in Elems : Pins(t, f)' = One(cur'[t] = f)
<1>1. /\ Now(t, "idle", NULL, NULL, NULL, NULL, NULL) /\ local'[t] = Idle
      /\ prog' \in [Threads -> Seq(Op)] /\ \A u \in Threads \ {t} : prog'[u] = prog[u]
    BY ReturnNow DEF IInv
<1>2. Others(t) /\ local' \in [Threads -> LocalRec]
    BY <1>1 DEF Others, Now
<1>3. LocalOK(t)'
    BY <1>1, AtomicListAssumption
       DEF LocalOK, Now, Idle, SearchPcs, PairPcs, InsPcs, Moving, Nodes
<1>4. NearOK(t)' /\ EndOK(t)' /\ \A m \in Nodes : ~Must(t, m)' /\ ~May(t, m)'
    BY <1>1 DEF NearOK, EndOK, Must, May, Now, PairPcs
<1>5. ~Removing(t)' /\ ~Inserting(t)'
    BY <1>1, AtomicListAssumption DEF Removing, Inserting, Now, PairPcs, OffPcs
<1>6. Steady(t) /\ Calm(t)
    BY <1>1, <1>5 DEF Steady, Calm, Claims, Now, OffPcs, Counting
<1>7. \A f \in Elems : Pins(t, f)' = One(cur'[t] = f)
    BY <1>1, AtomicListAssumption DEF Now, Pins, One, Holds, PinsEl, PairPcs, InsPcs, Moving, Nodes
<1>8. QED
    BY <1>1, <1>2, <1>3, <1>4, <1>6, <1>7

(* A call returns, and at most current_elem has changed. *)
LEMMA QuietReturn ==
    ASSUME IInv, NEW t \in Threads, Return(t), prog[t] # <<>>,
           UNCHANGED <<links, lock, ref, count, signal, mine>>,
           cur' \in [Threads -> Elems \cup {NULL, Done}],
           \A u \in Threads \ {t} : cur'[u] = cur[u],
           local[t].pc \in {"idle", "found"}, ~Removing(t),
           \A f \in Elems : Pins(t, f) = One(cur'[t] = f)
    PROVE  IInv'
<1>1. ~Inserting(t) /\ (\A m \in Nodes : ~Must(t, m) /\ ~May(t, m))
      /\ local[t].pc \notin {"await", "deferred", "asleep", "clearyield"} \cup Counting \cup OffPcs
    BY DEF Inserting, Must, May, PairPcs, OffPcs, Counting
<1>2. /\ Others(t) /\ Steady(t) /\ Calm(t) /\ LocalOK(t)' /\ NearOK(t)'
      /\ prog' \in [Threads -> Seq(Op)] /\ local' \in [Threads -> LocalRec]
      /\ EndOK(t)' /\ \A m \in Nodes : ~Must(t, m)' /\ ~May(t, m)'
      /\ \A f \in Elems : Pins(t, f)' = One(cur'[t] = f)
    BY <1>1, Returning
<1>3. LockInv' /\ lock' \in [Nodes -> LockRec] /\ OwnersKept(t)
    <2>1. GoesOn(t, {})
        BY <1>1, <1>2 DEF GoesOn
    <2>2. QED
        BY <1>1, <1>2, <2>1, NoRequest
<1>4. TypeOK'
    BY <1>2, <1>3 DEF IInv, TypeOK, links
<1>5. QED
    BY <1>1, <1>2, <1>3, <1>4, QuietStep DEF InsertsAlone

(* A search begins. *)
LEMMA Searching ==
    ASSUME IInv, NEW t \in Threads, NEW d \in {"next", "prev"}, NEW n, Fresh(t, n),
           NEW pinned \in Elems \cup {NULL}, NEW h \in Moving \cup {"remove"},
           NEW e \in Elems \cup {NULL}, Find(t, d, n, pinned, h, e),
           UNCHANGED <<prog, links, cur, mine>>,
           \A m \in Nodes : ~Must(t, m) /\ ~May(t, m), local[t].pc # "clearyield",
           prog[t] # <<>>, ~Inserts(t),
           h \in {"peek", "again"} => e # NULL /\ Calls(t, {"fwdpop", "bwdpop"}),
           h = "remove" => Calls(t, {"dequeue", "pop"}),
           \/ d = "next" /\ n = HEAD
           \/ d = "prev" /\ n = TAIL
           \/ n \in Members' /\ n \in Elems /\ (n = pinned \/ (h = "again" /\ n = e))
    PROVE  /\ Now(t, d, n, NULL, e, pinned, h) /\ Others(t)
           /\ LocalOK(t)' /\ NearOK(t)'
           /\ LockInv' /\ lock' \in [Nodes -> LockRec] /\ OwnersKept(t)
<1>0. n \in Nodes /\ Known(t)
    BY Knows DEF Fresh
<1>1. Now(t, d, n, NULL, e, pinned, h) /\ lock' = Request(lock, n, t, FALSE)
    BY <1>0, FindNow DEF Known, Pcs, SearchPcs
<1>2. Others(t)
    BY <1>1 DEF Others, Now
<1>3. LocalOK(t)'
    BY <1>0, <1>1, AtomicListAssumption DEF Now, LocalOK, Calls, Call, Inserts, SearchPcs,
                                            PairPcs, InsPcs, Moving, Nodes
<1>4. NearOK(t)'
    BY <1>0, <1>1 DEF Now, NearOK, Anchored, PairPcs
<1>5. LockInv' /\ lock' \in [Nodes -> LockRec] /\ OwnersKept(t)
    <2>1. XMode(t)' = FALSE /\ EndOK(t)'
        <3>1. local'[t].pc \in {"next", "prev"}
            BY <1>1 DEF Now
        <3>2. local'[t].pc \notin PairPcs \cup OffPcs \cup InsPcs \cup {"unlink"}
            BY <3>1 DEF PairPcs, OffPcs, InsPcs
        <3>3. QED
            BY <3>1, <3>2 DEF XMode, EndOK
    <2>2. (\A m \in Nodes : ~Must(t, m)') /\ \A m \in Nodes : May(t, m)' <=> m = n
        BY <1>1 DEF Must, May, Now
    <2>3. GoesOn(t, {n})
        BY <2>2 DEF GoesOn
    <2>4. QED
        BY <1>0, <1>1, <1>2, <2>1, <2>2, <2>3, OneRequest
<1>6. QED
    BY <1>1, <1>2, <1>3, <1>4, <1>5

(* IterNext preserves IInv. *)
LEMMA IterNextStep ==
    ASSUME IInv, NEW t \in Threads, IterNext(t)
    PROVE  IInv'
<1> DEFINE l == local[t]
<1>0. l.pc = "idle" /\ Calls(t, {"fwd", "bwd"}) /\ prog[t] # <<>> /\ ~Inserts(t)
      /\ UNCHANGED <<links, ref, count, signal, mine>> /\ Known(t)
    BY Knows DEF IterNext, At, Calls, Inserts
<1>1. /\ l = Idle /\ ~Removing(t) /\ ~Inserting(t)
      /\ \A m \in Nodes : ~Must(t, m) /\ ~May(t, m)
      /\ \A f \in Elems : Pins(t, f) = One(cur[t] = f)
    BY <1>0, IdleFacts
<1>2. CASE cur[t] = Done \/ back[t]
    <2>1. Return(t) /\ UNCHANGED lock /\ cur' = cur
        BY <1>0, <1>2 DEF IterNext, SetIter, iter, Known, TypeOK
    <2>2. QED
        BY <1>0, <1>1, <2>1, QuietReturn DEF Known, TypeOK
<1>3. CASE cur[t] # Done /\ ~back[t]
    <2> DEFINE d == Dir(t)
               n == IF cur[t] # NULL THEN cur[t] ELSE IF d = "next" THEN HEAD ELSE TAIL
    <2>1. /\ Find(t, d, n, cur[t], "iter", NULL)
          /\ UNCHANGED <<prog, cur>> /\ d \in {"next", "prev"} /\ cur[t] \in Elems \cup {NULL}
        BY <1>0, <1>3 DEF IterNext, iter, Dir, Known
    <2> HIDE DEF d
    <2>2. Fresh(t, n) /\ (cur[t] # NULL => n \in Members /\ n \in Elems)
        <3>1. CASE cur[t] = NULL
            BY <3>1, FreshEnd
        <3>2. CASE cur[t] # NULL
            BY <1>1, <2>1, <3>2, CurNode, AtomicListAssumption DEF Idle, Moving, Nodes
        <3>3. QED
            BY <3>1, <3>2
    <2>3. Members' = Members
        BY <1>0, <1>1, <2>1 DEF Members, OnList, links, Find, Idle, OffPcs, Known, TypeOK
    <2>4. /\ Now(t, d, n, NULL, NULL, cur[t], "iter") /\ Others(t)
          /\ LocalOK(t)' /\ NearOK(t)'
          /\ LockInv' /\ lock' \in [Nodes -> LockRec] /\ OwnersKept(t)
        BY <1>0, <1>1, <2>1, <2>2, <2>3, Searching DEF Moving
    <2>5. Steady(t) /\ Calm(t)
        BY <1>0, <1>1, <2>1, <2>4 DEF Steady, Calm, Now, Removing, Inserting, Claims, Counting,
           PairPcs, OffPcs
    <2>6. TypeOK'
        BY <1>0, <2>1, <2>4 DEF Known, TypeOK, Now, links
    <2>7. \A f \in Elems : Pins(t, f)' = One(cur[t] = f)
        BY <2>1, <2>4, AtomicListAssumption DEF Now, Pins, One, Holds, PinsEl, PairPcs, InsPcs,
           Moving, Nodes
    <2>8. QED
        BY <1>0, <1>1, <2>4, <2>5, <2>6, <2>7, QuietStep DEF InsertsAlone
<1>4. QED
    BY <1>2, <1>3

(* IterFound preserves IInv. *)
LEMMA IterFoundStep ==
    ASSUME IInv, NEW t \in Threads, IterFound(t)
    PROVE  IInv'
<1> DEFINE l == local[t]
<1>0. l.pc = "found" /\ l.then = "iter" /\ Known(t) /\ Return(t)
         /\ cur' = [cur EXCEPT ![t] = OrDone(l.x)]
      /\ UNCHANGED <<links, lock, ref, count, signal, mine>>
    BY Knows DEF IterFound, At, SetIter
<1>1. l.x \in Elems \cup {NULL} /\ l.pinned = NULL /\ prog[t] # <<>> /\ ~Removing(t)
    BY <1>0 DEF Known, LocalOK, Nodes, Removing, PairPcs, OffPcs
<1>2. OrDone(l.x) \in Elems \cup {NULL, Done} /\ \A f \in Elems : OrDone(l.x) = f <=> l.x = f
    BY <1>1, AtomicListAssumption DEF OrDone, Nodes
<1>3. cur' \in [Threads -> Elems \cup {NULL, Done}] /\ cur'[t] = OrDone(l.x)
      /\ \A u \in Threads \ {t} : cur'[u] = cur[u]
    BY <1>0, <1>2 DEF Known, TypeOK
<1>4. \A f \in Elems : Pins(t, f) = One(cur'[t] = f)
    BY <1>0, <1>1, <1>2, <1>3, AtomicListAssumption
       DEF Pins, One, Holds, PinsEl, PairPcs, InsPcs, Moving, Nodes
<1>5. QED
    BY <1>0, <1>1, <1>3, <1>4, QuietReturn

(* Dequeue preserves IInv. *)
LEMMA DequeueStep ==
    ASSUME IInv, NEW t \in Threads, Dequeue(t)
    PROVE  IInv'
<1> DEFINE l == local[t]
           d == Dir(t)
           n == IF d = "next" THEN HEAD ELSE TAIL
<1>0. l.pc = "idle" /\ Calls(t, {"dequeue", "pop"}) /\ prog[t] # <<>> /\ ~Inserts(t)
      /\ Find(t, d, n, NULL, "remove", NULL) /\ d \in {"next", "prev"} /\ Known(t)
      /\ UNCHANGED <<prog, links, ref, count, signal, cur, mine>>
    BY Knows DEF Dequeue, At, Calls, Inserts, Dir, iter
<1> HIDE DEF d
<1>1. /\ l = Idle /\ ~Removing(t) /\ ~Inserting(t)
      /\ \A m \in Nodes : ~Must(t, m) /\ ~May(t, m)
      /\ \A f \in Elems : Pins(t, f) = One(cur[t] = f)
    BY <1>0, IdleFacts
<1>2. /\ Now(t, d, n, NULL, NULL, NULL, "remove") /\ Others(t)
      /\ LocalOK(t)' /\ NearOK(t)'
      /\ LockInv' /\ lock' \in [Nodes -> LockRec] /\ OwnersKept(t)
    <2>1. Fresh(t, n)
        BY FreshEnd
    <2>2. QED
        BY <1>0, <1>1, <2>1, Searching
<1>3. Steady(t) /\ Calm(t)
    BY <1>0, <1>1, <1>2 DEF Steady, Calm, Now, Removing, Inserting, Claims, Counting, PairPcs,
                            OffPcs
<1>4. TypeOK'
    BY <1>0, <1>2 DEF Known, TypeOK, Now, links
<1>5. \A f \in Elems : Pins(t, f)' = One(cur[t] = f)
    BY <1>0, <1>2, AtomicListAssumption DEF Now, Pins, One, Holds, PinsEl, PairPcs, InsPcs,
                                            Moving, Nodes
<1>6. QED
    BY <1>0, <1>1, <1>2, <1>3, <1>4, <1>5, QuietStep DEF InsertsAlone

(* A call goes on with the element of the iterator unpinned, ... *)
LEMMA PuttingBack ==
    ASSUME IInv, NEW t \in Threads, local[t].pc = "idle", prog[t] # <<>>, NEW p \in Elems,
           local' = [local EXCEPT ![t].pc = "putback", ![t].pinned = p],
           UNCHANGED <<prog, links, lock, mine>>, \A u \in Threads \ {t} : cur'[u] = cur[u]
    PROVE  /\ Others(t) /\ Steady(t) /\ Calm(t) /\ LocalOK(t)' /\ NearOK(t)'
           /\ LockInv' /\ lock' \in [Nodes -> LockRec] /\ OwnersKept(t)
           /\ local' \in [Threads -> LocalRec] /\ ~Inserting(t)
           /\ \A f \in Elems : (Holds(t, "cur", f)' <=> cur'[t] = f)
              /\ (Holds(t, "pinned", f)' <=> p = f)
                              /\ ~Holds(t, "x", f)' /\ ~Holds(t, "el", f)'
<1>1. /\ local[t] = Idle /\ ~Removing(t) /\ ~Inserting(t)
      /\ \A m \in Nodes : ~Must(t, m) /\ ~May(t, m)
    BY IdleFacts
<1>2. Now(t, "putback", NULL, NULL, NULL, p, NULL)
    <2>1. "putback" \in Pcs /\ TypeOK
        BY DEF Pcs, IInv
    <2>2. local[t].n = NULL /\ local[t].x = NULL /\ local[t].el = NULL /\ local[t].then = NULL
        BY <1>1 DEF Idle
    <2>3. QED
        BY <2>1, <2>2, PutNow
<1>3. Others(t)
    BY <1>2 DEF Others, Now
<1>4. LocalOK(t)'
    BY <1>2, AtomicListAssumption
       DEF LocalOK, Now, SearchPcs, PairPcs, InsPcs, Moving, Nodes
<1>5. NearOK(t)' /\ EndOK(t)' /\ (\A m \in Nodes : ~Must(t, m)' /\ ~May(t, m)')
      /\ ~Removing(t)' /\ ~Inserting(t)'
    BY <1>2, AtomicListAssumption
       DEF NearOK, EndOK, Must, May, Now, Removing, Inserting, PairPcs, OffPcs
<1>6. Steady(t) /\ Calm(t)
    BY <1>1, <1>2, <1>5 DEF Steady, Calm, Claims, Now, OffPcs, Counting
<1>7. LockInv' /\ lock' \in [Nodes -> LockRec] /\ OwnersKept(t)
    <2>1. GoesOn(t, {})
        BY <1>1, <1>5 DEF GoesOn
    <2>2. QED
        BY <1>1, <1>3, <1>5, <2>1, NoRequest
<1>8. \A f \in Elems : (Holds(t, "cur", f)' <=> cur'[t] = f) /\ (Holds(t, "pinned", f)' <=> p = f)
                              /\ ~Holds(t, "x", f)' /\ ~Holds(t, "el", f)'
    BY <1>2, AtomicListAssumption DEF Now, Holds, PinsEl, PairPcs, InsPcs, Moving, Nodes
<1>9. QED
    BY <1>1, <1>2, <1>3, <1>4, <1>5, <1>6, <1>7, <1>8 DEF Now

(* ... or with the element it is to remove pinned. *)
LEMMA Removal ==
    ASSUME IInv, NEW t \in Threads, local[t].pc = "idle", prog[t] # <<>>, NEW e \in Elems,
           ~ref[e].mask, Pin(e), local' = [local EXCEPT ![t].pc = "mask", ![t].el = e],
           UNCHANGED <<prog, links, lock, count, signal, cur, mine>>,
           ~Inserts(t), Calls(t, {"fwdpop", "bwdpop"}) => cur[t] = e
    PROVE  IInv'
<1>0. TypeOK
    BY DEF IInv
<1>1. /\ local[t] = Idle /\ ~Removing(t) /\ ~Inserting(t)
      /\ \A m \in Nodes : ~Must(t, m) /\ ~May(t, m)
      /\ \A f \in Elems : Pins(t, f) = One(cur[t] = f)
    BY IdleFacts
<1>2. Now(t, "mask", NULL, NULL, e, NULL, NULL)
    <2>1. "mask" \in Pcs
        BY DEF Pcs
    <2>2. local[t].n = NULL /\ local[t].x = NULL /\ local[t].pinned = NULL /\ local[t].then = NULL
        BY <1>1 DEF Idle
    <2>3. QED
        BY <1>0, <2>1, <2>2, TakeNow
<1>3. Others(t)
    BY <1>2 DEF Others, Now
<1>4. LocalOK(t)'
    BY <1>2, AtomicListAssumption
       DEF LocalOK, Now, Calls, Call, Inserts, SearchPcs, PairPcs, InsPcs, Moving, Nodes
<1>5. NearOK(t)' /\ EndOK(t)' /\ (\A m \in Nodes : ~Must(t, m)' /\ ~May(t, m)')
      /\ ~Removing(t)' /\ ~Inserting(t)'
    BY <1>2, AtomicListAssumption
       DEF NearOK, EndOK, Must, May, Now, Removing, Inserting, PairPcs, OffPcs
<1>6. Steady(t) /\ Calm(t)
    BY <1>1, <1>2, <1>5 DEF Steady, Calm, Claims, Now, OffPcs, Counting
<1>7. LockInv' /\ lock' \in [Nodes -> LockRec] /\ OwnersKept(t)
    <2>1. GoesOn(t, {})
        BY <1>1, <1>5 DEF GoesOn
    <2>2. QED
        BY <1>1, <1>3, <1>5, <2>1, NoRequest
<1>8. \A f \in Elems : Pins(t, f)' = Pins(t, f) + One(f = e)
    BY <1>1, <1>2, AtomicListAssumption
       DEF Now, Pins, One, Holds, PinsEl, PairPcs, InsPcs, Moving, Nodes
<1>9. TypeOK'
    <2>1. ref' \in [Elems -> [mask : BOOLEAN, pin : Nat, wait : SUBSET Threads]]
        BY <1>0, PinType
    <2>2. QED
        BY <1>0, <1>2, <1>7, <2>1 DEF TypeOK, Now, links
<1>10. OnList(e) /\ Uninserted(t, e)
    BY Unmasked
<1>11. QED
    BY <1>1, <1>3, <1>4, <1>5, <1>6, <1>7, <1>8, <1>9, <1>10, PinStep DEF InsertsAlone

(* What a call between two others knows. *)
LEMMA CallOp ==
    ASSUME IInv, NEW t \in Threads, prog[t] # <<>>
    PROVE  /\ Call(t) \in Op /\ Call(t).op \in OpNames /\ Call(t).elem \in Elems \cup {NULL}
           /\ Call(t).op \in {"seek", "delete"} => Call(t).elem \in Elems
           /\ Call(t).pin \in BOOLEAN
<1>1. prog[t] \in Seq(Op)
    BY DEF IInv, TypeOK
<1>2. Call(t) \in Op
    BY <1>1 DEF Call
<1>3. QED
    BY <1>2 DEF Op

(* IterSeek preserves IInv. *)
LEMMA IterSeekStep ==
    ASSUME IInv, NEW t \in Threads, IterSeek(t)
    PROVE  IInv'
<1> DEFINE e == Call(t).elem
<1>0. local[t].pc = "idle" /\ Call(t).op = "seek" /\ prog[t] # <<>> /\ Known(t)
      /\ UNCHANGED <<links, lock, count, signal, mine>>
    BY Knows DEF IterSeek, At, Calls
<1>1. e \in Elems
    BY <1>0, CallOp
<1>2. /\ local[t] = Idle /\ ~Removing(t) /\ ~Inserting(t)
      /\ \A m \in Nodes : ~Must(t, m) /\ ~May(t, m)
      /\ \A f \in Elems : Pins(t, f) = One(cur[t] = f)
    BY <1>0, IdleFacts
<1>3. CASE ~Pinnable(e)
    <2>1. Return(t) /\ UNCHANGED ref /\ cur' = cur
        BY <1>3 DEF IterSeek, iter
    <2>2. QED
        BY <1>0, <1>2, <2>1, QuietReturn DEF Known, TypeOK
<1>4. CASE Pinnable(e)
    <2>1. Pin(e) /\ cur' = [cur EXCEPT ![t] = e] /\ ~ref[e].mask
        BY <1>4 DEF IterSeek, SetIter, Pinnable
    <2>2. cur' \in [Threads -> Elems \cup {NULL, Done}] /\ cur'[t] = e
          /\ \A u \in Threads \ {t} : cur'[u] = cur[u]
        BY <1>0, <1>1, <2>1 DEF Known, TypeOK
    <2>3. OnList(e) /\ Uninserted(t, e)
        BY <1>1, <2>1, Unmasked
    <2>4. ref' \in [Elems -> [mask : BOOLEAN, pin : Nat, wait : SUBSET Threads]]
        BY <1>0, <1>1, <2>1, PinType DEF Known
    <2>5. CASE cur[t] \in Elems
        <3>1. PICK p \in Elems : p = cur[t]
            BY <2>5
        <3>2. local' = [local EXCEPT ![t].pc = "putback", ![t].pinned = p]
              /\ UNCHANGED <<prog, links, lock, mine>>
            BY <1>0, <1>4, <2>5, <3>1 DEF IterSeek
        <3>3. /\ Others(t) /\ Steady(t) /\ Calm(t) /\ LocalOK(t)' /\ NearOK(t)'
              /\ LockInv' /\ lock' \in [Nodes -> LockRec] /\ OwnersKept(t)
              /\ local' \in [Threads -> LocalRec] /\ ~Inserting(t)
              /\ \A f \in Elems : (Holds(t, "cur", f)' <=> cur'[t] = f)
                 /\ (Holds(t, "pinned", f)' <=> p = f)
                                 /\ ~Holds(t, "x", f)' /\ ~Holds(t, "el", f)'
            BY <1>0, <2>2, <3>2, PuttingBack
        <3>4. \A f \in Elems : Pins(t, f)' = Pins(t, f) + One(f = e)
            BY <1>2, <2>2, <3>1, <3>3 DEF Pins, One
        <3>5. TypeOK'
            BY <1>0, <2>2, <2>4, <3>2, <3>3 DEF Known, TypeOK, links
        <3>6. QED
            BY <1>0, <1>1, <2>1, <2>3, <3>3, <3>4, <3>5, PinStep DEF InsertsAlone
    <2>6. CASE cur[t] \notin Elems
        <3>1. Return(t)
            BY <1>4, <2>6 DEF IterSeek
        <3>2. /\ Others(t) /\ Steady(t) /\ Calm(t) /\ LocalOK(t)' /\ NearOK(t)'
              /\ prog' \in [Threads -> Seq(Op)] /\ local' \in [Threads -> LocalRec]
              /\ EndOK(t)' /\ \A m \in Nodes : ~Must(t, m)' /\ ~May(t, m)'
              /\ \A f \in Elems : Pins(t, f)' = One(cur'[t] = f)
            BY <1>0, <1>2, <2>2, <3>1, Returning DEF Counting, OffPcs
        <3>3. LockInv' /\ lock' \in [Nodes -> LockRec] /\ OwnersKept(t)
            <4>1. GoesOn(t, {})
                BY <1>2, <3>2 DEF GoesOn
            <4>2. QED
                BY <1>0, <1>2, <3>2, <4>1, NoRequest
        <3>4. \A f \in Elems : Pins(t, f)' = Pins(t, f) + One(f = e)
            BY <1>2, <2>2, <2>6, <3>2 DEF One
        <3>5. TypeOK'
            BY <1>0, <2>2, <2>4, <3>2, <3>3 DEF Known, TypeOK, links
        <3>6. QED
            BY <1>0, <1>1, <1>2, <2>1, <2>3, <3>2, <3>3, <3>4, <3>5, PinStep DEF InsertsAlone
    <2>7. QED
        BY <2>5, <2>6
<1>5. QED
    BY <1>3, <1>4

(* IterDestroy preserves IInv. *)
LEMMA IterDestroyStep ==
    ASSUME IInv, NEW t \in Threads, IterDestroy(t)
    PROVE  IInv'
<1>0. local[t].pc = "idle" /\ prog[t] # <<>> /\ Known(t) /\ cur' = [cur EXCEPT ![t] = NULL]
      /\ UNCHANGED <<links, lock, ref, count, signal, mine>>
    BY Knows DEF IterDestroy, At, Calls, SetIter
<1>1. /\ local[t] = Idle /\ ~Removing(t) /\ ~Inserting(t)
      /\ \A f \in Elems : Pins(t, f) = One(cur[t] = f)
    BY <1>0, IdleFacts
<1>2. cur' \in [Threads -> Elems \cup {NULL, Done}] /\ cur'[t] = NULL
      /\ \A u \in Threads \ {t} : cur'[u] = cur[u]
    BY <1>0 DEF Known, TypeOK
<1>3. CASE cur[t] \in Elems
    <2>1. local' = [local EXCEPT ![t].pc = "putback", ![t].pinned = cur[t]] /\ UNCHANGED prog
        BY <1>3 DEF IterDestroy
    <2>2. /\ Others(t) /\ Steady(t) /\ Calm(t) /\ LocalOK(t)' /\ NearOK(t)'
          /\ LockInv' /\ lock' \in [Nodes -> LockRec] /\ OwnersKept(t)
          /\ local' \in [Threads -> LocalRec] /\ ~Inserting(t)
          /\ \A f \in Elems : (Holds(t, "cur", f)' <=> cur'[t] = f)
             /\ (Holds(t, "pinned", f)' <=> cur[t] = f)
                             /\ ~Holds(t, "x", f)' /\ ~Holds(t, "el", f)'
        BY <1>0, <1>2, <1>3, <2>1, PuttingBack
    <2>3. \A f \in Elems : Pins(t, f)' = Pins(t, f)
        BY <1>1, <1>2, <2>2, AtomicListAssumption DEF Pins, One, Nodes
    <2>4. TypeOK'
        BY <1>0, <1>2, <2>1, <2>2 DEF Known, TypeOK, links
    <2>5. QED
        BY <1>0, <2>2, <2>3, <2>4, QuietStep DEF InsertsAlone
<1>4. CASE cur[t] \notin Elems
    <2>1. Return(t)
        BY <1>4 DEF IterDestroy
    <2>2. \A f \in Elems : Pins(t, f) = One(cur'[t] = f)
        BY <1>1, <1>2, <1>4, AtomicListAssumption DEF One, Nodes
    <2>3. QED
        BY <1>0, <1>1, <1>2, <2>1, <2>2, QuietReturn
<1>5. QED
    BY <1>3, <1>4

(* IterPop preserves IInv. *)
LEMMA IterPopStep ==
    ASSUME IInv, NEW t \in Threads, IterPop(t)
    PROVE  IInv'
<1>0. local[t].pc = "idle" /\ prog[t] # <<>> /\ Call(t).op \in {"fwdpop", "bwdpop"} /\ Known(t)
      /\ UNCHANGED <<links, lock, count, signal, cur, mine>>
    BY Knows DEF IterPop, At, Calls, iter
<1>1. CASE cur[t] \in Elems /\ Pinnable(cur[t])
    <2>1. /\ Pin(cur[t]) /\ local' = [local EXCEPT ![t].pc = "mask", ![t].el = cur[t]]
          /\ UNCHANGED prog /\ cur[t] \in Elems /\ ~ref[cur[t]].mask
        BY <1>0, <1>1, CallOp DEF IterPop, Pinnable
    <2>2. ~Inserts(t) /\ (Calls(t, {"fwdpop", "bwdpop"}) => cur[t] = cur[t])
        BY <1>0 DEF Inserts, Calls
    <2>3. QED
        BY <1>0, <2>1, <2>2, Removal
<1>2. CASE ~(cur[t] \in Elems /\ Pinnable(cur[t]))
    <2>1. Return(t) /\ UNCHANGED ref
        BY <1>2 DEF IterPop
    <2>2. ~Removing(t) /\ \A f \in Elems : Pins(t, f) = One(cur[t] = f)
        BY <1>0, IdleFacts
    <2>3. QED
        BY <1>0, <2>1, <2>2, QuietReturn DEF Known, TypeOK
<1>3. QED
    BY <1>1, <1>2

(* Delete preserves IInv. *)
LEMMA DeleteStep ==
    ASSUME IInv, NEW t \in Threads, Delete(t)
    PROVE  IInv'
<1>0. local[t].pc = "idle" /\ prog[t] # <<>> /\ Call(t).op \in {"delete"} /\ Known(t)
      /\ UNCHANGED <<links, lock, count, signal, cur, mine>>
    BY Knows DEF Delete, At, Calls, iter
<1>1. CASE Pinnable(Call(t).elem)
    <2>1. /\ Pin(Call(t).elem) /\ local' = [local EXCEPT ![t].pc = "mask", ![t].el = Call(t).elem]
          /\ UNCHANGED prog /\ Call(t).elem \in Elems /\ ~ref[Call(t).elem].mask
        BY <1>0, <1>1, CallOp DEF Delete, Pinnable
    <2>2. ~Inserts(t) /\ (Calls(t, {"fwdpop", "bwdpop"}) => cur[t] = Call(t).elem)
        BY <1>0 DEF Inserts, Calls
    <2>3. QED
        BY <1>0, <2>1, <2>2, Removal
<1>2. CASE ~(Pinnable(Call(t).elem))
    <2>1. Return(t) /\ UNCHANGED ref
        BY <1>2 DEF Delete
    <2>2. ~Removing(t) /\ \A f \in Elems : Pins(t, f) = One(cur[t] = f)
        BY <1>0, IdleFacts
    <2>3. QED
        BY <1>0, <2>1, <2>2, QuietReturn DEF Known, TypeOK
<1>3. QED
    BY <1>1, <1>2

(* IterPeeked preserves IInv. *)
LEMMA IterPeekedStep ==
    ASSUME IInv, NEW t \in Threads, IterPeeked(t)
    PROVE  IInv'
<1> DEFINE l == local[t]
           p == IF local[t].x = NULL THEN "settle" ELSE "unpeek"
<1>0. Known(t)
    BY Knows
<1>1. /\ l.pc = "found" /\ l.then = "peek" /\ lock' = lock
      /\ cur' \in [Threads -> Elems \cup {NULL, Done}]
         /\ (\A u \in Threads \ {t} : cur'[u] = cur[u])
      /\ Now(t, p, l.n, l.x, l.el, l.pinned, l.then)
      /\ UNCHANGED <<prog, links, ref, count, signal, mine>>
    <2>1. Goto(t, p) /\ p \in Pcs /\ l.pc = "found" /\ l.then = "peek"
             /\ cur' = [cur EXCEPT ![t] = OrDone(l.x)]
          /\ UNCHANGED <<prog, links, lock, ref, count, signal, mine>>
        BY DEF IterPeeked, At, SetIter, Pcs, SearchPcs, PairPcs, OffPcs, InsPcs
    <2>2. OrDone(l.x) \in Elems \cup {NULL, Done}
        BY <1>0, <2>1 DEF Known, LocalOK, Nodes, OrDone
    <2>3. cur' \in [Threads -> Elems \cup {NULL, Done}]
             /\ (\A u \in Threads \ {t} : cur'[u] = cur[u])
        BY <1>0, <2>1, <2>2 DEF Known, TypeOK
    <2>4. QED
        BY <1>0, <2>1, <2>3, GotoNow DEF Known
<1>2. Others(t) /\ next' = next /\ prev' = prev
    BY <1>1 DEF Others, Now, links, iter
<1>3. LocalOK(t)'
    BY <1>0, <1>1, <1>2, AtomicListAssumption
       DEF Known, Nodes, LocalOK, Now, Calls, Call, Inserts, SearchPcs, PairPcs, InsPcs, Moving,
           iter
<1>4. Steady(t) /\ Calm(t)
    BY <1>0, <1>1, <1>2 DEF Known, Steady, Calm, Now, Removing, Inserting, Claims, Counting, PinsEl,
       LocalOK, Calls, Call, Inserts, SearchPcs, PairPcs, InsPcs, OffPcs, Moving
<1>5. LockInv' /\ lock' \in [Nodes -> LockRec] /\ OwnersKept(t)
    <2>1. GoesOn(t, {})
        BY <1>0, <1>1, <1>2 DEF Known, GoesOn, LockOK, Now, Must, May, Owns, LocalOK
    <2>2. (XMode(t)' = XMode(t) \/ \A m \in Nodes : ~Must(t, m) /\ ~May(t, m)) /\ EndOK(t)'
          /\ l.pc # "clearyield"
        BY <1>1 DEF XMode, EndOK, Now, PairPcs, OffPcs, InsPcs, Must, May
    <2>3. QED
        BY <1>1, <1>2, <2>1, <2>2, NoRequest
<1>6. Members' = Members
    BY <1>1, <1>2, <1>4, SteadyMembers
<1>7. NearOK(t)'
    BY <1>0, <1>1, <1>2, <1>6 DEF Known, NearOK, Now, Anchored, OnList, PairPcs, Inserts, Calls,
                                  Call
<1>8. TypeOK'
    BY <1>0, <1>1, <1>5 DEF Known, TypeOK, Now, links, iter
<1>9. (\A f \in Elems : Pins(t, f)' = Pins(t, f)) /\ InsertsAlone(t)
    <2>1. \A f \in Elems :
             /\ Holds(t, "cur", f)' <=> Holds(t, "cur", f)
             /\ Holds(t, "pinned", f)' <=> Holds(t, "pinned", f)
             /\ Holds(t, "x", f)' <=> Holds(t, "x", f)
             /\ Holds(t, "el", f)' <=> Holds(t, "el", f)
        BY <1>0, <1>1, <1>2, AtomicListAssumption
           DEF Known, Nodes, Holds, Now, PinsEl, LocalOK, Calls, Call, Inserts,
       SearchPcs, PairPcs, InsPcs, Moving, iter
    <2>2. \A f \in Elems : Pins(t, f)' = Pins(t, f)
        BY <2>1 DEF Pins, One
    <2>3. InsertsAlone(t)
        BY <1>1, <2>1 DEF InsertsAlone, Kinds, Inserting, PairPcs
    <2>4. QED
        BY <2>2, <2>3
<1>10. QED
    BY <1>1, <1>2, <1>3, <1>7, <1>4, <1>5, <1>8, <1>9, QuietStep

(* IterUnpeek preserves IInv. *)
LEMMA IterUnpeekStep ==
    ASSUME IInv, NEW t \in Threads, IterUnpeek(t)
    PROVE  IInv'
<1> DEFINE l == local[t]
<1>0. Known(t)
    BY Knows
<1>1. /\ l.pc = "unpeek" /\ Now(t, "settle", l.n, l.x, l.el, l.pinned, l.then)
      /\ lock' = lock /\ Unpin(l.x)
      /\ UNCHANGED <<prog, links, count, iter, mine>>
    <2>1. Goto(t, "settle") /\ "settle" \in Pcs
        BY DEF IterUnpeek, Pcs, SearchPcs, PairPcs, OffPcs, InsPcs
    <2>2. QED
        BY <1>0, <2>1, GotoNow DEF Known, IterUnpeek, At, Owns
<1>2. Others(t) /\ next' = next /\ prev' = prev /\ cur' = cur
    BY <1>1 DEF Others, Now, links, iter
<1>3. PICK e \in Elems : e = l.x /\ Unpin(e) /\ Pins(t, e) > 0
    <2>1. l.x \in Elems
        BY <1>0, <1>1 DEF Known, LocalOK, Nodes
    <2>2. Holds(t, "x", l.x)
        BY <1>1 DEF Holds
    <2>3. QED
        BY <1>1, <2>1, <2>2, PinsHeld DEF Kinds
<1>4. LocalOK(t)'
    BY <1>0, <1>1, <1>2, AtomicListAssumption
       DEF Known, Nodes, LocalOK, Now, Calls, Call, Inserts, SearchPcs, PairPcs, InsPcs, Moving,
           iter
<1>5. Steady(t) /\ Calm(t)
    BY <1>0, <1>1, <1>2 DEF Known, Steady, Calm, Now, Removing, Inserting, Claims, Counting, PinsEl,
       LocalOK, Calls, Call, Inserts, SearchPcs, PairPcs, InsPcs, OffPcs, Moving
<1>6. LockInv' /\ lock' \in [Nodes -> LockRec] /\ OwnersKept(t)
    <2>1. GoesOn(t, {})
        BY <1>0, <1>1, <1>2 DEF Known, GoesOn, LockOK, Now, Must, May, Owns, LocalOK
    <2>2. (XMode(t)' = XMode(t) \/ \A m \in Nodes : ~Must(t, m) /\ ~May(t, m)) /\ EndOK(t)'
          /\ l.pc # "clearyield"
        BY <1>1 DEF XMode, EndOK, Now, PairPcs, OffPcs, InsPcs, Must, May
    <2>3. QED
        BY <1>1, <1>2, <2>1, <2>2, NoRequest
<1>7. Members' = Members
    BY <1>1, <1>2, <1>5, SteadyMembers
<1>8. NearOK(t)'
    BY <1>0, <1>1, <1>2, <1>7 DEF Known, NearOK, Now, Anchored, OnList, PairPcs, Inserts, Calls,
                                  Call
<1>9. TypeOK'
    <2>1. ref[e].pin > 0
        BY <1>3, PinsHeld, HeldIsPinned
    <2>2. /\ ref' \in [Elems -> [mask : BOOLEAN, pin : Nat, wait : SUBSET Threads]]
          /\ signal' \in [Threads -> BOOLEAN]
        BY <1>0, <1>3, <2>1, UnpinType DEF Known
    <2>3. QED
        BY <1>0, <1>1, <1>6, <2>2 DEF Known, TypeOK, Now, links, iter
<1>10. (\A f \in Elems : Pins(t, f)' = Pins(t, f) - One(f = e)) /\ ~Inserting(t)
    BY <1>0, <1>1, <1>2, <1>3, AtomicListAssumption
       DEF Known, One, Inserting, Nodes, Pins, Holds, Now, PinsEl, LocalOK, Calls, Call, Inserts,
       SearchPcs, PairPcs, InsPcs, Moving, iter
<1>11. QED
    BY <1>1, <1>2, <1>3, <1>4, <1>8, <1>5, <1>6, <1>9, <1>10, UnpinStep

(* LeaveUnpin preserves IInv. *)
LEMMA LeaveUnpinStep ==
    ASSUME IInv, NEW t \in Threads, LeaveUnpin(t)
    PROVE  IInv'
<1> DEFINE l == local[t]
<1>0. Known(t)
    BY Knows
<1>1. /\ l.pc = "unpin" /\ lock' = lock /\ Unpin(l.pinned)
      /\ Now(t, "found", l.n, l.x, l.el, NULL, l.then)
      /\ UNCHANGED <<prog, links, count, iter, mine>>
    <2>1. /\ local' = [local EXCEPT ![t].pc = "found", ![t].pinned = NULL] /\ "found" \in Pcs
        BY DEF LeaveUnpin, Pcs, SearchPcs
    <2>2. QED
        BY <1>0, <2>1, PutNow DEF Known, LeaveUnpin, At
<1>2. Others(t) /\ next' = next /\ prev' = prev /\ cur' = cur
    BY <1>1 DEF Others, Now, links, iter
<1>3. PICK e \in Elems : e = l.pinned /\ Unpin(e) /\ Pins(t, e) > 0
    <2>1. l.pinned \in Elems
        BY <1>0, <1>1 DEF Known, LocalOK
    <2>2. Holds(t, "pinned", l.pinned)
        BY <1>1 DEF Holds
    <2>3. QED
        BY <1>1, <2>1, <2>2, PinsHeld DEF Kinds
<1>4. LocalOK(t)'
    BY <1>0, <1>1, <1>2, AtomicListAssumption
       DEF Known, Nodes, LocalOK, Now, Calls, Call, Inserts, SearchPcs, PairPcs, InsPcs, Moving,
           iter
<1>5. Steady(t) /\ Calm(t)
    BY <1>0, <1>1, <1>2 DEF Known, Steady, Calm, Now, Removing, Inserting, Claims, Counting, PinsEl,
       LocalOK, Calls, Call, Inserts, SearchPcs, PairPcs, InsPcs, OffPcs, Moving
<1>6. LockInv' /\ lock' \in [Nodes -> LockRec] /\ OwnersKept(t)
    <2>1. GoesOn(t, {})
        BY <1>0, <1>1, <1>2 DEF Known, GoesOn, LockOK, Now, Must, May, Owns, LocalOK
    <2>2. (XMode(t)' = XMode(t) \/ \A m \in Nodes : ~Must(t, m) /\ ~May(t, m)) /\ EndOK(t)'
          /\ l.pc # "clearyield"
        BY <1>1 DEF XMode, EndOK, Now, PairPcs, OffPcs, InsPcs, Must, May
    <2>3. QED
        BY <1>1, <1>2, <2>1, <2>2, NoRequest
<1>7. Members' = Members
    BY <1>1, <1>2, <1>5, SteadyMembers
<1>8. NearOK(t)'
    BY <1>0, <1>1, <1>2, <1>7 DEF Known, NearOK, Now, Anchored, OnList, PairPcs, Inserts, Calls,
                                  Call
<1>9. TypeOK'
    <2>1. ref[e].pin > 0
        BY <1>3, PinsHeld, HeldIsPinned
    <2>2. /\ ref' \in [Elems -> [mask : BOOLEAN, pin : Nat, wait : SUBSET Threads]]
          /\ signal' \in [Threads -> BOOLEAN]
        BY <1>0, <1>3, <2>1, UnpinType DEF Known
    <2>3. QED
        BY <1>0, <1>1, <1>6, <2>2 DEF Known, TypeOK, Now, links, iter
<1>10. (\A f \in Elems : Pins(t, f)' = Pins(t, f) - One(f = e)) /\ ~Inserting(t)
    BY <1>0, <1>1, <1>2, <1>3, AtomicListAssumption
       DEF Known, One, Inserting, Nodes, Pins, Holds, Now, PinsEl, LocalOK, Calls, Call, Inserts,
       SearchPcs, PairPcs, InsPcs, Moving, iter
<1>11. QED
    BY <1>1, <1>2, <1>3, <1>4, <1>8, <1>5, <1>6, <1>9, <1>10, UnpinStep

(* DequeueFound goes on to mask what it has found. *)
LEMMA DequeueMask ==
    ASSUME IInv, NEW t \in Threads, DequeueFound(t), local[t].x # NULL
    PROVE  IInv'
<1> DEFINE l == local[t]
<1>0. Known(t)
    BY Knows
<1>1. /\ l.pc = "found" /\ l.then = "remove" /\ l.x \in Elems /\ lock' = lock
      /\ Now(t, "mask", l.n, l.x, l.x, l.pinned, l.then)
      /\ UNCHANGED <<prog, links, ref, count, signal, iter, mine>>
    <2>1. local' = [local EXCEPT ![t].pc = "mask", ![t].el = l.x] /\ "mask" \in Pcs
          /\ l.pc = "found" /\ l.then = "remove"
        BY DEF DequeueFound, At, Pcs
    <2>2. l.x \in Elems
        BY <1>0, <2>1 DEF Known, LocalOK, Nodes
    <2>3. QED
        BY <1>0, <2>1, <2>2, TakeNow DEF Known, DequeueFound
<1>2. Others(t) /\ next' = next /\ prev' = prev /\ cur' = cur
    BY <1>1 DEF Others, Now, links, iter
<1>3. LocalOK(t)'
    BY <1>0, <1>1, <1>2, AtomicListAssumption
       DEF Known, Nodes, LocalOK, Now, Calls, Call, Inserts, SearchPcs, PairPcs, InsPcs, Moving,
           iter
<1>4. Steady(t) /\ Calm(t)
    BY <1>0, <1>1, <1>2 DEF Known, Steady, Calm, Now, Removing, Inserting, Claims, Counting, PinsEl,
       LocalOK, Calls, Call, Inserts, SearchPcs, PairPcs, InsPcs, OffPcs, Moving
<1>5. LockInv' /\ lock' \in [Nodes -> LockRec] /\ OwnersKept(t)
    <2>1. GoesOn(t, {})
        BY <1>0, <1>1, <1>2 DEF Known, GoesOn, LockOK, Now, Must, May, Owns, LocalOK
    <2>2. (XMode(t)' = XMode(t) \/ \A m \in Nodes : ~Must(t, m) /\ ~May(t, m)) /\ EndOK(t)'
          /\ l.pc # "clearyield"
        BY <1>1 DEF XMode, EndOK, Now, PairPcs, OffPcs, InsPcs, Must, May
    <2>3. QED
        BY <1>1, <1>2, <2>1, <2>2, NoRequest
<1>6. Members' = Members
    BY <1>1, <1>2, <1>4, SteadyMembers
<1>7. NearOK(t)'
    BY <1>0, <1>1, <1>2, <1>6 DEF Known, NearOK, Now, Anchored, OnList, PairPcs, Inserts, Calls,
                                  Call
<1>8. TypeOK'
    BY <1>0, <1>1, <1>5 DEF Known, TypeOK, Now, links, iter
<1>9. (\A f \in Elems : Pins(t, f)' = Pins(t, f)) /\ InsertsAlone(t)
    <2>1. \A f \in Elems : /\ (Holds(t, "cur", f)' <=> Holds(t, "cur", f))
                              /\ (Holds(t, "pinned", f)' <=> Holds(t, "pinned", f))
                              /\ (Holds(t, "el", f)' <=> Holds(t, "x", f)) /\ ~Holds(t, "x", f)'
                                 /\ ~Holds(t, "el", f)
        BY <1>0, <1>1, <1>2, AtomicListAssumption
           DEF Known, Nodes, Holds, Now, PinsEl, LocalOK, Calls, Call, Inserts,
       SearchPcs, PairPcs, InsPcs, Moving, iter
    <2>2. \A f \in Elems : Pins(t, f)' = Pins(t, f)
        BY <2>1 DEF Pins, One
    <2>3. InsertsAlone(t)
        BY <1>1, <2>1 DEF InsertsAlone, Kinds, Inserting, PairPcs
    <2>4. QED
        BY <2>2, <2>3
<1>10. QED
    BY <1>1, <1>2, <1>3, <1>7, <1>4, <1>5, <1>8, <1>9, QuietStep

(* DequeueFound preserves IInv. *)
LEMMA DequeueFoundStep ==
    ASSUME IInv, NEW t \in Threads, DequeueFound(t)
    PROVE  IInv'
<1>1. CASE local[t].x # NULL
    BY <1>1, DequeueMask
<1>2. CASE local[t].x = NULL
    <2>1. local[t].pc = "found" /\ local[t].then = "remove" /\ Known(t) /\ Return(t)
          /\ UNCHANGED <<links, lock, ref, count, signal, cur, mine>>
        BY <1>2, Knows DEF DequeueFound, At, iter
    <2>2. prog[t] # <<>> /\ local[t].pinned = NULL /\ ~Removing(t)
        BY <2>1 DEF Known, LocalOK, Removing, PairPcs, OffPcs
    <2>3. \A f \in Elems : Pins(t, f) = One(cur[t] = f)
        BY <1>2, <2>1, <2>2, AtomicListAssumption
           DEF Pins, One, Holds, PinsEl, PairPcs, InsPcs, Moving, Nodes
    <2>4. QED
        BY <2>1, <2>2, <2>3, QuietReturn DEF Known, TypeOK
<1>3. QED
    BY <1>1, <1>2

(* Somebody else has masked the element. *)
LEMMA MaskFails ==
    ASSUME IInv, NEW t \in Threads, Mask(t), ref[local[t].el].mask
    PROVE  IInv'
<1> DEFINE l == local[t]
<1>0. Known(t)
    BY Knows
<1>1. /\ l.pc = "mask" /\ Now(t, "fail", l.n, l.x, l.el, l.pinned, l.then)
      /\ lock' = lock
      /\ UNCHANGED <<prog, links, ref, count, signal, iter, mine>>
    <2>1. Goto(t, "fail") /\ "fail" \in Pcs
        BY DEF Mask, Pcs, SearchPcs, PairPcs, OffPcs, InsPcs
    <2>2. QED
        BY <1>0, <2>1, GotoNow DEF Known, Mask, At, Owns, iter
<1>2. Others(t) /\ next' = next /\ prev' = prev /\ cur' = cur
    BY <1>1 DEF Others, Now, links, iter
<1>3. LocalOK(t)'
    BY <1>0, <1>1, <1>2, AtomicListAssumption
       DEF Known, Nodes, LocalOK, Now, Calls, Call, Inserts, SearchPcs, PairPcs, InsPcs, Moving,
           iter
<1>4. Steady(t) /\ Calm(t)
    BY <1>0, <1>1, <1>2 DEF Known, Steady, Calm, Now, Removing, Inserting, Claims, Counting, PinsEl,
       LocalOK, Calls, Call, Inserts, SearchPcs, PairPcs, InsPcs, OffPcs, Moving
<1>5. LockInv' /\ lock' \in [Nodes -> LockRec] /\ OwnersKept(t)
    <2>1. GoesOn(t, {})
        BY <1>0, <1>1, <1>2 DEF Known, GoesOn, LockOK, Now, Must, May, Owns, LocalOK
    <2>2. (XMode(t)' = XMode(t) \/ \A m \in Nodes : ~Must(t, m) /\ ~May(t, m)) /\ EndOK(t)'
          /\ l.pc # "clearyield"
        BY <1>1 DEF XMode, EndOK, Now, PairPcs, OffPcs, InsPcs, Must, May
    <2>3. QED
        BY <1>1, <1>2, <2>1, <2>2, NoRequest
<1>6. Members' = Members
    BY <1>1, <1>2, <1>4, SteadyMembers
<1>7. NearOK(t)'
    BY <1>0, <1>1, <1>2, <1>6 DEF Known, NearOK, Now, Anchored, OnList, PairPcs, Inserts, Calls,
                                  Call
<1>8. TypeOK'
    BY <1>0, <1>1, <1>5 DEF Known, TypeOK, Now, links, iter
<1>9. (\A f \in Elems : Pins(t, f)' = Pins(t, f)) /\ InsertsAlone(t)
    <2>1. \A f \in Elems :
             /\ Holds(t, "cur", f)' <=> Holds(t, "cur", f)
             /\ Holds(t, "pinned", f)' <=> Holds(t, "pinned", f)
             /\ Holds(t, "x", f)' <=> Holds(t, "x", f)
             /\ Holds(t, "el", f)' <=> Holds(t, "el", f)
        BY <1>0, <1>1, <1>2, AtomicListAssumption
           DEF Known, Nodes, Holds, Now, PinsEl, LocalOK, Calls, Call, Inserts,
       SearchPcs, PairPcs, InsPcs, Moving, iter
    <2>2. \A f \in Elems : Pins(t, f)' = Pins(t, f)
        BY <2>1 DEF Pins, One
    <2>3. InsertsAlone(t)
        BY <1>1, <2>1 DEF InsertsAlone, Kinds, Inserting, PairPcs
    <2>4. QED
        BY <2>2, <2>3
<1>10. QED
    BY <1>1, <1>2, <1>3, <1>7, <1>4, <1>5, <1>8, <1>9, QuietStep

(* The first element to cross, from an element. *)
LEMMA CrossedFirst ==
    ASSUME IInv, NEW t \in Threads, PrevCrossed(t), local[t].pinned = NULL, local[t].n # TAIL
    PROVE  IInv'
<1> DEFINE l == local[t]
<1>0. Known(t)
    BY Knows
<1>1. l.pc = "crossed" /\ l.x \in Elems /\ l.n # l.x /\ l.x \in Nodes /\ l.n \in Nodes
         /\ ~Inserting(t)
    <2>1. l.pc = "crossed"
        BY DEF PrevCrossed, At
    <2>2. QED
        BY <1>0, <2>1 DEF Known, LocalOK, SearchPcs, Nodes, Inserting, PairPcs
<1>2. /\ l.pc = "crossed" /\ UNCHANGED <<ref, signal>>
      /\ lock' = lock
      /\ Now(t, "prev", l.x, l.x, l.el, l.x, l.then)
      /\ UNCHANGED <<prog, links, ref, count, signal, iter, mine>>
    <2>1. /\ local' = [local EXCEPT ![t].pc = "prev", ![t].n = l.x, ![t].pinned = l.x]
          /\ "prev" \in Pcs /\ l.pc = "crossed"
        BY DEF PrevCrossed, At, Pcs, SearchPcs
    <2>2. QED
        BY <1>0, <1>1, <2>1, CrossNow DEF Known, PrevCrossed
<1>3. Others(t) /\ next' = next /\ prev' = prev /\ cur' = cur
    BY <1>2 DEF Others, Now, links, iter
<1>4. LocalOK(t)'
    BY <1>0, <1>2, <1>3, <1>1, AtomicListAssumption
       DEF Known, Nodes, LocalOK, Now, Calls, Call, Inserts, SearchPcs, PairPcs, InsPcs, Moving,
           iter
<1>5. Steady(t) /\ Calm(t)
    BY <1>0, <1>2, <1>3 DEF Known, Steady, Calm, Now, Removing, Inserting, Claims, Counting, PinsEl,
       LocalOK, Calls, Call, Inserts, SearchPcs, PairPcs, InsPcs, OffPcs, Moving
<1>6. LockInv' /\ lock' \in [Nodes -> LockRec] /\ OwnersKept(t)
    <2>1. GoesOn(t, {})
        BY <1>0, <1>2, <1>3, <1>1 DEF Known, GoesOn, LockOK, Now, Must, May, Owns, LocalOK
    <2>2. (XMode(t)' = XMode(t) \/ \A m \in Nodes : ~Must(t, m) /\ ~May(t, m)) /\ EndOK(t)'
          /\ l.pc # "clearyield"
        BY <1>2 DEF XMode, EndOK, Now, PairPcs, OffPcs, InsPcs, Must, May
    <2>3. QED
        BY <1>2, <1>3, <2>1, <2>2, NoRequest
<1>7. Members' = Members
    BY <1>2, <1>3, <1>5, SteadyMembers
<1>8. NearOK(t)'
    BY <1>0, <1>2, <1>3, <1>7, <1>1 DEF Known, NearOK, Now, Anchored, OnList, PairPcs, Inserts,
                                        Calls, Call
<1>9. TypeOK'
    BY <1>0, <1>2, <1>6 DEF Known, TypeOK, Now, links, iter
<1>10. (\A f \in Elems : Pins(t, f)' = Pins(t, f)) /\ InsertsAlone(t)
    <2>1. \A f \in Elems : /\ (Holds(t, "cur", f)' <=> Holds(t, "cur", f))
                              /\ (Holds(t, "el", f)' <=> Holds(t, "el", f))
                              /\ (Holds(t, "pinned", f)' <=> Holds(t, "x", f))
                                 /\ ~Holds(t, "x", f)' /\ ~Holds(t, "pinned", f)
        BY <1>0, <1>2, <1>3, <1>1, AtomicListAssumption
           DEF Known, Nodes, Holds, Now, PinsEl, LocalOK, Calls, Call, Inserts,
       SearchPcs, PairPcs, InsPcs, Moving, iter
    <2>2. \A f \in Elems : Pins(t, f)' = Pins(t, f)
        BY <2>1 DEF Pins, One
    <2>3. InsertsAlone(t)
        BY <1>2, <2>1 DEF InsertsAlone, Kinds, Inserting, PairPcs
    <2>4. QED
        BY <2>2, <2>3
<1>11. QED
    BY <1>2, <1>3, <1>4, <1>8, <1>5, <1>6, <1>9, <1>10, QuietStep

(* The first element to cross, from the tail. *)
LEMMA CrossedFirstTail ==
    ASSUME IInv, NEW t \in Threads, PrevCrossed(t), local[t].pinned = NULL, local[t].n = TAIL
    PROVE  IInv'
<1> DEFINE l == local[t]
<1>0. Known(t)
    BY Knows
<1>1. l.pc = "crossed" /\ l.x \in Elems /\ l.n # l.x /\ l.x \in Nodes /\ l.n \in Nodes
         /\ ~Inserting(t)
    <2>1. l.pc = "crossed"
        BY DEF PrevCrossed, At
    <2>2. QED
        BY <1>0, <2>1 DEF Known, LocalOK, SearchPcs, Nodes, Inserting, PairPcs
<1>2. /\ l.pc = "crossed" /\ UNCHANGED <<ref, signal>>
      /\ lock' = Request(lock, l.x, t, FALSE)
      /\ Now(t, "prev", l.x, l.x, l.el, l.x, l.then)
      /\ UNCHANGED <<prog, links, ref, count, signal, iter, mine>>
    <2>1. /\ local' = [local EXCEPT ![t].pc = "prev", ![t].n = l.x, ![t].pinned = l.x]
          /\ "prev" \in Pcs /\ l.pc = "crossed"
        BY DEF PrevCrossed, At, Pcs, SearchPcs
    <2>2. QED
        BY <1>0, <1>1, <2>1, CrossNow DEF Known, PrevCrossed
<1>3. Others(t) /\ next' = next /\ prev' = prev /\ cur' = cur
    BY <1>2 DEF Others, Now, links, iter
<1>4. Fresh(t, l.x)
    <2>1. Holds(t, "x", l.x)
        BY <1>2 DEF Holds
    <2>2. QED
        BY <1>1, <2>1, FreshHeld DEF Kinds
<1>5. LocalOK(t)'
    BY <1>0, <1>2, <1>3, <1>1, AtomicListAssumption
       DEF Known, Nodes, LocalOK, Now, Calls, Call, Inserts, SearchPcs, PairPcs, InsPcs, Moving,
           iter
<1>6. Steady(t) /\ Calm(t)
    BY <1>0, <1>2, <1>3 DEF Known, Steady, Calm, Now, Removing, Inserting, Claims, Counting, PinsEl,
       LocalOK, Calls, Call, Inserts, SearchPcs, PairPcs, InsPcs, OffPcs, Moving
<1>7. LockInv' /\ lock' \in [Nodes -> LockRec] /\ OwnersKept(t)
    <2>1. PICK a \in Nodes : a = l.x /\ Fresh(t, a)
        BY <1>4 DEF Fresh
    <2>2. ~Must(t, a) /\ ~May(t, a)
        BY <1>0, <1>2, <1>3, <1>4, <2>1, <1>1 DEF Known, LocalOK, Must, May
    <2>3. (Must(t, a)' \/ May(t, a)') /\ (Must(t, a)' => Grantable(lock[a], FALSE))
        BY <1>0, <1>2, <1>3, <1>4, <2>1, <1>1 DEF Known, LocalOK, Now, Must, May
    <2>4. GoesOn(t, {a})
        BY <1>0, <1>2, <1>3, <1>4, <2>1, <1>1
           DEF Known, GoesOn, LockOK, Now, Must, May, Owns, LocalOK
    <2>5. XMode(t)' = FALSE /\ (XMode(t) = FALSE \/ \A m \in Nodes : ~Must(t, m) /\ ~May(t, m))
        BY <1>0, <1>2 DEF XMode, Now, PairPcs, OffPcs, InsPcs, Must, May
    <2>6. EndOK(t)' /\ l.pc # "clearyield"
        BY <1>2 DEF EndOK, Now
    <2>7. QED
        BY <1>2, <1>3, <2>1, <2>2, <2>3, <2>4, <2>5, <2>6, OneRequest
<1>8. Members' = Members
    BY <1>2, <1>3, <1>6, SteadyMembers
<1>9. NearOK(t)'
    BY <1>0, <1>2, <1>3, <1>8, <1>1 DEF Known, NearOK, Now, Anchored, OnList, PairPcs, Inserts,
                                        Calls, Call
<1>10. TypeOK'
    BY <1>0, <1>2, <1>7 DEF Known, TypeOK, Now, links, iter
<1>11. (\A f \in Elems : Pins(t, f)' = Pins(t, f)) /\ InsertsAlone(t)
    <2>1. \A f \in Elems : /\ (Holds(t, "cur", f)' <=> Holds(t, "cur", f))
                              /\ (Holds(t, "el", f)' <=> Holds(t, "el", f))
                              /\ (Holds(t, "pinned", f)' <=> Holds(t, "x", f))
                                 /\ ~Holds(t, "x", f)' /\ ~Holds(t, "pinned", f)
        BY <1>0, <1>2, <1>3, <1>1, AtomicListAssumption
           DEF Known, Nodes, Holds, Now, PinsEl, LocalOK, Calls, Call, Inserts,
       SearchPcs, PairPcs, InsPcs, Moving, iter
    <2>2. \A f \in Elems : Pins(t, f)' = Pins(t, f)
        BY <2>1 DEF Pins, One
    <2>3. InsertsAlone(t)
        BY <1>2, <2>1 DEF InsertsAlone, Kinds, Inserting, PairPcs
    <2>4. QED
        BY <2>2, <2>3
<1>12. QED
    BY <1>2, <1>3, <1>5, <1>9, <1>6, <1>7, <1>10, <1>11, QuietStep

(* The one crossed before is unpinned. *)
LEMMA CrossedElem ==
    ASSUME IInv, NEW t \in Threads, PrevCrossed(t), local[t].pinned # NULL, local[t].n # TAIL
    PROVE  IInv'
<1> DEFINE l == local[t]
<1>0. Known(t)
    BY Knows
<1>1. l.pc = "crossed" /\ l.x \in Elems /\ l.n # l.x /\ l.x \in Nodes /\ l.n \in Nodes
         /\ ~Inserting(t)
    <2>1. l.pc = "crossed"
        BY DEF PrevCrossed, At
    <2>2. QED
        BY <1>0, <2>1 DEF Known, LocalOK, SearchPcs, Nodes, Inserting, PairPcs
<1>2. /\ l.pc = "crossed" /\ Unpin(l.pinned)
      /\ lock' = lock
      /\ Now(t, "prev", l.x, l.x, l.el, l.x, l.then)
      /\ UNCHANGED <<prog, links, count, iter, mine>>
    <2>1. /\ local' = [local EXCEPT ![t].pc = "prev", ![t].n = l.x, ![t].pinned = l.x]
          /\ "prev" \in Pcs /\ l.pc = "crossed"
        BY DEF PrevCrossed, At, Pcs, SearchPcs
    <2>2. QED
        BY <1>0, <1>1, <2>1, CrossNow DEF Known, PrevCrossed
<1>3. Others(t) /\ next' = next /\ prev' = prev /\ cur' = cur
    BY <1>2 DEF Others, Now, links, iter
<1>4. PICK e \in Elems : e = l.pinned /\ Unpin(e) /\ Pins(t, e) > 0
    <2>1. l.pinned \in Elems
        BY <1>0 DEF Known
    <2>2. Holds(t, "pinned", l.pinned)
        BY DEF Holds
    <2>3. QED
        BY <1>2, <2>1, <2>2, PinsHeld DEF Kinds
<1>5. LocalOK(t)'
    BY <1>0, <1>2, <1>3, <1>1, AtomicListAssumption
       DEF Known, Nodes, LocalOK, Now, Calls, Call, Inserts, SearchPcs, PairPcs, InsPcs, Moving,
           iter
<1>6. Steady(t) /\ Calm(t)
    BY <1>0, <1>2, <1>3 DEF Known, Steady, Calm, Now, Removing, Inserting, Claims, Counting, PinsEl,
       LocalOK, Calls, Call, Inserts, SearchPcs, PairPcs, InsPcs, OffPcs, Moving
<1>7. LockInv' /\ lock' \in [Nodes -> LockRec] /\ OwnersKept(t)
    <2>1. GoesOn(t, {})
        BY <1>0, <1>2, <1>3, <1>1 DEF Known, GoesOn, LockOK, Now, Must, May, Owns, LocalOK
    <2>2. (XMode(t)' = XMode(t) \/ \A m \in Nodes : ~Must(t, m) /\ ~May(t, m)) /\ EndOK(t)'
          /\ l.pc # "clearyield"
        BY <1>2 DEF XMode, EndOK, Now, PairPcs, OffPcs, InsPcs, Must, May
    <2>3. QED
        BY <1>2, <1>3, <2>1, <2>2, NoRequest
<1>8. Members' = Members
    BY <1>2, <1>3, <1>6, SteadyMembers
<1>9. NearOK(t)'
    BY <1>0, <1>2, <1>3, <1>8, <1>1 DEF Known, NearOK, Now, Anchored, OnList, PairPcs, Inserts,
                                        Calls, Call
<1>10. TypeOK'
    <2>1. ref[e].pin > 0
        BY <1>4, PinsHeld, HeldIsPinned
    <2>2. /\ ref' \in [Elems -> [mask : BOOLEAN, pin : Nat, wait : SUBSET Threads]]
          /\ signal' \in [Threads -> BOOLEAN]
        BY <1>0, <1>4, <2>1, UnpinType DEF Known
    <2>3. QED
        BY <1>0, <1>2, <1>7, <2>2 DEF Known, TypeOK, Now, links, iter
<1>11. (\A f \in Elems : Pins(t, f)' = Pins(t, f) - One(f = e)) /\ ~Inserting(t)
    BY <1>0, <1>2, <1>3, <1>4, <1>1, AtomicListAssumption
       DEF Known, One, Inserting, Nodes, Pins, Holds, Now, PinsEl, LocalOK, Calls, Call, Inserts,
       SearchPcs, PairPcs, InsPcs, Moving, iter
<1>12. QED
    BY <1>2, <1>3, <1>4, <1>5, <1>9, <1>6, <1>7, <1>10, <1>11, UnpinStep

(* PrevCrossed of a search that began at the end of the list, and has a pin. *)
LEMMA CrossedTail ==
    ASSUME IInv, NEW t \in Threads, PrevCrossed(t), local[t].pinned # NULL, local[t].n = TAIL
    PROVE  IInv'
<1> DEFINE l == local[t]
<1>0. Known(t)
    BY Knows
<1>1. l.pc = "crossed" /\ l.x \in Elems /\ l.n # l.x /\ l.x \in Nodes /\ l.n \in Nodes
         /\ ~Inserting(t)
    <2>1. l.pc = "crossed"
        BY DEF PrevCrossed, At
    <2>2. QED
        BY <1>0, <2>1 DEF Known, LocalOK, SearchPcs, Nodes, Inserting, PairPcs
<1>2. /\ l.pc = "crossed" /\ Unpin(l.pinned)
      /\ lock' = Request(lock, l.x, t, FALSE)
      /\ Now(t, "prev", l.x, l.x, l.el, l.x, l.then)
      /\ UNCHANGED <<prog, links, count, iter, mine>>
    <2>1. /\ local' = [local EXCEPT ![t].pc = "prev", ![t].n = l.x, ![t].pinned = l.x]
          /\ "prev" \in Pcs /\ l.pc = "crossed"
        BY DEF PrevCrossed, At, Pcs, SearchPcs
    <2>2. QED
        BY <1>0, <1>1, <2>1, CrossNow DEF Known, PrevCrossed
<1>3. Others(t) /\ next' = next /\ prev' = prev /\ cur' = cur
    BY <1>2 DEF Others, Now, links, iter
<1>4. Fresh(t, l.x)
    <2>1. Holds(t, "x", l.x)
        BY <1>2 DEF Holds
    <2>2. QED
        BY <1>1, <2>1, FreshHeld DEF Kinds
<1>5. PICK e \in Elems : e = l.pinned /\ Unpin(e) /\ Pins(t, e) > 0
    <2>1. l.pinned \in Elems
        BY <1>0 DEF Known
    <2>2. Holds(t, "pinned", l.pinned)
        BY DEF Holds
    <2>3. QED
        BY <1>2, <2>1, <2>2, PinsHeld DEF Kinds
<1>6. LocalOK(t)'
    BY <1>0, <1>2, <1>3, <1>1, AtomicListAssumption
       DEF Known, Nodes, LocalOK, Now, Calls, Call, Inserts, SearchPcs, PairPcs, InsPcs, Moving,
           iter
<1>7. Steady(t) /\ Calm(t)
    BY <1>0, <1>2, <1>3 DEF Known, Steady, Calm, Now, Removing, Inserting, Claims, Counting, PinsEl,
       LocalOK, Calls, Call, Inserts, SearchPcs, PairPcs, InsPcs, OffPcs, Moving
<1>8. LockInv' /\ lock' \in [Nodes -> LockRec] /\ OwnersKept(t)
    <2>1. PICK a \in Nodes : a = l.x /\ Fresh(t, a)
        BY <1>4 DEF Fresh
    <2>2. ~Must(t, a) /\ ~May(t, a)
        BY <1>0, <1>2, <1>3, <1>4, <2>1, <1>1 DEF Known, LocalOK, Must, May
    <2>3. (Must(t, a)' \/ May(t, a)') /\ (Must(t, a)' => Grantable(lock[a], FALSE))
        BY <1>0, <1>2, <1>3, <1>4, <2>1, <1>1 DEF Known, LocalOK, Now, Must, May
    <2>4. GoesOn(t, {a})
        BY <1>0, <1>2, <1>3, <1>4, <2>1, <1>1
           DEF Known, GoesOn, LockOK, Now, Must, May, Owns, LocalOK
    <2>5. XMode(t)' = FALSE /\ (XMode(t) = FALSE \/ \A m \in Nodes : ~Must(t, m) /\ ~May(t, m))
        BY <1>0, <1>2 DEF XMode, Now, PairPcs, OffPcs, InsPcs, Must, May
    <2>6. EndOK(t)' /\ l.pc # "clearyield"
        BY <1>2 DEF EndOK, Now
    <2>7. QED
        BY <1>2, <1>3, <2>1, <2>2, <2>3, <2>4, <2>5, <2>6, OneRequest
<1>9. Members' = Members
    BY <1>2, <1>3, <1>7, SteadyMembers
<1>10. NearOK(t)'
    BY <1>0, <1>2, <1>3, <1>9, <1>1 DEF Known, NearOK, Now, Anchored, OnList, PairPcs, Inserts,
                                        Calls, Call
<1>11. TypeOK'
    <2>1. ref[e].pin > 0
        BY <1>5, PinsHeld, HeldIsPinned
    <2>2. /\ ref' \in [Elems -> [mask : BOOLEAN, pin : Nat, wait : SUBSET Threads]]
          /\ signal' \in [Threads -> BOOLEAN]
        BY <1>0, <1>5, <2>1, UnpinType DEF Known
    <2>3. QED
        BY <1>0, <1>2, <1>8, <2>2 DEF Known, TypeOK, Now, links, iter
<1>12. (\A f \in Elems : Pins(t, f)' = Pins(t, f) - One(f = e)) /\ ~Inserting(t)
    BY <1>0, <1>2, <1>3, <1>5, <1>1, AtomicListAssumption
       DEF Known, One, Inserting, Nodes, Pins, Holds, Now, PinsEl, LocalOK, Calls, Call, Inserts,
       SearchPcs, PairPcs, InsPcs, Moving, iter
<1>13. QED
    BY <1>2, <1>3, <1>5, <1>6, <1>10, <1>7, <1>8, <1>11, <1>12, UnpinStep

(* PrevCrossed preserves IInv. *)
LEMMA PrevCrossedStep ==
    ASSUME IInv, NEW t \in Threads, PrevCrossed(t)
    PROVE  IInv'
BY CrossedFirst, CrossedFirstTail, CrossedElem, CrossedTail

-------------------------------------------------------------------------------
(* Waiting.  A thread that has been woken goes on. *)
LEMMA WakeStep ==
    ASSUME IInv, NEW t \in Threads, Others(t), Steady(t), OwnersKept(t),
           UNCHANGED <<links, ref, count, mine>>,
           signal[t], signal' = [signal EXCEPT ![t] = FALSE],
           local[t].pc \in {"await", "asleep"}, PinsEl(t) => PinsEl(t)',
           local'[t].pc \notin {"await", "deferred", "asleep", "clearyield", "cleared"},
           TypeOK', LocalOK(t)', LockInv', NearOK(t)',
           \A e \in Elems : Pins(t, e)' = Pins(t, e), InsertsAlone(t)
    PROVE  IInv'
<1>1. ref' = ref /\ (\A u \in Threads \ {t} : signal'[u] = signal[u]) /\ ~signal'[t]
    BY DEF IInv, TypeOK
<1>2. Rely(t)
    BY <1>1, RelyQuiet
<1>3. WaitOK(t)'
    <2>1. WaitOK(t) /\ ClaimOK(t)
        BY Here
    <2>2. Claims(t) => local'[t].el = local[t].el /\ local[t].el \in Elems
        BY ClaimElem DEF Steady
    <2>3. Removing(t)' /\ ~PinsEl(t)' => ref[local'[t].el].pin = 0
        <3> SUFFICES ASSUME Removing(t), ~PinsEl(t) PROVE ref[local'[t].el].pin = 0
            BY DEF Steady
        <3>1. ref[local[t].el].pin = 0
            BY <2>1 DEF WaitOK
        <3>2. QED
            BY <2>2, <3>1 DEF Claims
    <2>4. \A e \in Elems : t \notin ref'[e].wait
        BY <1>1, <2>1 DEF WaitOK
    <2>5. Inserting(t)' => ref'[local'[t].el].wait = {}
        BY <1>1, <2>1, <2>2 DEF WaitOK, Steady, Claims
    <2>6. QED
        BY <1>1, <2>3, <2>4, <2>5 DEF WaitOK
<1>4. \A e \in Elems : ref'[e].pin = ref[e].pin + Pins(t, e)' - Pins(t, e)
    <2>1. \A e \in Elems : Pins(t, e) \in 0..4 /\ ref[e].pin \in Nat
        BY PinsCounted DEF IInv, TypeOK
    <2>2. QED
        BY <1>1, <2>1
<1>5. QED
    BY <1>1, <1>2, <1>3, <1>4, SteadyStep DEF InsertsAlone

(* A removal gives up its pin, and waits for the other pins. *)
Settles(t, e) ==
    ref' = [ref EXCEPT ![e].pin = @ - 1, ![e].wait = IF ref[e].pin = 1 THEN @ ELSE {t}]

(* RemoveWait, whether it goes on or waits, preserves what the others rely *)
(* on.                                                                     *)
LEMMA SettleStep ==
    ASSUME IInv, NEW t \in Threads, Others(t), Steady(t), OwnersKept(t),
           UNCHANGED <<links, count, signal, mine>>, local[t].pc = "settle",
           NEW e \in Elems, e = local[t].el, Settles(t, e),
           ref[e].pin = 1 =>
              local'[t].pc \notin {"await", "deferred", "asleep", "clearyield", "cleared"},
           ref[e].pin # 1 => local'[t].pc = "await",
           TypeOK', LocalOK(t)', LockInv', NearOK(t)',
           \A f \in Elems : Pins(t, f)' = Pins(t, f) - One(f = e)
    PROVE  IInv'
<1>0. WaitOK(t) /\ ClaimOK(t) /\ Removing(t) /\ Claims(t) /\ ~signal[t] /\ local'[t].el = e
      /\ ref[e].mask /\ OnList(e) /\ ~Inserting(t)
    <2>1. WaitOK(t) /\ ClaimOK(t) /\ Removing(t) /\ Claims(t)
        BY Here DEF Removing, Claims
    <2>2. QED
        BY <2>1 DEF WaitOK, ClaimOK, Steady, Inserting, PairPcs
<1>1. Pins(t, e) > 0 /\ ref[e].pin > 0
    <2>1. Holds(t, "el", e)
        BY DEF Holds, PinsEl
    <2>2. QED
        BY <2>1, PinsHeld, HeldIsPinned DEF Kinds
<1>2. ref[e].wait = {}
    <2> SUFFICES ASSUME NEW u \in Threads, u \in ref[e].wait PROVE FALSE
        BY DEF IInv, TypeOK
    <2>1. local[u].pc = "await" /\ local[u].el = e
        BY <1>1, Here DEF WaitOK
    <2>2. Claims(u)
        BY <2>1 DEF Claims, Removing
    <2>3. u = t
        BY <1>0, <2>1, <2>2 DEF IInv, ClaimInv
    <2>4. QED
        BY <2>1, <2>3
<1>3. /\ ref'[e].pin = ref[e].pin - 1
      /\ ref'[e].wait = IF ref[e].pin = 1 THEN {} ELSE {t}
      /\ \A f \in Elems : ref'[f].mask = ref[f].mask
      /\ \A f \in Elems \ {e} : ref'[f] = ref[f]
    <2>1. PICK w : w = IF ref[e].pin = 1 THEN ref[e].wait ELSE {t}
        OBVIOUS
    <2>2. ref' = [ref EXCEPT ![e].pin = @ - 1, ![e].wait = w]
        BY <2>1 DEF IInv, TypeOK, Settles
    <2>3. QED
        BY <1>2, <2>1, <2>2 DEF IInv, TypeOK
<1>4. \A f \in Elems : ref[f].pin \in Nat /\ Pins(t, f) \in 0..4
    BY PinsCounted DEF IInv, TypeOK
<1>5. Rely(t)
    <2>1. \A f \in Elems : ref[f].mask /\ ref[f].pin = 0 /\ OnList(f) => ref'[f].pin = 0
        BY <1>1, <1>3
    <2>2. \A f \in Elems : t \in ref'[f].wait => t \in ref[f].wait \/ f = e
        BY <1>3
    <2>3. \A u \in Threads \ {t}, f \in Elems : u \in ref'[f].wait \/ u \in ref[f].wait => f # e
        BY <1>2, <1>3
    <2>4. \A u \in Threads \ {t}, f \in Elems :
             u \in ref'[f].wait \/ u \in ref[f].wait => ref'[f] = ref[f]
        BY <1>3, <2>3
    <2>5. QED
        BY <1>3, <2>1, <2>2, <2>4, SteadyMembers DEF Rely, OnList, At
<1>6. WaitOK(t)'
    <2>1. Removing(t)' /\ ~PinsEl(t)' /\ local'[t].pc # "await" => ref'[local'[t].el].pin = 0
        BY <1>0, <1>3, <1>4
    <2>2. local'[t].pc = "await" => ref'[local'[t].el].pin > 0 /\ ref'[local'[t].el].wait = {t}
        BY <1>0, <1>1, <1>3, <1>4
    <2>3. ~signal'[t]
        BY <1>0
    <2>4. \A f \in Elems : t \in ref'[f].wait => local'[t].pc = "await" /\ local'[t].el = f
        <3>1. \A f \in Elems : t \notin ref[f].wait
            BY <1>0 DEF WaitOK
        <3>2. QED
            BY <1>0, <1>3, <3>1
    <2>5. ~Inserting(t)' /\ local'[t].pc \notin {"clearyield", "cleared"}
        BY <1>0 DEF Steady
    <2>6. QED
        BY <2>1, <2>2, <2>3, <2>4, <2>5 DEF WaitOK
<1>7. \A f \in Elems : ref'[f].pin = ref[f].pin + Pins(t, f)' - Pins(t, f)
    BY <1>3, <1>4 DEF One
<1>8. \A f \in Elems : Pins(t, f)' > 0 => Pins(t, f) > 0
    BY <1>4 DEF One
<1>9. \A f \in Elems : ~OnList(f) => ref'[f] = ref[f]
    BY <1>0, <1>3
<1>10. QED
    BY <1>0, <1>3, <1>5, <1>6, <1>7, <1>8, <1>9, SteadyStep

(* PrevAwake preserves IInv. *)
LEMMA PrevAwakeStep ==
    ASSUME IInv, NEW t \in Threads, PrevAwake(t)
    PROVE  IInv'
<1> DEFINE l == local[t]
<1>0. Known(t)
    BY Knows
<1>1. /\ l.pc = "asleep" /\ Now(t, "prev", l.n, l.x, l.el, l.pinned, l.then)
      /\ lock' = Request(lock, l.n, t, FALSE) /\ signal[t] /\ signal' = [signal EXCEPT ![t] = FALSE]
      /\ UNCHANGED <<prog, links, ref, count, iter, mine>>
    <2>1. Goto(t, "prev") /\ "prev" \in Pcs
        BY DEF PrevAwake, Pcs, SearchPcs, PairPcs, OffPcs, InsPcs
    <2>2. QED
        BY <1>0, <2>1, GotoNow DEF Known, PrevAwake, At, Owns
<1>2. Others(t) /\ next' = next /\ prev' = prev /\ cur' = cur
    BY <1>1 DEF Others, Now, links, iter
<1>3. Fresh(t, l.n)
    BY <1>1, BackwardNode
<1>4. LocalOK(t)'
    BY <1>0, <1>1, <1>2, AtomicListAssumption
       DEF Known, Nodes, LocalOK, Now, Calls, Call, Inserts, SearchPcs, PairPcs, InsPcs, Moving,
           iter
<1>5. Steady(t) /\ (PinsEl(t) => PinsEl(t)')
    BY <1>0, <1>1, <1>2 DEF Known, Steady, Calm, Now, Removing, Inserting, Claims, Counting, PinsEl,
       LocalOK, Calls, Call, Inserts, SearchPcs, PairPcs, InsPcs, OffPcs, Moving
<1>6. LockInv' /\ lock' \in [Nodes -> LockRec] /\ OwnersKept(t)
    <2>1. PICK a \in Nodes : a = l.n /\ Fresh(t, a)
        BY <1>3 DEF Fresh
    <2>2. ~Must(t, a) /\ ~May(t, a)
        BY <1>0, <1>1, <1>2, <1>3, <2>1 DEF Known, LocalOK, Must, May
    <2>3. (Must(t, a)' \/ May(t, a)') /\ (Must(t, a)' => Grantable(lock[a], FALSE))
        BY <1>0, <1>1, <1>2, <1>3, <2>1 DEF Known, LocalOK, Now, Must, May
    <2>4. GoesOn(t, {a})
        BY <1>0, <1>1, <1>2, <1>3, <2>1 DEF Known, GoesOn, LockOK, Now, Must, May, Owns, LocalOK
    <2>5. XMode(t)' = FALSE /\ (XMode(t) = FALSE \/ \A m \in Nodes : ~Must(t, m) /\ ~May(t, m))
        BY <1>0, <1>1 DEF XMode, Now, PairPcs, OffPcs, InsPcs, Must, May
    <2>6. EndOK(t)' /\ l.pc # "clearyield"
        BY <1>1 DEF EndOK, Now
    <2>7. QED
        BY <1>1, <1>2, <2>1, <2>2, <2>3, <2>4, <2>5, <2>6, OneRequest
<1>7. Members' = Members
    BY <1>1, <1>2, <1>5, SteadyMembers
<1>8. NearOK(t)'
    BY <1>0, <1>1, <1>2, <1>7 DEF Known, NearOK, Now, Anchored, OnList, PairPcs, Inserts, Calls,
                                  Call
<1>9. TypeOK'
    BY <1>0, <1>1, <1>6 DEF Known, TypeOK, Now, links, iter
<1>10. (\A f \in Elems : Pins(t, f)' = Pins(t, f)) /\ InsertsAlone(t)
    <2>1. \A f \in Elems :
             /\ Holds(t, "cur", f)' <=> Holds(t, "cur", f)
             /\ Holds(t, "pinned", f)' <=> Holds(t, "pinned", f)
             /\ Holds(t, "x", f)' <=> Holds(t, "x", f)
             /\ Holds(t, "el", f)' <=> Holds(t, "el", f)
        BY <1>0, <1>1, <1>2, AtomicListAssumption
           DEF Known, Nodes, Holds, Now, PinsEl, LocalOK, Calls, Call, Inserts,
       SearchPcs, PairPcs, InsPcs, Moving, iter
    <2>2. \A f \in Elems : Pins(t, f)' = Pins(t, f)
        BY <2>1 DEF Pins, One
    <2>3. InsertsAlone(t)
        BY <1>1, <2>1 DEF InsertsAlone, Kinds, Inserting, PairPcs
    <2>4. QED
        BY <2>2, <2>3
<1>11. QED
    BY <1>1, <1>2, <1>4, <1>8, <1>5, <1>6, <1>9, <1>10, WakeStep DEF Now

(* A removal asks for the locks it needs. *)
LEMMA Pairing ==
    ASSUME IInv, NEW t \in Threads, NEW e \in Elems, e = local[t].el, Removing(t),
           \A m \in Nodes : ~Must(t, m) /\ ~May(t, m), local[t].pc # "clearyield",
           ~Inserts(t), prog[t] # <<>>, NEW h, h \notin Moving,
           h = "remove" => Calls(t, {"dequeue", "pop"}),
           Now(t, "pair", e, local[t].x, e, NULL, h), lock' = Request(lock, e, t, TRUE),
           Others(t), UNCHANGED <<prog, links>>
    PROVE  /\ LocalOK(t)' /\ NearOK(t)'
           /\ LockInv' /\ lock' \in [Nodes -> LockRec] /\ OwnersKept(t)
<1>0. Fresh(t, e) /\ Known(t)
    BY Knows, FreshRemoved
<1>1. LocalOK(t)'
    BY AtomicListAssumption
       DEF Now, LocalOK, Calls, Call, Inserts, SearchPcs, PairPcs, InsPcs, Moving, Nodes
<1>2. NearOK(t)'
    BY DEF Now, NearOK, PairPcs, Inserts, Calls, Call
<1>3. XMode(t)' = TRUE /\ EndOK(t)'
    BY DEF XMode, EndOK, Now, PairPcs
<1>4. (\A m \in Nodes : ~Must(t, m)') /\ \A m \in Nodes : May(t, m)' <=> m = e
    BY DEF Must, May, Now
<1>5. GoesOn(t, {e})
    BY <1>4 DEF GoesOn
<1>6. LockInv' /\ lock' \in [Nodes -> LockRec] /\ OwnersKept(t)
    BY <1>0, <1>3, <1>4, <1>5, OneRequest DEF Nodes
<1>7. QED
    BY <1>1, <1>2, <1>6

(* GoOn of a removal whose element has no pins left. *)
LEMMA GoingOn ==
    ASSUME IInv, NEW t \in Threads, local[t].pc \in {"settle", "await"}, GoOn(t),
           UNCHANGED <<prog, links, cur, mine>>
    PROVE  /\ Others(t) /\ Steady(t) /\ LocalOK(t)' /\ NearOK(t)'
           /\ LockInv' /\ lock' \in [Nodes -> LockRec] /\ OwnersKept(t)
           /\ local' \in [Threads -> LocalRec] /\ local'[t].pc \in {"next", "prev", "pair"}
           /\ \A f \in Elems : (Holds(t, "cur", f)' <=> Holds(t, "cur", f))
                              /\ ~Holds(t, "pinned", f)' /\ ~Holds(t, "pinned", f)
                              /\ ~Holds(t, "x", f)' /\ ~Holds(t, "x", f) /\ ~Holds(t, "el", f)'
<1> DEFINE l == local[t]
           e == l.el
           pops == Calls(t, {"fwdpop", "bwdpop"})
<1>0. Known(t) /\ Removing(t) /\ Claims(t) /\ ~Inserting(t)
    BY Knows DEF Removing, Claims, Inserting, PairPcs
<1>1. e \in Elems /\ e \in Members
    BY <1>0, ClaimElem, RemovedIsMember DEF OffPcs
<1>2. /\ ~Inserts(t) /\ prog[t] # <<>> /\ l.pinned = NULL /\ l.then \notin {"iter", "again"}
      /\ (pops => l.then = "peek") /\ (l.then = "peek" => pops)
      /\ \A m \in Nodes : ~Must(t, m) /\ ~May(t, m)
    BY <1>0 DEF Known, LocalOK, Must, May, SearchPcs, PairPcs, InsPcs
<1>3. CASE pops /\ cur[t] # Done
    <2>1. PICK d \in {"next", "prev"} : d = Dir(t)
        BY DEF Dir
    <2>2. Find(t, d, e, NULL, "again", e) /\ d \in Pcs
        BY <1>3, <2>1 DEF GoOn, Pcs, SearchPcs
    <2>3. Now(t, d, e, NULL, e, NULL, "again")
        BY <1>0, <1>1, <2>2, FindNow DEF Known, Moving, Nodes
    <2>4. Others(t)
        BY <2>3 DEF Others, Now
    <2>5. Steady(t)
        BY <1>0, <2>3 DEF Steady, Claims, Removing, Inserting, Now, PairPcs, OffPcs, Counting
    <2>6. Fresh(t, e) /\ e \in Members'
        BY <1>0, <1>1, <2>4, <2>5, FreshRemoved, SteadyMembers
    <2>7. LocalOK(t)' /\ NearOK(t)' /\ LockInv' /\ lock' \in [Nodes -> LockRec] /\ OwnersKept(t)
        <3>1. pops /\ e # NULL
            BY <1>1, <1>3, AtomicListAssumption DEF Nodes
        <3>2. PICK g \in Elems : g = e
            BY <1>1
        <3>3. "again" \in Moving /\ l.pc # "clearyield"
            BY DEF Moving
        <3>4. Find(t, d, g, NULL, "again", g) /\ Fresh(t, g) /\ g \in Members' /\ g # NULL
            BY <2>2, <2>6, <3>1, <3>2
        <3>5. NULL \in Elems \cup {NULL} /\ "again" \in Moving \cup {"remove"} /\ "again" # "remove"
            BY <3>3
        <3>6. ~Inserts(t) /\ prog[t] # <<>> /\ \A m \in Nodes : ~Must(t, m) /\ ~May(t, m)
            BY <1>2
        <3>7. Calls(t, {"fwdpop", "bwdpop"})
            BY <3>1
        <3>8. QED
            BY <3>3, <3>4, <3>5, <3>6, <3>7, Searching
    <2>8. \A f \in Elems : (Holds(t, "cur", f)' <=> Holds(t, "cur", f))
                         /\ ~Holds(t, "pinned", f)' /\ ~Holds(t, "pinned", f)
                         /\ ~Holds(t, "x", f)' /\ ~Holds(t, "x", f) /\ ~Holds(t, "el", f)'
        BY <1>2, <1>3, <2>3, AtomicListAssumption
           DEF Holds, PinsEl, Now, PairPcs, InsPcs, Moving, Nodes
    <2>9. QED
        BY <2>3, <2>4, <2>5, <2>7, <2>8 DEF Now
<1>4. CASE ~(pops /\ cur[t] # Done)
    <2>1. /\ lock' = Request(lock, e, t, TRUE) /\ "pair" \in Pcs
          /\ local' = [local EXCEPT ![t].pc = "pair", ![t].n = e, ![t].then = NULL]
        BY <1>4 DEF GoOn, Pcs, PairPcs
    <2>2. Now(t, "pair", e, l.x, e, NULL, NULL)
        BY <1>0, <1>1, <1>2, <2>1, PairNow DEF Known
    <2>3. Others(t)
        BY <2>2 DEF Others, Now
    <2>4. Steady(t)
        BY <1>0, <1>2, <2>2 DEF Steady, Claims, Removing, Inserting, Inserts, Calls, Call, Now,
           PairPcs, OffPcs, Counting
    <2>5. LocalOK(t)' /\ NearOK(t)' /\ LockInv' /\ lock' \in [Nodes -> LockRec] /\ OwnersKept(t)
        <3>1. NULL \notin Moving /\ NULL # "remove" /\ l.pc # "clearyield"
            BY AtomicListAssumption DEF Moving
        <3>2. QED
            BY <1>0, <1>1, <1>2, <2>1, <2>2, <2>3, <3>1, Pairing
    <2>6. \A f \in Elems : (Holds(t, "cur", f)' <=> Holds(t, "cur", f))
                         /\ ~Holds(t, "pinned", f)' /\ ~Holds(t, "pinned", f)
                         /\ ~Holds(t, "x", f)' /\ ~Holds(t, "x", f) /\ ~Holds(t, "el", f)'
        BY <1>2, <1>4, <2>2, AtomicListAssumption
           DEF Holds, PinsEl, Now, PairPcs, InsPcs, Moving, Nodes, Inserts, Calls, Call
    <2>7. QED
        BY <2>2, <2>3, <2>4, <2>5, <2>6 DEF Now
<1>5. QED
    BY <1>3, <1>4

(* RemoveAwake preserves IInv. *)
LEMMA RemoveAwakeStep ==
    ASSUME IInv, NEW t \in Threads, RemoveAwake(t)
    PROVE  IInv'
<1>1. local[t].pc = "await" /\ signal[t] /\ signal' = [signal EXCEPT ![t] = FALSE]
      /\ GoOn(t) /\ UNCHANGED <<prog, links, ref, count, cur, mine>>
    BY DEF RemoveAwake, At, iter
<1>2. /\ Others(t) /\ Steady(t) /\ LocalOK(t)' /\ NearOK(t)'
      /\ LockInv' /\ lock' \in [Nodes -> LockRec] /\ OwnersKept(t)
      /\ local' \in [Threads -> LocalRec] /\ local'[t].pc \in {"next", "prev", "pair"}
      /\ \A f \in Elems : (Holds(t, "cur", f)' <=> Holds(t, "cur", f))
                         /\ ~Holds(t, "pinned", f)' /\ ~Holds(t, "pinned", f)
                         /\ ~Holds(t, "x", f)' /\ ~Holds(t, "x", f) /\ ~Holds(t, "el", f)'
    BY <1>1, GoingOn
<1>3. ~PinsEl(t) /\ ~Inserting(t)
    BY <1>1 DEF PinsEl, Inserting, PairPcs, InsPcs
<1>4. \A f \in Elems : Pins(t, f)' = Pins(t, f)
    BY <1>2, <1>3 DEF Pins, One, Holds
<1>5. TypeOK'
    BY <1>1, <1>2 DEF IInv, TypeOK, links
<1>6. QED
    BY <1>1, <1>2, <1>3, <1>4, <1>5, WakeStep DEF InsertsAlone

(* RemoveWait preserves IInv. *)
LEMMA RemoveWaitStep ==
    ASSUME IInv, NEW t \in Threads, RemoveWait(t)
    PROVE  IInv'
<1>1. PICK e \in Elems : e = local[t].el /\ local[t].pc = "settle" /\ Settles(t, e)
      /\ (ref[e].pin = 1 => GoOn(t)) /\ (ref[e].pin # 1 => Goto(t, "await") /\ UNCHANGED lock)
      /\ UNCHANGED <<prog, links, count, signal, cur, mine>>
    <2>1. local[t].pc = "settle"
        BY DEF RemoveWait, At
    <2>2. local[t].el \in Elems
        BY <2>1, ClaimElem DEF Claims, Removing
    <2>3. QED
        BY <2>1, <2>2 DEF RemoveWait, Settles, iter
<1>2. Known(t)
    BY Knows
<1>3. Holds(t, "el", e) /\ \A f \in Elems : Holds(t, "el", f) <=> f = e
    BY <1>1 DEF Holds, PinsEl
<1>4. ref' \in [Elems -> RefRec]
    <2>1. ref \in [Elems -> RefRec] /\ ref[e].pin > 0
        BY <1>2, <1>3, HeldIsPinned DEF Known, TypeOK, RefRec, Kinds
    <2>2. PICK w : w = IF ref[e].pin = 1 THEN ref[e].wait ELSE {t}
        OBVIOUS
    <2>3. ref' = [ref EXCEPT ![e].pin = @ - 1, ![e].wait = w]
        BY <1>1, <2>1, <2>2 DEF Settles
    <2>4. ref[e].pin - 1 \in Nat /\ w \in SUBSET Threads
        BY <2>1, <2>2 DEF RefRec
    <2>5. QED
        BY <2>1, <2>3, <2>4 DEF RefRec
<1>5. CASE ref[e].pin = 1
    <2>1. /\ Others(t) /\ Steady(t) /\ LocalOK(t)' /\ NearOK(t)'
          /\ LockInv' /\ lock' \in [Nodes -> LockRec] /\ OwnersKept(t)
          /\ local' \in [Threads -> LocalRec] /\ local'[t].pc \in {"next", "prev", "pair"}
          /\ \A f \in Elems : (Holds(t, "cur", f)' <=> Holds(t, "cur", f))
                             /\ ~Holds(t, "pinned", f)' /\ ~Holds(t, "pinned", f)
                             /\ ~Holds(t, "x", f)' /\ ~Holds(t, "x", f) /\ ~Holds(t, "el", f)'
        BY <1>1, <1>5, GoingOn
    <2>2. \A f \in Elems : Pins(t, f)' = Pins(t, f) - One(f = e)
        BY <1>3, <2>1 DEF Pins, One
    <2>3. TypeOK'
        BY <1>1, <1>2, <1>4, <2>1 DEF Known, TypeOK, links, RefRec
    <2>4. QED
        BY <1>1, <1>5, <2>1, <2>2, <2>3, SettleStep
<1>6. CASE ref[e].pin # 1
    <2> DEFINE l == local[t]
    <2>1. Now(t, "await", l.n, l.x, l.el, l.pinned, l.then) /\ lock' = lock
        BY <1>1, <1>2, <1>6, GotoNow DEF Known, Pcs
    <2>2. Others(t)
        BY <1>1, <2>1 DEF Others, Now
    <2>3. LocalOK(t)'
        BY <1>1, <1>2, <2>1 DEF Known, LocalOK, Now, Calls, Call, Inserts, SearchPcs, PairPcs,
                                InsPcs
    <2>4. Steady(t)
        BY <1>1, <1>2, <2>1 DEF Steady, Claims, Removing, Inserting, Now, PairPcs, OffPcs, Counting
    <2>5. LockInv' /\ lock' \in [Nodes -> LockRec] /\ OwnersKept(t)
        <3>1. GoesOn(t, {}) /\ (\A m \in Nodes : ~Must(t, m) /\ ~May(t, m)) /\ EndOK(t)'
            BY <1>1, <2>1 DEF GoesOn, EndOK, Now, Must, May
        <3>2. QED
            BY <1>1, <2>1, <2>2, <3>1, NoRequest
    <2>6. NearOK(t)'
        BY <2>1 DEF NearOK, Now, PairPcs
    <2>7. TypeOK'
        BY <1>1, <1>2, <1>4, <2>1, <2>5 DEF Known, TypeOK, links, RefRec, Now
    <2>8. \A f \in Elems : Pins(t, f)' = Pins(t, f) - One(f = e)
        <3>1. \A f \in Elems : (Holds(t, "cur", f)' <=> Holds(t, "cur", f))
                             /\ (Holds(t, "pinned", f)' <=> Holds(t, "pinned", f))
                             /\ (Holds(t, "x", f)' <=> Holds(t, "x", f))
                             /\ ~Holds(t, "el", f)'
            <4>1. ~PinsEl(t)'
                BY <2>1 DEF PinsEl, Now, PairPcs, InsPcs
            <4>2. cur' = cur
                BY <1>1
            <4>3. local'[t].then = l.then /\ local'[t].pinned = l.pinned /\ l.pc = "settle"
                  /\ local'[t].pc = "await"
                BY <1>1, <2>1 DEF Now
            <4>4. QED
                BY <4>1, <4>2, <4>3 DEF Holds
        <3>2. \A f \in Elems : Holds(t, "el", f) <=> f = e
            BY <1>3
        <3> TAKE f \in Elems
        <3>3. /\ (Holds(t, "cur", f)' <=> Holds(t, "cur", f))
              /\ (Holds(t, "pinned", f)' <=> Holds(t, "pinned", f))
              /\ (Holds(t, "x", f)' <=> Holds(t, "x", f))
              /\ ~Holds(t, "el", f)' /\ (Holds(t, "el", f) <=> f = e)
            BY <3>1, <3>2
        <3>4. QED
            BY <3>3 DEF Pins, One
    <2>9. QED
        BY <1>1, <1>6, <2>1, <2>2, <2>3, <2>4, <2>5, <2>6, <2>7, <2>8, SettleStep DEF Now
<1>7. QED
    BY <1>5, <1>6

(* IterAgain preserves IInv. *)
LEMMA IterAgainStep ==
    ASSUME IInv, NEW t \in Threads, IterAgain(t)
    PROVE  IInv'
<1> DEFINE l == local[t]
<1>0. Known(t) /\ l.pc = "found" /\ l.then = "again"
    BY Knows DEF IterAgain, At
<1>1. PICK e \in Elems : e = l.el
    BY <1>0 DEF Known, LocalOK
<1>2. /\ prog[t] # <<>> /\ l.pinned = NULL /\ l.x \in Elems \cup {NULL} /\ ~Inserts(t)
      /\ Removing(t) /\ Claims(t) /\ ~Inserting(t)
      /\ \A m \in Nodes : ~Must(t, m) /\ ~May(t, m)
    BY <1>0 DEF Known, LocalOK, Nodes, SearchPcs, PairPcs, InsPcs, Removing, Claims, Inserting,
       Must, May
<1>3. /\ cur' = [cur EXCEPT ![t] = OrDone(l.x)] /\ lock' = Request(lock, e, t, TRUE)
      /\ local' = [local EXCEPT ![t].pc = "pair", ![t].n = e, ![t].then = NULL]
      /\ UNCHANGED <<prog, links, ref, count, signal, mine>>
    BY <1>1 DEF IterAgain, SetIter
<1>4. OrDone(l.x) \in Elems \cup {NULL, Done} /\ \A f \in Elems : OrDone(l.x) = f <=> l.x = f
    BY <1>2, AtomicListAssumption DEF OrDone, Nodes
<1>5. cur' \in [Threads -> Elems \cup {NULL, Done}] /\ cur'[t] = OrDone(l.x)
      /\ \A u \in Threads \ {t} : cur'[u] = cur[u]
    BY <1>0, <1>3, <1>4 DEF Known, TypeOK
<1>6. Now(t, "pair", e, l.x, e, NULL, NULL)
    <2>1. "pair" \in Pcs
        BY DEF Pcs, PairPcs
    <2>2. QED
        BY <1>0, <1>1, <1>2, <1>3, <2>1, PairNow DEF Known
<1>7. Others(t)
    BY <1>3, <1>5, <1>6 DEF Others, Now
<1>8. Steady(t) /\ Calm(t)
    BY <1>0, <1>1, <1>2, <1>3, <1>6, AtomicListAssumption
       DEF Steady, Calm, Claims, Removing, Inserting, Inserts,
       Calls, Call, Now, PinsEl, PairPcs, OffPcs, InsPcs, Counting
<1>9. LocalOK(t)' /\ NearOK(t)' /\ LockInv' /\ lock' \in [Nodes -> LockRec] /\ OwnersKept(t)
    <2>1. NULL \notin Moving /\ NULL # "remove" /\ l.pc # "clearyield"
        BY <1>0, AtomicListAssumption DEF Moving
    <2>2. QED
        BY <1>1, <1>2, <1>3, <1>6, <1>7, <2>1, Pairing
<1>10. TypeOK'
    BY <1>0, <1>3, <1>5, <1>6, <1>9 DEF Known, TypeOK, Now, links
<1>11. \A f \in Elems : Pins(t, f)' = Pins(t, f)
    <2>1. ~PinsEl(t)' /\ ~PinsEl(t)
        BY <1>0, <1>2, <1>3, <1>6, AtomicListAssumption
           DEF PinsEl, Now, PairPcs, InsPcs, Inserts, Calls, Call
    <2>2. \A f \in Elems : (Holds(t, "cur", f)' <=> Holds(t, "x", f)) /\ ~Holds(t, "x", f)'
                         /\ (Holds(t, "pinned", f)' <=> Holds(t, "pinned", f))
                            /\ ~Holds(t, "cur", f)
                         /\ ~Holds(t, "el", f) /\ ~Holds(t, "el", f)'
        BY <1>0, <1>2, <1>4, <1>5, <1>6, <2>1, AtomicListAssumption DEF Holds, Now, Moving, Nodes
    <2>3. QED
        BY <2>2 DEF Pins, One
<1>12. QED
    BY <1>2, <1>3, <1>7, <1>8, <1>9, <1>10, <1>11, QuietStep DEF InsertsAlone

(* PutBack preserves IInv. *)
LEMMA PutBackStep ==
    ASSUME IInv, NEW t \in Threads, PutBack(t)
    PROVE  IInv'
<1> DEFINE l == local[t]
<1>0. Known(t) /\ l.pc = "putback" /\ Unpin(l.pinned) /\ Return(t)
      /\ UNCHANGED <<links, lock, count, cur, mine>>
    BY Knows DEF PutBack, At, iter
<1>1. PICK e \in Elems : e = l.pinned
    BY <1>0 DEF Known, LocalOK
<1>2. /\ prog[t] # <<>> /\ ~Removing(t) /\ ~Inserting(t) /\ l.then \notin Moving
      /\ \A m \in Nodes : ~Must(t, m) /\ ~May(t, m)
    BY <1>0 DEF Known, LocalOK, Removing, Inserting, Must, May, SearchPcs, PairPcs, OffPcs, Moving
<1>3. /\ Others(t) /\ Steady(t) /\ Calm(t) /\ LocalOK(t)' /\ NearOK(t)'
      /\ prog' \in [Threads -> Seq(Op)] /\ local' \in [Threads -> LocalRec]
      /\ EndOK(t)' /\ (\A m \in Nodes : ~Must(t, m)' /\ ~May(t, m)')
      /\ \A f \in Elems : Pins(t, f)' = One(cur'[t] = f)
    BY <1>0, <1>2, Returning DEF Counting, OffPcs
<1>4. LockInv' /\ lock' \in [Nodes -> LockRec] /\ OwnersKept(t)
    <2>1. GoesOn(t, {})
        BY <1>2, <1>3 DEF GoesOn
    <2>2. QED
        BY <1>0, <1>2, <1>3, <2>1, NoRequest
<1>5. \A f \in Elems : (Holds(t, "cur", f) <=> cur[t] = f) /\ (Holds(t, "pinned", f) <=> f = e)
                     /\ ~Holds(t, "x", f) /\ ~Holds(t, "el", f)
    BY <1>0, <1>1, <1>2 DEF Holds, PinsEl, PairPcs, InsPcs, Moving
<1>6. \A f \in Elems : Pins(t, f)' = Pins(t, f) - One(f = e)
    <2> SUFFICES ASSUME NEW f \in Elems PROVE Pins(t, f)' = Pins(t, f) - One(f = e)
        OBVIOUS
    <2>1. Pins(t, f)' = IF cur[t] = f THEN 1 ELSE 0
        BY <1>0, <1>3 DEF One
    <2>2. QED
        BY <1>5, <2>1 DEF Pins, One
<1>7. Pins(t, e) > 0 /\ ref[e].pin > 0
    BY <1>5, PinsHeld, HeldIsPinned DEF Kinds
<1>8. TypeOK'
    <2>1. /\ ref' \in [Elems -> [mask : BOOLEAN, pin : Nat, wait : SUBSET Threads]]
          /\ signal' \in [Threads -> BOOLEAN]
        BY <1>0, <1>1, <1>7, UnpinType DEF Known
    <2>2. QED
        BY <1>0, <1>3, <1>4, <2>1 DEF Known, TypeOK, links
<1>9. QED
    BY <1>0, <1>1, <1>2, <1>3, <1>4, <1>6, <1>7, <1>8, UnpinStep

(* RemoveFail preserves IInv. *)
LEMMA RemoveFailStep ==
    ASSUME IInv, NEW t \in Threads, RemoveFail(t)
    PROVE  IInv'
<1> DEFINE l == local[t]
           deq == Calls(t, {"dequeue", "pop"})
<1>0. Known(t) /\ l.pc = "fail" /\ Unpin(l.el) /\ UNCHANGED <<links, count, cur, mine>>
    BY Knows DEF RemoveFail, At, iter
<1>1. PICK e \in Elems : e = l.el
    BY <1>0 DEF Known, LocalOK, SearchPcs
<1>2. /\ prog[t] # <<>> /\ ~Removing(t) /\ ~Inserting(t) /\ l.then \notin Moving
      /\ ~Inserts(t) /\ l.pinned = NULL /\ \A m \in Nodes : ~Must(t, m) /\ ~May(t, m)
    BY <1>0 DEF Known, LocalOK, Removing, Inserting, Must, May, SearchPcs, PairPcs, OffPcs,
                InsPcs, Moving
<1>3. \A f \in Elems : (Holds(t, "cur", f) <=> cur[t] = f) /\ (Holds(t, "el", f) <=> f = e)
                     /\ ~Holds(t, "x", f) /\ ~Holds(t, "pinned", f)
    BY <1>0, <1>1, <1>2, AtomicListAssumption DEF Holds, PinsEl, PairPcs, InsPcs, Nodes
<1>4. Pins(t, e) > 0 /\ ref[e].pin > 0
    BY <1>3, PinsHeld, HeldIsPinned DEF Kinds
<1>5. /\ ref' \in [Elems -> [mask : BOOLEAN, pin : Nat, wait : SUBSET Threads]]
      /\ signal' \in [Threads -> BOOLEAN]
    BY <1>0, <1>1, <1>4, UnpinType DEF Known
<1>6. CASE deq
    <2>1. PICK d \in {"next", "prev"} : d = Dir(t)
        BY DEF Dir
    <2>2. PICK n \in {HEAD, TAIL} : n = IF d = "next" THEN HEAD ELSE TAIL
        OBVIOUS
    <2>3. Find(t, d, n, NULL, "remove", NULL) /\ UNCHANGED prog
        BY <1>6, <2>1, <2>2 DEF RemoveFail
    <2>4. /\ Now(t, d, n, NULL, NULL, NULL, "remove") /\ Others(t)
          /\ LocalOK(t)' /\ NearOK(t)'
          /\ LockInv' /\ lock' \in [Nodes -> LockRec] /\ OwnersKept(t)
        <3>1. Fresh(t, n)
            BY FreshEnd
        <3>2. (d = "next" /\ n = HEAD) \/ (d = "prev" /\ n = TAIL)
            BY <2>2
        <3>3. QED
            BY <1>0, <1>2, <1>6, <2>3, <3>1, <3>2, Searching
    <2>5. Steady(t) /\ Calm(t)
        BY <1>0, <1>2, <2>4 DEF Steady, Calm, Now, Removing, Inserting, Claims, Counting,
                                PairPcs, OffPcs
    <2>6. TypeOK'
        BY <1>0, <1>5, <2>3, <2>4 DEF Known, TypeOK, Now, links
    <2>7. \A f \in Elems : (Holds(t, "cur", f)' <=> cur[t] = f) /\ ~Holds(t, "pinned", f)'
                         /\ ~Holds(t, "x", f)' /\ ~Holds(t, "el", f)'
        BY <1>0, <2>4, AtomicListAssumption DEF Holds, PinsEl, Now, PairPcs, InsPcs, Moving, Nodes
    <2>8. \A f \in Elems : Pins(t, f)' = Pins(t, f) - One(f = e)
        BY <1>3, <2>7 DEF Pins, One
    <2>9. QED
        BY <1>0, <1>1, <1>2, <1>4, <2>4, <2>5, <2>6, <2>8, UnpinStep
<1>7. CASE ~deq
    <2>0. Return(t) /\ UNCHANGED lock
        BY <1>7 DEF RemoveFail
    <2>1. /\ Others(t) /\ Steady(t) /\ Calm(t) /\ LocalOK(t)' /\ NearOK(t)'
          /\ prog' \in [Threads -> Seq(Op)] /\ local' \in [Threads -> LocalRec]
          /\ EndOK(t)' /\ (\A m \in Nodes : ~Must(t, m)' /\ ~May(t, m)')
          /\ \A f \in Elems : Pins(t, f)' = One(cur'[t] = f)
        BY <1>0, <1>2, <2>0, Returning DEF Counting, OffPcs
    <2>2. LockInv' /\ lock' \in [Nodes -> LockRec] /\ OwnersKept(t)
        <3>1. GoesOn(t, {})
            BY <1>2, <2>1 DEF GoesOn
        <3>2. QED
            BY <1>0, <1>2, <2>0, <2>1, <3>1, NoRequest
    <2>3. \A f \in Elems : Pins(t, f)' = Pins(t, f) - One(f = e)
        <3> SUFFICES ASSUME NEW f \in Elems PROVE Pins(t, f)' = Pins(t, f) - One(f = e)
            OBVIOUS
        <3>1. Pins(t, f)' = IF cur[t] = f THEN 1 ELSE 0
            BY <1>0, <2>1 DEF One
        <3>2. QED
            BY <1>3, <3>1 DEF Pins, One
    <2>4. TypeOK'
        BY <1>0, <1>5, <2>1, <2>2 DEF Known, TypeOK, links
    <2>5. QED
        BY <1>0, <1>1, <1>2, <1>4, <2>1, <2>2, <2>3, <2>4, UnpinStep
<1>8. QED
    BY <1>6, <1>7

(* PrevDefer preserves IInv. *)
LEMMA PrevDeferStep ==
    ASSUME IInv, NEW t \in Threads, PrevDefer(t)
    PROVE  IInv'
<1> DEFINE l == local[t]
<1>0. Known(t)
    BY Knows
<1>1. /\ l.pc = "defer" /\ Now(t, "deferred", l.n, l.x, l.el, l.pinned, l.then)
      /\ lock' = lock /\ ref' = [ref EXCEPT ![l.x].wait = ref[l.x].wait \cup {t}]
      /\ UNCHANGED <<prog, links, count, signal, iter, mine>>
    <2>1. Goto(t, "deferred") /\ "deferred" \in Pcs
        BY DEF PrevDefer, Pcs, SearchPcs
    <2>2. QED
        BY <1>0, <2>1, GotoNow DEF Known, PrevDefer, At
<1>2. Others(t) /\ next' = next /\ prev' = prev /\ cur' = cur
    BY <1>1 DEF Others, Now, links, iter
<1>3. PICK e \in Elems : e = l.x /\ e \in Members /\ OnList(e) /\ ref[e].mask /\ ref[e].pin = 0
    BY <1>0, <1>1 DEF Known, LocalOK, NearOK, Members
<1>4. /\ ref'[e].wait = ref[e].wait \cup {t}
      /\ \A f \in Elems : ref'[f].mask = ref[f].mask /\ ref'[f].pin = ref[f].pin
      /\ \A f \in Elems \ {e} : ref'[f] = ref[f]
    BY <1>0, <1>1, <1>3 DEF Known, TypeOK
<1>5. LocalOK(t)'
    BY <1>0, <1>1, <1>2, AtomicListAssumption
       DEF Known, Nodes, LocalOK, Now, Calls, Call, Inserts, SearchPcs, PairPcs, InsPcs, Moving,
           iter
<1>6. Steady(t) /\ Calm(t)
    BY <1>0, <1>1, <1>2 DEF Known, Steady, Calm, Now, Removing, Inserting, Claims, Counting, PinsEl,
       LocalOK, Calls, Call, Inserts, SearchPcs, PairPcs, InsPcs, OffPcs, Moving
<1>7. LockInv' /\ lock' \in [Nodes -> LockRec] /\ OwnersKept(t)
    <2>1. GoesOn(t, {})
        BY <1>0, <1>1, <1>2 DEF Known, GoesOn, LockOK, Now, Must, May, Owns, LocalOK
    <2>2. (XMode(t)' = XMode(t) \/ \A m \in Nodes : ~Must(t, m) /\ ~May(t, m)) /\ EndOK(t)'
          /\ l.pc # "clearyield"
        BY <1>1 DEF XMode, EndOK, Now, PairPcs, OffPcs, InsPcs, Must, May
    <2>3. QED
        BY <1>1, <1>2, <2>1, <2>2, NoRequest
<1>8. Members' = Members
    BY <1>1, <1>2, <1>6, SteadyMembers
<1>9. NearOK(t)'
    BY <1>0, <1>1, <1>2, <1>8, <1>3, <1>4 DEF Known, NearOK, Now, Anchored, OnList, PairPcs,
                                              Inserts, Calls, Call
<1>10. TypeOK'
    <2>1. ref' \in [Elems -> [mask : BOOLEAN, pin : Nat, wait : SUBSET Threads]]
        <3>1. PICK w \in SUBSET Threads : w = ref[e].wait \cup {t}
            BY <1>0 DEF Known, TypeOK
        <3>2. QED
            BY <1>0, <1>1, <1>3, <3>1, WaitType DEF Known
    <2>2. QED
        BY <1>0, <1>1, <1>7, <2>1 DEF Known, TypeOK, Now, links, iter
<1>11. Rely(t)
    <2>1. signal' = signal /\ At(t, "defer")
        BY <1>1 DEF At
    <2>2. \A f \in Elems : t \in ref'[f].wait => t \in ref[f].wait \/ f = local[t].x
        BY <1>3, <1>4
    <2>3. \A u \in Threads \ {t}, f \in Elems : u \in ref'[f].wait <=> u \in ref[f].wait
        BY <1>4
    <2>4. \A f \in Elems : ref[f].pin > 0 => ref'[f] = ref[f]
        BY <1>3, <1>4
    <2>5. QED
        BY <1>2, <1>8, <1>4, <2>1, <2>2, <2>3, <2>4 DEF Rely, OnList
<1>12. WaitOK(t)'
    <2>1. ~signal[t] /\ (\A f \in Elems : t \notin ref[f].wait)
             /\ (Removing(t) /\ ~PinsEl(t) => ref[l.el].pin = 0)
        BY <1>0, <1>1 DEF Known, WaitOK
    <2>2. ~signal'[t] /\ local'[t].pc = "deferred" /\ local'[t].x = e /\ local'[t].el = l.el
        BY <1>1, <1>3, <2>1 DEF Now
    <2>3. Removing(t)' /\ ~PinsEl(t)' => ref'[local'[t].el].pin = 0
        <3>1. Removing(t)' => Removing(t) /\ l.el \in Elems
            BY <1>6, ClaimElem DEF Steady, Claims
        <3>2. PinsEl(t) => PinsEl(t)'
            BY <1>6, <3>1, <1>1 DEF Calm, PinsEl, Now, PairPcs, InsPcs
        <3>3. QED
            BY <1>4, <2>1, <2>2, <3>1, <3>2
    <2>4. \A f \in Elems : t \in ref'[f].wait => f = e /\ ref'[f].pin = 0
        BY <1>3, <1>4, <2>1
    <2>5. ~Inserting(t)'
        BY <2>2 DEF Inserting, PairPcs
    <2>6. QED
        BY <2>2, <2>3, <2>4, <2>5 DEF WaitOK
<1>13. (\A f \in Elems : Pins(t, f)' = Pins(t, f)) /\ ~Inserting(t)
    <2>1. \A f \in Elems :
             /\ Holds(t, "cur", f)' <=> Holds(t, "cur", f)
             /\ Holds(t, "pinned", f)' <=> Holds(t, "pinned", f)
             /\ Holds(t, "x", f)' <=> Holds(t, "x", f)
             /\ Holds(t, "el", f)' <=> Holds(t, "el", f)
        BY <1>0, <1>1, <1>2 DEF Known, Holds, Now, PinsEl, LocalOK, PairPcs, InsPcs, OffPcs,
                                SearchPcs
    <2>2. \A f \in Elems : Pins(t, f)' = Pins(t, f)
        BY <2>1 DEF Pins, One
    <2>3. ~Inserting(t)
        BY <1>1 DEF Inserting, PairPcs
    <2>4. QED
        BY <2>2, <2>3
<1>14. \A f \in Elems : ref'[f].pin = ref[f].pin + Pins(t, f)' - Pins(t, f)
    <2>1. \A f \in Elems : Pins(t, f) \in 0..4 /\ ref[f].pin \in Nat
        BY <1>2, PinsCounted DEF IInv, TypeOK
    <2>2. QED
        BY <1>4, <1>13, <2>1
<1>15. QED
    BY <1>1, <1>2, <1>3, <1>5, <1>9, <1>6, <1>7, <1>10, <1>13, <1>4, <1>11, <1>12, <1>14, SteadyStep

(* Clear of an element nobody is queued for. *)
LEMMA ClearNow ==
    ASSUME IInv, NEW t \in Threads, Clear(t), lock[local[t].el].queue = <<>>
    PROVE  IInv'
<1> DEFINE l == local[t]
<1>0. Known(t)
    BY Knows
<1>1. /\ l.pc = "clear" /\ Now(t, "cleared", l.n, l.x, l.el, l.pinned, l.then)
      /\ lock' = lock /\ lock[l.el].queue = <<>>
      /\ ref' = [ref EXCEPT ![l.el].wait = {}]
      /\ signal' = [u \in Threads |-> signal[u] \/ u \in ref[l.el].wait]
      /\ UNCHANGED <<prog, links, count, iter, mine>>
    <2>1. Goto(t, "cleared") /\ "cleared" \in Pcs
        BY DEF Clear, Pcs, OffPcs
    <2>2. QED
        BY <1>0, <2>1, GotoNow DEF Known, Clear, At
<1>2. Others(t) /\ next' = next /\ prev' = prev /\ cur' = cur
    BY <1>1 DEF Others, Now, links, iter
<1>3. PICK e \in Elems : e = l.el /\ OnList(e) /\ ref[e].mask /\ ref[e].pin = 0 /\ Removing(t)
         /\ Claims(t)
      /\ t \in lock[e].own /\ ~Queued(t, lock[e])
    <2>1. Removing(t) /\ Claims(t) /\ l.el \in Elems /\ ref[l.el].pin = 0
        BY <1>1, ClaimedOff DEF OffPcs
    <2>2. t \in lock[l.el].own /\ ~Queued(t, lock[l.el])
        BY <1>0, <1>1, <2>1 DEF Known, LockOK, Must, At, Nodes
    <2>3. QED
        BY <1>0, <2>1, <2>2 DEF Known, ClaimOK
<1>4. /\ ref'[e].wait = {}
      /\ \A f \in Elems : ref'[f].mask = ref[f].mask /\ ref'[f].pin = ref[f].pin
      /\ \A f \in Elems \ {e} : ref'[f] = ref[f]
      /\ signal' = [u \in Threads |-> signal[u] \/ u \in ref[e].wait]
    BY <1>0, <1>1, <1>3 DEF Known, TypeOK
<1>5. LocalOK(t)'
    BY <1>0, <1>1, <1>2, AtomicListAssumption
       DEF Known, Nodes, LocalOK, Now, Calls, Call, Inserts, SearchPcs, PairPcs, InsPcs, Moving,
           iter
<1>6. Steady(t)
    BY <1>0, <1>1, <1>2 DEF Known, Steady, Calm, Now, Removing, Inserting, Claims, Counting, PinsEl,
       LocalOK, Calls, Call, Inserts, SearchPcs, PairPcs, InsPcs, OffPcs, Moving
<1>7. LockInv' /\ lock' \in [Nodes -> LockRec] /\ OwnersKept(t)
    <2>1. XMode(t)' = TRUE /\ XMode(t) = TRUE /\ ~At(t, "clearyield") /\ e \in Nodes
        BY <1>1, <1>3 DEF XMode, Now, At, OffPcs, Nodes
    <2>2. EndOK(t)'
        BY <1>1, <1>3 DEF EndOK, Now, Owns
    <2>3. GoesOn(t, {})
        BY <1>1, <1>3 DEF GoesOn, Must, May, Now
    <2>4. QED
        BY <1>1, <1>2, <2>1, <2>2, <2>3, NoRequest DEF At
<1>8. Members' = Members
    BY <1>1, <1>2, <1>6, SteadyMembers
<1>9. NearOK(t)'
    BY <1>0, <1>1, <1>2, <1>8 DEF Known, NearOK, Now, Anchored, OnList, PairPcs, Inserts, Calls,
                                  Call
<1>10. TypeOK'
    <2>1. ref' \in [Elems -> [mask : BOOLEAN, pin : Nat, wait : SUBSET Threads]]
        <3>1. PICK w \in SUBSET Threads : w = {}
            OBVIOUS
        <3>2. ref' = [ref EXCEPT ![e].wait = w] /\ TypeOK
            BY <1>0, <1>1, <1>3, <3>1 DEF Known
        <3>3. QED
            BY <3>2, WaitType
    <2>2. signal' \in [Threads -> BOOLEAN]
        BY <1>0, <1>4 DEF Known, TypeOK
    <2>3. QED
        BY <1>0, <1>1, <1>7, <2>1, <2>2 DEF Known, TypeOK, Now, links, iter
<1>11. \A u \in Threads : signal'[u] <=> signal[u] \/ u \in ref[e].wait
    BY <1>4
<1>12. Rely(t)
    <2>1. ASSUME NEW u \in Threads \ {t}, NEW f \in Elems, u \in ref[f].wait
          PROVE  \/ signal'[u] /\ ref'[f].pin = 0 /\ ref'[f].wait = {}
                 \/ signal'[u] = signal[u]
                    /\ (ref[f].pin > 0 => ref'[f].pin > 0 /\ ref'[f].wait = ref[f].wait)
        <3>1. CASE f = e
            BY <1>3, <1>4, <1>11, <2>1, <3>1
        <3>2. CASE f # e
            <4>1. u \notin ref[e].wait
                BY <2>1, <3>2, OneWait
            <4>2. signal'[u] = signal[u]
                <5>1. signal[u] \in BOOLEAN /\ signal'[u] \in BOOLEAN
                    BY <1>0, <1>10 DEF Known, TypeOK
                <5>2. signal'[u] <=> signal[u]
                    BY <1>11, <4>1
                <5>3. QED
                    BY <5>1, <5>2
            <4>3. QED
                BY <1>4, <3>2, <4>2
        <3>3. QED
            BY <3>1, <3>2
    <2>2. \A u \in Threads, f \in Elems : u \in ref'[f].wait => u \in ref[f].wait
        BY <1>4
    <2>3. \A u \in Threads : signal'[u] => signal[u] \/ \E f \in Elems : u \in ref[f].wait
             /\ ref'[f].wait = {}
        BY <1>4, <1>11
    <2>4. \A u \in Threads : signal[u] => signal'[u]
        BY <1>11
    <2>5. QED
        BY <1>2, <1>8, <1>4, <2>1, <2>2, <2>3, <2>4 DEF Rely, OnList
<1>13. WaitOK(t)'
    <2>1. ~signal[t] /\ (\A f \in Elems : t \notin ref[f].wait)
        BY <1>0, <1>1 DEF Known, WaitOK
    <2>2. ~signal'[t] /\ \A f \in Elems : t \notin ref'[f].wait
        BY <1>4, <1>11, <2>1
    <2>3. local'[t].el = e /\ local'[t].pc # "await" /\ ref'[e].pin = 0 /\ ref'[e].wait = {}
        BY <1>1, <1>3, <1>4 DEF Now
    <2>4. QED
        BY <2>2, <2>3 DEF WaitOK
<1>14. (\A f \in Elems : Pins(t, f)' = Pins(t, f)) /\ ~Inserting(t)
    <2>1. \A f \in Elems :
             /\ Holds(t, "cur", f)' <=> Holds(t, "cur", f)
             /\ Holds(t, "pinned", f)' <=> Holds(t, "pinned", f)
             /\ Holds(t, "x", f)' <=> Holds(t, "x", f)
             /\ Holds(t, "el", f)' <=> Holds(t, "el", f)
        BY <1>0, <1>1, <1>2 DEF Known, Holds, Now, PinsEl, LocalOK, PairPcs, InsPcs, OffPcs,
                                SearchPcs
    <2>2. \A f \in Elems : Pins(t, f)' = Pins(t, f)
        BY <2>1 DEF Pins, One
    <2>3. ~Inserting(t)
        BY <1>1 DEF Inserting, PairPcs
    <2>4. QED
        BY <2>2, <2>3
<1>15. \A f \in Elems : ref'[f].pin = ref[f].pin + Pins(t, f)' - Pins(t, f)
    <2>1. \A f \in Elems : Pins(t, f) \in 0..4 /\ ref[f].pin \in Nat
        BY <1>2, PinsCounted DEF IInv, TypeOK
    <2>2. QED
        BY <1>4, <1>14, <2>1
<1>16. QED
    BY <1>1, <1>2, <1>3, <1>5, <1>9, <1>6, <1>7, <1>10, <1>14, <1>4, <1>12, <1>13, <1>15, SteadyStep

(* Clear of an element somebody is queued for. *)
LEMMA ClearYields ==
    ASSUME IInv, NEW t \in Threads, Clear(t), lock[local[t].el].queue # <<>>
    PROVE  IInv'
<1> DEFINE l == local[t]
<1>0. Known(t)
    BY Knows
<1>1. /\ l.pc = "clear" /\ Now(t, "clearyield", l.n, l.x, l.el, l.pinned, l.then)
      /\ lock' = Request(lock, l.el, t, TRUE) /\ lock[l.el].queue # <<>>
      /\ ref' = [ref EXCEPT ![l.el].wait = {}]
      /\ signal' = [u \in Threads |-> signal[u] \/ u \in ref[l.el].wait]
      /\ UNCHANGED <<prog, links, count, iter, mine>>
    <2>1. Goto(t, "clearyield") /\ "clearyield" \in Pcs
        BY DEF Clear, Pcs, OffPcs
    <2>2. QED
        BY <1>0, <2>1, GotoNow DEF Known, Clear, At
<1>2. Others(t) /\ next' = next /\ prev' = prev /\ cur' = cur
    BY <1>1 DEF Others, Now, links, iter
<1>3. PICK e \in Elems : e = l.el /\ OnList(e) /\ ref[e].mask /\ ref[e].pin = 0 /\ Removing(t)
         /\ Claims(t)
      /\ t \in lock[e].own /\ ~Queued(t, lock[e])
    <2>1. Removing(t) /\ Claims(t) /\ l.el \in Elems /\ ref[l.el].pin = 0
        BY <1>1, ClaimedOff DEF OffPcs
    <2>2. t \in lock[l.el].own /\ ~Queued(t, lock[l.el])
        BY <1>0, <1>1, <2>1 DEF Known, LockOK, Must, At, Nodes
    <2>3. QED
        BY <1>0, <2>1, <2>2 DEF Known, ClaimOK
<1>4. /\ ref'[e].wait = {}
      /\ \A f \in Elems : ref'[f].mask = ref[f].mask /\ ref'[f].pin = ref[f].pin
      /\ \A f \in Elems \ {e} : ref'[f] = ref[f]
      /\ signal' = [u \in Threads |-> signal[u] \/ u \in ref[e].wait]
    BY <1>0, <1>1, <1>3 DEF Known, TypeOK
<1>5. LocalOK(t)'
    BY <1>0, <1>1, <1>2, AtomicListAssumption
       DEF Known, Nodes, LocalOK, Now, Calls, Call, Inserts, SearchPcs, PairPcs, InsPcs, Moving,
           iter
<1>6. Steady(t)
    BY <1>0, <1>1, <1>2 DEF Known, Steady, Calm, Now, Removing, Inserting, Claims, Counting, PinsEl,
       LocalOK, Calls, Call, Inserts, SearchPcs, PairPcs, InsPcs, OffPcs, Moving
<1>7. LockInv' /\ lock' \in [Nodes -> LockRec] /\ OwnersKept(t)
    <2>1. XMode(t)' = TRUE /\ XMode(t) = TRUE /\ ~At(t, "clearyield") /\ e \in Nodes
        BY <1>1, <1>3 DEF XMode, Now, At, OffPcs, Nodes
    <2>2. lock[e] \in LockRec /\ WellLocked(lock[e], XModes)
             /\ lock'[e] = Requested(lock[e], t, TRUE)
        BY <1>0, <1>1, <1>3, <2>1 DEF Known, TypeOK, LockInv, Request
    <2>3. QueuedLast(t, lock'[e])
        <3>1. XModes \in [Threads -> BOOLEAN] /\ XModes[t] = TRUE
            BY <2>1, XModesType
        <3>2. QED
            BY <1>1, <1>3, <2>2, <3>1, RequestOne
    <2>4. EndOK(t)'
        BY <1>1, <1>3, <2>3 DEF EndOK, Now
    <2>5. \A m \in Nodes : (Must(t, m) <=> m = e) /\ ~May(t, m) /\ (Must(t, m)' <=> m = e)
             /\ ~May(t, m)'
        BY <1>1, <1>3 DEF Must, May, Now
    <2>6. Fresh(t, e)
        BY <1>3, FreshRemoved
    <2>7. /\ TypeOK /\ LocalInv /\ LockInv /\ NearInv /\ Still(t) /\ At(t, "clearyield")'
             /\ local'[t].el = e
          /\ \A f \in Elems : OnList(f) => OnList(f)'
        BY <1>0, <1>1, <1>3, SameLinks DEF Known, At, Now
    <2>8. QED
        BY <1>1, <1>2, <1>3, <2>1, <2>4, <2>5, <2>6, <2>7, LocksRequested
<1>8. Members' = Members
    BY <1>1, <1>2, <1>6, SteadyMembers
<1>9. NearOK(t)'
    BY <1>0, <1>1, <1>2, <1>8 DEF Known, NearOK, Now, Anchored, OnList, PairPcs, Inserts, Calls,
                                  Call
<1>10. TypeOK'
    <2>1. ref' \in [Elems -> [mask : BOOLEAN, pin : Nat, wait : SUBSET Threads]]
        <3>1. PICK w \in SUBSET Threads : w = {}
            OBVIOUS
        <3>2. ref' = [ref EXCEPT ![e].wait = w] /\ TypeOK
            BY <1>0, <1>1, <1>3, <3>1 DEF Known
        <3>3. QED
            BY <3>2, WaitType
    <2>2. signal' \in [Threads -> BOOLEAN]
        BY <1>0, <1>4 DEF Known, TypeOK
    <2>3. QED
        BY <1>0, <1>1, <1>7, <2>1, <2>2 DEF Known, TypeOK, Now, links, iter
<1>11. \A u \in Threads : signal'[u] <=> signal[u] \/ u \in ref[e].wait
    BY <1>4
<1>12. Rely(t)
    <2>1. ASSUME NEW u \in Threads \ {t}, NEW f \in Elems, u \in ref[f].wait
          PROVE  \/ signal'[u] /\ ref'[f].pin = 0 /\ ref'[f].wait = {}
                 \/ signal'[u] = signal[u]
                    /\ (ref[f].pin > 0 => ref'[f].pin > 0 /\ ref'[f].wait = ref[f].wait)
        <3>1. CASE f = e
            BY <1>3, <1>4, <1>11, <2>1, <3>1
        <3>2. CASE f # e
            <4>1. u \notin ref[e].wait
                BY <2>1, <3>2, OneWait
            <4>2. signal'[u] = signal[u]
                <5>1. signal[u] \in BOOLEAN /\ signal'[u] \in BOOLEAN
                    BY <1>0, <1>10 DEF Known, TypeOK
                <5>2. signal'[u] <=> signal[u]
                    BY <1>11, <4>1
                <5>3. QED
                    BY <5>1, <5>2
            <4>3. QED
                BY <1>4, <3>2, <4>2
        <3>3. QED
            BY <3>1, <3>2
    <2>2. \A u \in Threads, f \in Elems : u \in ref'[f].wait => u \in ref[f].wait
        BY <1>4
    <2>3. \A u \in Threads : signal'[u] => signal[u] \/ \E f \in Elems : u \in ref[f].wait
             /\ ref'[f].wait = {}
        BY <1>4, <1>11
    <2>4. \A u \in Threads : signal[u] => signal'[u]
        BY <1>11
    <2>5. QED
        BY <1>2, <1>8, <1>4, <2>1, <2>2, <2>3, <2>4 DEF Rely, OnList
<1>13. WaitOK(t)'
    <2>1. ~signal[t] /\ (\A f \in Elems : t \notin ref[f].wait)
        BY <1>0, <1>1 DEF Known, WaitOK
    <2>2. ~signal'[t] /\ \A f \in Elems : t \notin ref'[f].wait
        BY <1>4, <1>11, <2>1
    <2>3. local'[t].el = e /\ local'[t].pc # "await" /\ ref'[e].pin = 0 /\ ref'[e].wait = {}
        BY <1>1, <1>3, <1>4 DEF Now
    <2>4. QED
        BY <2>2, <2>3 DEF WaitOK
<1>14. (\A f \in Elems : Pins(t, f)' = Pins(t, f)) /\ ~Inserting(t)
    <2>1. \A f \in Elems :
             /\ Holds(t, "cur", f)' <=> Holds(t, "cur", f)
             /\ Holds(t, "pinned", f)' <=> Holds(t, "pinned", f)
             /\ Holds(t, "x", f)' <=> Holds(t, "x", f)
             /\ Holds(t, "el", f)' <=> Holds(t, "el", f)
        BY <1>0, <1>1, <1>2 DEF Known, Holds, Now, PinsEl, LocalOK, PairPcs, InsPcs, OffPcs,
                                SearchPcs
    <2>2. \A f \in Elems : Pins(t, f)' = Pins(t, f)
        BY <2>1 DEF Pins, One
    <2>3. ~Inserting(t)
        BY <1>1 DEF Inserting, PairPcs
    <2>4. QED
        BY <2>2, <2>3
<1>15. \A f \in Elems : ref'[f].pin = ref[f].pin + Pins(t, f)' - Pins(t, f)
    <2>1. \A f \in Elems : Pins(t, f) \in 0..4 /\ ref[f].pin \in Nat
        BY <1>2, PinsCounted DEF IInv, TypeOK
    <2>2. QED
        BY <1>4, <1>14, <2>1
<1>16. QED
    BY <1>1, <1>2, <1>3, <1>5, <1>9, <1>6, <1>7, <1>10, <1>14, <1>4, <1>12, <1>13, <1>15, SteadyStep

(* Clear preserves IInv. *)
LEMMA ClearStep ==
    ASSUME IInv, NEW t \in Threads, Clear(t)
    PROVE  IInv'
BY ClearNow, ClearYields

(* ClearYield preserves IInv. *)
LEMMA ClearYieldStep ==
    ASSUME IInv, NEW t \in Threads, ClearYield(t)
    PROVE  IInv'
<1> DEFINE l == local[t]
<1>0. Known(t)
    BY Knows
<1>1. /\ l.pc = "clearyield" /\ Now(t, "cleared", l.n, l.x, l.el, l.pinned, l.then)
      /\ lock' = Unlock(lock, l.el, t)
      /\ UNCHANGED <<prog, links, ref, count, signal, iter, mine>>
    <2>1. Goto(t, "cleared") /\ "cleared" \in Pcs
        BY DEF ClearYield, Pcs, SearchPcs, PairPcs, OffPcs, InsPcs
    <2>2. QED
        BY <1>0, <2>1, GotoNow DEF Known, ClearYield, At, Owns
<1>2. Others(t) /\ next' = next /\ prev' = prev /\ cur' = cur
    BY <1>1 DEF Others, Now, links, iter
<1>3. LocalOK(t)'
    BY <1>0, <1>1, <1>2, AtomicListAssumption
       DEF Known, Nodes, LocalOK, Now, Calls, Call, Inserts, SearchPcs, PairPcs, InsPcs, Moving,
           iter
<1>4. Steady(t) /\ Calm(t)
    BY <1>0, <1>1, <1>2 DEF Known, Steady, Calm, Now, Removing, Inserting, Claims, Counting, PinsEl,
       LocalOK, Calls, Call, Inserts, SearchPcs, PairPcs, InsPcs, OffPcs, Moving
<1>5. LockInv' /\ lock' \in [Nodes -> LockRec] /\ OwnersKept(t)
    <2>1. PICK a \in Nodes : a = l.el
        BY <1>1, ClaimedOff DEF OffPcs, Nodes
    <2>2. t \in lock[a].own /\ QueuedLast(t, lock[a]) /\ lock[a] \in LockRec
             /\ WellLocked(lock[a], XModes)
        BY <1>0, <1>1, <2>1 DEF Known, TypeOK, LockInv, EndOK, LockOK, Must
    <2>3. Queued(t, lock[a])
        <3>1. Len(lock[a].queue) \in Nat
            BY <2>2 DEF LockRec
        <3>2. QED
            BY <2>2, <3>1 DEF QueuedLast, Queued
    <2>4. lock' = [m \in Nodes |-> IF m \in {a} THEN Unlocked(lock[m], t) ELSE lock[m]]
        BY <1>0, <1>1, <2>1 DEF Known, TypeOK, Unlock
    <2>5. XMode(t)' = XMode(t) /\ XModes \in [Threads -> BOOLEAN] /\ XModes[t] = TRUE
        BY <1>1, XModesType DEF XMode, Now, OffPcs
    <2>6. EndOK(t)'
        <3>1. lock'[a] = Unlocked(lock[a], t)
            BY <2>4
        <3>2. IF t \in lock'[a].own THEN lock'[a].queue = <<>> ELSE QueuedLast(t, lock'[a])
            BY <2>2, <2>5, <3>1, UnlockOne
        <3>3. QED
            BY <1>1, <2>1, <3>2 DEF EndOK, Now, Owns
    <2>7. \A m \in Nodes : (Must(t, m) <=> m = a) /\ ~May(t, m) /\ (May(t, m)' <=> m = a)
             /\ ~Must(t, m)'
        BY <1>1, <2>1 DEF Must, May, Now
    <2>8. /\ TypeOK /\ LocalInv /\ LockInv /\ NearInv /\ Still(t) /\ l.el \in {a}
          /\ \A f \in Elems : OnList(f) => OnList(f)'
        BY <1>0, <1>1, <2>1, SameLinks DEF Known
    <2>9. QED
        BY <1>2, <2>2, <2>3, <2>4, <2>5, <2>6, <2>7, <2>8, LocksUnlocked
<1>6. Members' = Members
    BY <1>1, <1>2, <1>4, SteadyMembers
<1>7. NearOK(t)'
    BY <1>0, <1>1, <1>2, <1>6 DEF Known, NearOK, Now, Anchored, OnList, PairPcs, Inserts, Calls,
                                  Call
<1>8. TypeOK'
    BY <1>0, <1>1, <1>5 DEF Known, TypeOK, Now, links, iter
<1>9. (\A f \in Elems : Pins(t, f)' = Pins(t, f)) /\ InsertsAlone(t)
    <2>1. \A f \in Elems :
             /\ Holds(t, "cur", f)' <=> Holds(t, "cur", f)
             /\ Holds(t, "pinned", f)' <=> Holds(t, "pinned", f)
             /\ Holds(t, "x", f)' <=> Holds(t, "x", f)
             /\ Holds(t, "el", f)' <=> Holds(t, "el", f)
        BY <1>0, <1>1, <1>2, AtomicListAssumption
           DEF Known, Nodes, Holds, Now, PinsEl, LocalOK, Calls, Call, Inserts,
       SearchPcs, PairPcs, InsPcs, Moving, iter
    <2>2. \A f \in Elems : Pins(t, f)' = Pins(t, f)
        BY <2>1 DEF Pins, One
    <2>3. InsertsAlone(t)
        BY <1>1, <2>1 DEF InsertsAlone, Kinds, Inserting, PairPcs
    <2>4. QED
        BY <2>2, <2>3
<1>10. QED
    BY <1>1, <1>2, <1>3, <1>7, <1>4, <1>5, <1>8, <1>9, QuietStep

(* Inserted of an element that is returned pinned. *)
LEMMA InsertedPinned ==
    ASSUME IInv, NEW t \in Threads, Inserted(t), Call(t).pin
    PROVE  IInv'
<1> DEFINE l == local[t]
<1>0. Known(t)
    BY Knows
<1>1. /\ l.pc = "inserted" /\ Call(t).pin /\ lock' = Unlock(lock, l.n, t)
      /\ Now(t, "putback", l.n, l.x, l.el, l.el, l.then)
      /\ UNCHANGED <<prog, links, ref, count, signal, iter, mine>>
    <2>1. local' = [local EXCEPT ![t].pc = "putback", ![t].pinned = l.el] /\ "putback" \in Pcs
          /\ l.pc = "inserted" /\ UNCHANGED prog
        BY DEF Inserted, At, Pcs
    <2>2. QED
        BY <1>0, <2>1, PutNow DEF Known, Inserted
<1>2. Others(t) /\ next' = next /\ prev' = prev /\ cur' = cur
    BY <1>1 DEF Others, Now, links, iter
<1>3. LocalOK(t)'
    BY <1>0, <1>1, <1>2, AtomicListAssumption
       DEF Known, Nodes, LocalOK, Now, Calls, Call, Inserts, SearchPcs, PairPcs, InsPcs, Moving,
           iter
<1>4. Steady(t) /\ Calm(t)
    BY <1>0, <1>1, <1>2 DEF Known, Steady, Calm, Now, Removing, Inserting, Claims, Counting, PinsEl,
       LocalOK, Calls, Call, Inserts, SearchPcs, PairPcs, InsPcs, OffPcs, Moving
<1>5. LockInv' /\ lock' \in [Nodes -> LockRec] /\ OwnersKept(t)
    <2>1. PICK a \in Nodes : a = l.n
        BY <1>0, <1>1 DEF Known, LocalOK, InsPcs
    <2>2. t \in lock[a].own
        BY <1>0, <1>1, <2>1 DEF Known, LockOK, Must
    <2>3. \A m \in Nodes : (Must(t, m) <=> m = a) /\ ~May(t, m) /\ ~May(t, m)' /\ ~Must(t, m)'
        BY <1>1, <2>1 DEF Must, May, Now
    <2>4. GoesOn(t, {a}) /\ EndOK(t)' /\ l.pc # "clearyield"
        BY <1>1, <2>3 DEF GoesOn, EndOK, Now
    <2>5. QED
        BY <1>1, <1>2, <2>1, <2>2, <2>3, <2>4, OneUnlock
<1>6. Members' = Members
    BY <1>1, <1>2, <1>4, SteadyMembers
<1>7. NearOK(t)'
    BY <1>0, <1>1, <1>2, <1>6 DEF Known, NearOK, Now, Anchored, OnList, PairPcs, Inserts, Calls,
                                  Call
<1>8. TypeOK'
    BY <1>0, <1>1, <1>5 DEF Known, TypeOK, Now, links, iter
<1>9. (\A f \in Elems : Pins(t, f)' = Pins(t, f)) /\ InsertsAlone(t)
    <2>1. \A f \in Elems : /\ (Holds(t, "cur", f)' <=> Holds(t, "cur", f))
                              /\ (Holds(t, "x", f)' <=> Holds(t, "x", f))
                              /\ (Holds(t, "pinned", f)' <=> Holds(t, "el", f))
                                 /\ ~Holds(t, "pinned", f) /\ ~Holds(t, "el", f)'
        BY <1>0, <1>1, <1>2, AtomicListAssumption
           DEF Known, Nodes, Holds, Now, PinsEl, LocalOK, Calls, Call, Inserts,
       SearchPcs, PairPcs, InsPcs, Moving, iter
    <2>2. \A f \in Elems : Pins(t, f)' = Pins(t, f)
        BY <2>1 DEF Pins, One
    <2>3. InsertsAlone(t)
        BY <1>1, <2>1 DEF InsertsAlone, Kinds, Inserting, PairPcs
    <2>4. QED
        BY <2>2, <2>3
<1>10. QED
    BY <1>1, <1>2, <1>3, <1>7, <1>4, <1>5, <1>8, <1>9, QuietStep

(* Inserted preserves IInv. *)
LEMMA InsertedStep ==
    ASSUME IInv, NEW t \in Threads, Inserted(t)
    PROVE  IInv'
<1> DEFINE l == local[t]
<1>1. CASE Call(t).pin
    BY <1>1, InsertedPinned
<1>2. CASE ~Call(t).pin
    <2>0. Known(t) /\ l.pc = "inserted" /\ lock' = Unlock(lock, l.n, t) /\ Return(t)
          /\ UNCHANGED <<links, ref, count, signal, cur, mine>>
        BY <1>2, Knows DEF Inserted, At, iter
    <2>1. prog[t] # <<>> /\ ~Removing(t) /\ ~Inserting(t) /\ l.then \notin Moving /\ l.pinned = NULL
        BY <2>0 DEF Known, LocalOK, Removing, Inserting, SearchPcs, PairPcs, OffPcs, Moving
    <2>2. /\ Others(t) /\ Steady(t) /\ Calm(t) /\ LocalOK(t)' /\ NearOK(t)'
          /\ prog' \in [Threads -> Seq(Op)] /\ local' \in [Threads -> LocalRec]
          /\ EndOK(t)' /\ (\A m \in Nodes : ~Must(t, m)' /\ ~May(t, m)')
          /\ \A f \in Elems : Pins(t, f)' = One(cur'[t] = f)
        BY <2>0, <2>1, Returning DEF Counting, OffPcs
    <2>3. LockInv' /\ lock' \in [Nodes -> LockRec] /\ OwnersKept(t)
        <3>1. PICK a \in Nodes : a = l.n
            BY <2>0 DEF Known, LocalOK, InsPcs
        <3>2. t \in lock[a].own
            BY <2>0, <3>1 DEF Known, LockOK, Must
        <3>3. GoesOn(t, {a}) /\ l.pc # "clearyield"
            BY <2>0, <2>2, <3>1 DEF GoesOn, Must, May
        <3>4. QED
            BY <2>0, <2>2, <3>1, <3>2, <3>3, OneUnlock
    <2>4. \A f \in Elems : Pins(t, f)' = Pins(t, f)
        <3>1. \A f \in Elems : (Holds(t, "cur", f) <=> cur[t] = f) /\ ~Holds(t, "pinned", f)
                             /\ ~Holds(t, "x", f) /\ ~Holds(t, "el", f)
            BY <1>2, <2>0, <2>1, AtomicListAssumption DEF Holds, PinsEl, Moving, Nodes
        <3> SUFFICES ASSUME NEW f \in Elems PROVE Pins(t, f)' = Pins(t, f)
            OBVIOUS
        <3>2. Pins(t, f)' = IF cur[t] = f THEN 1 ELSE 0
            BY <2>0, <2>2 DEF One
        <3>3. QED
            BY <3>1, <3>2 DEF Pins, One
    <2>5. TypeOK'
        BY <2>0, <2>2, <2>3 DEF Known, TypeOK, links
    <2>6. QED
        BY <2>0, <2>1, <2>2, <2>3, <2>4, <2>5, QuietStep DEF InsertsAlone
<1>3. QED
    BY <1>1, <1>2

-------------------------------------------------------------------------------
(* The steps that begin or end a removal or an insertion. *)

(* An insertion that cannot begin returns at once. *)
LEMMA InsertNothing ==
    ASSUME IInv, NEW t \in Threads, Insert(t), ~(mine[t] # NULL /\ Anchor(t) \in Nodes)
    PROVE  IInv'
<1>1. /\ local[t].pc = "idle" /\ prog[t] # <<>> /\ Return(t)
      /\ UNCHANGED <<links, lock, ref, count, signal, cur, mine>>
    BY DEF Insert, At, Inserts, Calls, iter
<1>2. ~Removing(t) /\ \A f \in Elems : Pins(t, f) = One(cur[t] = f)
    BY <1>1, IdleFacts
<1>3. QED
    BY <1>1, <1>2, QuietReturn DEF IInv, TypeOK

-------------------------------------------------------------------------------
(* list->count *)

(* Finitely many elements are counted. *)
LEMMA CountedFinite ==
    IsFiniteSet(Counted) /\ IsFiniteSet(Counted')
<1>1. Counted \subseteq Elems /\ Counted' \subseteq Elems
    BY DEF Counted
<1>2. QED
    BY <1>1, AtomicListAssumption, FS_Subset

(* Who counts an element up or down has claimed it. *)
LEMMA CountsOne ==
    ASSUME IInv, NEW t \in Threads, Claims(t), NEW u \in Threads, local[u].pc \in Counting,
           local[u].el = local[t].el
    PROVE  u = t
<1>1. Claims(u)
    <2>1. LocalOK(u)
        BY Here
    <2>2. QED
        BY <2>1 DEF LocalOK, Claims, Removing, Inserting, Counting, InsPcs
<1>2. QED
    BY <1>1 DEF IInv, ClaimInv

(* An element is counted down: it is masked already. *)
LEMMA CountLess ==
    ASSUME IInv, NEW t \in Threads, Others(t), count' = count - 1,
           \A e \in Elems : ref'[e].mask = ref[e].mask,
           local[t].pc \in {"uncount", "uncountwait"}, local'[t].pc \notin Counting
    PROVE  CountInv'
<1>1. Claims(t) /\ local[t].pc \in Counting
    BY DEF Claims, Removing, Counting
<1>2. PICK e \in Elems : e = local[t].el /\ ref[e].mask
    BY <1>1, ClaimElem, Here DEF ClaimOK
<1>3. /\ Counted = {f \in Elems : ~ref[f].mask \/ \E u \in Threads :
                       local[u].el = f /\ local[u].pc \in Counting}
      /\ Counted' = {f \in Elems : ~ref'[f].mask \/ \E u \in Threads :
                       local'[u].el = f /\ local'[u].pc \in Counting}
    BY DEF Counted, Counting
<1>4. \A u \in Threads \ {t} : local'[u] = local[u]
         /\ ~(local[u].pc \in Counting /\ local[u].el = e)
    BY <1>1, <1>2, CountsOne DEF Others
<1>5. Counted' = Counted \ {e} /\ e \in Counted
    BY <1>1, <1>2, <1>3, <1>4
<1>6. Cardinality(Counted') = Cardinality(Counted) - 1
    BY <1>5, CountedFinite, FS_RemoveElement
<1>7. QED
    BY <1>6 DEF IInv, CountInv

(* An element is counted up, before it is exposed. *)
LEMMA CountMore ==
    ASSUME IInv, NEW t \in Threads, Others(t), count' = count + 1,
           \A e \in Elems : ref'[e].mask = ref[e].mask, Claims(t),
           local[t].pc \notin Counting, local'[t].pc = "expose", local'[t].el = local[t].el
    PROVE  CountInv'
<1>1. PICK e \in Elems : e = local[t].el /\ ref[e].mask
    BY ClaimElem, Here DEF ClaimOK
<1>2. /\ Counted = {f \in Elems : ~ref[f].mask \/ \E u \in Threads :
                       local[u].el = f /\ local[u].pc \in Counting}
      /\ Counted' = {f \in Elems : ~ref'[f].mask \/ \E u \in Threads :
                       local'[u].el = f /\ local'[u].pc \in Counting}
    BY DEF Counted, Counting
<1>3. /\ \A u \in Threads \ {t} : local'[u] = local[u]
      /\ \A u \in Threads : ~(local[u].pc \in Counting /\ local[u].el = e)
    BY <1>1, CountsOne DEF Others
<1>4. Counted' = Counted \cup {e} /\ e \notin Counted
    BY <1>1, <1>2, <1>3 DEF Counting
<1>5. Cardinality(Counted') = Cardinality(Counted) + 1
    BY <1>4, CountedFinite, FS_AddElement
<1>6. QED
    BY <1>5 DEF IInv, CountInv

(* A step that counts, and changes nothing else but locks and locals. *)
LEMMA CountingStep ==
    ASSUME IInv, NEW t \in Threads, Others(t), SameClaims(t), Calm(t), OwnersKept(t),
           UNCHANGED <<links, ref, signal, mine>>, ~Inserting(t),
           local[t].pc \notin OffPcs, local'[t].pc \notin OffPcs,
           local[t].pc # "expose" /\ local'[t].pc # "expose",
           TypeOK', LocalOK(t)', LockInv', NearOK(t)', CountInv',
           \A e \in Elems : Pins(t, e)' = Pins(t, e)
    PROVE  IInv'
<1>1. Members' = Members /\ LinkInv'
    BY LinksKept
<1>2. ref' = ref /\ signal' = signal /\ next' = next /\ prev' = prev
    BY DEF links
<1>3. Rely(t)
    BY <1>1, <1>2 DEF Rely, OnList
<1>4. WaitOK(t)'
    BY <1>2, <1>3, WaitSame
<1>5. ClaimInv'
    BY <1>2, ClaimsSame
<1>6. PinInv'
    <2>1. \A e \in Elems : Pins(t, e) \in 0..4 /\ ref[e].pin \in Nat
        BY PinsCounted DEF IInv, TypeOK
    <2>2. \A e \in Elems : ref'[e].pin = ref[e].pin + Pins(t, e)' - Pins(t, e)
        BY <1>2, <2>1
    <2>3. ~Inserting(t)'
        BY DEF SameClaims
    <2>4. QED
        BY <2>2, <2>3, PinsAfter
<1>7. QED
    BY <1>1, <1>3, <1>4, <1>5, <1>6, StepKeeps

(* The locals after a step that sets n. *)
LEMMA NodeNow ==
    ASSUME TypeOK, NEW t \in Threads, NEW p \in Pcs, NEW n \in Nodes,
           local' = [local EXCEPT ![t].pc = p, ![t].n = n]
    PROVE  Now(t, p, n, local[t].x, local[t].el, local[t].pinned, local[t].then)
BY DEF TypeOK, LocalRec, Now

(* adl_remove_elem_start: the removal goes on at once, *)
LEMMA UncountStep ==
    ASSUME IInv, NEW t \in Threads, Uncount(t)
    PROVE  IInv'
<1> DEFINE l == local[t]
<1>1. PICK e \in Elems : /\ e = l.el /\ l.pc = "uncount"
                         /\ count' = count - 1 /\ lock' = Request(lock, e, t, TRUE)
                         /\ local' = [local EXCEPT ![t].pc = "pair", ![t].n = e]
                         /\ UNCHANGED <<prog, links, ref, signal, cur, mine>>
    <2>1. l.pc = "uncount"
        BY DEF Uncount, At
    <2>2. l.el \in Elems
        BY <2>1, ClaimElem DEF Claims, Removing
    <2>3. QED
        BY <2>1, <2>2 DEF Uncount, iter
<1>2. Known(t) /\ Removing(t) /\ Claims(t) /\ ~Inserting(t)
    BY <1>1, Knows DEF Removing, Claims, Inserting, PairPcs
<1>3. /\ ~Inserts(t) /\ prog[t] # <<>> /\ l.pinned = NULL /\ l.then \notin Moving
      /\ (l.then = "remove" => Calls(t, {"dequeue", "pop"}))
      /\ \A m \in Nodes : ~Must(t, m) /\ ~May(t, m)
    BY <1>1, <1>2 DEF Known, LocalOK, Must, May, SearchPcs, PairPcs, InsPcs
<1>4. Now(t, "pair", e, l.x, e, NULL, l.then)
    <2>1. TypeOK /\ "pair" \in Pcs /\ e \in Nodes
        BY <1>2 DEF Known, Nodes, Pcs, PairPcs
    <2>2. Now(t, "pair", e, l.x, l.el, l.pinned, l.then)
        BY <1>1, <2>1, NodeNow
    <2>3. QED
        BY <1>1, <1>3, <2>2
<1>5. Others(t)
    BY <1>1, <1>4 DEF Others, Now
<1>6. LocalOK(t)' /\ NearOK(t)' /\ LockInv' /\ lock' \in [Nodes -> LockRec] /\ OwnersKept(t)
    BY <1>1, <1>2, <1>3, <1>4, <1>5, Pairing
<1>7. SameClaims(t) /\ Calm(t)
    <2>1. ~Inserts(t)'
        BY <1>1, <1>3 DEF Inserts, Calls, Call
    <2>2. Removing(t)' /\ ~Inserting(t)'
        BY <1>4, <2>1 DEF Now, Removing, Inserting, PairPcs
    <2>3. ~PinsEl(t)
        BY <1>1, <1>3 DEF PinsEl, PairPcs, InsPcs, Moving
    <2>4. QED
        BY <1>1, <1>2, <1>4, <2>2, <2>3 DEF SameClaims, Calm, Now
<1>8. TypeOK'
    <2>1. count' = count - 1 /\ ref' = ref
        BY <1>1
    <2>2. QED
        BY <1>1, <1>2, <1>4, <1>6 DEF Known, TypeOK, Now, links
<1>9. CountInv'
    BY <1>1, <1>4, <1>5, CountLess DEF Now, Counting
<1>10. \A f \in Elems : Pins(t, f)' = Pins(t, f)
    <2>1. \A f \in Elems : (Holds(t, "cur", f)' <=> Holds(t, "cur", f))
                           /\ ~Holds(t, "pinned", f)' /\ ~Holds(t, "pinned", f)
                           /\ ~Holds(t, "x", f)' /\ ~Holds(t, "x", f)
                           /\ ~Holds(t, "el", f)' /\ ~Holds(t, "el", f)
        BY <1>1, <1>3, <1>4, AtomicListAssumption
           DEF Holds, PinsEl, Now, PairPcs, InsPcs, Moving, Nodes, Inserts, Calls, Call
    <2>2. QED
        BY <2>1 DEF Pins, One
<1>11. QED
    BY <1>1, <1>2, <1>4, <1>5, <1>6, <1>7, <1>8, <1>9, <1>10, CountingStep
       DEF Now, OffPcs

(* or waits for the pins of the element; an iterator moves on first. *)
LEMMA UncountWaitStep ==
    ASSUME IInv, NEW t \in Threads, UncountWait(t)
    PROVE  IInv'
<1> DEFINE l == local[t]
           pops == Calls(t, {"fwdpop", "bwdpop"})
<1>1. PICK e \in Elems : /\ e = l.el /\ l.pc = "uncountwait" /\ count' = count - 1
                         /\ pops => Find(t, Dir(t), e, e, "peek", e)
                         /\ ~pops => Goto(t, "settle") /\ UNCHANGED lock
                         /\ UNCHANGED <<prog, links, ref, signal, cur, mine>>
    <2>1. l.pc = "uncountwait"
        BY DEF UncountWait, At
    <2>2. l.el \in Elems
        BY <2>1, ClaimElem DEF Claims, Removing
    <2>3. QED
        BY <2>1, <2>2 DEF UncountWait, iter
<1>2. Known(t) /\ Removing(t) /\ Claims(t) /\ ~Inserting(t) /\ PinsEl(t)
    BY <1>1, Knows DEF Removing, Claims, Inserting, PairPcs, PinsEl
<1>3. /\ ~Inserts(t) /\ prog[t] # <<>> /\ l.pinned = NULL /\ l.then \notin Moving
      /\ (pops => cur[t] = e)
      /\ \A m \in Nodes : ~Must(t, m) /\ ~May(t, m)
    BY <1>1, <1>2 DEF Known, LocalOK, Must, May, SearchPcs, PairPcs, InsPcs
<1>4. CASE pops
    <2>1. PICK d \in {"next", "prev"} : d = Dir(t)
        BY DEF Dir
    <2>2. Find(t, d, e, e, "peek", e) /\ d \in Pcs
        BY <1>1, <1>4, <2>1 DEF Pcs, SearchPcs
    <2>3. Now(t, d, e, NULL, e, e, "peek")
        BY <1>2, <2>2, FindNow DEF Known, Moving, Nodes
    <2>4. Others(t)
        BY <1>1, <2>3 DEF Others, Now
    <2>5. SameClaims(t) /\ Calm(t)
        BY <1>1, <1>2, <2>3 DEF SameClaims, Calm, Claims, Removing, Inserting, Now, PairPcs, PinsEl
    <2>6. Members' = Members
        BY <1>1, <2>3, <2>4, LinksKept DEF OffPcs, Now
    <2>7. Fresh(t, e) /\ e \in Members'
        BY <1>1, <1>2, <2>6, FreshRemoved, RemovedIsMember DEF OffPcs
    <2>8. LocalOK(t)' /\ NearOK(t)' /\ LockInv' /\ lock' \in [Nodes -> LockRec] /\ OwnersKept(t)
        <3>1. e # NULL /\ "peek" \in Moving /\ l.pc # "clearyield"
            BY <1>1, AtomicListAssumption DEF Nodes, Moving
        <3>2. "peek" \in Moving \cup {"remove"} /\ e \in Elems \cup {NULL}
            BY <3>1
        <3>3. Calls(t, {"fwdpop", "bwdpop"})
            BY <1>4
        <3>4. QED
            BY <1>1, <1>3, <2>2, <2>7, <3>1, <3>2, <3>3, Searching
    <2>9. TypeOK'
        BY <1>1, <1>2, <2>3, <2>8 DEF Known, TypeOK, Now, links
    <2>10. CountInv'
        BY <1>1, <2>3, <2>4, CountLess DEF Now, Counting
    <2>11. \A f \in Elems : Pins(t, f)' = Pins(t, f)
        <3>1. \A f \in Elems : ~Holds(t, "cur", f)' /\ (Holds(t, "cur", f) <=> f = e)
                               /\ (Holds(t, "pinned", f)' <=> f = e) /\ ~Holds(t, "pinned", f)
                               /\ ~Holds(t, "x", f)' /\ ~Holds(t, "x", f)
                               /\ (Holds(t, "el", f)' <=> f = e) /\ (Holds(t, "el", f) <=> f = e)
            BY <1>1, <1>2, <1>3, <1>4, <2>3, AtomicListAssumption
               DEF Holds, PinsEl, Now, Moving, Nodes
        <3>2. QED
            BY <3>1 DEF Pins, One
    <2>12. QED
        BY <1>1, <1>2, <2>3, <2>4, <2>5, <2>8, <2>9, <2>10, <2>11, CountingStep DEF Now, OffPcs
<1>5. CASE ~pops
    <2>1. Now(t, "settle", l.n, l.x, e, NULL, l.then) /\ lock' = lock
        BY <1>1, <1>2, <1>3, <1>5, GotoNow DEF Known, Pcs
    <2>2. Others(t)
        BY <1>1, <2>1 DEF Others, Now
    <2>3. SameClaims(t) /\ Calm(t)
        BY <1>1, <1>2, <2>1 DEF SameClaims, Calm, Claims, Removing, Inserting, Now, PairPcs, PinsEl
    <2>4. LocalOK(t)' /\ NearOK(t)'
        BY <1>1, <1>2, <1>3, <1>5, <2>1, AtomicListAssumption
           DEF Known, LocalOK, NearOK, Now, Calls, Call, Inserts, SearchPcs, PairPcs, InsPcs, Moving
    <2>5. LockInv' /\ lock' \in [Nodes -> LockRec] /\ OwnersKept(t)
        <3>1. GoesOn(t, {}) /\ EndOK(t)'
            BY <1>3, <2>1 DEF GoesOn, EndOK, Now, Must, May
        <3>2. QED
            BY <1>1, <1>3, <2>1, <2>2, <3>1, NoRequest
    <2>6. TypeOK'
        BY <1>1, <1>2, <2>1, <2>5 DEF Known, TypeOK, Now, links
    <2>7. CountInv'
        BY <1>1, <2>1, <2>2, CountLess DEF Now, Counting
    <2>8. \A f \in Elems : Pins(t, f)' = Pins(t, f)
        <3>1. \A f \in Elems : (Holds(t, "cur", f)' <=> Holds(t, "cur", f))
                               /\ ~Holds(t, "pinned", f)' /\ ~Holds(t, "pinned", f)
                               /\ ~Holds(t, "x", f)' /\ ~Holds(t, "x", f)
                               /\ (Holds(t, "el", f)' <=> Holds(t, "el", f))
            BY <1>1, <1>3, <2>1, AtomicListAssumption DEF Holds, PinsEl, Now, Moving, Nodes
        <3>2. QED
            BY <3>1 DEF Pins, One
    <2>9. QED
        BY <1>1, <1>2, <2>1, <2>2, <2>3, <2>4, <2>5, <2>6, <2>7, <2>8, CountingStep DEF Now, OffPcs
<1>6. QED
    BY <1>4, <1>5

-------------------------------------------------------------------------------
(* A removal begins: the element was not masked, so nobody had claimed it  *)
(* and nobody waits for it.                                                *)
LEMMA MaskTakes ==
    ASSUME IInv, NEW t \in Threads, Mask(t), ~ref[local[t].el].mask
    PROVE  IInv'
<1> DEFINE l == local[t]
<1>0. Known(t) /\ l.pc = "mask"
    BY Knows DEF Mask, At
<1>1. PICK e \in Elems : e = l.el
    BY <1>0 DEF Known, LocalOK, SearchPcs
<1>2. l.then \notin Moving /\ l.pinned = NULL /\ ~Inserts(t) /\ prog[t] # <<>>
    BY <1>0 DEF Known, LocalOK, SearchPcs, PairPcs, InsPcs
<1>3. PICK p \in {"uncount", "uncountwait"} :
          (p = "uncount" <=> ref[e].pin = 1) /\ Now(t, p, l.n, l.x, e, NULL, l.then)
    <2>1. PICK p \in {"uncount", "uncountwait"} : (p = "uncount" <=> ref[e].pin = 1) /\ Goto(t, p)
        BY <1>1 DEF Mask
    <2>2. p \in Pcs
        BY DEF Pcs
    <2>3. Now(t, p, l.n, l.x, l.el, l.pinned, l.then)
        BY <1>0, <2>1, <2>2, GotoNow DEF Known
    <2>4. QED
        BY <1>1, <1>2, <2>1, <2>3
<1>4. UNCHANGED <<prog, links, lock, count, signal, cur, mine>> /\ next' = next /\ prev' = prev
    BY DEF Mask, links
<1>5. /\ ref' \in [Elems -> RefRec] /\ ref'[e].mask /\ ref'[e].wait = ref[e].wait
      /\ ref'[e].pin = IF ref[e].pin = 1 THEN 0 ELSE ref[e].pin
      /\ \A f \in Elems \ {e} : ref'[f] = ref[f]
    <2>1. ref \in [Elems -> RefRec]
        BY <1>0 DEF Known, TypeOK, RefRec
    <2>2. PICK k : k = IF ref[e].pin = 1 THEN 0 ELSE ref[e].pin
        OBVIOUS
    <2>3. k \in Nat
        BY <2>1, <2>2 DEF RefRec
    <2>4. ref' = [ref EXCEPT ![e].mask = TRUE, ![e].pin = k]
        BY <1>1, <2>1, <2>2 DEF Mask
    <2>5. QED
        BY <2>1, <2>2, <2>3, <2>4 DEF RefRec
<1>6. Others(t)
    BY <1>3, <1>4 DEF Others, Now
<1>7. ~Removing(t) /\ ~Inserting(t) /\ Removing(t)' /\ ~Inserting(t)'
    BY <1>0, <1>2, <1>3 DEF Removing, Inserting, Now, PairPcs, OffPcs, Moving
<1>8. /\ ~ref[e].mask /\ OnList(e) /\ ref[e].wait = {} /\ Holds(t, "el", e)
      /\ ref[e].pin > 0 /\ \A f \in Elems : ref[f].pin \in Nat
    <2>1. ~ref[e].mask /\ OnList(e) /\ ref[e].wait = {}
        BY <1>1 DEF IInv, ClaimInv, ElemOK, WaitInv
    <2>2. Holds(t, "el", e)
        BY <1>0, <1>1 DEF Holds, PinsEl
    <2>3. QED
        BY <2>1, <2>2, HeldIsPinned DEF Kinds, IInv, TypeOK
<1>9. Members' = Members /\ LinkInv'
    BY <1>0, <1>3, <1>4, <1>6, LinksKept DEF Now, OffPcs
<1>10. LocalOK(t)' /\ NearOK(t)'
    BY <1>0, <1>1, <1>2, <1>3, <1>4, AtomicListAssumption
       DEF Known, LocalOK, NearOK, Now, Calls, Call, Inserts, SearchPcs, PairPcs, InsPcs, Moving
<1>11. LockInv' /\ lock' \in [Nodes -> LockRec] /\ OwnersKept(t)
    <2>1. GoesOn(t, {}) /\ EndOK(t)' /\ \A m \in Nodes : ~Must(t, m) /\ ~May(t, m)
        BY <1>0, <1>3 DEF GoesOn, EndOK, Now, Must, May
    <2>2. QED
        BY <1>0, <1>4, <1>6, <2>1, NoRequest
<1>12. TypeOK'
    BY <1>0, <1>3, <1>4, <1>5, <1>11 DEF Known, TypeOK, Now, links, RefRec
<1>13. Rely(t)
    <2>1. \A u \in Threads, f \in Elems : u \in ref[f].wait => f # e
        BY <1>8
    <2>2. \A f \in Elems : ref'[f].wait = ref[f].wait
        BY <1>5
    <2>3. \A f \in Elems : ref[f].mask => ref'[f].mask /\ ref'[f] = ref[f]
        BY <1>5, <1>8
    <2>4. QED
        BY <1>4, <1>5, <1>9, <2>1, <2>2, <2>3 DEF Rely, OnList
<1>14. PinInv'
    <2>1. \A f \in Elems : (Holds(t, "cur", f)' <=> Holds(t, "cur", f))
                           /\ ~Holds(t, "pinned", f)' /\ ~Holds(t, "pinned", f)
                           /\ ~Holds(t, "x", f)' /\ ~Holds(t, "x", f)
                           /\ (Holds(t, "el", f)' <=> f = e /\ ref[e].pin # 1)
                           /\ (Holds(t, "el", f) <=> f = e)
        BY <1>0, <1>1, <1>2, <1>3, <1>4, AtomicListAssumption
           DEF Holds, PinsEl, Now, Moving, Nodes, PairPcs, InsPcs
    <2>2. \A f \in Elems : ref'[f].pin = ref[f].pin + Pins(t, f)' - Pins(t, f)
        <3> TAKE f \in Elems
        <3>1. CASE f = e /\ ref[e].pin = 1
            BY <1>5, <2>1, <3>1 DEF Pins, One
        <3>2. CASE ~(f = e /\ ref[e].pin = 1)
            <4>1. Pins(t, f)' = Pins(t, f)
                BY <2>1, <3>2 DEF Pins, One
            <4>2. ref'[f].pin = ref[f].pin /\ ref[f].pin \in Nat
                BY <1>5, <1>8, <3>2
            <4>3. QED
                BY <4>1, <4>2, <1>6, PinsCounted
        <3>3. QED
            BY <3>1, <3>2
    <2>3. \A f \in Elems : Pins(t, f)' > 0 => Pins(t, f) > 0
        BY <2>1, PinsHeld DEF Kinds
    <2>4. QED
        BY <1>6, <1>7, <2>2, <2>3, PinsAfter
<1>15. ClaimInv'
    <2>1. \A u \in Threads \ {t} : /\ Removing(u)' <=> Removing(u)
                                   /\ Inserting(u)' <=> Inserting(u)
                                   /\ Claims(u)' <=> Claims(u)
                                   /\ local'[u] = local[u]
        BY <1>6, OthersSame
    <2>2. \A u \in Threads : Claims(u) => u # t /\ local[u].el # e /\ local[u].el \in Elems
        <3>1. \A u \in Threads : Claims(u) => ref[local[u].el].mask /\ local[u].el \in Elems
            BY ClaimElem DEF IInv, ClaimInv, ClaimOK
        <3>2. QED
            BY <1>7, <1>8, <3>1 DEF Claims
    <2>3. local'[t].el = e /\ Claims(t)'
        BY <1>3, <1>7 DEF Now, Claims
    <2>4. \A u, w \in Threads : Claims(u)' /\ Claims(w)' /\ local'[u].el = local'[w].el => u = w
        BY <2>1, <2>2, <2>3 DEF IInv, ClaimInv
    <2>5. \A u \in Threads : ClaimOK(u)'
        <3>1. ClaimOK(t)'
            BY <1>4, <1>5, <1>7, <1>8, <2>3 DEF ClaimOK, OnList
        <3>2. \A u \in Threads \ {t} : ClaimOK(u)'
            BY <1>4, <1>5, <2>1, <2>2 DEF ClaimOK, OnList, IInv, ClaimInv, Claims
        <3>3. QED
            BY <3>1, <3>2
    <2>6. \A u \in Threads : MineOK(u)'
        BY <1>4, <1>8, <2>1, <2>2, <2>3 DEF IInv, ClaimInv, MineOK, OnList
    <2>7. \A f \in Elems : ElemOK(f)'
        <3> SUFFICES ASSUME NEW f \in Elems PROVE ElemOK(f)'
            OBVIOUS
        <3>1. CASE f = e
            BY <1>4, <1>5, <1>8, <2>3, <3>1 DEF ElemOK, OnList
        <3>2. CASE f # e
            <4>1. ElemOK(f) /\ ref'[f] = ref[f] /\ (OnList(f)' <=> OnList(f))
                BY <1>4, <1>5, <3>2 DEF IInv, ClaimInv, OnList
            <4>2. \A u \in Threads : /\ Claims(u) => Claims(u)' /\ local'[u].el = local[u].el
                                     /\ Inserting(u) => Inserting(u)' /\ local'[u].el = local[u].el
                BY <1>7, <2>1, <2>2
            <4>3. QED
                BY <4>1, <4>2 DEF ElemOK
        <3>3. QED
            BY <3>1, <3>2
    <2>8. QED
        BY <2>4, <2>5, <2>6, <2>7 DEF ClaimInv
<1>16. WaitOK(t)'
    <2>1. ~signal[t] /\ \A f \in Elems : t \notin ref'[f].wait
        <3>1. \A f \in Elems : ref'[f].wait = ref[f].wait
            BY <1>5
        <3>2. QED
            BY <1>0, <3>1 DEF Known, WaitOK
    <2>2. p = "uncount" => ref'[e].pin = 0
        BY <1>3, <1>5
    <2>3. p = "uncountwait" => PinsEl(t)'
        BY <1>3 DEF PinsEl, Now
    <2>4. local'[t].pc = p /\ local'[t].el = e
        BY <1>3 DEF Now
    <2>5. QED
        BY <1>4, <1>7, <2>1, <2>2, <2>3, <2>4 DEF WaitOK
<1>17. CountInv'
    <2>1. /\ Counted = {f \in Elems : ~ref[f].mask \/ \E u \in Threads :
                           local[u].el = f /\ local[u].pc \in Counting}
          /\ Counted' = {f \in Elems : ~ref'[f].mask \/ \E u \in Threads :
                           local'[u].el = f /\ local'[u].pc \in Counting}
        BY DEF Counted, Counting
    <2>2. local'[t].el = e /\ local'[t].pc \in Counting /\ local[t].pc \notin Counting
          /\ \A u \in Threads \ {t} : local'[u] = local[u]
        BY <1>0, <1>3 DEF Now, Counting
    <2>3. Counted' = Counted
        BY <1>5, <1>8, <2>1, <2>2
    <2>4. QED
        BY <1>4, <2>3 DEF IInv, CountInv
<1>18. QED
    BY <1>6, <1>9, <1>10, <1>11, <1>12, <1>13, <1>14, <1>15, <1>16, <1>17, StepKeeps

(* Mask preserves IInv. *)
LEMMA MaskStep ==
    ASSUME IInv, NEW t \in Threads, Mask(t)
    PROVE  IInv'
BY MaskTakes, MaskFails

-------------------------------------------------------------------------------
(* An insertion ends: the element is exposed. *)
LEMMA ExposeStep ==
    ASSUME IInv, NEW t \in Threads, Expose(t)
    PROVE  IInv'
<1> DEFINE l == local[t]
<1>0. Known(t) /\ l.pc = "expose"
    BY Knows DEF Expose, At
<1>1. Inserts(t) /\ l.then \notin Moving /\ l.pinned = NULL /\ prog[t] # <<>>
    BY <1>0 DEF Known, LocalOK, SearchPcs, InsPcs
<1>2. Inserting(t) /\ Claims(t) /\ ~Removing(t)
    BY <1>0, <1>1 DEF Inserting, Claims, Removing, PairPcs, OffPcs, Moving
<1>3. PICK e \in Elems : e = l.el
    BY <1>2, ClaimElem
<1>4. Now(t, "linked", l.n, l.x, e, NULL, l.then)
    <2>1. Goto(t, "linked") /\ "linked" \in Pcs
        BY DEF Expose, Pcs, InsPcs
    <2>2. Now(t, "linked", l.n, l.x, l.el, l.pinned, l.then)
        BY <1>0, <2>1, GotoNow DEF Known
    <2>3. QED
        BY <1>1, <1>3, <2>2
<1>5. UNCHANGED <<prog, links, lock, count, signal, cur, mine>> /\ next' = next /\ prev' = prev
    BY DEF Expose, links, iter
<1>6. /\ ref' \in [Elems -> RefRec] /\ ~ref'[e].mask
      /\ \A f \in Elems : ref'[f].wait = ref[f].wait /\ ref'[f].pin = ref[f].pin
      /\ \A f \in Elems \ {e} : ref'[f] = ref[f]
    <2>1. ref \in [Elems -> RefRec] /\ ref' = [ref EXCEPT ![e].mask = FALSE]
        BY <1>0, <1>3 DEF Known, TypeOK, RefRec, Expose
    <2>2. QED
        BY <2>1 DEF RefRec
<1>7. Others(t)
    BY <1>4, <1>5 DEF Others, Now
<1>8. ~Removing(t)' /\ ~Inserting(t)'
    BY <1>1, <1>4 DEF Removing, Inserting, Now, PairPcs, OffPcs, Moving
<1>9. ref[e].mask /\ OnList(e) /\ \A f \in Elems : ref[f].pin \in Nat
    BY <1>0, <1>2, <1>3 DEF Known, ClaimOK, TypeOK
<1>10. Members' = Members /\ LinkInv'
    BY <1>0, <1>4, <1>5, <1>7, LinksKept DEF Now, OffPcs
<1>11. LocalOK(t)' /\ NearOK(t)'
    BY <1>0, <1>1, <1>3, <1>4, <1>5, AtomicListAssumption
       DEF Known, LocalOK, NearOK, Now, Calls, Call, Inserts, SearchPcs, PairPcs, InsPcs, Moving
<1>12. LockInv' /\ lock' \in [Nodes -> LockRec] /\ OwnersKept(t)
    <2>1. GoesOn(t, {})
        BY <1>0, <1>4 DEF Known, GoesOn, LockOK, Now, Must, May
    <2>2. XMode(t)' = XMode(t) /\ EndOK(t)'
        BY <1>0, <1>4 DEF XMode, EndOK, Now, InsPcs
    <2>3. QED
        BY <1>0, <1>5, <1>7, <2>1, <2>2, NoRequest
<1>13. TypeOK'
    BY <1>0, <1>4, <1>5, <1>6, <1>12 DEF Known, TypeOK, Now, links, RefRec
<1>14. Rely(t)
    <2>1. \A f \in Elems : ref[f].mask => ref'[f].mask \/ (At(t, "expose") /\ f = local[t].el)
        BY <1>0, <1>3, <1>6 DEF At
    <2>2. QED
        BY <1>5, <1>6, <1>10, <2>1 DEF Rely, OnList
<1>15. \A f \in Elems : (Holds(t, "cur", f)' <=> Holds(t, "cur", f))
                        /\ ~Holds(t, "pinned", f)' /\ ~Holds(t, "pinned", f)
                        /\ ~Holds(t, "x", f)' /\ ~Holds(t, "x", f)
                        /\ (Holds(t, "el", f)' <=> Holds(t, "el", f))
    BY <1>0, <1>1, <1>3, <1>4, <1>5, AtomicListAssumption
       DEF Holds, PinsEl, Now, Moving, Nodes, PairPcs, InsPcs, Inserts, Calls, Call
<1>16. PinInv'
    <2>1. \A f \in Elems : Pins(t, f)' = Pins(t, f)
        BY <1>15 DEF Pins, One
    <2>2. \A f \in Elems : ref'[f].pin = ref[f].pin + Pins(t, f)' - Pins(t, f)
        BY <1>6, <1>7, <1>9, <2>1, PinsCounted
    <2>3. QED
        BY <1>7, <1>8, <2>1, <2>2, PinsAfter
<1>17. ClaimInv'
    <2>1. \A u \in Threads \ {t} : /\ Removing(u)' <=> Removing(u)
                                   /\ Inserting(u)' <=> Inserting(u)
                                   /\ Claims(u)' <=> Claims(u)
                                   /\ local'[u] = local[u]
        BY <1>7, OthersSame
    <2>2. \A u \in Threads \ {t} : Claims(u) => local[u].el # e /\ local[u].el \in Elems
        BY <1>2, <1>3, ClaimElem DEF IInv, ClaimInv
    <2>3. ~Claims(t)'
        BY <1>8 DEF Claims
    <2>4. \A u, w \in Threads : Claims(u)' /\ Claims(w)' /\ local'[u].el = local'[w].el => u = w
        BY <2>1, <2>3 DEF IInv, ClaimInv
    <2>5. \A u \in Threads : ClaimOK(u)'
        <3>1. ClaimOK(t)'
            BY <1>8, <2>3 DEF ClaimOK
        <3>2. \A u \in Threads \ {t} : ClaimOK(u)'
            BY <1>5, <1>6, <2>1, <2>2 DEF ClaimOK, OnList, IInv, ClaimInv, Claims
        <3>3. QED
            BY <3>1, <3>2
    <2>6. \A u \in Threads : MineOK(u)'
        BY <1>5, <2>1, <2>2, <2>3 DEF IInv, ClaimInv, MineOK, OnList
    <2>7. \A f \in Elems : ElemOK(f)'
        <3> SUFFICES ASSUME NEW f \in Elems PROVE ElemOK(f)'
            OBVIOUS
        <3>1. CASE f = e
            BY <1>5, <1>6, <1>9, <3>1 DEF ElemOK, OnList
        <3>2. CASE f # e
            <4>1. ElemOK(f) /\ ref'[f] = ref[f] /\ (OnList(f)' <=> OnList(f))
                BY <1>5, <1>6, <3>2 DEF IInv, ClaimInv, OnList
            <4>2. \A u \in Threads : local[u].el = f =>
                      /\ Claims(u) => Claims(u)' /\ local'[u].el = local[u].el
                      /\ Inserting(u) => Inserting(u)' /\ local'[u].el = local[u].el
                BY <1>3, <2>1, <3>2
            <4>3. QED
                BY <4>1, <4>2 DEF ElemOK
        <3>3. QED
            BY <3>1, <3>2
    <2>8. QED
        BY <2>4, <2>5, <2>6, <2>7 DEF ClaimInv
<1>18. WaitOK(t)'
    <2>1. ~signal[t] /\ \A f \in Elems : t \notin ref'[f].wait
        BY <1>0, <1>6 DEF Known, WaitOK
    <2>2. local'[t].pc = "linked"
        BY <1>4 DEF Now
    <2>3. QED
        BY <1>5, <1>8, <2>1, <2>2 DEF WaitOK
<1>19. CountInv'
    <2>1. /\ Counted = {f \in Elems : ~ref[f].mask \/ \E u \in Threads :
                           local[u].el = f /\ local[u].pc \in Counting}
          /\ Counted' = {f \in Elems : ~ref'[f].mask \/ \E u \in Threads :
                           local'[u].el = f /\ local'[u].pc \in Counting}
        BY DEF Counted, Counting
    <2>2. local'[t].pc \notin Counting /\ local[t].pc \in Counting
          /\ \A u \in Threads \ {t} : local'[u] = local[u]
        BY <1>0, <1>4 DEF Now, Counting
    <2>3. Counted' = Counted
        BY <1>3, <1>6, <2>1, <2>2
    <2>4. QED
        BY <1>5, <2>3 DEF IInv, CountInv
<1>20. QED
    BY <1>7, <1>10, <1>11, <1>12, <1>13, <1>14, <1>16, <1>17, <1>18, <1>19, StepKeeps

(* An insertion begins: nobody knows of the element but the thread. *)
LEMMA InsertBegins ==
    ASSUME IInv, NEW t \in Threads, Insert(t), mine[t] # NULL, Anchor(t) \in Nodes
    PROVE  IInv'
<1> DEFINE l == local[t]
<1>0. Known(t) /\ l.pc = "idle" /\ Inserts(t) /\ prog[t] # <<>>
    BY Knows DEF Insert, At, Inserts, Calls
<1>1. /\ ~Removing(t) /\ ~Inserting(t)
      /\ \A m \in Nodes : ~Must(t, m) /\ ~May(t, m)
      /\ \A f \in Elems : Pins(t, f) = One(cur[t] = f)
    BY <1>0, IdleFacts
<1>2. l.n = NULL /\ l.x = NULL /\ l.el = NULL /\ l.pinned = NULL /\ l.then = NULL
    <2>1. l = Idle
        BY <1>0, IdleFacts
    <2>2. QED
        BY <2>1 DEF Idle
<1>3. PICK e \in Elems : e = mine[t]
    BY <1>0 DEF Known
<1>4. PICK a \in Nodes : a = Anchor(t)
    OBVIOUS
<1>5. PICK p \in {"insnext", "pair"} :
          /\ Now(t, p, a, NULL, e, NULL, NULL)
          /\ p = "insnext" => a = HEAD \/ a = cur[t]
          /\ p = "pair" => a = TAIL \/ a = cur[t]
    <2>1. PICK p : p = IF Calls(t, {"front", "after"}) THEN "insnext" ELSE "pair"
        OBVIOUS
    <2>2. p \in {"insnext", "pair"} /\ p \in Pcs
        BY <2>1 DEF Pcs, PairPcs, InsPcs
    <2>3. /\ p = "insnext" => a = HEAD \/ a = cur[t]
          /\ p = "pair" => a = TAIL \/ a = cur[t]
        BY <1>4, <2>1 DEF Anchor, Calls
    <2>4. local' = [local EXCEPT ![t].n = a, ![t].el = e, ![t].pc = p]
        BY <1>3, <1>4, <2>1 DEF Insert
    <2>5. local \in [Threads -> LocalRec]
        BY <1>0 DEF Known, TypeOK
    <2>6. Now(t, p, a, l.x, e, l.pinned, l.then)
        BY <2>2, <2>4, <2>5 DEF LocalRec, Now
    <2>7. QED
        BY <1>2, <2>2, <2>3, <2>6
<1>6. /\ UNCHANGED <<prog, links, count, signal, cur>> /\ next' = next /\ prev' = prev
      /\ lock' = Request(lock, a, t, TRUE) /\ mine' = [mine EXCEPT ![t] = NULL]
    BY <1>3, <1>4 DEF Insert, links, iter
<1>7. /\ ~OnList(e) /\ ref[e].mask /\ ref[e].wait = {} /\ ref[e].pin = 0
      /\ \A u \in Threads : Claims(u) => local[u].el # e
      /\ \A u \in Threads \ {t} : mine[u] # e
      /\ \A f \in Elems : ref[f].pin \in Nat
    <2>1. /\ ~OnList(e) /\ \A u \in Threads : Claims(u) => local[u].el # e
          /\ \A u \in Threads \ {t} : mine[u] # e
        BY <1>0, <1>3 DEF Known, MineOK
    <2>2. ElemOK(e) /\ \A f \in Elems : ref[f].pin \in Nat
        BY DEF IInv, ClaimInv, TypeOK
    <2>3. QED
        BY <2>1, <2>2 DEF ElemOK, Claims
<1>8. \A u \in Threads, k \in Kinds : ~Holds(u, k, e)
    BY <1>7, HeldIsPinned
<1>9. /\ ref' \in [Elems -> RefRec]
      /\ ref'[e] = [mask |-> TRUE, wait |-> {}, pin |-> IF Call(t).pin THEN 1 ELSE 0]
      /\ \A f \in Elems \ {e} : ref'[f] = ref[f]
    <2>1. ref \in [Elems -> RefRec]
        BY <1>0 DEF Known, TypeOK, RefRec
    <2>2. PICK r : r = [mask |-> TRUE, wait |-> {}, pin |-> IF Call(t).pin THEN 1 ELSE 0]
        OBVIOUS
    <2>3. r \in RefRec /\ ref' = [ref EXCEPT ![e] = r]
        BY <1>3, <1>4, <2>2 DEF RefRec, Insert
    <2>4. QED
        BY <2>1, <2>2, <2>3
<1>10. /\ ref'[e].mask /\ ref'[e].wait = {} /\ ref'[e].pin = IF Call(t).pin THEN 1 ELSE 0
       /\ ref'[e].mask = ref[e].mask
    <2>1. ref[e].mask \in BOOLEAN /\ ref'[e].mask = TRUE
        BY <1>9 DEF IInv, TypeOK
    <2>2. QED
        BY <1>7, <1>9, <2>1
<1>11. Others(t) /\ mine' \in [Threads -> Elems \cup {NULL}] /\ mine'[t] = NULL
    BY <1>0, <1>5, <1>6 DEF Known, TypeOK, Others, Now
<1>12. Inserting(t)' /\ ~Removing(t)' /\ Inserts(t)'
    <2>1. Inserts(t)'
        BY <1>0, <1>6 DEF Inserts, Calls, Call
    <2>2. QED
        BY <1>5, <2>1, AtomicListAssumption DEF Inserting, Removing, Now, PairPcs, OffPcs
<1>13. Members' = Members /\ LinkInv'
    BY <1>0, <1>5, <1>6, <1>11, LinksKept DEF Now, OffPcs, PairPcs
<1>14. LocalOK(t)'
    BY <1>0, <1>5, <1>6, <1>12, AtomicListAssumption
       DEF LocalOK, Now, Calls, SearchPcs, PairPcs, InsPcs, Moving, Nodes
<1>15. NearOK(t)'
    BY <1>5, <1>6, <1>12 DEF NearOK, Now, PairPcs
<1>16. LockInv' /\ lock' \in [Nodes -> LockRec] /\ OwnersKept(t)
    <2>1. Fresh(t, a)
        <3>1. CASE a \in {HEAD, TAIL}
            BY <3>1, FreshEnd
        <3>2. CASE a = cur[t]
            BY <1>2, <3>2, CurNode, AtomicListAssumption DEF Moving
        <3>3. QED
            BY <1>5, <3>1, <3>2
    <2>2. XMode(t)' = TRUE /\ EndOK(t)'
        BY <1>5 DEF XMode, EndOK, Now, PairPcs, InsPcs
    <2>3. (\A m \in Nodes : ~Must(t, m)') /\ \A m \in Nodes : May(t, m)' <=> m = a
        BY <1>5 DEF Must, May, Now
    <2>4. GoesOn(t, {a})
        BY <1>1, <2>3 DEF GoesOn
    <2>5. QED
        BY <1>0, <1>1, <1>6, <1>11, <2>1, <2>2, <2>3, <2>4, OneRequest
<1>17. TypeOK'
    BY <1>0, <1>5, <1>6, <1>9, <1>11, <1>16 DEF Known, TypeOK, Now, links, RefRec
<1>18. Rely(t)
    <2>1. \A f \in Elems : ref'[f].wait = ref[f].wait /\ ref'[f].mask = ref[f].mask
        BY <1>7, <1>9, <1>10
    <2>2. \A f \in Elems : OnList(f) => ref'[f] = ref[f]
        BY <1>7, <1>9
    <2>3. \A f \in Elems : ref[f].pin > 0 => ref'[f] = ref[f]
        BY <1>7, <1>9
    <2>4. QED
        BY <1>6, <1>13, <2>1, <2>2, <2>3 DEF Rely, OnList
<1>19. \A f \in Elems : (Holds(t, "cur", f)' <=> cur[t] = f)
                        /\ ~Holds(t, "pinned", f)' /\ ~Holds(t, "x", f)'
                        /\ (Holds(t, "el", f)' <=> f = e /\ Call(t).pin)
    BY <1>0, <1>5, <1>6, <1>12, AtomicListAssumption
       DEF Holds, PinsEl, Now, Moving, Nodes, PairPcs, InsPcs, Call
<1>20. cur[t] # e
    BY <1>2, <1>8, AtomicListAssumption DEF Holds, Kinds, Moving
<1>21. PinInv'
    <2>1. \A f \in Elems : ref'[f].pin = ref[f].pin + Pins(t, f)' - Pins(t, f)
        <3> TAKE f \in Elems
        <3>1. CASE f = e
            <4>1. Pins(t, f) = 0 /\ Pins(t, f)' = IF Call(t).pin THEN 1 ELSE 0
                BY <1>1, <1>19, <1>20, <3>1 DEF Pins, One
            <4>2. QED
                BY <1>7, <1>10, <3>1, <4>1
        <3>2. CASE f # e
            <4>1. Pins(t, f)' = Pins(t, f)
                BY <1>1, <1>19, <3>2 DEF Pins, One
            <4>2. QED
                BY <1>7, <1>9, <1>11, <3>2, <4>1, PinsCounted
        <3>3. QED
            BY <3>1, <3>2
    <2>2. \A f \in Elems : Pins(t, f)' > 0 => Pins(t, f) > 0 \/ Uninserted(t, f)
        <3> TAKE f \in Elems
        <3>1. CASE f = e
            BY <1>7, <3>1 DEF Uninserted, Claims
        <3>2. CASE f # e
            BY <1>1, <1>19, <3>2 DEF Pins, One
        <3>3. QED
            BY <3>1, <3>2
    <2>3. local'[t].el = e
        BY <1>5 DEF Now
    <2>4. ASSUME NEW u \in Threads, NEW k \in Kinds, Holds(u, k, e)'
          PROVE  u = t /\ k = "el"
        <3>1. u = t
            BY <1>8, <1>11, <2>4, OthersSame
        <3>2. QED
            BY <1>19, <1>20, <2>4, <3>1 DEF Kinds
    <2>5. QED
        BY <1>11, <2>1, <2>2, <2>3, <2>4, PinsAfter
<1>22. ClaimInv'
    <2>1. \A u \in Threads \ {t} : /\ Removing(u)' <=> Removing(u)
                                   /\ Inserting(u)' <=> Inserting(u)
                                   /\ Claims(u)' <=> Claims(u)
                                   /\ local'[u] = local[u] /\ mine'[u] = mine[u]
        BY <1>11, OthersSame
    <2>2. \A u \in Threads : Claims(u) => u # t /\ local[u].el # e /\ local[u].el \in Elems
        BY <1>1, <1>7, ClaimElem DEF Claims
    <2>3. local'[t].el = e /\ Claims(t)' /\ local'[t].pc # "expose"
        BY <1>5, <1>12 DEF Now, Claims
    <2>4. \A u, w \in Threads : Claims(u)' /\ Claims(w)' /\ local'[u].el = local'[w].el => u = w
        BY <2>1, <2>2, <2>3 DEF IInv, ClaimInv
    <2>5. \A u \in Threads : ClaimOK(u)'
        <3>1. ClaimOK(t)'
            BY <1>6, <1>7, <1>10, <1>12, <2>3 DEF ClaimOK, OnList
        <3>2. \A u \in Threads \ {t} : ClaimOK(u)'
            BY <1>6, <1>9, <2>1, <2>2 DEF ClaimOK, OnList, IInv, ClaimInv, Claims
        <3>3. QED
            BY <3>1, <3>2
    <2>6. \A u \in Threads : MineOK(u)'
        BY <1>6, <1>7, <1>11, <2>1, <2>2, <2>3 DEF IInv, ClaimInv, MineOK, OnList
    <2>7. \A f \in Elems : ElemOK(f)'
        <3> SUFFICES ASSUME NEW f \in Elems PROVE ElemOK(f)'
            OBVIOUS
        <3>1. CASE f = e
            BY <1>6, <1>7, <1>10, <1>12, <2>3, <3>1 DEF ElemOK, OnList
        <3>2. CASE f # e
            <4>1. ElemOK(f) /\ ref'[f] = ref[f] /\ (OnList(f)' <=> OnList(f))
                BY <1>6, <1>9, <3>2 DEF IInv, ClaimInv, OnList
            <4>2. \A u \in Threads : /\ Claims(u) => Claims(u)' /\ local'[u].el = local[u].el
                                     /\ Inserting(u) => Inserting(u)' /\ local'[u].el = local[u].el
                BY <1>1, <2>1, <2>2
            <4>3. QED
                BY <4>1, <4>2 DEF ElemOK
        <3>3. QED
            BY <3>1, <3>2
    <2>8. QED
        BY <2>4, <2>5, <2>6, <2>7 DEF ClaimInv
<1>23. WaitOK(t)'
    <2>1. ~signal[t] /\ \A f \in Elems : t \notin ref[f].wait
        BY <1>0 DEF Known, WaitOK
    <2>2. \A f \in Elems : t \notin ref'[f].wait
        BY <1>9, <1>10, <2>1
    <2>3. local'[t].pc = p /\ local'[t].el = e
        BY <1>5 DEF Now
    <2>4. QED
        BY <1>6, <1>10, <1>12, <2>1, <2>2, <2>3 DEF WaitOK
<1>24. CountInv'
    <2>1. \A f \in Elems : ref'[f].mask = ref[f].mask
        BY <1>7, <1>9, <1>10
    <2>2. QED
        BY <1>0, <1>5, <1>6, <1>11, <2>1, CountKept DEF Now, Counting
<1>25. QED
    BY <1>11, <1>13, <1>14, <1>15, <1>16, <1>17, <1>18, <1>21, <1>22, <1>23, <1>24, StepKeeps

(* Insert preserves IInv. *)
LEMMA InsertStep ==
    ASSUME IInv, NEW t \in Threads, Insert(t)
    PROVE  IInv'
BY InsertNothing, InsertBegins

-------------------------------------------------------------------------------
(* The links change.  A step that writes the links of nodes it has the     *)
(* exclusive locks of, and neither a reference count nor an event.         *)
LEMMA RelyLinks ==
    ASSUME IInv, NEW t \in Threads, XMode(t), UNCHANGED <<ref, signal>>,
           NEW S,
           \A m \in S \cap Nodes : t \in lock[m].own \/ (Inserting(t) /\ m = local[t].el /\ ~OnList(m)),
           \A m \in Nodes \ S : next'[m] = next[m] /\ prev'[m] = prev[m],
           \A f \in Elems : next[f] # NULL =>
              next'[f] # NULL \/ (At(t, "cleared") /\ f = local[t].el /\ t \in lock[f].own),
           \A f \in Members : f \in Members' \/ (At(t, "unlink") /\ f = local[t].el)
    PROVE  Rely(t) /\ Still(t)
<1>1. Rely(t)
    BY DEF Rely, OnList
<1>2. QED
    BY <1>1, RelyStill

(* An element leaves the list. *)
LEMMA UnlinkStep ==
    ASSUME IInv, NEW t \in Threads, Unlink(t)
    PROVE  IInv'
<1> DEFINE l == local[t]
<1>0. Known(t) /\ l.pc = "unlink"
    BY Knows DEF Unlink, At
<1>1. /\ l.then \notin Moving /\ l.pinned = NULL /\ ~Inserts(t) /\ prog[t] # <<>>
      /\ l.x # NULL /\ l.x \in Nodes
    BY <1>0 DEF Known, LocalOK, SearchPcs, PairPcs, InsPcs
<1>2. Removing(t) /\ Claims(t) /\ ~Inserting(t)
    BY <1>0 DEF Claims, Removing, Inserting, PairPcs
<1>3. PICK e \in Elems : e = l.el /\ e = l.n /\ e \in Members
    BY <1>0, <1>2, ClaimElem, RemovedIsMember DEF Known, NearOK, OffPcs
<1>4. PICK p, n \in Nodes : p = prev[e] /\ n = next[e] /\ p = l.x
    BY <1>0, <1>1, <1>3, Neighbours DEF Known, NearOK, Nodes
<1>5. /\ p \in Members \cup {HEAD} /\ n \in Members \cup {TAIL} /\ next[p] = e /\ prev[n] = e
      /\ p # e /\ n # e /\ p # n
    BY <1>3, <1>4, Neighbours
<1>6. t \in lock[p].own /\ t \in lock[e].own /\ t \in lock[n].own
    BY <1>0, <1>3, <1>4 DEF Known, LockOK, Must, Nodes, Unlink, Owns
<1>7. /\ next' = [next EXCEPT ![p] = n] /\ prev' = [prev EXCEPT ![n] = p]
      /\ lock' = Unlock(lock, p, t) /\ FindAt(t, n, p, "unlinked")
      /\ UNCHANGED <<prog, ref, count, signal, cur, mine>>
    BY <1>3, <1>4 DEF Unlink, iter
<1>8. Now(t, "unlinked", n, p, e, NULL, l.then)
    <2>1. "unlinked" \in Pcs
        BY DEF Pcs, OffPcs
    <2>2. Now(t, "unlinked", n, p, l.el, l.pinned, l.then)
        BY <1>0, <1>7, <2>1, FindAtNow DEF Known
    <2>3. QED
        BY <1>1, <1>3, <2>2
<1>9. Others(t)
    BY <1>7, <1>8 DEF Others, Now
<1>10. /\ next'[p] = n /\ prev'[n] = p
       /\ \A m \in Nodes \ {p} : next'[m] = next[m]
       /\ \A m \in Nodes \ {n} : prev'[m] = prev[m]
       /\ next' \in [Nodes -> Nodes \cup {NULL}] /\ prev' \in [Nodes -> Nodes \cup {NULL}]
    BY <1>0, <1>7 DEF Known, TypeOK
<1>11. \A f \in Elems : next'[f] # NULL <=> next[f] # NULL
    <2>1. n # NULL /\ e # NULL
        BY AtomicListAssumption DEF Nodes
    <2>2. QED
        BY <1>5, <1>10, <2>1 DEF Nodes
<1>12. Members' = Members \ {e}
    <2>1. /\ Members = {f \in Elems : next[f] # NULL /\ \A u \in Threads :
                            local[u].el = f => local[u].pc \notin OffPcs}
          /\ Members' = {f \in Elems : next'[f] # NULL /\ \A u \in Threads :
                            local'[u].el = f => local'[u].pc \notin OffPcs}
        BY DEF Members, OnList, OffPcs
    <2>2. /\ local'[t].el = e /\ local'[t].pc \in OffPcs /\ local[t].el = e
          /\ \A u \in Threads \ {t} : local'[u] = local[u]
        BY <1>3, <1>8 DEF Now, OffPcs
    <2>3. QED
        BY <1>11, <2>1, <2>2
<1>13. LinkInv'
    <2>1. Members \subseteq Elems /\ HEAD \in Nodes /\ TAIL \in Nodes /\ HEAD # e /\ TAIL # e
          /\ n # HEAD /\ p # TAIL
        BY <1>5, AtomicListAssumption DEF Members, Nodes
    <2>2. ASSUME NEW m \in Members' \cup {HEAD}
          PROVE  next'[m] \in Members' \cup {TAIL} /\ prev'[next'[m]] = m
        <3>1. m \in Members \cup {HEAD} /\ m # e /\ m \in Nodes
            BY <1>12, <2>1 DEF Nodes
        <3>2. CASE m = p
            BY <1>5, <1>10, <1>12, <3>2
        <3>3. CASE m # p
            <4>1. /\ next'[m] = next[m] /\ next[m] \in Members \cup {TAIL} /\ prev[next[m]] = m
                BY <1>10, <3>1, <3>3, Neighbours
            <4>2. next[m] # e /\ next[m] # n /\ next[m] \in Nodes
                BY <1>4, <1>5, <2>1, <3>1, <3>3, <4>1 DEF Nodes
            <4>3. QED
                BY <1>10, <1>12, <4>1, <4>2
        <3>4. QED
            BY <3>2, <3>3
    <2>3. ASSUME NEW m \in Members' \cup {TAIL}
          PROVE  prev'[m] \in Members' \cup {HEAD} /\ next'[prev'[m]] = m
        <3>1. m \in Members \cup {TAIL} /\ m # e /\ m \in Nodes
            BY <1>12, <2>1 DEF Nodes
        <3>2. CASE m = n
            BY <1>5, <1>10, <1>12, <3>2
        <3>3. CASE m # n
            <4>1. /\ prev'[m] = prev[m] /\ prev[m] \in Members \cup {HEAD} /\ next[prev[m]] = m
                BY <1>10, <3>1, <3>3, Neighbours
            <4>2. prev[m] # e /\ prev[m] # p /\ prev[m] \in Nodes
                BY <1>4, <1>5, <2>1, <3>1, <3>3, <4>1 DEF Nodes
            <4>3. QED
                BY <1>10, <1>12, <4>1, <4>2
        <3>4. QED
            BY <3>2, <3>3
    <2>4. next'[TAIL] = NULL /\ prev'[HEAD] = NULL
        BY <1>10, <2>1 DEF IInv, LinkInv
    <2>5. Ordered'
        <3>1. PICK rank \in [Nodes -> Int] : \A m \in Members \cup {HEAD} : rank[m] < rank[next[m]]
            BY DEF IInv, LinkInv, Ordered
        <3>2. rank[p] < rank[n]
            <4>1. rank[p] < rank[e] /\ rank[e] < rank[n]
                BY <1>3, <1>4, <1>5, <3>1
            <4>2. rank[p] \in Int /\ rank[e] \in Int /\ rank[n] \in Int
                BY <3>1 DEF Nodes
            <4>3. QED
                BY <4>1, <4>2
        <3>3. \A m \in Members' \cup {HEAD} : rank[m] < rank[next'[m]]
            BY <1>10, <1>12, <2>1, <3>1, <3>2 DEF Nodes
        <3>4. QED
            BY <3>3 DEF Ordered
    <2>6. QED
        BY <2>2, <2>3, <2>4, <2>5 DEF LinkInv
<1>14. Rely(t) /\ Still(t)
    <2>1. XMode(t)
        BY <1>0 DEF XMode
    <2>2. \A f \in Members : f \in Members' \/ (At(t, "unlink") /\ f = local[t].el)
        BY <1>0, <1>3, <1>12 DEF At
    <2>3. \A m \in {p, n} \cap Nodes : t \in lock[m].own
        BY <1>6
    <2>4. \A m \in Nodes \ {p, n} : next'[m] = next[m] /\ prev'[m] = prev[m]
        BY <1>10
    <2>5. QED
        BY <1>7, <1>11, <2>1, <2>2, <2>3, <2>4, RelyLinks
<1>15. LockInv' /\ lock' \in [Nodes -> LockRec] /\ OwnersKept(t)
    <2>1. lock' = [m \in Nodes |-> IF m \in {p} THEN Unlocked(lock[m], t) ELSE lock[m]]
        BY <1>0, <1>7 DEF Known, TypeOK, Unlock
    <2>2. ~Queued(t, lock[p])
        BY <1>0, <1>6 DEF Known, LockOK, At
    <2>3. /\ \A m \in Nodes : Must(t, m)' <=> m = n \/ m = e
          /\ \A m \in Nodes : ~May(t, m)'
        BY <1>8 DEF Must, May, Now
    <2>4. \A m \in Nodes : Must(t, m) \/ May(t, m) <=> m = e \/ m = p \/ m = n
        BY <1>0, <1>3, <1>4 DEF Must, May
    <2>5. XMode(t)' = XMode(t) /\ EndOK(t)' /\ ~At(t, "clearyield")
        BY <1>0, <1>8 DEF XMode, EndOK, Now, OffPcs, At
    <2>6. \A f \in Elems : OnList(f) => OnList(f)'
        BY <1>11 DEF OnList
    <2>7. TypeOK /\ LocalInv /\ LockInv /\ NearInv /\ {p} \in SUBSET Nodes
        BY DEF IInv
    <2>8. QED
        BY <1>5, <1>6, <1>9, <1>14, <2>1, <2>2, <2>3, <2>4, <2>5, <2>6, <2>7, LocksUnlocked
<1>16. LocalOK(t)' /\ NearOK(t)'
    BY <1>0, <1>1, <1>3, <1>5, <1>7, <1>8, AtomicListAssumption
       DEF Known, LocalOK, NearOK, Now, Calls, Call, Inserts, SearchPcs, PairPcs, InsPcs,
           Moving, Nodes
<1>17. TypeOK'
    BY <1>0, <1>7, <1>8, <1>10, <1>15 DEF Known, TypeOK, Now
<1>18. SameClaims(t) /\ Calm(t)
    <2>1. Removing(t)' /\ ~Inserting(t)'
        BY <1>8 DEF Now, Removing, Inserting, OffPcs, PairPcs
    <2>2. ~PinsEl(t)
        BY <1>0, <1>1 DEF PinsEl, PairPcs, InsPcs, Moving
    <2>3. QED
        BY <1>0, <1>2, <1>3, <1>8, <2>1, <2>2 DEF SameClaims, Calm, Now
<1>19. PinInv'
    <2>1. \A f \in Elems : (Holds(t, "cur", f)' <=> Holds(t, "cur", f))
                           /\ ~Holds(t, "pinned", f)' /\ ~Holds(t, "pinned", f)
                           /\ ~Holds(t, "x", f)' /\ ~Holds(t, "x", f)
                           /\ ~Holds(t, "el", f)' /\ ~Holds(t, "el", f)
        BY <1>0, <1>1, <1>7, <1>8, AtomicListAssumption
           DEF Holds, PinsEl, Now, Moving, Nodes, PairPcs, InsPcs
    <2>2. \A f \in Elems : Pins(t, f)' = Pins(t, f)
        BY <2>1 DEF Pins, One
    <2>3. \A f \in Elems : ref'[f].pin = ref[f].pin + Pins(t, f)' - Pins(t, f)
        <3>1. \A f \in Elems : ref[f].pin \in Nat /\ Pins(t, f) \in 0..4
            BY <1>9, PinsCounted DEF IInv, TypeOK
        <3>2. QED
            BY <1>7, <2>2, <3>1
    <2>4. ~Inserting(t)'
        BY <1>2, <1>18 DEF SameClaims
    <2>5. QED
        BY <1>9, <2>2, <2>3, <2>4, PinsAfter
<1>20. ClaimInv'
    BY <1>0, <1>7, <1>8, <1>9, <1>11, <1>18, ClaimsSame DEF Now
<1>21. WaitOK(t)'
    BY <1>7, <1>9, <1>14, <1>17, <1>18, WaitSame
<1>22. CountInv'
    BY <1>0, <1>7, <1>8, <1>9, CountKept DEF Now, Counting
<1>23. QED
    BY <1>9, <1>13, <1>14, <1>15, <1>16, <1>17, <1>19, <1>20, <1>21, <1>22, StepKeeps

(* The element is cleared, and is the caller's: nobody is left who could   *)
(* have found it.                                                          *)
LEMMA ClearedStep ==
    ASSUME IInv, NEW t \in Threads, Cleared(t)
    PROVE  IInv'
<1> DEFINE l == local[t]
<1>0. Known(t) /\ l.pc = "cleared"
    BY Knows DEF Cleared, At
<1>1. l.then \notin Moving /\ l.pinned = NULL /\ prog[t] # <<>>
    BY <1>0 DEF Known, LocalOK, SearchPcs
<1>2. Removing(t) /\ Claims(t) /\ ~Inserting(t) /\ ~PinsEl(t)
    BY <1>0, <1>1 DEF Claims, Removing, Inserting, PinsEl, PairPcs, OffPcs, InsPcs, Moving
<1>3. PICK e \in Elems : e = l.el /\ ref[e].pin = 0 /\ ref[e].mask /\ ref[e].wait = {}
    BY <1>0, <1>2, ClaimedOff DEF Known, ClaimOK, WaitOK, OffPcs
<1>4. /\ t \in lock[e].own /\ lock[e].queue = <<>>
      /\ next' = [next EXCEPT ![e] = NULL] /\ prev' = [prev EXCEPT ![e] = NULL]
      /\ lock' = Unlock(lock, e, t) /\ mine' = [mine EXCEPT ![t] = e] /\ Return(t)
      /\ UNCHANGED <<ref, count, signal, cur>>
    BY <1>0, <1>3 DEF Cleared, Known, EndOK, Owns, iter
<1>5. /\ Now(t, "idle", NULL, NULL, NULL, NULL, NULL) /\ local'[t] = Idle
      /\ prog' \in [Threads -> Seq(Op)] /\ \A u \in Threads \ {t} : prog'[u] = prog[u]
    BY <1>0, <1>1, <1>4, ReturnNow DEF Known
<1>6. /\ mine' \in [Threads -> Elems \cup {NULL}] /\ mine'[t] = e
      /\ \A u \in Threads \ {t} : mine'[u] = mine[u]
    BY <1>0, <1>4 DEF Known, TypeOK
<1>7. Others(t)
    BY <1>4, <1>5, <1>6 DEF Others, Now
<1>8. /\ next'[e] = NULL /\ prev'[e] = NULL
      /\ \A m \in Nodes \ {e} : next'[m] = next[m] /\ prev'[m] = prev[m]
      /\ next' \in [Nodes -> Nodes \cup {NULL}] /\ prev' \in [Nodes -> Nodes \cup {NULL}]
    BY <1>0, <1>4 DEF Known, TypeOK, Nodes
<1>9. Members' = Members /\ e \notin Members
    <2>1. /\ Members = {f \in Elems : next[f] # NULL /\ \A u \in Threads :
                            local[u].el = f => local[u].pc \notin OffPcs}
          /\ Members' = {f \in Elems : next'[f] # NULL /\ \A u \in Threads :
                            local'[u].el = f => local'[u].pc \notin OffPcs}
        BY DEF Members, OnList, OffPcs
    <2>2. /\ local'[t].pc \notin OffPcs /\ local[t].el = e /\ local[t].pc \in OffPcs
          /\ \A u \in Threads \ {t} : local'[u] = local[u]
        BY <1>0, <1>3, <1>5 DEF Now, OffPcs
    <2>3. \A f \in Elems \ {e} : next'[f] = next[f]
        BY <1>8 DEF Nodes
    <2>4. e \notin Members /\ e \notin Members'
        BY <1>8, <2>1, <2>2
    <2>5. \A f \in Elems \ {e} : f \in Members' <=> f \in Members
        BY <2>1, <2>2, <2>3
    <2>6. QED
        BY <2>1, <2>4, <2>5
<1>10. LinkInv'
    <2>1. \A m \in Members \cup {HEAD, TAIL} : m \in Nodes \ {e}
        BY <1>9, AtomicListAssumption DEF Members, Nodes
    <2>2. \A m \in Members \cup {HEAD, TAIL} : next'[m] = next[m] /\ prev'[m] = prev[m]
        BY <1>8, <2>1
    <2>3. Ordered'
        <3>1. PICK rank \in [Nodes -> Int] : \A m \in Members \cup {HEAD} : rank[m] < rank[next[m]]
            BY DEF IInv, LinkInv, Ordered
        <3>2. \A m \in Members' \cup {HEAD} : rank[m] < rank[next'[m]]
            BY <1>9, <2>2, <3>1
        <3>3. QED
            BY <3>2 DEF Ordered
    <2>4. QED
        BY <1>9, <2>2, <2>3 DEF IInv, LinkInv
<1>11. Rely(t) /\ Still(t)
    <2>1. XMode(t)
        BY <1>0 DEF XMode, OffPcs
    <2>2. \A f \in Elems : next[f] # NULL =>
              next'[f] # NULL \/ (At(t, "cleared") /\ f = local[t].el /\ t \in lock[f].own)
        BY <1>0, <1>3, <1>4, <1>8 DEF At, Nodes
    <2>3. \A m \in {e} \cap Nodes : t \in lock[m].own
        BY <1>4
    <2>4. QED
        BY <1>4, <1>8, <1>9, <2>1, <2>2, <2>3, RelyLinks
<1>12. LockInv' /\ lock' \in [Nodes -> LockRec] /\ OwnersKept(t)
    <2>1. lock' = [m \in Nodes |-> IF m \in {e} THEN Unlocked(lock[m], t) ELSE lock[m]]
        BY <1>0, <1>4 DEF Known, TypeOK, Unlock
    <2>2. ~Queued(t, lock[e])
        BY <1>4 DEF Queued
    <2>3. \A m \in Nodes : ~Must(t, m)' /\ ~May(t, m)'
        BY <1>5 DEF Must, May, Now
    <2>4. \A m \in Nodes : Must(t, m) \/ May(t, m) <=> m = e
        BY <1>0, <1>3 DEF Must, May
    <2>5. EndOK(t)' /\ ~At(t, "clearyield")
        BY <1>0, <1>5 DEF EndOK, Now, At
    <2>6. lock'[e] = Free
        <3>1. PICK r : r = Unlocked(lock[e], t)
            OBVIOUS
        <3>2. XModes[t] /\ lock[e] \in LockRec /\ WellLocked(lock[e], XModes)
            BY <1>0, XModesType DEF Known, TypeOK, LockInv, XMode, OffPcs, Nodes
        <3>3. r = Free
            BY <1>4, <3>1, <3>2, XModesType, UnlockOne
        <3>4. QED
            BY <2>1, <3>1, <3>3 DEF Nodes
    <2>7. \A f \in Elems : OnList(f) => OnList(f)' \/ lock'[f] = Free
        BY <1>8, <2>6 DEF OnList, Nodes
    <2>8. TypeOK /\ LocalInv /\ LockInv /\ NearInv /\ {e} \in SUBSET Nodes
        BY DEF IInv, Nodes
    <2>9. QED
        BY <1>4, <1>7, <1>11, <2>1, <2>2, <2>3, <2>4, <2>5, <2>7, <2>8, LocksUnlocked
<1>13. LocalOK(t)' /\ NearOK(t)'
    BY <1>5, AtomicListAssumption
       DEF LocalOK, NearOK, Now, Idle, SearchPcs, PairPcs, InsPcs, Moving, Nodes
<1>14. TypeOK'
    BY <1>0, <1>4, <1>5, <1>6, <1>8, <1>12 DEF Known, TypeOK, Now
<1>15. ~Removing(t)' /\ ~Inserting(t)' /\ ~Claims(t)'
    BY <1>5, AtomicListAssumption DEF Removing, Inserting, Claims, Now, PairPcs, OffPcs
<1>16. PinInv'
    <2>1. \A f \in Elems : (Holds(t, "cur", f)' <=> Holds(t, "cur", f))
                           /\ ~Holds(t, "pinned", f)' /\ ~Holds(t, "pinned", f)
                           /\ ~Holds(t, "x", f)' /\ ~Holds(t, "x", f)
                           /\ ~Holds(t, "el", f)' /\ ~Holds(t, "el", f)
        BY <1>0, <1>1, <1>2, <1>4, <1>5, AtomicListAssumption
           DEF Holds, PinsEl, Now, Moving, Nodes, PairPcs, InsPcs
    <2>2. \A f \in Elems : Pins(t, f)' = Pins(t, f)
        BY <2>1 DEF Pins, One
    <2>3. \A f \in Elems : ref'[f].pin = ref[f].pin + Pins(t, f)' - Pins(t, f)
        <3>1. \A f \in Elems : ref[f].pin \in Nat /\ Pins(t, f) \in 0..4
            BY <1>7, PinsCounted DEF IInv, TypeOK
        <3>2. QED
            BY <1>4, <2>2, <3>1
    <2>4. QED
        BY <1>7, <1>15, <2>2, <2>3, PinsAfter
<1>17. ClaimInv'
    <2>1. \A u \in Threads \ {t} : /\ Removing(u)' <=> Removing(u)
                                   /\ Inserting(u)' <=> Inserting(u)
                                   /\ Claims(u)' <=> Claims(u)
                                   /\ local'[u] = local[u]
        BY <1>7, OthersSame
    <2>2. \A u \in Threads \ {t} : Claims(u) => local[u].el # e /\ local[u].el \in Elems
        BY <1>2, <1>3, ClaimElem DEF IInv, ClaimInv
    <2>3. \A f \in Elems \ {e} : OnList(f)' <=> OnList(f)
        BY <1>8 DEF OnList, Nodes
    <2>4. \A u, w \in Threads : Claims(u)' /\ Claims(w)' /\ local'[u].el = local'[w].el => u = w
        BY <1>15, <2>1 DEF IInv, ClaimInv
    <2>5. \A u \in Threads : ClaimOK(u)'
        <3>1. ClaimOK(t)'
            BY <1>15 DEF ClaimOK
        <3>2. ASSUME NEW u \in Threads \ {t} PROVE ClaimOK(u)'
            <4>1. ClaimOK(u) /\ local'[u] = local[u]
                BY <2>1 DEF IInv, ClaimInv
            <4>2. Claims(u) => (next'[local[u].el] = next[local[u].el])
                BY <1>8, <2>2 DEF Nodes
            <4>3. QED
                BY <1>4, <2>1, <4>1, <4>2 DEF ClaimOK, OnList, Claims
        <3>3. QED
            BY <3>1, <3>2
    <2>6. \A u \in Threads : mine[u] # NULL => mine[u] \in Elems /\ mine[u] # e
        BY <1>2, <1>3 DEF IInv, TypeOK, ClaimInv, MineOK
    <2>7. \A u \in Threads : MineOK(u)'
        <3>1. MineOK(t)'
            BY <1>6, <1>8, <1>15, <2>1, <2>2, <2>6, AtomicListAssumption DEF MineOK, OnList, Nodes
        <3>2. ASSUME NEW u \in Threads \ {t}, mine[u] # NULL PROVE MineOK(u)'
            <4>1. MineOK(u) /\ mine'[u] = mine[u] /\ mine[u] # e /\ mine[u] \in Elems
                BY <1>6, <2>6, <3>2 DEF IInv, ClaimInv
            <4>2. next'[mine[u]] = NULL
                BY <1>8, <3>2, <4>1 DEF MineOK, OnList, Nodes
            <4>3. QED
                BY <1>6, <1>15, <2>1, <3>2, <4>1, <4>2 DEF MineOK, OnList
        <3>3. ASSUME NEW u \in Threads \ {t}, mine[u] = NULL PROVE MineOK(u)'
            BY <1>6, <3>3 DEF MineOK
        <3>4. QED
            BY <3>1, <3>2, <3>3
    <2>8. \A f \in Elems : ElemOK(f)'
        <3> SUFFICES ASSUME NEW f \in Elems PROVE ElemOK(f)'
            OBVIOUS
        <3>1. CASE f = e
            BY <1>3, <1>4, <1>8, <3>1 DEF ElemOK, OnList
        <3>2. CASE f # e
            <4>1. ElemOK(f) /\ ref'[f] = ref[f] /\ (OnList(f)' <=> OnList(f))
                BY <1>4, <2>3, <3>2 DEF IInv, ClaimInv
            <4>2. \A u \in Threads : local[u].el = f =>
                      /\ Claims(u) => Claims(u)' /\ local'[u].el = local[u].el
                      /\ Inserting(u) => Inserting(u)' /\ local'[u].el = local[u].el
                BY <1>3, <2>1, <3>2
            <4>3. QED
                BY <4>1, <4>2 DEF ElemOK
        <3>3. QED
            BY <3>1, <3>2
    <2>9. QED
        BY <2>4, <2>5, <2>7, <2>8 DEF ClaimInv
<1>18. WaitOK(t)'
    <2>1. ~signal[t] /\ \A f \in Elems : t \notin ref[f].wait
        BY <1>0 DEF Known, WaitOK
    <2>2. local'[t].pc = "idle"
        BY <1>5 DEF Now
    <2>3. QED
        BY <1>4, <1>15, <2>1, <2>2 DEF WaitOK
<1>19. CountInv'
    BY <1>0, <1>4, <1>5, <1>7, CountKept DEF Now, Counting
<1>20. QED
    BY <1>7, <1>10, <1>11, <1>12, <1>13, <1>14, <1>16, <1>17, <1>18, <1>19, StepKeeps

(* Where an insertion puts its element: between two neighbours it has the  *)
(* locks of.                                                               *)
LEMMA LinkPlace ==
    ASSUME IInv, NEW t \in Threads, Link(t)
    PROVE  \E p, n \in Nodes :
              /\ p \in Members \cup {HEAD} /\ n \in Members \cup {TAIL}
              /\ next[p] = n /\ prev[n] = p /\ p # n
              /\ t \in lock[p].own /\ t \in lock[n].own
              /\ {p, n} = {local[t].n, local[t].x}
              /\ next' = [next EXCEPT ![p] = local[t].el, ![local[t].el] = n]
              /\ prev' = [prev EXCEPT ![n] = local[t].el, ![local[t].el] = p]
<1> DEFINE l == local[t]
<1>0. Known(t) /\ l.pc \in {"link", "paired"} /\ (l.pc = "paired" => Inserts(t))
         /\ t \in lock[l.x].own
    BY Knows DEF Link, At, Owns
<1>1. CASE l.pc = "link"
    <2>1. l.n \in Members \cup {HEAD} /\ l.n \in Nodes /\ next[l.n] = l.x
        BY <1>0, <1>1, InsertNode DEF Known, NearOK
    <2>2. l.x \in Members \cup {TAIL} /\ prev[l.x] = l.n /\ l.x # l.n /\ l.x \in Nodes
        BY <2>1, Neighbours DEF Nodes
    <2>3. t \in lock[l.n].own
        BY <1>0, <1>1, <2>1 DEF Known, LockOK, Must
    <2>4. /\ next' = [next EXCEPT ![l.n] = l.el, ![l.el] = l.x]
          /\ prev' = [prev EXCEPT ![l.x] = l.el, ![l.el] = l.n]
        BY <1>1 DEF Link, At
    <2>5. PICK p, n \in Nodes : p = l.n /\ n = l.x
        BY <2>1, <2>2
    <2>6. QED
        BY <1>0, <2>1, <2>2, <2>3, <2>4, <2>5
<1>2. CASE l.pc = "paired"
    <2>1. l.n \in Members \cup {TAIL} /\ l.n \in Nodes /\ prev[l.n] = l.x
        BY <1>0, <1>2, PairNode DEF Known, NearOK, PairPcs
    <2>2. l.x \in Members \cup {HEAD} /\ next[l.x] = l.n /\ l.x # l.n /\ l.x \in Nodes
        BY <2>1, Neighbours DEF Nodes
    <2>3. t \in lock[l.n].own
        BY <1>0, <1>2, <2>1 DEF Known, LockOK, Must
    <2>4. /\ next' = [next EXCEPT ![l.x] = l.el, ![l.el] = l.n]
          /\ prev' = [prev EXCEPT ![l.n] = l.el, ![l.el] = l.x]
        BY <1>2 DEF Link, At
    <2>5. PICK p, n \in Nodes : p = l.x /\ n = l.n
        BY <2>1, <2>2
    <2>6. QED
        BY <1>0, <2>1, <2>2, <2>3, <2>4, <2>5
<1>3. QED
    BY <1>0, <1>1, <1>2

(* The list once e is between p and n. *)
LEMMA Linking ==
    ASSUME IInv, NEW p \in Members \cup {HEAD}, NEW n \in Members \cup {TAIL}, NEW e \in Elems,
           next[p] = n, prev[n] = p, p # n, ~OnList(e),
           next' = [next EXCEPT ![p] = e, ![e] = n], prev' = [prev EXCEPT ![n] = e, ![e] = p],
           Members' = Members \cup {e}
    PROVE  LinkInv'
<1>0. /\ Members \subseteq Elems /\ HEAD \in Nodes /\ TAIL \in Nodes /\ HEAD # e /\ TAIL # e
      /\ e \notin Members /\ n # HEAD /\ p # TAIL /\ p # e /\ n # e
      /\ p \in Nodes /\ n \in Nodes /\ e \in Nodes
      /\ \A m \in Members \cup {HEAD, TAIL} : m \in Nodes /\ m # e
    BY AtomicListAssumption DEF Members, Nodes
<1>1. /\ next'[p] = e /\ next'[e] = n /\ prev'[n] = e /\ prev'[e] = p
      /\ \A m \in Nodes \ {p, e} : next'[m] = next[m]
      /\ \A m \in Nodes \ {n, e} : prev'[m] = prev[m]
    BY <1>0 DEF IInv, TypeOK
<1>2. ASSUME NEW m \in Members' \cup {HEAD}
      PROVE  next'[m] \in Members' \cup {TAIL} /\ prev'[next'[m]] = m
    <2>1. CASE m = p \/ m = e
        BY <1>1, <2>1
    <2>2. CASE m # p /\ m # e
        <3>1. m \in Members \cup {HEAD} /\ m \in Nodes
            BY <1>0, <2>2
        <3>2. next'[m] = next[m] /\ next[m] \in Members \cup {TAIL} /\ prev[next[m]] = m
            BY <1>1, <2>2, <3>1, Neighbours
        <3>3. next[m] \in Nodes \ {n, e}
            BY <1>0, <2>2, <3>2
        <3>4. PICK o \in Nodes : o = next[m]
            BY <3>3
        <3>5. prev'[o] = m /\ next'[m] = o
            BY <1>1, <3>2, <3>3, <3>4
        <3>6. o \in Members' \cup {TAIL}
            BY <3>2, <3>4
        <3>7. QED
            BY <3>5, <3>6
    <2>3. QED
        BY <2>1, <2>2
<1>3. ASSUME NEW m \in Members' \cup {TAIL}
      PROVE  prev'[m] \in Members' \cup {HEAD} /\ next'[prev'[m]] = m
    <2>1. CASE m = n \/ m = e
        BY <1>1, <2>1
    <2>2. CASE m # n /\ m # e
        <3>1. m \in Members \cup {TAIL} /\ m \in Nodes
            BY <1>0, <2>2
        <3>2. prev'[m] = prev[m] /\ prev[m] \in Members \cup {HEAD} /\ next[prev[m]] = m
            BY <1>1, <2>2, <3>1, Neighbours
        <3>3. prev[m] \in Nodes \ {p, e}
            BY <1>0, <2>2, <3>2
        <3>4. PICK o \in Nodes : o = prev[m]
            BY <3>3
        <3>5. next'[o] = m /\ prev'[m] = o
            BY <1>1, <3>2, <3>3, <3>4
        <3>6. o \in Members' \cup {HEAD}
            BY <3>2, <3>4
        <3>7. QED
            BY <3>5, <3>6
    <2>3. QED
        BY <2>1, <2>2
<1>4. next'[TAIL] = NULL /\ prev'[HEAD] = NULL
    BY <1>0, <1>1 DEF IInv, LinkInv
<1>5. Ordered'
    <2>1. PICK rank \in [Nodes -> Int] : \A m \in Members \cup {HEAD} : rank[m] < rank[next[m]]
        BY DEF IInv, LinkInv, Ordered
    <2>2. PICK twice : twice = [m \in Nodes |-> IF m = e THEN 2 * rank[p] + 1 ELSE 2 * rank[m]]
        OBVIOUS
    <2>3. twice \in [Nodes -> Int] /\ \A m \in Nodes : rank[m] \in Int
        BY <1>0, <2>1, <2>2
    <2>4. \A m \in Members' \cup {HEAD} : twice[m] < twice[next'[m]]
        <3> SUFFICES ASSUME NEW m \in Members' \cup {HEAD} PROVE twice[m] < twice[next'[m]]
            OBVIOUS
        <3>1. rank[p] < rank[n] /\ rank[p] \in Int /\ rank[n] \in Int
            BY <1>0, <2>1, <2>3
        <3>2. twice[p] = 2 * rank[p] /\ twice[e] = 2 * rank[p] + 1 /\ twice[n] = 2 * rank[n]
            BY <1>0, <2>2
        <3>3. CASE m = p
            BY <1>1, <3>1, <3>2, <3>3
        <3>4. CASE m = e
            BY <1>1, <3>1, <3>2, <3>4
        <3>5. CASE m # p /\ m # e
            <4>1. m \in Members \cup {HEAD} /\ m \in Nodes
                BY <1>0, <3>5
            <4>2. next'[m] = next[m] /\ next[m] \in Members \cup {TAIL} /\ rank[m] < rank[next[m]]
                BY <1>1, <2>1, <3>5, <4>1, Neighbours
            <4>3. next[m] \in Nodes /\ next[m] # e
                BY <1>0, <4>2
            <4>4. twice[m] = 2 * rank[m] /\ twice[next[m]] = 2 * rank[next[m]]
                BY <2>2, <3>5, <4>1, <4>3
            <4>5. rank[m] \in Int /\ rank[next[m]] \in Int
                BY <2>3, <4>1, <4>3
            <4>6. QED
                BY <4>2, <4>4, <4>5
        <3>6. QED
            BY <3>3, <3>4, <3>5
    <2>5. QED
        BY <2>3, <2>4 DEF Ordered
<1>6. QED
    BY <1>2, <1>3, <1>4, <1>5 DEF LinkInv

(* The element is on the list, and counted. *)
LEMMA LinkStep ==
    ASSUME IInv, NEW t \in Threads, Link(t)
    PROVE  IInv'
<1> DEFINE l == local[t]
<1>0. Known(t) /\ l.pc \in {"link", "paired"} /\ Inserts(t)
    <2>1. Known(t) /\ l.pc \in {"link", "paired"} /\ (l.pc = "paired" => Inserts(t))
        BY Knows DEF Link, At
    <2>2. QED
        BY <2>1 DEF Known, LocalOK, InsPcs
<1>1. l.then \notin Moving /\ l.pinned = NULL /\ prog[t] # <<>> /\ l.n # NULL /\ l.x # NULL
         /\ l.x # l.n
    BY <1>0 DEF Known, LocalOK, SearchPcs, PairPcs, InsPcs
<1>2. Inserting(t) /\ Claims(t) /\ ~Removing(t)
    BY <1>0, <1>1 DEF Inserting, Claims, Removing, PairPcs, OffPcs, Moving
<1>3. PICK e \in Elems : e = l.el /\ ref[e].mask /\ ~OnList(e) /\ ref[e].wait = {}
    BY <1>0, <1>2, ClaimElem DEF Known, ClaimOK, WaitOK
<1>4. PICK p, n \in Nodes :
          /\ p \in Members \cup {HEAD} /\ n \in Members \cup {TAIL}
          /\ next[p] = n /\ prev[n] = p /\ p # n
          /\ t \in lock[p].own /\ t \in lock[n].own
          /\ {p, n} = {l.n, l.x}
          /\ next' = [next EXCEPT ![p] = e, ![e] = n]
          /\ prev' = [prev EXCEPT ![n] = e, ![e] = p]
    BY <1>3, LinkPlace
<1>5. count' = count + 1 /\ UNCHANGED <<prog, lock, ref, signal, cur, mine>>
    BY DEF Link, iter
<1>6. Now(t, "expose", l.n, l.x, e, NULL, l.then)
    <2>1. Goto(t, "expose") /\ "expose" \in Pcs
        BY DEF Link, Pcs, InsPcs
    <2>2. Now(t, "expose", l.n, l.x, l.el, l.pinned, l.then)
        BY <1>0, <2>1, GotoNow DEF Known
    <2>3. QED
        BY <1>1, <1>3, <2>2
<1>7. Others(t)
    BY <1>5, <1>6 DEF Others, Now
<1>8. p # e /\ n # e /\ e # NULL /\ n # NULL /\ e \in Nodes
    BY <1>3, <1>4, AtomicListAssumption DEF Members, Nodes
<1>9. /\ next'[p] = e /\ next'[e] = n /\ prev'[n] = e /\ prev'[e] = p
      /\ \A m \in Nodes \ {p, e} : next'[m] = next[m]
      /\ \A m \in Nodes \ {n, e} : prev'[m] = prev[m]
      /\ next' \in [Nodes -> Nodes \cup {NULL}] /\ prev' \in [Nodes -> Nodes \cup {NULL}]
    BY <1>0, <1>4, <1>8 DEF Known, TypeOK
<1>10. /\ \A f \in Elems : OnList(f) => OnList(f)'
       /\ OnList(e)' /\ \A f \in Elems \ {e} : OnList(f)' <=> OnList(f)
    <2>1. OnList(e)'
        BY <1>8, <1>9 DEF OnList
    <2>2. ASSUME NEW f \in Elems \ {e} PROVE OnList(f)' <=> OnList(f)
        <3>1. CASE f = p
            BY <1>4, <1>8, <1>9, <3>1, AtomicListAssumption DEF OnList, Members, Nodes
        <3>2. CASE f # p
            BY <1>9, <3>2 DEF OnList, Nodes
        <3>3. QED
            BY <3>1, <3>2
    <2>3. QED
        BY <2>1, <2>2
<1>11. Members' = Members \cup {e}
    <2>1. /\ Members = {f \in Elems : OnList(f) /\ \A u \in Threads :
                            local[u].el = f => local[u].pc \notin OffPcs}
          /\ Members' = {f \in Elems : OnList(f)' /\ \A u \in Threads :
                            local'[u].el = f => local'[u].pc \notin OffPcs}
        BY DEF Members, OffPcs
    <2>2. /\ local'[t].pc \notin OffPcs /\ local[t].pc \notin OffPcs
          /\ \A u \in Threads \ {t} : local'[u] = local[u]
        BY <1>0, <1>6 DEF Now, OffPcs
    <2>3. \A u \in Threads : local[u].pc \in OffPcs => local[u].el # e
        BY <1>2, <1>3, <2>2, ClaimedOff DEF IInv, ClaimInv
    <2>4. QED
        BY <1>10, <2>1, <2>2, <2>3
<1>12. LinkInv'
    BY <1>3, <1>4, <1>11, Linking
<1>13. Rely(t) /\ Still(t)
    <2>1. XMode(t)
        BY <1>0 DEF XMode, InsPcs, PairPcs
    <2>2. \A m \in {p, n, e} \cap Nodes :
              t \in lock[m].own \/ (Inserting(t) /\ m = local[t].el /\ ~OnList(m))
        BY <1>2, <1>3, <1>4
    <2>3. \A m \in Nodes \ {p, n, e} : next'[m] = next[m] /\ prev'[m] = prev[m]
        BY <1>9
    <2>4. \A f \in Elems : next[f] # NULL => next'[f] # NULL
        BY <1>10 DEF OnList
    <2>5. \A f \in Members : f \in Members'
        BY <1>11
    <2>6. QED
        BY <1>5, <2>1, <2>2, <2>3, <2>4, <2>5, RelyLinks
<1>14. LockInv' /\ lock' \in [Nodes -> LockRec] /\ OwnersKept(t)
    <2>1. \A m \in Nodes : Must(t, m)' <=> m = l.n \/ m = l.x
        BY <1>6 DEF Must, Now
    <2>2. \A m \in Nodes : ~May(t, m)'
        BY <1>6 DEF May, Now
    <2>3. \A m \in Nodes : Must(t, m) \/ May(t, m) <=> m = l.n \/ m = l.x
        BY <1>0 DEF Must, May
    <2>4. \A m \in Nodes : Must(t, m)' => t \in lock[m].own
        BY <1>4, <2>1
    <2>5. XMode(t)' = XMode(t)
        BY <1>0, <1>6 DEF XMode, Now, InsPcs, PairPcs
    <2>6. EndOK(t)' /\ ~At(t, "clearyield")
        <3>1. lock'[e] = Free
            BY <1>0, <1>3, <1>5 DEF Known, LockInv
        <3>2. QED
            BY <1>0, <1>6, <3>1 DEF EndOK, Now, At
    <2>7. TypeOK /\ LocalInv /\ LockInv /\ NearInv
        BY DEF IInv
    <2>8. LockInv'
        BY <1>5, <1>7, <1>10, <1>13, <2>1, <2>2, <2>3, <2>4, <2>5, <2>6, <2>7, LocksKept
    <2>9. QED
        BY <1>5, <2>7, <2>8 DEF TypeOK, OwnersKept
<1>15. LocalOK(t)'
    BY <1>0, <1>1, <1>3, <1>5, <1>6, <1>8, AtomicListAssumption
       DEF Known, LocalOK, Now, Calls, Call, Inserts, SearchPcs, PairPcs, InsPcs, Moving, Nodes
<1>16. NearOK(t)'
    BY <1>4, <1>6, <1>9 DEF NearOK, Now, PairPcs
<1>17. TypeOK'
    BY <1>0, <1>5, <1>6, <1>9, <1>14 DEF Known, TypeOK, Now
<1>18. Inserting(t)' /\ ~Removing(t)' /\ Claims(t)'
    <2>1. Inserts(t)'
        BY <1>0, <1>5 DEF Inserts, Calls, Call
    <2>2. QED
        BY <1>1, <1>6, <2>1 DEF Inserting, Removing, Claims, Now, PairPcs, OffPcs, Moving
<1>19. SameClaims(t) /\ Calm(t)
    BY <1>0, <1>2, <1>3, <1>6, <1>18 DEF SameClaims, Calm, Now
<1>20. PinInv'
    <2>1. \A f \in Elems : (Holds(t, "cur", f)' <=> Holds(t, "cur", f))
                           /\ ~Holds(t, "pinned", f)' /\ ~Holds(t, "pinned", f)
                           /\ ~Holds(t, "x", f)' /\ ~Holds(t, "x", f)
                           /\ (Holds(t, "el", f)' <=> Holds(t, "el", f))
        BY <1>0, <1>1, <1>3, <1>5, <1>6, AtomicListAssumption
           DEF Holds, PinsEl, Now, Moving, Nodes, PairPcs, InsPcs, Inserts, Calls, Call
    <2>2. \A f \in Elems : Pins(t, f)' = Pins(t, f)
        BY <2>1 DEF Pins, One
    <2>3. \A f \in Elems : ref'[f].pin = ref[f].pin + Pins(t, f)' - Pins(t, f)
        <3>1. \A f \in Elems : ref[f].pin \in Nat /\ Pins(t, f) \in 0..4
            BY <1>7, PinsCounted DEF IInv, TypeOK
        <3>2. QED
            BY <1>5, <2>2, <3>1
    <2>4. ASSUME NEW u \in Threads, NEW k \in Kinds, Holds(u, k, e)'
          PROVE  u = t /\ k = "el"
        <3>1. Holds(u, k, e)
            <4>1. CASE u = t
                BY <2>1, <2>4, <4>1 DEF Kinds
            <4>2. CASE u # t
                BY <1>7, <2>4, <4>2, OthersSame
            <4>3. QED
                BY <4>1, <4>2
        <3>2. QED
            BY <1>2, <1>3, <3>1 DEF IInv, PinInv
    <2>5. local'[t].el = e
        BY <1>6 DEF Now
    <2>6. QED
        BY <1>7, <2>2, <2>3, <2>4, <2>5, PinsAfter
<1>21. ClaimInv'
    <2>1. \A u \in Threads \ {t} : /\ Removing(u)' <=> Removing(u)
                                   /\ Inserting(u)' <=> Inserting(u)
                                   /\ Claims(u)' <=> Claims(u)
                                   /\ local'[u] = local[u]
        BY <1>7, OthersSame
    <2>2. \A u \in Threads \ {t} : Claims(u) => local[u].el # e /\ local[u].el \in Elems
        BY <1>2, <1>3, ClaimElem DEF IInv, ClaimInv
    <2>3. local'[t].el = e /\ local'[t].pc = "expose" /\ local[t].el = e
        BY <1>3, <1>6 DEF Now
    <2>4. \A u, w \in Threads : Claims(u)' /\ Claims(w)' /\ local'[u].el = local'[w].el => u = w
        BY <2>1, <2>2, <2>3 DEF IInv, ClaimInv
    <2>5. \A u \in Threads : ClaimOK(u)'
        <3>1. ClaimOK(t)'
            BY <1>3, <1>5, <1>10, <1>18, <2>3 DEF ClaimOK, OnList
        <3>2. ASSUME NEW u \in Threads \ {t} PROVE ClaimOK(u)'
            <4>1. ClaimOK(u) /\ local'[u] = local[u]
                BY <2>1 DEF IInv, ClaimInv
            <4>2. Claims(u) => (next'[local[u].el] # NULL <=> next[local[u].el] # NULL)
                BY <1>10, <2>2 DEF OnList
            <4>3. QED
                BY <1>5, <2>1, <4>1, <4>2 DEF ClaimOK, OnList, Claims
        <3>3. QED
            BY <3>1, <3>2
    <2>6. \A u \in Threads : MineOK(u)'
        <3> SUFFICES ASSUME NEW u \in Threads, mine[u] # NULL PROVE MineOK(u)'
            BY <1>5 DEF MineOK
        <3>1. MineOK(u) /\ mine' = mine /\ mine[u] \in Elems
            BY <1>5 DEF IInv, ClaimInv, TypeOK
        <3>2. mine[u] # e /\ next[mine[u]] = NULL
            BY <1>2, <1>3, <3>1 DEF MineOK, OnList
        <3>3. next'[mine[u]] = NULL
            BY <1>10, <3>1, <3>2 DEF OnList
        <3>4. QED
            BY <2>1, <2>3, <3>1, <3>2, <3>3 DEF MineOK, OnList
    <2>7. \A f \in Elems : ElemOK(f)'
        <3> SUFFICES ASSUME NEW f \in Elems PROVE ElemOK(f)'
            OBVIOUS
        <3>1. CASE f = e
            BY <1>3, <1>5, <1>10, <1>18, <2>3, <3>1 DEF ElemOK
        <3>2. CASE f # e
            <4>1. ElemOK(f) /\ ref'[f] = ref[f] /\ (OnList(f)' <=> OnList(f))
                BY <1>5, <1>10, <3>2 DEF IInv, ClaimInv
            <4>2. \A u \in Threads : local[u].el = f =>
                      /\ Claims(u) => Claims(u)' /\ local'[u].el = local[u].el
                      /\ Inserting(u) => Inserting(u)' /\ local'[u].el = local[u].el
                BY <2>1, <2>3, <3>2
            <4>3. QED
                BY <4>1, <4>2 DEF ElemOK
        <3>3. QED
            BY <3>1, <3>2
    <2>8. QED
        BY <2>4, <2>5, <2>6, <2>7 DEF ClaimInv
<1>22. WaitOK(t)'
    BY <1>5, <1>7, <1>13, <1>17, <1>19, WaitSame
<1>23. CountInv'
    BY <1>0, <1>2, <1>3, <1>5, <1>6, <1>7, CountMore DEF Now, Counting
<1>24. QED
    BY <1>7, <1>12, <1>13, <1>14, <1>15, <1>16, <1>17, <1>20, <1>21, <1>22, <1>23, StepKeeps

-------------------------------------------------------------------------------
(* The list that a scenario begins with, as a sequence of its nodes. *)
Chain(s) == <<HEAD>> \o s.list \o <<TAIL>>

(* HEAD, the elements and TAIL, each of them once. *)
LEMMA FirstChain ==
    ASSUME NEW s \in Scenarios, NEW c, c = Chain(s)
    PROVE  /\ Len(s.list) \in Nat /\ Len(c) = Len(s.list) + 2
           /\ c[1] = HEAD /\ c[Len(s.list) + 2] = TAIL
           /\ \A i \in 1..Len(s.list) : c[i + 1] = s.list[i] /\ s.list[i] \in Elems
           /\ \A i \in 1..Len(c) : c[i] \in Nodes
           /\ \A i, j \in 1..Len(c) : c[i] = c[j] => i = j
<1>1. s.list \in Seq(Elems) /\ \A i, j \in 1..Len(s.list) : s.list[i] = s.list[j] => i = j
    BY ScenariosAssumption
<1>2. PICK L \in Seq(Elems) : L = s.list
    BY <1>1
<1>3. Len(L) \in Nat /\ \A i \in 1..Len(L) : L[i] \in Elems
    BY <1>2
<1>4. PICK d : d = <<HEAD>> \o L
    OBVIOUS
<1>5. d \in Seq(Nodes) /\ Len(d) = Len(L) + 1 /\ d[1] = HEAD /\ \A i \in 1..Len(L) : d[i + 1] = L[i]
    BY <1>3, <1>4 DEF Nodes
<1>6. c = d \o <<TAIL>>
    BY <1>2, <1>4 DEF Chain
<1>7. /\ Len(c) = Len(L) + 2 /\ c[Len(L) + 2] = TAIL
      /\ \A i \in 1..(Len(L) + 1) : c[i] = d[i]
    <2>1. <<TAIL>> \in Seq(Nodes) /\ Len(<<TAIL>>) = 1 /\ <<TAIL>>[1] = TAIL
        BY DEF Nodes
    <2>2. /\ Len(c) = Len(d) + 1
          /\ \A i \in 1..(Len(d) + 1) : c[i] = IF i <= Len(d) THEN d[i] ELSE <<TAIL>>[i - Len(d)]
        BY <1>5, <1>6, <2>1, ConcatProperties
    <2>3. Len(L) + 2 \in 1..(Len(d) + 1) /\ (Len(L) + 2) - Len(d) = 1 /\ ~(Len(L) + 2 <= Len(d))
        BY <1>3, <1>5
    <2>4. c[Len(L) + 2] = TAIL
        BY <2>1, <2>2, <2>3
    <2>5. Len(c) = Len(L) + 2
        BY <1>3, <1>5, <2>2
    <2>6. \A i \in 1..(Len(L) + 1) : i \in 1..(Len(d) + 1) /\ i <= Len(d)
        BY <1>3, <1>5
    <2>7. QED
        BY <2>2, <2>4, <2>5, <2>6
<1>8. c[1] = HEAD /\ \A i \in 1..Len(L) : c[i + 1] = L[i]
    <2>1. 1 \in 1..(Len(L) + 1) /\ \A i \in 1..Len(L) : i + 1 \in 1..(Len(L) + 1)
        BY <1>3
    <2>2. QED
        BY <1>5, <1>7, <2>1
<1>9. \A i \in 1..Len(c) : i = 1 \/ i = Len(L) + 2 \/ (i - 1 \in 1..Len(L) /\ c[i] = L[i - 1])
    <2> SUFFICES ASSUME NEW i \in 1..Len(c), i # 1, i # Len(L) + 2
                 PROVE  i - 1 \in 1..Len(L) /\ c[i] = L[i - 1]
        OBVIOUS
    <2>1. i - 1 \in 1..Len(L) /\ (i - 1) + 1 = i
        BY <1>3, <1>7
    <2>2. QED
        BY <1>8, <2>1
<1>10. HEAD \in Nodes /\ TAIL \in Nodes /\ Elems \subseteq Nodes
       /\ HEAD \notin Elems /\ TAIL \notin Elems /\ HEAD # TAIL
    BY AtomicListAssumption DEF Nodes
<1>11. \A i \in 1..Len(c) : c[i] \in Nodes
    BY <1>3, <1>7, <1>8, <1>9, <1>10
<1>12. ASSUME NEW i \in 1..Len(c), NEW j \in 1..Len(c), c[i] = c[j]
       PROVE  i = j
    <2>1. \A k \in 1..Len(c) : /\ c[k] = HEAD <=> k = 1
                               /\ c[k] = TAIL <=> k = Len(L) + 2
        <3> SUFFICES ASSUME NEW k \in 1..Len(c)
                     PROVE  (c[k] = HEAD <=> k = 1) /\ (c[k] = TAIL <=> k = Len(L) + 2)
            OBVIOUS
        <3>1. CASE k = 1
            BY <1>3, <1>8, <1>10, <3>1
        <3>2. CASE k = Len(L) + 2
            <4>1. c[k] = TAIL /\ k # 1
                BY <1>3, <1>7, <3>2
            <4>2. QED
                BY <1>10, <3>2, <4>1
        <3>3. CASE k # 1 /\ k # Len(L) + 2
            <4>1. c[k] \in Elems
                BY <1>3, <1>9, <3>3
            <4>2. QED
                BY <1>10, <3>3, <4>1
        <3>4. QED
            BY <3>1, <3>2, <3>3
    <2>2. CASE c[i] \in {HEAD, TAIL}
        BY <1>12, <2>1, <2>2
    <2>3. CASE c[i] \notin {HEAD, TAIL}
        <3>1. i - 1 \in 1..Len(L) /\ j - 1 \in 1..Len(L) /\ L[i - 1] = L[j - 1]
            BY <1>9, <1>12, <2>1, <2>3
        <3>2. i - 1 = j - 1
            BY <1>1, <1>2, <3>1
        <3>3. QED
            BY <3>2
    <2>4. QED
        BY <2>2, <2>3
<1>13. QED
    BY <1>2, <1>3, <1>7, <1>8, <1>11, <1>12

(* The links, the counts and the owners at the beginning. *)
LEMMA FirstLinks ==
    ASSUME NEW s \in Scenarios, InitList(s)
    PROVE  \E k \in Nat : \E c \in [1..(k + 2) -> Nodes] :
              /\ c[1] = HEAD /\ c[k + 2] = TAIL
              /\ \A i, j \in 1..(k + 2) : c[i] = c[j] => i = j
              /\ \A i \in 1..(k + 1) : next[c[i]] = c[i + 1] /\ prev[c[i + 1]] = c[i]
              /\ next \in [Nodes -> Nodes \cup {NULL}] /\ prev \in [Nodes -> Nodes \cup {NULL}]
              /\ \A n \in Nodes : /\ next[n] # NULL => \E i \in 1..(k + 1) : c[i] = n
                                  /\ prev[n] # NULL => \E i \in 1..(k + 1) : c[i + 1] = n
              /\ \A e \in Elems : (\E i \in 1..k : c[i + 1] = e) <=> e \in ToSet(s.list)
              /\ count = k
              /\ \A t \in Threads : s.mine[t] # NULL => s.mine[t] \notin ToSet(s.list)
<1>1. PICK c : c = Chain(s)
    OBVIOUS
<1>2. PICK k \in Nat : k = Len(s.list)
    BY <1>1, FirstChain
<1>3. /\ Len(c) = k + 2 /\ c[1] = HEAD /\ c[k + 2] = TAIL
      /\ \A i \in 1..k : c[i + 1] = s.list[i] /\ s.list[i] \in Elems
      /\ \A i \in 1..(k + 2) : c[i] \in Nodes
      /\ \A i, j \in 1..(k + 2) : c[i] = c[j] => i = j
    <2>1. /\ Len(c) = Len(s.list) + 2
          /\ c[1] = HEAD /\ c[Len(s.list) + 2] = TAIL
          /\ \A i \in 1..Len(s.list) : c[i + 1] = s.list[i] /\ s.list[i] \in Elems
          /\ \A i \in 1..Len(c) : c[i] \in Nodes
          /\ \A i, j \in 1..Len(c) : c[i] = c[j] => i = j
        BY <1>1, FirstChain
    <2>2. Len(c) = k + 2
        BY <1>2, <2>1
    <2>3. QED
        BY <1>2, <2>1, <2>2
<1>4. c \in Seq(Nodes) /\ s.list \in Seq(Elems)
    <2>1. s.list \in Seq(Elems)
        BY ScenariosAssumption
    <2>2. s.list \in Seq(Nodes) /\ <<HEAD>> \in Seq(Nodes) /\ <<TAIL>> \in Seq(Nodes)
        BY <2>1 DEF Nodes
    <2>3. QED
        BY <1>1, <2>1, <2>2 DEF Chain
<1> c \in [1..(k + 2) -> Nodes]
    BY <1>3, <1>4
<1>6. ToSet(c) = {c[i] : i \in 1..(k + 2)} /\ ToSet(s.list) = {s.list[i] : i \in 1..k}
    BY <1>2, <1>3 DEF ToSet
<1>7. PICK pos : pos = [n \in Nodes |-> CHOOSE i \in 1..Len(c) : c[i] = n]
    OBVIOUS
<1>8. \A i \in 1..(k + 2) : pos[c[i]] = i
    <2> SUFFICES ASSUME NEW i \in 1..(k + 2) PROVE pos[c[i]] = i
        OBVIOUS
    <2>1. pos[c[i]] = CHOOSE j \in 1..Len(c) : c[j] = c[i]
        BY <1>3, <1>7
    <2>2. pos[c[i]] \in 1..(k + 2) /\ c[pos[c[i]]] = c[i]
        BY <1>3, <2>1
    <2>3. QED
        BY <1>3, <2>2
<1>9. /\ \A n \in Nodes : next[n] = IF n \in ToSet(c) \ {TAIL} THEN c[pos[n] + 1] ELSE NULL
      /\ \A n \in Nodes : prev[n] = IF n \in ToSet(c) \ {HEAD} THEN c[pos[n] - 1] ELSE NULL
      /\ next = [n \in Nodes |-> next[n]] /\ prev = [n \in Nodes |-> prev[n]]
      /\ count = k
    <2> DEFINE Pos(n) == CHOOSE i \in 1..Len(Chain(s)) : Chain(s)[i] = n
    <2>1. /\ next = [n \in Nodes |-> IF n \in ToSet(Chain(s)) \ {TAIL}
                                    THEN Chain(s)[Pos(n) + 1] ELSE NULL]
          /\ prev = [n \in Nodes |-> IF n \in ToSet(Chain(s)) \ {HEAD}
                                    THEN Chain(s)[Pos(n) - 1] ELSE NULL]
          /\ count = Len(s.list)
        BY DEF InitList, Chain
    <2>2. \A n \in Nodes : pos[n] = Pos(n)
        BY <1>1, <1>7
    <2> HIDE DEF Pos
    <2>3. QED
        BY <1>1, <1>2, <2>1, <2>2
<1>10. \A i \in 1..(k + 1) : next[c[i]] = c[i + 1] /\ prev[c[i + 1]] = c[i]
    <2> SUFFICES ASSUME NEW i \in 1..(k + 1)
                 PROVE  next[c[i]] = c[i + 1] /\ prev[c[i + 1]] = c[i]
        OBVIOUS
    <2>1. i \in 1..(k + 2) /\ i + 1 \in 1..(k + 2) /\ i # k + 2 /\ i + 1 # 1
          /\ k + 2 \in 1..(k + 2) /\ 1 \in 1..(k + 2) /\ (i + 1) - 1 = i
        OBVIOUS
    <2>2. c[i] \in ToSet(c) \ {TAIL} /\ c[i + 1] \in ToSet(c) \ {HEAD}
          /\ c[i] \in Nodes /\ c[i + 1] \in Nodes
        BY <1>3, <1>6, <2>1
    <2>3. pos[c[i]] = i /\ pos[c[i + 1]] = i + 1
        BY <1>8, <2>1
    <2>4. next[c[i]] = c[pos[c[i]] + 1] /\ prev[c[i + 1]] = c[pos[c[i + 1]] - 1]
        BY <1>9, <2>2
    <2>5. QED
        BY <2>1, <2>3, <2>4
<1>11. ASSUME NEW n \in Nodes
       PROVE  /\ next[n] # NULL => \E i \in 1..(k + 1) : c[i] = n
              /\ prev[n] # NULL => \E i \in 1..(k + 1) : c[i + 1] = n
    <2>1. ASSUME next[n] # NULL
          PROVE  \E i \in 1..(k + 1) : c[i] = n
        <3>1. n \in ToSet(c) \ {TAIL}
            BY <1>9, <2>1
        <3>2. PICK i \in 1..(k + 2) : c[i] = n
            BY <1>6, <3>1
        <3>3. i \in 1..(k + 1)
            BY <1>3, <3>1, <3>2
        <3>4. QED
            BY <3>2, <3>3
    <2>2. ASSUME prev[n] # NULL
          PROVE  \E i \in 1..(k + 1) : c[i + 1] = n
        <3>1. n \in ToSet(c) \ {HEAD}
            BY <1>9, <2>2
        <3>2. PICK i \in 1..(k + 2) : c[i] = n
            BY <1>6, <3>1
        <3>3. i - 1 \in 1..(k + 1) /\ (i - 1) + 1 = i
            BY <1>3, <3>1, <3>2
        <3>4. QED
            BY <3>2, <3>3
    <2>3. QED
        BY <2>1, <2>2
<1>12. next \in [Nodes -> Nodes \cup {NULL}] /\ prev \in [Nodes -> Nodes \cup {NULL}]
    <2>1. ASSUME NEW n \in Nodes
          PROVE  next[n] \in Nodes \cup {NULL} /\ prev[n] \in Nodes \cup {NULL}
        <3>1. next[n] # NULL => next[n] \in Nodes
            <4>1. ASSUME next[n] # NULL PROVE next[n] \in Nodes
                <5>1. PICK i \in 1..(k + 1) : c[i] = n
                    BY <1>11, <4>1
                <5>2. i + 1 \in 1..(k + 2)
                    OBVIOUS
                <5>3. QED
                    BY <1>3, <1>10, <5>1, <5>2
            <4>2. QED
                BY <4>1
        <3>2. prev[n] # NULL => prev[n] \in Nodes
            <4>1. ASSUME prev[n] # NULL PROVE prev[n] \in Nodes
                <5>1. PICK i \in 1..(k + 1) : c[i + 1] = n
                    BY <1>11, <4>1
                <5>2. i \in 1..(k + 2)
                    OBVIOUS
                <5>3. QED
                    BY <1>3, <1>10, <5>1, <5>2
            <4>2. QED
                BY <4>1
        <3>3. QED
            BY <3>1, <3>2
    <2>2. QED
        BY <1>9, <2>1
<1>13. \A e \in Elems : (\E i \in 1..k : c[i + 1] = e) <=> e \in ToSet(s.list)
    <2>1. \A i \in 1..k : c[i + 1] = s.list[i]
        BY <1>3
    <2>2. QED
        BY <1>6, <2>1
<1>14. \A t \in Threads : s.mine[t] # NULL => s.mine[t] \notin ToSet(s.list)
    BY <1>2, <1>6, ScenariosAssumption
<1> WITNESS k \in Nat
<1> WITNESS c \in [1..(k + 2) -> Nodes]
<1>15. QED
    BY <1>3, <1>9, <1>10, <1>11, <1>12, <1>13, <1>14

(* A thread between two calls has no locks, no pins, and removes nothing. *)
LEMMA FirstLocals ==
    ASSUME Init, NEW t \in Threads
    PROVE  /\ local[t] = Idle /\ local[t].pc = "idle" /\ local[t].then \notin Moving \cup {"remove"}
           /\ ~Claims(t) /\ ~Inserting(t) /\ ~Removing(t) /\ ~PinsEl(t) /\ ~XMode(t)
           /\ \A k, e : e \in Elems => ~Holds(t, k, e)
           /\ \A m \in Nodes : ~Must(t, m) /\ ~May(t, m)
<1>1. local[t] = Idle /\ cur[t] = NULL
    BY DEF Init
<1>2. NULL \notin {"iter", "peek", "again", "remove"} /\ NULL \notin Elems
    BY AtomicListAssumption DEF Nodes
<1>3. /\ local[t].pc = "idle" /\ local[t].then \notin Moving \cup {"remove"}
      /\ local[t].pinned = NULL
    BY <1>1, <1>2 DEF Idle, Moving
<1>4. ~PinsEl(t) /\ ~Removing(t) /\ ~Inserting(t) /\ ~XMode(t)
    BY <1>3 DEF PinsEl, Removing, Inserting, XMode, PairPcs, OffPcs, InsPcs, Moving
<1>5. \A m \in Nodes : ~Must(t, m) /\ ~May(t, m)
    BY <1>3 DEF Must, May
<1>6. \A k, e : e \in Elems => ~Holds(t, k, e)
    BY <1>1, <1>2, <1>3, <1>4 DEF Holds
<1>7. QED
    BY <1>1, <1>3, <1>4, <1>5, <1>6 DEF Claims

(* TypeOK and LocalInv hold at the beginning, ... *)
LEMMA FirstType ==
    ASSUME Init
    PROVE  TypeOK /\ LocalInv
<1>1. PICK s \in Scenarios : InitList(s)
    BY DEF Init
<1>2. next \in [Nodes -> Nodes \cup {NULL}] /\ prev \in [Nodes -> Nodes \cup {NULL}]
    BY <1>1, FirstLinks
<1>3. prog \in [Threads -> Seq(Op)] /\ mine \in [Threads -> Elems \cup {NULL}]
    BY <1>1, ScenariosAssumption DEF InitList
<1>4. ref \in [Elems -> [mask : BOOLEAN, pin : Nat, wait : SUBSET Threads]]
    BY <1>1 DEF InitList
<1>5. lock \in [Nodes -> LockRec]
    <2>1. Free \in LockRec
        BY DEF Free, LockRec
    <2>2. QED
        BY <2>1 DEF Init
<1>6. local \in [Threads -> LocalRec]
    <2>1. Idle \in LocalRec
        BY DEF Idle, LocalRec, Pcs
    <2>2. QED
        BY <2>1 DEF Init
<1>7. signal \in [Threads -> BOOLEAN] /\ cur \in [Threads -> Elems \cup {NULL, Done}]
    BY DEF Init
<1>8. ASSUME NEW t \in Threads PROVE LocalOK(t)
    <2>1. local[t] = Idle /\ local[t].pc = "idle" /\ local[t].then \notin Moving \cup {"remove"}
        BY FirstLocals
    <2>2. local[t].pinned = NULL
        BY <2>1 DEF Idle
    <2>3. QED
        BY <2>1, <2>2 DEF LocalOK, SearchPcs, PairPcs, OffPcs, InsPcs, Moving
<1>9. QED
    BY <1>2, <1>3, <1>4, <1>5, <1>6, <1>7, <1>8 DEF TypeOK, LocalInv

(* ... and LockInv: all the locks are free. *)
LEMMA FirstLocks ==
    ASSUME Init
    PROVE  LockInv
<1>1. \A m \in Nodes : lock[m] = Free
    BY DEF Init
<1>2. /\ Free.own = {} /\ Free.queue = <<>> /\ Free.excl = FALSE
      /\ Len(Free.queue) = 0 /\ 1..0 = {}
    BY DEF Free
<1>3. \A X : WellLocked(Free, X)
    BY <1>2 DEF WellLocked
<1>4. ASSUME NEW t \in Threads, NEW m \in Nodes PROVE LockOK(t, m)
    <2>1. ~Asks(t, lock[m]) /\ t \notin lock[m].own
        BY <1>1, <1>2 DEF Asks, Queued
    <2>2. QED
        BY <2>1, FirstLocals DEF LockOK
<1>5. ASSUME NEW t \in Threads PROVE EndOK(t)
    BY FirstLocals DEF EndOK
<1>6. \A e \in Elems : lock[e] = Free
    BY <1>1 DEF Nodes
<1>7. QED
    BY <1>1, <1>3, <1>4, <1>5, <1>6 DEF LockInv

(* The numbers of the nodes in the first list show that it has no cycle, *)
(* and count its elements.                                               *)
LEMMA FirstLinkInv ==
    ASSUME Init
    PROVE  LinkInv /\ CountInv /\ \A e \in Elems : ref[e].mask <=> ~OnList(e)
<1>1. PICK s \in Scenarios : InitList(s)
    BY DEF Init
<1>2. PICK k \in Nat : \E c \in [1..(k + 2) -> Nodes] :
              /\ c[1] = HEAD /\ c[k + 2] = TAIL
              /\ \A i, j \in 1..(k + 2) : c[i] = c[j] => i = j
              /\ \A i \in 1..(k + 1) : next[c[i]] = c[i + 1] /\ prev[c[i + 1]] = c[i]
              /\ next \in [Nodes -> Nodes \cup {NULL}] /\ prev \in [Nodes -> Nodes \cup {NULL}]
              /\ \A n \in Nodes : /\ next[n] # NULL => \E i \in 1..(k + 1) : c[i] = n
                                  /\ prev[n] # NULL => \E i \in 1..(k + 1) : c[i + 1] = n
              /\ \A e \in Elems : (\E i \in 1..k : c[i + 1] = e) <=> e \in ToSet(s.list)
              /\ count = k
              /\ \A t \in Threads : s.mine[t] # NULL => s.mine[t] \notin ToSet(s.list)
    BY <1>1, FirstLinks
<1>3. PICK c \in [1..(k + 2) -> Nodes] :
              /\ c[1] = HEAD /\ c[k + 2] = TAIL
              /\ \A i, j \in 1..(k + 2) : c[i] = c[j] => i = j
              /\ \A i \in 1..(k + 1) : next[c[i]] = c[i + 1] /\ prev[c[i + 1]] = c[i]
              /\ \A n \in Nodes : /\ next[n] # NULL => \E i \in 1..(k + 1) : c[i] = n
                                  /\ prev[n] # NULL => \E i \in 1..(k + 1) : c[i + 1] = n
              /\ \A e \in Elems : (\E i \in 1..k : c[i + 1] = e) <=> e \in ToSet(s.list)
              /\ count = k
    BY <1>2
<1>4. /\ HEAD \in Nodes /\ TAIL \in Nodes /\ HEAD \notin Elems /\ TAIL \notin Elems
      /\ HEAD # TAIL /\ NULL \notin Nodes /\ Elems \subseteq Nodes
         /\ Nodes = Elems \cup {HEAD, TAIL}
    BY AtomicListAssumption DEF Nodes
<1>5. ASSUME NEW i \in 1..k
      PROVE  c[i + 1] \in Elems /\ next[c[i + 1]] # NULL
    <2>1. i + 1 \in 1..(k + 1) /\ i + 1 \in 1..(k + 2) /\ i + 1 # 1 /\ i + 1 # k + 2
          /\ (i + 1) + 1 \in 1..(k + 2) /\ 1 \in 1..(k + 2) /\ k + 2 \in 1..(k + 2)
        OBVIOUS
    <2>2. c[i + 1] \in Nodes /\ c[i + 1] # HEAD /\ c[i + 1] # TAIL
        BY <1>3, <2>1
    <2>3. next[c[i + 1]] = c[(i + 1) + 1] /\ c[(i + 1) + 1] \in Nodes
        BY <1>3, <2>1
    <2>4. QED
        BY <1>4, <2>2, <2>3
<1>6. Members = {e \in Elems : OnList(e)}
    BY FirstLocals DEF Members
<1>7. ASSUME NEW e \in Elems
      PROVE  OnList(e) <=> \E i \in 1..k : c[i + 1] = e
    <2>1. ASSUME NEW i \in 1..(k + 1), c[i] = e
          PROVE  \E j \in 1..k : c[j + 1] = e
        <3>1. i # 1
            BY <1>3, <1>4, <2>1
        <3>2. i - 1 \in 1..k /\ (i - 1) + 1 = i
            BY <3>1
        <3>3. QED
            BY <2>1, <3>2
    <2>2. next[e] # NULL => \E i \in 1..(k + 1) : c[i] = e
        BY <1>3, <1>4
    <2>3. QED
        BY <1>5, <2>1, <2>2 DEF OnList
<1>8. \A n : n \in Members <=> \E i \in 1..k : c[i + 1] = n
    BY <1>5, <1>6, <1>7
<1>9. \A n \in Members \cup {HEAD} : \E i \in 1..(k + 1) : c[i] = n
    <2>1. 1 \in 1..(k + 1) /\ \A i \in 1..k : i + 1 \in 1..(k + 1)
        OBVIOUS
    <2>2. QED
        BY <1>3, <1>8, <2>1
<1>10. \A n \in Members \cup {TAIL} : \E i \in 1..(k + 1) : c[i + 1] = n
    <2>1. k + 1 \in 1..(k + 1) /\ (k + 1) + 1 = k + 2 /\ \A i \in 1..k : i \in 1..(k + 1)
        OBVIOUS
    <2>2. QED
        BY <1>3, <1>8, <2>1
<1>11. ASSUME NEW i \in 1..(k + 1)
       PROVE  c[i + 1] \in Members \cup {TAIL} /\ c[i] \in Members \cup {HEAD}
    <2>1. c[i + 1] \in Members \cup {TAIL}
        <3>1. CASE i = k + 1
            BY <1>3, <3>1
        <3>2. CASE i # k + 1
            <4>1. i \in 1..k
                BY <3>2
            <4>2. QED
                BY <1>8, <4>1
        <3>3. QED
            BY <3>1, <3>2
    <2>2. c[i] \in Members \cup {HEAD}
        <3>1. CASE i = 1
            BY <1>3, <3>1
        <3>2. CASE i # 1
            <4>1. i - 1 \in 1..k /\ (i - 1) + 1 = i
                BY <3>2
            <4>2. QED
                BY <1>8, <4>1
        <3>3. QED
            BY <3>1, <3>2
    <2>3. QED
        BY <2>1, <2>2
<1>12. \A n \in Members \cup {HEAD} : next[n] \in Members \cup {TAIL} /\ prev[next[n]] = n
    BY <1>3, <1>9, <1>11
<1>13. \A n \in Members \cup {TAIL} : prev[n] \in Members \cup {HEAD} /\ next[prev[n]] = n
    <2> SUFFICES ASSUME NEW n \in Members \cup {TAIL}
                 PROVE  prev[n] \in Members \cup {HEAD} /\ next[prev[n]] = n
        OBVIOUS
    <2>1. PICK i \in 1..(k + 1) : c[i + 1] = n
        BY <1>10
    <2>2. prev[n] = c[i] /\ next[c[i]] = n
        BY <1>3, <2>1
    <2>3. QED
        BY <1>11, <2>2
<1>14. next[TAIL] = NULL /\ prev[HEAD] = NULL
    <2>1. \A i \in 1..(k + 1) : c[i] # TAIL /\ c[i + 1] # HEAD
        <3>1. \A i \in 1..(k + 1) : /\ i \in 1..(k + 2) /\ i # k + 2
                                    /\ i + 1 \in 1..(k + 2) /\ i + 1 # 1
            OBVIOUS
        <3>2. 1 \in 1..(k + 2) /\ k + 2 \in 1..(k + 2)
            OBVIOUS
        <3>3. QED
            BY <1>3, <3>1, <3>2
    <2>2. QED
        BY <1>3, <1>4, <2>1
<1>15. Ordered
    <2>1. PICK rank : rank = [n \in Nodes |-> IF \E i \in 1..(k + 2) : c[i] = n
                                              THEN CHOOSE i \in 1..(k + 2) : c[i] = n ELSE 0]
        OBVIOUS
    <2>2. \A i \in 1..(k + 2) : rank[c[i]] = i
        <3> SUFFICES ASSUME NEW i \in 1..(k + 2) PROVE rank[c[i]] = i
            OBVIOUS
        <3>1. c[i] \in Nodes /\ rank[c[i]] = CHOOSE j \in 1..(k + 2) : c[j] = c[i]
            BY <2>1
        <3>2. rank[c[i]] \in 1..(k + 2) /\ c[rank[c[i]]] = c[i]
            BY <3>1
        <3>3. QED
            BY <1>3, <3>2
    <2>3. rank \in [Nodes -> Int]
        <3>1. \A n \in Nodes : (\E i \in 1..(k + 2) : c[i] = n) => rank[n] \in Int
            BY <2>2
        <3>2. \A n \in Nodes : ~(\E i \in 1..(k + 2) : c[i] = n) => rank[n] \in Int
            BY <2>1
        <3>3. QED
            BY <2>1, <3>1, <3>2
    <2>4. \A i \in 1..(k + 1) : rank[c[i]] < rank[next[c[i]]]
        <3> SUFFICES ASSUME NEW i \in 1..(k + 1) PROVE rank[c[i]] < rank[next[c[i]]]
            OBVIOUS
        <3>1. rank[c[i]] = i /\ rank[c[i + 1]] = i + 1 /\ next[c[i]] = c[i + 1]
            BY <1>3, <2>2
        <3>2. QED
            BY <3>1
    <2>5. \A n \in Members \cup {HEAD} : rank[n] < rank[next[n]]
        BY <1>9, <2>4
    <2>6. QED
        BY <2>3, <2>5 DEF Ordered
<1>16. \A e \in Elems : ref[e].mask <=> ~OnList(e)
    <2>1. \A e \in Elems : ref[e].mask <=> e \notin ToSet(s.list)
        BY <1>1 DEF InitList
    <2>2. QED
        BY <1>3, <1>7, <2>1
<1>17. Counted = Members
    <2>1. \A t \in Threads : local[t].pc = "idle"
        BY FirstLocals
    <2>2. QED
        BY <1>6, <1>16, <2>1 DEF Counted
<1>18. Cardinality(Members) = k
    <2>1. PICK f : f = [i \in 1..k |-> c[i + 1]]
        OBVIOUS
    <2>2. \A i \in 1..k : i + 1 \in 1..(k + 2)
        OBVIOUS
    <2>3. f \in [1..k -> Members] /\ \A m \in Members : \E i \in 1..k : f[i] = m
        BY <1>8, <2>1
    <2>4. \A i, j \in 1..k : f[i] = f[j] => i = j
        BY <1>3, <2>1, <2>2
    <2>5. f \in Bijection(1..k, Members)
        BY <2>3, <2>4 DEF Bijection, Injection, Surjection, IsInjective
    <2>6. ExistsBijection(1..k, Members)
        BY <2>5 DEF ExistsBijection
    <2>7. QED
        BY <2>6, FS_CountingElements
<1>19. QED
    BY <1>3, <1>12, <1>13, <1>14, <1>15, <1>16, <1>17, <1>18 DEF LinkInv, CountInv

(* Init implies IInv: nobody is in a call, and nothing is pinned. *)
LEMMA FirstIInv ==
    ASSUME Init
    PROVE  IInv
<1>1. TypeOK /\ LocalInv /\ LockInv /\ LinkInv /\ CountInv
    BY FirstType, FirstLocks, FirstLinkInv
<1>2. \A e \in Elems : (ref[e].mask <=> ~OnList(e)) /\ ref[e].pin = 0 /\ ref[e].wait = {}
    <2>1. PICK s \in Scenarios : InitList(s)
        BY DEF Init
    <2>2. \A e \in Elems : ref[e].pin = 0 /\ ref[e].wait = {}
        BY <2>1 DEF InitList
    <2>3. QED
        BY <2>2, FirstLinkInv
<1>3. NearInv
    <2>1. ASSUME NEW t \in Threads PROVE NearOK(t)
        BY FirstLocals DEF NearOK, PairPcs
    <2>2. QED
        BY <2>1 DEF NearInv
<1>4. PinInv
    <2>1. ASSUME NEW e \in Elems PROVE Tokens(e) = {}
        BY FirstLocals DEF Tokens
    <2>2. \A e \in Elems : ref[e].pin = Cardinality(Tokens(e))
        BY <1>2, <2>1, FS_EmptySet
    <2>3. QED
        BY <2>2, FirstLocals DEF PinInv
<1>5. ClaimInv
    <2>1. PICK s \in Scenarios : InitList(s)
        BY DEF Init
    <2>2. mine = s.mine /\ \A e \in Elems : ref[e].mask <=> e \notin ToSet(s.list)
        BY <2>1 DEF InitList
    <2>3. ASSUME NEW t \in Threads PROVE ClaimOK(t)
        BY FirstLocals DEF ClaimOK
    <2>4. ASSUME NEW t \in Threads PROVE MineOK(t)
        <3> SUFFICES ASSUME mine[t] # NULL
                     PROVE  /\ ~OnList(mine[t])
                            /\ \A u \in Threads : mine[u] = mine[t] => u = t
            BY FirstLocals DEF MineOK
        <3>1. mine[t] \in Elems /\ \A u \in Threads : mine[u] = mine[t] => u = t
            BY <2>2, ScenariosAssumption
        <3>2. mine[t] \notin ToSet(s.list)
            BY <2>1, <2>2, FirstLinks
        <3>3. QED
            BY <1>2, <2>2, <3>1, <3>2
    <2>5. ASSUME NEW e \in Elems PROVE ElemOK(e)
        BY <1>2 DEF ElemOK
    <2>6. QED
        BY <2>3, <2>4, <2>5, FirstLocals DEF ClaimInv
<1>6. WaitInv
    <2>1. ASSUME NEW t \in Threads PROVE WaitOK(t)
        <3>1. signal[t] = FALSE
            BY DEF Init
        <3>2. QED
            BY <1>2, <3>1, FirstLocals DEF WaitOK
    <2>2. QED
        BY <1>2, <2>1 DEF WaitInv
<1>7. QED
    BY <1>1, <1>3, <1>4, <1>5, <1>6 DEF IInv

(* Every step of a thread preserves IInv. *)
LEMMA StepIInv ==
    ASSUME IInv, NEW t \in Threads, Step(t)
    PROVE  IInv'
<1>1. CASE NextElem(t) \/ NextHop(t) \/ PrevElem(t) \/ PrevYield(t) \/ PrevRelock(t)
    BY <1>1, NextElemStep, NextHopStep, PrevElemStep, PrevYieldStep, PrevRelockStep
<1>2. CASE PrevLook(t) \/ PrevCross(t) \/ PrevCrossed(t) \/ PrevDefer(t)
    BY <1>2, PrevLookStep, PrevCrossStep, PrevCrossedStep, PrevDeferStep
<1>3. CASE PrevDeferred(t) \/ PrevAwake(t) \/ Leave(t) \/ LeaveUnpin(t)
    BY <1>3, PrevDeferredStep, PrevAwakeStep, LeaveStep, LeaveUnpinStep
<1>4. CASE IterNext(t) \/ IterFound(t) \/ IterSeek(t) \/ IterDestroy(t) \/ PutBack(t)
    BY <1>4, IterNextStep, IterFoundStep, IterSeekStep, IterDestroyStep, PutBackStep
<1>5. CASE IterPop(t) \/ IterPeeked(t) \/ IterUnpeek(t) \/ IterAgain(t)
    BY <1>5, IterPopStep, IterPeekedStep, IterUnpeekStep, IterAgainStep
<1>6. CASE Delete(t) \/ Dequeue(t) \/ DequeueFound(t) \/ Mask(t) \/ RemoveFail(t)
    BY <1>6, DeleteStep, DequeueStep, DequeueFoundStep, MaskStep, RemoveFailStep
<1>7. CASE Uncount(t) \/ UncountWait(t) \/ RemoveWait(t) \/ RemoveAwake(t)
    BY <1>7, UncountStep, UncountWaitStep, RemoveWaitStep, RemoveAwakeStep
<1>8. CASE Pair(t) \/ PairYield(t) \/ PairRelock(t) \/ PairLook(t)
    BY <1>8, PairStep, PairYieldStep, PairRelockStep, PairLookStep
<1>9. CASE RemoveNext(t) \/ Unlink(t) \/ Unlinked(t) \/ Clear(t) \/ ClearYield(t) \/ Cleared(t)
    BY <1>9, RemoveNextStep, UnlinkStep, UnlinkedStep, ClearStep, ClearYieldStep, ClearedStep
<1>10. CASE Insert(t) \/ InsertNext(t) \/ Link(t) \/ Expose(t) \/ Linked(t) \/ Inserted(t)
    BY <1>10, InsertStep, InsertNextStep, LinkStep, ExposeStep, LinkedStep, InsertedStep
<1>11. QED
    BY <1>1, <1>2, <1>3, <1>4, <1>5, <1>6, <1>7, <1>8, <1>9, <1>10 DEF Step

(* A step in which nothing changes. *)
LEMMA StutterIInv ==
    ASSUME IInv, UNCHANGED vars
    PROVE  IInv'
<1>1. /\ UNCHANGED <<prog, next, prev, lock, ref, count>>
      /\ UNCHANGED <<signal, cur, mine, local>>
    BY DEF vars, links, iter
<1>2. TypeOK' /\ LocalInv' /\ LinkInv' /\ NearInv'
    <2>1. TypeOK'
        BY <1>1 DEF IInv, TypeOK
    <2>2. LocalInv'
        BY <1>1 DEF IInv, LocalInv, LocalOK, Inserts, Calls, Call
    <2>3. LinkInv'
        BY <1>1 DEF IInv, LinkInv, Ordered, Members, OnList
    <2>4. NearInv'
        BY <1>1 DEF IInv, NearInv, NearOK, Members, OnList, Anchored, Owns, Inserts, Calls, Call
    <2>5. QED
        BY <2>1, <2>2, <2>3, <2>4
<1>3. LockInv'
    <2>1. XModes' = XModes
        BY <1>1 DEF XModes, XMode
    <2>2. ASSUME NEW t \in Threads, NEW m \in Nodes PROVE LockOK(t, m)'
        <3>1. LockOK(t, m)
            BY DEF IInv, LockInv
        <3>2. QED
            BY <1>1, <3>1 DEF LockOK, Must, May, Asks, Queued, At
    <2>3. ASSUME NEW t \in Threads PROVE EndOK(t)'
        <3>1. EndOK(t)
            BY DEF IInv, LockInv
        <3>2. QED
            BY <1>1, <3>1 DEF EndOK, QueuedLast, Owns
    <2>4. \A m \in Nodes : WellLocked(lock[m], XModes)'
        BY <1>1, <2>1 DEF IInv, LockInv
    <2>5. \A e \in Elems : ~OnList(e)' => lock'[e] = Free
        BY <1>1 DEF IInv, LockInv, OnList
    <2>6. QED
        BY <2>2, <2>3, <2>4, <2>5 DEF LockInv
<1>4. PinInv'
    BY <1>1 DEF IInv, PinInv, Tokens, Holds, PinsEl, Inserting, Inserts, Calls, Call
<1>5. ClaimInv'
    BY <1>1 DEF IInv, ClaimInv, ClaimOK, MineOK, ElemOK, Claims, Removing, Inserting, Inserts,
                Calls, Call, OnList
<1>6. WaitInv' /\ CountInv'
    BY <1>1 DEF IInv, WaitInv, WaitOK, CountInv, Counted, Removing, Inserting, PinsEl, Inserts,
                Calls, Call
<1>7. QED
    BY <1>2, <1>3, <1>4, <1>5, <1>6 DEF IInv

(* IInv holds in every state, however many threads and elements there are  *)
(* and whatever the threads do: the locks of each node of atomic_list.c    *)
(* are taken and given up as its searches, removals and insertions expect, *)
(* the list is one chain, and every pin is counted.                        *)
THEOREM Invariance == Spec => []IInv
<1>1. Init => IInv
    BY FirstIInv
<1>2. IInv /\ [Next]_vars => IInv'
    BY StepIInv, StutterIInv DEF Next
<1>3. QED
    BY <1>1, <1>2, PTL DEF Spec

-------------------------------------------------------------------------------
(* Neighbours agree about each other (adl_insert_elem_* and                *)
(* adl_remove_elem_do keep next and prev in step), whatever adl_elem_pin   *)
(* can pin is on the list, and list->count is not less than what can be    *)
(* found.                                                                  *)
THEOREM ListSoundness == Spec => []ListSound
<1>1. ASSUME IInv PROVE ListSound
    <2>1. /\ \A n \in Members \cup {HEAD} :
                next[n] \in Members \cup {TAIL} /\ prev[next[n]] = n
          /\ \A n \in Members \cup {TAIL} :
                prev[n] \in Members \cup {HEAD} /\ next[prev[n]] = n
        BY <1>1 DEF IInv, LinkInv
    <2>2. ASSUME NEW e \in Elems, ~ref[e].mask PROVE e \in Members
        <3>1. OnList(e)
            BY <1>1, <2>2 DEF IInv, ClaimInv, ElemOK
        <3>2. ASSUME NEW t \in Threads, local[t].el = e PROVE local[t].pc \notin OffPcs
            BY <1>1, <2>2, <3>2, ClaimedOff, Here DEF ClaimOK
        <3>3. QED
            BY <3>1, <3>2 DEF Members, OffPcs
    <2>3. Cardinality({e \in Elems : ~ref[e].mask}) <= count
        <3>1. {e \in Elems : ~ref[e].mask} \subseteq Counted
            BY DEF Counted
        <3>2. Cardinality({e \in Elems : ~ref[e].mask}) <= Cardinality(Counted)
            BY <3>1, CountedFinite, FS_Subset
        <3>3. QED
            BY <1>1, <3>2 DEF IInv, CountInv
    <2>4. QED
        BY <2>1, <2>2, <2>3 DEF ListSound
<1>2. QED
    BY <1>1, Invariance, PTL

(* What a thread has pinned (adl_elem_pin, adl_elem_force_pin_masked) is   *)
(* on the list until it unpins it, although another thread may remove it;  *)
(* and when adl_elem_clear has given an element to its owner nobody has    *)
(* its lock, is queued for it or waits for the removal.                    *)
THEOREM NothingDangles == Spec => []NoDangling
<1>1. ASSUME IInv PROVE NoDangling
    <2>1. ASSUME NEW t \in Threads, NEW e \in Pinned(t)
          PROVE  e \in Members /\ ref[e].pin > 0
        <3>1. e \in Elems
            BY DEF Pinned
        <3>2. PICK k \in Kinds : Holds(t, k, e) /\ ~(Inserting(t) /\ local[t].el = e /\ k = "el")
            <4>1. LocalOK(t)
                BY <1>1, Here
            <4>2. CASE e = cur[t] /\ local[t].then \notin Moving
                BY <4>2 DEF Holds, Kinds
            <4>3. CASE e = local[t].pinned
                BY <4>3 DEF Holds, Kinds
            <4>4. CASE e = local[t].x /\ local[t].pc \in {"leave", "unpin", "found", "unpeek"}
                BY <4>4 DEF Holds, Kinds
            <4>5. CASE /\ e = local[t].el
                       /\ \/ local[t].then = "peek" /\ local[t].pc # "await"
                          \/ local[t].pc \in {"mask", "fail", "uncountwait", "settle"}
                <5>1. Holds(t, "el", e)
                    BY <4>5 DEF Holds, PinsEl
                <5>2. ~Inserting(t)
                    BY <4>1, <4>5 DEF LocalOK, Inserting, PairPcs, InsPcs, SearchPcs, Moving
                <5>3. QED
                    BY <5>1, <5>2 DEF Kinds
            <4>6. QED
                BY <4>2, <4>3, <4>4, <4>5 DEF Pinned, Moving
        <3>3. QED
            BY <1>1, <3>1, <3>2, HeldIsMember, HeldIsPinned
    <2>2. \A e \in Elems : ~OnList(e) =>
              lock[e] = Free /\ ref[e].mask /\ ref[e].wait = {}
        BY <1>1 DEF IInv, LockInv, ClaimInv, ElemOK
    <2>3. QED
        BY <2>1, <2>2 DEF NoDangling
<1>2. QED
    BY <1>1, Invariance, PTL

(* Two pins of an element are two in its count. *)
LEMMA TwoPins ==
    ASSUME IInv, NEW e \in Elems, NEW t \in Threads, NEW k \in Kinds, Holds(t, k, e),
           NEW u \in Threads, NEW j \in Kinds, Holds(u, j, e), <<t, k>> # <<u, j>>
    PROVE  ref[e].pin # 1
<1>1. <<t, k>> \in Tokens(e) /\ <<u, j>> \in Tokens(e)
    BY DEF Tokens
<1>2. ASSUME Cardinality(Tokens(e)) = 1 PROVE FALSE
    <2>1. PICK p : Tokens(e) = {p}
        BY <1>2, TokensFinite, FS_Singleton
    <2>2. QED
        BY <1>1, <2>1
<1>3. QED
    BY <1>2 DEF IInv, PinInv

(* The last pin of a masked element, if it is not that of its remover, is  *)
(* waited for.                                                             *)
LEMMA LastPin ==
    ASSUME IInv, NEW e \in Elems, NEW t \in Threads, NEW k \in Kinds, Holds(t, k, e),
           ~(Claims(t) /\ local[t].el = e /\ k = "el"), ref[e].mask, ref[e].pin = 1
    PROVE  ref[e].wait # {}
<1>1. OnList(e) /\ \A u \in Threads : Inserting(u) => local[u].el # e
    BY HeldIsMember DEF Claims
<1>2. PICK u \in Threads : Claims(u) /\ local[u].el = e
    BY <1>1 DEF IInv, ClaimInv, ElemOK
<1>3. Removing(u) /\ WaitOK(u)
    BY <1>1, <1>2, Here DEF Claims
<1>4. CASE PinsEl(u)
    <2>1. Holds(u, "el", e) /\ "el" \in Kinds
        BY <1>2, <1>4 DEF Holds, Kinds
    <2>2. <<t, k>> # <<u, "el">>
        BY <1>2
    <2>3. QED
        BY <2>1, <2>2, TwoPins
<1>5. CASE ~PinsEl(u)
    <2>1. local[u].pc = "await" /\ ~signal[u]
        BY <1>2, <1>3, <1>5 DEF WaitOK
    <2>2. QED
        BY <1>2, <1>3, <2>1 DEF WaitOK
<1>6. QED
    BY <1>4, <1>5

(* What the code asserts in adl_elem_unpin, adl_remove_elem_wait,          *)
(* adl_elem_expose, adl_remove_elem_start, adl_elem_delete_wait,           *)
(* adl_remove_elem_do and adl_elem_clear is so.                            *)
THEOREM NoAssertionFails == Spec => []AssertionsHold
<1>1. ASSUME IInv, NEW t \in Threads, NEW e \in Elems,
             \/ At(t, "unpeek") /\ e = local[t].x
             \/ At(t, "fail") /\ e = local[t].el
             \/ local[t].pc \in {"crossed", "unpin", "putback"} /\ e = local[t].pinned,
             ref[e].mask, ref[e].pin = 1
      PROVE  ref[e].wait # {}
    <2>1. LocalOK(t)
        BY <1>1, Here
    <2>2. CASE At(t, "unpeek") /\ e = local[t].x
        BY <1>1, <2>2, LastPin DEF Holds, At, Kinds
    <2>3. CASE At(t, "fail") /\ e = local[t].el
        <3>1. Holds(t, "el", e) /\ "el" \in Kinds
            BY <2>3 DEF Holds, PinsEl, At, Kinds
        <3>2. ~Claims(t)
            BY <2>1, <2>3 DEF LocalOK, At, Claims, Removing, Inserting, PairPcs, InsPcs, OffPcs,
                              SearchPcs, Moving
        <3>3. QED
            BY <1>1, <3>1, <3>2, LastPin
    <2>4. CASE local[t].pc \in {"crossed", "unpin", "putback"} /\ e = local[t].pinned
        BY <1>1, <2>4, LastPin DEF Holds, Kinds
    <2>5. QED
        BY <1>1, <2>2, <2>3, <2>4
<1>2. ASSUME IInv, NEW t \in Threads, At(t, "settle")
      PROVE  ref[local[t].el].wait = {} /\ ref[local[t].el].mask
    <2>1. Removing(t) /\ Claims(t) /\ PinsEl(t)
        BY <1>2 DEF At, Removing, Claims, PinsEl
    <2>2. PICK e \in Elems : e = local[t].el
        BY <1>2, <2>1, ClaimElem
    <2>3. ref[e].mask
        BY <1>2, <2>1, <2>2, Here DEF ClaimOK
    <2>4. ref[e].pin # 0
        <3>1. Holds(t, "el", e) /\ "el" \in Kinds
            BY <2>1, <2>2 DEF Holds, Kinds
        <3>2. ref[e].pin > 0 /\ ref[e].pin \in Nat
            BY <1>2, <3>1, HeldIsPinned DEF IInv, TypeOK
        <3>3. QED
            BY <3>2
    <2>5. ASSUME NEW u \in Threads, u \in ref[e].wait PROVE FALSE
        <3>1. local[u].pc = "await" /\ local[u].el = e
            BY <1>2, <2>4, <2>5, Here DEF WaitOK
        <3>2. Claims(u)
            BY <3>1 DEF Claims, Removing
        <3>3. u = t
            BY <1>2, <2>1, <2>2, <3>1, <3>2 DEF IInv, ClaimInv
        <3>4. QED
            BY <1>2, <3>1, <3>3 DEF At
    <2>6. ref[e].wait \subseteq Threads
        BY <1>2 DEF IInv, TypeOK
    <2>7. QED
        BY <2>2, <2>3, <2>5, <2>6
<1>3. ASSUME IInv, NEW t \in Threads, At(t, "expose")
      PROVE  /\ ref[local[t].el].mask /\ ref[local[t].el].wait = {}
             /\ Call(t).pin => ref[local[t].el].pin = 1
    <2>1. Inserting(t) /\ Claims(t)
        BY <1>3, Here DEF At, LocalOK, Inserting, Claims, InsPcs
    <2>2. PICK e \in Elems : e = local[t].el
        BY <1>3, <2>1, ClaimElem
    <2>3. ref[e].mask /\ ref[e].wait = {}
        BY <1>3, <2>1, <2>2, Here DEF ClaimOK, WaitOK
    <2>4. ASSUME Call(t).pin PROVE ref[e].pin = 1
        <3>1. Holds(t, "el", e)
            BY <1>3, <2>1, <2>2, <2>4 DEF Holds, PinsEl, At, InsPcs, Inserting
        <3>2. \A u \in Threads, k \in Kinds : Holds(u, k, e) => u = t /\ k = "el"
            BY <1>3, <2>1, <2>2 DEF IInv, PinInv
        <3>3. Tokens(e) = {<<t, "el">>}
            BY <3>1, <3>2 DEF Tokens, Kinds
        <3>4. QED
            BY <1>3, <3>3, FS_Singleton DEF IInv, PinInv
    <2>5. QED
        BY <2>2, <2>3, <2>4
<1>4. ASSUME IInv, NEW t \in Threads, local[t].pc \in {"uncount", "uncountwait"}
      PROVE  count > 0
    <2>1. Claims(t)
        BY <1>4 DEF Claims, Removing
    <2>2. local[t].el \in Counted
        BY <1>4, <2>1, ClaimElem DEF Counted
    <2>3. Cardinality(Counted) # 0 /\ Cardinality(Counted) \in Nat
        BY <2>2, CountedFinite, FS_EmptySet, FS_CardinalityType
    <2>4. QED
        BY <1>4, <2>3 DEF IInv, CountInv
<1>5. ASSUME IInv, NEW t \in Threads
      PROVE  /\ local[t].pc \in {"look", "cross", "defer"} => ref[local[t].x].mask
             /\ At(t, "defer") => ref[local[t].x].pin = 0
             /\ At(t, "cleared") /\ Owns(t, local[t].el) => lock[local[t].el].queue = <<>>
    BY <1>5, Here DEF NearOK, EndOK, At
<1>6. ASSUME IInv, NEW t \in Threads, At(t, "unlink")
      PROVE  prev[local[t].el] = local[t].x /\ next[local[t].x] = local[t].el
    <2>1. local[t].n = local[t].el /\ prev[local[t].n] = local[t].x
        BY <1>6, Here DEF NearOK, At
    <2>2. Removing(t) /\ Claims(t) /\ local[t].pc \notin OffPcs
        BY <1>6 DEF At, Removing, Claims, OffPcs
    <2>3. local[t].el \in Members
        BY <1>6, <2>2, ClaimElem, RemovedIsMember
    <2>4. QED
        BY <1>6, <2>1, <2>3 DEF IInv, LinkInv
<1>7. ASSUME IInv, NEW t \in Threads, local[t].pc \in {"unlink", "unlinked", "clear", "cleared"}
      PROVE  ref[local[t].el].mask /\ ref[local[t].el].pin = 0
    <2>1. LocalOK(t) /\ ClaimOK(t) /\ WaitOK(t)
        BY <1>7, Here
    <2>2. Removing(t) /\ Claims(t)
        BY <1>7 DEF Removing, Claims, OffPcs
    <2>3. ~PinsEl(t)
        BY <1>7, <2>1 DEF LocalOK, PinsEl, SearchPcs, PairPcs, InsPcs, Moving
    <2>4. QED
        BY <1>7, <2>1, <2>2, <2>3 DEF ClaimOK, WaitOK
<1>8. ASSUME IInv PROVE AssertionsHold
    <2> SUFFICES ASSUME NEW t \in Threads
                 PROVE  LET l == local[t]
                            unpins == CASE At(t, "unpeek") -> {l.x}
                                        [] At(t, "fail") -> {l.el}
                                        [] l.pc \in {"crossed", "unpin", "putback"} -> {l.pinned}
                                        [] OTHER -> {}
                        IN  \A e \in unpins \ {NULL} :
                               ref[e].mask /\ ref[e].pin = 1 => ref[e].wait # {}
        BY <1>2, <1>3, <1>4, <1>5, <1>6, <1>7, <1>8 DEF AssertionsHold
    <2> DEFINE l == local[t]
    <2>1. l.pinned \in Elems \cup {NULL} /\ l.el \in Elems \cup {NULL} /\ l.x \in Nodes \cup {NULL}
        BY <1>8, Here
    <2>2. At(t, "unpeek") => l.x \in Elems \cup {NULL}
        BY <1>8, <2>1, Here DEF LocalOK, At, Nodes
    <2>3. QED
        BY <1>1, <1>8, <2>1, <2>2 DEF At
<1>9. QED
    BY <1>8, Invariance, PTL
===============================================================================
