----------------------------- MODULE BitLockProofs -----------------------------
(***************************************************************************)
(* The bits of a word tell who waits for it, the assertions of the code    *)
(* hold and the words are monitors, for all sets of threads and words, and *)
(* however the words are spread over the wait lists.                       *)
(***************************************************************************)
EXTENDS BitLock, TLAPS, SequenceTheorems, NaturalsInduction, WellFoundedInduction

-------------------------------------------------------------------------------
(* The inductive invariant. *)

PcNames == {"run", "list", "listwait", "section", "listwake", "wake", "wait", "cvwait",
            "bits", "moved", "release"}
InnerOps == {"lock", "payload", "unlock", "cvwait", "signal", "broadcast", "rekey", "append"}
BitChanges == [lock : Locks, name : {"wait", "cv"}, value : BOOLEAN]
AnyPayload == UNION {Payloads[l] : l \in Locks}
WordType == [lock : BOOLEAN, wait : BOOLEAN, cv : BOOLEAN, pay : AnyPayload]
LocalType ==
    [pc : PcNames, then : PcNames, op : InnerOps \cup {NULL}, lock : Locks \cup {NULL},
     newlock : Locks \cup {NULL}, to_wake_up : Threads \cup {NULL},
     moving : Seq(Threads), bits : Seq(BitChanges)]

TypeOK ==
    /\ word \in [Locks -> WordType]
    /\ list \in [Lists -> Seq(Threads)]
    /\ mutexq \in [Lists -> Seq(Waiters)]
    /\ wait_src \in [Threads -> Locks \cup {NULL}]
    /\ tag \in [Threads -> {"wait", "cv"}]
    /\ signal_pending \in [Waiters -> BOOLEAN]
    /\ local \in [Threads -> LocalType]
    /\ awaits \in [Threads -> Locks \cup {NULL}]
    /\ expect \in [Threads -> {NULL} \cup (Locks \X BOOLEAN \X AnyPayload)]
    /\ held \in [Threads -> SUBSET Locks]
    /\ retired \in [Locks -> Threads \cup {NULL}]
    /\ owner \in [Locks -> Threads \cup {NULL}]

(* Where the thread is once it has woken the next owner of a list's lock. *)
Stage(t) == IF At(t, "listwake") THEN local[t].then ELSE local[t].pc

(* On the way to the lock of a list, or with it. *)
Contending(t) == local[t].pc \in {"list", "listwait", "section"}
InQueue(t) == local[t].pc \in {"listwait", "section"}

(* What the thread is about to do to word l, once it has the list. *)
Unlocks(t, l) == local[t].op = "unlock" /\ local[t].lock = l /\ Contending(t)
Leaves(t, l) == local[t].op = "cvwait" /\ local[t].lock = l /\ Contending(t)
Asks(t, l) == local[t].op = "payload" /\ local[t].lock = l /\ Contending(t)
Goes(t, l) == local[t].op \in {"lock", "payload"} /\ local[t].lock = l

(* The wait is over, but the thread does not know it yet. *)
Given(x) == wait_src[x] # NULL /\ owner[wait_src[x]] = x

(* Thread t is about to signal the one it has passed a word on to. *)
Waking(t) == Stage(t) = "wake"

(* Threads wait for word l, or for a condition. *)
Wants(x, l) == wait_src[x] = l /\ tag[x] = "wait" /\ owner[l] # x
Queued(l) == \E x \in Threads : Wants(x, l)
Slept(l) == \E x \in Threads : wait_src[x] = l /\ tag[x] = "cv"

Distinct(q) == \A i, j \in 1..Len(q) : q[i] = q[j] => i = j

(* The bit changes that a notification or a rekey has still to make. *)
Pending(t) == IF Stage(t) = "release" THEN {} ELSE ToSet(local[t].bits)

DifferentBits(q) ==
    \A i, j \in 1..Len(q) : q[i].lock = q[j].lock /\ q[i].name = q[j].name => i = j

Empty(t) == local[t].moving = <<>> /\ local[t].bits = <<>>

Resting(t) ==
    /\ Empty(t)
    /\ local[t].pc \in {"run", "wait"}
    /\ At(t, "wait") => awaits[t] # NULL
    /\ wait_src[t] = awaits[t]

Locking(t) ==
    /\ local[t].lock \in Locks /\ Empty(t)
    /\ Stage(t) \in {"list", "listwait", "section", "run"}
    /\ wait_src[t] = awaits[t]
    /\ Contending(t) => wait_src[t] = NULL /\ \A h \in held[t] : h < local[t].lock

Unlocking(t) ==
    LET l == local[t].lock IN
    /\ l \in Locks /\ Empty(t)
    /\ Stage(t) \in {"list", "listwait", "section", "wake"}
    /\ wait_src[t] = awaits[t]
    /\ Contending(t) =>
          owner[l] = t /\ l \notin held[t] /\ wait_src[t] # l /\ word[l].wait

CvWaiting(t) ==
    LET l == local[t].lock IN
    /\ l \in Locks /\ Empty(t)
    /\ Stage(t) \in {"list", "listwait", "section", "wake", "cvwait"}
    /\ awaits[t] = NULL
    /\ Contending(t) => wait_src[t] = NULL /\ held[t] = {l} /\ word[l].cv
    /\ ~Contending(t) => wait_src[t] # NULL /\ held[t] = {}

Notifying(t) ==
    LET l == local[t].lock IN
    /\ l \in held[t] /\ local[t].moving = <<>>
    /\ Stage(t) \in {"list", "listwait", "section", "bits"}
    /\ wait_src[t] = NULL /\ awaits[t] = NULL
    /\ Contending(t) => word[l].cv /\ local[t].bits = <<>>
    /\ ~Contending(t) => local[t].bits # <<>>
    /\ \A b \in ToSet(local[t].bits) : b.lock = l

(* The rekey has taken its waiters. *)
HasMoved(t) == local[t].op = "append" \/ Stage(t) \in {"moved", "release"}

Rekeying(t) ==
    LET l == local[t].lock IN
    /\ l \in held[t] /\ local[t].newlock \in held[t] /\ local[t].newlock # l
    /\ Stage(t) \in IF local[t].op = "rekey"
                    THEN {"list", "listwait", "section", "moved", "release"}
                    ELSE {"list", "listwait", "section", "bits", "release"}
    /\ retired[l] = t
    /\ wait_src[t] = NULL /\ awaits[t] = NULL
    /\ local[t].op = "rekey" /\ Stage(t) # "moved" => Empty(t)
    /\ local[t].op = "rekey" /\ Contending(t) => word[l].wait \/ word[l].cv
    /\ Stage(t) \in {"bits", "release"} => local[t].moving = <<>>
    /\ Stage(t) = "moved" => local[t].moving # <<>>
    /\ Stage(t) = "moved" \/ local[t].op = "append" => local[t].bits # <<>>
    /\ HasMoved(t) => \A x \in Threads : wait_src[x] # l
    /\ \A b \in ToSet(local[t].bits) : b.lock \in {l, local[t].newlock}

LocalOK(t) ==
    /\ local[t].op = NULL => Resting(t)
    /\ local[t].op \in {"lock", "payload"} => Locking(t)
    /\ local[t].op = "unlock" => Unlocking(t)
    /\ local[t].op = "cvwait" => CvWaiting(t)
    /\ local[t].op \in {"signal", "broadcast"} => Notifying(t)
    /\ local[t].op \in {"rekey", "append"} => Rekeying(t)
    /\ awaits[t] # NULL => tag[t] = "wait"
    /\ At(t, "run") => local[t] = Idle
    /\ At(t, "listwake") => local[t].then \in {"run", "wake", "cvwait", "bits", "moved"}
    /\ DifferentBits(local[t].bits) /\ Distinct(local[t].moving)

(* The lock of a list: a queue of the waiters of those who contend for it, *)
(* in which only the first may be in its section, and on its way there it  *)
(* is signalled once.                                                      *)
MutexInv ==
    /\ \A i \in Lists : Distinct(mutexq[i])
    /\ \A i \in Lists : \A w \in ToSet(mutexq[i]) :
          \E t \in Threads : InQueue(t) /\ WaitList(t) = i /\ CurrentWaiter(t) = w
    /\ \A t \in Threads : InQueue(t) => CurrentWaiter(t) \in ToSet(mutexq[WaitList(t)])
    /\ \A t \in Threads : At(t, "section") =>
          Head(mutexq[WaitList(t)]) = CurrentWaiter(t)
    /\ \A t \in Threads : At(t, "listwake") =>
          /\ mutexq[WaitList(t)] # <<>>
          /\ ~signal_pending[Head(mutexq[WaitList(t)])]
          /\ \A u \in Threads : At(u, "section") => WaitList(u) # WaitList(t)
          /\ \A u \in Threads : At(u, "listwake") /\ WaitList(u) = WaitList(t) => u = t

(* A word is with the thread it was given to: held, on the way to it, or   *)
(* on its way on.                                                          *)
OwnerInv ==
    /\ \A t \in Threads : \A l \in held[t] : owner[l] = t
    /\ \A l \in Locks : \A t \in Threads : owner[l] = t =>
          l \in held[t] \/ wait_src[t] = l \/ Unlocks(t, l)
    /\ \A l \in Locks : word[l].lock <=> owner[l] # NULL
    /\ \A l \in Locks : owner[l] = NULL => ~Queued(l)
    /\ \A t \in Threads : wait_src[t] \notin held[t]

(* Who has a source is on its list, or with a thread that moves it there,  *)
(* or was given the word.                                                  *)
QueueInv ==
    /\ \A i \in Lists : Distinct(list[i])
    /\ \A i \in Lists : \A x \in ToSet(list[i]) :
          wait_src[x] # NULL /\ Hash[wait_src[x]] = i /\ ~Given(x)
    /\ \A t \in Threads : \A x \in ToSet(local[t].moving) :
          /\ wait_src[x] = local[t].newlock /\ awaits[x] = NULL
          /\ \A i \in Lists : x \notin ToSet(list[i])
    /\ \A x \in Threads : wait_src[x] # NULL /\ ~Given(x) =>
          \/ x \in ToSet(list[Hash[wait_src[x]]])
          \/ \E t \in Threads : x \in ToSet(local[t].moving)

(* A signal is there for the wait its receiver is in. *)
WakeInv ==
    /\ \A x \in Threads : Given(x) => tag[x] = "wait"
    /\ \A t \in Threads : Waking(t) =>
          LET x == local[t].to_wake_up IN
          x \in Threads /\ Given(x) /\ ~signal_pending[x]
    /\ \A t, u \in Threads :
          Waking(t) /\ Waking(u) /\ local[t].to_wake_up = local[u].to_wake_up => t = u
    /\ \A t \in Threads : signal_pending[t] =>
          IF At(t, "listwait") /\ CurrentWaiter(t) = t
          THEN Head(mutexq[WaitList(t)]) = t
          ELSE Given(t)
    /\ \A t \in Threads : signal_pending[Temp(t)] =>
          /\ At(t, "listwait") /\ CurrentWaiter(t) = Temp(t)
          /\ Head(mutexq[WaitList(t)]) = Temp(t)

(* Either a bit is right or its right value is pending. *)
BitsInv ==
    /\ \A t \in Threads : \A b \in Pending(t) :
          /\ owner[b.lock] = t
          /\ b.value <=> IF b.name = "wait" THEN Queued(b.lock) ELSE Slept(b.lock)
          /\ b.name = "wait" /\ ~b.value => retired[b.lock] = t
    /\ \A l \in Locks :
          (\A t \in Threads : \A b \in Pending(t) : b.lock = l => b.name # "wait")
             => (word[l].wait <=> Queued(l))
    /\ \A l \in Locks :
          (\A t \in Threads : /\ \A b \in Pending(t) : b.lock = l => b.name # "cv"
                              /\ ~Leaves(t, l))
             => (word[l].cv <=> Slept(l))

(* Nobody goes for a word that was made unreachable, and who has locked it *)
(* for good finds no waiter that is not in a condition wait.               *)
RetireInv ==
    /\ \A l \in Locks : \A t, u \in Threads : retired[l] = t /\ Goes(u, l) => u = t
    /\ \A l \in Locks : \A t, x \in Threads :
          retired[l] = t /\ owner[l] = t /\ wait_src[x] = l /\ x # t => awaits[x] = NULL
    /\ \A l \in Locks : \A i, j \in 1..Len(list[Hash[l]]) :
          LET q == list[Hash[l]] IN
          i < j /\ retired[l] = q[i] /\ wait_src[q[i]] = l /\ wait_src[q[j]] = l
             => awaits[q[j]] = NULL

(* Who asked for a payload has the word with it, or is still to look.     *)
PayloadOK(t) ==
    expect[t] # NULL =>
        LET l == expect[t][1] IN
        \/ (l \in held[t] \/ awaits[t] = l) /\ word[l].pay = expect[t][3]
        \/ Asks(t, l)

PayloadInv == \A t \in Threads : PayloadOK(t)

Inv ==
    /\ TypeOK
    /\ \A t \in Threads : LocalOK(t)
    /\ MutexInv
    /\ OwnerInv
    /\ QueueInv
    /\ WakeInv
    /\ BitsInv
    /\ RetireInv
    /\ PayloadInv

-------------------------------------------------------------------------------
(* Selecting from a list. *)

(* The least element of a set of natural numbers. *)
LEMMA Least ==
    ASSUME NEW S, S \subseteq Nat, S # {}
    PROVE  \E x \in S : \A y \in S : x <= y
<1> DEFINE R == OpToRel(<, Nat)
<1>1. \A x, y \in Nat : <<y, x>> \in R <=> y < x
    BY DEF OpToRel
<1>2. IsWellFoundedOn(R, Nat)
    BY NatLessThanWellFounded, Zenon
<1> HIDE DEF R
<1>3. PICK x \in S : \A y \in S : ~(<<y, x>> \in R)
    BY <1>2, WFMin, Zenon
<1>4. \A y \in S : y \in Nat /\ x \in Nat /\ ~(y < x)
    BY <1>1, <1>3, Zenon
<1>5. \A y \in S : x <= y
    BY <1>4
<1>6. QED
    BY <1>5

(* One more of the list. *)
More(r, x, s) == IF x \in s THEN Append(r, x) ELSE r

(* The function by which Filter is defined, up to the n-th of the list. *)
Solves(g, n, q, s) ==
    g = [i \in 0..n |-> IF i = 0 THEN <<>> ELSE More(g[i - 1], q[i], s)]

LEMMA SolutionLonger ==
    ASSUME NEW q, NEW s, NEW n \in Nat, n # 0, NEW g, Solves(g, n - 1, q, s)
    PROVE  \E h : Solves(h, n, q, s)
<1> DEFINE h == [i \in 0..n |-> IF i = n THEN More(g[n - 1], q[n], s) ELSE g[i]]
<1>1. ASSUME NEW i \in 0..n
      PROVE  h[i] = IF i = 0 THEN <<>> ELSE More(h[i - 1], q[i], s)
    <2>1. CASE i = n
        BY <2>1
    <2>2. CASE i # n
        <3>1. i \in 0..(n - 1)
            BY <2>2
        <3>2. g[i] = IF i = 0 THEN <<>> ELSE More(g[i - 1], q[i], s)
            BY <3>1 DEF Solves
        <3>3. h[i] = g[i] /\ (i # 0 => h[i - 1] = g[i - 1])
            BY <2>2, <3>1
        <3>4. QED
            BY <3>2, <3>3
    <2>3. QED
        BY <2>1, <2>2
<1>2. h = [i \in 0..n |-> h[i]]
    OBVIOUS
<1> HIDE DEF h
<1>3. Solves(h, n, q, s)
    BY <1>1, <1>2 DEF Solves
<1>4. QED
    BY <1>3

LEMMA SolutionExists ==
    ASSUME NEW q, NEW s, NEW n \in Nat
    PROVE  \E g : Solves(g, n, q, s)
<1> DEFINE S == {m \in Nat : ~\E g : Solves(g, m, q, s)}
<1> SUFFICES ASSUME S # {} PROVE FALSE
    OBVIOUS
<1>1. PICK m \in S : \A k \in S : m <= k
    <2>1. S \subseteq Nat
        OBVIOUS
    <2> HIDE DEF S
    <2>2. QED
        BY <2>1, Least
<1>2. CASE m = 0
    <2>1. Solves([i \in 0..0 |-> <<>>], 0, q, s)
        BY DEF Solves
    <2>2. QED
        BY <1>2, <2>1
<1>3. CASE m # 0
    <2>1. m - 1 \in Nat /\ ~(m <= m - 1)
        BY <1>3
    <2>2. m - 1 \notin S
        BY <1>1, <2>1
    <2>3. PICK g : Solves(g, m - 1, q, s)
        BY <2>1, <2>2
    <2>4. QED
        BY <1>3, <2>3, SolutionLonger
<1>4. QED
    BY <1>2, <1>3

(* The sequence r has what the first n of q have in s, in the same order. *)
Selects(q, n, s, r) ==
    /\ r \in Seq(Threads)
    /\ \A x \in Threads : x \in ToSet(r) <=> x \in s /\ \E a \in 1..n : q[a] = x
    /\ \A i, j \in 1..Len(r) : i < j =>
          \E a, b \in 1..n : a < b /\ q[a] = r[i] /\ q[b] = r[j]

LEMMA SelectsMore ==
    ASSUME NEW q \in Seq(Threads), NEW s, NEW n \in 1..Len(q), NEW r,
           Selects(q, n - 1, s, r)
    PROVE  Selects(q, n, s, More(r, q[n], s))
<1> DEFINE x == q[n]
<1>1. x \in Threads /\ n - 1 \in Nat /\ 1..(n - 1) \subseteq 1..n /\ n \in 1..n
    OBVIOUS
<1>2. CASE x \notin s
    <2>1. More(r, x, s) = r
        BY <1>2 DEF More
    <2>2. ASSUME NEW y \in Threads
          PROVE  y \in ToSet(r) <=> y \in s /\ \E a \in 1..n : q[a] = y
        <3>1. y \in ToSet(r) <=> y \in s /\ \E a \in 1..(n - 1) : q[a] = y
            BY DEF Selects
        <3>2. ASSUME NEW a \in 1..n, q[a] = y, y \in s
              PROVE  a \in 1..(n - 1)
            BY <1>2, <3>2
        <3>3. QED
            BY <1>1, <3>1, <3>2
    <2>3. ASSUME NEW i \in 1..Len(r), NEW j \in 1..Len(r), i < j
          PROVE  \E a, b \in 1..n : a < b /\ q[a] = r[i] /\ q[b] = r[j]
        BY <1>1, <2>3 DEF Selects
    <2>4. QED
        BY <2>1, <2>2, <2>3 DEF Selects
<1>3. CASE x \in s
    <2> DEFINE p == Append(r, x)
    <2>1. More(r, x, s) = p /\ r \in Seq(Threads)
        BY <1>3 DEF More, Selects
    <2>2. /\ p \in Seq(Threads) /\ Len(r) \in Nat /\ Len(p) = Len(r) + 1
          /\ p[Len(r) + 1] = x
          /\ \A i \in 1..Len(r) : p[i] = r[i]
        BY <1>1, <2>1, AppendProperties
    <2>3. \A y : y \in ToSet(p) <=> y \in ToSet(r) \/ y = x
        <3>1. DOMAIN p = 1..(Len(r) + 1) /\ DOMAIN r = 1..Len(r)
            BY <2>1, <2>2
        <3> HIDE DEF p, x
        <3>2. \A i : i \in 1..(Len(r) + 1) <=> i \in 1..Len(r) \/ i = Len(r) + 1
            BY <2>2
        <3>3. QED
            BY <2>2, <3>1, <3>2 DEF ToSet
    <2> HIDE DEF p
    <2>4. ASSUME NEW y \in Threads
          PROVE  y \in ToSet(p) <=> y \in s /\ \E a \in 1..n : q[a] = y
        <3>1. y \in ToSet(r) <=> y \in s /\ \E a \in 1..(n - 1) : q[a] = y
            BY DEF Selects
        <3>2. \A a \in 1..n : a \in 1..(n - 1) \/ a = n
            OBVIOUS
        <3>3. QED
            BY <1>1, <1>3, <2>3, <3>1, <3>2
    <2>5. ASSUME NEW i \in 1..Len(p), NEW j \in 1..Len(p), i < j
          PROVE  \E a, b \in 1..n : a < b /\ q[a] = p[i] /\ q[b] = p[j]
        <3>1. i \in 1..Len(r) /\ p[i] = r[i]
            BY <2>2, <2>5
        <3>2. CASE j = Len(r) + 1
            <4>1. r[i] \in ToSet(r) /\ r[i] \in Threads
                BY <2>1, <3>1 DEF ToSet
            <4>2. PICK a \in 1..(n - 1) : q[a] = r[i]
                BY <4>1 DEF Selects
            <4>3. a \in 1..n /\ a < n /\ p[j] = x
                BY <1>1, <2>2, <3>2
            <4>4. QED
                BY <1>1, <3>1, <4>2, <4>3
        <3>3. CASE j # Len(r) + 1
            <4>1. j \in 1..Len(r) /\ p[j] = r[j]
                BY <2>2, <2>5, <3>3
            <4>2. QED
                BY <1>1, <2>5, <3>1, <4>1 DEF Selects
        <3>4. QED
            BY <3>2, <3>3
    <2>6. QED
        BY <2>1, <2>2, <2>4, <2>5 DEF Selects
<1>4. QED
    BY <1>2, <1>3

LEMMA FilterSelects ==
    ASSUME NEW q \in Seq(Threads), NEW s
    PROVE  Selects(q, Len(q), s, Filter(q, s))
<1> DEFINE n == Len(q)
           P == CHOOSE g : Solves(g, n, q, s)
<1>1. n \in Nat
    OBVIOUS
<1>2. Solves(P, n, q, s)
    BY <1>1, SolutionExists
<1>3. Filter(q, s) = P[n]
    BY DEF Filter, P, Solves, n, More
<1>4. \A i \in 0..n : P[i] = IF i = 0 THEN <<>> ELSE More(P[i - 1], q[i], s)
    <2> HIDE DEF P, n
    <2>1. QED
        BY <1>2 DEF Solves
<1> HIDE DEF P
<1>5. \A i \in 0..n : Selects(q, i, s, P[i])
    <2> DEFINE S == {i \in 0..n : ~Selects(q, i, s, P[i])}
    <2> SUFFICES ASSUME S # {} PROVE FALSE
        OBVIOUS
    <2>1. PICK i \in S : \A k \in S : i <= k
        <3>1. S \subseteq Nat
            BY <1>1
        <3> HIDE DEF S
        <3>2. QED
            BY <3>1, Least
    <2>2. CASE i = 0
        <3>1. Selects(q, 0, s, <<>>)
            BY DEF Selects, ToSet
        <3>2. QED
            BY <1>4, <2>2, <3>1
    <2>3. CASE i # 0
        <3>1. i \in 1..n /\ i - 1 \in 0..n /\ ~(i <= i - 1)
            BY <1>1, <2>3
        <3>2. Selects(q, i - 1, s, P[i - 1])
            BY <2>1, <3>1
        <3>3. P[i] = More(P[i - 1], q[i], s)
            BY <1>4, <2>3
        <3>4. Selects(q, i, s, P[i])
            BY <3>1, <3>2, <3>3, SelectsMore
        <3>5. QED
            BY <3>4
    <2>4. QED
        BY <2>2, <2>3
<1>6. QED
    BY <1>1, <1>3, <1>5

(* What the steps use of it: what is selected, each once, in order. *)
LEMMA FilterIs ==
    ASSUME NEW q \in Seq(Threads), Distinct(q), NEW s
    PROVE  /\ Filter(q, s) \in Seq(Threads)
           /\ ToSet(Filter(q, s)) = ToSet(q) \cap s
           /\ Distinct(Filter(q, s))
           /\ \A i, j \in 1..Len(Filter(q, s)) : i < j =>
                 \E a, b \in 1..Len(q) :
                    a < b /\ q[a] = Filter(q, s)[i] /\ q[b] = Filter(q, s)[j]
<1>1. PICK r : r = Filter(q, s)
    OBVIOUS
<1>2. Selects(q, Len(q), s, r)
    BY <1>1, FilterSelects
<1>3. \A x \in ToSet(r) : x \in Threads
    BY <1>2 DEF ToSet, Selects
<1>4. \A x \in ToSet(q) : x \in Threads /\ \E a \in 1..Len(q) : q[a] = x
    BY DEF ToSet
<1>5. \A a \in 1..Len(q) : q[a] \in ToSet(q)
    BY DEF ToSet
<1>6. ToSet(r) = ToSet(q) \cap s
    BY <1>2, <1>3, <1>4, <1>5 DEF Selects
<1>7. ASSUME NEW i \in 1..Len(r), NEW j \in 1..Len(r), i < j
      PROVE  r[i] # r[j]
    <2>1. PICK a \in 1..Len(q), b \in 1..Len(q) : a < b /\ q[a] = r[i] /\ q[b] = r[j]
        BY <1>2, <1>7 DEF Selects
    <2>2. QED
        BY <2>1 DEF Distinct
<1>8. Distinct(r)
    <2>1. \A i, j \in 1..Len(r) : i < j \/ j < i \/ i = j
        OBVIOUS
    <2>2. QED
        BY <1>7, <2>1 DEF Distinct
<1>9. QED
    BY <1>1, <1>2, <1>6, <1>8 DEF Selects

LEMMA AppendSet ==
    ASSUME NEW T, NEW q \in Seq(T), NEW x \in T
    PROVE  /\ ToSet(Append(q, x)) = ToSet(q) \cup {x}
           /\ Distinct(q) /\ x \notin ToSet(q) => Distinct(Append(q, x))
<1>1. PICK p : p = Append(q, x)
    OBVIOUS
<1>2. /\ p \in Seq(T) /\ Len(q) \in Nat /\ Len(p) = Len(q) + 1
      /\ p[Len(q) + 1] = x
      /\ \A i \in 1..Len(q) : p[i] = q[i]
    BY <1>1, AppendProperties
<1>3. DOMAIN p = 1..Len(p) /\ DOMAIN q = 1..Len(q)
    BY <1>2
<1>4. \A i : i \in 1..Len(p) <=> i \in 1..Len(q) \/ i = Len(q) + 1
    BY <1>2
<1>5. ToSet(p) = ToSet(q) \cup {x}
    BY <1>2, <1>3, <1>4 DEF ToSet
<1>6. ASSUME Distinct(q), x \notin ToSet(q)
      PROVE  Distinct(p)
    BY <1>2, <1>3, <1>4, <1>6 DEF Distinct, ToSet
<1>7. QED
    BY <1>1, <1>5, <1>6

LEMMA ConcatSet ==
    ASSUME NEW T, NEW q \in Seq(T), NEW r \in Seq(T)
    PROVE  /\ ToSet(q \o r) = ToSet(q) \cup ToSet(r)
           /\ Distinct(q) /\ Distinct(r) /\ ToSet(q) \cap ToSet(r) = {} => Distinct(q \o r)
<1>1. PICK p : p = q \o r
    OBVIOUS
<1>2. /\ p \in Seq(T) /\ Len(q) \in Nat /\ Len(r) \in Nat /\ Len(p) = Len(q) + Len(r)
      /\ \A i \in 1..Len(p) : p[i] = IF i <= Len(q) THEN q[i] ELSE r[i - Len(q)]
    BY <1>1, ConcatProperties
<1>3. DOMAIN p = 1..Len(p) /\ DOMAIN q = 1..Len(q) /\ DOMAIN r = 1..Len(r)
    BY <1>2
<1>4. \A i \in 1..Len(p) : \/ i \in 1..Len(q) /\ p[i] = q[i]
                           \/ i - Len(q) \in 1..Len(r) /\ p[i] = r[i - Len(q)] /\ i > Len(q)
    BY <1>2
<1>5. \A i \in 1..Len(q) : i \in 1..Len(p) /\ p[i] = q[i]
    BY <1>2
<1>6. \A i \in 1..Len(r) : i + Len(q) \in 1..Len(p) /\ p[i + Len(q)] = r[i]
    <2>1. ASSUME NEW i \in 1..Len(r)
          PROVE  /\ i + Len(q) \in 1..Len(p) /\ ~(i + Len(q) <= Len(q))
                 /\ i + Len(q) - Len(q) = i
        BY <1>2
    <2>2. QED
        BY <1>2, <2>1
<1>7. ToSet(p) = ToSet(q) \cup ToSet(r)
    <2>1. \A x \in ToSet(p) : x \in ToSet(q) \/ x \in ToSet(r)
        BY <1>3, <1>4 DEF ToSet
    <2>2. \A x \in ToSet(q) : x \in ToSet(p)
        BY <1>3, <1>5 DEF ToSet
    <2>3. \A x \in ToSet(r) : x \in ToSet(p)
        BY <1>3, <1>6 DEF ToSet
    <2>4. QED
        BY <2>1, <2>2, <2>3
<1>8. ASSUME Distinct(q), Distinct(r), ToSet(q) \cap ToSet(r) = {}
      PROVE  Distinct(p)
    <2>1. \A i \in 1..Len(q) : q[i] \in ToSet(q)
        BY <1>3 DEF ToSet
    <2>2. \A i \in 1..Len(r) : r[i] \in ToSet(r)
        BY <1>3 DEF ToSet
    <2>3. ASSUME NEW i \in 1..Len(p), NEW j \in 1..Len(p), p[i] = p[j]
          PROVE  i = j
        <3>1. CASE i \in 1..Len(q) /\ p[i] = q[i] /\ j \in 1..Len(q) /\ p[j] = q[j]
            BY <1>8, <2>3, <3>1 DEF Distinct
        <3>2. CASE /\ i - Len(q) \in 1..Len(r) /\ p[i] = r[i - Len(q)]
                   /\ j - Len(q) \in 1..Len(r) /\ p[j] = r[j - Len(q)]
            <4>1. i - Len(q) = j - Len(q)
                BY <1>8, <2>3, <3>2 DEF Distinct
            <4>2. QED
                BY <1>2, <4>1
        <3>3. QED
            BY <1>4, <1>8, <2>1, <2>2, <2>3, <3>1, <3>2
    <2>4. QED
        BY <2>3 DEF Distinct
<1>9. QED
    BY <1>1, <1>7, <1>8

LEMMA TailSet ==
    ASSUME NEW T, NEW q \in Seq(T), q # <<>>, Distinct(q)
    PROVE  /\ Head(q) \in ToSet(q) /\ Head(q) \in T /\ Tail(q) \in Seq(T)
           /\ ToSet(Tail(q)) = ToSet(q) \ {Head(q)}
           /\ Distinct(Tail(q))
           /\ Len(q) > 1 <=> Tail(q) # <<>>
<1>1. PICK p : p = Tail(q)
    OBVIOUS
<1>2. /\ p \in Seq(T) /\ Len(q) \in Nat \ {0} /\ Len(p) = Len(q) - 1
      /\ Head(q) = q[1] /\ q[1] \in T
      /\ \A i \in 1..Len(p) : p[i] = q[i + 1] /\ i + 1 \in 1..Len(q) /\ i + 1 # 1
    BY <1>1, HeadTailProperties
<1>3. DOMAIN p = 1..Len(p) /\ DOMAIN q = 1..Len(q) /\ 1 \in 1..Len(q)
    BY <1>2
<1>4. \A i \in 1..Len(q) : i = 1 \/ (i - 1 \in 1..Len(p) /\ p[i - 1] = q[i])
    <2>1. \A i \in 1..Len(q) : i = 1 \/ (i - 1 \in 1..Len(p) /\ (i - 1) + 1 = i)
        BY <1>2
    <2>2. QED
        BY <1>2, <2>1
<1>5. \A i \in 1..Len(p) : q[i + 1] # q[1]
    BY <1>2, <1>3 DEF Distinct
<1>6. ToSet(p) = ToSet(q) \ {q[1]}
    <2>1. \A x \in ToSet(p) : x \in ToSet(q) /\ x # q[1]
        BY <1>2, <1>3, <1>5 DEF ToSet
    <2>2. \A x \in ToSet(q) : x = q[1] \/ x \in ToSet(p)
        BY <1>3, <1>4 DEF ToSet
    <2>3. QED
        BY <2>1, <2>2
<1>7. Distinct(p)
    <2>1. ASSUME NEW i \in 1..Len(p), NEW j \in 1..Len(p), p[i] = p[j]
          PROVE  i = j
        <3>1. i + 1 = j + 1
            BY <1>2, <2>1 DEF Distinct
        <3>2. QED
            BY <3>1
    <2>2. QED
        BY <2>1 DEF Distinct
<1>8. Len(q) > 1 <=> p # <<>>
    BY <1>2
<1>9. Head(q) \in ToSet(q)
    BY <1>2, <1>3 DEF ToSet
<1>10. QED
    BY <1>1, <1>2, <1>6, <1>7, <1>8, <1>9

LEMMA EmptySet ==
    ASSUME NEW T, NEW q \in Seq(T)
    PROVE  /\ q = <<>> <=> ToSet(q) = {}
           /\ \A x \in ToSet(q) : x \in T
           /\ q # <<>> => Len(q) >= 1 /\ q[1] \in ToSet(q)
<1>1. Len(q) \in Nat /\ DOMAIN q = 1..Len(q) /\ (q = <<>> <=> Len(q) = 0)
    BY EmptySeq
<1>2. \A x : x \in ToSet(q) <=> \E i \in 1..Len(q) : q[i] = x
    BY <1>1 DEF ToSet
<1>3. q # <<>> => 1 \in 1..Len(q) /\ Len(q) >= 1
    BY <1>1
<1>4. \A i \in 1..Len(q) : q[i] \in T /\ Len(q) # 0
    BY <1>1
<1> HIDE DEF ToSet
<1>5. QED
    BY <1>1, <1>2, <1>3, <1>4

-------------------------------------------------------------------------------
(* The locks of the lists. *)

Others(t) == \A u \in Threads : u # t => local'[u] = local[u]

LEMMA WaiterFacts ==
    ASSUME TypeOK, NEW t \in Threads
    PROVE  /\ CurrentWaiter(t) \in Waiters
           /\ CurrentWaiter(t) \in Threads => CurrentWaiter(t) = t
           /\ \A u \in Threads : CurrentWaiter(u) = CurrentWaiter(t) => u = t
           /\ \A u \in Threads : CurrentWaiter(u) = t => u = t
           /\ \A u \in Threads : CurrentWaiter(u) = Temp(t) => u = t
BY NullAssumption DEF CurrentWaiter, Waiters, Temp

LEMMA InCall ==
    ASSUME TypeOK, NEW t \in Threads, LocalOK(t), local[t].pc \notin {"run", "wait"}
    PROVE  local[t].op \in InnerOps /\ local[t].lock \in Locks /\ WaitList(t) \in Lists
<1>1. local[t] \in LocalType /\ held[t] \subseteq Locks
    BY DEF TypeOK
<1>2. local[t].op \in InnerOps
    BY <1>1 DEF LocalType, LocalOK, Resting
<1>3. local[t].lock \in Locks
    BY <1>1, <1>2 DEF InnerOps, LocalOK, Locking, Unlocking, CvWaiting, Notifying, Rekeying
<1>4. local[t].op = "append" => local[t].newlock \in Locks
    BY <1>1 DEF LocalOK, Rekeying
<1>5. QED
    BY <1>2, <1>3, <1>4 DEF WaitList, Lists

(* A thread that contends with its own waiter does not wait for anything. *)
LEMMA ContendingWaiter ==
    ASSUME TypeOK, NEW t \in Threads, LocalOK(t), Contending(t), CurrentWaiter(t) = t
    PROVE  wait_src[t] = NULL
<1>1. local[t].op \in InnerOps
    BY InCall DEF Contending
<1>2. local[t].op # "unlock" \/ wait_src[t] = NULL
    BY NullAssumption DEF CurrentWaiter
<1>3. QED
    BY <1>1, <1>2 DEF InnerOps, LocalOK, Locking, CvWaiting, Notifying, Rekeying

LEMMA OwnWaiter ==
    ASSUME TypeOK, NEW t \in Threads, LocalOK(t), InQueue(t), CurrentWaiter(t) = t
    PROVE  wait_src[t] = NULL
BY ContendingWaiter DEF InQueue, Contending

(* A step of a thread that does not touch the lock of a list. *)
LEMMA MutexQuiet ==
    ASSUME TypeOK, MutexInv, \A u \in Threads : LocalOK(u), NEW t \in Threads,
           Others(t), mutexq' = mutexq,
           local[t].pc \notin {"listwait", "section", "listwake"},
           local'[t].pc \notin {"listwait", "section", "listwake"},
           \A u \in Threads : u # t => (wait_src'[u] = NULL <=> wait_src[u] = NULL),
           \A w \in Waiters : signal_pending'[w] =>
              signal_pending[w] \/ (w \in Threads /\ wait_src[w] # NULL)
    PROVE  MutexInv'
<1>1. ASSUME NEW u \in Threads
      PROVE  /\ InQueue(u)' <=> InQueue(u)
             /\ At(u, "section")' <=> At(u, "section")
             /\ At(u, "listwake")' <=> At(u, "listwake")
             /\ InQueue(u) \/ At(u, "listwake") =>
                   WaitList(u)' = WaitList(u) /\ CurrentWaiter(u)' = CurrentWaiter(u)
    BY <1>1 DEF Others, InQueue, At, WaitList, CurrentWaiter
<1>2. ASSUME NEW u \in Threads, At(u, "listwake"),
             signal_pending'[Head(mutexq[WaitList(u)])]
      PROVE  FALSE
    <2> DEFINE i == WaitList(u)
               w == Head(mutexq[i])
    <2>1. i \in Lists
        BY <1>2, InCall DEF At
    <2>2. mutexq[i] \in Seq(Waiters) /\ mutexq[i] # <<>> /\ Distinct(mutexq[i])
        BY <1>2, <2>1 DEF TypeOK, MutexInv
    <2>3. w \in ToSet(mutexq[i]) /\ w \in Waiters
        BY <2>2, TailSet
    <2>4. PICK v \in Threads : InQueue(v) /\ WaitList(v) = i /\ CurrentWaiter(v) = w
        BY <2>1, <2>3 DEF MutexInv
    <2>5. ~signal_pending[w]
        BY <1>2 DEF MutexInv
    <2>6. w \in Threads /\ wait_src[w] # NULL
        BY <1>2, <2>3, <2>5
    <2>7. w = v
        BY <2>4, <2>6, WaiterFacts
    <2>8. QED
        BY <2>4, <2>6, <2>7, OwnWaiter
<1>3. \A i \in Lists : Distinct(mutexq'[i])
    BY DEF MutexInv
<1>4. ASSUME NEW i \in Lists, NEW w \in ToSet(mutexq'[i])
      PROVE  \E u \in Threads : (InQueue(u) /\ WaitList(u) = i /\ CurrentWaiter(u) = w)'
    <2>1. PICK u \in Threads : InQueue(u) /\ WaitList(u) = i /\ CurrentWaiter(u) = w
        BY <1>4 DEF MutexInv
    <2>2. QED
        BY <1>1, <2>1
<1>5. \A u \in Threads : InQueue(u)' =>
         CurrentWaiter(u)' \in ToSet(mutexq'[WaitList(u)'])
    BY <1>1 DEF MutexInv
<1>6. \A u \in Threads : At(u, "section")' =>
         Head(mutexq'[WaitList(u)']) = CurrentWaiter(u)'
    BY <1>1 DEF MutexInv, At, InQueue
<1>7. ASSUME NEW u \in Threads, At(u, "listwake")'
      PROVE  /\ mutexq'[WaitList(u)'] # <<>>
             /\ ~signal_pending'[Head(mutexq'[WaitList(u)'])]
             /\ \A v \in Threads : At(v, "section")' => WaitList(v)' # WaitList(u)'
             /\ \A v \in Threads : At(v, "listwake")' /\ WaitList(v)' = WaitList(u)' => v = u
    <2>1. At(u, "listwake") /\ WaitList(u)' = WaitList(u)
        BY <1>1, <1>7
    <2>2. \A v \in Threads : At(v, "section")' => At(v, "section") /\ WaitList(v)' = WaitList(v)
        BY <1>1 DEF At, InQueue
    <2>3. \A v \in Threads : At(v, "listwake")' => At(v, "listwake") /\ WaitList(v)' = WaitList(v)
        BY <1>1
    <2>4. QED
        BY <1>2, <2>1, <2>2, <2>3 DEF MutexInv
<1>8. QED
    BY <1>3, <1>4, <1>5, <1>6, <1>7 DEF MutexInv

LEMMA HeadOfAppend ==
    ASSUME NEW T, NEW q \in Seq(T), NEW x \in T
    PROVE  /\ Append(q, x) \in Seq(T) /\ Append(q, x) # <<>>
           /\ Head(Append(q, x)) = IF q = <<>> THEN x ELSE Head(q)
BY AppendProperties

LEMMA MutexLockList ==
    ASSUME TypeOK, MutexInv, \A u \in Threads : LocalOK(u), NEW t \in Threads, LockList(t)
    PROVE  MutexInv'
<1> DEFINE i == WaitList(t)
           w == CurrentWaiter(t)
           q == mutexq[i]
<1>1. /\ i \in Lists /\ w \in Waiters /\ q \in Seq(Waiters)
    BY InCall, WaiterFacts DEF LockList, At, TypeOK
<1>2. /\ Others(t) /\ signal_pending' = signal_pending /\ wait_src' = wait_src
      /\ At(t, "list")
      /\ local'[t].pc = IF q = <<>> THEN "section" ELSE "listwait"
      /\ local'[t].op = local[t].op /\ local'[t].lock = local[t].lock
      /\ local'[t].newlock = local[t].newlock
    BY DEF TypeOK, LocalType, LockList, Goto, Others, waiter
<1>3. /\ mutexq'[i] = Append(q, w)
      /\ \A j \in Lists : j # i => mutexq'[j] = mutexq[j]
    BY <1>1 DEF TypeOK, LockList
<1>4. WaitList(t)' = i /\ CurrentWaiter(t)' = w
    BY <1>2 DEF WaitList, CurrentWaiter
<1>5. ASSUME NEW u \in Threads, u # t
      PROVE  /\ InQueue(u)' <=> InQueue(u)
             /\ At(u, "section")' <=> At(u, "section")
             /\ At(u, "listwake")' <=> At(u, "listwake")
             /\ WaitList(u)' = WaitList(u) /\ CurrentWaiter(u)' = CurrentWaiter(u)
    BY <1>2, <1>5 DEF Others, InQueue, At, WaitList, CurrentWaiter
<1>6. w \notin ToSet(q)
    <2> SUFFICES ASSUME w \in ToSet(q) PROVE FALSE
        OBVIOUS
    <2>1. PICK v \in Threads : InQueue(v) /\ CurrentWaiter(v) = w
        BY <1>1 DEF MutexInv
    <2>2. v = t
        BY <2>1, WaiterFacts
    <2>3. QED
        BY <1>2, <2>1, <2>2 DEF InQueue, At
<1>7. /\ ToSet(mutexq'[i]) = ToSet(q) \cup {w} /\ Distinct(mutexq'[i])
      /\ mutexq'[i] # <<>> /\ Head(mutexq'[i]) = IF q = <<>> THEN w ELSE Head(q)
    BY <1>1, <1>3, <1>6, AppendSet, HeadOfAppend DEF MutexInv
<1> HIDE DEF i, w, q
<1>8. ASSUME NEW u \in Threads, u # t, At(u, "section") \/ At(u, "listwake") \/ InQueue(u)
      PROVE  WaitList(u) \in Lists
    BY <1>8, InCall DEF At, InQueue
<1>9. ASSUME NEW u \in Threads, u # t, At(u, "section") \/ At(u, "listwake")
      PROVE  /\ mutexq[WaitList(u)] # <<>> /\ mutexq'[WaitList(u)] # <<>>
             /\ Head(mutexq'[WaitList(u)]) = Head(mutexq[WaitList(u)])
    <2>1. mutexq[WaitList(u)] # <<>>
        <3>1. CASE At(u, "listwake")
            BY <3>1 DEF MutexInv
        <3>2. CASE At(u, "section")
            <4>1. CurrentWaiter(u) \in ToSet(mutexq[WaitList(u)])
                BY <3>2 DEF MutexInv, At, InQueue
            <4>2. QED
                BY <4>1 DEF ToSet
        <3>3. QED
            BY <1>9, <3>1, <3>2
    <2>2. QED
        BY <1>3, <1>7, <1>8, <1>9, <2>1 DEF q
<1>10. \A j \in Lists : Distinct(mutexq'[j])
    BY <1>3, <1>7 DEF MutexInv
<1>11. ASSUME NEW j \in Lists, NEW x \in ToSet(mutexq'[j])
       PROVE  \E u \in Threads : (InQueue(u) /\ WaitList(u) = j /\ CurrentWaiter(u) = x)'
    <2>1. CASE x = w /\ j = i
        BY <1>2, <1>4, <2>1 DEF InQueue
    <2>2. CASE x # w \/ j # i
        <3>1. x \in ToSet(mutexq[j])
            BY <1>3, <1>7, <1>11, <2>2 DEF q
        <3>2. PICK u \in Threads : InQueue(u) /\ WaitList(u) = j /\ CurrentWaiter(u) = x
            BY <3>1 DEF MutexInv
        <3>3. u # t
            BY <1>2, <3>2 DEF At, InQueue
        <3>4. QED
            BY <1>5, <3>2, <3>3
    <2>3. QED
        BY <2>1, <2>2
<1>12. ASSUME NEW u \in Threads, InQueue(u)'
       PROVE  CurrentWaiter(u)' \in ToSet(mutexq'[WaitList(u)'])
    <2>1. CASE u = t
        BY <1>4, <1>7, <2>1
    <2>2. CASE u # t
        <3>1. CurrentWaiter(u) \in ToSet(mutexq[WaitList(u)])
            BY <1>5, <1>12, <2>2 DEF MutexInv
        <3>2. QED
            BY <1>3, <1>5, <1>7, <1>8, <1>12, <2>2, <3>1 DEF q
    <2>3. QED
        BY <2>1, <2>2
<1>13. ASSUME NEW u \in Threads, At(u, "section")'
       PROVE  Head(mutexq'[WaitList(u)']) = CurrentWaiter(u)'
    <2>1. CASE u = t
        <3>1. q = <<>>
            BY <1>2, <1>13, <2>1 DEF At
        <3>2. QED
            BY <1>4, <1>7, <2>1, <3>1
    <2>2. CASE u # t
        BY <1>5, <1>9, <1>13, <2>2 DEF MutexInv
    <2>3. QED
        BY <2>1, <2>2
<1>14. ASSUME NEW u \in Threads, At(u, "listwake")'
       PROVE  /\ mutexq'[WaitList(u)'] # <<>>
              /\ ~signal_pending'[Head(mutexq'[WaitList(u)'])]
              /\ \A v \in Threads : At(v, "section")' => WaitList(v)' # WaitList(u)'
              /\ \A v \in Threads : At(v, "listwake")' /\ WaitList(v)' = WaitList(u)' => v = u
    <2>1. u # t
        BY <1>2, <1>14 DEF At
    <2>2. At(u, "listwake") /\ WaitList(u)' = WaitList(u)
        BY <1>5, <1>14, <2>1
    <2>3. At(t, "section")' => i # WaitList(u)
        BY <1>2, <2>1, <2>2, <1>9 DEF At, q
    <2>4. ~At(t, "listwake")'
        BY <1>2 DEF At
    <2>5. QED
        BY <1>2, <1>4, <1>5, <1>9, <2>1, <2>2, <2>3, <2>4 DEF MutexInv
<1>15. QED
    BY <1>10, <1>11, <1>12, <1>13, <1>14 DEF MutexInv

(* The next one in the queue, who is to be signalled. *)
LEMMA MutexLockListWait ==
    ASSUME TypeOK, MutexInv, WakeInv, \A u \in Threads : LocalOK(u),
           NEW t \in Threads, LockListWait(t)
    PROVE  MutexInv'
<1> DEFINE i == WaitList(t)
           w == CurrentWaiter(t)
<1>1. /\ i \in Lists /\ w \in Waiters
    BY InCall, WaiterFacts DEF LockListWait, At, TypeOK
<1>2. /\ Others(t) /\ mutexq' = mutexq /\ wait_src' = wait_src
      /\ At(t, "listwait") /\ signal_pending[w]
      /\ local'[t].pc = "section"
      /\ local'[t].op = local[t].op /\ local'[t].lock = local[t].lock
      /\ local'[t].newlock = local[t].newlock
      /\ \A x \in Waiters : signal_pending'[x] => signal_pending[x]
    BY DEF TypeOK, LocalType, LockListWait, Goto, Others, waiter
<1>3. WaitList(t)' = i /\ CurrentWaiter(t)' = w
    BY <1>2 DEF WaitList, CurrentWaiter
<1>4. Head(mutexq[i]) = w
    BY <1>2 DEF WakeInv, CurrentWaiter
<1>5. ASSUME NEW u \in Threads
      PROVE  /\ InQueue(u)' <=> InQueue(u)
             /\ At(u, "section")' <=> At(u, "section") \/ u = t
             /\ At(u, "listwake")' <=> At(u, "listwake")
             /\ WaitList(u)' = WaitList(u) /\ CurrentWaiter(u)' = CurrentWaiter(u)
    BY <1>2, <1>3 DEF Others, InQueue, At, WaitList, CurrentWaiter
<1> HIDE DEF i, w
<1>6. \A j \in Lists : Distinct(mutexq'[j])
    BY <1>2 DEF MutexInv
<1>7. ASSUME NEW j \in Lists, NEW x \in ToSet(mutexq'[j])
      PROVE  \E u \in Threads : (InQueue(u) /\ WaitList(u) = j /\ CurrentWaiter(u) = x)'
    <2>1. PICK u \in Threads : InQueue(u) /\ WaitList(u) = j /\ CurrentWaiter(u) = x
        BY <1>2, <1>7 DEF MutexInv
    <2>2. QED
        BY <1>5, <2>1
<1>8. \A u \in Threads : InQueue(u)' => CurrentWaiter(u)' \in ToSet(mutexq'[WaitList(u)'])
    BY <1>2, <1>5 DEF MutexInv
<1>9. \A u \in Threads : At(u, "section")' => Head(mutexq'[WaitList(u)']) = CurrentWaiter(u)'
    BY <1>2, <1>3, <1>4, <1>5 DEF MutexInv
<1>10. ASSUME NEW u \in Threads, At(u, "listwake")'
       PROVE  /\ mutexq'[WaitList(u)'] # <<>>
              /\ ~signal_pending'[Head(mutexq'[WaitList(u)'])]
              /\ \A v \in Threads : At(v, "section")' => WaitList(v)' # WaitList(u)'
              /\ \A v \in Threads : At(v, "listwake")' /\ WaitList(v)' = WaitList(u)' => v = u
    <2>1. At(u, "listwake") /\ WaitList(u)' = WaitList(u) /\ WaitList(u) \in Lists
        BY <1>5, <1>10, InCall DEF At
    <2>2. ~signal_pending[Head(mutexq[WaitList(u)])] /\ mutexq[WaitList(u)] # <<>>
        BY <2>1 DEF MutexInv
    <2>3. Head(mutexq[WaitList(u)]) \in Waiters
        <3>1. mutexq[WaitList(u)] \in Seq(Waiters) /\ Distinct(mutexq[WaitList(u)])
            BY <2>1 DEF TypeOK, MutexInv
        <3>2. QED
            BY <2>2, <3>1, TailSet
    <2>4. WaitList(u) # i
        BY <1>2, <1>4, <2>2
    <2>5. QED
        BY <1>2, <1>3, <1>5, <2>1, <2>2, <2>3, <2>4 DEF MutexInv
<1>11. QED
    BY <1>6, <1>7, <1>8, <1>9, <1>10 DEF MutexInv

(* The first in the queue of a list is a thread that contends for it. *)
LEMMA HeadOf ==
    ASSUME TypeOK, MutexInv, NEW i \in Lists, mutexq[i] # <<>>
    PROVE  /\ Head(mutexq[i]) \in Waiters /\ Head(mutexq[i]) \in ToSet(mutexq[i])
           /\ \E v \in Threads :
                 InQueue(v) /\ WaitList(v) = i /\ CurrentWaiter(v) = Head(mutexq[i])
<1>1. mutexq[i] \in Seq(Waiters) /\ Distinct(mutexq[i])
    BY DEF TypeOK, MutexInv
<1>2. Head(mutexq[i]) \in Waiters /\ Head(mutexq[i]) \in ToSet(mutexq[i])
    BY <1>1, TailSet
<1>3. QED
    BY <1>2 DEF MutexInv

LEMMA MutexUnlockListWake ==
    ASSUME TypeOK, MutexInv, \A u \in Threads : LocalOK(u),
           NEW t \in Threads, UnlockListWake(t)
    PROVE  MutexInv'
<1> DEFINE i == WaitList(t)
           w == Head(mutexq[i])
<1>1. At(t, "listwake") /\ i \in Lists /\ mutexq[i] # <<>>
    BY InCall DEF UnlockListWake, At, MutexInv
<1>2. w \in Waiters
    BY <1>1, HeadOf
<1>3. PICK v \in Threads : InQueue(v) /\ WaitList(v) = i /\ CurrentWaiter(v) = w
    BY <1>1, HeadOf
<1>4. /\ Others(t) /\ mutexq' = mutexq /\ wait_src' = wait_src
      /\ local'[t].pc \notin {"listwait", "section", "listwake"}
      /\ \A x \in Waiters : signal_pending'[x] => signal_pending[x] \/ x = w
    <2>1. local[t].then \in {"run", "wake", "cvwait", "bits", "moved"}
        BY <1>1 DEF LocalOK
    <2>2. QED
        BY <1>1, <1>2, <2>1
           DEF TypeOK, LocalType, UnlockListWake, Goto, Return, Idle, Others, waiter
<1> HIDE DEF i, w
<1>5. ASSUME NEW u \in Threads
      PROVE  /\ InQueue(u)' <=> InQueue(u)
             /\ At(u, "section")' <=> At(u, "section")
             /\ At(u, "listwake")' <=> At(u, "listwake") /\ u # t
             /\ u # t => WaitList(u)' = WaitList(u) /\ CurrentWaiter(u)' = CurrentWaiter(u)
    BY <1>1, <1>4 DEF Others, InQueue, At, WaitList, CurrentWaiter
<1>6. \A j \in Lists : Distinct(mutexq'[j])
    BY <1>4 DEF MutexInv
<1>7. ASSUME NEW j \in Lists, NEW x \in ToSet(mutexq'[j])
      PROVE  \E u \in Threads : (InQueue(u) /\ WaitList(u) = j /\ CurrentWaiter(u) = x)'
    <2>1. PICK u \in Threads : InQueue(u) /\ WaitList(u) = j /\ CurrentWaiter(u) = x
        BY <1>4, <1>7 DEF MutexInv
    <2>2. u # t
        BY <1>1, <2>1 DEF InQueue, At
    <2>3. QED
        BY <1>5, <2>1, <2>2
<1>8. \A u \in Threads : InQueue(u)' => u # t /\ InQueue(u)
    BY <1>1, <1>5 DEF InQueue, At
<1>9. \A u \in Threads : InQueue(u)' => CurrentWaiter(u)' \in ToSet(mutexq'[WaitList(u)'])
    BY <1>4, <1>5, <1>8 DEF MutexInv
<1>10. \A u \in Threads : At(u, "section")' => u # t /\ At(u, "section")
    BY <1>1, <1>5 DEF At
<1>11. \A u \in Threads : At(u, "section")' => Head(mutexq'[WaitList(u)']) = CurrentWaiter(u)'
    BY <1>4, <1>5, <1>10 DEF MutexInv
<1>12. ASSUME NEW u \in Threads, At(u, "listwake")'
       PROVE  /\ mutexq'[WaitList(u)'] # <<>>
              /\ ~signal_pending'[Head(mutexq'[WaitList(u)'])]
              /\ \A y \in Threads : At(y, "section")' => WaitList(y)' # WaitList(u)'
              /\ \A y \in Threads : At(y, "listwake")' /\ WaitList(y)' = WaitList(u)' => y = u
    <2>1. u # t /\ At(u, "listwake") /\ WaitList(u)' = WaitList(u) /\ WaitList(u) \in Lists
        BY <1>5, <1>12, InCall DEF At
    <2>2. ~signal_pending[Head(mutexq[WaitList(u)])] /\ mutexq[WaitList(u)] # <<>>
        BY <2>1 DEF MutexInv
    <2>3. Head(mutexq[WaitList(u)]) \in Waiters
        BY <2>1, <2>2, HeadOf
    <2>4. WaitList(u) # i
        BY <1>1, <2>1 DEF MutexInv, i
    <2>5. PICK y \in Threads : /\ InQueue(y) /\ WaitList(y) = WaitList(u)
                               /\ CurrentWaiter(y) = Head(mutexq[WaitList(u)])
        BY <2>1, <2>2, HeadOf
    <2>6. Head(mutexq[WaitList(u)]) # w
        BY <1>3, <2>4, <2>5, WaiterFacts
    <2>7. QED
        BY <1>4, <1>5, <1>10, <2>1, <2>2, <2>3, <2>6 DEF MutexInv
<1>13. QED
    BY <1>6, <1>7, <1>9, <1>11, <1>12 DEF MutexInv

(* The end of a section. *)
LEMMA MutexUnlock ==
    ASSUME TypeOK, MutexInv, WakeInv, \A u \in Threads : LocalOK(u),
           NEW t \in Threads, At(t, "section"), NEW i, i = WaitList(t),
           mutexq' = [mutexq EXCEPT ![i] = Tail(@)],
           Others(t), signal_pending' = signal_pending,
           IF Len(mutexq[i]) > 1 THEN At(t, "listwake")' /\ WaitList(t)' = i
           ELSE local'[t].pc \notin {"listwait", "section", "listwake"},
           \A u \in Threads : u # t => (wait_src'[u] = NULL <=> wait_src[u] = NULL)
    PROVE  MutexInv'
<1> DEFINE q == mutexq[i]
           w == CurrentWaiter(t)
<1>1. /\ i \in Lists /\ q \in Seq(Waiters) /\ Distinct(q)
      /\ Head(q) = w /\ w \in ToSet(q)
    BY InCall DEF At, TypeOK, MutexInv, InQueue
<1>2. q # <<>>
    BY <1>1, EmptySet
<1>3. /\ mutexq'[i] = Tail(q) /\ \A j \in Lists : j # i => mutexq'[j] = mutexq[j]
      /\ mutexq'[i] \in Seq(Waiters) /\ Distinct(mutexq'[i])
      /\ ToSet(mutexq'[i]) = ToSet(q) \ {w}
      /\ Len(q) > 1 <=> mutexq'[i] # <<>>
    <2>1. mutexq'[i] = Tail(q) /\ \A j \in Lists : j # i => mutexq'[j] = mutexq[j]
        BY <1>1 DEF TypeOK
    <2>2. QED
        BY <1>1, <1>2, <2>1, TailSet
<1> HIDE DEF q, w
<1>4. \A u \in Threads : At(u, "listwake") => WaitList(u) # i
    BY DEF MutexInv
<1>5. \A u \in Threads : u # t /\ At(u, "section") => WaitList(u) # i
    <2>1. \A u \in Threads : u # t => CurrentWaiter(u) # w
        BY WaiterFacts DEF w
    <2>2. QED
        BY <1>1, <2>1 DEF MutexInv, q
<1>6. ASSUME NEW u \in Threads, u # t
      PROVE  /\ InQueue(u)' <=> InQueue(u)
             /\ At(u, "section")' <=> At(u, "section")
             /\ At(u, "listwake")' <=> At(u, "listwake")
             /\ WaitList(u)' = WaitList(u) /\ CurrentWaiter(u)' = CurrentWaiter(u)
    BY <1>6 DEF Others, InQueue, At, WaitList, CurrentWaiter
<1>7. ~InQueue(t)' /\ ~At(t, "section")'
    BY DEF InQueue, At
<1>8. At(t, "listwake")' <=> Len(q) > 1
    BY DEF At, q
<1>9. \A j \in Lists : Distinct(mutexq'[j])
    BY <1>3 DEF MutexInv
<1>10. ASSUME NEW j \in Lists, NEW x \in ToSet(mutexq'[j])
       PROVE  \E u \in Threads : (InQueue(u) /\ WaitList(u) = j /\ CurrentWaiter(u) = x)'
    <2>1. x \in ToSet(mutexq[j]) /\ (j = i => x # w)
        BY <1>3, <1>10 DEF q
    <2>2. PICK u \in Threads : InQueue(u) /\ WaitList(u) = j /\ CurrentWaiter(u) = x
        BY <2>1 DEF MutexInv
    <2>3. u # t
        BY <2>1, <2>2 DEF w
    <2>4. QED
        BY <1>6, <2>2, <2>3
<1>11. ASSUME NEW u \in Threads, InQueue(u)'
       PROVE  CurrentWaiter(u)' \in ToSet(mutexq'[WaitList(u)'])
    <2>1. u # t /\ InQueue(u) /\ WaitList(u)' = WaitList(u) /\ CurrentWaiter(u)' = CurrentWaiter(u)
        BY <1>6, <1>7, <1>11
    <2>2. CurrentWaiter(u) # w /\ WaitList(u) \in Lists
        BY <2>1, WaiterFacts, InCall DEF w, InQueue
    <2>3. CurrentWaiter(u) \in ToSet(mutexq[WaitList(u)])
        BY <2>1 DEF MutexInv
    <2>4. QED
        BY <1>3, <2>1, <2>2, <2>3 DEF q
<1>12. ASSUME NEW u \in Threads, At(u, "section")'
       PROVE  Head(mutexq'[WaitList(u)']) = CurrentWaiter(u)'
    <2>1. u # t /\ At(u, "section") /\ WaitList(u)' = WaitList(u)
             /\ CurrentWaiter(u)' = CurrentWaiter(u)
        BY <1>6, <1>7, <1>12
    <2>2. WaitList(u) \in Lists /\ WaitList(u) # i
        BY <1>5, <2>1, InCall DEF At
    <2>3. QED
        BY <1>3, <2>1, <2>2 DEF MutexInv
<1>13. ASSUME Len(q) > 1, signal_pending[Head(mutexq'[i])]
       PROVE  FALSE
    <2>1. mutexq'[i] # <<>>
        BY <1>3, <1>13
    <2>2. PICK h : h = Head(mutexq'[i])
        OBVIOUS
    <2>3. h \in ToSet(q) /\ h # w /\ h \in Waiters
        BY <1>3, <2>1, <2>2, TailSet
    <2>4. PICK v \in Threads : InQueue(v) /\ WaitList(v) = i /\ CurrentWaiter(v) = h
        BY <1>1, <2>3 DEF MutexInv, q
    <2>5. v # t
        BY <2>3, <2>4 DEF w
    <2>6. At(v, "listwait")
        BY <1>5, <2>4, <2>5 DEF InQueue, At
    <2>7. h = v \/ h = Temp(v)
        BY <2>4 DEF CurrentWaiter
    <2>8. Head(mutexq[i]) = h
        BY <1>13, <2>2, <2>4, <2>6, <2>7 DEF WakeInv
    <2>9. QED
        BY <1>1, <2>3, <2>8 DEF q
<1>14. ASSUME NEW u \in Threads, At(u, "listwake")'
       PROVE  /\ mutexq'[WaitList(u)'] # <<>>
              /\ ~signal_pending'[Head(mutexq'[WaitList(u)'])]
              /\ \A v \in Threads : At(v, "section")' => WaitList(v)' # WaitList(u)'
              /\ \A v \in Threads : At(v, "listwake")' /\ WaitList(v)' = WaitList(u)' => v = u
    <2>1. CASE u = t
        <3>1. Len(q) > 1 /\ WaitList(u)' = i
            BY <1>8, <1>14, <2>1 DEF q
        <3>2. \A v \in Threads : At(v, "section")' => WaitList(v)' # i
            BY <1>5, <1>6, <1>7
        <3>3. \A v \in Threads : At(v, "listwake")' /\ WaitList(v)' = i => v = t
            BY <1>4, <1>6
        <3>4. QED
            BY <1>3, <1>13, <2>1, <3>1, <3>2, <3>3
    <2>2. CASE u # t
        <3>1. At(u, "listwake") /\ WaitList(u)' = WaitList(u)
            BY <1>6, <1>14, <2>2
        <3>2. WaitList(u) # i /\ WaitList(u) \in Lists
            BY <1>4, <3>1, InCall DEF At
        <3>3. mutexq'[WaitList(u)] = mutexq[WaitList(u)]
            BY <1>3, <3>2
        <3>4. \A v \in Threads : At(v, "section")' => At(v, "section") /\ WaitList(v)' = WaitList(v)
            BY <1>6, <1>7
        <3>5. \A v \in Threads : At(v, "listwake")' /\ v # t =>
                 At(v, "listwake") /\ WaitList(v)' = WaitList(v)
            BY <1>6
        <3>6. At(t, "listwake")' => WaitList(t)' # WaitList(u)
            BY <1>8, <3>2 DEF q
        <3>7. QED
            BY <3>1, <3>3, <3>4, <3>5, <3>6 DEF MutexInv
    <2>3. QED
        BY <2>1, <2>2
<1>15. QED
    BY <1>9, <1>10, <1>11, <1>12, <1>14 DEF MutexInv

-------------------------------------------------------------------------------
(* Threads that the step of another one leaves where they are. *)

Respects(u) ==
    /\ local'[u] = local[u] /\ awaits'[u] = awaits[u] /\ held'[u] = held[u]
    /\ \/ wait_src'[u] = wait_src[u]
       \/ wait_src[u] # NULL /\ wait_src'[u] # NULL /\ awaits[u] = NULL
    /\ awaits[u] # NULL => tag'[u] = "wait"
    /\ \A l \in Locks : owner[l] = u =>
          /\ owner'[l] = u
          /\ word[l].wait => word'[l].wait
          /\ word[l].cv => word'[l].cv
    /\ \A l \in Locks : retired[l] = u =>
          /\ retired'[l] = u
          /\ owner[l] = u /\ (\A x \in Threads : wait_src[x] # l)
                => \A x \in Threads : wait_src'[x] # l

LEMMA RespectsLocal ==
    ASSUME TypeOK, OwnerInv, NEW u \in Threads, LocalOK(u), Respects(u)
    PROVE  LocalOK(u)'
<1>1. /\ local[u] \in LocalType /\ held[u] \subseteq Locks
      /\ \A l \in held[u] : owner[l] = u
    BY DEF TypeOK, OwnerInv
<1>2. /\ Stage(u)' = Stage(u) /\ (Contending(u)' <=> Contending(u)) /\ (Empty(u)' <=> Empty(u))
      /\ (HasMoved(u)' <=> HasMoved(u)) /\ local'[u] = local[u]
      /\ \A p : At(u, p)' <=> At(u, p)
    BY DEF Respects, Stage, At, Contending, Empty, HasMoved
<1>3. local[u].op = NULL => Resting(u)'
    BY <1>2 DEF LocalOK, Resting, Respects
<1>4. local[u].op \in {"lock", "payload"} => Locking(u)'
    BY <1>2 DEF LocalOK, Locking, Respects
<1>5. local[u].op = "unlock" => Unlocking(u)'
    BY <1>2 DEF LocalOK, Unlocking, Respects
<1>6. local[u].op = "cvwait" => CvWaiting(u)'
    BY <1>1, <1>2 DEF LocalOK, CvWaiting, Respects
<1>7. local[u].op \in {"signal", "broadcast"} => Notifying(u)'
    BY <1>1, <1>2 DEF LocalOK, Notifying, Respects
<1>8. local[u].op \in {"rekey", "append"} => Rekeying(u)'
    <2> SUFFICES ASSUME local[u].op \in {"rekey", "append"}
                 PROVE  Rekeying(u)'
        OBVIOUS
    <2> DEFINE l == local[u].lock
    <2>1. Rekeying(u) /\ l \in Locks /\ owner[l] = u
        BY <1>1 DEF LocalOK, Rekeying
    <2>2. /\ retired'[l] = u /\ wait_src'[u] = NULL /\ awaits'[u] = NULL
          /\ word[l].wait \/ word[l].cv => word'[l].wait \/ word'[l].cv
        BY <2>1 DEF Rekeying, Respects
    <2>3. HasMoved(u) => \A x \in Threads : wait_src'[x] # l
        BY <2>1 DEF Rekeying, Respects
    <2>4. held'[u] = held[u]
        BY DEF Respects
    <2>5. QED
        BY <1>2, <2>1, <2>2, <2>3, <2>4 DEF Rekeying
<1>9. QED
    BY <1>2, <1>3, <1>4, <1>5, <1>6, <1>7, <1>8 DEF LocalOK, Respects

(* What the other parts of the invariant see of the threads. *)
SameView(t) ==
    /\ \A l \in Locks : Unlocks(t, l)' <=> Unlocks(t, l)
    /\ \A l \in Locks : Leaves(t, l)' <=> Leaves(t, l)
    /\ \A l \in Locks : Goes(t, l)' => Goes(t, l)
    /\ local'[t].moving = local[t].moving
    /\ local[t].moving # <<>> => local'[t].newlock = local[t].newlock
    /\ Pending(t)' = Pending(t)

LEMMA OtherViews ==
    ASSUME NEW t \in Threads, Others(t), NEW u \in Threads, u # t
    PROVE  SameView(u) /\ local'[u] = local[u] /\ (Waking(u)' <=> Waking(u))
BY DEF SameView, Others, Unlocks, Leaves, Goes, Contending, Pending, Stage, At, Waking

-------------------------------------------------------------------------------
(* Steps that change no word and no queue. *)

DataSame(t) ==
    /\ Others(t)
    /\ UNCHANGED <<word, list, wait_src, tag, awaits, held, retired, owner>>
    /\ \A l \in Locks : Unlocks(t, l)' <=> Unlocks(t, l)
    /\ \A l \in Locks : Leaves(t, l)' <=> Leaves(t, l)
    /\ \A l \in Locks : Goes(t, l)' => Goes(t, l) \/ retired[l] \in {NULL, t}
    /\ local'[t].moving = local[t].moving
    /\ local[t].moving # <<>> => local'[t].newlock = local[t].newlock
    /\ Pending(t)' = Pending(t)

LEMMA SameData ==
    ASSUME TypeOK, OwnerInv, QueueInv, BitsInv, RetireInv, NEW t \in Threads, DataSame(t)
    PROVE  OwnerInv' /\ QueueInv' /\ BitsInv' /\ RetireInv'
<1>1. \A u \in Threads : u # t => SameView(u)
    BY OtherViews DEF DataSame
<1>2. ASSUME NEW u \in Threads
      PROVE  /\ \A l \in Locks : Unlocks(u, l)' <=> Unlocks(u, l)
             /\ \A l \in Locks : Leaves(u, l)' <=> Leaves(u, l)
             /\ \A l \in Locks : Goes(u, l)' => Goes(u, l) \/ retired[l] \in {NULL, u}
             /\ local'[u].moving = local[u].moving
             /\ local[u].moving # <<>> => local'[u].newlock = local[u].newlock
             /\ Pending(u)' = Pending(u)
    BY <1>1 DEF SameView, DataSame
<1>3. UNCHANGED <<word, list, wait_src, tag, awaits, held, retired, owner>>
    BY DEF DataSame
<1>4. \A x \in Threads : Given(x)' <=> Given(x)
    BY <1>3 DEF Given
<1>5. \A l \in Locks : (Queued(l)' <=> Queued(l)) /\ (Slept(l)' <=> Slept(l))
    BY <1>3 DEF Queued, Slept, Wants
<1>6. OwnerInv'
    BY <1>2, <1>3, <1>5 DEF OwnerInv
<1>7. QueueInv'
    <2>1. \A u \in Threads : \A x \in ToSet(local'[u].moving) :
             /\ wait_src[x] = local'[u].newlock /\ awaits[x] = NULL
             /\ \A i \in Lists : x \notin ToSet(list[i])
        <3>1. \A u \in Threads : local[u].moving = <<>> => ToSet(local[u].moving) = {}
            BY DEF ToSet
        <3>2. QED
            BY <1>2, <3>1 DEF QueueInv
    <2>2. \A x \in Threads : wait_src[x] # NULL /\ ~Given(x) =>
             \/ x \in ToSet(list[Hash[wait_src[x]]])
             \/ \E u \in Threads : x \in ToSet(local'[u].moving)
        BY <1>2 DEF QueueInv
    <2>3. \A i \in Lists : \A x \in ToSet(list[i]) : x \in Threads
        BY EmptySet DEF TypeOK
    <2>4. QED
        BY <1>3, <1>4, <2>1, <2>2, <2>3 DEF QueueInv
<1>8. BitsInv'
    <2>1. \A u \in Threads : \A b \in Pending(u) : b \in BitChanges
        <3>1. \A u \in Threads : local[u].bits \in Seq(BitChanges)
            BY DEF TypeOK, LocalType
        <3>2. QED
            BY <3>1, EmptySet DEF Pending
    <2>2. QED
        BY <1>2, <1>3, <1>5, <2>1 DEF BitsInv, BitChanges
<1>9. RetireInv'
    BY <1>2, <1>3, NullAssumption DEF RetireInv
<1>10. QED
    BY <1>6, <1>7, <1>8, <1>9

-------------------------------------------------------------------------------
(* A thread gets a word that is free. *)

LEMMA Members ==
    ASSUME TypeOK
    PROVE  /\ \A i \in Lists : list[i] \in Seq(Threads)
           /\ \A i \in Lists : \A x \in ToSet(list[i]) : x \in Threads
           /\ \A u \in Threads : local[u].moving \in Seq(Threads)
           /\ \A u \in Threads : \A x \in ToSet(local[u].moving) : x \in Threads
           /\ \A u \in Threads : \A b \in Pending(u) :
                 b.lock \in Locks /\ b.name \in {"wait", "cv"} /\ b.value \in BOOLEAN
           /\ \A l \in Locks : Hash[l] \in Lists
           /\ \A u \in Threads : held[u] \subseteq Locks
<1>1. /\ \A u \in Threads : local[u].moving \in Seq(Threads) /\ local[u].bits \in Seq(BitChanges)
      /\ \A i \in Lists : list[i] \in Seq(Threads)
      /\ \A u \in Threads : held[u] \subseteq Locks
    BY DEF TypeOK, LocalType
<1>2. \A u \in Threads : \A b \in Pending(u) : b \in BitChanges
    BY <1>1, EmptySet DEF Pending
<1>3. \A u \in Threads : \A b \in Pending(u) :
         b.lock \in Locks /\ b.name \in {"wait", "cv"} /\ b.value \in BOOLEAN
    BY <1>2 DEF BitChanges
<1>4. \A l \in Locks : Hash[l] \in Lists
    BY DEF Lists
<1>5. \A i \in Lists : \A x \in ToSet(list[i]) : x \in Threads
    BY <1>1, EmptySet
<1>6. \A u \in Threads : \A x \in ToSet(local[u].moving) : x \in Threads
    BY <1>1, EmptySet
<1>7. QED
    BY <1>1, <1>3, <1>4, <1>5, <1>6

(* The wait lists stay as they are. *)
LEMMA QueueKept ==
    ASSUME TypeOK, QueueInv, UNCHANGED <<list, wait_src>>,
           \A x \in Threads : Given(x)' <=> Given(x),
           \A u \in Threads : \A x \in ToSet(local'[u].moving) :
              /\ wait_src'[x] = local'[u].newlock /\ awaits'[x] = NULL
              /\ \A i \in Lists : x \notin ToSet(list'[i]),
           \A x \in Threads : wait_src'[x] # NULL /\ ~Given(x)' =>
              \/ x \in ToSet(list'[Hash[wait_src'[x]]])
              \/ \E u \in Threads : x \in ToSet(local'[u].moving)
    PROVE  QueueInv'
<1>1. \A i \in Lists : Distinct(list'[i])
    BY DEF QueueInv
<1>2. \A i \in Lists : \A x \in ToSet(list'[i]) :
         wait_src'[x] # NULL /\ Hash[wait_src'[x]] = i /\ ~Given(x)'
    BY Members DEF QueueInv
<1>3. QED
    BY <1>1, <1>2 DEF QueueInv

(* Nobody queued behind the thread that retires the word has a            *)
(* complete_wait on it to come.                                            *)
LEMMA RetiredFirst ==
    ASSUME RetireInv, NEW l \in Locks
    PROVE  LET q == list[Hash[l]] IN
           \A i, j \in 1..Len(q) :
              i < j /\ retired[l] = q[i] /\ wait_src[q[i]] = l /\ wait_src[q[j]] = l
                 => awaits[q[j]] = NULL
BY DEF RetireInv

Obtains(t, l) ==
    /\ Others(t) /\ SameView(t)
    /\ owner[l] = NULL /\ wait_src[t] = NULL
    /\ \A k \in Locks : /\ word'[k].wait = word[k].wait /\ word'[k].cv = word[k].cv
                        /\ word'[k].lock <=> word[k].lock \/ k = l
    /\ held' = [held EXCEPT ![t] = @ \cup {l}]
    /\ owner' = [owner EXCEPT ![l] = t]
    /\ UNCHANGED <<list, wait_src, tag, awaits>>
    /\ \/ retired' = retired
       \/ /\ retired' = [retired EXCEPT ![l] = t]
          /\ retired[l] = NULL /\ \A u \in Threads : ~Goes(u, l)

LEMMA ObtainData ==
    ASSUME TypeOK, OwnerInv, QueueInv, BitsInv, RetireInv, \A u \in Threads : LocalOK(u),
           NEW t \in Threads, NEW l \in Locks, Obtains(t, l)
    PROVE  /\ OwnerInv' /\ QueueInv' /\ BitsInv' /\ RetireInv'
           /\ \A u \in Threads : u # t => Respects(u)
           /\ \A x \in Threads : Given(x)' <=> Given(x)
<1>1. \A u \in Threads : SameView(u)
    BY OtherViews DEF Obtains
<1>2. UNCHANGED <<list, wait_src, tag, awaits>>
    BY DEF Obtains
<1>3. /\ NULL \notin Threads /\ NULL \notin Locks /\ t # NULL
      /\ owner[l] = NULL /\ wait_src[t] = NULL
      /\ owner'[l] = t /\ \A k \in Locks : k # l => owner'[k] = owner[k]
      /\ held'[t] = held[t] \cup {l} /\ \A u \in Threads : u # t => held'[u] = held[u]
      /\ \A u \in Threads : l \notin held[u]
    BY NullAssumption DEF Obtains, TypeOK, OwnerInv
<1>4. /\ \A k \in Locks : k # l => retired'[k] = retired[k]
      /\ retired'[l] = retired[l] \/
            (retired'[l] = t /\ retired[l] = NULL /\ \A u \in Threads : ~Goes(u, l))
    BY DEF Obtains, TypeOK
<1>5. \A x \in Threads : Given(x)' <=> Given(x)
    <2>1. \A x \in Threads : wait_src[x] = NULL \/ wait_src[x] \in Locks
        BY DEF TypeOK
    <2>2. QED
        BY <1>2, <1>3, <2>1 DEF Given
<1>6. \A k \in Locks : (Queued(k)' <=> Queued(k)) /\ (Slept(k)' <=> Slept(k))
    <2>1. \A k \in Locks : \A x \in Threads : Wants(x, k)' <=> Wants(x, k)
        BY <1>2, <1>3 DEF Wants
    <2>2. QED
        BY <1>2, <2>1 DEF Queued, Slept
<1>7. OwnerInv'
    <2>1. \A u \in Threads : \A k \in held'[u] : owner'[k] = u
        BY <1>3, Members DEF OwnerInv
    <2>2. \A k \in Locks : \A u \in Threads : owner'[k] = u =>
             k \in held'[u] \/ wait_src'[u] = k \/ Unlocks(u, k)'
        BY <1>1, <1>2, <1>3 DEF OwnerInv, SameView
    <2>3. \A k \in Locks : word'[k].lock <=> owner'[k] # NULL
        BY <1>3 DEF OwnerInv, Obtains
    <2>4. \A k \in Locks : owner'[k] = NULL => ~Queued(k)'
        BY <1>3, <1>6 DEF OwnerInv
    <2>5. \A u \in Threads : wait_src'[u] \notin held'[u]
        BY <1>2, <1>3 DEF OwnerInv
    <2>6. QED
        BY <2>1, <2>2, <2>3, <2>4, <2>5 DEF OwnerInv
<1>8. QueueInv'
    <2>1. \A u \in Threads : \A x \in ToSet(local'[u].moving) :
             /\ wait_src'[x] = local'[u].newlock /\ awaits'[x] = NULL
             /\ \A i \in Lists : x \notin ToSet(list'[i])
        <3>1. \A u \in Threads : local[u].moving = <<>> => ToSet(local[u].moving) = {}
            BY DEF ToSet
        <3>2. QED
            BY <1>1, <1>2, <3>1 DEF QueueInv, SameView
    <2>2. \A x \in Threads : wait_src'[x] # NULL /\ ~Given(x)' =>
             \/ x \in ToSet(list'[Hash[wait_src'[x]]])
             \/ \E u \in Threads : x \in ToSet(local'[u].moving)
        BY <1>1, <1>2, <1>5 DEF QueueInv, SameView
    <2>3. QED
        BY <1>2, <1>5, <2>1, <2>2, QueueKept
<1>9. BitsInv'
    <2>1. \A u \in Threads : \A b \in Pending(u)' :
             /\ owner'[b.lock] = u
             /\ b.value <=> IF b.name = "wait" THEN Queued(b.lock)' ELSE Slept(b.lock)'
             /\ b.name = "wait" /\ ~b.value => retired'[b.lock] = u
        BY <1>1, <1>3, <1>4, <1>6, Members DEF BitsInv, SameView
    <2>2. \A k \in Locks : word'[k].wait = word[k].wait /\ word'[k].cv = word[k].cv
        BY DEF Obtains
    <2>3. QED
        BY <1>1, <1>6, <2>1, <2>2 DEF BitsInv, SameView
<1>10. RetireInv'
    <2>1. \A k \in Locks : \A u, v \in Threads : retired'[k] = u /\ Goes(v, k)' => v = u
        BY <1>1, <1>4 DEF RetireInv, SameView
    <2>2. ASSUME NEW x \in Threads, wait_src[x] = l
          PROVE  awaits[x] = NULL
        <3>1. ~Wants(x, l)
            BY <1>3 DEF OwnerInv, Queued
        <3>2. tag[x] # "wait"
            BY <1>3, <2>2, <3>1 DEF Wants
        <3>3. QED
            BY <3>2 DEF LocalOK
    <2>3. \A k \in Locks : \A u, x \in Threads :
             retired'[k] = u /\ owner'[k] = u /\ wait_src'[x] = k /\ x # u => awaits'[x] = NULL
        BY <1>2, <1>3, <1>4, <2>2 DEF RetireInv
    <2>4. ASSUME NEW k \in Locks, NEW i \in 1..Len(list[Hash[k]]), NEW j \in 1..Len(list[Hash[k]]),
                 i < j, retired'[k] = list[Hash[k]][i],
                 wait_src[list[Hash[k]][i]] = k, wait_src[list[Hash[k]][j]] = k
          PROVE  awaits[list[Hash[k]][j]] = NULL
        <3>1. retired[k] = list[Hash[k]][i]
            BY <1>3, <1>4, <2>4
        <3>2. QED
            BY <2>4, <3>1 DEF RetireInv
    <2>5. QED
        BY <1>2, <2>1, <2>3, <2>4 DEF RetireInv
<1>11. ASSUME NEW u \in Threads, u # t
       PROVE  Respects(u)
    <2>1. \A k \in Locks : owner[k] = u => k # l
        BY <1>3
    <2>2. \A k \in Locks : retired[k] = u => retired'[k] = u
        BY <1>3, <1>4
    <2>3. local'[u] = local[u]
        BY <1>11, OtherViews DEF Obtains
    <2>4. awaits[u] # NULL => tag[u] = "wait"
        BY DEF LocalOK
    <2>5. QED
        BY <1>2, <1>3, <1>11, <2>1, <2>2, <2>3, <2>4 DEF Respects, Obtains
<1>12. QED
    BY <1>5, <1>7, <1>8, <1>9, <1>10, <1>11

-------------------------------------------------------------------------------
(* The owner of a word for which nobody waits gives it up. *)

Frees(t, l) ==
    /\ Others(t) /\ SameView(t)
    /\ owner[l] = t /\ wait_src[t] # l /\ ~word[l].wait /\ Pending(t) = {} /\ ~Unlocks(t, l)
    /\ \A k \in Locks : /\ word'[k].wait = word[k].wait /\ word'[k].cv = word[k].cv
                        /\ word'[k].lock <=> word[k].lock /\ k # l
    /\ held' = [held EXCEPT ![t] = @ \ {l}]
    /\ owner' = [owner EXCEPT ![l] = NULL]
    /\ UNCHANGED <<list, wait_src, tag, awaits>>
    /\ \/ retired' = retired
       \/ retired' = [retired EXCEPT ![l] = NULL] /\ retired[l] = t

(* A pending change is the owner's. *)
LEMMA NothingPending ==
    ASSUME BitsInv, NEW t \in Threads, NEW l \in Locks, owner[l] = t, Pending(t) = {}
    PROVE  word[l].wait <=> Queued(l)
BY DEF BitsInv

LEMMA FreeData ==
    ASSUME TypeOK, OwnerInv, QueueInv, BitsInv, RetireInv, \A u \in Threads : LocalOK(u),
           NEW t \in Threads, NEW l \in Locks, Frees(t, l)
    PROVE  /\ OwnerInv' /\ QueueInv' /\ BitsInv' /\ RetireInv'
           /\ \A u \in Threads : u # t => Respects(u)
           /\ \A x \in Threads : Given(x)' <=> Given(x)
<1>1. \A u \in Threads : SameView(u)
    BY OtherViews DEF Frees
<1>2. UNCHANGED <<list, wait_src, tag, awaits>>
    BY DEF Frees
<1>3. /\ NULL \notin Threads /\ NULL \notin Locks /\ t # NULL
      /\ owner[l] = t /\ wait_src[t] # l
      /\ owner'[l] = NULL /\ \A k \in Locks : k # l => owner'[k] = owner[k]
      /\ held'[t] = held[t] \ {l} /\ \A u \in Threads : u # t => held'[u] = held[u]
      /\ \A u \in Threads : u # t => l \notin held[u]
    BY NullAssumption DEF Frees, TypeOK, OwnerInv
<1>4. /\ \A k \in Locks : k # l => retired'[k] = retired[k]
      /\ retired'[l] = retired[l] \/ (retired'[l] = NULL /\ retired[l] = t)
    BY DEF Frees, TypeOK
<1>5. \A x \in Threads : Given(x)' <=> Given(x)
    <2>1. \A x \in Threads : wait_src[x] = NULL \/ wait_src[x] \in Locks
        BY DEF TypeOK
    <2>2. QED
        BY <1>2, <1>3, <2>1 DEF Given
<1>6. \A k \in Locks : (Queued(k)' <=> Queued(k)) /\ (Slept(k)' <=> Slept(k))
    <2>1. \A k \in Locks : \A x \in Threads : Wants(x, k)' <=> Wants(x, k)
        BY <1>2, <1>3 DEF Wants
    <2>2. QED
        BY <1>2, <2>1 DEF Queued, Slept
<1>7. ~Queued(l)
    BY NothingPending DEF Frees
<1>8. OwnerInv'
    <2>1. \A u \in Threads : \A k \in held'[u] : owner'[k] = u
        BY <1>3, Members DEF OwnerInv
    <2>2. \A k \in Locks : \A u \in Threads : owner'[k] = u =>
             k \in held'[u] \/ wait_src'[u] = k \/ Unlocks(u, k)'
        BY <1>1, <1>2, <1>3 DEF OwnerInv, SameView
    <2>3. \A k \in Locks : word'[k].lock <=> owner'[k] # NULL
        BY <1>3 DEF OwnerInv, Frees
    <2>4. \A k \in Locks : owner'[k] = NULL => ~Queued(k)'
        BY <1>3, <1>6, <1>7 DEF OwnerInv
    <2>5. \A u \in Threads : wait_src'[u] \notin held'[u]
        BY <1>2, <1>3 DEF OwnerInv
    <2>6. QED
        BY <2>1, <2>2, <2>3, <2>4, <2>5 DEF OwnerInv
<1>9. QueueInv'
    <2>1. \A u \in Threads : \A x \in ToSet(local'[u].moving) :
             /\ wait_src'[x] = local'[u].newlock /\ awaits'[x] = NULL
             /\ \A i \in Lists : x \notin ToSet(list'[i])
        <3>1. \A u \in Threads : local[u].moving = <<>> => ToSet(local[u].moving) = {}
            BY DEF ToSet
        <3>2. QED
            BY <1>1, <1>2, <3>1 DEF QueueInv, SameView
    <2>2. \A x \in Threads : wait_src'[x] # NULL /\ ~Given(x)' =>
             \/ x \in ToSet(list'[Hash[wait_src'[x]]])
             \/ \E u \in Threads : x \in ToSet(local'[u].moving)
        BY <1>1, <1>2, <1>5 DEF QueueInv, SameView
    <2>3. QED
        BY <1>2, <1>5, <2>1, <2>2, QueueKept
<1>10. BitsInv'
    <2>1. \A u \in Threads : \A b \in Pending(u)' :
             /\ owner'[b.lock] = u
             /\ b.value <=> IF b.name = "wait" THEN Queued(b.lock)' ELSE Slept(b.lock)'
             /\ b.name = "wait" /\ ~b.value => retired'[b.lock] = u
        <3>1. ASSUME NEW u \in Threads, NEW b \in Pending(u)
              PROVE  b.lock # l /\ b.lock \in Locks
            BY <1>3, Members DEF BitsInv, Frees
        <3>2. QED
            BY <1>1, <1>3, <1>4, <1>6, <3>1 DEF BitsInv, SameView
    <2>2. \A k \in Locks : word'[k].wait = word[k].wait /\ word'[k].cv = word[k].cv
        BY DEF Frees
    <2>3. QED
        BY <1>1, <1>6, <2>1, <2>2 DEF BitsInv, SameView
<1>11. RetireInv'
    <2>1. \A k \in Locks : \A u, v \in Threads : retired'[k] = u /\ Goes(v, k)' => v = u
        BY <1>1, <1>3, <1>4 DEF RetireInv, SameView
    <2>2. \A k \in Locks : \A u, x \in Threads :
             retired'[k] = u /\ owner'[k] = u /\ wait_src'[x] = k /\ x # u => awaits'[x] = NULL
        BY <1>2, <1>3, <1>4 DEF RetireInv
    <2>3. ASSUME NEW k \in Locks, NEW i \in 1..Len(list[Hash[k]]), NEW j \in 1..Len(list[Hash[k]]),
                 i < j, retired'[k] = list[Hash[k]][i],
                 wait_src[list[Hash[k]][i]] = k, wait_src[list[Hash[k]][j]] = k
          PROVE  awaits[list[Hash[k]][j]] = NULL
        <3>1. list[Hash[k]][i] \in Threads
            BY Members
        <3>2. retired[k] = list[Hash[k]][i]
            BY <1>3, <1>4, <2>3, <3>1
        <3>3. QED
            BY <2>3, <3>2 DEF RetireInv
    <2>4. QED
        BY <1>2, <2>1, <2>2, <2>3 DEF RetireInv
<1>12. ASSUME NEW u \in Threads, u # t
       PROVE  Respects(u)
    <2>1. \A k \in Locks : owner[k] = u => k # l
        BY <1>3, <1>12
    <2>2. \A k \in Locks : retired[k] = u => retired'[k] = u
        BY <1>3, <1>4, <1>12
    <2>3. local'[u] = local[u]
        BY <1>12, OtherViews DEF Frees
    <2>4. awaits[u] # NULL => tag[u] = "wait"
        BY DEF LocalOK
    <2>5. QED
        BY <1>2, <1>3, <1>12, <2>1, <2>2, <2>3, <2>4 DEF Respects, Frees
<1>13. QED
    BY <1>5, <1>8, <1>9, <1>10, <1>11, <1>12

-------------------------------------------------------------------------------
(* A thread queues for a word. *)

(* Who is moved waits for a word of the one who moves it. *)
LEMMA MovingSource ==
    ASSUME TypeOK, OwnerInv, QueueInv, NEW u \in Threads, LocalOK(u),
           NEW x \in ToSet(local[u].moving)
    PROVE  /\ x \in Threads /\ x # u /\ wait_src[x] \in Locks /\ owner[wait_src[x]] = u
           /\ wait_src[x] = local[u].newlock
           /\ local[u].op \in {"rekey", "append"}
<1>1. local[u].moving # <<>>
    BY DEF ToSet
<1>2. local[u].op \in {"rekey", "append"}
    BY <1>1 DEF TypeOK, LocalType, InnerOps, LocalOK, Resting, Locking, Unlocking, CvWaiting,
                Notifying, Empty
<1>3. local[u].newlock \in held[u] /\ wait_src[u] = NULL
    BY <1>2 DEF LocalOK, Rekeying
<1>4. x \in Threads /\ wait_src[x] = local[u].newlock
    BY Members DEF QueueInv
<1>5. QED
    BY <1>2, <1>3, <1>4, Members, NullAssumption DEF OwnerInv

Enqueues(t, l) ==
    /\ Others(t) /\ SameView(t)
    /\ owner[l] \notin {NULL, t} /\ wait_src[t] = NULL /\ l \notin held[t]
    /\ retired[l] \in {NULL, t}
    /\ \A k \in Locks : /\ word'[k].lock = word[k].lock /\ word'[k].cv = word[k].cv
                        /\ word'[k].wait <=> word[k].wait \/ k = l
    /\ wait_src' = [wait_src EXCEPT ![t] = l]
    /\ tag' = [tag EXCEPT ![t] = "wait"]
    /\ list' = [list EXCEPT ![Hash[l]] = Append(@, t)]
    /\ awaits' = [awaits EXCEPT ![t] = l]
    /\ UNCHANGED <<held, retired, owner>>

LEMMA EnqueueData ==
    ASSUME TypeOK, OwnerInv, QueueInv, BitsInv, RetireInv, \A u \in Threads : LocalOK(u),
           NEW t \in Threads, NEW l \in Locks, Enqueues(t, l)
    PROVE  /\ OwnerInv' /\ QueueInv' /\ BitsInv' /\ RetireInv'
           /\ \A u \in Threads : u # t => Respects(u)
           /\ \A x \in Threads : Given(x)' <=> Given(x)
<1>1. \A u \in Threads : SameView(u)
    BY OtherViews DEF Enqueues
<1>2. UNCHANGED <<held, retired, owner>>
    BY DEF Enqueues
<1> DEFINE i == Hash[l]
           q == list[i]
<1>3. /\ NULL \notin Threads /\ NULL \notin Locks /\ t # NULL /\ i \in Lists
      /\ wait_src[t] = NULL /\ wait_src'[t] = l
      /\ \A u \in Threads : u # t => wait_src'[u] = wait_src[u]
      /\ tag'[t] = "wait" /\ \A u \in Threads : u # t => tag'[u] = tag[u]
      /\ awaits'[t] = l /\ \A u \in Threads : u # t => awaits'[u] = awaits[u]
      /\ list'[i] = Append(q, t) /\ \A j \in Lists : j # i => list'[j] = list[j]
      /\ q \in Seq(Threads) /\ Distinct(q)
    BY NullAssumption, Members DEF Enqueues, TypeOK, QueueInv
<1>4. \A j \in Lists : t \notin ToSet(list[j])
    BY <1>3 DEF QueueInv
<1>5. \A u \in Threads : t \notin ToSet(local[u].moving)
    BY <1>3, MovingSource
<1>6. Distinct(list'[i]) /\ ToSet(list'[i]) = ToSet(q) \cup {t}
    BY <1>3, <1>4, AppendSet
<1>7. \A j \in Lists : \A x :
         x \in ToSet(list'[j]) <=> x \in ToSet(list[j]) \/ (j = i /\ x = t)
    BY <1>3, <1>6
<1>8. owner[l] # NULL /\ owner[l] # t /\ l \notin held[t] /\ retired[l] \in {NULL, t}
    BY DEF Enqueues
<1>9. \A x \in Threads : Given(x)' <=> Given(x)
    BY <1>2, <1>3, <1>8 DEF Given
<1>10. /\ Queued(l)' /\ (\A k \in Locks : k # l => (Queued(k)' <=> Queued(k)))
       /\ \A k \in Locks : Slept(k)' <=> Slept(k)
    <2>1. Wants(t, l)'
        BY <1>2, <1>3, <1>8 DEF Wants
    <2>2. \A k \in Locks : \A x \in Threads : k # l => (Wants(x, k)' <=> Wants(x, k))
        BY <1>2, <1>3 DEF Wants
    <2>3. \A k \in Locks : \A x \in Threads :
             (wait_src'[x] = k /\ tag'[x] = "cv") <=> (wait_src[x] = k /\ tag[x] = "cv")
        BY <1>3
    <2>4. QED
        BY <2>1, <2>2, <2>3 DEF Queued, Slept
<1> HIDE DEF q, i
<1>11. OwnerInv'
    <2>1. \A k \in Locks : \A u \in Threads : owner[k] = u =>
             k \in held[u] \/ wait_src'[u] = k \/ Unlocks(u, k)'
        BY <1>1, <1>3 DEF OwnerInv, SameView
    <2>2. \A k \in Locks : word'[k].lock <=> owner[k] # NULL
        BY DEF OwnerInv, Enqueues
    <2>3. \A k \in Locks : owner[k] = NULL => ~Queued(k)'
        BY <1>8, <1>10 DEF OwnerInv
    <2>4. \A u \in Threads : wait_src'[u] \notin held[u]
        BY <1>3, <1>8 DEF OwnerInv
    <2>5. QED
        BY <1>2, <2>1, <2>2, <2>3, <2>4 DEF OwnerInv
<1>12. QueueInv'
    <2>1. \A j \in Lists : Distinct(list'[j])
        BY <1>3, <1>6 DEF QueueInv
    <2>2. \A j \in Lists : \A x \in ToSet(list'[j]) :
             wait_src'[x] # NULL /\ Hash[wait_src'[x]] = j /\ ~Given(x)'
        <3>1. ~Given(t)'
            BY <1>2, <1>3, <1>8 DEF Given
        <3>2. \A j \in Lists : \A x \in ToSet(list[j]) : x \in Threads /\ x # t
            BY <1>4, Members
        <3>3. Hash[wait_src'[t]] = i /\ wait_src'[t] # NULL
            BY <1>3 DEF i
        <3>4. ASSUME NEW j \in Lists, NEW x \in ToSet(list[j])
              PROVE  wait_src'[x] # NULL /\ Hash[wait_src'[x]] = j /\ ~Given(x)'
            BY <1>3, <1>9, <3>2 DEF QueueInv
        <3>5. QED
            BY <1>7, <3>1, <3>3, <3>4
    <2>3. \A u \in Threads : \A x \in ToSet(local'[u].moving) :
             /\ wait_src'[x] = local'[u].newlock /\ awaits'[x] = NULL
             /\ \A j \in Lists : x \notin ToSet(list'[j])
        <3>1. \A u \in Threads : local[u].moving = <<>> => ToSet(local[u].moving) = {}
            BY DEF ToSet
        <3>2. \A u \in Threads : \A x \in ToSet(local[u].moving) : x \in Threads /\ x # t
            BY <1>5, Members
        <3>3. ASSUME NEW u \in Threads, NEW x \in ToSet(local[u].moving)
              PROVE  /\ wait_src'[x] = local[u].newlock /\ awaits'[x] = NULL
                     /\ \A j \in Lists : x \notin ToSet(list'[j])
            BY <1>3, <1>7, <3>2 DEF QueueInv
        <3>4. QED
            BY <1>1, <3>1, <3>3 DEF SameView
    <2>4. \A x \in Threads : wait_src'[x] # NULL /\ ~Given(x)' =>
             \/ x \in ToSet(list'[Hash[wait_src'[x]]])
             \/ \E u \in Threads : x \in ToSet(local'[u].moving)
        <3>1. \A x \in Threads : wait_src[x] # NULL => Hash[wait_src[x]] \in Lists
            BY Members DEF TypeOK
        <3>2. t \in ToSet(list'[Hash[wait_src'[t]]])
            BY <1>3, <1>7 DEF i
        <3>3. ASSUME NEW x \in Threads, x # t, wait_src'[x] # NULL, ~Given(x)'
              PROVE  \/ x \in ToSet(list'[Hash[wait_src'[x]]])
                     \/ \E u \in Threads : x \in ToSet(local[u].moving)
            BY <1>3, <1>7, <1>9, <3>1, <3>3 DEF QueueInv
        <3>4. QED
            BY <1>1, <3>2, <3>3 DEF SameView
    <2>5. QED
        BY <2>1, <2>2, <2>3, <2>4 DEF QueueInv
<1>13. BitsInv'
    <2>1. \A u \in Threads : \A b \in Pending(u)' :
             /\ owner'[b.lock] = u
             /\ b.value <=> IF b.name = "wait" THEN Queued(b.lock)' ELSE Slept(b.lock)'
             /\ b.name = "wait" /\ ~b.value => retired'[b.lock] = u
        <3>1. ASSUME NEW u \in Threads, NEW b \in Pending(u), b.name = "wait", b.lock = l
              PROVE  b.value
            BY <1>3, <1>8, <3>1, Members DEF BitsInv
        <3>2. QED
            BY <1>1, <1>2, <1>10, <3>1, Members DEF BitsInv, SameView
    <2>2. \A k \in Locks : word'[k].cv = word[k].cv /\ (word'[k].wait <=> word[k].wait \/ k = l)
        BY DEF Enqueues
    <2>3. QED
        BY <1>1, <1>10, <2>1, <2>2 DEF BitsInv, SameView
<1>14. RetireInv'
    <2>1. \A k \in Locks : \A u, v \in Threads : retired[k] = u /\ Goes(v, k)' => v = u
        BY <1>1 DEF RetireInv, SameView
    <2>2. \A k \in Locks : \A u, x \in Threads :
             retired[k] = u /\ owner[k] = u /\ wait_src'[x] = k /\ x # u => awaits'[x] = NULL
        BY <1>3, <1>8 DEF RetireInv
    <2>3. ASSUME NEW k \in Locks, NEW a \in 1..Len(list'[Hash[k]]),
                 NEW b \in 1..Len(list'[Hash[k]]),
                 a < b, retired[k] = list'[Hash[k]][a],
                 wait_src'[list'[Hash[k]][a]] = k, wait_src'[list'[Hash[k]][b]] = k
          PROVE  awaits'[list'[Hash[k]][b]] = NULL
        <3>1. CASE Hash[k] # i
            <4>1. list'[Hash[k]] = list[Hash[k]]
                BY <1>3, <3>1, Members
            <4>2. /\ list[Hash[k]][a] \in ToSet(list[Hash[k]])
                     /\ list[Hash[k]][b] \in ToSet(list[Hash[k]])
                  /\ list[Hash[k]][a] \in Threads /\ list[Hash[k]][b] \in Threads
                BY <2>3, <4>1, Members DEF ToSet
            <4>3. list[Hash[k]][a] # t /\ list[Hash[k]][b] # t
                BY <1>4, <4>2, Members
            <4>4. QED
                <5>1. /\ wait_src[list[Hash[k]][a]] = k /\ wait_src[list[Hash[k]][b]] = k
                      /\ awaits'[list[Hash[k]][b]] = awaits[list[Hash[k]][b]]
                    BY <1>3, <2>3, <4>1, <4>2, <4>3
                <5>2. QED
                    BY <2>3, <4>1, <5>1, RetiredFirst
        <3>2. CASE Hash[k] = i
            <4>1. /\ Len(list'[i]) = Len(q) + 1 /\ Len(q) \in Nat
                  /\ list'[i][Len(q) + 1] = t /\ \A c \in 1..Len(q) : list'[i][c] = q[c]
                BY <1>3, AppendProperties
            <4>2. a \in 1..Len(q)
                BY <2>3, <3>2, <4>1
            <4>3. q[a] \in ToSet(q) /\ q[a] \in Threads /\ q[a] # t
                BY <1>3, <1>4, <4>2 DEF ToSet, q
            <4> list'[Hash[k]] = list'[i] /\ list[Hash[k]] = q
                BY <3>2 DEF q
            <4> retired[k] = q[a]
                BY <2>3, <4>1, <4>2
            <4>4. k # l
                BY <1>3, <1>8, <4>3
            <4>5. b \in 1..Len(q)
                BY <1>3, <2>3, <4>1, <4>4
            <4>6. q[b] \in ToSet(q) /\ q[b] \in Threads /\ q[b] # t
                BY <1>3, <1>4, <4>5 DEF ToSet, q
            <4>7. awaits[q[b]] = NULL
                <5>1. wait_src[q[a]] = k /\ wait_src[q[b]] = k
                    BY <1>3, <2>3, <4>1, <4>2, <4>3, <4>5, <4>6
                <5>2. QED
                    BY <2>3, <4>2, <4>5, <5>1 DEF RetireInv
            <4>8. QED
                BY <1>3, <3>2, <4>1, <4>5, <4>6, <4>7
        <3>3. QED
            BY <3>1, <3>2
    <2>4. QED
        BY <1>2, <2>1, <2>2, <2>3 DEF RetireInv
<1>15. ASSUME NEW u \in Threads, u # t
       PROVE  Respects(u)
    <2>1. \A k \in Locks : retired[k] = u => k # l
        BY <1>3, <1>8, <1>15
    <2>2. local'[u] = local[u]
        BY <1>15, OtherViews DEF Enqueues
    <2>3. awaits[u] # NULL => tag[u] = "wait"
        BY DEF LocalOK
    <2>4. \A k \in Locks : k # l /\ (\A x \in Threads : wait_src[x] # k)
             => \A x \in Threads : wait_src'[x] # k
        BY <1>3
    <2>5. \A k \in Locks : word'[k].cv = word[k].cv /\ (word'[k].wait <=> word[k].wait \/ k = l)
        BY DEF Enqueues
    <2>6. QED
        BY <1>2, <1>3, <1>15, <2>1, <2>2, <2>3, <2>4, <2>5 DEF Respects
<1>16. QED
    BY <1>9, <1>11, <1>12, <1>13, <1>14, <1>15

-------------------------------------------------------------------------------
(* The owner of a word hands it to the first who wants it, or to nobody,   *)
(* and may start a condition wait.                                         *)

LEMMA OnList ==
    ASSUME TypeOK, OwnerInv, QueueInv, \A u \in Threads : LocalOK(u),
           NEW t \in Threads, NEW l \in Locks, owner[l] = t, local[t].moving = <<>>,
           NEW x \in Threads, x # t, wait_src[x] = l
    PROVE  x \in ToSet(list[Hash[l]])
<1>1. wait_src[x] # NULL /\ ~Given(x)
    BY NullAssumption DEF Given
<1>2. ASSUME NEW u \in Threads, x \in ToSet(local[u].moving)
      PROVE  FALSE
    <2>1. owner[l] = u
        BY <1>2, MovingSource
    <2>2. QED
        BY <1>2, <2>1 DEF ToSet
<1>3. QED
    BY <1>1, <1>2 DEF QueueInv

(* What get_one_waiter finds. *)
LEMMA FirstWaiter ==
    ASSUME TypeOK, OwnerInv, QueueInv, \A u \in Threads : LocalOK(u),
           NEW t \in Threads, NEW l \in Locks, owner[l] = t, local[t].moving = <<>>,
           wait_src[t] # l, Queued(l), NEW m, m = Matching(l, "wait")
    PROVE  /\ m # <<>> /\ m[1] \in Threads /\ Wants(m[1], l)
           /\ Len(m) > 1 <=> \E y \in Threads : y # m[1] /\ Wants(y, l)
           /\ \A a, b \in 1..Len(list[Hash[l]]) :
                 list[Hash[l]][a] = m[1] /\ Wants(list[Hash[l]][b], l) => a <= b
<1> DEFINE q == list[Hash[l]]
           s == {x \in Sources(l) : tag[x] = "wait"}
<1>1. q \in Seq(Threads) /\ Distinct(q)
    BY Members DEF QueueInv
<1>2. /\ m \in Seq(Threads) /\ ToSet(m) = ToSet(q) \cap s /\ Distinct(m)
      /\ \A i, j \in 1..Len(m) : i < j =>
            \E a, b \in 1..Len(q) : a < b /\ q[a] = m[i] /\ q[b] = m[j]
    <2>1. m = Filter(q, s)
        BY DEF Matching
    <2> HIDE DEF q, s
    <2> DEFINE f == Filter(q, s)
    <2>2. /\ f \in Seq(Threads) /\ ToSet(f) = ToSet(q) \cap s /\ Distinct(f)
          /\ \A i, j \in 1..Len(f) : i < j =>
                \E a, b \in 1..Len(q) : a < b /\ q[a] = f[i] /\ q[b] = f[j]
        BY <1>1, FilterIs
    <2>3. f = m
        BY <2>1
    <2> HIDE DEF f
    <2>4. QED
        BY <2>2, <2>3
<1>3. \A x \in Threads : x \in ToSet(m) <=> Wants(x, l)
    <2>1. \A x \in Threads : x \in s <=> wait_src[x] = l /\ tag[x] = "wait"
        BY DEF Sources
    <2>2. \A x \in Threads : Wants(x, l) => x \in ToSet(q)
        BY OnList DEF Wants
    <2>3. \A x \in Threads : x \in s => Wants(x, l)
        BY <2>1 DEF Wants
    <2> HIDE DEF q, s
    <2>4. \A x \in Threads : Wants(x, l) => x \in s
        BY <2>1 DEF Wants
    <2>5. QED
        BY <1>2, <2>2, <2>3, <2>4
<1> HIDE DEF q, s
<1>4. ToSet(m) # {}
    BY <1>3 DEF Queued
<1>5. m # <<>> /\ Len(m) >= 1 /\ m[1] \in ToSet(m) /\ m[1] \in Threads
    BY <1>2, <1>4, EmptySet
<1>6. Wants(m[1], l)
    BY <1>3, <1>5
<1>7. /\ Head(m) = m[1] /\ ToSet(Tail(m)) = ToSet(m) \ {m[1]}
      /\ Tail(m) \in Seq(Threads)
      /\ (Len(m) > 1 <=> Tail(m) # <<>>)
    <2>1. Head(m) = m[1]
        BY <1>2, <1>5
    <2>2. /\ ToSet(Tail(m)) = ToSet(m) \ {Head(m)} /\ Tail(m) \in Seq(Threads)
          /\ (Len(m) > 1 <=> Tail(m) # <<>>)
        BY <1>2, <1>5, TailSet
    <2>3. QED
        BY <2>1, <2>2
<1>8. Len(m) > 1 <=> \E y \in Threads : y # m[1] /\ Wants(y, l)
    <2>1. Tail(m) = <<>> <=> ToSet(m) \ {m[1]} = {}
        BY <1>7, EmptySet
    <2>2. \A y \in ToSet(m) : y \in Threads
        BY <1>2, EmptySet
    <2>3. QED
        BY <1>3, <1>7, <2>1, <2>2
<1>9. ASSUME NEW a \in 1..Len(q), NEW b \in 1..Len(q), q[a] = m[1], Wants(q[b], l)
      PROVE  a <= b
    <2>1. q[b] \in Threads
        BY <1>1
    <2>2. q[b] \in ToSet(m)
        BY <1>3, <1>9, <2>1
    <2>3. PICK j \in 1..Len(m) : m[j] = q[b]
        BY <1>2, <2>2 DEF ToSet
    <2>4. CASE j = 1
        BY <1>1, <1>9, <2>3, <2>4 DEF Distinct
    <2>5. CASE j # 1
        <3>1. 1 \in 1..Len(m) /\ 1 < j
            BY <2>3, <2>5
        <3>2. PICK c \in 1..Len(q), d \in 1..Len(q) : c < d /\ q[c] = m[1] /\ q[d] = m[j]
            BY <1>2, <3>1
        <3>3. c = a /\ d = b
            BY <1>1, <1>9, <2>3, <3>2 DEF Distinct
        <3>4. QED
            BY <3>2, <3>3
    <2>6. QED
        BY <2>4, <2>5
<1>10. QED
    BY <1>5, <1>6, <1>8, <1>9 DEF q

(* The list once o has left it and, with c, t has joined it. *)
Relisted(q, t, o, c, r) ==
    /\ r \in Seq(Threads) /\ Distinct(r)
    /\ \A x \in Threads : x \in ToSet(r) <=> (x \in ToSet(q) /\ x # o) \/ (c /\ x = t)
    /\ \A a, b \in 1..Len(r) : a < b =>
          \/ \E d, e \in 1..Len(q) : d < e /\ q[d] = r[a] /\ q[e] = r[b]
          \/ c /\ r[b] = t

Hands(t, l, o, c, r) ==
    /\ Others(t) /\ Pending(t) = {} /\ Pending(t)' = {}
    /\ local[t].moving = <<>> /\ local'[t].moving = <<>>
    /\ \A k \in Locks : ~Unlocks(t, k)' /\ ~Leaves(t, k)' /\ ~Goes(t, k)'
    /\ owner[l] = t /\ wait_src[t] # l
    /\ IF c THEN /\ held[t] = {l} /\ wait_src[t] = NULL /\ awaits[t] = NULL /\ word[l].cv
                 /\ \A k \in Locks : ~Unlocks(t, k)
            ELSE Unlocks(t, l) /\ l \notin held[t]
    /\ \/ o = NULL /\ ~Queued(l)
       \/ /\ o \in Threads /\ Wants(o, l)
          /\ \A a, b \in 1..Len(list[Hash[l]]) :
                list[Hash[l]][a] = o /\ Wants(list[Hash[l]][b], l) => a <= b
    /\ Relisted(list[Hash[l]], t, o, c, r)
    /\ \A k \in Locks : /\ word'[k].cv = word[k].cv
                        /\ k # l => word'[k].wait = word[k].wait /\ word'[k].lock = word[k].lock
    /\ word'[l].lock <=> o # NULL
    /\ word'[l].wait <=> \E y \in Threads : y # o /\ Wants(y, l)
    /\ list' = [list EXCEPT ![Hash[l]] = r]
    /\ owner' = [owner EXCEPT ![l] = o]
    /\ held' = [held EXCEPT ![t] = @ \ {l}]
    /\ wait_src' = IF c THEN [wait_src EXCEPT ![t] = l] ELSE wait_src
    /\ tag' = IF c THEN [tag EXCEPT ![t] = "cv"] ELSE tag
    /\ UNCHANGED <<awaits, retired>>

LEMMA HandData ==
    ASSUME TypeOK, OwnerInv, QueueInv, BitsInv, RetireInv, \A u \in Threads : LocalOK(u),
           NEW t \in Threads, NEW l \in Locks, NEW o, NEW c \in BOOLEAN, NEW r,
           Hands(t, l, o, c, r)
    PROVE  /\ OwnerInv' /\ QueueInv' /\ BitsInv' /\ RetireInv'
           /\ \A u \in Threads : u # t => Respects(u)
           /\ \A x \in Threads : Given(x)' <=> Given(x) \/ x = o
<1>1. \A u \in Threads : u # t => SameView(u)
    BY OtherViews DEF Hands
<1>2. UNCHANGED <<awaits, retired>>
    BY DEF Hands
<1> DEFINE i == Hash[l]
           q == list[i]
<1>3. /\ NULL \notin Threads /\ NULL \notin Locks /\ t # NULL /\ i \in Lists
      /\ owner[l] = t /\ wait_src[t] # l
      /\ owner'[l] = o /\ \A k \in Locks : k # l => owner'[k] = owner[k]
      /\ held'[t] = held[t] \ {l} /\ \A u \in Threads : u # t => held'[u] = held[u]
      /\ \A u \in Threads : u # t => l \notin held[u]
      /\ list'[i] = r /\ \A j \in Lists : j # i => list'[j] = list[j]
      /\ q \in Seq(Threads) /\ Distinct(q)
    BY NullAssumption, Members DEF Hands, TypeOK, QueueInv, OwnerInv
<1>4. /\ wait_src'[t] = IF c THEN l ELSE wait_src[t]
      /\ \A u \in Threads : u # t => wait_src'[u] = wait_src[u]
      /\ c => wait_src[t] = NULL /\ awaits[t] = NULL /\ tag'[t] = "cv"
      /\ ~c => tag'[t] = tag[t]
      /\ \A u \in Threads : u # t => tag'[u] = tag[u]
    BY DEF Hands, TypeOK
<1>5. /\ o = NULL \/ (o \in Threads /\ Wants(o, l))
      /\ o # t
      /\ o = NULL => ~Queued(l)
    BY <1>3 DEF Hands, Wants
<1>6. \A x \in Threads : Given(x)' <=> Given(x) \/ x = o
    <2>1. ASSUME NEW x \in Threads, x # t, wait_src[x] = l
          PROVE  Given(x)' <=> Given(x) \/ x = o
        BY <1>3, <1>4, <2>1 DEF Given
    <2>2. ASSUME NEW x \in Threads, x # t, wait_src[x] # l
          PROVE  (Given(x)' <=> Given(x)) /\ x # o
        <3>1. wait_src[x] = NULL \/ wait_src[x] \in Locks
            BY DEF TypeOK
        <3>2. QED
            BY <1>3, <1>4, <1>5, <2>2, <3>1 DEF Given, Wants
    <2>3. (Given(t)' <=> Given(t)) /\ t # o
        <3>1. wait_src[t] = NULL \/ wait_src[t] \in Locks
            BY DEF TypeOK
        <3>2. QED
            BY <1>3, <1>4, <1>5, <3>1 DEF Given
    <2>4. QED
        BY <2>1, <2>2, <2>3
<1>7. /\ Queued(l)' <=> \E y \in Threads : y # o /\ Wants(y, l)
      /\ \A k \in Locks : k # l => (Queued(k)' <=> Queued(k))
      /\ Slept(l)' <=> Slept(l) \/ c
      /\ \A k \in Locks : k # l => (Slept(k)' <=> Slept(k))
    <2>1. \A x \in Threads : Wants(x, l)' <=> x # o /\ Wants(x, l)
        BY <1>3, <1>4, <1>5 DEF Wants
    <2>2. \A k \in Locks : \A x \in Threads : k # l => (Wants(x, k)' <=> Wants(x, k))
        BY <1>3, <1>4 DEF Wants
    <2>3. \A k \in Locks : \A x \in Threads :
             (wait_src'[x] = k /\ tag'[x] = "cv") <=>
                (wait_src[x] = k /\ tag[x] = "cv") \/ (c /\ x = t /\ k = l)
        BY <1>3, <1>4
    <2>4. QED
        BY <2>1, <2>2, <2>3 DEF Queued, Slept
<1>8. c => \A j \in Lists : t \notin ToSet(list[j])
    BY <1>4 DEF QueueInv
<1>9. \A j \in Lists : \A x \in Threads : x \in ToSet(list'[j]) <=>
         IF j = i THEN (x \in ToSet(list[j]) /\ x # o) \/ (c /\ x = t) ELSE x \in ToSet(list[j])
    BY <1>3 DEF Hands, Relisted
<1>10. \A u \in Threads : \A x \in ToSet(local[u].moving) :
          x \in Threads /\ u # t /\ (c => x # t)
    <2>1. ToSet(local[t].moving) = {}
        BY DEF Hands, ToSet
    <2>2. QED
        BY <1>3, <1>4, <2>1, MovingSource
<1>11. r \in Seq(Threads) /\ Distinct(r)
    BY DEF Hands, Relisted
<1>12. word'[l].wait <=> \E y \in Threads : y # o /\ Wants(y, l)
    BY DEF Hands
<1> HIDE DEF q, i
<1>13. OwnerInv'
    <2>1. \A u \in Threads : \A k \in held'[u] : owner'[k] = u
        BY <1>3, Members DEF OwnerInv
    <2>2. ASSUME NEW k \in Locks, NEW u \in Threads, owner'[k] = u
          PROVE  k \in held'[u] \/ wait_src'[u] = k \/ Unlocks(u, k)'
        <3>1. CASE k = l
            BY <1>3, <1>4, <1>5, <2>2, <3>1 DEF Wants
        <3>2. CASE k # l /\ u # t
            BY <1>1, <1>3, <1>4, <2>2, <3>2 DEF OwnerInv, SameView
        <3>3. CASE k # l /\ u = t
            <4>1. k \in held[t] \/ wait_src[t] = k \/ Unlocks(t, k)
                BY <1>3, <2>2, <3>3 DEF OwnerInv
            <4>2. ~Unlocks(t, k)
                BY <3>3 DEF Hands, Unlocks
            <4>3. QED
                BY <1>3, <1>4, <3>3, <4>1, <4>2
        <3>4. QED
            BY <3>1, <3>2, <3>3
    <2>3. \A k \in Locks : word'[k].lock <=> owner'[k] # NULL
        BY <1>3 DEF OwnerInv, Hands
    <2>4. \A k \in Locks : owner'[k] = NULL => ~Queued(k)'
        BY <1>3, <1>5, <1>7 DEF OwnerInv, Queued
    <2>5. \A u \in Threads : wait_src'[u] \notin held'[u]
        BY <1>3, <1>4 DEF OwnerInv
    <2>6. QED
        BY <2>1, <2>2, <2>3, <2>4, <2>5 DEF OwnerInv
<1>14. QueueInv'
    <2>1. \A j \in Lists : Distinct(list'[j])
        BY <1>3, <1>11 DEF QueueInv
    <2>2. ASSUME NEW j \in Lists, NEW x \in ToSet(list'[j])
          PROVE  wait_src'[x] # NULL /\ Hash[wait_src'[x]] = j /\ ~Given(x)'
        <3>1. x \in Threads
            <4>1. list'[j] \in Seq(Threads)
                BY <1>3, <1>11, Members
            <4>2. QED
                BY <4>1, EmptySet
        <3>2. CASE c /\ x = t /\ j = i
            <4>1. ~Given(t)'
                BY <1>3, <1>4, <1>5, <3>2 DEF Given
            <4>2. QED
                BY <1>3, <1>4, <3>2, <4>1 DEF i
        <3>3. CASE ~(c /\ x = t /\ j = i)
            <4>1. x \in ToSet(list[j]) /\ (j = i => x # o)
                BY <1>9, <2>2, <3>1, <3>3
            <4>2. c => x # t
                BY <1>8, <4>1
            <4>3. wait_src'[x] = wait_src[x]
                BY <1>4, <3>1, <4>2
            <4>4. wait_src[x] # NULL /\ Hash[wait_src[x]] = j /\ ~Given(x)
                BY <4>1 DEF QueueInv
            <4>5. x # o
                <5> SUFFICES ASSUME x = o PROVE FALSE
                    OBVIOUS
                <5>1. wait_src[x] = l
                    BY <1>3, <1>5, <3>1 DEF Wants
                <5>2. j = i
                    BY <4>4, <5>1 DEF i
                <5>3. QED
                    BY <4>1, <5>2
            <4>6. QED
                BY <1>6, <3>1, <4>3, <4>4, <4>5
        <3>4. QED
            BY <3>2, <3>3
    <2>3. \A u \in Threads : \A x \in ToSet(local'[u].moving) :
             /\ wait_src'[x] = local'[u].newlock /\ awaits'[x] = NULL
             /\ \A j \in Lists : x \notin ToSet(list'[j])
        <3>1. \A u \in Threads : local[u].moving = <<>> => ToSet(local[u].moving) = {}
            BY DEF ToSet
        <3>2. ASSUME NEW u \in Threads, NEW x \in ToSet(local[u].moving)
              PROVE  /\ wait_src'[x] = local[u].newlock /\ awaits'[x] = NULL
                     /\ \A j \in Lists : x \notin ToSet(list'[j])
            BY <1>2, <1>4, <1>9, <1>10 DEF QueueInv
        <3>3. ToSet(local'[t].moving) = {}
            BY DEF Hands, ToSet
        <3>4. QED
            BY <1>1, <3>1, <3>2, <3>3 DEF SameView
    <2>4. ASSUME NEW x \in Threads, wait_src'[x] # NULL, ~Given(x)'
          PROVE  \/ x \in ToSet(list'[Hash[wait_src'[x]]])
                 \/ \E u \in Threads : x \in ToSet(local'[u].moving)
        <3>1. CASE c /\ x = t
            BY <1>3, <1>4, <1>9, <3>1 DEF i
        <3>2. CASE ~(c /\ x = t)
            <4>1. wait_src'[x] = wait_src[x] /\ ~Given(x) /\ x # o
                BY <1>4, <1>6, <2>4, <3>2
            <4>2. Hash[wait_src[x]] \in Lists
                BY <2>4, <4>1, Members DEF TypeOK
            <4>3. CASE x \in ToSet(list[Hash[wait_src[x]]])
                BY <1>9, <4>1, <4>2, <4>3
            <4>4. CASE \E u \in Threads : x \in ToSet(local[u].moving)
                BY <1>1, <1>10, <4>4 DEF SameView
            <4>5. QED
                BY <2>4, <4>1, <4>3, <4>4 DEF QueueInv
        <3>3. QED
            BY <3>1, <3>2
    <2>5. QED
        BY <2>1, <2>2, <2>3, <2>4 DEF QueueInv
<1>15. BitsInv'
    <2>1. \A u \in Threads : \A b \in Pending(u)' : u # t /\ b \in Pending(u)
        BY <1>1 DEF Hands, SameView
    <2>2. \A u \in Threads : \A b \in Pending(u) : b.lock # l /\ b.lock \in Locks
        BY <1>3, Members DEF BitsInv, Hands
    <2>3. \A u \in Threads : \A b \in Pending(u)' :
             /\ owner'[b.lock] = u
             /\ b.value <=> IF b.name = "wait" THEN Queued(b.lock)' ELSE Slept(b.lock)'
             /\ b.name = "wait" /\ ~b.value => retired'[b.lock] = u
        BY <1>2, <1>3, <1>7, <2>1, <2>2 DEF BitsInv
    <2>4. \A u \in Threads : Pending(u)' = Pending(u)
        BY <1>1 DEF Hands, SameView
    <2>5. ASSUME NEW k \in Locks,
                 \A u \in Threads : \A b \in Pending(u)' : b.lock = k => b.name # "wait"
          PROVE  word'[k].wait <=> Queued(k)'
        <3>1. k # l => (word[k].wait <=> Queued(k)) /\ word'[k].wait = word[k].wait
            BY <2>4, <2>5 DEF BitsInv, Hands
        <3>2. QED
            BY <1>7, <1>12, <3>1
    <2>6. \A k \in Locks : k # l => ~Leaves(t, k)
        <3>1. ASSUME NEW k \in Locks, Leaves(t, k)
              PROVE  k \in held[t]
            BY <3>1 DEF LocalOK, Leaves, CvWaiting
        <3>2. ASSUME NEW k \in Locks, k # l, Leaves(t, k), ~c
              PROVE  FALSE
            BY <3>2 DEF Hands, Unlocks, Leaves
        <3>3. QED
            BY <3>1, <3>2 DEF Hands
    <2>7. ASSUME NEW k \in Locks,
                 \A u \in Threads : /\ \A b \in Pending(u)' : b.lock = k => b.name # "cv"
                                    /\ ~Leaves(u, k)'
          PROVE  word'[k].cv <=> Slept(k)'
        <3>1. word'[k].cv = word[k].cv
            BY DEF Hands
        <3>2. CASE k # l
            <4>1. \A u \in Threads : ~Leaves(u, k)
                BY <1>1, <2>6, <2>7, <3>2 DEF SameView
            <4>2. QED
                BY <1>7, <2>4, <2>7, <3>1, <3>2, <4>1 DEF BitsInv
        <3>3. CASE k = l /\ c
            BY <1>7, <3>1, <3>3 DEF Hands
        <3>4. CASE k = l /\ ~c
            <4>1. \A u \in Threads : ~Leaves(u, k)
                <5>1. \A u \in Threads : u # t => ~Leaves(u, k)
                    BY <1>1, <2>7 DEF SameView
                <5>2. ~Leaves(t, k)
                    BY <3>4 DEF Hands, Unlocks, Leaves
                <5>3. QED
                    BY <5>1, <5>2
            <4>2. QED
                BY <1>7, <2>4, <2>7, <3>1, <3>4, <4>1 DEF BitsInv
        <3>5. QED
            BY <3>2, <3>3, <3>4
    <2>8. QED
        BY <2>3, <2>5, <2>7 DEF BitsInv
<1>16. ASSUME NEW x \in Threads, retired[l] = o, o \in Threads, wait_src'[x] = l, x # o
       PROVE  awaits[x] = NULL
    <2>1. CASE c /\ x = t
        BY <1>4, <2>1
    <2>2. CASE ~(c /\ x = t)
        <3>1. wait_src[x] = l /\ x # t
            BY <1>3, <1>4, <1>16, <2>2
        <3>2. CASE tag[x] # "wait"
            BY <3>2 DEF LocalOK
        <3>3. CASE tag[x] = "wait"
            <4>1. Wants(x, l) /\ Wants(o, l) /\ wait_src[o] = l
                BY <1>3, <1>5, <1>16, <3>1, <3>3 DEF Wants
            <4>2. x \in ToSet(q) /\ o \in ToSet(q)
                BY <1>3, <1>5, <1>16, <3>1, <4>1, OnList DEF Hands, q, i
            <4>3. PICK a \in 1..Len(q) : q[a] = o
                BY <1>3, <4>2 DEF ToSet
            <4>4. PICK b \in 1..Len(q) : q[b] = x
                BY <1>3, <4>2 DEF ToSet
            <4>5. a <= b
                BY <1>3, <1>16, <4>1, <4>3, <4>4 DEF Hands, q, i
            <4>6. a < b
                BY <1>16, <4>3, <4>4, <4>5
            <4>7. \A m, n \in 1..Len(q) :
                     m < n /\ retired[l] = q[m] /\ wait_src[q[m]] = l /\ wait_src[q[n]] = l
                        => awaits[q[n]] = NULL
                BY RetiredFirst DEF q, i
            <4>8. retired[l] = q[a] /\ wait_src[q[a]] = l /\ wait_src[q[b]] = l
                BY <1>16, <3>1, <4>1, <4>3, <4>4
            <4>9. awaits[q[b]] = NULL
                BY <4>6, <4>7, <4>8
            <4>10. QED
                BY <4>4, <4>9
        <3>4. QED
            BY <3>2, <3>3
    <2>3. QED
        BY <2>1, <2>2
<1>17. RetireInv'
    <2>1. \A k \in Locks : \A u, v \in Threads : retired[k] = u /\ Goes(v, k)' => v = u
        BY <1>1 DEF RetireInv, SameView, Hands
    <2>2. ASSUME NEW k \in Locks, NEW u \in Threads, NEW x \in Threads,
                 retired[k] = u, owner'[k] = u, wait_src'[x] = k, x # u
          PROVE  awaits[x] = NULL
        <3>1. CASE k = l
            BY <1>3, <1>16, <2>2, <3>1
        <3>2. CASE k # l
            BY <1>3, <1>4, <2>2, <3>2 DEF RetireInv
        <3>3. QED
            BY <3>1, <3>2
    <2>3. ASSUME NEW k \in Locks, NEW a \in 1..Len(list'[Hash[k]]),
                 NEW b \in 1..Len(list'[Hash[k]]),
                 a < b, retired[k] = list'[Hash[k]][a],
                 wait_src'[list'[Hash[k]][a]] = k, wait_src'[list'[Hash[k]][b]] = k
          PROVE  awaits[list'[Hash[k]][b]] = NULL
        <3>1. CASE Hash[k] # i
            <4>1. list'[Hash[k]] = list[Hash[k]]
                BY <1>3, <3>1, Members
            <4>2. PICK x, y : x = list[Hash[k]][a] /\ y = list[Hash[k]][b]
                OBVIOUS
            <4>3. x \in ToSet(list[Hash[k]]) /\ y \in ToSet(list[Hash[k]]) /\ x \in Threads
                     /\ y \in Threads
                BY <2>3, <4>1, <4>2, Members DEF ToSet
            <4>4. wait_src[x] = k /\ wait_src[y] = k
                <5>1. Hash[k] \in Lists
                    BY Members
                <5>2. c => x # t /\ y # t
                    BY <1>8, <4>3, <5>1
                <5>3. QED
                    BY <1>4, <2>3, <4>1, <4>2, <4>3, <5>2
            <4>5. QED
                BY <2>3, <4>1, <4>2, <4>4 DEF RetireInv
        <3>2. CASE Hash[k] = i
            <4>1. list'[Hash[k]] = r /\ list[Hash[k]] = q
                BY <1>3, <3>2 DEF q
            <4>2. PICK x, y : x = r[a] /\ y = r[b]
                OBVIOUS
            <4>3. x \in Threads /\ y \in Threads
                BY <1>11, <2>3, <4>1, <4>2
            <4>4. CASE c /\ y = t
                BY <1>4, <4>1, <4>2, <4>4
            <4>5. CASE ~(c /\ y = t)
                <5>1. PICK d \in 1..Len(q), e \in 1..Len(q) : d < e /\ q[d] = x /\ q[e] = y
                    BY <2>3, <4>1, <4>2, <4>5 DEF Hands, Relisted, q, i
                <5>2. x \in ToSet(q) /\ y \in ToSet(q)
                    BY <1>3, <5>1 DEF ToSet
                <5>3. c => x # t /\ y # t
                    BY <1>3, <1>8, <5>2 DEF q
                <5>4. wait_src[x] = k /\ wait_src[y] = k /\ retired[k] = x
                    BY <1>4, <2>3, <4>1, <4>2, <4>3, <5>3
                <5>5. /\ d \in 1..Len(list[Hash[k]]) /\ e \in 1..Len(list[Hash[k]])
                      /\ list[Hash[k]][d] = x /\ list[Hash[k]][e] = y
                    BY <4>1, <5>1
                <5>6. awaits[y] = NULL
                    BY <5>1, <5>4, <5>5 DEF RetireInv
                <5>7. QED
                    BY <4>1, <4>2, <5>6
            <4>6. QED
                BY <4>4, <4>5
        <3>3. QED
            BY <3>1, <3>2
    <2>4. QED
        BY <1>2, <2>1, <2>2, <2>3 DEF RetireInv
<1>18. ASSUME NEW u \in Threads, u # t
       PROVE  Respects(u)
    <2>1. \A k \in Locks : owner[k] = u => k # l
        BY <1>3, <1>18
    <2>2. local'[u] = local[u]
        BY <1>18, OtherViews DEF Hands
    <2>3. awaits[u] # NULL => tag[u] = "wait"
        BY DEF LocalOK
    <2>4. \A k \in Locks : k # l /\ (\A x \in Threads : wait_src[x] # k)
             => \A x \in Threads : wait_src'[x] # k
        BY <1>4
    <2>5. \A k \in Locks : k # l => word'[k].cv = word[k].cv /\ word'[k].wait = word[k].wait
        BY DEF Hands
    <2>6. QED
        BY <1>2, <1>3, <1>4, <1>18, <2>1, <2>2, <2>3, <2>4, <2>5 DEF Respects
<1>19. QED
    BY <1>6, <1>13, <1>14, <1>15, <1>17, <1>18

-------------------------------------------------------------------------------
(* A thread enters a call: it has given up word l for the others, set its  *)
(* cv bit or made it unreachable, but not changed any queue yet.           *)

Begins(t, l) ==
    /\ Others(t) /\ Pending(t) = {} /\ Pending(t)' = {}
    /\ local[t].moving = <<>> /\ local'[t].moving = <<>>
    /\ \A k \in Locks : ~Unlocks(t, k) /\ ~Leaves(t, k)
    /\ \A k \in Locks : Goes(t, k)' => retired'[k] \in {NULL, t}
    /\ \A k \in Locks : /\ word'[k].lock = word[k].lock /\ word'[k].wait = word[k].wait
                        /\ word'[k].cv <=> word[k].cv \/ (k = l /\ Leaves(t, l)')
    /\ \/ held' = held
       \/ held' = [held EXCEPT ![t] = @ \ {l}] /\ Unlocks(t, l)'
    /\ \/ retired' = retired
       \/ /\ retired' = [retired EXCEPT ![l] = t] /\ retired[l] = NULL
          /\ owner[l] # t /\ wait_src[t] = NULL
          /\ \A u \in Threads : ~Goes(u, l)
    /\ UNCHANGED <<list, wait_src, tag, awaits, owner>>

LEMMA BeginData ==
    ASSUME TypeOK, OwnerInv, QueueInv, BitsInv, RetireInv, \A u \in Threads : LocalOK(u),
           NEW t \in Threads, NEW l \in Locks, Begins(t, l)
    PROVE  /\ OwnerInv' /\ QueueInv' /\ BitsInv' /\ RetireInv'
           /\ \A u \in Threads : u # t => Respects(u)
           /\ \A x \in Threads : Given(x)' <=> Given(x)
<1>1. \A u \in Threads : u # t => SameView(u)
    BY OtherViews DEF Begins
<1>2. UNCHANGED <<list, wait_src, tag, awaits, owner>>
    BY DEF Begins
<1>3. /\ NULL \notin Threads /\ NULL \notin Locks /\ t # NULL
      /\ \A u \in Threads : u # t => held'[u] = held[u]
      /\ held'[t] = held[t] \/ (held'[t] = held[t] \ {l} /\ Unlocks(t, l)')
    BY NullAssumption DEF Begins, TypeOK
<1>4. /\ \A k \in Locks : k # l => retired'[k] = retired[k]
      /\ \/ retired'[l] = retired[l]
         \/ /\ retired'[l] = t /\ retired[l] = NULL /\ owner[l] # t /\ wait_src[t] = NULL
            /\ \A u \in Threads : ~Goes(u, l)
    BY DEF Begins, TypeOK
<1>5. \A x \in Threads : Given(x)' <=> Given(x)
    BY <1>2 DEF Given
<1>6. \A k \in Locks : (Queued(k)' <=> Queued(k)) /\ (Slept(k)' <=> Slept(k))
    BY <1>2 DEF Queued, Slept, Wants
<1>7. OwnerInv'
    <2>1. \A u \in Threads : \A k \in held'[u] : owner'[k] = u
        BY <1>2, <1>3, Members DEF OwnerInv
    <2>2. ASSUME NEW k \in Locks, NEW u \in Threads, owner[k] = u
          PROVE  k \in held'[u] \/ wait_src[u] = k \/ Unlocks(u, k)'
        <3>1. k \in held[u] \/ wait_src[u] = k \/ Unlocks(u, k)
            BY <2>2 DEF OwnerInv
        <3>2. CASE u = t
            BY <1>3, <3>1, <3>2 DEF Begins
        <3>3. CASE u # t
            BY <1>1, <1>3, <3>1, <3>3 DEF SameView
        <3>4. QED
            BY <3>2, <3>3
    <2>3. \A k \in Locks : word'[k].lock <=> owner'[k] # NULL
        BY <1>2 DEF OwnerInv, Begins
    <2>4. \A k \in Locks : owner'[k] = NULL => ~Queued(k)'
        BY <1>2, <1>6 DEF OwnerInv
    <2>5. \A u \in Threads : wait_src'[u] \notin held'[u]
        BY <1>2, <1>3 DEF OwnerInv
    <2>6. QED
        BY <1>2, <2>1, <2>2, <2>3, <2>4, <2>5 DEF OwnerInv
<1>8. QueueInv'
    <2>1. \A u \in Threads : local'[u].moving = local[u].moving
        BY <1>1 DEF SameView, Begins
    <2>2. \A u \in Threads : local[u].moving = <<>> => ToSet(local[u].moving) = {}
        BY DEF ToSet
    <2>3. \A u \in Threads : \A x \in ToSet(local'[u].moving) :
             /\ wait_src'[x] = local'[u].newlock /\ awaits'[x] = NULL
             /\ \A i \in Lists : x \notin ToSet(list'[i])
        <3>1. ASSUME NEW u \in Threads, NEW x \in ToSet(local[u].moving)
              PROVE  u # t /\ local'[u].newlock = local[u].newlock
            BY <1>1, <2>2 DEF SameView, Begins
        <3>2. QED
            BY <1>2, <2>1, <3>1 DEF QueueInv
    <2>4. \A x \in Threads : wait_src'[x] # NULL /\ ~Given(x)' =>
             \/ x \in ToSet(list'[Hash[wait_src'[x]]])
             \/ \E u \in Threads : x \in ToSet(local'[u].moving)
        BY <1>2, <1>5, <2>1 DEF QueueInv
    <2>5. QED
        BY <1>2, <1>5, <2>3, <2>4, QueueKept
<1>9. BitsInv'
    <2>1. \A u \in Threads : Pending(u)' = Pending(u)
        BY <1>1 DEF Begins, SameView
    <2>2. \A u \in Threads : \A b \in Pending(u) :
             /\ owner'[b.lock] = u
             /\ b.value <=> IF b.name = "wait" THEN Queued(b.lock)' ELSE Slept(b.lock)'
             /\ b.name = "wait" /\ ~b.value => retired'[b.lock] = u
        BY <1>2, <1>3, <1>4, <1>6, Members DEF BitsInv
    <2>3. \A k \in Locks :
             /\ word'[k].wait = word[k].wait
             /\ word'[k].cv <=> word[k].cv \/ (k = l /\ Leaves(t, l)')
        BY DEF Begins
    <2>4. \A k \in Locks : \A u \in Threads : Leaves(u, k) => Leaves(u, k)'
        BY <1>1 DEF Begins, SameView
    <2>5. QED
        BY <1>6, <2>1, <2>2, <2>3, <2>4 DEF BitsInv
<1>10. RetireInv'
    <2>1. ASSUME NEW k \in Locks, NEW u \in Threads, NEW v \in Threads,
                 retired'[k] = u, Goes(v, k)'
          PROVE  v = u
        <3>1. CASE v = t
            BY <1>3, <2>1, <3>1 DEF Begins
        <3>2. CASE v # t
            <4>1. Goes(v, k)
                BY <1>1, <2>1, <3>2 DEF SameView
            <4>2. QED
                BY <1>4, <2>1, <4>1 DEF RetireInv
        <3>3. QED
            BY <3>1, <3>2
    <2>2. \A k \in Locks : \A u, x \in Threads :
             retired'[k] = u /\ owner'[k] = u /\ wait_src'[x] = k /\ x # u => awaits'[x] = NULL
        BY <1>2, <1>4 DEF RetireInv
    <2>3. ASSUME NEW k \in Locks, NEW i \in 1..Len(list[Hash[k]]), NEW j \in 1..Len(list[Hash[k]]),
                 i < j, retired'[k] = list[Hash[k]][i],
                 wait_src[list[Hash[k]][i]] = k, wait_src[list[Hash[k]][j]] = k
          PROVE  awaits[list[Hash[k]][j]] = NULL
        <3>1. retired[k] = list[Hash[k]][i]
            BY <1>3, <1>4, <2>3
        <3>2. QED
            BY <2>3, <3>1 DEF RetireInv
    <2>4. QED
        BY <1>2, <2>1, <2>2, <2>3 DEF RetireInv
<1>11. ASSUME NEW u \in Threads, u # t
       PROVE  Respects(u)
    <2>1. \A k \in Locks : retired[k] = u => retired'[k] = u
        BY <1>3, <1>4
    <2>2. local'[u] = local[u]
        BY <1>11, OtherViews DEF Begins
    <2>3. awaits[u] # NULL => tag[u] = "wait"
        BY DEF LocalOK
    <2>4. QED
        BY <1>2, <1>3, <1>11, <2>1, <2>2, <2>3 DEF Respects, Begins
<1>12. QED
    BY <1>5, <1>7, <1>8, <1>9, <1>10, <1>11

-------------------------------------------------------------------------------
(* A thread finds that it was given a word. *)

Finishes(t, l) ==
    /\ Others(t) /\ Pending(t) = {} /\ Pending(t)' = {}
    /\ local[t].moving = <<>> /\ local'[t].moving = <<>>
    /\ \A k \in Locks : ~Unlocks(t, k) /\ ~Leaves(t, k)
    /\ \A k \in Locks : ~Unlocks(t, k)' /\ ~Leaves(t, k)' /\ ~Goes(t, k)'
    /\ wait_src[t] = l /\ owner[l] = t /\ tag[t] = "wait"
    /\ wait_src' = [wait_src EXCEPT ![t] = NULL]
    /\ awaits' = [awaits EXCEPT ![t] = NULL]
    /\ held' = [held EXCEPT ![t] = @ \cup {l}]
    /\ UNCHANGED <<word, list, tag, retired, owner>>

LEMMA FinishData ==
    ASSUME TypeOK, OwnerInv, QueueInv, BitsInv, RetireInv, \A u \in Threads : LocalOK(u),
           NEW t \in Threads, NEW l \in Locks, Finishes(t, l)
    PROVE  /\ OwnerInv' /\ QueueInv' /\ BitsInv' /\ RetireInv'
           /\ \A u \in Threads : u # t => Respects(u)
           /\ \A x \in Threads : Given(x)' <=> Given(x) /\ x # t
<1>1. \A u \in Threads : u # t => SameView(u)
    BY OtherViews DEF Finishes
<1>2. UNCHANGED <<word, list, tag, retired, owner>>
    BY DEF Finishes
<1>3. /\ NULL \notin Threads /\ NULL \notin Locks /\ t # NULL
      /\ wait_src[t] = l /\ owner[l] = t /\ tag[t] = "wait" /\ wait_src'[t] = NULL
      /\ \A u \in Threads : u # t => wait_src'[u] = wait_src[u]
      /\ awaits'[t] = NULL /\ \A u \in Threads : u # t => awaits'[u] = awaits[u]
      /\ held'[t] = held[t] \cup {l} /\ \A u \in Threads : u # t => held'[u] = held[u]
    BY NullAssumption DEF Finishes, TypeOK
<1>4. Given(t)
    BY <1>3 DEF Given
<1>5. \A x \in Threads : Given(x)' <=> Given(x) /\ x # t
    BY <1>2, <1>3 DEF Given
<1>6. \A k \in Locks : (Queued(k)' <=> Queued(k)) /\ (Slept(k)' <=> Slept(k))
    <2>1. \A k \in Locks : \A x \in Threads : Wants(x, k)' <=> Wants(x, k)
        BY <1>2, <1>3 DEF Wants
    <2>2. \A k \in Locks : \A x \in Threads :
             (wait_src'[x] = k /\ tag'[x] = "cv") <=> (wait_src[x] = k /\ tag[x] = "cv")
        BY <1>2, <1>3
    <2>3. QED
        BY <2>1, <2>2 DEF Queued, Slept
<1>7. \A i \in Lists : t \notin ToSet(list[i])
    BY <1>4 DEF QueueInv
<1>8. \A u \in Threads : \A x \in ToSet(local[u].moving) : x \in Threads /\ u # t /\ x # t
    <2>1. ToSet(local[t].moving) = {}
        BY DEF Finishes, ToSet
    <2>2. QED
        BY <1>3, <2>1, MovingSource
<1>9. \A u \in Threads : local'[u].moving = local[u].moving /\ Pending(u)' = Pending(u)
    BY <1>1 DEF SameView, Finishes
<1>10. OwnerInv'
    <2>1. \A u \in Threads : \A k \in held'[u] : owner'[k] = u
        BY <1>2, <1>3, Members DEF OwnerInv
    <2>2. ASSUME NEW k \in Locks, NEW u \in Threads, owner[k] = u
          PROVE  k \in held'[u] \/ wait_src'[u] = k \/ Unlocks(u, k)'
        <3>1. k \in held[u] \/ wait_src[u] = k \/ Unlocks(u, k)
            BY <2>2 DEF OwnerInv
        <3>2. CASE u = t
            BY <1>3, <3>1, <3>2 DEF Finishes
        <3>3. CASE u # t
            BY <1>1, <1>3, <3>1, <3>3 DEF SameView
        <3>4. QED
            BY <3>2, <3>3
    <2>3. \A k \in Locks : owner'[k] = NULL => ~Queued(k)'
        BY <1>2, <1>6 DEF OwnerInv
    <2>4. \A u \in Threads : wait_src'[u] \notin held'[u]
        BY <1>3, Members DEF OwnerInv
    <2>5. QED
        BY <1>2, <2>1, <2>2, <2>3, <2>4 DEF OwnerInv
<1>11. QueueInv'
    <2>1. ASSUME NEW i \in Lists, NEW x \in ToSet(list[i])
          PROVE  wait_src'[x] # NULL /\ Hash[wait_src'[x]] = i /\ ~Given(x)'
        <3>1. x \in Threads /\ x # t
            BY <1>7, Members
        <3>2. QED
            BY <1>3, <1>5, <3>1 DEF QueueInv
    <2>2. ASSUME NEW u \in Threads, NEW x \in ToSet(local'[u].moving)
          PROVE  /\ wait_src'[x] = local'[u].newlock /\ awaits'[x] = NULL
                 /\ \A i \in Lists : x \notin ToSet(list'[i])
        <3>1. x \in ToSet(local[u].moving) /\ x \in Threads /\ u # t /\ x # t
            BY <1>8, <1>9
        <3>2. local'[u].newlock = local[u].newlock
            BY <3>1, OtherViews DEF Finishes
        <3>3. QED
            BY <1>2, <1>3, <3>1, <3>2 DEF QueueInv
    <2>3. \A x \in Threads : wait_src'[x] # NULL /\ ~Given(x)' =>
             \/ x \in ToSet(list'[Hash[wait_src'[x]]])
             \/ \E u \in Threads : x \in ToSet(local'[u].moving)
        BY <1>2, <1>3, <1>5, <1>9 DEF QueueInv
    <2>4. QED
        BY <1>2, <2>1, <2>2, <2>3 DEF QueueInv
<1>12. BitsInv'
    <2>1. \A k \in Locks : \A u \in Threads : Leaves(u, k)' <=> Leaves(u, k)
        BY <1>1 DEF Finishes, SameView
    <2>2. QED
        BY <1>2, <1>6, <1>9, <2>1, Members DEF BitsInv
<1>13. RetireInv'
    <2>1. \A k \in Locks : \A u, v \in Threads : retired'[k] = u /\ Goes(v, k)' => v = u
        BY <1>1, <1>2 DEF RetireInv, SameView, Finishes
    <2>2. \A k \in Locks : \A u, x \in Threads :
             retired'[k] = u /\ owner'[k] = u /\ wait_src'[x] = k /\ x # u => awaits'[x] = NULL
        BY <1>2, <1>3 DEF RetireInv
    <2>3. ASSUME NEW k \in Locks, NEW i \in 1..Len(list[Hash[k]]), NEW j \in 1..Len(list[Hash[k]]),
                 i < j, retired[k] = list[Hash[k]][i],
                 wait_src'[list[Hash[k]][i]] = k, wait_src'[list[Hash[k]][j]] = k
          PROVE  awaits'[list[Hash[k]][j]] = NULL
        <3>1. PICK x, y : x = list[Hash[k]][i] /\ y = list[Hash[k]][j]
            OBVIOUS
        <3>2. x \in Threads /\ y \in Threads
            BY <2>3, <3>1, Members
        <3>3. wait_src[x] = k /\ wait_src[y] = k /\ y # t
            BY <1>3, <2>3, <3>1, <3>2
        <3>4. awaits[y] = NULL
            BY <2>3, <3>1, <3>3 DEF RetireInv
        <3>5. QED
            BY <1>3, <3>1, <3>2, <3>3, <3>4
    <2>4. QED
        BY <1>2, <2>1, <2>2, <2>3 DEF RetireInv
<1>14. ASSUME NEW u \in Threads, u # t
       PROVE  Respects(u)
    <2>1. local'[u] = local[u]
        BY <1>14, OtherViews DEF Finishes
    <2>2. awaits[u] # NULL => tag[u] = "wait"
        BY DEF LocalOK
    <2>3. QED
        BY <1>2, <1>3, <1>14, <2>1, <2>2 DEF Respects
<1>15. QED
    BY <1>5, <1>10, <1>11, <1>12, <1>13, <1>14

-------------------------------------------------------------------------------
(* The owner of a word notifies threads in a condition wait: the set s. *)

(* Changes of different bits, one sequence after the other. *)
LEMMA BitsConcat ==
    ASSUME NEW p \in Seq(BitChanges), NEW q \in Seq(BitChanges),
           DifferentBits(p), DifferentBits(q),
           \A b \in ToSet(p), c \in ToSet(q) : ~(b.lock = c.lock /\ b.name = c.name)
    PROVE  /\ p \o q \in Seq(BitChanges)
           /\ \A b : b \in ToSet(p \o q) <=> b \in ToSet(p) \/ b \in ToSet(q)
           /\ DifferentBits(p \o q)
<1>1. PICK r : r = p \o q
    OBVIOUS
<1>2. /\ r \in Seq(BitChanges) /\ Len(p) \in Nat /\ Len(q) \in Nat
      /\ Len(r) = Len(p) + Len(q)
      /\ \A i \in 1..Len(r) : r[i] = IF i <= Len(p) THEN p[i] ELSE q[i - Len(p)]
    BY <1>1, ConcatProperties
<1>3. ToSet(r) = ToSet(p) \cup ToSet(q)
    BY <1>1, ConcatSet
<1>4. \A i \in 1..Len(r) : \/ i \in 1..Len(p) /\ r[i] = p[i]
                           \/ i - Len(p) \in 1..Len(q) /\ r[i] = q[i - Len(p)]
    BY <1>2
<1>5. ASSUME NEW i \in 1..Len(r), NEW j \in 1..Len(r),
             r[i].lock = r[j].lock, r[i].name = r[j].name
      PROVE  i = j
    <2>1. \A k \in 1..Len(p) : p[k] \in ToSet(p)
        BY DEF ToSet
    <2>2. \A k \in 1..Len(q) : q[k] \in ToSet(q)
        BY DEF ToSet
    <2>3. CASE i \in 1..Len(p) /\ r[i] = p[i] /\ j \in 1..Len(p) /\ r[j] = p[j]
        BY <1>5, <2>3 DEF DifferentBits
    <2>4. CASE /\ i - Len(p) \in 1..Len(q) /\ r[i] = q[i - Len(p)]
               /\ j - Len(p) \in 1..Len(q) /\ r[j] = q[j - Len(p)]
        <3>1. i - Len(p) = j - Len(p)
            BY <1>5, <2>4 DEF DifferentBits
        <3>2. QED
            BY <1>2, <3>1
    <2>5. QED
        BY <1>4, <1>5, <2>1, <2>2, <2>3, <2>4
<1>6. QED
    BY <1>1, <1>2, <1>3, <1>5 DEF DifferentBits

LEMMA FewBits ==
    ASSUME NEW v \in BitChanges
    PROVE  /\ <<v>> \in Seq(BitChanges) /\ DifferentBits(<<v>>)
           /\ \A b : b \in ToSet(<<v>>) <=> b = v
           /\ <<>> \in Seq(BitChanges) /\ DifferentBits(<<>>)
           /\ \A b : b \notin ToSet(<<>>)
           /\ \A w \in BitChanges : v.lock # w.lock =>
                 /\ <<v, w>> \in Seq(BitChanges) /\ DifferentBits(<<v, w>>)
                 /\ \A b : b \in ToSet(<<v, w>>) <=> b = v \/ b = w
<1>1. ASSUME NEW w \in BitChanges, v.lock # w.lock, NEW q, q = <<v, w>>
      PROVE  /\ q \in Seq(BitChanges) /\ DifferentBits(q)
             /\ \A b : b \in ToSet(q) <=> b = v \/ b = w
    <2>1. q \in Seq(BitChanges) /\ Len(q) = 2 /\ q[1] = v /\ q[2] = w /\ DOMAIN q = 1..2
        BY <1>1
    <2>2. \A i \in 1..2 : i = 1 \/ i = 2
        OBVIOUS
    <2>3. 1 \in 1..2 /\ 2 \in 1..2
        OBVIOUS
    <2>4. QED
        BY <1>1, <2>1, <2>2, <2>3 DEF DifferentBits, ToSet
<1>2. <<v>> \in Seq(BitChanges) /\ DifferentBits(<<v>>) /\ \A b : b \in ToSet(<<v>>) <=> b = v
    <2>1. PICK q : q = <<v>>
        OBVIOUS
    <2>2. q \in Seq(BitChanges) /\ Len(q) = 1 /\ q[1] = v /\ DOMAIN q = 1..1
        BY <2>1
    <2>3. \A i \in 1..1 : i = 1
        OBVIOUS
    <2>4. 1 \in 1..1
        OBVIOUS
    <2>5. DifferentBits(q) /\ \A b : b \in ToSet(q) <=> b = v
        BY <2>2, <2>3, <2>4 DEF DifferentBits, ToSet
    <2>6. QED
        BY <2>1, <2>2, <2>5
<1>3. <<>> \in Seq(BitChanges) /\ DifferentBits(<<>>) /\ \A b : b \notin ToSet(<<>>)
    BY DEF DifferentBits, ToSet
<1>4. QED
    BY <1>1, <1>2, <1>3

LEMMA NotifyBitsIs ==
    ASSUME NEW l \in Locks, NEW last \in BOOLEAN, NEW q, q = NotifyBits(l, last)
    PROVE  /\ q \in Seq(BitChanges) /\ q # <<>> /\ DifferentBits(q)
           /\ \A b \in ToSet(q) : b.lock = l
           /\ \A b \in ToSet(q) : b.name = "wait" => b.value = TRUE
           /\ \A b \in ToSet(q) : b.name = "cv" => b.value = FALSE /\ last
           /\ \E b \in ToSet(q) : b.name = "wait"
           /\ last => \E b \in ToSet(q) : b.name = "cv"
<1> DEFINE v == Bit(l, "cv", FALSE)
           w == Bit(l, "wait", TRUE)
           p == IF last THEN <<v>> ELSE <<>>
           r == <<w>>
<1>1. /\ v \in BitChanges /\ w \in BitChanges /\ v.lock = l /\ w.lock = l
      /\ v.name = "cv" /\ w.name = "wait" /\ v.value = FALSE /\ w.value = TRUE
    BY DEF Bit, BitChanges
<1>2. q = p \o r
    BY DEF NotifyBits
<1> HIDE DEF v, w
<1>3. p \in Seq(BitChanges) /\ DifferentBits(p) /\ \A b : b \in ToSet(p) <=> last /\ b = v
    BY <1>1, FewBits
<1>4. r \in Seq(BitChanges) /\ DifferentBits(r) /\ \A b : b \in ToSet(r) <=> b = w
    BY <1>1, FewBits
<1> HIDE DEF p, r
<1>5. /\ q \in Seq(BitChanges) /\ DifferentBits(q)
      /\ \A b : b \in ToSet(q) <=> (last /\ b = v) \/ b = w
    <2>1. \A b \in ToSet(p), c \in ToSet(r) : ~(b.lock = c.lock /\ b.name = c.name)
        BY <1>1, <1>3, <1>4
    <2>2. /\ p \o r \in Seq(BitChanges) /\ DifferentBits(p \o r)
          /\ \A b : b \in ToSet(p \o r) <=> b \in ToSet(p) \/ b \in ToSet(r)
        BY <1>3, <1>4, <2>1, BitsConcat
    <2>3. QED
        BY <1>2, <1>3, <1>4, <2>2
<1>6. q # <<>>
    BY <1>5, EmptySet
<1>7. QED
    BY <1>1, <1>5, <1>6

(* What a notification finds. *)
LEMMA Sleepers ==
    ASSUME TypeOK, OwnerInv, QueueInv, \A u \in Threads : LocalOK(u),
           NEW t \in Threads, NEW l \in Locks, owner[l] = t, local[t].moving = <<>>,
           wait_src[t] # l, NEW m, m = Matching(l, "cv")
    PROVE  /\ m \in Seq(Threads)
           /\ \A x \in Threads : x \in ToSet(m) <=> wait_src[x] = l /\ tag[x] = "cv"
<1> DEFINE q == list[Hash[l]]
           s == {x \in Sources(l) : tag[x] = "cv"}
<1>1. q \in Seq(Threads) /\ Distinct(q)
    BY Members DEF QueueInv
<1>2. m = Filter(q, s)
    BY DEF Matching
<1>3. \A x \in Threads : x \in s <=> wait_src[x] = l /\ tag[x] = "cv"
    BY DEF Sources
<1>4. \A x \in Threads : wait_src[x] = l => x \in ToSet(q)
    BY OnList
<1> HIDE DEF q, s
<1>5. Filter(q, s) \in Seq(Threads) /\ ToSet(Filter(q, s)) = ToSet(q) \cap s
    BY <1>1, FilterIs
<1>6. QED
    BY <1>2, <1>3, <1>4, <1>5

Notifies(t, l, s) ==
    /\ Others(t) /\ Pending(t) = {}
    /\ local[t].moving = <<>> /\ local'[t].moving = <<>>
    /\ \A k \in Locks : ~Unlocks(t, k) /\ ~Leaves(t, k)
    /\ \A k \in Locks : ~Unlocks(t, k)' /\ ~Leaves(t, k)' /\ ~Goes(t, k)'
    /\ l \in held[t] /\ owner[l] = t /\ wait_src[t] = NULL /\ word[l].cv
    /\ s # {} /\ \A x \in s : x \in Threads /\ wait_src[x] = l /\ tag[x] = "cv"
    /\ tag' = [x \in Threads |-> IF x \in s THEN "wait" ELSE tag[x]]
    /\ \E last \in BOOLEAN :
          /\ Pending(t)' = ToSet(NotifyBits(l, last))
          /\ last <=> \A x \in Threads : wait_src[x] = l /\ tag[x] = "cv" => x \in s
    /\ UNCHANGED <<word, list, wait_src, awaits, held, retired, owner>>

LEMMA NotifyData ==
    ASSUME TypeOK, OwnerInv, QueueInv, BitsInv, RetireInv, \A u \in Threads : LocalOK(u),
           NEW t \in Threads, NEW l \in Locks, NEW s, Notifies(t, l, s)
    PROVE  /\ OwnerInv' /\ QueueInv' /\ BitsInv' /\ RetireInv'
           /\ \A u \in Threads : u # t => Respects(u)
           /\ \A x \in Threads : Given(x)' <=> Given(x)
<1>1. \A u \in Threads : u # t => SameView(u)
    BY OtherViews DEF Notifies
<1>2. UNCHANGED <<word, list, wait_src, awaits, held, retired, owner>>
    BY DEF Notifies
<1>3. /\ NULL \notin Threads /\ NULL \notin Locks /\ t # NULL
      /\ owner[l] = t /\ wait_src[t] = NULL /\ word[l].cv
      /\ \A x \in Threads : tag'[x] = IF x \in s THEN "wait" ELSE tag[x]
      /\ s # {} /\ \A x \in s : x \in Threads /\ wait_src[x] = l /\ tag[x] = "cv"
    BY NullAssumption DEF Notifies
<1>4. PICK last \in BOOLEAN :
          /\ Pending(t)' = ToSet(NotifyBits(l, last))
          /\ last <=> \A x \in Threads : wait_src[x] = l /\ tag[x] = "cv" => x \in s
    BY DEF Notifies
<1>5. \A x \in Threads : Given(x)' <=> Given(x)
    BY <1>2 DEF Given
<1>6. /\ Queued(l)' /\ (\A k \in Locks : k # l => (Queued(k)' <=> Queued(k)))
      /\ Slept(l)' <=> ~last
      /\ \A k \in Locks : k # l => (Slept(k)' <=> Slept(k))
    <2>1. \A k \in Locks : \A x \in Threads : k # l => (Wants(x, k)' <=> Wants(x, k))
        BY <1>2, <1>3 DEF Wants
    <2>2. \A k \in Locks : \A x \in Threads : k # l =>
             ((wait_src'[x] = k /\ tag'[x] = "cv") <=> (wait_src[x] = k /\ tag[x] = "cv"))
        BY <1>2, <1>3
    <2>3. Queued(l)'
        <3>1. PICK x \in s : x \in Threads /\ wait_src[x] = l
            BY <1>3
        <3>2. Wants(x, l)'
            BY <1>2, <1>3, <3>1 DEF Wants
        <3>3. QED
            BY <3>1, <3>2 DEF Queued
    <2>4. Slept(l)' <=> ~last
        <3>1. \A x \in Threads : (wait_src'[x] = l /\ tag'[x] = "cv") <=>
                 wait_src[x] = l /\ tag[x] = "cv" /\ x \notin s
            BY <1>2, <1>3
        <3>2. QED
            BY <1>4, <3>1 DEF Slept
    <2>5. QED
        BY <2>1, <2>2, <2>3, <2>4 DEF Queued, Slept
<1>7. OwnerInv'
    <2>1. ASSUME NEW k \in Locks, NEW u \in Threads, owner[k] = u
          PROVE  k \in held[u] \/ wait_src[u] = k \/ Unlocks(u, k)'
        <3>1. k \in held[u] \/ wait_src[u] = k \/ Unlocks(u, k)
            BY <2>1 DEF OwnerInv
        <3>2. QED
            BY <1>1, <3>1 DEF SameView, Notifies
    <2>2. \A k \in Locks : owner'[k] = NULL => ~Queued(k)'
        BY <1>2, <1>3, <1>6 DEF OwnerInv
    <2>3. QED
        BY <1>2, <2>1, <2>2 DEF OwnerInv
<1>8. QueueInv'
    <2>1. \A u \in Threads : local'[u].moving = local[u].moving
        BY <1>1 DEF SameView, Notifies
    <2>2. ASSUME NEW u \in Threads, NEW x \in ToSet(local'[u].moving)
          PROVE  /\ wait_src'[x] = local'[u].newlock /\ awaits'[x] = NULL
                 /\ \A i \in Lists : x \notin ToSet(list'[i])
        <3>1. x \in ToSet(local[u].moving) /\ u # t
            BY <2>1 DEF ToSet, Notifies
        <3>2. local'[u].newlock = local[u].newlock
            BY <3>1, OtherViews DEF Notifies
        <3>3. QED
            BY <1>2, <3>1, <3>2 DEF QueueInv
    <2>3. \A x \in Threads : wait_src'[x] # NULL /\ ~Given(x)' =>
             \/ x \in ToSet(list'[Hash[wait_src'[x]]])
             \/ \E u \in Threads : x \in ToSet(local'[u].moving)
        BY <1>2, <1>5, <2>1 DEF QueueInv
    <2>4. QED
        BY <1>2, <1>5, <2>2, <2>3, Members DEF QueueInv
<1>9. BitsInv'
    <2> DEFINE P == Pending(t)'
    <2>1. /\ \A b \in P : b.lock = l
          /\ \A b \in P : b \in BitChanges
          /\ \A b \in P : b.name = "wait" => b.value = TRUE
          /\ \A b \in P : b.name = "cv" => b.value = FALSE /\ last
          /\ \E b \in P : b.name = "wait"
          /\ last => \E b \in P : b.name = "cv"
        <3>1. PICK q : q = NotifyBits(l, last)
            OBVIOUS
        <3>2. P = ToSet(q)
            BY <1>4, <3>1
        <3> HIDE DEF P
        <3>3. QED
            BY <3>1, <3>2, NotifyBitsIs, EmptySet
    <2>2. \A b \in P : b.name \in {"wait", "cv"}
        BY <2>1 DEF BitChanges
    <2>3. \A u \in Threads : u # t => Pending(u)' = Pending(u)
        BY <1>1 DEF SameView
    <2>4. \A u \in Threads : \A b \in Pending(u) : b.lock # l /\ b.lock \in Locks /\ u # t
        BY <1>3, Members DEF BitsInv, Notifies
    <2>5. \A b \in P :
             /\ owner'[b.lock] = t
             /\ b.value <=> IF b.name = "wait" THEN Queued(b.lock)' ELSE Slept(b.lock)'
             /\ b.name = "wait" /\ ~b.value => retired'[b.lock] = t
        BY <1>2, <1>3, <1>6, <2>1, <2>2
    <2> HIDE DEF P
    <2>6. \A u \in Threads : \A b \in Pending(u)' :
             /\ owner'[b.lock] = u
             /\ b.value <=> IF b.name = "wait" THEN Queued(b.lock)' ELSE Slept(b.lock)'
             /\ b.name = "wait" /\ ~b.value => retired'[b.lock] = u
        <3>1. ASSUME NEW u \in Threads, u # t, NEW b \in Pending(u)
              PROVE  /\ owner'[b.lock] = u
                     /\ b.value <=> IF b.name = "wait" THEN Queued(b.lock)' ELSE Slept(b.lock)'
                     /\ b.name = "wait" /\ ~b.value => retired'[b.lock] = u
            BY <1>2, <1>6, <2>4 DEF BitsInv
        <3>2. QED
            BY <2>3, <2>5, <3>1 DEF P
    <2>7. ASSUME NEW k \in Locks,
                 \A u \in Threads : \A b \in Pending(u)' : b.lock = k => b.name # "wait"
          PROVE  word'[k].wait <=> Queued(k)'
        <3>1. k # l
            BY <2>1, <2>7 DEF P
        <3>2. \A u \in Threads : \A b \in Pending(u) : b.lock = k => b.name # "wait"
            BY <2>3, <2>4, <2>7
        <3>3. QED
            BY <1>2, <1>6, <3>1, <3>2 DEF BitsInv
    <2>8. ASSUME NEW k \in Locks,
                 \A u \in Threads : /\ \A b \in Pending(u)' : b.lock = k => b.name # "cv"
                                    /\ ~Leaves(u, k)'
          PROVE  word'[k].cv <=> Slept(k)'
        <3>1. CASE k = l
            <4>1. ~last
                BY <2>1, <2>8, <3>1 DEF P
            <4>2. QED
                BY <1>2, <1>3, <1>6, <3>1, <4>1
        <3>2. CASE k # l
            <4>1. \A u \in Threads : \A b \in Pending(u) : b.lock = k => b.name # "cv"
                BY <2>3, <2>4, <2>8
            <4>2. \A u \in Threads : ~Leaves(u, k)
                BY <1>1, <2>8 DEF SameView, Notifies
            <4>3. QED
                BY <1>2, <1>6, <3>2, <4>1, <4>2 DEF BitsInv
        <3>3. QED
            BY <3>1, <3>2
    <2>9. QED
        BY <2>6, <2>7, <2>8 DEF BitsInv
<1>10. RetireInv'
    <2>1. \A k \in Locks : \A u, v \in Threads : retired'[k] = u /\ Goes(v, k)' => v = u
        BY <1>1, <1>2 DEF RetireInv, SameView, Notifies
    <2>2. QED
        BY <1>2, <2>1 DEF RetireInv
<1>11. ASSUME NEW u \in Threads, u # t
       PROVE  Respects(u)
    <2>1. local'[u] = local[u]
        BY <1>11, OtherViews DEF Notifies
    <2>2. awaits[u] # NULL => tag'[u] = "wait"
        BY <1>3 DEF LocalOK
    <2>3. QED
        BY <1>2, <1>11, <2>1, <2>2 DEF Respects
<1>12. QED
    BY <1>5, <1>7, <1>8, <1>9, <1>10, <1>11

-------------------------------------------------------------------------------
(* The waiters of word l, which its owner has retired, become waiters of   *)
(* another word of the owner.                                              *)

LEMMA RekeyBitsIs ==
    ASSUME NEW l \in Locks, NEW m \in Locks, l # m, NEW g, NEW q, q = RekeyBits(l, m, g)
    PROVE  /\ q \in Seq(BitChanges) /\ DifferentBits(q)
           /\ \A b \in ToSet(q) : /\ b.lock \in {l, m} /\ b.name \in g
                                  /\ b.value <=> b.lock = m
           /\ \A n \in {"wait", "cv"} : n \in g => \A k \in {l, m} :
                 \E b \in ToSet(q) : b.lock = k /\ b.name = n
<1> DEFINE a == Bit(m, "wait", TRUE)
           b == Bit(l, "wait", FALSE)
           c == Bit(m, "cv", TRUE)
           d == Bit(l, "cv", FALSE)
           p == IF "wait" \in g THEN <<a, b>> ELSE <<>>
           r == IF "cv" \in g THEN <<c, d>> ELSE <<>>
<1>1. /\ a \in BitChanges /\ a.lock = m /\ a.name = "wait" /\ a.value = TRUE
      /\ b \in BitChanges /\ b.lock = l /\ b.name = "wait" /\ b.value = FALSE
      /\ c \in BitChanges /\ c.lock = m /\ c.name = "cv" /\ c.value = TRUE
      /\ d \in BitChanges /\ d.lock = l /\ d.name = "cv" /\ d.value = FALSE
    BY DEF Bit, BitChanges
<1>2. q = p \o r
    BY DEF RekeyBits
<1> HIDE DEF a, b, c, d
<1>3. /\ p \in Seq(BitChanges) /\ DifferentBits(p)
      /\ \A e : e \in ToSet(p) <=> "wait" \in g /\ (e = a \/ e = b)
    <2>1. /\ <<a, b>> \in Seq(BitChanges) /\ DifferentBits(<<a, b>>)
          /\ \A e : e \in ToSet(<<a, b>>) <=> e = a \/ e = b
        BY <1>1, FewBits
    <2>2. CASE "wait" \in g
        BY <2>1, <2>2
    <2>3. CASE "wait" \notin g
        BY <1>1, <2>3, FewBits
    <2>4. QED
        BY <2>2, <2>3
<1>4. /\ r \in Seq(BitChanges) /\ DifferentBits(r)
      /\ \A e : e \in ToSet(r) <=> "cv" \in g /\ (e = c \/ e = d)
    <2>1. /\ <<c, d>> \in Seq(BitChanges) /\ DifferentBits(<<c, d>>)
          /\ \A e : e \in ToSet(<<c, d>>) <=> e = c \/ e = d
        BY <1>1, FewBits
    <2>2. CASE "cv" \in g
        BY <2>1, <2>2
    <2>3. CASE "cv" \notin g
        BY <1>1, <2>3, FewBits
    <2>4. QED
        BY <2>2, <2>3
<1> HIDE DEF p, r
<1>5. \A e \in ToSet(p), f \in ToSet(r) : ~(e.lock = f.lock /\ e.name = f.name)
    BY <1>1, <1>3, <1>4
<1>6. /\ p \o r \in Seq(BitChanges) /\ DifferentBits(p \o r)
      /\ \A e : e \in ToSet(p \o r) <=> e \in ToSet(p) \/ e \in ToSet(r)
    BY <1>3, <1>4, <1>5, BitsConcat
<1>7. \A e : e \in ToSet(q) <=>
         ("wait" \in g /\ (e = a \/ e = b)) \/ ("cv" \in g /\ (e = c \/ e = d))
    BY <1>2, <1>3, <1>4, <1>6
<1>8. \A e \in ToSet(q) : e.lock \in {l, m} /\ e.name \in g /\ (e.value <=> e.lock = m)
    BY <1>1, <1>7
<1>9. \A n \in {"wait", "cv"} : n \in g => \A k \in {l, m} :
         \E e \in ToSet(q) : e.lock = k /\ e.name = n
    BY <1>1, <1>7
<1>10. QED
    BY <1>2, <1>6, <1>8, <1>9

(* A list without those who waited for l. *)
Without(q, l, r) ==
    /\ r \in Seq(Threads) /\ Distinct(r)
    /\ \A x \in Threads : x \in ToSet(r) <=> x \in ToSet(q) /\ wait_src[x] # l
    /\ \A a, b \in 1..Len(r) : a < b =>
          \E d, e \in 1..Len(q) : d < e /\ q[d] = r[a] /\ q[e] = r[b]

Moves(t, l, m, r) ==
    /\ Others(t) /\ Pending(t) = {} /\ local[t].moving = <<>>
    /\ \A k \in Locks : ~Unlocks(t, k) /\ ~Leaves(t, k)
    /\ \A k \in Locks : ~Unlocks(t, k)' /\ ~Leaves(t, k)' /\ ~Goes(t, k)'
    /\ l \in held[t] /\ m \in held[t] /\ l # m /\ wait_src[t] = NULL /\ retired[l] = t
    /\ \A x \in Threads : wait_src'[x] = IF wait_src[x] = l THEN m ELSE wait_src[x]
    /\ list' = [list EXCEPT ![Hash[l]] = r] /\ Without(list[Hash[l]], l, r)
    /\ local'[t].newlock = m
    /\ local'[t].moving \in Seq(Threads)
    /\ \A x \in Threads : x \in ToSet(local'[t].moving) <=> wait_src[x] = l
    /\ Pending(t)' = ToSet(RekeyBits(l, m, {tag[x] : x \in Sources(l)}))
    /\ UNCHANGED <<word, tag, awaits, held, retired, owner>>

LEMMA MoveData ==
    ASSUME TypeOK, OwnerInv, QueueInv, BitsInv, RetireInv, \A u \in Threads : LocalOK(u),
           NEW t \in Threads, NEW l \in Locks, NEW m \in Locks, NEW r, Moves(t, l, m, r)
    PROVE  /\ OwnerInv' /\ QueueInv' /\ BitsInv' /\ RetireInv'
           /\ \A u \in Threads : u # t => Respects(u)
           /\ \A x \in Threads : Given(x)' <=> Given(x)
<1>1. \A u \in Threads : u # t => SameView(u)
    BY OtherViews DEF Moves
<1>2. UNCHANGED <<word, tag, awaits, held, retired, owner>>
    BY DEF Moves
<1> DEFINE i == Hash[l]
           q == list[i]
<1>3. /\ NULL \notin Threads /\ NULL \notin Locks /\ t # NULL /\ i \in Lists /\ l # m
      /\ l \in held[t] /\ m \in held[t] /\ owner[l] = t /\ owner[m] = t
      /\ wait_src[t] = NULL /\ retired[l] = t
      /\ \A x \in Threads : wait_src'[x] = IF wait_src[x] = l THEN m ELSE wait_src[x]
      /\ list'[i] = r /\ \A j \in Lists : j # i => list'[j] = list[j]
      /\ q \in Seq(Threads) /\ Distinct(q) /\ r \in Seq(Threads) /\ Distinct(r)
    BY NullAssumption, Members DEF Moves, TypeOK, QueueInv, OwnerInv, Without
<1>4. \A x \in Threads : wait_src[x] = l =>
         awaits[x] = NULL /\ x \in ToSet(q) /\ x # t /\ ~Given(x)
    BY <1>3, OnList DEF RetireInv, Moves, Given
<1>5. \A x \in Threads : Given(x)' <=> Given(x)
    BY <1>2, <1>3, <1>4 DEF Given
<1>6. /\ ~Queued(l)' /\ ~Slept(l)'
      /\ Queued(m)' <=> Queued(m) \/ Queued(l)
      /\ Slept(m)' <=> Slept(m) \/ Slept(l)
      /\ \A k \in Locks : k \notin {l, m} => (Queued(k)' <=> Queued(k)) /\ (Slept(k)' <=> Slept(k))
    <2>1. \A x \in Threads : /\ ~Wants(x, l)' /\ ~(wait_src'[x] = l)
                             /\ Wants(x, m)' <=> Wants(x, m) \/ Wants(x, l)
                             /\ wait_src'[x] = m <=> wait_src[x] = m \/ wait_src[x] = l
        BY <1>2, <1>3 DEF Wants
    <2>2. \A k \in Locks : \A x \in Threads : k \notin {l, m} =>
             (Wants(x, k)' <=> Wants(x, k)) /\ (wait_src'[x] = k <=> wait_src[x] = k)
        BY <1>2, <1>3 DEF Wants
    <2>3. QED
        BY <1>2, <2>1, <2>2 DEF Queued, Slept
<1>7. \A j \in Lists : \A x \in Threads :
         x \in ToSet(list'[j]) <=> x \in ToSet(list[j]) /\ wait_src[x] # l
    <2>1. \A j \in Lists : \A x \in Threads : j # i /\ x \in ToSet(list[j]) => wait_src[x] # l
        BY DEF QueueInv
    <2>2. QED
        BY <1>3, <2>1 DEF Moves, Without
<1>8. \A u \in Threads : \A x \in ToSet(local[u].moving) :
         x \in Threads /\ u # t /\ wait_src[x] # l
    <2>1. ToSet(local[t].moving) = {}
        BY DEF Moves, ToSet
    <2>2. QED
        BY <1>3, <2>1, MovingSource
<1>9. \A u \in Threads : u # t => local'[u] = local[u]
    BY OtherViews DEF Moves
<1> HIDE DEF q, i
<1>10. OwnerInv'
    <2>1. ASSUME NEW k \in Locks, NEW u \in Threads, owner[k] = u
          PROVE  k \in held[u] \/ wait_src'[u] = k \/ Unlocks(u, k)'
        <3>1. k \in held[u] \/ wait_src[u] = k \/ Unlocks(u, k)
            BY <2>1 DEF OwnerInv
        <3>2. wait_src[u] = k => wait_src'[u] = k
            BY <1>3, <2>1
        <3>3. QED
            BY <1>1, <3>1, <3>2 DEF SameView, Moves
    <2>2. \A k \in Locks : owner'[k] = NULL => ~Queued(k)'
        BY <1>2, <1>3, <1>6 DEF OwnerInv
    <2>3. \A u \in Threads : wait_src'[u] \notin held'[u]
        <3>1. \A u \in Threads : u # t => m \notin held[u]
            BY <1>3 DEF OwnerInv
        <3>2. QED
            BY <1>2, <1>3, <3>1 DEF OwnerInv
    <2>4. QED
        BY <1>2, <2>1, <2>2, <2>3 DEF OwnerInv
<1>11. QueueInv'
    <2>1. \A j \in Lists : Distinct(list'[j])
        BY <1>3 DEF QueueInv
    <2>2. ASSUME NEW j \in Lists, NEW x \in ToSet(list'[j])
          PROVE  wait_src'[x] # NULL /\ Hash[wait_src'[x]] = j /\ ~Given(x)'
        <3>1. x \in Threads
            <4>1. list'[j] \in Seq(Threads)
                BY <1>3, Members
            <4>2. QED
                BY <4>1, EmptySet
        <3>2. x \in ToSet(list[j]) /\ wait_src'[x] = wait_src[x]
            BY <1>3, <1>7, <3>1
        <3>3. QED
            BY <1>5, <3>1, <3>2 DEF QueueInv
    <2>3. ASSUME NEW u \in Threads, NEW x \in ToSet(local'[u].moving)
          PROVE  /\ wait_src'[x] = local'[u].newlock /\ awaits'[x] = NULL
                 /\ \A j \in Lists : x \notin ToSet(list'[j])
        <3>1. CASE u = t
            <4>1. x \in Threads
                BY <3>1, EmptySet DEF Moves
            <4>2. wait_src[x] = l
                BY <3>1, <4>1 DEF Moves
            <4>3. QED
                BY <1>2, <1>3, <1>4, <1>7, <3>1, <4>1, <4>2 DEF Moves
        <3>2. CASE u # t
            <4>1. x \in ToSet(local[u].moving) /\ x \in Threads /\ wait_src[x] # l
                BY <1>8, <1>9, <3>2
            <4>2. QED
                BY <1>2, <1>3, <1>7, <1>9, <3>2, <4>1 DEF QueueInv
        <3>3. QED
            BY <3>1, <3>2
    <2>4. ASSUME NEW x \in Threads, wait_src'[x] # NULL, ~Given(x)'
          PROVE  \/ x \in ToSet(list'[Hash[wait_src'[x]]])
                 \/ \E u \in Threads : x \in ToSet(local'[u].moving)
        <3>1. CASE wait_src[x] = l
            BY <3>1 DEF Moves
        <3>2. CASE wait_src[x] # l
            <4>1. wait_src'[x] = wait_src[x] /\ ~Given(x) /\ Hash[wait_src[x]] \in Lists
                BY <1>3, <1>5, <2>4, <3>2, Members DEF TypeOK
            <4>2. CASE x \in ToSet(list[Hash[wait_src[x]]])
                BY <1>7, <3>2, <4>1, <4>2
            <4>3. CASE \E u \in Threads : x \in ToSet(local[u].moving)
                BY <1>8, <1>9, <4>3
            <4>4. QED
                BY <2>4, <4>1, <4>2, <4>3 DEF QueueInv
        <3>3. QED
            BY <3>1, <3>2
    <2>5. QED
        BY <2>1, <2>2, <2>3, <2>4 DEF QueueInv
<1>12. BitsInv'
    <2> DEFINE P == Pending(t)'
               g == {tag[x] : x \in Sources(l)}
    <2>1. /\ "wait" \in g <=> Queued(l)
          /\ "cv" \in g <=> Slept(l)
        <3>1. \A x \in Threads : x \in Sources(l) <=> wait_src[x] = l
            BY DEF Sources
        <3>2. \A x \in Threads : Wants(x, l) <=> wait_src[x] = l /\ tag[x] = "wait"
            BY <1>3 DEF Wants
        <3>3. \A x \in Sources(l) : x \in Threads
            BY DEF Sources
        <3>4. \A n : n \in g <=> \E x \in Sources(l) : tag[x] = n
            OBVIOUS
        <3> HIDE DEF g
        <3>5. QED
            BY <3>1, <3>2, <3>3, <3>4 DEF Queued, Slept
    <2>2. \A n \in g : n \in {"wait", "cv"}
        BY DEF TypeOK, Sources
    <2>3. /\ \A b \in P : /\ b.lock \in {l, m} /\ b.name \in g
                          /\ b.value <=> b.lock = m
          /\ \A n \in {"wait", "cv"} : n \in g => \A k \in {l, m} :
                \E b \in P : b.lock = k /\ b.name = n
        <3>1. PICK z : z = RekeyBits(l, m, g)
            OBVIOUS
        <3>2. P = ToSet(z)
            BY <3>1 DEF Moves
        <3> HIDE DEF P, g
        <3>3. QED
            BY <1>3, <3>1, <3>2, RekeyBitsIs
    <2> HIDE DEF P, g
    <2>4. \A u \in Threads : u # t => Pending(u)' = Pending(u)
        BY <1>1 DEF SameView
    <2>5. \A u \in Threads : \A b \in Pending(u) : b.lock \notin {l, m} /\ b.lock \in Locks /\ u # t
        BY <1>3, Members DEF BitsInv, Moves
    <2>6. ASSUME NEW b \in P
          PROVE  /\ owner'[b.lock] = t
                 /\ b.value <=> IF b.name = "wait" THEN Queued(b.lock)' ELSE Slept(b.lock)'
                 /\ b.name = "wait" /\ ~b.value => retired'[b.lock] = t
        <3>1. b.name \in {"wait", "cv"}
            BY <2>2, <2>3
        <3>2. CASE b.lock = l
            BY <1>2, <1>3, <1>6, <2>3, <3>1, <3>2
        <3>3. CASE b.lock = m
            BY <1>2, <1>3, <1>6, <2>1, <2>3, <3>1, <3>3
        <3>4. QED
            BY <2>3, <3>2, <3>3
    <2>7. \A u \in Threads : \A b \in Pending(u)' :
             /\ owner'[b.lock] = u
             /\ b.value <=> IF b.name = "wait" THEN Queued(b.lock)' ELSE Slept(b.lock)'
             /\ b.name = "wait" /\ ~b.value => retired'[b.lock] = u
        <3>1. ASSUME NEW u \in Threads, u # t, NEW b \in Pending(u)
              PROVE  /\ owner'[b.lock] = u
                     /\ b.value <=> IF b.name = "wait" THEN Queued(b.lock)' ELSE Slept(b.lock)'
                     /\ b.name = "wait" /\ ~b.value => retired'[b.lock] = u
            BY <1>2, <1>6, <2>5 DEF BitsInv
        <3>2. QED
            BY <2>4, <2>6, <3>1 DEF P
    <2>8. ASSUME NEW k \in Locks,
                 \A u \in Threads : \A b \in Pending(u)' : b.lock = k => b.name # "wait"
          PROVE  word'[k].wait <=> Queued(k)'
        <3>1. k \in {l, m} => ~Queued(l)
            BY <2>1, <2>3, <2>8 DEF P
        <3>2. \A u \in Threads : \A b \in Pending(u) : b.lock = k => b.name # "wait"
            BY <2>4, <2>5, <2>8
        <3>3. word[k].wait <=> Queued(k)
            BY <3>2 DEF BitsInv
        <3>4. QED
            BY <1>2, <1>6, <3>1, <3>3
    <2>9. ASSUME NEW k \in Locks,
                 \A u \in Threads : /\ \A b \in Pending(u)' : b.lock = k => b.name # "cv"
                                    /\ ~Leaves(u, k)'
          PROVE  word'[k].cv <=> Slept(k)'
        <3>1. k \in {l, m} => ~Slept(l)
            BY <2>1, <2>3, <2>9 DEF P
        <3>2. \A u \in Threads : \A b \in Pending(u) : b.lock = k => b.name # "cv"
            BY <2>4, <2>5, <2>9
        <3>3. \A u \in Threads : ~Leaves(u, k)
            BY <1>1, <2>9 DEF SameView, Moves
        <3>4. word[k].cv <=> Slept(k)
            BY <3>2, <3>3 DEF BitsInv
        <3>5. QED
            BY <1>2, <1>6, <3>1, <3>4
    <2>10. QED
        BY <2>7, <2>8, <2>9 DEF BitsInv
<1>13. RetireInv'
    <2>1. \A k \in Locks : \A u, v \in Threads : retired'[k] = u /\ Goes(v, k)' => v = u
        BY <1>1, <1>2 DEF RetireInv, SameView, Moves
    <2>2. \A k \in Locks : \A u, x \in Threads :
             retired'[k] = u /\ owner'[k] = u /\ wait_src'[x] = k /\ x # u => awaits'[x] = NULL
        BY <1>2, <1>3, <1>4 DEF RetireInv
    <2>3. ASSUME NEW k \in Locks, NEW a \in 1..Len(list'[Hash[k]]),
                 NEW b \in 1..Len(list'[Hash[k]]),
                 a < b, retired[k] = list'[Hash[k]][a],
                 wait_src'[list'[Hash[k]][a]] = k, wait_src'[list'[Hash[k]][b]] = k
          PROVE  awaits[list'[Hash[k]][b]] = NULL
        <3>1. Hash[k] \in Lists /\ list'[Hash[k]] \in Seq(Threads)
            BY <1>3, Members
        <3>2. PICK x, y : x = list'[Hash[k]][a] /\ y = list'[Hash[k]][b]
            OBVIOUS
        <3>3. x \in ToSet(list'[Hash[k]]) /\ y \in ToSet(list'[Hash[k]]) /\ x \in Threads
                 /\ y \in Threads
            BY <2>3, <3>1, <3>2 DEF ToSet
        <3>4. wait_src[x] = k /\ wait_src[y] = k
            BY <1>3, <1>7, <2>3, <3>1, <3>2, <3>3
        <3>5. PICK d \in 1..Len(list[Hash[k]]), e \in 1..Len(list[Hash[k]]) :
                 d < e /\ list[Hash[k]][d] = x /\ list[Hash[k]][e] = y
            <4>1. CASE Hash[k] # i
                BY <1>3, <2>3, <3>1, <3>2, <4>1
            <4>2. CASE Hash[k] = i
                <5>1. list'[Hash[k]] = r /\ list[Hash[k]] = q /\ a \in 1..Len(r) /\ b \in 1..Len(r)
                    BY <1>3, <2>3, <4>2 DEF q
                <5>2. \E d, e \in 1..Len(q) : d < e /\ q[d] = r[a] /\ q[e] = r[b]
                    BY <2>3, <5>1 DEF Moves, Without, q, i
                <5>3. QED
                    BY <3>2, <5>1, <5>2
            <4>3. QED
                BY <4>1, <4>2
        <3>6. awaits[y] = NULL
            BY <2>3, <3>2, <3>4, <3>5, RetiredFirst
        <3>7. QED
            BY <3>2, <3>6
    <2>4. QED
        BY <1>2, <2>1, <2>2, <2>3 DEF RetireInv
<1>14. ASSUME NEW u \in Threads, u # t
       PROVE  Respects(u)
    <2>1. awaits[u] # NULL => tag[u] = "wait"
        BY DEF LocalOK
    <2>2. \/ wait_src'[u] = wait_src[u]
          \/ wait_src[u] # NULL /\ wait_src'[u] # NULL /\ awaits[u] = NULL
        BY <1>3, <1>4
    <2>3. \A k \in Locks : owner[k] = u /\ (\A x \in Threads : wait_src[x] # k)
             => \A x \in Threads : wait_src'[x] # k
        BY <1>3, <1>14
    <2>4. QED
        BY <1>2, <1>9, <1>14, <2>1, <2>2, <2>3 DEF Respects
<1>15. QED
    BY <1>5, <1>10, <1>11, <1>12, <1>13, <1>14

-------------------------------------------------------------------------------
(* They join the list of that word. *)

Appends(t, m) ==
    /\ Others(t) /\ Pending(t)' = Pending(t) /\ local'[t].moving = <<>>
    /\ \A k \in Locks : ~Unlocks(t, k) /\ ~Leaves(t, k)
    /\ \A k \in Locks : ~Unlocks(t, k)' /\ ~Leaves(t, k)' /\ ~Goes(t, k)'
    /\ m \in held[t] /\ m = local[t].newlock /\ Distinct(local[t].moving)
    /\ list' = [list EXCEPT ![Hash[m]] = @ \o local[t].moving]
    /\ UNCHANGED <<word, wait_src, tag, awaits, held, retired, owner>>

LEMMA AppendData ==
    ASSUME TypeOK, OwnerInv, QueueInv, BitsInv, RetireInv, \A u \in Threads : LocalOK(u),
           NEW t \in Threads, NEW m \in Locks, Appends(t, m)
    PROVE  /\ OwnerInv' /\ QueueInv' /\ BitsInv' /\ RetireInv'
           /\ \A u \in Threads : u # t => Respects(u)
           /\ \A x \in Threads : Given(x)' <=> Given(x)
<1>1. \A u \in Threads : u # t => SameView(u)
    BY OtherViews DEF Appends
<1>2. UNCHANGED <<word, wait_src, tag, awaits, held, retired, owner>>
    BY DEF Appends
<1> DEFINE i == Hash[m]
           q == list[i]
           s == local[t].moving
<1>3. /\ i \in Lists /\ q \in Seq(Threads) /\ Distinct(q) /\ s \in Seq(Threads) /\ Distinct(s)
      /\ list'[i] = q \o s /\ \A j \in Lists : j # i => list'[j] = list[j]
    BY Members DEF Appends, TypeOK, QueueInv
<1>4. \A x \in ToSet(s) : /\ x \in Threads /\ x # t /\ wait_src[x] = m /\ owner[m] = t
                          /\ awaits[x] = NULL /\ \A j \in Lists : x \notin ToSet(list[j])
    BY MovingSource DEF Appends, QueueInv
<1>5. ToSet(list'[i]) = ToSet(q) \cup ToSet(s) /\ Distinct(list'[i])
    <2>1. ToSet(q) \cap ToSet(s) = {}
        BY <1>3, <1>4
    <2>2. QED
        BY <1>3, <2>1, ConcatSet
<1>6. \A j \in Lists : \A x :
         x \in ToSet(list'[j]) <=> x \in ToSet(list[j]) \/ (j = i /\ x \in ToSet(s))
    BY <1>3, <1>5
<1>7. \A x \in Threads : Given(x)' <=> Given(x)
    BY <1>2 DEF Given
<1>8. \A k \in Locks : (Queued(k)' <=> Queued(k)) /\ (Slept(k)' <=> Slept(k))
    BY <1>2 DEF Queued, Slept, Wants
<1>9. \A u \in Threads : u # t => local'[u] = local[u]
    BY OtherViews DEF Appends
<1>10. \A u \in Threads : u # t => \A x \in ToSet(local[u].moving) : x \notin ToSet(s)
    <2>1. ASSUME NEW u \in Threads, NEW x \in ToSet(local[u].moving), x \in ToSet(s)
          PROVE  u = t
        <3>1. owner[wait_src[x]] = u
            BY MovingSource
        <3>2. QED
            BY <1>4, <2>1, <3>1
    <2>2. QED
        BY <2>1
<1>11. ToSet(local'[t].moving) = {}
    BY DEF Appends, ToSet
<1>12. OwnerInv'
    <2>1. \A k \in Locks : \A u \in Threads : Unlocks(u, k)' <=> Unlocks(u, k)
        BY <1>1 DEF SameView, Appends
    <2>2. QED
        BY <1>2, <1>8, <2>1 DEF OwnerInv
<1> HIDE DEF q, i, s
<1>13. QueueInv'
    <2>1. \A j \in Lists : Distinct(list'[j])
        BY <1>3, <1>5 DEF QueueInv
    <2>2. ASSUME NEW j \in Lists, NEW x \in ToSet(list'[j])
          PROVE  wait_src'[x] # NULL /\ Hash[wait_src'[x]] = j /\ ~Given(x)'
        <3>1. CASE x \in ToSet(list[j])
            BY <1>2, <1>7, <3>1, Members DEF QueueInv
        <3>2. CASE j = i /\ x \in ToSet(s)
            BY <1>2, <1>4, <1>7, <3>2, NullAssumption DEF Given, i
        <3>3. QED
            BY <1>6, <3>1, <3>2
    <2>3. ASSUME NEW u \in Threads, NEW x \in ToSet(local'[u].moving)
          PROVE  /\ wait_src'[x] = local'[u].newlock /\ awaits'[x] = NULL
                 /\ \A j \in Lists : x \notin ToSet(list'[j])
        <3>1. u # t /\ x \in ToSet(local[u].moving) /\ local'[u] = local[u]
            BY <1>9, <1>11
        <3>2. QED
            BY <1>2, <1>6, <1>10, <3>1 DEF QueueInv
    <2>4. ASSUME NEW x \in Threads, wait_src'[x] # NULL, ~Given(x)'
          PROVE  \/ x \in ToSet(list'[Hash[wait_src'[x]]])
                 \/ \E u \in Threads : x \in ToSet(local'[u].moving)
        <3>1. wait_src[x] # NULL /\ ~Given(x) /\ Hash[wait_src[x]] \in Lists
            BY <1>2, <1>7, <2>4, Members DEF TypeOK
        <3>2. CASE x \in ToSet(list[Hash[wait_src[x]]])
            BY <1>2, <1>6, <3>1, <3>2
        <3>3. CASE x \in ToSet(s)
            BY <1>2, <1>3, <1>4, <1>6, <3>3 DEF i
        <3>4. CASE \E u \in Threads : u # t /\ x \in ToSet(local[u].moving)
            BY <1>9, <3>4
        <3>5. QED
            BY <3>1, <3>2, <3>3, <3>4 DEF QueueInv, s
    <2>5. QED
        BY <2>1, <2>2, <2>3, <2>4 DEF QueueInv
<1>14. BitsInv'
    <2>1. \A u \in Threads : Pending(u)' = Pending(u)
        BY <1>1 DEF Appends, SameView
    <2>2. \A k \in Locks : \A u \in Threads : Leaves(u, k)' <=> Leaves(u, k)
        BY <1>1 DEF Appends, SameView
    <2>3. QED
        BY <1>2, <1>8, <2>1, <2>2, Members DEF BitsInv
<1>15. RetireInv'
    <2>1. \A k \in Locks : \A u, v \in Threads : retired'[k] = u /\ Goes(v, k)' => v = u
        BY <1>1, <1>2 DEF RetireInv, SameView, Appends
    <2>2. \A k \in Locks : \A u, x \in Threads :
             retired'[k] = u /\ owner'[k] = u /\ wait_src'[x] = k /\ x # u => awaits'[x] = NULL
        BY <1>2 DEF RetireInv
    <2>3. ASSUME NEW k \in Locks, NEW a \in 1..Len(list'[Hash[k]]),
                 NEW b \in 1..Len(list'[Hash[k]]),
                 a < b, retired[k] = list'[Hash[k]][a],
                 wait_src[list'[Hash[k]][a]] = k, wait_src[list'[Hash[k]][b]] = k
          PROVE  awaits[list'[Hash[k]][b]] = NULL
        <3>1. CASE Hash[k] # i
            <4>1. list'[Hash[k]] = list[Hash[k]]
                BY <1>3, <3>1, Members
            <4>2. QED
                BY <2>3, <4>1 DEF RetireInv
        <3>2. CASE Hash[k] = i
            <4>1. list'[Hash[k]] = q \o s /\ list[Hash[k]] = q
                BY <1>3, <3>2 DEF q
            <4>2. PICK z : z = q \o s
                OBVIOUS
            <4>3. /\ Len(q) \in Nat /\ Len(s) \in Nat /\ Len(z) = Len(q) + Len(s)
                  /\ \A c \in 1..Len(z) : z[c] = IF c <= Len(q) THEN q[c] ELSE s[c - Len(q)]
                BY <1>3, <4>2, ConcatProperties
            <4>4. a \in 1..Len(z) /\ b \in 1..Len(z)
                BY <2>3, <4>1, <4>2
            <4>5. CASE b <= Len(q)
                <5>1. a \in 1..Len(q) /\ b \in 1..Len(q) /\ z[a] = q[a] /\ z[b] = q[b]
                    BY <2>3, <4>3, <4>4, <4>5
                <5>2. awaits[q[b]] = NULL
                    <6>1. retired[k] = q[a] /\ wait_src[q[a]] = k /\ wait_src[q[b]] = k
                        BY <2>3, <4>1, <4>2, <5>1
                    <6>2. /\ a \in 1..Len(list[Hash[k]]) /\ b \in 1..Len(list[Hash[k]])
                          /\ list[Hash[k]][a] = q[a] /\ list[Hash[k]][b] = q[b]
                        BY <4>1, <5>1
                    <6>3. QED
                        BY <2>3, <6>1, <6>2 DEF RetireInv
                <5>3. QED
                    BY <4>1, <4>2, <5>1, <5>2
            <4>6. CASE ~(b <= Len(q))
                <5>1. b - Len(q) \in 1..Len(s) /\ z[b] = s[b - Len(q)]
                    BY <4>3, <4>4, <4>6
                <5>2. z[b] \in ToSet(s)
                    BY <1>3, <5>1 DEF ToSet
                <5>3. QED
                    BY <1>4, <4>1, <4>2, <5>2
            <4>7. QED
                BY <4>5, <4>6
        <3>3. QED
            BY <3>1, <3>2
    <2>4. QED
        BY <1>2, <2>1, <2>2, <2>3 DEF RetireInv
<1>16. ASSUME NEW u \in Threads, u # t
       PROVE  Respects(u)
    <2>1. awaits[u] # NULL => tag[u] = "wait"
        BY DEF LocalOK
    <2>2. QED
        BY <1>2, <1>9, <1>16, <2>1 DEF Respects
<1>17. QED
    BY <1>7, <1>12, <1>13, <1>14, <1>15, <1>16

-------------------------------------------------------------------------------
(* One of the pending changes is made. *)

Changes(t, b) ==
    /\ Others(t) /\ local[t].moving = <<>> /\ local'[t].moving = <<>>
    /\ \A k \in Locks : ~Unlocks(t, k) /\ ~Leaves(t, k)
    /\ \A k \in Locks : ~Unlocks(t, k)' /\ ~Leaves(t, k)' /\ ~Goes(t, k)'
    /\ b \in Pending(t)
    /\ \A c \in Pending(t)' : c \in Pending(t)
    /\ \A c \in Pending(t) : c \in Pending(t)' \/ (c.lock = b.lock /\ c.name = b.name)
    /\ \A k \in Locks :
          /\ word'[k].lock = word[k].lock
          /\ word'[k].wait = IF k = b.lock /\ b.name = "wait" THEN b.value ELSE word[k].wait
          /\ word'[k].cv = IF k = b.lock /\ b.name = "cv" THEN b.value ELSE word[k].cv
    /\ UNCHANGED <<list, wait_src, tag, awaits, held, retired, owner>>

LEMMA ChangeData ==
    ASSUME TypeOK, OwnerInv, QueueInv, BitsInv, RetireInv, \A u \in Threads : LocalOK(u),
           NEW t \in Threads, NEW b, Changes(t, b)
    PROVE  /\ OwnerInv' /\ QueueInv' /\ BitsInv' /\ RetireInv'
           /\ \A u \in Threads : u # t => Respects(u)
           /\ \A x \in Threads : Given(x)' <=> Given(x)
<1>1. \A u \in Threads : u # t => SameView(u) /\ local'[u] = local[u]
    BY OtherViews DEF Changes
<1>2. UNCHANGED <<list, wait_src, tag, awaits, held, retired, owner>>
    BY DEF Changes
<1>3. /\ b.lock \in Locks /\ b.name \in {"wait", "cv"} /\ owner[b.lock] = t
      /\ b.value \in BOOLEAN
      /\ b.value <=> IF b.name = "wait" THEN Queued(b.lock) ELSE Slept(b.lock)
    BY Members DEF Changes, BitsInv
<1>4. \A x \in Threads : Given(x)' <=> Given(x)
    BY <1>2 DEF Given
<1>5. \A k \in Locks : (Queued(k)' <=> Queued(k)) /\ (Slept(k)' <=> Slept(k))
    BY <1>2 DEF Queued, Slept, Wants
<1>6. OwnerInv'
    <2>1. \A k \in Locks : \A u \in Threads : Unlocks(u, k)' <=> Unlocks(u, k)
        BY <1>1 DEF SameView, Changes
    <2>2. \A k \in Locks : word'[k].lock = word[k].lock
        BY DEF Changes
    <2>3. QED
        BY <1>2, <1>5, <2>1, <2>2 DEF OwnerInv
<1>7. QueueInv'
    <2>1. \A u \in Threads : local'[u].moving = local[u].moving
        BY <1>1 DEF Changes
    <2>2. ASSUME NEW u \in Threads, NEW x \in ToSet(local'[u].moving)
          PROVE  /\ wait_src'[x] = local'[u].newlock /\ awaits'[x] = NULL
                 /\ \A i \in Lists : x \notin ToSet(list'[i])
        <3>1. x \in ToSet(local[u].moving) /\ u # t
            BY <2>1 DEF ToSet, Changes
        <3>2. QED
            BY <1>1, <1>2, <3>1 DEF QueueInv
    <2>3. \A x \in Threads : wait_src'[x] # NULL /\ ~Given(x)' =>
             \/ x \in ToSet(list'[Hash[wait_src'[x]]])
             \/ \E u \in Threads : x \in ToSet(local'[u].moving)
        BY <1>2, <1>4, <2>1 DEF QueueInv
    <2>4. QED
        BY <1>2, <1>4, <2>2, <2>3, QueueKept
<1>8. BitsInv'
    <2>1. \A u \in Threads : \A c \in Pending(u)' : c \in Pending(u)
        BY <1>1 DEF Changes, SameView
    <2>2. \A u \in Threads : \A c \in Pending(u) :
             c \in Pending(u)' \/ (c.lock = b.lock /\ c.name = b.name)
        BY <1>1 DEF Changes, SameView
    <2>3. \A k \in Locks : \A u \in Threads : Leaves(u, k)' <=> Leaves(u, k)
        BY <1>1 DEF Changes, SameView
    <2>4. \A u \in Threads : \A c \in Pending(u)' :
             /\ owner'[c.lock] = u
             /\ c.value <=> IF c.name = "wait" THEN Queued(c.lock)' ELSE Slept(c.lock)'
             /\ c.name = "wait" /\ ~c.value => retired'[c.lock] = u
        BY <1>2, <1>5, <2>1, Members DEF BitsInv
    <2>5. ASSUME NEW k \in Locks,
                 \A u \in Threads : \A c \in Pending(u)' : c.lock = k => c.name # "wait"
          PROVE  word'[k].wait <=> Queued(k)'
        <3>1. CASE k = b.lock /\ b.name = "wait"
            BY <1>3, <1>5, <3>1 DEF Changes
        <3>2. CASE ~(k = b.lock /\ b.name = "wait")
            <4>1. \A u \in Threads : \A c \in Pending(u) : c.lock = k => c.name # "wait"
                BY <2>2, <2>5, <3>2
            <4>2. word'[k].wait = word[k].wait
                BY <3>2 DEF Changes
            <4>3. QED
                BY <1>5, <4>1, <4>2 DEF BitsInv
        <3>3. QED
            BY <3>1, <3>2
    <2>6. ASSUME NEW k \in Locks,
                 \A u \in Threads : /\ \A c \in Pending(u)' : c.lock = k => c.name # "cv"
                                    /\ ~Leaves(u, k)'
          PROVE  word'[k].cv <=> Slept(k)'
        <3>1. CASE k = b.lock /\ b.name = "cv"
            BY <1>3, <1>5, <3>1 DEF Changes
        <3>2. CASE ~(k = b.lock /\ b.name = "cv")
            <4>1. \A u \in Threads : \A c \in Pending(u) : c.lock = k => c.name # "cv"
                BY <2>2, <2>6, <3>2
            <4>2. word'[k].cv = word[k].cv
                BY <3>2 DEF Changes
            <4>3. QED
                BY <1>5, <2>3, <2>6, <4>1, <4>2 DEF BitsInv
        <3>3. QED
            BY <3>1, <3>2
    <2>7. QED
        BY <2>4, <2>5, <2>6 DEF BitsInv
<1>9. RetireInv'
    <2>1. \A k \in Locks : \A u, v \in Threads : retired'[k] = u /\ Goes(v, k)' => v = u
        BY <1>1, <1>2 DEF RetireInv, SameView, Changes
    <2>2. QED
        BY <1>2, <2>1 DEF RetireInv
<1>10. ASSUME NEW u \in Threads, u # t
       PROVE  Respects(u)
    <2>1. awaits[u] # NULL => tag[u] = "wait"
        BY DEF LocalOK
    <2>2. \A k \in Locks : owner[k] = u => word'[k].wait = word[k].wait /\ word'[k].cv = word[k].cv
        BY <1>3, <1>10 DEF Changes
    <2>3. QED
        BY <1>1, <1>2, <1>10, <2>1, <2>2 DEF Respects
<1>11. QED
    BY <1>4, <1>6, <1>7, <1>8, <1>9, <1>10

-------------------------------------------------------------------------------
(* Signals. *)

LEMMA WakeStep ==
    ASSUME TypeOK, WakeInv, \A u \in Threads : LocalOK(u), NEW t \in Threads, NEW o,
           Others(t), signal_pending' = signal_pending,
           \A u \in Threads : u # t /\ At(u, "listwait")
              /\ Head(mutexq[WaitList(u)]) = CurrentWaiter(u)
              => Head(mutexq'[WaitList(u)]) = CurrentWaiter(u),
           \A u \in Threads : u # t => (wait_src'[u] = NULL <=> wait_src[u] = NULL),
           \A x \in Threads : Given(x)' <=> Given(x) \/ x = o,
           \A x \in Threads : Given(x) => tag'[x] = "wait",
           o \in Threads => wait_src[o] # NULL /\ ~Given(o) /\ tag'[o] = "wait",
           Waking(t)' => \/ o \in Threads /\ local'[t].to_wake_up = o
                         \/ Waking(t) /\ local'[t].to_wake_up = local[t].to_wake_up,
           ~At(t, "listwait"),
           At(t, "listwait")' /\ CurrentWaiter(t)' = t => ~Given(t)
    PROVE  WakeInv'
<1>1. ASSUME NEW u \in Threads, u # t
      PROVE  /\ \A p : At(u, p)' <=> At(u, p)
             /\ WaitList(u)' = WaitList(u) /\ CurrentWaiter(u)' = CurrentWaiter(u)
             /\ (Waking(u)' <=> Waking(u)) /\ local'[u].to_wake_up = local[u].to_wake_up
    BY <1>1, OtherViews DEF Others, At, WaitList, CurrentWaiter
<1>2. o \in Threads => ~signal_pending[o]
    <2> SUFFICES ASSUME o \in Threads, signal_pending[o] PROVE FALSE
        OBVIOUS
    <2>1. At(o, "listwait") /\ CurrentWaiter(o) = o
        BY DEF WakeInv
    <2>2. QED
        BY <2>1, OwnWaiter DEF At, InQueue
<1>3. \A x \in Threads : Given(x)' => tag'[x] = "wait"
    OBVIOUS
<1>4. ASSUME NEW u \in Threads, Waking(u)'
      PROVE  /\ local'[u].to_wake_up \in Threads
             /\ Given(local[u].to_wake_up)'
             /\ ~signal_pending'[local'[u].to_wake_up]
             /\ \/ u = t /\ local'[u].to_wake_up = o
                \/ Waking(u) /\ local'[u].to_wake_up = local[u].to_wake_up
    <2>1. CASE u = t /\ o \in Threads /\ local'[t].to_wake_up = o
        BY <1>2, <2>1 DEF Given
    <2>2. CASE Waking(u) /\ local'[u].to_wake_up = local[u].to_wake_up
        <3>1. PICK x : x = local[u].to_wake_up
            OBVIOUS
        <3>2. x \in Threads /\ Given(x) /\ ~signal_pending[x]
            BY <2>2, <3>1 DEF WakeInv
        <3>3. x \in Threads /\ Given(x)' /\ ~signal_pending'[x]
            BY <3>2
        <3>4. QED
            BY <2>2, <3>1, <3>3 DEF Given
    <2>3. QED
        BY <1>1, <1>4, <2>1, <2>2
<1>5. ASSUME NEW u \in Threads, NEW v \in Threads, Waking(u)', Waking(v)',
             local'[u].to_wake_up = local'[v].to_wake_up
      PROVE  u = v
    <2>1. CASE Waking(u) /\ Waking(v) /\ local[u].to_wake_up = local[v].to_wake_up
        BY <2>1 DEF WakeInv
    <2>2. \A y \in Threads : Waking(y) => local[y].to_wake_up # o
        BY DEF WakeInv
    <2>3. QED
        BY <1>4, <1>5, <2>1, <2>2
<1>6. ASSUME NEW u \in Threads, signal_pending'[u]
      PROVE  IF At(u, "listwait")' /\ CurrentWaiter(u)' = u
             THEN Head(mutexq'[WaitList(u)']) = u
             ELSE Given(u)'
    <2>1. CASE u = t
        <3>1. Given(t)
            BY <1>6, <2>1 DEF WakeInv
        <3>2. QED
            BY <2>1, <3>1
    <2>2. CASE u # t
        BY <1>1, <1>6, <2>2 DEF WakeInv
    <2>3. QED
        BY <2>1, <2>2
<1>7. ASSUME NEW u \in Threads, signal_pending'[Temp(u)]
      PROVE  /\ At(u, "listwait")' /\ CurrentWaiter(u)' = Temp(u)
             /\ Head(mutexq'[WaitList(u)']) = Temp(u)
    <2>1. /\ At(u, "listwait") /\ CurrentWaiter(u) = Temp(u)
          /\ Head(mutexq[WaitList(u)]) = Temp(u)
        BY <1>7 DEF WakeInv
    <2>2. QED
        BY <1>1, <2>1
<1>8. QED
    BY <1>3, <1>4, <1>5, <1>6, <1>7 DEF WakeInv

(* Steps that set a signal or take one, and leave the rest as it is. *)
LEMMA WakeUnlockListWake ==
    ASSUME TypeOK, MutexInv, WakeInv, \A u \in Threads : LocalOK(u),
           NEW t \in Threads, UnlockListWake(t)
    PROVE  WakeInv'
<1> DEFINE i == WaitList(t)
           w == Head(mutexq[i])
<1>1. At(t, "listwake") /\ i \in Lists /\ mutexq[i] # <<>>
    BY InCall DEF UnlockListWake, At, MutexInv
<1>2. w \in Waiters
    BY <1>1, HeadOf
<1>3. PICK v \in Threads : InQueue(v) /\ WaitList(v) = i /\ CurrentWaiter(v) = w
    BY <1>1, HeadOf
<1>4. At(v, "listwait") /\ v # t
    BY <1>1, <1>3 DEF MutexInv, At, InQueue
<1>5. local[t].then \in {"run", "wake", "cvwait", "bits", "moved"}
    BY <1>1 DEF LocalOK
<1>6. /\ Others(t) /\ UNCHANGED <<mutexq, wait_src, tag, owner>>
      /\ local'[t].pc = local[t].then
      /\ local'[t].pc # "run" => local'[t].to_wake_up = local[t].to_wake_up
      /\ \A x \in Waiters : signal_pending'[x] <=> signal_pending[x] \/ x = w
    BY <1>1, <1>2, <1>5
       DEF TypeOK, LocalType, UnlockListWake, Goto, Return, Idle, Others, waiter
<1>7. \A x \in Threads : Given(x)' <=> Given(x)
    BY <1>6 DEF Given
<1>8. ASSUME NEW u \in Threads
      PROVE  /\ Waking(u)' <=> Waking(u)
             /\ Waking(u) => local'[u].to_wake_up = local[u].to_wake_up
    BY <1>1, <1>5, <1>6 DEF Waking, Stage, At, Others
<1>9. ASSUME NEW u \in Threads, u # t
      PROVE  /\ \A p : At(u, p)' <=> At(u, p)
             /\ WaitList(u)' = WaitList(u) /\ CurrentWaiter(u)' = CurrentWaiter(u)
    BY <1>6, <1>9 DEF Others, At, WaitList, CurrentWaiter
<1>10. \A x \in Threads : x \in Waiters /\ Temp(x) \in Waiters
    BY DEF Waiters
<1> HIDE DEF i, w
<1>11. ASSUME NEW u \in Threads, Waking(u)'
       PROVE  /\ local'[u].to_wake_up \in Threads
              /\ Given(local[u].to_wake_up)'
              /\ ~signal_pending'[local'[u].to_wake_up]
    <2>1. PICK x : x = local[u].to_wake_up
        OBVIOUS
    <2>2. x \in Threads /\ Given(x) /\ ~signal_pending[x] /\ local'[u].to_wake_up = x
        BY <1>8, <1>11, <2>1 DEF WakeInv
    <2>3. x # w
        <3> SUFFICES ASSUME x = w PROVE FALSE
            OBVIOUS
        <3>1. v = x
            BY <1>3, <2>2, WaiterFacts
        <3>2. wait_src[x] = NULL
            BY <1>3, <3>1, OwnWaiter
        <3>3. QED
            BY <2>2, <3>2 DEF Given
    <2>4. QED
        BY <1>6, <1>7, <1>10, <2>2, <2>3 DEF Given
<1>12. \A u, y \in Threads :
          Waking(u)' /\ Waking(y)' /\ local'[u].to_wake_up = local'[y].to_wake_up => u = y
    BY <1>8 DEF WakeInv
<1>13. ASSUME NEW u \in Threads, signal_pending'[u]
       PROVE  IF At(u, "listwait")' /\ CurrentWaiter(u)' = u
              THEN Head(mutexq'[WaitList(u)']) = u
              ELSE Given(u)'
    <2>1. CASE u = t
        <3>1. t # w
            BY <1>3, <1>4, WaiterFacts
        <3>2. signal_pending[t]
            BY <1>6, <1>10, <1>13, <2>1, <3>1
        <3>3. Given(t)
            BY <1>1, <3>2 DEF WakeInv, At
        <3>4. QED
            BY <1>5, <1>6, <1>7, <2>1, <3>3 DEF At
    <2>2. CASE u # t /\ u = w
        <3>1. u = v
            BY <1>3, <2>2, WaiterFacts
        <3>2. QED
            BY <1>3, <1>4, <1>6, <1>9, <2>2, <3>1 DEF w
    <2>3. CASE u # t /\ u # w
        <3>1. signal_pending[u]
            BY <1>6, <1>10, <1>13, <2>3
        <3>2. QED
            BY <1>6, <1>7, <1>9, <2>3, <3>1 DEF WakeInv
    <2>4. QED
        BY <2>1, <2>2, <2>3
<1>14. ASSUME NEW u \in Threads, signal_pending'[Temp(u)]
       PROVE  /\ At(u, "listwait")' /\ CurrentWaiter(u)' = Temp(u)
              /\ Head(mutexq'[WaitList(u)']) = Temp(u)
    <2>1. CASE Temp(u) = w
        <3>1. u = v
            BY <1>3, <2>1, WaiterFacts
        <3>2. QED
            BY <1>3, <1>4, <1>6, <1>9, <2>1, <3>1 DEF w
    <2>2. CASE Temp(u) # w
        <3>1. signal_pending[Temp(u)]
            BY <1>6, <1>10, <1>14, <2>2
        <3>2. /\ At(u, "listwait") /\ CurrentWaiter(u) = Temp(u)
              /\ Head(mutexq[WaitList(u)]) = Temp(u)
            BY <3>1 DEF WakeInv
        <3>3. u # t
            BY <1>1, <3>2 DEF At
        <3>4. QED
            BY <1>6, <1>9, <3>2, <3>3
    <2>3. QED
        BY <2>1, <2>2
<1>15. \A x \in Threads : Given(x)' => tag'[x] = "wait"
    BY <1>6, <1>7 DEF WakeInv
<1>16. QED
    BY <1>11, <1>12, <1>13, <1>14, <1>15 DEF WakeInv

LEMMA WakeWakeup ==
    ASSUME TypeOK, WakeInv, \A u \in Threads : LocalOK(u), NEW t \in Threads, Wakeup(t)
    PROVE  WakeInv'
<1> DEFINE x == local[t].to_wake_up
<1>1. At(t, "wake") /\ Waking(t)
    BY DEF Wakeup, Waking, Stage, At
<1>2. x \in Threads /\ Given(x) /\ ~signal_pending[x] /\ x \in Waiters
    BY <1>1 DEF WakeInv, Waiters
<1>3. /\ Others(t) /\ UNCHANGED <<mutexq, wait_src, tag, owner>>
      /\ local'[t].pc \in {"cvwait", "run"}
      /\ \A y \in Waiters : signal_pending'[y] <=> signal_pending[y] \/ y = x
    BY <1>2 DEF TypeOK, LocalType, Wakeup, Goto, Return, Idle, Others, waiter
<1>4. \A y \in Threads : Given(y)' <=> Given(y)
    BY <1>3 DEF Given
<1>5. ASSUME NEW u \in Threads, u # t
      PROVE  /\ \A p : At(u, p)' <=> At(u, p)
             /\ WaitList(u)' = WaitList(u) /\ CurrentWaiter(u)' = CurrentWaiter(u)
             /\ (Waking(u)' <=> Waking(u)) /\ local'[u].to_wake_up = local[u].to_wake_up
    BY <1>3, <1>5, OtherViews DEF Others, At, WaitList, CurrentWaiter
<1>6. ~Waking(t)' /\ ~At(t, "listwait")'
    BY <1>3 DEF Waking, Stage, At
<1>7. ~(At(x, "listwait") /\ CurrentWaiter(x) = x)
    BY <1>2, OwnWaiter DEF Given, At, InQueue
<1>8. \A y \in Threads : y \in Waiters /\ Temp(y) \in Waiters /\ Temp(y) # x
    BY <1>2, NullAssumption DEF Waiters
<1> HIDE DEF x
<1>9. ASSUME NEW u \in Threads, Waking(u)'
      PROVE  /\ local'[u].to_wake_up \in Threads
             /\ Given(local[u].to_wake_up)'
             /\ ~signal_pending'[local'[u].to_wake_up]
    <2>1. PICK y : y = local[u].to_wake_up
        OBVIOUS
    <2>2. u # t /\ Waking(u) /\ local'[u].to_wake_up = y
        BY <1>5, <1>6, <1>9, <2>1
    <2>3. y \in Threads /\ Given(y) /\ ~signal_pending[y] /\ y # x
        BY <1>1, <2>1, <2>2 DEF WakeInv, x
    <2>4. QED
        BY <1>3, <1>4, <1>8, <2>2, <2>3 DEF Given
<1>10. \A u, y \in Threads :
          Waking(u)' /\ Waking(y)' /\ local'[u].to_wake_up = local'[y].to_wake_up => u = y
    BY <1>5, <1>6 DEF WakeInv
<1>11. ASSUME NEW u \in Threads, signal_pending'[u]
       PROVE  IF At(u, "listwait")' /\ CurrentWaiter(u)' = u
              THEN Head(mutexq'[WaitList(u)']) = u
              ELSE Given(u)'
    <2>1. CASE u = t
        <3>1. signal_pending[t] => Given(t)
            BY <1>1 DEF WakeInv, At
        <3>2. QED
            BY <1>2, <1>3, <1>4, <1>6, <1>8, <1>11, <2>1, <3>1
    <2>2. CASE u # t /\ u = x
        BY <1>2, <1>4, <1>5, <1>7, <2>2
    <2>3. CASE u # t /\ u # x
        <3>1. signal_pending[u]
            BY <1>3, <1>8, <1>11, <2>3
        <3>2. QED
            BY <1>3, <1>4, <1>5, <2>3, <3>1 DEF WakeInv
    <2>4. QED
        BY <2>1, <2>2, <2>3
<1>12. ASSUME NEW u \in Threads, signal_pending'[Temp(u)]
       PROVE  /\ At(u, "listwait")' /\ CurrentWaiter(u)' = Temp(u)
              /\ Head(mutexq'[WaitList(u)']) = Temp(u)
    <2>1. signal_pending[Temp(u)]
        BY <1>3, <1>8, <1>12
    <2>2. /\ At(u, "listwait") /\ CurrentWaiter(u) = Temp(u)
          /\ Head(mutexq[WaitList(u)]) = Temp(u)
        BY <2>1 DEF WakeInv
    <2>3. u # t
        BY <1>1, <2>2 DEF At
    <2>4. QED
        BY <1>3, <1>5, <2>2, <2>3
<1>13. \A y \in Threads : Given(y)' => tag'[y] = "wait"
    BY <1>3, <1>4 DEF WakeInv
<1>14. QED
    BY <1>9, <1>10, <1>11, <1>12, <1>13 DEF WakeInv

(* A thread takes its own signal, the one for the lock of a list or the    *)
(* one for a word.                                                         *)
LEMMA WakeTaken ==
    ASSUME TypeOK, WakeInv, \A u \in Threads : LocalOK(u), NEW t \in Threads, NEW w,
           w = CurrentWaiter(t), signal_pending[w],
           signal_pending' = [signal_pending EXCEPT ![w] = FALSE],
           Others(t), UNCHANGED <<mutexq, tag>>,
           \A u \in Threads : u # t => (wait_src'[u] = NULL <=> wait_src[u] = NULL),
           ~Waking(t)', ~At(t, "listwait")',
           \A x \in Threads : x # w => (Given(x)' <=> Given(x)),
           w \in Threads => ~Given(w)'
    PROVE  WakeInv'
<1>1. /\ w \in Waiters /\ (w = t \/ w = Temp(t))
      /\ \A y \in Threads : y \in Waiters /\ Temp(y) \in Waiters
    BY WaiterFacts DEF CurrentWaiter, Waiters
<1>2. /\ ~signal_pending'[w]
      /\ \A y \in Waiters : y # w => signal_pending'[y] = signal_pending[y]
    BY <1>1 DEF TypeOK
<1>3. ASSUME NEW u \in Threads, u # t
      PROVE  /\ \A p : At(u, p)' <=> At(u, p)
             /\ WaitList(u)' = WaitList(u) /\ CurrentWaiter(u)' = CurrentWaiter(u)
             /\ (Waking(u)' <=> Waking(u)) /\ local'[u].to_wake_up = local[u].to_wake_up
    BY <1>3, OtherViews DEF Others, At, WaitList, CurrentWaiter
<1>4. \A y \in Threads : Given(y)' => tag'[y] = "wait"
    BY DEF WakeInv
<1>5. ASSUME NEW u \in Threads, Waking(u)'
      PROVE  /\ local'[u].to_wake_up \in Threads
             /\ Given(local[u].to_wake_up)'
             /\ ~signal_pending'[local'[u].to_wake_up]
    <2>1. PICK y : y = local[u].to_wake_up
        OBVIOUS
    <2>2. u # t /\ Waking(u) /\ local'[u].to_wake_up = y
        BY <1>3, <1>5, <2>1
    <2>3. y \in Threads /\ Given(y) /\ ~signal_pending[y] /\ y # w
        BY <2>1, <2>2 DEF WakeInv
    <2>4. QED
        BY <1>1, <1>2, <2>2, <2>3 DEF Given
<1>6. \A u, y \in Threads :
         Waking(u)' /\ Waking(y)' /\ local'[u].to_wake_up = local'[y].to_wake_up => u = y
    BY <1>3 DEF WakeInv
<1>7. ASSUME NEW u \in Threads, signal_pending'[u]
      PROVE  IF At(u, "listwait")' /\ CurrentWaiter(u)' = u
             THEN Head(mutexq'[WaitList(u)']) = u
             ELSE Given(u)'
    <2>1. u # w /\ signal_pending[u]
        BY <1>1, <1>2, <1>7
    <2>2. CASE u = t
        <3>1. Given(t)
            BY <2>1, <2>2 DEF WakeInv
        <3>2. QED
            BY <2>1, <2>2, <3>1
    <2>3. CASE u # t
        BY <1>3, <2>1, <2>3 DEF WakeInv
    <2>4. QED
        BY <2>2, <2>3
<1>8. ASSUME NEW u \in Threads, signal_pending'[Temp(u)]
      PROVE  /\ At(u, "listwait")' /\ CurrentWaiter(u)' = Temp(u)
             /\ Head(mutexq'[WaitList(u)']) = Temp(u)
    <2>1. signal_pending[Temp(u)] /\ Temp(u) # w
        BY <1>1, <1>2, <1>8
    <2>2. /\ At(u, "listwait") /\ CurrentWaiter(u) = Temp(u)
          /\ Head(mutexq[WaitList(u)]) = Temp(u)
        BY <2>1 DEF WakeInv
    <2>3. u # t
        BY <2>1, <2>2
    <2>4. QED
        BY <1>3, <2>2, <2>3
<1>9. QED
    BY <1>4, <1>5, <1>6, <1>7, <1>8 DEF WakeInv

-------------------------------------------------------------------------------
(* The parts of a step put together. *)

(* What a step does to the words and their queues. *)
DataStep(t, o) ==
    /\ OwnerInv' /\ QueueInv' /\ BitsInv' /\ RetireInv'
    /\ \A u \in Threads : u # t => Respects(u)
    /\ \A x \in Threads : Given(x)' <=> Given(x) \/ x = o

(* The types of what is not a thread's own place. *)
DataType ==
    /\ word \in [Locks -> WordType]
    /\ list \in [Lists -> Seq(Threads)]
    /\ wait_src \in [Threads -> Locks \cup {NULL}]
    /\ tag \in [Threads -> {"wait", "cv"}]
    /\ signal_pending \in [Waiters -> BOOLEAN]
    /\ awaits \in [Threads -> Locks \cup {NULL}]
    /\ expect \in [Threads -> {NULL} \cup (Locks \X BOOLEAN \X AnyPayload)]
    /\ held \in [Threads -> SUBSET Locks]
    /\ retired \in [Locks -> Threads \cup {NULL}]
    /\ owner \in [Locks -> Threads \cup {NULL}]

(* The words that others hold or wait for keep their payload. *)
LEMMA PayloadOthers ==
    ASSUME Inv, NEW t \in Threads, Others(t), NEW u \in Threads, u # t, Respects(u),
           expect'[u] = expect[u],
           \A l \in Locks : owner[l] # NULL => word'[l].pay = word[l].pay
    PROVE  PayloadOK(u)'
<1> SUFFICES ASSUME expect[u] # NULL, ~Asks(u, expect[u][1])
             PROVE  LET l == expect[u][1] IN
                    (l \in held[u] \/ awaits[u] = l) /\ word'[l].pay = expect[u][3]
    <2>1. \A l : Asks(u, l)' <=> Asks(u, l)
        BY DEF Others, Asks, Contending
    <2>2. QED
        BY <2>1 DEF PayloadOK, Respects
<1> DEFINE l == expect[u][1]
<1>1. l \in Locks
    BY DEF Inv, TypeOK
<1>2. (l \in held[u] \/ awaits[u] = l) /\ word[l].pay = expect[u][3]
    BY DEF Inv, PayloadInv, PayloadOK
<1> HIDE DEF l
<1>3. owner[l] # NULL
    <2>1. CASE l \in held[u]
        BY <2>1, NullAssumption DEF Inv, OwnerInv
    <2>2. CASE awaits[u] = l
        <3>1. awaits[u] # NULL /\ tag[u] = "wait" /\ LocalOK(u) /\ local[u] \in LocalType
            BY <1>1, <2>2, NullAssumption DEF Inv, LocalOK, TypeOK
        <3>2. wait_src[u] = l
            BY <2>2, <3>1 DEF LocalOK, LocalType, InnerOps, Resting, Locking, Unlocking,
                              CvWaiting, Notifying, Rekeying
        <3>3. QED
            BY <1>1, <3>1, <3>2, NullAssumption DEF Inv, OwnerInv, Queued, Wants
    <2>3. QED
        BY <1>2, <2>1, <2>2
<1>4. QED
    BY <1>1, <1>2, <1>3 DEF l

(* A step outside of the locks of the lists. *)
LEMMA QuietStep ==
    ASSUME Inv, NEW t \in Threads, DataStep(t, NULL),
           Others(t), UNCHANGED <<mutexq, signal_pending, tag>>,
           local[t].pc \notin {"listwait", "section", "listwake"},
           local'[t].pc \notin {"listwait", "section", "listwake", "wake"},
           DataType', local'[t] \in LocalType, local' = [local EXCEPT ![t] = local'[t]],
           LocalOK(t)', PayloadOK(t)',
           \A u \in Threads : u # t => expect'[u] = expect[u],
           \A l \in Locks : owner[l] # NULL => word'[l].pay = word[l].pay
    PROVE  Inv'
<1>1. TypeOK'
    <2>1. local' \in [Threads -> LocalType]
        <3>1. PICK c : c = local'[t]
            OBVIOUS
        <3>2. local' = [local EXCEPT ![t] = c] /\ c \in LocalType
            BY <3>1
        <3>3. QED
            BY <3>2 DEF Inv, TypeOK
    <2>2. mutexq' \in [Lists -> Seq(Waiters)]
        BY DEF Inv, TypeOK
    <2>3. QED
        BY <2>1, <2>2 DEF DataType, TypeOK
<1>2. \A u \in Threads : LocalOK(u)'
    BY RespectsLocal DEF Inv, DataStep
<1>3. \A u \in Threads : u # t => (wait_src'[u] = NULL <=> wait_src[u] = NULL)
    BY DEF DataStep, Respects
<1>4. MutexInv'
    BY <1>3, MutexQuiet DEF Inv
<1>5. WakeInv'
    <2>1. \A x \in Threads : Given(x)' <=> Given(x) \/ x = NULL
        BY DEF DataStep
    <2>2. \A x \in Threads : Given(x) => tag'[x] = "wait"
        BY DEF Inv, WakeInv
    <2>3. ~Waking(t)' /\ ~At(t, "listwait") /\ ~At(t, "listwait")'
        BY DEF Waking, Stage, At
    <2>4. TypeOK /\ WakeInv /\ (\A u \in Threads : LocalOK(u)) /\ NULL \notin Threads
        BY NullAssumption DEF Inv
    <2>5. \A u \in Threads : u # t /\ At(u, "listwait")
              /\ Head(mutexq[WaitList(u)]) = CurrentWaiter(u)
              => Head(mutexq'[WaitList(u)]) = CurrentWaiter(u)
        OBVIOUS
    <2>6. QED
        BY <1>3, <2>1, <2>2, <2>3, <2>4, <2>5, WakeStep
<1>6. PayloadInv'
    BY PayloadOthers DEF PayloadInv, DataStep
<1>7. QED
    BY <1>1, <1>2, <1>4, <1>5, <1>6 DEF Inv, DataStep

(* The end of a section. *)
LEMMA UnlockListIs ==
    ASSUME Inv, NEW t \in Threads, At(t, "section"), NEW p, NEW lc \in LocalType,
           UnlockList(t, p, lc), p \in {"run", "wake", "cvwait", "bits", "moved"},
           lc.op = local[t].op, lc.lock = local[t].lock, lc.newlock = local[t].newlock
    PROVE  /\ Others(t) /\ WaitList(t) \in Lists
           /\ mutexq' \in [Lists -> Seq(Waiters)]
           /\ local' \in [Threads -> LocalType]
           /\ Stage(t)' = p /\ ~Contending(t)'
           /\ local'[t].pc = "listwake" => local'[t].then = p
           /\ local'[t].pc \in {p, "listwake"} /\ (local'[t].pc = "run" => local'[t] = Idle)
           /\ IF Len(mutexq[WaitList(t)]) > 1
              THEN At(t, "listwake")' /\ WaitList(t)' = WaitList(t)
              ELSE local'[t].pc \notin {"listwait", "section", "listwake"}
           /\ \/ /\ local'[t].op = lc.op /\ local'[t].lock = lc.lock
                 /\ local'[t].newlock = lc.newlock /\ local'[t].to_wake_up = lc.to_wake_up
                 /\ local'[t].moving = lc.moving /\ local'[t].bits = lc.bits
              \/ p = "run" /\ local'[t] = Idle
<1> DEFINE i == WaitList(t)
           d == IF Len(mutexq[i]) > 1 THEN [lc EXCEPT !.pc = "listwake", !.then = p]
                ELSE IF p = "run" THEN Idle ELSE [lc EXCEPT !.pc = p]
<1>1. i \in Lists /\ mutexq \in [Lists -> Seq(Waiters)] /\ local \in [Threads -> LocalType]
    BY InCall DEF Inv, At, TypeOK
<1>2. mutexq[i] # <<>>
    <2>1. CurrentWaiter(t) \in ToSet(mutexq[i])
        BY DEF Inv, MutexInv, InQueue, At
    <2>2. QED
        BY <1>1, <2>1, EmptySet
<1>3. mutexq' \in [Lists -> Seq(Waiters)]
    <2>1. Tail(mutexq[i]) \in Seq(Waiters)
        BY <1>1, <1>2, HeadTailProperties
    <2>2. mutexq' = [mutexq EXCEPT ![i] = Tail(mutexq[i])]
        BY DEF UnlockList
    <2>3. QED
        BY <1>1, <2>1, <2>2
<1>4. local' = [local EXCEPT ![t] = d]
    BY DEF UnlockList
<1>5. Idle \in LocalType
    BY DEF Idle, LocalType, PcNames
<1>6. [lc EXCEPT !.pc = "listwake", !.then = p] \in LocalType /\ [lc EXCEPT !.pc = p] \in LocalType
    BY DEF LocalType, PcNames
<1>7. d \in LocalType
    BY <1>5, <1>6
<1>8. local'[t] = d /\ Others(t)
    BY <1>1, <1>4 DEF Others
<1>9. local' \in [Threads -> LocalType]
    <2> HIDE DEF d
    <2>1. QED
        BY <1>1, <1>4, <1>7
<1>10. CASE Len(mutexq[i]) > 1
    <2>1. local'[t] = [lc EXCEPT !.pc = "listwake", !.then = p]
        BY <1>8, <1>10
    <2>2. /\ local'[t].pc = "listwake" /\ local'[t].then = p
          /\ local'[t].op = lc.op /\ local'[t].lock = lc.lock
          /\ local'[t].newlock = lc.newlock /\ local'[t].to_wake_up = lc.to_wake_up
          /\ local'[t].moving = lc.moving /\ local'[t].bits = lc.bits
        BY <2>1 DEF LocalType
    <2> HIDE DEF d
    <2>3. WaitList(t)' = i
        BY <2>2 DEF WaitList
    <2>4. QED
        BY <1>1, <1>3, <1>8, <1>9, <1>10, <2>2, <2>3 DEF Stage, At, Contending
<1>11. CASE ~(Len(mutexq[i]) > 1) /\ p # "run"
    <2>1. local'[t] = [lc EXCEPT !.pc = p]
        BY <1>8, <1>11
    <2>2. /\ local'[t].pc = p
          /\ local'[t].op = lc.op /\ local'[t].lock = lc.lock
          /\ local'[t].newlock = lc.newlock /\ local'[t].to_wake_up = lc.to_wake_up
          /\ local'[t].moving = lc.moving /\ local'[t].bits = lc.bits
        BY <2>1 DEF LocalType
    <2> HIDE DEF d, i
    <2>3. QED
        BY <1>1, <1>3, <1>8, <1>9, <1>11, <2>2 DEF Stage, At, Contending, i
<1>12. CASE ~(Len(mutexq[i]) > 1) /\ p = "run"
    <2>1. local'[t] = Idle
        BY <1>8, <1>12
    <2>2. local'[t].pc = "run"
        BY <2>1 DEF Idle
    <2> HIDE DEF d, i
    <2>3. QED
        BY <1>1, <1>3, <1>8, <1>9, <1>12, <2>1, <2>2 DEF Stage, At, Contending, i
<1>13. QED
    BY <1>10, <1>11, <1>12

LEMMA SectionStep ==
    ASSUME Inv, NEW t \in Threads, At(t, "section"), NEW p, NEW lc \in LocalType,
           UnlockList(t, p, lc), p \in {"run", "wake", "cvwait", "bits", "moved"},
           lc.op = local[t].op, lc.lock = local[t].lock, lc.newlock = local[t].newlock,
           NEW o, DataStep(t, o), signal_pending' = signal_pending,
           o \in Threads => wait_src[o] # NULL /\ ~Given(o) /\ tag[o] = "wait",
           o \in Threads \cup {NULL},
           p = "wake" => o \in Threads /\ lc.to_wake_up = o,
           \A x \in Threads : tag[x] = "wait" /\ (Given(x) \/ x = o) => tag'[x] = "wait",
           DataType', LocalOK(t)', PayloadOK(t)',
           \A u \in Threads : u # t => expect'[u] = expect[u],
           \A l \in Locks : owner[l] # NULL => word'[l].pay = word[l].pay
    PROVE  Inv'
<1> DEFINE i == WaitList(t)
<1>1. /\ Others(t) /\ i \in Lists
      /\ mutexq' \in [Lists -> Seq(Waiters)]
      /\ local' \in [Threads -> LocalType]
      /\ Stage(t)' = p
      /\ IF Len(mutexq[i]) > 1
         THEN At(t, "listwake")' /\ WaitList(t)' = i
         ELSE local'[t].pc \notin {"listwait", "section", "listwake"}
      /\ p = "wake" => local'[t].to_wake_up = lc.to_wake_up
    BY UnlockListIs
<1>2. TypeOK'
    BY <1>1 DEF DataType, TypeOK
<1>3. \A u \in Threads : LocalOK(u)'
    BY RespectsLocal DEF Inv, DataStep
<1>4. \A u \in Threads : u # t => (wait_src'[u] = NULL <=> wait_src[u] = NULL)
    BY DEF DataStep, Respects
<1>5. mutexq' = [mutexq EXCEPT ![i] = Tail(@)]
    BY DEF UnlockList
<1> HIDE DEF i
<1>6. MutexInv'
    <2>1. i = WaitList(t)
        BY DEF i
    <2>2. TypeOK /\ MutexInv /\ WakeInv /\ \A u \in Threads : LocalOK(u)
        BY DEF Inv
    <2>3. QED
        BY <1>1, <1>4, <1>5, <2>1, <2>2, MutexUnlock
<1>7. WakeInv'
    <2>1. TypeOK /\ WakeInv /\ MutexInv /\ (\A u \in Threads : LocalOK(u)) /\ NULL \notin Threads
        BY NullAssumption DEF Inv
    <2>2. \A x \in Threads : Given(x)' <=> Given(x) \/ x = o
        BY DEF DataStep
    <2>3. \A x \in Threads : Given(x) => tag'[x] = "wait"
        BY <2>1 DEF WakeInv
    <2>4. Waking(t)' => o \in Threads /\ local'[t].to_wake_up = o
        BY <1>1 DEF Waking
    <2>5. ~At(t, "listwait") /\ ~At(t, "listwait")'
        BY <1>1 DEF At
    <2>6. Head(mutexq[i]) = CurrentWaiter(t)
        BY <2>1 DEF MutexInv, i
    <2>7. ASSUME NEW u \in Threads, u # t, At(u, "listwait"),
                 Head(mutexq[WaitList(u)]) = CurrentWaiter(u)
          PROVE  Head(mutexq'[WaitList(u)]) = CurrentWaiter(u)
        <3>1. WaitList(u) # i
            BY <2>1, <2>6, <2>7, WaiterFacts
        <3>2. WaitList(u) \in Lists
            BY <2>1, <2>7, InCall DEF At
        <3>3. mutexq'[WaitList(u)] = mutexq[WaitList(u)]
            BY <1>1, <1>5, <3>1, <3>2 DEF Inv, TypeOK
        <3>4. QED
            BY <2>7, <3>3
    <2>8. QED
        BY <1>1, <1>4, <2>1, <2>2, <2>3, <2>4, <2>5, <2>7, WakeStep
<1>8. PayloadInv'
    BY <1>1, PayloadOthers DEF PayloadInv, DataStep
<1>9. QED
    BY <1>2, <1>3, <1>6, <1>7, <1>8 DEF Inv, DataStep

-------------------------------------------------------------------------------
(* The calls. *)

LEMMA SameStep ==
    ASSUME Inv, NEW t \in Threads, DataSame(t)
    PROVE  DataStep(t, NULL)
<1>1. OwnerInv' /\ QueueInv' /\ BitsInv' /\ RetireInv'
    BY SameData DEF Inv
<1>2. \A u \in Threads : u # t => Respects(u)
    BY DEF Inv, LocalOK, DataSame, Others, Respects
<1>3. \A x \in Threads : Given(x)' <=> Given(x) \/ x = NULL
    BY NullAssumption DEF DataSame, Given
<1>4. QED
    BY <1>1, <1>2, <1>3 DEF DataStep

LEMMA AtRun ==
    ASSUME Inv, NEW t \in Threads, At(t, "run")
    PROVE  /\ local[t] = Idle /\ local[t].op = NULL /\ Empty(t) /\ Pending(t) = {}
           /\ wait_src[t] = awaits[t] /\ local[t].moving = <<>>
           /\ \A k \in Locks : ~Unlocks(t, k) /\ ~Leaves(t, k) /\ ~Goes(t, k) /\ ~Asks(t, k)
<1>1. local[t] = Idle
    BY DEF Inv, LocalOK
<1>2. local[t].op = NULL /\ local[t].bits = <<>> /\ local[t].moving = <<>>
    BY <1>1 DEF Idle
<1>3. Pending(t) = {}
    BY <1>2 DEF Pending, ToSet
<1>4. Resting(t)
    BY <1>2 DEF Inv, LocalOK
<1>5. \A k \in Locks : ~Unlocks(t, k) /\ ~Leaves(t, k) /\ ~Goes(t, k) /\ ~Asks(t, k)
    BY <1>2, NullAssumption DEF Unlocks, Leaves, Goes, Asks, OpNames
<1>6. QED
    BY <1>1, <1>2, <1>3, <1>4, <1>5 DEF Empty, Resting

LEMMA Begun ==
    ASSUME TypeOK, NEW t \in Threads, NEW op \in InnerOps, NEW l \in Locks,
           Begin(t, "list", op, l)
    PROVE  /\ Others(t) /\ local' = [local EXCEPT ![t] = local'[t]]
           /\ local'[t] \in LocalType
           /\ local'[t].pc = "list" /\ local'[t].op = op /\ local'[t].lock = l
           /\ local'[t].moving = <<>> /\ local'[t].bits = <<>>
           /\ Stage(t)' = "list" /\ Contending(t)' /\ Empty(t)' /\ Pending(t)' = {}
           /\ \A p : At(t, p)' <=> p = "list"
           /\ \A k \in Locks : /\ Unlocks(t, k)' <=> op = "unlock" /\ k = l
                               /\ Leaves(t, k)' <=> op = "cvwait" /\ k = l
                               /\ Asks(t, k)' <=> op = "payload" /\ k = l
                               /\ Goes(t, k)' <=> op \in {"lock", "payload"} /\ k = l
<1> DEFINE d == [Idle EXCEPT !.pc = "list", !.op = op, !.lock = l]
<1>1. d \in LocalType
    <2>1. <<>> \in Seq(Threads) /\ <<>> \in Seq(BitChanges)
        OBVIOUS
    <2>2. Idle \in LocalType
        BY <2>1 DEF LocalType, Idle, PcNames
    <2>3. QED
        BY <2>2 DEF LocalType, PcNames
<1>2. /\ d.pc = "list" /\ d.op = op /\ d.lock = l /\ d.moving = <<>> /\ d.bits = <<>>
    BY DEF Idle
<1>3. local' = [local EXCEPT ![t] = d] /\ local \in [Threads -> LocalType]
    BY DEF Begin, TypeOK
<1> HIDE DEF d
<1>4. local'[t] = d /\ Others(t) /\ local' = [local EXCEPT ![t] = local'[t]]
    BY <1>3 DEF Others
<1>5. Stage(t)' = "list" /\ Contending(t)' /\ Empty(t)' /\ \A p : At(t, p)' <=> p = "list"
    BY <1>2, <1>4 DEF Stage, At, Contending, Empty
<1>6. Pending(t)' = {}
    BY <1>2, <1>4 DEF Pending, ToSet
<1>7. QED
    BY <1>1, <1>2, <1>4, <1>5, <1>6 DEF Unlocks, Leaves, Asks, Goes

(* A thread that stays outside of all calls. *)
LEMMA StillIdle ==
    ASSUME Inv, NEW t \in Threads, At(t, "run"), local' = local
    PROVE  /\ Others(t) /\ local' = [local EXCEPT ![t] = local'[t]] /\ local'[t] \in LocalType
           /\ SameView(t) /\ Pending(t)' = {}
           /\ wait_src'[t] = awaits'[t] /\ (awaits'[t] # NULL => tag'[t] = "wait") => LocalOK(t)'
<1>1. /\ Others(t) /\ local' = [local EXCEPT ![t] = local'[t]] /\ local'[t] \in LocalType
      /\ local'[t] = local[t]
    BY DEF Inv, TypeOK, Others
<1>2. SameView(t) /\ Pending(t)' = Pending(t)
    BY <1>1 DEF SameView, Unlocks, Leaves, Goes, Contending, Pending, Stage, At
<1>3. ASSUME wait_src'[t] = awaits'[t], awaits'[t] # NULL => tag'[t] = "wait"
      PROVE  LocalOK(t)'
    <2>1. local'[t] = Idle
        BY <1>1, AtRun
    <2>2. /\ local'[t].pc = "run" /\ local'[t].op = NULL
          /\ local'[t].moving = <<>> /\ local'[t].bits = <<>>
        BY <2>1 DEF Idle
    <2>3. Resting(t)'
        BY <1>3, <2>2 DEF Resting, Empty, At
    <2>4. DifferentBits(local'[t].bits) /\ Distinct(local'[t].moving)
        BY <2>2 DEF DifferentBits, Distinct
    <2>5. QED
        BY <1>3, <2>1, <2>2, <2>3, <2>4, NullAssumption DEF LocalOK, At, OpNames
<1>4. QED
    BY <1>1, <1>2, <1>3, AtRun

(* A thread that waits for the lock of a list has the locals of its call. *)
LEMMA NoLocals ==
    ASSUME NEW t \in Threads, local'[t].moving = <<>>, local'[t].bits = <<>>
    PROVE  DifferentBits(local'[t].bits) /\ Distinct(local'[t].moving)
BY DEF DifferentBits, Distinct

LEMMA LockBegun ==
    ASSUME Inv, NEW t \in Threads, NEW l \in Locks, MayLock(t, l),
           NEW op \in {"lock", "payload"}, Begin(t, "list", op, l),
           UNCHANGED <<wait_src, awaits, held, tag>>
    PROVE  LocalOK(t)'
<1>1. /\ At(t, "run") /\ awaits[t] = NULL /\ \A h \in held[t] : h < l
    BY DEF MayLock, Free
<1>2. wait_src[t] = NULL
    BY <1>1, AtRun
<1>3. /\ local'[t].pc = "list" /\ local'[t].op = op /\ local'[t].lock = l
      /\ Stage(t)' = "list" /\ Contending(t)' /\ Empty(t)'
      /\ local'[t].moving = <<>> /\ local'[t].bits = <<>>
    BY Begun DEF Inv, InnerOps
<1>4. Locking(t)'
    BY <1>1, <1>2, <1>3 DEF Locking
<1>5. QED
    BY <1>1, <1>3, <1>4, NoLocals, NullAssumption DEF LocalOK, At, OpNames

(* The word is free and the thread gets it. *)
LEMMA ObtainInv ==
    ASSUME Inv, NEW t \in Threads, NEW l \in Locks, MayLock(t, l), Available(l),
           local' = local,
           \A k \in Locks : /\ word'[k].wait = word[k].wait /\ word'[k].cv = word[k].cv
                            /\ word'[k].lock <=> word[k].lock \/ k = l
                            /\ k # l => word'[k].pay = word[k].pay,
           word' \in [Locks -> WordType],
           held' = [held EXCEPT ![t] = @ \cup {l}],
           owner' = [owner EXCEPT ![l] = t],
           \/ retired' = retired
           \/ /\ retired' = [retired EXCEPT ![l] = t]
              /\ \A u \in Threads : ~Goes(u, l),
           UNCHANGED <<list, mutexq, wait_src, tag, signal_pending, awaits>>,
           \/ expect' = expect
           \/ /\ expect' = [expect EXCEPT ![t] = <<l, word[l].cv, word[l].pay>>]
              /\ word'[l].pay = word[l].pay
    PROVE  Inv'
<1>1. /\ At(t, "run") /\ awaits[t] = NULL /\ retired[l] = NULL /\ owner[l] = NULL
    BY DEF MayLock, Free, Available, Inv, OwnerInv
<1>2. wait_src[t] = NULL /\ \A k \in Locks : ~Asks(t, k)
    BY <1>1, AtRun
<1>3. /\ Others(t) /\ local' = [local EXCEPT ![t] = local'[t]] /\ local'[t] \in LocalType
      /\ SameView(t) /\ LocalOK(t)'
    BY <1>1, <1>2, StillIdle
<1>4. Obtains(t, l)
    BY <1>1, <1>2, <1>3 DEF Obtains
<1>5. DataStep(t, NULL)
    BY <1>4, ObtainData, NullAssumption DEF Inv, DataStep
<1>6. DataType'
    <2>1. word[l].cv \in BOOLEAN /\ word[l].pay \in AnyPayload
        BY DEF Inv, TypeOK, WordType
    <2>2. expect' \in [Threads -> {NULL} \cup (Locks \X BOOLEAN \X AnyPayload)]
        <3> DEFINE e == <<l, word[l].cv, word[l].pay>>
        <3>1. e \in Locks \X BOOLEAN \X AnyPayload
            BY <2>1
        <3>2. expect' = expect \/ expect' = [expect EXCEPT ![t] = e]
            OBVIOUS
        <3> HIDE DEF e
        <3>3. QED
            BY <3>1, <3>2 DEF Inv, TypeOK
    <2>3. held' \in [Threads -> SUBSET Locks] /\ owner' \in [Locks -> Threads \cup {NULL}]
        BY DEF Inv, TypeOK
    <2>4. retired' \in [Locks -> Threads \cup {NULL}]
        BY DEF Inv, TypeOK
    <2>5. QED
        BY <2>2, <2>3, <2>4 DEF Inv, TypeOK, DataType
<1>7. PayloadOK(t)'
    <2>1. CASE expect' = expect
        <3>1. ASSUME expect[t] # NULL
              PROVE  /\ expect[t][1] \in Locks /\ expect[t][1] # l
                     /\ expect[t][1] \in held[t]
                     /\ word[expect[t][1]].pay = expect[t][3]
            <4>1. expect[t][1] \in Locks
                BY <3>1 DEF Inv, TypeOK
            <4>2. expect[t][1] \in held[t] /\ word[expect[t][1]].pay = expect[t][3]
                BY <1>1, <1>2, <3>1, <4>1, NullAssumption DEF Inv, PayloadInv, PayloadOK
            <4>3. QED
                BY <1>1, <4>1, <4>2, NullAssumption DEF Inv, OwnerInv
        <3>2. QED
            BY <2>1, <3>1 DEF PayloadOK, Inv, TypeOK
    <2>2. CASE /\ expect' = [expect EXCEPT ![t] = <<l, word[l].cv, word[l].pay>>]
               /\ word'[l].pay = word[l].pay
        <3>1. expect'[t] = <<l, word[l].cv, word[l].pay>> /\ l \in held'[t]
            BY <2>2 DEF Inv, TypeOK
        <3>2. expect'[t][1] = l /\ expect'[t][3] = word[l].pay
            BY <3>1
        <3>3. QED
            BY <2>2, <3>1, <3>2 DEF PayloadOK
    <2>3. QED
        BY <2>1, <2>2
<1>8. /\ \A u \in Threads : u # t => expect'[u] = expect[u]
      /\ \A k \in Locks : owner[k] # NULL => word'[k].pay = word[k].pay
    BY <1>1 DEF Inv, TypeOK
<1>9. /\ local[t].pc \notin {"listwait", "section", "listwake"}
      /\ local'[t].pc \notin {"listwait", "section", "listwake", "wake"}
    BY <1>1 DEF At
<1>10. QED
    BY <1>3, <1>5, <1>6, <1>7, <1>8, <1>9, QuietStep

(* What Obtain does to a word. *)
LEMMA ObtainWord ==
    ASSUME Inv, NEW l \in Locks, word' = [word EXCEPT ![l].lock = TRUE]
    PROVE  /\ word' \in [Locks -> WordType] /\ word'[l].pay = word[l].pay
           /\ \A k \in Locks : /\ word'[k].wait = word[k].wait /\ word'[k].cv = word[k].cv
                               /\ word'[k].lock <=> word[k].lock \/ k = l
                               /\ k # l => word'[k].pay = word[k].pay
<1>1. \A k \in Locks : word[k] \in WordType
    BY DEF Inv, TypeOK
<1>2. word'[l] = [word[l] EXCEPT !.lock = TRUE] /\ word'[l] \in WordType
    BY <1>1 DEF Inv, TypeOK, WordType
<1>3. \A k \in Locks : k # l => word'[k] = word[k]
    BY DEF Inv, TypeOK
<1>4. word' \in [Locks -> WordType]
    BY <1>1, <1>2, <1>3 DEF Inv, TypeOK
<1>5. /\ word'[l].wait = word[l].wait /\ word'[l].cv = word[l].cv
      /\ word'[l].pay = word[l].pay /\ word'[l].lock = TRUE
    BY <1>1, <1>2 DEF WordType
<1>6. QED
    BY <1>3, <1>4, <1>5

(* The word is not free: on to the list. *)
LEMMA QueueUpInv ==
    ASSUME Inv, NEW t \in Threads, NEW l \in Locks, MayLock(t, l),
           NEW op \in {"lock", "payload"}, Begin(t, "list", op, l),
           \/ retired' = retired
           \/ /\ retired' = [retired EXCEPT ![l] = t]
              /\ \A u \in Threads : ~Goes(u, l),
           UNCHANGED <<word, list, mutexq, wait_src, tag, signal_pending, awaits, held, owner>>,
           \/ expect' = expect
           \/ /\ expect' = [expect EXCEPT ![t] = <<l, word[l].cv, word[l].pay>>]
              /\ op = "payload"
    PROVE  Inv'
<1>1. /\ At(t, "run") /\ awaits[t] = NULL /\ retired[l] = NULL /\ \A h \in held[t] : h < l
    BY DEF MayLock, Free
<1>2. /\ wait_src[t] = NULL /\ Pending(t) = {} /\ local[t].moving = <<>>
      /\ \A k \in Locks : ~Unlocks(t, k) /\ ~Leaves(t, k) /\ ~Asks(t, k)
    BY <1>1, AtRun
<1>3. /\ Others(t) /\ local' = [local EXCEPT ![t] = local'[t]]
      /\ local'[t] \in LocalType /\ local'[t].pc = "list"
      /\ local'[t].moving = <<>> /\ Pending(t)' = {}
      /\ \A k \in Locks : /\ ~Unlocks(t, k)' /\ ~Leaves(t, k)'
                          /\ Asks(t, k)' <=> op = "payload" /\ k = l
                          /\ Goes(t, k)' => k = l
    BY Begun DEF Inv, InnerOps
<1>4. LocalOK(t)'
    BY LockBegun
<1>5. owner[l] # t
    <2>1. l \notin held[t]
        <3>1. l \in Nat /\ ~(l < l)
            BY ParametersAssumption
        <3>2. QED
            BY <1>1, <3>1
    <2>2. QED
        BY <1>2, <2>1, NullAssumption DEF Inv, OwnerInv
<1>6. Begins(t, l)
    <2>1. retired'[l] \in {NULL, t}
        BY <1>1 DEF Inv, TypeOK
    <2>2. \A k \in Locks : Goes(t, k)' => retired'[k] \in {NULL, t}
        BY <1>3, <2>1
    <2>3. QED
        BY <1>1, <1>2, <1>3, <1>5, <2>2 DEF Begins
<1>7. DataStep(t, NULL)
    BY <1>6, BeginData, NullAssumption DEF Inv, DataStep
<1>8. DataType'
    <2>1. word[l].cv \in BOOLEAN /\ word[l].pay \in AnyPayload
        BY DEF Inv, TypeOK, WordType
    <2>2. expect' \in [Threads -> {NULL} \cup (Locks \X BOOLEAN \X AnyPayload)]
        <3> DEFINE e == <<l, word[l].cv, word[l].pay>>
        <3>1. e \in Locks \X BOOLEAN \X AnyPayload
            BY <2>1
        <3>2. expect' = expect \/ expect' = [expect EXCEPT ![t] = e]
            OBVIOUS
        <3> HIDE DEF e
        <3>3. QED
            BY <3>1, <3>2 DEF Inv, TypeOK
    <2>3. retired' \in [Locks -> Threads \cup {NULL}]
        BY DEF Inv, TypeOK
    <2>4. QED
        BY <2>2, <2>3 DEF Inv, TypeOK, DataType
<1>9. PayloadOK(t)'
    <2>1. CASE expect' = expect
        <3>1. expect[t] # NULL => expect[t][1] \in Locks
            BY DEF Inv, TypeOK
        <3>2. QED
            BY <1>2, <2>1, <3>1 DEF Inv, PayloadInv, PayloadOK
    <2>2. CASE /\ expect' = [expect EXCEPT ![t] = <<l, word[l].cv, word[l].pay>>]
               /\ op = "payload"
        <3>1. expect'[t] = <<l, word[l].cv, word[l].pay>>
            BY <2>2 DEF Inv, TypeOK
        <3>2. expect'[t][1] = l /\ Asks(t, l)'
            BY <1>3, <2>2, <3>1
        <3>3. QED
            BY <3>2 DEF PayloadOK, Asks, Contending
    <2>3. QED
        BY <2>1, <2>2
<1>10. \A u \in Threads : u # t => expect'[u] = expect[u]
    BY DEF Inv, TypeOK
<1>11. /\ local[t].pc \notin {"listwait", "section", "listwake"}
       /\ local'[t].pc \notin {"listwait", "section", "listwake", "wake"}
    BY <1>1, <1>3 DEF At
<1>12. QED
    BY <1>3, <1>4, <1>7, <1>8, <1>9, <1>10, <1>11, QuietStep

LEMMA LockInv ==
    ASSUME Inv, NEW t \in Threads, NEW l \in Locks, Lock(t, l)
    PROVE  Inv'
<1>1. MayLock(t, l)
         /\ UNCHANGED <<list, mutexq, wait_src, tag, signal_pending, awaits, expect, retired>>
    BY DEF Lock, waiter
<1>2. CASE Available(l) /\ Obtain(t, l) /\ UNCHANGED local
    <2>1. word' = [word EXCEPT ![l].lock = TRUE]
        BY <1>2 DEF Obtain
    <2>2. QED
        BY <1>1, <1>2, <2>1, ObtainWord, ObtainInv DEF Obtain
<1>3. CASE ~Available(l) /\ Begin(t, "list", "lock", l) /\ UNCHANGED <<word, held, owner>>
    BY <1>1, <1>3, QueueUpInv
<1>4. QED
    BY <1>2, <1>3 DEF Lock, LockAsync

LEMMA TrylockInv ==
    ASSUME Inv, NEW t \in Threads, NEW l \in Locks, Trylock(t, l)
    PROVE  Inv'
<1>1. word' = [word EXCEPT ![l].lock = TRUE]
    BY DEF Trylock, Obtain
<1>2. QED
    BY <1>1, ObtainWord, ObtainInv DEF Trylock, Obtain, waiter

LEMMA GrabInv ==
    ASSUME Inv, NEW t \in Threads, NEW l \in Locks, NEW p \in Payloads[l], Grab(t, l, p)
    PROVE  Inv'
<1>1. p \in AnyPayload
    BY DEF AnyPayload
<1>2. /\ word' \in [Locks -> WordType]
      /\ \A k \in Locks : /\ word'[k].wait = word[k].wait /\ word'[k].cv = word[k].cv
                          /\ word'[k].lock <=> word[k].lock \/ k = l
                          /\ k # l => word'[k].pay = word[k].pay
    <2>1. /\ word \in [Locks -> WordType] /\ word[l] \in WordType
          /\ word' = [word EXCEPT ![l].lock = TRUE, ![l].pay = p]
        BY DEF Grab, Inv, TypeOK
    <2> DEFINE w == [word[l] EXCEPT !.lock = TRUE, !.pay = p]
    <2>2. word' = [word EXCEPT ![l] = w]
        BY <2>1
    <2>3. w \in WordType /\ w.lock = TRUE /\ w.wait = word[l].wait /\ w.cv = word[l].cv
        BY <1>1, <2>1 DEF WordType
    <2> HIDE DEF w
    <2>4. QED
        BY <2>1, <2>2, <2>3
<1>3. QED
    BY <1>2, ObtainInv DEF Grab, waiter

LEMMA LockIfPayloadInv ==
    ASSUME Inv, NEW t \in Threads, NEW l \in Locks, NEW p \in Payloads[l],
           LockIfPayload(t, l, p)
    PROVE  Inv'
<1>1. /\ MayLock(t, l)
      /\ UNCHANGED <<list, mutexq, wait_src, tag, signal_pending, awaits, retired>>
      /\ expect' = [expect EXCEPT ![t] = <<l, word[l].cv, word[l].pay>>]
    BY DEF LockIfPayload, waiter
<1>2. CASE Available(l) /\ Obtain(t, l) /\ UNCHANGED local
    <2>1. word' = [word EXCEPT ![l].lock = TRUE]
        BY <1>2 DEF Obtain
    <2>2. QED
        BY <1>1, <1>2, <2>1, ObtainWord, ObtainInv DEF Obtain
<1>3. CASE /\ ~Available(l) /\ Begin(t, "list", "payload", l)
           /\ UNCHANGED <<word, held, owner>>
    BY <1>1, <1>3, QueueUpInv
<1>4. QED
    BY <1>2, <1>3 DEF LockIfPayload

LEMMA RetireStepInv ==
    ASSUME Inv, NEW t \in Threads, NEW l \in Locks, Retire(t, l)
    PROVE  Inv'
<1>1. /\ MayLock(t, l) /\ retired' = [retired EXCEPT ![l] = t]
      /\ UNCHANGED <<list, mutexq, wait_src, tag, signal_pending, awaits, expect>>
      /\ \A u \in Threads : ~Goes(u, l)
    BY DEF Retire, waiter, Goes
<1>2. CASE Available(l) /\ Obtain(t, l) /\ UNCHANGED local
    <2>1. word' = [word EXCEPT ![l].lock = TRUE]
        BY <1>2 DEF Obtain
    <2>2. QED
        BY <1>1, <1>2, <2>1, ObtainWord, ObtainInv DEF Obtain
<1>3. CASE ~Available(l) /\ Begin(t, "list", "lock", l) /\ UNCHANGED <<word, held, owner>>
    BY <1>1, <1>3, QueueUpInv
<1>4. QED
    BY <1>2, <1>3 DEF Retire, LockAsync

LEMMA WordChanged ==
    ASSUME Inv, NEW l \in Locks, NEW w \in WordType, word' = [word EXCEPT ![l] = w]
    PROVE  /\ word' \in [Locks -> WordType] /\ word'[l] = w
           /\ \A k \in Locks : k # l => word'[k] = word[k]
BY DEF Inv, TypeOK

LEMMA FreedWord ==
    ASSUME Inv, NEW l \in Locks, word' = [word EXCEPT ![l].lock = FALSE]
    PROVE  /\ word' \in [Locks -> WordType]
           /\ \A k \in Locks : /\ word'[k].wait = word[k].wait /\ word'[k].cv = word[k].cv
                               /\ word'[k].lock <=> word[k].lock /\ k # l
                               /\ word'[k].pay = word[k].pay
<1>1. word[l] \in WordType /\ word[l].lock \in BOOLEAN
    BY DEF Inv, TypeOK, WordType
<1>2. PICK d : d = [word[l] EXCEPT !.lock = FALSE]
    OBVIOUS
<1>3. /\ d \in WordType /\ d.lock = FALSE /\ d.wait = word[l].wait
      /\ d.cv = word[l].cv /\ d.pay = word[l].pay
    BY <1>1, <1>2 DEF WordType
<1>4. word' = [word EXCEPT ![l] = d]
    BY <1>2
<1>5. /\ word' \in [Locks -> WordType] /\ word'[l] = d
      /\ \A k \in Locks : k # l => word'[k] = word[k]
    BY <1>3, <1>4, WordChanged
<1>6. QED
    BY <1>3, <1>5

(* Back from a call. *)
LEMMA Returned ==
    ASSUME TypeOK, NEW t \in Threads, Return(t)
    PROVE  /\ Others(t) /\ local' = [local EXCEPT ![t] = local'[t]]
           /\ local'[t] \in LocalType /\ local'[t].pc = "run" /\ local'[t].moving = <<>>
           /\ Pending(t)' = {} /\ ~Waking(t)'
           /\ \A k \in Locks : ~Unlocks(t, k)' /\ ~Leaves(t, k)' /\ ~Goes(t, k)' /\ ~Asks(t, k)'
           /\ wait_src'[t] = awaits'[t] /\ (awaits'[t] # NULL => tag'[t] = "wait") => LocalOK(t)'
<1>1. <<>> \in Seq(Threads) /\ <<>> \in Seq(BitChanges)
    OBVIOUS
<1>2. Idle \in LocalType
    BY <1>1 DEF LocalType, Idle, PcNames
<1>3. local'[t] = Idle /\ Others(t) /\ local' = [local EXCEPT ![t] = local'[t]]
    BY DEF Return, TypeOK, Others
<1>4. /\ local'[t].pc = "run" /\ local'[t].op = NULL
      /\ local'[t].moving = <<>> /\ local'[t].bits = <<>>
    BY <1>3 DEF Idle
<1>5. Pending(t)' = {} /\ ~Waking(t)'
    BY <1>4 DEF Pending, ToSet, Waking, Stage, At
<1>6. \A k \in Locks : ~Unlocks(t, k)' /\ ~Leaves(t, k)' /\ ~Goes(t, k)' /\ ~Asks(t, k)'
    BY <1>4, NullAssumption DEF Unlocks, Leaves, Goes, Asks, OpNames
<1>7. ASSUME wait_src'[t] = awaits'[t], awaits'[t] # NULL => tag'[t] = "wait"
      PROVE  LocalOK(t)'
    <2>1. Resting(t)'
        BY <1>4, <1>7 DEF Resting, Empty, At
    <2>2. DifferentBits(local'[t].bits) /\ Distinct(local'[t].moving)
        BY <1>4, NoLocals
    <2>3. QED
        BY <1>3, <1>4, <1>7, <2>1, <2>2, NullAssumption DEF LocalOK, At, OpNames
<1>8. QED
    BY <1>2, <1>3, <1>4, <1>5, <1>6, <1>7

(* The payload a thread asked for, when it gives nothing up. *)
LEMMA PayloadSame ==
    ASSUME Inv, NEW t \in Threads, expect' = expect,
           \A k \in Locks : /\ k \in held[t] => k \in held'[t]
                            /\ awaits[t] = k => k \in held'[t] \/ awaits'[t] = k
                            /\ Asks(t, k) => Asks(t, k)'
                            /\ word'[k].pay = word[k].pay
    PROVE  PayloadOK(t)'
<1>1. expect[t] # NULL => expect[t][1] \in Locks
    BY DEF Inv, TypeOK
<1>2. PayloadOK(t)
    BY DEF Inv, PayloadInv
<1>3. QED
    BY <1>1, <1>2 DEF PayloadOK

(* ... and when it gives up the word. *)
LEMMA PayloadGiven ==
    ASSUME Inv, NEW t \in Threads, NEW l \in Locks, GiveUp(t, l), awaits' = awaits,
           \A k \in Locks : /\ Asks(t, k) => Asks(t, k)'
                            /\ word'[k].pay = word[k].pay
    PROVE  /\ PayloadOK(t)' /\ \A u \in Threads : u # t => expect'[u] = expect[u]
           /\ expect' \in [Threads -> {NULL} \cup (Locks \X BOOLEAN \X AnyPayload)]
           /\ held' \in [Threads -> SUBSET Locks]
           /\ held' = [held EXCEPT ![t] = @ \ {l}]
<1>1. expect \in [Threads -> {NULL} \cup (Locks \X BOOLEAN \X AnyPayload)]
    BY DEF Inv, TypeOK
<1>2. \A k \in held[t] : k # l => k \in held'[t]
    BY DEF Inv, TypeOK, GiveUp
<1>3. PayloadOK(t)
    BY DEF Inv, PayloadInv
<1>4. CASE expect[t] # NULL /\ expect[t][1] = l
    <2>1. expect' = [expect EXCEPT ![t] = NULL]
        BY <1>4 DEF GiveUp
    <2>2. expect'[t] = NULL /\ \A u \in Threads : u # t => expect'[u] = expect[u]
        BY <1>1, <2>1
    <2>3. expect' \in [Threads -> {NULL} \cup (Locks \X BOOLEAN \X AnyPayload)]
        BY <1>1, <2>1
    <2>4. QED
        BY <2>2, <2>3 DEF PayloadOK, GiveUp, Inv, TypeOK
<1>5. CASE ~(expect[t] # NULL /\ expect[t][1] = l)
    <2>1. expect' = expect
        BY <1>5 DEF GiveUp
    <2>2. expect[t] # NULL => expect[t][1] \in Locks /\ expect[t][1] # l
        BY <1>1, <1>5
    <2>3. PayloadOK(t)'
        BY <1>2, <1>3, <2>1, <2>2 DEF PayloadOK
    <2>4. QED
        BY <1>1, <2>1, <2>3 DEF GiveUp, Inv, TypeOK
<1>6. QED
    BY <1>4, <1>5

LEMMA UnlockInv ==
    ASSUME Inv, NEW t \in Threads, NEW l \in Locks, Unlock(t, l)
    PROVE  Inv'
<1>1. /\ At(t, "run") /\ l \in held[t] /\ GiveUp(t, l)
      /\ UNCHANGED <<list, mutexq, wait_src, tag, signal_pending, awaits, retired>>
    BY DEF Unlock, waiter
<1>2. owner[l] = t /\ wait_src[t] # l
    BY <1>1 DEF Inv, OwnerInv
<1>3. /\ wait_src[t] = awaits[t] /\ Pending(t) = {} /\ local[t].moving = <<>>
      /\ \A k \in Locks : ~Unlocks(t, k) /\ ~Leaves(t, k) /\ ~Asks(t, k)
    BY <1>1, AtRun
<1>4. awaits[t] # NULL => tag[t] = "wait"
    BY DEF Inv, LocalOK
<1>5. \A k \in Locks : word'[k].pay = word[k].pay
    BY DEF Unlock, Inv, TypeOK, WordType
<1>6. /\ PayloadOK(t)' /\ \A u \in Threads : u # t => expect'[u] = expect[u]
      /\ expect' \in [Threads -> {NULL} \cup (Locks \X BOOLEAN \X AnyPayload)]
      /\ held' \in [Threads -> SUBSET Locks]
      /\ held' = [held EXCEPT ![t] = @ \ {l}]
    BY <1>1, <1>3, <1>5, PayloadGiven
<1>7. CASE ~word[l].wait
    <2>1. /\ word' = [word EXCEPT ![l].lock = FALSE] /\ owner' = [owner EXCEPT ![l] = NULL]
          /\ local' = local
        BY <1>7 DEF Unlock
    <2>2. /\ word' \in [Locks -> WordType] /\ owner' \in [Locks -> Threads \cup {NULL}]
          /\ \A k \in Locks : /\ word'[k].wait = word[k].wait /\ word'[k].cv = word[k].cv
                              /\ word'[k].lock <=> word[k].lock /\ k # l
        <3>1. owner' \in [Locks -> Threads \cup {NULL}]
            BY <2>1 DEF Inv, TypeOK
        <3>2. QED
            BY <2>1, <3>1, FreedWord
    <2>3. /\ Others(t) /\ local' = [local EXCEPT ![t] = local'[t]] /\ local'[t] \in LocalType
          /\ SameView(t) /\ LocalOK(t)'
        BY <1>1, <1>3, <1>4, <2>1, StillIdle
    <2>4. Frees(t, l)
        BY <1>1, <1>2, <1>3, <1>6, <1>7, <2>1, <2>2, <2>3 DEF Frees
    <2>5. DataStep(t, NULL)
        BY <2>4, FreeData, NullAssumption DEF Inv, DataStep
    <2>6. DataType'
        BY <1>1, <1>6, <2>2 DEF Inv, TypeOK, DataType
    <2>7. local[t].pc = "run" /\ local'[t].pc = "run"
        BY <1>1, <2>1 DEF At
    <2>8. QED
        BY <1>1, <1>5, <1>6, <2>3, <2>5, <2>6, <2>7, QuietStep
<1>8. CASE word[l].wait
    <2>1. Begin(t, "list", "unlock", l) /\ word' = word /\ owner' = owner
        BY <1>8 DEF Unlock
    <2>2. /\ Others(t) /\ local' = [local EXCEPT ![t] = local'[t]] /\ local'[t] \in LocalType
          /\ local'[t].pc = "list" /\ local'[t].op = "unlock" /\ local'[t].lock = l
          /\ Stage(t)' = "list" /\ Contending(t)' /\ Empty(t)' /\ Pending(t)' = {}
          /\ local'[t].moving = <<>> /\ local'[t].bits = <<>>
          /\ \A k \in Locks : /\ Unlocks(t, k)' <=> k = l
                              /\ ~Leaves(t, k)' /\ ~Goes(t, k)'
        BY <2>1, Begun DEF Inv, InnerOps
    <2>3. l \notin held'[t]
        BY <1>6 DEF Inv, TypeOK
    <2>4. Unlocking(t)'
        BY <1>1, <1>2, <1>3, <1>8, <2>1, <2>2, <2>3 DEF Unlocking
    <2>5. LocalOK(t)'
        BY <1>1, <1>4, <2>2, <2>4, NoLocals, NullAssumption DEF LocalOK, At, OpNames
    <2>6. Begins(t, l)
        BY <1>1, <1>3, <1>6, <2>1, <2>2 DEF Begins
    <2>7. DataStep(t, NULL)
        BY <2>6, BeginData, NullAssumption DEF Inv, DataStep
    <2>8. DataType'
        BY <1>1, <1>6, <2>1 DEF Inv, TypeOK, DataType
    <2>9. local[t].pc = "run"
        BY <1>1 DEF At
    <2>10. QED
        BY <1>1, <1>5, <1>6, <2>2, <2>5, <2>7, <2>8, <2>9, QuietStep
<1>9. QED
    BY <1>7, <1>8

LEMMA CvWaitInv ==
    ASSUME Inv, NEW t \in Threads, NEW l \in Locks, CvWait(t, l)
    PROVE  Inv'
<1>1. /\ At(t, "run") /\ awaits[t] = NULL /\ held[t] = {l} /\ Begin(t, "list", "cvwait", l)
      /\ word' = [word EXCEPT ![l].cv = TRUE]
      /\ UNCHANGED <<list, mutexq, wait_src, tag, signal_pending, awaits, expect, held,
                     retired, owner>>
    BY DEF CvWait, Free, waiter, client
<1>2. /\ wait_src[t] = NULL /\ Pending(t) = {} /\ local[t].moving = <<>>
      /\ \A k \in Locks : ~Unlocks(t, k) /\ ~Leaves(t, k) /\ ~Asks(t, k)
    BY <1>1, AtRun
<1>3. /\ word' \in [Locks -> WordType] /\ word'[l].cv
      /\ \A k \in Locks : /\ word'[k].lock = word[k].lock /\ word'[k].wait = word[k].wait
                          /\ word'[k].cv <=> word[k].cv \/ k = l
                          /\ word'[k].pay = word[k].pay
    <2>1. word[l] \in WordType
        BY DEF Inv, TypeOK
    <2>2. PICK d : d = [word[l] EXCEPT !.cv = TRUE]
        OBVIOUS
    <2>3. /\ d \in WordType /\ d.lock = word[l].lock /\ d.wait = word[l].wait
          /\ d.cv = TRUE /\ d.pay = word[l].pay
        BY <2>1, <2>2 DEF WordType
    <2>4. word' = [word EXCEPT ![l] = d]
        BY <1>1, <2>2
    <2>5. /\ word' \in [Locks -> WordType] /\ word'[l] = d
          /\ \A k \in Locks : k # l => word'[k] = word[k]
        BY <2>3, <2>4, WordChanged
    <2>6. QED
        BY <2>3, <2>5
<1>4. /\ Others(t) /\ local' = [local EXCEPT ![t] = local'[t]] /\ local'[t] \in LocalType
      /\ local'[t].pc = "list" /\ local'[t].op = "cvwait" /\ local'[t].lock = l
      /\ Stage(t)' = "list" /\ Contending(t)' /\ Empty(t)' /\ Pending(t)' = {}
      /\ local'[t].moving = <<>> /\ local'[t].bits = <<>>
      /\ \A k \in Locks : ~Unlocks(t, k)' /\ ~Goes(t, k)' /\ (Leaves(t, k)' <=> k = l)
    BY <1>1, Begun DEF Inv, InnerOps
<1>5. CvWaiting(t)'
    BY <1>1, <1>2, <1>3, <1>4 DEF CvWaiting
<1>6. LocalOK(t)'
    BY <1>1, <1>4, <1>5, NoLocals, NullAssumption DEF LocalOK, At, OpNames
<1>7. Begins(t, l)
    BY <1>1, <1>2, <1>3, <1>4 DEF Begins
<1>8. DataStep(t, NULL)
    BY <1>7, BeginData, NullAssumption DEF Inv, DataStep
<1>9. DataType'
    BY <1>1, <1>3 DEF Inv, TypeOK, DataType
<1>10. PayloadOK(t)'
    BY <1>1, <1>2, <1>3, PayloadSame
<1>11. local[t].pc = "run"
    BY <1>1 DEF At
<1>12. QED
    BY <1>1, <1>3, <1>4, <1>6, <1>8, <1>9, <1>10, <1>11, QuietStep

LEMMA NotifyInv ==
    ASSUME Inv, NEW t \in Threads, NEW l \in Locks, NEW op, Notify(t, l, op)
    PROVE  Inv'
<1>1. /\ At(t, "run") /\ awaits[t] = NULL /\ l \in held[t] /\ word[l].cv
      /\ op \in {"signal", "broadcast"} /\ Begin(t, "list", op, l)
      /\ UNCHANGED <<word, list, mutexq, wait_src, tag, signal_pending, awaits, expect, held,
                     retired, owner>>
    BY DEF Notify, Free, waiter, client
<1>2. /\ wait_src[t] = NULL /\ Pending(t) = {} /\ local[t].moving = <<>>
      /\ \A k \in Locks : ~Unlocks(t, k) /\ ~Leaves(t, k) /\ ~Asks(t, k)
    BY <1>1, AtRun
<1>3. /\ Others(t) /\ local' = [local EXCEPT ![t] = local'[t]] /\ local'[t] \in LocalType
      /\ local'[t].pc = "list" /\ local'[t].op = op /\ local'[t].lock = l
      /\ Stage(t)' = "list" /\ Contending(t)' /\ Pending(t)' = {}
      /\ local'[t].moving = <<>> /\ local'[t].bits = <<>>
      /\ \A k \in Locks : ~Unlocks(t, k)' /\ ~Goes(t, k)' /\ ~Leaves(t, k)'
    BY <1>1, Begun DEF Inv, InnerOps
<1>4. Notifying(t)'
    <2>1. \A b : b \notin ToSet(local'[t].bits)
        BY <1>3 DEF ToSet
    <2>2. QED
        BY <1>1, <1>2, <1>3, <2>1 DEF Notifying
<1>5. LocalOK(t)'
    BY <1>1, <1>3, <1>4, NoLocals, NullAssumption DEF LocalOK, At, OpNames
<1>6. DataSame(t)
    BY <1>1, <1>2, <1>3 DEF DataSame
<1>7. DataStep(t, NULL)
    BY <1>6, SameStep
<1>8. DataType'
    BY <1>1 DEF Inv, TypeOK, DataType
<1>9. PayloadOK(t)'
    BY <1>1, <1>2, PayloadSame
<1>10. local[t].pc = "run"
    BY <1>1 DEF At
<1>11. QED
    BY <1>1, <1>3, <1>5, <1>7, <1>8, <1>9, <1>10, QuietStep

LEMMA CompleteWaitInv ==
    ASSUME Inv, NEW t \in Threads, CompleteWait(t)
    PROVE  Inv'
<1>1. At(t, "run") /\ awaits[t] # NULL
    BY DEF CompleteWait
<1>2. /\ local[t] = Idle /\ local[t].op = NULL /\ Empty(t) /\ wait_src[t] = awaits[t]
      /\ Pending(t) = {}
      /\ \A k \in Locks : ~Unlocks(t, k) /\ ~Leaves(t, k) /\ ~Goes(t, k) /\ ~Asks(t, k)
    BY <1>1, AtRun
<1>3. /\ local' = [local EXCEPT ![t].pc = "wait"]
      /\ UNCHANGED <<word, list, mutexq, wait_src, tag, signal_pending, awaits, expect, held,
                     retired, owner>>
    BY <1>2 DEF CompleteWait, Goto, waiter
<1>4. /\ Others(t) /\ local' = [local EXCEPT ![t] = local'[t]] /\ local'[t] \in LocalType
      /\ local'[t].pc = "wait" /\ local'[t].op = NULL
      /\ local'[t].moving = local[t].moving /\ local'[t].bits = local[t].bits
    <2>1. local \in [Threads -> LocalType] /\ local[t] \in LocalType
        BY DEF Inv, TypeOK
    <2> DEFINE d == [local[t] EXCEPT !.pc = "wait"]
    <2>2. d \in LocalType /\ d.pc = "wait" /\ d.op = NULL
          /\ d.moving = local[t].moving /\ d.bits = local[t].bits
        BY <1>2, <2>1 DEF LocalType, PcNames
    <2>3. local' = [local EXCEPT ![t] = d]
        BY <1>3
    <2> HIDE DEF d
    <2>4. QED
        BY <2>1, <2>2, <2>3 DEF Others
<1>5. local'[t].moving = <<>> /\ local'[t].bits = <<>> /\ local[t].moving = <<>>
    BY <1>2, <1>4 DEF Empty
<1>6. Pending(t)' = {}
    BY <1>5 DEF Pending, ToSet
<1>7. \A k \in Locks : ~Unlocks(t, k)' /\ ~Leaves(t, k)' /\ ~Goes(t, k)'
    BY <1>4, NullAssumption DEF Unlocks, Leaves, Goes, OpNames
<1>8. Resting(t)'
    BY <1>1, <1>2, <1>3, <1>4, <1>5 DEF Resting, Empty, At
<1>9. LocalOK(t)'
    BY <1>3, <1>4, <1>5, <1>8, NoLocals, NullAssumption DEF LocalOK, At, OpNames, Inv
<1>10. DataStep(t, NULL)
    BY <1>2, <1>3, <1>4, <1>5, <1>6, <1>7, SameStep DEF DataSame
<1>11. DataType'
    BY <1>3 DEF Inv, TypeOK, DataType
<1>12. PayloadOK(t)'
    BY <1>2, <1>3, PayloadSame
<1>13. local[t].pc = "run"
    BY <1>1 DEF At
<1>14. QED
    BY <1>3, <1>4, <1>9, <1>10, <1>11, <1>12, <1>13, QuietStep

(* In which operations a thread is where. *)
LEMMA OpAt ==
    ASSUME Inv, NEW t \in Threads
    PROVE  /\ At(t, "wait") => local[t].op = NULL /\ Resting(t)
           /\ At(t, "cvwait") => local[t].op = "cvwait" /\ CvWaiting(t)
           /\ At(t, "bits") => \/ local[t].op \in {"signal", "broadcast"} /\ Notifying(t)
                               \/ local[t].op = "append" /\ Rekeying(t)
           /\ At(t, "moved") => local[t].op = "rekey" /\ Rekeying(t)
           /\ At(t, "release") => local[t].op \in {"rekey", "append"} /\ Rekeying(t)
           /\ At(t, "wake") => \/ local[t].op = "unlock" /\ Unlocking(t)
                               \/ local[t].op = "cvwait" /\ CvWaiting(t)
<1>1. LocalOK(t) /\ local[t].op \in InnerOps \cup {NULL}
    BY DEF Inv, TypeOK, LocalType
<1>2. \A p : At(t, p) /\ p # "listwake" => Stage(t) = p /\ local[t].pc = p
    BY DEF At, Stage
<1>3. local[t].op = NULL => Resting(t) /\ local[t].pc \in {"run", "wait"}
    BY <1>1 DEF LocalOK, Resting
<1>4. local[t].op \in {"lock", "payload"} =>
         Stage(t) \in {"list", "listwait", "section", "run"}
    BY <1>1 DEF LocalOK, Locking
<1>5. local[t].op = "unlock" =>
         Unlocking(t) /\ Stage(t) \in {"list", "listwait", "section", "wake"}
    BY <1>1 DEF LocalOK, Unlocking
<1>6. local[t].op = "cvwait" =>
         CvWaiting(t) /\ Stage(t) \in {"list", "listwait", "section", "wake", "cvwait"}
    BY <1>1 DEF LocalOK, CvWaiting
<1>7. local[t].op \in {"signal", "broadcast"} =>
         Notifying(t) /\ Stage(t) \in {"list", "listwait", "section", "bits"}
    BY <1>1 DEF LocalOK, Notifying
<1>8. local[t].op \in {"rekey", "append"} =>
         Rekeying(t) /\ Stage(t) \in IF local[t].op = "rekey"
                    THEN {"list", "listwait", "section", "moved", "release"}
                    ELSE {"list", "listwait", "section", "bits", "release"}
    BY <1>1 DEF LocalOK, Rekeying
<1>9. QED
    BY <1>1, <1>2, <1>3, <1>4, <1>5, <1>6, <1>7, <1>8 DEF InnerOps

(* The wait for a word is over. *)
LEMMA FinishInv ==
    ASSUME Inv, NEW t \in Threads, NEW l \in Locks, Return(t), signal_pending[t],
           ~At(t, "listwait"), local[t].pc \in {"wait", "cvwait"},
           local[t].op # "unlock", local[t].moving = <<>>, local[t].bits = <<>>,
           wait_src[t] = l, awaits[t] \in {NULL, l},
           signal_pending' = [signal_pending EXCEPT ![t] = FALSE],
           wait_src' = [wait_src EXCEPT ![t] = NULL],
           awaits' = [awaits EXCEPT ![t] = NULL],
           held' = [held EXCEPT ![t] = @ \cup {l}],
           UNCHANGED <<word, list, mutexq, tag, expect, retired, owner>>
    PROVE  Inv'
<1>1. Given(t)
    BY DEF Inv, WakeInv
<1>2. owner[l] = t /\ tag[t] = "wait"
    BY <1>1 DEF Given, Inv, WakeInv
<1>3. /\ wait_src'[t] = NULL /\ awaits'[t] = NULL
      /\ \A u \in Threads : u # t => wait_src'[u] = wait_src[u]
    BY DEF Inv, TypeOK
<1>4. /\ Others(t) /\ local' = [local EXCEPT ![t] = local'[t]]
      /\ local'[t] \in LocalType /\ local'[t].pc = "run" /\ local'[t].moving = <<>>
      /\ Pending(t)' = {} /\ ~Waking(t)' /\ LocalOK(t)'
      /\ \A k \in Locks : ~Unlocks(t, k)' /\ ~Leaves(t, k)' /\ ~Goes(t, k)'
    BY <1>3, Returned DEF Inv
<1>5. Pending(t) = {}
    BY DEF Pending, ToSet
<1>6. \A k \in Locks : ~Unlocks(t, k) /\ ~Leaves(t, k) /\ ~Asks(t, k)
    BY DEF Unlocks, Leaves, Asks, Contending
<1>7. Finishes(t, l)
    BY <1>2, <1>4, <1>5, <1>6 DEF Finishes
<1>8. /\ OwnerInv' /\ QueueInv' /\ BitsInv' /\ RetireInv'
      /\ \A u \in Threads : u # t => Respects(u)
      /\ \A x \in Threads : Given(x)' <=> Given(x) /\ x # t
    BY <1>7, FinishData DEF Inv
<1>9. \A u \in Threads : LocalOK(u)'
    BY <1>4, <1>8, RespectsLocal DEF Inv
<1>10. CurrentWaiter(t) = t /\ t \in Waiters
    BY DEF CurrentWaiter, Waiters
<1>11. \A w \in Waiters : signal_pending'[w] => signal_pending[w]
    BY DEF Inv, TypeOK
<1>12. MutexInv'
    BY <1>3, <1>4, <1>11, MutexQuiet DEF Inv
<1>13. WakeInv'
    <2>1. ~At(t, "listwait")'
        BY <1>4 DEF At
    <2>2. QED
        BY <1>3, <1>4, <1>8, <1>10, <2>1, WakeTaken DEF Inv
<1>14. TypeOK'
    <2>1. local' \in [Threads -> LocalType]
        BY <1>4 DEF Inv, TypeOK
    <2>2. /\ signal_pending' \in [Waiters -> BOOLEAN]
          /\ wait_src' \in [Threads -> Locks \cup {NULL}]
          /\ awaits' \in [Threads -> Locks \cup {NULL}]
          /\ held' \in [Threads -> SUBSET Locks]
        BY DEF Inv, TypeOK
    <2>3. QED
        BY <2>1, <2>2 DEF Inv, TypeOK
<1>15. PayloadInv'
    <2>1. PayloadOK(t)'
        <3>1. \A k \in Locks : /\ k \in held[t] => k \in held'[t]
                               /\ awaits[t] = k => k \in held'[t]
            BY NullAssumption DEF Inv, TypeOK
        <3>2. QED
            BY <1>6, <3>1, PayloadSame
    <2>2. ASSUME NEW u \in Threads, u # t
          PROVE  PayloadOK(u)'
        BY <1>4, <1>8, <2>2, PayloadOthers
    <2>3. QED
        BY <2>1, <2>2 DEF PayloadInv
<1>16. QED
    BY <1>8, <1>9, <1>12, <1>13, <1>14, <1>15 DEF Inv

LEMMA CompleteWaitDoneInv ==
    ASSUME Inv, NEW t \in Threads, CompleteWaitDone(t)
    PROVE  Inv'
<1>1. At(t, "wait") /\ local[t].pc = "wait"
    BY DEF CompleteWaitDone, At
<1>2. local[t].op = NULL /\ Resting(t)
    BY <1>1, OpAt
<1>3. /\ local[t].moving = <<>> /\ local[t].bits = <<>>
      /\ wait_src[t] = awaits[t] /\ awaits[t] \in Locks
    BY <1>1, <1>2 DEF Resting, Empty, Inv, TypeOK
<1>4. local[t].op # "unlock" /\ ~At(t, "listwait")
    BY <1>1, <1>2, NullAssumption DEF At
<1>5. QED
    BY <1>1, <1>3, <1>4, FinishInv DEF CompleteWaitDone

LEMMA CvWaitDoneInv ==
    ASSUME Inv, NEW t \in Threads, CvWaitDone(t)
    PROVE  Inv'
<1>1. At(t, "cvwait") /\ local[t].pc = "cvwait"
    BY DEF CvWaitDone, At
<1>2. local[t].op = "cvwait" /\ CvWaiting(t) /\ ~At(t, "listwait")
    BY <1>1, OpAt DEF At
<1>3. /\ local[t].moving = <<>> /\ local[t].bits = <<>>
      /\ awaits[t] = NULL /\ wait_src[t] \in Locks
    BY <1>1, <1>2 DEF CvWaiting, Contending, Empty, Inv, TypeOK
<1>4. awaits' = [awaits EXCEPT ![t] = NULL]
    BY <1>3 DEF CvWaitDone, Inv, TypeOK
<1>5. QED
    BY <1>1, <1>2, <1>3, <1>4, FinishInv DEF CvWaitDone

(* The owner of a word that changes no bits finds them right. *)
LEMMA BitsRight ==
    ASSUME Inv, NEW t \in Threads, NEW l \in Locks, l \in held[t], Pending(t) = {}, ~Leaves(t, l)
    PROVE  (word[l].wait <=> Queued(l)) /\ (word[l].cv <=> Slept(l))
<1>1. owner[l] = t
    BY DEF Inv, OwnerInv
<1>2. \A u \in Threads : \A b \in Pending(u) : b.lock # l
    BY <1>1 DEF Inv, BitsInv
<1>3. \A u \in Threads : ~Leaves(u, l)
    <2> SUFFICES ASSUME NEW u \in Threads, Leaves(u, l) PROVE FALSE
        OBVIOUS
    <2>1. l \in held[u]
        BY DEF Leaves, Inv, LocalOK, CvWaiting
    <2>2. QED
        BY <1>1, <2>1 DEF Inv, OwnerInv
<1>4. QED
    BY <1>2, <1>3 DEF Inv, BitsInv

(* Nobody waits for a word without bits. *)
LEMMA NoBits ==
    ASSUME Inv, NEW t \in Threads, NEW l \in Locks, l \in held[t], wait_src[t] = NULL,
           Pending(t) = {}, ~Leaves(t, l), ~word[l].wait, ~word[l].cv
    PROVE  \A x \in Threads : wait_src[x] # l
<1>1. owner[l] = t /\ l # NULL
    BY NullAssumption DEF Inv, OwnerInv
<1>2. ~Queued(l) /\ ~Slept(l)
    BY BitsRight
<1>3. QED
    BY <1>1, <1>2 DEF Queued, Wants, Slept, Inv, TypeOK

LEMMA RekeyInv ==
    ASSUME Inv, NEW t \in Threads, NEW l \in Locks, NEW m \in Locks, Rekey(t, l, m)
    PROVE  Inv'
<1> DEFINE p == IF word[l].wait \/ word[l].cv THEN "list" ELSE "release"
           d == [Idle EXCEPT !.pc = p, !.op = "rekey", !.lock = l, !.newlock = m]
<1>1. /\ At(t, "run") /\ awaits[t] = NULL /\ l \in held[t] /\ m \in held[t] /\ l # m
      /\ retired[l] = t /\ local' = [local EXCEPT ![t] = d]
      /\ UNCHANGED <<word, list, mutexq, wait_src, tag, signal_pending, awaits, expect, held,
                     retired, owner>>
    BY DEF Rekey, Free, waiter, client
<1>2. p \in {"list", "release"} /\ (p = "list" <=> word[l].wait \/ word[l].cv)
    OBVIOUS
<1> HIDE DEF p
<1>3. /\ d \in LocalType /\ d.pc = p /\ d.op = "rekey" /\ d.lock = l /\ d.newlock = m
      /\ d.moving = <<>> /\ d.bits = <<>>
    <2>1. <<>> \in Seq(Threads) /\ <<>> \in Seq(BitChanges)
        OBVIOUS
    <2>2. Idle \in LocalType /\ Idle.moving = <<>> /\ Idle.bits = <<>>
        BY <2>1 DEF LocalType, Idle, PcNames
    <2>3. QED
        BY <1>2, <2>2 DEF LocalType, PcNames, InnerOps
<1> HIDE DEF d
<1>4. local'[t] = d /\ Others(t) /\ local' = [local EXCEPT ![t] = local'[t]]
    BY <1>1 DEF Others, Inv, TypeOK
<1>5. /\ wait_src[t] = NULL /\ Pending(t) = {} /\ local[t].moving = <<>>
      /\ \A k \in Locks : ~Unlocks(t, k) /\ ~Leaves(t, k) /\ ~Asks(t, k)
    BY <1>1, AtRun
<1>6. /\ Pending(t)' = {} /\ Stage(t)' = p /\ local'[t].moving = <<>> /\ local'[t].bits = <<>>
      /\ \A k \in Locks : ~Unlocks(t, k)' /\ ~Leaves(t, k)' /\ ~Goes(t, k)'
      /\ \A b : b \notin ToSet(local'[t].bits)
      /\ Contending(t)' <=> p = "list"
    BY <1>2, <1>3, <1>4 DEF Pending, Stage, At, ToSet, Unlocks, Leaves, Goes, Contending
<1>7. p = "release" => \A x \in Threads : wait_src'[x] # l
    BY <1>1, <1>2, <1>5, NoBits
<1>8. Rekeying(t)'
    BY <1>1, <1>2, <1>3, <1>4, <1>5, <1>6, <1>7 DEF Rekeying, Empty, HasMoved
<1>9. LocalOK(t)'
    BY <1>1, <1>2, <1>3, <1>4, <1>6, <1>8, NoLocals, NullAssumption DEF LocalOK, At, OpNames
<1>10. DataStep(t, NULL)
    BY <1>1, <1>4, <1>5, <1>6, SameStep DEF DataSame
<1>11. DataType'
    BY <1>1 DEF Inv, TypeOK, DataType
<1>12. PayloadOK(t)'
    BY <1>1, <1>5, PayloadSame
<1>13. local[t].pc = "run" /\ local'[t].pc \in {"list", "release"}
    BY <1>1, <1>2, <1>3, <1>4 DEF At
<1>14. QED
    BY <1>1, <1>3, <1>4, <1>9, <1>10, <1>11, <1>12, <1>13, QuietStep

LEMMA RekeyAppendInv ==
    ASSUME Inv, NEW t \in Threads, RekeyAppend(t)
    PROVE  Inv'
<1> DEFINE d == [local[t] EXCEPT !.op = "append", !.pc = "list"]
<1>1. At(t, "moved") /\ local[t].pc = "moved" /\ Stage(t) = "moved"
    BY DEF RekeyAppend, At, Stage
<1>2. local[t].op = "rekey" /\ Rekeying(t)
    BY <1>1, OpAt
<1>3. local \in [Threads -> LocalType] /\ local[t] \in LocalType
    BY DEF Inv, TypeOK
<1>4. /\ local' = [local EXCEPT ![t] = d]
      /\ UNCHANGED <<word, list, mutexq, wait_src, tag, signal_pending, awaits, expect, held,
                     retired, owner>>
    BY <1>3 DEF RekeyAppend, waiter, client
<1>5. /\ d \in LocalType /\ d.pc = "list" /\ d.op = "append" /\ d.lock = local[t].lock
      /\ d.newlock = local[t].newlock /\ d.moving = local[t].moving /\ d.bits = local[t].bits
    BY <1>3 DEF LocalType, PcNames, InnerOps
<1> HIDE DEF d
<1>6. local'[t] = d /\ Others(t) /\ local' = [local EXCEPT ![t] = local'[t]]
    BY <1>3, <1>4 DEF Others
<1>7. Stage(t)' = "list" /\ ~(Stage(t)' = "release") /\ Contending(t)'
    BY <1>5, <1>6 DEF Stage, At, Contending
<1>8. /\ Pending(t)' = Pending(t)
      /\ \A k \in Locks : ~Unlocks(t, k)' /\ ~Leaves(t, k)' /\ ~Goes(t, k)'
      /\ \A k \in Locks : ~Unlocks(t, k) /\ ~Leaves(t, k) /\ ~Asks(t, k)
    BY <1>1, <1>2, <1>5, <1>6, <1>7 DEF Pending, Unlocks, Leaves, Goes, Asks
<1>9. Rekeying(t)'
    BY <1>1, <1>2, <1>4, <1>5, <1>6, <1>7 DEF Rekeying, HasMoved
<1>10. DifferentBits(local'[t].bits) /\ Distinct(local'[t].moving)
    BY <1>5, <1>6 DEF Inv, LocalOK
<1>11. LocalOK(t)'
    BY <1>4, <1>5, <1>6, <1>9, <1>10, NullAssumption DEF LocalOK, At, OpNames, Inv
<1>12. DataStep(t, NULL)
    BY <1>4, <1>5, <1>6, <1>8, SameStep DEF DataSame
<1>13. DataType'
    BY <1>4 DEF Inv, TypeOK, DataType
<1>14. PayloadOK(t)'
    BY <1>4, <1>8, PayloadSame
<1>15. QED
    BY <1>1, <1>4, <1>5, <1>6, <1>11, <1>12, <1>13, <1>14, QuietStep

LEMMA ReleaseInv ==
    ASSUME Inv, NEW t \in Threads, Release(t)
    PROVE  Inv'
<1> DEFINE l == local[t].lock
<1>1. /\ At(t, "release") /\ local[t].pc = "release" /\ Stage(t) = "release"
      /\ ~word[l].wait /\ GiveUp(t, l) /\ Return(t)
      /\ word' = [word EXCEPT ![l].lock = FALSE] /\ owner' = [owner EXCEPT ![l] = NULL]
      /\ retired' = [retired EXCEPT ![l] = NULL]
      /\ UNCHANGED <<list, mutexq, wait_src, tag, signal_pending, awaits>>
    BY DEF Release, At, Stage, waiter
<1>2. /\ local[t].op \in {"rekey", "append"} /\ l \in held[t] /\ retired[l] = t
      /\ wait_src[t] = NULL /\ awaits[t] = NULL /\ local[t].moving = <<>>
    BY <1>1, OpAt DEF Rekeying
<1>3. l \in Locks /\ owner[l] = t /\ l # NULL
    BY <1>2, NullAssumption DEF Inv, TypeOK, OwnerInv
<1> HIDE DEF l
<1>4. /\ Pending(t) = {}
      /\ \A k \in Locks : ~Unlocks(t, k) /\ ~Leaves(t, k) /\ ~Asks(t, k)
    BY <1>1 DEF Pending, Unlocks, Leaves, Asks, Contending
<1>5. /\ Others(t) /\ local' = [local EXCEPT ![t] = local'[t]]
      /\ local'[t] \in LocalType /\ local'[t].pc = "run" /\ local'[t].moving = <<>>
      /\ Pending(t)' = {} /\ LocalOK(t)'
      /\ \A k \in Locks : ~Unlocks(t, k)' /\ ~Leaves(t, k)' /\ ~Goes(t, k)'
    BY <1>1, <1>2, Returned DEF Inv
<1>6. /\ word' \in [Locks -> WordType]
      /\ \A k \in Locks : /\ word'[k].wait = word[k].wait /\ word'[k].cv = word[k].cv
                          /\ word'[k].lock <=> word[k].lock /\ k # l
                          /\ word'[k].pay = word[k].pay
    BY <1>1, <1>3, FreedWord
<1>7. /\ PayloadOK(t)' /\ \A u \in Threads : u # t => expect'[u] = expect[u]
      /\ expect' \in [Threads -> {NULL} \cup (Locks \X BOOLEAN \X AnyPayload)]
      /\ held' \in [Threads -> SUBSET Locks]
      /\ held' = [held EXCEPT ![t] = @ \ {l}]
    BY <1>1, <1>3, <1>4, <1>6, PayloadGiven
<1>8. SameView(t)
    BY <1>2, <1>4, <1>5 DEF SameView
<1>9. Frees(t, l)
    BY <1>1, <1>2, <1>3, <1>4, <1>5, <1>6, <1>7, <1>8 DEF Frees
<1>10. DataStep(t, NULL)
    BY <1>3, <1>9, FreeData, NullAssumption DEF Inv, DataStep
<1>11. DataType'
    <2>1. owner' \in [Locks -> Threads \cup {NULL}] /\ retired' \in [Locks -> Threads \cup {NULL}]
        BY <1>1 DEF Inv, TypeOK
    <2>2. QED
        BY <1>1, <1>6, <1>7, <2>1 DEF Inv, TypeOK, DataType
<1>12. QED
    BY <1>1, <1>5, <1>6, <1>7, <1>10, <1>11, QuietStep

(* Different bits are different entries, and stay different. *)
LEMMA NextBit ==
    ASSUME NEW q \in Seq(BitChanges), q # <<>>, DifferentBits(q)
    PROVE  /\ Head(q) \in BitChanges /\ Head(q) \in ToSet(q)
           /\ Tail(q) \in Seq(BitChanges) /\ DifferentBits(Tail(q))
           /\ \A b : b \in ToSet(Tail(q)) <=> b \in ToSet(q) /\ b # Head(q)
           /\ Len(q) > 1 <=> Tail(q) # <<>>
<1>1. Distinct(q)
    BY DEF Distinct, DifferentBits
<1>2. /\ Head(q) \in ToSet(q) /\ Head(q) \in BitChanges /\ Tail(q) \in Seq(BitChanges)
      /\ ToSet(Tail(q)) = ToSet(q) \ {Head(q)}
      /\ Len(q) > 1 <=> Tail(q) # <<>>
    BY <1>1, TailSet
<1>3. DifferentBits(Tail(q))
    <2>1. /\ Len(Tail(q)) = Len(q) - 1 /\ Len(q) \in Nat
          /\ \A i \in 1..(Len(q) - 1) : Tail(q)[i] = q[i + 1]
        OBVIOUS
    <2> SUFFICES ASSUME NEW i \in 1..(Len(q) - 1), NEW j \in 1..(Len(q) - 1),
                        Tail(q)[i].lock = Tail(q)[j].lock, Tail(q)[i].name = Tail(q)[j].name
                 PROVE  i = j
        BY <2>1 DEF DifferentBits
    <2>2. /\ i + 1 \in 1..Len(q) /\ j + 1 \in 1..Len(q)
          /\ q[i + 1].lock = q[j + 1].lock /\ q[i + 1].name = q[j + 1].name
        BY <2>1
    <2>3. i + 1 = j + 1
        BY <2>2 DEF DifferentBits
    <2>4. QED
        BY <2>3
<1>4. QED
    BY <1>2, <1>3

(* The word after the change of a bit. *)
LEMMA BitSet ==
    ASSUME Inv, NEW b \in BitChanges,
           word' = [word EXCEPT ![b.lock] = [@ EXCEPT ![b.name] = b.value]]
    PROVE  /\ word' \in [Locks -> WordType]
           /\ \A k \in Locks :
                 /\ word'[k].lock = word[k].lock /\ word'[k].pay = word[k].pay
                 /\ word'[k].wait = IF k = b.lock /\ b.name = "wait" THEN b.value ELSE word[k].wait
                 /\ word'[k].cv = IF k = b.lock /\ b.name = "cv" THEN b.value ELSE word[k].cv
<1>1. b.lock \in Locks /\ b.name \in {"wait", "cv"} /\ b.value \in BOOLEAN
    BY DEF BitChanges
<1>2. word[b.lock] \in WordType /\ word \in [Locks -> WordType]
    BY <1>1 DEF Inv, TypeOK
<1>3. PICK l, v, w : l = b.lock /\ v = b.value /\ w = word[l]
    OBVIOUS
<1>4. CASE b.name = "wait"
    <2>1. PICK d : d = [w EXCEPT !.wait = v]
        OBVIOUS
    <2>2. /\ d \in WordType /\ d.lock = w.lock /\ d.wait = v
          /\ d.cv = w.cv /\ d.pay = w.pay
        BY <1>1, <1>2, <1>3, <2>1 DEF WordType
    <2>3. word' = [word EXCEPT ![l] = d]
        BY <1>2, <1>3, <1>4, <2>1
    <2>4. /\ word' \in [Locks -> WordType] /\ word'[l] = d
          /\ \A k \in Locks : k # l => word'[k] = word[k]
        BY <1>1, <1>3, <2>2, <2>3, WordChanged
    <2>5. QED
        BY <1>3, <1>4, <2>2, <2>4
<1>5. CASE b.name = "cv"
    <2>1. PICK d : d = [w EXCEPT !.cv = v]
        OBVIOUS
    <2>2. /\ d \in WordType /\ d.lock = w.lock /\ d.wait = w.wait
          /\ d.cv = v /\ d.pay = w.pay
        BY <1>1, <1>2, <1>3, <2>1 DEF WordType
    <2>3. word' = [word EXCEPT ![l] = d]
        BY <1>2, <1>3, <1>5, <2>1
    <2>4. /\ word' \in [Locks -> WordType] /\ word'[l] = d
          /\ \A k \in Locks : k # l => word'[k] = word[k]
        BY <1>1, <1>3, <2>2, <2>3, WordChanged
    <2>5. QED
        BY <1>3, <1>5, <2>2, <2>4
<1>6. QED
    BY <1>1, <1>4, <1>5

LEMMA SetBitsInv ==
    ASSUME Inv, NEW t \in Threads, SetBits(t)
    PROVE  Inv'
<1> DEFINE q == local[t].bits
           b == Head(q)
<1>1. /\ At(t, "bits") /\ local[t].pc = "bits" /\ Stage(t) = "bits" /\ ~Contending(t)
      /\ word' = [word EXCEPT ![b.lock] = [@ EXCEPT ![b.name] = b.value]]
      /\ UNCHANGED <<list, mutexq, wait_src, tag, signal_pending, awaits, expect, held,
                     retired, owner>>
    BY DEF SetBits, At, Stage, Contending, waiter, client
<1>2. /\ local \in [Threads -> LocalType] /\ local[t] \in LocalType
      /\ q \in Seq(BitChanges) /\ DifferentBits(q)
    BY DEF Inv, TypeOK, LocalType, LocalOK
<1>3. /\ q # <<>> /\ local[t].moving = <<>> /\ wait_src[t] = NULL /\ awaits[t] = NULL
      /\ local[t].op \in {"signal", "broadcast", "append"}
      /\ local[t].op = "append" => Rekeying(t)
      /\ local[t].op # "append" => Notifying(t)
    BY <1>1, OpAt DEF Notifying, Rekeying
<1>4. /\ b \in BitChanges /\ b \in ToSet(q)
      /\ Tail(q) \in Seq(BitChanges) /\ DifferentBits(Tail(q))
      /\ \A c : c \in ToSet(Tail(q)) <=> c \in ToSet(q) /\ c # b
      /\ Len(q) > 1 <=> Tail(q) # <<>>
    BY <1>2, <1>3, NextBit
<1>5. \/ /\ Len(q) > 1 /\ local' = [local EXCEPT ![t] = [local[t] EXCEPT !.bits = Tail(q)]]
      \/ /\ ~(Len(q) > 1) /\ local[t].op = "append"
         /\ local' = [local EXCEPT ![t] = [local[t] EXCEPT !.pc = "release"]]
      \/ /\ ~(Len(q) > 1) /\ local[t].op # "append" /\ Return(t)
    BY <1>2 DEF SetBits, Goto
<1>6. Pending(t) = ToSet(q)
    BY <1>1 DEF Pending
<1>7. \A k \in Locks : ~Unlocks(t, k) /\ ~Leaves(t, k) /\ ~Asks(t, k)
    BY <1>1 DEF Unlocks, Leaves, Asks
<1> HIDE DEF b, q
<1>8. /\ word' \in [Locks -> WordType]
      /\ \A k \in Locks :
            /\ word'[k].lock = word[k].lock /\ word'[k].pay = word[k].pay
            /\ word'[k].wait = IF k = b.lock /\ b.name = "wait" THEN b.value ELSE word[k].wait
            /\ word'[k].cv = IF k = b.lock /\ b.name = "cv" THEN b.value ELSE word[k].cv
    BY <1>1, <1>4, BitSet
<1>9. /\ Others(t) /\ local' = [local EXCEPT ![t] = local'[t]] /\ local'[t] \in LocalType
      /\ local'[t].pc \in {"bits", "release", "run"} /\ local'[t].moving = <<>>
      /\ \A c : c \in Pending(t)' <=> c \in ToSet(q) /\ c # b
      /\ \A k \in Locks : ~Unlocks(t, k)' /\ ~Leaves(t, k)' /\ ~Goes(t, k)'
      /\ LocalOK(t)'
    <2>1. CASE /\ Len(q) > 1
               /\ local' = [local EXCEPT ![t] = [local[t] EXCEPT !.bits = Tail(q)]]
        <3>1. PICK d : d = [local[t] EXCEPT !.bits = Tail(q)]
            OBVIOUS
        <3>2. /\ d \in LocalType /\ d.pc = "bits" /\ d.op = local[t].op
              /\ d.lock = local[t].lock /\ d.newlock = local[t].newlock
              /\ d.moving = <<>> /\ d.bits = Tail(q)
            BY <1>1, <1>2, <1>3, <1>4, <3>1 DEF LocalType
        <3>3. /\ local'[t] = d /\ Others(t) /\ local' = [local EXCEPT ![t] = local'[t]]
            BY <1>2, <2>1, <3>1 DEF Others
        <3>4. Stage(t)' = "bits" /\ ~Contending(t)' /\ Pending(t)' = ToSet(Tail(q))
            BY <3>2, <3>3 DEF Stage, At, Contending, Pending
        <3>5. \A k \in Locks : ~Unlocks(t, k)' /\ ~Leaves(t, k)' /\ ~Goes(t, k)'
            BY <1>3, <3>2, <3>3, <3>4 DEF Unlocks, Leaves, Goes
        <3>6. /\ Tail(q) # <<>>
              /\ \A c \in ToSet(local'[t].bits) : c \in ToSet(local[t].bits)
            BY <1>4, <2>1, <3>2, <3>3 DEF q
        <3>7. local[t].op # "append" => Notifying(t)'
            BY <1>1, <1>3, <3>2, <3>3, <3>4, <3>6 DEF Notifying
        <3>8. local[t].op = "append" => Rekeying(t)'
            BY <1>1, <1>3, <3>2, <3>3, <3>4, <3>6 DEF Rekeying, HasMoved
        <3>9. DifferentBits(local'[t].bits) /\ Distinct(local'[t].moving)
            <4>1. local'[t].bits = Tail(q) /\ local'[t].moving = <<>>
                BY <3>2, <3>3
            <4>2. Distinct(local'[t].moving)
                BY <4>1 DEF Distinct
            <4>3. QED
                BY <1>4, <4>1, <4>2
        <3>10. LocalOK(t)'
            BY <1>1, <1>3, <3>2, <3>3, <3>7, <3>8, <3>9, NullAssumption
               DEF LocalOK, At, OpNames
        <3>11. QED
            BY <1>4, <3>2, <3>3, <3>4, <3>5, <3>10
    <2>2. CASE /\ ~(Len(q) > 1) /\ local[t].op = "append"
               /\ local' = [local EXCEPT ![t] = [local[t] EXCEPT !.pc = "release"]]
        <3>1. PICK d : d = [local[t] EXCEPT !.pc = "release"]
            OBVIOUS
        <3>2. /\ d \in LocalType /\ d.pc = "release" /\ d.op = "append"
              /\ d.lock = local[t].lock /\ d.newlock = local[t].newlock
              /\ d.moving = <<>> /\ d.bits = q
            BY <1>1, <1>2, <1>3, <1>4, <2>2, <3>1 DEF LocalType, PcNames, q
        <3>3. /\ local'[t] = d /\ Others(t) /\ local' = [local EXCEPT ![t] = local'[t]]
            BY <1>2, <2>2, <3>1 DEF Others
        <3>4. Stage(t)' = "release" /\ ~Contending(t)' /\ Pending(t)' = {}
            BY <3>2, <3>3 DEF Stage, At, Contending, Pending
        <3>5. \A k \in Locks : ~Unlocks(t, k)' /\ ~Leaves(t, k)' /\ ~Goes(t, k)'
            BY <3>2, <3>3, <3>4 DEF Unlocks, Leaves, Goes
        <3>6. Rekeying(t)'
            BY <1>1, <1>3, <2>2, <3>2, <3>3, <3>4 DEF Rekeying, HasMoved, q
        <3>7. DifferentBits(local'[t].bits) /\ Distinct(local'[t].moving)
            BY <1>2, <3>2, <3>3 DEF Distinct
        <3>8. LocalOK(t)'
            BY <1>1, <1>3, <3>2, <3>3, <3>6, <3>7, NullAssumption DEF LocalOK, At, OpNames
        <3>9. \A c : c \notin ToSet(Tail(q))
            BY <1>4, <2>2 DEF ToSet
        <3>10. QED
            BY <1>4, <3>2, <3>3, <3>4, <3>5, <3>8, <3>9
    <2>3. CASE ~(Len(q) > 1) /\ local[t].op # "append" /\ Return(t)
        <3>1. \A c : c \notin ToSet(Tail(q))
            BY <1>4, <2>3 DEF ToSet
        <3>2. QED
            BY <1>1, <1>3, <1>4, <2>3, <3>1, Returned DEF Inv
    <2>4. QED
        BY <1>5, <2>1, <2>2, <2>3
<1>10. Changes(t, b)
    BY <1>1, <1>3, <1>4, <1>6, <1>7, <1>8, <1>9 DEF Changes
<1>11. DataStep(t, NULL)
    BY <1>10, ChangeData, NullAssumption DEF Inv, DataStep
<1>12. DataType'
    BY <1>1, <1>8 DEF Inv, TypeOK, DataType
<1>13. PayloadOK(t)'
    BY <1>1, <1>7, <1>8, PayloadSame
<1>14. QED
    BY <1>1, <1>8, <1>9, <1>11, <1>12, <1>13, QuietStep

-------------------------------------------------------------------------------
(* The lock of a list. *)

(* A step that leaves the words and the lists alone. *)
LEMMA SameInv ==
    ASSUME Inv, NEW t \in Threads, DataSame(t), expect' = expect,
           \A k \in Locks : Asks(t, k) => Asks(t, k)',
           TypeOK', LocalOK(t)', MutexInv', WakeInv'
    PROVE  Inv'
<1>1. DataStep(t, NULL)
    BY SameStep
<1>2. \A u \in Threads : LocalOK(u)'
    BY <1>1, RespectsLocal DEF Inv, DataStep
<1>3. PayloadOK(t)'
    BY PayloadSame DEF DataSame
<1>4. \A u \in Threads : u # t => PayloadOK(u)'
    BY <1>1, PayloadOthers DEF DataStep, DataSame
<1>5. QED
    BY <1>1, <1>2, <1>3, <1>4 DEF Inv, DataStep, PayloadInv

(* A thread that goes on in its call, to lock the list or from it. *)
LEMMA GoesOn ==
    ASSUME Inv, NEW t \in Threads, NEW p \in PcNames, Goto(t, p),
           UNCHANGED <<word, list, wait_src, tag, awaits, expect, held, retired, owner>>,
           \/ Contending(t) /\ p \in {"listwait", "section"}
           \/ At(t, "listwake") /\ p = local[t].then /\ p # "run"
    PROVE  /\ DataSame(t) /\ LocalOK(t)' /\ local' \in [Threads -> LocalType]
           /\ \A k \in Locks : Asks(t, k) => Asks(t, k)'
           /\ local'[t].pc = p /\ local'[t].op = local[t].op
<1>1. local \in [Threads -> LocalType] /\ local[t] \in LocalType /\ LocalOK(t)
    BY DEF Inv, TypeOK
<1>2. PICK d : d = [local[t] EXCEPT !.pc = p]
    OBVIOUS
<1>3. /\ d \in LocalType /\ d.pc = p /\ d.op = local[t].op /\ d.lock = local[t].lock
      /\ d.newlock = local[t].newlock /\ d.moving = local[t].moving
      /\ d.bits = local[t].bits /\ d.then = local[t].then
    BY <1>1, <1>2 DEF LocalType
<1>4. local' = [local EXCEPT ![t] = d]
    BY <1>2 DEF Goto
<1>5. local'[t] = d /\ Others(t) /\ local' \in [Threads -> LocalType]
    BY <1>1, <1>3, <1>4 DEF Others
<1>6. /\ p \notin {"run", "wait", "listwake", "list"}
      /\ local[t].pc \notin {"run", "wait"}
      /\ Contending(t)' <=> Contending(t)
      /\ \/ Stage(t)' = Stage(t)
         \/ Stage(t) \in {"list", "listwait", "section"} /\ Stage(t)' \in {"listwait", "section"}
    BY <1>1, <1>3, <1>5 DEF Contending, Stage, At, LocalOK
<1>7. local[t].op \in InnerOps
    BY <1>1, <1>6, InCall DEF Inv
<1>8. /\ \A k \in Locks : Unlocks(t, k)' <=> Unlocks(t, k)
      /\ \A k \in Locks : Leaves(t, k)' <=> Leaves(t, k)
      /\ \A k \in Locks : Goes(t, k)' <=> Goes(t, k)
      /\ \A k \in Locks : Asks(t, k)' <=> Asks(t, k)
    BY <1>3, <1>5, <1>6 DEF Unlocks, Leaves, Goes, Asks
<1>9. Pending(t)' = Pending(t) /\ (Empty(t)' <=> Empty(t)) /\ (HasMoved(t)' <=> HasMoved(t))
    BY <1>3, <1>5, <1>6 DEF Pending, Empty, HasMoved
<1>10. DataSame(t)
    BY <1>3, <1>5, <1>8, <1>9 DEF DataSame
<1>11. local[t].op \in {"lock", "payload"} => Locking(t)'
    BY <1>1, <1>3, <1>5, <1>6, <1>9 DEF LocalOK, Locking
<1>12. local[t].op = "unlock" => Unlocking(t)'
    BY <1>1, <1>3, <1>5, <1>6, <1>9 DEF LocalOK, Unlocking
<1>13. local[t].op = "cvwait" => CvWaiting(t)'
    BY <1>1, <1>3, <1>5, <1>6, <1>9 DEF LocalOK, CvWaiting
<1>14. local[t].op \in {"signal", "broadcast"} => Notifying(t)'
    BY <1>1, <1>3, <1>5, <1>6, <1>9 DEF LocalOK, Notifying
<1>15. local[t].op \in {"rekey", "append"} => Rekeying(t)'
    BY <1>1, <1>3, <1>5, <1>6, <1>9 DEF LocalOK, Rekeying
<1>16. DifferentBits(local'[t].bits) /\ Distinct(local'[t].moving)
    BY <1>1, <1>3, <1>5 DEF LocalOK
<1>17. LocalOK(t)'
    BY <1>1, <1>3, <1>5, <1>6, <1>7, <1>11, <1>12, <1>13, <1>14, <1>15, <1>16, NullAssumption
       DEF LocalOK, At, InnerOps, OpNames
<1>18. QED
    BY <1>3, <1>5, <1>8, <1>10, <1>17

LEMMA LockListInv ==
    ASSUME Inv, NEW t \in Threads, LockList(t)
    PROVE  Inv'
<1> DEFINE i == WaitList(t)
           p == IF mutexq[i] = <<>> THEN "section" ELSE "listwait"
<1>1. /\ At(t, "list") /\ Contending(t) /\ Goto(t, p)
      /\ mutexq' = [mutexq EXCEPT ![i] = Append(@, CurrentWaiter(t))]
      /\ UNCHANGED <<word, list, wait_src, tag, signal_pending, awaits, expect, held,
                     retired, owner>>
    BY DEF LockList, At, Contending, waiter, client
<1>2. p \in {"section", "listwait"} /\ p \in PcNames
    BY DEF PcNames
<1>3. i \in Lists
    BY <1>1, InCall DEF Inv, At
<1> HIDE DEF i, p
<1>4. /\ DataSame(t) /\ LocalOK(t)' /\ local' \in [Threads -> LocalType]
      /\ \A k \in Locks : Asks(t, k) => Asks(t, k)'
      /\ local'[t].pc = p /\ local'[t].op = local[t].op
    BY <1>1, <1>2, GoesOn
<1>5. MutexInv'
    BY MutexLockList DEF Inv
<1>6. mutexq' \in [Lists -> Seq(Waiters)]
    <2>1. mutexq[i] \in Seq(Waiters) /\ CurrentWaiter(t) \in Waiters
        BY <1>3, WaiterFacts DEF Inv, TypeOK
    <2>2. Append(mutexq[i], CurrentWaiter(t)) \in Seq(Waiters)
        BY <2>1
    <2>3. QED
        BY <1>1, <2>2 DEF Inv, TypeOK
<1>7. TypeOK'
    BY <1>1, <1>4, <1>6 DEF Inv, TypeOK
<1>8. WakeInv'
    <2>1. \A u \in Threads : u # t /\ At(u, "listwait")
             /\ Head(mutexq[WaitList(u)]) = CurrentWaiter(u)
             => Head(mutexq'[WaitList(u)]) = CurrentWaiter(u)
        <3> SUFFICES ASSUME NEW u \in Threads, At(u, "listwait"),
                            Head(mutexq[WaitList(u)]) = CurrentWaiter(u)
                     PROVE  Head(mutexq'[WaitList(u)]) = CurrentWaiter(u)
            OBVIOUS
        <3>1. WaitList(u) \in Lists /\ InQueue(u)
            BY InCall DEF Inv, At, InQueue
        <3>2. CurrentWaiter(u) \in ToSet(mutexq[WaitList(u)])
            BY <3>1 DEF Inv, MutexInv
        <3>3. mutexq[WaitList(u)] # <<>> /\ mutexq[WaitList(u)] \in Seq(Waiters)
            BY <3>1, <3>2, EmptySet DEF Inv, TypeOK
        <3>4. CASE WaitList(u) = i
            <4>1. mutexq'[i] = Append(mutexq[i], CurrentWaiter(t))
                BY <1>1, <1>3 DEF Inv, TypeOK
            <4>2. Head(mutexq'[i]) = Head(mutexq[i])
                BY <3>3, <3>4, <4>1, HeadOfAppend, WaiterFacts DEF Inv
            <4>3. QED
                BY <3>4, <4>2
        <3>5. CASE WaitList(u) # i
            BY <1>1, <3>1, <3>5 DEF Inv, TypeOK
        <3>6. QED
            BY <3>4, <3>5
    <2>2. /\ Others(t) /\ \A x \in Threads : Given(x)' <=> Given(x) \/ x = NULL
          /\ wait_src' = wait_src
        BY <1>1, <1>4, NullAssumption DEF DataSame, Given
    <2>3. ~Waking(t)' /\ ~At(t, "listwait")
        BY <1>1, <1>2, <1>4 DEF Waking, Stage, At
    <2>4. CurrentWaiter(t)' = t => ~Given(t)
        <3>1. CurrentWaiter(t)' = CurrentWaiter(t)
            BY <1>1, <1>4 DEF CurrentWaiter
        <3>2. QED
            BY <1>1, <3>1, ContendingWaiter DEF Inv, Given
    <2>5. \A x \in Threads : Given(x) => tag'[x] = "wait"
        BY <1>1 DEF Inv, WakeInv
    <2>6. TypeOK /\ WakeInv /\ (\A u \in Threads : LocalOK(u)) /\ NULL \notin Threads
        BY NullAssumption DEF Inv
    <2>7. QED
        BY <1>1, <2>1, <2>2, <2>3, <2>4, <2>5, <2>6, WakeStep
<1>9. QED
    BY <1>1, <1>4, <1>5, <1>7, <1>8, SameInv

LEMMA LockListWaitInv ==
    ASSUME Inv, NEW t \in Threads, LockListWait(t)
    PROVE  Inv'
<1>1. /\ At(t, "listwait") /\ Contending(t) /\ InQueue(t) /\ Goto(t, "section")
      /\ signal_pending[CurrentWaiter(t)]
      /\ signal_pending' = [signal_pending EXCEPT ![CurrentWaiter(t)] = FALSE]
      /\ UNCHANGED <<word, list, mutexq, wait_src, tag, awaits, expect, held, retired, owner>>
    BY DEF LockListWait, At, Contending, InQueue, waiter, client
<1>2. /\ DataSame(t) /\ LocalOK(t)' /\ local' \in [Threads -> LocalType]
      /\ \A k \in Locks : Asks(t, k) => Asks(t, k)'
      /\ local'[t].pc = "section"
    BY <1>1, GoesOn DEF PcNames
<1>3. MutexInv'
    BY MutexLockListWait DEF Inv
<1>4. TypeOK'
    BY <1>1, <1>2 DEF Inv, TypeOK
<1>5. WakeInv'
    <2>1. Others(t) /\ \A x \in Threads : Given(x)' <=> Given(x)
        BY <1>1, <1>2 DEF DataSame, Given
    <2>2. ~Waking(t)' /\ ~At(t, "listwait")'
        BY <1>2 DEF Waking, Stage, At
    <2>3. PICK w : w = CurrentWaiter(t)
        OBVIOUS
    <2>4. w \in Threads => ~Given(w)'
        <3>1. ASSUME w \in Threads
              PROVE  w = t /\ wait_src[t] = NULL
            BY <1>1, <2>3, <3>1, WaiterFacts, OwnWaiter DEF Inv
        <3>2. QED
            BY <2>1, <3>1 DEF Given
    <2>5. QED
        BY <1>1, <2>1, <2>2, <2>3, <2>4, WakeTaken DEF Inv
<1>6. QED
    BY <1>1, <1>2, <1>3, <1>4, <1>5, SameInv

(* Back from a call that leaves the words alone. *)
LEMMA ReturnSame ==
    ASSUME Inv, NEW t \in Threads, Return(t), ~Contending(t), Empty(t),
           wait_src[t] = awaits[t],
           UNCHANGED <<word, list, wait_src, tag, awaits, expect, held, retired, owner>>
    PROVE  /\ DataSame(t) /\ LocalOK(t)' /\ local' \in [Threads -> LocalType]
           /\ \A k \in Locks : Asks(t, k) => Asks(t, k)'
           /\ local'[t].pc = "run"
<1>1. awaits[t] # NULL => tag[t] = "wait"
    BY DEF Inv, LocalOK
<1>2. /\ Others(t) /\ local' = [local EXCEPT ![t] = local'[t]]
      /\ local'[t] \in LocalType /\ local'[t].pc = "run" /\ local'[t].moving = <<>>
      /\ Pending(t)' = {} /\ LocalOK(t)'
      /\ \A k \in Locks : ~Unlocks(t, k)' /\ ~Leaves(t, k)' /\ ~Goes(t, k)'
    BY <1>1, Returned DEF Inv
<1>3. Pending(t) = {} /\ \A k \in Locks : ~Unlocks(t, k) /\ ~Leaves(t, k) /\ ~Asks(t, k)
    BY DEF Pending, Empty, ToSet, Unlocks, Leaves, Asks
<1>4. local' \in [Threads -> LocalType]
    BY <1>2 DEF Inv, TypeOK
<1>5. QED
    BY <1>2, <1>3, <1>4 DEF DataSame, Empty

LEMMA UnlockListWakeInv ==
    ASSUME Inv, NEW t \in Threads, UnlockListWake(t)
    PROVE  Inv'
<1>1. /\ At(t, "listwake") /\ ~Contending(t) /\ Stage(t) = local[t].then
      /\ local[t].then \in {"run", "wake", "cvwait", "bits", "moved"}
      /\ IF local[t].then = "run" THEN Return(t) ELSE Goto(t, local[t].then)
      /\ UNCHANGED <<word, list, mutexq, wait_src, tag, awaits, expect, held, retired, owner>>
    BY DEF UnlockListWake, At, Contending, Stage, waiter, client, Inv, LocalOK
<1>2. local[t].then = "run" => Empty(t) /\ wait_src[t] = awaits[t]
    <2>1. local[t].op \in InnerOps /\ LocalOK(t)
        BY <1>1, InCall DEF Inv, At
    <2>2. QED
        BY <1>1, <2>1 DEF InnerOps, LocalOK, Locking, Unlocking, CvWaiting, Notifying, Rekeying
<1>3. /\ DataSame(t) /\ LocalOK(t)' /\ local' \in [Threads -> LocalType]
      /\ \A k \in Locks : Asks(t, k) => Asks(t, k)'
    <2>1. CASE local[t].then = "run"
        BY <1>1, <1>2, <2>1, ReturnSame
    <2>2. CASE local[t].then # "run"
        BY <1>1, <2>2, GoesOn DEF PcNames
    <2>3. QED
        BY <2>1, <2>2
<1>4. MutexInv' /\ WakeInv'
    BY MutexUnlockListWake, WakeUnlockListWake DEF Inv
<1>5. signal_pending' \in [Waiters -> BOOLEAN]
    BY DEF UnlockListWake, Inv, TypeOK
<1>6. TypeOK'
    BY <1>1, <1>3, <1>5 DEF Inv, TypeOK
<1>7. QED
    BY <1>1, <1>3, <1>4, <1>6, SameInv

LEMMA WakeupInv ==
    ASSUME Inv, NEW t \in Threads, Wakeup(t)
    PROVE  Inv'
<1> DEFINE x == local[t].to_wake_up
<1>1. /\ At(t, "wake") /\ local[t].pc = "wake" /\ ~Contending(t) /\ Stage(t) = "wake"
      /\ signal_pending' = [signal_pending EXCEPT ![x] = TRUE]
      /\ UNCHANGED <<word, list, mutexq, wait_src, tag, awaits, expect, held, retired, owner>>
    BY DEF Wakeup, At, Contending, Stage, waiter, client
<1>2. x \in Threads /\ wait_src[x] # NULL
    BY <1>1 DEF Inv, WakeInv, Waking, Given
<1> HIDE DEF x
<1>3. /\ DataSame(t) /\ LocalOK(t)' /\ local' \in [Threads -> LocalType]
      /\ \A k \in Locks : Asks(t, k) => Asks(t, k)'
      /\ local'[t].pc \in {"run", "cvwait"}
    <2>1. CASE local[t].op = "cvwait"
        <3>1. CvWaiting(t) /\ Goto(t, "cvwait")
            BY <1>1, <2>1, OpAt DEF Wakeup
        <3>2. local \in [Threads -> LocalType] /\ local[t] \in LocalType /\ LocalOK(t)
            BY DEF Inv, TypeOK
        <3>3. PICK d : d = [local[t] EXCEPT !.pc = "cvwait"]
            OBVIOUS
        <3>4. /\ d \in LocalType /\ d.pc = "cvwait" /\ d.op = "cvwait" /\ d.lock = local[t].lock
              /\ d.moving = local[t].moving /\ d.bits = local[t].bits
              /\ d.newlock = local[t].newlock
            BY <2>1, <3>2, <3>3 DEF LocalType, PcNames
        <3>5. local' = [local EXCEPT ![t] = d]
            BY <3>1, <3>3 DEF Goto
        <3>6. local'[t] = d /\ Others(t) /\ local' \in [Threads -> LocalType]
            BY <3>2, <3>4, <3>5 DEF Others
        <3>7. Stage(t)' = "cvwait" /\ ~Contending(t)'
            BY <3>4, <3>6 DEF Stage, At, Contending
        <3>8. Pending(t)' = Pending(t)
            BY <1>1, <3>4, <3>6, <3>7 DEF Pending
        <3>9. /\ \A k \in Locks : ~Unlocks(t, k)' /\ ~Leaves(t, k)' /\ ~Goes(t, k)'
              /\ \A k \in Locks : ~Unlocks(t, k) /\ ~Leaves(t, k) /\ ~Asks(t, k)
            BY <1>1, <3>4, <3>6, <3>7 DEF Unlocks, Leaves, Goes, Asks
        <3>10. DataSame(t)
            BY <1>1, <3>4, <3>6, <3>8, <3>9 DEF DataSame
        <3>11. CvWaiting(t)'
            BY <1>1, <3>1, <3>4, <3>6, <3>7 DEF CvWaiting, Empty
        <3>12. LocalOK(t)'
            BY <1>1, <3>2, <3>4, <3>6, <3>11, NullAssumption DEF LocalOK, At, OpNames
        <3>13. QED
            BY <3>4, <3>6, <3>9, <3>10, <3>12
    <2>2. CASE local[t].op # "cvwait"
        <3>1. Return(t) /\ Unlocking(t)
            BY <1>1, <2>2, OpAt DEF Wakeup
        <3>2. QED
            BY <1>1, <3>1, ReturnSame DEF Unlocking
    <2>3. QED
        BY <2>1, <2>2
<1>4. WakeInv'
    BY WakeWakeup DEF Inv
<1>5. MutexInv'
    <2>1. \A w \in Waiters : signal_pending'[w] =>
             signal_pending[w] \/ (w \in Threads /\ wait_src[w] # NULL)
        BY <1>1, <1>2 DEF Inv, TypeOK
    <2>2. QED
        BY <1>1, <1>3, <2>1, MutexQuiet DEF Inv, DataSame
<1>6. TypeOK'
    BY <1>1, <1>3 DEF Inv, TypeOK
<1>7. QED
    BY <1>1, <1>3, <1>4, <1>5, <1>6, SameInv

-------------------------------------------------------------------------------
(* The sections. *)

(* A thread leaves the section of a call that goes on. *)
LEMMA LeftSection ==
    ASSUME Inv, NEW t \in Threads, At(t, "section"), NEW p, NEW lc \in LocalType,
           UnlockList(t, p, lc), p \in {"wake", "cvwait", "bits", "moved"},
           lc.op = local[t].op, lc.lock = local[t].lock, lc.newlock = local[t].newlock
    PROVE  /\ Others(t) /\ Stage(t)' = p /\ ~Contending(t)'
           /\ local'[t].pc \in {p, "listwake"}
           /\ local'[t].pc = "listwake" => local'[t].then = p
           /\ local'[t].op = lc.op /\ local'[t].lock = lc.lock
           /\ local'[t].newlock = lc.newlock
           /\ local'[t].moving = lc.moving /\ local'[t].bits = lc.bits
           /\ \A k \in Locks : ~Unlocks(t, k)' /\ ~Leaves(t, k)' /\ ~Asks(t, k)'
           /\ local[t].op \notin {"lock", "payload"} => \A k \in Locks : ~Goes(t, k)'
           /\ Pending(t)' = ToSet(lc.bits)
<1>1. /\ Others(t) /\ Stage(t)' = p /\ ~Contending(t)'
      /\ local'[t].pc \in {p, "listwake"}
      /\ local'[t].pc = "listwake" => local'[t].then = p
      /\ local'[t].op = lc.op /\ local'[t].lock = lc.lock
      /\ local'[t].newlock = lc.newlock
      /\ local'[t].moving = lc.moving /\ local'[t].bits = lc.bits
    BY UnlockListIs
<1>2. QED
    BY <1>1 DEF Unlocks, Leaves, Asks, Goes, Pending

(* A thread leaves the section of a lock or lock_if_payload. *)
LEMMA LockLeft ==
    ASSUME Inv, NEW t \in Threads, At(t, "section"), local[t].op \in {"lock", "payload"},
           UnlockList(t, "run", local[t]),
           wait_src'[t] = awaits'[t], awaits'[t] # NULL => tag'[t] = "wait"
    PROVE  Others(t) /\ SameView(t) /\ LocalOK(t)' /\ \A k \in Locks : ~Asks(t, k)'
<1>1. local[t] \in LocalType /\ LocalOK(t)
    BY DEF Inv, TypeOK
<1>2. PICK lc : lc = local[t]
    OBVIOUS
<1>3. UnlockList(t, "run", lc) /\ lc \in LocalType
    BY <1>1, <1>2
<1>4. /\ Others(t) /\ Stage(t)' = "run" /\ ~Contending(t)'
      /\ local'[t].pc = "listwake" => local'[t].then = "run"
      /\ local'[t].pc \in {"run", "listwake"} /\ (local'[t].pc = "run" => local'[t] = Idle)
      /\ \/ /\ local'[t].op = lc.op /\ local'[t].lock = lc.lock
            /\ local'[t].moving = lc.moving /\ local'[t].bits = lc.bits
         \/ local'[t] = Idle
    BY <1>2, <1>3, UnlockListIs
<1>5. local[t].moving = <<>> /\ local[t].bits = <<>> /\ local[t].lock \in Locks
    BY <1>1 DEF LocalOK, Locking, Empty
<1>6. Idle.op = NULL /\ Idle.moving = <<>> /\ Idle.bits = <<>> /\ Idle.pc = "run"
    BY DEF Idle
<1>7. /\ local'[t].moving = <<>> /\ local'[t].bits = <<>>
      /\ \/ local'[t].op = local[t].op /\ local'[t].lock = local[t].lock
         \/ local'[t] = Idle /\ local'[t].op = NULL
    BY <1>2, <1>4, <1>5, <1>6
<1>8. Pending(t)' = {} /\ Pending(t) = {}
    BY <1>5, <1>7 DEF Pending, ToSet
<1>9. SameView(t) /\ \A k \in Locks : ~Asks(t, k)'
    BY <1>4, <1>5, <1>7, <1>8, NullAssumption
       DEF SameView, Unlocks, Leaves, Goes, Asks, OpNames
<1>10. CASE local'[t].pc = "run"
    <2>1. local'[t] = Idle /\ local'[t].op = NULL
        BY <1>4, <1>6, <1>10
    <2>2. Resting(t)'
        BY <1>7, <1>10 DEF Resting, Empty, At
    <2>3. QED
        BY <1>4, <1>7, <1>9, <1>10, <2>1, <2>2, NoLocals, NullAssumption
           DEF LocalOK, At, OpNames
<1>11. CASE local'[t].pc # "run"
    <2>1. local'[t].op = local[t].op /\ local'[t].lock = local[t].lock
        BY <1>6, <1>7, <1>11
    <2>2. Locking(t)'
        BY <1>4, <1>5, <1>7, <2>1 DEF Locking, Empty
    <2>3. QED
        BY <1>4, <1>7, <1>9, <1>11, <2>1, <2>2, NoLocals, NullAssumption
           DEF LocalOK, At, OpNames
<1>12. QED
    BY <1>10, <1>11

LEMMA LockSectionInv ==
    ASSUME Inv, NEW t \in Threads, LockSection(t)
    PROVE  Inv'
<1> DEFINE l == local[t].lock
<1>1. /\ At(t, "section") /\ Contending(t) /\ local[t].op \in {"lock", "payload"}
      /\ UnlockList(t, "run", local[t])
      /\ local[t].op = "payload" => expect[t] = <<l, word[l].cv, word[l].pay>>
      /\ UNCHANGED <<signal_pending, expect, retired>>
    BY DEF LockSection, InSection, At, Contending
<1>2. /\ l \in Locks /\ wait_src[t] = NULL /\ awaits[t] = NULL /\ \A h \in held[t] : h < l
    BY <1>1 DEF Inv, LocalOK, Locking
<1>3. Goes(t, l) /\ (\A k \in Locks : ~Unlocks(t, k)) /\ (Asks(t, l) <=> local[t].op = "payload")
    BY <1>1 DEF Goes, Unlocks, Asks
<1>4. \A k \in Locks : local[t].op = "lock" => ~Asks(t, k)
    BY DEF Asks
<1>5. local[t] \in LocalType
    BY DEF Inv, TypeOK
<1>6. l \notin held[t]
    <2>1. l \in Nat /\ ~(l < l)
        BY <1>2, ParametersAssumption
    <2>2. QED
        BY <1>2, <2>1
<1>7. retired[l] \in {NULL, t}
    BY <1>2, <1>3 DEF Inv, TypeOK, RetireInv
<1>8. ASSUME ~word[l].lock
      PROVE  Inv'
    <2>1. Obtain(t, l) /\ UNCHANGED <<list, wait_src, tag, awaits>>
        BY <1>8 DEF LockSection, waiter
    <2>2. /\ Others(t) /\ SameView(t) /\ LocalOK(t)'
        BY <1>1, <1>2, <2>1, LockLeft
    <2> HIDE DEF l
    <2>3. /\ word' \in [Locks -> WordType] /\ word'[l].pay = word[l].pay
          /\ \A k \in Locks : /\ word'[k].wait = word[k].wait /\ word'[k].cv = word[k].cv
                              /\ word'[k].lock <=> word[k].lock \/ k = l
                              /\ k # l => word'[k].pay = word[k].pay
        BY <1>2, <2>1, ObtainWord DEF Obtain
    <2>4. owner[l] = NULL
        BY <1>2, <1>8 DEF Inv, OwnerInv
    <2>5. Obtains(t, l)
        BY <1>1, <1>2, <2>1, <2>2, <2>3, <2>4 DEF Obtains, Obtain
    <2>6. DataStep(t, NULL)
        BY <1>2, <2>5, ObtainData, NullAssumption DEF Inv, DataStep
    <2>7. DataType'
        <3>1. held' \in [Threads -> SUBSET Locks] /\ owner' \in [Locks -> Threads \cup {NULL}]
            BY <1>2, <2>1 DEF Obtain, Inv, TypeOK
        <3>2. QED
            BY <1>1, <2>1, <2>3, <3>1 DEF Inv, TypeOK, DataType
    <2>8. \A k \in Locks : word'[k].pay = word[k].pay
        BY <2>3
    <2>9. l \in held'[t] /\ \A k \in held[t] : k \in held'[t]
        BY <1>2, <2>1 DEF Obtain, Inv, TypeOK
    <2>10. PayloadOK(t)'
        <3>1. CASE local[t].op = "payload"
            <4>1. expect'[t][1] = l /\ expect'[t][3] = word[l].pay
                BY <1>1, <3>1
            <4>2. QED
                BY <1>2, <2>8, <2>9, <4>1 DEF PayloadOK
        <3>2. CASE local[t].op = "lock"
            BY <1>1, <1>4, <2>1, <2>8, <2>9, <3>2, PayloadSame
        <3>3. QED
            BY <1>1, <3>1, <3>2
    <2>11. QED
        BY <1>1, <1>5, <2>1, <2>2, <2>6, <2>7, <2>8, <2>10, SectionStep, NullAssumption
<1>9. ASSUME word[l].lock
      PROVE  Inv'
    <2>1. /\ word' = [word EXCEPT ![l].wait = TRUE] /\ SetWaiter(t, l, "wait")
          /\ list' = [list EXCEPT ![Hash[l]] = Append(@, t)]
          /\ awaits' = [awaits EXCEPT ![t] = l] /\ UNCHANGED <<held, owner>>
        BY <1>9 DEF LockSection
    <2>2. /\ wait_src' = [wait_src EXCEPT ![t] = l] /\ tag' = [tag EXCEPT ![t] = "wait"]
        BY <2>1 DEF SetWaiter
    <2>3. wait_src'[t] = l /\ awaits'[t] = l /\ tag'[t] = "wait"
        BY <2>1, <2>2 DEF Inv, TypeOK
    <2>4. /\ Others(t) /\ SameView(t) /\ LocalOK(t)'
        BY <1>1, <2>3, LockLeft
    <2> HIDE DEF l
    <2>5. /\ word' \in [Locks -> WordType]
          /\ \A k \in Locks : /\ word'[k].lock = word[k].lock /\ word'[k].cv = word[k].cv
                              /\ word'[k].wait <=> word[k].wait \/ k = l
                              /\ word'[k].pay = word[k].pay
        <3>1. word[l] \in WordType
            BY <1>2 DEF Inv, TypeOK
        <3>2. PICK d : d = [word[l] EXCEPT !.wait = TRUE]
            OBVIOUS
        <3>3. /\ d \in WordType /\ d.lock = word[l].lock /\ d.wait = TRUE
              /\ d.cv = word[l].cv /\ d.pay = word[l].pay
            BY <3>1, <3>2 DEF WordType
        <3>4. word' = [word EXCEPT ![l] = d]
            BY <2>1, <3>2
        <3>5. /\ word' \in [Locks -> WordType] /\ word'[l] = d
              /\ \A k \in Locks : k # l => word'[k] = word[k]
            BY <1>2, <3>3, <3>4, WordChanged
        <3>6. QED
            BY <3>3, <3>5
    <2>6. owner[l] \notin {NULL, t}
        BY <1>2, <1>3, <1>6, <1>9, NullAssumption DEF Inv, OwnerInv
    <2>7. Enqueues(t, l)
        BY <1>1, <1>2, <1>6, <1>7, <2>1, <2>2, <2>4, <2>5, <2>6 DEF Enqueues
    <2>8. DataStep(t, NULL)
        BY <1>2, <2>7, EnqueueData, NullAssumption DEF Inv, DataStep
    <2>9. DataType'
        <3>1. list' \in [Lists -> Seq(Threads)]
            <4>1. Hash[l] \in Lists /\ list \in [Lists -> Seq(Threads)]
                BY <1>2, Members DEF Inv, TypeOK
            <4>2. Append(list[Hash[l]], t) \in Seq(Threads)
                BY <4>1
            <4>3. QED
                BY <2>1, <4>1, <4>2
        <3>2. /\ wait_src' \in [Threads -> Locks \cup {NULL}]
              /\ tag' \in [Threads -> {"wait", "cv"}]
              /\ awaits' \in [Threads -> Locks \cup {NULL}]
            BY <1>2, <2>1, <2>2 DEF Inv, TypeOK
        <3>3. QED
            BY <1>1, <2>1, <2>5, <3>1, <3>2 DEF Inv, TypeOK, DataType
    <2>10. PayloadOK(t)'
        <3>1. CASE local[t].op = "payload"
            <4>1. expect'[t][1] = l /\ expect'[t][3] = word[l].pay
                BY <1>1, <3>1
            <4>2. QED
                BY <1>2, <2>3, <2>5, <4>1 DEF PayloadOK
        <3>2. CASE local[t].op = "lock"
            BY <1>1, <1>2, <1>4, <2>1, <2>5, <3>2, PayloadSame, NullAssumption
        <3>3. QED
            BY <1>1, <3>1, <3>2
    <2>11. \A x \in Threads : tag[x] = "wait" => tag'[x] = "wait"
        BY <2>2 DEF Inv, TypeOK
    <2>12. QED
        BY <1>1, <1>5, <2>4, <2>5, <2>8, <2>9, <2>10, <2>11, SectionStep, NullAssumption
<1>10. QED
    BY <1>8, <1>9

LEMMA PayloadChangedInv ==
    ASSUME Inv, NEW t \in Threads, PayloadChanged(t)
    PROVE  Inv'
<1>1. /\ At(t, "section") /\ Contending(t) /\ local[t].op = "payload"
      /\ UnlockList(t, "run", local[t]) /\ expect' = [expect EXCEPT ![t] = NULL]
      /\ UNCHANGED <<word, list, wait_src, tag, signal_pending, awaits, held, retired, owner>>
    BY DEF PayloadChanged, InSection, At, Contending, waiter
<1>2. /\ wait_src[t] = awaits[t] /\ (awaits[t] # NULL => tag[t] = "wait")
      /\ local[t] \in LocalType
    BY <1>1 DEF Inv, LocalOK, Locking, TypeOK
<1>3. Others(t) /\ SameView(t) /\ LocalOK(t)'
    BY <1>1, <1>2, LockLeft
<1>4. DataStep(t, NULL)
    BY <1>1, <1>3, SameStep DEF DataSame, SameView
<1>5. expect'[t] = NULL /\ \A u \in Threads : u # t => expect'[u] = expect[u]
    BY <1>1 DEF Inv, TypeOK
<1>6. DataType'
    BY <1>1 DEF Inv, TypeOK, DataType
<1>7. PayloadOK(t)'
    BY <1>5 DEF PayloadOK
<1>8. QED
    BY <1>1, <1>2, <1>3, <1>4, <1>5, <1>6, <1>7, SectionStep, NullAssumption

(* The list without the thread that was given the word. *)
LEMMA ListWithout ==
    ASSUME NEW q \in Seq(Threads), Distinct(q), NEW o \in Threads, NEW t,
           NEW r, r = Filter(q, Threads \ {o}) \o <<>>
    PROVE  Relisted(q, t, o, FALSE, r)
<1> DEFINE f == Filter(q, Threads \ {o})
<1>1. /\ f \in Seq(Threads) /\ Distinct(f)
      /\ ToSet(f) = ToSet(q) \cap (Threads \ {o})
      /\ \A i, j \in 1..Len(f) : i < j =>
            \E a, b \in 1..Len(q) : a < b /\ q[a] = f[i] /\ q[b] = f[j]
    BY FilterIs
<1> HIDE DEF f
<1>2. r = f
    BY <1>1, ConcatEmptySeq DEF f
<1>3. \A x \in Threads : x \in ToSet(r) <=> x \in ToSet(q) /\ x # o
    BY <1>1, <1>2
<1>4. \A i, j \in 1..Len(r) : i < j =>
         \E a, b \in 1..Len(q) : a < b /\ q[a] = r[i] /\ q[b] = r[j]
    BY <1>1, <1>2
<1>5. r \in Seq(Threads) /\ Distinct(r)
    BY <1>1, <1>2
<1>6. QED
    BY <1>3, <1>4, <1>5 DEF Relisted

(* ... and with the thread that now waits. *)
LEMMA ListWith ==
    ASSUME NEW q \in Seq(Threads), Distinct(q), NEW t \in Threads, t \notin ToSet(q), NEW o,
           NEW f \in Seq(Threads), Distinct(f),
           \A x \in Threads : x \in ToSet(f) <=> x \in ToSet(q) /\ x # o,
           \A i, j \in 1..Len(f) : i < j =>
              \E a, b \in 1..Len(q) : a < b /\ q[a] = f[i] /\ q[b] = f[j],
           NEW r, r = Append(f, t)
    PROVE  Relisted(q, t, o, TRUE, r)
<1>1. r \in Seq(Threads) /\ ToSet(r) = ToSet(f) \cup {t} /\ Distinct(r)
    BY AppendSet
<1>2. \A x \in Threads : x \in ToSet(r) <=> (x \in ToSet(q) /\ x # o) \/ x = t
    BY <1>1
<1>3. ASSUME NEW a \in 1..Len(r), NEW b \in 1..Len(r), a < b
      PROVE  \/ \E d, e \in 1..Len(q) : d < e /\ q[d] = r[a] /\ q[e] = r[b]
             \/ r[b] = t
    <2>1. /\ Len(r) = Len(f) + 1 /\ Len(f) \in Nat /\ r[Len(f) + 1] = t
          /\ \A i \in 1..Len(f) : r[i] = f[i]
        OBVIOUS
    <2>2. CASE b = Len(f) + 1
        BY <2>1, <2>2
    <2>3. CASE b # Len(f) + 1
        <3>1. PICK n : n = Len(f)
            OBVIOUS
        <3>2. n \in Nat /\ a \in 1..(n + 1) /\ b \in 1..(n + 1) /\ b # n + 1
            BY <2>1, <2>3, <3>1
        <3>3. a \in 1..n /\ b \in 1..n
            BY <1>3, <3>2
        <3>4. QED
            BY <1>3, <2>1, <3>1, <3>3
    <2>4. QED
        BY <2>2, <2>3
<1>4. QED
    BY <1>1, <1>2, <1>3 DEF Relisted

(* The word passed on. *)
LEMMA PassedWord ==
    ASSUME Inv, NEW l \in Locks, NEW v \in BOOLEAN, word' = [word EXCEPT ![l].wait = v]
    PROVE  /\ word' \in [Locks -> WordType] /\ word'[l].wait = v /\ word'[l].lock = word[l].lock
           /\ \A k \in Locks : /\ word'[k].cv = word[k].cv /\ word'[k].pay = word[k].pay
                               /\ k # l => word'[k].wait = word[k].wait
                                  /\ word'[k].lock = word[k].lock
<1>1. word[l] \in WordType
    BY DEF Inv, TypeOK
<1>2. PICK d : d = [word[l] EXCEPT !.wait = v]
    OBVIOUS
<1>3. /\ d \in WordType /\ d.lock = word[l].lock /\ d.wait = v
      /\ d.cv = word[l].cv /\ d.pay = word[l].pay
    BY <1>1, <1>2 DEF WordType
<1>4. word' = [word EXCEPT ![l] = d]
    BY <1>2
<1>5. /\ word' \in [Locks -> WordType] /\ word'[l] = d
      /\ \A k \in Locks : k # l => word'[k] = word[k]
    BY <1>3, <1>4, WordChanged
<1>6. QED
    BY <1>3, <1>5

(* The locals with which the word is passed on. *)
LEMMA WakeLocals ==
    ASSUME Inv, NEW t \in Threads, NEW o \in Threads,
           NEW lc, lc = [local[t] EXCEPT !.to_wake_up = o]
    PROVE  /\ lc \in LocalType /\ lc.to_wake_up = o
           /\ lc.op = local[t].op /\ lc.lock = local[t].lock /\ lc.newlock = local[t].newlock
           /\ lc.moving = local[t].moving /\ lc.bits = local[t].bits
<1>1. local[t] \in LocalType
    BY DEF Inv, TypeOK
<1>2. QED
    BY <1>1 DEF LocalType

LEMMA UnlockSectionInv ==
    ASSUME Inv, NEW t \in Threads, UnlockSection(t)
    PROVE  Inv'
<1> DEFINE l == local[t].lock
           m == Matching(l, "wait")
           o == m[1]
           q == list[Hash[l]]
           r == Filter(q, Threads \ {o}) \o <<>>
           lc == [local[t] EXCEPT !.to_wake_up = o]
<1>1. /\ At(t, "section") /\ Contending(t) /\ local[t].op = "unlock"
      /\ word' = [word EXCEPT ![l].wait = Len(m) > 1]
      /\ owner' = [owner EXCEPT ![l] = o]
      /\ list' = [list EXCEPT ![Hash[l]] = r]
      /\ UnlockList(t, "wake", lc)
      /\ UNCHANGED <<wait_src, tag, signal_pending, awaits, expect, held, retired>>
    BY DEF UnlockSection, GetOneWaiter, InSection, At, Contending, waiter, client
<1>2. /\ l \in Locks /\ Empty(t) /\ wait_src[t] = awaits[t]
      /\ owner[l] = t /\ l \notin held[t] /\ wait_src[t] # l /\ word[l].wait
    BY <1>1 DEF Inv, LocalOK, Unlocking
<1>3. /\ local[t].moving = <<>> /\ local[t].bits = <<>> /\ Pending(t) = {}
    BY <1>2 DEF Empty, Pending, ToSet
<1>4. Unlocks(t, l) /\ \A k \in Locks : ~Asks(t, k)
    BY <1>1 DEF Unlocks, Asks
<1>5. q \in Seq(Threads) /\ Distinct(q) /\ Hash[l] \in Lists
    BY <1>2, Members DEF Inv, QueueInv
<1> HIDE DEF l
<1>6. Queued(l)
    BY <1>2, <1>3, NothingPending DEF Inv
<1>7. /\ m # <<>> /\ o \in Threads /\ Wants(o, l)
      /\ Len(m) > 1 <=> \E y \in Threads : y # o /\ Wants(y, l)
      /\ \A a, b \in 1..Len(q) : q[a] = o /\ Wants(q[b], l) => a <= b
    BY <1>2, <1>3, <1>6, FirstWaiter DEF Inv
<1> HIDE DEF o
<1>8. Relisted(q, t, o, FALSE, r)
    BY <1>5, <1>7, ListWithout
<1> HIDE DEF q, r
<1>9. /\ lc \in LocalType /\ lc.to_wake_up = o
      /\ lc.op = local[t].op /\ lc.lock = local[t].lock /\ lc.newlock = local[t].newlock
      /\ lc.moving = local[t].moving /\ lc.bits = local[t].bits
    BY <1>7, WakeLocals
<1> HIDE DEF lc
<1>10. PICK v \in BOOLEAN : (v <=> Len(m) > 1) /\ word' = [word EXCEPT ![l].wait = v]
    <2>1. (Len(m) > 1) = TRUE \/ (Len(m) > 1) = FALSE
        OBVIOUS
    <2>2. QED
        BY <1>1, <2>1
<1>11. word' = [word EXCEPT ![l].wait = v]
    BY <1>10
<1> HIDE DEF m
<1>12. /\ word' \in [Locks -> WordType] /\ word'[l].wait = v /\ word'[l].lock = word[l].lock
       /\ \A k \in Locks : /\ word'[k].cv = word[k].cv /\ word'[k].pay = word[k].pay
                           /\ k # l => word'[k].wait = word[k].wait /\ word'[k].lock = word[k].lock
    BY <1>2, <1>11, PassedWord
<1>13. /\ Others(t) /\ Stage(t)' = "wake" /\ ~Contending(t)'
       /\ local'[t].pc \in {"wake", "listwake"}
       /\ local'[t].pc = "listwake" => local'[t].then = "wake"
       /\ local'[t].op = "unlock" /\ local'[t].lock = l
       /\ local'[t].moving = <<>> /\ local'[t].bits = <<>>
       /\ \A k \in Locks : ~Unlocks(t, k)' /\ ~Leaves(t, k)' /\ ~Goes(t, k)'
       /\ Pending(t)' = ToSet(local[t].bits)
    BY <1>1, <1>3, <1>9, LeftSection DEF l
<1>14. Pending(t)' = {}
    BY <1>3, <1>13 DEF ToSet
<1>15. held' = [held EXCEPT ![t] = @ \ {l}]
    BY <1>1, <1>2 DEF Inv, TypeOK
<1>16. word[l].lock /\ o # NULL /\ owner[l] # o /\ wait_src[o] = l /\ tag[o] = "wait"
    BY <1>2, <1>7, NullAssumption DEF Inv, OwnerInv, Wants
<1>17. Hands(t, l, o, FALSE, r)
    BY <1>1, <1>2, <1>3, <1>4, <1>7, <1>8, <1>10, <1>12, <1>13, <1>14, <1>15, <1>16
       DEF Hands, q
<1>18. DataStep(t, o)
    BY <1>2, <1>17, HandData DEF Inv, DataStep
<1>19. DataType'
    <2>1. list' \in [Lists -> Seq(Threads)] /\ owner' \in [Locks -> Threads \cup {NULL}]
        BY <1>1, <1>2, <1>5, <1>7, <1>8 DEF Inv, TypeOK, Relisted
    <2>2. QED
        BY <1>1, <1>12, <2>1 DEF Inv, TypeOK, DataType
<1>20. LocalOK(t)'
    <2>1. Unlocking(t)'
        BY <1>1, <1>2, <1>13 DEF Unlocking, Empty
    <2>2. awaits'[t] # NULL => tag'[t] = "wait"
        BY <1>1 DEF Inv, LocalOK
    <2>3. QED
        BY <1>13, <2>1, <2>2, NoLocals, NullAssumption DEF LocalOK, At, OpNames
<1>21. PayloadOK(t)'
    BY <1>1, <1>4, <1>12, PayloadSame
<1>22. wait_src[o] # NULL /\ ~Given(o)
    BY <1>2, <1>16, NullAssumption DEF Given
<1>23. QED
    BY <1>1, <1>7, <1>9, <1>12, <1>16, <1>18, <1>19, <1>20, <1>21, <1>22, SectionStep

LEMMA CvWaitSectionInv ==
    ASSUME Inv, NEW t \in Threads, CvWaitSection(t)
    PROVE  Inv'
<1> DEFINE l == local[t].lock
           q == list[Hash[l]]
<1>1. /\ At(t, "section") /\ Contending(t) /\ local[t].op = "cvwait"
      /\ SetWaiter(t, l, "cv") /\ GiveUp(t, l)
      /\ UNCHANGED <<signal_pending, awaits, retired>>
    BY DEF CvWaitSection, InSection, At, Contending
<1>2. /\ l \in Locks /\ Empty(t) /\ awaits[t] = NULL /\ wait_src[t] = NULL
      /\ held[t] = {l} /\ word[l].cv
    BY <1>1 DEF Inv, LocalOK, CvWaiting
<1>3. /\ local[t].moving = <<>> /\ local[t].bits = <<>> /\ Pending(t) = {}
      /\ owner[l] = t /\ wait_src[t] # l /\ word[l].lock
    BY <1>2, NullAssumption DEF Empty, Pending, ToSet, Inv, OwnerInv
<1>4. \A k \in Locks : ~Unlocks(t, k) /\ ~Asks(t, k)
    BY <1>1 DEF Unlocks, Asks
<1>5. q \in Seq(Threads) /\ Distinct(q) /\ Hash[l] \in Lists /\ t \notin ToSet(q)
    BY <1>2, Members DEF Inv, QueueInv
<1>6. /\ wait_src' = [wait_src EXCEPT ![t] = l] /\ tag' = [tag EXCEPT ![t] = "cv"]
    BY <1>1 DEF SetWaiter
<1>7. /\ wait_src'[t] = l /\ tag' \in [Threads -> {"wait", "cv"}]
      /\ wait_src' \in [Threads -> Locks \cup {NULL}]
      /\ \A x \in Threads : x # t => tag'[x] = tag[x]
    BY <1>2, <1>6 DEF Inv, TypeOK
<1>8. Queued(l) <=> word[l].wait
    BY <1>2, <1>3, NothingPending DEF Inv
<1>9. (* What is left to show for each of the two cases. *)
      ASSUME NEW o, NEW r, NEW p \in {"wake", "cvwait"}, NEW lc \in LocalType,
             UnlockList(t, p, lc), p = "wake" => o \in Threads /\ lc.to_wake_up = o,
             lc.op = local[t].op, lc.lock = local[t].lock, lc.newlock = local[t].newlock,
             lc.moving = local[t].moving, lc.bits = local[t].bits,
             \/ o = NULL /\ ~Queued(l)
             \/ /\ o \in Threads /\ Wants(o, l)
                /\ \A a, b \in 1..Len(q) : q[a] = o /\ Wants(q[b], l) => a <= b,
             Relisted(q, t, o, TRUE, r),
             word' \in [Locks -> WordType],
             \A k \in Locks : /\ word'[k].cv = word[k].cv /\ word'[k].pay = word[k].pay
                              /\ k # l => word'[k].wait = word[k].wait
                                 /\ word'[k].lock = word[k].lock,
             word'[l].lock <=> o # NULL,
             word'[l].wait <=> \E y \in Threads : y # o /\ Wants(y, l),
             list' = [list EXCEPT ![Hash[l]] = r],
             owner' = [owner EXCEPT ![l] = o]
      PROVE  Inv'
    <2>1. /\ Others(t) /\ Stage(t)' = p /\ ~Contending(t)'
          /\ local'[t].pc \in {p, "listwake"}
          /\ local'[t].pc = "listwake" => local'[t].then = p
          /\ local'[t].op = "cvwait" /\ local'[t].lock = l
          /\ local'[t].moving = <<>> /\ local'[t].bits = <<>>
          /\ \A k \in Locks : ~Unlocks(t, k)' /\ ~Leaves(t, k)' /\ ~Goes(t, k)'
          /\ Pending(t)' = ToSet(local[t].bits)
        BY <1>1, <1>3, <1>9, LeftSection
    <2> HIDE DEF l, q
    <2>2. Pending(t)' = {}
        BY <1>3, <2>1 DEF ToSet
    <2>3. /\ PayloadOK(t)' /\ \A u \in Threads : u # t => expect'[u] = expect[u]
          /\ expect' \in [Threads -> {NULL} \cup (Locks \X BOOLEAN \X AnyPayload)]
          /\ held' \in [Threads -> SUBSET Locks]
          /\ held' = [held EXCEPT ![t] = @ \ {l}]
        BY <1>1, <1>2, <1>4, <1>9, PayloadGiven
    <2>4. Hands(t, l, o, TRUE, r)
        BY <1>1, <1>2, <1>3, <1>4, <1>6, <1>9, <2>1, <2>2, <2>3 DEF Hands, q
    <2>5. DataStep(t, o)
        BY <1>2, <2>4, HandData DEF Inv, DataStep
    <2>6. o \in Threads \cup {NULL}
        BY <1>9
    <2>7. DataType'
        <3>1. list' \in [Lists -> Seq(Threads)] /\ owner' \in [Locks -> Threads \cup {NULL}]
            BY <1>2, <1>5, <1>9, <2>6 DEF Inv, TypeOK, Relisted
        <3>2. QED
            BY <1>1, <1>7, <1>9, <2>3, <3>1 DEF Inv, TypeOK, DataType
    <2>8. LocalOK(t)'
        <3>1. held'[t] = {}
            BY <1>2, <2>3 DEF Inv, TypeOK
        <3>2. CvWaiting(t)'
            BY <1>1, <1>2, <1>7, <2>1, <3>1, NullAssumption DEF CvWaiting, Empty
        <3>3. QED
            BY <1>1, <1>2, <2>1, <3>2, NoLocals, NullAssumption DEF LocalOK, At, OpNames
    <2>9. o \in Threads => wait_src[o] = l /\ wait_src[o] # NULL /\ ~Given(o) /\ tag[o] = "wait"
        BY <1>2, <1>9, NullAssumption DEF Wants, Given
    <2>10. \A x \in Threads : tag[x] = "wait" /\ (Given(x) \/ x = o) => tag'[x] = "wait"
        BY <1>2, <1>3, <1>7, <2>9 DEF Given
    <2>11. QED
        BY <1>1, <1>9, <2>3, <2>5, <2>6, <2>7, <2>8, <2>9, <2>10, SectionStep
<1>10. CASE ~word[l].wait
    <2> DEFINE r == Append(q, t)
    <2>1. /\ word' = [word EXCEPT ![l].lock = FALSE] /\ owner' = [owner EXCEPT ![l] = NULL]
          /\ list' = [list EXCEPT ![Hash[l]] = r] /\ UnlockList(t, "cvwait", local[t])
        BY <1>10 DEF CvWaitSection
    <2>2. local[t] \in LocalType
        BY DEF Inv, TypeOK
    <2> HIDE DEF l, q
    <2>3. Relisted(q, t, NULL, TRUE, r)
        <3>1. \A x \in Threads : x \in ToSet(q) <=> x \in ToSet(q) /\ x # NULL
            BY NullAssumption
        <3>2. \A i, j \in 1..Len(q) : i < j =>
                 \E a, b \in 1..Len(q) : a < b /\ q[a] = q[i] /\ q[b] = q[j]
            OBVIOUS
        <3> HIDE DEF r
        <3>3. QED
            BY <1>5, <3>1, <3>2, ListWith DEF r
    <2> HIDE DEF r
    <2>4. /\ word' \in [Locks -> WordType]
          /\ \A k \in Locks : /\ word'[k].wait = word[k].wait /\ word'[k].cv = word[k].cv
                              /\ word'[k].lock <=> word[k].lock /\ k # l
                              /\ word'[k].pay = word[k].pay
        BY <1>2, <2>1, FreedWord
    <2>5. \A k \in Locks : k # l => word'[k].lock = word[k].lock
        BY <2>1 DEF Inv, TypeOK
    <2>6. ~Queued(l) /\ ~\E y \in Threads : y # NULL /\ Wants(y, l)
        BY <1>8, <1>10 DEF Queued
    <2>7. ~word'[l].lock /\ ~word'[l].wait
        BY <1>2, <1>10, <2>4
    <2>8. QED
        BY <1>9, <2>1, <2>2, <2>3, <2>4, <2>5, <2>6, <2>7
<1>11. CASE word[l].wait
    <2> DEFINE m == Matching(l, "wait")
               o == m[1]
               f == Filter(q, Threads \ {o})
               r == f \o <<t>>
               lc == [local[t] EXCEPT !.to_wake_up = o]
    <2>1. /\ word' = [word EXCEPT ![l].wait = Len(m) > 1]
          /\ owner' = [owner EXCEPT ![l] = o]
          /\ list' = [list EXCEPT ![Hash[l]] = r]
          /\ UnlockList(t, "wake", lc)
        BY <1>11 DEF CvWaitSection, GetOneWaiter
    <2>2. /\ m # <<>> /\ o \in Threads /\ Wants(o, l)
          /\ Len(m) > 1 <=> \E y \in Threads : y # o /\ Wants(y, l)
          /\ \A a, b \in 1..Len(q) : q[a] = o /\ Wants(q[b], l) => a <= b
        BY <1>2, <1>3, <1>8, <1>11, FirstWaiter DEF Inv
    <2>3. /\ lc \in LocalType /\ lc.to_wake_up = o
          /\ lc.op = local[t].op /\ lc.lock = local[t].lock /\ lc.newlock = local[t].newlock
          /\ lc.moving = local[t].moving /\ lc.bits = local[t].bits
        BY <2>2, WakeLocals
    <2> HIDE DEF l, q, o, lc
    <2>4. /\ f \in Seq(Threads) /\ Distinct(f)
          /\ ToSet(f) = ToSet(q) \cap (Threads \ {o})
          /\ \A i, j \in 1..Len(f) : i < j =>
                \E a, b \in 1..Len(q) : a < b /\ q[a] = f[i] /\ q[b] = f[j]
        BY <1>5, FilterIs
    <2> HIDE DEF f
    <2>5. r = Append(f, t)
        BY <2>4
    <2> HIDE DEF r
    <2>6. \A x \in Threads : x \in ToSet(f) <=> x \in ToSet(q) /\ x # o
        BY <2>4
    <2>7. Relisted(q, t, o, TRUE, r)
        BY <1>5, <2>4, <2>5, <2>6, ListWith
    <2>8. PICK v \in BOOLEAN : (v <=> Len(m) > 1) /\ word' = [word EXCEPT ![l].wait = v]
        <3>1. (Len(m) > 1) = TRUE \/ (Len(m) > 1) = FALSE
            OBVIOUS
        <3>2. QED
            BY <2>1, <3>1
    <2>9. word' = [word EXCEPT ![l].wait = v]
        BY <2>8
    <2> HIDE DEF m
    <2>10. /\ word' \in [Locks -> WordType] /\ word'[l].wait = v /\ word'[l].lock = word[l].lock
           /\ \A k \in Locks : /\ word'[k].cv = word[k].cv /\ word'[k].pay = word[k].pay
                               /\ k # l => word'[k].wait = word[k].wait
                                  /\ word'[k].lock = word[k].lock
        BY <1>2, <2>9, PassedWord
    <2>11. /\ word'[l].lock /\ o # NULL
           /\ word'[l].wait <=> \E y \in Threads : y # o /\ Wants(y, l)
        BY <1>3, <2>2, <2>8, <2>10, NullAssumption
    <2>12. QED
        BY <1>9, <2>1, <2>2, <2>3, <2>7, <2>10, <2>11
<1>12. QED
    BY <1>10, <1>11

LEMMA NotifySectionInv ==
    ASSUME Inv, NEW t \in Threads, NotifySection(t)
    PROVE  Inv'
<1> DEFINE l == local[t].lock
           m == Matching(l, "cv")
           s == IF local[t].op = "signal" THEN {m[1]} ELSE ToSet(m)
           e == NotifyBits(l, s = ToSet(m))
           lc == [local[t] EXCEPT !.bits = e]
<1>1. /\ At(t, "section") /\ Contending(t) /\ local[t].op \in {"signal", "broadcast"}
      /\ tag' = [x \in Threads |-> IF x \in s THEN "wait" ELSE tag[x]]
      /\ UnlockList(t, "bits", lc)
      /\ UNCHANGED <<word, list, wait_src, signal_pending, awaits, expect, held, retired, owner>>
    BY DEF NotifySection, InSection, At, Contending, client
<1>2. /\ l \in held[t] /\ local[t].moving = <<>> /\ wait_src[t] = NULL /\ awaits[t] = NULL
      /\ word[l].cv /\ local[t].bits = <<>>
    BY <1>1 DEF Inv, LocalOK, Notifying
<1>3. l \in Locks /\ owner[l] = t /\ wait_src[t] # l
    BY <1>2, NullAssumption DEF Inv, TypeOK, OwnerInv
<1>4. Pending(t) = {}
    BY <1>2 DEF Pending, ToSet
<1>5. \A k \in Locks : ~Unlocks(t, k) /\ ~Leaves(t, k) /\ ~Asks(t, k)
    BY <1>1 DEF Unlocks, Leaves, Asks
<1>6. /\ m \in Seq(Threads)
      /\ \A x \in Threads : x \in ToSet(m) <=> wait_src[x] = l /\ tag[x] = "cv"
    BY <1>2, <1>3, Sleepers DEF Inv
<1> HIDE DEF l, m
<1>7. \E x \in Threads : x \in ToSet(m)
    BY <1>2, <1>3, <1>4, <1>5, <1>6, BitsRight DEF Slept
<1>8. m # <<>> /\ m[1] \in ToSet(m) /\ \A x \in ToSet(m) : x \in Threads
    BY <1>6, <1>7, EmptySet
<1>9. /\ s # {} /\ \A x \in s : x \in ToSet(m)
    BY <1>1, <1>8
<1> HIDE DEF s
<1>10. PICK last \in BOOLEAN : (last <=> s = ToSet(m)) /\ e = NotifyBits(l, last)
    <2>1. (s = ToSet(m)) = TRUE \/ (s = ToSet(m)) = FALSE
        OBVIOUS
    <2>2. QED
        BY <2>1
<1> HIDE DEF e
<1>11. /\ e \in Seq(BitChanges) /\ e # <<>> /\ DifferentBits(e)
       /\ \A b \in ToSet(e) : b.lock = l
    BY <1>3, <1>10, NotifyBitsIs
<1>12. last <=> \A x \in Threads : wait_src[x] = l /\ tag[x] = "cv" => x \in s
    BY <1>6, <1>8, <1>9, <1>10
<1>13. /\ lc \in LocalType /\ lc.op = local[t].op /\ lc.lock = l
       /\ lc.newlock = local[t].newlock /\ lc.moving = <<>> /\ lc.bits = e
    <2>1. local[t] \in LocalType
        BY DEF Inv, TypeOK
    <2>2. QED
        BY <1>2, <1>11, <2>1 DEF LocalType, l
<1> HIDE DEF lc
<1>14. /\ Others(t) /\ Stage(t)' = "bits" /\ ~Contending(t)'
       /\ local'[t].pc \in {"bits", "listwake"}
       /\ local'[t].pc = "listwake" => local'[t].then = "bits"
       /\ local'[t].op = local[t].op /\ local'[t].lock = l
       /\ local'[t].moving = <<>> /\ local'[t].bits = e
       /\ \A k \in Locks : ~Unlocks(t, k)' /\ ~Leaves(t, k)' /\ ~Goes(t, k)'
       /\ Pending(t)' = ToSet(e)
    BY <1>1, <1>13, LeftSection DEF l
<1>15. Notifies(t, l, s)
    <2>1. \A x \in s : x \in Threads /\ wait_src[x] = l /\ tag[x] = "cv"
        BY <1>6, <1>8, <1>9
    <2>2. QED
        BY <1>1, <1>2, <1>3, <1>4, <1>5, <1>9, <1>10, <1>12, <1>14, <2>1 DEF Notifies
<1>16. DataStep(t, NULL)
    BY <1>3, <1>15, NotifyData, NullAssumption DEF Inv, DataStep
<1>17. tag' \in [Threads -> {"wait", "cv"}]
          /\ \A x \in Threads : tag[x] = "wait" => tag'[x] = "wait"
    BY <1>1 DEF Inv, TypeOK
<1>18. DataType'
    BY <1>1, <1>17 DEF Inv, TypeOK, DataType
<1>19. LocalOK(t)'
    <2>1. Notifying(t)'
        BY <1>1, <1>2, <1>11, <1>14 DEF Notifying
    <2>2. DifferentBits(local'[t].bits)
        BY <1>11, <1>14
    <2>3. Distinct(local'[t].moving)
        BY <1>14 DEF Distinct
    <2>4. QED
        BY <1>1, <1>2, <1>14, <2>1, <2>2, <2>3, NullAssumption DEF LocalOK, At, OpNames
<1>20. PayloadOK(t)'
    BY <1>1, <1>5, PayloadSame
<1>21. QED
    BY <1>1, <1>13, <1>16, <1>17, <1>18, <1>19, <1>20, SectionStep, NullAssumption DEF l

LEMMA RekeySectionInv ==
    ASSUME Inv, NEW t \in Threads, RekeySection(t)
    PROVE  Inv'
<1> DEFINE l == local[t].lock
           m == local[t].newlock
           q == list[Hash[l]]
           s == Filter(q, Sources(l))
           r == Filter(q, Threads \ Sources(l))
           g == {tag[x] : x \in ToSet(s)}
           e == RekeyBits(l, m, g)
           lc == [local[t] EXCEPT !.moving = s, !.bits = e]
<1>1. /\ At(t, "section") /\ Contending(t) /\ local[t].op = "rekey"
      /\ list' = [list EXCEPT ![Hash[l]] = r]
      /\ wait_src' = [x \in Threads |-> IF x \in ToSet(s) THEN m ELSE wait_src[x]]
      /\ UnlockList(t, "moved", lc)
      /\ UNCHANGED <<word, tag, signal_pending, awaits, expect, held, retired, owner>>
    BY DEF RekeySection, InSection, At, Contending, client
<1>2. /\ l \in held[t] /\ m \in held[t] /\ l # m /\ retired[l] = t
      /\ wait_src[t] = NULL /\ awaits[t] = NULL /\ (word[l].wait \/ word[l].cv)
      /\ local[t].moving = <<>> /\ local[t].bits = <<>>
    <2>1. Rekeying(t) /\ Stage(t) = "section"
        BY <1>1 DEF Inv, LocalOK, Stage, At
    <2>2. QED
        BY <1>1, <2>1 DEF Rekeying, Empty
<1>3. l \in Locks /\ m \in Locks /\ owner[l] = t /\ l # NULL /\ m # NULL
    BY <1>2, NullAssumption DEF Inv, TypeOK, OwnerInv
<1>4. Pending(t) = {}
    BY <1>2 DEF Pending, ToSet
<1>5. \A k \in Locks : ~Unlocks(t, k) /\ ~Leaves(t, k) /\ ~Asks(t, k)
    BY <1>1 DEF Unlocks, Leaves, Asks
<1>6. q \in Seq(Threads) /\ Distinct(q) /\ Hash[l] \in Lists
    BY <1>3, Members DEF Inv, QueueInv
<1> HIDE DEF l, m
<1>7. \A x \in Threads : wait_src[x] = l => x \in ToSet(q)
    BY <1>2, <1>3, OnList DEF Inv
<1> HIDE DEF q
<1>8. \A x \in Threads : x \in Sources(l) <=> wait_src[x] = l
    BY DEF Sources
<1>9. /\ s \in Seq(Threads) /\ Distinct(s) /\ ToSet(s) = ToSet(q) \cap Sources(l)
    BY <1>6, FilterIs
<1>10. ToSet(s) = Sources(l)
    BY <1>7, <1>9 DEF Sources
<1>11. Without(q, l, r)
    <2>1. /\ r \in Seq(Threads) /\ Distinct(r)
          /\ ToSet(r) = ToSet(q) \cap (Threads \ Sources(l))
          /\ \A i, j \in 1..Len(r) : i < j =>
                \E a, b \in 1..Len(q) : a < b /\ q[a] = r[i] /\ q[b] = r[j]
        BY <1>6, FilterIs
    <2> HIDE DEF r
    <2>2. \A x \in Threads : x \in ToSet(r) <=> x \in ToSet(q) /\ wait_src[x] # l
        BY <1>8, <2>1
    <2>3. QED
        BY <2>1, <2>2 DEF Without
<1> HIDE DEF s, r
<1>12. g = {tag[x] : x \in Sources(l)}
    BY <1>10
<1>13. PICK y \in Threads : wait_src[y] = l
    BY <1>2, <1>3, <1>4, <1>5, BitsRight DEF Queued, Slept, Wants
<1>14. y \in ToSet(s) /\ tag[y] \in g /\ tag[y] \in {"wait", "cv"}
    BY <1>8, <1>10, <1>13 DEF Inv, TypeOK
<1> HIDE DEF g
<1>15. /\ e \in Seq(BitChanges) /\ DifferentBits(e)
       /\ \A b \in ToSet(e) : b.lock \in {l, m}
       /\ \E b \in ToSet(e) : b.lock = l
    BY <1>2, <1>3, <1>14, RekeyBitsIs
<1>16. e # <<>> /\ s # <<>>
    BY <1>9, <1>14, <1>15, EmptySet
<1>17. /\ e = RekeyBits(l, m, {tag[x] : x \in Sources(l)})
    BY <1>12
<1> HIDE DEF e
<1>18. /\ lc \in LocalType /\ lc.op = local[t].op /\ lc.lock = l
       /\ lc.newlock = m /\ lc.moving = s /\ lc.bits = e
    <2>1. local[t] \in LocalType
        BY DEF Inv, TypeOK
    <2>2. QED
        BY <1>9, <1>15, <2>1 DEF LocalType, l, m
<1> HIDE DEF lc
<1>19. /\ Others(t) /\ Stage(t)' = "moved" /\ ~Contending(t)'
       /\ local'[t].pc \in {"moved", "listwake"}
       /\ local'[t].pc = "listwake" => local'[t].then = "moved"
       /\ local'[t].op = "rekey" /\ local'[t].lock = l /\ local'[t].newlock = m
       /\ local'[t].moving = s /\ local'[t].bits = e
       /\ \A k \in Locks : ~Unlocks(t, k)' /\ ~Leaves(t, k)' /\ ~Goes(t, k)'
       /\ Pending(t)' = ToSet(e)
    BY <1>1, <1>18, LeftSection DEF l, m
<1>20. \A x \in Threads : wait_src'[x] = IF wait_src[x] = l THEN m ELSE wait_src[x]
    BY <1>1, <1>8, <1>10
<1>21. Moves(t, l, m, r)
    <2>1. \A x \in Threads : x \in ToSet(local'[t].moving) <=> wait_src[x] = l
        BY <1>8, <1>10, <1>19
    <2>2. QED
        BY <1>1, <1>2, <1>4, <1>5, <1>9, <1>11, <1>17, <1>19, <1>20, <2>1 DEF Moves, q
<1>22. DataStep(t, NULL)
    BY <1>3, <1>21, MoveData, NullAssumption DEF Inv, DataStep
<1>23. DataType'
    <2>1. list' \in [Lists -> Seq(Threads)] /\ wait_src' \in [Threads -> Locks \cup {NULL}]
        BY <1>1, <1>3, <1>6, <1>11 DEF Inv, TypeOK, Without
    <2>2. QED
        BY <1>1, <2>1 DEF Inv, TypeOK, DataType
<1>24. LocalOK(t)'
    <2>1. \A x \in Threads : wait_src'[x] # l
        BY <1>2, <1>20
    <2>2. wait_src'[t] = NULL
        BY <1>2, <1>3, <1>20
    <2>3. Rekeying(t)'
        BY <1>1, <1>2, <1>15, <1>16, <1>19, <2>1, <2>2 DEF Rekeying, HasMoved, Empty
    <2>4. DifferentBits(local'[t].bits) /\ Distinct(local'[t].moving)
        BY <1>9, <1>15, <1>19
    <2>5. QED
        BY <1>1, <1>2, <1>19, <2>3, <2>4, NullAssumption DEF LocalOK, At, OpNames
<1>25. PayloadOK(t)'
    BY <1>1, <1>5, PayloadSame
<1>26. QED
    BY <1>1, <1>18, <1>22, <1>23, <1>24, <1>25, SectionStep, NullAssumption DEF l, m

LEMMA AppendSectionInv ==
    ASSUME Inv, NEW t \in Threads, AppendSection(t)
    PROVE  Inv'
<1> DEFINE m == local[t].newlock
           lc == [local[t] EXCEPT !.moving = <<>>]
<1>1. /\ At(t, "section") /\ Contending(t) /\ local[t].op = "append"
      /\ UnlockList(t, "bits", lc)
      /\ UNCHANGED <<word, wait_src, tag, signal_pending, awaits, expect, held, retired, owner>>
    BY DEF AppendSection, InSection, At, Contending, client, waiter
<1>2. list' = [list EXCEPT ![Hash[m]] = @ \o local[t].moving]
    BY <1>1 DEF AppendSection, WaitList
<1>3. Rekeying(t) /\ Stage(t) = "section"
    BY <1>1 DEF Inv, LocalOK, Stage, At
<1>4. /\ m \in held[t] /\ wait_src[t] = NULL /\ awaits[t] = NULL /\ local[t].bits # <<>>
    BY <1>1, <1>3 DEF Rekeying
<1>5. m \in Locks /\ Hash[m] \in Lists
    BY <1>4, Members DEF Inv, TypeOK
<1>6. \A k \in Locks : ~Unlocks(t, k) /\ ~Leaves(t, k) /\ ~Asks(t, k)
    BY <1>1 DEF Unlocks, Leaves, Asks
<1>7. Pending(t) = ToSet(local[t].bits)
    BY <1>3 DEF Pending
<1>8. Distinct(local[t].moving) /\ DifferentBits(local[t].bits)
    BY DEF Inv, LocalOK
<1>9. /\ lc \in LocalType /\ lc.op = local[t].op /\ lc.lock = local[t].lock
      /\ lc.newlock = m /\ lc.moving = <<>> /\ lc.bits = local[t].bits
    <2>1. local[t] \in LocalType /\ <<>> \in Seq(Threads)
        BY DEF Inv, TypeOK
    <2>2. QED
        BY <2>1 DEF LocalType
<1> HIDE DEF lc
<1>10. /\ Others(t) /\ Stage(t)' = "bits" /\ ~Contending(t)'
       /\ local'[t].pc \in {"bits", "listwake"}
       /\ local'[t].pc = "listwake" => local'[t].then = "bits"
       /\ local'[t].op = "append" /\ local'[t].lock = local[t].lock /\ local'[t].newlock = m
       /\ local'[t].moving = <<>> /\ local'[t].bits = local[t].bits
       /\ \A k \in Locks : ~Unlocks(t, k)' /\ ~Leaves(t, k)' /\ ~Goes(t, k)'
       /\ Pending(t)' = ToSet(local[t].bits)
    BY <1>1, <1>9, LeftSection
<1>11. Appends(t, m)
    BY <1>1, <1>2, <1>4, <1>6, <1>7, <1>8, <1>10 DEF Appends
<1>12. DataStep(t, NULL)
    BY <1>5, <1>11, AppendData, NullAssumption DEF Inv, DataStep
<1>13. DataType'
    <2>1. list' \in [Lists -> Seq(Threads)]
        <3>1. list \in [Lists -> Seq(Threads)] /\ local[t].moving \in Seq(Threads)
            BY Members DEF Inv, TypeOK
        <3>2. list[Hash[m]] \o local[t].moving \in Seq(Threads)
            BY <1>5, <3>1
        <3>3. QED
            BY <1>2, <1>5, <3>1, <3>2
    <2>2. QED
        BY <1>1, <2>1 DEF Inv, TypeOK, DataType
<1>14. LocalOK(t)'
    <2>1. Rekeying(t)'
        BY <1>1, <1>3, <1>4, <1>10 DEF Rekeying, HasMoved
    <2>2. DifferentBits(local'[t].bits)
        BY <1>8, <1>10
    <2>3. Distinct(local'[t].moving)
        BY <1>10 DEF Distinct
    <2>4. QED
        BY <1>1, <1>4, <1>10, <2>1, <2>2, <2>3, NullAssumption DEF LocalOK, At, OpNames
<1>15. PayloadOK(t)'
    BY <1>1, <1>6, PayloadSame
<1>16. QED
    BY <1>1, <1>9, <1>12, <1>13, <1>14, <1>15, SectionStep, NullAssumption

-------------------------------------------------------------------------------
(* The invariant holds. *)

LEMMA InitInv ==
    ASSUME Init
    PROVE  Inv
<1>1. /\ \A t \in Threads : /\ local[t] = Idle /\ wait_src[t] = NULL /\ awaits[t] = NULL
                            /\ expect[t] = NULL /\ held[t] = {} /\ tag[t] = "wait"
      /\ \A l \in Locks : retired[l] = NULL /\ owner[l] = NULL
      /\ \A l \in Locks : ~word[l].lock /\ ~word[l].wait /\ ~word[l].cv
      /\ \A i \in Lists : list[i] = <<>> /\ mutexq[i] = <<>>
      /\ \A w \in Waiters : ~signal_pending[w]
    BY DEF Init
<1>2. \A t \in Threads : /\ local[t].pc = "run" /\ local[t].op = NULL
                         /\ local[t].moving = <<>> /\ local[t].bits = <<>>
    BY <1>1 DEF Idle
<1>3. \A t \in Threads : Pending(t) = {}
    BY <1>2 DEF Pending, ToSet
<1>4. \A t \in Threads : \A l \in Locks :
         ~Unlocks(t, l) /\ ~Leaves(t, l) /\ ~Goes(t, l) /\ ~Asks(t, l)
    BY <1>2, NullAssumption DEF Unlocks, Leaves, Goes, Asks, OpNames
<1>5. \A l \in Locks : ~Queued(l) /\ ~Slept(l)
    BY <1>1, NullAssumption DEF Queued, Slept, Wants
<1>6. \A x \in Threads : ~Given(x)
    BY <1>1 DEF Given
<1>7. TypeOK
    <2>1. <<>> \in Seq(Threads) /\ <<>> \in Seq(BitChanges) /\ <<>> \in Seq(Waiters)
        OBVIOUS
    <2>2. Idle \in LocalType
        BY <2>1 DEF LocalType, Idle, PcNames
    <2>3. word \in [Locks -> WordType]
        <3>1. \A l \in Locks : (CHOOSE p \in Payloads[l] : TRUE) \in AnyPayload
            BY ParametersAssumption DEF AnyPayload
        <3>2. QED
            BY <3>1 DEF Init, WordType
    <2>4. /\ list \in [Lists -> Seq(Threads)] /\ mutexq \in [Lists -> Seq(Waiters)]
          /\ local \in [Threads -> LocalType]
        BY <2>1, <2>2 DEF Init
    <2>5. QED
        BY <2>3, <2>4 DEF Init, TypeOK
<1>8. \A t \in Threads : LocalOK(t)
    <2> SUFFICES ASSUME NEW t \in Threads PROVE LocalOK(t)
        OBVIOUS
    <2>1. Resting(t)
        BY <1>1, <1>2 DEF Resting, Empty, At
    <2>2. DifferentBits(local[t].bits) /\ Distinct(local[t].moving)
        BY <1>2 DEF DifferentBits, Distinct
    <2>3. QED
        BY <1>1, <1>2, <2>1, <2>2, NullAssumption DEF LocalOK, At, OpNames
<1>9. MutexInv
    <2>1. \A i \in Lists : Distinct(mutexq[i]) /\ ToSet(mutexq[i]) = {}
        BY <1>1 DEF Distinct, ToSet
    <2>2. QED
        BY <1>2, <2>1 DEF MutexInv, InQueue, At
<1>10. OwnerInv
    BY <1>1, <1>5, NullAssumption DEF OwnerInv
<1>11. QueueInv
    <2>1. \A i \in Lists : Distinct(list[i]) /\ ToSet(list[i]) = {}
        BY <1>1 DEF Distinct, ToSet
    <2>2. \A t \in Threads : ToSet(local[t].moving) = {}
        BY <1>2 DEF ToSet
    <2>3. QED
        BY <1>1, <2>1, <2>2 DEF QueueInv
<1>12. WakeInv
    <2>1. \A t \in Threads : ~Waking(t)
        BY <1>2 DEF Waking, Stage, At
    <2>2. \A t \in Threads : t \in Waiters /\ Temp(t) \in Waiters
        BY DEF Waiters
    <2>3. QED
        BY <1>1, <1>6, <2>1, <2>2 DEF WakeInv
<1>13. BitsInv
    BY <1>1, <1>3, <1>5 DEF BitsInv
<1>14. RetireInv
    <2>1. \A l \in Locks : Hash[l] \in Lists
        BY DEF Lists
    <2>2. \A l \in Locks : list[Hash[l]] = <<>> /\ Len(list[Hash[l]]) = 0
        BY <1>1, <2>1
    <2>3. QED
        BY <1>1, <1>4, <2>2, NullAssumption DEF RetireInv
<1>15. PayloadInv
    BY <1>1 DEF PayloadInv, PayloadOK
<1>16. QED
    BY <1>7, <1>8, <1>9, <1>10, <1>11, <1>12, <1>13, <1>14, <1>15 DEF Inv

LEMMA StutterInv ==
    ASSUME Inv, UNCHANGED vars
    PROVE  Inv'
<1>1. UNCHANGED <<word, list, mutexq, wait_src, tag, signal_pending, local, awaits, expect,
                  held, retired, owner>>
    BY DEF vars, waiter, client
<1>2. /\ \A t \in Threads : /\ Stage(t)' = Stage(t) /\ (Contending(t)' <=> Contending(t))
                            /\ Pending(t)' = Pending(t) /\ WaitList(t)' = WaitList(t)
                            /\ CurrentWaiter(t)' = CurrentWaiter(t)
                            /\ Given(t)' <=> Given(t)
                            /\ InQueue(t)' <=> InQueue(t)
                            /\ \A p : At(t, p)' <=> At(t, p)
      /\ \A t \in Threads, l \in Locks :
            /\ Unlocks(t, l)' <=> Unlocks(t, l)
            /\ Leaves(t, l)' <=> Leaves(t, l)
            /\ Goes(t, l)' <=> Goes(t, l)
      /\ \A l \in Locks : (Queued(l)' <=> Queued(l)) /\ (Slept(l)' <=> Slept(l))
    BY <1>1 DEF Stage, At, Contending, Pending, WaitList, CurrentWaiter, Given, InQueue,
                Unlocks, Leaves, Goes, Queued, Slept, Wants
<1>3. TypeOK'
    BY <1>1 DEF Inv, TypeOK
<1>4. \A t \in Threads : LocalOK(t)'
    BY <1>1, RespectsLocal DEF Inv, Respects, LocalOK
<1>5. MutexInv'
    <2>1. \A t \in Threads : /\ InQueue(t)' <=> InQueue(t)
                             /\ WaitList(t)' = WaitList(t) /\ CurrentWaiter(t)' = CurrentWaiter(t)
                             /\ At(t, "section")' <=> At(t, "section")
                             /\ At(t, "listwake")' <=> At(t, "listwake")
        BY <1>2
    <2>2. MutexInv
        BY DEF Inv
    <2>3. QED
        BY <1>1, <2>1, <2>2 DEF MutexInv
<1>6. OwnerInv'
    BY <1>1, <1>2 DEF Inv, OwnerInv
<1>7. QueueInv'
    BY <1>1, <1>2 DEF Inv, QueueInv, Given
<1>8. WakeInv'
    BY <1>1, <1>2 DEF Inv, WakeInv, Waking, Given
<1>9. BitsInv'
    BY <1>1 DEF Inv, BitsInv, Queued, Slept, Wants, Pending, Stage, At, Leaves, Contending
<1>10. RetireInv'
    BY <1>1, <1>2 DEF Inv, RetireInv
<1>11. PayloadInv'
    BY <1>1 DEF Inv, PayloadInv, PayloadOK, Asks, Contending
<1>12. QED
    BY <1>3, <1>4, <1>5, <1>6, <1>7, <1>8, <1>9, <1>10, <1>11 DEF Inv

LEMMA NextInv ==
    ASSUME Inv, Next
    PROVE  Inv'
<1>1. PICK t \in Threads : Internal(t) \/ Call(t)
    BY DEF Next
<1>2. CASE Internal(t)
    <2>1. ASSUME \E l, m \in Locks : Rekey(t, l, m)
          PROVE  Inv'
        BY <2>1, RekeyInv
    <2>2. CASE LockList(t) \/ LockListWait(t) \/ UnlockListWake(t) \/ Wakeup(t)
        BY <2>2, LockListInv, LockListWaitInv, UnlockListWakeInv, WakeupInv
    <2>3. CASE LockSection(t) \/ PayloadChanged(t) \/ UnlockSection(t) \/ CvWaitSection(t)
        BY <2>3, LockSectionInv, PayloadChangedInv, UnlockSectionInv, CvWaitSectionInv
    <2>4. CASE NotifySection(t) \/ RekeySection(t) \/ AppendSection(t)
        BY <2>4, NotifySectionInv, RekeySectionInv, AppendSectionInv
    <2>5. CASE CompleteWait(t) \/ CompleteWaitDone(t) \/ CvWaitDone(t)
        BY <2>5, CompleteWaitInv, CompleteWaitDoneInv, CvWaitDoneInv
    <2>6. CASE SetBits(t) \/ RekeyAppend(t) \/ Release(t)
        BY <2>6, SetBitsInv, RekeyAppendInv, ReleaseInv
    <2>7. QED
        BY <1>2, <2>1, <2>2, <2>3, <2>4, <2>5, <2>6 DEF Internal
<1>3. CASE Call(t)
    <2>1. PICK l \in Locks :
            \/ Lock(t, l) \/ Trylock(t, l) \/ Unlock(t, l) \/ CvWait(t, l) \/ Retire(t, l)
            \/ \E p \in Payloads[l] : Grab(t, l, p) \/ LockIfPayload(t, l, p)
            \/ \E op \in {"signal", "broadcast"} : Notify(t, l, op)
        BY <1>3 DEF Call
    <2>2. CASE Lock(t, l) \/ Trylock(t, l) \/ Unlock(t, l) \/ CvWait(t, l) \/ Retire(t, l)
        BY <2>2, LockInv, TrylockInv, UnlockInv, CvWaitInv, RetireStepInv
    <2>3. CASE \E p \in Payloads[l] : Grab(t, l, p) \/ LockIfPayload(t, l, p)
        BY <2>3, GrabInv, LockIfPayloadInv
    <2>4. CASE \E op \in {"signal", "broadcast"} : Notify(t, l, op)
        BY <2>4, NotifyInv
    <2>5. QED
        BY <2>1, <2>2, <2>3, <2>4
<1>4. QED
    BY <1>1, <1>2, <1>3

(* The inductive invariant of the bit locks: types, who may be where with  *)
(* which locals, the queues of the lists' locks, where the owner and the   *)
(* waiters of a word are found, which signals are on their way, which bits *)
(* are still to be changed, and what a word made unreachable looks like.   *)
THEOREM InvHolds == Spec => []Inv
<1>1. Init => Inv
    BY InitInv
<1>2. Inv /\ [Next]_vars => Inv'
    BY NextInv, StutterInv
<1>3. QED
    BY <1>1, <1>2, PTL DEF Spec

-------------------------------------------------------------------------------
(* What follows from it. *)

(* Who has bits to change is in a call, and owns the words of the bits. *)
LEMMA ChangingBits ==
    ASSUME Inv, NEW l \in Locks, ~Changing(l), NEW u \in Threads
    PROVE  (\A b \in Pending(u) : b.lock # l) /\ ~Leaves(u, l)
<1>1. LocalOK(u) /\ local[u].op \in InnerOps \cup {NULL}
    BY DEF Inv, TypeOK, LocalType
<1>2. ASSUME NEW b \in Pending(u), b.lock = l
      PROVE  FALSE
    <2>1. owner[l] = u
        BY <1>2 DEF Inv, BitsInv
    <2>2. b \in ToSet(local[u].bits) /\ local[u].bits # <<>>
        BY <1>2 DEF Pending, ToSet
    <2>3. local[u].op \in {"signal", "broadcast", "rekey", "append"}
        BY <1>1, <2>2 DEF InnerOps, LocalOK, Resting, Locking, Unlocking, CvWaiting, Empty
    <2>4. b.lock \in {local[u].lock, local[u].newlock}
        BY <1>1, <2>2, <2>3 DEF LocalOK, Notifying, Rekeying
    <2>5. local[u].pc # "run"
        BY <2>2, AtRun DEF At, Empty
    <2>6. QED
        BY <1>2, <2>1, <2>3, <2>4, <2>5 DEF Changing
<1>3. ASSUME Leaves(u, l)
      PROVE  FALSE
    <2>1. l \in held[u] /\ local[u].op = "cvwait" /\ local[u].lock = l /\ local[u].pc # "run"
        BY <1>1, <1>3 DEF Leaves, LocalOK, CvWaiting, Contending
    <2>2. owner[l] = u
        BY <2>1 DEF Inv, OwnerInv
    <2>3. QED
        BY <2>1, <2>2 DEF Changing
<1>4. QED
    BY <1>2, <1>3

(* The bits of a word tell who waits for it, except while its owner is in  *)
(* the middle of changing them, and the lock bit that it is held, by the   *)
(* one thread it was given to: BitsExact for all sets of threads and words *)
(* and every hash (lw_bitlock.c, the swaps and the sections).              *)
THEOREM BitsAreExact == Spec => []BitsExact
<1>1. Inv => BitsExact
    <2> SUFFICES ASSUME Inv PROVE BitsExact
        OBVIOUS
    <2>1. ASSUME NEW l \in Locks, ~Changing(l)
          PROVE  (word[l].wait <=> entry[l] # {}) /\ (word[l].cv <=> waitset[l] # {})
        <3>1. \A u \in Threads : (\A b \in Pending(u) : b.lock # l) /\ ~Leaves(u, l)
            BY <2>1, ChangingBits
        <3>2. (word[l].wait <=> Queued(l)) /\ (word[l].cv <=> Slept(l))
            BY <3>1 DEF Inv, BitsInv
        <3>3. (Queued(l) <=> entry[l] # {}) /\ (Slept(l) <=> waitset[l] # {})
            BY DEF Queued, Wants, Slept, entry, waitset
        <3>4. QED
            BY <3>2, <3>3
    <2>2. \A t \in Threads : \A l \in held[t] : owner[l] = t /\ word[l].lock
        BY NullAssumption DEF Inv, OwnerInv, TypeOK
    <2>3. QED
        BY <2>1, <2>2 DEF BitsExact
<1>2. QED
    BY <1>1, InvHolds, PTL

LEMMA InvSignals ==
    ASSUME Inv
    PROVE  SignalExpected
<1>1. \A t \in Threads : signal_pending[t] =>
         IF At(t, "listwait") /\ CurrentWaiter(t) = t
         THEN Head(mutexq[WaitList(t)]) = t
         ELSE wait_src[t] # NULL /\ owner[wait_src[t]] = t
    BY DEF Inv, WakeInv, Given
<1>2. \A t \in Threads : signal_pending[Temp(t)] =>
         At(t, "listwait") /\ Head(mutexq[WaitList(t)]) = Temp(t)
    BY DEF Inv, WakeInv
<1>3. \A t \in Threads : At(t, "wake") => ~signal_pending[local[t].to_wake_up]
    BY DEF Inv, WakeInv, Waking, Stage, At
<1>4. \A t \in Threads : At(t, "listwake") => ~signal_pending[Head(mutexq[WaitList(t)])]
    BY DEF Inv, MutexInv
<1>5. QED
    BY <1>1, <1>2, <1>3, <1>4 DEF SignalExpected

LEMMA InvAsserts ==
    ASSUME Inv, NEW t \in Threads
    PROVE  /\ awaits[t] # NULL => wait_src[t] = awaits[t]
           /\ InSection(t, "unlock") => Matching(local[t].lock, "wait") # <<>>
           /\ InSection(t, "signal") \/ InSection(t, "broadcast")
                 => Matching(local[t].lock, "cv") # <<>>
           /\ At(t, "moved") => local[t].moving # <<>>
           /\ At(t, "release") => ~word[local[t].lock].wait /\ ~word[local[t].lock].cv
           /\ \A l \in held[t] : expect[t] # NULL /\ expect[t][1] = l
                 => word[l].pay = expect[t][3]
<1> DEFINE l == local[t].lock
<1>1. LocalOK(t) /\ local[t].op \in InnerOps \cup {NULL} /\ held[t] \subseteq Locks
    BY DEF Inv, TypeOK, LocalType
<1>2. awaits[t] # NULL => wait_src[t] = awaits[t]
    BY <1>1 DEF InnerOps, LocalOK, Resting, Locking, Unlocking, CvWaiting, Notifying, Rekeying
<1>3. ASSUME InSection(t, "unlock")
      PROVE  Matching(l, "wait") # <<>>
    <2>1. Contending(t) /\ local[t].op = "unlock"
        BY <1>3 DEF InSection, At, Contending
    <2>2. /\ l \in Locks /\ owner[l] = t /\ wait_src[t] # l /\ word[l].wait
          /\ local[t].moving = <<>> /\ Pending(t) = {}
        BY <1>1, <2>1 DEF LocalOK, Unlocking, Empty, Pending, ToSet
    <2> HIDE DEF l
    <2>3. Queued(l)
        BY <2>2, NothingPending DEF Inv
    <2>4. QED
        BY <2>2, <2>3, FirstWaiter DEF Inv
<1>4. ASSUME InSection(t, "signal") \/ InSection(t, "broadcast")
      PROVE  Matching(l, "cv") # <<>>
    <2>1. Contending(t) /\ local[t].op \in {"signal", "broadcast"}
        BY <1>4 DEF InSection, At, Contending
    <2>2. /\ l \in held[t] /\ wait_src[t] = NULL /\ word[l].cv /\ local[t].moving = <<>>
          /\ Pending(t) = {}
        BY <1>1, <2>1 DEF LocalOK, Notifying, Pending, ToSet
    <2>3. l \in Locks /\ owner[l] = t /\ wait_src[t] # l
        BY <1>1, <2>2, NullAssumption DEF Inv, OwnerInv
    <2>4. ~Leaves(t, l)
        BY <2>1 DEF Leaves
    <2> HIDE DEF l
    <2>5. PICK x \in Threads : wait_src[x] = l /\ tag[x] = "cv"
        BY <2>2, <2>3, <2>4, BitsRight DEF Slept
    <2>6. x \in ToSet(Matching(l, "cv"))
        BY <2>2, <2>3, <2>5, Sleepers DEF Inv
    <2>7. QED
        BY <2>6 DEF ToSet
<1>5. ASSUME At(t, "moved")
      PROVE  local[t].moving # <<>>
    BY <1>5, OpAt DEF Rekeying, Stage, At
<1>6. ASSUME At(t, "release")
      PROVE  ~word[l].wait /\ ~word[l].cv
    <2>1. Stage(t) = "release" /\ local[t].pc = "release"
        BY <1>6 DEF Stage, At
    <2>2. /\ l \in held[t] /\ \A x \in Threads : wait_src[x] # l
        BY <1>6, <2>1, OpAt DEF Rekeying, HasMoved
    <2>3. Pending(t) = {} /\ ~Leaves(t, l)
        BY <2>1 DEF Pending, Leaves, Contending
    <2>4. ~Queued(l) /\ ~Slept(l)
        BY <2>2 DEF Queued, Wants, Slept
    <2>5. QED
        BY <1>1, <2>2, <2>3, <2>4, BitsRight
<1>7. ASSUME NEW k \in held[t], expect[t] # NULL, expect[t][1] = k
      PROVE  word[k].pay = expect[t][3]
    <2>1. ~Asks(t, k)
        <3> SUFFICES ASSUME Asks(t, k) PROVE FALSE
            OBVIOUS
        <3>1. k \in Locks
            BY <1>1
        <3>2. k \in Nat
            BY <3>1, ParametersAssumption
        <3>3. k < k
            BY <1>1 DEF Asks, LocalOK, Locking
        <3>4. QED
            BY <3>2, <3>3
    <2>2. QED
        BY <1>7, <2>1 DEF Inv, PayloadInv, PayloadOK
<1>8. QED
    BY <1>2, <1>3, <1>4, <1>5, <1>6, <1>7

(* The assertions of lw_bitlock.c and lw_waiter.c hold: complete_wait      *)
(* finds the word it queued for, unlock and notification find a waiter, a  *)
(* rekey has somebody to move and leaves no bits, lock_if_payload has the  *)
(* payload it asked for, and no signal comes that is not waited for.       *)
THEOREM AssertionsAreTrue == Spec => []AssertionsHold
<1>1. Inv => AssertionsHold
    BY InvSignals, InvAsserts DEF AssertionsHold
<1>2. QED
    BY <1>1, InvHolds, PTL

-------------------------------------------------------------------------------
(* The words are monitors. *)

Sleeps(x, l) == wait_src[x] = l /\ tag[x] = "cv"

(* The sets of the monitors, member by member. *)
LEMMA SetsAre ==
    /\ entry \in [Locks -> SUBSET Threads] /\ waitset \in [Locks -> SUBSET Threads]
    /\ \A l \in Locks : \A x \in Threads : x \in entry[l] <=> Wants(x, l)
    /\ \A l \in Locks : \A x \in Threads : x \in waitset[l] <=> Sleeps(x, l)
BY DEF entry, waitset, Wants, Sleeps

LEMMA EntryIs ==
    ASSUME NEW E \in [Locks -> SUBSET Threads],
           \A l \in Locks : \A x \in Threads : x \in E[l] <=> Wants(x, l)'
    PROVE  entry' = E
<1>1. entry' = [l \in Locks |-> {x \in Threads : Wants(x, l)'}]
    BY DEF entry, Wants
<1>2. \A l \in Locks : E[l] = {x \in Threads : Wants(x, l)'}
    <2> SUFFICES ASSUME NEW l \in Locks PROVE E[l] = {x \in Threads : Wants(x, l)'}
        OBVIOUS
    <2>1. E[l] \subseteq Threads
        OBVIOUS
    <2>2. QED
        BY <2>1
<1>3. QED
    BY <1>1, <1>2

LEMMA WaitsetIs ==
    ASSUME NEW E \in [Locks -> SUBSET Threads],
           \A l \in Locks : \A x \in Threads : x \in E[l] <=> Sleeps(x, l)'
    PROVE  waitset' = E
<1>1. waitset' = [l \in Locks |-> {x \in Threads : Sleeps(x, l)'}]
    BY DEF waitset, Sleeps
<1>2. \A l \in Locks : E[l] = {x \in Threads : Sleeps(x, l)'}
    <2> SUFFICES ASSUME NEW l \in Locks PROVE E[l] = {x \in Threads : Sleeps(x, l)'}
        OBVIOUS
    <2>1. E[l] \subseteq Threads
        OBVIOUS
    <2>2. QED
        BY <2>1
<1>3. QED
    BY <1>1, <1>2

MonitorStep == Monitor!Next \/ UNCHANGED Monitor!vars

LEMMA MonitorSame ==
    ASSUME UNCHANGED <<owner, wait_src, tag>>
    PROVE  MonitorStep
BY DEF MonitorStep, Monitor!vars, entry, waitset

LEMMA MonitorAcquire ==
    ASSUME Inv, NEW t \in Threads, NEW l \in Locks, owner[l] = NULL,
           owner' = [owner EXCEPT ![l] = t], UNCHANGED <<wait_src, tag>>
    PROVE  MonitorStep
<1>1. ~Queued(l) /\ \A k \in Locks : k # l => owner'[k] = owner[k]
    BY DEF Inv, OwnerInv, TypeOK
<1>2. \A k \in Locks : \A x \in Threads : Wants(x, k)' <=> Wants(x, k)
    BY <1>1, NullAssumption DEF Queued, Wants, Inv, TypeOK
<1>3. \A k \in Locks : \A x \in Threads : Sleeps(x, k)' <=> Sleeps(x, k)
    BY DEF Sleeps
<1>4. entry' = entry /\ waitset' = waitset
    BY <1>2, <1>3, SetsAre, EntryIs, WaitsetIs
<1>5. Monitor!Acquire(t, l)
    BY <1>4 DEF Monitor!Acquire
<1>6. QED
    BY <1>5 DEF MonitorStep, Monitor!Next

LEMMA MonitorFree ==
    ASSUME Inv, NEW t \in Threads, NEW l \in Locks, owner[l] = t, wait_src[t] # l,
           ~Queued(l), owner' = [owner EXCEPT ![l] = NULL], UNCHANGED <<wait_src, tag>>
    PROVE  MonitorStep
<1>1. \A k \in Locks : k # l => owner'[k] = owner[k]
    BY DEF Inv, TypeOK
<1>2. \A k \in Locks : \A x \in Threads : Wants(x, k)' <=> Wants(x, k)
    BY <1>1, NullAssumption DEF Queued, Wants, Inv, TypeOK
<1>3. \A k \in Locks : \A x \in Threads : Sleeps(x, k)' <=> Sleeps(x, k)
    BY DEF Sleeps
<1>4. entry' = entry /\ waitset' = waitset
    BY <1>2, <1>3, SetsAre, EntryIs, WaitsetIs
<1>5. entry[l] = {}
    BY SetsAre DEF Queued
<1>6. Monitor!Release(t, l)
    BY <1>4, <1>5 DEF Monitor!Release, Monitor!Leave
<1>7. QED
    BY <1>6 DEF MonitorStep, Monitor!Next

LEMMA MonitorEnter ==
    ASSUME Inv, NEW t \in Threads, NEW l \in Locks, owner[l] \notin {NULL, t},
           wait_src[t] = NULL, owner' = owner,
           wait_src' = [wait_src EXCEPT ![t] = l], tag' = [tag EXCEPT ![t] = "wait"]
    PROVE  MonitorStep
<1>1. /\ wait_src'[t] = l /\ tag'[t] = "wait"
      /\ \A x \in Threads : x # t => wait_src'[x] = wait_src[x] /\ tag'[x] = tag[x]
    BY DEF Inv, TypeOK
<1> DEFINE E == [entry EXCEPT ![l] = @ \cup {t}]
<1>2. E \in [Locks -> SUBSET Threads]
    BY SetsAre
<1>3. \A k \in Locks : \A x \in Threads : x \in E[k] <=> x \in entry[k] \/ (k = l /\ x = t)
    BY SetsAre
<1> HIDE DEF E
<1>4. \A k \in Locks : \A x \in Threads : x \in E[k] <=> Wants(x, k)'
    BY <1>1, <1>3, SetsAre, NullAssumption DEF Wants
<1>5. \A k \in Locks : \A x \in Threads : Sleeps(x, k)' <=> Sleeps(x, k)
    BY <1>1, NullAssumption DEF Sleeps
<1>6. entry' = E /\ waitset' = waitset
    BY <1>2, <1>4, <1>5, SetsAre, EntryIs, WaitsetIs
<1>7. Monitor!Enter(t, l)
    BY <1>6 DEF Monitor!Enter, E
<1>8. QED
    BY <1>7 DEF MonitorStep, Monitor!Next

(* The owner leaves, for a thread that waits for the word; in a condition  *)
(* wait (c) it is in the set of waiting threads from then on.              *)
LEMMA MonitorLeave ==
    ASSUME Inv, NEW t \in Threads, NEW l \in Locks, owner[l] = t, wait_src[t] # l,
           NEW o, NEW c \in BOOLEAN, c => wait_src[t] = NULL,
           \/ o = NULL /\ ~Queued(l)
           \/ o \in Threads /\ Wants(o, l),
           owner' = [owner EXCEPT ![l] = o],
           wait_src' = IF c THEN [wait_src EXCEPT ![t] = l] ELSE wait_src,
           tag' = IF c THEN [tag EXCEPT ![t] = "cv"] ELSE tag
    PROVE  MonitorStep
<1>1. /\ c => wait_src'[t] = l /\ tag'[t] = "cv"
      /\ ~c => wait_src'[t] = wait_src[t] /\ tag'[t] = tag[t]
      /\ \A x \in Threads : x # t => wait_src'[x] = wait_src[x] /\ tag'[x] = tag[x]
      /\ owner'[l] = o /\ \A k \in Locks : k # l => owner'[k] = owner[k]
    BY DEF Inv, TypeOK
<1> DEFINE E == [entry EXCEPT ![l] = @ \ {o}]
           W == [waitset EXCEPT ![l] = @ \cup {t}]
<1>2. E \in [Locks -> SUBSET Threads] /\ W \in [Locks -> SUBSET Threads]
    BY SetsAre
<1>3. /\ \A k \in Locks : \A x \in Threads : x \in E[k] <=> x \in entry[k] /\ ~(k = l /\ x = o)
      /\ \A k \in Locks : \A x \in Threads : x \in W[k] <=> x \in waitset[k] \/ (k = l /\ x = t)
    BY SetsAre
<1> HIDE DEF E, W
<1>4. entry' = E
    <2>1. ASSUME NEW k \in Locks, NEW x \in Threads
          PROVE  x \in E[k] <=> Wants(x, k)'
        <3>1. x \in E[k] <=> Wants(x, k) /\ ~(k = l /\ x = o)
            BY <1>3, SetsAre
        <3>2. CASE k # l
            BY <1>1, <3>1, <3>2, NullAssumption DEF Wants
        <3>3. CASE k = l
            BY <1>1, <3>1, <3>3, NullAssumption DEF Wants, Queued
        <3>4. QED
            BY <3>2, <3>3
    <2>2. QED
        BY <1>2, <2>1, EntryIs
<1>5. CASE c
    <2>1. \A k \in Locks : \A x \in Threads : x \in W[k] <=> Sleeps(x, k)'
        BY <1>1, <1>3, <1>5, SetsAre, NullAssumption DEF Sleeps
    <2>2. waitset' = W
        BY <1>2, <2>1, WaitsetIs
    <2>3. Monitor!Leave(t, l)
        <3>1. CASE o = NULL /\ ~Queued(l)
            <4>1. entry[l] = {}
                BY <3>1, SetsAre DEF Queued
            <4>2. E = entry
                BY <4>1, SetsAre DEF E
            <4>3. QED
                BY <1>4, <3>1, <4>1, <4>2 DEF Monitor!Leave
        <3>2. CASE o \in Threads /\ Wants(o, l)
            BY <1>4, <3>2, SetsAre DEF Monitor!Leave, E
        <3>3. QED
            BY <3>1, <3>2
    <2>4. Monitor!Wait(t, l)
        BY <2>2, <2>3 DEF Monitor!Wait, W
    <2>5. QED
        BY <2>4 DEF MonitorStep, Monitor!Next
<1>6. CASE ~c
    <2>1. \A k \in Locks : \A x \in Threads : Sleeps(x, k)' <=> Sleeps(x, k)
        BY <1>6 DEF Sleeps
    <2>2. waitset' = waitset
        BY <2>1, SetsAre, WaitsetIs
    <2>3. Monitor!Leave(t, l)
        <3>1. CASE o = NULL /\ ~Queued(l)
            <4>1. entry[l] = {}
                BY <3>1, SetsAre DEF Queued
            <4>2. E = entry
                BY <4>1, SetsAre DEF E
            <4>3. QED
                BY <1>4, <3>1, <4>1, <4>2 DEF Monitor!Leave
        <3>2. CASE o \in Threads /\ Wants(o, l)
            BY <1>4, <3>2, SetsAre DEF Monitor!Leave, E
        <3>3. QED
            BY <3>1, <3>2
    <2>4. Monitor!Release(t, l)
        BY <2>2, <2>3 DEF Monitor!Release
    <2>5. QED
        BY <2>4 DEF MonitorStep, Monitor!Next
<1>7. QED
    BY <1>5, <1>6

LEMMA MonitorNotify ==
    ASSUME Inv, NEW t \in Threads, NEW l \in Locks, owner[l] = t, wait_src[t] = NULL,
           NEW s, s # {}, \A x \in s : x \in Threads /\ Sleeps(x, l),
           \/ \A x \in Threads : Sleeps(x, l) => x \in s
           \/ \E x : s = {x},
           tag' = [x \in Threads |-> IF x \in s THEN "wait" ELSE tag[x]],
           UNCHANGED <<wait_src, owner>>
    PROVE  MonitorStep
<1> DEFINE E == [entry EXCEPT ![l] = @ \cup s]
           W == [waitset EXCEPT ![l] = @ \ s]
<1>1. s \subseteq Threads /\ \A x \in Threads : x \in s => x # t
    BY NullAssumption DEF Sleeps
<1>2. E \in [Locks -> SUBSET Threads] /\ W \in [Locks -> SUBSET Threads]
    BY <1>1, SetsAre
<1>3. /\ \A k \in Locks : \A x \in Threads : x \in E[k] <=> x \in entry[k] \/ (k = l /\ x \in s)
      /\ \A k \in Locks : \A x \in Threads : x \in W[k] <=> x \in waitset[k] /\ ~(k = l /\ x \in s)
    BY SetsAre
<1> HIDE DEF E, W
<1>4. \A k \in Locks : \A x \in Threads : x \in E[k] <=> Wants(x, k)'
    BY <1>1, <1>3, SetsAre DEF Wants, Sleeps
<1>5. \A k \in Locks : \A x \in Threads : x \in W[k] <=> Sleeps(x, k)'
    BY <1>1, <1>3, SetsAre DEF Sleeps
<1>6. entry' = E /\ waitset' = W
    BY <1>2, <1>4, <1>5, EntryIs, WaitsetIs
<1>7. s = waitset[l] \/ \E x \in waitset[l] : s = {x}
    <2>1. \A x \in s : x \in waitset[l]
        BY SetsAre
    <2>2. CASE \A x \in Threads : Sleeps(x, l) => x \in s
        <3>1. \A x \in waitset[l] : x \in s
            BY <2>2, SetsAre
        <3>2. QED
            BY <2>1, <3>1
    <2>3. CASE \E x : s = {x}
        BY <2>1, <2>3
    <2>4. QED
        BY <2>2, <2>3
<1>8. Monitor!Notify(t, l)
    BY <1>6, <1>7 DEF Monitor!Notify, E, W
<1>9. QED
    BY <1>8 DEF MonitorStep, Monitor!Next

LEMMA MonitorMove ==
    ASSUME Inv, NEW t \in Threads, NEW l \in Locks, NEW m \in Locks, l # m,
           owner[l] = t, owner[m] = t, wait_src[t] = NULL,
           \A x \in Threads : wait_src'[x] = IF wait_src[x] = l THEN m ELSE wait_src[x],
           UNCHANGED <<tag, owner>>
    PROVE  MonitorStep
<1> DEFINE E == [entry EXCEPT ![m] = @ \cup entry[l], ![l] = {}]
           W == [waitset EXCEPT ![m] = @ \cup waitset[l], ![l] = {}]
<1>1. E \in [Locks -> SUBSET Threads] /\ W \in [Locks -> SUBSET Threads]
    BY SetsAre
<1>2. /\ \A k \in Locks : \A x \in Threads :
            x \in E[k] <=> \/ x \in entry[k] /\ k # l
                           \/ x \in entry[l] /\ k = m
      /\ \A k \in Locks : \A x \in Threads :
            x \in W[k] <=> \/ x \in waitset[k] /\ k # l
                           \/ x \in waitset[l] /\ k = m
    BY SetsAre
<1> HIDE DEF E, W
<1>3. \A k \in Locks : \A x \in Threads : x \in E[k] <=> Wants(x, k)'
    BY <1>2, SetsAre, NullAssumption DEF Wants
<1>4. \A k \in Locks : \A x \in Threads : x \in W[k] <=> Sleeps(x, k)'
    BY <1>2, SetsAre DEF Sleeps
<1>5. entry' = E /\ waitset' = W
    BY <1>1, <1>3, <1>4, EntryIs, WaitsetIs
<1>6. Monitor!Move(t, l, m)
    BY <1>5 DEF Monitor!Move, E, W
<1>7. QED
    BY <1>6 DEF MonitorStep, Monitor!Next

LEMMA MonitorFinish ==
    ASSUME Inv, NEW t \in Threads, signal_pending[t], ~At(t, "listwait"),
           wait_src' = [wait_src EXCEPT ![t] = NULL], UNCHANGED <<tag, owner>>
    PROVE  MonitorStep
<1>1. Given(t) /\ tag[t] = "wait"
    BY DEF Inv, WakeInv
<1>2. /\ wait_src'[t] = NULL /\ \A x \in Threads : x # t => wait_src'[x] = wait_src[x]
    BY DEF Inv, TypeOK
<1>3. \A k \in Locks : \A x \in Threads : Wants(x, k)' <=> Wants(x, k)
    BY <1>1, <1>2, NullAssumption DEF Wants, Given
<1>4. \A k \in Locks : \A x \in Threads : Sleeps(x, k)' <=> Sleeps(x, k)
    BY <1>1, <1>2, NullAssumption DEF Sleeps
<1>5. entry' = entry /\ waitset' = waitset
    BY <1>3, <1>4, SetsAre, EntryIs, WaitsetIs
<1>6. QED
    BY <1>5 DEF MonitorStep, Monitor!vars

(* The calls as steps of a monitor. *)
LEMMA CallMonitor ==
    ASSUME Inv, NEW t \in Threads, NEW l \in Locks
    PROVE  /\ Lock(t, l) => MonitorStep
           /\ Trylock(t, l) => MonitorStep
           /\ Unlock(t, l) => MonitorStep
           /\ CvWait(t, l) => MonitorStep
           /\ Retire(t, l) => MonitorStep
           /\ \A p : Grab(t, l, p) => MonitorStep
           /\ \A p : LockIfPayload(t, l, p) => MonitorStep
           /\ \A op : Notify(t, l, op) => MonitorStep
           /\ \A m : Rekey(t, l, m) => MonitorStep
<1>1. ASSUME Available(l), owner' = [owner EXCEPT ![l] = t], UNCHANGED <<wait_src, tag>>
      PROVE  MonitorStep
    <2>1. owner[l] = NULL
        BY <1>1 DEF Available, Inv, OwnerInv
    <2>2. QED
        BY <1>1, <2>1, MonitorAcquire
<1>2. ASSUME LockAsync(t, l), UNCHANGED <<wait_src, tag>>
      PROVE  MonitorStep
    BY <1>1, <1>2, MonitorSame DEF LockAsync, Obtain
<1>3. ASSUME Unlock(t, l)
      PROVE  MonitorStep
    <2>1. At(t, "run") /\ l \in held[t] /\ UNCHANGED <<wait_src, tag>>
        BY <1>3 DEF Unlock, waiter
    <2>2. owner[l] = t /\ wait_src[t] # l
        BY <2>1 DEF Inv, OwnerInv
    <2>3. CASE ~word[l].wait
        <3>1. Pending(t) = {}
            BY <2>1, AtRun
        <3>2. ~Queued(l)
            BY <2>2, <2>3, <3>1, NothingPending DEF Inv
        <3>3. owner' = [owner EXCEPT ![l] = NULL]
            BY <1>3, <2>3 DEF Unlock
        <3>4. QED
            BY <2>1, <2>2, <3>2, <3>3, MonitorFree
    <2>4. CASE word[l].wait
        BY <1>3, <2>1, <2>4, MonitorSame DEF Unlock
    <2>5. QED
        BY <2>3, <2>4
<1>4. ASSUME NEW p, LockIfPayload(t, l, p)
      PROVE  MonitorStep
    BY <1>1, <1>4, MonitorSame DEF LockIfPayload, Obtain, waiter
<1>5. (Lock(t, l) \/ Retire(t, l)) => MonitorStep
    BY <1>2 DEF Lock, Retire, waiter
<1>6. Trylock(t, l) => MonitorStep
    BY <1>1 DEF Trylock, Obtain, waiter
<1>7. \A p : Grab(t, l, p) => MonitorStep
    BY <1>1 DEF Grab, waiter
<1>8. CvWait(t, l) => MonitorStep
    BY MonitorSame DEF CvWait, waiter
<1>9. \A op : Notify(t, l, op) => MonitorStep
    BY MonitorSame DEF Notify, waiter
<1>10. \A m : Rekey(t, l, m) => MonitorStep
    BY MonitorSame DEF Rekey, waiter
<1>11. QED
    BY <1>3, <1>4, <1>5, <1>6, <1>7, <1>8, <1>9, <1>10

LEMMA LockSectionMonitor ==
    ASSUME Inv, NEW t \in Threads, LockSection(t)
    PROVE  MonitorStep
<1> DEFINE l == local[t].lock
<1>1. /\ Contending(t) /\ local[t].op \in {"lock", "payload"}
    BY DEF LockSection, InSection, At, Contending
<1>2. l \in Locks /\ wait_src[t] = NULL /\ \A h \in held[t] : h < l
    BY <1>1 DEF Inv, LocalOK, Locking
<1>3. l \notin held[t]
    <2>1. l \in Nat
        BY <1>2, ParametersAssumption
    <2> HIDE DEF l
    <2>2. QED
        BY <1>2, <2>1
<1>4. CASE ~word[l].lock
    <2>1. owner' = [owner EXCEPT ![l] = t] /\ UNCHANGED <<wait_src, tag>>
        BY <1>4 DEF LockSection, Obtain, waiter
    <2>2. owner[l] = NULL
        BY <1>2, <1>4 DEF Inv, OwnerInv
    <2> HIDE DEF l
    <2>3. QED
        BY <1>2, <2>1, <2>2, MonitorAcquire
<1>5. CASE word[l].lock
    <2>1. /\ owner' = owner /\ wait_src' = [wait_src EXCEPT ![t] = l]
          /\ tag' = [tag EXCEPT ![t] = "wait"]
        BY <1>5 DEF LockSection, SetWaiter
    <2>2. ~Unlocks(t, l)
        BY <1>1 DEF Unlocks
    <2> HIDE DEF l
    <2>3. owner[l] \notin {NULL, t}
        BY <1>2, <1>3, <1>5, <2>2, NullAssumption DEF Inv, OwnerInv
    <2>4. QED
        BY <1>2, <2>1, <2>3, MonitorEnter
<1>6. QED
    BY <1>4, <1>5

LEMMA UnlockSectionMonitor ==
    ASSUME Inv, NEW t \in Threads, UnlockSection(t)
    PROVE  MonitorStep
<1> DEFINE l == local[t].lock
           m == Matching(l, "wait")
           o == m[1]
<1>1. /\ Contending(t) /\ local[t].op = "unlock"
      /\ owner' = [owner EXCEPT ![l] = o] /\ UNCHANGED <<wait_src, tag>>
    BY DEF UnlockSection, GetOneWaiter, InSection, At, Contending, waiter
<1>2. /\ l \in Locks /\ owner[l] = t /\ wait_src[t] # l /\ word[l].wait
      /\ local[t].moving = <<>> /\ Pending(t) = {}
    BY <1>1 DEF Inv, LocalOK, Unlocking, Empty, Pending, ToSet
<1> HIDE DEF l
<1>3. Queued(l)
    BY <1>2, NothingPending DEF Inv
<1>4. o \in Threads /\ Wants(o, l)
    BY <1>2, <1>3, FirstWaiter DEF Inv
<1> HIDE DEF o
<1>5. PICK c : c = FALSE
    OBVIOUS
<1>6. QED
    BY <1>1, <1>2, <1>4, <1>5, MonitorLeave

LEMMA CvWaitSectionMonitor ==
    ASSUME Inv, NEW t \in Threads, CvWaitSection(t)
    PROVE  MonitorStep
<1> DEFINE l == local[t].lock
<1>1. /\ Contending(t) /\ local[t].op = "cvwait"
      /\ wait_src' = [wait_src EXCEPT ![t] = l] /\ tag' = [tag EXCEPT ![t] = "cv"]
    BY DEF CvWaitSection, SetWaiter, InSection, At, Contending
<1>2. /\ l \in Locks /\ wait_src[t] = NULL /\ held[t] = {l}
      /\ local[t].moving = <<>> /\ Pending(t) = {}
    BY <1>1 DEF Inv, LocalOK, CvWaiting, Empty, Pending, ToSet
<1>3. owner[l] = t /\ wait_src[t] # l
    BY <1>2, NullAssumption DEF Inv, OwnerInv
<1>4. Queued(l) <=> word[l].wait
    BY <1>2, <1>3, NothingPending DEF Inv
<1>5. PICK c : c = TRUE
    OBVIOUS
<1>6. CASE ~word[l].wait
    <2>1. owner' = [owner EXCEPT ![l] = NULL]
        BY <1>6 DEF CvWaitSection
    <2> HIDE DEF l
    <2>2. PICK o : o = NULL
        OBVIOUS
    <2>3. QED
        BY <1>1, <1>2, <1>3, <1>4, <1>5, <1>6, <2>1, <2>2, MonitorLeave
<1>7. CASE word[l].wait
    <2> DEFINE m == Matching(l, "wait")
               o == m[1]
    <2>1. owner' = [owner EXCEPT ![l] = o]
        BY <1>7 DEF CvWaitSection, GetOneWaiter
    <2> HIDE DEF l
    <2>2. o \in Threads /\ Wants(o, l)
        BY <1>2, <1>3, <1>4, <1>7, FirstWaiter DEF Inv
    <2> HIDE DEF o
    <2>3. QED
        BY <1>1, <1>2, <1>3, <1>5, <2>1, <2>2, MonitorLeave
<1>8. QED
    BY <1>6, <1>7

LEMMA NotifySectionMonitor ==
    ASSUME Inv, NEW t \in Threads, NotifySection(t)
    PROVE  MonitorStep
<1> DEFINE l == local[t].lock
           m == Matching(l, "cv")
           s == IF local[t].op = "signal" THEN {m[1]} ELSE ToSet(m)
<1>1. /\ Contending(t) /\ local[t].op \in {"signal", "broadcast"}
      /\ tag' = [x \in Threads |-> IF x \in s THEN "wait" ELSE tag[x]]
      /\ UNCHANGED <<wait_src, owner>>
    BY DEF NotifySection, InSection, At, Contending
<1>2. m # <<>>
    <2>1. InSection(t, "signal") \/ InSection(t, "broadcast")
        BY DEF NotifySection
    <2>2. QED
        BY <2>1, InvAsserts
<1>3. l \in held[t] /\ local[t].moving = <<>> /\ wait_src[t] = NULL
    BY <1>1 DEF Inv, LocalOK, Notifying
<1>4. l \in Locks /\ owner[l] = t /\ wait_src[t] # l
    BY <1>3, NullAssumption DEF Inv, TypeOK, OwnerInv
<1> HIDE DEF l
<1>5. /\ m \in Seq(Threads)
      /\ \A x \in Threads : x \in ToSet(m) <=> Sleeps(x, l)
    BY <1>3, <1>4, Sleepers DEF Inv, Sleeps
<1> HIDE DEF m
<1>6. m[1] \in ToSet(m) /\ \A x \in ToSet(m) : x \in Threads
    BY <1>2, <1>5, EmptySet
<1>7. /\ s # {} /\ \A x \in s : x \in ToSet(m)
      /\ s = ToSet(m) \/ \E x : s = {x}
    BY <1>1, <1>6
<1> HIDE DEF s
<1>8. /\ \A x \in s : x \in Threads /\ Sleeps(x, l)
      /\ \/ \A x \in Threads : Sleeps(x, l) => x \in s
         \/ \E x : s = {x}
    BY <1>5, <1>6, <1>7
<1>9. QED
    BY <1>1, <1>3, <1>4, <1>7, <1>8, MonitorNotify

LEMMA RekeySectionMonitor ==
    ASSUME Inv, NEW t \in Threads, RekeySection(t)
    PROVE  MonitorStep
<1> DEFINE l == local[t].lock
           m == local[t].newlock
           q == list[Hash[l]]
           s == Filter(q, Sources(l))
<1>1. /\ Contending(t) /\ local[t].op = "rekey" /\ Stage(t) = "section"
      /\ wait_src' = [x \in Threads |-> IF x \in ToSet(s) THEN m ELSE wait_src[x]]
      /\ UNCHANGED <<tag, owner>>
    BY DEF RekeySection, InSection, At, Contending, Stage
<1>2. /\ l \in held[t] /\ m \in held[t] /\ l # m /\ wait_src[t] = NULL
      /\ local[t].moving = <<>>
    BY <1>1 DEF Inv, LocalOK, Rekeying, Empty
<1>3. l \in Locks /\ m \in Locks /\ owner[l] = t /\ owner[m] = t /\ l # NULL
    BY <1>2, NullAssumption DEF Inv, TypeOK, OwnerInv
<1>4. q \in Seq(Threads) /\ Distinct(q)
    BY <1>3, Members DEF Inv, QueueInv
<1> HIDE DEF l, m
<1>5. \A x \in Threads : wait_src[x] = l => x \in ToSet(q)
    BY <1>2, <1>3, OnList DEF Inv
<1> HIDE DEF q
<1>6. ToSet(s) = ToSet(q) \cap Sources(l)
    BY <1>4, FilterIs
<1> HIDE DEF s
<1>7. \A x \in Threads : x \in ToSet(s) <=> wait_src[x] = l
    BY <1>5, <1>6 DEF Sources
<1>8. \A x \in Threads : wait_src'[x] = IF wait_src[x] = l THEN m ELSE wait_src[x]
    BY <1>1, <1>7
<1>9. QED
    BY <1>1, <1>2, <1>3, <1>8, MonitorMove

LEMMA ReleaseMonitor ==
    ASSUME Inv, NEW t \in Threads, Release(t)
    PROVE  MonitorStep
<1> DEFINE l == local[t].lock
<1>1. /\ At(t, "release") /\ Stage(t) = "release" /\ ~word[l].wait
      /\ owner' = [owner EXCEPT ![l] = NULL] /\ UNCHANGED <<wait_src, tag>>
    BY DEF Release, At, Stage, waiter
<1>2. l \in held[t] /\ wait_src[t] = NULL /\ Pending(t) = {}
    BY <1>1, OpAt DEF Rekeying, Pending
<1>3. l \in Locks /\ owner[l] = t /\ wait_src[t] # l
    BY <1>2, NullAssumption DEF Inv, TypeOK, OwnerInv
<1> HIDE DEF l
<1>4. ~Queued(l)
    BY <1>1, <1>2, <1>3, NothingPending DEF Inv
<1>5. QED
    BY <1>1, <1>3, <1>4, MonitorFree

LEMMA NextMonitor ==
    ASSUME Inv, Next
    PROVE  MonitorStep
<1>1. PICK t \in Threads : Internal(t) \/ Call(t)
    BY DEF Next
<1>2. CASE Internal(t)
    <2>1. ASSUME \E l, m \in Locks : Rekey(t, l, m)
          PROVE  MonitorStep
        BY <2>1, CallMonitor
    <2>2. CASE LockList(t) \/ LockListWait(t) \/ UnlockListWake(t) \/ Wakeup(t)
        BY <2>2, MonitorSame DEF LockList, LockListWait, UnlockListWake, Wakeup, waiter
    <2>3. CASE LockSection(t) \/ UnlockSection(t) \/ CvWaitSection(t)
        BY <2>3, LockSectionMonitor, UnlockSectionMonitor, CvWaitSectionMonitor
    <2>4. CASE NotifySection(t) \/ RekeySection(t) \/ Release(t)
        BY <2>4, NotifySectionMonitor, RekeySectionMonitor, ReleaseMonitor
    <2>5. CASE CompleteWaitDone(t) \/ CvWaitDone(t)
        BY <2>5, MonitorFinish DEF CompleteWaitDone, CvWaitDone, At
    <2>6. CASE PayloadChanged(t) \/ CompleteWait(t)
        BY <2>6, MonitorSame DEF PayloadChanged, CompleteWait, waiter
    <2>7. CASE SetBits(t) \/ RekeyAppend(t) \/ AppendSection(t)
        BY <2>7, MonitorSame DEF SetBits, RekeyAppend, AppendSection, waiter
    <2>8. QED
        BY <1>2, <2>1, <2>2, <2>3, <2>4, <2>5, <2>6, <2>7 DEF Internal
<1>3. CASE Call(t)
    BY <1>3, CallMonitor DEF Call
<1>4. QED
    BY <1>1, <1>2, <1>3

(* The words are monitors (MonitorSpec), although their waiters share the  *)
(* lists and the signals of the lists' locks: every step of the code is a  *)
(* step of the monitors, or one they do not see.                           *)
THEOREM BitLocksAreMonitors == Spec => ImplementsMonitor
<1>1. Init => Monitor!Init
    <2> SUFFICES ASSUME Init PROVE Monitor!Init
        OBVIOUS
    <2>1. /\ \A x \in Threads : wait_src[x] = NULL
          /\ owner = [l \in Locks |-> NULL]
        BY DEF Init
    <2>2. \A l \in Locks : entry[l] = {} /\ waitset[l] = {}
        BY <2>1, NullAssumption DEF entry, waitset
    <2>3. entry = [l \in Locks |-> {}] /\ waitset = [l \in Locks |-> {}]
        BY <2>2 DEF entry, waitset
    <2>4. QED
        BY <2>1, <2>3 DEF Monitor!Init
<1>2. Inv /\ [Next]_vars => [Monitor!Next]_Monitor!vars
    <2> SUFFICES ASSUME Inv, [Next]_vars PROVE MonitorStep
        BY DEF MonitorStep
    <2>1. CASE Next
        BY <2>1, NextMonitor
    <2>2. CASE UNCHANGED vars
        BY <2>2, MonitorSame DEF vars, waiter
    <2>3. QED
        BY <2>1, <2>2
<1>3. QED
    BY <1>1, <1>2, InvHolds, PTL DEF Spec, ImplementsMonitor, Monitor!Spec
===============================================================================
