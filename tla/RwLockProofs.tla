----------------------------- MODULE RwLockProofs ------------------------------
(***************************************************************************)
(* Proofs about RwLock, for every number of threads and all programs that  *)
(* use the lock as a fair one: the word counts who holds it, nobody in the *)
(* queue is lost, the assertions of the code hold, and it implements       *)
(* RwLockSpec.                                                             *)
(***************************************************************************)
EXTENDS RwLock, FiniteSetTheorems, SequenceTheorems, NaturalsInduction,
        WellFoundedInduction, TLAPS

(* No lock is initialised with LW_RWLOCK_UNFAIR. *)
FairLocks == \A c \in Clients : c.unfair \subseteq {FALSE}

-------------------------------------------------------------------------------
(* The inductive invariant. *)

Places ==
    {"idle", "lock", "contention", "wait", "rd", "wr", "unlock", "fair", "wake",
     "wake_all", "downgrade", "down_unlock", "down_wait", "upgrade", "insert",
     "insert_walk", "insert_swap", "up_unlock", "up_wait"}

Word ==
    [unfair : {FALSE}, wlocked : BOOLEAN, readers : 0..(ReaderMod - 1), waitq : Ids]

TypeOK ==
    /\ client \in Clients
    /\ val \in Word /\ old \in [Threads -> Word]
    /\ next \in [Threads -> Ids] /\ tag \in [Threads -> Kinds]
    /\ signal_pending \in [Threads -> BOOLEAN]
    /\ pc \in [Threads -> Places]
    /\ back \in [Threads -> {"idle", "up_wait", "down_wait"}]
    /\ want \in [Threads -> {"none", "rd", "wr", "tryrd", "trywr"}]
    /\ excl \in [Threads -> BOOLEAN]
    /\ cur \in [Threads -> Ids] /\ wait_list \in [Threads -> Ids]
    /\ mode \in [Threads -> {"none", "rd", "wr"}]
    /\ queue \in Seq(Threads \X Kinds)

Waits(t) == pc[t] \in {"wait", "up_wait", "down_wait"}

(* The thread is queued: it waits and has not been given the lock, or it   *)
(* has queued for another mode and gives up the one it has.                *)
InQueue(t) ==
    \/ Waits(t) /\ mode[t] = "none"
    \/ pc[t] \in {"up_unlock", "down_unlock"}
    \/ pc[t] \in {"unlock", "fair"} /\ back[t] # "idle"

(* The thread has been given the lock and does not know yet. *)
Given(t) ==
    \/ Waits(t) /\ mode[t] # "none"
    \/ pc[t] \in {"wake", "wake_all"} /\ back[t] # "idle"

(* What the place of a thread says of its own variables. *)
LocalOK(t) ==
    /\ pc[t] \in {"idle", "lock", "contention"} => mode[t] = "none"
    /\ pc[t] \in {"rd", "upgrade", "insert", "insert_walk", "insert_swap", "up_unlock"}
          => mode[t] = "rd"
    /\ pc[t] \in {"wr", "downgrade", "down_unlock"} => mode[t] = "wr"
    /\ pc[t] \in {"unlock", "fair"} => mode[t] = IF excl[t] THEN "wr" ELSE "rd"
    /\ pc[t] \in {"wake", "wake_all"} => (mode[t] = "none" <=> back[t] = "idle")
    /\ Given(t) => mode[t] = IF tag[t] = "shared" THEN "rd" ELSE "wr"
    /\ pc[t] = "wait" => want[t] \in {"rd", "wr"} /\ (tag[t] = "shared" <=> want[t] = "rd")
    /\ pc[t] = "contention" => want[t] \in {"rd", "wr"}
    /\ pc[t] = "lock" => want[t] # "none"
    /\ pc[t] \in {"up_wait", "up_unlock", "insert", "insert_walk", "insert_swap"}
          => tag[t] = "upgrade"
    /\ pc[t] \in {"down_wait", "down_unlock"} => tag[t] = "shared"
    /\ pc[t] \in {"wait"} => tag[t] # "upgrade"
    /\ back[t] # "idle" => pc[t] \in {"unlock", "fair", "wake", "wake_all"}
    /\ back[t] = "up_wait" => /\ tag[t] = "upgrade"
                              /\ pc[t] \in {"unlock", "fair"} => ~excl[t]
    /\ back[t] = "down_wait" => /\ tag[t] = "shared"
                                /\ pc[t] \in {"unlock", "fair"} => excl[t]
    /\ wait_list[t] # NULL => pc[t] = "fair"
    /\ cur[t] # NULL => pc[t] \in {"wake", "wake_all", "insert_walk", "insert_swap"}

Holders(m) == {t \in Threads : mode[t] = m}

(* The lock is held by t alone. *)
Sole(t) == \A u \in Threads : mode[u] # "none" => u = t

HoldInv ==
    /\ val.readers = Cardinality(Holders("rd"))
    /\ val.wlocked <=> Holders("wr") # {}
    /\ \A t \in Holders("wr") : Sole(t)

QueueInv ==
    /\ \A i, j \in 1..Len(queue) : queue[i][1] = queue[j][1] => i = j
    /\ \A t \in Threads : InQueue(t) <=> \E i \in 1..Len(queue) : queue[i][1] = t
    /\ \A i \in 1..Len(queue) : queue[i][2] = tag[queue[i][1]]
    /\ \A i \in 1..Len(queue) : queue[i][2] = "upgrade" => i = 1 /\ ~val.wlocked
    /\ queue # <<>> => Locked(val)
    /\ queue # <<>> /\ queue[1][2] = "shared" => val.wlocked
    /\ val.waitq = IF queue = <<>> THEN NULL ELSE queue[Len(queue)][1]

(* The waiters up to position k of queue q are those a fair unlock serves, *)
(* if its snapshot had the first n of them.                                *)
Serves(q, k, n) ==
    /\ k \in 1..n
    /\ q[1][2] # "shared" => k = 1
    /\ q[1][2] = "shared" =>
          /\ \A i \in 1..k : q[i][2] = "shared"
          /\ k < n => q[k + 1][2] # "shared"

(* The k oldest waiters have been cut off the queue. *)
CutInv(k) ==
    /\ k > 0 => k < Len(queue) /\ Serves(queue, k, Len(queue))
    /\ k > 0 => \E t \in Threads : wait_list[t] # NULL
    /\ \A t \in Threads : wait_list[t] # NULL => k > 0 /\ wait_list[t] = queue[k][1]
    /\ \A i \in 1..Len(queue) :
          next[queue[i][1]] = IF i \in {1, k + 1} THEN NULL ELSE queue[i - 1][1]

(* Of a queue that t is about to pass the lock to it saw a waiter that is  *)
(* still linked; nobody else can pass it on.                               *)
SnapOK(t, k) ==
    /\ pc[t] \in {"unlock", "fair", "downgrade"} =>
          IF mode[t] = "wr" THEN old[t].wlocked /\ old[t].readers = 0
                            ELSE ~old[t].wlocked /\ old[t].readers # 0
    /\ pc[t] = "fair" => old[t].waitq # NULL /\ (mode[t] = "rd" => old[t].readers = 1)
    /\ /\ pc[t] \in {"unlock", "fair", "downgrade"}
       /\ old[t].waitq # NULL
       /\ mode[t] = "rd" => old[t].readers = 1
       => Sole(t) /\ \E j \in (k + 1)..Len(queue) : queue[j][1] = old[t].waitq
    /\ pc[t] \in {"insert_walk", "insert_swap"} =>
          \E j \in 1..Len(queue) : queue[j][1] = cur[t]
    /\ pc[t] = "insert_swap" => tag[cur[t]] # "upgrade"
    /\ pc[t] \in {"insert", "insert_walk", "insert_swap"} => queue # <<>>
    /\ pc[t] = "upgrade" /\ old[t].waitq # NULL => queue # <<>>
    /\ pc[t] = "down_unlock" \/ (pc[t] \in {"unlock", "fair"} /\ back[t] = "down_wait")
          => queue # <<>> /\ queue[1][1] = t

(* L[t] are the waiters that t has yet to signal, w is one of them. *)
Lists == [Threads -> Seq(Threads)]
On(L, w) == \E t \in Threads : \E i \in 1..Len(L[t]) : L[t][i] = w

WakeInv(L) ==
    /\ \A t \in Threads : L[t] # <<>> => pc[t] \in {"wake", "wake_all"}
    /\ \A t \in Threads : pc[t] \in {"wake", "wake_all"} =>
          cur[t] = IF L[t] = <<>> THEN NULL ELSE L[t][1]
    /\ \A t \in Threads : pc[t] = "wake" => Len(L[t]) = 1
    /\ \A t, u \in Threads : \A i \in 1..Len(L[t]), j \in 1..Len(L[u]) :
          L[t][i] = L[u][j] => t = u /\ i = j
    /\ \A t \in Threads : \A i \in 1..Len(L[t]) :
          /\ Given(L[t][i]) /\ ~signal_pending[L[t][i]]
          /\ pc[t] = "wake_all" => tag[L[t][i]] = "shared"
          /\ next[L[t][i]] = IF i = Len(L[t]) THEN NULL ELSE L[t][i + 1]
    /\ \A w \in Threads : Given(w) => signal_pending[w] \/ On(L, w)
    /\ \A w \in Threads : signal_pending[w] => Given(w)
    /\ \A w \in Threads :
          ~On(L, w) /\ ~InQueue(w) /\ pc[w] # "contention" => next[w] = NULL

Inv == TypeOK /\ (\A t \in Threads : LocalOK(t)) /\ HoldInv /\ QueueInv

ListsOK(k, L) ==
    CutInv(k) /\ (\A t \in Threads : SnapOK(t, k)) /\ WakeInv(L)

IInv == Inv /\ \E k \in Nat, L \in Lists : ListsOK(k, L)
-------------------------------------------------------------------------------
(* Lists. *)

(* The least element of a set of natural numbers. *)
LEMMA Least ==
    ASSUME NEW S, S \subseteq Nat, S # {}
    PROVE  \E x \in S : \A y \in S : x <= y
<1> DEFINE R == OpToRel(<, Nat)
<1>1. \A x, y \in Nat : <<y, x>> \in R <=> y < x
    BY DEF OpToRel
<1>2. IsWellFoundedOn(R, Nat)
    BY NatLessThanWellFounded, Zenon
<1> HIDE DEF R
<1>3. PICK x \in S : \A y \in S : ~(<<y, x>> \in R)
    BY <1>2, WFMin, Zenon
<1>4. \A y \in S : y \in Nat /\ x \in Nat /\ ~(y < x)
    BY <1>1, <1>3, Zenon
<1>5. \A y \in S : x <= y
    BY <1>4
<1>6. QED
    BY <1>5

(* One step along the links. *)
Longer(s, first) ==
    LET id == IF s = <<>> THEN first ELSE next[Last(s)]
    IN  IF id = NULL THEN s ELSE Append(s, id)

(* A prefix of a linked list that is not all of it is longer by one step. *)
LEMMA Following ==
    ASSUME NEW q \in Seq(Threads), NEW first,
           first = (IF q = <<>> THEN NULL ELSE q[1]),
           \A i \in 1..Len(q) : next[q[i]] = IF i = Len(q) THEN NULL ELSE q[i + 1],
           NEW k \in 0..Len(q)
    PROVE  Longer(SubSeq(q, 1, k), first) =
              SubSeq(q, 1, IF k = Len(q) THEN k ELSE k + 1)
<1>1. NULL \notin Threads /\ Len(q) \in Nat /\ k \in Nat /\ k <= Len(q)
    BY NullAssumption, ParametersAssumption
<1>2. PICK s : s = SubSeq(q, 1, k)
    OBVIOUS
<1>3. s \in Seq(Threads) /\ Len(s) = k /\ \A i \in 1..k : s[i] = q[i]
    BY <1>1, <1>2
<1>4. s = <<>> <=> k = 0
    BY <1>3
<1>5. CASE k = Len(q)
    <2>1. k = 0 => first = NULL
        <3>1. Len(q) = 0 => q = <<>>
            OBVIOUS
        <3>2. QED
            BY <1>5, <3>1
    <2>2. k # 0 => Last(s) = q[k] /\ next[q[k]] = NULL
        BY <1>1, <1>3, <1>5 DEF Last
    <2>3. QED
        BY <1>2, <1>4, <1>5, <2>1, <2>2 DEF Longer
<1>6. CASE k # Len(q)
    <2>1. k + 1 \in 1..Len(q) /\ q[k + 1] \in Threads
        BY <1>1, <1>6
    <2>2. k = 0 => first = q[k + 1]
        BY <1>1, <1>6
    <2>3. k # 0 => Last(s) = q[k] /\ next[q[k]] = q[k + 1]
        BY <1>1, <1>3, <1>6 DEF Last
    <2>4. Longer(s, first) = Append(s, q[k + 1])
        BY <1>1, <1>4, <2>1, <2>2, <2>3 DEF Longer
    <2>5. PICK u : u = SubSeq(q, 1, k + 1)
        OBVIOUS
    <2>6. u \in Seq(Threads) /\ Len(u) = k + 1 /\ \A i \in 1..(k + 1) : u[i] = q[i]
        BY <1>1, <2>1, <2>5
    <2>7. PICK v : v = Append(s, q[k + 1])
        OBVIOUS
    <2>8. v \in Seq(Threads) /\ Len(v) = k + 1 /\ \A i \in 1..(k + 1) : v[i] = q[i]
        BY <1>1, <1>3, <2>1, <2>7
    <2>9. u = v
        BY <2>6, <2>8, SeqEqual
    <2>10. QED
        BY <1>2, <1>6, <2>4, <2>5, <2>7, <2>9
<1>7. QED
    BY <1>5, <1>6

(* The list is no longer than there are threads. *)
LEMMA Short ==
    ASSUME NEW q \in Seq(Threads), \A i, j \in 1..Len(q) : q[i] = q[j] => i = j
    PROVE  Cardinality(Threads) \in Nat /\ Len(q) <= Cardinality(Threads)
<1>1. Cardinality(Threads) \in Nat
    BY NullAssumption, ParametersAssumption, FS_CardinalityType
<1>2. q \in Injection(1..Len(q), Threads)
    BY DEF Injection, IsInjective
<1>3. Cardinality(1..Len(q)) <= Cardinality(Threads)
    BY <1>2, NullAssumption, ParametersAssumption, FS_Injection
<1>4. Cardinality(1..Len(q)) = Len(q)
    BY FS_Interval
<1>5. QED
    BY <1>1, <1>3, <1>4

(* A linked list of distinct threads is what Chain finds. *)
LEMMA ChainIs ==
    ASSUME NEW q \in Seq(Threads), NEW first,
           first = (IF q = <<>> THEN NULL ELSE q[1]),
           \A i \in 1..Len(q) : next[q[i]] = IF i = Len(q) THEN NULL ELSE q[i + 1],
           \A i, j \in 1..Len(q) : q[i] = q[j] => i = j
    PROVE  Chain(first) = q
<1> DEFINE N == Cardinality(Threads)
           Solves(g) == g = [n \in 0..N |-> IF n = 0 THEN <<>> ELSE Longer(g[n - 1], first)]
           P == CHOOSE g : Solves(g)
           At(n) == IF n <= Len(q) THEN n ELSE Len(q)
           f == [n \in 0..N |-> SubSeq(q, 1, At(n))]
<1>1. N \in Nat /\ Len(q) \in Nat /\ Len(q) <= N
    BY Short
<1> HIDE DEF N
<1>2. Solves(f)
    <2>1. ASSUME NEW n \in 0..N, n # 0
          PROVE  f[n] = Longer(f[n - 1], first)
        <3>1. n - 1 \in 0..N /\ At(n - 1) \in 0..Len(q)
            BY <1>1, <2>1
        <3>2. At(n) = IF At(n - 1) = Len(q) THEN At(n - 1) ELSE At(n - 1) + 1
            BY <1>1, <2>1
        <3> HIDE DEF At
        <3>3. QED
            BY <3>1, <3>2, Following
    <2>2. f[0] = <<>>
        BY <1>1
    <2>3. f = [n \in 0..N |-> IF n = 0 THEN <<>> ELSE Longer(f[n - 1], first)]
        <3> HIDE DEF At
        <3>1. f = [n \in 0..N |-> f[n]]
            OBVIOUS
        <3>2. \A n \in 0..N : f[n] = IF n = 0 THEN <<>> ELSE Longer(f[n - 1], first)
            BY <2>1, <2>2
        <3> HIDE DEF f
        <3>3. QED
            BY <3>1, <3>2
    <2>4. QED
        BY <2>3
<1> HIDE DEF Solves
<1>3. Solves(P)
    BY <1>2
<1>4. Chain(first) = P[N]
    BY DEF Chain, P, Solves, N, Longer
<1>5. \A n \in 0..N : P[n] = f[n]
    <2> DEFINE S == {n \in 0..N : P[n] # f[n]}
    <2> SUFFICES ASSUME S # {} PROVE FALSE
        OBVIOUS
    <2>1. PICK n \in S : \A m \in S : n <= m
        <3>1. S \subseteq Nat
            BY <1>1
        <3> HIDE DEF S
        <3>2. QED
            BY <3>1, Least
    <2>2. /\ P[n] = IF n = 0 THEN <<>> ELSE Longer(P[n - 1], first)
          /\ f[n] = IF n = 0 THEN <<>> ELSE Longer(f[n - 1], first)
        <3> HIDE DEF P, f
        <3>1. n \in 0..N
            OBVIOUS
        <3>2. QED
            BY <1>2, <1>3, <3>1 DEF Solves
    <2> HIDE DEF P, f
    <2>3. n # 0 => n - 1 \in 0..N /\ ~(n <= n - 1)
        BY <1>1
    <2>4. n # 0 => P[n - 1] = f[n - 1]
        BY <2>1, <2>3
    <2>5. QED
        BY <2>2, <2>4
<1>6. f[N] = q
    <2>1. N \in 0..N /\ At(N) = Len(q)
        BY <1>1
    <2>2. SubSeq(q, 1, Len(q)) = q
        BY SubSeqFull
    <2> HIDE DEF At
    <2>3. QED
        BY <2>1, <2>2
<1> HIDE DEF P, f
<1>7. QED
    BY <1>1, <1>4, <1>5, <1>6

(* A set of which a sequence has each element once. *)
LEMMA Counted ==
    ASSUME NEW q \in Seq(Threads), \A i, j \in 1..Len(q) : q[i] = q[j] => i = j
    PROVE  Cardinality({q[i] : i \in 1..Len(q)}) = Len(q)
<1> DEFINE S == {q[i] : i \in 1..Len(q)}
<1>1. Len(q) \in Nat /\ q \in [1..Len(q) -> S]
    OBVIOUS
<1>2. q \in Bijection(1..Len(q), S)
    BY <1>1 DEF Bijection, Injection, Surjection, IsInjective
<1>3. ExistsBijection(1..Len(q), S)
    BY <1>2 DEF ExistsBijection
<1> HIDE DEF S
<1>4. Cardinality(S) = Len(q)
    BY <1>1, <1>3, FS_CountingElements
<1>5. QED
    BY <1>4 DEF S

(* The filter that drops the first k of a sequence and keeps the others. *)
LEMMA FilterDrops ==
    ASSUME NEW T, NEW q \in Seq(T), NEW s, NEW k \in 0..Len(q),
           \A i \in 1..k : q[i] \notin s,
           \A i \in (k + 1)..Len(q) : q[i] \in s
    PROVE  Filter(q, s) = SubSeq(q, k + 1, Len(q))
<1> DEFINE N == Len(q)
           More(r, i) == IF q[i] \in s THEN Append(r, q[i]) ELSE r
           Solves(g) == g = [i \in 0..N |-> IF i = 0 THEN <<>> ELSE More(g[i - 1], i)]
           P == CHOOSE g : Solves(g)
           f == [i \in 0..N |-> SubSeq(q, k + 1, i)]
<1>1. N \in Nat /\ k \in Nat /\ k <= N
    OBVIOUS
<1>2. Solves(f)
    <2>1. ASSUME NEW i \in 0..N, i # 0
          PROVE  f[i] = More(f[i - 1], i)
        <3>1. i - 1 \in 0..N /\ i \in 1..N
            BY <1>1, <2>1
        <3>2. CASE i <= k
            <4>1. q[i] \notin s
                BY <1>1, <3>1, <3>2
            <4>2. f[i] = <<>> /\ f[i - 1] = <<>>
                BY <1>1, <3>1, <3>2
            <4>3. QED
                BY <4>1, <4>2
        <3>3. CASE ~(i <= k)
            <4>1. q[i] \in s
                BY <1>1, <3>1, <3>3
            <4>2. PICK u : u = SubSeq(q, k + 1, i)
                OBVIOUS
            <4>3. PICK v : v = SubSeq(q, k + 1, i - 1)
                OBVIOUS
            <4>4. /\ u \in Seq(T) /\ Len(u) = i - k
                  /\ \A j \in 1..(i - k) : u[j] = q[k + j]
                BY <1>1, <3>1, <3>3, <4>2, SubSeqProperties
            <4>5. /\ v \in Seq(T) /\ Len(v) = i - 1 - k
                  /\ \A j \in 1..(i - 1 - k) : v[j] = q[k + j]
                <5>1. k + 1 \in 1..(N + 1) /\ i - 1 \in (k + 1 - 1)..N
                    BY <1>1, <3>1, <3>3
                <5>2. CASE i - 1 = k
                    <6>1. v = <<>>
                        BY <1>1, <4>3, <5>2
                    <6>2. QED
                        BY <1>1, <5>2, <6>1
                <5>3. CASE i - 1 # k
                    BY <1>1, <3>1, <3>3, <4>3, <5>3, SubSeqProperties
                <5>4. QED
                    BY <5>2, <5>3
            <4>6. PICK w : w = Append(v, q[i])
                OBVIOUS
            <4>7. q[i] \in T
                BY <3>1
            <4>8. /\ w \in Seq(T) /\ Len(w) = i - k
                  /\ \A j \in 1..(i - k) : w[j] = q[k + j]
                BY <1>1, <3>1, <3>3, <4>5, <4>6, <4>7, AppendProperties
            <4>9. u = w
                BY <4>4, <4>8, SeqEqual, SMTT(30)
            <4>10. QED
                BY <3>1, <4>1, <4>2, <4>3, <4>6, <4>9
        <3>4. QED
            BY <3>2, <3>3
    <2>2. f[0] = <<>>
        BY <1>1
    <2>3. f = [i \in 0..N |-> IF i = 0 THEN <<>> ELSE More(f[i - 1], i)]
        <3>1. f = [i \in 0..N |-> f[i]]
            OBVIOUS
        <3>2. \A i \in 0..N : f[i] = IF i = 0 THEN <<>> ELSE More(f[i - 1], i)
            BY <2>1, <2>2
        <3> HIDE DEF f
        <3>3. QED
            BY <3>1, <3>2
    <2>4. QED
        BY <2>3
<1>3. Filter(q, s) = P[N]
    BY DEF Filter, P, Solves, N, More
<1> HIDE DEF Solves
<1>4. Solves(P)
    BY <1>2
<1>5. \A i \in 0..N : P[i] = f[i]
    <2> DEFINE S == {i \in 0..N : P[i] # f[i]}
    <2> SUFFICES ASSUME S # {} PROVE FALSE
        OBVIOUS
    <2>1. PICK i \in S : \A j \in S : i <= j
        <3>1. S \subseteq Nat
            BY <1>1
        <3> HIDE DEF S
        <3>2. QED
            BY <3>1, Least
    <2>2. /\ P[i] = IF i = 0 THEN <<>> ELSE More(P[i - 1], i)
          /\ f[i] = IF i = 0 THEN <<>> ELSE More(f[i - 1], i)
        <3> HIDE DEF P, f
        <3>1. i \in 0..N
            OBVIOUS
        <3>2. QED
            BY <1>2, <1>4, <3>1 DEF Solves
    <2> HIDE DEF P, f
    <2>3. i # 0 => i - 1 \in 0..N /\ ~(i <= i - 1)
        BY <1>1
    <2>4. i # 0 => P[i - 1] = f[i - 1]
        BY <2>1, <2>3
    <2>5. QED
        BY <2>2, <2>4
<1>6. f[N] = SubSeq(q, k + 1, N)
    BY <1>1
<1> HIDE DEF P, f
<1>7. QED
    BY <1>1, <1>3, <1>5, <1>6

(* The greatest element of a set of numbers up to n. *)
LEMMA Greatest ==
    ASSUME NEW n \in Nat, NEW S, S \subseteq 1..n, S # {}
    PROVE  \E x \in S : \A y \in S : y <= x
<1> DEFINE R == {n - x : x \in S}
<1>1. R \subseteq Nat /\ R # {}
    <2>1. \A x \in S : x \in 1..n /\ n - x \in Nat
        OBVIOUS
    <2>2. QED
        BY <2>1
<1>2. PICK r \in R : \A y \in R : r <= y
    <2> HIDE DEF R
    <2>1. QED
        BY <1>1, Least
<1>3. PICK x \in S : r = n - x
    OBVIOUS
<1>4. ASSUME NEW y \in S
      PROVE  y <= x
    <2>1. n - y \in R /\ x \in 1..n /\ y \in 1..n
        OBVIOUS
    <2>2. r <= n - y
        BY <1>2, <2>1
    <2>3. QED
        BY <1>3, <2>1, <2>2
<1>5. QED
    BY <1>4

(* The threads from position b of the queue down to a. *)
Down(a, b) == [i \in 1..(b + 1 - a) |-> queue[b + 1 - i][1]]

LEMMA QueueTypes ==
    ASSUME TypeOK
    PROVE  /\ Len(queue) \in Nat
           /\ \A i \in 1..Len(queue) :
                 /\ queue[i] \in Threads \X Kinds
                 /\ queue[i][1] \in Threads /\ queue[i][2] \in Kinds
                 /\ queue[i] = <<queue[i][1], queue[i][2]>>
<1>1. Len(queue) \in Nat /\ \A i \in 1..Len(queue) : queue[i] \in Threads \X Kinds
    BY DEF TypeOK
<1>2. QED
    BY <1>1

LEMMA DownIs ==
    ASSUME TypeOK, QueueInv, NEW a \in 1..Len(queue), NEW b \in a..Len(queue)
    PROVE  /\ Down(a, b) \in Seq(Threads) /\ Len(Down(a, b)) = b + 1 - a
           /\ \A i \in 1..(b + 1 - a) : Down(a, b)[i] = queue[b + 1 - i][1]
           /\ \A i, j \in 1..(b + 1 - a) : Down(a, b)[i] = Down(a, b)[j] => i = j
           /\ \A x : x \in Range(Down(a, b)) <=> \E i \in a..b : x = queue[i][1]
           /\ Down(a, b) # <<>> /\ Down(a, b)[1] = queue[b][1]
           /\ Last(Down(a, b)) = queue[a][1]
<1>1. /\ Len(queue) \in Nat /\ a \in Nat /\ b \in Nat /\ 1 <= a /\ a <= b /\ b <= Len(queue)
      /\ b + 1 - a \in Nat
    BY QueueTypes
<1>2. ASSUME NEW i \in 1..(b + 1 - a)
      PROVE  b + 1 - i \in a..b /\ b + 1 - i \in 1..Len(queue) /\ i \in Nat
    BY <1>1
<1>3. \A i \in 1..(b + 1 - a) : queue[b + 1 - i][1] \in Threads
    BY <1>2, QueueTypes
<1>4. Down(a, b) \in [1..(b + 1 - a) -> Threads]
    BY <1>3 DEF Down
<1>5. Down(a, b) \in Seq(Threads) /\ Len(Down(a, b)) = b + 1 - a
    BY <1>1, <1>4
<1>6. \A i \in 1..(b + 1 - a) : Down(a, b)[i] = queue[b + 1 - i][1]
    BY DEF Down
<1>7. ASSUME NEW i \in 1..(b + 1 - a), NEW j \in 1..(b + 1 - a), Down(a, b)[i] = Down(a, b)[j]
      PROVE  i = j
    <2>1. b + 1 - i = b + 1 - j
        BY <1>2, <1>6, <1>7 DEF QueueInv
    <2>2. QED
        BY <1>1, <2>1
<1>8. ASSUME NEW x
      PROVE  x \in Range(Down(a, b)) <=> \E i \in a..b : x = queue[i][1]
    <2>1. DOMAIN Down(a, b) = 1..(b + 1 - a)
        BY DEF Down
    <2>2. \A i \in a..b : b + 1 - i \in 1..(b + 1 - a) /\ b + 1 - (b + 1 - i) = i
        BY <1>1
    <2>3. ASSUME NEW i \in a..b, x = queue[i][1]
          PROVE  x \in Range(Down(a, b))
        <3>1. b + 1 - i \in 1..(b + 1 - a) /\ Down(a, b)[b + 1 - i] = x
            BY <1>6, <2>2, <2>3
        <3>2. QED
            BY <2>1, <3>1 DEF Range
    <2>4. ASSUME x \in Range(Down(a, b))
          PROVE  \E i \in a..b : x = queue[i][1]
        <3>1. PICK i \in 1..(b + 1 - a) : x = Down(a, b)[i]
            BY <2>1, <2>4 DEF Range
        <3>2. QED
            BY <1>2, <1>6, <3>1
    <2>5. QED
        BY <2>3, <2>4
<1>9. Down(a, b)[1] = queue[b][1] /\ Down(a, b)[b + 1 - a] = queue[a][1] /\ Down(a, b) # <<>>
    <2>1. 1 \in 1..(b + 1 - a) /\ b + 1 - a \in 1..(b + 1 - a)
        BY <1>1
    <2>2. b + 1 - 1 = b /\ b + 1 - (b + 1 - a) = a
        BY <1>1
    <2>3. QED
        BY <1>5, <1>6, <2>1, <2>2
<1>10. QED
    BY <1>5, <1>6, <1>7, <1>8, <1>9 DEF Last

LEMMA DownFirst ==
    ASSUME TypeOK, QueueInv, NEW m \in 1..Len(queue)
    PROVE  /\ Down(1, m) \in Seq(Threads) /\ Len(Down(1, m)) = m
           /\ \A i \in 1..m : Down(1, m)[i] = queue[m + 1 - i][1]
           /\ \A i, j \in 1..m : Down(1, m)[i] = Down(1, m)[j] => i = j
           /\ \A x : x \in Range(Down(1, m)) <=> \E i \in 1..m : x = queue[i][1]
<1>1. 1 \in 1..Len(queue) /\ m \in 1..Len(queue) /\ m + 1 - 1 = m
    BY QueueTypes
<1>2. /\ Down(1, m) \in Seq(Threads) /\ Len(Down(1, m)) = m + 1 - 1
      /\ \A i \in 1..(m + 1 - 1) : Down(1, m)[i] = queue[m + 1 - i][1]
    BY <1>1, DownIs
<1>3. PICK s \in Seq(Threads) : s = Down(1, m)
    BY <1>2
<1>4. /\ Len(s) = m /\ m \in Nat /\ Len(queue) \in Nat /\ m <= Len(queue)
      /\ \A i \in 1..m : s[i] = queue[m + 1 - i][1] /\ m + 1 - i \in 1..m
      /\ \A i \in 1..m : m + 1 - (m + 1 - i) = i /\ i \in 1..Len(queue)
    BY <1>1, <1>2, <1>3, QueueTypes
<1>5. ASSUME NEW i \in 1..m, NEW j \in 1..m, s[i] = s[j]
      PROVE  i = j
    <2>1. m + 1 - i \in 1..Len(queue) /\ m + 1 - j \in 1..Len(queue)
        BY <1>4
    <2>2. queue[m + 1 - i][1] = queue[m + 1 - j][1]
        BY <1>4, <1>5
    <2>3. m + 1 - i = m + 1 - j
        BY <2>1, <2>2 DEF QueueInv
    <2>4. QED
        BY <1>4, <2>3
<1>6. \A x : x \in Range(s) <=> \E i \in 1..m : x = s[i]
    <2>1. DOMAIN s = 1..m
        BY <1>4
    <2>2. QED
        BY <2>1, Zenon DEF Range
<1>7. \A x : x \in Range(s) <=> \E i \in 1..m : x = queue[i][1]
    <2>1. ASSUME NEW i \in 1..m PROVE s[m + 1 - i] = queue[i][1]
        <3>1. m + 1 - i \in 1..m /\ m + 1 - (m + 1 - i) = i
            BY <1>4
        <3>2. s[m + 1 - i] = queue[m + 1 - (m + 1 - i)][1]
            BY <1>4, <3>1
        <3>3. QED
            BY <3>1, <3>2
    <2>2. QED
        BY <1>4, <1>6, <2>1
<1>8. QED
    BY <1>3, <1>4, <1>5, <1>7

(* The next pointers along a stretch of the queue. *)
LEMMA ChainDown ==
    ASSUME TypeOK, QueueInv, NEW a \in 1..Len(queue), NEW b \in a..Len(queue),
           \A i \in a..b : next[queue[i][1]] = IF i = a THEN NULL ELSE queue[i - 1][1]
    PROVE  Chain(queue[b][1]) = Down(a, b)
<1>1. PICK q : q = Down(a, b)
    OBVIOUS
<1>2. /\ q \in Seq(Threads) /\ Len(q) = b + 1 - a /\ q # <<>> /\ q[1] = queue[b][1]
      /\ \A i \in 1..(b + 1 - a) : q[i] = queue[b + 1 - i][1]
      /\ \A i, j \in 1..(b + 1 - a) : q[i] = q[j] => i = j
    <2>1. /\ Down(a, b) \in Seq(Threads) /\ Len(Down(a, b)) = b + 1 - a
          /\ \A i \in 1..(b + 1 - a) : Down(a, b)[i] = queue[b + 1 - i][1]
          /\ \A i, j \in 1..(b + 1 - a) : Down(a, b)[i] = Down(a, b)[j] => i = j
          /\ Down(a, b) # <<>> /\ Down(a, b)[1] = queue[b][1]
        BY DownIs
    <2>2. QED
        BY <1>1, <2>1
<1>3. Len(queue) \in Nat /\ a \in Nat /\ b \in Nat /\ 1 <= a /\ a <= b /\ b <= Len(queue)
    BY QueueTypes
<1>4. ASSUME NEW i \in 1..Len(q)
      PROVE  next[q[i]] = IF i = Len(q) THEN NULL ELSE q[i + 1]
    <2>1. b + 1 - i \in a..b /\ i \in 1..(b + 1 - a)
        BY <1>2, <1>3
    <2>2. next[q[i]] = IF b + 1 - i = a THEN NULL ELSE queue[b + 1 - i - 1][1]
        <3>1. PICK m \in a..b : m = b + 1 - i
            BY <2>1
        <3>2. next[queue[m][1]] = IF m = a THEN NULL ELSE queue[m - 1][1]
            OBVIOUS
        <3>3. q[i] = queue[m][1]
            BY <1>2, <2>1, <3>1
        <3>4. QED
            BY <3>1, <3>2, <3>3
    <2>3. b + 1 - i = a <=> i = Len(q)
        BY <1>2, <1>3, <2>1
    <2>4. CASE i = Len(q)
        BY <2>2, <2>3, <2>4
    <2>5. CASE i # Len(q)
        <3>1. i + 1 \in 1..(b + 1 - a) /\ b + 1 - (i + 1) = b + 1 - i - 1
            BY <1>2, <1>3, <2>1, <2>5
        <3>2. q[i + 1] = queue[b + 1 - i - 1][1]
            BY <1>2, <3>1
        <3>3. QED
            BY <2>2, <2>3, <2>5, <3>2
    <2>6. QED
        BY <2>4, <2>5
<1>5. \A i, j \in 1..Len(q) : q[i] = q[j] => i = j
    BY <1>2
<1>6. Chain(queue[b][1]) = q
    BY <1>2, <1>4, <1>5, ChainIs
<1>7. QED
    BY <1>1, <1>6

LEMMA ChainNull == Chain(NULL) = <<>>
<1>1. PICK q : q = <<>>
    OBVIOUS
<1>2. q \in Seq(Threads) /\ Len(q) = 0
    BY <1>1
<1>3. NULL = (IF q = <<>> THEN NULL ELSE q[1])
    BY <1>1
<1>4. /\ \A i \in 1..Len(q) : next[q[i]] = IF i = Len(q) THEN NULL ELSE q[i + 1]
      /\ \A i, j \in 1..Len(q) : q[i] = q[j] => i = j
    BY <1>2
<1>5. QED
    BY <1>1, <1>2, <1>3, <1>4, ChainIs

(* The queue above the cut, and what was cut off. *)
LEMMA QueueChain ==
    ASSUME TypeOK, QueueInv, NEW k \in Nat, CutInv(k), NEW j \in (k + 1)..Len(queue)
    PROVE  Chain(queue[j][1]) = Down(k + 1, j)
<1>1. Len(queue) \in Nat /\ k + 1 \in 1..Len(queue) /\ j \in (k + 1)..Len(queue)
    BY QueueTypes
<1>2. ASSUME NEW i \in (k + 1)..j
      PROVE  next[queue[i][1]] = IF i = k + 1 THEN NULL ELSE queue[i - 1][1]
    <2>1. i \in 1..Len(queue) /\ (i \in {1, k + 1} <=> i = k + 1)
        BY <1>1
    <2>2. QED
        BY <2>1 DEF CutInv
<1>3. QED
    BY <1>1, <1>2, ChainDown

LEMMA CutChain ==
    ASSUME TypeOK, QueueInv, NEW k \in Nat, CutInv(k), k > 0
    PROVE  Chain(queue[k][1]) = Down(1, k)
<1>1. Len(queue) \in Nat /\ 1 \in 1..Len(queue) /\ k \in 1..Len(queue)
    BY QueueTypes DEF CutInv
<1>2. ASSUME NEW i \in 1..k
      PROVE  next[queue[i][1]] = IF i = 1 THEN NULL ELSE queue[i - 1][1]
    <2>1. i \in 1..Len(queue) /\ (i \in {1, k + 1} <=> i = 1)
        BY <1>1
    <2>2. QED
        BY <2>1 DEF CutInv
<1>3. QED
    BY <1>1, <1>2, ChainDown

(* The group a fair unlock finds is the oldest waiter, if that one is to   *)
(* write, or the readers before the first writer.                          *)
LEMMA GroupIs ==
    ASSUME TypeOK, QueueInv, NEW j \in 1..Len(queue)
    PROVE  \E m \in 1..j : Serves(queue, m, j) /\ Group(Down(1, j)) = Down(1, m)
<1>1. PICK c : c = Down(1, j)
    OBVIOUS
<1>2. Len(queue) \in Nat /\ j \in Nat /\ 1 \in 1..Len(queue) /\ j \in 1..Len(queue)
    BY QueueTypes
<1>3. c \in Seq(Threads) /\ Len(c) = j /\ \A i \in 1..j : c[i] = queue[j + 1 - i][1]
    BY <1>1, <1>2, DownFirst
<1>4. ASSUME NEW i \in 1..j
      PROVE  tag[c[i]] = queue[j + 1 - i][2]
    <2>1. j + 1 - i \in 1..Len(queue)
        BY <1>2
    <2>2. QED
        BY <1>3, <2>1 DEF QueueInv
<1> DEFINE Alone(i) == tag[c[i - 1]] # "shared" \/ tag[c[i]] # "shared"
           starts == {1} \cup {i \in 2..Len(c) : Alone(i)}
           start == CHOOSE i \in starts : \A x \in starts : x <= i
<1>5. Group(c) = SubSeq(c, start, Len(c))
    BY DEF Group
<1>6. start \in starts /\ \A x \in starts : x <= start
    <2>1. starts \subseteq 1..j /\ starts # {}
        BY <1>2, <1>3
    <2> HIDE DEF starts
    <2>2. \E i \in starts : \A x \in starts : x <= i
        BY <1>2, <2>1, Greatest
    <2>3. QED
        BY <2>2
<1>7. \A i \in 2..j : Alone(i) => i \in starts
    BY <1>3
<1>8. start \in 1..j /\ (start # 1 => start \in 2..j /\ Alone(start))
    <2>1. start = 1 \/ (start \in 2..j /\ Alone(start))
        <3> HIDE DEF start
        <3>1. QED
            BY <1>3, <1>6
    <2> HIDE DEF start
    <2>2. QED
        BY <1>2, <2>1
<1>9. PICK s : s = start
    OBVIOUS
<1>10. /\ s \in 1..j /\ s \in Nat /\ \A i \in 2..j : Alone(i) => i <= s
       /\ s # 1 => s \in 2..j /\ Alone(s)
    <2> HIDE DEF start, starts, Alone
    <2>1. QED
        BY <1>2, <1>6, <1>7, <1>8, <1>9
<1> HIDE DEF start, starts
<1>11. PICK m \in 1..j : m = j + 1 - s
    BY <1>2, <1>10
<1>12. ASSUME NEW i \in 1..m, i # 1, queue[i][2] # "shared"
       PROVE  FALSE
    <2>1. j + 1 - i \in 1..j /\ j + 1 - (j + 1 - i) = i
        BY <1>2, <1>11
    <2>2. tag[c[j + 1 - i]] # "shared"
        BY <1>4, <1>12, <2>1
    <2>3. j + 1 - i + 1 \in 2..j /\ j + 1 - i + 1 - 1 = j + 1 - i
        BY <1>2, <1>11, <1>12
    <2>4. Alone(j + 1 - i + 1)
        BY <2>2, <2>3
    <2>5. j + 1 - i + 1 <= s
        BY <1>10, <2>3, <2>4
    <2>6. QED
        BY <1>2, <1>10, <1>11, <2>5
<1>13. Serves(queue, m, j)
    <2>1. ASSUME queue[1][2] # "shared"
          PROVE  m = 1
        <3>1. CASE j = 1
            BY <1>10, <1>11, <3>1
        <3>2. CASE j # 1
            <4>1. j \in 2..j /\ j + 1 - j = 1 /\ j \in 1..j
                BY <1>2, <3>2
            <4>2. tag[c[j]] # "shared"
                BY <1>4, <2>1, <4>1
            <4>3. Alone(j)
                BY <4>2
            <4>4. j <= s
                BY <1>10, <4>1, <4>3
            <4>5. QED
                BY <1>2, <1>10, <1>11, <4>4
        <3>3. QED
            BY <3>1, <3>2
    <2>2. ASSUME queue[1][2] = "shared"
          PROVE  /\ \A i \in 1..m : queue[i][2] = "shared"
                 /\ m < j => queue[m + 1][2] # "shared"
        <3>1. \A i \in 1..m : queue[i][2] = "shared"
            BY <1>12, <2>2
        <3>2. ASSUME m < j, queue[m + 1][2] = "shared"
              PROVE  FALSE
            <4>1. s \in 2..j /\ s - 1 \in 1..j /\ j + 1 - (s - 1) = m + 1 /\ j + 1 - s = m
                  /\ m \in 1..m
                BY <1>2, <1>10, <1>11, <3>2
            <4>2. tag[c[s - 1]] = "shared" /\ tag[c[s]] = "shared"
                BY <1>4, <1>10, <3>1, <3>2, <4>1
            <4>3. QED
                BY <1>10, <4>1, <4>2
        <3>3. QED
            BY <3>1, <3>2
    <2>3. QED
        BY <2>1, <2>2 DEF Serves
<1>14. PICK g : g = SubSeq(c, s, j)
    OBVIOUS
<1>15. g \in Seq(Threads) /\ Len(g) = m /\ \A i \in 1..m : g[i] = queue[m + 1 - i][1]
    <2>1. /\ g \in Seq(Threads) /\ Len(g) = j - s + 1
          /\ \A i \in 1..(j - s + 1) : g[i] = c[s + i - 1]
        BY <1>2, <1>3, <1>10, <1>14, SubSeqProperties
    <2>2. j - s + 1 = m
        BY <1>2, <1>10, <1>11
    <2>3. ASSUME NEW i \in 1..m
          PROVE  g[i] = queue[m + 1 - i][1]
        <3>1. s + i - 1 \in 1..j /\ j + 1 - (s + i - 1) = m + 1 - i
            BY <1>2, <1>10, <1>11
        <3>2. QED
            BY <1>3, <2>1, <2>2, <3>1
    <2>4. QED
        BY <2>1, <2>2, <2>3
<1>16. PICK d : d = Down(1, m)
    OBVIOUS
<1>17. d \in Seq(Threads) /\ Len(d) = m /\ \A i \in 1..m : d[i] = queue[m + 1 - i][1]
    <2>1. m \in 1..Len(queue)
        BY <1>2, <1>11
    <2>2. QED
        BY <1>16, <2>1, DownFirst
<1>18. g = d
    BY <1>15, <1>17, SeqEqual
<1>19. Group(Down(1, j)) = Down(1, m)
    BY <1>1, <1>3, <1>5, <1>9, <1>14, <1>16, <1>18
<1>20. QED
    BY <1>13, <1>19

-------------------------------------------------------------------------------
(* The word. *)

LEMMA ModIs ==
    ASSUME NEW a \in Nat, a < ReaderMod
    PROVE  a % ReaderMod = a /\ (a + ReaderMod) % ReaderMod = a
BY ParametersAssumption

LEMMA Few ==
    ASSUME NEW S, S \subseteq Threads
    PROVE  /\ IsFiniteSet(S) /\ Cardinality(S) \in Nat /\ Cardinality(S) < ReaderMod
           /\ Cardinality(S) = 0 <=> S = {}
<1>1. IsFiniteSet(S) /\ Cardinality(S) \in Nat /\ Cardinality(S) <= Cardinality(Threads)
    BY ParametersAssumption, FS_Subset, FS_CardinalityType
<1>2. Cardinality(S) = 0 <=> S = {}
    BY <1>1, FS_EmptySet
<1>3. Cardinality(Threads) \in Nat
    BY ParametersAssumption, FS_CardinalityType
<1>4. QED
    BY <1>1, <1>2, <1>3, ParametersAssumption

LEMMA OneMore ==
    ASSUME NEW S, S \subseteq Threads, NEW t \in Threads, t \notin S
    PROVE  Cardinality(S \cup {t}) = Cardinality(S) + 1
BY Few, FS_AddElement

LEMMA OneLess ==
    ASSUME NEW S, S \subseteq Threads, NEW t \in S
    PROVE  Cardinality(S \ {t}) = Cardinality(S) - 1
BY Few, FS_RemoveElement

LEMMA OnlyOne ==
    ASSUME NEW S, S \subseteq Threads, NEW t \in S
    PROVE  Cardinality(S) = 1 <=> \A u \in S : u = t
<1>1. Cardinality(S \ {t}) = Cardinality(S) - 1 /\ S \ {t} \subseteq Threads
    BY OneLess
<1>2. Cardinality(S) \in Nat /\ (Cardinality(S \ {t}) = 0 <=> S \ {t} = {})
    BY <1>1, Few
<1>3. S \ {t} = {} <=> \A u \in S : u = t
    OBVIOUS
<1>4. QED
    BY <1>1, <1>2, <1>3

(* What is known of the word and of who has the lock. *)
LEMMA HeldWord ==
    ASSUME TypeOK, HoldInv
    PROVE  /\ val.readers \in Nat /\ val.readers < ReaderMod /\ ReaderMod \in Nat
           /\ val.wlocked \in BOOLEAN /\ val.waitq \in Ids /\ val.unfair = FALSE
           /\ val.readers = 0 <=> \A t \in Threads : mode[t] # "rd"
           /\ val.wlocked <=> \E t \in Threads : mode[t] = "wr"
           /\ val.wlocked => val.readers = 0
           /\ Locked(val) <=> \E t \in Threads : mode[t] # "none"
           /\ \A t \in Threads : mode[t] = "rd" => (val.readers = 1 <=> Sole(t))
           /\ \A t \in Threads : mode[t] = "wr" => Sole(t)
<1>1. Holders("rd") \subseteq Threads /\ Holders("wr") \subseteq Threads
    BY DEF Holders
<1>2. val.readers \in Nat /\ val.readers < ReaderMod /\ (val.readers = 0 <=> Holders("rd") = {})
    BY <1>1, Few DEF HoldInv
<1>3. /\ val.wlocked \in BOOLEAN /\ val.waitq \in Ids /\ val.unfair = FALSE
      /\ ReaderMod \in Nat
    BY ParametersAssumption DEF TypeOK, Word
<1>4. val.readers = 0 <=> \A t \in Threads : mode[t] # "rd"
    BY <1>2 DEF Holders
<1>5. val.wlocked <=> \E t \in Threads : mode[t] = "wr"
    BY DEF HoldInv, Holders
<1>6. \A t \in Threads : mode[t] = "wr" => Sole(t)
    BY DEF HoldInv, Holders
<1>7. val.wlocked => val.readers = 0
    BY <1>4, <1>5, <1>6 DEF Sole
<1>8. Locked(val) <=> \E t \in Threads : mode[t] # "none"
    BY <1>4, <1>5 DEF Locked, TypeOK
<1>9. ASSUME NEW t \in Threads, mode[t] = "rd"
      PROVE  val.readers = 1 <=> Sole(t)
    <2>1. t \in Holders("rd")
        BY <1>9 DEF Holders
    <2>2. val.readers = 1 <=> \A u \in Holders("rd") : u = t
        BY <1>1, <2>1, OnlyOne DEF HoldInv
    <2>3. \A u \in Threads : mode[u] # "none" => mode[u] = "rd"
        BY <1>6, <1>9 DEF TypeOK, Sole
    <2>4. QED
        BY <2>2, <2>3 DEF Sole, Holders
<1>10. QED
    BY <1>2, <1>3, <1>4, <1>5, <1>6, <1>7, <1>8, <1>9

(* The lock is taken, ... *)
LEMMA HoldAcquire ==
    ASSUME TypeOK, HoldInv, NEW t \in Threads, mode[t] = "none", NEW m \in {"rd", "wr"},
           mode' = [mode EXCEPT ![t] = m],
           m = "rd" => ~val.wlocked /\ ~val'.wlocked /\ val'.readers = val.readers + 1,
           m = "wr" => ~Locked(val) /\ val'.wlocked /\ val'.readers = 0
    PROVE  HoldInv'
<1>1. \A u \in Threads : mode'[u] = IF u = t THEN m ELSE mode[u]
    BY DEF TypeOK
<1>2. CASE m = "rd"
    <2>1. Holders("rd")' = Holders("rd") \cup {t} /\ t \notin Holders("rd")
          /\ Holders("rd") \subseteq Threads
        BY <1>1, <1>2 DEF Holders
    <2>2. val'.readers = Cardinality(Holders("rd")')
        BY <1>2, <2>1, OneMore DEF HoldInv
    <2>3. Holders("wr")' = {} /\ ~val'.wlocked
        BY <1>1, <1>2 DEF HoldInv, Holders
    <2>4. QED
        BY <2>2, <2>3 DEF HoldInv
<1>3. CASE m = "wr"
    <2>1. \A u \in Threads : mode[u] = "none"
        BY <1>3, HeldWord
    <2>2. Holders("rd")' = {} /\ Holders("wr")' = {t}
        BY <1>1, <1>3, <2>1 DEF Holders
    <2>3. Cardinality(Holders("rd")') = 0
        BY <2>2, FS_EmptySet
    <2>4. Sole(t)'
        BY <1>1, <2>1 DEF Sole
    <2>5. QED
        BY <1>3, <2>2, <2>3, <2>4 DEF HoldInv
<1>4. QED
    BY <1>2, <1>3

(* ... given up ... *)
LEMMA HoldRelease ==
    ASSUME TypeOK, HoldInv, NEW t \in Threads, mode[t] # "none",
           mode' = [mode EXCEPT ![t] = "none"],
           mode[t] = "rd" => ~val'.wlocked /\ val'.readers = val.readers - 1,
           mode[t] = "wr" => ~val'.wlocked /\ val'.readers = 0
    PROVE  HoldInv'
<1>1. \A u \in Threads : mode'[u] = IF u = t THEN "none" ELSE mode[u]
    BY DEF TypeOK
<1>2. mode[t] \in {"rd", "wr"}
    BY DEF TypeOK
<1>3. Holders("wr")' = {}
    <2>1. \A u \in Threads : mode[u] = "wr" => u = t
        BY HeldWord DEF Sole
    <2>2. QED
        BY <1>1, <2>1 DEF Holders
<1>4. CASE mode[t] = "rd"
    <2>1. Holders("rd")' = Holders("rd") \ {t} /\ t \in Holders("rd")
          /\ Holders("rd") \subseteq Threads
        BY <1>1, <1>4 DEF Holders
    <2>2. val'.readers = Cardinality(Holders("rd")')
        BY <1>4, <2>1, OneLess DEF HoldInv
    <2>3. QED
        BY <1>3, <1>4, <2>2 DEF HoldInv
<1>5. CASE mode[t] = "wr"
    <2>1. Holders("rd")' = {}
        BY <1>1, <1>5, HeldWord DEF Sole, Holders
    <2>2. Cardinality(Holders("rd")') = 0
        BY <2>1, FS_EmptySet
    <2>3. QED
        BY <1>3, <1>5, <2>2 DEF HoldInv
<1>6. QED
    BY <1>2, <1>4, <1>5

(* ... or passed from t, who has it alone, to W. *)
LEMMA HoldPass ==
    ASSUME TypeOK, HoldInv, NEW t \in Threads, Sole(t), NEW W, W \subseteq Threads, W # {},
           NEW m \in {"rd", "wr"},
           \A u \in Threads : mode'[u] = IF u \in W THEN m ELSE "none",
           m = "rd" => ~val'.wlocked /\ val'.readers = Cardinality(W),
           m = "wr" => val'.wlocked /\ val'.readers = 0 /\ \A u, v \in W : u = v
    PROVE  HoldInv'
<1>1. CASE m = "rd"
    <2>1. Holders("rd")' = W /\ Holders("wr")' = {}
        BY <1>1 DEF Holders
    <2>2. QED
        BY <1>1, <2>1 DEF HoldInv
<1>2. CASE m = "wr"
    <2>1. Holders("rd")' = {} /\ Holders("wr")' = W
        BY <1>2 DEF Holders
    <2>2. Cardinality(Holders("rd")') = 0
        BY <2>1, FS_EmptySet
    <2>3. \A u \in W : Sole(u)'
        BY <1>2 DEF Sole
    <2>4. QED
        BY <1>2, <2>1, <2>2, <2>3 DEF HoldInv
<1>3. QED
    BY <1>1, <1>2

-------------------------------------------------------------------------------
(* What the steps have in common. *)

(* Only thread t moves. *)
Frame(t) ==
    /\ UNCHANGED client
    /\ \A u \in Threads : u # t =>
          /\ pc'[u] = pc[u] /\ back'[u] = back[u] /\ old'[u] = old[u]
          /\ want'[u] = want[u] /\ excl'[u] = excl[u] /\ cur'[u] = cur[u]
          /\ wait_list'[u] = wait_list[u] /\ tag'[u] = tag[u]

LEMMA OthersStay ==
    ASSUME NEW t \in Threads, Frame(t), NEW u \in Threads, u # t, mode'[u] = mode[u]
    PROVE  /\ LocalOK(u) => LocalOK(u)'
           /\ InQueue(u)' <=> InQueue(u)
           /\ Given(u)' <=> Given(u)
<1>1. /\ pc'[u] = pc[u] /\ back'[u] = back[u]
      /\ want'[u] = want[u] /\ excl'[u] = excl[u] /\ cur'[u] = cur[u]
      /\ wait_list'[u] = wait_list[u] /\ tag'[u] = tag[u]
    BY DEF Frame
<1>2. (InQueue(u)' <=> InQueue(u)) /\ (Given(u)' <=> Given(u))
    BY <1>1 DEF InQueue, Given, Waits
<1>3. LocalOK(u) => LocalOK(u)'
    BY <1>1, <1>2 DEF LocalOK
<1>4. QED
    BY <1>2, <1>3

(* Nobody is given the lock, signalled or told of it. *)
LEMMA WakeKept ==
    ASSUME TypeOK, NEW L \in Lists, WakeInv(L), NEW t \in Threads, Frame(t),
           pc[t] \notin {"wake", "wake_all"}, pc'[t] \notin {"wake", "wake_all"},
           signal_pending' = signal_pending,
           \A w \in Threads : Given(w)' <=> Given(w),
           \A w \in Threads : Given(w) => next'[w] = next[w] /\ tag'[w] = tag[w],
           \A w \in Threads : ~InQueue(w)' /\ pc'[w] # "contention" =>
              next'[w] = NULL \/ (next'[w] = next[w] /\ ~InQueue(w) /\ pc[w] # "contention")
    PROVE  WakeInv(L)'
<1>1. \A u \in Threads : /\ L[u] \in Seq(Threads)
                         /\ \A i \in 1..Len(L[u]) : L[u][i] \in Threads
    BY DEF Lists
<1>2. L[t] = <<>>
    BY DEF WakeInv
<1>3. \A u \in Threads : u # t => pc'[u] = pc[u] /\ cur'[u] = cur[u]
    BY DEF Frame
<1>4. \A u \in Threads : L[u] # <<>> => pc'[u] \in {"wake", "wake_all"}
    BY <1>2, <1>3 DEF WakeInv
<1>5. \A u \in Threads : pc'[u] \in {"wake", "wake_all"} =>
         cur'[u] = IF L[u] = <<>> THEN NULL ELSE L[u][1]
    BY <1>3 DEF WakeInv
<1>6. \A u \in Threads : pc'[u] = "wake" => Len(L[u]) = 1
    BY <1>3 DEF WakeInv
<1>7. ASSUME NEW u \in Threads, NEW i \in 1..Len(L[u])
      PROVE  /\ Given(L[u][i])' /\ ~signal_pending'[L[u][i]]
             /\ pc'[u] = "wake_all" => tag'[L[u][i]] = "shared"
             /\ next'[L[u][i]] = IF i = Len(L[u]) THEN NULL ELSE L[u][i + 1]
    <2>1. u # t
        BY <1>2
    <2>2. PICK w \in Threads : w = L[u][i]
        BY <1>1
    <2>3. /\ Given(w) /\ ~signal_pending[w] /\ (pc[u] = "wake_all" => tag[w] = "shared")
          /\ next[w] = IF i = Len(L[u]) THEN NULL ELSE L[u][i + 1]
        BY <2>2 DEF WakeInv
    <2>4. Given(w)' /\ next'[w] = next[w] /\ tag'[w] = tag[w] /\ pc'[u] = pc[u]
        BY <1>3, <2>1, <2>3
    <2>5. QED
        BY <2>2, <2>3, <2>4
<1>8. \A w \in Threads : Given(w)' => signal_pending'[w] \/ On(L, w)
    BY DEF WakeInv
<1>9. \A w \in Threads : signal_pending'[w] => Given(w)'
    BY DEF WakeInv
<1>10. \A w \in Threads :
          ~On(L, w) /\ ~InQueue(w)' /\ pc'[w] # "contention" => next'[w] = NULL
    BY DEF WakeInv
<1>11. \A v, u \in Threads : \A i \in 1..Len(L[v]), j \in 1..Len(L[u]) :
          L[v][i] = L[u][j] => v = u /\ i = j
    BY DEF WakeInv
<1>12. QED
    BY <1>4, <1>5, <1>6, <1>7, <1>8, <1>9, <1>10, <1>11 DEF WakeInv

(* What a thread has seen of the queue is still there. *)
LEMMA SnapKept ==
    ASSUME NEW t \in Threads, Frame(t), NEW u \in Threads, u # t, mode'[u] = mode[u],
           NEW k \in Nat, NEW m \in Nat, SnapOK(u, k), Len(queue) \in Nat, LocalOK(u),
           Sole(u) /\ mode[u] # "none" /\ queue # <<>> => Sole(u)',
           \A j \in (k + 1)..Len(queue) :
              \E i \in (m + 1)..Len(queue') : queue'[i][1] = queue[j][1],
           \A j \in 1..Len(queue) :
              /\ \E i \in 1..Len(queue') : queue'[i][1] = queue[j][1]
              /\ tag'[queue[j][1]] = tag[queue[j][1]],
           queue # <<>> => queue' # <<>>,
           mode[u] = "wr" /\ queue # <<>> /\ queue[1][1] = u => queue'[1][1] = u
    PROVE  SnapOK(u, m)'
<1>1. pc'[u] = pc[u] /\ old'[u] = old[u] /\ cur'[u] = cur[u] /\ back'[u] = back[u]
    BY DEF Frame
<1>2. /\ pc'[u] \in {"unlock", "fair", "downgrade"} =>
            IF mode'[u] = "wr" THEN old'[u].wlocked /\ old'[u].readers = 0
                               ELSE ~old'[u].wlocked /\ old'[u].readers # 0
      /\ pc'[u] = "fair" =>
            old'[u].waitq # NULL /\ (mode'[u] = "rd" => old'[u].readers = 1)
    BY <1>1 DEF SnapOK
<1>3. ASSUME pc'[u] \in {"unlock", "fair", "downgrade"}, old'[u].waitq # NULL,
             mode'[u] = "rd" => old'[u].readers = 1
      PROVE  Sole(u)' /\ \E j \in (m + 1)..Len(queue') : queue'[j][1] = old'[u].waitq
    <2>1. Sole(u) /\ \E j \in (k + 1)..Len(queue) : queue[j][1] = old[u].waitq
        BY <1>1, <1>3 DEF SnapOK
    <2>2. queue # <<>>
        BY <2>1
    <2>3. mode[u] # "none"
        BY <1>1, <1>3 DEF LocalOK
    <2>4. QED
        BY <1>1, <2>1, <2>2, <2>3
<1>4. ASSUME pc'[u] \in {"insert_walk", "insert_swap"}
      PROVE  /\ \E j \in 1..Len(queue') : queue'[j][1] = cur'[u]
             /\ pc'[u] = "insert_swap" => tag'[cur'[u]] # "upgrade"
    <2>1. PICK j \in 1..Len(queue) : queue[j][1] = cur[u]
        BY <1>1, <1>4 DEF SnapOK
    <2>2. QED
        BY <1>1, <2>1 DEF SnapOK
<1>5. /\ pc'[u] \in {"insert", "insert_walk", "insert_swap"} => queue' # <<>>
      /\ pc'[u] = "upgrade" /\ old'[u].waitq # NULL => queue' # <<>>
    BY <1>1 DEF SnapOK
<1>6. pc'[u] = "down_unlock" \/ (pc'[u] \in {"unlock", "fair"} /\ back'[u] = "down_wait")
         => queue' # <<>> /\ queue'[1][1] = u
    BY <1>1 DEF SnapOK, LocalOK
<1>7. QED
    BY <1>2, <1>3, <1>4, <1>5, <1>6 DEF SnapOK

(* Who is in the queue, told by its positions. *)
LEMMA Queued ==
    ASSUME TypeOK, QueueInv, NEW i \in 1..Len(queue)
    PROVE  queue[i][1] \in Threads /\ InQueue(queue[i][1]) /\ ~Given(queue[i][1])
<1>1. queue[i][1] \in Threads /\ InQueue(queue[i][1])
    BY QueueTypes DEF QueueInv
<1>2. QED
    BY <1>1 DEF InQueue, Given, Waits

(* A step of t that leaves the queue as it is, and what it says of it. *)
LEMMA CalmStep ==
    ASSUME Inv, NEW k \in Nat, NEW L \in Lists, ListsOK(k, L), NEW t \in Threads, Frame(t),
           pc[t] \notin {"wake", "wake_all"}, pc'[t] \notin {"wake", "wake_all"},
           signal_pending' = signal_pending, wait_list' = wait_list, queue' = queue,
           val'.waitq = val.waitq, TypeOK', HoldInv', LocalOK(t)', SnapOK(t, k)',
           \A u \in Threads : u # t => mode'[u] = mode[u] /\ next'[u] = next[u],
           InQueue(t)' <=> InQueue(t), Given(t)' <=> Given(t),
           InQueue(t) \/ Given(t) => next'[t] = next[t] /\ tag'[t] = tag[t],
           ~InQueue(t) /\ pc'[t] # "contention" =>
              next'[t] = NULL \/ (next'[t] = next[t] /\ pc[t] # "contention"),
           queue # <<>> => /\ val'.wlocked = val.wlocked /\ Locked(val')
                           /\ mode'[t] # "none" => mode[t] # "none"
    PROVE  IInv'
<1>1. TypeOK /\ (\A u \in Threads : LocalOK(u)) /\ QueueInv
    BY DEF Inv
<1>2. CutInv(k) /\ (\A u \in Threads : SnapOK(u, k)) /\ WakeInv(L)
    BY DEF ListsOK
<1>3. \A u \in Threads : /\ LocalOK(u)'
                         /\ InQueue(u)' <=> InQueue(u)
                         /\ Given(u)' <=> Given(u)
    BY <1>1, OthersStay
<1>4. \A u \in Threads : InQueue(u) \/ Given(u) => next'[u] = next[u] /\ tag'[u] = tag[u]
    BY DEF Frame
<1>5. \A i \in 1..Len(queue) : /\ queue[i][1] \in Threads
                               /\ next'[queue[i][1]] = next[queue[i][1]]
                               /\ tag'[queue[i][1]] = tag[queue[i][1]]
    BY <1>1, <1>4, Queued
<1>6. queue # <<>> => \A u \in Threads : mode'[u] # "none" => mode[u] # "none"
    OBVIOUS
<1>7. Len(queue) \in Nat
    BY <1>1, QueueTypes
<1>8. QueueInv'
    <2>1. \A i \in 1..Len(queue) : queue # <<>>
        BY <1>7
    <2>2. \A i \in 1..Len(queue) : queue[i][2] = tag'[queue[i][1]]
        BY <1>1, <1>5 DEF QueueInv
    <2>3. \A i \in 1..Len(queue) : queue[i][2] = "upgrade" => i = 1 /\ ~val'.wlocked
        BY <1>1, <2>1 DEF QueueInv
    <2>4. queue # <<>> /\ queue[1][2] = "shared" => val'.wlocked
        BY <1>1 DEF QueueInv
    <2>5. \A u \in Threads : InQueue(u)' <=> \E i \in 1..Len(queue) : queue[i][1] = u
        BY <1>1, <1>3 DEF QueueInv
    <2>6. /\ \A i, j \in 1..Len(queue) : queue[i][1] = queue[j][1] => i = j
          /\ val'.waitq = IF queue = <<>> THEN NULL ELSE queue[Len(queue)][1]
        BY <1>1 DEF QueueInv
    <2>7. QED
        BY <2>2, <2>3, <2>4, <2>5, <2>6 DEF QueueInv
<1>9. CutInv(k)'
    BY <1>2, <1>5 DEF CutInv
<1>10. ASSUME NEW u \in Threads PROVE SnapOK(u, k)'
    <2>1. CASE u = t
        BY <2>1
    <2>2. CASE u # t
        <3>1. Sole(u) /\ mode[u] # "none" /\ queue # <<>> => Sole(u)'
            BY <1>6 DEF Sole
        <3>2. QED
            BY <1>1, <1>2, <1>5, <1>7, <2>2, <3>1, SnapKept
    <2>3. QED
        BY <2>1, <2>2
<1>11. WakeInv(L)'
    <2>1. \A w \in Threads : ~InQueue(w)' /\ pc'[w] # "contention" =>
             next'[w] = NULL \/ (next'[w] = next[w] /\ ~InQueue(w) /\ pc[w] # "contention")
        BY <1>3 DEF Frame
    <2>2. QED
        BY <1>1, <1>2, <1>3, <1>4, <2>1, WakeKept
<1>12. ListsOK(k, L)'
    BY <1>9, <1>10, <1>11 DEF ListsOK
<1>13. Inv'
    BY <1>3, <1>8 DEF Inv
<1>14. QED
    BY <1>12, <1>13 DEF IInv

(* The lock is held by t alone: what the others have seen does not matter. *)
LEMMA SnapSole ==
    ASSUME TypeOK, NEW t \in Threads, Frame(t), Sole(t), NEW u \in Threads, u # t,
           LocalOK(u), NEW m \in Nat
    PROVE  SnapOK(u, m)'
<1>1. pc'[u] = pc[u] /\ back'[u] = back[u]
    BY DEF Frame
<1>2. mode[u] = "none"
    BY DEF Sole
<1>3. pc[u] \notin {"unlock", "fair", "downgrade", "insert_walk", "insert_swap", "insert",
                    "down_unlock", "upgrade"}
    BY <1>2 DEF LocalOK
<1>4. QED
    BY <1>1, <1>3 DEF SnapOK

(* Thread t queues behind the others, and holds the lock no more. *)
LEMMA AppendStep ==
    ASSUME Inv, NEW k \in Nat, NEW L \in Lists, ListsOK(k, L), NEW t \in Threads, Frame(t),
           NEW kind \in Kinds,
           pc[t] \in {"contention", "upgrade"}, pc'[t] \in {"wait", "up_wait"},
           signal_pending' = signal_pending, wait_list' = wait_list,
           queue' = Append(queue, <<t, kind>>), val'.waitq = t, tag'[t] = kind,
           mode' = [mode EXCEPT ![t] = "none"], next' = [next EXCEPT ![t] = val.waitq],
           TypeOK', HoldInv', LocalOK(t)', val'.wlocked = val.wlocked, Locked(val'),
           kind = "shared" /\ queue = <<>> => val.wlocked,
           kind = "upgrade" => queue = <<>> /\ ~val.wlocked
    PROVE  IInv'
<1>1. TypeOK /\ (\A u \in Threads : LocalOK(u)) /\ QueueInv
    BY DEF Inv
<1>2. CutInv(k) /\ (\A u \in Threads : SnapOK(u, k)) /\ WakeInv(L)
    BY DEF ListsOK
<1>3. /\ \A u \in Threads : u # t => mode'[u] = mode[u] /\ next'[u] = next[u]
      /\ mode'[t] = "none" /\ next'[t] = val.waitq
    BY <1>1 DEF TypeOK
<1>4. \A u \in Threads : u # t => /\ LocalOK(u)'
                                  /\ InQueue(u)' <=> InQueue(u)
                                  /\ Given(u)' <=> Given(u)
    BY <1>1, <1>3, OthersStay
<1>5. ~InQueue(t) /\ ~Given(t) /\ InQueue(t)' /\ ~Given(t)'
    BY <1>3 DEF InQueue, Given, Waits
<1>6. Len(queue) \in Nat /\ Len(queue') = Len(queue) + 1
    BY <1>1, QueueTypes DEF TypeOK
<1>7. /\ \A i \in 1..Len(queue) : queue'[i] = queue[i]
      /\ queue'[Len(queue) + 1] = <<t, kind>>
    BY <1>1, <1>6 DEF TypeOK
<1>8. \A i \in 1..Len(queue) : /\ queue[i][1] \in Threads /\ queue[i][1] # t
                               /\ next'[queue[i][1]] = next[queue[i][1]]
                               /\ tag'[queue[i][1]] = tag[queue[i][1]]
    BY <1>1, <1>3, <1>5, Queued DEF Frame
<1>9. \A i \in 1..Len(queue') : i \in 1..Len(queue) \/ i = Len(queue) + 1
    BY <1>6
<1>10. queue' # <<>> /\ (\A i \in 1..Len(queue) : queue # <<>>)
    BY <1>6
<1>11. QueueInv'
    <2>1. \A i, j \in 1..Len(queue') : queue'[i][1] = queue'[j][1] => i = j
        <3>1. \A i, j \in 1..Len(queue) : queue[i][1] = queue[j][1] => i = j
            BY <1>1 DEF QueueInv
        <3>2. QED
            BY <1>7, <1>8, <1>9, <3>1
    <2>2. \A u \in Threads : InQueue(u)' <=> \E i \in 1..Len(queue') : queue'[i][1] = u
        <3>1. \A u \in Threads : u # t =>
                 (InQueue(u)' <=> \E i \in 1..Len(queue) : queue[i][1] = u)
            BY <1>1, <1>4 DEF QueueInv
        <3>2. \A u \in Threads : u # t =>
                 ((\E i \in 1..Len(queue) : queue[i][1] = u) <=>
                  (\E i \in 1..Len(queue') : queue'[i][1] = u))
            BY <1>6, <1>7, <1>9
        <3>3. Len(queue) + 1 \in 1..Len(queue') /\ queue'[Len(queue) + 1][1] = t
            BY <1>6, <1>7
        <3>4. QED
            BY <1>5, <3>1, <3>2, <3>3
    <2>3. \A i \in 1..Len(queue') : queue'[i][2] = tag'[queue'[i][1]]
        <3>1. \A i \in 1..Len(queue) : queue[i][2] = tag[queue[i][1]]
            BY <1>1 DEF QueueInv
        <3>2. QED
            BY <1>7, <1>8, <1>9, <3>1
    <2>4. \A i \in 1..Len(queue') : queue'[i][2] = "upgrade" => i = 1 /\ ~val'.wlocked
        <3>1. \A i \in 1..Len(queue) : queue[i][2] = "upgrade" => i = 1 /\ ~val.wlocked
            BY <1>1 DEF QueueInv
        <3>2. queue = <<>> => Len(queue) + 1 = 1
            BY <1>1 DEF TypeOK
        <3>3. QED
            BY <1>7, <1>9, <3>1, <3>2
    <2>5. queue' # <<>> /\ queue'[1][2] = "shared" => val'.wlocked
        <3>1. CASE queue = <<>>
            BY <1>6, <1>7, <3>1
        <3>2. CASE queue # <<>>
            <4>1. 1 \in 1..Len(queue)
                BY <1>1, <1>6, <3>2 DEF TypeOK
            <4>2. QED
                BY <1>1, <1>7, <3>2, <4>1 DEF QueueInv
        <3>3. QED
            BY <3>1, <3>2
    <2>6. val'.waitq = IF queue' = <<>> THEN NULL ELSE queue'[Len(queue')][1]
        BY <1>6, <1>7, <1>10
    <2>7. QED
        BY <2>1, <2>2, <2>3, <2>4, <2>5, <2>6 DEF QueueInv
<1>12. CutInv(k)'
    <2>1. k > 0 => k < Len(queue) /\ Serves(queue, k, Len(queue))
        BY <1>2 DEF CutInv
    <2>2. k > 0 => k < Len(queue') /\ Serves(queue', k, Len(queue'))
        <3>1. SUFFICES ASSUME k > 0 PROVE k < Len(queue') /\ Serves(queue', k, Len(queue'))
            OBVIOUS
        <3>2. /\ k \in 1..Len(queue) /\ 1 \in 1..Len(queue) /\ k + 1 \in 1..Len(queue)
              /\ \A i \in 1..k : i \in 1..Len(queue)
              /\ k \in 1..Len(queue') /\ k < Len(queue')
            BY <1>6, <2>1, <3>1
        <3>3. k < Len(queue) /\ Serves(queue, k, Len(queue))
            BY <2>1, <3>1
        <3>4. QED
            BY <1>7, <3>2, <3>3 DEF Serves
    <2>3. /\ k > 0 => \E u \in Threads : wait_list'[u] # NULL
          /\ \A u \in Threads : wait_list'[u] # NULL => k > 0 /\ wait_list'[u] = queue'[k][1]
        <3>1. k > 0 => k \in 1..Len(queue)
            BY <1>6, <2>1
        <3>2. QED
            BY <1>2, <1>7, <3>1 DEF CutInv
    <2>4. ASSUME NEW i \in 1..Len(queue')
          PROVE  next'[queue'[i][1]] = IF i \in {1, k + 1} THEN NULL ELSE queue'[i - 1][1]
        <3>1. CASE i \in 1..Len(queue)
            <4>1. next[queue[i][1]] = IF i \in {1, k + 1} THEN NULL ELSE queue[i - 1][1]
                BY <1>2, <3>1 DEF CutInv
            <4>2. i # 1 => i - 1 \in 1..Len(queue)
                BY <1>6, <3>1
            <4>3. QED
                BY <1>7, <1>8, <3>1, <4>1, <4>2
        <3>2. CASE i = Len(queue) + 1
            <4>1. next'[queue'[i][1]] = val.waitq
                BY <1>3, <1>7, <3>2
            <4>2. CASE queue = <<>>
                <5>1. i = 1 /\ val.waitq = NULL
                    BY <1>1, <3>2, <4>2 DEF QueueInv
                <5>2. QED
                    BY <4>1, <5>1
            <4>3. CASE queue # <<>>
                <5>1. Len(queue) # 0
                    BY <1>1, <4>3 DEF TypeOK
                <5>2. i # 1 /\ i # k + 1 /\ i - 1 = Len(queue) /\ Len(queue) \in 1..Len(queue)
                    BY <1>6, <2>1, <3>2, <5>1
                <5>3. val.waitq = queue[Len(queue)][1]
                    BY <1>1, <4>3 DEF QueueInv
                <5>4. QED
                    BY <1>7, <4>1, <5>2, <5>3
            <4>4. QED
                BY <4>2, <4>3
        <3>3. QED
            BY <1>9, <3>1, <3>2
    <2>5. QED
        BY <2>2, <2>3, <2>4 DEF CutInv
<1>13. ASSUME NEW u \in Threads PROVE SnapOK(u, k)'
    <2>1. CASE u = t
        BY <2>1 DEF SnapOK
    <2>2. CASE u # t
        <3>1. Sole(u) /\ mode[u] # "none" /\ queue # <<>> => Sole(u)'
            BY <1>3 DEF Sole
        <3>2. /\ \A j \in (k + 1)..Len(queue) :
                    j \in (k + 1)..Len(queue') /\ queue'[j][1] = queue[j][1]
              /\ \A j \in 1..Len(queue) :
                    j \in 1..Len(queue') /\ queue'[j][1] = queue[j][1]
            BY <1>6, <1>7
        <3>3. queue # <<>> => queue'[1] = queue[1]
            <4>1. queue # <<>> => 1 \in 1..Len(queue)
                BY <1>1, <1>6 DEF TypeOK
            <4>2. QED
                BY <1>7, <4>1
        <3>4. mode'[u] = mode[u]
            BY <1>3, <2>2
        <3>5. /\ \A j \in (k + 1)..Len(queue) :
                    \E i \in (k + 1)..Len(queue') : queue'[i][1] = queue[j][1]
              /\ \A j \in 1..Len(queue) :
                    \E i \in 1..Len(queue') : queue'[i][1] = queue[j][1]
            BY <3>2
        <3>6. QED
            BY <1>1, <1>2, <1>6, <1>8, <1>10, <2>2, <3>1, <3>3, <3>4, <3>5, SnapKept
    <2>3. QED
        BY <2>1, <2>2
<1>14. WakeInv(L)'
    <2>1. \A w \in Threads : Given(w)' <=> Given(w)
        BY <1>4, <1>5
    <2>2. \A w \in Threads : Given(w) => next'[w] = next[w] /\ tag'[w] = tag[w]
        BY <1>3, <1>5 DEF Frame
    <2>3. \A w \in Threads : ~InQueue(w)' /\ pc'[w] # "contention" =>
             next'[w] = NULL \/ (next'[w] = next[w] /\ ~InQueue(w) /\ pc[w] # "contention")
        BY <1>3, <1>4, <1>5 DEF Frame
    <2>4. QED
        BY <1>1, <1>2, <2>1, <2>2, <2>3, WakeKept
<1>15. ListsOK(k, L)'
    BY <1>12, <1>13, <1>14 DEF ListsOK
<1>16. QueueInv' /\ \A u \in Threads : LocalOK(u)'
    BY <1>4, <1>11
<1>17. Inv'
    BY <1>16 DEF Inv
<1>18. QED
    BY <1>15, <1>17 DEF IInv

(* While a group is cut off, who cut it off holds the lock alone. *)
LEMMA CutSole ==
    ASSUME Inv, NEW k \in Nat, NEW L \in Lists, ListsOK(k, L), NEW t \in Threads,
           mode[t] # "none", k > 0
    PROVE  wait_list[t] # NULL /\ pc[t] = "fair"
<1>1. PICK u \in Threads : wait_list[u] # NULL
    BY DEF ListsOK, CutInv
<1>2. pc[u] = "fair"
    BY <1>1 DEF Inv, LocalOK
<1>3. Sole(u)
    BY <1>2 DEF ListsOK, SnapOK
<1>4. QED
    BY <1>1, <1>2, <1>3 DEF Sole

(* A holder t goes to the front of the queue, to change its mode. *)
LEMMA PrependStep ==
    ASSUME Inv, NEW k \in Nat, NEW L \in Lists, ListsOK(k, L), NEW t \in Threads, Frame(t),
           NEW kind \in {"shared", "upgrade"}, queue # <<>>,
           pc[t] \in {"downgrade", "insert_swap"}, pc'[t] \in {"down_unlock", "up_unlock"},
           signal_pending' = signal_pending, wait_list' = wait_list, val' = val,
           queue' = <<<<t, kind>>>> \o queue, tag'[t] = kind, mode' = mode,
           next' = [next EXCEPT ![queue[1][1]] = t], TypeOK', LocalOK(t)',
           kind = "shared" => val.wlocked,
           kind = "upgrade" => queue[1][2] # "upgrade" /\ ~val.wlocked
    PROVE  IInv'
<1>1. TypeOK /\ (\A u \in Threads : LocalOK(u)) /\ QueueInv
    BY DEF Inv
<1>2. CutInv(k) /\ (\A u \in Threads : SnapOK(u, k)) /\ WakeInv(L)
    BY DEF ListsOK
<1>3. mode[t] # "none"
    BY <1>1 DEF LocalOK
<1>4. k = 0
    BY <1>3, CutSole
<1>5. \A u \in Threads : u # t => /\ LocalOK(u)'
                                  /\ InQueue(u)' <=> InQueue(u)
                                  /\ Given(u)' <=> Given(u)
    BY <1>1, OthersStay
<1>6. ~InQueue(t) /\ ~Given(t) /\ InQueue(t)' /\ ~Given(t)'
    BY DEF InQueue, Given, Waits
<1>7. Len(queue) \in Nat /\ Len(queue') = Len(queue) + 1 /\ Len(queue) >= 1
    <2>1. Len(<<<<t, kind>>>>) = 1 /\ <<<<t, kind>>>> \in Seq(Threads \X Kinds)
        BY DEF Kinds
    <2>2. Len(queue) # 0
        BY <1>1 DEF TypeOK
    <2>3. QED
        BY <1>1, <2>1, <2>2, QueueTypes DEF TypeOK
<1>8. queue'[1] = <<t, kind>> /\ \A i \in 1..Len(queue) : queue'[i + 1] = queue[i]
    <2>1. Len(<<<<t, kind>>>>) = 1 /\ <<<<t, kind>>>> \in Seq(Threads \X Kinds)
        BY DEF Kinds
    <2>2. QED
        BY <1>1, <1>7, <2>1 DEF TypeOK
<1>9. \A i \in 1..Len(queue') : i = 1 \/ (i - 1 \in 1..Len(queue) /\ queue'[i] = queue[i - 1])
    <2>1. \A i \in 1..Len(queue') : i = 1 \/ (i - 1 \in 1..Len(queue) /\ (i - 1) + 1 = i)
        BY <1>7
    <2>2. QED
        BY <1>8, <2>1
<1>10. \A i \in 1..Len(queue) : /\ queue[i][1] \in Threads /\ queue[i][1] # t
                                /\ tag'[queue[i][1]] = tag[queue[i][1]]
    BY <1>1, <1>6, Queued DEF Frame
<1>11. 1 \in 1..Len(queue) /\ queue[1][1] \in Threads /\ queue' # <<>>
    BY <1>7, <1>10
<1>12. /\ \A u \in Threads : u # queue[1][1] => next'[u] = next[u]
       /\ next'[queue[1][1]] = t
    BY <1>1, <1>11 DEF TypeOK
<1>13. next[t] = NULL
    <2>1. ~On(L, t)
        BY <1>2, <1>6 DEF On, WakeInv
    <2>2. QED
        BY <1>2, <1>6, <2>1 DEF WakeInv
<1>14. QueueInv'
    <2>1. \A i, j \in 1..Len(queue') : queue'[i][1] = queue'[j][1] => i = j
        <3>1. \A i, j \in 1..Len(queue) : queue[i][1] = queue[j][1] => i = j
            BY <1>1 DEF QueueInv
        <3>2. SUFFICES ASSUME NEW i \in 1..Len(queue'), NEW j \in 1..Len(queue'),
                              queue'[i][1] = queue'[j][1]
                       PROVE  i = j
            OBVIOUS
        <3>3. CASE i = 1 \/ j = 1
            BY <1>8, <1>9, <1>10, <3>2, <3>3
        <3>4. CASE i # 1 /\ j # 1
            <4>1. /\ i - 1 \in 1..Len(queue) /\ j - 1 \in 1..Len(queue)
                  /\ queue[i - 1][1] = queue[j - 1][1]
                BY <1>9, <3>2, <3>4
            <4>2. i - 1 = j - 1
                BY <3>1, <4>1
            <4>3. QED
                BY <1>7, <4>2
        <3>5. QED
            BY <3>3, <3>4
    <2>2. \A u \in Threads : InQueue(u)' <=> \E i \in 1..Len(queue') : queue'[i][1] = u
        <3>1. \A u \in Threads : u # t =>
                 (InQueue(u)' <=> \E i \in 1..Len(queue) : queue[i][1] = u)
            BY <1>1, <1>5 DEF QueueInv
        <3>2. \A i \in 1..Len(queue) : i + 1 \in 1..Len(queue') /\ queue'[i + 1] = queue[i]
            BY <1>7, <1>8
        <3>3. \A u \in Threads : u # t =>
                 ((\E i \in 1..Len(queue) : queue[i][1] = u) <=>
                  (\E i \in 1..Len(queue') : queue'[i][1] = u))
            BY <1>8, <1>9, <3>2
        <3>4. 1 \in 1..Len(queue') /\ queue'[1][1] = t
            BY <1>7, <1>8
        <3>5. QED
            BY <1>6, <3>1, <3>3, <3>4
    <2>3. \A i \in 1..Len(queue') : queue'[i][2] = tag'[queue'[i][1]]
        <3>1. \A i \in 1..Len(queue) : queue[i][2] = tag[queue[i][1]]
            BY <1>1 DEF QueueInv
        <3>2. QED
            BY <1>8, <1>9, <1>10, <3>1
    <2>4. \A i \in 1..Len(queue') : queue'[i][2] = "upgrade" => i = 1 /\ ~val'.wlocked
        <3>1. \A i \in 1..Len(queue) : queue[i][2] = "upgrade" => i = 1 /\ ~val.wlocked
            BY <1>1 DEF QueueInv
        <3>2. \A i \in 1..Len(queue) : queue[i][2] # "upgrade"
            BY <3>1
        <3>3. QED
            BY <1>8, <1>9, <3>2
    <2>5. queue' # <<>> /\ queue'[1][2] = "shared" => val'.wlocked
        BY <1>8
    <2>6. val'.waitq = IF queue' = <<>> THEN NULL ELSE queue'[Len(queue')][1]
        <3>1. Len(queue) \in 1..Len(queue)
            BY <1>7
        <3>2. QED
            BY <1>1, <1>7, <1>8, <1>11, <3>1 DEF QueueInv
    <2>7. Locked(val')
        BY <1>1 DEF QueueInv
    <2>8. QED
        BY <2>1, <2>2, <2>3, <2>4, <2>5, <2>6, <2>7 DEF QueueInv
<1>15. CutInv(k)'
    <2>1. \A u \in Threads : wait_list'[u] = NULL
        BY <1>2, <1>4 DEF CutInv
    <2>2. ASSUME NEW i \in 1..Len(queue')
          PROVE  next'[queue'[i][1]] = IF i \in {1, k + 1} THEN NULL ELSE queue'[i - 1][1]
        <3>1. CASE i = 1
            BY <1>8, <1>10, <1>11, <1>12, <1>13, <3>1
        <3>2. CASE i = 2
            BY <1>4, <1>8, <1>9, <1>12, <3>2
        <3>3. CASE i # 1 /\ i # 2
            <4>1. i - 1 \in 1..Len(queue) /\ i - 1 # 1 /\ (i - 1) - 1 \in 1..Len(queue)
                BY <1>7, <3>3
            <4>2. next[queue[i - 1][1]] = queue[(i - 1) - 1][1]
                BY <1>2, <1>4, <4>1 DEF CutInv
            <4>3. queue[i - 1][1] # queue[1][1]
                BY <1>1, <1>11, <4>1 DEF QueueInv
            <4>4. queue'[((i - 1) - 1) + 1] = queue[(i - 1) - 1] /\ ((i - 1) - 1) + 1 = i - 1
                BY <1>8, <4>1
            <4>5. QED
                BY <1>4, <1>9, <1>10, <1>12, <3>3, <4>1, <4>2, <4>3, <4>4
        <3>4. QED
            BY <3>1, <3>2, <3>3
    <2>3. ~(k > 0)
        BY <1>4
    <2>4. QED
        BY <2>1, <2>2, <2>3 DEF CutInv
<1>16. ASSUME NEW u \in Threads PROVE SnapOK(u, k)'
    <2>1. CASE u = t
        BY <1>8, <1>11, <2>1 DEF SnapOK
    <2>2. CASE u # t
        <3>1. Sole(u) /\ mode[u] # "none" /\ queue # <<>> => Sole(u)'
            BY DEF Sole
        <3>2. \A j \in 1..Len(queue) :
                 j + 1 \in 1..Len(queue') /\ queue'[j + 1][1] = queue[j][1]
            BY <1>7, <1>8
        <3>3. /\ \A j \in (k + 1)..Len(queue) :
                    \E i \in (k + 1)..Len(queue') : queue'[i][1] = queue[j][1]
              /\ \A j \in 1..Len(queue) :
                    \E i \in 1..Len(queue') : queue'[i][1] = queue[j][1]
            <4>1. k + 1 = 1
                BY <1>4
            <4>2. QED
                BY <3>2, <4>1
        <3>4. mode[u] # "wr"
            BY <1>1, <1>3, <2>2 DEF Inv, HoldInv, Holders, Sole
        <3>5. mode'[u] = mode[u] /\ SnapOK(u, k) /\ LocalOK(u)
            BY <1>1, <1>2
        <3>6. QED
            BY <1>7, <1>10, <1>11, <2>2, <3>1, <3>3, <3>4, <3>5, SnapKept
    <2>3. QED
        BY <2>1, <2>2
<1>17. WakeInv(L)'
    <2>1. \A w \in Threads : Given(w)' <=> Given(w)
        BY <1>5, <1>6
    <2>2. InQueue(queue[1][1]) /\ ~Given(queue[1][1])
        BY <1>1, <1>11, Queued
    <2>3. \A w \in Threads : Given(w) => next'[w] = next[w] /\ tag'[w] = tag[w]
        BY <1>6, <1>12, <2>2 DEF Frame
    <2>4. \A w \in Threads : ~InQueue(w)' /\ pc'[w] # "contention" =>
             next'[w] = NULL \/ (next'[w] = next[w] /\ ~InQueue(w) /\ pc[w] # "contention")
        BY <1>5, <1>6, <1>12, <2>2 DEF Frame
    <2>5. QED
        BY <1>1, <1>2, <2>1, <2>3, <2>4, WakeKept
<1>18. ListsOK(k, L)'
    BY <1>15, <1>16, <1>17 DEF ListsOK
<1>19. HoldInv'
    BY DEF Inv, HoldInv, Holders, Sole
<1>20. \A u \in Threads : LocalOK(u)'
    BY <1>5
<1>21. Inv'
    BY <1>14, <1>19, <1>20 DEF Inv
<1>22. QED
    BY <1>18, <1>21 DEF IInv

(* Thread t cuts the m oldest waiters off the queue, for its next turn. *)
LEMMA CutStep ==
    ASSUME Inv, NEW k \in Nat, k = 0, NEW L \in Lists, ListsOK(k, L), NEW t \in Threads,
           Frame(t), pc[t] = "fair", pc'[t] = "fair", back'[t] = back[t],
           NEW m \in 1..Len(queue), m < Len(queue), Serves(queue, m, Len(queue)),
           next' = [next EXCEPT ![queue[m + 1][1]] = NULL],
           wait_list' = [wait_list EXCEPT ![t] = queue[m][1]],
           signal_pending' = signal_pending, queue' = queue, val' = val, mode' = mode,
           tag' = tag, TypeOK', LocalOK(t)', SnapOK(t, m)'
    PROVE  IInv'
<1>1. TypeOK /\ (\A u \in Threads : LocalOK(u)) /\ QueueInv /\ HoldInv
    BY DEF Inv
<1>2. CutInv(k) /\ (\A u \in Threads : SnapOK(u, k)) /\ WakeInv(L)
    BY DEF ListsOK
<1>3. Sole(t)
    BY <1>2 DEF SnapOK
<1>4. \A u \in Threads : u # t => /\ LocalOK(u)'
                                  /\ InQueue(u)' <=> InQueue(u)
                                  /\ Given(u)' <=> Given(u)
    BY <1>1, OthersStay
<1>5. (InQueue(t)' <=> InQueue(t)) /\ ~Given(t) /\ ~Given(t)'
    BY DEF InQueue, Given, Waits
<1>6. /\ Len(queue) \in Nat /\ m \in Nat /\ m + 1 \in 1..Len(queue)
      /\ queue[m + 1][1] \in Threads /\ queue[m][1] \in Threads
    <2>1. Len(queue) \in Nat /\ m \in Nat /\ m + 1 \in 1..Len(queue)
        BY <1>1, QueueTypes
    <2>2. QED
        BY <1>1, <2>1, QueueTypes
<1>7. /\ \A u \in Threads : u # queue[m + 1][1] => next'[u] = next[u]
      /\ next'[queue[m + 1][1]] = NULL
    BY <1>1, <1>6 DEF TypeOK
<1>8. /\ \A u \in Threads : u # t => wait_list'[u] = NULL
      /\ wait_list'[t] = queue[m][1] /\ wait_list'[t] # NULL
    <2>1. \A u \in Threads : wait_list[u] = NULL
        BY <1>2 DEF CutInv
    <2>2. QED
        BY <1>1, <1>6, <2>1, NullAssumption DEF TypeOK
<1>9. QueueInv'
    <2>1. \A u \in Threads : InQueue(u)' <=> InQueue(u)
        BY <1>4, <1>5
    <2>2. QED
        BY <1>1, <2>1 DEF QueueInv
<1>10. CutInv(m)'
    <2>1. ASSUME NEW i \in 1..Len(queue)
          PROVE  next'[queue[i][1]] = IF i \in {1, m + 1} THEN NULL ELSE queue[i - 1][1]
        <3>1. next[queue[i][1]] = IF i \in {1, k + 1} THEN NULL ELSE queue[i - 1][1]
            BY <1>2 DEF CutInv
        <3>2. k + 1 = 1
            OBVIOUS
        <3>3. queue[i][1] \in Threads /\ (queue[i][1] = queue[m + 1][1] => i = m + 1)
            BY <1>1, <1>6, QueueTypes DEF QueueInv
        <3>4. QED
            BY <1>7, <3>1, <3>2, <3>3
    <2>2. m > 0
        BY <1>6
    <2>3. QED
        BY <1>8, <2>1, <2>2 DEF CutInv
<1>11. \A u \in Threads : SnapOK(u, m)'
    BY <1>1, <1>3, <1>6, SnapSole
<1>12. WakeInv(L)'
    <2>1. \A w \in Threads : Given(w)' <=> Given(w)
        BY <1>4, <1>5
    <2>2. InQueue(queue[m + 1][1]) /\ ~Given(queue[m + 1][1])
        BY <1>1, <1>6, Queued
    <2>3. \A w \in Threads : Given(w) => next'[w] = next[w] /\ tag'[w] = tag[w]
        BY <1>7, <2>2
    <2>4. \A w \in Threads : ~InQueue(w)' /\ pc'[w] # "contention" =>
             next'[w] = NULL \/ (next'[w] = next[w] /\ ~InQueue(w) /\ pc[w] # "contention")
        BY <1>4, <1>5, <1>7 DEF Frame
    <2>5. QED
        BY <1>1, <1>2, <2>1, <2>3, <2>4, WakeKept
<1>13. ListsOK(m, L)'
    BY <1>10, <1>11, <1>12 DEF ListsOK
<1>14. HoldInv'
    BY <1>1 DEF HoldInv, Holders, Sole
<1>15. \A u \in Threads : LocalOK(u)'
    BY <1>4
<1>16. Inv'
    BY <1>9, <1>14, <1>15 DEF Inv
<1>17. QED
    BY <1>6, <1>13, <1>16 DEF IInv

(* Thread t, given the lock, finds its signal and returns. *)
LEMMA WokenStep ==
    ASSUME Inv, NEW k \in Nat, NEW L \in Lists, ListsOK(k, L), NEW t \in Threads,
           Frame(t), Waits(t), signal_pending[t], pc'[t] = mode[t], back'[t] = back[t],
           signal_pending' = [signal_pending EXCEPT ![t] = FALSE],
           next' = next, tag' = tag, val' = val, mode' = mode, queue' = queue,
           wait_list' = wait_list, TypeOK', LocalOK(t)'
    PROVE  IInv'
<1>1. TypeOK /\ (\A u \in Threads : LocalOK(u)) /\ QueueInv /\ HoldInv
    BY DEF Inv
<1>2. CutInv(k) /\ (\A u \in Threads : SnapOK(u, k)) /\ WakeInv(L)
    BY DEF ListsOK
<1>3. \A u \in Threads : u # t => /\ LocalOK(u)'
                                  /\ InQueue(u)' <=> InQueue(u)
                                  /\ Given(u)' <=> Given(u)
    BY <1>1, OthersStay
<1>4. Given(t) /\ mode[t] # "none" /\ pc'[t] \in {"rd", "wr"}
    <2>1. Given(t)
        BY <1>2 DEF WakeInv
    <2>2. mode[t] # "none"
        BY <2>1 DEF Given, Waits
    <2>3. QED
        BY <1>1, <2>1, <2>2 DEF TypeOK
<1>5. ~InQueue(t) /\ ~InQueue(t)' /\ ~Given(t)'
    BY <1>4 DEF InQueue, Given, Waits
<1>6. ~On(L, t)
    BY <1>2 DEF On, WakeInv
<1>7. QueueInv'
    <2>1. \A u \in Threads : InQueue(u)' <=> InQueue(u)
        BY <1>3, <1>5
    <2>2. QED
        BY <1>1, <2>1 DEF QueueInv
<1>8. CutInv(k)'
    BY <1>2 DEF CutInv
<1>9. ASSUME NEW u \in Threads PROVE SnapOK(u, k)'
    <2>1. CASE u = t
        BY <1>4, <2>1 DEF SnapOK
    <2>2. CASE u # t
        <3>1. Sole(u) => Sole(u)'
            BY DEF Sole
        <3>2. SnapOK(u, k) /\ LocalOK(u) /\ Len(queue) \in Nat /\ mode'[u] = mode[u]
            BY <1>1, <1>2, QueueTypes
        <3>3. QED
            BY <2>2, <3>1, <3>2, SnapKept
    <2>3. QED
        BY <2>1, <2>2
<1>10. WakeInv(L)'
    <2>1. \A u \in Threads : /\ L[u] \in Seq(Threads)
                             /\ \A i \in 1..Len(L[u]) : L[u][i] \in Threads /\ L[u][i] # t
        BY <1>6 DEF Lists, On
    <2>2. L[t] = <<>> /\ pc[t] \notin {"wake", "wake_all"}
        BY <1>2 DEF WakeInv, Waits
    <2>3. \A u \in Threads : u # t => pc'[u] = pc[u] /\ cur'[u] = cur[u]
        BY DEF Frame
    <2>4. \A u \in Threads :
             /\ L[u] # <<>> => pc'[u] \in {"wake", "wake_all"}
             /\ pc'[u] \in {"wake", "wake_all"} =>
                   cur'[u] = IF L[u] = <<>> THEN NULL ELSE L[u][1]
             /\ pc'[u] = "wake" => Len(L[u]) = 1
        BY <1>2, <1>4, <2>2, <2>3 DEF WakeInv
    <2>5. \A u \in Threads : signal_pending'[u] = IF u = t THEN FALSE ELSE signal_pending[u]
        BY <1>1 DEF TypeOK
    <2>6. ASSUME NEW u \in Threads, NEW i \in 1..Len(L[u])
          PROVE  /\ Given(L[u][i])' /\ ~signal_pending'[L[u][i]]
                 /\ pc'[u] = "wake_all" => tag'[L[u][i]] = "shared"
                 /\ next'[L[u][i]] = IF i = Len(L[u]) THEN NULL ELSE L[u][i + 1]
        <3>1. PICK w \in Threads : w = L[u][i] /\ w # t
            BY <2>1
        <3>2. /\ Given(w) /\ ~signal_pending[w] /\ (pc[u] = "wake_all" => tag[w] = "shared")
              /\ next[w] = IF i = Len(L[u]) THEN NULL ELSE L[u][i + 1]
            BY <1>2, <3>1 DEF WakeInv
        <3>3. pc'[u] = "wake_all" => pc[u] = "wake_all"
            BY <1>4, <2>3
        <3>4. QED
            BY <1>3, <2>5, <3>1, <3>2, <3>3
    <2>7. \A w \in Threads : Given(w)' => signal_pending'[w] \/ On(L, w)
        BY <1>2, <1>3, <1>5, <2>5 DEF WakeInv
    <2>8. \A w \in Threads : signal_pending'[w] => Given(w)'
        BY <1>2, <1>3, <2>5 DEF WakeInv
    <2>9. \A w \in Threads :
             ~On(L, w) /\ ~InQueue(w)' /\ pc'[w] # "contention" => next'[w] = NULL
        <3>1. pc[t] # "contention"
            BY DEF Waits
        <3>2. QED
            BY <1>2, <1>3, <1>5, <2>3, <3>1 DEF WakeInv
    <2>10. \A v, u \in Threads : \A i \in 1..Len(L[v]), j \in 1..Len(L[u]) :
              L[v][i] = L[u][j] => v = u /\ i = j
        BY <1>2 DEF WakeInv
    <2>11. QED
        BY <2>4, <2>6, <2>7, <2>8, <2>9, <2>10 DEF WakeInv
<1>11. ListsOK(k, L)'
    BY <1>8, <1>9, <1>10 DEF ListsOK
<1>12. HoldInv'
    BY <1>1 DEF HoldInv, Holders, Sole
<1>13. \A u \in Threads : LocalOK(u)'
    BY <1>3
<1>14. Inv'
    BY <1>7, <1>12, <1>13 DEF Inv
<1>15. QED
    BY <1>11, <1>14 DEF IInv

(* Thread t signals the first of those it has given the lock to, if there  *)
(* is one left, and returns after the last.                                *)
LEMMA SignalStep ==
    ASSUME Inv, NEW k \in Nat, NEW L \in Lists, ListsOK(k, L), NEW t \in Threads, Frame(t),
           pc[t] \in {"wake", "wake_all"},
           NEW C, C = (IF L[t] = <<>> THEN {} ELSE {L[t][1]}),
           \A w \in Threads : next'[w] = IF w \in C THEN NULL ELSE next[w],
           \A w \in Threads : signal_pending'[w] <=> w \in C \/ signal_pending[w],
           \/ pc'[t] = "wake_all" /\ L[t] # <<>> /\ back'[t] = back[t] /\ cur'[t] = next[cur[t]]
              /\ pc[t] = "wake_all"
           \/ pc'[t] = back[t] /\ back'[t] = "idle" /\ (pc[t] = "wake_all" => L[t] = <<>>),
           tag' = tag, val' = val, mode' = mode, queue' = queue,
           wait_list' = wait_list, TypeOK', LocalOK(t)'
    PROVE  IInv'
<1>1. TypeOK /\ (\A u \in Threads : LocalOK(u)) /\ QueueInv /\ HoldInv
    BY DEF Inv
<1>2. CutInv(k) /\ (\A u \in Threads : SnapOK(u, k)) /\ WakeInv(L)
    BY DEF ListsOK
<1>3. \A u \in Threads : u # t => /\ LocalOK(u)'
                                  /\ InQueue(u)' <=> InQueue(u)
                                  /\ Given(u)' <=> Given(u)
    BY <1>1, OthersStay
<1>4. pc'[t] \in {"wake_all", "idle", "up_wait", "down_wait"}
    BY <1>1 DEF TypeOK
<1>5. ~InQueue(t) /\ ~InQueue(t)' /\ (Given(t)' <=> Given(t))
    <2>1. mode[t] = "none" <=> back[t] = "idle"
        BY <1>1 DEF LocalOK
    <2>2. back[t] \in {"idle", "up_wait", "down_wait"}
        BY <1>1 DEF TypeOK
    <2>3. QED
        BY <2>1, <2>2 DEF InQueue, Given, Waits
<1> DEFINE M == [L EXCEPT ![t] = IF L[t] = <<>> THEN <<>> ELSE Tail(L[t])]
<1>6. \A u \in Threads : /\ L[u] \in Seq(Threads) /\ Len(L[u]) \in Nat
                         /\ \A i \in 1..Len(L[u]) : L[u][i] \in Threads
    BY DEF Lists
<1>7. /\ L[t] # <<>> => Len(L[t]) # 0 /\ 1 \in 1..Len(L[t])
      /\ L[t] = <<>> => Len(L[t]) = 0
    BY <1>6
<1>8. M \in Lists /\ M[t] = (IF L[t] = <<>> THEN <<>> ELSE Tail(L[t]))
      /\ \A u \in Threads : u # t => M[u] = L[u]
    <2>1. (IF L[t] = <<>> THEN <<>> ELSE Tail(L[t])) \in Seq(Threads)
        BY <1>6
    <2>2. QED
        BY <2>1 DEF Lists
<1> HIDE DEF M
<1>9. /\ L[t] # <<>> => Len(M[t]) = Len(L[t]) - 1
      /\ L[t] = <<>> => M[t] = <<>>
      /\ \A i \in 1..Len(M[t]) : i + 1 \in 1..Len(L[t]) /\ M[t][i] = L[t][i + 1]
    <2>1. CASE L[t] = <<>>
        BY <1>8, <2>1
    <2>2. CASE L[t] # <<>>
        BY <1>6, <1>8, <2>2
    <2>3. QED
        BY <2>1, <2>2
<1>10. \A j \in 1..Len(L[t]) : L[t][j] \in C \/ \E i \in 1..Len(M[t]) : M[t][i] = L[t][j]
    <2>1. SUFFICES ASSUME NEW j \in 1..Len(L[t]), j # 1
                   PROVE  \E i \in 1..Len(M[t]) : M[t][i] = L[t][j]
        BY <1>6, <1>7
    <2>2. L[t] # <<>>
        BY <1>7, <2>1
    <2>3. j - 1 \in 1..Len(M[t]) /\ (j - 1) + 1 = j
        BY <1>6, <1>9, <2>1, <2>2
    <2>4. QED
        BY <1>9, <2>3
<1>11. \A w \in C : w \in Threads /\ L[t] # <<>> /\ w = L[t][1] /\ Given(w)
                    /\ ~signal_pending[w] /\ On(L, w)
    BY <1>2, <1>6, <1>7 DEF WakeInv, On
<1>12. \A w \in Threads : On(L, w) => w \in C \/ On(M, w)
    <2>1. SUFFICES ASSUME NEW w \in Threads, On(L, w), w \notin C PROVE On(M, w)
        OBVIOUS
    <2>2. PICK u \in Threads : \E i \in 1..Len(L[u]) : L[u][i] = w
        BY <2>1 DEF On
    <2>3. CASE u = t
        BY <1>10, <2>1, <2>2, <2>3 DEF On
    <2>4. CASE u # t
        BY <1>8, <2>2, <2>4 DEF On
    <2>5. QED
        BY <2>3, <2>4
<1>13. QueueInv'
    <2>1. \A u \in Threads : InQueue(u)' <=> InQueue(u)
        BY <1>3, <1>5
    <2>2. QED
        BY <1>1, <2>1 DEF QueueInv
<1>14. CutInv(k)'
    <2>1. \A i \in 1..Len(queue) : next'[queue[i][1]] = next[queue[i][1]]
        BY <1>1, <1>11, Queued
    <2>2. QED
        BY <1>2, <2>1 DEF CutInv
<1>15. ASSUME NEW u \in Threads PROVE SnapOK(u, k)'
    <2>1. CASE u = t
        BY <1>4, <2>1 DEF SnapOK
    <2>2. CASE u # t
        <3>1. Sole(u) => Sole(u)'
            BY DEF Sole
        <3>2. SnapOK(u, k) /\ LocalOK(u) /\ Len(queue) \in Nat /\ mode'[u] = mode[u]
            BY <1>1, <1>2, QueueTypes
        <3>3. QED
            BY <2>2, <3>1, <3>2, SnapKept
    <2>3. QED
        BY <2>1, <2>2
<1>16. WakeInv(M)'
    <2>1. \A u \in Threads : u # t => pc'[u] = pc[u] /\ cur'[u] = cur[u]
        BY DEF Frame
    <2>2. \A u \in Threads : M[u] # <<>> => pc'[u] \in {"wake", "wake_all"}
        <3>1. M[t] # <<>> => pc'[t] = "wake_all"
            <4>1. pc[t] = "wake" => Len(L[t]) = 1
                BY <1>2 DEF WakeInv
            <4>2. pc[t] = "wake" => M[t] = <<>>
                BY <1>6, <1>8, <4>1
            <4>3. QED
                BY <1>9, <4>2
        <3>2. QED
            BY <1>2, <1>8, <2>1, <3>1 DEF WakeInv
    <2>3. \A u \in Threads : pc'[u] \in {"wake", "wake_all"} =>
             cur'[u] = IF M[u] = <<>> THEN NULL ELSE M[u][1]
        <3>1. ASSUME pc'[t] \in {"wake", "wake_all"}
              PROVE  cur'[t] = IF M[t] = <<>> THEN NULL ELSE M[t][1]
            <4>1. back[t] \notin {"wake", "wake_all"}
                BY <1>1 DEF TypeOK
            <4>2. L[t] # <<>> /\ cur'[t] = next[cur[t]]
                BY <3>1, <4>1
            <4>3. cur[t] = L[t][1] /\ next[L[t][1]] = IF 1 = Len(L[t]) THEN NULL ELSE L[t][1 + 1]
                BY <1>2, <1>7, <4>2 DEF WakeInv
            <4>4. M[t] \in Seq(Threads) /\ Len(M[t]) = Len(L[t]) - 1
                BY <1>8, <1>9, <4>2 DEF Lists
            <4>5. M[t] = <<>> <=> Len(L[t]) = 1
                <5>1. M[t] = <<>> <=> Len(M[t]) = 0
                    BY <4>4, EmptySeq
                <5>2. Len(L[t]) \in Nat
                    BY <1>6
                <5>3. QED
                    BY <4>4, <5>1, <5>2
            <4>6. M[t] # <<>> => M[t][1] = L[t][1 + 1]
                <5>1. M[t] # <<>> => 1 \in 1..Len(M[t])
                    BY <4>4
                <5>2. QED
                    BY <1>9, <5>1
            <4>7. QED
                BY <4>2, <4>3, <4>5, <4>6
        <3>2. ASSUME NEW u \in Threads, u # t, pc'[u] \in {"wake", "wake_all"}
              PROVE  cur'[u] = IF M[u] = <<>> THEN NULL ELSE M[u][1]
            BY <1>2, <1>8, <2>1, <3>2 DEF WakeInv
        <3>3. QED
            BY <3>1, <3>2
    <2>4. \A u \in Threads : pc'[u] = "wake" => Len(M[u]) = 1
        BY <1>2, <1>4, <1>8, <2>1 DEF WakeInv
    <2>5. \A u, v \in Threads : \A i \in 1..Len(M[u]), j \in 1..Len(M[v]) :
             M[u][i] = M[v][j] => u = v /\ i = j
        <3>1. \A v, u \in Threads : \A i \in 1..Len(L[v]), j \in 1..Len(L[u]) :
                 L[v][i] = L[u][j] => v = u /\ i = j
            BY <1>2 DEF WakeInv
        <3>2. \A u \in Threads : \A i \in 1..Len(M[u]) :
                 IF u = t THEN i + 1 \in 1..Len(L[u]) /\ M[u][i] = L[u][i + 1]
                          ELSE i \in 1..Len(L[u]) /\ M[u][i] = L[u][i]
            BY <1>8, <1>9
        <3>3. SUFFICES ASSUME NEW u \in Threads, NEW v \in Threads,
                              NEW i \in 1..Len(M[u]), NEW j \in 1..Len(M[v]),
                              M[u][i] = M[v][j]
                       PROVE  u = v /\ i = j
            OBVIOUS
        <3>4. u = v
            BY <3>1, <3>2, <3>3
        <3>5. i \in Int /\ j \in Int
            OBVIOUS
        <3>6. CASE u = t
            <4>1. /\ i + 1 \in 1..Len(L[t]) /\ M[t][i] = L[t][i + 1]
                  /\ j + 1 \in 1..Len(L[t]) /\ M[t][j] = L[t][j + 1]
                BY <3>2, <3>3, <3>4, <3>6
            <4>2. i + 1 = j + 1
                BY <3>1, <3>3, <3>4, <3>6, <4>1
            <4>3. QED
                BY <3>4, <3>5, <4>2
        <3>7. CASE u # t
            BY <3>1, <3>2, <3>3, <3>4, <3>7
        <3>8. QED
            BY <3>6, <3>7
    <2>6. ASSUME NEW u \in Threads, NEW i \in 1..Len(M[u])
          PROVE  /\ Given(M[u][i])' /\ ~signal_pending'[M[u][i]]
                 /\ pc'[u] = "wake_all" => tag'[M[u][i]] = "shared"
                 /\ next'[M[u][i]] = IF i = Len(M[u]) THEN NULL ELSE M[u][i + 1]
        <3>1. PICK w \in Threads, j \in 1..Len(L[u]) :
                 /\ w = M[u][i] /\ w = L[u][j]
                 /\ u = t => j = i + 1
                 /\ u # t => j = i
            <4>1. CASE u = t
                <5>1. i + 1 \in 1..Len(L[u]) /\ M[u][i] = L[u][i + 1]
                    BY <1>9, <4>1
                <5>2. L[u][i + 1] \in Threads
                    BY <1>6, <5>1
                <5>3. QED
                    BY <4>1, <5>1, <5>2
            <4>2. CASE u # t
                <5>1. i \in 1..Len(L[u]) /\ M[u][i] = L[u][i]
                    BY <1>8, <4>2
                <5>2. L[u][i] \in Threads
                    BY <1>6, <5>1
                <5>3. QED
                    BY <4>2, <5>1, <5>2
            <4>3. QED
                BY <4>1, <4>2
        <3>2. /\ Given(w) /\ ~signal_pending[w] /\ (pc[u] = "wake_all" => tag[w] = "shared")
              /\ next[w] = IF j = Len(L[u]) THEN NULL ELSE L[u][j + 1]
            BY <1>2, <3>1 DEF WakeInv
        <3>3. w \notin C
            <4>1. SUFFICES ASSUME w \in C PROVE FALSE
                OBVIOUS
            <4>2. L[t] # <<>> /\ L[u][j] = L[t][1] /\ 1 \in 1..Len(L[t])
                BY <1>7, <1>11, <3>1, <4>1
            <4>3. u = t /\ j = 1
                BY <1>2, <3>1, <4>2 DEF WakeInv
            <4>4. QED
                BY <3>1, <4>3
        <3>4. IF i = Len(M[u]) THEN j = Len(L[u]) ELSE j # Len(L[u]) /\ L[u][j + 1] = M[u][i + 1]
            <4>1. CASE u # t
                BY <1>8, <3>1, <4>1
            <4>2. CASE u = t
                <5>1. Len(M[t]) = Len(L[t]) - 1 /\ j = i + 1 /\ Len(L[t]) \in Nat
                    <6>1. L[t] # <<>>
                        BY <1>7, <3>1, <4>2
                    <6>2. QED
                        BY <1>6, <1>9, <3>1, <4>2, <6>1
                <5>2. i = Len(M[t]) <=> j = Len(L[t])
                    BY <5>1
                <5>3. i # Len(M[t]) => i + 1 \in 1..Len(M[t])
                    BY <4>2, <5>1
                <5>4. QED
                    BY <1>9, <4>2, <5>1, <5>2, <5>3
            <4>3. QED
                BY <4>1, <4>2
        <3>5. pc'[u] = "wake_all" => pc[u] = "wake_all"
            <4>1. back[t] # "wake_all"
                BY <1>1 DEF TypeOK
            <4>2. QED
                BY <2>1, <4>1
        <3>6. Given(w)'
            BY <1>3, <1>5, <3>2
        <3>7. next'[w] = IF i = Len(M[u]) THEN NULL ELSE M[u][i + 1]
            BY <3>2, <3>3, <3>4
        <3>8. QED
            BY <3>1, <3>2, <3>3, <3>5, <3>6, <3>7
    <2>7. \A w \in Threads : Given(w)' => signal_pending'[w] \/ On(M, w)
        BY <1>2, <1>3, <1>5, <1>12 DEF WakeInv
    <2>8. \A w \in Threads : signal_pending'[w] => Given(w)'
        BY <1>2, <1>3, <1>5, <1>11 DEF WakeInv
    <2>9. \A w \in Threads :
             ~On(M, w) /\ ~InQueue(w)' /\ pc'[w] # "contention" => next'[w] = NULL
        BY <1>2, <1>3, <1>5, <1>12, <2>1 DEF WakeInv
    <2>10. QED
        BY <2>2, <2>3, <2>4, <2>5, <2>6, <2>7, <2>8, <2>9 DEF WakeInv
<1>17. ListsOK(k, M)'
    BY <1>14, <1>15, <1>16 DEF ListsOK
<1>18. HoldInv'
    BY <1>1 DEF HoldInv, Holders, Sole
<1>19. \A u \in Threads : LocalOK(u)'
    BY <1>3
<1>20. Inv'
    BY <1>13, <1>18, <1>19 DEF Inv
<1>21. QED
    BY <1>8, <1>17, <1>20 DEF IInv

(* The lock goes from t to the set W of the m oldest waiters. *)
Passes(t, m, W, held) ==
    /\ Len(queue') = Len(queue) - m
    /\ \A i \in 1..Len(queue') : queue'[i] = queue[i + m]
    /\ \A u : u \in W <=> \E i \in 1..m : u = queue[i][1]
    /\ \A u \in Threads :
          mode'[u] = IF u \in W THEN held ELSE IF u = t THEN "none" ELSE mode[u]
    /\ \A i \in 1..Len(queue) :
          next'[queue[i][1]] = IF i \in {1, m + 1} THEN NULL ELSE queue[i - 1][1]
    /\ \A u \in Threads : ~InQueue(u) => next'[u] = next[u]

(* Thread t gives up the lock, which it holds alone, to the m oldest. *)
LEMMA PassStep ==
    ASSUME Inv, NEW k \in Nat, NEW L \in Lists, ListsOK(k, L), NEW t \in Threads, Frame(t),
           pc[t] = "fair", NEW m \in 1..Len(queue), Serves(queue, m, Len(queue)),
           NEW W, NEW held \in {"rd", "wr"}, held = "rd" <=> queue[1][2] = "shared",
           Passes(t, m, W, held),
           pc'[t] = (IF held = "rd" THEN "wake_all" ELSE "wake"), cur'[t] = queue[m][1],
           back'[t] = back[t], wait_list'[t] = NULL, tag' = tag,
           signal_pending' = signal_pending,
           val'.waitq = (IF m = Len(queue) THEN NULL ELSE val.waitq),
           val'.wlocked <=> held = "wr", val'.readers = (IF held = "rd" THEN m ELSE 0),
           TypeOK'
    PROVE  IInv'
<1>1. TypeOK /\ (\A u \in Threads : LocalOK(u)) /\ QueueInv /\ HoldInv
    BY DEF Inv
<1>2. CutInv(k) /\ (\A u \in Threads : SnapOK(u, k)) /\ WakeInv(L)
    BY DEF ListsOK
<1>3. Sole(t) /\ mode[t] # "none" /\ \A u \in Threads : u # t => mode[u] = "none"
    <2>1. Sole(t)
        BY <1>2 DEF SnapOK
    <2>2. mode[t] # "none"
        BY <1>1 DEF LocalOK
    <2>3. QED
        BY <2>1, <2>2 DEF Sole
<1>4. /\ Len(queue) \in Nat /\ m \in Nat /\ m >= 1 /\ m <= Len(queue)
      /\ 1 \in 1..m /\ 1 \in 1..Len(queue)
      /\ \A i \in 1..m : i \in 1..Len(queue)
    BY <1>1, QueueTypes
<1>5. /\ Len(queue') = Len(queue) - m
      /\ \A i \in 1..Len(queue') : i + m \in 1..Len(queue) /\ queue'[i] = queue[i + m]
    BY <1>4 DEF Passes
<1>W. \A u : u \in W <=> \E i \in 1..m : u = queue[i][1]
    BY DEF Passes
<1>M. \A u \in Threads :
          mode'[u] = IF u \in W THEN held ELSE IF u = t THEN "none" ELSE mode[u]
    BY DEF Passes
<1>6. \A i \in 1..Len(queue) : /\ queue[i][1] \in Threads /\ InQueue(queue[i][1])
                               /\ queue[i][2] = tag[queue[i][1]]
                               /\ queue[i][1] \in W <=> i \in 1..m
    <2>1. \A i \in 1..Len(queue) : queue[i][1] \in W => i \in 1..m
        BY <1>1, <1>4, <1>W DEF QueueInv
    <2>2. QED
        BY <1>1, <1>W, <2>1, Queued DEF QueueInv
<1>7. \A u \in W : u \in Threads /\ InQueue(u)
    BY <1>4, <1>6, <1>W
<1>8. \A u \in Threads : InQueue(u) <=> \E i \in 1..Len(queue) : queue[i][1] = u
    BY <1>1 DEF QueueInv
<1>9. ASSUME NEW u \in W PROVE tag[u] = "shared" <=> held = "rd"
    <2>1. PICK i \in 1..m : u = queue[i][1]
        BY <1>W
    <2>2. tag[u] = queue[i][2]
        BY <1>4, <1>6, <2>1
    <2>3. queue[1][2] # "shared" => i = 1
        BY <1>4 DEF Serves
    <2>4. queue[1][2] = "shared" => queue[i][2] = "shared"
        BY DEF Serves
    <2>5. QED
        BY <2>2, <2>3, <2>4
<1>10. held = "wr" => \A u, v \in W : u = v
    <2>1. held = "wr" => m = 1
        BY DEF Serves
    <2>2. \A i, j \in 1..1 : i = j
        OBVIOUS
    <2>3. QED
        BY <1>W, <2>1, <2>2
<1>11. ASSUME NEW u \in Threads, u # t
       PROVE  /\ InQueue(u) <=> Waits(u)
              /\ pc[u] \in {"wake", "wake_all"} => back[u] = "idle"
    BY <1>1, <1>3, <1>11 DEF InQueue, LocalOK
<1>12. InQueue(t) <=> t \in W
    <2>1. SUFFICES ASSUME InQueue(t) PROVE t \in W
        BY <1>7
    <2>2. back[t] \in {"up_wait", "down_wait"}
        BY <1>1, <2>1 DEF InQueue, Waits, TypeOK
    <2>3. PICK i \in 1..Len(queue) : queue[i][1] = t
        BY <1>8, <2>1
    <2>4. CASE back[t] = "up_wait"
        <3>1. tag[t] = "upgrade"
            BY <1>1, <2>4 DEF LocalOK
        <3>2. i = 1
            BY <1>1, <2>3, <3>1 DEF QueueInv
        <3>3. QED
            BY <1>4, <1>6, <2>3, <3>2
    <2>5. CASE back[t] = "down_wait"
        <3>1. queue[1][1] = t
            BY <1>2, <2>5 DEF SnapOK
        <3>2. QED
            BY <1>4, <1>6, <3>1
    <2>6. QED
        BY <2>2, <2>4, <2>5
<1>13. \A u \in Threads : u # t =>
          pc'[u] = pc[u] /\ back'[u] = back[u] /\ wait_list'[u] = wait_list[u]
    BY DEF Frame
<1>14. pc'[t] \in {"wake", "wake_all"} /\ held \in {"rd", "wr"} /\ held # "none"
    OBVIOUS
<1>15. \A u \in Threads : Given(u)' <=> u \in W
    <2>1. ASSUME NEW u \in Threads, u # t PROVE Given(u)' <=> u \in W
        <3>1. CASE u \in W
            BY <1>7, <1>11, <1>13, <1>14, <1>M, <2>1, <3>1 DEF Given, Waits
        <3>2. CASE u \notin W
            BY <1>3, <1>11, <1>13, <1>M, <2>1, <3>2 DEF Given, Waits
        <3>3. QED
            BY <3>1, <3>2
    <2>2. Given(t)' <=> back[t] # "idle"
        BY <1>14 DEF Given, Waits
    <2>3. InQueue(t) <=> back[t] # "idle"
        BY DEF InQueue, Waits
    <2>4. QED
        BY <1>12, <2>1, <2>2, <2>3
<1>16. \A u \in Threads : InQueue(u)' <=> InQueue(u) /\ u \notin W
    <2>1. ASSUME NEW u \in Threads, u # t PROVE InQueue(u)' <=> InQueue(u) /\ u \notin W
        <3>1. mode[u] = "none" /\ pc'[u] = pc[u] /\ back'[u] = back[u]
            BY <1>3, <1>13, <2>1
        <3>2. /\ pc[u] \notin {"up_unlock", "down_unlock", "unlock", "fair"}
            BY <1>1, <3>1 DEF LocalOK
        <3>3. InQueue(u)' <=> Waits(u) /\ mode'[u] = "none"
            BY <3>1, <3>2 DEF InQueue, Waits
        <3>4. QED
            BY <1>11, <1>14, <1>M, <2>1, <3>1, <3>3
    <2>2. ~InQueue(t)'
        BY <1>14 DEF InQueue, Waits
    <2>3. QED
        BY <1>12, <2>1, <2>2
<1>17. \A u \in Threads : ~Given(u) /\ ~signal_pending[u] /\ L[u] = <<>>
    <2>1. \A u \in Threads : ~Given(u)
        <3>1. ~Given(t)
            BY DEF Given, Waits
        <3>2. \A u \in Threads : u # t => ~Given(u)
            BY <1>3, <1>11 DEF Given
        <3>3. QED
            BY <3>1, <3>2
    <2>2. ASSUME NEW u \in Threads PROVE L[u] = <<>>
        <3>1. L[u] \in Seq(Threads)
            BY DEF Lists
        <3>2. \A i \in 1..Len(L[u]) : L[u][i] \in Threads /\ Given(L[u][i])
            BY <1>2, <3>1 DEF WakeInv
        <3>3. ~(1 \in 1..Len(L[u]))
            BY <2>1, <3>2
        <3>4. L[u] # <<>> => Len(L[u]) \in Nat \ {0}
            BY <3>1, EmptySeq
        <3>5. L[u] # <<>> => 1 \in 1..Len(L[u])
            BY <3>4
        <3>6. QED
            BY <3>3, <3>5
    <2>3. QED
        BY <1>2, <2>1, <2>2 DEF WakeInv
<1>18. ASSUME NEW u \in Threads PROVE LocalOK(u)'
    <2>1. Given(u)' => mode'[u] = IF tag'[u] = "shared" THEN "rd" ELSE "wr"
        BY <1>9, <1>15, <1>M
    <2>2. CASE u = t
        <3>1. mode'[t] = "none" <=> back'[t] = "idle"
            <4>1. InQueue(t) <=> back[t] # "idle"
                BY DEF InQueue, Waits
            <4>2. QED
                BY <1>12, <1>14, <1>M, <4>1
        <3>2. /\ back[t] = "up_wait" => tag[t] = "upgrade"
              /\ back[t] = "down_wait" => tag[t] = "shared"
            BY <1>1 DEF LocalOK
        <3>3. QED
            BY <1>14, <2>1, <2>2, <3>1, <3>2 DEF LocalOK
    <2>3. CASE u # t /\ u \notin W
        BY <1>1, <1>M, <2>3, OthersStay
    <2>4. CASE u # t /\ u \in W
        <3>1. Waits(u) /\ LocalOK(u) /\ mode[u] = "none"
            BY <1>1, <1>3, <1>7, <1>11, <2>4
        <3>2. /\ pc'[u] = pc[u] /\ back'[u] = back[u] /\ want'[u] = want[u]
              /\ excl'[u] = excl[u] /\ cur'[u] = cur[u] /\ wait_list'[u] = wait_list[u]
            BY <2>4 DEF Frame
        <3>3. QED
            BY <2>1, <3>1, <3>2 DEF LocalOK, Waits
    <2>5. QED
        BY <2>2, <2>3, <2>4
<1>19. HoldInv'
    <2>1. Cardinality(W) = m
        <3> DEFINE q == [i \in 1..m |-> queue[i][1]]
        <3>1. q \in Seq(Threads) /\ Len(q) = m
            BY <1>4, <1>6
        <3>2. \A i, j \in 1..Len(q) : q[i] = q[j] => i = j
            BY <1>1, <1>4, <3>1 DEF QueueInv
        <3>3. \A i \in 1..m : q[i] = queue[i][1]
            OBVIOUS
        <3> HIDE DEF q
        <3>4. {q[i] : i \in 1..Len(q)} = W
            BY <1>W, <3>1, <3>3
        <3>5. QED
            BY <3>1, <3>2, <3>4, Counted
    <2>2. W \subseteq Threads /\ W # {}
        BY <1>4, <1>6, <1>7
    <2>3. \A u \in Threads : mode'[u] = IF u \in W THEN held ELSE "none"
        BY <1>3, <1>M
    <2>4. held = "rd" => ~val'.wlocked /\ val'.readers = Cardinality(W)
        BY <2>1
    <2>5. held = "wr" => val'.wlocked /\ val'.readers = 0
        OBVIOUS
    <2>6. held = "wr" => val'.wlocked /\ val'.readers = 0 /\ \A u, v \in W : u = v
        BY <1>10, <2>5
    <2>7. QED
        BY <1>1, <1>3, <1>14, <2>2, <2>3, <2>4, <2>6, HoldPass, Zenon
<1>20. QueueInv'
    <2>1. \A i, j \in 1..Len(queue') : queue'[i][1] = queue'[j][1] => i = j
        <3>1. SUFFICES ASSUME NEW i \in 1..Len(queue'), NEW j \in 1..Len(queue'),
                              queue'[i][1] = queue'[j][1]
                       PROVE  i = j
            OBVIOUS
        <3>2. /\ i + m \in 1..Len(queue) /\ j + m \in 1..Len(queue)
              /\ queue[i + m][1] = queue[j + m][1]
            BY <1>5, <3>1
        <3>3. i + m = j + m
            BY <1>1, <3>2 DEF QueueInv
        <3>4. QED
            BY <1>4, <3>3
    <2>2. \A u \in Threads : InQueue(u)' <=> \E i \in 1..Len(queue') : queue'[i][1] = u
        <3>1. ASSUME NEW u \in Threads, InQueue(u), u \notin W
              PROVE  \E i \in 1..Len(queue') : queue'[i][1] = u
            <4>1. PICK i \in 1..Len(queue) : queue[i][1] = u
                BY <1>8, <3>1
            <4>2. i \notin 1..m
                BY <1>6, <3>1, <4>1
            <4>3. i - m \in 1..Len(queue') /\ (i - m) + m = i
                BY <1>4, <1>5, <4>2
            <4>4. QED
                BY <1>5, <4>1, <4>3
        <3>2. ASSUME NEW u \in Threads, NEW i \in 1..Len(queue'), queue'[i][1] = u
              PROVE  InQueue(u) /\ u \notin W
            <4>1. i + m \in 1..Len(queue) /\ queue[i + m][1] = u
                BY <1>5, <3>2
            <4>2. ~(i + m \in 1..m)
                BY <1>4
            <4>3. QED
                BY <1>6, <4>1, <4>2
        <3>3. QED
            BY <1>16, <3>1, <3>2
    <2>3. \A i \in 1..Len(queue') : queue'[i][2] = tag'[queue'[i][1]]
        BY <1>5, <1>6
    <2>4. \A i \in 1..Len(queue') : queue'[i][2] # "upgrade"
        <3>1. \A i \in 1..Len(queue') : i + m # 1
            BY <1>4
        <3>2. QED
            BY <1>1, <1>5, <3>1 DEF QueueInv
    <2>5. Locked(val')
        BY <1>4, <1>14 DEF Locked
    <2>6. queue' # <<>> /\ queue'[1][2] = "shared" => val'.wlocked
        <3>1. SUFFICES ASSUME queue' # <<>>, queue'[1][2] = "shared", held = "rd"
                       PROVE  FALSE
            BY <1>14
        <3>2. 1 \in 1..Len(queue')
            <4>1. Len(queue') # 0 /\ Len(queue') \in Nat
                BY <3>1, EmptySeq DEF TypeOK
            <4>2. QED
                BY <4>1
        <3>3. queue'[1] = queue[1 + m] /\ 1 + m = m + 1 /\ m < Len(queue)
            BY <1>4, <1>5, <3>2
        <3>4. queue[1][2] = "shared"
            BY <3>1
        <3>5. QED
            BY <3>1, <3>3, <3>4 DEF Serves
    <2>7. val'.waitq = IF queue' = <<>> THEN NULL ELSE queue'[Len(queue')][1]
        <3>1. CASE m = Len(queue)
            <4>1. Len(queue') = 0
                BY <1>4, <1>5, <3>1
            <4>2. queue' = <<>>
                BY <4>1, EmptySeq DEF TypeOK
            <4>3. QED
                BY <3>1, <4>2
        <3>2. CASE m # Len(queue)
            <4>1. Len(queue') # 0 /\ Len(queue') \in 1..Len(queue') /\ Len(queue') + m = Len(queue)
                BY <1>4, <1>5, <3>2
            <4>2. queue' # <<>>
                BY <4>1
            <4>3. queue # <<>>
                BY <1>4
            <4>4. queue'[Len(queue')] = queue[Len(queue)]
                BY <1>5, <4>1
            <4>5. val.waitq = queue[Len(queue)][1]
                BY <1>1, <4>3 DEF QueueInv
            <4>6. QED
                BY <3>2, <4>2, <4>4, <4>5
        <3>3. QED
            BY <3>1, <3>2
    <2>8. QED
        BY <2>1, <2>2, <2>3, <2>4, <2>5, <2>6, <2>7 DEF QueueInv
<1>21. PICK z \in Nat : z = 0
    OBVIOUS
<1>22. CutInv(z)'
    <2>1. \A u \in Threads : wait_list'[u] = NULL
        <3>1. \A u \in Threads : u # t => pc[u] # "fair"
            BY <1>1, <1>3 DEF LocalOK
        <3>2. \A u \in Threads : u # t => wait_list[u] = NULL
            BY <1>1, <3>1 DEF LocalOK
        <3>3. QED
            BY <1>13, <3>2
    <2>2. ASSUME NEW i \in 1..Len(queue')
          PROVE  next'[queue'[i][1]] = IF i \in {1, z + 1} THEN NULL ELSE queue'[i - 1][1]
        <3>1. /\ i + m \in 1..Len(queue) /\ queue'[i] = queue[i + m]
              /\ next'[queue[i + m][1]] =
                    IF i + m \in {1, m + 1} THEN NULL ELSE queue[(i + m) - 1][1]
            BY <1>5 DEF Passes
        <3>2. i \in Nat /\ i >= 1 /\ i <= Len(queue') /\ Len(queue') \in Nat
            BY <1>4, <1>5
        <3>3. i + m # 1
            BY <1>4, <3>2
        <3>4. i + m = m + 1 <=> i = 1
            BY <1>4, <3>2
        <3>5. z + 1 = 1
            BY <1>21
        <3>6. CASE i = 1
            BY <3>1, <3>4, <3>6
        <3>7. CASE i # 1
            <4>1. i - 1 \in 1..Len(queue') /\ (i - 1) + m = (i + m) - 1
                BY <1>4, <3>2, <3>7
            <4>2. queue'[i - 1] = queue[(i + m) - 1]
                BY <1>5, <4>1
            <4>3. next'[queue[i + m][1]] = queue[(i + m) - 1][1]
                BY <3>1, <3>3, <3>4, <3>7
            <4>4. QED
                BY <3>1, <3>5, <3>7, <4>2, <4>3
        <3>8. QED
            BY <3>6, <3>7
    <2>3. ~(z > 0)
        BY <1>21
    <2>4. QED
        BY <2>1, <2>2, <2>3 DEF CutInv
<1>23. ASSUME NEW u \in Threads PROVE SnapOK(u, z)'
    <2>1. CASE u = t
        BY <1>14, <2>1 DEF SnapOK
    <2>2. CASE u # t
        BY <1>1, <1>3, <2>2, SnapSole
    <2>3. QED
        BY <2>1, <2>2
<1>24. PICK N \in Lists :
          /\ \A u \in Threads : u # t => N[u] = <<>>
          /\ N[t] \in Seq(Threads) /\ Len(N[t]) = m /\ N[t] # <<>>
          /\ \A i \in 1..m : m + 1 - i \in 1..m /\ N[t][i] = queue[m + 1 - i][1]
    <2> DEFINE N == [L EXCEPT ![t] = Down(1, m)]
    <2>1. /\ Down(1, m) \in Seq(Threads) /\ Len(Down(1, m)) = m
          /\ \A i \in 1..m : Down(1, m)[i] = queue[m + 1 - i][1]
        BY <1>1, DownFirst
    <2>2. N \in Lists /\ N[t] = Down(1, m) /\ \A u \in Threads : u # t => N[u] = <<>>
        BY <1>17, <2>1 DEF Lists
    <2>3. \A i \in 1..m : m + 1 - i \in 1..m
        BY <1>4
    <2> HIDE DEF N
    <2>4. N[t] # <<>>
        BY <1>4, <2>1, <2>2, EmptySeq
    <2>5. QED
        BY <2>1, <2>2, <2>3, <2>4
<1>25. \A u \in Threads : \A i \in 1..Len(N[u]) : u = t
    <2>1. Len(<<>>) = 0 /\ ~(\E i \in 1..0 : TRUE)
        OBVIOUS
    <2>2. QED
        BY <1>24, <2>1
<1>26. \A w \in Threads : On(N, w) <=> w \in W
    <2>1. ASSUME NEW w \in Threads, On(N, w) PROVE w \in W
        <3>1. PICK i \in 1..m : N[t][i] = w
            BY <1>24, <1>25, <2>1 DEF On
        <3>2. m + 1 - i \in 1..m /\ w = queue[m + 1 - i][1]
            BY <1>24, <3>1
        <3>3. QED
            BY <1>W, <3>2
    <2>2. ASSUME NEW w \in W PROVE On(N, w)
        <3>1. PICK i \in 1..m : w = queue[i][1]
            BY <1>W
        <3>2. m + 1 - i \in 1..m /\ m + 1 - (m + 1 - i) = i
            BY <1>4
        <3>3. m + 1 - i \in 1..Len(N[t]) /\ N[t][m + 1 - i] = w
            BY <1>24, <3>1, <3>2
        <3>4. QED
            BY <3>3 DEF On
    <2>3. QED
        BY <1>7, <2>1, <2>2
<1>27. WakeInv(N)'
    <2>1. \A u \in Threads : N[u] # <<>> => pc'[u] \in {"wake", "wake_all"}
        BY <1>14, <1>24
    <2>2. \A u \in Threads : pc'[u] \in {"wake", "wake_all"} =>
             cur'[u] = IF N[u] = <<>> THEN NULL ELSE N[u][1]
        <3>1. cur'[t] = N[t][1]
            <4>1. 1 \in 1..m /\ m + 1 - 1 = m
                BY <1>4
            <4>2. QED
                BY <1>24, <4>1
        <3>2. \A u \in Threads : u # t => pc'[u] = pc[u] /\ cur'[u] = cur[u]
            BY DEF Frame
        <3>3. QED
            BY <1>2, <1>17, <1>24, <3>1, <3>2, SMTT(30) DEF WakeInv
    <2>3. \A u \in Threads : pc'[u] = "wake" => Len(N[u]) = 1
        <3>1. pc'[t] = "wake" => m = 1
            BY DEF Serves
        <3>2. \A u \in Threads : u # t => pc[u] # "wake"
            <4>1. \A u \in Threads : pc[u] = "wake" => Len(<<>>) = 1
                BY <1>2, <1>17 DEF WakeInv
            <4>2. QED
                BY <4>1
        <3>3. pc'[t] = "wake" => Len(N[t]) = 1
            BY <1>24, <3>1
        <3>4. \A u \in Threads : u # t => pc'[u] # "wake"
            BY <1>13, <3>2
        <3>5. QED
            BY <3>3, <3>4, Zenon
    <2>4. \A u, v \in Threads : \A i \in 1..Len(N[u]), j \in 1..Len(N[v]) :
             N[u][i] = N[v][j] => u = v /\ i = j
        <3>1. ASSUME NEW i \in 1..m, NEW j \in 1..m, N[t][i] = N[t][j]
              PROVE  i = j
            <4>1. m + 1 - i = m + 1 - j
                BY <1>1, <1>4, <1>24, <3>1 DEF QueueInv
            <4>2. QED
                BY <1>4, <4>1
        <3>2. ASSUME NEW u \in Threads, NEW i \in 1..Len(N[u])
              PROVE  u = t /\ i \in 1..m
            BY <1>24, <1>25
        <3>3. QED
            BY <3>1, <3>2, Zenon
    <2>5. ASSUME NEW u \in Threads, NEW i \in 1..Len(N[u])
          PROVE  /\ Given(N[u][i])' /\ ~signal_pending'[N[u][i]]
                 /\ pc'[u] = "wake_all" => tag'[N[u][i]] = "shared"
                 /\ next'[N[u][i]] = IF i = Len(N[u]) THEN NULL ELSE N[u][i + 1]
        <3>1. u = t /\ i \in 1..m
            BY <1>24, <1>25
        <3>2. PICK w \in W : w = N[t][i] /\ w = queue[m + 1 - i][1]
            BY <1>24, <1>W, <3>1
        <3>3. Given(w)' /\ ~signal_pending'[w] /\ (pc'[t] = "wake_all" => tag'[w] = "shared")
            BY <1>7, <1>9, <1>15, <1>17
        <3>4. next'[w] = IF i = m THEN NULL ELSE N[t][i + 1]
            <4>1. i \in Nat /\ i >= 1 /\ i <= m
                BY <1>4, <3>1
            <4>2. m + 1 - i \in 1..Len(queue)
                BY <1>4, <4>1
            <4>3. m + 1 - i = 1 <=> i = m
                BY <1>4, <4>1
            <4>4. m + 1 - i # m + 1
                BY <1>4, <4>1
            <4>5. (m + 1 - i) - 1 = m + 1 - (i + 1)
                BY <1>4, <4>1
            <4>6. i # m => i + 1 \in 1..m
                BY <1>4, <4>1
            <4>7. next'[w] = IF m + 1 - i \in {1, m + 1} THEN NULL
                             ELSE queue[(m + 1 - i) - 1][1]
                <5>1. PICK a \in 1..Len(queue) : a = m + 1 - i
                    BY <4>2
                <5>2. next'[queue[a][1]] = IF a \in {1, m + 1} THEN NULL ELSE queue[a - 1][1]
                    BY DEF Passes
                <5>3. QED
                    BY <3>2, <5>1, <5>2
            <4>8. i # m => N[t][i + 1] = queue[m + 1 - (i + 1)][1]
                BY <1>24, <4>6
            <4>9. QED
                BY <4>3, <4>4, <4>5, <4>7, <4>8
        <3>5. Len(N[u]) = m
            BY <1>24, <3>1
        <3>6. QED
            BY <3>1, <3>2, <3>3, <3>4, <3>5
    <2>6. \A w \in Threads : Given(w)' => signal_pending'[w] \/ On(N, w)
        BY <1>15, <1>26
    <2>7. \A w \in Threads : signal_pending'[w] => Given(w)'
        BY <1>17
    <2>8. \A w \in Threads :
             ~On(N, w) /\ ~InQueue(w)' /\ pc'[w] # "contention" => next'[w] = NULL
        <3>1. SUFFICES ASSUME NEW w \in Threads, w \notin W, ~InQueue(w),
                              pc'[w] # "contention"
                       PROVE  next'[w] = NULL
            BY <1>16, <1>26
        <3>2. ~On(L, w)
            <4>1. Len(<<>>) = 0 /\ ~(\E i \in 1..0 : TRUE)
                OBVIOUS
            <4>2. QED
                BY <1>17, <4>1 DEF On
        <3>3. pc[w] # "contention"
            BY <1>13, <3>1
        <3>4. QED
            BY <1>2, <3>1, <3>2, <3>3 DEF WakeInv, Passes
    <2>9. QED
        BY <2>1, <2>2, <2>3, <2>4, <2>5, <2>6, <2>7, <2>8 DEF WakeInv
<1>28. ListsOK(z, N)'
    BY <1>22, <1>23, <1>27 DEF ListsOK
<1>29. Inv'
    BY <1>18, <1>19, <1>20 DEF Inv
<1>30. QED
    BY <1>28, <1>29 DEF IInv

-------------------------------------------------------------------------------
(* The steps. *)

(* A step of t that changes neither the word nor the queue. *)
LEMMA QuietStep ==
    ASSUME Inv, NEW k \in Nat, NEW L \in Lists, ListsOK(k, L), NEW t \in Threads, Frame(t),
           pc[t] \notin {"wake", "wake_all"}, pc'[t] \notin {"wake", "wake_all"},
           signal_pending' = signal_pending, wait_list' = wait_list, queue' = queue,
           val' = val, mode' = mode, TypeOK', LocalOK(t)', SnapOK(t, k)',
           \A u \in Threads : u # t => next'[u] = next[u],
           InQueue(t)' <=> InQueue(t), Given(t)' <=> Given(t),
           InQueue(t) \/ Given(t) => next'[t] = next[t] /\ tag'[t] = tag[t],
           ~InQueue(t) /\ pc'[t] # "contention" =>
              next'[t] = NULL \/ (next'[t] = next[t] /\ pc[t] # "contention")
    PROVE  IInv'
<1>1. HoldInv'
    BY DEF Inv, HoldInv, Holders, Sole
<1>2. queue # <<>> => Locked(val')
    BY DEF Inv, QueueInv
<1>3. QED
    BY <1>1, <1>2, CalmStep

(* What a holder of the lock finds in the word. *)
LEMMA Fresh ==
    ASSUME Inv, NEW k \in Nat, NEW L \in Lists, ListsOK(k, L), NEW t \in Threads,
           mode[t] # "none"
    PROVE  /\ IF mode[t] = "wr" THEN val.wlocked /\ val.readers = 0
                                ELSE ~val.wlocked /\ val.readers # 0
           /\ val.waitq # NULL <=> queue # <<>>
           /\ val.waitq # NULL /\ (mode[t] = "rd" => val.readers = 1)
                 => Sole(t) /\ \E j \in (k + 1)..Len(queue) : queue[j][1] = val.waitq
<1>1. TypeOK /\ HoldInv /\ QueueInv /\ CutInv(k)
    BY DEF Inv, ListsOK
<1>2. mode[t] \in {"rd", "wr"}
    BY <1>1 DEF TypeOK
<1>3. IF mode[t] = "wr" THEN val.wlocked /\ val.readers = 0
                        ELSE ~val.wlocked /\ val.readers # 0
    <2>1. mode[t] = "rd" => ~val.wlocked
        BY <1>1, HeldWord DEF Sole
    <2>2. QED
        BY <1>1, <1>2, <2>1, HeldWord
<1>4. queue # <<>> => /\ Len(queue) \in (k + 1)..Len(queue) /\ Len(queue) \in 1..Len(queue)
                      /\ queue[Len(queue)][1] \in Threads
    <2>1. queue # <<>> => Len(queue) \in Nat \ {0}
        BY <1>1, EmptySeq DEF TypeOK
    <2>2. k > 0 => k < Len(queue)
        BY <1>1 DEF CutInv
    <2>3. queue # <<>> => Len(queue) \in (k + 1)..Len(queue) /\ Len(queue) \in 1..Len(queue)
        BY <2>1, <2>2
    <2>4. QED
        BY <1>1, <2>3, QueueTypes
<1>5. val.waitq = IF queue = <<>> THEN NULL ELSE queue[Len(queue)][1]
    BY <1>1 DEF QueueInv
<1>6. val.waitq # NULL <=> queue # <<>>
    BY <1>4, <1>5, NullAssumption
<1>7. (mode[t] = "rd" => val.readers = 1) => Sole(t)
    BY <1>1, <1>2, HeldWord
<1>8. QED
    BY <1>3, <1>4, <1>5, <1>6, <1>7

(* The call of lw_rwlock_lock. *)
LEMMA LockKeeps ==
    ASSUME Inv, NEW k \in Nat, NEW L \in Lists, ListsOK(k, L), NEW t \in Threads, Lock(t),
           UNCHANGED client
    PROVE  IInv'
<1>1. TypeOK /\ LocalOK(t)
    BY DEF Inv
<1>2. /\ pc[t] = "idle" /\ pc' = [pc EXCEPT ![t] = "lock"]
      /\ old' = [old EXCEPT ![t] = val]
      /\ \E op \in {"rd", "wr", "tryrd", "trywr"} : want' = [want EXCEPT ![t] = op]
      /\ UNCHANGED <<val, next, tag, signal_pending, cur, back, excl, wait_list, mode, queue>>
    BY DEF Lock, Goto, Read, Set, word, listLocals, history
<1>3. TypeOK'
    BY <1>1, <1>2 DEF TypeOK, Places
<1>4. Frame(t)
    BY <1>1, <1>2 DEF TypeOK, Frame
<1>5. pc'[t] = "lock" /\ want'[t] # "none"
    BY <1>1, <1>2 DEF TypeOK
<1>6. LocalOK(t)'
    BY <1>1, <1>2, <1>5 DEF LocalOK, Given, Waits
<1>7. SnapOK(t, k)'
    BY <1>5 DEF SnapOK
<1>8. ~InQueue(t) /\ ~InQueue(t)' /\ ~Given(t) /\ ~Given(t)'
    BY <1>2, <1>5 DEF InQueue, Given, Waits
<1>9. QED
    BY <1>2, <1>3, <1>4, <1>5, <1>6, <1>7, <1>8, QuietStep

(* Adding to and taking from the number of readers. *)
LEMMA PlusIs ==
    ASSUME NEW w \in Word, NEW n \in Nat
    PROVE  /\ Plus(w, n) \in Word /\ Plus(w, n).readers = (w.readers + n) % ReaderMod
           /\ Plus(w, n).wlocked = w.wlocked /\ Plus(w, n).waitq = w.waitq
           /\ w.readers \in Nat /\ w.readers < ReaderMod /\ ReaderMod \in Nat /\ ReaderMod > 0
           /\ w.readers + 1 < ReaderMod => Plus(w, 1).readers = w.readers + 1
           /\ w.readers # 0 => Plus(w, ReaderMod - 1).readers = w.readers - 1
<1>1. /\ ReaderMod \in Nat /\ ReaderMod > 0
      /\ w.readers \in Nat /\ w.readers < ReaderMod /\ w.readers \in 0..(ReaderMod - 1)
    <2>1. w.readers \in 0..(ReaderMod - 1) /\ ReaderMod \in Nat
        BY ParametersAssumption DEF Word
    <2>2. QED
        BY <2>1
<1>2. \A a \in Nat : Plus(w, a) = [w EXCEPT !.readers = (w.readers + a) % ReaderMod]
    BY DEF Plus, Word
<1>3. \A a \in Nat : (w.readers + a) % ReaderMod \in 0..(ReaderMod - 1)
    BY <1>1
<1>4. \A a \in Nat : /\ Plus(w, a).readers = (w.readers + a) % ReaderMod
                     /\ Plus(w, a).wlocked = w.wlocked /\ Plus(w, a).waitq = w.waitq
                     /\ Plus(w, a) \in Word
    BY <1>2, <1>3 DEF Word
<1>5. w.readers + 1 < ReaderMod => Plus(w, 1).readers = w.readers + 1
    BY <1>1, <1>4, ModIs
<1>6. w.readers # 0 => Plus(w, ReaderMod - 1).readers = w.readers - 1
    <2>1. SUFFICES ASSUME w.readers # 0 PROVE Plus(w, ReaderMod - 1).readers = w.readers - 1
        OBVIOUS
    <2>2. ReaderMod - 1 \in Nat /\ w.readers + (ReaderMod - 1) = (w.readers - 1) + ReaderMod
          /\ w.readers - 1 \in Nat /\ w.readers - 1 < ReaderMod
        BY <1>1, <2>1
    <2>3. ((w.readers - 1) + ReaderMod) % ReaderMod = w.readers - 1
        BY <2>2, ModIs
    <2>4. QED
        BY <1>4, <2>2, <2>3
<1>7. QED
    BY <1>1, <1>4, <1>5, <1>6

LEMMA FreeIs ==
    /\ FreeWord(FALSE) \in Word /\ ~FreeWord(FALSE).wlocked
    /\ FreeWord(FALSE).readers = 0 /\ FreeWord(FALSE).waitq = NULL
<1>1. 0 \in 0..(ReaderMod - 1)
    BY ParametersAssumption, NullAssumption, FS_CardinalityType
<1>2. QED
    BY <1>1 DEF FreeWord, Word, Ids

(* The lock is free for t, who takes it. *)
LEMMA EnterStep ==
    ASSUME Inv, NEW k \in Nat, NEW L \in Lists, ListsOK(k, L), NEW t \in Threads,
           pc[t] \in {"lock", "contention"}, Grantable(old[t], Exclusive(t)), Enter(t),
           \/ next' = next /\ pc[t] = "lock"
           \/ next' = [next EXCEPT ![t] = NULL],
           UNCHANGED <<tag, signal_pending, cur, back, excl, wait_list, client>>
    PROVE  IInv'
<1>1. TypeOK /\ LocalOK(t) /\ HoldInv /\ QueueInv
    BY DEF Inv
<1> DEFINE x == Exclusive(t)
           m == ModeOf(t)
<1>2. /\ val = old[t] /\ val' = Granted(val, x) /\ old' = [old EXCEPT ![t] = FreeWord(val.unfair)]
      /\ pc' = [pc EXCEPT ![t] = m] /\ want' = [want EXCEPT ![t] = "none"]
      /\ mode' = [mode EXCEPT ![t] = m] /\ queue' = queue
    BY DEF Enter, Swapped, Forget, Goto, Set
<1>3. val \in Word /\ val.unfair = FALSE
    BY <1>1 DEF TypeOK, Word
<1>4. m \in {"rd", "wr"} /\ (m = "wr" <=> x)
    BY DEF ModeOf
<1>5. mode[t] = "none" /\ t \notin Holders("rd")
    BY <1>1 DEF LocalOK, Holders
<1> HIDE DEF m, x
<1>6. val.waitq = NULL /\ queue = <<>>
    <2>1. val.waitq = NULL
        BY <1>2, <1>3 DEF Grantable, x
    <2>2. queue # <<>> => Len(queue) \in 1..Len(queue)
        <3>1. queue # <<>> => Len(queue) \in Nat \ {0}
            BY <1>1, EmptySeq DEF TypeOK
        <3>2. QED
            BY <3>1
    <2>3. queue # <<>> => val.waitq \in Threads
        BY <1>1, <2>2, QueueTypes DEF QueueInv
    <2>4. QED
        BY <2>1, <2>3, NullAssumption
<1>7. val.readers \in Nat /\ val.readers + 1 < ReaderMod
    <2>1. Cardinality(Holders("rd") \cup {t}) = Cardinality(Holders("rd")) + 1
        BY <1>5, OneMore DEF Holders
    <2>2. Holders("rd") \cup {t} \subseteq Threads
        BY DEF Holders
    <2>3. QED
        BY <1>1, <2>1, <2>2, Few, HeldWord DEF HoldInv
<1>8. /\ val' \in Word /\ val'.waitq = NULL
      /\ m = "rd" => ~val.wlocked /\ ~val'.wlocked /\ val'.readers = val.readers + 1
      /\ m = "wr" => ~Locked(val) /\ val'.wlocked /\ val'.readers = 0
    <2>1. CASE x
        <3>1. ~Locked(val) /\ val' = [val EXCEPT !.wlocked = TRUE]
            BY <1>2, <2>1 DEF Grantable, Granted, x
        <3>2. QED
            BY <1>3, <1>4, <1>6, <2>1, <3>1 DEF Word, Locked
    <2>2. CASE ~x
        <3>1. ~val.wlocked /\ val' = Plus(val, 1)
            BY <1>2, <2>2 DEF Grantable, Granted, x
        <3>2. QED
            BY <1>3, <1>4, <1>6, <1>7, <2>2, <3>1, PlusIs, ZenonT(30)
    <2>3. QED
        BY <2>1, <2>2
<1>9. TypeOK'
    <2>1. FreeWord(val.unfair) \in Word /\ m \in Places /\ NULL \in Ids
        BY <1>3, <1>4, FreeIs DEF Places, Ids
    <2>2. QED
        BY <1>1, <1>2, <1>4, <1>8, <2>1 DEF TypeOK
<1>10. Frame(t)
    BY <1>1, <1>2 DEF TypeOK, Frame
<1>11. pc'[t] = m /\ mode'[t] = m /\ want'[t] = "none"
    BY <1>1, <1>2 DEF TypeOK
<1>12. LocalOK(t)'
    BY <1>1, <1>4, <1>11 DEF LocalOK, Given, Waits
<1>13. SnapOK(t, k)'
    BY <1>4, <1>11 DEF SnapOK
<1>14. ~InQueue(t) /\ ~InQueue(t)' /\ ~Given(t) /\ ~Given(t)'
    BY <1>4, <1>11 DEF InQueue, Given, Waits
<1>15. HoldInv'
    BY <1>1, <1>2, <1>4, <1>5, <1>8, HoldAcquire
<1>16. /\ \A u \in Threads : u # t => mode'[u] = mode[u] /\ next'[u] = next[u]
       /\ next'[t] = NULL \/ (next'[t] = next[t] /\ pc[t] # "contention")
    BY <1>1, <1>2 DEF TypeOK
<1>17. pc'[t] \notin {"wake", "wake_all"} /\ pc[t] \notin {"wake", "wake_all"}
    BY <1>4, <1>11
<1>18. QED
    BY <1>2, <1>6, <1>8, <1>9, <1>10, <1>12, <1>13, <1>14, <1>15, <1>16, <1>17, CalmStep

(* A turn of the loop of lw_rwlock_lock. *)
LEMMA LockTurnKeeps ==
    ASSUME Inv, NEW k \in Nat, NEW L \in Lists, ListsOK(k, L), NEW t \in Threads, LockTurn(t),
           UNCHANGED client
    PROVE  IInv'
<1>1. TypeOK /\ LocalOK(t)
    BY DEF Inv
<1>2. /\ pc[t] = "lock"
      /\ UNCHANGED <<next, tag, signal_pending, cur, back, excl, wait_list>>
    BY DEF LockTurn, listLocals
<1>3. CASE Grantable(old[t], Exclusive(t)) /\ Enter(t)
    BY <1>2, <1>3, EnterStep
<1>4. ASSUME ~(Grantable(old[t], Exclusive(t)) /\ Enter(t))
      PROVE  IInv'
    <2>1. val' = val /\ mode' = mode /\ queue' = queue
        BY <1>4 DEF LockTurn, Missed, history
    <2>2. \/ /\ old' = [old EXCEPT ![t] = val]
             /\ pc' = pc /\ want' = want
          \/ /\ old' = [old EXCEPT ![t] = FreeWord(val.unfair)]
             /\ pc' = [pc EXCEPT ![t] = "idle"] /\ want' = [want EXCEPT ![t] = "none"]
          \/ /\ old' = [old EXCEPT ![t] = val]
             /\ pc' = [pc EXCEPT ![t] = "contention"] /\ want' = want
             /\ want[t] \notin {"tryrd", "trywr"}
        BY <1>4 DEF LockTurn, Missed, Read, Forget, Goto, Set
    <2>3. TypeOK'
        <3>1. val \in Word /\ FreeWord(val.unfair) \in Word
            BY <1>1, FreeIs DEF TypeOK, Word
        <3>2. {"idle", "contention"} \subseteq Places
            BY DEF Places
        <3>3. old' \in [Threads -> Word] /\ pc' \in [Threads -> Places]
            BY <1>1, <2>2, <3>1, <3>2 DEF TypeOK
        <3>4. want' \in [Threads -> {"none", "rd", "wr", "tryrd", "trywr"}]
            BY <1>1, <2>2 DEF TypeOK
        <3>5. QED
            BY <1>1, <1>2, <2>1, <3>3, <3>4 DEF TypeOK
    <2>4. Frame(t)
        BY <1>1, <1>2, <2>2 DEF TypeOK, Frame
    <2>5. /\ pc'[t] \in {"lock", "idle", "contention"}
          /\ pc'[t] # "idle" => want'[t] = want[t]
          /\ pc'[t] = "contention" => want[t] \notin {"tryrd", "trywr"}
        BY <1>1, <1>2, <2>2 DEF TypeOK
    <2>6. LocalOK(t)'
        <3>1. want[t] \in {"none", "rd", "wr", "tryrd", "trywr"} /\ want[t] # "none"
            BY <1>1, <1>2 DEF TypeOK, LocalOK
        <3>2. QED
            BY <1>1, <1>2, <2>1, <2>5, <3>1 DEF LocalOK, Given, Waits
    <2>7. SnapOK(t, k)'
        BY <2>5 DEF SnapOK
    <2>8. ~InQueue(t) /\ ~InQueue(t)' /\ ~Given(t) /\ ~Given(t)'
        BY <1>2, <2>5 DEF InQueue, Given, Waits
    <2>9. QED
        BY <1>2, <2>1, <2>3, <2>4, <2>5, <2>6, <2>7, <2>8, QuietStep
<1>5. QED
    BY <1>3, <1>4

(* A turn of the loop of lw_rwlock_lock_contention. *)
LEMMA ContentionKeeps ==
    ASSUME Inv, NEW k \in Nat, NEW L \in Lists, ListsOK(k, L), NEW t \in Threads,
           Contention(t), UNCHANGED client
    PROVE  IInv'
<1> DEFINE ok == Grantable(old[t], Exclusive(t))
           kind == IF Exclusive(t) THEN "excl" ELSE "shared"
<1>1. TypeOK /\ LocalOK(t) /\ QueueInv /\ HoldInv
    BY DEF Inv
<1>2. /\ pc[t] = "contention"
      /\ next' = [next EXCEPT ![t] = IF ok THEN NULL ELSE old[t].waitq]
      /\ tag' = IF ok THEN tag ELSE [tag EXCEPT ![t] = kind]
      /\ UNCHANGED <<signal_pending, cur, back, excl, wait_list>>
    BY DEF Contention, Set, listLocals
<1>3. mode[t] = "none" /\ want[t] \in {"rd", "wr"} /\ ~InQueue(t) /\ ~Given(t)
    BY <1>1, <1>2 DEF LocalOK, InQueue, Given, Waits
<1>4. /\ kind \in Kinds /\ kind \in {"excl", "shared"} /\ (kind = "shared" <=> want[t] = "rd")
      /\ kind = "excl" <=> Exclusive(t)
    BY <1>3 DEF Kinds, Exclusive
<1>5. old[t] \in Word /\ old[t].waitq \in Ids /\ val \in Word /\ val.unfair = FALSE
      /\ FreeWord(val.unfair) \in Word /\ NULL \in Ids /\ t \in Ids
    BY <1>1, FreeIs DEF TypeOK, Word, Ids
<1>6. next' \in [Threads -> Ids] /\ tag' \in [Threads -> Kinds]
      /\ \A u \in Threads : u # t => next'[u] = next[u] /\ tag'[u] = tag[u]
    <2>1. next' \in [Threads -> Ids] /\ \A u \in Threads : u # t => next'[u] = next[u]
        <3> HIDE DEF ok
        <3>1. QED
            BY <1>1, <1>2, <1>5 DEF TypeOK
    <2>2. tag' \in [Threads -> Kinds] /\ \A u \in Threads : u # t => tag'[u] = tag[u]
        <3> HIDE DEF ok, kind
        <3>1. QED
            BY <1>1, <1>2, <1>4 DEF TypeOK
    <2>3. QED
        BY <2>1, <2>2
<1> HIDE DEF kind
<1>7. CASE ok /\ Enter(t)
    BY <1>2, <1>7, EnterStep
<1>8. ASSUME ~ok, Swapped(t, [old[t] EXCEPT !.waitq = t]), Goto(t, "wait"),
             queue' = Append(queue, <<t, kind>>), UNCHANGED <<mode, want>>
      PROVE  IInv'
    <2>1. /\ val = old[t] /\ val' = [val EXCEPT !.waitq = t]
          /\ old' = [old EXCEPT ![t] = FreeWord(val.unfair)]
          /\ pc' = [pc EXCEPT ![t] = "wait"]
        BY <1>8 DEF Swapped, Forget, Goto, Set
    <2>2. /\ val' \in Word /\ val'.waitq = t /\ val'.wlocked = val.wlocked
          /\ val'.readers = val.readers
        BY <1>5, <2>1 DEF Word
    <2>3. TypeOK'
        <3>1. "wait" \in Places /\ <<t, kind>> \in Threads \X Kinds
            BY <1>4 DEF Places
        <3>2. queue' \in Seq(Threads \X Kinds)
            BY <1>1, <1>8, <3>1 DEF TypeOK
        <3>3. old' \in [Threads -> Word] /\ pc' \in [Threads -> Places]
            BY <1>1, <1>5, <2>1, <3>1 DEF TypeOK
        <3>4. QED
            BY <1>1, <1>2, <1>6, <1>8, <2>2, <3>2, <3>3 DEF TypeOK
    <2>4. Frame(t)
        BY <1>1, <1>2, <1>6, <1>8, <2>1 DEF TypeOK, Frame
    <2>5. pc'[t] = "wait" /\ tag'[t] = kind
        <3>1. pc'[t] = "wait"
            BY <1>1, <2>1 DEF TypeOK
        <3>2. tag' = [tag EXCEPT ![t] = kind]
            BY <1>2, <1>8
        <3>3. QED
            BY <1>1, <3>1, <3>2 DEF TypeOK
    <2>6. LocalOK(t)'
        BY <1>1, <1>2, <1>3, <1>4, <1>8, <2>5 DEF LocalOK, Given, Waits
    <2>7. HoldInv'
        BY <1>1, <1>8, <2>2 DEF HoldInv, Holders, Sole
    <2>8. Locked(val) /\ (kind = "shared" /\ queue = <<>> => val.wlocked)
        <3>1. val.waitq # NULL => queue # <<>>
            BY <1>1 DEF QueueInv
        <3>2. queue # <<>> => Locked(val)
            BY <1>1 DEF QueueInv
        <3>3. kind = "excl" => Locked(val) \/ val.waitq # NULL
            BY <1>4, <1>8, <2>1 DEF Grantable
        <3>4. kind = "shared" => val.wlocked \/ val.waitq # NULL
            BY <1>4, <1>8, <2>1 DEF Grantable
        <3>5. val.wlocked => Locked(val)
            BY DEF Locked
        <3>6. QED
            BY <1>4, <3>1, <3>2, <3>3, <3>4, <3>5
    <2>9. Locked(val')
        BY <2>2, <2>8 DEF Locked
    <2>10. mode' = [mode EXCEPT ![t] = "none"]
        BY <1>1, <1>3, <1>8 DEF TypeOK
    <2>11. next' = [next EXCEPT ![t] = val.waitq]
        BY <1>2, <1>8, <2>1
    <2>12. kind # "upgrade"
        BY <1>4
    <2>13. QED
        BY <1>2, <1>4, <1>8, <2>2, <2>3, <2>4, <2>5, <2>6, <2>7, <2>8, <2>9, <2>10, <2>11,
           <2>12, AppendStep
<1>9. ASSUME Missed(t), UNCHANGED <<pc, want, history>> PROVE IInv'
    <2>1. /\ val' = val /\ old' = [old EXCEPT ![t] = val] /\ mode' = mode /\ queue' = queue
          /\ pc' = pc /\ want' = want
        BY <1>9 DEF Missed, Read, Set, history
    <2>2. TypeOK'
        BY <1>1, <1>2, <1>5, <1>6, <2>1 DEF TypeOK
    <2>3. Frame(t)
        BY <1>1, <1>2, <1>6, <2>1 DEF TypeOK, Frame
    <2>4. LocalOK(t)'
        BY <1>1, <1>2, <2>1 DEF LocalOK, Given, Waits
    <2>5. SnapOK(t, k)'
        BY <1>2, <2>1 DEF SnapOK
    <2>6. ~InQueue(t)' /\ ~Given(t)'
        BY <1>2, <2>1 DEF InQueue, Given, Waits
    <2>7. QED
        BY <1>2, <1>3, <1>6, <2>1, <2>2, <2>3, <2>4, <2>5, <2>6, QuietStep
<1>10. \/ ok /\ Enter(t)
       \/ /\ ~ok /\ Swapped(t, [old[t] EXCEPT !.waitq = t]) /\ Goto(t, "wait")
          /\ queue' = Append(queue, <<t, kind>>) /\ UNCHANGED <<mode, want>>
       \/ Missed(t) /\ UNCHANGED <<pc, want, history>>
    BY DEF Contention, kind
<1>11. QED
    BY <1>7, <1>8, <1>9, <1>10

(* The wait for the signal, by each of the three kinds of waiters. *)
LEMMA WokenKeeps ==
    ASSUME Inv, NEW k \in Nat, NEW L \in Lists, ListsOK(k, L), NEW t \in Threads,
           LockWait(t) \/ DowngradeWait(t) \/ UpgradeWait(t), UNCHANGED client
    PROVE  IInv'
<1>1. TypeOK /\ LocalOK(t)
    BY DEF Inv
<1>2. PICK from \in {"wait", "down_wait", "up_wait"}, to \in {"rd", "wr"} :
         /\ Woken(t, from, to)
         /\ from = "wait" => to = ModeOf(t)
         /\ from = "down_wait" => to = "rd"
         /\ from = "up_wait" => to = "wr"
    <2>1. ModeOf(t) \in {"rd", "wr"}
        BY DEF ModeOf
    <2>2. CASE LockWait(t)
        BY <2>1, <2>2 DEF LockWait
    <2>3. CASE DowngradeWait(t)
        BY <2>3 DEF DowngradeWait
    <2>4. CASE UpgradeWait(t)
        BY <2>4 DEF UpgradeWait
    <2>5. QED
        BY <2>2, <2>3, <2>4
<1>3. /\ pc[t] = from /\ signal_pending[t] /\ pc' = [pc EXCEPT ![t] = to]
      /\ signal_pending' = [signal_pending EXCEPT ![t] = FALSE]
      /\ want' = [want EXCEPT ![t] = "none"]
      /\ UNCHANGED <<val, next, tag, old, cur, back, excl, wait_list, mode, queue>>
    BY <1>2 DEF Woken, Goto, Set, listLocals, history
<1>4. Waits(t) /\ Given(t)
    BY <1>2, <1>3 DEF Waits, ListsOK, WakeInv
<1>5. mode[t] = to
    <2>1. mode[t] = IF tag[t] = "shared" THEN "rd" ELSE "wr"
        BY <1>1, <1>4 DEF LocalOK
    <2>2. CASE from = "wait"
        <3>1. want[t] \in {"rd", "wr"} /\ (tag[t] = "shared" <=> want[t] = "rd")
            BY <1>1, <1>3, <2>2 DEF LocalOK
        <3>2. QED
            BY <1>2, <2>1, <2>2, <3>1 DEF ModeOf, Exclusive
    <2>3. CASE from # "wait"
        BY <1>1, <1>2, <1>3, <2>1, <2>3 DEF LocalOK
    <2>4. QED
        BY <2>2, <2>3
<1>6. TypeOK'
    <2>1. to \in Places
        BY DEF Places
    <2>2. QED
        BY <1>1, <1>3, <2>1 DEF TypeOK
<1>7. Frame(t) /\ pc'[t] = mode[t]
    BY <1>1, <1>3, <1>5 DEF TypeOK, Frame
<1>8. LocalOK(t)'
    BY <1>1, <1>3, <1>5, <1>7 DEF LocalOK, Given, Waits
<1>9. QED
    BY <1>3, <1>4, <1>6, <1>7, <1>8, WokenStep

(* The call of lw_rwlock_unlock. *)
LEMMA UnlockBeginKeeps ==
    ASSUME Inv, NEW k \in Nat, NEW L \in Lists, ListsOK(k, L), NEW t \in Threads,
           UnlockBegin(t), UNCHANGED client
    PROVE  IInv'
<1> DEFINE b == CASE pc[t] = "up_unlock" -> "up_wait"
                  [] pc[t] = "down_unlock" -> "down_wait"
                  [] OTHER -> "idle"
           x == pc[t] \in {"wr", "down_unlock"}
<1>1. TypeOK /\ LocalOK(t) /\ SnapOK(t, k)
    BY DEF Inv, ListsOK
<1>2. /\ pc[t] \in {"rd", "wr", "up_unlock", "down_unlock"} /\ pc' = [pc EXCEPT ![t] = "unlock"]
      /\ excl' = [excl EXCEPT ![t] = x] /\ back' = [back EXCEPT ![t] = b]
      /\ old' = [old EXCEPT ![t] = val]
      /\ UNCHANGED <<val, next, tag, signal_pending, cur, want, wait_list, mode, queue>>
    BY DEF UnlockBegin, Goto, Read, Set, word, listLocals, history
<1>3. /\ b \in {"idle", "up_wait", "down_wait"} /\ x \in BOOLEAN
      /\ b = "up_wait" <=> pc[t] = "up_unlock"
      /\ b = "down_wait" <=> pc[t] = "down_unlock"
      /\ x <=> pc[t] \in {"wr", "down_unlock"}
    BY <1>2
<1> HIDE DEF b, x
<1>4. TypeOK'
    BY <1>1, <1>2, <1>3 DEF TypeOK, Places
<1>5. Frame(t) /\ pc'[t] = "unlock" /\ back'[t] = b /\ (excl'[t] <=> x) /\ old'[t] = val
    BY <1>1, <1>2 DEF TypeOK, Frame
<1>6. mode[t] = IF x THEN "wr" ELSE "rd"
    BY <1>1, <1>2, <1>3 DEF LocalOK
<1>7. LocalOK(t)'
    <2>1. /\ b = "up_wait" => tag[t] = "upgrade" /\ ~x
          /\ b = "down_wait" => tag[t] = "shared" /\ x
        BY <1>1, <1>3 DEF LocalOK
    <2>2. cur[t] = NULL /\ wait_list[t] = NULL
        BY <1>1, <1>2 DEF LocalOK
    <2>3. QED
        BY <1>2, <1>3, <1>5, <1>6, <2>1, <2>2 DEF LocalOK, Given, Waits
<1>8. SnapOK(t, k)'
    <2>1. mode[t] # "none"
        BY <1>6
    <2>2. /\ IF mode[t] = "wr" THEN val.wlocked /\ val.readers = 0
                               ELSE ~val.wlocked /\ val.readers # 0
          /\ val.waitq # NULL /\ (mode[t] = "rd" => val.readers = 1)
                => Sole(t) /\ \E j \in (k + 1)..Len(queue) : queue[j][1] = val.waitq
        BY <2>1, Fresh
    <2>3. Sole(t)' <=> Sole(t)
        BY <1>2 DEF Sole
    <2>4. b = "down_wait" => queue # <<>> /\ queue[1][1] = t
        BY <1>1, <1>3 DEF SnapOK
    <2>5. QED
        BY <1>2, <1>5, <2>2, <2>3, <2>4 DEF SnapOK
<1>9. (InQueue(t)' <=> InQueue(t)) /\ ~Given(t) /\ ~Given(t)'
    BY <1>2, <1>3, <1>5 DEF InQueue, Given, Waits
<1>10. QED
    BY <1>2, <1>4, <1>5, <1>7, <1>8, <1>9, QuietStep

(* The word without what its holder has. *)
LEMMA ReleasedIs ==
    ASSUME NEW w \in Word, NEW x \in BOOLEAN,
           IF x THEN w.wlocked /\ w.readers = 0 ELSE ~w.wlocked /\ w.readers # 0
    PROVE  /\ Released(w, x) \in Word /\ ~Released(w, x).wlocked
           /\ Released(w, x).waitq = w.waitq
           /\ Released(w, x).readers = IF x THEN 0 ELSE w.readers - 1
           /\ Locked(Released(w, x)) <=> ~x /\ w.readers # 1
<1>1. CASE x
    <2>1. Released(w, x) = [w EXCEPT !.wlocked = FALSE]
        BY <1>1 DEF Released
    <2>2. QED
        BY <1>1, <2>1 DEF Word, Locked
<1>2. CASE ~x
    <2>1. Released(w, x) = Plus(w, ReaderMod - 1) /\ ReaderMod - 1 \in Nat
        BY <1>2, PlusIs DEF Released
    <2>2. w.readers \in Nat
        BY <2>1, PlusIs
    <2>3. w.readers - 1 = 0 <=> w.readers = 1
        BY <2>2
    <2>4. /\ Released(w, x) \in Word /\ ~Released(w, x).wlocked
          /\ Released(w, x).waitq = w.waitq /\ Released(w, x).readers = w.readers - 1
        <3>1. PICK n \in Nat : n = ReaderMod - 1
            BY <2>1
        <3>2. Plus(w, n) \in Word /\ Plus(w, n).wlocked = w.wlocked /\ Plus(w, n).waitq = w.waitq
            BY PlusIs
        <3>3. Plus(w, ReaderMod - 1).readers = w.readers - 1
            BY <1>2, <2>1, PlusIs
        <3>4. QED
            BY <1>2, <2>1, <3>1, <3>2, <3>3
    <2>5. QED
        BY <1>2, <2>3, <2>4 DEF Locked
<1>3. QED
    BY <1>1, <1>2

(* A turn of the loop of lw_rwlock_unlock. *)
LEMMA UnlockKeeps ==
    ASSUME Inv, NEW k \in Nat, NEW L \in Lists, ListsOK(k, L), NEW t \in Threads,
           Unlock(t), UNCHANGED client
    PROVE  IInv'
<1> DEFINE w == Released(old[t], excl[t])
<1>1. TypeOK /\ LocalOK(t) /\ SnapOK(t, k) /\ HoldInv /\ QueueInv
    BY DEF Inv, ListsOK
<1>2. /\ pc[t] = "unlock"
      /\ UNCHANGED <<next, tag, signal_pending, cur, want, wait_list>>
    BY DEF Unlock, listLocals
<1>3. /\ mode[t] = (IF excl[t] THEN "wr" ELSE "rd") /\ mode[t] # "none"
      /\ excl[t] \in BOOLEAN /\ old[t] \in Word /\ old[t].unfair = FALSE
      /\ val \in Word /\ val.unfair = FALSE /\ FreeWord(val.unfair) \in Word
      /\ cur[t] = NULL /\ wait_list[t] = NULL
    BY <1>1, <1>2, FreeIs DEF LocalOK, TypeOK, Word
<1>4. IF excl[t] THEN old[t].wlocked /\ old[t].readers = 0
                 ELSE ~old[t].wlocked /\ old[t].readers # 0
    BY <1>1, <1>2, <1>3 DEF SnapOK
<1>5. /\ w \in Word /\ ~w.wlocked /\ w.waitq = old[t].waitq
      /\ w.readers = IF excl[t] THEN 0 ELSE old[t].readers - 1
      /\ Locked(w) <=> ~excl[t] /\ old[t].readers # 1
    BY <1>3, <1>4, ReleasedIs
<1>6. \/ /\ ~Locked(w) /\ w.waitq # NULL
         /\ Goto(t, Path(old[t], excl[t])) /\ Read(t)
         /\ UNCHANGED <<val, back, excl, history>>
      \/ /\ Locked(w) \/ w.waitq = NULL
         /\ Swapped(t, w) /\ Return(t) /\ Hold({}, "none", t) /\ UNCHANGED queue
      \/ Missed(t) /\ UNCHANGED <<pc, back, excl, history>>
    BY DEF Unlock
<1> HIDE DEF w
<1>7. /\ IF mode[t] = "wr" THEN val.wlocked /\ val.readers = 0
                           ELSE ~val.wlocked /\ val.readers # 0
      /\ val.waitq # NULL <=> queue # <<>>
      /\ val.waitq # NULL /\ (mode[t] = "rd" => val.readers = 1)
            => Sole(t) /\ \E j \in (k + 1)..Len(queue) : queue[j][1] = val.waitq
    BY <1>3, Fresh
<1>8. ASSUME ~Locked(w), w.waitq # NULL, Goto(t, Path(old[t], excl[t])), Read(t),
             UNCHANGED <<val, back, excl, history>>
      PROVE  IInv'
    <2>1. /\ pc' = [pc EXCEPT ![t] = "fair"] /\ old' = [old EXCEPT ![t] = val]
          /\ val' = val /\ back' = back /\ excl' = excl /\ mode' = mode /\ queue' = queue
        BY <1>3, <1>8 DEF Goto, Path, Read, Set, history
    <2>2. TypeOK'
        BY <1>1, <1>2, <1>3, <2>1 DEF TypeOK, Places
    <2>3. Frame(t) /\ pc'[t] = "fair" /\ old'[t] = val
        BY <1>1, <1>2, <2>1 DEF TypeOK, Frame
    <2>4. LocalOK(t)'
        BY <1>1, <1>2, <2>1, <2>3 DEF LocalOK, Given, Waits
    <2>5. Sole(t) /\ queue # <<>>
        <3>1. old[t].waitq # NULL /\ (mode[t] = "rd" => old[t].readers = 1)
            BY <1>3, <1>5, <1>8
        <3>2. Sole(t) /\ \E j \in (k + 1)..Len(queue) : queue[j][1] = old[t].waitq
            BY <1>1, <1>2, <3>1 DEF SnapOK
        <3>3. queue # <<>>
            BY <3>2
        <3>4. QED
            BY <3>2, <3>3
    <2>6. mode[t] = "rd" => val.readers = 1
        BY <1>1, <2>5, HeldWord
    <2>7. SnapOK(t, k)'
        <3>1. Sole(t)'
            BY <2>1, <2>5 DEF Sole
        <3>2. back[t] = "down_wait" => queue # <<>> /\ queue[1][1] = t
            BY <1>1, <1>2 DEF SnapOK
        <3>3. QED
            BY <1>7, <2>1, <2>3, <2>5, <2>6, <3>1, <3>2 DEF SnapOK
    <2>8. (InQueue(t)' <=> InQueue(t)) /\ ~Given(t) /\ ~Given(t)'
        BY <1>2, <2>1, <2>3 DEF InQueue, Given, Waits
    <2>9. QED
        BY <1>2, <2>1, <2>2, <2>3, <2>4, <2>7, <2>8, QuietStep
<1>9. ASSUME Locked(w) \/ w.waitq = NULL, Swapped(t, w), Return(t), Hold({}, "none", t),
             UNCHANGED queue
      PROVE  IInv'
    <2>1. /\ val = old[t] /\ val' = w /\ old' = [old EXCEPT ![t] = FreeWord(val.unfair)]
          /\ pc' = [pc EXCEPT ![t] = back[t]] /\ back' = [back EXCEPT ![t] = "idle"]
          /\ excl' = [excl EXCEPT ![t] = FALSE] /\ queue' = queue
          /\ mode' = [u \in Threads |-> IF u = t THEN "none" ELSE mode[u]]
        BY <1>9 DEF Swapped, Forget, Return, Goto, Set, Hold
    <2>2. mode' = [mode EXCEPT ![t] = "none"]
        BY <1>1, <2>1 DEF TypeOK
    <2>3. back[t] \in {"idle", "up_wait", "down_wait"}
        BY <1>1 DEF TypeOK
    <2>4. TypeOK'
        BY <1>1, <1>2, <1>3, <1>5, <2>1, <2>2, <2>3 DEF TypeOK, Places
    <2>5. /\ Frame(t) /\ pc'[t] = back[t] /\ mode'[t] = "none" /\ back'[t] = "idle"
          /\ \A u \in Threads : u # t => mode'[u] = mode[u]
        BY <1>1, <1>2, <2>1, <2>2 DEF TypeOK, Frame
    <2>6. LocalOK(t)'
        <3>1. /\ back[t] = "up_wait" => tag[t] = "upgrade"
              /\ back[t] = "down_wait" => tag[t] = "shared"
            BY <1>1 DEF LocalOK
        <3>2. QED
            BY <1>2, <1>3, <2>3, <2>5, <3>1 DEF LocalOK, Given, Waits
    <2>7. SnapOK(t, k)'
        BY <2>3, <2>5 DEF SnapOK
    <2>8. (InQueue(t)' <=> InQueue(t)) /\ ~Given(t) /\ ~Given(t)'
        BY <1>2, <2>3, <2>5 DEF InQueue, Given, Waits
    <2>9. HoldInv'
        BY <1>1, <1>3, <1>5, <2>1, <2>2, HoldRelease
    <2>10. queue # <<>> => val'.wlocked = val.wlocked /\ Locked(val')
        <3>1. SUFFICES ASSUME queue # <<>> PROVE val'.wlocked = val.wlocked /\ Locked(val')
            OBVIOUS
        <3>2. Locked(w)
            BY <1>5, <1>7, <1>9, <2>1, <3>1
        <3>3. ~excl[t]
            BY <1>5, <3>2
        <3>4. val'.wlocked = FALSE /\ val.wlocked = FALSE
            BY <1>3, <1>4, <1>5, <2>1, <3>3 DEF Word
        <3>5. QED
            BY <2>1, <3>2, <3>4
    <2>11. val'.waitq = val.waitq
        BY <1>5, <2>1
    <2>12. pc[t] \notin {"wake", "wake_all"} /\ pc'[t] \notin {"wake", "wake_all"}
           /\ pc'[t] # "contention"
        BY <1>2, <2>3, <2>5
    <2>13. QED
        BY <1>2, <2>1, <2>4, <2>5, <2>6, <2>7, <2>8, <2>9, <2>10, <2>11, <2>12, CalmStep
<1>10. ASSUME Missed(t), UNCHANGED <<pc, back, excl, history>> PROVE IInv'
    <2>1. /\ val' = val /\ old' = [old EXCEPT ![t] = val] /\ mode' = mode /\ queue' = queue
          /\ pc' = pc /\ back' = back /\ excl' = excl
        BY <1>10 DEF Missed, Read, Set, history
    <2>2. TypeOK'
        BY <1>1, <1>2, <1>3, <2>1 DEF TypeOK
    <2>3. Frame(t) /\ pc'[t] = "unlock" /\ old'[t] = val
        BY <1>1, <1>2, <2>1 DEF TypeOK, Frame
    <2>4. LocalOK(t)'
        BY <1>1, <1>2, <2>1 DEF LocalOK, Given, Waits
    <2>5. SnapOK(t, k)'
        <3>1. Sole(t)' <=> Sole(t)
            BY <2>1 DEF Sole
        <3>2. back[t] = "down_wait" => queue # <<>> /\ queue[1][1] = t
            BY <1>1, <1>2 DEF SnapOK
        <3>3. QED
            BY <1>7, <2>1, <2>3, <3>1, <3>2 DEF SnapOK
    <2>6. (InQueue(t)' <=> InQueue(t)) /\ ~Given(t) /\ ~Given(t)'
        BY <1>2, <2>1 DEF InQueue, Given, Waits
    <2>7. QED
        BY <1>2, <2>1, <2>2, <2>3, <2>4, <2>5, <2>6, QuietStep
<1>11. QED
    BY <1>6, <1>8, <1>9, <1>10

(* The wakeups. *)
LEMMA WakeKeeps ==
    ASSUME Inv, NEW k \in Nat, NEW L \in Lists, ListsOK(k, L), NEW t \in Threads,
           Wake(t) \/ WakeAll(t), UNCHANGED client
    PROVE  IInv'
<1>1. TypeOK /\ LocalOK(t) /\ WakeInv(L)
    BY DEF Inv, ListsOK
<1>2. pc[t] \in {"wake", "wake_all"}
      /\ UNCHANGED <<val, tag, old, want, wait_list, mode, queue>>
    BY DEF Wake, WakeAll, listLocals, history
<1>3. cur[t] = IF L[t] = <<>> THEN NULL ELSE L[t][1]
    BY <1>1, <1>2 DEF WakeInv
<1>4. L[t] \in Seq(Threads) /\ (L[t] # <<>> => 1 \in 1..Len(L[t]) /\ L[t][1] \in Threads)
    <2>1. L[t] \in Seq(Threads)
        BY DEF Lists
    <2>2. L[t] # <<>> => Len(L[t]) \in Nat \ {0}
        BY <2>1, EmptySeq
    <2>3. L[t] # <<>> => 1 \in 1..Len(L[t])
        BY <2>2
    <2>4. QED
        BY <2>1, <2>3
<1>5. cur[t] = NULL <=> L[t] = <<>>
    BY <1>3, <1>4, NullAssumption
<1>6. pc[t] = "wake" => L[t] # <<>> /\ next[L[t][1]] = NULL
    <2>1. pc[t] = "wake" => Len(L[t]) = 1 /\ 1 \in 1..Len(L[t])
        BY <1>1 DEF WakeInv
    <2>2. Len(<<>>) # 1
        OBVIOUS
    <2>3. QED
        BY <1>1, <2>1, <2>2 DEF WakeInv
<1>7. back[t] \in {"idle", "up_wait", "down_wait"} /\ back[t] \in Places
    BY <1>1 DEF TypeOK, Places
<1>8. \A w \in Threads : next[w] \in Ids
    BY <1>1 DEF TypeOK
<1>9. PICK C : C = (IF L[t] = <<>> THEN {} ELSE {L[t][1]})
    OBVIOUS
<1>10. /\ next' = (IF L[t] = <<>> THEN next ELSE [next EXCEPT ![cur[t]] = NULL])
       /\ signal_pending' = (IF L[t] = <<>> THEN signal_pending
                             ELSE [signal_pending EXCEPT ![cur[t]] = TRUE])
       /\ \/ /\ pc[t] = "wake_all" /\ L[t] # <<>>
             /\ cur' = [cur EXCEPT ![t] = next[cur[t]]] /\ UNCHANGED <<pc, back, excl>>
          \/ /\ pc' = [pc EXCEPT ![t] = back[t]] /\ back' = [back EXCEPT ![t] = "idle"]
             /\ excl' = [excl EXCEPT ![t] = FALSE] /\ cur' = [cur EXCEPT ![t] = NULL]
             /\ pc[t] = "wake_all" => L[t] = <<>>
    <2>1. CASE Wake(t)
        <3>1. pc[t] = "wake"
            BY <2>1 DEF Wake
        <3>2. L[t] # <<>> /\ cur[t] \in Threads /\ next[cur[t]] = NULL
            BY <1>3, <1>4, <1>6, <3>1
        <3>3. next' = [next EXCEPT ![cur[t]] = NULL]
            <4>1. next' = next
                BY <2>1 DEF Wake
            <4>2. QED
                BY <1>1, <3>2, <4>1 DEF TypeOK
        <3>4. QED
            BY <2>1, <3>1, <3>2, <3>3 DEF Wake, Return, Goto, Set
    <2>2. CASE WakeAll(t)
        <3>1. pc[t] = "wake_all"
            BY <2>2 DEF WakeAll
        <3>2. CASE L[t] = <<>>
            <4>1. Return(t) /\ UNCHANGED <<next, signal_pending, cur>>
                BY <1>5, <2>2, <3>2 DEF WakeAll
            <4>2. cur' = [cur EXCEPT ![t] = NULL]
                BY <1>1, <1>5, <3>2, <4>1 DEF TypeOK
            <4>3. QED
                BY <3>2, <4>1, <4>2 DEF Return, Goto, Set
        <3>3. CASE L[t] # <<>>
            BY <1>5, <2>2, <3>1, <3>3 DEF WakeAll, Set
        <3>4. QED
            BY <3>2, <3>3
    <2>3. QED
        BY <2>1, <2>2
<1>11. /\ \A w \in Threads : next'[w] = IF w \in C THEN NULL ELSE next[w]
       /\ \A w \in Threads : signal_pending'[w] <=> w \in C \/ signal_pending[w]
    <2>1. CASE L[t] = <<>>
        BY <1>9, <1>10, <2>1
    <2>2. CASE L[t] # <<>>
        <3>1. cur[t] \in Threads /\ C = {cur[t]}
            BY <1>3, <1>4, <1>9, <2>2
        <3>2. QED
            BY <1>1, <1>10, <2>2, <3>1 DEF TypeOK
    <2>3. QED
        BY <2>1, <2>2
<1>12. TypeOK'
    <2>1. next' \in [Threads -> Ids] /\ signal_pending' \in [Threads -> BOOLEAN]
        BY <1>1, <1>10 DEF TypeOK, Ids
    <2>2. cur' \in [Threads -> Ids]
        <3>1. L[t] # <<>> => next[cur[t]] \in Ids
            BY <1>3, <1>4, <1>8
        <3>2. NULL \in Ids
            BY DEF Ids
        <3>3. PICK c \in Ids : cur' = [cur EXCEPT ![t] = c]
            BY <1>10, <3>1, <3>2
        <3>4. cur \in [Threads -> Ids]
            BY <1>1 DEF TypeOK
        <3>5. QED
            BY <3>3, <3>4
    <2>3. /\ pc' \in [Threads -> Places] /\ excl' \in [Threads -> BOOLEAN]
          /\ back' \in [Threads -> {"idle", "up_wait", "down_wait"}]
        BY <1>1, <1>7, <1>10 DEF TypeOK
    <2>4. QED
        BY <1>1, <1>2, <2>1, <2>2, <2>3 DEF TypeOK
<1>13. Frame(t)
    BY <1>1, <1>2, <1>10 DEF TypeOK, Frame
<1>14. \/ /\ pc'[t] = "wake_all" /\ L[t] # <<>> /\ back'[t] = back[t]
          /\ cur'[t] = next[cur[t]] /\ pc[t] = "wake_all"
       \/ pc'[t] = back[t] /\ back'[t] = "idle" /\ (pc[t] = "wake_all" => L[t] = <<>>)
          /\ cur'[t] = NULL
    BY <1>1, <1>10 DEF TypeOK
<1>15. LocalOK(t)'
    <2>1. mode[t] = "none" <=> back[t] = "idle"
        BY <1>1, <1>2 DEF LocalOK
    <2>2. Given(t)' => back[t] # "idle"
        BY <1>2, <1>7, <1>14, <2>1 DEF Given, Waits
    <2>3. Given(t)' => mode'[t] = IF tag'[t] = "shared" THEN "rd" ELSE "wr"
        BY <1>1, <1>2, <2>2 DEF LocalOK, Given
    <2>4. /\ back[t] = "up_wait" => tag[t] = "upgrade"
          /\ back[t] = "down_wait" => tag[t] = "shared"
          /\ wait_list[t] = NULL
        BY <1>1, <1>2 DEF LocalOK
    <2>5. QED
        BY <1>2, <1>7, <1>14, <2>1, <2>3, <2>4 DEF LocalOK
<1>16. \/ pc'[t] = "wake_all" /\ L[t] # <<>> /\ back'[t] = back[t] /\ cur'[t] = next[cur[t]]
          /\ pc[t] = "wake_all"
       \/ pc'[t] = back[t] /\ back'[t] = "idle" /\ (pc[t] = "wake_all" => L[t] = <<>>)
    BY <1>14, Zenon
<1>17. /\ tag' = tag /\ val' = val /\ mode' = mode /\ queue' = queue
       /\ wait_list' = wait_list
    BY <1>2
<1>18. QED
    BY <1>2, <1>9, <1>11, <1>12, <1>13, <1>15, <1>16, <1>17, SignalStep, ZenonT(30)

(* The call of lw_rwlock_downgrade or lw_rwlock_upgrade. *)
LEMMA ChangeKeeps ==
    ASSUME Inv, NEW k \in Nat, NEW L \in Lists, ListsOK(k, L), NEW t \in Threads,
           Downgrade(t) \/ Upgrade(t), UNCHANGED client
    PROVE  IInv'
<1>1. TypeOK /\ LocalOK(t) /\ SnapOK(t, k)
    BY DEF Inv, ListsOK
<1>2. PICK to \in {"downgrade", "upgrade"} :
         /\ pc[t] = IF to = "downgrade" THEN "wr" ELSE "rd"
         /\ pc' = [pc EXCEPT ![t] = to] /\ old' = [old EXCEPT ![t] = val]
         /\ UNCHANGED <<val, next, tag, signal_pending, cur, want, back, excl, wait_list,
                        mode, queue>>
    BY DEF Downgrade, Upgrade, Goto, Read, Set, word, callLocals, listLocals, history
<1>3. TypeOK'
    BY <1>1, <1>2 DEF TypeOK, Places
<1>4. Frame(t) /\ pc'[t] = to /\ old'[t] = val
    BY <1>1, <1>2 DEF TypeOK, Frame
<1>5. LocalOK(t)'
    BY <1>1, <1>2, <1>4 DEF LocalOK, Given, Waits
<1>6. SnapOK(t, k)'
    <2>1. mode[t] # "none"
        BY <1>1, <1>2 DEF LocalOK
    <2>2. /\ IF mode[t] = "wr" THEN val.wlocked /\ val.readers = 0
                               ELSE ~val.wlocked /\ val.readers # 0
          /\ val.waitq # NULL <=> queue # <<>>
          /\ val.waitq # NULL /\ (mode[t] = "rd" => val.readers = 1)
                => Sole(t) /\ \E j \in (k + 1)..Len(queue) : queue[j][1] = val.waitq
        BY <2>1, Fresh
    <2>3. Sole(t)' <=> Sole(t)
        BY <1>2 DEF Sole
    <2>4. QED
        BY <1>2, <1>4, <2>2, <2>3 DEF SnapOK
<1>7. ~InQueue(t) /\ ~InQueue(t)' /\ ~Given(t) /\ ~Given(t)'
    BY <1>2, <1>4 DEF InQueue, Given, Waits
<1>8. QED
    BY <1>2, <1>3, <1>4, <1>5, <1>6, <1>7, QuietStep

(* A thread that holds the lock alone changes its mode. *)
LEMMA ConvertStep ==
    ASSUME Inv, NEW k \in Nat, NEW L \in Lists, ListsOK(k, L), NEW t \in Threads,
           pc[t] \in {"downgrade", "upgrade"}, NEW m \in {"rd", "wr"}, Sole(t), queue = <<>>,
           val' \in Word, val'.waitq = NULL,
           m = "rd" => ~val'.wlocked /\ val'.readers = 1,
           m = "wr" => val'.wlocked /\ val'.readers = 0,
           old' = [old EXCEPT ![t] = FreeWord(val.unfair)],
           pc' = [pc EXCEPT ![t] = m], mode' = [mode EXCEPT ![t] = m],
           UNCHANGED <<client, next, tag, signal_pending, cur, want, back, excl, wait_list,
                       queue>>
    PROVE  IInv'
<1>1. TypeOK /\ LocalOK(t) /\ HoldInv /\ QueueInv
    BY DEF Inv
<1>2. val.waitq = NULL /\ FreeWord(val.unfair) \in Word
    BY <1>1, FreeIs DEF QueueInv, TypeOK, Word
<1>3. TypeOK'
    BY <1>1, <1>2 DEF TypeOK, Places
<1>4. /\ Frame(t) /\ pc'[t] = m /\ mode'[t] = m
      /\ \A u \in Threads : u # t => mode'[u] = mode[u]
    BY <1>1 DEF TypeOK, Frame
<1>5. LocalOK(t)'
    BY <1>1, <1>4 DEF LocalOK, Given, Waits
<1>6. SnapOK(t, k)'
    BY <1>4 DEF SnapOK
<1>7. ~InQueue(t) /\ ~InQueue(t)' /\ ~Given(t) /\ ~Given(t)'
    BY <1>4 DEF InQueue, Given, Waits
<1>8. HoldInv'
    <2>1. Cardinality({t}) = 1
        BY FS_Singleton
    <2>2. \A u \in Threads : mode'[u] = IF u \in {t} THEN m ELSE "none"
        BY <1>4 DEF Sole
    <2>3. PICK W : W = {t}
        OBVIOUS
    <2>4. /\ W \subseteq Threads /\ W # {}
          /\ \A u \in Threads : mode'[u] = IF u \in W THEN m ELSE "none"
          /\ m = "rd" => ~val'.wlocked /\ val'.readers = Cardinality(W)
          /\ m = "wr" => val'.wlocked /\ val'.readers = 0 /\ \A u, v \in W : u = v
        BY <2>1, <2>2, <2>3
    <2>5. QED
        BY <1>1, <2>4, HoldPass
<1>9. QED
    BY <1>2, <1>3, <1>4, <1>5, <1>6, <1>7, <1>8, CalmStep

(* A turn of the loop of lw_rwlock_downgrade. *)
LEMMA DowngradeTurnKeeps ==
    ASSUME Inv, NEW k \in Nat, NEW L \in Lists, ListsOK(k, L), NEW t \in Threads,
           DowngradeTurn(t), UNCHANGED client
    PROVE  IInv'
<1>1. TypeOK /\ LocalOK(t) /\ SnapOK(t, k) /\ HoldInv /\ QueueInv /\ CutInv(k)
    BY DEF Inv, ListsOK
<1>2. /\ pc[t] = "downgrade"
      /\ UNCHANGED <<signal_pending, cur, want, back, excl, wait_list>>
    BY DEF DowngradeTurn, callLocals, listLocals
<1>3. /\ mode[t] = "wr" /\ mode[t] # "none" /\ old[t].unfair = FALSE
      /\ val \in Word /\ FreeWord(val.unfair) \in Word /\ NULL \in Ids /\ t \in Ids
    BY <1>1, <1>2, FreeIs DEF LocalOK, TypeOK, Word, Ids
<1>4. Sole(t) /\ val.wlocked
    BY <1>1, <1>3, HeldWord
<1>5. val.waitq # NULL <=> queue # <<>>
    BY <1>3, Fresh
<1>6. ASSUME old[t].waitq = NULL, Swapped(t, Plus(FreeWord(old[t].unfair), 1)),
             Goto(t, "rd"), Set(mode, t, "rd"), UNCHANGED <<next, tag, queue>>
      PROVE  IInv'
    <2>1. /\ val = old[t] /\ val' = Plus(FreeWord(FALSE), 1)
          /\ old' = [old EXCEPT ![t] = FreeWord(val.unfair)]
          /\ pc' = [pc EXCEPT ![t] = "rd"] /\ mode' = [mode EXCEPT ![t] = "rd"]
          /\ next' = next /\ tag' = tag /\ queue' = queue
        BY <1>3, <1>6 DEF Swapped, Forget, Goto, Set
    <2>2. queue = <<>>
        BY <1>5, <1>6, <2>1
    <2>3. 1 < ReaderMod
        <3>1. Cardinality({t}) = 1 /\ {t} \subseteq Threads
            BY FS_Singleton
        <3>2. QED
            BY <3>1, Few
    <2>4. val' \in Word /\ val'.waitq = NULL /\ ~val'.wlocked /\ val'.readers = 1
        <3>1. PICK f \in Word :
                 f = FreeWord(FALSE) /\ ~f.wlocked /\ f.readers = 0 /\ f.waitq = NULL
            BY FreeIs
        <3>2. f.readers + 1 = 1 /\ f.readers + 1 < ReaderMod
            <4>1. f.readers = 0
                BY <3>1
            <4>2. f.readers + 1 = 1
                BY <4>1
            <4>3. QED
                BY <2>3, <4>2
        <3>3. Plus(f, 1).readers = f.readers + 1
            BY <3>2, PlusIs
        <3>4. Plus(f, 1) \in Word /\ Plus(f, 1).waitq = f.waitq /\ Plus(f, 1).wlocked = f.wlocked
            BY PlusIs
        <3>5. QED
            BY <2>1, <3>1, <3>2, <3>3, <3>4
    <2>5. PICK m \in {"rd", "wr"} : m = "rd"
        OBVIOUS
    <2>6. QED
        BY <1>2, <1>4, <2>1, <2>2, <2>4, <2>5, ConvertStep
<1>7. ASSUME Missed(t), UNCHANGED <<pc, mode>>, UNCHANGED <<next, tag, queue>>
      PROVE  IInv'
    <2>1. /\ val' = val /\ old' = [old EXCEPT ![t] = val] /\ mode' = mode /\ queue' = queue
          /\ pc' = pc /\ next' = next /\ tag' = tag
        BY <1>7 DEF Missed, Read, Set
    <2>2. TypeOK'
        BY <1>1, <1>2, <1>3, <2>1 DEF TypeOK
    <2>3. Frame(t) /\ pc'[t] = "downgrade" /\ old'[t] = val
        BY <1>1, <1>2, <2>1 DEF TypeOK, Frame
    <2>4. LocalOK(t)'
        BY <1>1, <1>2, <2>1 DEF LocalOK, Given, Waits
    <2>5. SnapOK(t, k)'
        <3>1. Sole(t)' <=> Sole(t)
            BY <2>1 DEF Sole
        <3>2. /\ IF mode[t] = "wr" THEN val.wlocked /\ val.readers = 0
                                   ELSE ~val.wlocked /\ val.readers # 0
              /\ val.waitq # NULL /\ (mode[t] = "rd" => val.readers = 1)
                    => Sole(t) /\ \E j \in (k + 1)..Len(queue) : queue[j][1] = val.waitq
            BY <1>3, Fresh
        <3>3. QED
            BY <2>1, <2>3, <3>1, <3>2 DEF SnapOK
    <2>6. ~InQueue(t) /\ ~InQueue(t)' /\ ~Given(t) /\ ~Given(t)'
        BY <1>2, <2>3 DEF InQueue, Given, Waits
    <2>7. QED
        BY <1>2, <2>1, <2>2, <2>3, <2>4, <2>5, <2>6, QuietStep
<1>8. ASSUME old[t].waitq # NULL, next' = [next EXCEPT ![Last(Chain(old[t].waitq))] = t],
             tag' = [tag EXCEPT ![t] = "shared"], queue' = <<<<t, "shared">>>> \o queue,
             Goto(t, "down_unlock"), Forget(t), UNCHANGED <<val, mode>>
      PROVE  IInv'
    <2>1. /\ val' = val /\ mode' = mode /\ old' = [old EXCEPT ![t] = FreeWord(val.unfair)]
          /\ pc' = [pc EXCEPT ![t] = "down_unlock"]
        BY <1>8 DEF Forget, Goto, Set
    <2>2. k = 0
        BY <1>2, <1>3, CutSole
    <2>3. PICK j \in (k + 1)..Len(queue) : queue[j][1] = old[t].waitq
        BY <1>1, <1>2, <1>3, <1>8 DEF SnapOK
    <2>4. Len(queue) \in Nat /\ 1 \in 1..Len(queue) /\ j \in 1..Len(queue) /\ k + 1 = 1
        BY <1>1, <2>2, <2>3, QueueTypes
    <2>5. Last(Chain(old[t].waitq)) = queue[1][1] /\ queue[1][1] \in Threads
        <3>1. Chain(queue[j][1]) = Down(k + 1, j)
            BY <1>1, <2>3, QueueChain
        <3>2. Last(Down(1, j)) = queue[1][1]
            BY <1>1, <2>4, DownIs
        <3>3. QED
            BY <1>1, <2>3, <2>4, <3>1, <3>2, QueueTypes
    <2>6. next' = [next EXCEPT ![queue[1][1]] = t] /\ queue # <<>>
        BY <1>8, <2>4, <2>5
    <2>7. TypeOK'
        <3>1. "down_unlock" \in Places /\ <<t, "shared">> \in Threads \X Kinds /\ "shared" \in Kinds
            BY DEF Places, Kinds
        <3>2. <<<<t, "shared">>>> \in Seq(Threads \X Kinds)
            BY <3>1
        <3>3. queue' \in Seq(Threads \X Kinds)
            BY <1>1, <1>8, <3>2 DEF TypeOK
        <3>4. next' \in [Threads -> Ids] /\ tag' \in [Threads -> Kinds]
            BY <1>1, <1>3, <1>8, <2>5, <2>6, <3>1 DEF TypeOK
        <3>5. QED
            BY <1>1, <1>2, <1>3, <2>1, <3>1, <3>3, <3>4 DEF TypeOK
    <2>8. Frame(t) /\ pc'[t] = "down_unlock" /\ tag'[t] = "shared"
        BY <1>1, <1>2, <1>8, <2>1 DEF TypeOK, Frame
    <2>9. LocalOK(t)'
        BY <1>1, <1>2, <1>3, <2>1, <2>8 DEF LocalOK, Given, Waits
    <2>10. PICK kind \in {"shared", "upgrade"} : kind = "shared"
        OBVIOUS
    <2>11. QED
        BY <1>2, <1>4, <1>8, <2>1, <2>6, <2>7, <2>8, <2>9, <2>10, PrependStep
<1>9. QED
    BY <1>6, <1>7, <1>8 DEF DowngradeTurn

(* A turn of the loop of lw_rwlock_upgrade. *)
LEMMA UpgradeTurnKeeps ==
    ASSUME Inv, NEW k \in Nat, NEW L \in Lists, ListsOK(k, L), NEW t \in Threads,
           UpgradeTurn(t), UNCHANGED client
    PROVE  IInv'
<1> DEFINE alone == old[t].waitq = NULL /\ old[t].readers = 1
           first == old[t].waitq = NULL /\ old[t].readers # 1
<1>1. TypeOK /\ LocalOK(t) /\ SnapOK(t, k) /\ HoldInv /\ QueueInv /\ WakeInv(L)
    BY DEF Inv, ListsOK
<1>2. /\ pc[t] = "upgrade"
      /\ tag' = (IF alone THEN tag ELSE [tag EXCEPT ![t] = "upgrade"])
      /\ UNCHANGED <<next, signal_pending, cur, want, back, excl, wait_list>>
    BY DEF UpgradeTurn, callLocals, listLocals
<1>3. /\ mode[t] = "rd" /\ mode[t] # "none" /\ old[t] \in Word
      /\ val \in Word /\ val.unfair = FALSE /\ FreeWord(val.unfair) \in Word /\ t \in Ids
      /\ wait_list[t] = NULL /\ cur[t] = NULL /\ back[t] = "idle"
    BY <1>1, <1>2, FreeIs DEF LocalOK, TypeOK, Word, Ids
<1>4. ~val.wlocked /\ val.readers # 0 /\ (val.waitq # NULL <=> queue # <<>>)
    BY <1>3, Fresh
<1>5. ~InQueue(t) /\ ~Given(t)
    BY <1>2 DEF InQueue, Given, Waits
<1>6. /\ tag' \in [Threads -> Kinds] /\ (~alone => tag'[t] = "upgrade")
      /\ \A u \in Threads : u # t => tag'[u] = tag[u]
    <2> HIDE DEF alone
    <2>1. "upgrade" \in Kinds
        BY DEF Kinds
    <2>2. QED
        BY <1>1, <1>2, <2>1 DEF TypeOK
<1>7. ASSUME alone, Swapped(t, [old[t] EXCEPT !.wlocked = TRUE, !.readers = 0]),
             Goto(t, "wr"), Set(mode, t, "wr"), UNCHANGED queue
      PROVE  IInv'
    <2>1. /\ val = old[t] /\ val' = [val EXCEPT !.wlocked = TRUE, !.readers = 0]
          /\ old' = [old EXCEPT ![t] = FreeWord(val.unfair)]
          /\ pc' = [pc EXCEPT ![t] = "wr"] /\ mode' = [mode EXCEPT ![t] = "wr"]
          /\ queue' = queue
        BY <1>7 DEF Swapped, Forget, Goto, Set
    <2>2. queue = <<>> /\ val.waitq = NULL /\ val.readers = 1
        BY <1>4, <1>7, <2>1
    <2>3. Sole(t)
        BY <1>1, <1>3, <2>2, HeldWord
    <2>4. 0 \in 0..(ReaderMod - 1)
        BY <1>3, PlusIs
    <2>5. val' \in Word /\ val'.waitq = NULL /\ val'.wlocked /\ val'.readers = 0
        BY <1>3, <2>1, <2>2, <2>4 DEF Word
    <2>6. tag' = tag
        BY <1>2, <1>7
    <2>7. PICK m \in {"rd", "wr"} : m = "wr"
        OBVIOUS
    <2>8. QED
        BY <1>2, <2>1, <2>2, <2>3, <2>5, <2>6, <2>7, ConvertStep
<1>8. ASSUME first, Swapped(t, [Plus(old[t], ReaderMod - 1) EXCEPT !.waitq = t]),
             Goto(t, "up_wait"), Set(mode, t, "none"), queue' = <<<<t, "upgrade">>>> \o queue
      PROVE  IInv'
    <2>1. /\ val = old[t] /\ val' = [Plus(val, ReaderMod - 1) EXCEPT !.waitq = t]
          /\ old' = [old EXCEPT ![t] = FreeWord(val.unfair)]
          /\ pc' = [pc EXCEPT ![t] = "up_wait"] /\ mode' = [mode EXCEPT ![t] = "none"]
        BY <1>8 DEF Swapped, Forget, Goto, Set
    <2>2. queue = <<>> /\ val.waitq = NULL /\ val.readers # 1
        BY <1>4, <1>8, <2>1
    <2>3. /\ val' \in Word /\ val'.waitq = t /\ val'.wlocked = val.wlocked
          /\ val'.readers = val.readers - 1 /\ val.readers \in Nat
        <3>1. ReaderMod - 1 \in Nat /\ val.readers \in Nat
            <4>1. ReaderMod \in Nat /\ ReaderMod > 0 /\ val.readers \in Nat
                BY <1>3, PlusIs, 0 \in Nat
            <4>2. QED
                BY <4>1
        <3>2. PICK p \in Word : /\ p = Plus(val, ReaderMod - 1) /\ p.wlocked = val.wlocked
                                /\ p.readers = val.readers - 1
            BY <1>3, <1>4, <3>1, PlusIs
        <3>3. val' = [p EXCEPT !.waitq = t]
            BY <2>1, <3>2
        <3>4. QED
            BY <1>3, <3>1, <3>2, <3>3 DEF Word
    <2>4. Locked(val')
        BY <1>4, <2>2, <2>3 DEF Locked
    <2>5. queue' = Append(queue, <<t, "upgrade">>)
        BY <1>8, <2>2
    <2>6. TypeOK'
        <3>1. "up_wait" \in Places /\ <<t, "upgrade">> \in Threads \X Kinds
            BY DEF Places, Kinds
        <3>2. queue' \in Seq(Threads \X Kinds)
            BY <1>1, <2>5, <3>1 DEF TypeOK
        <3>3. QED
            BY <1>1, <1>2, <1>3, <1>6, <2>1, <2>3, <3>1, <3>2 DEF TypeOK
    <2>7. Frame(t) /\ pc'[t] = "up_wait" /\ mode'[t] = "none" /\ tag'[t] = "upgrade"
        BY <1>1, <1>2, <1>6, <1>8, <2>1 DEF TypeOK, Frame
    <2>8. LocalOK(t)'
        BY <1>2, <1>3, <2>7 DEF LocalOK, Given, Waits
    <2>9. HoldInv'
        BY <1>1, <1>3, <1>4, <2>1, <2>3, HoldRelease
    <2>10. next' = [next EXCEPT ![t] = val.waitq]
        <3>1. ~On(L, t)
            BY <1>1, <1>5 DEF On, WakeInv
        <3>2. next[t] = NULL
            BY <1>1, <1>2, <1>5, <3>1 DEF WakeInv
        <3>3. QED
            BY <1>1, <1>2, <2>2, <3>2 DEF TypeOK
    <2>11. PICK kind \in Kinds : kind = "upgrade"
        BY DEF Kinds
    <2>12. QED
        BY <1>2, <1>4, <2>1, <2>2, <2>3, <2>4, <2>5, <2>6, <2>7, <2>8, <2>9, <2>10, <2>11,
           AppendStep
<1>9. ASSUME Missed(t), UNCHANGED <<pc, history>> PROVE IInv'
    <2>1. /\ val' = val /\ old' = [old EXCEPT ![t] = val] /\ mode' = mode /\ queue' = queue
          /\ pc' = pc
        BY <1>9 DEF Missed, Read, Set, history
    <2>2. TypeOK'
        BY <1>1, <1>2, <1>3, <1>6, <2>1 DEF TypeOK
    <2>3. Frame(t) /\ pc'[t] = "upgrade" /\ old'[t] = val
        BY <1>1, <1>2, <1>6, <2>1 DEF TypeOK, Frame
    <2>4. LocalOK(t)'
        BY <1>2, <1>3, <2>1 DEF LocalOK, Given, Waits
    <2>5. SnapOK(t, k)'
        BY <1>4, <2>1, <2>3 DEF SnapOK
    <2>6. ~InQueue(t)' /\ ~Given(t)'
        BY <2>3 DEF InQueue, Given, Waits
    <2>7. QED
        BY <1>2, <1>5, <2>1, <2>2, <2>3, <2>4, <2>5, <2>6, QuietStep
<1>10. ASSUME ~alone, ~first, Goto(t, "insert"), Forget(t), UNCHANGED <<val, history>>
       PROVE  IInv'
    <2>1. /\ val' = val /\ old' = [old EXCEPT ![t] = FreeWord(val.unfair)] /\ mode' = mode
          /\ queue' = queue /\ pc' = [pc EXCEPT ![t] = "insert"]
        BY <1>10 DEF Forget, Goto, Set, history
    <2>2. TypeOK'
        BY <1>1, <1>2, <1>3, <1>6, <2>1 DEF TypeOK, Places
    <2>3. Frame(t) /\ pc'[t] = "insert" /\ tag'[t] = "upgrade"
        BY <1>1, <1>2, <1>6, <1>10, <2>1 DEF TypeOK, Frame
    <2>4. LocalOK(t)'
        BY <1>2, <1>3, <2>1, <2>3 DEF LocalOK, Given, Waits
    <2>5. SnapOK(t, k)'
        <3>1. queue # <<>>
            BY <1>1, <1>2, <1>10 DEF SnapOK
        <3>2. QED
            BY <2>1, <2>3, <3>1 DEF SnapOK
    <2>6. ~InQueue(t)' /\ ~Given(t)'
        BY <2>3 DEF InQueue, Given, Waits
    <2>7. QED
        BY <1>2, <1>5, <2>1, <2>2, <2>3, <2>4, <2>5, <2>6, QuietStep
<1>11. QED
    BY <1>7, <1>8, <1>9, <1>10 DEF UpgradeTurn

(* Where an upgrade is in the queue; and nothing is cut off meanwhile. *)
LEMMA InsertPlace ==
    ASSUME Inv, NEW k \in Nat, NEW L \in Lists, ListsOK(k, L), NEW t \in Threads,
           pc[t] \in {"insert_walk", "insert_swap"}
    PROVE  \E j \in 1..Len(queue) :
              /\ cur[t] = queue[j][1] /\ cur[t] \in Threads /\ tag[cur[t]] = queue[j][2]
              /\ next[cur[t]] = IF j = 1 THEN NULL ELSE queue[j - 1][1]
              /\ j # 1 => j - 1 \in 1..Len(queue)
              /\ next[cur[t]] = NULL <=> j = 1
<1>1. TypeOK /\ LocalOK(t) /\ SnapOK(t, k) /\ QueueInv /\ CutInv(k)
    BY DEF Inv, ListsOK
<1>2. mode[t] # "none"
    BY <1>1 DEF LocalOK
<1>3. k = 0
    BY <1>2, CutSole
<1>4. PICK j \in 1..Len(queue) : queue[j][1] = cur[t]
    BY <1>1 DEF SnapOK
<1>5. k + 1 = 1 /\ Len(queue) \in Nat
    BY <1>1, <1>3, QueueTypes
<1>6. next[cur[t]] = IF j = 1 THEN NULL ELSE queue[j - 1][1]
    BY <1>1, <1>4, <1>5 DEF CutInv
<1>7. j # 1 => j - 1 \in 1..Len(queue)
    BY <1>5
<1>8. j # 1 => queue[j - 1][1] \in Threads
    BY <1>1, <1>7, QueueTypes
<1>9. cur[t] \in Threads /\ tag[cur[t]] = queue[j][2]
    BY <1>1, <1>4, QueueTypes DEF QueueInv
<1>10. QED
    BY <1>4, <1>6, <1>7, <1>8, <1>9, NullAssumption

(* The steps of lw_rwlock_insert_for_upgrade. *)
LEMMA InsertKeeps ==
    ASSUME Inv, NEW k \in Nat, NEW L \in Lists, ListsOK(k, L), NEW t \in Threads,
           Insert(t) \/ InsertWalk(t) \/ InsertSwap(t), UNCHANGED client
    PROVE  IInv'
<1>1. TypeOK /\ LocalOK(t) /\ SnapOK(t, k) /\ HoldInv /\ QueueInv /\ CutInv(k)
    BY DEF Inv, ListsOK
<1>2. /\ pc[t] \in {"insert", "insert_walk", "insert_swap"}
      /\ UNCHANGED <<val, tag, signal_pending, old, want, back, excl, wait_list, mode>>
    BY DEF Insert, InsertWalk, InsertSwap, word, callLocals, listLocals, history
<1>3. mode[t] = "rd" /\ mode[t] # "none" /\ tag[t] = "upgrade" /\ back[t] = "idle"
      /\ wait_list[t] = NULL /\ ~InQueue(t) /\ ~Given(t) /\ queue # <<>>
    BY <1>1, <1>2 DEF LocalOK, SnapOK, InQueue, Given, Waits
<1>4. val.waitq = queue[Len(queue)][1] /\ Len(queue) \in 1..Len(queue)
      /\ val.waitq \in Threads /\ ~val.wlocked
    <2>1. Len(queue) \in Nat \ {0}
        BY <1>1, <1>3, EmptySeq DEF TypeOK
    <2>2. val.waitq = queue[Len(queue)][1]
        BY <1>1, <1>3 DEF QueueInv
    <2>3. ~val.wlocked
        BY <1>3, Fresh
    <2>4. QED
        BY <1>1, <2>1, <2>2, <2>3, QueueTypes
<1>5. ASSUME NEW to \in {"insert", "insert_walk", "insert_swap", "rd"}, NEW c \in Ids,
             pc' = [pc EXCEPT ![t] = to], cur' = [cur EXCEPT ![t] = c],
             UNCHANGED <<next, queue>>,
             to \in {"insert", "rd"} => c = NULL,
             to \in {"insert_walk", "insert_swap"} =>
                 \E j \in 1..Len(queue) : queue[j][1] = c,
             to = "insert_swap" => tag[c] # "upgrade"
      PROVE  IInv'
    <2>1. TypeOK'
        BY <1>1, <1>2, <1>5 DEF TypeOK, Places
    <2>2. Frame(t) /\ pc'[t] = to /\ cur'[t] = c
        BY <1>1, <1>2, <1>5 DEF TypeOK, Frame
    <2>3. LocalOK(t)'
        BY <1>2, <1>3, <1>5, <2>2 DEF LocalOK, Given, Waits
    <2>4. SnapOK(t, k)'
        BY <1>2, <1>3, <1>5, <2>2 DEF SnapOK
    <2>5. ~InQueue(t)' /\ ~Given(t)'
        BY <2>2 DEF InQueue, Given, Waits
    <2>6. QED
        BY <1>2, <1>3, <1>5, <2>1, <2>2, <2>3, <2>4, <2>5, QuietStep
<1>6. CASE Insert(t)
    <2>1. /\ pc' = [pc EXCEPT ![t] = "insert_walk"] /\ cur' = [cur EXCEPT ![t] = val.waitq]
          /\ UNCHANGED <<next, queue>>
        BY <1>6 DEF Insert, Goto, Set, word, history
    <2>2. val.waitq \in Ids
        BY <1>4 DEF Ids
    <2>3. QED
        BY <1>4, <1>5, <2>1, <2>2
<1>7. CASE InsertWalk(t)
    <2>1. pc[t] = "insert_walk" /\ UNCHANGED <<next, queue>>
        BY <1>7 DEF InsertWalk, word, history
    <2>2. PICK j \in 1..Len(queue) :
             /\ cur[t] = queue[j][1] /\ cur[t] \in Threads /\ tag[cur[t]] = queue[j][2]
             /\ next[cur[t]] = IF j = 1 THEN NULL ELSE queue[j - 1][1]
             /\ j # 1 => j - 1 \in 1..Len(queue)
             /\ next[cur[t]] = NULL <=> j = 1
        BY <2>1, InsertPlace
    <2>3. NULL \in Ids /\ next[cur[t]] \in Ids /\ cur[t] \in Ids
        BY <1>1, <2>2 DEF TypeOK, Ids
    <2>4. CASE next[cur[t]] # NULL
        <3>1. /\ cur' = [cur EXCEPT ![t] = next[cur[t]]]
              /\ pc' = [pc EXCEPT ![t] = "insert_walk"]
            BY <1>1, <1>7, <2>1, <2>4 DEF InsertWalk, Set, TypeOK
        <3>2. QED
            BY <1>5, <2>1, <2>2, <2>3, <2>4, <3>1
    <2>5. CASE next[cur[t]] = NULL /\ tag[cur[t]] = "upgrade"
        <3>1. pc' = [pc EXCEPT ![t] = "rd"] /\ cur' = [cur EXCEPT ![t] = NULL]
            BY <1>7, <2>5 DEF InsertWalk, Refused, Goto, Set
        <3>2. QED
            BY <1>5, <2>1, <2>3, <3>1
    <2>6. CASE next[cur[t]] = NULL /\ tag[cur[t]] # "upgrade"
        <3>1. pc' = [pc EXCEPT ![t] = "insert_swap"] /\ cur' = [cur EXCEPT ![t] = cur[t]]
            BY <1>1, <1>7, <2>6 DEF InsertWalk, Goto, TypeOK
        <3>2. QED
            BY <1>5, <2>1, <2>2, <2>3, <2>6, <3>1
    <2>7. QED
        BY <2>4, <2>5, <2>6
<1>8. CASE InsertSwap(t)
    <2>1. pc[t] = "insert_swap"
        BY <1>8 DEF InsertSwap
    <2>2. PICK j \in 1..Len(queue) :
             /\ cur[t] = queue[j][1] /\ cur[t] \in Threads /\ tag[cur[t]] = queue[j][2]
             /\ next[cur[t]] = IF j = 1 THEN NULL ELSE queue[j - 1][1]
             /\ j # 1 => j - 1 \in 1..Len(queue)
             /\ next[cur[t]] = NULL <=> j = 1
        BY <2>1, InsertPlace
    <2>3. NULL \in Ids /\ t \in Ids
        BY DEF Ids
    <2>4. CASE next[cur[t]] # NULL
        <3>1. PICK to \in {"insert", "rd"} :
                 /\ pc' = [pc EXCEPT ![t] = to] /\ cur' = [cur EXCEPT ![t] = NULL]
                 /\ UNCHANGED <<next, queue>>
            BY <1>8, <2>4 DEF InsertSwap, Refused, Goto, Set
        <3>2. QED
            BY <1>5, <2>3, <3>1
    <2>5. CASE next[cur[t]] = NULL
        <3>1. /\ next' = [next EXCEPT ![queue[1][1]] = t] /\ queue[1][1] \in Threads
              /\ queue' = <<<<t, "upgrade">>>> \o queue /\ queue[1][2] # "upgrade"
              /\ pc' = [pc EXCEPT ![t] = "up_unlock"] /\ cur' = [cur EXCEPT ![t] = NULL]
            <4>1. queue[1][2] # "upgrade"
                BY <1>1, <2>1, <2>2, <2>5 DEF SnapOK
            <4>2. QED
                BY <1>8, <2>2, <2>5, <4>1 DEF InsertSwap, Goto, Set
        <3>2. TypeOK'
            <4>1. "up_unlock" \in Places /\ <<t, "upgrade">> \in Threads \X Kinds
                BY DEF Places, Kinds
            <4>2. <<<<t, "upgrade">>>> \in Seq(Threads \X Kinds)
                BY <4>1
            <4>3. queue' \in Seq(Threads \X Kinds)
                BY <1>1, <3>1, <4>2 DEF TypeOK
            <4>4. QED
                BY <1>1, <1>2, <2>3, <3>1, <4>1, <4>3 DEF TypeOK
        <3>3. Frame(t) /\ pc'[t] = "up_unlock" /\ cur'[t] = NULL /\ tag'[t] = "upgrade"
            BY <1>1, <1>2, <1>3, <3>1 DEF TypeOK, Frame
        <3>4. LocalOK(t)'
            BY <1>2, <1>3, <3>3 DEF LocalOK, Given, Waits
        <3>5. PICK kind \in {"shared", "upgrade"} : kind = "upgrade"
            OBVIOUS
        <3>6. QED
            BY <1>2, <1>3, <1>4, <2>1, <3>1, <3>2, <3>3, <3>4, <3>5, PrependStep
    <2>6. QED
        BY <2>4, <2>5
<1>9. QED
    BY <1>6, <1>7, <1>8

-------------------------------------------------------------------------------
(* The fair unlock. *)

(* What it is about to serve. *)
Taken(t) == IF wait_list[t] # NULL THEN Chain(wait_list[t]) ELSE Group(Chain(old[t].waitq))

(* The group a fair unlock serves are the m oldest waiters, which it has   *)
(* cut off before or finds below the waiter that its snapshot names.       *)
LEMMA TakenIs ==
    ASSUME Inv, NEW k \in Nat, NEW L \in Lists, ListsOK(k, L), NEW t \in Threads,
           pc[t] = "fair"
    PROVE  \E j \in 1..Len(queue), m \in 1..Len(queue) :
              /\ j > k /\ m <= j /\ queue[j][1] = old[t].waitq /\ Taken(t) = Down(1, m)
              /\ wait_list[t] # NULL =>
                    /\ k > 0 /\ m = k /\ wait_list[t] = queue[k][1]
                    /\ m < Len(queue) /\ Serves(queue, m, Len(queue))
              /\ wait_list[t] = NULL =>
                    /\ k = 0 /\ Chain(old[t].waitq) = Down(1, j) /\ Serves(queue, m, j)
<1>1. TypeOK /\ LocalOK(t) /\ SnapOK(t, k) /\ QueueInv /\ CutInv(k) /\ mode[t] # "none"
    BY DEF Inv, ListsOK, LocalOK
<1>2. PICK j \in (k + 1)..Len(queue) : queue[j][1] = old[t].waitq
    BY <1>1 DEF SnapOK
<1>3. Len(queue) \in Nat /\ j \in 1..Len(queue) /\ j > k
    BY <1>1, <1>2, QueueTypes
<1>4. CASE wait_list[t] # NULL
    <2>1. k > 0 /\ wait_list[t] = queue[k][1] /\ k < Len(queue) /\ Serves(queue, k, Len(queue))
        BY <1>1, <1>4 DEF CutInv
    <2>2. Taken(t) = Down(1, k)
        BY <1>1, <1>4, <2>1, CutChain DEF Taken
    <2>3. k \in 1..Len(queue) /\ k <= j
        BY <1>3, <2>1
    <2>4. QED
        BY <1>2, <1>3, <1>4, <2>1, <2>2, <2>3
<1>5. CASE wait_list[t] = NULL
    <2>1. k = 0
        BY <1>1, <1>5, CutSole
    <2>2. Chain(old[t].waitq) = Down(1, j)
        <3>1. Chain(queue[j][1]) = Down(k + 1, j) /\ k + 1 = 1
            BY <1>1, <1>2, <2>1, QueueChain
        <3>2. QED
            BY <1>2, <3>1
    <2>3. PICK m \in 1..j : Serves(queue, m, j) /\ Group(Down(1, j)) = Down(1, m)
        BY <1>1, <1>3, GroupIs
    <2>4. m \in 1..Len(queue) /\ m <= j
        BY <1>3, <2>3
    <2>5. Taken(t) = Down(1, m)
        BY <1>5, <2>2, <2>3 DEF Taken
    <2>6. QED
        BY <1>2, <1>3, <1>5, <2>1, <2>2, <2>3, <2>4, <2>5
<1>6. QED
    BY <1>4, <1>5

(* A turn of lw_rwlock_unlock_fair_contention. *)
LEMMA FairTurnKeeps ==
    ASSUME Inv, NEW k \in Nat, NEW L \in Lists, ListsOK(k, L), NEW t \in Threads,
           FairTurn(t), UNCHANGED client
    PROVE  IInv'
<1> DEFINE kept == wait_list[t] # NULL
           c == Chain(old[t].waitq)
           g == Taken(t)
           whole == ~kept /\ Len(g) = Len(c)
           shared == tag[Last(g)] = "shared"
           w == [Released(old[t], excl[t]) EXCEPT
                    !.waitq = IF whole THEN NULL ELSE @,
                    !.wlocked = ~shared,
                    !.readers = IF shared THEN Len(g) % ReaderMod ELSE @]
<1>1. /\ pc[t] = "fair"
      /\ next' = IF whole \/ kept THEN next
                 ELSE [next EXCEPT ![c[Len(c) - Len(g)]] = NULL]
      /\ \/ /\ Swapped(t, w)
            /\ Goto(t, IF shared THEN "wake_all" ELSE "wake")
            /\ Set(cur, t, g[1]) /\ Set(wait_list, t, NULL)
            /\ Hold(Range(g), IF shared THEN "rd" ELSE "wr", t)
            /\ queue' = Dequeued(Range(g))
         \/ /\ Missed(t)
            /\ Set(wait_list, t, KeptList(g, whole))
            /\ UNCHANGED <<pc, cur, history>>
      /\ UNCHANGED <<tag, signal_pending, callLocals, count, unfairLocals>>
    BY Zenon DEF FairTurn, Taken
<1>2. TypeOK /\ LocalOK(t) /\ SnapOK(t, k) /\ HoldInv /\ QueueInv /\ CutInv(k)
    BY DEF Inv, ListsOK
<1>3. /\ mode[t] # "none" /\ old[t] \in Word /\ val \in Word /\ FreeWord(val.unfair) \in Word
      /\ NULL \in Ids /\ tag' = tag /\ signal_pending' = signal_pending
      /\ want' = want /\ back' = back /\ excl' = excl
    BY <1>1, <1>2, FreeIs DEF LocalOK, TypeOK, Word, Ids, callLocals
<1>4. PICK j \in 1..Len(queue), m \in 1..Len(queue) :
              /\ j > k /\ m <= j /\ queue[j][1] = old[t].waitq /\ Taken(t) = Down(1, m)
              /\ wait_list[t] # NULL =>
                    /\ k > 0 /\ m = k /\ wait_list[t] = queue[k][1]
                    /\ m < Len(queue) /\ Serves(queue, m, Len(queue))
              /\ wait_list[t] = NULL =>
                    /\ k = 0 /\ Chain(old[t].waitq) = Down(1, j) /\ Serves(queue, m, j)
    BY <1>1, TakenIs
<1>5. /\ Len(queue) \in Nat /\ m \in Nat /\ j \in Nat /\ m >= 1 /\ m <= Len(queue)
      /\ 1 \in 1..Len(queue) /\ 1 \in 1..m /\ m \in 1..m
      /\ queue[m][1] \in Threads /\ queue[1][1] \in Threads
    <2>1. /\ Len(queue) \in Nat /\ m \in Nat /\ j \in Nat /\ m >= 1 /\ m <= Len(queue)
          /\ 1 \in 1..Len(queue) /\ 1 \in 1..m /\ m \in 1..m
        BY <1>2, QueueTypes
    <2>2. QED
        BY <1>2, <2>1, QueueTypes
<1>6. /\ g \in Seq(Threads) /\ Len(g) = m /\ g[1] = queue[m][1] /\ Last(g) = queue[1][1]
      /\ \A x, y \in 1..m : g[x] = g[y] => x = y
      /\ \A u : u \in Range(g) <=> \E i \in 1..m : u = queue[i][1]
    <2>1. /\ Down(1, m) \in Seq(Threads) /\ Len(Down(1, m)) = m
          /\ \A i \in 1..m : Down(1, m)[i] = queue[m + 1 - i][1]
        BY <1>2, <1>5, DownFirst
    <2>2. m \in 1..Len(queue) /\ m + 1 - 1 = m /\ m + 1 - m = 1
        BY <1>5
    <2>3. /\ \A x, y \in 1..m : Down(1, m)[x] = Down(1, m)[y] => x = y
          /\ \A u : u \in Range(Down(1, m)) <=> \E i \in 1..m : u = queue[i][1]
        BY <1>2, DownFirst
    <2>4. Down(1, m)[1] = queue[m][1] /\ Down(1, m)[m] = queue[1][1]
        <3>1. Down(1, m)[1] = queue[m + 1 - 1][1]
            BY <1>5, <2>1
        <3>2. Down(1, m)[m] = queue[m + 1 - m][1]
            BY <1>5, <2>1
        <3>3. QED
            BY <2>2, <3>1, <3>2
    <2>5. Last(Down(1, m)) = Down(1, m)[m]
        BY <2>1 DEF Last
    <2>6. QED
        BY <1>4, <2>1, <2>3, <2>4, <2>5
<1>7. shared <=> queue[1][2] = "shared"
    BY <1>2, <1>5, <1>6 DEF QueueInv
<1>8. ~kept => (Len(c) = j /\ c[j - m] = queue[m + 1][1]) \/ m = j
    <2>1. ASSUME ~kept, m # j
          PROVE  Len(c) = j /\ c[j - m] = queue[m + 1][1]
        <3>1. c = Down(1, j)
            BY <1>4, <2>1
        <3>2. /\ Len(Down(1, j)) = j
              /\ \A i \in 1..j : Down(1, j)[i] = queue[j + 1 - i][1]
            BY <1>2, DownFirst
        <3>3. j - m \in 1..j /\ j + 1 - (j - m) = m + 1
            BY <1>4, <1>5, <2>1
        <3>4. QED
            BY <3>1, <3>2, <3>3
    <2>2. QED
        BY <2>1
<1>9. whole <=> ~kept /\ m = j
    <2>1. ~kept => Len(c) = j
        <3>1. ASSUME ~kept PROVE Len(c) = j
            <4>1. c = Down(1, j)
                BY <1>4, <3>1
            <4>2. QED
                BY <1>2, <4>1, DownFirst
        <3>2. QED
            BY <3>1
    <2>2. QED
        BY <1>6, <2>1
<1> HIDE DEF c, g, whole, shared, w
<1>10. ~kept /\ ~whole => next' = [next EXCEPT ![queue[m + 1][1]] = NULL]
    BY <1>1, <1>6, <1>8, <1>9
<1>11. whole \/ kept => next' = next
    BY <1>1
<1>12. ASSUME Missed(t), Set(wait_list, t, KeptList(g, whole)), UNCHANGED <<pc, cur, history>>
       PROVE  IInv'
    <2>1. /\ val' = val /\ old' = [old EXCEPT ![t] = val] /\ mode' = mode /\ queue' = queue
          /\ pc' = pc /\ cur' = cur
          /\ wait_list' = [wait_list EXCEPT ![t] = IF whole THEN NULL ELSE queue[m][1]]
        BY <1>6, <1>12 DEF Missed, Read, Set, KeptList, history
    <2>2. next' \in [Threads -> Ids]
        BY <1>2, <1>3, <1>10, <1>11 DEF TypeOK
    <2>3. wait_list' \in [Threads -> Ids]
        BY <1>2, <1>3, <1>5, <2>1 DEF TypeOK, Ids
    <2>4. TypeOK'
        BY <1>2, <1>3, <2>1, <2>2, <2>3 DEF TypeOK
    <2>5. Frame(t) /\ pc'[t] = "fair" /\ old'[t] = val
        BY <1>1, <1>2, <1>3, <2>1 DEF TypeOK, Frame
    <2>6. LocalOK(t)'
        BY <1>1, <1>2, <1>3, <2>1 DEF LocalOK, Given, Waits
    <2>7. (InQueue(t)' <=> InQueue(t)) /\ ~Given(t) /\ ~Given(t)'
        BY <1>1, <1>3, <2>1 DEF InQueue, Given, Waits
    <2>8. queue # <<>> /\ Sole(t)
        BY <1>1, <1>2, <1>5 DEF SnapOK
    <2>9. /\ IF mode[t] = "wr" THEN val.wlocked /\ val.readers = 0
                               ELSE ~val.wlocked /\ val.readers # 0
          /\ val.waitq # NULL /\ val.waitq = queue[Len(queue)][1]
          /\ mode[t] = "rd" => val.readers = 1
        <3>1. /\ IF mode[t] = "wr" THEN val.wlocked /\ val.readers = 0
                                   ELSE ~val.wlocked /\ val.readers # 0
              /\ val.waitq # NULL
            BY <1>3, <2>8, Fresh
        <3>2. val.waitq = queue[Len(queue)][1]
            BY <1>2, <2>8 DEF QueueInv
        <3>3. mode[t] = "rd" => val.readers = 1
            BY <1>2, <2>8, HeldWord
        <3>4. QED
            BY <3>1, <3>2, <3>3
    <2>10. ASSUME NEW n \in Nat, n < Len(queue)
           PROVE  SnapOK(t, n)'
        <3>1. Len(queue) \in (n + 1)..Len(queue)
            BY <1>5, <2>10
        <3>2. Sole(t)'
            BY <2>1, <2>8 DEF Sole
        <3>3. back'[t] = "down_wait" => queue'[1][1] = t
            BY <1>1, <1>2, <1>3, <2>1 DEF SnapOK
        <3>4. QED
            BY <1>3, <2>1, <2>5, <2>8, <2>9, <3>1, <3>2, <3>3 DEF SnapOK
    <2>11. CASE whole \/ kept
        <3>1. wait_list' = wait_list
            BY <1>2, <1>4, <1>9, <2>1, <2>11 DEF TypeOK
        <3>2. k < Len(queue)
            BY <1>4, <1>5
        <3>3. SnapOK(t, k)'
            BY <2>10, <3>2
        <3>4. next' = next
            BY <1>11, <2>11
        <3>5. QED
            BY <1>1, <1>3, <2>1, <2>4, <2>5, <2>6, <2>7, <3>1, <3>3, <3>4, QuietStep
    <2>12. CASE ~whole /\ ~kept
        <3>1. k = 0 /\ m < j /\ j <= Len(queue) /\ m < Len(queue) /\ Serves(queue, m, j)
            BY <1>4, <1>5, <1>9, <2>12
        <3>2. Serves(queue, m, Len(queue))
            BY <1>5, <3>1 DEF Serves
        <3>3. SnapOK(t, m)'
            BY <1>5, <2>10, <3>1
        <3>4. wait_list' = [wait_list EXCEPT ![t] = queue[m][1]]
            BY <2>1, <2>12
        <3>5. next' = [next EXCEPT ![queue[m + 1][1]] = NULL]
            BY <1>10, <2>12
        <3>6. QED
            BY <1>1, <1>3, <2>1, <2>4, <2>5, <2>6, <3>1, <3>2, <3>3, <3>4, <3>5, CutStep
    <2>13. QED
        BY <2>11, <2>12
<1>13. ASSUME Swapped(t, w), Goto(t, IF shared THEN "wake_all" ELSE "wake"),
              Set(cur, t, g[1]), Set(wait_list, t, NULL),
              Hold(Range(g), IF shared THEN "rd" ELSE "wr", t),
              queue' = Dequeued(Range(g))
       PROVE  IInv'
    <2>1. PICK held \in {"rd", "wr"} : held = IF shared THEN "rd" ELSE "wr"
        OBVIOUS
    <2>2. held = "rd" <=> queue[1][2] = "shared"
        BY <1>7, <2>1
    <2>3. /\ val = old[t] /\ val' = w /\ old' = [old EXCEPT ![t] = FreeWord(val.unfair)]
          /\ pc' = [pc EXCEPT ![t] = IF held = "rd" THEN "wake_all" ELSE "wake"]
          /\ cur' = [cur EXCEPT ![t] = queue[m][1]]
          /\ wait_list' = [wait_list EXCEPT ![t] = NULL]
        BY <1>6, <1>13, <2>1 DEF Swapped, Forget, Goto, Set
    <2>4. j = Len(queue)
        <3>1. queue[j][1] = queue[Len(queue)][1] /\ Len(queue) \in 1..Len(queue)
            BY <1>2, <1>4, <1>5, <2>3 DEF QueueInv
        <3>2. QED
            BY <1>2, <3>1 DEF QueueInv
    <2>5. Serves(queue, m, Len(queue))
        BY <1>4, <2>4
    <2>6. whole <=> m = Len(queue)
        BY <1>4, <1>5, <1>9, <2>4
    <2>7. m % ReaderMod = m /\ m < ReaderMod
        <3>1. Cardinality(Threads) \in Nat /\ m <= Cardinality(Threads)
            BY <1>6, Short
        <3>2. m < ReaderMod
            BY <1>5, <3>1, ParametersAssumption
        <3>3. QED
            BY <1>5, <3>2, ModIs
    <2>8. /\ val' \in Word /\ val'.waitq = (IF m = Len(queue) THEN NULL ELSE val.waitq)
          /\ val'.wlocked <=> held = "wr"
          /\ val'.readers = IF held = "rd" THEN m ELSE 0
        <3>1. excl[t] \in BOOLEAN
            BY <1>2 DEF TypeOK
        <3>2. mode[t] = IF excl[t] THEN "wr" ELSE "rd"
            BY <1>1, <1>2 DEF LocalOK
        <3>3. /\ IF excl[t] THEN old[t].wlocked /\ old[t].readers = 0
                            ELSE ~old[t].wlocked /\ old[t].readers # 0
              /\ ~excl[t] => old[t].readers = 1
            BY <1>1, <1>2, <3>1, <3>2 DEF SnapOK
        <3>4. PICK r \in Word : /\ r = Released(old[t], excl[t]) /\ r.waitq = old[t].waitq
                                /\ r.readers = IF excl[t] THEN 0 ELSE old[t].readers - 1
            BY <1>3, <3>1, <3>3, ReleasedIs
        <3>5. r.readers = 0
            BY <3>3, <3>4
        <3>6. w = [r EXCEPT !.waitq = IF whole THEN NULL ELSE @, !.wlocked = ~shared,
                            !.readers = IF shared THEN m ELSE @]
            BY <1>6, <2>7, <3>4 DEF w
        <3>7. shared <=> held = "rd"
            BY <2>1
        <3>8. m \in 0..(ReaderMod - 1)
            BY <1>5, <2>7, ParametersAssumption
        <3>9. /\ w \in Word /\ w.waitq = (IF whole THEN NULL ELSE r.waitq)
              /\ w.wlocked <=> ~shared
              /\ w.readers = IF shared THEN m ELSE r.readers
            BY <1>3, <3>6, <3>8 DEF Word
        <3>10. QED
            BY <2>1, <2>3, <2>6, <3>4, <3>5, <3>7, <3>9
    <2>9. queue' = SubSeq(queue, m + 1, Len(queue))
        <3>1. PICK s : s = (Threads \ Range(g)) \X Kinds
            OBVIOUS
        <3>2. ASSUME NEW i \in 1..m PROVE queue[i] \notin s
            <4>1. queue[i][1] \in Range(g)
                BY <1>6
            <4>2. QED
                BY <3>1, <4>1
        <3>3. ASSUME NEW i \in (m + 1)..Len(queue) PROVE queue[i] \in s
            <4>1. i \in 1..Len(queue) /\ \A x \in 1..m : x # i /\ x \in 1..Len(queue)
                BY <1>5
            <4>2. queue[i][1] \notin Range(g)
                BY <1>2, <1>6, <4>1 DEF QueueInv
            <4>3. /\ queue[i][1] \in Threads /\ queue[i][2] \in Kinds
                  /\ queue[i] = <<queue[i][1], queue[i][2]>>
                BY <1>2, <4>1, QueueTypes
            <4>4. QED
                BY <3>1, <4>2, <4>3
        <3>4. queue \in Seq(Threads \X Kinds) /\ m \in 0..Len(queue)
            BY <1>2, <1>5 DEF TypeOK
        <3>5. Filter(queue, s) = SubSeq(queue, m + 1, Len(queue))
            BY <3>2, <3>3, <3>4, FilterDrops
        <3>6. QED
            BY <1>13, <3>1, <3>5 DEF Dequeued
    <2>10. /\ queue' \in Seq(Threads \X Kinds) /\ Len(queue') = Len(queue) - m
           /\ \A i \in 1..Len(queue') : queue'[i] = queue[i + m]
        <3>1. queue \in Seq(Threads \X Kinds) /\ m + 1 \in 1..(Len(queue) + 1)
            BY <1>2, <1>5 DEF TypeOK
        <3>2. QED
            BY <1>5, <2>9, <3>1
    <2>11. PICK W : W = Range(g)
        OBVIOUS
    <2>12. \A u : u \in W <=> \E i \in 1..m : u = queue[i][1]
        BY <1>6, <2>11
    <2>13. \A u \in Threads :
              mode'[u] = IF u \in W THEN held ELSE IF u = t THEN "none" ELSE mode[u]
        BY <1>13, <2>1, <2>11 DEF Hold
    <2>14. mode' \in [Threads -> {"none", "rd", "wr"}]
        BY <1>2, <1>13, <2>1 DEF Hold, TypeOK
    <2>15. next' \in [Threads -> Ids]
        BY <1>2, <1>3, <1>10, <1>11 DEF TypeOK
    <2>16. ASSUME NEW i \in 1..Len(queue)
           PROVE  next'[queue[i][1]] = IF i \in {1, m + 1} THEN NULL ELSE queue[i - 1][1]
        <3>1. next[queue[i][1]] = IF i \in {1, k + 1} THEN NULL ELSE queue[i - 1][1]
            BY <1>2 DEF CutInv
        <3>2. queue[i][1] \in Threads
            BY <1>2, QueueTypes
        <3>3. CASE kept
            BY <1>4, <1>11, <3>1, <3>3
        <3>4. CASE whole
            <4>1. k = 0 /\ k + 1 = 1 /\ m = Len(queue) /\ i # m + 1
                BY <1>4, <1>5, <1>9, <2>6, <3>4
            <4>2. QED
                BY <1>11, <3>1, <3>4, <4>1
        <3>5. CASE ~kept /\ ~whole
            <4>1. k = 0 /\ k + 1 = 1 /\ m + 1 \in 1..Len(queue)
                BY <1>4, <1>5, <2>6, <3>5
            <4>2. queue[i][1] = queue[m + 1][1] <=> i = m + 1
                BY <1>2, <4>1 DEF QueueInv
            <4>3. next'[queue[i][1]] = IF i = m + 1 THEN NULL ELSE next[queue[i][1]]
                BY <1>2, <1>10, <3>2, <3>5, <4>2 DEF TypeOK
            <4>4. QED
                BY <3>1, <4>1, <4>3
        <3>6. QED
            BY <3>3, <3>4, <3>5
    <2>17. ASSUME NEW u \in Threads, ~InQueue(u)
           PROVE  next'[u] = next[u]
        <3>1. ~kept /\ ~whole => m + 1 \in 1..Len(queue)
            BY <1>5, <2>6
        <3>2. ~kept /\ ~whole => u # queue[m + 1][1]
            BY <1>2, <2>17, <3>1 DEF QueueInv
        <3>3. QED
            BY <1>2, <1>10, <1>11, <3>2 DEF TypeOK
    <2>18. Passes(t, m, W, held)
        BY <2>10, <2>12, <2>13, <2>16, <2>17 DEF Passes
    <2>19. TypeOK'
        <3>1. "wake_all" \in Places /\ "wake" \in Places
            BY DEF Places
        <3>2. pc' \in [Threads -> Places]
            BY <1>2, <2>3, <3>1 DEF TypeOK
        <3>3. cur' \in [Threads -> Ids] /\ wait_list' \in [Threads -> Ids]
            BY <1>2, <1>3, <1>5, <2>3 DEF TypeOK, Ids
        <3>4. old' \in [Threads -> Word]
            BY <1>2, <1>3, <2>3 DEF TypeOK
        <3>5. QED
            BY <1>2, <1>3, <2>8, <2>10, <2>14, <2>15, <3>2, <3>3, <3>4 DEF TypeOK
    <2>20. /\ Frame(t) /\ pc'[t] = (IF held = "rd" THEN "wake_all" ELSE "wake")
           /\ cur'[t] = queue[m][1] /\ wait_list'[t] = NULL
        BY <1>2, <1>3, <2>3 DEF TypeOK, Frame
    <2>21. QED
        BY <1>1, <1>3, <2>2, <2>5, <2>8, <2>18, <2>19, <2>20, PassStep
<1>14. QED
    BY <1>1, <1>12, <1>13
-------------------------------------------------------------------------------
(* The invariant holds. *)

(* A step of a thread inside a call. *)
LEMMA InternalKeeps ==
    ASSUME Inv, NEW k \in Nat, NEW L \in Lists, ListsOK(k, L), NEW t \in Threads,
           Internal(t), UNCHANGED client
    PROVE  IInv'
<1>1. pc[t] \in Places
    BY DEF Inv, TypeOK
<1>2. ~(TryUpgrade(t) \/ UnfairOldest(t) \/ FairBegin(t) \/ Detach(t) \/ Separate(t))
    BY <1>1 DEF Places, TryUpgrade, UnfairOldest, FairBegin, Detach, Separate
<1>3. ~(Regrant(t) \/ Reinsert(t) \/ ReinsertSwap(t) \/ ReinsertLink(t) \/ RegrantSwap(t))
    BY <1>1 DEF Places, Regrant, Reinsert, ReinsertSwap, ReinsertLink, RegrantSwap
<1>4. CASE LockTurn(t) \/ Contention(t)
    BY <1>4, LockTurnKeeps, ContentionKeeps
<1>5. CASE LockWait(t) \/ DowngradeWait(t) \/ UpgradeWait(t)
    BY <1>5, WokenKeeps
<1>6. CASE UnlockBegin(t)
    BY <1>6, UnlockBeginKeeps
<1>7. CASE Unlock(t) \/ FairTurn(t)
    BY <1>7, UnlockKeeps, FairTurnKeeps
<1>8. CASE Wake(t) \/ WakeAll(t)
    BY <1>8, WakeKeeps
<1>9. CASE DowngradeTurn(t) \/ UpgradeTurn(t)
    BY <1>9, DowngradeTurnKeeps, UpgradeTurnKeeps
<1>10. CASE Insert(t) \/ InsertWalk(t) \/ InsertSwap(t)
    BY <1>10, InsertKeeps
<1>11. QED
    BY <1>2, <1>3, <1>4, <1>5, <1>6, <1>7, <1>8, <1>9, <1>10, Zenon DEF Internal

LEMMA StutterKeeps ==
    ASSUME IInv, UNCHANGED <<vars, client>>
    PROVE  IInv'
<1>1. /\ client' = client /\ val' = val /\ next' = next /\ tag' = tag
      /\ signal_pending' = signal_pending /\ pc' = pc /\ back' = back /\ old' = old
      /\ want' = want /\ excl' = excl /\ cur' = cur /\ wait_list' = wait_list
      /\ mode' = mode /\ queue' = queue
    BY DEF vars, word, callLocals, listLocals, history
<1>2. TypeOK'
    BY <1>1 DEF IInv, Inv, TypeOK
<1>3. \A t \in Threads : /\ LocalOK(t)' <=> LocalOK(t)
                         /\ InQueue(t)' <=> InQueue(t)
                         /\ Given(t)' <=> Given(t) /\ (Sole(t)' <=> Sole(t))
    BY <1>1 DEF LocalOK, InQueue, Given, Waits, Sole
<1>4. HoldInv'
    BY <1>1 DEF IInv, Inv, HoldInv, Holders, Sole
<1>5. QueueInv'
    BY <1>1, <1>3 DEF IInv, Inv, QueueInv
<1>6. PICK k \in Nat, L \in Lists : ListsOK(k, L)
    BY DEF IInv
<1>7. CutInv(k)'
    BY <1>1, <1>6 DEF ListsOK, CutInv
<1>8. \A t \in Threads : SnapOK(t, k)'
    BY <1>1, <1>6 DEF ListsOK, SnapOK, Sole
<1>9. WakeInv(L)'
    BY <1>1, <1>6 DEF ListsOK, WakeInv, On, InQueue, Given, Waits
<1>10. QED
    BY <1>2, <1>3, <1>4, <1>5, <1>6, <1>7, <1>8, <1>9 DEF IInv, Inv, ListsOK

LEMMA NextKeeps ==
    ASSUME IInv, [Next]_<<vars, client>>
    PROVE  IInv'
<1>1. CASE UNCHANGED <<vars, client>>
    BY <1>1, StutterKeeps
<1>2. CASE Next
    <2>1. PICK k \in Nat, L \in Lists : ListsOK(k, L)
        BY DEF IInv
    <2>2. Inv /\ UNCHANGED client
        BY <1>2 DEF IInv, Next
    <2>3. CASE Finished
        BY <2>2, <2>3, StutterKeeps DEF Finished
    <2>4. ASSUME NEW t \in Threads, Internal(t) PROVE IInv'
        BY <2>1, <2>2, <2>4, InternalKeeps
    <2>5. ASSUME NEW t \in Threads, Lock(t) \/ ClientUnlock(t) PROVE IInv'
        BY <2>1, <2>2, <2>5, LockKeeps, UnlockBeginKeeps DEF ClientUnlock
    <2>6. ASSUME NEW t \in Threads, Upgrade(t) \/ Downgrade(t) PROVE IInv'
        BY <2>1, <2>2, <2>6, ChangeKeeps
    <2>7. QED
        BY <1>2, <2>3, <2>4, <2>5, <2>6 DEF Next
<1>3. QED
    BY <1>1, <1>2

LEMMA InitHolds ==
    ASSUME FairLocks, Init
    PROVE  IInv
<1>1. client \in Clients /\ val = FreeWord(FALSE)
    <2>1. client \in Clients /\ val \in {FreeWord(u) : u \in client.unfair}
        BY DEF Init
    <2>2. client.unfair \subseteq {FALSE}
        BY <2>1 DEF FairLocks
    <2>3. QED
        BY <2>1, <2>2
<1>2. val \in Word /\ ~val.wlocked /\ val.readers = 0 /\ val.waitq = NULL
    BY <1>1, FreeIs
<1>3. /\ NULL \in Ids /\ "shared" \in Kinds /\ "idle" \in Places /\ <<>> \in Seq(Threads \X Kinds)
    BY DEF Ids, Kinds, Places
<1>4. TypeOK
    BY <1>1, <1>2, <1>3 DEF Init, TypeOK
<1>5. \A t \in Threads :
         /\ next[t] = NULL /\ ~signal_pending[t] /\ pc[t] = "idle" /\ back[t] = "idle"
         /\ cur[t] = NULL /\ wait_list[t] = NULL /\ mode[t] = "none"
    BY DEF Init
<1>6. queue = <<>> /\ Len(queue) = 0
    BY DEF Init
<1>7. \A t \in Threads : LocalOK(t) /\ ~InQueue(t) /\ ~Given(t)
    BY <1>5 DEF LocalOK, InQueue, Given, Waits
<1>8. HoldInv
    <2>1. Holders("rd") = {} /\ Holders("wr") = {}
        BY <1>5 DEF Holders
    <2>2. QED
        BY <1>2, <2>1, FS_EmptySet DEF HoldInv
<1>9. QueueInv
    BY <1>2, <1>6, <1>7 DEF QueueInv
<1>10. PICK k \in Nat : k = 0
    OBVIOUS
<1>11. CutInv(k)
    BY <1>5, <1>6, <1>10 DEF CutInv
<1>12. \A t \in Threads : SnapOK(t, k)
    BY <1>5 DEF SnapOK
<1>13. PICK L \in Lists : \A t \in Threads : L[t] = <<>>
    <2>1. [t \in Threads |-> <<>>] \in Lists
        BY DEF Lists
    <2>2. QED
        BY <2>1
<1>14. WakeInv(L)
    <2>1. \A t \in Threads : Len(L[t]) = 0
        BY <1>13
    <2>2. \A t \in Threads : 1..Len(L[t]) = {}
        BY <2>1
    <2>3. QED
        BY <1>5, <1>7, <1>13, <2>2 DEF WakeInv
<1>15. QED
    BY <1>4, <1>7, <1>8, <1>9, <1>11, <1>12, <1>14 DEF IInv, Inv, ListsOK

(* Of a fair lock, the invariant of this module: who holds the lock and    *)
(* who queues agree with the word and the links, the waiters cut off are   *)
(* those the unlock serves, a snapshot the code goes on from still names a *)
(* linked waiter, and every thread the lock was given to is signalled once.*)
THEOREM InvHolds == ASSUME FairLocks PROVE Spec => []IInv
<1>1. Init => IInv
    BY InitHolds
<1>2. IInv /\ [Next]_<<vars, client>> => IInv'
    BY NextKeeps
<1>3. QED
    BY <1>1, <1>2, PTL DEF Spec
-------------------------------------------------------------------------------
(* What follows from the invariant. *)

(* Of a fair lock, a writer that has returned is alone, and the word       *)
(* counts exactly the threads the lock was given to (CountExact).          *)
THEOREM CountsAreExact == ASSUME FairLocks PROVE Spec => []CountExact
<1>1. IInv => CountExact
    <2> SUFFICES ASSUME IInv PROVE CountExact
        OBVIOUS
    <2>1. TypeOK /\ (\A t \in Threads : LocalOK(t)) /\ HoldInv
        BY DEF IInv, Inv
    <2>2. \A t \in Threads : pc[t] \in {"rd", "wr"} => mode[t] = pc[t]
        BY <2>1 DEF LocalOK
    <2>3. ASSUME NEW t \in Threads, NEW u \in Threads, t # u, pc[t] = "wr"
          PROVE  pc[u] \notin {"rd", "wr"}
        <3>1. mode[t] = "wr" /\ Sole(t)
            BY <2>1, <2>2, <2>3 DEF HoldInv, Holders
        <3>2. mode[u] = "none"
            BY <2>3, <3>1 DEF Sole
        <3>3. QED
            BY <2>2, <3>2
    <2>4. val.readers = Cardinality({t \in Threads : mode[t] = "rd"})
        BY <2>1 DEF HoldInv, Holders
    <2>5. val.wlocked <=> \E t \in Threads : mode[t] = "wr"
        BY <2>1 DEF HoldInv, Holders
    <2>6. QED
        BY <2>2, <2>3, <2>4, <2>5 DEF CountExact
<1>2. QED
    BY <1>1, InvHolds, PTL

(* The queue as the links have it, newest first, with what was cut off. *)
LEMMA WholeQueue ==
    ASSUME TypeOK, QueueInv, NEW k \in Nat, CutInv(k)
    PROVE  \E s \in Seq(Threads) :
              /\ s = Chain(val.waitq) \o (IF k = 0 THEN <<>> ELSE Chain(queue[k][1]))
              /\ Len(s) = Len(queue)
              /\ \A i \in 1..Len(queue) : s[i] = queue[Len(queue) + 1 - i][1]
<1>1. Len(queue) \in Nat /\ k \in Nat
    BY QueueTypes
<1>2. CASE queue = <<>>
    <2>1. Len(queue) = 0 /\ val.waitq = NULL
        BY <1>2 DEF QueueInv
    <2>2. k = 0
        BY <2>1 DEF CutInv
    <2>3. PICK s : s = <<>>
        OBVIOUS
    <2>4. s \in Seq(Threads) /\ s \o <<>> = s /\ Len(s) = 0 /\ 1..Len(queue) = {}
        BY <2>1, <2>3
    <2>5. s = Chain(val.waitq) \o (IF k = 0 THEN <<>> ELSE Chain(queue[k][1]))
        BY <2>1, <2>2, <2>3, <2>4, ChainNull
    <2>6. QED
        BY <2>1, <2>4, <2>5
<1>3. CASE queue # <<>>
    <2>1. Len(queue) # 0 /\ val.waitq = queue[Len(queue)][1]
        BY <1>3, EmptySeq DEF TypeOK, QueueInv
    <2>2. Len(queue) \in (k + 1)..Len(queue) /\ Len(queue) \in 1..Len(queue)
        BY <1>1, <2>1 DEF CutInv
    <2>3. PICK a : a = Chain(val.waitq)
        OBVIOUS
    <2>4. a = Down(k + 1, Len(queue))
        BY <2>1, <2>2, <2>3, QueueChain
    <2>5. k + 1 \in 1..Len(queue) /\ Len(queue) + 1 - (k + 1) = Len(queue) - k
        BY <1>1, <2>2
    <2>6. /\ a \in Seq(Threads) /\ Len(a) = Len(queue) - k
          /\ \A i \in 1..(Len(queue) - k) : a[i] = queue[Len(queue) + 1 - i][1]
        <3>1. /\ Down(k + 1, Len(queue)) \in Seq(Threads)
              /\ Len(Down(k + 1, Len(queue))) = Len(queue) + 1 - (k + 1)
              /\ \A i \in 1..(Len(queue) + 1 - (k + 1)) :
                    Down(k + 1, Len(queue))[i] = queue[Len(queue) + 1 - i][1]
            BY <2>2, <2>5, DownIs
        <3>2. QED
            BY <2>4, <2>5, <3>1
    <2>7. CASE k = 0
        <3>1. Len(queue) - k = Len(queue)
            BY <1>1, <2>7
        <3>2. a \o <<>> = a
            BY <2>6, ConcatEmptySeq
        <3>3. a = Chain(val.waitq) \o (IF k = 0 THEN <<>> ELSE Chain(queue[k][1]))
            BY <2>3, <2>7, <3>2
        <3>4. QED
            BY <2>6, <3>1, <3>3
    <2>8. CASE k # 0
        <3>1. k > 0 /\ k \in 1..Len(queue)
            BY <1>1, <2>2, <2>8
        <3>2. PICK b : b = Chain(queue[k][1])
            OBVIOUS
        <3>3. b = Down(1, k)
            BY <3>1, <3>2, CutChain
        <3>4. /\ b \in Seq(Threads) /\ Len(b) = k
              /\ \A i \in 1..k : b[i] = queue[k + 1 - i][1]
            BY <3>1, <3>3, DownFirst
        <3>5. PICK s : s = a \o b
            OBVIOUS
        <3>6. /\ s \in Seq(Threads) /\ Len(s) = Len(queue)
              /\ \A i \in 1..Len(queue) :
                    s[i] = IF i <= Len(a) THEN a[i] ELSE b[i - Len(a)]
            <4>1. /\ s \in Seq(Threads) /\ Len(s) = Len(a) + Len(b)
                  /\ \A i \in 1..(Len(a) + Len(b)) :
                        s[i] = IF i <= Len(a) THEN a[i] ELSE b[i - Len(a)]
                BY <2>6, <3>4, <3>5, ConcatProperties
            <4>2. Len(a) + Len(b) = Len(queue)
                BY <1>1, <2>6, <3>4
            <4>3. QED
                BY <4>1, <4>2
        <3>7. ASSUME NEW i \in 1..Len(queue)
              PROVE  s[i] = queue[Len(queue) + 1 - i][1]
            <4>1. CASE i <= Len(queue) - k
                <5>1. i \in 1..(Len(queue) - k) /\ s[i] = a[i]
                    BY <1>1, <2>6, <3>6, <4>1
                <5>2. QED
                    BY <2>6, <5>1
            <4>2. CASE i > Len(queue) - k
                <5>1. /\ i - (Len(queue) - k) \in 1..k
                      /\ k + 1 - (i - (Len(queue) - k)) = Len(queue) + 1 - i
                    BY <1>1, <4>2
                <5>2. s[i] = b[i - (Len(queue) - k)]
                    BY <1>1, <2>6, <3>6, <4>2
                <5>3. QED
                    BY <3>4, <5>1, <5>2
            <4>3. QED
                BY <1>1, <4>1, <4>2
        <3>8. s = Chain(val.waitq) \o (IF k = 0 THEN <<>> ELSE Chain(queue[k][1]))
            BY <2>3, <2>8, <3>2, <3>5
        <3>9. QED
            BY <3>6, <3>7, <3>8
    <2>9. QED
        BY <2>7, <2>8
<1>4. QED
    BY <1>2, <1>3

(* Of a fair lock, nobody who waits is lost: the links and the group cut   *)
(* off them are the queue in its order (QueueExact).                       *)
THEOREM QueueIsExact == ASSUME FairLocks PROVE Spec => []QueueExact
<1>1. IInv => QueueExact
    <2> SUFFICES ASSUME IInv PROVE QueueExact
        OBVIOUS
    <2> DEFINE T == {t \in Threads : TakesApart(t)}
               C == {t \in Threads : pc[t] = "fair"}
               cut == IF C = {} THEN <<>> ELSE Chain(wait_list[CHOOSE t \in C : TRUE])
    <2>1. PICK k \in Nat, L \in Lists : ListsOK(k, L)
        BY DEF IInv
    <2>2. Inv /\ TypeOK /\ QueueInv /\ CutInv(k)
        BY <2>1 DEF IInv, Inv, ListsOK
    <2>3. T = {}
        BY <2>2 DEF TypeOK, Places, TakesApart
    <2>4. cut = IF k = 0 THEN <<>> ELSE Chain(queue[k][1])
        <3>1. \A t \in Threads : wait_list[t] # NULL => t \in C
            BY <2>2 DEF Inv, LocalOK
        <3>2. CASE C = {}
            <4>1. k = 0
                BY <2>2, <3>1, <3>2 DEF CutInv
            <4>2. QED
                BY <3>2, <4>1
        <3>3. CASE C # {}
            <4>1. PICK t : t = CHOOSE x \in C : TRUE
                OBVIOUS
            <4>2. t \in C
                BY <3>3, <4>1
            <4>3. cut = Chain(wait_list[t])
                BY <3>3, <4>1
            <4>4. t \in Threads /\ pc[t] = "fair"
                BY <4>2
            <4>5. mode[t] # "none"
                BY <2>2, <4>4 DEF Inv, LocalOK
            <4>6. CASE k = 0
                <5>1. wait_list[t] = NULL
                    BY <2>2, <4>4, <4>6 DEF CutInv
                <5>2. QED
                    BY <4>3, <4>6, <5>1, ChainNull
            <4>7. CASE k # 0
                <5>1. wait_list[t] # NULL
                    BY <2>1, <2>2, <4>4, <4>5, <4>7, CutSole
                <5>2. wait_list[t] = queue[k][1]
                    BY <2>2, <4>4, <5>1 DEF CutInv
                <5>3. QED
                    BY <4>3, <4>7, <5>2
            <4>8. QED
                BY <4>6, <4>7
        <3>4. QED
            BY <3>2, <3>3
    <2>5. PICK s \in Seq(Threads) :
             /\ s = Chain(val.waitq) \o (IF k = 0 THEN <<>> ELSE Chain(queue[k][1]))
             /\ Len(s) = Len(queue)
             /\ \A i \in 1..Len(queue) : s[i] = queue[Len(queue) + 1 - i][1]
        BY <2>2, WholeQueue
    <2>6. s = Chain(val.waitq) \o cut
        BY <2>4, <2>5
    <2>7. Reverse(s) = [i \in 1..Len(queue) |-> queue[i][1]]
        <3>1. Len(queue) \in Nat
            BY <2>2, QueueTypes
        <3>2. Reverse(s) = [i \in 1..Len(queue) |-> s[(Len(queue) - i) + 1]]
            BY <2>5 DEF Reverse
        <3>3. ASSUME NEW i \in 1..Len(queue)
              PROVE  s[(Len(queue) - i) + 1] = queue[i][1]
            <4>1. /\ (Len(queue) - i) + 1 \in 1..Len(queue)
                  /\ Len(queue) + 1 - ((Len(queue) - i) + 1) = i
                BY <3>1
            <4>2. QED
                BY <2>5, <4>1
        <3>4. QED
            BY <3>2, <3>3
    <2> HIDE DEF T, cut
    <2>8. T = {} /\ Reverse(Chain(val.waitq) \o cut) = [i \in 1..Len(queue) |-> queue[i][1]]
        BY <2>3, <2>6, <2>7
    <2>9. QED
        BY <2>8 DEF QueueExact, T, cut
<1>2. QED
    BY <1>1, InvHolds, PTL

(* A thread that cuts the queue is the only one that holds the lock. *)
LEMMA CuttingSole ==
    ASSUME Inv, NEW k \in Nat, NEW L \in Lists, ListsOK(k, L), NEW t \in Cutting
    PROVE  t \in Threads /\ Sole(t)
<1>1. t \in Threads /\ pc[t] \in {"fair", "downgrade"}
    BY DEF Cutting, Inv, TypeOK, Places
<1>2. pc[t] = "downgrade" => mode[t] = "wr"
    BY <1>1 DEF Inv, LocalOK
<1>3. QED
    BY <1>1, <1>2, HeldWord DEF Inv, ListsOK, SnapOK

LEMMA PrivateLists ==
    ASSUME Inv, NEW k \in Nat, NEW L \in Lists, ListsOK(k, L)
    PROVE  ListsPrivate
<1>1. TypeOK /\ \A t \in Threads : LocalOK(t) /\ pc[t] \in Places
    BY DEF Inv, TypeOK
<1>2. \A t \in Threads : ~TakesApart(t)
    BY <1>1 DEF Places, TakesApart
<1>3. Cardinality({}) = 0
    BY FS_EmptySet
<1>4. Cardinality({t \in Threads : TakesApart(t)}) <= 1
    <2>1. {t \in Threads : TakesApart(t)} = {}
        BY <1>2
    <2>2. QED
        BY <1>3, <2>1
<1>5. CASE Cutting = {}
    BY <1>3, <1>4, <1>5 DEF ListsPrivate
<1>6. CASE Cutting # {}
    <2>1. PICK t \in Cutting : TRUE
        BY <1>6
    <2>2. t \in Threads /\ Sole(t) /\ pc[t] \in {"fair", "downgrade"}
        BY <1>1, <2>1, CuttingSole DEF Cutting, Places
    <2>3. ASSUME NEW u \in Cutting PROVE u = t
        <3>1. u \in Threads /\ pc[u] \in {"fair", "downgrade"}
            BY <1>1 DEF Cutting, Places
        <3>2. mode[u] # "none"
            BY <1>1, <3>1 DEF LocalOK
        <3>3. QED
            BY <2>2, <3>1, <3>2 DEF Sole
    <2>4. Cutting = {t}
        BY <2>1, <2>3
    <2>5. Cardinality(Cutting) = 1
        BY <2>4, FS_Singleton
    <2>6. ASSUME NEW u \in Linking PROVE FALSE
        <3>1. u \in Threads /\ pc[u] \in {"insert_walk", "insert_swap"}
            BY <1>2 DEF Linking
        <3>2. mode[u] # "none"
            BY <1>1, <3>1 DEF LocalOK
        <3>3. u = t
            BY <2>2, <3>1, <3>2 DEF Sole
        <3>4. QED
            BY <2>2, <3>1, <3>3
    <2>7. QED
        BY <1>4, <2>5, <2>6 DEF ListsPrivate
<1>7. QED
    BY <1>5, <1>6

(* The waiter a fair unlock looks at first is the oldest one. *)
LEMMA OldestIs ==
    ASSUME Inv, NEW k \in Nat, NEW L \in Lists, ListsOK(k, L), NEW t \in Threads,
           pc[t] = "fair"
    PROVE  /\ Last(Chain(old[t].waitq) \o Chain(wait_list[t])) = queue[1][1]
           /\ 1 \in 1..Len(queue) /\ queue # <<>>
<1>1. PICK j \in 1..Len(queue), m \in 1..Len(queue) :
              /\ j > k /\ m <= j /\ queue[j][1] = old[t].waitq /\ Taken(t) = Down(1, m)
              /\ wait_list[t] # NULL =>
                    /\ k > 0 /\ m = k /\ wait_list[t] = queue[k][1]
                    /\ m < Len(queue) /\ Serves(queue, m, Len(queue))
              /\ wait_list[t] = NULL =>
                    /\ k = 0 /\ Chain(old[t].waitq) = Down(1, j) /\ Serves(queue, m, j)
    BY TakenIs
<1>2. TypeOK /\ QueueInv /\ CutInv(k)
    BY DEF Inv, ListsOK
<1>3. Len(queue) \in Nat /\ 1 \in 1..Len(queue) /\ queue # <<>>
    BY <1>2, QueueTypes
<1>4. PICK a, b : a = Chain(old[t].waitq) /\ b = Chain(wait_list[t])
    OBVIOUS
<1>5. CASE wait_list[t] = NULL
    <2>1. a = Down(1, j) /\ b = <<>>
        BY <1>1, <1>4, <1>5, ChainNull
    <2>2. a \in Seq(Threads) /\ Last(a) = queue[1][1]
        BY <1>2, <1>3, <2>1, DownIs
    <2>3. a \o b = a
        BY <2>1, <2>2, ConcatEmptySeq
    <2>4. QED
        BY <1>3, <1>4, <2>2, <2>3
<1>6. CASE wait_list[t] # NULL
    <2>1. k \in 1..Len(queue) /\ b = Down(1, k)
        <3>1. k > 0 /\ k \in 1..Len(queue) /\ wait_list[t] = queue[k][1]
            BY <1>1, <1>6
        <3>2. QED
            BY <1>2, <1>4, <3>1, CutChain
    <2>2. b \in Seq(Threads) /\ Len(b) = k /\ \A i \in 1..k : b[i] = queue[k + 1 - i][1]
        BY <1>2, <2>1, DownFirst
    <2>3. k \in 1..k /\ k + 1 - k = 1 /\ k \in Nat /\ k > 0
        BY <2>1
    <2>4. b[k] = queue[1][1]
        BY <2>2, <2>3
    <2>5. a \in Seq(Threads)
        <3>1. j \in (k + 1)..Len(queue) /\ k + 1 \in 1..Len(queue)
            BY <1>1, <1>3
        <3>2. a = Down(k + 1, j)
            BY <1>1, <1>2, <1>4, <3>1, QueueChain
        <3>3. QED
            BY <1>2, <3>1, <3>2, DownIs
    <2>6. PICK s : s = a \o b
        OBVIOUS
    <2>7. /\ s \in Seq(Threads) /\ Len(s) = Len(a) + Len(b)
          /\ \A i \in 1..(Len(a) + Len(b)) : s[i] = IF i <= Len(a) THEN a[i] ELSE b[i - Len(a)]
        BY <2>2, <2>5, <2>6, ConcatProperties
    <2>8. Last(s) = b[k]
        <3>1. Len(a) \in Nat /\ Len(s) = Len(a) + k /\ Len(s) \in 1..(Len(a) + Len(b))
            BY <2>2, <2>3, <2>5, <2>7
        <3>2. ~(Len(s) <= Len(a)) /\ Len(s) - Len(a) = k
            BY <2>3, <3>1
        <3>3. s[Len(s)] = b[k]
            BY <2>7, <3>1, <3>2
        <3>4. QED
            BY <3>3 DEF Last
    <2>9. QED
        BY <1>3, <1>4, <2>4, <2>6, <2>8
<1>7. QED
    BY <1>5, <1>6

(* The waiters that are still to be signalled, by their links. *)
LEMMA WakeChain ==
    ASSUME TypeOK, NEW L \in Lists, WakeInv(L), NEW t \in Threads,
           pc[t] \in {"wake", "wake_all"}
    PROVE  Chain(cur[t]) = L[t]
<1>1. L[t] \in Seq(Threads) /\ cur[t] = IF L[t] = <<>> THEN NULL ELSE L[t][1]
    BY DEF Lists, WakeInv
<1>2. \A i \in 1..Len(L[t]) : next[L[t][i]] = IF i = Len(L[t]) THEN NULL ELSE L[t][i + 1]
    BY DEF WakeInv
<1>3. \A i, j \in 1..Len(L[t]) : L[t][i] = L[t][j] => i = j
    BY DEF WakeInv
<1>4. QED
    BY <1>1, <1>2, <1>3, ChainIs

LEMMA InvAsserts ==
    ASSUME IInv
    PROVE  AssertionsHold
<1>1. PICK k \in Nat, L \in Lists : ListsOK(k, L)
    BY DEF IInv
<1>2. Inv /\ TypeOK /\ QueueInv /\ HoldInv /\ CutInv(k) /\ WakeInv(L)
    BY <1>1 DEF IInv, Inv, ListsOK
<1>3. ListsPrivate
    BY <1>1, <1>2, PrivateLists
<1>4. ASSUME NEW t \in Threads,
             pc[t] \in {"idle", "lock", "rd", "wr", "upgrade", "insert"}
      PROVE  next[t] = NULL
    <2>1. back[t] = "idle"
        BY <1>2, <1>4 DEF Inv, LocalOK
    <2>2. ~Given(t) /\ ~InQueue(t) /\ pc[t] # "contention"
        BY <1>4, <2>1 DEF Given, InQueue, Waits
    <2>3. ~On(L, t)
        BY <1>2, <2>2 DEF WakeInv, On
    <2>4. QED
        BY <1>2, <2>2, <2>3 DEF WakeInv
<1>5. ASSUME NEW t \in Threads, pc[t] = "fair"
      PROVE  /\ old[t].waitq # NULL /\ ~Locked(Released(old[t], excl[t]))
             /\ tag[Last(Chain(old[t].waitq) \o Chain(wait_list[t]))] = "shared"
                    => excl[t] /\ ~old[t].unfair
    <2>1. SnapOK(t, k) /\ LocalOK(t) /\ excl[t] \in BOOLEAN /\ old[t] \in Word
        BY <1>1, <1>2 DEF Inv, ListsOK, TypeOK
    <2>2. mode[t] = IF excl[t] THEN "wr" ELSE "rd"
        BY <1>5, <2>1 DEF LocalOK
    <2>3. /\ old[t].waitq # NULL /\ Sole(t) /\ (~excl[t] => old[t].readers = 1)
          /\ IF excl[t] THEN old[t].wlocked /\ old[t].readers = 0
                        ELSE ~old[t].wlocked /\ old[t].readers # 0
        BY <1>5, <2>1, <2>2 DEF SnapOK
    <2>4. ~Locked(Released(old[t], excl[t]))
        BY <2>1, <2>3, ReleasedIs
    <2>5. /\ Last(Chain(old[t].waitq) \o Chain(wait_list[t])) = queue[1][1]
          /\ 1 \in 1..Len(queue) /\ queue # <<>>
        BY <1>1, <1>2, <1>5, OldestIs
    <2>6. tag[queue[1][1]] = "shared" => val.wlocked
        BY <1>2, <2>5 DEF QueueInv
    <2>7. val.wlocked => excl[t]
        BY <1>2, <2>2, <2>3, HeldWord DEF Sole
    <2>8. ~old[t].unfair
        BY <2>1 DEF Word
    <2>9. QED
        BY <2>3, <2>4, <2>5, <2>6, <2>7, <2>8
<1>6. ASSUME NEW t \in Threads, pc[t] = "wake"
      PROVE  next[cur[t]] = NULL /\ ~signal_pending[cur[t]]
    <2>1. Len(L[t]) = 1 /\ L[t] # <<>>
        <3>1. Len(L[t]) = 1
            BY <1>2, <1>6 DEF WakeInv
        <3>2. QED
            BY <3>1
    <2>2. 1 \in 1..Len(L[t]) /\ cur[t] = L[t][1]
        BY <1>2, <1>6, <2>1 DEF WakeInv
    <2>3. QED
        BY <1>2, <2>1, <2>2 DEF WakeInv
<1>7. ASSUME NEW t \in Threads, pc[t] = "wake_all", NEW w \in Range(Chain(cur[t]))
      PROVE  tag[w] = "shared" /\ ~signal_pending[w] /\ mode[w] = "rd"
    <2>1. w \in Range(L[t]) /\ L[t] \in Seq(Threads)
        BY <1>2, <1>7, WakeChain DEF Lists
    <2>2. PICK i \in 1..Len(L[t]) : w = L[t][i]
        BY <2>1 DEF Range
    <2>3. w \in Threads /\ Given(w) /\ ~signal_pending[w] /\ tag[w] = "shared"
        BY <1>2, <1>7, <2>1, <2>2 DEF WakeInv
    <2>4. mode[w] = "rd"
        BY <1>2, <2>3 DEF Inv, LocalOK
    <2>5. QED
        BY <2>3, <2>4
<1>8. ASSUME NEW t \in Threads, pc[t] = "insert_walk"
      PROVE  cur[t] # NULL /\ (tag[cur[t]] = "upgrade" => next[cur[t]] = NULL)
    <2>1. PICK j \in 1..Len(queue) : queue[j][1] = cur[t]
        BY <1>1, <1>8 DEF ListsOK, SnapOK
    <2>2. cur[t] # NULL
        BY <1>2, <2>1, QueueTypes, NullAssumption
    <2>3. tag[cur[t]] = "upgrade" => j = 1
        BY <1>2, <2>1 DEF QueueInv
    <2>4. QED
        BY <1>2, <2>1, <2>2, <2>3 DEF CutInv
<1>9. \A t \in Threads : pc[t] \notin {"separate", "reinsert", "reinsert_swap"}
    BY <1>2 DEF TypeOK, Places
<1>10. QED
    BY <1>3, <1>4, <1>5, <1>6, <1>7, <1>8, <1>9 DEF AssertionsHold

(* Of a fair lock, the assertions of the code hold, and no other thread    *)
(* touches the links that a thread cuts or changes (AssertionsHold).       *)
THEOREM AssertionsAreTrue == ASSUME FairLocks PROVE Spec => []AssertionsHold
<1>1. IInv => AssertionsHold
    BY InvAsserts
<1>2. QED
    BY <1>1, InvHolds, PTL
-------------------------------------------------------------------------------
(* The refinement. *)

(* A step of RwLockSpec, or one it does not see. *)
SpecStep == [Abstract!Next]_Abstract!lockVars

LEMMA SpecSame ==
    ASSUME UNCHANGED <<mode, queue>>, val'.unfair = val.unfair
    PROVE  SpecStep
BY DEF SpecStep, Abstract!lockVars

LEMMA SpecQueued ==
    ASSUME QueueInv, NEW t \in Threads
    PROVE  Abstract!Queued(t) <=> InQueue(t)
BY DEF QueueInv, Abstract!Queued

(* A thread that enters is alone, or with readers if it reads. *)
LEMMA SpecCompatible ==
    ASSUME TypeOK, HoldInv, NEW t \in Threads, NEW m \in {"rd", "wr"},
           Sole(t) \/ (m = "rd" /\ ~val.wlocked) \/ ~Locked(val)
    PROVE  Abstract!Compatible(t, m)
<1>1. \A u \in Threads : mode[u] \in {"none", "rd", "wr"}
    BY DEF TypeOK
<1>2. CASE Sole(t)
    BY <1>2 DEF Sole, Abstract!Compatible
<1>3. CASE m = "rd" /\ ~val.wlocked
    <2>1. \A u \in Threads : mode[u] # "wr"
        BY <1>3, HeldWord
    <2>2. QED
        BY <1>1, <1>3, <2>1 DEF Abstract!Compatible
<1>4. CASE ~Locked(val)
    <2>1. \A u \in Threads : mode[u] = "none"
        BY <1>4, HeldWord
    <2>2. QED
        BY <2>1 DEF Abstract!Compatible
<1>5. QED
    BY <1>2, <1>3, <1>4

LEMMA SpecEnter ==
    ASSUME Inv, NEW t \in Threads, pc[t] \in {"lock", "contention"},
           Grantable(old[t], Exclusive(t)), Enter(t)
    PROVE  SpecStep
<1>1. TypeOK /\ LocalOK(t) /\ QueueInv /\ HoldInv
    BY DEF Inv
<1>2. val = old[t] /\ val' = Granted(val, Exclusive(t)) /\ UNCHANGED queue
      /\ mode' = [mode EXCEPT ![t] = ModeOf(t)]
    BY DEF Enter, Swapped, Set
<1>3. val \in Word /\ val.unfair = FALSE
    BY <1>1 DEF TypeOK, Word
<1>4. val'.unfair = val.unfair
    BY <1>2, <1>3 DEF Granted, Plus, Word
<1>5. val.waitq = NULL /\ ~val.wlocked /\ (Exclusive(t) => ~Locked(val))
    BY <1>2, <1>3 DEF Grantable, Locked
<1>6. queue = <<>>
    <2>1. queue # <<>> => Len(queue) \in 1..Len(queue)
        BY <1>1, EmptySeq DEF TypeOK
    <2>2. QED
        BY <1>1, <1>5, <2>1, QueueTypes, NullAssumption DEF QueueInv
<1>7. mode[t] = "none" /\ ~InQueue(t)
    <2>1. back[t] = "idle"
        BY <1>1 DEF LocalOK
    <2>2. QED
        BY <1>1, <2>1 DEF LocalOK, InQueue, Waits
<1>8. PICK m \in {"rd", "wr"} : m = ModeOf(t)
    BY DEF ModeOf
<1>9. Abstract!Compatible(t, m)
    BY <1>1, <1>5, <1>8, SpecCompatible DEF ModeOf
<1>10. Abstract!Acquire(t, m)
    BY <1>1, <1>2, <1>6, <1>7, <1>8, <1>9, SpecQueued DEF Abstract!Acquire
<1>11. QED
    BY <1>4, <1>10 DEF SpecStep, Abstract!Next

LEMMA SpecLock ==
    ASSUME Inv, NEW t \in Threads, LockTurn(t) \/ Contention(t), val'.unfair = val.unfair
    PROVE  SpecStep
<1>1. TypeOK /\ LocalOK(t) /\ QueueInv /\ HoldInv /\ pc[t] \in {"lock", "contention"}
    BY DEF Inv, LockTurn, Contention
<1>2. CASE Grantable(old[t], Exclusive(t)) /\ Enter(t)
    BY <1>1, <1>2, SpecEnter
<1>3. CASE UNCHANGED <<mode, queue>>
    BY <1>3, SpecSame
<1>4. ASSUME NEW k \in Kinds, ~Grantable(old[t], Exclusive(t)), val = old[t],
             queue' = Append(queue, <<t, k>>), UNCHANGED mode
      PROVE  SpecStep
    <2>1. mode[t] = "none" /\ ~InQueue(t)
        <3>1. back[t] = "idle"
            BY <1>1 DEF LocalOK
        <3>2. QED
            BY <1>1, <3>1 DEF LocalOK, InQueue, Waits
    <2>2. val.unfair = FALSE /\ (val.waitq # NULL => queue # <<>>)
        BY <1>1 DEF TypeOK, Word, QueueInv
    <2>3. Locked(val)
        <3>1. Locked(val) \/ val.wlocked \/ val.waitq # NULL
            BY <1>4, <2>2 DEF Grantable
        <3>2. QED
            BY <1>1, <2>2, <3>1 DEF QueueInv, Locked
    <2>4. \E u \in Threads : mode[u] # "none"
        BY <1>1, <2>3, HeldWord
    <2>5. Abstract!Enqueue(t, k)
        BY <1>1, <1>4, <2>1, <2>4, SpecQueued DEF Abstract!Enqueue, Abstract!Held
    <2>6. QED
        BY <2>5 DEF SpecStep, Abstract!Next, Kinds, Abstract!Kinds
<1>5. CASE LockTurn(t)
    BY <1>2, <1>3, <1>5 DEF LockTurn, history
<1>6. CASE Contention(t)
    <2>1. PICK k \in Kinds : k = IF Exclusive(t) THEN "excl" ELSE "shared"
        BY DEF Kinds
    <2>2. \/ Grantable(old[t], Exclusive(t)) /\ Enter(t)
          \/ /\ ~Grantable(old[t], Exclusive(t)) /\ val = old[t]
             /\ queue' = Append(queue, <<t, k>>) /\ UNCHANGED mode
          \/ UNCHANGED <<mode, queue>>
        BY <1>6, <2>1 DEF Contention, Swapped, history
    <2>3. QED
        BY <1>2, <1>3, <1>4, <2>2
<1>7. QED
    BY <1>5, <1>6

LEMMA SpecRelease ==
    ASSUME Inv, NEW k \in Nat, NEW L \in Lists, ListsOK(k, L), NEW t \in Threads,
           Unlock(t), val'.unfair = val.unfair
    PROVE  SpecStep
<1> DEFINE w == Released(old[t], excl[t])
<1>1. TypeOK /\ LocalOK(t) /\ QueueInv /\ HoldInv /\ SnapOK(t, k) /\ pc[t] = "unlock"
    BY DEF Inv, ListsOK, Unlock
<1>2. \/ UNCHANGED <<mode, queue>>
      \/ /\ Locked(w) \/ w.waitq = NULL
         /\ val = old[t] /\ Hold({}, "none", t) /\ queue' = queue
    BY DEF Unlock, Swapped, history
<1>3. CASE UNCHANGED <<mode, queue>>
    BY <1>3, SpecSame
<1>4. CASE /\ Locked(w) \/ w.waitq = NULL
           /\ val = old[t] /\ Hold({}, "none", t) /\ queue' = queue
    <2>1. excl[t] \in BOOLEAN /\ val \in Word /\ mode[t] = IF excl[t] THEN "wr" ELSE "rd"
        BY <1>1 DEF TypeOK, LocalOK
    <2>2. IF excl[t] THEN old[t].wlocked /\ old[t].readers = 0
                     ELSE ~old[t].wlocked /\ old[t].readers # 0
        BY <1>1, <2>1 DEF SnapOK
    <2>3. w.waitq = val.waitq /\ (Locked(w) <=> ~excl[t] /\ val.readers # 1)
        BY <1>4, <2>1, <2>2, ReleasedIs
    <2>4. mode' = [mode EXCEPT ![t] = "none"]
        BY <1>1, <1>4 DEF Hold, TypeOK
    <2>5. CASE val.waitq = NULL
        <3>1. queue = <<>>
            BY <2>1, <2>5, Fresh
        <3>2. Abstract!Release(t)
            BY <1>4, <2>1, <2>4, <3>1 DEF Abstract!Release
        <3>3. QED
            BY <3>2 DEF SpecStep, Abstract!Next
    <2>6. CASE ~excl[t] /\ val.readers # 1
        <3>1. ~Sole(t)
            BY <1>1, <2>1, <2>6, HeldWord
        <3>2. \E u \in Threads \ {t} : mode[u] # "none"
            BY <3>1 DEF Sole
        <3>3. Abstract!Release(t)
            BY <1>4, <2>1, <2>4, <3>2 DEF Abstract!Release
        <3>4. QED
            BY <3>3 DEF SpecStep, Abstract!Next
    <2>7. QED
        BY <1>4, <2>3, <2>5, <2>6
<1>5. QED
    BY <1>2, <1>3, <1>4

LEMMA SpecConvert ==
    ASSUME Inv, NEW t \in Threads, Sole(t), mode[t] # "none", NEW m \in {"rd", "wr"},
           queue = <<>>, mode' = [mode EXCEPT ![t] = m], queue' = queue,
           val'.unfair = val.unfair
    PROVE  SpecStep
<1>1. Abstract!Compatible(t, m)
    BY SpecCompatible DEF Inv
<1>2. Abstract!Convert(t, m)
    BY <1>1 DEF Abstract!Convert
<1>3. QED
    BY <1>2 DEF SpecStep, Abstract!Next

LEMMA SpecFirst ==
    ASSUME Inv, NEW t \in Threads, ~InQueue(t), NEW k \in {"shared", "upgrade"},
           \/ k = "shared" /\ mode[t] = "wr"
           \/ /\ k = "upgrade" /\ mode[t] = "rd"
              /\ \A i \in 1..Len(queue) : queue[i][2] # "upgrade",
           queue' = <<<<t, k>>>> \o queue, mode' = mode, val'.unfair = val.unfair
    PROVE  SpecStep
<1>1. Abstract!EnqueueFirst(t, k)
    BY SpecQueued DEF Inv, Abstract!EnqueueFirst
<1>2. QED
    BY <1>1 DEF SpecStep, Abstract!Next, Abstract!Kinds

LEMMA SpecDowngrade ==
    ASSUME Inv, NEW k \in Nat, NEW L \in Lists, ListsOK(k, L), NEW t \in Threads,
           DowngradeTurn(t), val'.unfair = val.unfair
    PROVE  SpecStep
<1>1. TypeOK /\ LocalOK(t) /\ HoldInv /\ pc[t] = "downgrade"
    BY DEF Inv, DowngradeTurn
<1>2. mode[t] = "wr" /\ mode[t] # "none" /\ ~InQueue(t)
    BY <1>1 DEF LocalOK, InQueue, Waits
<1>3. Sole(t) /\ (val.waitq # NULL <=> queue # <<>>)
    BY <1>1, <1>2, HeldWord, Fresh
<1>4. \/ UNCHANGED <<mode, queue>>
      \/ /\ old[t].waitq = NULL /\ val = old[t] /\ mode' = [mode EXCEPT ![t] = "rd"]
         /\ queue' = queue
      \/ queue' = <<<<t, "shared">>>> \o queue /\ mode' = mode
    BY DEF DowngradeTurn, Swapped, Set
<1>5. CASE UNCHANGED <<mode, queue>>
    BY <1>5, SpecSame
<1>6. CASE /\ old[t].waitq = NULL /\ val = old[t] /\ mode' = [mode EXCEPT ![t] = "rd"]
           /\ queue' = queue
    <2>1. PICK m \in {"rd", "wr"} : m = "rd"
        OBVIOUS
    <2>2. QED
        BY <1>2, <1>3, <1>6, <2>1, SpecConvert
<1>7. CASE queue' = <<<<t, "shared">>>> \o queue /\ mode' = mode
    <2>1. PICK kind \in {"shared", "upgrade"} : kind = "shared"
        OBVIOUS
    <2>2. QED
        BY <1>2, <1>7, <2>1, SpecFirst
<1>8. QED
    BY <1>4, <1>5, <1>6, <1>7

LEMMA SpecUpgrade ==
    ASSUME Inv, NEW k \in Nat, NEW L \in Lists, ListsOK(k, L), NEW t \in Threads,
           UpgradeTurn(t), val'.unfair = val.unfair
    PROVE  SpecStep
<1>1. TypeOK /\ LocalOK(t) /\ HoldInv /\ pc[t] = "upgrade"
    BY DEF Inv, UpgradeTurn
<1>2. mode[t] = "rd" /\ mode[t] # "none"
    BY <1>1 DEF LocalOK
<1>3. val.waitq # NULL <=> queue # <<>>
    BY <1>2, Fresh
<1>4. \/ UNCHANGED <<mode, queue>>
      \/ /\ old[t].waitq = NULL /\ old[t].readers = 1 /\ val = old[t]
         /\ mode' = [mode EXCEPT ![t] = "wr"] /\ queue' = queue
      \/ /\ old[t].waitq = NULL /\ old[t].readers # 1 /\ val = old[t]
         /\ mode' = [mode EXCEPT ![t] = "none"] /\ queue' = <<<<t, "upgrade">>>> \o queue
    BY DEF UpgradeTurn, Swapped, Set, history
<1>5. CASE UNCHANGED <<mode, queue>>
    BY <1>5, SpecSame
<1>6. CASE /\ old[t].waitq = NULL /\ old[t].readers = 1 /\ val = old[t]
           /\ mode' = [mode EXCEPT ![t] = "wr"] /\ queue' = queue
    <2>1. PICK m \in {"rd", "wr"} : m = "wr"
        OBVIOUS
    <2>2. queue = <<>> /\ Sole(t)
        BY <1>1, <1>2, <1>3, <1>6, HeldWord
    <2>3. QED
        BY <1>2, <1>6, <2>1, <2>2, SpecConvert
<1>7. CASE /\ old[t].waitq = NULL /\ old[t].readers # 1 /\ val = old[t]
           /\ mode' = [mode EXCEPT ![t] = "none"] /\ queue' = <<<<t, "upgrade">>>> \o queue
    <2>1. queue = <<>> /\ Len(queue) = 0 /\ ~Sole(t)
        BY <1>1, <1>2, <1>3, <1>7, HeldWord
    <2>2. \E u \in Threads \ {t} : mode[u] # "none"
        BY <2>1 DEF Sole
    <2>3. Abstract!ReleaseAndEnqueue(t)
        BY <1>2, <1>7, <2>1, <2>2 DEF Abstract!ReleaseAndEnqueue
    <2>4. QED
        BY <2>3 DEF SpecStep, Abstract!Next
<1>8. QED
    BY <1>4, <1>5, <1>6, <1>7

LEMMA SpecInsert ==
    ASSUME Inv, NEW k \in Nat, NEW L \in Lists, ListsOK(k, L), NEW t \in Threads,
           Insert(t) \/ InsertWalk(t) \/ InsertSwap(t), val'.unfair = val.unfair
    PROVE  SpecStep
<1>1. CASE UNCHANGED <<mode, queue>>
    BY <1>1, SpecSame
<1>2. CASE InsertSwap(t) /\ next[cur[t]] = NULL
    <2>1. /\ pc[t] = "insert_swap" /\ queue' = <<<<t, "upgrade">>>> \o queue /\ mode' = mode
        BY <1>2 DEF InsertSwap
    <2>2. PICK j \in 1..Len(queue) :
             /\ cur[t] = queue[j][1] /\ cur[t] \in Threads /\ tag[cur[t]] = queue[j][2]
             /\ next[cur[t]] = IF j = 1 THEN NULL ELSE queue[j - 1][1]
             /\ j # 1 => j - 1 \in 1..Len(queue)
             /\ next[cur[t]] = NULL <=> j = 1
        BY <2>1, InsertPlace
    <2>3. queue[1][2] # "upgrade"
        BY <1>2, <2>1, <2>2 DEF ListsOK, SnapOK
    <2>4. \A i \in 1..Len(queue) : queue[i][2] # "upgrade"
        BY <2>3 DEF Inv, QueueInv
    <2>5. mode[t] = "rd" /\ ~InQueue(t)
        BY <2>1 DEF Inv, LocalOK, InQueue, Waits
    <2>6. PICK kind \in {"shared", "upgrade"} : kind = "upgrade"
        OBVIOUS
    <2>7. QED
        BY <2>1, <2>4, <2>5, <2>6, SpecFirst
<1>3. QED
    BY <1>1, <1>2 DEF Insert, InsertWalk, InsertSwap, history

(* The group of the m oldest waiters may be served. *)
LEMMA SpecGroup ==
    ASSUME TypeOK, NEW m \in 1..Len(queue), Serves(queue, m, Len(queue))
    PROVE  Abstract!Group(1..m)
<1> DEFINE shared == {i \in 1..Len(queue) : queue[i][2] = "shared"}
<1>1. Len(queue) \in Nat /\ m \in Nat /\ m >= 1 /\ m <= Len(queue)
    BY QueueTypes
<1>2. CASE queue[1][2] # "shared"
    <2>1. m = 1
        BY <1>2 DEF Serves
    <2>2. 1..m = {1}
        BY <2>1
    <2>3. QED
        BY <1>2, <2>2 DEF Abstract!Group
<1>3. CASE queue[1][2] = "shared"
    <2>1. /\ \A i \in 1..m : queue[i][2] = "shared"
          /\ m < Len(queue) => queue[m + 1][2] # "shared"
        BY <1>3 DEF Serves
    <2>2. ASSUME NEW i \in 1..m PROVE i \in shared /\ 1..i \subseteq shared
        BY <1>1, <2>1
    <2>3. ASSUME NEW i \in shared, 1..i \subseteq shared PROVE i \in 1..m
        <3>1. i \in 1..Len(queue)
            OBVIOUS
        <3>2. CASE i <= m
            BY <1>1, <3>1, <3>2
        <3>3. CASE i > m
            <4>1. m + 1 \in 1..i /\ m < Len(queue)
                BY <1>1, <3>1, <3>3
            <4>2. QED
                BY <2>1, <2>3, <4>1
        <3>4. QED
            BY <1>1, <3>1, <3>2, <3>3
    <2>4. 1..m = {i \in shared : 1..i \subseteq shared}
        BY <2>2, <2>3
    <2>5. 1 \in 1..m /\ 1..m # {}
        BY <1>1
    <2>6. val.unfair = FALSE
        BY DEF TypeOK, Word
    <2>7. QED
        BY <2>4, <2>5, <2>6 DEF Abstract!Group
<1>4. QED
    BY <1>2, <1>3

(* What a successful turn of the fair unlock does to the history. *)
LEMMA FairPasses ==
    ASSUME Inv, NEW k \in Nat, NEW L \in Lists, ListsOK(k, L), NEW t \in Threads,
           FairTurn(t)
    PROVE  \/ UNCHANGED <<mode, queue>>
           \/ \E m \in 1..Len(queue), held \in {"rd", "wr"}, W \in SUBSET Threads :
                 /\ Serves(queue, m, Len(queue)) /\ (held = "rd" <=> queue[1][2] = "shared")
                 /\ W = {queue[i][1] : i \in 1..m} /\ Hold(W, held, t)
                 /\ queue' = Dequeued(W)
<1> DEFINE g == Taken(t)
           shared == tag[Last(g)] = "shared"
<1>1. /\ pc[t] = "fair"
      /\ \/ /\ val = old[t] /\ Hold(Range(g), IF shared THEN "rd" ELSE "wr", t)
            /\ queue' = Dequeued(Range(g))
         \/ UNCHANGED <<mode, queue>>
    BY Zenon DEF FairTurn, Taken, Swapped, history
<1>2. TypeOK /\ QueueInv
    BY DEF Inv
<1>3. PICK j \in 1..Len(queue), m \in 1..Len(queue) :
              /\ j > k /\ m <= j /\ queue[j][1] = old[t].waitq /\ Taken(t) = Down(1, m)
              /\ wait_list[t] # NULL =>
                    /\ k > 0 /\ m = k /\ wait_list[t] = queue[k][1]
                    /\ m < Len(queue) /\ Serves(queue, m, Len(queue))
              /\ wait_list[t] = NULL =>
                    /\ k = 0 /\ Chain(old[t].waitq) = Down(1, j) /\ Serves(queue, m, j)
    BY <1>1, TakenIs
<1>4. Len(queue) \in Nat /\ m \in Nat /\ 1 \in 1..Len(queue) /\ 1 \in 1..m /\ m \in 1..m
      /\ Len(queue) \in 1..Len(queue) /\ m + 1 - m = 1 /\ queue # <<>>
    BY <1>2, QueueTypes
<1>5. /\ g \in Seq(Threads) /\ Len(g) = m /\ g[m] = queue[1][1]
      /\ \A u : u \in Range(g) <=> \E i \in 1..m : u = queue[i][1]
    <2>1. /\ g \in Seq(Threads) /\ Len(g) = m
          /\ \A i \in 1..m : g[i] = queue[m + 1 - i][1]
          /\ \A u : u \in Range(g) <=> \E i \in 1..m : u = queue[i][1]
        <3>1. /\ Down(1, m) \in Seq(Threads) /\ Len(Down(1, m)) = m
              /\ \A i \in 1..m : Down(1, m)[i] = queue[m + 1 - i][1]
              /\ \A u : u \in Range(Down(1, m)) <=> \E i \in 1..m : u = queue[i][1]
            BY <1>2, DownFirst
        <3>2. QED
            BY <1>3, <3>1
    <2>2. QED
        BY <1>4, <2>1
<1>6. shared <=> queue[1][2] = "shared"
    <2>1. Last(g) = queue[1][1]
        BY <1>5 DEF Last
    <2>2. QED
        BY <1>2, <1>4, <2>1 DEF QueueInv
<1> HIDE DEF g, shared
<1>7. PICK W \in SUBSET Threads : W = {queue[i][1] : i \in 1..m}
    <2>1. \A i \in 1..m : i \in 1..Len(queue)
        BY <1>4
    <2>2. \A i \in 1..m : queue[i][1] \in Threads
        BY <1>2, <2>1, QueueTypes
    <2>3. {queue[i][1] : i \in 1..m} \in SUBSET Threads
        BY <2>2, Zenon
    <2>4. QED
        BY <2>3, Zenon
<1>8. Range(g) = W
    BY <1>5, <1>7
<1>9. PICK held \in {"rd", "wr"} : held = IF shared THEN "rd" ELSE "wr"
    OBVIOUS
<1>10. ASSUME val = old[t], Hold(Range(g), IF shared THEN "rd" ELSE "wr", t),
              queue' = Dequeued(Range(g))
       PROVE  /\ Serves(queue, m, Len(queue)) /\ (held = "rd" <=> queue[1][2] = "shared")
              /\ W = {queue[i][1] : i \in 1..m} /\ Hold(W, held, t)
              /\ queue' = Dequeued(W)
    <2>1. j = Len(queue)
        <3>1. queue[j][1] = queue[Len(queue)][1]
            BY <1>2, <1>3, <1>4, <1>10 DEF QueueInv
        <3>2. QED
            BY <1>2, <1>4, <3>1 DEF QueueInv
    <2>2. Serves(queue, m, Len(queue))
        BY <1>3, <2>1
    <2>3. Hold(W, held, t) /\ queue' = Dequeued(W)
        BY <1>8, <1>9, <1>10
    <2>4. QED
        BY <1>6, <1>7, <1>9, <2>2, <2>3
<1>11. QED
    BY <1>1, <1>10

LEMMA SpecPass ==
    ASSUME Inv, NEW k \in Nat, NEW L \in Lists, ListsOK(k, L), NEW t \in Threads,
           FairTurn(t), val'.unfair = val.unfair
    PROVE  SpecStep
<1>1. CASE UNCHANGED <<mode, queue>>
    BY <1>1, SpecSame
<1>2. ASSUME NEW m \in 1..Len(queue), NEW held \in {"rd", "wr"}, NEW W \in SUBSET Threads,
             Serves(queue, m, Len(queue)), held = "rd" <=> queue[1][2] = "shared",
             W = {queue[i][1] : i \in 1..m}, Hold(W, held, t), queue' = Dequeued(W)
      PROVE  SpecStep
    <2>1. TypeOK /\ HoldInv /\ Sole(t) /\ mode[t] # "none" /\ pc[t] = "fair"
        BY DEF Inv, ListsOK, LocalOK, SnapOK, FairTurn
    <2>2. Len(queue) \in Nat /\ m \in Nat /\ 1 \in 1..m /\ queue # <<>>
        BY <2>1, QueueTypes
    <2>3. Abstract!Group(1..m) /\ 1..m \in SUBSET (1..Len(queue))
        BY <1>2, <2>1, <2>2, SpecGroup
    <2>4. (\E i \in 1..m : queue[i][2] = "shared") <=> held = "rd"
        <3>1. queue[1][2] # "shared" => \A i \in 1..m : i = 1
            BY <1>2 DEF Serves
        <3>2. QED
            BY <1>2, <2>2, <3>1
    <2>5. Abstract!Compatible(t, held)
        BY <2>1, SpecCompatible
    <2>6. /\ mode' = [u \in Threads |-> IF u \in W THEN held
                                        ELSE IF u = t THEN "none" ELSE mode[u]]
          /\ queue' = Abstract!Filter(queue, (Threads \ W) \X Abstract!Kinds)
        BY <1>2, Zenon DEF Hold, Dequeued, Filter, Abstract!Filter, Kinds, Abstract!Kinds
    <2>7. held = IF \E i \in 1..m : queue[i][2] = "shared" THEN "rd" ELSE "wr"
        BY <2>4
    <2>8. Abstract!Pass(t)
        BY <1>2, <2>1, <2>2, <2>3, <2>5, <2>6, <2>7, Zenon DEF Abstract!Pass
    <2>9. QED
        BY <2>8 DEF SpecStep, Abstract!Next
<1>3. QED
    BY <1>1, <1>2, FairPasses

LEMMA NextSpec ==
    ASSUME IInv, IInv', [Next]_<<vars, client>>
    PROVE  SpecStep
<1>1. PICK k \in Nat, L \in Lists : ListsOK(k, L)
    BY DEF IInv
<1>2. Inv /\ \A t \in Threads : pc[t] \in Places
    BY DEF IInv, Inv, TypeOK
<1>3. val'.unfair = val.unfair
    <2>1. val \in Word /\ val' \in Word
        BY DEF IInv, Inv, TypeOK
    <2>2. QED
        BY <2>1 DEF Word
<1>4. CASE UNCHANGED <<mode, queue>>
    BY <1>3, <1>4, SpecSame
<1>5. ASSUME NEW t \in Threads, Internal(t) PROVE SpecStep
    <2>1. ~(TryUpgrade(t) \/ UnfairOldest(t) \/ FairBegin(t) \/ Detach(t) \/ Separate(t))
        BY <1>2 DEF Places, TryUpgrade, UnfairOldest, FairBegin, Detach, Separate
    <2>2. ~(Regrant(t) \/ Reinsert(t) \/ ReinsertSwap(t) \/ ReinsertLink(t) \/ RegrantSwap(t))
        BY <1>2 DEF Places, Regrant, Reinsert, ReinsertSwap, ReinsertLink, RegrantSwap
    <2>3. CASE LockTurn(t) \/ Contention(t)
        BY <1>2, <1>3, <2>3, SpecLock
    <2>4. CASE Unlock(t) \/ FairTurn(t)
        BY <1>1, <1>2, <1>3, <2>4, SpecRelease, SpecPass
    <2>5. CASE DowngradeTurn(t) \/ UpgradeTurn(t)
        BY <1>1, <1>2, <1>3, <2>5, SpecDowngrade, SpecUpgrade
    <2>6. CASE Insert(t) \/ InsertWalk(t) \/ InsertSwap(t)
        BY <1>1, <1>2, <1>3, <2>6, SpecInsert
    <2>7. CASE LockWait(t) \/ DowngradeWait(t) \/ UpgradeWait(t)
        BY <1>4, <2>7 DEF LockWait, DowngradeWait, UpgradeWait, Woken, history
    <2>8. CASE UnlockBegin(t) \/ Wake(t) \/ WakeAll(t)
        BY <1>4, <2>8 DEF UnlockBegin, Wake, WakeAll, history
    <2>9. QED
        BY <1>5, <2>1, <2>2, <2>3, <2>4, <2>5, <2>6, <2>7, <2>8, Zenon DEF Internal
<1>6. ASSUME NEW t \in Threads, Lock(t) \/ ClientUnlock(t) \/ Upgrade(t) \/ Downgrade(t)
      PROVE  SpecStep
    BY <1>4, <1>6 DEF Lock, ClientUnlock, UnlockBegin, Upgrade, Downgrade, history
<1>7. CASE UNCHANGED vars
    BY <1>4, <1>7 DEF vars, history
<1>8. QED
    BY <1>5, <1>6, <1>7 DEF Next, Finished

(* A fair lock is the queueing lock of RwLockSpec: every swap of the word, *)
(* and every link that puts a thread in the queue, is one step of it, and  *)
(* all else the code does it does not see (ImplementsRwLock).              *)
THEOREM FairLocksImplement == ASSUME FairLocks PROVE Spec => ImplementsRwLock
<1>1. Init => Abstract!Init
    <2> SUFFICES ASSUME Init PROVE Abstract!Init
        OBVIOUS
    <2>1. val.unfair = FALSE
        BY InitHolds DEF IInv, Inv, TypeOK, Word
    <2>2. QED
        BY <2>1 DEF Init, Abstract!Init
<1>2. IInv /\ IInv' /\ [Next]_<<vars, client>> => [Abstract!Next]_Abstract!lockVars
    BY NextSpec DEF SpecStep
<1>3. QED
    BY <1>1, <1>2, InvHolds, PTL DEF Spec, ImplementsRwLock, Abstract!Spec
===============================================================================
