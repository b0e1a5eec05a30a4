---------------------------- MODULE CondVarProofs -----------------------------
(***************************************************************************)
(* Proofs about CondVar, for every number of threads: HoldsMutex,          *)
(* SignalExpected and the refinement of CondVarSpec.  They hold of the     *)
(* programs that use deadlines or broadcast but not both; of the others    *)
(* HoldsMutex is false, as the run of the mixed programs shows.            *)
(***************************************************************************)
EXTENDS CondVar, FiniteSetTheorems, SequenceTheorems, WellFoundedInduction, TLAPS

(* No program has both threads that wait with a deadline and threads that  *)
(* broadcast.                                                              *)
Separated(c) ==
    \A t, u \in Threads : ~("timedwait" \in c[t] /\ "broadcast" \in c[u])

-------------------------------------------------------------------------------
(* The inductive invariant. *)

Ids == Threads \cup {NULL}

Lists == [Ids -> Seq(Threads)]

Places ==
    {"out", "in", "lock_wait", "wake", "drop", "cv_wait", "expired", "consume",
     "reacquire", "signal", "broadcast", "wake_all", "wake_one"}

TypeOK ==
    /\ ops \in [Threads -> SUBSET {"wait", "timedwait", "signal", "broadcast"}]
    /\ waitq \in Ids /\ next \in [Threads -> Ids] /\ prev \in [Threads -> Ids]
    /\ signal_pending \in [Threads -> BOOLEAN]
    /\ owner \in Ids /\ queue \in Seq(Threads)
    /\ pc \in [Threads -> Places]
    /\ timed \in [Threads -> BOOLEAN]
    /\ res \in [Threads -> {"0", "ETIMEDOUT"}]
    /\ cur \in [Threads -> Ids] /\ target \in [Threads -> Ids]
    /\ back \in [Threads -> {"in", "out", "cv_wait"}]

Notifying == {"signal", "broadcast", "wake_all", "wake_one"}

(* What the place of a thread says of its own variables. *)
LocalOK(t) ==
    /\ pc[t] \in {"wake", "wake_one"} => target[t] \in Threads
    /\ pc[t] \in Notifying => back[t] \in {"in", "out"}
    /\ cur[t] # NULL => pc[t] \in {"wake_all", "wake_one"}
    /\ pc[t] \in {"broadcast", "wake_all", "wake_one"} => "broadcast" \in ops[t]
    /\ timed[t] => "timedwait" \in ops[t]
    /\ pc[t] = "expired" => timed[t]

(* The thread is in the client's critical section. *)
Inside(t) ==
    \/ pc[t] \in {"in", "drop"}
    \/ pc[t] \in Notifying \cup {"wake"} /\ back[t] = "in"

Queues(t) == \E i \in 1..Len(queue) : queue[i] = t

(* The mutex belongs to who is inside, or was handed to who waits for it. *)
MutexInv ==
    /\ \A t \in Threads :
          owner = t <=> Inside(t) \/ (pc[t] = "lock_wait" /\ ~Queues(t))
    /\ \A t \in Threads : Queues(t) => pc[t] = "lock_wait"
    /\ \A i, j \in 1..Len(queue) : queue[i] = queue[j] => i = j
    /\ owner = NULL => queue = <<>>

(* The lists L of waiters: L[NULL] is the queue of the condition variable, *)
(* L[t] what the broadcast of thread t has yet to wake.  Waiter w is on    *)
(* one of them.                                                            *)
Listed(L, w) == \E a \in Ids : \E i \in 1..Len(L[a]) : L[a][i] = w

(* The lists begin at the heads h, are linked by n and p, and share no     *)
(* waiter; but the first of a detached list still points back to who was   *)
(* woken before it.                                                        *)
Linked(L, h, n, p) ==
    /\ \A a \in Ids : h[a] = IF L[a] = <<>> THEN NULL ELSE L[a][1]
    /\ \A a \in Ids : \A i \in 1..Len(L[a]) :
          /\ n[L[a][i]] = IF i = Len(L[a]) THEN NULL ELSE L[a][i + 1]
          /\ i > 1 => p[L[a][i]] = L[a][i - 1]
          /\ i = 1 /\ a = NULL => p[L[a][i]] = NULL
    /\ \A a, b \in Ids : \A i \in 1..Len(L[a]), j \in 1..Len(L[b]) :
          L[a][i] = L[b][j] => a = b /\ i = j
    /\ \A w \in Threads : ~Listed(L, w) => n[w] = NULL /\ p[w] = NULL

Heads == [a \in Ids |-> IF a = NULL THEN waitq ELSE cur[a]]

Sends(t, w) == pc[t] \in {"wake", "wake_one"} /\ target[t] = w

Needs(L, w) == (Waiting(w) /\ ~Listed(L, w)) \/ (pc[w] = "lock_wait" /\ owner = w)

(* Who is on a list waits.  Who was taken off it, or was handed the mutex, *)
(* and nobody else, has a signal or is about to be sent one, not both.     *)
SignalOK(L, w) ==
    /\ Listed(L, w) => Waiting(w)
    /\ Needs(L, w) <=> signal_pending[w] \/ \E t \in Threads : Sends(t, w)
    /\ \A t \in Threads : Sends(t, w) => ~signal_pending[w]
    /\ \A t, u \in Threads : Sends(t, w) /\ Sends(u, w) => t = u

ListsOK(L) == Linked(L, Heads, next, prev) /\ \A w \in Threads : SignalOK(L, w)

Inv ==
    Separated(ops) /\ TypeOK /\ (\A t \in Threads : LocalOK(t)) /\ MutexInv

IInv == Inv /\ \E L \in Lists : ListsOK(L)

-------------------------------------------------------------------------------
(* The lists, as the operations change them. *)

(* The pointers h, n and p become h2, n2 and p2 as t is linked behind the  *)
(* last of the queue.                                                      *)
LinksBehind(L, t, h, n, p, h2, n2, p2) ==
    IF L[NULL] = <<>>
    THEN h2 = [h EXCEPT ![NULL] = t] /\ n2 = n /\ p2 = [p EXCEPT ![t] = NULL]
    ELSE LET l == L[NULL][Len(L[NULL])] IN
         h2 = h /\ n2 = [n EXCEPT ![l] = t] /\ p2 = [p EXCEPT ![t] = l]

Behind(L, t) == [L EXCEPT ![NULL] = Append(L[NULL], t)]

(* The queue grows by a waiter that is on no list. *)
LEMMA Enqueued ==
    ASSUME NEW L \in Lists, NEW h \in [Ids -> Ids], NEW n \in [Threads -> Ids],
           NEW p \in [Threads -> Ids], Linked(L, h, n, p),
           NEW t \in Threads, ~Listed(L, t),
           NEW h2, NEW n2, NEW p2,
           LinksBehind(L, t, h, n, p, h2, n2, p2)
    PROVE  /\ Behind(L, t) \in Lists /\ Linked(Behind(L, t), h2, n2, p2)
           /\ \A w \in Threads : Listed(Behind(L, t), w) <=> Listed(L, w) \/ w = t
<1> SUFFICES ASSUME NEW M, M = [L EXCEPT ![NULL] = Append(L[NULL], t)]
             PROVE  /\ M \in Lists /\ Linked(M, h2, n2, p2)
                    /\ \A w \in Threads : Listed(M, w) <=> Listed(L, w) \/ w = t
    BY DEF Behind
<1> USE DEF LinksBehind
<1> DEFINE q == L[NULL]
<1>1. /\ NULL \in Ids /\ Threads \subseteq Ids /\ NULL \notin Threads
      /\ q \in Seq(Threads) /\ Len(q) \in Nat /\ (q = <<>> <=> Len(q) = 0)
    BY ThreadsAssumption DEF Ids, Lists
<1>2. /\ M \in Lists /\ \A a \in Threads : M[a] = L[a]
      /\ Len(M[NULL]) = Len(q) + 1 /\ M[NULL][Len(q) + 1] = t
      /\ \A i \in 1..Len(q) : M[NULL][i] = q[i]
    BY <1>1 DEF Lists
<1>3. \A w \in Threads : Listed(M, w) <=> Listed(L, w) \/ w = t
    <2>1. \A i \in 1..Len(M[NULL]) : i \in 1..Len(q) \/ i = Len(q) + 1
        BY <1>1, <1>2
    <2>2. Len(q) + 1 \in 1..Len(M[NULL]) /\ \A i \in 1..Len(q) : i \in 1..Len(M[NULL])
        BY <1>1, <1>2
    <2>3. QED
        BY <1>1, <1>2, <2>1, <2>2 DEF Listed, Ids
<1>4. \A a, b \in Ids : \A i \in 1..Len(M[a]), j \in 1..Len(M[b]) :
          M[a][i] = M[b][j] => a = b /\ i = j
    <2> SUFFICES ASSUME NEW a \in Ids, NEW b \in Ids, NEW i \in 1..Len(M[a]),
                        NEW j \in 1..Len(M[b]), M[a][i] = M[b][j]
                 PROVE  a = b /\ i = j
        OBVIOUS
    <2>1. \A c \in Ids : \A k \in 1..Len(M[c]) :
             \/ k \in 1..Len(L[c]) /\ M[c][k] = L[c][k]
             \/ c = NULL /\ k = Len(q) + 1
        <3>1. \A k \in 1..Len(M[NULL]) : k \in 1..Len(q) \/ k = Len(q) + 1
            BY <1>1, <1>2
        <3>2. QED
            BY <1>2, <3>1 DEF Ids
    <2>2. \A c \in Ids : \A k \in 1..Len(L[c]) : L[c][k] # t
        BY DEF Listed
    <2>3. QED
        BY <1>2, <2>1, <2>2 DEF Linked
<1>5. \A w \in Threads : ~Listed(M, w) => n2[w] = NULL /\ p2[w] = NULL
    <2>1. q # <<>> => Len(q) \in 1..Len(q)
        BY <1>1
    <2>2. q # <<>> => q[Len(q)] \in Threads /\ Listed(L, q[Len(q)])
        BY <1>1, <2>1 DEF Listed
    <2>3. QED
        BY <1>1, <1>3, <2>2 DEF Linked
<1>6. \A a \in Ids : h2[a] = IF M[a] = <<>> THEN NULL ELSE M[a][1]
    <2>1. M[NULL] # <<>> /\ M[NULL][1] = IF q = <<>> THEN t ELSE q[1]
        BY <1>1, <1>2
    <2>2. h2[NULL] = M[NULL][1] /\ \A a \in Threads : h2[a] = h[a]
        BY <1>1, <2>1 DEF Linked
    <2>3. QED
        BY <1>2, <2>1, <2>2 DEF Linked, Ids
<1>7. ASSUME NEW a \in Ids, NEW i \in 1..Len(M[a])
      PROVE  /\ n2[M[a][i]] = IF i = Len(M[a]) THEN NULL ELSE M[a][i + 1]
             /\ i > 1 => p2[M[a][i]] = M[a][i - 1]
             /\ i = 1 /\ a = NULL => p2[M[a][i]] = NULL
    <2>1. CASE a = NULL /\ i = Len(q) + 1
        <3>1. n[t] = NULL /\ p[t] = NULL
            BY DEF Linked
        <3>2. q # <<>> => q[Len(q)] \in Threads /\ q[Len(q)] # t
            BY <1>1 DEF Listed
        <3>3. QED
            BY <1>1, <1>2, <2>1, <3>1, <3>2
    <2>2. CASE a = NULL /\ i \in 1..Len(q)
        <3>1. q # <<>> /\ M[a][i] = q[i] /\ q[i] \in Threads /\ q[i] # t
            BY <1>1, <1>2, <2>2 DEF Listed
        <3>2. q[Len(q)] \in Threads /\ Len(q) \in 1..Len(q)
            BY <1>1, <3>1
        <3>3. q[i] = q[Len(q)] => i = Len(q)
            <4>1. \A k, j \in 1..Len(q) : q[k] = q[j] => k = j
                BY <1>1 DEF Linked
            <4>2. QED
                BY <2>2, <3>2, <4>1
        <3>4. n2[q[i]] = IF i = Len(q) THEN t ELSE n[q[i]]
            BY <3>1, <3>2, <3>3
        <3>5. p2[q[i]] = p[q[i]]
            BY <3>1
        <3>6. /\ n[q[i]] = IF i = Len(q) THEN NULL ELSE q[i + 1]
              /\ i > 1 => p[q[i]] = q[i - 1]
              /\ i = 1 => p[q[i]] = NULL
            BY <1>1, <2>2 DEF Linked
        <3>7. i > 1 => M[a][i - 1] = q[i - 1]
            BY <1>1, <1>2, <2>2
        <3>8. M[a][i + 1] = IF i = Len(q) THEN t ELSE q[i + 1]
            BY <1>1, <1>2, <2>2
        <3>9. QED
            BY <1>1, <1>2, <2>2, <3>1, <3>4, <3>5, <3>6, <3>7, <3>8
    <2>3. CASE a # NULL
        <3>1. a \in Threads /\ M[a] = L[a] /\ L[a] \in Seq(Threads)
            BY <1>2, <2>3 DEF Ids, Lists
        <3>2. L[a][i] \in Threads /\ L[a][i] # t
            <4>1. i \in 1..Len(L[a])
                BY <3>1
            <4>2. QED
                BY <3>1, <4>1 DEF Listed
        <3>3. q # <<>> => L[a][i] # q[Len(q)]
            <4>1. q # <<>> => Len(q) \in 1..Len(q)
                BY <1>1
            <4>2. QED
                BY <1>1, <2>3, <3>1, <4>1 DEF Linked
        <3>4. n2[L[a][i]] = n[L[a][i]] /\ p2[L[a][i]] = p[L[a][i]]
            BY <3>2, <3>3
        <3>5. QED
            BY <2>3, <3>1, <3>4 DEF Linked
    <2>4. QED
        BY <1>1, <1>2, <2>1, <2>2, <2>3
<1>8. QED
    BY <1>2, <1>3, <1>4, <1>5, <1>6, <1>7 DEF Linked

(* What RemoveAt leaves. *)
LEMMA Removed ==
    ASSUME NEW q \in Seq(Threads), NEW k \in 1..Len(q), NEW r, r = RemoveAt(q, k)
    PROVE  /\ r \in Seq(Threads) /\ Len(r) = Len(q) - 1
           /\ \A i \in 1..Len(r) : r[i] = IF i < k THEN q[i] ELSE q[i + 1]
<1> DEFINE a == SubSeq(q, 1, k - 1)
           b == SubSeq(q, k + 1, Len(q))
<1>1. Len(q) \in Nat /\ k \in Nat /\ k >= 1 /\ k <= Len(q)
    OBVIOUS
<1>2. a \in Seq(Threads) /\ Len(a) = k - 1 /\ \A i \in 1..(k - 1) : a[i] = q[i]
    BY <1>1
<1>3. /\ b \in Seq(Threads) /\ Len(b) = Len(q) - k
      /\ \A i \in 1..(Len(q) - k) : b[i] = q[k + i]
    BY <1>1
<1> HIDE DEF a, b
<1>4. /\ a \o b \in Seq(Threads) /\ Len(a \o b) = Len(a) + Len(b)
      /\ \A i \in 1..(Len(a) + Len(b)) :
            (a \o b)[i] = IF i <= Len(a) THEN a[i] ELSE b[i - Len(a)]
    BY <1>2, <1>3, ConcatProperties
<1>5. r = a \o b
    BY DEF RemoveAt, a, b
<1>6. Len(r) = Len(q) - 1
    <2>1. Len(a) + Len(b) = Len(q) - 1
        BY <1>1, <1>2, <1>3
    <2>2. QED
        BY <1>4, <1>5, <2>1
<1>7. ASSUME NEW i \in 1..Len(r)
      PROVE  r[i] = IF i < k THEN q[i] ELSE q[i + 1]
    <2>1. i \in 1..(Len(a) + Len(b)) /\ i \in Nat
        BY <1>1, <1>2, <1>3, <1>6
    <2>2. CASE i < k
        BY <1>1, <1>2, <1>4, <1>5, <2>1, <2>2
    <2>3. CASE i >= k
        <3>1. i - Len(a) \in 1..(Len(q) - k) /\ k + (i - Len(a)) = i + 1 /\ ~(i <= Len(a))
            BY <1>1, <1>2, <1>6, <2>1, <2>3
        <3>2. r[i] = b[i - Len(a)]
            BY <1>4, <1>5, <2>1, <3>1
        <3>3. b[i - Len(a)] = q[k + (i - Len(a))]
            BY <1>3, <3>1
        <3>4. QED
            BY <1>1, <2>1, <2>3, <3>1, <3>2, <3>3
    <2>4. QED
        BY <1>1, <2>1, <2>2, <2>3
<1>8. QED
    BY <1>4, <1>5, <1>6, <1>7

(* The pointers h, n and p become h2, n2 and p2 as the waiter c, number k  *)
(* of the queue, leaves.                                                   *)
Unlinks(L, k, c, h, n, p, h2, n2, p2) ==
    /\ k \in 1..Len(L[NULL]) /\ c = L[NULL][k]
    /\ h2 = [h EXCEPT ![NULL] = IF h[NULL] = c THEN n[c] ELSE h[NULL]]
    /\ n2 = Unlinked(n, p, c) /\ p2 = Unlinked(p, n, c)

Without(L, k) == [L EXCEPT ![NULL] = RemoveAt(L[NULL], k)]

(* The queue loses its waiter number k. *)
LEMMA Dequeued ==
    ASSUME NEW L \in Lists, NEW h \in [Ids -> Ids], NEW n \in [Threads -> Ids],
           NEW p \in [Threads -> Ids], Linked(L, h, n, p),
           NEW k, NEW c, NEW h2, NEW n2, NEW p2, Unlinks(L, k, c, h, n, p, h2, n2, p2)
    PROVE  /\ Without(L, k) \in Lists /\ Linked(Without(L, k), h2, n2, p2)
           /\ c \in Threads /\ Listed(L, c)
           /\ \A w \in Threads : Listed(Without(L, k), w) <=> Listed(L, w) /\ w # c
<1> SUFFICES ASSUME k \in 1..Len(L[NULL]), c = L[NULL][k],
                    NEW M, M = [L EXCEPT ![NULL] = RemoveAt(L[NULL], k)],
                    h2 = [h EXCEPT ![NULL] = IF h[NULL] = c THEN n[c] ELSE h[NULL]],
                    n2 = Unlinked(n, p, c), p2 = Unlinked(p, n, c)
             PROVE  /\ M \in Lists /\ Linked(M, h2, n2, p2)
                    /\ c \in Threads /\ Listed(L, c)
                    /\ \A w \in Threads : Listed(M, w) <=> Listed(L, w) /\ w # c
    BY DEF Without, Unlinks
<1> DEFINE q == L[NULL]
           r == M[NULL]
<1>1. /\ NULL \in Ids /\ Threads \subseteq Ids /\ NULL \notin Threads
      /\ q \in Seq(Threads) /\ Len(q) \in Nat /\ k \in 1..Len(q) /\ c = q[k] /\ c \in Threads
      /\ \A i \in 1..Len(q) : q[i] \in Threads
    BY ThreadsAssumption DEF Ids, Lists
<1>2. \A a \in Threads : M[a] = L[a] /\ L[a] \in Seq(Threads)
    BY <1>1 DEF Lists
<1>3. /\ r \in Seq(Threads) /\ Len(r) = Len(q) - 1
      /\ \A i \in 1..Len(r) : r[i] = IF i < k THEN q[i] ELSE q[i + 1]
    <2>1. r = RemoveAt(q, k)
        BY <1>1 DEF Lists
    <2>2. QED
        BY <1>1, <2>1, Removed
<1>4. M \in Lists
    BY <1>1, <1>3 DEF Lists
<1>5. \A i, j \in 1..Len(q) : q[i] = q[j] => i = j
    BY <1>1 DEF Linked
<1>6. \A a \in Threads : \A i \in 1..Len(L[a]), j \in 1..Len(q) : L[a][i] # q[j]
    BY <1>1 DEF Linked
<1>7. \A i \in 1..Len(q) :
          /\ n[q[i]] = IF i = Len(q) THEN NULL ELSE q[i + 1]
          /\ p[q[i]] = IF i = 1 THEN NULL ELSE q[i - 1]
    <2>1. \A i \in 1..Len(q) :
          /\ n[q[i]] = IF i = Len(q) THEN NULL ELSE q[i + 1]
          /\ i > 1 => p[q[i]] = q[i - 1]
          /\ i = 1 => p[q[i]] = NULL
        BY <1>1 DEF Linked
    <2>2. \A i \in 1..Len(q) : i = 1 \/ i > 1
        BY <1>1
    <2>3. QED
        BY <2>1, <2>2
<1> HIDE DEF q, r
<1> DEFINE At(i) == IF i < k THEN i ELSE i + 1
<1>8. \A i \in 1..Len(r) : At(i) \in 1..Len(q) /\ At(i) # k /\ r[i] = q[At(i)]
    BY <1>1, <1>3
<1>9. \A i \in 1..Len(q) : i # k =>
         \E j \in 1..Len(r) : At(j) = i
    <2> SUFFICES ASSUME NEW i \in 1..Len(q), i # k
                 PROVE  \E j \in 1..Len(r) : At(j) = i
        OBVIOUS
    <2>1. CASE i < k
        <3>1. i \in 1..Len(r) /\ At(i) = i
            BY <1>1, <1>3, <2>1
        <3>2. QED
            BY <3>1
    <2>2. CASE i > k
        <3>1. i - 1 \in 1..Len(r) /\ At(i - 1) = i
            BY <1>1, <1>3, <2>2
        <3>2. QED
            BY <3>1
    <2>3. QED
        BY <1>1, <2>1, <2>2
<1>10. Listed(L, c) /\ \A w \in Threads : Listed(M, w) <=> Listed(L, w) /\ w # c
    <2>1. \A w \in Threads : (\E i \in 1..Len(r) : r[i] = w)
                               <=> (\E i \in 1..Len(q) : q[i] = w) /\ w # c
        <3> HIDE DEF At
        <3>1. \A i \in 1..Len(q) : q[i] # c <=> i # k
            BY <1>1, <1>5
        <3>2. QED
            BY <1>8, <1>9, <3>1
    <2>2. \A w \in Threads : \A a \in Threads :
             (\E i \in 1..Len(M[a]) : M[a][i] = w) <=> (\E i \in 1..Len(L[a]) : L[a][i] = w)
        BY <1>2
    <2>3. \A a \in Threads : \A i \in 1..Len(L[a]) : L[a][i] # c
        BY <1>1, <1>6
    <2>4. \A N \in {L, M} : \A w \in Threads :
             Listed(N, w) <=> \/ \E i \in 1..Len(N[NULL]) : N[NULL][i] = w
                              \/ \E a \in Threads : \E i \in 1..Len(N[a]) : N[a][i] = w
        BY DEF Listed, Ids
    <2>5. Listed(L, c)
        BY <1>1, <2>4 DEF q
    <2>6. ASSUME NEW w \in Threads
          PROVE  Listed(M, w) <=> Listed(L, w) /\ w # c
        <3>1. /\ Listed(M, w) <=> \/ \E i \in 1..Len(r) : r[i] = w
                                 \/ \E a \in Threads : \E i \in 1..Len(M[a]) : M[a][i] = w
              /\ Listed(L, w) <=> \/ \E i \in 1..Len(q) : q[i] = w
                                 \/ \E a \in Threads : \E i \in 1..Len(L[a]) : L[a][i] = w
            BY <2>4 DEF q, r
        <3>2. QED
            BY <2>1, <2>2, <2>3, <3>1
    <2>7. QED
        BY <2>5, <2>6
<1>11. \A a, b \in Ids : \A i \in 1..Len(M[a]), j \in 1..Len(M[b]) :
          M[a][i] = M[b][j] => a = b /\ i = j
    <2>1. \A i, j \in 1..Len(r) : r[i] = r[j] => i = j
        <3>1. \A i, j \in 1..Len(r) : At(i) = At(j) => i = j
            BY <1>1, <1>3
        <3> HIDE DEF At
        <3>2. QED
            BY <1>5, <1>8, <3>1
    <2>2. \A a \in Threads : \A i \in 1..Len(L[a]), j \in 1..Len(r) : L[a][i] # r[j]
        <3> HIDE DEF At
        <3>1. QED
            BY <1>6, <1>8
    <2>3. \A a, b \in Threads : \A i \in 1..Len(L[a]), j \in 1..Len(L[b]) :
            L[a][i] = L[b][j] => a = b /\ i = j
        BY <1>1 DEF Linked
    <2> HIDE DEF At
    <2>4. QED
        BY <1>2, <2>1, <2>2, <2>3 DEF Ids, r
<1>12. /\ n2 \in [Threads -> Ids] /\ p2 \in [Threads -> Ids] /\ n2[c] = NULL /\ p2[c] = NULL
       /\ \A x \in Threads : x # c =>
            /\ n2[x] = IF x = p[c] THEN n[c] ELSE n[x]
            /\ p2[x] = IF x = n[c] THEN p[c] ELSE p[x]
    BY <1>1 DEF Unlinked
<1>13. /\ p[c] = IF k = 1 THEN NULL ELSE q[k - 1]
       /\ n[c] = IF k = Len(q) THEN NULL ELSE q[k + 1]
    BY <1>1, <1>7
<1>14. ASSUME NEW i \in 1..Len(q), i # k
       PROVE  /\ q[i] \in Threads /\ q[i] # c
              /\ n2[q[i]] = IF i = k - 1 THEN n[c] ELSE n[q[i]]
              /\ p2[q[i]] = IF i = k + 1 THEN p[c] ELSE p[q[i]]
    <2>1. q[i] = p[c] <=> i = k - 1
        <3>1. k # 1 => k - 1 \in 1..Len(q)
            BY <1>1
        <3>2. QED
            BY <1>1, <1>5, <1>13, <3>1
    <2>2. q[i] = n[c] <=> i = k + 1
        <3>1. k # Len(q) => k + 1 \in 1..Len(q)
            BY <1>1
        <3>2. QED
            BY <1>1, <1>5, <1>13, <3>1
    <2>3. QED
        BY <1>1, <1>5, <1>12, <1>14, <2>1, <2>2
<1>15. ASSUME NEW i \in 1..Len(r)
       PROVE  /\ n2[r[i]] = IF i = Len(r) THEN NULL ELSE r[i + 1]
              /\ i > 1 => p2[r[i]] = r[i - 1]
              /\ i = 1 => p2[r[i]] = NULL
    <2>1. i \in Nat /\ i >= 1 /\ i <= Len(r) /\ Len(r) = Len(q) - 1
        BY <1>1, <1>3
    <2>2. i < Len(r) => i + 1 \in 1..Len(r)
        BY <2>1, <1>1
    <2>3. i > 1 => i - 1 \in 1..Len(r)
        BY <2>1, <1>1
    <2>4. CASE i < k - 1
        <3>1. i \in 1..Len(q) /\ i # k /\ i < k /\ i # k - 1 /\ i # k + 1 /\ i < Len(r)
            BY <1>1, <2>1, <2>4
        <3>2. n2[q[i]] = n[q[i]] /\ p2[q[i]] = p[q[i]] /\ r[i] = q[i]
            BY <1>3, <1>14, <3>1
        <3>3. r[i + 1] = q[i + 1] /\ (i > 1 => r[i - 1] = q[i - 1])
            <4>1. i + 1 < k /\ i - 1 < k /\ i + 1 \in 1..Len(r)
                BY <1>1, <2>1, <2>4
            <4>2. QED
                BY <1>3, <2>3, <4>1
        <3>4. QED
            BY <1>1, <1>7, <2>1, <3>1, <3>2, <3>3
    <2>5. CASE i = k - 1
        <3>1. i \in 1..Len(q) /\ i # k /\ i < k /\ i # k + 1
            BY <1>1, <2>1, <2>5
        <3>2. n2[q[i]] = n[c] /\ p2[q[i]] = p[q[i]] /\ r[i] = q[i]
            BY <1>3, <1>14, <2>5, <3>1
        <3>3. (i < Len(r) => r[i + 1] = q[k + 1]) /\ (i > 1 => r[i - 1] = q[i - 1])
            <4>1. i + 1 = k /\ ~(i + 1 < k) /\ i - 1 < k
                BY <1>1, <2>1, <2>5
            <4>2. i < Len(r) => r[i + 1] = q[k + 1]
                BY <1>3, <2>2, <4>1
            <4>3. i > 1 => r[i - 1] = q[i - 1]
                BY <1>3, <2>3, <4>1
            <4>4. QED
                BY <4>2, <4>3
        <3>4. i = Len(r) <=> k = Len(q)
            BY <1>1, <2>1, <2>5
        <3>5. QED
            <4>1. p[q[i]] = IF i = 1 THEN NULL ELSE q[i - 1]
                BY <1>7, <3>1
            <4>2. k = Len(q) \/ i < Len(r)
                BY <1>1, <2>1, <3>4
            <4>3. i = 1 \/ i > 1
                BY <2>1
            <4>4. QED
                BY <1>13, <2>1, <3>2, <3>3, <3>4, <4>1, <4>2, <4>3
    <2>6. CASE i >= k
        <3>1. i + 1 \in 1..Len(q) /\ i + 1 # k /\ ~(i < k) /\ i + 1 # k - 1
            BY <1>1, <2>1, <2>6
        <3>2. /\ n2[q[i + 1]] = n[q[i + 1]] /\ r[i] = q[i + 1]
              /\ p2[q[i + 1]] = IF i = k THEN p[c] ELSE p[q[i + 1]]
            <4>1. i + 1 = k + 1 <=> i = k
                BY <1>1, <2>1
            <4>2. QED
                BY <1>3, <1>14, <3>1, <4>1
        <3>3. i < Len(r) => r[i + 1] = q[i + 1 + 1]
            BY <1>1, <1>3, <2>1, <2>2, <2>6
        <3>4. i > 1 => r[i - 1] = IF i = k THEN q[k - 1] ELSE q[i]
            <4>1. i - 1 + 1 = i /\ (i - 1 < k <=> i = k) /\ (i = k => i - 1 = k - 1)
                BY <1>1, <2>1, <2>6
            <4>2. QED
                BY <1>3, <2>3, <4>1
        <3>5. i + 1 = Len(q) <=> i = Len(r)
            BY <1>1, <2>1
        <3>6. i + 1 # 1 /\ i + 1 - 1 = i /\ (i = 1 => k = 1)
            BY <1>1, <2>1, <2>6
        <3>7. /\ n[q[i + 1]] = IF i + 1 = Len(q) THEN NULL ELSE q[i + 1 + 1]
              /\ p[q[i + 1]] = q[i]
            BY <1>7, <3>1, <3>6
        <3>8. QED
            BY <1>13, <2>1, <3>2, <3>3, <3>4, <3>5, <3>6, <3>7
    <2>7. QED
        BY <1>1, <2>1, <2>4, <2>5, <2>6
<1>16. ASSUME NEW a \in Threads, NEW i \in 1..Len(L[a])
       PROVE  /\ n2[L[a][i]] = IF i = Len(L[a]) THEN NULL ELSE L[a][i + 1]
              /\ i > 1 => p2[L[a][i]] = L[a][i - 1]
    <2>1. L[a][i] \in Threads
        BY <1>2
    <2>2. L[a][i] # c /\ L[a][i] # p[c] /\ L[a][i] # n[c]
        <3>1. (k # 1 => k - 1 \in 1..Len(q)) /\ (k # Len(q) => k + 1 \in 1..Len(q))
            BY <1>1
        <3>2. QED
            BY <1>1, <1>6, <1>13, <2>1, <3>1
    <2>3. n2[L[a][i]] = n[L[a][i]] /\ p2[L[a][i]] = p[L[a][i]]
        BY <1>12, <2>1, <2>2
    <2>4. QED
        BY <1>1, <2>3 DEF Linked
<1>17. \A w \in Threads : ~Listed(M, w) => n2[w] = NULL /\ p2[w] = NULL
    <2> SUFFICES ASSUME NEW w \in Threads, ~Listed(M, w)
                 PROVE  n2[w] = NULL /\ p2[w] = NULL
        OBVIOUS
    <2>1. CASE w = c
        BY <1>12, <2>1
    <2>2. CASE w # c
        <3>1. ~Listed(L, w) /\ n[w] = NULL /\ p[w] = NULL
            BY <1>10, <2>2 DEF Linked
        <3>2. (k # 1 => k - 1 \in 1..Len(q)) /\ (k # Len(q) => k + 1 \in 1..Len(q))
            BY <1>1
        <3>3. w # p[c] /\ w # n[c]
            BY <1>1, <1>13, <3>1, <3>2 DEF Listed, q
        <3>4. QED
            BY <1>12, <2>2, <3>1, <3>3
    <2>3. QED
        BY <2>1, <2>2
<1>18. h2[NULL] = (IF r = <<>> THEN NULL ELSE r[1]) /\ \A a \in Threads : h2[a] = h[a]
    <2>1. h2[NULL] = (IF h[NULL] = c THEN n[c] ELSE h[NULL]) /\ \A a \in Threads : h2[a] = h[a]
        BY <1>1
    <2>2. h[NULL] = q[1] /\ 1 \in 1..Len(q)
        BY <1>1 DEF Linked, q
    <2>3. q[1] = c <=> k = 1
        BY <1>1, <1>5, <2>2
    <2>4. (r = <<>> <=> Len(q) = 1) /\ (r # <<>> => r[1] = IF k = 1 THEN q[2] ELSE q[1])
        <3>1. (r = <<>> <=> Len(r) = 0) /\ (Len(r) = 0 <=> Len(q) = 1)
            BY <1>1, <1>3
        <3>2. r # <<>> => 1 \in 1..Len(r)
            BY <1>1, <1>3
        <3>3. (1 < k <=> k # 1) /\ 1 + 1 = 2
            BY <1>1
        <3>4. QED
            BY <1>3, <3>1, <3>2, <3>3
    <2>5. Len(q) = 1 => k = 1
        BY <1>1
    <2>6. CASE k = 1
        <3>1. k + 1 = 2 /\ (k = Len(q) <=> Len(q) = 1)
            BY <2>6
        <3>2. n[c] = IF Len(q) = 1 THEN NULL ELSE q[2]
            BY <1>13, <3>1
        <3>3. QED
            BY <2>1, <2>2, <2>3, <2>4, <2>6, <3>2
    <2>7. CASE k # 1
        BY <2>1, <2>2, <2>3, <2>4, <2>5, <2>7
    <2>8. QED
        BY <2>6, <2>7
<1>19. \A a \in Ids : h2[a] = IF M[a] = <<>> THEN NULL ELSE M[a][1]
    BY <1>1, <1>2, <1>18 DEF Linked, Ids, r
<1>20. \A a \in Ids : \A i \in 1..Len(M[a]) :
          /\ n2[M[a][i]] = IF i = Len(M[a]) THEN NULL ELSE M[a][i + 1]
          /\ i > 1 => p2[M[a][i]] = M[a][i - 1]
          /\ i = 1 /\ a = NULL => p2[M[a][i]] = NULL
    <2> HIDE DEF At
    <2>1. QED
        BY <1>1, <1>2, <1>15, <1>16 DEF Ids, r
<1>21. QED
    BY <1>1, <1>4, <1>10, <1>11, <1>17, <1>19, <1>20 DEF Linked

(* The heads h become h2 as t takes the whole queue. *)
HandsOver(L, t, h, h2) ==
    L[t] = <<>> /\ h2 = [h EXCEPT ![t] = h[NULL], ![NULL] = NULL]

Handed(L, t) == [L EXCEPT ![t] = L[NULL], ![NULL] = <<>>]

(* The queue becomes the list of a broadcast that had none. *)
LEMMA Detached ==
    ASSUME NEW L \in Lists, NEW h \in [Ids -> Ids], NEW n \in [Threads -> Ids],
           NEW p \in [Threads -> Ids], Linked(L, h, n, p),
           NEW t \in Threads, NEW h2, HandsOver(L, t, h, h2)
    PROVE  /\ Handed(L, t) \in Lists /\ Linked(Handed(L, t), h2, n, p)
           /\ \A w \in Threads : Listed(Handed(L, t), w) <=> Listed(L, w)
<1> SUFFICES ASSUME L[t] = <<>>, h2 = [h EXCEPT ![t] = h[NULL], ![NULL] = NULL],
                    NEW M, M = [L EXCEPT ![t] = L[NULL], ![NULL] = <<>>]
             PROVE  /\ M \in Lists /\ Linked(M, h2, n, p)
                    /\ \A w \in Threads : Listed(M, w) <=> Listed(L, w)
    BY DEF Handed, HandsOver
<1>1. NULL \in Ids /\ Threads \subseteq Ids /\ NULL \notin Threads /\ NULL # t
    BY ThreadsAssumption DEF Ids
<1>2. /\ M \in Lists /\ M[t] = L[NULL] /\ M[NULL] = <<>>
      /\ \A a \in Threads : a # t => M[a] = L[a]
    BY <1>1 DEF Lists
<1>3. h2[t] = h[NULL] /\ h2[NULL] = NULL /\ \A a \in Threads : a # t => h2[a] = h[a]
    BY <1>1
<1> DEFINE From(a) == IF a = t THEN NULL ELSE a
<1>4. /\ \A a \in Ids : From(a) \in Ids
      /\ \A a \in Ids : a # NULL => M[a] = L[From(a)]
      /\ \A a, b \in Ids : a # NULL /\ b # NULL /\ From(a) = From(b) => a = b
    BY <1>1, <1>2 DEF Ids
<1>5. \A a \in Ids : \A i \in 1..Len(M[a]) : a # NULL
    <2>1. \A i \in 1..Len(M[NULL]) : FALSE
        BY <1>2
    <2>2. QED
        BY <2>1
<1>6. \A w \in Threads : Listed(M, w) <=> Listed(L, w)
    <2>1. ASSUME NEW w \in Threads, Listed(M, w)
          PROVE  Listed(L, w)
        <3>1. PICK a \in Ids : \E i \in 1..Len(M[a]) : M[a][i] = w
            BY <2>1 DEF Listed
        <3>2. From(a) \in Ids /\ M[a] = L[From(a)]
            BY <1>4, <1>5, <3>1
        <3> HIDE DEF From
        <3>3. QED
            BY <3>1, <3>2 DEF Listed
    <2>2. ASSUME NEW w \in Threads, Listed(L, w)
          PROVE  Listed(M, w)
        <3>1. PICK a \in Ids : \E i \in 1..Len(L[a]) : L[a][i] = w
            BY <2>2 DEF Listed
        <3>2. CASE a = NULL
            <4>1. t \in Ids /\ \E i \in 1..Len(M[t]) : M[t][i] = w
                BY <1>1, <1>2, <3>1, <3>2
            <4>2. QED
                BY <4>1 DEF Listed
        <3>3. CASE a # NULL
            <4>1. a # t
                <5>1. \A i \in 1..Len(L[t]) : FALSE
                    OBVIOUS
                <5>2. QED
                    BY <3>1, <5>1
            <4>2. QED
                BY <1>2, <3>1, <3>3, <4>1 DEF Listed, Ids
        <3>4. QED
            BY <3>2, <3>3
    <2>3. QED
        BY <2>1, <2>2
<1> HIDE DEF From
<1>7. \A a, b \in Ids : \A i \in 1..Len(M[a]), j \in 1..Len(M[b]) :
          M[a][i] = M[b][j] => a = b /\ i = j
    <2> SUFFICES ASSUME NEW a \in Ids, NEW b \in Ids, NEW i \in 1..Len(M[a]),
                        NEW j \in 1..Len(M[b]), M[a][i] = M[b][j]
                 PROVE  a = b /\ i = j
        OBVIOUS
    <2>1. /\ From(a) \in Ids /\ M[a] = L[From(a)] /\ a # NULL
          /\ From(b) \in Ids /\ M[b] = L[From(b)] /\ b # NULL
        BY <1>4, <1>5
    <2>2. From(a) = From(b) /\ i = j
        BY <2>1 DEF Linked
    <2>3. QED
        BY <1>4, <2>1, <2>2
<1>8. \A a \in Ids : \A i \in 1..Len(M[a]) :
          /\ n[M[a][i]] = IF i = Len(M[a]) THEN NULL ELSE M[a][i + 1]
          /\ i > 1 => p[M[a][i]] = M[a][i - 1]
          /\ i = 1 /\ a = NULL => p[M[a][i]] = NULL
    <2> SUFFICES ASSUME NEW a \in Ids, NEW i \in 1..Len(M[a])
                 PROVE  /\ n[M[a][i]] = IF i = Len(M[a]) THEN NULL ELSE M[a][i + 1]
                        /\ i > 1 => p[M[a][i]] = M[a][i - 1]
        BY <1>5
    <2>1. From(a) \in Ids /\ M[a] = L[From(a)]
        BY <1>4, <1>5
    <2>2. QED
        BY <2>1 DEF Linked
<1>9. \A a \in Ids : h2[a] = IF M[a] = <<>> THEN NULL ELSE M[a][1]
    <2> SUFFICES ASSUME NEW a \in Ids
                 PROVE  h2[a] = IF M[a] = <<>> THEN NULL ELSE M[a][1]
        OBVIOUS
    <2>1. CASE a = NULL
        BY <1>2, <1>3, <2>1
    <2>2. CASE a # NULL
        <3>1. From(a) \in Ids /\ M[a] = L[From(a)] /\ h2[a] = h[From(a)]
            BY <1>1, <1>3, <1>4, <2>2 DEF From, Ids
        <3>2. QED
            BY <3>1 DEF Linked
    <2>3. QED
        BY <2>1, <2>2
<1>10. QED
    BY <1>2, <1>6, <1>7, <1>8, <1>9 DEF Linked

(* The pointers h, n and p become h2, n2 and p2 as the waiter c at the     *)
(* cursor of t leaves.                                                     *)
Advances(L, t, c, h, n, p, h2, n2, p2) ==
    /\ L[t] # <<>> /\ c = L[t][1]
    /\ h2 = [h EXCEPT ![t] = n[c]]
    /\ n2 = [n EXCEPT ![c] = NULL] /\ p2 = [p EXCEPT ![c] = NULL]

Shortened(L, t) == [L EXCEPT ![t] = Tail(L[t])]

(* The list of a broadcast loses its first waiter. *)
LEMMA Popped ==
    ASSUME NEW L \in Lists, NEW h \in [Ids -> Ids], NEW n \in [Threads -> Ids],
           NEW p \in [Threads -> Ids], Linked(L, h, n, p),
           NEW t \in Threads, NEW c, NEW h2, NEW n2, NEW p2,
           Advances(L, t, c, h, n, p, h2, n2, p2)
    PROVE  /\ Shortened(L, t) \in Lists /\ Linked(Shortened(L, t), h2, n2, p2)
           /\ c \in Threads /\ Listed(L, c)
           /\ \A w \in Threads : Listed(Shortened(L, t), w) <=> Listed(L, w) /\ w # c
<1> SUFFICES ASSUME L[t] # <<>>, c = L[t][1],
                    NEW M, M = [L EXCEPT ![t] = Tail(L[t])], h2 = [h EXCEPT ![t] = n[c]],
                    n2 = [n EXCEPT ![c] = NULL], p2 = [p EXCEPT ![c] = NULL]
             PROVE  /\ M \in Lists /\ Linked(M, h2, n2, p2)
                    /\ c \in Threads /\ Listed(L, c)
                    /\ \A w \in Threads : Listed(M, w) <=> Listed(L, w) /\ w # c
    BY DEF Shortened, Advances
<1> DEFINE q == L[t]
           r == M[t]
<1>1. /\ NULL \in Ids /\ Threads \subseteq Ids /\ NULL \notin Threads /\ t # NULL
      /\ q \in Seq(Threads) /\ Len(q) \in Nat /\ 1 \in 1..Len(q) /\ c = q[1] /\ c \in Threads
    BY ThreadsAssumption DEF Ids, Lists
<1>2. \A a \in Ids : L[a] \in Seq(Threads) /\ (a # t => M[a] = L[a])
    BY <1>1 DEF Lists
<1>3. /\ r \in Seq(Threads) /\ Len(r) = Len(q) - 1
      /\ \A i \in 1..Len(r) : r[i] = q[i + 1] /\ i + 1 \in 1..Len(q) /\ i + 1 > 1
    <2>1. r = Tail(q)
        BY <1>1 DEF Lists
    <2>2. r \in Seq(Threads) /\ Len(r) = Len(q) - 1 /\ \A i \in 1..Len(r) : r[i] = q[i + 1]
        <3>1. q # <<>>
            OBVIOUS
        <3> HIDE DEF q, r
        <3>2. QED
            BY <1>1, <2>1, <3>1, HeadTailProperties
    <2>3. \A i \in 1..Len(r) : i + 1 \in 1..Len(q) /\ i + 1 > 1
        BY <1>1, <2>2
    <2>4. QED
        BY <2>2, <2>3
<1>4. M \in Lists
    BY <1>1, <1>3 DEF Lists
<1>5. \A a \in Ids : \A i \in 1..Len(L[a]) : L[a][i] = c => a = t /\ i = 1
    BY <1>1 DEF Linked
<1>6. /\ \A i, j \in 1..Len(q) : q[i] = q[j] => i = j
      /\ \A a \in Ids : \A i \in 1..Len(L[a]), j \in 1..Len(q) : L[a][i] = q[j] => a = t
      /\ \A i \in 1..Len(q) : /\ n[q[i]] = IF i = Len(q) THEN NULL ELSE q[i + 1]
                              /\ i > 1 => p[q[i]] = q[i - 1]
    BY <1>1 DEF Linked
<1> HIDE DEF q, r
<1>7. Listed(L, c) /\ \A w \in Threads : Listed(M, w) <=> Listed(L, w) /\ w # c
    <2>1. ASSUME NEW w \in Threads, Listed(M, w)
          PROVE  Listed(L, w) /\ w # c
        <3>1. PICK a \in Ids : \E i \in 1..Len(M[a]) : M[a][i] = w
            BY <2>1 DEF Listed
        <3>2. CASE a = t
            <4>1. PICK i \in 1..Len(r) : r[i] = w
                BY <3>1, <3>2 DEF r
            <4>2. i + 1 \in 1..Len(q) /\ q[i + 1] = w /\ i + 1 # 1
                BY <1>3, <4>1
            <4>3. QED
                BY <1>1, <1>6, <4>2 DEF Listed, q
        <3>3. CASE a # t
            BY <1>2, <1>5, <3>1, <3>3 DEF Listed
        <3>4. QED
            BY <3>2, <3>3
    <2>2. ASSUME NEW w \in Threads, Listed(L, w), w # c
          PROVE  Listed(M, w)
        <3>1. PICK a \in Ids : \E i \in 1..Len(L[a]) : L[a][i] = w
            BY <2>2 DEF Listed
        <3>2. CASE a = t
            <4>1. PICK i \in 1..Len(q) : q[i] = w
                BY <3>1, <3>2 DEF q
            <4>2. i # 1
                BY <1>1, <2>2, <4>1
            <4>3. i - 1 \in 1..Len(r) /\ i - 1 + 1 = i
                BY <1>1, <1>3, <4>2
            <4>4. r[i - 1] = w
                BY <1>3, <4>1, <4>3
            <4>5. QED
                BY <1>1, <4>3, <4>4 DEF Listed, r
        <3>3. CASE a # t
            BY <1>2, <3>1, <3>3 DEF Listed
        <3>4. QED
            BY <3>2, <3>3
    <2>3. Listed(L, c)
        BY <1>1 DEF Listed, q
    <2>4. QED
        BY <2>1, <2>2, <2>3
<1>8. \A a, b \in Ids : \A i \in 1..Len(M[a]), j \in 1..Len(M[b]) :
          M[a][i] = M[b][j] => a = b /\ i = j
    <2>1. \A i, j \in 1..Len(r) : r[i] = r[j] => i = j
        <3>1. \A i, j \in 1..Len(r) : r[i] = r[j] => i + 1 = j + 1
            BY <1>3, <1>6
        <3>2. \A i, j \in Nat : i + 1 = j + 1 => i = j
            OBVIOUS
        <3>3. \A i \in 1..Len(r) : i \in Nat
            BY <1>3
        <3>4. QED
            BY <3>1, <3>2, <3>3
    <2>2. \A a \in Ids : \A i \in 1..Len(L[a]), j \in 1..Len(r) : a # t => L[a][i] # r[j]
        BY <1>3, <1>6
    <2>3. \A a, b \in Ids : \A i \in 1..Len(L[a]), j \in 1..Len(L[b]) :
            L[a][i] = L[b][j] => a = b /\ i = j
        BY DEF Linked
    <2>4. QED
        BY <1>2, <2>1, <2>2, <2>3 DEF r
<1>9. \A a \in Ids : \A i \in 1..Len(M[a]) :
          /\ n2[M[a][i]] = IF i = Len(M[a]) THEN NULL ELSE M[a][i + 1]
          /\ i > 1 => p2[M[a][i]] = M[a][i - 1]
          /\ i = 1 /\ a = NULL => p2[M[a][i]] = NULL
    <2>1. ASSUME NEW a \in Ids, a # t, NEW i \in 1..Len(L[a])
          PROVE  /\ n2[L[a][i]] = IF i = Len(L[a]) THEN NULL ELSE L[a][i + 1]
                 /\ i > 1 => p2[L[a][i]] = L[a][i - 1]
                 /\ i = 1 /\ a = NULL => p2[L[a][i]] = NULL
        <3>1. L[a][i] # c /\ L[a][i] \in Threads
            BY <1>2, <1>5, <2>1
        <3>2. n2[L[a][i]] = n[L[a][i]] /\ p2[L[a][i]] = p[L[a][i]]
            BY <3>1
        <3>3. QED
            BY <3>2 DEF Linked
    <2>2. ASSUME NEW i \in 1..Len(r)
          PROVE  /\ n2[r[i]] = IF i = Len(r) THEN NULL ELSE r[i + 1]
                 /\ i > 1 => p2[r[i]] = r[i - 1]
        <3>1. i + 1 \in 1..Len(q) /\ r[i] = q[i + 1] /\ i + 1 # 1 /\ i + 1 > 1 /\ i + 1 - 1 = i
            BY <1>3
        <3>2. q[i + 1] # c /\ q[i + 1] \in Threads
            BY <1>1, <1>6, <3>1
        <3>3. n2[q[i + 1]] = n[q[i + 1]] /\ p2[q[i + 1]] = p[q[i + 1]]
            BY <3>2
        <3>4. /\ n[q[i + 1]] = IF i + 1 = Len(q) THEN NULL ELSE q[i + 1 + 1]
              /\ p[q[i + 1]] = q[i]
            BY <1>6, <3>1
        <3>5. i + 1 = Len(q) <=> i = Len(r)
            BY <1>1, <1>3
        <3>6. i # Len(r) => r[i + 1] = q[i + 1 + 1]
            <4>1. i # Len(r) => i + 1 \in 1..Len(r)
                BY <1>1, <1>3
            <4>2. QED
                BY <1>3, <4>1
        <3>7. i > 1 => r[i - 1] = q[i]
            <4>1. i > 1 => i - 1 \in 1..Len(r) /\ i - 1 + 1 = i
                BY <1>1, <1>3
            <4>2. QED
                BY <1>3, <4>1
        <3>8. QED
            BY <3>1, <3>3, <3>4, <3>5, <3>6, <3>7
    <2> SUFFICES ASSUME NEW a \in Ids, NEW i \in 1..Len(M[a])
                 PROVE  /\ n2[M[a][i]] = IF i = Len(M[a]) THEN NULL ELSE M[a][i + 1]
                        /\ i > 1 => p2[M[a][i]] = M[a][i - 1]
                        /\ i = 1 /\ a = NULL => p2[M[a][i]] = NULL
        OBVIOUS
    <2>3. CASE a = t
        <3>1. r = M[a] /\ a # NULL
            BY <1>1, <2>3 DEF r
        <3>2. i \in 1..Len(r)
            BY <3>1
        <3>3. /\ n2[r[i]] = IF i = Len(r) THEN NULL ELSE r[i + 1]
              /\ i > 1 => p2[r[i]] = r[i - 1]
            BY <2>2, <3>2
        <3>4. QED
            BY <3>1, <3>3
    <2>4. CASE a # t
        <3>1. M[a] = L[a] /\ i \in 1..Len(L[a])
            BY <1>2, <2>4
        <3>2. /\ n2[L[a][i]] = IF i = Len(L[a]) THEN NULL ELSE L[a][i + 1]
              /\ i > 1 => p2[L[a][i]] = L[a][i - 1]
              /\ i = 1 /\ a = NULL => p2[L[a][i]] = NULL
            BY <2>1, <2>4, <3>1
        <3>3. QED
            BY <3>1, <3>2
    <2>5. QED
        BY <2>3, <2>4
<1>10. \A w \in Threads : ~Listed(M, w) => n2[w] = NULL /\ p2[w] = NULL
    BY <1>1, <1>7 DEF Linked
<1>11. \A a \in Ids : h2[a] = IF M[a] = <<>> THEN NULL ELSE M[a][1]
    <2>1. h2[t] = n[c] /\ \A a \in Ids : a # t => h2[a] = h[a]
        BY <1>1
    <2>2. n[c] = IF r = <<>> THEN NULL ELSE r[1]
        <3>1. (r = <<>> <=> Len(r) = 0) /\ (Len(r) = 0 <=> Len(q) = 1) /\ 1 + 1 = 2
            <4>1. r = <<>> <=> Len(r) = 0
                BY <1>3, EmptySeq
            <4>2. Len(r) = 0 <=> Len(q) = 1
                BY <1>1, <1>3
            <4>3. QED
                BY <4>1, <4>2
        <3>2. n[c] = IF Len(q) = 1 THEN NULL ELSE q[2]
            BY <1>1, <1>6, <3>1
        <3>3. Len(r) # 0 => 1 \in 1..Len(r)
            BY <1>1, <1>3
        <3>4. QED
            BY <1>3, <3>1, <3>2, <3>3
    <2>3. QED
        BY <1>2, <2>1, <2>2 DEF Linked, r
<1>12. QED
    BY <1>1, <1>4, <1>7, <1>8, <1>9, <1>10, <1>11 DEF Linked

-------------------------------------------------------------------------------
(* The queue that the pointers spell. *)

(* The least element of a set of natural numbers. *)
LEMMA Least ==
    ASSUME NEW S, S \subseteq Nat, S # {}
    PROVE  \E x \in S : \A y \in S : x <= y
<1> DEFINE R == OpToRel(<, Nat)
<1>1. \A x, y \in Nat : <<y, x>> \in R <=> y < x
    BY DEF OpToRel
<1>2. IsWellFoundedOn(R, Nat)
    BY NatLessThanWellFounded, Zenon
<1> HIDE DEF R
<1>3. PICK x \in S : \A y \in S : ~(<<y, x>> \in R)
    BY <1>2, WFMin, Zenon
<1>4. \A y \in S : y \in Nat /\ x \in Nat /\ ~(y < x)
    BY <1>1, <1>3, Zenon
<1>5. \A y \in S : x <= y
    BY <1>4
<1>6. QED
    BY <1>5

(* One step along the links. *)
Longer(s, first, link) ==
    LET id == IF s = <<>> THEN first ELSE link[Last(s)]
    IN  IF id = NULL THEN s ELSE Append(s, id)

(* A prefix of a linked list that is not all of it is longer by one step. *)
LEMMA Following ==
    ASSUME NEW q \in Seq(Threads), NEW first, NEW link,
           first = (IF q = <<>> THEN NULL ELSE q[1]),
           \A i \in 1..Len(q) : link[q[i]] = IF i = Len(q) THEN NULL ELSE q[i + 1],
           NEW k \in 0..Len(q)
    PROVE  Longer(SubSeq(q, 1, k), first, link) =
              SubSeq(q, 1, IF k = Len(q) THEN k ELSE k + 1)
<1>1. NULL \notin Threads /\ Len(q) \in Nat /\ k \in Nat /\ k <= Len(q)
    BY ThreadsAssumption
<1>2. PICK s : s = SubSeq(q, 1, k)
    OBVIOUS
<1>3. s \in Seq(Threads) /\ Len(s) = k /\ \A i \in 1..k : s[i] = q[i]
    BY <1>1, <1>2
<1>4. s = <<>> <=> k = 0
    BY <1>3
<1>5. CASE k = Len(q)
    <2>1. k = 0 => first = NULL
        <3>1. Len(q) = 0 => q = <<>>
            OBVIOUS
        <3>2. QED
            BY <1>5, <3>1
    <2>2. k # 0 => Last(s) = q[k] /\ link[q[k]] = NULL
        BY <1>1, <1>3, <1>5 DEF Last
    <2>3. QED
        BY <1>2, <1>4, <1>5, <2>1, <2>2 DEF Longer
<1>6. CASE k # Len(q)
    <2>1. k + 1 \in 1..Len(q) /\ q[k + 1] \in Threads
        BY <1>1, <1>6
    <2>2. k = 0 => first = q[k + 1]
        BY <1>1, <1>6
    <2>3. k # 0 => Last(s) = q[k] /\ link[q[k]] = q[k + 1]
        BY <1>1, <1>3, <1>6 DEF Last
    <2>4. Longer(s, first, link) = Append(s, q[k + 1])
        BY <1>1, <1>4, <2>1, <2>2, <2>3 DEF Longer
    <2>5. PICK u : u = SubSeq(q, 1, k + 1)
        OBVIOUS
    <2>6. u \in Seq(Threads) /\ Len(u) = k + 1 /\ \A i \in 1..(k + 1) : u[i] = q[i]
        BY <1>1, <2>1, <2>5
    <2>7. PICK v : v = Append(s, q[k + 1])
        OBVIOUS
    <2>8. v \in Seq(Threads) /\ Len(v) = k + 1 /\ \A i \in 1..(k + 1) : v[i] = q[i]
        BY <1>1, <1>3, <2>1, <2>7
    <2>9. u = v
        BY <2>6, <2>8, SeqEqual
    <2>10. QED
        BY <1>2, <1>6, <2>4, <2>5, <2>7, <2>9
<1>7. QED
    BY <1>5, <1>6

(* The list is no longer than there are threads. *)
LEMMA Short ==
    ASSUME NEW q \in Seq(Threads), \A i, j \in 1..Len(q) : q[i] = q[j] => i = j
    PROVE  Cardinality(Threads) \in Nat /\ Len(q) <= Cardinality(Threads)
<1>1. Cardinality(Threads) \in Nat
    BY ThreadsAssumption, FS_CardinalityType
<1>2. q \in Injection(1..Len(q), Threads)
    BY DEF Injection, IsInjective
<1>3. Cardinality(1..Len(q)) <= Cardinality(Threads)
    BY <1>2, ThreadsAssumption, FS_Injection
<1>4. Cardinality(1..Len(q)) = Len(q)
    BY FS_Interval
<1>5. QED
    BY <1>1, <1>3, <1>4

(* A linked list of distinct threads is what ListFrom finds. *)
LEMMA Found ==
    ASSUME NEW q \in Seq(Threads), NEW first, NEW link,
           first = (IF q = <<>> THEN NULL ELSE q[1]),
           \A i \in 1..Len(q) : link[q[i]] = IF i = Len(q) THEN NULL ELSE q[i + 1],
           \A i, j \in 1..Len(q) : q[i] = q[j] => i = j
    PROVE  ListFrom(first, link) = q
<1> DEFINE N == Cardinality(Threads)
           Solves(g) == g = [n \in 0..N |-> IF n = 0 THEN <<>> ELSE Longer(g[n - 1], first, link)]
           P == CHOOSE g : Solves(g)
           At(n) == IF n <= Len(q) THEN n ELSE Len(q)
           f == [n \in 0..N |-> SubSeq(q, 1, At(n))]
<1>1. N \in Nat /\ Len(q) \in Nat /\ Len(q) <= N
    BY Short
<1> HIDE DEF N
<1>2. Solves(f)
    <2>1. ASSUME NEW n \in 0..N, n # 0
          PROVE  f[n] = Longer(f[n - 1], first, link)
        <3>1. n - 1 \in 0..N /\ At(n - 1) \in 0..Len(q)
            BY <1>1, <2>1
        <3>2. At(n) = IF At(n - 1) = Len(q) THEN At(n - 1) ELSE At(n - 1) + 1
            BY <1>1, <2>1
        <3> HIDE DEF At
        <3>3. QED
            BY <3>1, <3>2, Following
    <2>2. f[0] = <<>>
        BY <1>1
    <2>3. f = [n \in 0..N |-> IF n = 0 THEN <<>> ELSE Longer(f[n - 1], first, link)]
        <3> HIDE DEF At
        <3>1. f = [n \in 0..N |-> f[n]]
            OBVIOUS
        <3>2. \A n \in 0..N : f[n] = IF n = 0 THEN <<>> ELSE Longer(f[n - 1], first, link)
            BY <2>1, <2>2
        <3> HIDE DEF f
        <3>3. QED
            BY <3>1, <3>2
    <2>4. QED
        BY <2>3
<1> HIDE DEF Solves
<1>3. Solves(P)
    BY <1>2
<1>4. ListFrom(first, link) = P[N]
    BY DEF ListFrom, P, Solves, N, Longer
<1>5. \A n \in 0..N : P[n] = f[n]
    <2> DEFINE S == {n \in 0..N : P[n] # f[n]}
    <2> SUFFICES ASSUME S # {} PROVE FALSE
        OBVIOUS
    <2>1. PICK n \in S : \A m \in S : n <= m
        <3>1. S \subseteq Nat
            BY <1>1
        <3> HIDE DEF S
        <3>2. QED
            BY <3>1, Least
    <2>2. /\ P[n] = IF n = 0 THEN <<>> ELSE Longer(P[n - 1], first, link)
          /\ f[n] = IF n = 0 THEN <<>> ELSE Longer(f[n - 1], first, link)
        <3> HIDE DEF P, f
        <3>1. n \in 0..N
            OBVIOUS
        <3>2. QED
            BY <1>2, <1>3, <3>1 DEF Solves
    <2> HIDE DEF P, f
    <2>3. n # 0 => n - 1 \in 0..N /\ ~(n <= n - 1)
        BY <1>1
    <2>4. n # 0 => P[n - 1] = f[n - 1]
        BY <2>1, <2>3
    <2>5. QED
        BY <2>2, <2>4
<1>6. f[N] = q
    <2>1. N \in 0..N /\ At(N) = Len(q)
        BY <1>1
    <2>2. SubSeq(q, 1, Len(q)) = q
        BY SubSeqFull
    <2> HIDE DEF At
    <2>3. QED
        BY <2>1, <2>2
<1> HIDE DEF P, f
<1>7. QED
    BY <1>1, <1>4, <1>5, <1>6

-------------------------------------------------------------------------------
(* What the steps have in common. *)

(* Only thread t moves. *)
Others(t) ==
    \A u \in Threads : u # t =>
        /\ pc'[u] = pc[u] /\ back'[u] = back[u] /\ target'[u] = target[u]
        /\ cur'[u] = cur[u] /\ timed'[u] = timed[u]

(* The others keep what LocalOK says of them. *)
LEMMA LocalStep ==
    ASSUME NEW t \in Threads, Others(t), UNCHANGED ops,
           \A u \in Threads : LocalOK(u), LocalOK(t)'
    PROVE  \A u \in Threads : LocalOK(u)'
BY DEF Others, LocalOK

(* A step that does not touch the mutex. *)
LEMMA MutexStill ==
    ASSUME MutexInv, NEW t \in Threads, Others(t), UNCHANGED mutex,
           Inside(t)' <=> Inside(t), pc[t] # "lock_wait", pc'[t] # "lock_wait"
    PROVE  MutexInv'
<1>1. \A u \in Threads : /\ Inside(u)' <=> Inside(u)
                         /\ pc'[u] = "lock_wait" <=> pc[u] = "lock_wait"
    BY DEF Others, Inside
<1>2. \A u \in Threads : Queues(u)' <=> Queues(u)
    BY DEF Queues, mutex
<1>3. QED
    BY <1>1, <1>2 DEF MutexInv, mutex

(* The mutex is taken, or the caller queues for it. *)
LEMMA Acquired ==
    ASSUME TypeOK, MutexInv, NEW t \in Threads, Others(t), Acquire(t),
           ~Inside(t), pc[t] # "lock_wait"
    PROVE  /\ MutexInv' /\ owner' \in Ids /\ queue' \in Seq(Threads)
           /\ pc' = [pc EXCEPT ![t] = pc'[t]] /\ pc'[t] \in {"in", "lock_wait"}
           /\ \A u \in Threads : pc'[u] = "lock_wait" /\ owner' = u
                                    <=> pc[u] = "lock_wait" /\ owner = u
<1>1. pc \in [Threads -> Places] /\ queue \in Seq(Threads) /\ owner \in Ids /\ NULL \notin Threads
    BY ThreadsAssumption DEF TypeOK
<1>2. CASE Mutex!Acquire(t) /\ Goto(t, "in")
    <2>1. owner = NULL /\ owner' = t /\ queue' = queue /\ pc' = [pc EXCEPT ![t] = "in"]
        BY <1>2 DEF Mutex!Acquire, Goto
    <2>2. pc'[t] = "in" /\ Inside(t)' /\ queue = <<>>
        BY <1>1, <2>1 DEF Inside, MutexInv
    <2>3. \A u \in Threads : ~Queues(u) /\ ~Queues(u)'
        BY <2>1, <2>2 DEF Queues
    <2>4. \A u \in Threads : u # t => (Inside(u)' <=> Inside(u)) /\ pc'[u] = pc[u]
        BY DEF Others, Inside
    <2>5. MutexInv'
        BY <1>1, <2>1, <2>2, <2>3, <2>4 DEF MutexInv
    <2>6. QED
        BY <1>1, <2>1, <2>2, <2>4, <2>5 DEF Ids
<1>3. CASE Mutex!Enqueue(t) /\ Goto(t, "lock_wait")
    <2>1. /\ owner \notin {NULL, t} /\ owner' = owner /\ queue' = Append(queue, t)
          /\ pc' = [pc EXCEPT ![t] = "lock_wait"] /\ ~Queues(t)
        BY <1>3 DEF Mutex!Enqueue, Goto, Queues
    <2>2. pc'[t] = "lock_wait" /\ ~Inside(t)'
        BY <1>1, <2>1 DEF Inside, Notifying
    <2>3. /\ queue' \in Seq(Threads) /\ Len(queue) \in Nat /\ Len(queue') = Len(queue) + 1
          /\ queue'[Len(queue) + 1] = t /\ \A i \in 1..Len(queue) : queue'[i] = queue[i]
        BY <1>1, <2>1
    <2>4. \A i \in 1..Len(queue') : i \in 1..Len(queue) \/ i = Len(queue) + 1
        BY <2>3
    <2>5. Len(queue) + 1 \in 1..Len(queue') /\ \A i \in 1..Len(queue) : i \in 1..Len(queue')
        BY <2>3
    <2>6. Queues(t)' /\ \A u \in Threads : u # t => (Queues(u)' <=> Queues(u))
        BY <2>3, <2>4, <2>5 DEF Queues
    <2>7. \A u \in Threads : u # t => (Inside(u)' <=> Inside(u)) /\ pc'[u] = pc[u]
        BY DEF Others, Inside
    <2>8. \A i, j \in 1..Len(queue') : queue'[i] = queue'[j] => i = j
        BY <2>1, <2>3, <2>4 DEF MutexInv, Queues
    <2>9. MutexInv'
        BY <1>1, <2>1, <2>2, <2>6, <2>7, <2>8 DEF MutexInv
    <2>10. QED
        BY <1>1, <2>1, <2>2, <2>3, <2>7, <2>9
<1>4. QED
    BY <1>2, <1>3 DEF Acquire

(* The mutex is given up: who is next is its owner. *)
LEMMA Dropped ==
    ASSUME TypeOK, MutexInv, NEW t \in Threads, Others(t), NEW l \in {"out", "cv_wait"},
           Drop(t, l), pc[t] \in {"in", "drop"}
    PROVE  /\ MutexInv' /\ owner' \in Ids /\ queue' \in Seq(Threads)
           /\ pc' = [pc EXCEPT ![t] = pc'[t]]
           /\ \/ /\ pc'[t] = l /\ UNCHANGED <<target, back>>
                 /\ \A u \in Threads : ~(pc[u] = "lock_wait" /\ owner = u)
                                       /\ ~(pc'[u] = "lock_wait" /\ owner' = u)
              \/ \E w \in Threads :
                   /\ pc'[t] = "wake" /\ target' = [target EXCEPT ![t] = w]
                   /\ back' = [back EXCEPT ![t] = l]
                   /\ w # t /\ pc[w] = "lock_wait" /\ owner' = w
                   /\ \A u \in Threads : ~(pc[u] = "lock_wait" /\ owner = u)
<1>1. /\ pc \in [Threads -> Places] /\ queue \in Seq(Threads) /\ owner \in Ids
      /\ NULL \notin Threads /\ back \in [Threads -> {"in", "out", "cv_wait"}]
    BY ThreadsAssumption DEF TypeOK
<1>2. owner = t /\ \A u \in Threads : ~(pc[u] = "lock_wait" /\ owner = u)
    BY DEF Drop, Mutex!Release
<1>3. \A u \in Threads : u # t => (Inside(u)' <=> Inside(u)) /\ pc'[u] = pc[u]
    BY DEF Others, Inside
<1>4. CASE queue = <<>>
    <2>1. /\ owner' = NULL /\ queue' = queue /\ pc' = [pc EXCEPT ![t] = l]
          /\ UNCHANGED <<target, back>>
        BY <1>4 DEF Drop, Mutex!Release, Goto
    <2>2. pc'[t] = l /\ ~Inside(t)'
        BY <1>1, <2>1 DEF Inside, Notifying
    <2>3. \A u \in Threads : ~Queues(u) /\ ~Queues(u)'
        BY <1>4, <2>1 DEF Queues
    <2>4. MutexInv'
        BY <1>1, <1>2, <1>3, <1>4, <2>1, <2>2, <2>3 DEF MutexInv
    <2>5. QED
        BY <1>1, <1>2, <2>1, <2>2, <2>4 DEF Ids
<1>5. CASE queue # <<>>
    <2>1. PICK w : w = Head(queue)
        OBVIOUS
    <2>2. /\ owner' = w /\ queue' = Tail(queue) /\ pc' = [pc EXCEPT ![t] = "wake"]
          /\ target' = [target EXCEPT ![t] = w] /\ back' = [back EXCEPT ![t] = l]
        BY <1>5, <2>1 DEF Drop, Mutex!Release, Goto
    <2>3. pc'[t] = "wake" /\ ~Inside(t)'
        BY <1>1, <2>2 DEF Inside, Notifying
    <2>4. /\ queue' \in Seq(Threads) /\ Len(queue) \in Nat /\ Len(queue') = Len(queue) - 1
          /\ \A i \in 1..Len(queue') : queue'[i] = queue[i + 1]
          /\ w = queue[1] /\ w \in Threads /\ 1 \in 1..Len(queue)
        BY <1>1, <1>5, <2>1, <2>2, HeadTailProperties
    <2>5. \A i \in 1..Len(queue') : i + 1 \in 1..Len(queue) /\ i + 1 # 1
        BY <2>4
    <2>6. \A i \in 1..Len(queue) : i # 1 => i - 1 \in 1..Len(queue') /\ i - 1 + 1 = i
        BY <2>4
    <2>7. Queues(w) /\ pc[w] = "lock_wait" /\ w # t /\ pc'[w] = "lock_wait"
        BY <1>3, <2>4 DEF Queues, MutexInv
    <2>8. \A u \in Threads : Queues(u)' <=> Queues(u) /\ u # w
        <3>1. \A u \in Threads : Queues(u)' => Queues(u) /\ u # w
            BY <2>4, <2>5 DEF Queues, MutexInv
        <3>2. \A u \in Threads : Queues(u) /\ u # w => Queues(u)'
            <4> SUFFICES ASSUME NEW u \in Threads, Queues(u), u # w
                         PROVE  Queues(u)'
                OBVIOUS
            <4>1. PICK i \in 1..Len(queue) : queue[i] = u /\ i # 1
                BY <2>4 DEF Queues
            <4>2. i - 1 \in 1..Len(queue') /\ queue'[i - 1] = u
                BY <2>4, <2>6, <4>1
            <4>3. QED
                BY <4>2 DEF Queues
        <3>3. QED
            BY <3>1, <3>2
    <2>9. \A i, j \in 1..Len(queue') : queue'[i] = queue'[j] => i = j
        <3>1. \A i, j \in 1..Len(queue') : queue'[i] = queue'[j] => i + 1 = j + 1
            BY <2>4, <2>5 DEF MutexInv
        <3>2. QED
            BY <3>1
    <2>10. ~Inside(w)
        BY <2>7 DEF Inside, Notifying
    <2>11. \A u \in Threads : owner' = u <=> Inside(u)' \/ (pc'[u] = "lock_wait" /\ ~Queues(u)')
        BY <1>2, <1>3, <2>2, <2>3, <2>7, <2>8, <2>10 DEF MutexInv
    <2>12. \A u \in Threads : Queues(u)' => pc'[u] = "lock_wait"
        BY <1>2, <1>3, <2>8 DEF MutexInv
    <2>13. MutexInv'
        BY <1>1, <2>2, <2>4, <2>9, <2>11, <2>12 DEF MutexInv
    <2>14. QED
        BY <1>2, <2>2, <2>3, <2>4, <2>7, <2>13 DEF Ids
<1>6. QED
    BY <1>4, <1>5

Sending(t) == pc[t] \in {"wake", "wake_one"}

(* A step that neither sends nor takes a signal. *)
LEMMA SignalsStill ==
    ASSUME NEW L, NEW M, \A w \in Threads : SignalOK(L, w),
           NEW t \in Threads, Others(t), UNCHANGED signal_pending,
           ~Sending(t), ~Sending(t)',
           \A w \in Threads : Listed(M, w) => Waiting(w)',
           \A w \in Threads : Needs(M, w)' <=> Needs(L, w)
    PROVE  \A w \in Threads : SignalOK(M, w)'
<1>1. \A u, w \in Threads : Sends(u, w)' <=> Sends(u, w)
    BY DEF Others, Sends, Sending
<1>2. QED
    BY <1>1 DEF SignalOK

(* Thread t has chosen whom to signal. *)
LEMMA SignalDue ==
    ASSUME NEW L, NEW M, \A w \in Threads : SignalOK(L, w),
           NEW t \in Threads, Others(t), UNCHANGED signal_pending,
           ~Sending(t), Sending(t)', NEW v \in Threads, target'[t] = v,
           \A w \in Threads : Listed(M, w) => Waiting(w)',
           ~Needs(L, v), Needs(M, v)',
           \A w \in Threads : w # v => (Needs(M, w)' <=> Needs(L, w))
    PROVE  \A w \in Threads : SignalOK(M, w)'
<1>1. \A u, w \in Threads : Sends(u, w)' <=> Sends(u, w) \/ (u = t /\ w = v)
    BY DEF Others, Sends, Sending
<1>2. ~signal_pending[v] /\ \A u \in Threads : ~Sends(u, v)
    BY DEF SignalOK
<1>3. QED
    BY <1>1, <1>2 DEF SignalOK

(* Thread t signals. *)
LEMMA SignalSent ==
    ASSUME TypeOK, NEW L, \A w \in Threads : SignalOK(L, w),
           NEW t \in Threads, Others(t), Sending(t), ~Sending(t)', target[t] \in Threads,
           signal_pending' = [signal_pending EXCEPT ![target[t]] = TRUE],
           \A w \in Threads : Listed(L, w) => Waiting(w)',
           \A w \in Threads : Needs(L, w)' <=> Needs(L, w)
    PROVE  \A w \in Threads : SignalOK(L, w)'
<1>1. \A u, w \in Threads : Sends(u, w)' <=> Sends(u, w) /\ u # t
    BY DEF Others, Sends, Sending
<1>2. PICK v \in Threads : v = target[t]
    OBVIOUS
<1>3. Sends(t, v) /\ \A w \in Threads : Sends(t, w) <=> w = v
    BY <1>2 DEF Sends, Sending
<1>4. /\ signal_pending'[v] = TRUE
      /\ \A w \in Threads : w # v => signal_pending'[w] = signal_pending[w]
    BY <1>2 DEF TypeOK
<1>5. SignalOK(L, v)'
    BY <1>1, <1>3, <1>4 DEF SignalOK
<1>6. \A w \in Threads : w # v => SignalOK(L, w)'
    BY <1>1, <1>3, <1>4 DEF SignalOK
<1>7. QED
    BY <1>5, <1>6

(* Thread t takes the signal it was sent. *)
LEMMA SignalTaken ==
    ASSUME TypeOK, NEW L, \A w \in Threads : SignalOK(L, w),
           NEW t \in Threads, Others(t), ~Sending(t), ~Sending(t)', signal_pending[t],
           signal_pending' = [signal_pending EXCEPT ![t] = FALSE],
           \A w \in Threads : Listed(L, w) => Waiting(w)',
           ~Needs(L, t)',
           \A w \in Threads : w # t => (Needs(L, w)' <=> Needs(L, w))
    PROVE  \A w \in Threads : SignalOK(L, w)'
<1>1. \A u, w \in Threads : Sends(u, w)' <=> Sends(u, w)
    BY DEF Others, Sends, Sending
<1>2. \A u \in Threads : ~Sends(u, t)
    BY DEF SignalOK
<1>3. /\ signal_pending'[t] = FALSE
      /\ \A w \in Threads : w # t => signal_pending'[w] = signal_pending[w]
    BY DEF TypeOK
<1>4. SignalOK(L, t)'
    BY <1>1, <1>2, <1>3 DEF SignalOK
<1>5. \A w \in Threads : w # t => SignalOK(L, w)'
    BY <1>1, <1>3 DEF SignalOK
<1>6. QED
    BY <1>4, <1>5

(* The parts of Inv that a step of thread t can disturb. *)
LEMMA InvStep ==
    ASSUME Inv, NEW t \in Threads, Others(t), UNCHANGED ops, TypeOK', LocalOK(t)', MutexInv'
    PROVE  Inv'
BY LocalStep DEF Inv, Separated

(* The others wait as before, and those the mutex was not given to need a  *)
(* signal as before.                                                       *)
LEMMA OthersWait ==
    ASSUME NEW t \in Threads, Others(t), NEW L, NEW M
    PROVE  \A w \in Threads : w # t =>
              /\ Waiting(w)' <=> Waiting(w)
              /\ (/\ pc'[w] = "lock_wait" /\ owner' = w <=> pc[w] = "lock_wait" /\ owner = w
                  /\ Listed(M, w) <=> Listed(L, w))
                 => (Needs(M, w)' <=> Needs(L, w))
BY DEF Others, Waiting, Needs

(* A step that leaves the lists alone. *)
LEMMA ListsStill ==
    ASSUME NEW L \in Lists, ListsOK(L), UNCHANGED <<list, cur>>,
           \A w \in Threads : SignalOK(L, w)'
    PROVE  ListsOK(L)' /\ \E M \in Lists : ListsOK(M)'
<1>1. Heads' = Heads /\ next' = next /\ prev' = prev
    BY DEF Heads, list
<1>2. QED
    BY <1>1 DEF ListsOK

-------------------------------------------------------------------------------
(* The steps: the mutex. *)

(* What Inv says of the variables. *)
LEMMA InvTypes ==
    ASSUME Inv
    PROVE  /\ TypeOK /\ MutexInv /\ \A u \in Threads : LocalOK(u)
           /\ pc \in [Threads -> Places] /\ back \in [Threads -> {"in", "out", "cv_wait"}]
           /\ target \in [Threads -> Ids] /\ cur \in [Threads -> Ids]
           /\ timed \in [Threads -> BOOLEAN] /\ NULL \notin Threads /\ NULL \in Ids
           /\ Threads \subseteq Ids
BY ThreadsAssumption DEF Inv, TypeOK, Ids

(* The client's lock, and the one at the end of a wait. *)
LEMMA AcquireStep ==
    ASSUME Inv, NEW L \in Lists, ListsOK(L), NEW t \in Threads, UNCHANGED ops,
           pc[t] \in {"out", "reacquire"}, Acquire(t), UNCHANGED <<list, signal_pending, locals>>
    PROVE  Inv' /\ \E M \in Lists : ListsOK(M)'
<1>1. Others(t)
    BY InvTypes DEF Others, Acquire, Goto, locals
<1>2. ~Inside(t) /\ pc[t] # "lock_wait"
    BY DEF Inside, Notifying
<1>3. /\ MutexInv' /\ owner' \in Ids /\ queue' \in Seq(Threads)
      /\ pc' = [pc EXCEPT ![t] = pc'[t]] /\ pc'[t] \in {"in", "lock_wait"}
      /\ \A u \in Threads : pc'[u] = "lock_wait" /\ owner' = u
                               <=> pc[u] = "lock_wait" /\ owner = u
    BY <1>1, <1>2, InvTypes, Acquired
<1>4. TypeOK'
    <2>1. pc' \in [Threads -> Places]
        BY <1>3, InvTypes DEF Places
    <2>2. QED
        BY <1>3, <2>1, InvTypes DEF TypeOK, list, locals
<1>5. LocalOK(t)'
    BY <1>3, InvTypes DEF LocalOK, locals, Notifying
<1>6. Inv'
    BY <1>1, <1>3, <1>4, <1>5, InvStep
<1>7. ~Waiting(t) /\ ~Waiting(t)' /\ ~Sending(t) /\ ~Sending(t)'
    BY <1>3 DEF Waiting, Sending
<1>8. \A w \in Threads : (Needs(L, w)' <=> Needs(L, w)) /\ (Waiting(w)' <=> Waiting(w))
    <2>1. Needs(L, t)' <=> Needs(L, t)
        BY <1>3, <1>7 DEF Needs
    <2>2. QED
        BY <1>1, <1>3, <1>7, <2>1, OthersWait
<1>9. \A w \in Threads : SignalOK(L, w)'
    <2>1. \A w \in Threads : SignalOK(L, w) /\ (Listed(L, w) => Waiting(w)')
        BY <1>8 DEF ListsOK, SignalOK
    <2>2. QED
        BY <1>1, <1>7, <1>8, <2>1, SignalsStill
<1>10. QED
    BY <1>6, <1>9, ListsStill DEF locals

(* The hand-off arrives. *)
LEMMA LockWaitStep ==
    ASSUME Inv, NEW L \in Lists, ListsOK(L), NEW t \in Threads, UNCHANGED ops, LockWait(t)
    PROVE  Inv' /\ \E M \in Lists : ListsOK(M)'
<1>1. /\ pc[t] = "lock_wait" /\ signal_pending[t] /\ pc' = [pc EXCEPT ![t] = "in"]
      /\ signal_pending' = [signal_pending EXCEPT ![t] = FALSE]
      /\ UNCHANGED <<list, mutex, locals>>
    BY DEF LockWait, Goto
<1>2. Others(t) /\ pc'[t] = "in"
    BY <1>1, InvTypes DEF Others, locals
<1>3. ~Waiting(t) /\ ~Waiting(t)' /\ ~Sending(t) /\ ~Sending(t)'
    BY <1>1, <1>2 DEF Waiting, Sending
<1>4. \A w \in Threads : SignalOK(L, w)
    BY DEF ListsOK
<1>5. owner = t
    BY <1>1, <1>3, <1>4 DEF SignalOK, Needs
<1>6. MutexInv'
    <2>1. \A u \in Threads : u # t => (Inside(u)' <=> Inside(u)) /\ pc'[u] = pc[u]
        BY <1>2 DEF Others, Inside
    <2>2. Inside(t)' /\ ~Inside(t) /\ ~Queues(t)
        BY <1>1, <1>2, <1>5, InvTypes DEF MutexInv, Inside, Notifying
    <2>3. \A u \in Threads : Queues(u)' <=> Queues(u)
        BY <1>1 DEF Queues, mutex
    <2>4. QED
        BY <1>1, <1>2, <1>5, <2>1, <2>2, <2>3, InvTypes DEF MutexInv, mutex
<1>7. TypeOK'
    BY <1>1, InvTypes DEF TypeOK, list, locals, mutex, Places
<1>8. LocalOK(t)'
    BY <1>1, <1>2, InvTypes DEF LocalOK, locals, Notifying
<1>9. Inv'
    BY <1>2, <1>6, <1>7, <1>8, InvStep
<1>10. /\ ~Needs(L, t)' /\ \A w \in Threads : w # t => (Needs(L, w)' <=> Needs(L, w))
       /\ \A w \in Threads : Waiting(w)' <=> Waiting(w)
    <2>1. ~Needs(L, t)'
        BY <1>2, <1>3 DEF Needs
    <2>2. owner' = owner
        BY <1>1 DEF mutex
    <2>3. \A w \in Threads : w # t => pc'[w] = pc[w]
        BY <1>2 DEF Others
    <2>4. QED
        BY <1>2, <1>3, <2>1, <2>2, <2>3, OthersWait
<1>11. \A w \in Threads : SignalOK(L, w)'
    <2>1. \A w \in Threads : Listed(L, w) => Waiting(w)'
        BY <1>4, <1>10 DEF SignalOK
    <2>2. QED
        BY <1>1, <1>2, <1>3, <1>4, <1>10, <2>1, SignalTaken, InvTypes
<1>12. QED
    BY <1>1, <1>9, <1>11, ListsStill DEF locals

(* The mutex is given up, by its unlock or at the beginning of a wait. *)
LEMMA DropStep ==
    ASSUME Inv, NEW L \in Lists, ListsOK(L), NEW t \in Threads, UNCHANGED ops,
           \/ pc[t] = "in" /\ Drop(t, "out")
           \/ pc[t] = "drop" /\ Drop(t, "cv_wait"),
           UNCHANGED <<list, signal_pending, timed, res, cur>>
    PROVE  Inv' /\ \E M \in Lists : ListsOK(M)'
<1>1. PICK l \in {"out", "cv_wait"} : /\ Drop(t, l) /\ pc[t] \in {"in", "drop"}
                                      /\ pc[t] = "drop" <=> l = "cv_wait"
    OBVIOUS
<1>2. Others(t)
    BY <1>1, InvTypes DEF Others, Drop, Goto
<1>3. /\ MutexInv' /\ owner' \in Ids /\ queue' \in Seq(Threads)
      /\ pc' = [pc EXCEPT ![t] = pc'[t]]
      /\ \/ /\ pc'[t] = l /\ UNCHANGED <<target, back>>
            /\ \A u \in Threads : ~(pc[u] = "lock_wait" /\ owner = u)
                                  /\ ~(pc'[u] = "lock_wait" /\ owner' = u)
         \/ \E w \in Threads :
              /\ pc'[t] = "wake" /\ target' = [target EXCEPT ![t] = w]
              /\ back' = [back EXCEPT ![t] = l]
              /\ w # t /\ pc[w] = "lock_wait" /\ owner' = w
              /\ \A u \in Threads : ~(pc[u] = "lock_wait" /\ owner = u)
    BY <1>1, <1>2, InvTypes, Dropped
<1>4. \A w \in Threads : SignalOK(L, w)
    BY DEF ListsOK
<1>5. CASE /\ pc'[t] = l /\ UNCHANGED <<target, back>>
           /\ \A u \in Threads : ~(pc[u] = "lock_wait" /\ owner = u)
                                 /\ ~(pc'[u] = "lock_wait" /\ owner' = u)
    <2>1. TypeOK'
        BY <1>3, <1>5, InvTypes DEF TypeOK, list, Places
    <2>2. LocalOK(t)'
        BY <1>1, <1>5, InvTypes DEF LocalOK, Notifying
    <2>3. Inv'
        BY <1>2, <1>3, <2>1, <2>2, InvStep
    <2>4. (Waiting(t)' <=> Waiting(t)) /\ ~Sending(t) /\ ~Sending(t)'
        BY <1>1, <1>5 DEF Waiting, Sending
    <2>5. \A w \in Threads : (Needs(L, w)' <=> Needs(L, w)) /\ (Waiting(w)' <=> Waiting(w))
        <3>1. \A w \in Threads : Waiting(w)' <=> Waiting(w)
            BY <1>2, <2>4, OthersWait
        <3>2. QED
            BY <1>5, <3>1 DEF Needs
    <2>6. \A w \in Threads : SignalOK(L, w)'
        <3>1. \A w \in Threads : Listed(L, w) => Waiting(w)'
            BY <1>4, <2>5 DEF SignalOK
        <3>2. QED
            BY <1>2, <1>4, <2>4, <2>5, <3>1, SignalsStill
    <2>7. QED
        BY <2>3, <2>6, ListsStill
<1>6. ASSUME NEW v \in Threads,
             /\ pc'[t] = "wake" /\ target' = [target EXCEPT ![t] = v]
             /\ back' = [back EXCEPT ![t] = l]
             /\ v # t /\ pc[v] = "lock_wait" /\ owner' = v
             /\ \A u \in Threads : ~(pc[u] = "lock_wait" /\ owner = u)
      PROVE  Inv' /\ \E M \in Lists : ListsOK(M)'
    <2>0. target'[t] = v /\ back'[t] = l /\ pc'[v] = "lock_wait"
        BY <1>2, <1>6, InvTypes DEF Others
    <2>1. TypeOK'
        <3>1. pc' \in [Threads -> Places]
            BY <1>3, <1>6, InvTypes DEF Places
        <3>2. target' \in [Threads -> Ids] /\ back' \in [Threads -> {"in", "out", "cv_wait"}]
            BY <1>6, InvTypes
        <3>3. QED
            BY <1>3, <3>1, <3>2, InvTypes DEF TypeOK, list
    <2>2. LocalOK(t)'
        BY <1>1, <1>6, <2>0, InvTypes DEF LocalOK, Notifying
    <2>3. Inv'
        BY <1>2, <1>3, <2>1, <2>2, InvStep
    <2>4. (Waiting(t)' <=> Waiting(t)) /\ ~Sending(t) /\ Sending(t)'
        BY <1>1, <1>6, <2>0 DEF Waiting, Sending
    <2>5. \A w \in Threads : Waiting(w)' <=> Waiting(w)
        BY <1>2, <2>4, OthersWait
    <2>6. ~Needs(L, v) /\ Needs(L, v)' /\ \A w \in Threads : w # v => (Needs(L, w)' <=> Needs(L, w))
        <3>1. ~Waiting(v)
            BY <1>6 DEF Waiting
        <3>2. QED
            BY <1>6, <2>0, <2>5, <3>1 DEF Needs
    <2>7. \A w \in Threads : SignalOK(L, w)'
        <3>1. \A w \in Threads : Listed(L, w) => Waiting(w)'
            BY <1>4, <2>5 DEF SignalOK
        <3>2. QED
            BY <1>2, <1>4, <2>0, <2>4, <2>6, <3>1, SignalDue
    <2>8. QED
        BY <2>3, <2>7, ListsStill
<1>7. QED
    BY <1>3, <1>5, <1>6

-------------------------------------------------------------------------------
(* The steps: signals. *)

(* A signal of the mutex or of lw_condvar_signal is sent. *)
LEMMA WakeupStep ==
    ASSUME Inv, NEW L \in Lists, ListsOK(L), NEW t \in Threads, UNCHANGED ops, Wakeup(t)
    PROVE  Inv' /\ \E M \in Lists : ListsOK(M)'
<1>1. /\ pc[t] = "wake" /\ pc' = [pc EXCEPT ![t] = back[t]]
      /\ back' = [back EXCEPT ![t] = "out"]
      /\ signal_pending' = [signal_pending EXCEPT ![target[t]] = TRUE]
      /\ target' = [target EXCEPT ![t] = NULL]
      /\ UNCHANGED <<list, mutex, timed, res, cur>>
    BY DEF Wakeup, Return, Goto
<1>2. /\ Others(t) /\ pc'[t] = back[t] /\ back'[t] = "out" /\ back[t] \in {"in", "out", "cv_wait"}
      /\ target[t] \in Threads
    BY <1>1, InvTypes DEF Others, LocalOK
<1>3. MutexInv'
    <2>1. Inside(t)' <=> Inside(t)
        BY <1>1, <1>2 DEF Inside, Notifying
    <2>2. QED
        BY <1>1, <1>2, <2>1, InvTypes, MutexStill
<1>4. TypeOK'
    <2>1. pc' \in [Threads -> Places] /\ back' \in [Threads -> {"in", "out", "cv_wait"}]
        BY <1>1, <1>2, InvTypes DEF Places
    <2>2. QED
        BY <1>1, <2>1, InvTypes DEF TypeOK, list, mutex
<1>5. LocalOK(t)'
    BY <1>1, <1>2, InvTypes DEF LocalOK, Notifying
<1>6. Inv'
    BY <1>2, <1>3, <1>4, <1>5, InvStep
<1>7. (Waiting(t)' <=> Waiting(t)) /\ Sending(t) /\ ~Sending(t)'
    BY <1>1, <1>2 DEF Waiting, Sending
<1>8. \A w \in Threads : (Needs(L, w)' <=> Needs(L, w)) /\ (Waiting(w)' <=> Waiting(w))
    <2>1. owner' = owner
        BY <1>1 DEF mutex
    <2>2. Needs(L, t)' <=> Needs(L, t)
        BY <1>1, <1>2, <1>7 DEF Needs
    <2>3. \A w \in Threads : w # t => pc'[w] = pc[w]
        BY <1>2 DEF Others
    <2>4. QED
        BY <1>2, <1>7, <2>1, <2>2, <2>3, OthersWait
<1>9. \A w \in Threads : SignalOK(L, w)'
    <2>1. \A w \in Threads : SignalOK(L, w) /\ (Listed(L, w) => Waiting(w)')
        BY <1>8 DEF ListsOK, SignalOK
    <2>2. QED
        BY <1>1, <1>2, <1>7, <1>8, <2>1, SignalSent, InvTypes
<1>10. QED
    BY <1>1, <1>6, <1>9, ListsStill

(* A signal of broadcast is sent. *)
LEMMA WakeOneStep ==
    ASSUME Inv, NEW L \in Lists, ListsOK(L), NEW t \in Threads, UNCHANGED ops, WakeOne(t)
    PROVE  Inv' /\ \E M \in Lists : ListsOK(M)'
<1>1. /\ pc[t] = "wake_one" /\ pc' = [pc EXCEPT ![t] = "wake_all"]
      /\ signal_pending' = [signal_pending EXCEPT ![target[t]] = TRUE]
      /\ target' = [target EXCEPT ![t] = NULL]
      /\ UNCHANGED <<list, mutex, timed, res, cur, back>>
    BY DEF WakeOne, Goto
<1>2. Others(t) /\ pc'[t] = "wake_all" /\ target[t] \in Threads
    BY <1>1, InvTypes DEF Others, LocalOK
<1>3. MutexInv'
    <2>1. Inside(t)' <=> Inside(t)
        BY <1>1, <1>2 DEF Inside, Notifying
    <2>2. QED
        BY <1>1, <1>2, <2>1, InvTypes, MutexStill
<1>4. TypeOK'
    <2>1. pc' \in [Threads -> Places]
        BY <1>1, InvTypes DEF Places
    <2>2. QED
        BY <1>1, <2>1, InvTypes DEF TypeOK, list, mutex
<1>5. LocalOK(t)'
    BY <1>1, <1>2, InvTypes DEF LocalOK, Notifying
<1>6. Inv'
    BY <1>2, <1>3, <1>4, <1>5, InvStep
<1>7. ~Waiting(t)' /\ ~Waiting(t) /\ Sending(t) /\ ~Sending(t)'
    BY <1>1, <1>2 DEF Waiting, Sending
<1>8. \A w \in Threads : (Needs(L, w)' <=> Needs(L, w)) /\ (Waiting(w)' <=> Waiting(w))
    <2>1. owner' = owner
        BY <1>1 DEF mutex
    <2>2. Needs(L, t)' <=> Needs(L, t)
        BY <1>1, <1>2, <1>7 DEF Needs
    <2>3. \A w \in Threads : w # t => pc'[w] = pc[w]
        BY <1>2 DEF Others
    <2>4. QED
        BY <1>2, <1>7, <2>1, <2>2, <2>3, OthersWait
<1>9. \A w \in Threads : SignalOK(L, w)'
    <2>1. \A w \in Threads : SignalOK(L, w) /\ (Listed(L, w) => Waiting(w)')
        BY <1>8 DEF ListsOK, SignalOK
    <2>2. QED
        BY <1>1, <1>2, <1>7, <1>8, <2>1, SignalSent, InvTypes
<1>10. QED
    BY <1>1, <1>6, <1>9, ListsStill

(* A wait ends: the signal was meant for it. *)
LEMMA TakeSignalStep ==
    ASSUME Inv, NEW L \in Lists, ListsOK(L), NEW t \in Threads, UNCHANGED ops,
           pc[t] \in {"cv_wait", "consume"}, TakeSignal(t)
    PROVE  /\ Inv' /\ \E M \in Lists : ListsOK(M)'
           /\ Waiting(t) /\ ~Listed(L, t)
<1>1. /\ signal_pending[t] /\ pc' = [pc EXCEPT ![t] = "reacquire"]
      /\ signal_pending' = [signal_pending EXCEPT ![t] = FALSE]
      /\ res' = [res EXCEPT ![t] = "0"]
      /\ timed' = [timed EXCEPT ![t] = FALSE]
      /\ UNCHANGED <<list, mutex, cur, target, back>>
    BY DEF TakeSignal, Goto
<1>2. Others(t) /\ pc'[t] = "reacquire" /\ timed'[t] = FALSE
    BY <1>1, InvTypes DEF Others
<1>3. Waiting(t) /\ ~Waiting(t)' /\ ~Sending(t) /\ ~Sending(t)'
    BY <1>2 DEF Waiting, Sending
<1>4. \A w \in Threads : SignalOK(L, w)
    BY DEF ListsOK
<1>5. ~Listed(L, t)
    BY <1>1, <1>4 DEF SignalOK, Needs
<1>6. MutexInv'
    <2>1. Inside(t)' <=> Inside(t)
        BY <1>2 DEF Inside, Notifying
    <2>2. QED
        BY <1>1, <1>2, <2>1, InvTypes, MutexStill
<1>7. TypeOK'
    <2>1. pc' \in [Threads -> Places]
        BY <1>1, InvTypes DEF Places
    <2>2. QED
        BY <1>1, <2>1, InvTypes DEF TypeOK, list, mutex
<1>8. LocalOK(t)'
    BY <1>1, <1>2, InvTypes DEF LocalOK, Notifying
<1>9. Inv'
    BY <1>2, <1>6, <1>7, <1>8, InvStep
<1>10. ~Needs(L, t)' /\ \A w \in Threads : w # t => (Needs(L, w)' <=> Needs(L, w))
    <2>1. ~Needs(L, t)'
        BY <1>2, <1>3 DEF Needs
    <2>2. owner' = owner
        BY <1>1 DEF mutex
    <2>3. \A w \in Threads : w # t => pc'[w] = pc[w]
        BY <1>2 DEF Others
    <2>4. QED
        BY <1>2, <2>1, <2>2, <2>3, OthersWait
<1>11. \A w \in Threads : SignalOK(L, w)'
    <2>1. \A w \in Threads : Listed(L, w) => Waiting(w)'
        BY <1>2, <1>4, <1>5, OthersWait DEF SignalOK
    <2>2. QED
        BY <1>1, <1>2, <1>3, <1>4, <1>10, <2>1, SignalTaken, InvTypes
<1>12. QED
    BY <1>1, <1>3, <1>5, <1>9, <1>11, ListsStill

(* A step of thread t alone that changes no list, no signal and no owner.  *)
LEMMA QuietStep ==
    ASSUME Inv, NEW L \in Lists, ListsOK(L), NEW t \in Threads, UNCHANGED ops, Others(t),
           UNCHANGED <<list, cur, signal_pending, mutex, target, timed, res>>,
           NEW l \in Places, pc' = [pc EXCEPT ![t] = l],
           NEW b \in {"in", "out", "cv_wait"}, back' = [back EXCEPT ![t] = b],
           LocalOK(t)', Inside(t)' <=> Inside(t), Waiting(t)' <=> Waiting(t),
           pc[t] # "lock_wait", l # "lock_wait", ~Sending(t), ~Sending(t)'
    PROVE  Inv' /\ \E M \in Lists : ListsOK(M)'
<1>1. pc'[t] = l
    BY InvTypes
<1>2. MutexInv'
    BY <1>1, InvTypes, MutexStill
<1>3. TypeOK'
    <2>1. pc' \in [Threads -> Places] /\ back' \in [Threads -> {"in", "out", "cv_wait"}]
        BY InvTypes
    <2>2. QED
        BY <2>1, InvTypes DEF TypeOK, list, mutex
<1>4. Inv'
    BY <1>2, <1>3, InvStep
<1>5. \A w \in Threads : (Needs(L, w)' <=> Needs(L, w)) /\ (Waiting(w)' <=> Waiting(w))
    <2>1. owner' = owner
        BY DEF mutex
    <2>2. Needs(L, t)' <=> Needs(L, t)
        BY <1>1 DEF Needs
    <2>3. \A w \in Threads : w # t => pc'[w] = pc[w]
        BY DEF Others
    <2>4. QED
        BY <2>1, <2>2, <2>3, OthersWait
<1>6. \A w \in Threads : SignalOK(L, w)'
    <2>1. \A w \in Threads : SignalOK(L, w) /\ (Listed(L, w) => Waiting(w)')
        BY <1>5 DEF ListsOK, SignalOK
    <2>2. QED
        BY <1>5, <2>1, SignalsStill
<1>7. QED
    BY <1>4, <1>6, ListsStill

-------------------------------------------------------------------------------
(* The steps: the lists. *)

(* The types of the lists' variables. *)
LEMMA HeadsType ==
    ASSUME TypeOK
    PROVE  /\ Heads \in [Ids -> Ids] /\ Heads[NULL] = waitq /\ waitq \in Ids
           /\ \A a \in Threads : Heads[a] = cur[a]
           /\ next \in [Threads -> Ids] /\ prev \in [Threads -> Ids]
BY ThreadsAssumption DEF TypeOK, Heads, Ids

(* Lists that are linked: what WaitList finds. *)
LEMMA QueueFound ==
    ASSUME NEW L \in Lists, NEW h, NEW n, NEW p, Linked(L, h, n, p)
    PROVE  /\ ListFrom(h[NULL], n) = L[NULL] /\ L[NULL] \in Seq(Threads)
           /\ \A i, j \in 1..Len(L[NULL]) : L[NULL][i] = L[NULL][j] => i = j
<1>1. NULL \in Ids
    BY DEF Ids
<1>2. PICK q \in Seq(Threads) : q = L[NULL]
    BY <1>1 DEF Lists
<1>3. /\ h[NULL] = IF q = <<>> THEN NULL ELSE q[1]
      /\ \A i \in 1..Len(q) : n[q[i]] = IF i = Len(q) THEN NULL ELSE q[i + 1]
      /\ \A i, j \in 1..Len(q) : q[i] = q[j] => i = j
    <2>1. \A i \in 1..Len(q) : n[q[i]] = IF i = Len(q) THEN NULL ELSE q[i + 1]
        BY <1>1, <1>2 DEF Linked
    <2>2. \A i, j \in 1..Len(q) : q[i] = q[j] => i = j
        BY <1>1, <1>2 DEF Linked
    <2>3. h[NULL] = IF q = <<>> THEN NULL ELSE q[1]
        BY <1>1, <1>2 DEF Linked
    <2>4. QED
        BY <2>1, <2>2, <2>3
<1>4. ListFrom(h[NULL], n) = q
    BY <1>3, Found
<1>5. QED
    BY <1>2, <1>3, <1>4

(* The queue before a step. *)
LEMMA QueueIs ==
    ASSUME TypeOK, NEW L \in Lists, ListsOK(L)
    PROVE  WaitList = L[NULL] /\ L[NULL] \in Seq(Threads)
BY QueueFound, HeadsType DEF ListsOK, WaitList

(* The queue after a step. *)
LEMMA QueueBecomes ==
    ASSUME NEW M \in Lists, Linked(M, Heads', next', prev')
    PROVE  WaitList' = M[NULL]
<1>1. Heads'[NULL] = waitq'
    BY DEF Heads, Ids
<1>2. QED
    BY <1>1, QueueFound DEF WaitList

(* The caller of wait is linked behind the last waiter. *)
LEMMA EnqueueLists ==
    ASSUME Inv, NEW L \in Lists, ListsOK(L), NEW t \in Threads, ~Waiting(t),
           Enqueue(t), UNCHANGED cur
    PROVE  /\ Behind(L, t) \in Lists /\ Linked(Behind(L, t), Heads', next', prev')
           /\ \A w \in Threads : Listed(Behind(L, t), w) <=> Listed(L, w) \/ w = t
           /\ waitq' \in Ids /\ next' \in [Threads -> Ids] /\ prev' \in [Threads -> Ids]
           /\ ~Listed(L, t)
<1>1. PICK q : q = L[NULL]
    OBVIOUS
<1>2. WaitList = q /\ q \in Seq(Threads)
    BY <1>1, QueueIs, InvTypes
<1>3. Linked(L, Heads, next, prev) /\ ~Listed(L, t)
    BY DEF ListsOK, SignalOK
<1>4. waitq = NULL <=> q = <<>>
    <2>1. waitq = IF q = <<>> THEN NULL ELSE q[1]
        BY <1>1, <1>3, HeadsType, InvTypes DEF Linked
    <2>2. q # <<>> => q[1] \in Threads
        BY <1>2
    <2>3. QED
        BY <2>1, <2>2, InvTypes
<1>5. q # <<>> => q[Len(q)] \in Threads
    BY <1>2
<1>6. CASE q = <<>>
    <2>1. waitq' = t /\ prev' = [prev EXCEPT ![t] = NULL] /\ next' = next
        BY <1>4, <1>6 DEF Enqueue
    <2>2. Heads' = [Heads EXCEPT ![NULL] = t]
        BY <2>1, InvTypes DEF Heads, Ids
    <2>3. /\ Behind(L, t) \in Lists /\ Linked(Behind(L, t), Heads', next', prev')
          /\ \A w \in Threads : Listed(Behind(L, t), w) <=> Listed(L, w) \/ w = t
        <3>1. /\ Heads \in [Ids -> Ids] /\ next \in [Threads -> Ids]
              /\ prev \in [Threads -> Ids]
            BY HeadsType, InvTypes
        <3>2. LinksBehind(L, t, Heads, next, prev, Heads', next', prev')
            BY <1>1, <1>6, <2>1, <2>2 DEF LinksBehind
        <3>3. QED
            BY <1>3, <3>1, <3>2, Enqueued
    <2>4. QED
        BY <1>3, <2>1, <2>3, HeadsType, InvTypes
<1>7. CASE q # <<>>
    <2>1. PICK l \in Threads : l = q[Len(q)]
        BY <1>5, <1>7
    <2>2. waitq' = waitq /\ prev' = [prev EXCEPT ![t] = l] /\ next' = [next EXCEPT ![l] = t]
        BY <1>2, <1>4, <1>7, <2>1 DEF Enqueue, Last
    <2>3. Heads' = Heads
        BY <2>2 DEF Heads
    <2>4. /\ Behind(L, t) \in Lists /\ Linked(Behind(L, t), Heads', next', prev')
          /\ \A w \in Threads : Listed(Behind(L, t), w) <=> Listed(L, w) \/ w = t
        <3>1. /\ Heads \in [Ids -> Ids] /\ next \in [Threads -> Ids]
              /\ prev \in [Threads -> Ids]
            BY HeadsType, InvTypes
        <3>2. LinksBehind(L, t, Heads, next, prev, Heads', next', prev')
            BY <1>1, <1>7, <2>1, <2>2, <2>3 DEF LinksBehind
        <3>3. QED
            BY <1>3, <3>1, <3>2, Enqueued
    <2>5. QED
        BY <1>3, <2>2, <2>4, HeadsType, InvTypes
<1>8. QED
    BY <1>6, <1>7

(* A wait begins. *)
LEMMA WaitStep ==
    ASSUME Inv, NEW L \in Lists, ListsOK(L), NEW t \in Threads, UNCHANGED ops, Wait(t)
    PROVE  Inv' /\ \E M \in Lists : ListsOK(M)'
<1>1. PICK op \in ops[t] \cap {"wait", "timedwait"} :
         timed' = [timed EXCEPT ![t] = (op = "timedwait")]
    BY DEF Wait
<1>2. /\ pc[t] = "in" /\ Enqueue(t) /\ res' = [res EXCEPT ![t] = "0"]
      /\ pc' = [pc EXCEPT ![t] = "drop"]
      /\ UNCHANGED <<signal_pending, mutex, cur, target, back>>
    BY DEF Wait, Goto
<1>3. Others(t) /\ pc'[t] = "drop" /\ (timed'[t] => op = "timedwait")
    BY <1>1, <1>2, InvTypes DEF Others
<1>4. ~Waiting(t) /\ Waiting(t)' /\ ~Sending(t) /\ ~Sending(t)'
    BY <1>2, <1>3 DEF Waiting, Sending
<1>5. PICK M : M = Behind(L, t)
    OBVIOUS
<1>6. /\ M \in Lists /\ Linked(M, Heads', next', prev')
      /\ \A w \in Threads : Listed(M, w) <=> Listed(L, w) \/ w = t
      /\ waitq' \in Ids /\ next' \in [Threads -> Ids] /\ prev' \in [Threads -> Ids]
      /\ ~Listed(L, t)
    <2>1. UNCHANGED cur
        BY <1>2
    <2>2. QED
        BY <1>2, <1>4, <1>5, <2>1, EnqueueLists
<1>7. MutexInv'
    <2>1. Inside(t)' <=> Inside(t)
        BY <1>2, <1>3 DEF Inside
    <2>2. QED
        BY <1>2, <1>3, <2>1, InvTypes, MutexStill
<1>8. TypeOK'
    <2>1. pc' \in [Threads -> Places] /\ timed' \in [Threads -> BOOLEAN]
        BY <1>1, <1>2, InvTypes DEF Places
    <2>2. QED
        BY <1>2, <1>6, <2>1, InvTypes DEF TypeOK, mutex
<1>9. LocalOK(t)'
    BY <1>1, <1>2, <1>3, InvTypes DEF LocalOK, Notifying
<1>10. Inv'
    BY <1>3, <1>7, <1>8, <1>9, InvStep
<1>11. \A w \in Threads : Needs(M, w)' <=> Needs(L, w)
    <2>1. owner' = owner
        BY <1>2 DEF mutex
    <2>2. ~Needs(M, t)' /\ ~Needs(L, t)
        BY <1>2, <1>3, <1>4, <1>6 DEF Needs
    <2>3. \A w \in Threads : w # t => pc'[w] = pc[w]
        BY <1>3 DEF Others
    <2>4. QED
        BY <1>3, <1>6, <2>1, <2>2, <2>3, OthersWait
<1>12. \A w \in Threads : SignalOK(M, w)'
    <2>1. \A w \in Threads : SignalOK(L, w)
        BY DEF ListsOK
    <2>2. \A w \in Threads : Listed(M, w) => Waiting(w)'
        BY <1>3, <1>4, <1>6, <2>1, OthersWait DEF SignalOK
    <2>3. QED
        BY <1>2, <1>3, <1>4, <1>11, <2>1, <2>2, SignalsStill
<1>13. QED
    BY <1>6, <1>10, <1>12 DEF ListsOK

(* A waiter is taken off the queue. *)
LEMMA DequeueLists ==
    ASSUME Inv, NEW L \in Lists, ListsOK(L), NEW k \in 1..Len(L[NULL]), NEW c, c = L[NULL][k],
           Dequeue(c), UNCHANGED cur
    PROVE  /\ Without(L, k) \in Lists /\ Linked(Without(L, k), Heads', next', prev')
           /\ \A w \in Threads : Listed(Without(L, k), w) <=> Listed(L, w) /\ w # c
           /\ waitq' \in Ids /\ next' \in [Threads -> Ids] /\ prev' \in [Threads -> Ids]
           /\ c \in Threads /\ Listed(L, c)
<1>1. Linked(L, Heads, next, prev)
    BY DEF ListsOK
<1>2. c \in Threads
    BY DEF Lists, Ids
<1>3. /\ waitq' = IF waitq = c THEN next[c] ELSE waitq
      /\ next' = Unlinked(next, prev, c) /\ prev' = Unlinked(prev, next, c)
    BY DEF Dequeue
<1>4. /\ Heads \in [Ids -> Ids] /\ Heads[NULL] = waitq /\ waitq \in Ids
      /\ next \in [Threads -> Ids] /\ prev \in [Threads -> Ids]
    BY HeadsType, InvTypes
<1>5. waitq' \in Ids /\ next' \in [Threads -> Ids] /\ prev' \in [Threads -> Ids]
    BY <1>2, <1>3, <1>4, InvTypes DEF Unlinked
<1>6. Unlinks(L, k, c, Heads, next, prev, Heads', next', prev')
    <2>1. Heads' = [Heads EXCEPT ![NULL] = IF Heads[NULL] = c THEN next[c] ELSE Heads[NULL]]
        BY <1>3, <1>4, InvTypes DEF Heads, Ids
    <2>2. QED
        BY <1>3, <2>1 DEF Unlinks
<1>7. /\ Without(L, k) \in Lists /\ Linked(Without(L, k), Heads', next', prev')
      /\ \A w \in Threads : Listed(Without(L, k), w) <=> Listed(L, w) /\ w # c
      /\ Listed(L, c)
    BY <1>1, <1>4, <1>6, Dequeued
<1>8. QED
    BY <1>2, <1>5, <1>7

(* A timed-out waiter that finds itself linked is on the queue. *)
LEMMA StillQueued ==
    ASSUME Inv, NEW L \in Lists, ListsOK(L), NEW t \in Threads, pc[t] = "expired", ~OffList(t)
    PROVE  \E k \in 1..Len(L[NULL]) : t = L[NULL][k]
<1>1. Linked(L, Heads, next, prev)
    BY DEF ListsOK
<1>2. timed[t] /\ "timedwait" \in ops[t]
    BY InvTypes DEF LocalOK
<1>3. \A a \in Threads : cur[a] = NULL
    BY <1>2, InvTypes DEF LocalOK, Inv, Separated
<1>4. \A a \in Threads : L[a] = <<>>
    <2> SUFFICES ASSUME NEW a \in Threads, L[a] # <<>>
                 PROVE  FALSE
        OBVIOUS
    <2>1. a \in Ids /\ L[a] \in Seq(Threads)
        BY InvTypes DEF Lists
    <2>2. L[a][1] \in Threads
        BY <2>1
    <2>3. Heads[a] = L[a][1] /\ Heads[a] = cur[a]
        BY <1>1, <2>1, HeadsType, InvTypes DEF Linked
    <2>4. QED
        BY <1>3, <2>2, <2>3, InvTypes
<1>5. \A a \in Threads : \A i \in 1..Len(L[a]) : FALSE
    BY <1>4
<1>6. CASE Listed(L, t)
    BY <1>5, <1>6 DEF Listed, Ids
<1>7. CASE ~Listed(L, t)
    <2>1. prev[t] = NULL /\ t = waitq
        BY <1>1, <1>7 DEF Linked, OffList
    <2>2. L[NULL] \in Seq(Threads) /\ waitq = IF L[NULL] = <<>> THEN NULL ELSE L[NULL][1]
        BY <1>1, HeadsType, InvTypes DEF Linked, Lists
    <2>3. L[NULL] # <<>> /\ t = L[NULL][1]
        BY <2>1, <2>2, InvTypes
    <2>4. 1 \in 1..Len(L[NULL])
        BY <2>2, <2>3
    <2>5. QED
        BY <2>3, <2>4
<1>8. QED
    BY <1>6, <1>7

(* The timeout under waitq_lock. *)
LEMMA ExpiredStep ==
    ASSUME Inv, NEW L \in Lists, ListsOK(L), NEW t \in Threads, UNCHANGED ops, Expired(t)
    PROVE  Inv' /\ \E M \in Lists : ListsOK(M)'
<1>1. /\ pc[t] = "expired" /\ UNCHANGED <<signal_pending, mutex, cur, target, back>>
      /\ t \in Threads
    BY DEF Expired
<1>2. CASE OffList(t) /\ Goto(t, "consume") /\ UNCHANGED <<list, res, timed>>
    <2>1. pc' = [pc EXCEPT ![t] = "consume"] /\ pc'[t] = "consume" /\ Others(t)
        BY <1>1, <1>2, InvTypes DEF Goto, Others
    <2>2. back' = [back EXCEPT ![t] = back[t]] /\ back[t] \in {"in", "out", "cv_wait"}
        BY <1>1, InvTypes
    <2>3. LocalOK(t)'
        BY <1>1, <1>2, <2>1, InvTypes DEF LocalOK, Notifying
    <2>4. (Inside(t)' <=> Inside(t)) /\ (Waiting(t)' <=> Waiting(t))
        BY <1>1, <2>1 DEF Inside, Notifying, Waiting
    <2>5. ~Sending(t) /\ ~Sending(t)' /\ "consume" \in Places
        BY <1>1, <2>1 DEF Sending, Places
    <2>6. UNCHANGED <<list, cur, signal_pending, mutex, target, timed, res>>
        BY <1>1, <1>2
    <2>7. QED
        BY <1>1, <2>1, <2>2, <2>3, <2>4, <2>5, <2>6, QuietStep
<1>3. CASE /\ ~OffList(t) /\ Dequeue(t) /\ res' = [res EXCEPT ![t] = "ETIMEDOUT"]
           /\ timed' = [timed EXCEPT ![t] = FALSE] /\ Goto(t, "reacquire")
    <2>1. /\ pc' = [pc EXCEPT ![t] = "reacquire"] /\ pc'[t] = "reacquire" /\ Others(t)
          /\ timed'[t] = FALSE
        BY <1>1, <1>3, InvTypes DEF Goto, Others
    <2>2. PICK k \in 1..Len(L[NULL]) : t = L[NULL][k]
        BY <1>1, <1>3, StillQueued
    <2>3. PICK M : M = Without(L, k)
        OBVIOUS
    <2>4. /\ M \in Lists /\ Linked(M, Heads', next', prev')
          /\ \A w \in Threads : Listed(M, w) <=> Listed(L, w) /\ w # t
          /\ waitq' \in Ids /\ next' \in [Threads -> Ids] /\ prev' \in [Threads -> Ids]
          /\ Listed(L, t)
        <3>1. UNCHANGED cur
            BY <1>1
        <3>2. QED
            BY <1>3, <2>2, <2>3, <3>1, DequeueLists
    <2>5. MutexInv'
        <3>1. Inside(t)' <=> Inside(t)
            BY <1>1, <2>1 DEF Inside, Notifying
        <3>2. QED
            BY <1>1, <2>1, <3>1, InvTypes, MutexStill
    <2>6. TypeOK'
        <3>1. pc' \in [Threads -> Places] /\ timed' \in [Threads -> BOOLEAN]
            BY <1>3, <2>1, InvTypes DEF Places
        <3>2. QED
            BY <1>1, <1>3, <2>4, <3>1, InvTypes DEF TypeOK, mutex
    <2>7. LocalOK(t)'
        BY <1>1, <2>1, InvTypes DEF LocalOK, Notifying
    <2>8. Inv'
        BY <2>1, <2>5, <2>6, <2>7, InvStep
    <2>9. ~Waiting(t)' /\ ~Sending(t) /\ ~Sending(t)'
        BY <1>1, <2>1 DEF Waiting, Sending
    <2>10. \A w \in Threads : Needs(M, w)' <=> Needs(L, w)
        <3>1. owner' = owner
            BY <1>1 DEF mutex
        <3>2. ~Needs(M, t)' /\ ~Needs(L, t)
            BY <1>1, <2>1, <2>4, <2>9 DEF Needs
        <3>3. \A w \in Threads : w # t => pc'[w] = pc[w]
            BY <2>1 DEF Others
        <3>4. QED
            BY <2>1, <2>4, <3>1, <3>2, <3>3, OthersWait
    <2>11. \A w \in Threads : SignalOK(M, w)'
        <3>1. \A w \in Threads : SignalOK(L, w)
            BY DEF ListsOK
        <3>2. \A w \in Threads : Listed(M, w) => Waiting(w)'
            BY <2>1, <2>4, <3>1, OthersWait DEF SignalOK
        <3>3. QED
            BY <1>1, <2>1, <2>9, <2>10, <3>1, <3>2, SignalsStill
    <2>12. QED
        BY <2>4, <2>8, <2>11 DEF ListsOK
<1>4. QED
    BY <1>2, <1>3 DEF Expired

(* The cursor of a broadcast, or of nobody, and the queue's head. *)
LEMMA HeadIs ==
    ASSUME Inv, NEW L \in Lists, ListsOK(L), NEW a \in Ids
    PROVE  /\ L[a] \in Seq(Threads)
           /\ Heads[a] = NULL <=> L[a] = <<>>
           /\ L[a] # <<>> => Heads[a] = L[a][1] /\ L[a][1] \in Threads /\ 1 \in 1..Len(L[a])
<1>1. L[a] \in Seq(Threads)
    BY DEF Lists
<1>2. Heads[a] = IF L[a] = <<>> THEN NULL ELSE L[a][1]
    BY DEF ListsOK, Linked
<1>3. L[a] # <<>> => L[a][1] \in Threads /\ 1 \in 1..Len(L[a])
    BY <1>1
<1>4. QED
    BY <1>1, <1>2, <1>3, InvTypes

(* The end of lw_condvar_signal or of lw_condvar_broadcast. *)
LEMMA ReturnStep ==
    ASSUME Inv, NEW L \in Lists, ListsOK(L), NEW t \in Threads, UNCHANGED ops,
           pc[t] \in {"signal", "wake_all"}, cur[t] = NULL, Return(t),
           UNCHANGED <<list, cur, signal_pending, mutex, target, timed, res>>
    PROVE  Inv' /\ \E M \in Lists : ListsOK(M)'
<1>1. pc' = [pc EXCEPT ![t] = back[t]] /\ back' = [back EXCEPT ![t] = "out"]
    BY DEF Return, Goto
<1>2. back[t] \in {"in", "out"} /\ pc'[t] = back[t] /\ back'[t] = "out" /\ Others(t)
    BY <1>1, InvTypes DEF Others, LocalOK, Notifying
<1>3. LocalOK(t)'
    BY <1>2, InvTypes DEF LocalOK, Notifying
<1>4. (Inside(t)' <=> Inside(t)) /\ (Waiting(t)' <=> Waiting(t))
    BY <1>2 DEF Inside, Notifying, Waiting
<1>5. ~Sending(t) /\ ~Sending(t)' /\ back[t] \in Places
    BY <1>2 DEF Sending, Places
<1>6. QED
    BY <1>1, <1>2, <1>3, <1>4, <1>5, QuietStep

(* lw_condvar_signal under waitq_lock. *)
LEMMA SignalPopStep ==
    ASSUME Inv, NEW L \in Lists, ListsOK(L), NEW t \in Threads, UNCHANGED ops, SignalPop(t)
    PROVE  Inv' /\ \E M \in Lists : ListsOK(M)'
<1>1. pc[t] = "signal" /\ UNCHANGED <<signal_pending, mutex, timed, res, cur>> /\ cur[t] = NULL
    BY InvTypes DEF SignalPop, LocalOK
<1>2. CASE waitq = NULL
    <2>1. Return(t) /\ UNCHANGED <<list, target>>
        BY <1>2 DEF SignalPop
    <2>2. QED
        BY <1>1, <2>1, ReturnStep
<1>3. CASE waitq # NULL
    <2>1. PICK v : v = waitq
        OBVIOUS
    <2>2. /\ Dequeue(v) /\ target' = [target EXCEPT ![t] = v]
          /\ pc' = [pc EXCEPT ![t] = "wake"] /\ back' = back
        BY <1>3, <2>1 DEF SignalPop, Goto
    <2>3. v = L[NULL][1] /\ v \in Threads /\ 1 \in 1..Len(L[NULL])
        BY <1>3, <2>1, HeadIs, HeadsType, InvTypes
    <2>4. /\ Others(t) /\ pc'[t] = "wake" /\ target'[t] = v /\ back'[t] = back[t]
          /\ back[t] \in {"in", "out"}
        BY <1>1, <2>2, InvTypes DEF Others, LocalOK, Notifying
    <2>5. PICK M : M = Without(L, 1)
        OBVIOUS
    <2>6. /\ M \in Lists /\ Linked(M, Heads', next', prev')
          /\ \A w \in Threads : Listed(M, w) <=> Listed(L, w) /\ w # v
          /\ waitq' \in Ids /\ next' \in [Threads -> Ids] /\ prev' \in [Threads -> Ids]
          /\ Listed(L, v)
        <3>1. UNCHANGED cur
            BY <1>1
        <3>2. QED
            BY <2>2, <2>3, <2>5, <3>1, DequeueLists
    <2>7. MutexInv'
        <3>1. Inside(t)' <=> Inside(t)
            BY <1>1, <2>4 DEF Inside, Notifying
        <3>2. QED
            BY <1>1, <2>4, <3>1, InvTypes, MutexStill
    <2>8. TypeOK'
        <3>1. pc' \in [Threads -> Places] /\ target' \in [Threads -> Ids]
            BY <2>2, <2>3, InvTypes DEF Places
        <3>2. QED
            BY <1>1, <2>2, <2>6, <3>1, InvTypes DEF TypeOK, mutex
    <2>9. LocalOK(t)'
        BY <1>1, <2>3, <2>4, InvTypes DEF LocalOK, Notifying
    <2>10. Inv'
        BY <2>4, <2>7, <2>8, <2>9, InvStep
    <2>11. \A w \in Threads : SignalOK(L, w)
        BY DEF ListsOK
    <2>12. ~Waiting(t) /\ ~Waiting(t)' /\ ~Sending(t) /\ Sending(t)' /\ Waiting(v) /\ v # t
        BY <1>1, <2>3, <2>4, <2>6, <2>11 DEF Waiting, Sending, SignalOK
    <2>13. \A w \in Threads : Waiting(w)' <=> Waiting(w)
        BY <2>4, <2>12, OthersWait
    <2>14. /\ ~Needs(L, v) /\ Needs(M, v)'
           /\ \A w \in Threads : w # v => (Needs(M, w)' <=> Needs(L, w))
        <3>1. owner' = owner
            BY <1>1 DEF mutex
        <3>2. ~Needs(L, v)
            BY <2>6, <2>12 DEF Needs, Waiting
        <3>3. \A w \in Threads : pc'[w] = "lock_wait" <=> pc[w] = "lock_wait"
            BY <1>1, <2>4 DEF Others
        <3>4. QED
            BY <2>3, <2>6, <2>12, <2>13, <3>1, <3>2, <3>3 DEF Needs
    <2>15. \A w \in Threads : SignalOK(M, w)'
        <3>1. \A w \in Threads : Listed(M, w) => Waiting(w)'
            BY <2>6, <2>11, <2>13 DEF SignalOK
        <3>2. QED
            BY <1>1, <2>3, <2>4, <2>11, <2>12, <2>14, <3>1, SignalDue
    <2>16. QED
        BY <2>6, <2>10, <2>15 DEF ListsOK
<1>4. QED
    BY <1>2, <1>3

(* What becomes of the lists when broadcast detaches the queue. *)
LEMMA DetachLists ==
    ASSUME Inv, NEW L \in Lists, ListsOK(L), NEW t \in Threads, BroadcastDetach(t)
    PROVE  /\ Handed(L, t) \in Lists /\ Linked(Handed(L, t), Heads', next', prev')
           /\ \A w \in Threads : Listed(Handed(L, t), w) <=> Listed(L, w)
<1>1. /\ pc[t] = "broadcast" /\ cur' = [cur EXCEPT ![t] = waitq] /\ waitq' = NULL
      /\ next' = next /\ prev' = prev
    BY DEF BroadcastDetach
<1>2. cur[t] = NULL
    BY <1>1, InvTypes DEF LocalOK
<1>3. L[t] = <<>>
    BY <1>2, HeadIs, HeadsType, InvTypes
<1>4. Heads' = [Heads EXCEPT ![t] = Heads[NULL], ![NULL] = NULL]
    BY <1>1, InvTypes DEF Heads, Ids
<1>5. /\ Heads \in [Ids -> Ids] /\ next \in [Threads -> Ids] /\ prev \in [Threads -> Ids]
      /\ Linked(L, Heads, next, prev)
    BY HeadsType, InvTypes DEF ListsOK
<1>6. HandsOver(L, t, Heads, Heads')
    BY <1>3, <1>4 DEF HandsOver
<1>7. QED
    BY <1>1, <1>5, <1>6, Detached

(* lw_condvar_broadcast under waitq_lock. *)
LEMMA BroadcastDetachStep ==
    ASSUME Inv, NEW L \in Lists, ListsOK(L), NEW t \in Threads, UNCHANGED ops, BroadcastDetach(t)
    PROVE  Inv' /\ \E M \in Lists : ListsOK(M)'
<1>1. /\ pc[t] = "broadcast" /\ cur' = [cur EXCEPT ![t] = waitq] /\ waitq' = NULL
      /\ pc' = [pc EXCEPT ![t] = "wake_all"]
      /\ UNCHANGED <<next, prev, signal_pending, mutex, timed, res, target, back>>
    BY DEF BroadcastDetach, Goto
<1>2. Others(t) /\ pc'[t] = "wake_all"
    BY <1>1, InvTypes DEF Others
<1>3. PICK M : M = Handed(L, t)
    OBVIOUS
<1>4. /\ M \in Lists /\ Linked(M, Heads', next', prev')
      /\ \A w \in Threads : Listed(M, w) <=> Listed(L, w)
    BY <1>3, DetachLists
<1>5. MutexInv'
    <2>1. Inside(t)' <=> Inside(t)
        BY <1>1, <1>2 DEF Inside, Notifying
    <2>2. QED
        BY <1>1, <1>2, <2>1, InvTypes, MutexStill
<1>6. TypeOK'
    <2>1. pc' \in [Threads -> Places] /\ cur' \in [Threads -> Ids]
        BY <1>1, InvTypes, HeadsType DEF Places
    <2>2. QED
        BY <1>1, <2>1, InvTypes DEF TypeOK, mutex
<1>7. LocalOK(t)'
    BY <1>1, <1>2, InvTypes DEF LocalOK, Notifying
<1>8. Inv'
    BY <1>2, <1>5, <1>6, <1>7, InvStep
<1>9. ~Waiting(t)' /\ ~Waiting(t) /\ ~Sending(t) /\ ~Sending(t)'
    BY <1>1, <1>2 DEF Waiting, Sending
<1>10. \A w \in Threads : (Needs(M, w)' <=> Needs(L, w)) /\ (Waiting(w)' <=> Waiting(w))
    <2>1. owner' = owner
        BY <1>1 DEF mutex
    <2>2. Needs(M, t)' <=> Needs(L, t)
        BY <1>1, <1>2, <1>9 DEF Needs
    <2>3. \A w \in Threads : w # t => pc'[w] = pc[w]
        BY <1>2 DEF Others
    <2>4. QED
        BY <1>2, <1>4, <1>9, <2>1, <2>2, <2>3, OthersWait
<1>11. \A w \in Threads : SignalOK(M, w)'
    <2>1. \A w \in Threads : SignalOK(L, w) /\ (Listed(M, w) => Waiting(w)')
        BY <1>4, <1>10 DEF ListsOK, SignalOK
    <2>2. QED
        BY <1>1, <1>2, <1>9, <1>10, <2>1, SignalsStill
<1>12. QED
    BY <1>4, <1>8, <1>11 DEF ListsOK

(* What becomes of the lists when broadcast takes the next waiter. *)
LEMMA WakeAllLists ==
    ASSUME Inv, NEW L \in Lists, ListsOK(L), NEW t \in Threads, WakeAll(t), NEW c, c = cur[t],
           c # NULL
    PROVE  /\ Shortened(L, t) \in Lists /\ Linked(Shortened(L, t), Heads', next', prev')
           /\ \A w \in Threads : Listed(Shortened(L, t), w) <=> Listed(L, w) /\ w # c
           /\ c \in Threads /\ Listed(L, c)
<1>1. /\ cur' = [cur EXCEPT ![t] = next[c]] /\ next' = [next EXCEPT ![c] = NULL]
      /\ prev' = [prev EXCEPT ![c] = NULL] /\ waitq' = waitq
    BY DEF WakeAll
<1>2. L[t] # <<>> /\ c = L[t][1]
    BY HeadIs, HeadsType, InvTypes
<1>3. Advances(L, t, c, Heads, next, prev, Heads', next', prev')
    <2>1. Heads' = [Heads EXCEPT ![t] = next[c]]
        BY <1>1, InvTypes DEF Heads, Ids
    <2>2. QED
        BY <1>1, <1>2, <2>1 DEF Advances
<1>4. /\ Heads \in [Ids -> Ids] /\ next \in [Threads -> Ids] /\ prev \in [Threads -> Ids]
      /\ Linked(L, Heads, next, prev)
    BY HeadsType, InvTypes DEF ListsOK
<1>5. QED
    BY <1>3, <1>4, Popped

(* lw_waiter_wake_all takes the next waiter, or ends. *)
LEMMA WakeAllStep ==
    ASSUME Inv, NEW L \in Lists, ListsOK(L), NEW t \in Threads, UNCHANGED ops, WakeAll(t)
    PROVE  Inv' /\ \E M \in Lists : ListsOK(M)'
<1>1. pc[t] = "wake_all" /\ UNCHANGED <<waitq, signal_pending, mutex, timed, res>>
    BY DEF WakeAll
<1>2. CASE cur[t] = NULL
    <2>1. Return(t) /\ UNCHANGED <<next, prev, cur, target>>
        BY <1>2 DEF WakeAll
    <2>2. UNCHANGED list
        BY <1>1, <2>1 DEF list
    <2>3. QED
        BY <1>1, <1>2, <2>1, <2>2, ReturnStep
<1>3. CASE cur[t] # NULL
    <2>1. PICK v : v = cur[t]
        OBVIOUS
    <2>2. /\ cur' = [cur EXCEPT ![t] = next[v]] /\ next' = [next EXCEPT ![v] = NULL]
          /\ prev' = [prev EXCEPT ![v] = NULL] /\ target' = [target EXCEPT ![t] = v]
          /\ pc' = [pc EXCEPT ![t] = "wake_one"] /\ back' = back
        BY <1>3, <2>1 DEF WakeAll, Goto
    <2>3. PICK M : M = Shortened(L, t)
        OBVIOUS
    <2>4. /\ M \in Lists /\ Linked(M, Heads', next', prev')
          /\ \A w \in Threads : Listed(M, w) <=> Listed(L, w) /\ w # v
          /\ v \in Threads /\ Listed(L, v)
        BY <1>3, <2>1, <2>3, WakeAllLists
    <2>5. Others(t) /\ pc'[t] = "wake_one" /\ target'[t] = v /\ back'[t] = back[t]
        BY <1>1, <2>2, InvTypes DEF Others
    <2>6. MutexInv'
        <3>1. Inside(t)' <=> Inside(t)
            BY <1>1, <2>5 DEF Inside, Notifying
        <3>2. QED
            BY <1>1, <2>5, <3>1, InvTypes, MutexStill
    <2>7. TypeOK'
        <3>1. pc' \in [Threads -> Places] /\ target' \in [Threads -> Ids]
            BY <2>2, <2>4, InvTypes DEF Places
        <3>2. /\ cur' \in [Threads -> Ids] /\ next' \in [Threads -> Ids]
              /\ prev' \in [Threads -> Ids]
            BY <2>2, <2>4, HeadsType, InvTypes
        <3>3. QED
            BY <1>1, <2>2, <3>1, <3>2, InvTypes DEF TypeOK, mutex
    <2>8. LocalOK(t)'
        BY <1>1, <2>4, <2>5, InvTypes DEF LocalOK, Notifying
    <2>9. Inv'
        BY <2>5, <2>6, <2>7, <2>8, InvStep
    <2>10. \A w \in Threads : SignalOK(L, w)
        BY DEF ListsOK
    <2>11. ~Waiting(t) /\ ~Waiting(t)' /\ ~Sending(t) /\ Sending(t)' /\ Waiting(v) /\ v # t
        BY <1>1, <2>4, <2>5, <2>10 DEF Waiting, Sending, SignalOK
    <2>12. \A w \in Threads : Waiting(w)' <=> Waiting(w)
        BY <2>5, <2>11, OthersWait
    <2>13. /\ ~Needs(L, v) /\ Needs(M, v)'
           /\ \A w \in Threads : w # v => (Needs(M, w)' <=> Needs(L, w))
        <3>1. owner' = owner
            BY <1>1 DEF mutex
        <3>2. ~Needs(L, v)
            BY <2>4, <2>11 DEF Needs, Waiting
        <3>3. \A w \in Threads : pc'[w] = "lock_wait" <=> pc[w] = "lock_wait"
            BY <1>1, <2>5 DEF Others
        <3>4. QED
            BY <2>4, <2>11, <2>12, <3>1, <3>2, <3>3 DEF Needs
    <2>14. \A w \in Threads : SignalOK(M, w)'
        <3>1. \A w \in Threads : Listed(M, w) => Waiting(w)'
            BY <2>4, <2>10, <2>12 DEF SignalOK
        <3>2. QED
            BY <1>1, <2>4, <2>5, <2>10, <2>11, <2>13, <3>1, SignalDue
    <2>15. QED
        BY <2>4, <2>9, <2>14 DEF ListsOK
<1>4. QED
    BY <1>2, <1>3

(* The deadline passes. *)
LEMMA TimeoutStep ==
    ASSUME Inv, NEW L \in Lists, ListsOK(L), NEW t \in Threads, UNCHANGED ops, Timeout(t)
    PROVE  Inv' /\ \E M \in Lists : ListsOK(M)'
<1>1. /\ pc[t] = "cv_wait" /\ timed[t] /\ pc' = [pc EXCEPT ![t] = "expired"]
      /\ UNCHANGED <<list, signal_pending, mutex, timed, res, cur, target, back>>
    BY DEF Timeout, Goto, locals
<1>2. pc'[t] = "expired" /\ Others(t)
    BY <1>1, InvTypes DEF Others
<1>3. back' = [back EXCEPT ![t] = back[t]] /\ back[t] \in {"in", "out", "cv_wait"}
    BY <1>1, InvTypes
<1>4. LocalOK(t)'
    BY <1>1, <1>2, InvTypes DEF LocalOK, Notifying
<1>5. (Inside(t)' <=> Inside(t)) /\ (Waiting(t)' <=> Waiting(t))
    BY <1>1, <1>2 DEF Inside, Notifying, Waiting
<1>6. ~Sending(t) /\ ~Sending(t)' /\ "expired" \in Places
    BY <1>1, <1>2 DEF Sending, Places
<1>7. QED
    BY <1>1, <1>2, <1>3, <1>4, <1>5, <1>6, QuietStep

(* A notification begins with the unlocked look at the queue. *)
LEMMA NotifyStep ==
    ASSUME Inv, NEW L \in Lists, ListsOK(L), NEW t \in Threads, UNCHANGED ops,
           NEW op \in {"signal", "broadcast"}, Notify(t, op, op)
    PROVE  Inv' /\ \E M \in Lists : ListsOK(M)'
<1>1. /\ pc[t] \in {"in", "out"} /\ op \in ops[t] /\ back' = [back EXCEPT ![t] = pc[t]]
      /\ pc' = [pc EXCEPT ![t] = op]
      /\ UNCHANGED <<list, signal_pending, mutex, timed, res, cur, target>>
    BY DEF Notify, Goto
<1>2. pc'[t] = op /\ back'[t] = pc[t] /\ Others(t)
    BY <1>1, InvTypes DEF Others
<1>3. LocalOK(t)'
    BY <1>1, <1>2, InvTypes DEF LocalOK, Notifying
<1>4. (Inside(t)' <=> Inside(t)) /\ (Waiting(t)' <=> Waiting(t))
    BY <1>1, <1>2 DEF Inside, Notifying, Waiting
<1>5. ~Sending(t) /\ ~Sending(t)' /\ op \in Places
    BY <1>1, <1>2 DEF Sending, Places
<1>6. QED
    BY <1>1, <1>2, <1>3, <1>4, <1>5, QuietStep

-------------------------------------------------------------------------------
(* The invariant, and what follows from it. *)

(* Of a program that does not mix deadlines and broadcast. *)
LEMMA Initially ==
    ASSUME \A c \in Clients : Separated(c), Init
    PROVE  IInv
<1>1. ops \in Clients /\ Separated(ops)
    BY DEF Init
<1>2. TypeOK
    BY <1>1, ClientsAssumption DEF Init, TypeOK, Ids, Places
<1>3. \A t \in Threads : LocalOK(t)
    BY DEF Init, LocalOK, Notifying
<1>4. MutexInv
    BY ThreadsAssumption DEF Init, MutexInv, Inside, Queues, Notifying
<1>5. PICK L : L = [a \in Ids |-> <<>>]
    OBVIOUS
<1>6. L \in Lists /\ \A a \in Ids : L[a] = <<>> /\ Len(L[a]) = 0
    BY <1>5 DEF Lists
<1>7. \A w \in Threads : ~Listed(L, w)
    BY <1>6 DEF Listed
<1>8. Linked(L, Heads, next, prev)
    <2>1. \A a \in Ids : \A i \in 1..Len(L[a]) : FALSE
        BY <1>6
    <2>2. \A a \in Ids : Heads[a] = NULL
        BY DEF Heads, Init, Ids
    <2>3. QED
        BY <1>6, <1>7, <2>1, <2>2 DEF Linked, Init
<1>9. \A w \in Threads : SignalOK(L, w)
    BY <1>7 DEF SignalOK, Needs, Sends, Waiting, Init
<1>10. QED
    BY <1>1, <1>2, <1>3, <1>4, <1>6, <1>8, <1>9 DEF IInv, Inv, ListsOK

(* Every step of a thread. *)
LEMMA EveryStep ==
    ASSUME Inv, NEW L \in Lists, ListsOK(L), NEW t \in Threads, UNCHANGED ops,
           Internal(t) \/ Call(t)
    PROVE  Inv' /\ \E M \in Lists : ListsOK(M)'
<1>1. CASE Lock(t)
    BY <1>1, AcquireStep DEF Lock
<1>2. CASE LockWait(t)
    BY <1>2, LockWaitStep
<1>3. CASE Unlock(t)
    BY <1>3, DropStep DEF Unlock
<1>4. CASE Wakeup(t)
    BY <1>4, WakeupStep
<1>5. CASE Wait(t)
    BY <1>5, WaitStep
<1>6. CASE DropMutex(t)
    BY <1>6, DropStep DEF DropMutex
<1>7. CASE Awake(t)
    BY <1>7, TakeSignalStep DEF Awake
<1>8. CASE Timeout(t)
    BY <1>8, TimeoutStep
<1>9. CASE Expired(t)
    BY <1>9, ExpiredStep
<1>10. CASE Consume(t)
    BY <1>10, TakeSignalStep DEF Consume
<1>11. CASE Reacquire(t)
    BY <1>11, AcquireStep DEF Reacquire
<1>12. CASE Signal(t)
    BY <1>12, NotifyStep DEF Signal
<1>13. CASE Broadcast(t)
    BY <1>13, NotifyStep DEF Broadcast
<1>14. CASE SignalPop(t)
    BY <1>14, SignalPopStep
<1>15. CASE BroadcastDetach(t)
    BY <1>15, BroadcastDetachStep
<1>16. CASE WakeAll(t)
    BY <1>16, WakeAllStep
<1>17. CASE WakeOne(t)
    BY <1>17, WakeOneStep
<1>18. QED
    BY <1>1, <1>2, <1>3, <1>4, <1>5, <1>6, <1>7, <1>8, <1>9, <1>10, <1>11, <1>12, <1>13,
       <1>14, <1>15, <1>16, <1>17 DEF Internal, Call

(* IInv is inductive. *)
LEMMA Inductive == IInv /\ [Next]_<<vars, ops>> => IInv'
<1> SUFFICES ASSUME IInv, [Next]_<<vars, ops>>
             PROVE  IInv'
    OBVIOUS
<1>1. PICK L \in Lists : ListsOK(L)
    BY DEF IInv
<1>2. Inv
    BY DEF IInv
<1>3. CASE Next
    <2>1. PICK t \in Threads : Internal(t) \/ Call(t)
        BY <1>3 DEF Next
    <2>2. UNCHANGED ops
        BY <1>3 DEF Next
    <2>3. Inv' /\ \E M \in Lists : ListsOK(M)'
        BY <1>1, <1>2, <2>1, <2>2, EveryStep
    <2>4. QED
        BY <2>3 DEF IInv
<1>4. CASE UNCHANGED <<vars, ops>>
    <2>1. Inv'
        BY <1>2, <1>4 DEF Inv, Separated, TypeOK, LocalOK, MutexInv, Inside, Queues, vars
    <2>2. ListsOK(L)'
        BY <1>1, <1>4 DEF ListsOK, Heads, SignalOK, Needs, Sends, Waiting, vars
    <2>3. QED
        BY <1>1, <2>1, <2>2 DEF IInv
<1>5. QED
    BY <1>3, <1>4

(* IInv holds of every program that uses deadlines or broadcast but not    *)
(* both, whatever the number of threads.                                   *)
THEOREM Invariance ==
    ASSUME \A c \in Clients : Separated(c)
    PROVE  Spec => []IInv
<1>1. Init => IInv
    BY Initially
<1>2. IInv /\ [Next]_<<vars, ops>> => IInv'
    BY Inductive
<1>3. QED
    BY <1>1, <1>2, PTL DEF Spec

(* A signal meant for the condition variable is never taken for a hand-off *)
(* of the mutex: who returns from lw_condvar_wait or from the lock owns    *)
(* the mutex.                                                              *)
THEOREM WaiterHoldsMutex ==
    ASSUME \A c \in Clients : Separated(c)
    PROVE  Spec => []HoldsMutex
<1>1. IInv => HoldsMutex
    BY DEF IInv, Inv, MutexInv, Inside, Notifying, HoldsMutex
<1>2. QED
    BY <1>1, Invariance, PTL

(* The wait queue is what the code asserts of it. *)
LEMMA Sound ==
    ASSUME IInv
    PROVE  ListSound
<1>1. PICK L \in Lists : ListsOK(L)
    BY DEF IInv
<1>2. Inv /\ TypeOK /\ NULL \in Ids
    BY InvTypes DEF IInv
<1>3. PICK q \in Seq(Threads) : q = L[NULL] /\ WaitList = q
    BY <1>1, <1>2, QueueIs
<1>4. \A i \in 1..Len(q) : Listed(L, q[i]) /\ q[i] \in Threads
    BY <1>2, <1>3 DEF Listed
<1>5. /\ \A i, j \in 1..Len(q) : q[i] = q[j] => i = j
      /\ \A i \in 1..Len(q) : /\ i > 1 => prev[q[i]] = q[i - 1]
                              /\ i = 1 => prev[q[i]] = NULL
      /\ \A w \in Threads : ~Listed(L, w) => next[w] = NULL /\ prev[w] = NULL
    BY <1>1, <1>2, <1>3 DEF ListsOK, Linked
<1>6. \A w \in Threads : Listed(L, w) => Waiting(w) /\ ~signal_pending[w]
    BY <1>1 DEF ListsOK, SignalOK, Needs, Waiting
<1>7. \A i \in 1..Len(q) : i > 1 <=> i # 1
    OBVIOUS
<1>8. IsInjective(q) /\ DOMAIN q = 1..Len(q)
    BY <1>5 DEF IsInjective
<1>9. \A t \in Threads : ~Waiting(t) => next[t] = NULL /\ prev[t] = NULL
    BY <1>5, <1>6
<1>10. QED
    BY <1>3, <1>4, <1>5, <1>6, <1>7, <1>8, <1>9 DEF ListSound

(* A signal is sent to a thread that has none and cannot go on without it, *)
(* and the queue the signals are taken from is sound.                      *)
THEOREM SignalsExpected ==
    ASSUME \A c \in Clients : Separated(c)
    PROVE  Spec => []SignalExpected
<1>1. ASSUME IInv
      PROVE  SignalExpected
    <2>1. PICK L \in Lists : ListsOK(L)
        BY <1>1 DEF IInv
    <2>2. Inv /\ TypeOK /\ NULL \in Ids
        BY <1>1, InvTypes DEF IInv
    <2>3. ASSUME NEW t \in Threads, pc[t] \in {"wake", "wake_one"}
          PROVE  LET w == target[t] IN
                 /\ ~signal_pending[w]
                 /\ w \in Woken \/ (pc[w] = "lock_wait" /\ owner = w)
        <3>1. PICK w \in Threads : w = target[t]
            BY <2>2, <2>3, InvTypes DEF LocalOK
        <3>2. Sends(t, w) /\ SignalOK(L, w)
            BY <2>1, <2>3, <3>1 DEF Sends, ListsOK
        <3>3. ~signal_pending[w] /\ Needs(L, w)
            BY <3>2 DEF SignalOK
        <3>4. ~Listed(L, w) => ~Contains(WaitList, w)
            BY <2>1, <2>2, QueueIs DEF Listed, Contains
        <3>5. QED
            BY <3>1, <3>3, <3>4 DEF Needs, Woken
    <2>4. QED
        BY <1>1, <2>3, Sound DEF SignalExpected
<1>2. QED
    BY <1>1, Invariance, PTL

-------------------------------------------------------------------------------
(* The condition variable implements CondVarSpec. *)

(* A step that is none of the abstract condition variable. *)
LEMMA Stutter ==
    ASSUME NEW t \in Threads, Others(t), Waiting(t)' <=> Waiting(t),
           WaitList' = WaitList, res' = res
    PROVE  UNCHANGED Abstract!condVars
<1>1. \A w \in Threads : Waiting(w)' <=> Waiting(w)
    BY OthersWait
<1>2. Woken' = Woken
    BY <1>1 DEF Woken
<1>3. QED
    BY <1>2 DEF Abstract!condVars

(* A step that leaves the queue alone. *)
LEMMA SameQueue ==
    ASSUME UNCHANGED list
    PROVE  WaitList' = WaitList
BY DEF WaitList, list

(* The steps of the mutex and of the signals. *)
LEMMA StutterStep ==
    ASSUME Inv, NEW t \in Threads,
           \/ Lock(t) \/ LockWait(t) \/ Unlock(t) \/ Wakeup(t) \/ DropMutex(t) \/ Timeout(t)
           \/ Reacquire(t) \/ Signal(t) \/ Broadcast(t) \/ WakeOne(t)
    PROVE  UNCHANGED Abstract!condVars
<1>1. WaitList' = WaitList /\ res' = res
    BY SameQueue DEF Lock, LockWait, Unlock, Wakeup, DropMutex, Timeout, Reacquire, Signal,
       Broadcast, WakeOne, Notify, locals
<1>2. CASE Lock(t) \/ Reacquire(t)
    <2>1. Others(t) /\ (Waiting(t)' <=> Waiting(t))
        BY <1>2, InvTypes DEF Lock, Reacquire, Acquire, Goto, Others, Waiting, locals
    <2>2. QED
        BY <1>1, <2>1, Stutter
<1>3. CASE LockWait(t) \/ Timeout(t)
    <2>1. Others(t) /\ (Waiting(t)' <=> Waiting(t))
        BY <1>3, InvTypes DEF LockWait, Timeout, Goto, Others, Waiting, locals
    <2>2. QED
        BY <1>1, <2>1, Stutter
<1>4. CASE Unlock(t) \/ DropMutex(t)
    <2>1. Others(t) /\ (Waiting(t)' <=> Waiting(t))
        BY <1>4, InvTypes DEF Unlock, DropMutex, Drop, Goto, Others, Waiting
    <2>2. QED
        BY <1>1, <2>1, Stutter
<1>5. CASE Wakeup(t)
    <2>1. Others(t) /\ (Waiting(t)' <=> Waiting(t))
        BY <1>5, InvTypes DEF Wakeup, Return, Goto, Others, Waiting
    <2>2. QED
        BY <1>1, <2>1, Stutter
<1>6. CASE Signal(t) \/ Broadcast(t) \/ WakeOne(t)
    <2>1. Others(t) /\ (Waiting(t)' <=> Waiting(t))
        BY <1>6, InvTypes DEF Signal, Broadcast, WakeOne, Notify, Goto, Others, Waiting
    <2>2. QED
        BY <1>1, <2>1, Stutter
<1>7. QED
    BY <1>2, <1>3, <1>4, <1>5, <1>6

(* A wait begins: the thread enters the queue at its end. *)
LEMMA WaitEnters ==
    ASSUME Inv, NEW L \in Lists, ListsOK(L), NEW t \in Threads, Wait(t)
    PROVE  Abstract!Enter(t)
<1>1. /\ pc[t] = "in" /\ Enqueue(t) /\ res' = [res EXCEPT ![t] = "0"] /\ UNCHANGED cur
      /\ pc' = [pc EXCEPT ![t] = "drop"] /\ UNCHANGED <<target, back>>
      /\ \E b \in BOOLEAN : timed' = [timed EXCEPT ![t] = b]
    BY DEF Wait, Goto
<1>2. Others(t) /\ pc'[t] = "drop"
    BY <1>1, InvTypes DEF Others
<1>3. ~Waiting(t) /\ Waiting(t)'
    BY <1>1, <1>2 DEF Waiting
<1>4. /\ Behind(L, t) \in Lists /\ Linked(Behind(L, t), Heads', next', prev')
      /\ ~Listed(L, t)
    BY <1>1, <1>3, EnqueueLists
<1>5. PICK q \in Seq(Threads) : q = L[NULL] /\ WaitList = q
    BY InvTypes, QueueIs
<1>6. WaitList' = Append(q, t)
    <2>1. Behind(L, t)[NULL] = Append(q, t)
        BY <1>5, InvTypes DEF Behind, Lists
    <2>2. QED
        BY <1>4, <2>1, QueueBecomes
<1>7. ~Contains(q, t) /\ t \notin Woken
    BY <1>3, <1>4, <1>5, InvTypes DEF Contains, Listed, Woken
<1>8. \A w \in Threads : Contains(Append(q, t), w) <=> Contains(q, w) \/ w = t
    <2>1. /\ Len(q) \in Nat /\ Len(Append(q, t)) = Len(q) + 1
          /\ Append(q, t)[Len(q) + 1] = t /\ \A i \in 1..Len(q) : Append(q, t)[i] = q[i]
        OBVIOUS
    <2>2. /\ \A i \in 1..(Len(q) + 1) : i \in 1..Len(q) \/ i = Len(q) + 1
          /\ \A i \in 1..Len(q) : i \in 1..(Len(q) + 1)
          /\ Len(q) + 1 \in 1..(Len(q) + 1)
        BY <2>1
    <2>3. QED
        BY <2>1, <2>2 DEF Contains
<1>9. Woken' = Woken
    <2>1. \A w \in Threads : w # t => (Waiting(w)' <=> Waiting(w))
        BY <1>2, OthersWait
    <2>2. QED
        BY <1>3, <1>5, <1>6, <1>8, <2>1 DEF Woken
<1>10. ~Abstract!Contains(WaitList, t)
    BY <1>5, <1>7 DEF Contains, Abstract!Contains
<1>11. QED
    BY <1>1, <1>5, <1>6, <1>7, <1>9, <1>10 DEF Abstract!Enter

(* A wait that takes its signal returns. *)
LEMMA TakeSignalReturns ==
    ASSUME Inv, NEW L \in Lists, ListsOK(L), NEW t \in Threads, UNCHANGED ops,
           pc[t] \in {"cv_wait", "consume"}, TakeSignal(t)
    PROVE  Abstract!Return(t)
<1>1. Waiting(t) /\ ~Listed(L, t)
    BY TakeSignalStep
<1>2. /\ pc' = [pc EXCEPT ![t] = "reacquire"] /\ res' = [res EXCEPT ![t] = "0"]
      /\ timed' = [timed EXCEPT ![t] = FALSE] /\ UNCHANGED <<list, cur, target, back>>
    BY DEF TakeSignal, Goto
<1>3. Others(t) /\ ~Waiting(t)'
    BY <1>2, InvTypes DEF Others, Waiting
<1>4. WaitList' = WaitList
    BY <1>2, SameQueue
<1>5. ~Contains(WaitList, t)
    BY <1>1, QueueIs, InvTypes DEF Contains, Listed
<1>6. t \in Woken /\ Woken' = Woken \ {t}
    <2>1. \A w \in Threads : w # t => (Waiting(w)' <=> Waiting(w))
        BY <1>3, OthersWait
    <2>2. QED
        BY <1>1, <1>3, <1>4, <1>5, <2>1 DEF Woken
<1>7. QED
    BY <1>2, <1>4, <1>6 DEF Abstract!Return

(* Who is left on a queue that loses one waiter. *)
LEMMA RemovedContains ==
    ASSUME NEW q \in Seq(Threads), NEW k \in 1..Len(q),
           \A i, j \in 1..Len(q) : q[i] = q[j] => i = j
    PROVE  \A w \in Threads : Contains(RemoveAt(q, k), w) <=> Contains(q, w) /\ w # q[k]
<1>1. PICK r : r = RemoveAt(q, k)
    OBVIOUS
<1>2. /\ r \in Seq(Threads) /\ Len(r) = Len(q) - 1
      /\ \A i \in 1..Len(r) : r[i] = IF i < k THEN q[i] ELSE q[i + 1]
    BY <1>1, Removed
<1>3. Len(q) \in Nat /\ k \in Nat
    OBVIOUS
<1>4. ASSUME NEW w \in Threads, Contains(r, w)
      PROVE  Contains(q, w) /\ w # q[k]
    <2>1. PICK i \in 1..Len(r) : r[i] = w
        BY <1>4 DEF Contains
    <2>2. PICK j \in 1..Len(q) : j # k /\ w = q[j]
        <3>1. CASE i < k
            <4>1. i \in 1..Len(q) /\ i # k /\ w = q[i]
                BY <1>2, <1>3, <2>1, <3>1
            <4>2. QED
                BY <4>1
        <3>2. CASE ~(i < k)
            <4>1. i + 1 \in 1..Len(q) /\ i + 1 # k /\ w = q[i + 1]
                BY <1>2, <1>3, <2>1, <3>2
            <4>2. QED
                BY <4>1
        <3>3. QED
            BY <3>1, <3>2
    <2>3. QED
        BY <2>2 DEF Contains
<1>5. ASSUME NEW w \in Threads, Contains(q, w), w # q[k]
      PROVE  Contains(r, w)
    <2>1. PICK j \in 1..Len(q) : q[j] = w
        BY <1>5 DEF Contains
    <2>2. CASE j < k
        <3>1. j \in 1..Len(r) /\ r[j] = w
            BY <1>2, <1>3, <2>1, <2>2
        <3>2. QED
            BY <3>1 DEF Contains
    <2>3. CASE ~(j < k)
        <3>1. j # k
            BY <1>5, <2>1
        <3>2. j - 1 \in 1..Len(r) /\ ~(j - 1 < k) /\ j - 1 + 1 = j
            BY <1>2, <1>3, <2>1, <2>3, <3>1
        <3>3. r[j - 1] = w
            BY <1>2, <2>1, <3>2
        <3>4. QED
            BY <3>2, <3>3 DEF Contains
    <2>4. QED
        BY <2>2, <2>3
<1>6. QED
    BY <1>1, <1>4, <1>5

(* A timeout under waitq_lock leaves the queue, or finds itself notified. *)
LEMMA ExpiredExpires ==
    ASSUME Inv, NEW L \in Lists, ListsOK(L), NEW t \in Threads, Expired(t)
    PROVE  Abstract!Expire(t) \/ UNCHANGED Abstract!condVars
<1>1. pc[t] = "expired" /\ UNCHANGED <<cur, target, back>>
    BY DEF Expired
<1>2. CASE OffList(t) /\ Goto(t, "consume") /\ UNCHANGED <<list, res, timed>>
    <2>1. Others(t) /\ (Waiting(t)' <=> Waiting(t))
        BY <1>1, <1>2, InvTypes DEF Goto, Others, Waiting
    <2>2. QED
        BY <1>2, <2>1, SameQueue, Stutter
<1>3. CASE /\ ~OffList(t) /\ Dequeue(t) /\ res' = [res EXCEPT ![t] = "ETIMEDOUT"]
           /\ timed' = [timed EXCEPT ![t] = FALSE] /\ Goto(t, "reacquire")
    <2>1. Others(t) /\ ~Waiting(t)'
        BY <1>1, <1>3, InvTypes DEF Goto, Others, Waiting
    <2>2. PICK k \in 1..Len(L[NULL]) : t = L[NULL][k]
        BY <1>1, <1>3, StillQueued
    <2>3. PICK q \in Seq(Threads) : q = L[NULL] /\ WaitList = q
        BY InvTypes, QueueIs
    <2>4. Without(L, k) \in Lists /\ Linked(Without(L, k), Heads', next', prev')
        BY <1>1, <1>3, <2>2, DequeueLists
    <2>5. WaitList' = RemoveAt(q, k)
        <3>1. Without(L, k)[NULL] = RemoveAt(q, k)
            BY <2>3, InvTypes DEF Without, Lists
        <3>2. QED
            BY <2>4, <3>1, QueueBecomes
    <2>6. \A i, j \in 1..Len(q) : q[i] = q[j] => i = j
        BY <2>3, QueueFound DEF ListsOK
    <2>7. \A w \in Threads : Contains(RemoveAt(q, k), w) <=> Contains(q, w) /\ w # t
        BY <2>2, <2>3, <2>6, RemovedContains
    <2>8. Woken' = Woken
        <3>1. \A w \in Threads : w # t => (Waiting(w)' <=> Waiting(w))
            BY <2>1, OthersWait
        <3>2. Contains(q, t)
            BY <2>2, <2>3 DEF Contains
        <3>3. QED
            BY <2>1, <2>3, <2>5, <2>7, <3>1, <3>2 DEF Woken
    <2>9. k \in DOMAIN WaitList /\ WaitList[k] = t /\ WaitList' = RemoveAt(WaitList, k)
        BY <2>2, <2>3, <2>5
    <2>10. WaitList' = Abstract!RemoveAt(WaitList, k)
        BY <2>9 DEF RemoveAt, Abstract!RemoveAt
    <2>11. QED
        BY <1>3, <2>8, <2>9, <2>10 DEF Abstract!Expire
<1>4. QED
    BY <1>2, <1>3 DEF Expired

(* Signal wakes the thread that has waited longest. *)
LEMMA SignalPopNotifies ==
    ASSUME Inv, NEW L \in Lists, ListsOK(L), NEW t \in Threads, SignalPop(t)
    PROVE  Abstract!Notify \/ UNCHANGED Abstract!condVars
<1>1. pc[t] = "signal" /\ res' = res /\ UNCHANGED <<cur, timed>>
    BY DEF SignalPop
<1>2. CASE waitq = NULL
    <2>1. UNCHANGED <<list, target>> /\ Return(t)
        BY <1>2 DEF SignalPop
    <2>2. Others(t) /\ (Waiting(t)' <=> Waiting(t))
        BY <1>1, <2>1, InvTypes DEF Return, Goto, Others, Waiting, LocalOK, Notifying
    <2>3. QED
        BY <1>1, <2>1, <2>2, SameQueue, Stutter
<1>3. CASE waitq # NULL
    <2>1. PICK v : v = waitq
        OBVIOUS
    <2>2. /\ Dequeue(v) /\ target' = [target EXCEPT ![t] = v]
          /\ pc' = [pc EXCEPT ![t] = "wake"] /\ back' = back
        BY <1>3, <2>1 DEF SignalPop, Goto
    <2>3. v = L[NULL][1] /\ v \in Threads /\ 1 \in 1..Len(L[NULL])
        BY <1>3, <2>1, HeadIs, HeadsType, InvTypes
    <2>4. Others(t) /\ (Waiting(t)' <=> Waiting(t))
        BY <1>1, <2>2, InvTypes DEF Others, Waiting, LocalOK, Notifying
    <2>5. PICK q \in Seq(Threads) : q = L[NULL] /\ WaitList = q
        BY InvTypes, QueueIs
    <2>6. /\ Without(L, 1) \in Lists /\ Linked(Without(L, 1), Heads', next', prev')
          /\ Listed(L, v)
        BY <1>1, <2>2, <2>3, DequeueLists
    <2>7. WaitList' = RemoveAt(q, 1)
        <3>1. Without(L, 1)[NULL] = RemoveAt(q, 1)
            BY <2>5, InvTypes DEF Without, Lists
        <3>2. QED
            BY <2>6, <3>1, QueueBecomes
    <2>8. q # <<>> /\ Head(q) = v /\ RemoveAt(q, 1) = Tail(q)
        <3>1. PICK r : r = RemoveAt(q, 1)
            OBVIOUS
        <3>2. /\ r \in Seq(Threads) /\ Len(r) = Len(q) - 1
              /\ \A i \in 1..Len(r) : r[i] = IF i < 1 THEN q[i] ELSE q[i + 1]
            BY <2>3, <2>5, <3>1, Removed
        <3>3. q # <<>> /\ Head(q) = v
            BY <2>3, <2>5
        <3>4. /\ Tail(q) \in Seq(Threads) /\ Len(Tail(q)) = Len(q) - 1
              /\ \A i \in 1..Len(Tail(q)) : Tail(q)[i] = q[i + 1]
            BY <3>3, HeadTailProperties
        <3>5. \A i \in 1..Len(r) : r[i] = Tail(q)[i]
            BY <3>2, <3>4
        <3>6. r = Tail(q)
            BY <3>2, <3>4, <3>5, SeqEqual
        <3>7. QED
            BY <3>1, <3>3, <3>6
    <2>9. \A w \in Threads : Contains(RemoveAt(q, 1), w) <=> Contains(q, w) /\ w # v
        <3>1. \A i, j \in 1..Len(q) : q[i] = q[j] => i = j
            BY <2>5, QueueFound DEF ListsOK
        <3>2. QED
            BY <2>3, <2>5, <3>1, RemovedContains
    <2>10. Woken' = Woken \cup {v}
        <3>1. \A w \in Threads : Waiting(w)' <=> Waiting(w)
            BY <2>4, OthersWait
        <3>2. Waiting(v)
            BY <2>3, <2>6 DEF ListsOK, SignalOK
        <3>3. QED
            BY <2>3, <2>5, <2>7, <2>9, <3>1, <3>2 DEF Woken
    <2>11. QED
        BY <1>1, <2>5, <2>7, <2>8, <2>10 DEF Abstract!Notify
<1>4. QED
    BY <1>2, <1>3

(* Broadcast wakes everybody who waits. *)
LEMMA DetachNotifiesAll ==
    ASSUME Inv, NEW L \in Lists, ListsOK(L), NEW t \in Threads, BroadcastDetach(t)
    PROVE  Abstract!NotifyAll
<1>1. /\ pc[t] = "broadcast" /\ pc' = [pc EXCEPT ![t] = "wake_all"] /\ res' = res
      /\ cur' = [cur EXCEPT ![t] = waitq] /\ UNCHANGED <<timed, target, back>>
    BY DEF BroadcastDetach, Goto
<1>2. Others(t) /\ (Waiting(t)' <=> Waiting(t))
    BY <1>1, InvTypes DEF Others, Waiting
<1>3. PICK q \in Seq(Threads) : q = L[NULL] /\ WaitList = q
    BY InvTypes, QueueIs
<1>4. WaitList' = <<>>
    <2>1. Handed(L, t)[NULL] = <<>>
        BY InvTypes DEF Handed, Lists
    <2>2. QED
        BY <2>1, DetachLists, QueueBecomes
<1>5. \A w \in Threads : ~Contains(<<>>, w)
    BY DEF Contains
<1>6. /\ \A w \in Threads : Contains(q, w) <=> w \in ToSet(q)
      /\ ToSet(q) \subseteq Threads
    <2>1. DOMAIN q = 1..Len(q) /\ \A i \in 1..Len(q) : q[i] \in Threads
        OBVIOUS
    <2>2. QED
        BY <2>1 DEF Contains, ToSet
<1>7. \A w \in Threads : Contains(q, w) => Waiting(w)
    BY <1>3, InvTypes DEF Contains, ListsOK, SignalOK, Listed
<1>8. Woken' = Woken \cup ToSet(q)
    <2>1. \A w \in Threads : Waiting(w)' <=> Waiting(w)
        BY <1>2, OthersWait
    <2>2. QED
        BY <1>3, <1>4, <1>5, <1>6, <1>7, <2>1 DEF Woken
<1>9. ToSet(q) = Abstract!ToSet(WaitList)
    BY <1>3 DEF ToSet, Abstract!ToSet
<1>10. QED
    BY <1>1, <1>4, <1>8, <1>9 DEF Abstract!NotifyAll

(* The walk of the detached queue does not touch the queue. *)
LEMMA WakeAllStutters ==
    ASSUME Inv, NEW L \in Lists, ListsOK(L), NEW t \in Threads, WakeAll(t)
    PROVE  UNCHANGED Abstract!condVars
<1>1. pc[t] = "wake_all" /\ res' = res /\ UNCHANGED <<waitq, timed>>
    BY DEF WakeAll
<1>2. CASE cur[t] = NULL
    <2>1. Return(t) /\ UNCHANGED <<next, prev, cur, target>>
        BY <1>2 DEF WakeAll
    <2>2. Others(t) /\ (Waiting(t)' <=> Waiting(t))
        BY <1>1, <2>1, InvTypes DEF Return, Goto, Others, Waiting, LocalOK, Notifying
    <2>3. QED
        BY <1>1, <2>1, <2>2, SameQueue, Stutter DEF list
<1>3. CASE cur[t] # NULL
    <2>1. /\ cur' = [cur EXCEPT ![t] = next[cur[t]]] /\ target' = [target EXCEPT ![t] = cur[t]]
          /\ pc' = [pc EXCEPT ![t] = "wake_one"] /\ back' = back
        BY <1>3 DEF WakeAll, Goto
    <2>2. Others(t) /\ (Waiting(t)' <=> Waiting(t))
        BY <1>1, <2>1, InvTypes DEF Others, Waiting
    <2>3. WaitList' = WaitList
        <3>1. Shortened(L, t) \in Lists /\ Linked(Shortened(L, t), Heads', next', prev')
            BY <1>3, WakeAllLists
        <3>2. Shortened(L, t)[NULL] = L[NULL]
            BY InvTypes DEF Shortened, Lists
        <3>3. QED
            BY <3>1, <3>2, QueueBecomes, QueueIs, InvTypes
    <2>4. QED
        BY <1>1, <2>2, <2>3, Stutter
<1>4. QED
    BY <1>2, <1>3

(* Every step is a step of CondVarSpec, or none. *)
LEMMA StepImplements ==
    ASSUME IInv, [Next]_<<vars, ops>>
    PROVE  [Abstract!Next]_Abstract!condVars
<1>1. PICK L \in Lists : ListsOK(L)
    BY DEF IInv
<1>2. Inv
    BY DEF IInv
<1>3. CASE Next
    <2>1. PICK t \in Threads : Internal(t) \/ Call(t)
        BY <1>3 DEF Next
    <2>2. UNCHANGED ops
        BY <1>3 DEF Next
    <2>3. CASE \/ Lock(t) \/ LockWait(t) \/ Unlock(t) \/ Wakeup(t) \/ DropMutex(t) \/ Timeout(t)
               \/ Reacquire(t) \/ Signal(t) \/ Broadcast(t) \/ WakeOne(t)
        BY <1>2, <2>3, StutterStep
    <2>4. CASE Wait(t)
        BY <1>1, <1>2, <2>4, WaitEnters DEF Abstract!Next
    <2>5. CASE Awake(t) \/ Consume(t)
        BY <1>1, <1>2, <2>2, <2>5, TakeSignalReturns DEF Abstract!Next, Awake, Consume
    <2>6. CASE Expired(t)
        BY <1>1, <1>2, <2>6, ExpiredExpires DEF Abstract!Next
    <2>7. CASE SignalPop(t)
        BY <1>1, <1>2, <2>7, SignalPopNotifies DEF Abstract!Next
    <2>8. CASE BroadcastDetach(t)
        BY <1>1, <1>2, <2>8, DetachNotifiesAll DEF Abstract!Next
    <2>9. CASE WakeAll(t)
        BY <1>1, <1>2, <2>9, WakeAllStutters
    <2>10. QED
        BY <2>1, <2>3, <2>4, <2>5, <2>6, <2>7, <2>8, <2>9 DEF Internal, Call
<1>4. CASE UNCHANGED <<vars, ops>>
    <2>1. WaitList' = WaitList /\ res' = res /\ \A w \in Threads : Waiting(w)' <=> Waiting(w)
        BY <1>4 DEF WaitList, Waiting, vars
    <2>2. QED
        BY <2>1 DEF Woken, Abstract!condVars
<1>5. QED
    BY <1>3, <1>4

(* Signal wakes the thread that has waited longest, broadcast all of them, *)
(* and a wait that was chosen by either never reports a timeout.           *)
THEOREM Refinement ==
    ASSUME \A c \in Clients : Separated(c)
    PROVE  Spec => ImplementsCondVar
<1>1. Init => Abstract!Init
    <2> SUFFICES ASSUME Init PROVE Abstract!Init
        OBVIOUS
    <2>1. IInv
        BY Initially
    <2>2. PICK L \in Lists : ListsOK(L)
        BY <2>1 DEF IInv
    <2>3. WaitList = <<>>
        BY <2>1, <2>2, QueueIs, HeadIs, HeadsType, InvTypes DEF IInv, Init
    <2>4. Woken = {}
        BY DEF Woken, Waiting, Init
    <2>5. QED
        BY <2>3, <2>4 DEF Abstract!Init, Init
<1>2. IInv /\ [Next]_<<vars, ops>> => [Abstract!Next]_Abstract!condVars
    BY StepImplements
<1>3. QED
    BY <1>1, <1>2, Invariance, PTL DEF Spec, ImplementsCondVar, Abstract!Spec
===============================================================================
