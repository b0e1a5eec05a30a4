---------------------------- MODULE LwMutex2bProofs ----------------------------
(***************************************************************************)
(* The 2-byte mutex is correct for any number of threads: IInv of          *)
(* LwMutex2b is inductive, implies mutual exclusion and the checks of the  *)
(* code, and makes every step a step of FairLock.                          *)
(***************************************************************************)
EXTENDS LwMutex2b, SequenceTheorems, TLAPS

(* A non-empty sequence and what remains of it when its head leaves. *)
LEMMA TailFacts ==
    ASSUME NEW S, NEW s \in Seq(S), s # <<>>
    PROVE  /\ Len(s) \in Nat /\ Len(s) >= 1
           /\ 1 \in 1..Len(s) /\ s[1] \in S /\ Head(s) = s[1]
           /\ Tail(s) \in Seq(S)
           /\ Len(Tail(s)) = Len(s) - 1
           /\ \A i \in 1..Len(Tail(s)) : Tail(s)[i] = s[i + 1] /\ i + 1 \in 1..Len(s)
           /\ \A i \in 1..Len(s) : i # 1 =>
                 i - 1 \in 1..Len(Tail(s)) /\ Tail(s)[i - 1] = s[i]
           /\ Tail(s) = <<>> <=> Len(s) = 1
<1>1. Len(s) \in Nat /\ Len(s) >= 1 /\ 1 \in 1..Len(s) /\ s[1] \in S
    BY EmptySeq, LenProperties
<1>2. /\ Head(s) = s[1]
      /\ Tail(s) \in Seq(S)
      /\ Len(Tail(s)) = Len(s) - 1
    BY HeadTailProperties
<1>3. \A i \in 1..Len(Tail(s)) : Tail(s)[i] = s[i + 1] /\ i + 1 \in 1..Len(s)
    BY <1>1, <1>2, HeadTailProperties
<1>4. \A i \in 1..Len(s) : i # 1 =>
          i - 1 \in 1..Len(Tail(s)) /\ Tail(s)[i - 1] = s[i]
    <2>1. SUFFICES ASSUME NEW i \in 1..Len(s), i # 1
                   PROVE  i - 1 \in 1..Len(Tail(s)) /\ Tail(s)[i - 1] = s[i]
        OBVIOUS
    <2>2. i - 1 \in 1..Len(Tail(s)) /\ (i - 1) + 1 = i
        BY <1>1, <1>2, <2>1
    <2>3. QED
        BY <1>3, <2>2
<1>5. Tail(s) = <<>> <=> Len(Tail(s)) = 0
    BY <1>2, EmptySeq
<1>6. QED
    BY <1>1, <1>2, <1>3, <1>4, <1>5

(* The step relation, one case per atomic action of lw_mutex2b.c. *)
LEMMA StepCases ==
    ASSUME Next
    PROVE  \E t \in Threads :
              \/ Lock(t) \/ LockRead(t) \/ LockSwap(t) \/ LockWait(t)
              \/ Trylock(t) \/ TrylockSwap(t)
              \/ Unlock(t) \/ UnlockRead(t) \/ Walk(t) \/ UnlockSwap(t)
              \/ Handoff(t) \/ Wakeup(t)
BY DEF Next, Internal, Call

(* An empty chain, as lw_mutex2b_init leaves it. *)
LEMMA InitIInv == Init => IInv
<1> SUFFICES ASSUME Init PROVE IInv
    OBVIOUS
<1> USE NullAssumption DEF Init, Ids
<1>1. TypeOK
    BY DEF TypeOK, PCs
<1>2. ChainInv /\ OwnerInv /\ LocalsInv
    BY DEF ChainInv, OwnerInv, LocalsInv, Holding, InChain
<1>3. QED
    BY <1>1, <1>2 DEF IInv

(* Entering a call, or reading the word in lock: the chain does not change. *)
LEMMA LocalStep ==
    ASSUME IInv, NEW t \in Threads,
           Lock(t) \/ LockRead(t) \/ Trylock(t) \/ Unlock(t)
    PROVE  IInv'
<1> USE NullAssumption DEF IInv, Ids
<1>0. /\ pc[t] \in {"idle", "lock", "held"}
      /\ pc' \in {[pc EXCEPT ![t] = "lock"], [pc EXCEPT ![t] = "lock_swap"],
                  [pc EXCEPT ![t] = "try_swap"], [pc EXCEPT ![t] = "unlock"]}
      /\ pc[t] = "held" <=> pc'[t] = "unlock"
      /\ pc[t] = "lock" => pc'[t] = "lock_swap"
      /\ UNCHANGED <<word, signal_pending, cur, towake, chain>>
    BY DEF Lock, LockRead, Trylock, Unlock, Goto, TypeOK
<1>1. TypeOK'
    BY DEF TypeOK, PCs, Lock, LockRead, Trylock, Unlock, Goto
<1>2. /\ \A x \in Threads : x # t => next'[x] = next[x] /\ old'[x] = old[x]
      /\ pc[t] # "lock" => next' = next
      /\ pc[t] = "lock" => ~InChain(t) /\ next'[t] = old'[t]
    BY DEF Lock, LockRead, Trylock, Unlock, TypeOK, OwnerInv, InChain, Holding
<1>3. ChainInv'
    BY <1>0, <1>2 DEF ChainInv, InChain, TypeOK
<1>4. OwnerInv'
    BY <1>0 DEF OwnerInv, InChain, Holding, TypeOK
<1>5. LocalsInv'
    <2>1. CASE pc[t] = "lock"
        BY <1>0, <1>2, <2>1 DEF LocalsInv, TypeOK
    <2>2. CASE pc[t] = "idle"
        <3>1. pc'[t] \in {"lock", "try_swap"}
            BY <2>2 DEF Lock, LockRead, Trylock, Unlock, Goto, TypeOK
        <3>2. QED
            BY <1>0, <1>2, <2>2, <3>1 DEF LocalsInv, TypeOK
    <2>3. CASE pc[t] = "held"
        BY <1>0, <1>2, <2>3 DEF LocalsInv, TypeOK
    <2>4. QED
        BY <1>0, <2>1, <2>2, <2>3
<1>6. QED
    BY <1>1, <1>3, <1>4, <1>5

(* The signalled waiter is the end of the chain, and starts to hold. *)
LEMMA LockWaitStep ==
    ASSUME IInv, NEW t \in Threads, LockWait(t)
    PROVE  IInv'
<1> USE NullAssumption DEF IInv, Ids, LockWait, Goto, TypeOK
<1>1. TypeOK'
    BY DEF PCs
<1>2. ChainInv'
    BY DEF ChainInv, InChain
<1>3. OwnerInv'
    BY DEF OwnerInv, ChainInv, InChain, Holding
<1>4. LocalsInv'
    BY DEF LocalsInv
<1>5. QED
    BY <1>1, <1>2, <1>3, <1>4

(* The cmpxchg of lock appends the caller to the chain. *)
LEMMA LockSwapStep ==
    ASSUME IInv, NEW t \in Threads, LockSwap(t)
    PROVE  IInv'
<1> USE NullAssumption DEF IInv, Ids
<1>0. pc[t] = "lock_swap" /\ ~InChain(t) /\ towake[t] = NULL /\ ~signal_pending[t]
    BY DEF LockSwap, ChainInv, OwnerInv, LocalsInv, InChain, Holding, TypeOK
<1>t. TypeOK'
    <2>1. Append(chain, t) \in Seq(Threads)
        BY DEF TypeOK
    <2>2. CASE word = old[t]
        BY <2>1, <2>2 DEF TypeOK, PCs, LockSwap, Return, Goto
    <2>3. CASE word # old[t]
        BY <2>3 DEF TypeOK, PCs, LockSwap, Return, Goto
    <2>4. QED
        BY <2>2, <2>3
<1>1. CASE word = old[t]
    <2>0. /\ word' = t
          /\ chain' = Append(chain, t)
          /\ pc' = [pc EXCEPT ![t] = IF word = NULL THEN "held" ELSE "wait"]
          /\ old' = [old EXCEPT ![t] = NULL]
          /\ cur' = [cur EXCEPT ![t] = NULL]
          /\ towake' = [towake EXCEPT ![t] = NULL]
          /\ UNCHANGED <<next, signal_pending>>
        BY <1>1 DEF LockSwap, Return, Goto
    <2>1. /\ Len(chain) \in Nat
          /\ Len(chain') = Len(chain) + 1
          /\ \A i \in 1..Len(chain) : chain'[i] = chain[i] /\ chain[i] # t
          /\ chain'[Len(chain) + 1] = t
          /\ chain' # <<>>
        BY <1>0, <2>0 DEF InChain, TypeOK
    <2>2. \A x \in Threads : InChain(x)' <=> InChain(x) \/ x = t
        BY <2>1 DEF InChain
    <2>3. chain # <<>> => chain'[1] = chain[1] /\ word \in Threads
        BY <2>1 DEF ChainInv, TypeOK
    <2>4. chain = <<>> => chain'[1] = t /\ Len(chain') = 1 /\ word = NULL
        BY <2>1 DEF ChainInv
    <2>5. next[t] = word
        BY <1>0, <1>1 DEF LocalsInv
    <2>6. ChainInv'
        <3>1. \A i, j \in 1..Len(chain') : chain'[i] = chain'[j] => i = j
            BY <2>1 DEF ChainInv
        <3>2. word' = chain'[Len(chain')]
            BY <2>0, <2>1
        <3>3. next'[chain'[1]] = NULL
            BY <2>0, <2>3, <2>4, <2>5 DEF ChainInv
        <3>4. ASSUME NEW i \in 1..Len(chain'), i > 1
              PROVE  next'[chain'[i]] = chain'[i - 1]
            <4>1. CASE i = Len(chain) + 1
                <5>1. chain # <<>> /\ word = chain[Len(chain)]
                    BY <2>1, <3>4, <4>1 DEF ChainInv
                <5>2. QED
                    BY <2>0, <2>1, <2>5, <3>4, <4>1, <5>1
            <4>2. CASE i # Len(chain) + 1
                BY <2>0, <2>1, <3>4, <4>2 DEF ChainInv
            <4>3. QED
                BY <4>1, <4>2
        <3>5. \A x \in Threads :
                  next'[x] # NULL => InChain(x)' \/ pc'[x] \in {"lock", "lock_swap"}
            BY <2>0, <2>2 DEF ChainInv
        <3>6. QED
            BY <2>1, <3>1, <3>2, <3>3, <3>4, <3>5 DEF ChainInv
    <2>7. OwnerInv'
        <3>1. CASE chain = <<>>
            BY <1>0, <2>0, <2>1, <2>2, <2>4, <3>1
               DEF OwnerInv, InChain, Holding, TypeOK
        <3>2. CASE chain # <<>>
            <4>1. pc' = [pc EXCEPT ![t] = "wait"] /\ chain'[1] = chain[1]
                BY <2>0, <2>3, <3>2
            <4>2. \A i \in 1..Len(chain') : i > 1 => pc'[chain'[i]] = "wait"
                BY <2>1, <4>1 DEF OwnerInv, TypeOK
            <4>3. chain[1] \in Threads /\ chain[1] # t
                BY <2>1, <3>2 DEF TypeOK
            <4>4. \A x \in Threads : pc'[x] = "wait" => InChain(x)'
                BY <2>2, <4>1 DEF OwnerInv, TypeOK
            <4>5. /\ \A x \in Threads : pc'[x] \in Holding => chain'[1] = x
                  /\ pc'[chain'[1]] \in Holding \cup {"wait"}
                BY <3>2, <4>1, <4>3 DEF OwnerInv, TypeOK, Holding
            <4>6. \A x \in Threads : signal_pending'[x] =>
                      pc'[x] = "wait" /\ chain'[1] = x
                BY <1>0, <2>0, <3>2, <4>1 DEF OwnerInv, TypeOK
            <4>7. \A u \in Threads : pc'[u] = "wake" =>
                      /\ towake'[u] = chain'[1]
                      /\ pc'[chain'[1]] = "wait" /\ ~signal_pending'[chain'[1]]
                BY <2>0, <3>2, <4>1, <4>3 DEF OwnerInv, TypeOK
            <4>8. \A u, v \in Threads : pc'[u] = "wake" /\ pc'[v] = "wake" => u = v
                BY <4>1 DEF OwnerInv, TypeOK
            <4>9. QED
                BY <2>1, <4>2, <4>4, <4>5, <4>6, <4>7, <4>8 DEF OwnerInv
        <3>3. QED
            BY <3>1, <3>2
    <2>8. LocalsInv'
        BY <1>0, <2>0, <2>1 DEF LocalsInv, TypeOK
    <2>9. QED
        BY <1>t, <2>6, <2>7, <2>8
<1>2. CASE word # old[t]
    <2>0. /\ pc' = [pc EXCEPT ![t] = "lock"]
          /\ old' = [old EXCEPT ![t] = NULL]
          /\ cur' = [cur EXCEPT ![t] = NULL]
          /\ towake' = [towake EXCEPT ![t] = NULL]
          /\ UNCHANGED <<word, chain, next, signal_pending>>
        BY <1>2 DEF LockSwap, Return, Goto
    <2>1. ChainInv' /\ OwnerInv' /\ LocalsInv'
        BY <1>0, <2>0 DEF ChainInv, OwnerInv, LocalsInv, InChain, Holding, TypeOK
    <2>2. QED
        BY <1>t, <2>1
<1>3. QED
    BY <1>1, <1>2

(* The cmpxchg of trylock makes the caller the whole chain. *)
LEMMA TrylockSwapStep ==
    ASSUME IInv, NEW t \in Threads, TrylockSwap(t)
    PROVE  IInv'
<1> USE NullAssumption DEF IInv, Ids
<1>0. pc[t] = "try_swap" /\ ~InChain(t) /\ next[t] = NULL /\ ~signal_pending[t]
    BY DEF TrylockSwap, ChainInv, OwnerInv, InChain, Holding, TypeOK
<1>1. CASE word = NULL
    <2>0. /\ word' = t
          /\ chain = <<>>
          /\ chain' = <<t>>
          /\ pc' = [pc EXCEPT ![t] = "held"]
          /\ UNCHANGED <<next, signal_pending, old, cur, towake>>
        <3>1. chain = <<>>
            <4>1. SUFFICES ASSUME chain # <<>> PROVE FALSE
                OBVIOUS
            <4>2. Len(chain) \in 1..Len(chain) /\ word = chain[Len(chain)]
                BY <4>1, TailFacts DEF ChainInv, TypeOK
            <4>3. QED
                BY <1>1, <4>2 DEF TypeOK
        <3>2. QED
            BY <1>1, <3>1 DEF TrylockSwap, Goto
    <2>1. chain' # <<>> /\ Len(chain') = 1 /\ chain'[1] = t /\ 1..Len(chain') = {1}
        BY <2>0
    <2>2. TypeOK'
        BY <2>0 DEF TypeOK, PCs
    <2>3. ChainInv'
        BY <1>0, <2>0, <2>1 DEF ChainInv, InChain, TypeOK
    <2>4. OwnerInv'
        BY <1>0, <2>0, <2>1 DEF OwnerInv, InChain, Holding, TypeOK
    <2>5. LocalsInv'
        <3>1. \A x \in Threads : x # t => pc[x] \notin Holding /\ pc'[x] = pc[x]
            BY <2>0 DEF OwnerInv, TypeOK
        <3>2. QED
            BY <1>0, <2>0, <3>1 DEF LocalsInv, Holding, TypeOK
    <2>6. QED
        BY <2>2, <2>3, <2>4, <2>5
<1>2. CASE word # NULL
    <2>0. /\ pc' = [pc EXCEPT ![t] = "idle"]
          /\ UNCHANGED <<word, chain, next, signal_pending, old, cur, towake>>
        BY <1>2 DEF TrylockSwap, Goto
    <2>1. TypeOK'
        BY <2>0 DEF TypeOK, PCs
    <2>2. ChainInv' /\ OwnerInv' /\ LocalsInv'
        BY <1>0, <2>0 DEF ChainInv, OwnerInv, LocalsInv, InChain, Holding, TypeOK
    <2>3. QED
        BY <2>1, <2>2
<1>3. QED
    BY <1>1, <1>2

(* The snapshot of unlock is the caller exactly if nobody waits. *)
LEMMA UnlockReadStep ==
    ASSUME IInv, NEW t \in Threads, UnlockRead(t)
    PROVE  IInv'
<1> USE NullAssumption DEF IInv, Ids
<1>0. pc[t] = "unlock" /\ chain # <<>> /\ chain[1] = t
    BY DEF UnlockRead, OwnerInv, Holding, TypeOK
<1>1. /\ Len(chain) \in Nat /\ Len(chain) >= 1
      /\ word = chain[Len(chain)] /\ word \in Threads
      /\ word = t => Len(chain) = 1
      /\ word # t => Len(chain) > 1
    <2>1. Len(chain) \in Nat /\ Len(chain) >= 1
        BY <1>0, TailFacts DEF TypeOK
    <2>2. word = chain[Len(chain)] /\ Len(chain) \in 1..Len(chain)
        BY <1>0, <2>1 DEF ChainInv
    <2>3. word = t => Len(chain) = 1
        <3>1. 1 \in 1..Len(chain)
            BY <2>1
        <3>2. chain[Len(chain)] = chain[1] => Len(chain) = 1
            BY <2>2, <3>1 DEF ChainInv
        <3>3. QED
            BY <1>0, <2>2, <3>2
    <2>4. word # t => Len(chain) > 1
        <3>0. \A n \in Nat : n >= 1 /\ n # 1 => n > 1
            OBVIOUS
        <3>1. Len(chain) # 1 => Len(chain) > 1
            BY <2>1, <3>0, Zenon
        <3>2. QED
            BY <1>0, <2>2, <3>1
    <2>5. QED
        BY <2>1, <2>2, <2>3, <2>4 DEF TypeOK
<1>2. TypeOK'
    BY DEF TypeOK, PCs, UnlockRead, Goto
<1>3. /\ pc' = [pc EXCEPT ![t] = "walk"] \/ pc' = [pc EXCEPT ![t] = "unlock_swap"]
      /\ UNCHANGED <<word, next, signal_pending, towake, chain>>
    BY DEF UnlockRead, Goto
<1>4. ChainInv'
    BY <1>0, <1>3 DEF ChainInv, InChain, TypeOK
<1>5. OwnerInv'
    BY <1>0, <1>3 DEF OwnerInv, InChain, Holding, TypeOK
<1>6. LocalsInv'
    <2>1. CASE word # t /\ towake[t] = NULL
        <3>1. /\ pc' = [pc EXCEPT ![t] = "walk"]
              /\ cur' = [cur EXCEPT ![t] = chain[Len(chain)]]
              /\ old' = [old EXCEPT ![t] = word]
            BY <1>1, <2>1 DEF UnlockRead, Goto
        <3>2. Len(chain) > 1 /\ Len(chain) \in 1..Len(chain)
            BY <1>1, <2>1
        <3>3. \E k \in 1..Len(chain') : k > 1 /\ cur'[t] = chain'[k]
            BY <1>3, <3>1, <3>2 DEF TypeOK
        <3>4. QED
            BY <1>0, <1>3, <2>1, <3>1, <3>3 DEF LocalsInv, TypeOK
    <2>2. CASE word = t \/ towake[t] # NULL
        <3>1. /\ pc' = [pc EXCEPT ![t] = "unlock_swap"]
              /\ UNCHANGED cur
              /\ old' = [old EXCEPT ![t] = word]
            BY <1>1, <2>2 DEF UnlockRead, Goto
        <3>2. towake[t] = NULL <=> word = t
            BY <1>0, <1>1, <2>2 DEF LocalsInv
        <3>3. QED
            BY <1>0, <1>3, <3>1, <3>2 DEF LocalsInv, TypeOK
    <2>3. QED
        BY <2>1, <2>2
<1>7. QED
    BY <1>2, <1>4, <1>5, <1>6

(* The walk only moves towards the owner, and stops right before it. *)
LEMMA WalkStep ==
    ASSUME IInv, NEW t \in Threads, Walk(t)
    PROVE  IInv'
<1> USE NullAssumption DEF IInv, Ids
<1>0. pc[t] = "walk" /\ chain # <<>> /\ chain[1] = t /\ old[t] # t
    BY DEF Walk, OwnerInv, LocalsInv, Holding, TypeOK
<1>1. PICK j \in 1..Len(chain) : j > 1 /\ cur[t] = chain[j]
    BY <1>0 DEF LocalsInv
<1>2. /\ Len(chain) \in Nat /\ 1 \in 1..Len(chain) /\ j - 1 \in 1..Len(chain)
      /\ cur[t] \in Threads /\ chain[j - 1] \in Threads
      /\ next[cur[t]] = chain[j - 1]
    BY <1>0, <1>1 DEF ChainInv, TypeOK
<1>3. CASE chain[j - 1] # t
    <2>1. /\ cur' = [cur EXCEPT ![t] = chain[j - 1]]
          /\ UNCHANGED <<word, next, signal_pending, pc, old, towake, chain>>
        BY <1>2, <1>3 DEF Walk
    <2>2. j - 1 > 1
        BY <1>0, <1>1, <1>2, <1>3
    <2>3. TypeOK' /\ ChainInv' /\ OwnerInv'
        BY <1>2, <2>1 DEF TypeOK, ChainInv, OwnerInv, InChain
    <2>4. LocalsInv'
        BY <1>2, <2>1, <2>2 DEF LocalsInv, TypeOK
    <2>5. QED
        BY <2>3, <2>4
<1>4. CASE chain[j - 1] = t
    <2>1. j = 2
        BY <1>0, <1>1, <1>2, <1>4 DEF ChainInv
    <2>2. /\ towake' = [towake EXCEPT ![t] = chain[2]]
          /\ cur' = [cur EXCEPT ![t] = NULL]
          /\ pc' = [pc EXCEPT ![t] = "unlock_swap"]
          /\ UNCHANGED <<word, next, signal_pending, old, chain>>
        BY <1>1, <1>2, <1>4, <2>1 DEF Walk, Goto
    <2>3. chain[2] \in Threads /\ Len(chain) > 1
        BY <1>1, <1>2, <2>1
    <2>4. TypeOK'
        BY <2>2, <2>3 DEF TypeOK, PCs
    <2>5. ChainInv' /\ OwnerInv'
        BY <1>0, <2>2 DEF ChainInv, OwnerInv, InChain, Holding, TypeOK
    <2>6. LocalsInv'
        BY <1>0, <2>2, <2>3 DEF LocalsInv, TypeOK
    <2>7. QED
        BY <2>4, <2>5, <2>6
<1>5. QED
    BY <1>3, <1>4

(* The cmpxchg of unlock empties the chain or leaves it alone. *)
LEMMA UnlockSwapStep ==
    ASSUME IInv, NEW t \in Threads, UnlockSwap(t)
    PROVE  IInv'
<1> USE NullAssumption DEF IInv, Ids
<1>0. pc[t] = "unlock_swap" /\ chain # <<>> /\ chain[1] = t
    BY DEF UnlockSwap, OwnerInv, Holding, TypeOK
<1>1. /\ Len(chain) \in Nat /\ Len(chain) >= 1
      /\ 1 \in 1..Len(chain) /\ Len(chain) \in 1..Len(chain)
    BY <1>0, TailFacts DEF TypeOK
<1>2. CASE word = old[t] /\ towake[t] = NULL
    <2>0. old[t] = t
        BY <1>0, <1>2 DEF LocalsInv
    <2>1. Len(chain) = 1 /\ Tail(chain) = <<>>
        <3>1. chain[Len(chain)] = chain[1]
            BY <1>0, <1>2, <2>0 DEF ChainInv
        <3>2. Len(chain) = 1
            BY <1>1, <3>1 DEF ChainInv
        <3>3. QED
            BY <1>0, <3>2, TailFacts DEF TypeOK
    <2>2. /\ word' = NULL
          /\ chain' = <<>>
          /\ pc' = [pc EXCEPT ![t] = "idle"]
          /\ old' = [old EXCEPT ![t] = NULL]
          /\ cur' = [cur EXCEPT ![t] = NULL]
          /\ towake' = [towake EXCEPT ![t] = NULL]
          /\ UNCHANGED <<next, signal_pending>>
        BY <1>2, <2>0, <2>1 DEF UnlockSwap, Return, Goto
    <2>3. TypeOK'
        BY <2>2 DEF TypeOK, PCs
    <2>4. /\ next[t] = NULL
          /\ \A x \in Threads : InChain(x) => x = t
          /\ \A x \in Threads : pc[x] = "wake" \/ signal_pending[x] => FALSE
          /\ \A x \in Threads : pc[x] \in Holding \cup {"wait"} => x = t
        <3>1. \A x \in Threads : InChain(x) => x = t
            BY <1>0, <2>1 DEF InChain
        <3>2. QED
            BY <1>0, <3>1 DEF ChainInv, OwnerInv, Holding, TypeOK
    <2>5. ChainInv'
        BY <1>0, <2>2, <2>4 DEF ChainInv, InChain, TypeOK
    <2>6. OwnerInv'
        BY <1>0, <2>2, <2>4 DEF OwnerInv, InChain, Holding, TypeOK
    <2>7. LocalsInv'
        BY <1>0, <2>2, <2>4 DEF LocalsInv, Holding, TypeOK
    <2>8. QED
        BY <2>3, <2>5, <2>6, <2>7
<1>3. CASE ~(word = old[t] /\ towake[t] = NULL)
    <2>1. /\ \/ pc' = [pc EXCEPT ![t] = "handoff"] /\ towake[t] # NULL
             \/ pc' = [pc EXCEPT ![t] = "unlock"]
          /\ UNCHANGED <<word, next, signal_pending, old, cur, towake, chain>>
        BY <1>0, <1>3 DEF UnlockSwap, Goto, LocalsInv
    <2>2. TypeOK'
        BY <2>1 DEF TypeOK, PCs
    <2>3. ChainInv' /\ OwnerInv'
        BY <1>0, <2>1 DEF ChainInv, OwnerInv, InChain, Holding, TypeOK
    <2>4. LocalsInv'
        BY <1>0, <2>1 DEF LocalsInv, TypeOK
    <2>5. QED
        BY <2>2, <2>3, <2>4
<1>4. QED
    BY <1>2, <1>3

(* Cutting the chain: the waiter next to the owner is the new owner. *)
LEMMA HandoffStep ==
    ASSUME IInv, NEW t \in Threads, Handoff(t)
    PROVE  IInv'
<1> USE NullAssumption DEF IInv, Ids
<1>0. /\ pc[t] = "handoff" /\ chain # <<>> /\ chain[1] = t
      /\ Len(chain) > 1 /\ towake[t] = chain[2]
    BY DEF Handoff, OwnerInv, LocalsInv, Holding, TypeOK
<1>1. /\ Len(chain) \in Nat
      /\ 1 \in 1..Len(chain) /\ 2 \in 1..Len(chain) /\ Len(chain) \in 1..Len(chain)
      /\ chain[2] \in Threads
    BY <1>0, TailFacts DEF TypeOK
<1>2. /\ next' = [next EXCEPT ![chain[2]] = NULL]
      /\ chain' = Tail(chain)
      /\ pc' = [pc EXCEPT ![t] = "wake"]
      /\ UNCHANGED <<word, signal_pending, old, cur, towake>>
    BY <1>0 DEF Handoff, Goto
<1>3. /\ chain' \in Seq(Threads)
      /\ Len(chain') = Len(chain) - 1
      /\ \A i \in 1..Len(chain') : chain'[i] = chain[i + 1] /\ i + 1 \in 1..Len(chain)
      /\ \A i \in 1..Len(chain) : i # 1 =>
             i - 1 \in 1..Len(chain') /\ chain'[i - 1] = chain[i]
      /\ chain' # <<>>
    BY <1>0, <1>1, <1>2, TailFacts DEF TypeOK
<1>4. 1 \in 1..Len(chain') /\ Len(chain') \in 1..Len(chain') /\ chain'[1] = chain[2]
    BY <1>0, <1>1, <1>3
<1>5. /\ pc[chain[2]] = "wait" /\ chain[2] # t /\ ~signal_pending[chain[2]]
      /\ \A x \in Threads : pc[x] \in Holding => x = t
      /\ \A x \in Threads : pc[x] # "wake"
      /\ \A x \in Threads : ~signal_pending[x]
    BY <1>0, <1>1 DEF OwnerInv, ChainInv, Holding, TypeOK
<1>6. \A x \in Threads : InChain(x) => InChain(x)' \/ x = t
    BY <1>0, <1>3 DEF InChain
<1>7. TypeOK'
    BY <1>2, <1>3 DEF TypeOK, PCs
<1>8. ChainInv'
    <2>1. \A i, j \in 1..Len(chain') : chain'[i] = chain'[j] => i = j
        BY <1>1, <1>3 DEF ChainInv
    <2>2. word' = chain'[Len(chain')]
        <3>1. Len(chain') + 1 = Len(chain)
            BY <1>1, <1>3
        <3>2. QED
            BY <1>0, <1>2, <1>3, <1>4, <3>1 DEF ChainInv
    <2>3. next'[chain'[1]] = NULL
        BY <1>1, <1>2, <1>4 DEF TypeOK
    <2>4. ASSUME NEW i \in 1..Len(chain'), i > 1
          PROVE  next'[chain'[i]] = chain'[i - 1]
        <3>1. /\ chain'[i] = chain[i + 1] /\ i + 1 \in 1..Len(chain)
              /\ i - 1 \in 1..Len(chain') /\ chain'[i - 1] = chain[(i - 1) + 1]
              /\ (i - 1) + 1 = i /\ (i + 1) - 1 = i /\ i + 1 # 2
            BY <1>3, <2>4
        <3>2. chain[i + 1] # chain[2] /\ next[chain[i + 1]] = chain[i]
            BY <1>1, <3>1 DEF ChainInv
        <3>3. QED
            BY <1>2, <3>1, <3>2 DEF TypeOK
    <2>5. ASSUME NEW x \in Threads, next'[x] # NULL
          PROVE  InChain(x)' \/ pc'[x] \in {"lock", "lock_swap"}
        <3>1. next[x] # NULL /\ x # t
            BY <1>0, <1>1, <1>2, <2>5 DEF ChainInv, TypeOK
        <3>2. QED
            BY <1>2, <1>6, <3>1 DEF ChainInv, TypeOK
    <2>6. QED
        BY <1>3, <2>1, <2>2, <2>3, <2>4, <2>5 DEF ChainInv
<1>9. OwnerInv'
    <2>1. \A i \in 1..Len(chain') : i > 1 => pc'[chain'[i]] = "wait"
        <3>1. SUFFICES ASSUME NEW i \in 1..Len(chain'), i > 1
                       PROVE  pc'[chain'[i]] = "wait"
            OBVIOUS
        <3>2. chain'[i] = chain[i + 1] /\ i + 1 \in 1..Len(chain) /\ i + 1 > 1
            BY <1>3, <3>1
        <3>3. QED
            BY <1>0, <1>2, <3>2 DEF OwnerInv, TypeOK
    <2>2. \A x \in Threads : pc'[x] = "wait" => InChain(x)'
        BY <1>0, <1>2, <1>6 DEF OwnerInv, TypeOK
    <2>3. /\ \A x \in Threads : pc'[x] \notin Holding
          /\ pc'[chain'[1]] = "wait"
          /\ \A x \in Threads : ~signal_pending'[x]
          /\ \A x \in Threads : pc'[x] = "wake" => x = t
          /\ towake'[t] = chain'[1]
        BY <1>0, <1>1, <1>2, <1>4, <1>5 DEF Holding, TypeOK
    <2>4. QED
        BY <1>3, <1>4, <1>1, <2>1, <2>2, <2>3 DEF OwnerInv
<1>10. LocalsInv'
    BY <1>0, <1>2, <1>5 DEF LocalsInv, Holding, TypeOK
<1>11. QED
    BY <1>7, <1>8, <1>9, <1>10

(* The end of the chain gets its signal, once. *)
LEMMA WakeupStep ==
    ASSUME IInv, NEW t \in Threads, Wakeup(t)
    PROVE  IInv'
<1> USE NullAssumption DEF IInv, Ids, Wakeup, Return, Goto
<1>0. /\ chain # <<>> /\ towake[t] = chain[1] /\ chain[1] \in Threads
      /\ pc[chain[1]] = "wait" /\ ~signal_pending[chain[1]]
      /\ \A u \in Threads : pc[u] = "wake" => u = t
    <2>1. chain # <<>>
        BY DEF OwnerInv
    <2>2. QED
        BY <2>1, TailFacts DEF OwnerInv, TypeOK
<1>1. TypeOK'
    BY <1>0 DEF TypeOK, PCs
<1>2. ChainInv'
    BY DEF ChainInv, InChain, TypeOK
<1>3. OwnerInv'
    BY <1>0 DEF OwnerInv, InChain, Holding, TypeOK
<1>4. LocalsInv'
    BY DEF LocalsInv, TypeOK
<1>5. QED
    BY <1>1, <1>2, <1>3, <1>4

(* IInv is inductive. *)
LEMMA StepIInv == IInv /\ [Next]_vars => IInv'
<1> SUFFICES ASSUME IInv, [Next]_vars PROVE IInv'
    OBVIOUS
<1>1. CASE UNCHANGED vars
    BY <1>1 DEF IInv, vars, TypeOK, ChainInv, OwnerInv, LocalsInv, InChain
<1>2. CASE Next
    BY <1>2, StepCases, LocalStep, LockSwapStep, LockWaitStep, TrylockSwapStep,
       UnlockReadStep, WalkStep, UnlockSwapStep, HandoffStep, WakeupStep
<1>3. QED
    BY <1>1, <1>2

(* The inductive invariant holds of every reachable state: the chain of    *)
(* next pointers is the arrival order, and its end is the one owner.       *)
THEOREM Invariance == Spec => []IInv
BY InitIInv, StepIInv, PTL DEF Spec

(* Mutual exclusion: lock returns to one thread at a time. *)
THEOREM MutexSafety == Spec => []MutualExclusion
<1>1. IInv => MutualExclusion
    BY DEF IInv, OwnerInv, MutualExclusion
<1>2. QED
    BY <1>1, Invariance, PTL

(* The checks of lw_mutex2b.c hold: unlock finds the waiter that points to *)
(* it, wakes it once, and leaves no pointer behind.                        *)
THEOREM VerifySafety == Spec => []VerifiesHold
<1>1. IInv => VerifiesHold
    <2> SUFFICES ASSUME IInv, NEW t \in Threads
                 PROVE  /\ pc[t] \in {"unlock_swap", "handoff"} =>
                              IF towake[t] = NULL THEN old[t] = t
                              ELSE next[towake[t]] = t
                        /\ pc[t] = "wake" => ~signal_pending[towake[t]]
                        /\ signal_pending[t] => pc[t] = "wait" /\ next[t] = NULL
                        /\ pc[t] = "idle" => next[t] = NULL
        BY DEF VerifiesHold
    <2>1. ASSUME pc[t] \in {"unlock_swap", "handoff"}
          PROVE  IF towake[t] = NULL THEN old[t] = t ELSE next[towake[t]] = t
        <3>1. CASE towake[t] = NULL
            BY <2>1, <3>1 DEF IInv, LocalsInv
        <3>2. CASE towake[t] # NULL
            <4>1. Len(chain) > 1 /\ towake[t] = chain[2] /\ chain[1] = t
                BY <2>1, <3>2 DEF IInv, LocalsInv, OwnerInv, Holding
            <4>2. 2 \in 1..Len(chain)
                BY <4>1 DEF IInv, TypeOK
            <4>3. QED
                BY <3>2, <4>1, <4>2 DEF IInv, ChainInv
        <3>3. QED
            BY <3>1, <3>2
    <2>2. pc[t] = "wake" => ~signal_pending[towake[t]]
        BY DEF IInv, OwnerInv
    <2>3. signal_pending[t] => pc[t] = "wait" /\ next[t] = NULL
        BY DEF IInv, OwnerInv, ChainInv
    <2>4. pc[t] = "idle" => next[t] = NULL
        <3>1. pc[t] = "idle" => ~InChain(t)
            BY DEF IInv, OwnerInv, InChain, Holding, TypeOK
        <3>2. QED
            BY <3>1 DEF IInv, ChainInv
    <2>5. QED
        BY <2>1, <2>2, <2>3, <2>4
<1>2. QED
    BY <1>1, Invariance, PTL

(* Every step of the 2-byte mutex is a step of the fair lock, or none. *)
LEMMA StepFairLock ==
    ASSUME IInv, [Next]_vars
    PROVE  [Fair!Next]_(Fair!lockVars)
<1> USE NullAssumption DEF Fair!lockVars
<1> DEFINE O == IF chain = <<>> THEN NULL ELSE Head(chain)
           Q == IF chain = <<>> THEN <<>> ELSE Tail(chain)
<1>1. CASE UNCHANGED chain
    BY <1>1
<1>2. ASSUME NEW t \in Threads, chain' = Append(chain, t), ~InChain(t)
      PROVE  Fair!Next
    <2>1. CASE chain = <<>>
        <3>1. O = NULL /\ O' = t /\ Q = <<>> /\ Q' = <<>>
            BY <1>2, <2>1
        <3>2. QED
            BY <3>1 DEF Fair!Next, Fair!Acquire
    <2>2. CASE chain # <<>>
        <3>1. chain \in Seq(Threads) /\ chain' # <<>>
            BY <1>2, <2>2 DEF IInv, TypeOK
        <3>2. O = Head(chain) /\ O' = O /\ Q = Tail(chain) /\ Q' = Append(Q, t)
            BY <1>2, <2>2, <3>1, HeadTailAppend
        <3>3. O \notin {NULL, t}
            BY <1>2, <2>2, <3>1, <3>2, TailFacts DEF InChain
        <3>4. \A i \in 1..Len(Q) : Q[i] # t
            BY <1>2, <2>2, <3>1, <3>2, TailFacts DEF InChain
        <3>5. QED
            BY <3>2, <3>3, <3>4 DEF Fair!Next, Fair!Enqueue
    <2>3. QED
        BY <2>1, <2>2
<1>3. ASSUME NEW t \in Threads, chain # <<>>, chain[1] = t, chain' = Tail(chain)
      PROVE  Fair!Next
    <2>1. chain \in Seq(Threads)
        BY DEF IInv, TypeOK
    <2>2. O = t /\ Q = Tail(chain)
        BY <1>3, <2>1, TailFacts
    <2>3. CASE Tail(chain) = <<>>
        <3>1. O' = NULL /\ Q' = <<>>
            BY <1>3, <2>3
        <3>2. QED
            BY <2>2, <2>3, <3>1 DEF Fair!Next, Fair!Release
    <2>4. CASE Tail(chain) # <<>>
        <3>1. O' = Head(Q) /\ Q' = Tail(Q)
            BY <1>3, <2>2, <2>4
        <3>2. QED
            BY <2>2, <2>4, <3>1 DEF Fair!Next, Fair!Release
    <2>5. QED
        BY <2>3, <2>4
<1>4. ASSUME NEW t \in Threads, LockSwap(t) \/ TrylockSwap(t)
      PROVE  \/ UNCHANGED chain
             \/ chain' = Append(chain, t) /\ ~InChain(t)
    <2>1. ~InChain(t)
        BY <1>4 DEF LockSwap, TrylockSwap, IInv, OwnerInv, InChain, Holding, TypeOK
    <2>2. QED
        BY <1>4, <2>1 DEF LockSwap, TrylockSwap
<1>5. ASSUME NEW t \in Threads, UnlockSwap(t) \/ Handoff(t)
      PROVE  \/ UNCHANGED chain
             \/ chain # <<>> /\ chain[1] = t /\ chain' = Tail(chain)
    <2>1. chain # <<>> /\ chain[1] = t
        BY <1>5 DEF UnlockSwap, Handoff, IInv, OwnerInv, Holding
    <2>2. QED
        BY <1>5, <2>1 DEF UnlockSwap, Handoff
<1>6. ASSUME NEW t \in Threads,
             \/ Lock(t) \/ LockRead(t) \/ LockWait(t) \/ Trylock(t)
             \/ Unlock(t) \/ UnlockRead(t) \/ Walk(t) \/ Wakeup(t)
      PROVE  UNCHANGED chain
    BY <1>6 DEF Lock, LockRead, LockWait, Trylock, Unlock, UnlockRead, Walk, Wakeup
<1>7. CASE UNCHANGED vars
    BY <1>1, <1>7 DEF vars
<1>8. QED
    BY <1>1, <1>2, <1>3, <1>4, <1>5, <1>6, <1>7, StepCases

(* The 2-byte mutex implements the fair hand-off lock although its word    *)
(* names neither the owner nor the oldest waiter.                          *)
THEOREM FairLockRefinement == Spec => ImplementsFairLock
<1>1. Init => Fair!Init
    BY DEF Init, Fair!Init
<1>2. IInv /\ [Next]_vars => [Fair!Next]_(Fair!lockVars)
    BY StepFairLock
<1>3. QED
    BY <1>1, <1>2, Invariance, PTL DEF Spec, ImplementsFairLock, Fair!Spec
===============================================================================
