----------------------------- MODULE LfStackProofs -----------------------------
(***************************************************************************)
(* The lock-free stack is linearizable, for any number of threads and      *)
(* elements, as long as fewer calls are made than the tag has values.      *)
(***************************************************************************)
EXTENDS LfStack, SequenceTheorems, FiniteSetTheorems, TLAPS

(* Putting an element in front of a sequence. *)
LEMMA Pushed ==
    ASSUME NEW S, NEW s \in Seq(S), NEW e \in S
    PROVE  /\ <<e>> \o s \in Seq(S)
           /\ Len(s) \in Nat
           /\ Len(<<e>> \o s) = Len(s) + 1
           /\ <<e>> \o s # <<>>
           /\ (<<e>> \o s)[1] = e
           /\ \A i \in 1..Len(s) : (<<e>> \o s)[i + 1] = s[i]
           /\ \A i \in 1..(Len(s) + 1) : i # 1 => (<<e>> \o s)[i] = s[i - 1]
<1>1. <<e>> \in Seq(S) /\ Len(<<e>>) = 1 /\ <<e>>[1] = e
    OBVIOUS
<1>2. Len(s) \in Nat
    BY LenProperties
<1>3. /\ <<e>> \o s \in Seq(S)
      /\ Len(<<e>> \o s) = 1 + Len(s)
      /\ \A i \in 1..(1 + Len(s)) :
            (<<e>> \o s)[i] = IF i <= 1 THEN <<e>>[i] ELSE s[i - 1]
    BY <1>1, ConcatProperties
<1>4. <<e>> \o s # <<>>
    BY <1>1, <1>2, <1>3, EmptySeq
<1>5. (<<e>> \o s)[1] = e
    BY <1>1, <1>2, <1>3
<1>6. \A i \in 1..(Len(s) + 1) : i # 1 => (<<e>> \o s)[i] = s[i - 1]
    BY <1>2, <1>3
<1>7. \A i \in 1..Len(s) : (<<e>> \o s)[i + 1] = s[i]
    <2> TAKE i \in 1..Len(s)
    <2>1. i + 1 \in 1..(Len(s) + 1) /\ i + 1 # 1 /\ (i + 1) - 1 = i
        BY <1>2
    <2>2. (<<e>> \o s)[i + 1] = s[(i + 1) - 1]
        BY <2>1, <1>6
    <2> QED BY <2>1, <2>2
<1> QED
    BY <1>2, <1>3, <1>4, <1>5, <1>6, <1>7

(* Taking the first element off. *)
LEMMA Popped ==
    ASSUME NEW S, NEW s \in Seq(S), s # <<>>
    PROVE  /\ Len(s) \in Nat /\ Len(s) >= 1
           /\ s[1] \in S /\ Head(s) = s[1]
           /\ Tail(s) \in Seq(S)
           /\ Len(Tail(s)) = Len(s) - 1
           /\ Tail(s) = <<>> => Len(s) = 1
           /\ Len(s) = 1 => Tail(s) = <<>>
           /\ \A i \in 1..(Len(s) - 1) : Tail(s)[i] = s[i + 1]
<1>1. Len(s) \in Nat \ {0}
    BY EmptySeq, LenProperties
<1>2. s \in [1..Len(s) -> S]
    BY LenProperties
<1>3. /\ Tail(s) \in Seq(S) /\ Len(Tail(s)) = Len(s) - 1
      /\ \A i \in 1..Len(Tail(s)) : Tail(s)[i] = s[i + 1]
    BY HeadTailProperties
<1>4. s[1] \in S
    BY <1>1, <1>2
<1>5. Tail(s) = <<>> => Len(s) = 1
    BY <1>1, <1>3, EmptySeq
<1>6. Len(s) = 1 => Tail(s) = <<>>
    <2>1. Tail(s) # <<>> => Len(Tail(s)) # 0
        BY <1>3, EmptySeq
    <2> QED BY <2>1, <1>3
<1> QED
    BY <1>1, <1>3, <1>4, <1>5, <1>6

(* The set of threads that may still swap is finite. *)
LEMMA ActiveFinite == IsFiniteSet(Active) /\ Cardinality(Active) \in Nat
<1>1. Active \in SUBSET Threads
    BY DEF Active
<1> QED
    BY <1>1, ThreadsAssumption, FS_Subset, FS_CardinalityType

(* A call begins: there is one more thread that may swap. *)
LEMMA ActiveGrows ==
    ASSUME NEW t \in Threads, pc[t] = "idle", TypeOK,
           NEW l \in {"push", "pop"}, pc' = [pc EXCEPT ![t] = l]
    PROVE  Active' = Active \cup {t} /\ Cardinality(Active') = Cardinality(Active) + 1
<1>1. Active' = Active \cup {t} /\ t \notin Active
    BY DEF Active, TypeOK
<1> QED
    BY <1>1, ActiveFinite, FS_AddElement

(* A call has swapped, or found the stack empty: there is one less. *)
LEMMA ActiveShrinks ==
    ASSUME NEW t \in Threads, t \in Active, TypeOK,
           NEW l \in {"idle", "pop_clear"}, pc' = [pc EXCEPT ![t] = l]
    PROVE  Active' = Active \ {t} /\ Cardinality(Active') = Cardinality(Active) - 1
<1>1. Active' = Active \ {t}
    BY DEF Active, TypeOK
<1> QED
    BY <1>1, ActiveFinite, FS_RemoveElement

(* A call goes on, or one that has swapped returns: there are as many. *)
LEMMA ActiveSame ==
    ASSUME NEW t \in Threads, TypeOK,
           NEW l \in STRING, pc' = [pc EXCEPT ![t] = l],
           pc[t] \in {"push", "push_swap", "pop", "pop_swap"} <=>
               l \in {"push", "push_swap", "pop", "pop_swap"}
    PROVE  Active' = Active
BY DEF Active, TypeOK

(* lf_stack_init sets up a linked stack, or none. *)
LEMMA InitIInv == Init => IInv
<1> SUFFICES ASSUME Init PROVE IInv
    OBVIOUS
<1> USE BoundsAssumption DEF Init, NULL, Elems, Ids
<1>1. CASE /\ stk = [i \in Elems |-> NumElems + 1 - i]
           /\ top = [next |-> NumElems, aba_tag |-> 0]
           /\ held = [t \in Threads |-> {}]
    <2>1. stk \in Seq(Elems) /\ Len(stk) = NumElems
        BY <1>1, IsASeq
    <2>2. TypeOK
        BY <1>1, <2>1 DEF TypeOK, Tops
    <2>3. NumElems = 0 <=> stk = <<>>
        BY <2>1, EmptySeq
    <2>4. LinkInv
        <3>1. \A i \in 1..Len(stk) : stk[i] = NumElems + 1 - i
            BY <1>1, <2>1
        <3>2. \A i, j \in 1..Len(stk) : stk[i] = stk[j] => i = j
            BY <2>1, <3>1
        <3>3. top.next = IF stk = <<>> THEN NULL ELSE stk[1]
            <4>1. CASE NumElems = 0
                BY <4>1, <1>1, <2>3
            <4>2. CASE NumElems # 0
                <5>1. 1 \in 1..Len(stk)
                    BY <4>2, <2>1
                <5>2. stk[1] = NumElems + 1 - 1
                    BY <5>1, <3>1
                <5>3. stk # <<>>
                    BY <4>2, <2>3
                <5>4. top.next = NumElems /\ NumElems + 1 - 1 = NumElems
                    BY <1>1
                <5> HIDE DEF Init
                <5> QED BY <5>2, <5>3, <5>4
            <4> QED BY <4>1, <4>2
        <3>4. ASSUME NEW i \in 1..Len(stk)
              PROVE  next[stk[i]] = IF i = Len(stk) THEN NULL ELSE stk[i + 1]
            <4>1. i \in 1..NumElems /\ stk[i] = NumElems + 1 - i
                BY <2>1, <3>1
            <4>2. stk[i] \in 1..NumElems
                BY <4>1
            <4>3. next[stk[i]] = stk[i] - 1
                BY <4>2
            <4>4. CASE i = Len(stk)
                BY <4>1, <4>3, <4>4, <2>1
            <4>5. CASE i # Len(stk)
                <5>1. i + 1 \in 1..Len(stk)
                    BY <4>5, <4>1, <2>1
                <5>2. stk[i + 1] = NumElems + 1 - (i + 1)
                    BY <5>1, <3>1
                <5> QED BY <4>1, <4>3, <4>5, <5>2
            <4> QED BY <4>4, <4>5
        <3> QED BY <3>2, <3>3, <3>4 DEF LinkInv
    <2>6. TagInv
        <3>1. Active = {}
            BY DEF Active
        <3> QED BY <1>1, <3>1, FS_EmptySet DEF TagInv
    <2>7. LocalsInv
        BY DEF LocalsInv
    <2>5. EachElementOnce
        <3>1. ASSUME NEW e \in Elems PROVE OnStack(e)
            <4>1. NumElems + 1 - e \in Elems /\ stk[NumElems + 1 - e] = e
                BY <1>1
            <4> QED BY <4>1, <2>1 DEF OnStack
        <3> QED BY <1>1, <3>1 DEF EachElementOnce
    <2> QED
        BY <2>2, <2>4, <2>5, <2>6, <2>7 DEF IInv
<1>2. CASE /\ stk = <<>>
           /\ top = [next |-> NULL, aba_tag |-> 0]
           /\ held \in [Threads -> SUBSET Elems]
           /\ \A e \in Elems : \E t \in Threads : e \in held[t]
           /\ \A t, u \in Threads : t # u => held[t] \cap held[u] = {}
    <2>1. stk \in Seq(Elems) /\ Len(stk) = 0
        BY <1>2, EmptySeq
    <2>2. TypeOK
        BY <1>2, <2>1 DEF TypeOK, Tops
    <2>3. LinkInv /\ EachElementOnce
        BY <1>2, <2>1 DEF LinkInv, EachElementOnce, OnStack
    <2>4. TagInv
        <3>1. Active = {}
            BY DEF Active
        <3> QED BY <1>2, <3>1, FS_EmptySet DEF TagInv
    <2>5. LocalsInv
        BY DEF LocalsInv
    <2> QED
        BY <2>2, <2>3, <2>4, <2>5 DEF IInv
<1> QED
    BY <1>1, <1>2

(* Writing to elements that are not on the stack keeps it linked. *)
LEMMA LinksKept ==
    ASSUME TypeOK, LinkInv, UNCHANGED <<top, stk>>,
           \A e \in Elems : OnStack(e) => next'[e] = next[e]
    PROVE  LinkInv'
<1>1. \A i \in 1..Len(stk) : stk[i] \in Elems /\ OnStack(stk[i])
    BY LenProperties DEF TypeOK, OnStack
<1> QED
    BY <1>1 DEF LinkInv

(* An element the top points to is on the stack. *)
LEMMA TopOnStack ==
    ASSUME TypeOK, LinkInv, top.next # NULL
    PROVE  /\ stk # <<>> /\ top.next = stk[1]
           /\ top.next \in Elems /\ OnStack(top.next)
<1>1. stk # <<>> /\ top.next = stk[1]
    BY DEF LinkInv
<1>2. Len(stk) \in Nat /\ Len(stk) >= 1 /\ stk[1] \in Elems
    BY <1>1, Popped DEF TypeOK
<1> QED
    BY <1>1, <1>2 DEF OnStack

(* A client writes to an element it has. *)
LEMMA UseStep ==
    ASSUME IInv, NEW t \in Threads, Use(t) PROVE IInv'
<1> USE DEF IInv
<1>1. PICK e \in held[t], i \in Ids : next' = [next EXCEPT ![e] = i]
    BY DEF Use
<1>2. e \in Elems /\ ~OnStack(e) /\ next \in [Elems -> Ids]
    BY <1>1 DEF TypeOK, EachElementOnce
<1>3. UNCHANGED <<top, held, pc, old, elem, succ, stk, calls>> /\ pc[t] = "idle"
    BY DEF Use
<1>4. TypeOK'
    BY <1>1, <1>2, <1>3 DEF TypeOK
<1>5. LinkInv'
    BY <1>1, <1>2, <1>3, LinksKept
<1>6. EachElementOnce'
    BY <1>3 DEF EachElementOnce, OnStack
<1>7. TagInv'
    BY <1>3 DEF TagInv, Active
<1>8. LocalsInv'
    <2> SUFFICES ASSUME NEW u \in Threads
                 PROVE  /\ pc[u] \in {"push", "push_swap", "pop_clear"} =>
                                elem[u] \in held[u]
                        /\ pc[u] = "push_swap" => next'[elem[u]] = old[u].next
                        /\ pc[u] = "pop_swap" =>
                              /\ old[u].next # NULL
                              /\ old[u] = top => succ[u] = next'[old[u].next]
        BY <1>3 DEF LocalsInv
    <2>1. pc[u] = "push_swap" => next'[elem[u]] = next[elem[u]]
        BY <1>1, <1>2, <1>3 DEF LocalsInv, EachElementOnce, TypeOK
    <2>2. pc[u] = "pop_swap" /\ old[u] = top => next'[old[u].next] = next[old[u].next]
        BY <1>1, <1>2, TopOnStack DEF LocalsInv, TypeOK
    <2> QED
        BY <2>1, <2>2 DEF LocalsInv
<1> QED
    BY <1>4, <1>5, <1>6, <1>7, <1>8

(* The stack and the elements do not depend on the locals. *)
LEMMA ElementsKept ==
    ASSUME LinkInv, EachElementOnce, UNCHANGED <<top, next, held, stk>>
    PROVE  LinkInv' /\ EachElementOnce'
BY DEF LinkInv, EachElementOnce, OnStack

(* push and pop begin with a snapshot of the top. *)
LEMMA PushStep ==
    ASSUME IInv, NEW t \in Threads, Push(t) PROVE IInv'
<1> USE DEF IInv
<1>1. PICK e \in held[t] : elem' = [elem EXCEPT ![t] = e]
    BY DEF Push
<1>2. /\ UNCHANGED <<top, next, held, succ, stk>>
      /\ old' = [old EXCEPT ![t] = top] /\ pc' = [pc EXCEPT ![t] = "push"]
      /\ pc[t] = "idle" /\ calls < MaxCalls /\ calls' = calls + 1
    BY DEF Push, Begin, Goto
<1>3. e \in Elems /\ e \in Ids
    BY <1>1, BoundsAssumption DEF TypeOK, Elems, Ids
<1>4. TypeOK'
    BY <1>1, <1>2, <1>3, BoundsAssumption DEF TypeOK
<1>5. LinkInv' /\ EachElementOnce'
    BY <1>2, ElementsKept
<1>6. TagInv'
    <2>1. Active' = Active \cup {t} /\ Cardinality(Active') = Cardinality(Active) + 1
        BY <1>2, ActiveGrows
    <2>2. top.aba_tag \in Nat /\ calls \in Nat
        BY DEF TypeOK, Tops
    <2>3. top'.aba_tag + Cardinality(Active') <= calls'
        BY <1>2, <2>1, <2>2, ActiveFinite DEF TagInv
    <2>4. \A u \in Active' : /\ old'[u].aba_tag <= top'.aba_tag
                             /\ old'[u].aba_tag = top'.aba_tag => old'[u] = top'
        <3>1. old'[t] = top'
            BY <1>2 DEF TypeOK
        <3>2. \A u \in Active : u # t => u \in Threads /\ old'[u] = old[u]
            BY <1>2 DEF TypeOK, Active
        <3> QED BY <1>2, <2>1, <2>2, <3>1, <3>2 DEF TagInv
    <2> QED
        BY <2>3, <2>4 DEF TagInv
<1>7. LocalsInv'
    BY <1>1, <1>2 DEF LocalsInv, TypeOK
<1> QED
    BY <1>4, <1>5, <1>6, <1>7

LEMMA PopStep ==
    ASSUME IInv, NEW t \in Threads, Pop(t) PROVE IInv'
<1> USE DEF IInv
<1>1. /\ UNCHANGED <<top, next, held, elem, succ, stk>>
      /\ old' = [old EXCEPT ![t] = top] /\ pc' = [pc EXCEPT ![t] = "pop"]
      /\ pc[t] = "idle" /\ calls < MaxCalls /\ calls' = calls + 1
    BY DEF Pop, Begin, Goto
<1>2. TypeOK'
    BY <1>1, BoundsAssumption DEF TypeOK
<1>3. LinkInv' /\ EachElementOnce'
    BY <1>1, ElementsKept
<1>4. TagInv'
    <2>1. Active' = Active \cup {t} /\ Cardinality(Active') = Cardinality(Active) + 1
        BY <1>1, ActiveGrows
    <2>2. top.aba_tag \in Nat /\ calls \in Nat
        BY DEF TypeOK, Tops
    <2>3. top'.aba_tag + Cardinality(Active') <= calls'
        BY <1>1, <2>1, <2>2, ActiveFinite DEF TagInv
    <2>4. \A u \in Active' : /\ old'[u].aba_tag <= top'.aba_tag
                             /\ old'[u].aba_tag = top'.aba_tag => old'[u] = top'
        <3>1. old'[t] = top'
            BY <1>1 DEF TypeOK
        <3>2. \A u \in Active : u # t => u \in Threads /\ old'[u] = old[u]
            BY <1>1 DEF TypeOK, Active
        <3> QED BY <1>1, <2>1, <2>2, <3>1, <3>2 DEF TagInv
    <2> QED
        BY <2>3, <2>4 DEF TagInv
<1>5. LocalsInv'
    BY <1>1 DEF LocalsInv, TypeOK
<1> QED
    BY <1>2, <1>3, <1>4, <1>5

(* push writes to its own element only. *)
LEMMA PushLinkStep ==
    ASSUME IInv, NEW t \in Threads, PushLink(t) PROVE IInv'
<1> USE DEF IInv
<1>1. /\ UNCHANGED <<top, held, old, elem, succ, stk, calls>>
      /\ pc[t] = "push" /\ pc' = [pc EXCEPT ![t] = "push_swap"]
      /\ next' = [next EXCEPT ![elem[t]] = old[t].next]
    BY DEF PushLink, Goto
<1>2. /\ elem[t] \in held[t] /\ elem[t] \in Elems /\ ~OnStack(elem[t])
      /\ old[t].next \in Ids /\ next \in [Elems -> Ids]
    BY <1>1 DEF LocalsInv, EachElementOnce, TypeOK, Tops
<1>3. TypeOK'
    BY <1>1, <1>2 DEF TypeOK
<1>4. LinkInv'
    BY <1>1, <1>2, LinksKept
<1>5. EachElementOnce'
    BY <1>1 DEF EachElementOnce, OnStack
<1>6. Active' = Active
    BY <1>1 DEF Active, TypeOK
<1>7. TagInv'
    BY <1>1, <1>6 DEF TagInv
<1>8. LocalsInv'
    <2> SUFFICES ASSUME NEW u \in Threads, u # t
                 PROVE  /\ pc[u] = "push_swap" => next'[elem[u]] = next[elem[u]]
                        /\ pc[u] = "pop_swap" /\ old[u] = top =>
                              next'[old[u].next] = next[old[u].next]
        BY <1>1, <1>2 DEF LocalsInv, TypeOK
    <2>1. pc[u] = "push_swap" => next'[elem[u]] = next[elem[u]]
        BY <1>1, <1>2 DEF LocalsInv, EachElementOnce, TypeOK
    <2>2. pc[u] = "pop_swap" /\ old[u] = top => next'[old[u].next] = next[old[u].next]
        BY <1>1, <1>2, TopOnStack DEF LocalsInv, TypeOK
    <2> QED
        BY <2>1, <2>2
<1> QED
    BY <1>3, <1>4, <1>5, <1>7, <1>8

(* So does pop, to the element it has taken. *)
LEMMA PopClearStep ==
    ASSUME IInv, NEW t \in Threads, PopClear(t) PROVE IInv'
<1> USE DEF IInv
<1>1. /\ UNCHANGED <<top, held, stk, calls>>
      /\ pc[t] = "pop_clear" /\ pc' = [pc EXCEPT ![t] = "idle"]
      /\ next' = [next EXCEPT ![elem[t]] = NULL]
      /\ old' = [old EXCEPT ![t] = [next |-> NULL, aba_tag |-> 0]]
      /\ elem' = [elem EXCEPT ![t] = NULL]
      /\ succ' = [succ EXCEPT ![t] = NULL]
    BY DEF PopClear, Return, Goto
<1>2. /\ elem[t] \in held[t] /\ elem[t] \in Elems /\ ~OnStack(elem[t])
      /\ NULL \in Ids /\ next \in [Elems -> Ids]
    BY <1>1, BoundsAssumption DEF LocalsInv, EachElementOnce, TypeOK, NULL, Ids
<1>3. TypeOK'
    BY <1>1, <1>2 DEF TypeOK, Tops
<1>4. LinkInv'
    BY <1>1, <1>2, LinksKept
<1>5. EachElementOnce'
    BY <1>1 DEF EachElementOnce, OnStack
<1>6. Active' = Active /\ t \notin Active
    BY <1>1, ActiveSame DEF Active
<1>7. TagInv'
    <2>1. \A u \in Active : old'[u] = old[u]
        BY <1>1, <1>6 DEF TypeOK, Active
    <2> QED BY <1>1, <1>6, <2>1 DEF TagInv
<1>8. LocalsInv'
    <2> SUFFICES ASSUME NEW u \in Threads, u # t
                 PROVE  /\ pc[u] = "push_swap" => next'[elem[u]] = next[elem[u]]
                        /\ pc[u] = "pop_swap" /\ old[u] = top =>
                              next'[old[u].next] = next[old[u].next]
        BY <1>1, <1>2 DEF LocalsInv, TypeOK
    <2>1. pc[u] = "push_swap" => next'[elem[u]] = next[elem[u]]
        BY <1>1, <1>2 DEF LocalsInv, EachElementOnce, TypeOK
    <2>2. pc[u] = "pop_swap" /\ old[u] = top => next'[old[u].next] = next[old[u].next]
        BY <1>1, <1>2, TopOnStack DEF LocalsInv, TypeOK
    <2> QED
        BY <2>1, <2>2
<1> QED
    BY <1>3, <1>4, <1>5, <1>7, <1>8

(* A failed swap takes a new snapshot. *)
LEMMA SwapFails ==
    ASSUME IInv, NEW t \in Threads, t \in Active, NEW l \in {"push", "pop"},
           l = "push" => elem[t] \in held[t],
           UNCHANGED <<top, next, held, stk, elem, succ, calls>>,
           old' = [old EXCEPT ![t] = top], pc' = [pc EXCEPT ![t] = l]
    PROVE  IInv'
<1> USE DEF IInv
<1>1. TypeOK'
    BY DEF TypeOK
<1>2. LinkInv' /\ EachElementOnce'
    BY ElementsKept
<1>3. Active' = Active
    BY DEF Active, TypeOK
<1>4. TagInv'
    <2>1. old'[t] = top'
        BY DEF TypeOK
    <2>2. \A u \in Active : u # t => old'[u] = old[u]
        BY DEF TypeOK, Active
    <2>3. top.aba_tag \in Nat
        BY DEF TypeOK, Tops
    <2> QED BY <1>3, <2>1, <2>2, <2>3 DEF TagInv
<1>5. LocalsInv'
    BY DEF LocalsInv, TypeOK
<1> QED
    BY <1>1, <1>2, <1>4, <1>5

(* pop finds the stack empty, or reads the successor. *)
LEMMA PopReadStep ==
    ASSUME IInv, NEW t \in Threads, PopRead(t) PROVE IInv'
<1> USE DEF IInv
<1>1. UNCHANGED <<top, next, held, stk, calls>> /\ pc[t] = "pop" /\ t \in Active
    BY DEF PopRead, Active
<1>2. LinkInv' /\ EachElementOnce'
    BY <1>1, ElementsKept
<1>3. CASE old[t].next = NULL
    <2>1. /\ pc' = [pc EXCEPT ![t] = "idle"]
          /\ old' = [old EXCEPT ![t] = [next |-> NULL, aba_tag |-> 0]]
          /\ elem' = [elem EXCEPT ![t] = NULL]
          /\ succ' = [succ EXCEPT ![t] = NULL]
        BY <1>3 DEF PopRead, Return, Goto
    <2>2. TypeOK'
        BY <1>1, <2>1, BoundsAssumption DEF TypeOK, Tops, NULL, Ids
    <2>3. Active' = Active \ {t} /\ Cardinality(Active') = Cardinality(Active) - 1
        BY <1>1, <2>1, ActiveShrinks
    <2>4. TagInv'
        <3>1. \A u \in Active' : u \in Active /\ old'[u] = old[u]
            BY <2>1, <2>3 DEF TypeOK, Active
        <3>2. top.aba_tag \in Nat /\ calls \in Nat
            BY DEF TypeOK, Tops
        <3>3. top.aba_tag + Cardinality(Active') <= calls
            BY <2>3, <3>2, ActiveFinite DEF TagInv
        <3> QED BY <1>1, <3>1, <3>3 DEF TagInv
    <2>5. LocalsInv'
        BY <1>1, <2>1 DEF LocalsInv, TypeOK
    <2> QED
        BY <1>2, <2>2, <2>4, <2>5
<1>4. CASE old[t].next # NULL
    <2>1. /\ pc' = [pc EXCEPT ![t] = "pop_swap"]
          /\ succ' = [succ EXCEPT ![t] = next[old[t].next]]
          /\ UNCHANGED <<old, elem>>
        BY <1>4 DEF PopRead, Goto
    <2>2. old[t].next \in Elems
        <3>1. old[t].next \in Ids
            BY DEF TypeOK, Tops
        <3> QED BY <1>4, <3>1, BoundsAssumption DEF Ids, Elems, NULL
    <2>3. TypeOK'
        BY <1>1, <2>1, <2>2 DEF TypeOK
    <2>4. Active' = Active
        BY <1>1, <2>1 DEF Active, TypeOK
    <2>5. TagInv'
        BY <1>1, <2>1, <2>4 DEF TagInv
    <2>6. LocalsInv'
        BY <1>1, <1>4, <2>1 DEF LocalsInv, TypeOK
    <2> QED
        BY <1>2, <2>3, <2>5, <2>6
<1> QED
    BY <1>3, <1>4

(* What a successful swap does to the tag, and to everybody's snapshot:    *)
(* none of them is the top any more.                                       *)
LEMMA SwapTag ==
    ASSUME IInv, NEW t \in Threads, t \in Active, top = old[t],
           top'.aba_tag = Bumped(old[t]), top' \in Tops,
           NEW l \in {"idle", "pop_clear"}, pc' = [pc EXCEPT ![t] = l],
           \A u \in Threads : u # t => old'[u] = old[u], UNCHANGED calls
    PROVE  /\ TagInv'
           /\ \A u \in Active' : old'[u] # top'
<1> USE DEF IInv
<1>1. Active' = Active \ {t} /\ Cardinality(Active') = Cardinality(Active) - 1
    BY ActiveShrinks
<1>2. /\ top.aba_tag \in Nat /\ calls \in Nat /\ calls <= MaxCalls
      /\ \A u \in Threads : old[u].aba_tag \in Nat
    BY BoundsAssumption DEF TypeOK, Tops
<1>3. Cardinality(Active) \in Nat /\ Cardinality(Active) >= 1
    <2>1. Cardinality(Active') \in Nat
        BY <1>1, ActiveFinite, FS_RemoveElement, FS_CardinalityType
    <2> QED BY <1>1, <2>1, ActiveFinite
<1>4. top.aba_tag + Cardinality(Active) <= calls
    BY DEF TagInv
<1>5. top'.aba_tag = top.aba_tag + 1
    BY <1>2, <1>3, <1>4, BoundsAssumption DEF Bumped
<1>6. \A u \in Active' : u \in Active /\ old'[u] = old[u] /\ old[u].aba_tag \in Nat
    BY <1>1, <1>2 DEF Active
<1>7. \A u \in Active' : old'[u].aba_tag < top'.aba_tag
    BY <1>2, <1>5, <1>6 DEF TagInv
<1>8. top'.aba_tag + Cardinality(Active') <= calls'
    BY <1>1, <1>2, <1>3, <1>4, <1>5
<1>9. \A u \in Active' : old'[u].aba_tag # top'.aba_tag /\ old'[u].aba_tag <= top'.aba_tag
    BY <1>2, <1>5, <1>6, <1>7
<1> QED
    BY <1>8, <1>9 DEF TagInv

(* push: the element goes from its thread to the front of the stack. *)
LEMMA PushSwapStep ==
    ASSUME IInv, NEW t \in Threads, PushSwap(t) PROVE IInv'
<1> USE DEF IInv
<1>1. /\ UNCHANGED <<next, calls>> /\ pc[t] = "push_swap" /\ t \in Active
      /\ elem[t] \in held[t] /\ next[elem[t]] = old[t].next
    BY DEF PushSwap, Active, LocalsInv
<1>2. CASE top # old[t]
    BY <1>1, <1>2, SwapFails DEF PushSwap, Goto
<1>3. CASE top = old[t]
    <2>0. PICK e \in Elems : e = elem[t]
        BY <1>1 DEF TypeOK
    <2>1. /\ top' = [next |-> e, aba_tag |-> Bumped(old[t])]
          /\ held' = [held EXCEPT ![t] = @ \ {e}]
          /\ stk' = <<e>> \o stk
          /\ pc' = [pc EXCEPT ![t] = "idle"]
          /\ old' = [old EXCEPT ![t] = [next |-> NULL, aba_tag |-> 0]]
          /\ elem' = [elem EXCEPT ![t] = NULL]
          /\ succ' = [succ EXCEPT ![t] = NULL]
        BY <1>3, <2>0 DEF PushSwap, Return, Goto
    <2>2. e \in Elems /\ e \in Ids /\ ~OnStack(e) /\ e # NULL
        BY <1>1, <2>0, BoundsAssumption DEF TypeOK, Elems, Ids, EachElementOnce, NULL
    <2>3. /\ stk' \in Seq(Elems) /\ Len(stk) \in Nat /\ Len(stk') = Len(stk) + 1
          /\ stk' # <<>> /\ stk'[1] = e
          /\ \A i \in 1..Len(stk) : stk'[i + 1] = stk[i]
          /\ \A i \in 1..(Len(stk) + 1) : i # 1 => stk'[i] = stk[i - 1]
        BY <2>1, <2>2, Pushed DEF TypeOK
    <2>4. top' \in Tops /\ top'.aba_tag = Bumped(old[t]) /\ top'.next = e
        BY <2>1, <2>2, BoundsAssumption DEF TypeOK, Tops, Bumped
    <2>5. TypeOK'
        <3>1. NULL \in Ids
            BY BoundsAssumption DEF NULL, Ids
        <3> QED BY <1>1, <2>1, <2>2, <2>3, <2>4, <3>1 DEF TypeOK, Tops
    <2>6. LinkInv'
        <3>1. \A i \in 1..Len(stk) : stk[i] # e
            BY <2>2 DEF OnStack
        <3>2. ASSUME NEW i \in 1..Len(stk'), NEW j \in 1..Len(stk'), stk'[i] = stk'[j]
              PROVE  i = j
            <4>1. CASE i = 1 \/ j = 1
                BY <4>1, <3>1, <3>2, <2>3
            <4>2. CASE i # 1 /\ j # 1
                <5>1. i - 1 \in 1..Len(stk) /\ j - 1 \in 1..Len(stk)
                    BY <4>2, <2>3
                <5>2. stk[i - 1] = stk[j - 1]
                    BY <4>2, <3>2, <2>3
                <5>3. i - 1 = j - 1
                    BY <5>1, <5>2 DEF LinkInv
                <5> QED BY <5>3, <2>3
            <4> QED BY <4>1, <4>2
        <3>3. ASSUME NEW i \in 1..Len(stk')
              PROVE  next[stk'[i]] = IF i = Len(stk') THEN NULL ELSE stk'[i + 1]
            <4>1. CASE i = 1
                <5>1. next[stk'[i]] = top.next
                    BY <4>1, <1>1, <1>3, <2>0, <2>3
                <5>2. CASE stk = <<>>
                    <6>1. Len(stk) = 0
                        BY <5>2, EmptySeq
                    <6> QED BY <4>1, <5>1, <5>2, <6>1, <2>3 DEF LinkInv
                <5>3. CASE stk # <<>>
                    <6>1. Len(stk) >= 1
                        BY <5>3, Popped DEF TypeOK
                    <6>2. stk'[2] = stk[1]
                        <7>1. 1 \in 1..Len(stk) /\ 1 + 1 = 2
                            BY <6>1, <2>3
                        <7> QED BY <7>1, <2>3
                    <6> QED BY <4>1, <5>1, <5>3, <6>1, <6>2, <2>3 DEF LinkInv
                <5> QED BY <5>2, <5>3
            <4>2. CASE i # 1
                <5>1. i - 1 \in 1..Len(stk) /\ stk'[i] = stk[i - 1] /\ (i - 1) + 1 = i
                    BY <4>2, <2>3
                <5>2. next[stk[i - 1]] = IF i - 1 = Len(stk) THEN NULL ELSE stk[i]
                    BY <5>1 DEF LinkInv
                <5>3. i - 1 = Len(stk) => i = Len(stk')
                    BY <2>3
                <5>4. i - 1 # Len(stk) => i # Len(stk') /\ stk'[i + 1] = stk[i]
                    <6>1. i - 1 # Len(stk) => i \in 1..Len(stk) /\ i # Len(stk')
                        BY <5>1, <2>3
                    <6> QED BY <6>1, <2>3
                <5> QED BY <5>1, <5>2, <5>3, <5>4
            <4> QED BY <4>1, <4>2
        <3> QED BY <1>1, <2>3, <2>4, <3>2, <3>3 DEF LinkInv
    <2>7. EachElementOnce'
        <3>1. ASSUME NEW x \in Elems, OnStack(x) PROVE OnStack(x)'
            <4>1. PICK i \in 1..Len(stk) : stk[i] = x
                BY <3>1 DEF OnStack
            <4>2. i + 1 \in 1..Len(stk') /\ stk'[i + 1] = x
                BY <4>1, <2>3
            <4> QED BY <4>2 DEF OnStack
        <3>2. OnStack(e)'
            <4>1. 1 \in 1..Len(stk') /\ stk'[1] = e
                BY <2>3
            <4> QED BY <4>1 DEF OnStack
        <3>3. ASSUME NEW x \in Elems, x # e, OnStack(x)' PROVE OnStack(x)
            <4>1. PICK i \in 1..Len(stk') : stk'[i] = x
                BY <3>3 DEF OnStack
            <4>2. i # 1
                BY <4>1, <3>3, <2>3
            <4>3. i - 1 \in 1..Len(stk) /\ stk[i - 1] = x
                BY <4>1, <4>2, <2>3
            <4> QED BY <4>3 DEF OnStack
        <3>4. /\ \A u \in Threads : u # t => held'[u] = held[u]
              /\ held'[t] = held[t] \ {e}
              /\ \A u \in Threads : held[u] \subseteq Elems
            BY <2>1 DEF TypeOK
        <3>5. \A u \in Threads : u # t => e \notin held[u]
            BY <1>1, <2>0 DEF EachElementOnce
        <3> QED BY <3>1, <3>2, <3>3, <3>4, <3>5 DEF EachElementOnce
    <2>8. TagInv' /\ \A u \in Active' : old'[u] # top'
        <3>1. \A u \in Threads : u # t => old'[u] = old[u]
            BY <2>1 DEF TypeOK
        <3> QED BY <1>1, <1>3, <2>1, <2>4, <3>1, SwapTag
    <2>9. LocalsInv'
        <3> SUFFICES ASSUME NEW u \in Threads, u # t
                     PROVE  /\ pc[u] \in {"push", "push_swap", "pop_clear"} =>
                                    elem[u] \in held'[u]
                            /\ pc[u] = "pop_swap" => old[u] # top'
            BY <1>1, <2>1 DEF LocalsInv, TypeOK
        <3>1. held'[u] = held[u] /\ pc'[u] = pc[u] /\ old'[u] = old[u]
            BY <2>1 DEF TypeOK
        <3>2. pc[u] = "pop_swap" => u \in Active'
            BY <3>1 DEF Active
        <3> QED BY <3>1, <3>2, <2>8 DEF LocalsInv
    <2> QED
        BY <2>5, <2>6, <2>7, <2>8, <2>9
<1> QED
    BY <1>2, <1>3

(* pop: the first element goes from the stack to the caller.  As the tag   *)
(* has not changed the successor it has read is the second element.        *)
LEMMA PopSwapStep ==
    ASSUME IInv, NEW t \in Threads, PopSwap(t) PROVE IInv'
<1> USE DEF IInv
<1>1. /\ UNCHANGED <<next, calls>> /\ pc[t] = "pop_swap" /\ t \in Active
      /\ old[t].next # NULL
      /\ old[t] = top => succ[t] = next[old[t].next]
    BY DEF PopSwap, Active, LocalsInv
<1>2. CASE top # old[t]
    BY <1>1, <1>2, SwapFails DEF PopSwap, Goto
<1>3. CASE top = old[t]
    <2>0. PICK e \in Elems : e = top.next
        BY <1>1, <1>3, TopOnStack
    <2>1. e = old[t].next /\ e = stk[1] /\ OnStack(e) /\ stk # <<>>
        BY <1>1, <1>3, <2>0, TopOnStack
    <2>2. /\ top' = [next |-> succ[t], aba_tag |-> Bumped(old[t])]
          /\ held' = [held EXCEPT ![t] = @ \cup {e}]
          /\ stk' = Tail(stk)
          /\ pc' = [pc EXCEPT ![t] = "pop_clear"]
          /\ elem' = [elem EXCEPT ![t] = e]
          /\ UNCHANGED <<old, succ>>
        BY <1>3, <2>1 DEF PopSwap, Goto
    <2>3. /\ Len(stk) \in Nat /\ Len(stk) >= 1
          /\ stk' \in Seq(Elems)
          /\ Len(stk') = Len(stk) - 1
          /\ stk' = <<>> => Len(stk) = 1
          /\ Len(stk) = 1 => stk' = <<>>
          /\ \A i \in 1..(Len(stk) - 1) : stk'[i] = stk[i + 1]
        BY <2>1, <2>2, Popped DEF TypeOK
    <2>4. top' \in Tops /\ top'.aba_tag = Bumped(old[t]) /\ top'.next = succ[t]
        BY <2>2, BoundsAssumption DEF TypeOK, Tops, Bumped
    <2>5. e \in Ids
        BY <2>1, BoundsAssumption DEF Elems, Ids
    <2>6. TypeOK'
        BY <1>1, <2>2, <2>3, <2>4, <2>5 DEF TypeOK
    <2>7. \A i \in 1..Len(stk') : i + 1 \in 1..Len(stk) /\ stk'[i] = stk[i + 1]
        BY <2>3
    <2>8. \A i \in 1..Len(stk) : i # 1 => stk[i] # e
        <3>1. 1 \in 1..Len(stk)
            BY <2>3
        <3> QED BY <2>1, <3>1 DEF LinkInv
    <2>9. LinkInv'
        <3>1. ASSUME NEW i \in 1..Len(stk'), NEW j \in 1..Len(stk'), stk'[i] = stk'[j]
              PROVE  i = j
            <4>1. i + 1 = j + 1
                BY <3>1, <2>7 DEF LinkInv
            <4> QED BY <4>1, <2>3
        <3>2. succ[t] = IF stk' = <<>> THEN NULL ELSE stk'[1]
            <4>1. succ[t] = next[stk[1]]
                BY <1>1, <1>3, <2>1
            <4>2. 1 \in 1..Len(stk)
                BY <2>3
            <4>3. next[stk[1]] = IF 1 = Len(stk) THEN NULL ELSE stk[1 + 1]
                BY <4>2 DEF LinkInv
            <4>4. 1 # Len(stk) => stk'[1] = stk[1 + 1]
                <5>1. 1 # Len(stk) => 1 \in 1..(Len(stk) - 1)
                    BY <2>3
                <5> QED BY <5>1, <2>3
            <4>5. CASE 1 = Len(stk)
                BY <4>1, <4>3, <4>5, <2>3
            <4>6. CASE 1 # Len(stk)
                <5>1. stk' # <<>>
                    BY <4>6, <2>3
                <5>2. succ[t] = stk[1 + 1]
                    BY <4>1, <4>3, <4>6
                <5> QED BY <4>4, <4>6, <5>1, <5>2
            <4> QED BY <4>5, <4>6
        <3>3. ASSUME NEW i \in 1..Len(stk')
              PROVE  next[stk'[i]] = IF i = Len(stk') THEN NULL ELSE stk'[i + 1]
            <4>1. i + 1 \in 1..Len(stk) /\ stk'[i] = stk[i + 1]
                BY <2>7
            <4>2. next[stk[i + 1]] =
                        IF i + 1 = Len(stk) THEN NULL ELSE stk[(i + 1) + 1]
                BY <4>1 DEF LinkInv
            <4>3. i + 1 = Len(stk) => i = Len(stk')
                BY <2>3
            <4>4. i + 1 # Len(stk) => i # Len(stk') /\ stk'[i + 1] = stk[(i + 1) + 1]
                <5>1. i + 1 # Len(stk) => i # Len(stk') /\ i + 1 \in 1..(Len(stk) - 1)
                    BY <4>1, <2>3
                <5> QED BY <5>1, <2>3
            <4> QED BY <4>1, <4>2, <4>3, <4>4
        <3> QED BY <1>1, <2>4, <3>1, <3>2, <3>3 DEF LinkInv
    <2>10. EachElementOnce'
        <3>1. ASSUME NEW x \in Elems, OnStack(x)' PROVE OnStack(x) /\ x # e
            <4>1. PICK i \in 1..Len(stk') : stk'[i] = x
                BY <3>1 DEF OnStack
            <4>2. i + 1 \in 1..Len(stk) /\ i + 1 # 1 /\ stk[i + 1] = x
                BY <4>1, <2>7, <2>3
            <4> QED BY <4>2, <2>8 DEF OnStack
        <3>2. ASSUME NEW x \in Elems, x # e, OnStack(x) PROVE OnStack(x)'
            <4>1. PICK i \in 1..Len(stk) : stk[i] = x
                BY <3>2 DEF OnStack
            <4>2. i # 1
                BY <4>1, <3>2, <2>1
            <4>3. i - 1 \in 1..(Len(stk) - 1) /\ (i - 1) + 1 = i
                BY <4>1, <4>2, <2>3
            <4>4. i - 1 \in 1..Len(stk') /\ stk'[i - 1] = x
                BY <4>1, <4>3, <2>3
            <4> QED BY <4>4 DEF OnStack
        <3>3. /\ \A u \in Threads : u # t => held'[u] = held[u]
              /\ held'[t] = held[t] \cup {e}
              /\ \A u \in Threads : held[u] \subseteq Elems
            BY <2>2 DEF TypeOK
        <3>4. \A u \in Threads : e \notin held[u]
            BY <2>1 DEF EachElementOnce
        <3> QED BY <3>1, <3>2, <3>3, <3>4 DEF EachElementOnce
    <2>11. TagInv' /\ \A u \in Active' : old'[u] # top'
        BY <1>1, <1>3, <2>2, <2>4, SwapTag
    <2>12. LocalsInv'
        <3>1. ASSUME NEW u \in Threads, u # t
              PROVE  /\ pc'[u] = pc[u] /\ elem'[u] = elem[u] /\ held'[u] = held[u]
                     /\ pc[u] = "pop_swap" => old[u] # top'
            <4>1. pc'[u] = pc[u] /\ elem'[u] = elem[u] /\ held'[u] = held[u]
                BY <3>1, <2>2 DEF TypeOK
            <4>2. pc[u] = "pop_swap" => u \in Active'
                BY <4>1 DEF Active
            <4> QED BY <4>1, <4>2, <2>2, <2>11
        <3>2. pc'[t] = "pop_clear" /\ elem'[t] \in held'[t]
            BY <2>2 DEF TypeOK
        <3> QED BY <1>1, <2>2, <3>1, <3>2 DEF LocalsInv
    <2> QED
        BY <2>6, <2>9, <2>10, <2>11, <2>12
<1> QED
    BY <1>2, <1>3

LEMMA StepIInv == IInv /\ [Next]_vars => IInv'
<1> SUFFICES ASSUME IInv, [Next]_vars PROVE IInv'
    OBVIOUS
<1>1. CASE Next
    BY <1>1, UseStep, PushStep, PushLinkStep, PushSwapStep, PopStep,
       PopReadStep, PopSwapStep, PopClearStep DEF Next, Internal
<1>2. CASE UNCHANGED vars
    BY <1>2 DEF vars, IInv, TypeOK, LinkInv, EachElementOnce, OnStack, TagInv,
                Active, LocalsInv
<1> QED
    BY <1>1, <1>2

(* The inductive invariant holds of lf_stack.c: the next pointers spell    *)
(* the stack, and a snapshot of the top with the current tag is the top.   *)
THEOREM Invariance == Spec => []IInv
BY InitIInv, StepIInv, PTL DEF Spec

(* lf_stack_push and lf_stack_pop never lose an element nor give one to    *)
(* two threads, although pop reads elements that others are using.         *)
THEOREM NoLoss == Spec => []EachElementOnce
<1>1. IInv => EachElementOnce
    BY DEF IInv
<1> QED
    BY <1>1, Invariance, PTL

(* lf_stack.c is linearizable: every successful swap is one push or one    *)
(* pop of the abstract stack and every other step changes nothing of it.   *)
THEOREM StackRefinement == Spec => ImplementsStack
<1>1. Init => Abstract!Init
    <2> SUFFICES ASSUME Init PROVE Abstract!Init
        OBVIOUS
    <2>1. IInv
        BY InitIInv
    <2> QED BY <2>1 DEF IInv, TypeOK, EachElementOnce, OnStack, Abstract!Init
<1>2. IInv /\ [Next]_vars => [Abstract!Next]_(Abstract!stackVars)
    <2> SUFFICES ASSUME IInv, [Next]_vars PROVE [Abstract!Next]_(Abstract!stackVars)
        OBVIOUS
    <2>1. ASSUME NEW t \in Threads, PushSwap(t)
          PROVE  Abstract!Next \/ UNCHANGED <<stk, held>>
        <3>1. elem[t] \in held[t] /\ elem[t] \in Elems
            BY <2>1 DEF PushSwap, IInv, LocalsInv, TypeOK
        <3>2. CASE top = old[t]
            <4>1. Abstract!Push(t, elem[t])
                BY <2>1, <3>1, <3>2 DEF PushSwap, Abstract!Push
            <4> QED BY <3>1, <4>1 DEF Abstract!Next
        <3>3. CASE top # old[t]
            BY <2>1, <3>3 DEF PushSwap
        <3> QED BY <3>2, <3>3
    <2>2. ASSUME NEW t \in Threads, PopSwap(t)
          PROVE  Abstract!Next \/ UNCHANGED <<stk, held>>
        <3>1. CASE top = old[t]
            <4>1. stk # <<>> /\ old[t].next = stk[1]
                BY <2>2, <3>1, TopOnStack DEF PopSwap, IInv, LocalsInv
            <4>2. Head(stk) = stk[1]
                BY <4>1, Popped DEF IInv, TypeOK
            <4>3. Abstract!Pop(t)
                BY <2>2, <3>1, <4>1, <4>2 DEF PopSwap, Abstract!Pop
            <4> QED BY <4>3 DEF Abstract!Next
        <3>2. CASE top # old[t]
            BY <2>2, <3>2 DEF PopSwap
        <3> QED BY <3>1, <3>2
    <2>3. ASSUME NEW t \in Threads,
                 \/ Use(t) \/ Push(t) \/ PushLink(t)
                 \/ Pop(t) \/ PopRead(t) \/ PopClear(t)
          PROVE  UNCHANGED <<stk, held>>
        BY <2>3 DEF Use, Push, PushLink, Pop, PopRead, PopClear
    <2>4. UNCHANGED vars => UNCHANGED <<stk, held>>
        BY DEF vars
    <2> QED
        BY <2>1, <2>2, <2>3, <2>4 DEF Next, Internal, Abstract!stackVars
<1> QED
    BY <1>1, <1>2, Invariance, PTL DEF Spec, ImplementsStack, Abstract!Spec
===============================================================================
