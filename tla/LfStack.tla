-------------------------------- MODULE LfStack --------------------------------
(***************************************************************************)
(* The lock-free stack of src/lf_stack.c.  The elements are the slots of   *)
(* an array, linked by 32-bit indices; the 64-bit top holds the index of   *)
(* the first element and a tag that every successful swap increments.      *)
(* Pop reads `next' of an element that another thread may have popped and  *)
(* may be using, so that memory can hold anything; only the tag keeps such *)
(* a value from being swapped in.                                          *)
(***************************************************************************)
EXTENDS Naturals, Sequences, FiniteSets

CONSTANTS Threads,
          NumElems, \* num_elems: the slots have ids 1..NumElems
          TagMod,   \* the tag counts modulo this: 2^32 in the code
          MaxCalls  \* bound on the number of calls

ASSUME ThreadsAssumption == IsFiniteSet(Threads)
ASSUME BoundsAssumption ==
    /\ NumElems \in Nat /\ TagMod \in Nat /\ MaxCalls \in Nat
    /\ MaxCalls < TagMod

VARIABLES
    top,    \* lf_stack_t.top: [next, aba_tag]
    next,   \* lf_stack_elem_t.next, also while a client uses the element
    held,   \* the elements each thread has
    pc,     \* where each thread is
    old,    \* its snapshot of top
    elem,   \* push: the element; pop: the element it returns
    succ,   \* pop: new.fields.next, read from the element
    stk,    \* history: the elements on the stack, top first
    calls   \* number of calls made

vars == <<top, next, held, pc, old, elem, succ, stk, calls>>

NULL == 0  \* INVALID_STACK_ELEM_ID

Elems == 1..NumElems  \* index in the array + STACK_ELEM_IDX_OFFSET

Ids == 0..NumElems

Tops == [next : Ids, aba_tag : Nat]

(* lf_stack_init.  With `populate' the slots are pushed in array order;    *)
(* without, the clients have them.                                         *)
Init ==
    /\ next = [e \in Elems |-> e - 1]
    /\ \/ /\ stk = [i \in Elems |-> NumElems + 1 - i]
          /\ top = [next |-> NumElems, aba_tag |-> 0]
          /\ held = [t \in Threads |-> {}]
       \/ /\ stk = <<>>
          /\ top = [next |-> NULL, aba_tag |-> 0]
          /\ held \in [Threads -> SUBSET Elems]
          /\ \A e \in Elems : \E t \in Threads : e \in held[t]
          /\ \A t, u \in Threads : t # u => held[t] \cap held[u] = {}
    /\ pc = [t \in Threads |-> "idle"]
    /\ old = [t \in Threads |-> top]
    /\ elem = [t \in Threads |-> NULL]
    /\ succ = [t \in Threads |-> NULL]
    /\ calls = 0

Goto(t, l) == pc' = [pc EXCEPT ![t] = l]

(* The locals of a call are gone when it returns. *)
Return(t) ==
    /\ Goto(t, "idle")
    /\ old' = [old EXCEPT ![t] = [next |-> NULL, aba_tag |-> 0]]
    /\ elem' = [elem EXCEPT ![t] = NULL]
    /\ succ' = [succ EXCEPT ![t] = NULL]

Begin(t) == pc[t] = "idle" /\ calls < MaxCalls /\ calls' = calls + 1

(* Mutant of Bumped: the tag is not incremented. *)
BumpedNot(w) == w.aba_tag

(* The tag of the word that replaces w, in 32 bits. *)
Bumped(w) == IF w.aba_tag + 1 = TagMod THEN 0 ELSE w.aba_tag + 1

(* The client of an element it has may write to its memory. *)
Use(t) ==
    /\ pc[t] = "idle"
    /\ \E e \in held[t], i \in Ids : next' = [next EXCEPT ![e] = i]
    /\ UNCHANGED <<top, held, pc, old, elem, succ, stk, calls>>

-------------------------------------------------------------------------------
(* lf_stack_push *)

(* The call and its first read of the top. *)
Push(t) ==
    /\ Begin(t)
    /\ \E e \in held[t] : elem' = [elem EXCEPT ![t] = e]
    /\ old' = [old EXCEPT ![t] = top]
    /\ Goto(t, "push")
    /\ UNCHANGED <<top, next, held, succ, stk>>

(* The body of its loop: link the element in front of the snapshot. *)
PushLink(t) ==
    /\ pc[t] = "push"
    /\ next' = [next EXCEPT ![elem[t]] = old[t].next]
    /\ Goto(t, "push_swap")
    /\ UNCHANGED <<top, held, old, elem, succ, stk, calls>>

(* Mutant of PushSwap: a failed swap is retried with the old snapshot. *)
PushSwapNoRefresh(t) ==
    /\ pc[t] = "push_swap"
    /\ IF top = old[t]
       THEN /\ top' = [next |-> elem[t], aba_tag |-> Bumped(old[t])]
            /\ held' = [held EXCEPT ![t] = @ \ {elem[t]}]
            /\ stk' = <<elem[t]>> \o stk
            /\ Return(t)
       ELSE Goto(t, "push") /\ UNCHANGED <<top, held, stk, old, elem, succ>>
    /\ UNCHANGED <<next, calls>>

(* Its swap; a failed one refreshes the snapshot. *)
PushSwap(t) ==
    /\ pc[t] = "push_swap"
    /\ IF top = old[t]
       THEN /\ top' = [next |-> elem[t], aba_tag |-> Bumped(old[t])]
            /\ held' = [held EXCEPT ![t] = @ \ {elem[t]}]
            /\ stk' = <<elem[t]>> \o stk
            /\ Return(t)
       ELSE /\ old' = [old EXCEPT ![t] = top]
            /\ Goto(t, "push")
            /\ UNCHANGED <<top, held, stk, elem, succ>>
    /\ UNCHANGED <<next, calls>>

-------------------------------------------------------------------------------
(* lf_stack_pop *)

(* The call and its first read of the top. *)
Pop(t) ==
    /\ Begin(t)
    /\ old' = [old EXCEPT ![t] = top]
    /\ Goto(t, "pop")
    /\ UNCHANGED <<top, next, held, elem, succ, stk>>

(* The body of its loop: nothing to pop, or read the element's successor. *)
PopRead(t) ==
    /\ pc[t] = "pop"
    /\ IF old[t].next = NULL
       THEN Return(t)
       ELSE /\ succ' = [succ EXCEPT ![t] = next[old[t].next]]
            /\ Goto(t, "pop_swap")
            /\ UNCHANGED <<old, elem>>
    /\ UNCHANGED <<top, next, held, stk, calls>>

(* Mutant of PopSwap: a failed swap is retried without looking again. *)
PopSwapNoReread(t) ==
    /\ pc[t] = "pop_swap"
    /\ IF top = old[t]
       THEN /\ top' = [next |-> succ[t], aba_tag |-> Bumped(old[t])]
            /\ elem' = [elem EXCEPT ![t] = old[t].next]
            /\ held' = [held EXCEPT ![t] = @ \cup {old[t].next}]
            /\ stk' = IF stk = <<>> THEN stk ELSE Tail(stk)
            /\ Goto(t, "pop_clear")
            /\ UNCHANGED <<old, succ>>
       ELSE /\ old' = [old EXCEPT ![t] = top]
            /\ UNCHANGED <<top, held, stk, pc, elem, succ>>
    /\ UNCHANGED <<next, calls>>

(* Its swap: the element is the caller's. *)
PopSwap(t) ==
    /\ pc[t] = "pop_swap"
    /\ IF top = old[t]
       THEN /\ top' = [next |-> succ[t], aba_tag |-> Bumped(old[t])]
            /\ elem' = [elem EXCEPT ![t] = old[t].next]
            /\ held' = [held EXCEPT ![t] = @ \cup {old[t].next}]
            /\ stk' = IF stk = <<>> THEN stk ELSE Tail(stk)
            /\ Goto(t, "pop_clear")
            /\ UNCHANGED <<old, succ>>
       ELSE /\ old' = [old EXCEPT ![t] = top]
            /\ Goto(t, "pop")
            /\ UNCHANGED <<top, held, stk, elem, succ>>
    /\ UNCHANGED <<next, calls>>

(* elem->next = INVALID_STACK_ELEM_ID, and return the element. *)
PopClear(t) ==
    /\ pc[t] = "pop_clear"
    /\ next' = [next EXCEPT ![elem[t]] = NULL]
    /\ Return(t)
    /\ UNCHANGED <<top, held, stk, calls>>

-------------------------------------------------------------------------------
Internal(t) ==
    PushLink(t) \/ PushSwap(t) \/ PopRead(t) \/ PopSwap(t) \/ PopClear(t)

Next == \E t \in Threads : Internal(t) \/ Push(t) \/ Pop(t) \/ Use(t)

Spec == Init /\ [][Next]_vars

FairSpec == Spec /\ \A t \in Threads : WF_vars(Internal(t))

-------------------------------------------------------------------------------
(* Properties. *)

OnStack(e) == \E i \in 1..Len(stk) : stk[i] = e

TypeOK ==
    /\ top \in Tops
    /\ next \in [Elems -> Ids]
    /\ held \in [Threads -> SUBSET Elems]
    /\ pc \in [Threads -> {"idle", "push", "push_swap", "pop", "pop_swap",
                           "pop_clear"}]
    /\ old \in [Threads -> Tops]
    /\ elem \in [Threads -> Ids]
    /\ succ \in [Threads -> Ids]
    /\ stk \in Seq(Elems)
    /\ calls \in 0..MaxCalls

(* Every element is on the stack or with one thread: none is lost and none *)
(* is given to two threads, whatever clients write to elements they have.  *)
EachElementOnce ==
    /\ \A e \in Elems : OnStack(e) \/ \E t \in Threads : e \in held[t]
    /\ \A t, u \in Threads : t # u => held[t] \cap held[u] = {}
    /\ \A t \in Threads : \A e \in held[t] : ~OnStack(e)

(* The abstract stack. *)
Abstract == INSTANCE StackSpec WITH stack <- stk

(* The stack is linearizable: each successful swap is one operation of the *)
(* abstract stack, and pop returns what was pushed last.                   *)
ImplementsStack == Abstract!Spec

(* A call is delayed only by other calls that succeed, so it returns as    *)
(* the number of calls is bounded.                                         *)
CallsReturn == \A t \in Threads : pc[t] # "idle" ~> pc[t] = "idle"

-------------------------------------------------------------------------------
(* The inductive invariant. *)

(* The next pointers spell the stack from the top. *)
LinkInv ==
    /\ \A i, j \in 1..Len(stk) : stk[i] = stk[j] => i = j
    /\ top.next = IF stk = <<>> THEN NULL ELSE stk[1]
    /\ \A i \in 1..Len(stk) :
            next[stk[i]] = IF i = Len(stk) THEN NULL ELSE stk[i + 1]

(* The threads that may still change the top. *)
Active == {t \in Threads : pc[t] \in {"push", "push_swap", "pop", "pop_swap"}}

(* The tag has not wrapped: it grows with every change of the top, at most *)
(* one per call, and a snapshot with the current tag is the top.           *)
TagInv ==
    /\ top.aba_tag + Cardinality(Active) <= calls
    /\ \A t \in Active :
            /\ old[t].aba_tag <= top.aba_tag
            /\ old[t].aba_tag = top.aba_tag => old[t] = top

(* What the locals say; the successor pop has read is only right if the    *)
(* snapshot still is.                                                      *)
LocalsInv ==
    \A t \in Threads :
        /\ pc[t] \in {"push", "push_swap", "pop_clear"} => elem[t] \in held[t]
        /\ pc[t] = "push_swap" => next[elem[t]] = old[t].next
        /\ pc[t] = "pop_swap" =>
              /\ old[t].next # NULL
              /\ old[t] = top => succ[t] = next[old[t].next]

(* The conjunction is inductive. *)
IInv == TypeOK /\ LinkInv /\ EachElementOnce /\ TagInv /\ LocalsInv
===============================================================================
