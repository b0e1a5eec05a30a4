------------------------------- MODULE StackSpec -------------------------------
(***************************************************************************)
(* What a shared free list promises: a last-in first-out stack whose       *)
(* operations take effect at one instant, and from which every element is  *)
(* given to one thread at a time.                                          *)
(***************************************************************************)
EXTENDS Naturals, Sequences

CONSTANTS Threads, Elems

VARIABLES stack,  \* the elements on the stack, top first
          held    \* the elements each thread has taken off it

stackVars == <<stack, held>>

(* The stack starts with some of the elements, the clients have the rest. *)
Init ==
    /\ held \in [Threads -> SUBSET Elems]
    /\ \A e \in Elems, t \in Threads :
            e \in held[t] => \A i \in 1..Len(stack) : stack[i] # e

Push(t, e) ==
    /\ e \in held[t]
    /\ held' = [held EXCEPT ![t] = @ \ {e}]
    /\ stack' = <<e>> \o stack

Pop(t) ==
    /\ stack # <<>>
    /\ held' = [held EXCEPT ![t] = @ \cup {Head(stack)}]
    /\ stack' = Tail(stack)

Next == \E t \in Threads : Pop(t) \/ \E e \in Elems : Push(t, e)

Spec == Init /\ [][Next]_stackVars
===============================================================================
