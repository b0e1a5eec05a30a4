------------------------------ MODULE CondVarSpec ------------------------------
(***************************************************************************)
(* What a condition variable promises: waiters are notified in order of    *)
(* arrival, a notification reaches the thread it was meant for, and a wait *)
(* reports a timeout only if no notification had been given to it.         *)
(***************************************************************************)
EXTENDS Sequences, SequencesExt

CONSTANT Threads

VARIABLES waiting,  \* threads waiting, longest waiting first
          woken,    \* threads notified whose wait has not ended yet
          result    \* what each thread's last wait returned

condVars == <<waiting, woken, result>>

Init ==
    /\ waiting = <<>>
    /\ woken = {}
    /\ result = [t \in Threads |-> "0"]

Enter(t) ==
    /\ t \notin woken /\ ~Contains(waiting, t)
    /\ waiting' = Append(waiting, t)
    /\ result' = [result EXCEPT ![t] = "0"]
    /\ UNCHANGED woken

Notify ==
    /\ waiting # <<>>
    /\ waiting' = Tail(waiting)
    /\ woken' = woken \cup {Head(waiting)}
    /\ UNCHANGED result

NotifyAll ==
    /\ waiting' = <<>>
    /\ woken' = woken \cup ToSet(waiting)
    /\ UNCHANGED result

Return(t) ==
    /\ t \in woken
    /\ woken' = woken \ {t}
    /\ result' = [result EXCEPT ![t] = "0"]
    /\ UNCHANGED waiting

Expire(t) ==
    /\ \E i \in DOMAIN waiting :
            waiting[i] = t /\ waiting' = RemoveAt(waiting, i)
    /\ result' = [result EXCEPT ![t] = "ETIMEDOUT"]
    /\ UNCHANGED woken

Next ==
    \/ Notify \/ NotifyAll
    \/ \E t \in Threads : Enter(t) \/ Return(t) \/ Expire(t)

Spec == Init /\ [][Next]_condVars
===============================================================================
