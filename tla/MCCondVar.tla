------------------------------- MODULE MCCondVar -------------------------------
(* Programs that use a condition variable. *)
EXTENDS CondVar

CONSTANTS t1, t2, t3, t4

Untimed == [t \in Threads |-> {"wait", "signal", "broadcast"}]

NoBroadcast ==
    [t \in Threads |-> IF t = t4 THEN {} ELSE {"timedwait", "wait", "signal"}]

(* Deadlines or broadcast, but not both: what works. *)
Disciplined == {Untimed, NoBroadcast}

Mixed == {[t \in Threads |-> {"timedwait", "broadcast"}]}
===============================================================================
