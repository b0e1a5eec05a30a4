------------------------------ MODULE MonitorSpec ------------------------------
(***************************************************************************)
(* What bit locks with condition waits promise: every lock is a monitor.   *)
(* A lock that somebody queues for is never free, passing it on goes to a  *)
(* thread that queues for it, a thread in a condition wait comes back only *)
(* through a notification and the queue, and nobody disappears when the    *)
(* users of one lock are moved to another.                                 *)
(***************************************************************************)
CONSTANTS Threads, NULL, Locks

VARIABLES owner,   \* of each lock
          entry,   \* the threads that queue for it
          waitset  \* the threads in a condition wait of it

vars == <<owner, entry, waitset>>

Init ==
    /\ owner = [l \in Locks |-> NULL]
    /\ entry = [l \in Locks |-> {}]
    /\ waitset = [l \in Locks |-> {}]

Acquire(t, l) ==
    /\ owner[l] = NULL
    /\ owner' = [owner EXCEPT ![l] = t]
    /\ UNCHANGED <<entry, waitset>>

Enter(t, l) ==
    /\ owner[l] \notin {NULL, t}
    /\ entry' = [entry EXCEPT ![l] = @ \cup {t}]
    /\ UNCHANGED <<owner, waitset>>

(* The owner leaves: for one of the queue if there is one. *)
Leave(t, l) ==
    /\ owner[l] = t
    /\ \/ /\ entry[l] = {}
          /\ owner' = [owner EXCEPT ![l] = NULL]
          /\ UNCHANGED entry
       \/ \E x \in entry[l] :
             /\ owner' = [owner EXCEPT ![l] = x]
             /\ entry' = [entry EXCEPT ![l] = @ \ {x}]

Release(t, l) == Leave(t, l) /\ UNCHANGED waitset

Wait(t, l) == Leave(t, l) /\ waitset' = [waitset EXCEPT ![l] = @ \cup {t}]

(* Notification of some of the waiting threads: one or all. *)
Notify(t, l) ==
    /\ owner[l] = t
    /\ \E s \in {waitset[l]} \cup {{x} : x \in waitset[l]} :
          /\ s # {}
          /\ entry' = [entry EXCEPT ![l] = @ \cup s]
          /\ waitset' = [waitset EXCEPT ![l] = @ \ s]
    /\ UNCHANGED owner

(* The users of l become users of m. *)
Move(t, l, m) ==
    /\ l # m /\ owner[l] = t /\ owner[m] = t
    /\ entry' = [entry EXCEPT ![m] = @ \cup entry[l], ![l] = {}]
    /\ waitset' = [waitset EXCEPT ![m] = @ \cup waitset[l], ![l] = {}]
    /\ UNCHANGED owner

Next ==
    \E t \in Threads, l \in Locks :
        \/ Acquire(t, l) \/ Enter(t, l) \/ Release(t, l) \/ Wait(t, l)
        \/ Notify(t, l)
        \/ \E m \in Locks : Move(t, l, m)

Spec == Init /\ [][Next]_vars
===============================================================================
