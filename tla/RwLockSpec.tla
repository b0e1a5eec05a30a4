------------------------------ MODULE RwLockSpec -------------------------------
(***************************************************************************)
(* What a queueing reader-writer lock promises.  The lock is passed on by  *)
(* the thread that gives it up, so a thread that has queued never competes *)
(* for it again.  A fair lock serves its queue in order of arrival; an     *)
(* unfair one lets readers in whenever no writer holds it, and serves all  *)
(* the queued readers at once.  A reader that wants to become a writer     *)
(* goes to the front of the queue, and there is at most one such reader.   *)
(***************************************************************************)
EXTENDS Naturals, Sequences, Filters

CONSTANT Threads

VARIABLES unfair,  \* a property of the lock that never changes
          mode,  \* what each thread holds: "none", "rd" or "wr"
          queue  \* who waits and for what, oldest first: <<thread, kind>>

lockVars == <<unfair, mode, queue>>

Kinds == {"shared", "excl", "upgrade"}

Queued(t) == \E i \in 1..Len(queue) : queue[i][1] = t

(* Nobody but t holds the lock so that m could not be held with it. *)
Compatible(t, m) ==
    \A u \in Threads \ {t} :
        mode[u] = "none" \/ (m = "rd" /\ mode[u] = "rd")

Held == \E t \in Threads : mode[t] # "none"

Init == unfair \in BOOLEAN /\ mode = [t \in Threads |-> "none"] /\ queue = <<>>

(* Take the lock without waiting. *)
Acquire(t, m) ==
    /\ mode[t] = "none" /\ ~Queued(t)
    /\ Compatible(t, m)
    /\ queue = <<>> \/ (unfair /\ m = "rd")
    /\ mode' = [mode EXCEPT ![t] = m]
    /\ UNCHANGED queue

Enqueue(t, k) ==
    /\ mode[t] = "none" /\ ~Queued(t)
    /\ Held
    /\ queue' = Append(queue, <<t, k>>)
    /\ UNCHANGED mode

(* A holder becomes a reader or, if it is alone, a writer. *)
Convert(t, m) ==
    /\ mode[t] # "none" /\ Compatible(t, m)
    /\ queue = <<>> \/ unfair
    /\ mode' = [mode EXCEPT ![t] = m]
    /\ UNCHANGED queue

(* A holder goes to the front of the queue, to change its mode: a writer   *)
(* that wants to be a reader, or the only reader that wants to be a writer.*)
EnqueueFirst(t, k) ==
    /\ \/ k = "shared" /\ mode[t] = "wr"
       \/ /\ k = "upgrade" /\ mode[t] = "rd"
          /\ \A i \in 1..Len(queue) : queue[i][2] # "upgrade"
    /\ ~Queued(t)
    /\ queue' = <<<<t, k>>>> \o queue
    /\ UNCHANGED mode

(* The lock is given up; somebody still holds it, or nobody wants it. *)
Release(t) ==
    /\ mode[t] # "none"
    /\ mode' = [mode EXCEPT ![t] = "none"]
    /\ queue = <<>> \/ \E u \in Threads \ {t} : mode[u] # "none"
    /\ UNCHANGED queue

(* A reader queues for an upgrade and gives up its share at once. *)
ReleaseAndEnqueue(t) ==
    /\ mode[t] = "rd" /\ (queue = <<>> \/ unfair)
    /\ \A i \in 1..Len(queue) : queue[i][2] # "upgrade"
    /\ \E u \in Threads \ {t} : mode[u] # "none"
    /\ mode' = [mode EXCEPT ![t] = "none"]
    /\ queue' = <<<<t, "upgrade">>>> \o queue

(* The positions of the queue that may be served together. *)
Group(G) ==
    LET shared == {i \in 1..Len(queue) : queue[i][2] = "shared"} IN
    \/ queue[1][2] # "shared" /\ G = {1}
    \/ ~unfair /\ G # {} /\ G = {i \in shared : 1..i \subseteq shared}
    \/ /\ unfair /\ G = shared
       /\ \E i \in shared : \A j \in 1..(i - 1) : queue[j][2] = "upgrade"

(* The lock is given up and passed on: to the oldest waiter if that one is *)
(* to write, else to readers.                                              *)
Pass(t) ==
    /\ mode[t] # "none" /\ queue # <<>>
    /\ \E G \in SUBSET (1..Len(queue)) :
        /\ Group(G)
        /\ LET m == IF \E i \in G : queue[i][2] = "shared" THEN "rd" ELSE "wr"
               W == {queue[i][1] : i \in G}
           IN  /\ \A u \in W : Compatible(t, m)
               /\ mode' = [u \in Threads |-> IF u \in W THEN m
                                             ELSE IF u = t THEN "none" ELSE mode[u]]
               /\ queue' = Filter(queue, (Threads \ W) \X Kinds)

Next ==
    /\ UNCHANGED unfair
    /\ \E t \in Threads :
        \/ \E m \in {"rd", "wr"} : Acquire(t, m) \/ Convert(t, m)
        \/ \E k \in Kinds : Enqueue(t, k) \/ EnqueueFirst(t, k)
        \/ Release(t) \/ ReleaseAndEnqueue(t) \/ Pass(t)

Spec == Init /\ [][Next]_lockVars
===============================================================================
