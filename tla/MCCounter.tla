------------------------------- MODULE MCCounter -------------------------------
(* Programs that use a delegate or a counter. *)
EXTENDS Counter

CONSTANTS t1, t2, j1, j2

(* Thread t1 uses the operations p1 and t2 uses p2; each has one of the    *)
(* jobs, or t1 has both.                                                   *)
By(p1, p2) == [t \in Threads |-> IF t = t1 THEN p1 ELSE p2]
Each(p1, p2) ==
    [ops |-> By(p1, p2), owner |-> [j \in UserJobs |-> IF j = j1 THEN t1 ELSE t2]]
Both(p1, p2) == [ops |-> By(p1, p2), owner |-> [j \in UserJobs |-> t1]]

(* Both submit, cancel and unblock: the lock passes between them. *)
Peers == Each({"submit", "yield", "block_this", "unblock", "cancel"},
              {"submit", "yield", "unblock", "cancel_nowait"})

(* One submits jobs that stop the delegate, the other runs it. *)
Worker == Each({"submit", "post", "cancel", "block_all"},
               {"run", "run_nowait", "cancel"})

(* Two threads push jobs, and one of them runs the delegate. *)
TwoPushers == Each({"post"}, {"post", "run"})

(* Both allocate and free; one of them waits for its allocation. *)
Pool == Each({"alloc", "free"}, {"alloc_async", "try_alloc", "free"})

(* One has two allocations under way, which both serve. *)
Overlapping == Both({"alloc_async", "free"}, {"try_alloc", "free"})

(* An allocation is cancelled while the other thread serves it. *)
Cancelling == Each({"alloc_async", "cancel", "free"}, {"try_alloc", "free"})

AllClients == {Peers, Worker, TwoPushers, Pool, Overlapping, Cancelling}
===============================================================================
