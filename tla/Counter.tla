-------------------------------- MODULE Counter --------------------------------
(***************************************************************************)
(* Counters (src/counter.c): units of a resource are allocated and freed;  *)
(* an allocation that cannot be served at once becomes a job of the        *)
(* counter's delegate.  The units are a field of the delegate's word, so   *)
(* that a free makes the release of the delegate fail and be done again.   *)
(*                                                                         *)
(* The clients free no more than was allocated.                            *)
(***************************************************************************)
EXTENDS Delegate

CONSTANTS Units,    \* the units of the counter
          Needs     \* how many a client may ask for

ASSUME CounterAssumption == Units \in Nat /\ Needs \subseteq 1..Units

VARIABLES
    allocated,   \* the units the clients have
    (* history: *)
    torn,        \* a push has linked its job to what is not the old head
    overlooked,  \* the runner took an incoming bit for one it has seen
    ahead        \* the allocations known to wait when each job came

history == <<torn, overlooked, ahead>>
vars == <<client, dvars, allocated, history>>

(* counter_init *)
Init ==
    /\ DelegateInit(Units)
    /\ allocated = 0
    /\ torn = FALSE /\ overlooked = FALSE /\ ahead = [j \in UserJobs |-> {}]

(* The state in which an allocation by a caller would overtake others. *)
Busy == word.lock \/ word.incoming \/ word.pending

(* counter_reserve_work, which succeeds. *)
Reserve(n) ==
    /\ word.available >= n
    /\ word' = [word EXCEPT !.available = @ - n]
    /\ allocated' = allocated + n

(* counter_try_alloc; a failure changes nothing. *)
TryAlloc(t, n) ==
    /\ At(t, "idle") /\ "try_alloc" \in ops[t]
    /\ ~Busy /\ Reserve(n)
    /\ UNCHANGED <<stack, lists, job, signaled, cancel_result, waitq, local, phase>>

(* counter_alloc_async, and counter_alloc if it waits: a caller that could *)
(* not be served at once submits a job.                                    *)
Alloc(t, j, n, wait) ==
    /\ At(t, "idle") /\ (IF wait THEN "alloc" ELSE "alloc_async") \in ops[t]
    /\ Submitter[j] = t /\ phase[j] = "free" /\ \A u \in Threads : local[u].target # j
    /\ IF ~Busy /\ word.available >= n
       THEN Reserve(n) /\ UNCHANGED <<job, phase, local>>
       ELSE /\ job' = [job EXCEPT ![j] = NewJob("alloc", n, TRUE)]
            /\ phase' = [phase EXCEPT ![j] = "submitting"]
            /\ Begin(t, [Idle EXCEPT !.pc = "submit", !.job = j, !.wait = wait])
            /\ UNCHANGED <<word, allocated>>
    /\ UNCHANGED <<stack, lists, signaled, cancel_result, waitq>>

(* counter_alloc_job: done if there are enough units.  The word the        *)
(* runner compares with at the end is the one the reservation has written. *)
AllocJob(t, j) ==
    /\ RunsJob(t, j, "alloc")
    /\ Reserve(job[j].arg)
    /\ local' = [local EXCEPT ![t].state =
                    [word EXCEPT !.available = @ - job[j].arg]]
    /\ SetQueue(Done(Queue))
    /\ UNCHANGED <<stack, waitq, phase>>

(* ... and else DELEGATED_BLOCK_ALL. *)
AllocJobBlocks(t, j) ==
    /\ RunsJob(t, j, "alloc") /\ word.available < job[j].arg
    /\ Goto(t, "release")
    /\ UNCHANGED <<word, stack, lists, job, signaled, cancel_result, waitq, phase,
                   allocated>>

(* Mutant of Free: nobody is served. *)
FreeOnly(t, n) ==
    /\ At(t, "idle") /\ "free" \in ops[t] /\ n <= allocated
    /\ allocated' = allocated - n
    /\ word' = [word EXCEPT !.available = @ + n]
    /\ UNCHANGED <<stack, lists, job, signaled, cancel_result, waitq, local, phase>>

(* counter_free: the units go back, and with the same swap the lock is     *)
(* taken if there may be somebody to serve.                                *)
Free(t, n) ==
    /\ At(t, "idle") /\ "free" \in ops[t] /\ n <= allocated
    /\ allocated' = allocated - n
    /\ word' = [word EXCEPT !.available = @ + n,
                            !.lock = @ \/ word.incoming \/ word.pending]
    /\ IF ~word.lock /\ (word.incoming \/ word.pending)
       THEN Begin(t, [Idle EXCEPT !.pc = "run"]) ELSE UNCHANGED local
    /\ UNCHANGED <<stack, lists, job, signaled, cancel_result, waitq, phase>>

-------------------------------------------------------------------------------
CounterStep(t) == \E j \in UserJobs : AllocJob(t, j) \/ AllocJobBlocks(t, j)

CounterCall(t) ==
    \E n \in Needs :
        \/ TryAlloc(t, n) \/ Free(t, n)
        \/ \E j \in UserJobs, b \in BOOLEAN : Alloc(t, j, n, b)

(* The jobs the delegate has been given and has not finished. *)
InDelegate ==
    ToSet(queued_jobs) \cup ToSet(blocked_jobs) \cup ToSet(Chain(incoming_stack))

(* The allocations among them that are known: the bit is set or the queue  *)
(* has them.                                                               *)
Waiting ==
    {j \in InDelegate : job[j].func = "alloc"}
        \ {local[t].job : t \in {u \in Threads : At(u, "bits")}}

(* The history.  The swap of a push succeeds although the two reads of the *)
(* head differed.                                                          *)
Tears(t) ==
    At(t, "swap") /\ local'[t].pc = "bits" /\ next[local[t].job] # local[t].old

(* The snapshot of a runner that is past the drain gets an incoming bit.   *)
Overlooks(t) == At(t, "jobs") /\ local'[t].state.incoming

History ==
    /\ torn' = (torn \/ \E t \in Threads : Tears(t))
    /\ overlooked' = (word'.incoming /\ (overlooked \/ \E t \in Threads : Overlooks(t)))
    /\ ahead' = [j \in UserJobs |->
                    InDelegate' \cap (IF j \notin InDelegate' THEN {}
                                     ELSE IF j \in InDelegate THEN ahead[j] ELSE Waiting)]

(* What belongs to every step: the history is kept, the program stays. *)
Step == History /\ UNCHANGED client

Next ==
    /\ \E t \in Threads :
          \/ (DelegateStep(t) \/ DelegateJob(t) \/ DelegateCall(t)) /\ UNCHANGED allocated
          \/ CounterStep(t) \/ CounterCall(t)
    /\ Step

(* The fair part of the steps of thread t. *)
GoesOn(t) ==
    /\ (DelegateStep(t) /\ UNCHANGED allocated) \/ CounterStep(t)
    /\ Step

(* A thread in a call goes on; a client's job is done some day; a client   *)
(* runs a delegate that was blocked and frees what it has allocated.       *)
Fairness ==
    /\ \A t \in Threads : WF_vars(GoesOn(t))
    /\ \A j \in UserJobs :
          SF_vars(\E t \in Threads : JobDone(t, j) /\ Step /\ UNCHANGED allocated)
    /\ SF_vars(\E t \in Threads : Run(t) /\ Step /\ UNCHANGED allocated)
    /\ SF_vars(\E t \in Threads, n \in Needs : Free(t, n) /\ Step)

Spec == Init /\ [][Next]_vars /\ Fairness

-------------------------------------------------------------------------------
(* The holder of the lock is in one of these places. *)
Runs(t) ==
    \/ local[t].pc \in {"run", "drain", "pop", "jobs", "block", "release", "handoff",
                        "remove", "unblocking"}
    \/ At(t, "lockwait") /\ t \notin ToSet(waitq)

Places(j) ==
    LET in(s) == Cardinality({i \in 1..Len(s) : s[i] = j}) IN
    in(queued_jobs) + in(blocked_jobs) + in(Chain(incoming_stack))

(* The thread that is about to put job j on a list. *)
InHand(j) ==
    \E t \in Threads : local[t].job = j /\ local[t].pc \in {"submit", "push", "link", "swap"}

(* No push has gone wrong.  push_incoming reads the head of the stack for  *)
(* the swap and once more for the link (delegate.c:96-100); if another     *)
(* thread pushed and the delegate was drained in between, both may differ  *)
(* although the swap succeeds, and nothing is promised from there on.      *)
Intact == ~torn

(* A job that was submitted is in one place: in the hands of its           *)
(* submitter, on the stack, on one of the lists, or done with its event    *)
(* signalled, until it is cancelled; and a job nobody has submitted is in  *)
(* none.  What the code asserts follows: a queued job is the delegate's    *)
(* and not blocked, an unblocked one is blocked, and the fast path finds   *)
(* the queue empty.                                                        *)
JobsAccounted == Intact =>
    /\ \A j \in Jobs :
          LET places == Places(j) + (IF InHand(j) THEN 1 ELSE 0)
                                  + (IF signaled[j] THEN 1 ELSE 0)
              cancelled == \E t \in Threads :
                  local[t].target = j /\ cancel_result[t] = "cancelled"
          IN  /\ places <= 1
              /\ j \in UserJobs =>
                    (places = 1 <=> phase[j] # "free" /\ ~cancelled)
    /\ \A j \in ToSet(queued_jobs) : job[j].delegate /\ ~job[j].is_blocked
    /\ \A j \in ToSet(blocked_jobs) : job[j].delegate /\ job[j].is_blocked
    /\ \A t \in Threads :
          /\ At(t, "unblocking") => local[t].target \in ToSet(blocked_jobs)
          /\ At(t, "submit") /\ ~Busy => queued_jobs = <<>>
          /\ At(t, "pop") => \A j \in ToSet(Chain(incoming_stack)) :
                job[j].func = "unblock" => job[j].arg \in ToSet(blocked_jobs)

(* At most one thread runs the jobs of a delegate; the lock bit says       *)
(* whether there is one and the wait bit whether somebody waits for it.    *)
(* When the lock is free, what was submitted to be run has been seen: no   *)
(* such job is on the stack unless its bit is still to be set, and the     *)
(* pending bit says whether jobs are queued.  The exception is a job that  *)
(* came while an allocation was made for another: the word the allocation  *)
(* has written becomes the runner's snapshot, incoming bit included        *)
(* (counter.c:52-54), and the release over it succeeds.                    *)
NoneLeftBehind == Intact =>
    /\ \A t, u \in Threads : Runs(t) /\ Runs(u) => t = u
    /\ word.lock <=> \E t \in Threads : Runs(t)
    /\ word.waiting <=> waitq # <<>>
    /\ ~word.lock =>
          /\ word.pending <=> queued_jobs # <<>>
          /\ \A j \in ToSet(Chain(incoming_stack)) :
                job[j].now => \/ overlooked
                              \/ \E t \in Threads : At(t, "bits") /\ local[t].job = j

(* The jobs that are done with this step. *)
Served == {j \in UserJobs : signaled'[j] /\ ~signaled[j]}

(* An allocation made by its caller overtakes no allocation that is known  *)
(* to wait, and one made by a job none that was known when it came: a      *)
(* counter is strictly fair, also to the jobs that were overlooked.        *)
StrictlyFair ==
    [][Intact' /\ allocated' > allocated =>
          \A k \in Waiting \ Served : \E j \in Served : k \notin ahead[j]
      ]_vars

(* A cancel that reports success has taken the job before it was done, and *)
(* one that reports EALREADY leaves nothing of it with the delegate.       *)
CancelExact == Intact =>
    \A t \in Threads :
        LET j == local[t].target IN
        cancel_result[t] # NULL =>
            Places(j) = 0 /\ (cancel_result[t] = "EALREADY" <=> signaled[j])

(* Every job that has been given to the delegate to be run gets done,      *)
(* cancelled or blocked some day, however often the runner has to start    *)
(* again and also if it was overlooked.  (The push itself is lock-free     *)
(* only: its swap may fail for ever when others push for ever.)            *)
JobsFinish ==
    \A j \in UserJobs :
        LET toRun == j \in InDelegate \ ToSet(blocked_jobs)
        IN  toRun ~> ~toRun \/ torn
===============================================================================
