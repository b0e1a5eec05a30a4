------------------------------- MODULE Delegate -------------------------------
(***************************************************************************)
(* Delegation (src/delegate.c): jobs are run by whichever thread holds the *)
(* lock bit of the delegate's state word.  A thread that finds it taken    *)
(* pushes its job on the incoming stack and sets the incoming bit; the     *)
(* holder drains the stack, runs the queue and gives the lock up with a    *)
(* compare-and-swap that fails if anything in the word has changed.        *)
(*                                                                         *)
(* One step is one atomic access to the state word or to the head of the   *)
(* incoming stack.  The two lists are touched by the holder of the lock    *)
(* only, so what is done to them is one step with the access before it.    *)
(* The loops of set_bits and clear_bits are one step.  The lock and wait   *)
(* bits are those of a bit lock (BitLock), whose waiters are served in     *)
(* order; a job's event (StackEvent) is a flag.                            *)
(*                                                                         *)
(* The word has the counter's units too: they share its compare-and-swap.  *)
(* A client's job reports any status its program allows; it is submitted   *)
(* again only after its event has been waited for or it was cancelled, and *)
(* it is cancelled by one thread at a time, after its submit has returned. *)
(***************************************************************************)
EXTENDS Naturals, Sequences, SequencesExt, FiniteSets

CONSTANTS Threads, NULL,
          UserJobs,   \* the jobs of the clients
          Clients     \* the programs: [ops, owner], which operations each
                      \* thread uses and which one submits each of the jobs

(* The job on the stack of delegate_cancel or delegate_unblock_job. *)
Own(t) == <<t>>
Jobs == UserJobs \cup {Own(t) : t \in Threads}

ASSUME DelegateAssumption ==
    /\ NULL \notin Threads \cup UserJobs
    /\ \A c \in Clients : DOMAIN c.ops = Threads /\ c.owner \in [UserJobs -> Threads]

VARIABLES
    client,          \* the program, which does not change
    word,            \* delegate->state
    incoming_stack,  \* its first job
    next,            \* event.iface.link.next of the jobs on the stack
    queued_jobs, blocked_jobs,
    job,             \* [func, arg, now, delegate, is_blocked] of each job
    signaled,        \* the events of the jobs
    cancel_result,   \* what each thread's last cancel found
    waitq,           \* who waits for the lock bit
    local,           \* where each thread is, and its locals
    phase            \* of each client job: "free", "submitting" or "out"

ops == client.ops
Submitter == client.owner

lists == <<queued_jobs, blocked_jobs>>
stack == <<incoming_stack, next>>
dvars == <<word, stack, lists, job, signaled, cancel_result, waitq, local, phase>>

(* A thread outside of all calls.  `old' is the head of the stack a push   *)
(* has read, `state' the word delegate_run_internal has, `then' what       *)
(* follows the drain, `wait' whether the call ends with a wait for `job'.  *)
Idle == [pc |-> "idle", job |-> NULL, lock |-> FALSE, old |-> NULL,
         state |-> NULL, then |-> "jobs", target |-> NULL, wait |-> FALSE]

(* delegate_init, in a counter with the given units. *)
DelegateInit(units) ==
    /\ client \in Clients
    /\ word = [lock |-> FALSE, incoming |-> FALSE, pending |-> FALSE,
               waiting |-> FALSE, available |-> units]
    /\ incoming_stack = NULL /\ next = [j \in Jobs |-> NULL]
    /\ queued_jobs = <<>> /\ blocked_jobs = <<>>
    /\ job = [j \in Jobs |-> [func |-> "user", arg |-> NULL, now |-> FALSE,
                              delegate |-> FALSE, is_blocked |-> FALSE]]
    /\ signaled = [j \in Jobs |-> FALSE]
    /\ cancel_result = [t \in Threads |-> NULL]
    /\ waitq = <<>>
    /\ local = [t \in Threads |-> Idle]
    /\ phase = [j \in UserJobs |-> "free"]

At(t, p) == local[t].pc = p
Goto(t, p) == local' = [local EXCEPT ![t].pc = p]
Begin(t, l) == local' = [local EXCEPT ![t] = l]

(* The phase of the client jobs after a call of thread t about job j: a    *)
(* cancelled job is free.                                                  *)
Reported(t, j, ph) ==
    IF cancel_result[t] = "cancelled" THEN [ph EXCEPT ![j] = "free"] ELSE ph

(* The call goes on after the push or the run: with a wait or a return,    *)
(* after which the job of a submit is out.                                 *)
Finish(t) ==
    LET l == local[t] IN
    IF l.wait
    THEN /\ local' = [local EXCEPT ![t] = [Idle EXCEPT
                         !.pc = "wait", !.job = l.job, !.target = l.target]]
         /\ UNCHANGED <<phase, cancel_result>>
    ELSE /\ local' = [local EXCEPT ![t] = Idle]
         /\ phase' = Reported(t, l.target,
                        [j \in UserJobs |-> IF j = l.job THEN "out" ELSE phase[j]])
         /\ cancel_result' = [cancel_result EXCEPT ![t] = NULL]

-------------------------------------------------------------------------------
(* delegate_submit and push_incoming. *)

NewJob(f, a, now) ==
    [func |-> f, arg |-> a, now |-> now, delegate |-> TRUE, is_blocked |-> FALSE]

(* A client submits job j, with a function of its own. *)
Submit(t, j, now) ==
    /\ At(t, "idle") /\ Submitter[j] = t /\ phase[j] = "free"
    /\ (IF now THEN "submit" ELSE "post") \in ops[t]
    /\ \A u \in Threads : local[u].target # j
    /\ phase' = [phase EXCEPT ![j] = "submitting"]
    /\ job' = [job EXCEPT ![j] = NewJob("user", NULL, now)]
    /\ Begin(t, [Idle EXCEPT !.pc = IF now THEN "submit" ELSE "push", !.job = j])
    /\ UNCHANGED <<word, stack, lists, signaled, cancel_result, waitq>>

(* The fast path: nobody runs and nothing waits to be run. *)
FastPath(t) ==
    /\ At(t, "submit") /\ ~(word.incoming \/ word.pending \/ word.lock)
    /\ word' = [word EXCEPT !.lock = TRUE]
    /\ queued_jobs' = Append(queued_jobs, local[t].job)
    /\ Goto(t, "run")
    /\ UNCHANGED <<stack, blocked_jobs, job, signaled, cancel_result, waitq, phase>>

SlowPath(t) ==
    /\ At(t, "submit") /\ (word.incoming \/ word.pending \/ word.lock)
    /\ local' = [local EXCEPT ![t].pc = "push", ![t].lock = TRUE]
    /\ UNCHANGED <<word, stack, lists, job, signaled, cancel_result, waitq, phase>>

(* push_incoming: the head of the stack is read, ... *)
PushRead(t) ==
    /\ At(t, "push")
    /\ local' = [local EXCEPT ![t].pc = "link", ![t].old = incoming_stack]
    /\ UNCHANGED <<word, stack, lists, job, signaled, cancel_result, waitq, phase>>

(* ... and read once more for the link, ... *)
PushLink(t) ==
    /\ At(t, "link")
    /\ next' = [next EXCEPT ![local[t].job] = incoming_stack]
    /\ Goto(t, "swap")
    /\ UNCHANGED <<word, incoming_stack, lists, job, signaled, cancel_result, waitq,
                   phase>>

(* Mutant of PushSwap: the head is stored, whatever it has become. *)
PushSwapBlind(t) ==
    /\ At(t, "swap")
    /\ incoming_stack' = local[t].job /\ Goto(t, "bits")
    /\ UNCHANGED <<word, next, lists, job, signaled, cancel_result, waitq, phase>>

(* ... and replaced if it still is what the first read found. *)
PushSwap(t) ==
    /\ At(t, "swap")
    /\ IF incoming_stack = local[t].old
       THEN incoming_stack' = local[t].job /\ Goto(t, "bits")
       ELSE /\ local' = [local EXCEPT ![t].pc = "link", ![t].old = incoming_stack]
            /\ UNCHANGED incoming_stack
    /\ UNCHANGED <<word, next, lists, job, signaled, cancel_result, waitq, phase>>

(* The incoming bit is set, with run_now the lock bit too.  Who finds the  *)
(* lock free has it now.                                                   *)
PushBits(t) ==
    /\ At(t, "bits")
    /\ word' = [word EXCEPT !.incoming = TRUE, !.lock = @ \/ local[t].lock]
    /\ IF local[t].lock /\ ~word.lock
       THEN Goto(t, "run") /\ UNCHANGED <<phase, cancel_result>>
       ELSE Finish(t)
    /\ UNCHANGED <<stack, lists, job, signaled, waitq>>

-------------------------------------------------------------------------------
(* The queue.  What is done to it is a function of the four variables of   *)
(* the record q.                                                           *)

Queue == [queued |-> queued_jobs, blocked |-> blocked_jobs, job |-> job,
          signaled |-> signaled, result |-> cancel_result]

SetQueue(q) ==
    /\ queued_jobs' = q.queued /\ blocked_jobs' = q.blocked
    /\ job' = q.job /\ signaled' = q.signaled /\ cancel_result' = q.result

(* job_still_with_delegate *)
StillWith(q, j) ==
    /\ q.job[j].delegate
    /\ j \in ToSet(IF q.job[j].is_blocked THEN q.blocked ELSE q.queued)

(* ... with remove *)
RemoveFrom(q, j) ==
    [q EXCEPT !.queued = Remove(@, j), !.blocked = Remove(@, j)]

(* delegate_cancel_job: thread t is told what became of j. *)
CancelJob(q, t, j) ==
    IF StillWith(q, j)
    THEN [RemoveFrom(q, j) EXCEPT !.result[t] = "cancelled"]
    ELSE [q EXCEPT !.result[t] = "EALREADY"]

(* job_to_unblock_another_job *)
UnblockJob(q, j) ==
    [q EXCEPT !.blocked = Remove(@, j), !.job[j].is_blocked = FALSE,
              !.queued = Append(@, j)]

IsService(j) == job[j].func \in {"cancel", "unblock"}

(* The functions of the jobs the delegate itself submits. *)
ServiceFunc(q, j) ==
    IF job[j].func = "cancel" THEN CancelJob(q, j[1], job[j].arg)
                              ELSE UnblockJob(q, job[j].arg)

(* One of them, found on the incoming stack, is run and its event signalled. *)
Immediate(q, j) == [ServiceFunc(q, j) EXCEPT !.signaled[j] = TRUE]

(* DELEGATED_DONE: off the queue, and the event is signalled. *)
Done(q) ==
    LET j == Head(q.queued) IN
    [q EXCEPT !.queued = Tail(@), !.job[j].delegate = FALSE, !.signaled[j] = TRUE]

(* The jobs from j on, along the links. *)
Chain(j) ==
    LET walk[n \in 0..Cardinality(Jobs), x \in Jobs \cup {NULL}] ==
            IF n = 0 \/ x = NULL THEN <<>> ELSE <<x>> \o walk[n - 1, next[x]]
    IN  walk[Cardinality(Jobs), j]

-------------------------------------------------------------------------------
(* delegate_run_internal, by the holder of the lock. *)

RunInternal(t) ==
    /\ At(t, "run")
    /\ local' = [local EXCEPT ![t].pc = "drain", ![t].then = "jobs", ![t].state = word]
    /\ UNCHANGED <<word, stack, lists, job, signaled, cancel_result, waitq, phase>>

(* What follows the drain: old.fields.incoming = 0 in the main loop. *)
Drained(t) ==
    local' = [local EXCEPT ![t].pc = local[t].then,
                           ![t].state = IF local[t].then = "jobs"
                                        THEN [@ EXCEPT !.incoming = FALSE] ELSE @]

DrainNothing(t) ==
    /\ At(t, "drain") /\ ~word.incoming
    /\ Drained(t)
    /\ UNCHANGED <<word, stack, lists, job, signaled, cancel_result, waitq, phase>>

(* drain_incoming clears the bit and then empties the stack. *)
DrainClear(t) ==
    /\ At(t, "drain") /\ word.incoming
    /\ word' = [word EXCEPT !.incoming = FALSE]
    /\ Goto(t, "pop")
    /\ UNCHANGED <<stack, lists, job, signaled, cancel_result, waitq, phase>>

(* Mutant of DrainStack: the jobs join the queue as the stack has them. *)
DrainStackUnturned(t) ==
    LET taken == Chain(incoming_stack)
        q == [Queue EXCEPT !.queued =
                 @ \o SelectSeq(taken, LAMBDA j : ~IsService(j))]
    IN  /\ At(t, "pop")
        /\ incoming_stack' = NULL
        /\ next' = [j \in Jobs |-> IF j \in ToSet(taken) THEN NULL ELSE next[j]]
        /\ SetQueue(FoldLeft(Immediate, q, SelectSeq(taken, IsService)))
        /\ Drained(t)
        /\ UNCHANGED <<word, waitq, phase>>

(* The jobs join the queue in the order they were pushed; those of cancel  *)
(* and unblock are run at once, the last one pushed first.                 *)
DrainStack(t) ==
    LET taken == Chain(incoming_stack)
        q == [Queue EXCEPT !.queued =
                 @ \o Reverse(SelectSeq(taken, LAMBDA j : ~IsService(j)))]
    IN  /\ At(t, "pop")
        /\ incoming_stack' = NULL
        /\ next' = [j \in Jobs |-> IF j \in ToSet(taken) THEN NULL ELSE next[j]]
        /\ SetQueue(FoldLeft(Immediate, q, SelectSeq(taken, IsService)))
        /\ Drained(t)
        /\ UNCHANGED <<word, waitq, phase>>

(* run_queued_jobs finds the queue empty. *)
NoMoreJobs(t) ==
    /\ At(t, "jobs") /\ queued_jobs = <<>>
    /\ Goto(t, "release")
    /\ UNCHANGED <<word, stack, lists, job, signaled, cancel_result, waitq, phase>>

(* The first job is j, with function f. *)
RunsJob(t, j, f) ==
    /\ At(t, "jobs") /\ queued_jobs # <<>>
    /\ j = Head(queued_jobs) /\ job[j].func = f

(* What job j reports besides DONE is up to the program. *)
Reports(t, j, s) == RunsJob(t, j, "user") /\ s \in ops[Submitter[j]]

JobDone(t, j) ==
    /\ RunsJob(t, j, "user")
    /\ SetQueue(Done(Queue))
    /\ UNCHANGED <<word, stack, waitq, local, phase>>

JobYield(t, j) ==
    /\ Reports(t, j, "yield")
    /\ queued_jobs' = Append(Tail(queued_jobs), j)
    /\ UNCHANGED <<word, stack, blocked_jobs, job, signaled, cancel_result, waitq,
                   local, phase>>

JobBlockAll(t, j) ==
    /\ Reports(t, j, "block_all")
    /\ Goto(t, "release")
    /\ UNCHANGED <<word, stack, lists, job, signaled, cancel_result, waitq, phase>>

(* The function of j arranges to be unblocked and then reports BLOCK_THIS: *)
(* the unblock may be called before it returns.                            *)
JobBlocks(t, j) ==
    /\ Reports(t, j, "block_this")
    /\ Goto(t, "block")
    /\ UNCHANGED <<word, stack, lists, job, signaled, cancel_result, waitq, phase>>

JobBlockThis(t) ==
    LET j == Head(queued_jobs) IN
    /\ At(t, "block")
    /\ job' = [job EXCEPT ![j].is_blocked = TRUE]
    /\ queued_jobs' = Tail(queued_jobs)
    /\ blocked_jobs' = Append(blocked_jobs, j)
    /\ Goto(t, "jobs")
    /\ UNCHANGED <<word, stack, signaled, cancel_result, waitq, phase>>

(* A cancel or an unblock that was submitted by the fast path. *)
ServiceJob(t, j) ==
    /\ RunsJob(t, j, "cancel") \/ RunsJob(t, j, "unblock")
    /\ SetQueue(Done(ServiceFunc(Queue, j)))
    /\ UNCHANGED <<word, stack, waitq, local, phase>>

(* Mutant of Release: what came in since the drain is not looked at. *)
ReleaseBlind(t) ==
    /\ At(t, "release")
    /\ word' = [word EXCEPT !.pending = queued_jobs # <<>>, !.lock = word.waiting]
    /\ IF word.waiting
       THEN Goto(t, "handoff") /\ UNCHANGED <<phase, cancel_result>>
       ELSE Finish(t)
    /\ UNCHANGED <<stack, lists, job, signaled, waitq>>

(* The lock is given up if nothing changed, else everything is done again. *)
Release(t) ==
    LET s == local[t].state IN
    /\ At(t, "release")
    /\ IF word = s
       THEN /\ word' = [s EXCEPT !.pending = queued_jobs # <<>>, !.lock = s.waiting]
            /\ IF s.waiting
               THEN Goto(t, "handoff") /\ UNCHANGED <<phase, cancel_result>>
               ELSE Finish(t)
       ELSE /\ local' = [local EXCEPT ![t].pc = "drain", ![t].state = word]
            /\ UNCHANGED <<word, phase, cancel_result>>
    /\ UNCHANGED <<stack, lists, job, signaled, waitq>>

(* lw_bitlock64_unlock with the wait bit set: the first waiter has the lock. *)
Handoff(t) ==
    /\ At(t, "handoff")
    /\ word' = [word EXCEPT !.waiting = Len(waitq) > 1]
    /\ waitq' = Tail(waitq)
    /\ Finish(t)
    /\ UNCHANGED <<stack, lists, job, signaled>>

-------------------------------------------------------------------------------
(* delegate_run, delegate_cancel and delegate_unblock_job. *)

(* delegate_run without waiting; a failed try_lock changes nothing. *)
RunNoWait(t) ==
    /\ At(t, "idle") /\ "run_nowait" \in ops[t] /\ ~word.lock
    /\ word' = [word EXCEPT !.lock = TRUE]
    /\ Begin(t, [Idle EXCEPT !.pc = "run"])
    /\ UNCHANGED <<stack, lists, job, signaled, cancel_result, waitq, phase>>

Run(t) ==
    /\ At(t, "idle") /\ "run" \in ops[t]
    /\ IF word.lock
       THEN /\ word' = [word EXCEPT !.waiting = TRUE]
            /\ waitq' = Append(waitq, t)
            /\ Begin(t, [Idle EXCEPT !.pc = "lockwait"])
       ELSE /\ word' = [word EXCEPT !.lock = TRUE]
            /\ Begin(t, [Idle EXCEPT !.pc = "run"])
            /\ UNCHANGED waitq
    /\ UNCHANGED <<stack, lists, job, signaled, cancel_result, phase>>

LockWaitDone(t) ==
    /\ At(t, "lockwait") /\ t \notin ToSet(waitq)
    /\ Goto(t, "run")
    /\ UNCHANGED <<word, stack, lists, job, signaled, cancel_result, waitq, phase>>

(* Nobody else is about to cancel, unblock or submit j. *)
Undisturbed(j) == phase[j] = "out" /\ \A u \in Threads : local[u].target # j

(* A call of thread t about job j starts with delegate_try_lock: the lock, *)
(* or a job f with that argument.                                          *)
TryLock(t, j, f, p) ==
    IF ~word.lock
    THEN /\ word' = [word EXCEPT !.lock = TRUE]
         /\ Begin(t, [Idle EXCEPT !.pc = p, !.target = j, !.then = "remove"])
         /\ UNCHANGED job
    ELSE /\ job' = [job EXCEPT ![Own(t)] = NewJob(f, j, TRUE)]
         /\ Begin(t, [Idle EXCEPT !.pc = "submit", !.job = Own(t), !.target = j,
                                  !.wait = TRUE])
         /\ UNCHANGED word

(* Mutant of Cancel: the incoming jobs are not drained first. *)
CancelNoDrain(t, j, wait) ==
    /\ At(t, "idle") /\ (IF wait THEN "cancel" ELSE "cancel_nowait") \in ops[t]
    /\ Undisturbed(j) /\ (wait \/ ~word.lock)
    /\ TryLock(t, j, "cancel", "remove")
    /\ UNCHANGED <<stack, lists, signaled, cancel_result, waitq, phase>>

(* Without `wait' the caller of delegate_cancel is sent away when the lock *)
(* is taken.                                                               *)
Cancel(t, j, wait) ==
    /\ At(t, "idle") /\ (IF wait THEN "cancel" ELSE "cancel_nowait") \in ops[t]
    /\ Undisturbed(j) /\ (wait \/ ~word.lock)
    /\ TryLock(t, j, "cancel", "drain")
    /\ UNCHANGED <<stack, lists, signaled, cancel_result, waitq, phase>>

(* With the lock, after the drain. *)
CancelRemove(t) ==
    /\ At(t, "remove")
    /\ SetQueue(CancelJob(Queue, t, local[t].target))
    /\ Goto(t, "run")
    /\ UNCHANGED <<word, stack, waitq, phase>>

(* A job is unblocked once, after its function has asked for it. *)
MayUnblock(j) ==
    /\ Undisturbed(j)
    /\ \/ job[j].is_blocked
       \/ \E u \in Threads : At(u, "block") /\ j = Head(queued_jobs)

Unblock(t, j) ==
    /\ At(t, "idle") /\ "unblock" \in ops[t] /\ MayUnblock(j)
    /\ TryLock(t, j, "unblock", "unblocking")
    /\ UNCHANGED <<stack, lists, signaled, cancel_result, waitq, phase>>

UnblockLocked(t) ==
    /\ At(t, "unblocking")
    /\ SetQueue(UnblockJob(Queue, local[t].target))
    /\ Goto(t, "run")
    /\ UNCHANGED <<word, stack, waitq, phase>>

(* lw_event_wait at the end of a call. *)
EventWait(t) ==
    LET j == local[t].job IN
    /\ At(t, "wait") /\ signaled[j]
    /\ signaled' = [signaled EXCEPT ![j] = FALSE]
    /\ phase' = IF j \in UserJobs THEN [phase EXCEPT ![j] = "free"]
                ELSE Reported(t, job[j].arg, phase)
    /\ cancel_result' = [cancel_result EXCEPT ![t] = NULL]
    /\ Begin(t, Idle)
    /\ UNCHANGED <<word, stack, lists, job, waitq>>

(* A client waits for a job it has submitted, when it has nothing else to do. *)
Reap(t, j) ==
    /\ At(t, "idle") /\ Submitter[j] = t /\ phase[j] = "out" /\ signaled[j]
    /\ \A u \in Threads : local[u].target # j
    /\ signaled' = [signaled EXCEPT ![j] = FALSE]
    /\ phase' = [phase EXCEPT ![j] = "free"]
    /\ UNCHANGED <<word, stack, lists, job, cancel_result, waitq, local>>

-------------------------------------------------------------------------------
(* What a thread does on its own once it is in a call, ... *)
DelegateStep(t) ==
    \/ FastPath(t) \/ SlowPath(t) \/ PushRead(t) \/ PushLink(t) \/ PushSwap(t)
    \/ PushBits(t) \/ RunInternal(t) \/ DrainNothing(t) \/ DrainClear(t)
    \/ DrainStack(t) \/ NoMoreJobs(t) \/ JobBlockThis(t) \/ Release(t) \/ Handoff(t)
    \/ LockWaitDone(t) \/ CancelRemove(t) \/ UnblockLocked(t)
    \/ EventWait(t)
    \/ \E j \in Jobs : ServiceJob(t, j)

(* ... what a client's job may report, ... *)
DelegateJob(t) ==
    \E j \in UserJobs :
        JobDone(t, j) \/ JobYield(t, j) \/ JobBlockAll(t, j) \/ JobBlocks(t, j)

(* ... and the calls. *)
DelegateCall(t) ==
    \/ Run(t) \/ RunNoWait(t)
    \/ \E j \in UserJobs :
          \/ \E b \in BOOLEAN : Submit(t, j, b) \/ Cancel(t, j, b)
          \/ Unblock(t, j) \/ Reap(t, j)
===============================================================================
