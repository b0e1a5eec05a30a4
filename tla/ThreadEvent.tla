------------------------------ MODULE ThreadEvent ------------------------------
(***************************************************************************)
(* The event every waiter carries (src/lw_waiter.c): a flag and a pthread  *)
(* condition variable under a pthread mutex.  Any thread may signal it;    *)
(* only its owner waits on it, with or without a deadline.  StackEvent     *)
(* composes it with a client.                                              *)
(*                                                                         *)
(* The pthread mutex makes each stretch of code between its lock (or the   *)
(* return of a condition wait) and its unlock (or the next condition wait) *)
(* one step.  pthread_cond_wait may return spuriously, and after a timeout *)
(* the waiter has yet to get the mutex back, so a signal can slip in.      *)
(***************************************************************************)

VARIABLES
    signal_pending, waiter_waiting, \* lw_thread_event_t
    pc,     \* the owner: "out" of wait, "asleep" on the condition, "awake"
    timed,  \* its wait has a deadline (abstime # NULL)
    ret     \* what the condition wait, and then the wait, returned

eventVars == <<signal_pending, waiter_waiting, pc, timed, ret>>

(* lw_waiter_global_event_init *)
Init ==
    /\ signal_pending = FALSE /\ waiter_waiting = FALSE
    /\ pc = "out" /\ timed = FALSE /\ ret = "0"

(* lw_thread_event_signal: set the flag, and wake the owner if it sleeps. *)
Signal ==
    /\ signal_pending' = TRUE
    /\ pc' = IF waiter_waiting /\ pc = "asleep" THEN "awake" ELSE pc
    /\ UNCHANGED <<waiter_waiting, timed, ret>>

(* The tail of lw_thread_event_wait: both flags are cleared whatever the   *)
(* result; a wait that saw the signal has consumed it.                     *)
Return(result) ==
    /\ pc' = "out"
    /\ waiter_waiting' = FALSE
    /\ signal_pending' = FALSE
    /\ timed' = FALSE
    /\ ret' = result

(* lw_thread_event_wait, with or without a deadline, up to its first       *)
(* condition wait if it needs one.                                         *)
Wait(deadline) ==
    /\ pc = "out"
    /\ IF signal_pending
       THEN Return("0")
       ELSE /\ pc' = "asleep"
            /\ waiter_waiting' = TRUE
            /\ timed' = deadline
            /\ ret' = "0"
            /\ UNCHANGED signal_pending

(* pthread_cond_wait returns 0 without a signal, or EINTR. *)
Spurious ==
    /\ pc = "asleep"
    /\ pc' = "awake"
    /\ UNCHANGED <<signal_pending, waiter_waiting, timed, ret>>

(* pthread_cond_timedwait gives up; the mutex is yet to be taken back. *)
Timeout ==
    /\ pc = "asleep" /\ timed
    /\ pc' = "awake"
    /\ ret' = "ETIMEDOUT"
    /\ UNCHANGED <<signal_pending, waiter_waiting, timed>>

(* Mutant of Resume: the timeout is looked at before the signal. *)
ResumeTimeoutFirst ==
    /\ pc = "awake"
    /\ \/ ret = "ETIMEDOUT" /\ Return("ETIMEDOUT")
       \/ ret = "0" /\ signal_pending /\ Return("0")
       \/ /\ ret = "0" /\ ~signal_pending
          /\ pc' = "asleep"
          /\ UNCHANGED <<signal_pending, waiter_waiting, timed, ret>>

(* The owner has the mutex again: a signal counts even if it came with or  *)
(* after the timeout; a timeout ends the wait; anything else sleeps again. *)
Resume ==
    /\ pc = "awake"
    /\ \/ signal_pending /\ Return("0")
       \/ ~signal_pending /\ ret = "ETIMEDOUT" /\ Return("ETIMEDOUT")
       \/ /\ ~signal_pending /\ ret = "0"
          /\ pc' = "asleep"
          /\ UNCHANGED <<signal_pending, waiter_waiting, timed, ret>>
===============================================================================
