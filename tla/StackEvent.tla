------------------------------- MODULE StackEvent -------------------------------
(***************************************************************************)
(* The on-stack event of src/lw_event.c, which a delegated job uses by     *)
(* default: its owner waits for it, one other thread signals it once per   *)
(* initialisation.  The tag starts at 2; each side's arrival decrements    *)
(* it, and the side that brings it to 0 came second.  Only a waiter that   *)
(* came first really waits, on a temporary lw_waiter_t in its own stack    *)
(* frame, which the signaller finds through base->wait_src.  The event of  *)
(* that waiter is a ThreadEvent.                                           *)
(*                                                                         *)
(* `wait_res' is not initialised in the code.  A wait that comes second    *)
(* (its decrement yields 0) returns it as it is: the model takes any value *)
(* of Uninitialized.  If that is not 0, the owner has had its signal and   *)
(* does not know it: `lost' says that this has happened.                   *)
(***************************************************************************)
EXTENDS Integers

CONSTANTS MaxRounds,     \* bound on initialisations of the event
          MaxTimeouts,   \* bound on timeouts per initialisation
          Uninitialized  \* what an uninitialised int may hold

Results == {"0", "ETIMEDOUT", "garbage"}

ASSUME BoundsAssumption == MaxRounds \in Nat /\ MaxTimeouts \in Nat
ASSUME UninitializedAssumption == Uninitialized \subseteq Results

VARIABLES
    tag,            \* base->tag
    wait_src,       \* base->wait_src names the stack waiter
    frame,          \* the stack waiter exists (its event is initialised)
    signal_pending, waiter_waiting, epc, etimed, eret, \* its event
    wpc, spc,       \* owner and signaller
    timed,          \* the wait has a deadline
    wait_res,       \* local of wait; outside a call, what it returned
    signalled,      \* history: signal was called since the initialisation
    received,       \* history: a wait returned "0" since then
    lost,           \* history: a wait that came second did not return "0"
    rounds, timeouts

Event == INSTANCE ThreadEvent WITH pc <- epc, timed <- etimed, ret <- eret

event == <<signal_pending, waiter_waiting, epc, etimed, eret>>

vars == <<tag, wait_src, frame, event, wpc, spc, timed, wait_res, signalled,
          received, lost, rounds, timeouts>>

Init ==
    /\ tag = 2
    /\ wait_src = FALSE /\ frame = FALSE /\ Event!Init
    /\ wpc = "out" /\ spc = "out"
    /\ timed = FALSE /\ wait_res = "0"
    /\ signalled = FALSE /\ received = FALSE /\ lost = FALSE
    /\ rounds = 1 /\ timeouts = 0

history == <<signalled, received, lost, rounds, timeouts>>

-------------------------------------------------------------------------------
(* The owner. *)

(* A wait returns r; the caller is done once it has seen its signal. *)
Result(r) ==
    /\ wpc' = "out"
    /\ wait_res' = r
    /\ received' = (r = "0")

(* lw_stack_event_wait, called by an owner that still expects its signal:  *)
(* if only the signal has come (tag 1), consume it and return.             *)
Wait ==
    /\ wpc = "out" /\ ~received
    /\ timed' \in BOOLEAN
    /\ IF tag = 1
       THEN tag' = 0 /\ Result("0")
       ELSE wpc' = "publish" /\ UNCHANGED <<tag, wait_res, received>>
    /\ UNCHANGED <<wait_src, frame, event, spc, signalled, lost, rounds, timeouts>>

(* waiter_event_init *)
EventInit ==
    /\ signal_pending' = FALSE /\ waiter_waiting' = FALSE
    /\ UNCHANGED <<epc, etimed, eret>>

(* Mutant of Publish: the waiter is made, but wait_src is set too late. *)
PublishLate ==
    /\ wpc = "publish"
    /\ frame' = TRUE /\ EventInit
    /\ wpc' = "arrive"
    /\ UNCHANGED <<tag, wait_src, spc, timed, wait_res, history>>

(* Make the stack waiter and let the signaller find it. *)
Publish ==
    /\ wpc = "publish"
    /\ frame' = TRUE /\ EventInit
    /\ wait_src' = TRUE
    /\ wpc' = "arrive"
    /\ UNCHANGED <<tag, spc, timed, wait_res, history>>

(* The decrement: wait if the owner came first; otherwise skip to the end  *)
(* with wait_res never assigned.                                           *)
Arrive ==
    /\ wpc = "arrive"
    /\ tag' = tag - 1
    /\ IF tag' # 0
       THEN wpc' = "block" /\ UNCHANGED <<wait_res, lost>>
       ELSE wpc' = "leave" /\ wait_res' \in Uninitialized /\ lost' = (wait_res' # "0")
    /\ UNCHANGED <<wait_src, frame, event, spc, timed, signalled, received, rounds,
                   timeouts>>

(* The call of lw_waiter_timedwait on the stack waiter ... *)
Block ==
    /\ wpc = "block"
    /\ Event!Wait(timed)
    /\ wpc' = "blocked"
    /\ UNCHANGED <<tag, wait_src, frame, spc, timed, wait_res, history>>

(* ... which returns: with the signal, or because of the deadline. *)
Blocked ==
    /\ wpc = "blocked" /\ epc = "out"
    /\ wait_res' = eret
    /\ wpc' = IF eret = "ETIMEDOUT" THEN "undo" ELSE "leave"
    /\ UNCHANGED <<tag, wait_src, frame, event, spc, timed, history>>

(* What happens to the owner while it is in a wait on the event. *)
Sleep ==
    /\ Event!Spurious \/ Event!Timeout
    /\ timeouts' = IF eret' = "ETIMEDOUT" THEN timeouts + 1 ELSE timeouts
    /\ timeouts' <= MaxTimeouts
    /\ UNCHANGED <<tag, wait_src, frame, wpc, spc, timed, wait_res, signalled,
                   received, lost, rounds>>

Resume ==
    /\ Event!Resume
    /\ UNCHANGED <<tag, wait_src, frame, wpc, spc, timed, wait_res, history>>

(* Mutant of Undo: the arrival is not taken back. *)
UndoForgets ==
    /\ wpc = "undo"
    /\ wpc' = IF tag = 0 THEN "consume" ELSE "leave"
    /\ UNCHANGED <<tag, wait_src, frame, event, spc, timed, wait_res, history>>

(* Take the arrival back.  If that gives 1 the signaller has arrived, and  *)
(* has signalled the stack waiter or is about to.                          *)
Undo ==
    /\ wpc = "undo"
    /\ tag' = tag + 1
    /\ wpc' = IF tag' = 1 THEN "consume" ELSE "leave"
    /\ UNCHANGED <<wait_src, frame, event, spc, timed, wait_res, history>>

(* lw_waiter_wait for that signal; it turns the timeout into a success. *)
Consume ==
    /\ wpc = "consume"
    /\ Event!Wait(FALSE)
    /\ wpc' = "consuming"
    /\ UNCHANGED <<tag, wait_src, frame, spc, timed, wait_res, history>>

Consumed ==
    /\ wpc = "consuming" /\ epc = "out"
    /\ wait_res' = "0"
    /\ tag' = 0
    /\ wpc' = "leave"
    /\ UNCHANGED <<wait_src, frame, event, spc, timed, history>>

(* Restore wait_src, destroy the stack waiter's event, return. *)
Leave ==
    /\ wpc = "leave"
    /\ wait_src' = FALSE /\ frame' = FALSE
    /\ Result(wait_res)
    /\ UNCHANGED <<tag, event, spc, timed, signalled, lost, rounds, timeouts>>

(* lw_stack_base_event_init for the next job, once this one is over. *)
Reinit ==
    /\ wpc = "out" /\ received /\ spc = "out"
    /\ rounds < MaxRounds
    /\ rounds' = rounds + 1
    /\ tag' = 2
    /\ wait_res' = "0"
    /\ signalled' = FALSE /\ received' = FALSE /\ timeouts' = 0
    /\ UNCHANGED <<wait_src, frame, event, wpc, spc, timed, lost>>

-------------------------------------------------------------------------------
(* The signaller. *)

(* lw_stack_event_signal up to its decrement. *)
Signal ==
    /\ spc = "out" /\ ~signalled
    /\ signalled' = TRUE
    /\ tag' = tag - 1
    /\ spc' = IF tag' # 0 THEN "out" ELSE "wake"
    /\ UNCHANGED <<wait_src, frame, event, wpc, timed, wait_res, received, lost,
                   rounds, timeouts>>

(* The owner came first: wake the waiter wait_src names. *)
SignalWake ==
    /\ spc = "wake"
    /\ Event!Signal
    /\ spc' = "out"
    /\ UNCHANGED <<tag, wait_src, frame, wpc, timed, wait_res, history>>

-------------------------------------------------------------------------------
Owner ==
    \/ Publish \/ Arrive \/ Block \/ Blocked \/ Resume \/ Undo \/ Consume
    \/ Consumed \/ Leave

Next == Wait \/ Owner \/ Sleep \/ Reinit \/ Signal \/ SignalWake

(* Both threads run, the job completes, and its owner waits for it. *)
Spec ==
    /\ Init /\ [][Next]_vars
    /\ WF_vars(Wait) /\ WF_vars(Owner) /\ WF_vars(Signal) /\ WF_vars(SignalWake)

-------------------------------------------------------------------------------
(* The signaller dereferences wait_src only while it names a live stack    *)
(* waiter that has no signal yet, however the timeout races with it; an    *)
(* event that is destroyed has no signal and no wait in it; and an owner   *)
(* that sleeps on the condition variable has no signal, so that the one to *)
(* come will wake it.                                                      *)
WokenFrameAlive ==
    /\ spc = "wake" => wait_src /\ frame /\ ~signal_pending
    /\ wpc = "leave" => ~signal_pending /\ ~waiter_waiting /\ spc # "wake"
    /\ epc = "asleep" => ~signal_pending /\ waiter_waiting

(* The tag is a rendezvous counter, whatever an unassigned wait_res holds. *)
(* A wait reports the signal only after it was sent; after one that        *)
(* reports a timeout the tag has the arrivals to come, so that the next    *)
(* wait finds the signal if it has been sent.  The signal is lost in one   *)
(* way only, through a wait that came second and returned what it never    *)
(* assigned; only then does a further wait leave the range of the tag.     *)
TagIsRendezvous ==
    /\ received => signalled /\ tag = 0
    /\ wpc = "out" /\ ~received =>
          tag = IF lost THEN 0 ELSE IF signalled THEN 1 ELSE 2
    /\ lost => signalled /\ ~received
    /\ ~lost => tag \in 0..2

(* The job's owner gets its signal, or has lost it in that one way. *)
OwnerReceives == signalled ~> received \/ lost

-------------------------------------------------------------------------------
(* An inductive invariant that implies the two properties. *)

TypeOK ==
    /\ tag \in Int
    /\ wait_src \in BOOLEAN /\ frame \in BOOLEAN
    /\ signal_pending \in BOOLEAN /\ waiter_waiting \in BOOLEAN /\ etimed \in BOOLEAN
    /\ timed \in BOOLEAN
    /\ signalled \in BOOLEAN /\ received \in BOOLEAN /\ lost \in BOOLEAN
    /\ epc \in {"out", "asleep", "awake"} /\ eret \in {"0", "ETIMEDOUT"}
    /\ wpc \in {"out", "publish", "arrive", "block", "blocked", "undo", "consume",
                "consuming", "leave"}
    /\ spc \in {"out", "wake"}
    /\ wait_res \in Results

(* The owner's arrival is counted, *)
Arrived == wpc \in {"block", "blocked", "undo"}

(* its stack waiter can be found, *)
Published == wpc \in {"arrive", "block", "blocked", "undo", "consume", "consuming", "leave"}

(* and the signaller has arrived and found it, or will find it. *)
Signals == signal_pending \/ spc = "wake"

(* What the two have subtracted from the tag: an owner that has left with  *)
(* its signal has left its arrival in the tag, too.                        *)
TagInv ==
    LET n == tag + (IF signalled THEN 1 ELSE 0) + (IF Arrived THEN 1 ELSE 0)
    IN  /\ n \in {1, 2}
        /\ ~signalled => n = 2
        /\ Signals => signalled /\ n = 2
        /\ signalled /\ Arrived /\ n = 2 => Signals \/ (wpc = "blocked" /\ epc = "out" /\ eret = "0")
        /\ wpc \in {"consume", "consuming"} => signalled /\ n = 2

(* The owner cannot leave before its signal has come, once it is on its    *)
(* way, and takes it with it.                                              *)
FrameInv ==
    /\ wait_src <=> Published
    /\ frame <=> Published
    /\ spc = "wake" => ~signal_pending
    /\ Signals => Arrived \/ wpc \in {"consume", "consuming"}
    /\ wpc = "consume" => Signals
    /\ wpc = "consuming" => Signals \/ epc = "out"

(* The owner is in a wait on the thread event only where it may be.  A     *)
(* wait that is over has left no signal, and reports one only if it came.  *)
EventInv ==
    /\ epc # "out" => wpc \in {"blocked", "consuming"}
    /\ waiter_waiting <=> epc # "out"
    /\ epc = "asleep" => ~signal_pending
    /\ wpc = "consuming" => ~etimed /\ eret = "0"
    /\ wpc = "blocked" /\ epc = "out" /\ eret = "0" =>
          ~Signals /\ signalled /\ tag = 0
    /\ wpc = "consuming" /\ epc = "out" => ~Signals
    /\ wpc = "leave" => ~Signals
    /\ wpc = "blocked" /\ epc # "out" /\ eret = "ETIMEDOUT" => epc = "awake"

IInv == TypeOK /\ TagInv /\ FrameInv /\ EventInv

(* The owner has its signal, or has lost it, when it leaves with an        *)
(* arrival left in the tag, and then only.                                 *)
ReceiptInv ==
    LET n == tag + (IF Arrived THEN 1 ELSE 0)
    IN  /\ received => wpc = "out" /\ signalled /\ tag = 0 /\ ~lost
        /\ lost => signalled /\ n = 0
        /\ wpc = "leave" => (wait_res = "0" \/ lost <=> signalled /\ tag = 0)
        /\ wpc = "leave" => ~(wait_res = "0" /\ lost)
        /\ wpc = "undo" => wait_res = "ETIMEDOUT"
        /\ signalled /\ n = 0 => wpc = "leave" \/ received \/ lost
===============================================================================
