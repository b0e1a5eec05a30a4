---------------------------- MODULE StackEventProofs ---------------------------
(***************************************************************************)
(* The event on the stack for any number of uses and timeouts, and         *)
(* whatever an uninitialised wait_res holds: the signaller never touches a *)
(* dead frame, and the signal is lost only in the wait that returns that   *)
(* value.                                                                  *)
(***************************************************************************)
EXTENDS StackEvent, TLAPS

USE DEF history, event

(* A fresh event has two arrivals to come. *)
LEMMA InitIInv == Init => IInv
<1> SUFFICES ASSUME Init PROVE IInv
    OBVIOUS
<1> USE DEF Init, Event!Init, Arrived, Published, Signals
<1>1. TypeOK
    <2>1. wait_res \in Results /\ tag \in Int
        BY DEF Results
    <2>2. QED
        BY <2>1, Zenon DEF TypeOK
<1>2. TagInv
    BY DEF TagInv
<1>3. FrameInv
    BY DEF FrameInv
<1>4. EventInv
    BY DEF EventInv
<1>5. QED
    BY <1>1, <1>2, <1>3, <1>4 DEF IInv

(* One case per atomic step of lw_event.c and lw_waiter.c. *)
LEMMA StepIInv == IInv /\ [Next]_vars => IInv'
<1> SUFFICES ASSUME IInv, [Next]_vars PROVE IInv'
    OBVIOUS
<1> USE DEF IInv, TypeOK, TagInv, FrameInv, EventInv, Arrived, Published, Signals
<1>1. CASE UNCHANGED vars
    BY <1>1 DEF vars
<1>2. CASE Wait
    BY <1>2 DEF Wait, Result, Results
<1>3. CASE Publish
    BY <1>3 DEF Publish, EventInit
<1>4. CASE Arrive
    <2> USE <1>4 DEF Arrive
    <2>1. TypeOK'
        <3>1. wait_res' \in Results
            BY UninitializedAssumption
        <3>2. QED
            BY <3>1
    <2>2. TagInv'
        OBVIOUS
    <2>3. FrameInv'
        OBVIOUS
    <2>4. EventInv'
        OBVIOUS
    <2>5. QED
        BY <2>1, <2>2, <2>3, <2>4
<1>5. CASE Block
    <2> USE <1>5 DEF Block, Event!Wait, Event!Return
    <2>1. TypeOK'
        <3>1. wait_res' \in Results
            BY DEF Results
        <3>2. QED
            BY <3>1
    <2>2. TagInv'
        OBVIOUS
    <2>3. FrameInv'
        OBVIOUS
    <2>4. EventInv'
        OBVIOUS
    <2>5. QED
        BY <2>1, <2>2, <2>3, <2>4
<1>6. CASE Blocked
    BY <1>6 DEF Blocked, Results
<1>7. CASE Resume
    <2> USE <1>7 DEF Resume, Event!Resume
    <2>1. CASE signal_pending /\ Event!Return("0")
        <3> USE <2>1 DEF Event!Return
        <3>1. Signals /\ signalled /\ spc = "out" /\ wpc \in {"blocked", "consuming"}
            OBVIOUS
        <3>2. wpc = "blocked" => tag = 0
            BY <3>1
        <3>3. TypeOK'
            OBVIOUS
        <3>4. TagInv'
            BY <3>1, <3>2
        <3>5. FrameInv'
            BY <3>1
        <3>6. EventInv'
            BY <3>1, <3>2
        <3>7. QED
            BY <3>3, <3>4, <3>5, <3>6
    <2>2. CASE ~signal_pending /\ eret = "ETIMEDOUT" /\ Event!Return("ETIMEDOUT")
        BY <2>2 DEF Event!Return
    <2>3. CASE ~signal_pending /\ eret = "0" /\ epc' = "asleep"
               /\ UNCHANGED <<signal_pending, waiter_waiting, etimed, eret>>
        BY <2>3
    <2>4. QED
        BY <2>1, <2>2, <2>3
<1>8. CASE Undo
    BY <1>8 DEF Undo
<1>9. CASE Consume
    BY <1>9 DEF Consume, Event!Wait, Event!Return
<1>10. CASE Consumed
    BY <1>10 DEF Consumed, Results
<1>11. CASE Leave
    BY <1>11 DEF Leave, Result, Results
<1>12. CASE Sleep
    BY <1>12 DEF Sleep, Event!Spurious, Event!Timeout
<1>13. CASE Reinit
    <2> USE <1>13 DEF Reinit
    <2>1. TypeOK'
        <3>1. wait_res' \in Results /\ tag' \in Int
            BY DEF Results
        <3>2. QED
            BY <3>1, Zenon
    <2>2. TagInv'
        OBVIOUS
    <2>3. FrameInv'
        OBVIOUS
    <2>4. EventInv'
        OBVIOUS
    <2>5. QED
        BY <2>1, <2>2, <2>3, <2>4
<1>14. CASE Signal
    BY <1>14 DEF Signal
<1>15. CASE SignalWake
    BY <1>15 DEF SignalWake, Event!Signal
<1>16. QED
    BY <1>1, <1>2, <1>3, <1>4, <1>5, <1>6, <1>7, <1>8, <1>9, <1>10, <1>11, <1>12, <1>13, <1>14, <1>15 DEF Next, Owner

(* The inductive invariant holds in every state. *)
THEOREM Invariance == Spec => []IInv
BY InitIInv, StepIInv, PTL DEF Spec

(* lw_stack_event_signal dereferences the waiter of a wait that is not     *)
(* over, and a destroyed event has nobody on it, whatever deadlines pass.  *)
THEOREM FrameSafety == Spec => []WokenFrameAlive
<1>1. IInv => WokenFrameAlive
    BY DEF IInv, TypeOK, TagInv, FrameInv, EventInv, Arrived, Published, Signals,
           WokenFrameAlive
<1>2. QED
    BY <1>1, Invariance, PTL

(* Who leaves with the signal knows it, or it is lost. *)
LEMMA StepReceipt == IInv /\ ReceiptInv /\ [Next]_vars => ReceiptInv'
<1> SUFFICES ASSUME IInv, ReceiptInv, [Next]_vars PROVE ReceiptInv'
    OBVIOUS
<1> USE DEF IInv, TypeOK, TagInv, FrameInv, EventInv, Arrived, Published, Signals,
            ReceiptInv
<1>1. CASE UNCHANGED vars
    BY <1>1 DEF vars
<1>2. CASE Wait
    BY <1>2 DEF Wait, Result
<1>3. CASE Publish
    BY <1>3 DEF Publish, EventInit
<1>4. CASE Arrive
    BY <1>4 DEF Arrive
<1>5. CASE Block
    BY <1>5 DEF Block, Event!Wait, Event!Return
<1>6. CASE Blocked
    BY <1>6 DEF Blocked
<1>7. CASE Resume
    BY <1>7 DEF Resume, Event!Resume, Event!Return
<1>8. CASE Undo
    BY <1>8 DEF Undo
<1>9. CASE Consume
    BY <1>9 DEF Consume, Event!Wait, Event!Return
<1>10. CASE Consumed
    BY <1>10 DEF Consumed
<1>11. CASE Leave
    BY <1>11 DEF Leave, Result
<1>12. CASE Sleep
    BY <1>12 DEF Sleep, Event!Spurious, Event!Timeout
<1>13. CASE Reinit
    BY <1>13 DEF Reinit
<1>14. CASE Signal
    BY <1>14 DEF Signal
<1>15. CASE SignalWake
    BY <1>15 DEF SignalWake, Event!Signal
<1>16. QED
    BY <1>1, <1>2, <1>3, <1>4, <1>5, <1>6, <1>7, <1>8, <1>9, <1>10, <1>11, <1>12, <1>13, <1>14, <1>15 DEF Next, Owner

(* For every value an unassigned wait_res may have: a wait reports the     *)
(* signal only after it was sent, and the tag has the arrivals to come     *)
(* after each timeout, until a wait that came second returns that value.   *)
THEOREM Rendezvous == Spec => []TagIsRendezvous
<1>1. Init => ReceiptInv
    BY DEF Init, Event!Init, ReceiptInv, Arrived
<1>2. IInv /\ ReceiptInv => TagIsRendezvous
    BY DEF IInv, TypeOK, TagInv, FrameInv, EventInv, Arrived, Published, Signals,
           ReceiptInv, TagIsRendezvous
<1>3. QED
    BY <1>1, <1>2, StepReceipt, Invariance, PTL DEF Spec
===============================================================================
