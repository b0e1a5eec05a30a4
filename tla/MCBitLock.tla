-------------------------------- MODULE MCBitLock ------------------------------
(* Instances of BitLock: who uses which operation. *)
EXTENDS BitLock

CONSTANTS t1, t2, t3

(* Both words on one list. *)
OneList == [l \in Locks |-> 1]

(* Only the second word changes its payload. *)
TwoPayloads == [l \in Locks |-> IF l = 2 THEN {1, 2} ELSE {1}]

(* Two threads that wait for conditions and notify, and one that takes     *)
(* words away from them.                                                   *)
Roles ==
    [t \in Threads |-> CASE t = t1 -> {"lock", "payload", "cvwait", "signal"}
                         [] t = t2 -> {"lock", "cvwait", "broadcast"}
                         [] OTHER -> {"trylock", "grab", "rekey", "signal"}]
===============================================================================
