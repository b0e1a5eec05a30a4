-------------------------------- MODULE MCRwLock -------------------------------
(* Instances of RwLock: who uses which operation. *)
EXTENDS RwLock, TLC

CONSTANTS t1, t2, t3, t4, t5

(* Three threads that do everything. *)
AllOps ==
    [unfair |-> BOOLEAN, max |-> 0,
     ops |-> [t \in Threads |->
                 IF t \in {t1, t2, t3}
                 THEN {"rd", "wr", "tryrd", "trywr", "upgrade", "downgrade"} ELSE {}]]

(* Three writers, a reader and a reader that upgrades, one call each of    *)
(* an unfair lock: enough for a queue that is taken apart to meet a new    *)
(* one with an upgrade in it.                                              *)
RaceOps ==
    [unfair |-> {TRUE}, max |-> 1,
     ops |-> [t \in Threads |-> CASE t \in {t1, t2, t3} -> {"wr"}
                                  [] t = t4 -> {"rd"}
                                  [] OTHER -> {"rd", "upgrade"}]]

SafetyClients == {AllOps, RaceOps}

(* A reader that upgrades, a writer that downgrades and a reader that may  *)
(* overtake them: for the liveness run.                                    *)
LiveClients ==
    {[unfair |-> BOOLEAN, max |-> 0,
      ops |-> [t \in Threads |-> CASE t = t1 -> {"rd", "upgrade"}
                                   [] t = t2 -> {"wr", "downgrade"}
                                   [] OTHER -> {"rd"}]]}

(* The first three threads are alike in both safety clients. *)
Alike == Permutations({t1, t2, t3})
===============================================================================
