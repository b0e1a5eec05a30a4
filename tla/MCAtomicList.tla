------------------------------ MODULE MCAtomicList -----------------------------
(* Lists of a few elements and what threads do with them. *)
EXTENDS AtomicList

CONSTANTS t1, t2, t3, e1, e2, e3

C(op) == <<[op |-> op, elem |-> NULL, pin |-> FALSE]>>
P(op) == <<[op |-> op, elem |-> NULL, pin |-> TRUE]>>
E(op, e) == <<[op |-> op, elem |-> e, pin |-> FALSE]>>

By(l, m1, p1, p2, p3) ==
    [list |-> l,
     mine |-> [t \in Threads |-> IF t = t1 THEN m1 ELSE NULL],
     prog |-> [t \in Threads |-> CASE t = t1 -> p1 [] t = t2 -> p2 [] OTHER -> p3]]

(* The two ends of the list are taken off while it is walked from behind. *)
Ends == By(<<e1, e2, e3>>, NULL, C("dequeue"), C("pop"),
           C("bwd") \o C("bwd") \o C("bwd") \o C("bwd"))

(* Neighbours are removed, one of them by two threads, behind an iterator. *)
Neighbours == By(<<e1, e2, e3>>, NULL, E("delete", e2), E("delete", e1) \o E("delete", e2),
                 C("bwd") \o C("bwd") \o C("bwd") \o C("stop"))

(* Two iterators meet and remove what they are at, while the list grows. *)
Meeting == By(<<e1, e2>>, e3, C("front"),
              C("fwd") \o C("fwdpop") \o C("fwd") \o C("fwdpop") \o C("fwd") \o C("stop"),
              C("bwd") \o C("bwdpop") \o C("bwd") \o C("bwdpop") \o C("bwd") \o C("stop"))

(* What is removed is inserted again, while the list is walked. *)
Again == By(<<e1, e2>>, e3, C("append") \o C("dequeue") \o C("append"),
            C("fwd") \o C("fwd") \o C("fwd") \o C("fwd"),
            E("delete", e2) \o P("front"))

(* Insertion next to an element whose neighbours come and go. *)
Beside == By(<<e1, e2>>, e3, C("fwd") \o C("after") \o C("stop"),
             C("dequeue") \o P("append"), E("seek", e2) \o C("bwd") \o C("stop"))

Before == By(<<e1, e2>>, e3, E("seek", e2) \o C("before") \o E("seek", e1) \o C("stop"),
             C("dequeue") \o P("append"), E("delete", e1))

(* A list that becomes empty. *)
Empty == By(<<e1>>, e3, C("append"), C("pop") \o C("front"), C("fwd") \o C("fwdpop") \o C("stop"))

(* Two removals behind each other and an iterator that removes, too. *)
Backward == By(<<e1, e2, e3>>, NULL, C("bwd") \o C("bwd") \o C("bwdpop") \o C("stop"),
               C("bwd") \o C("bwdpop") \o C("bwd") \o C("stop"), E("delete", e1))

All == {Ends, Neighbours, Meeting, Again, Beside, Before, Empty, Backward}
===============================================================================
