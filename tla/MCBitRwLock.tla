------------------------------ MODULE MCBitRwLock ------------------------------
(* Programs of readers and writers. *)
EXTENDS BitRwLock

CONSTANTS t1, t2, t3, t4, t5, a, b, c

(* Locks a and c are the same bits of different words, b other bits. *)
BitRanges == [l \in Locks |-> IF l = b THEN <<3, 3>> ELSE <<0, 3>>]

C(op, l) == <<[op |-> op, lock |-> l]>>

By(p1, p2, p3, p4, p5) ==
    [t \in Threads |-> CASE t = t1 -> p1 [] t = t2 -> p2 [] t = t3 -> p3
                         [] t = t4 -> p4 [] OTHER -> p5]

(* More readers than can be counted, and a writer. *)
Saturated == By(C("read", a), C("read", a) \o C("tryread", a), C("read", a),
                C("tryread", a), C("write", a))

(* A writer, and more readers that wait for it than can be counted. *)
Crowd == By(C("write", a), C("read", a), C("read", a), C("read", a), C("read", a))

(* Readers and writers of one lock that come again. *)
Mixed == By(C("write", a) \o C("read", a), C("read", a) \o C("trywrite", a),
            C("write", a) \o C("read", a), C("tryread", a) \o C("write", a), <<>>)

(* Two locks on one list, *)
Shared(l) == By(C("write", a), C("read", a) \o C("write", l), C("read", a),
                C("write", l), <<>>)

(* with different bits, or with the same. *)
Plain == {Saturated, Crowd, Mixed, Shared(b), Shared(c)}
===============================================================================
