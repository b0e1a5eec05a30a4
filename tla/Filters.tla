-------------------------------- MODULE Filters --------------------------------
(***************************************************************************)
(* Picking the members of a list: the loops that walk a wait list and keep *)
(* those of one word, or those of one kind.                                *)
(***************************************************************************)
EXTENDS Naturals, Sequences

(* Those of list q that are in the set s, in the order of the list. *)
Filter(q, s) ==
    LET f[i \in 0..Len(q)] ==
            IF i = 0 THEN <<>>
            ELSE IF q[i] \in s THEN Append(f[i - 1], q[i]) ELSE f[i - 1]
    IN  f[Len(q)]
===============================================================================
