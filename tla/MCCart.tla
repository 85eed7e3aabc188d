------------------------------- MODULE MCCart -------------------------------
(***************************************************************************)
(* Cart for TLC: two objects of one product (a double tap creates both)    *)
(* and one of another.                                                     *)
(***************************************************************************)
EXTENDS Cart

CONSTANTS i1, i2, i3, p1, p2

MCItem == {i1, i2, i3}
MCProduct == {p1, p2}
MCProductOf == [i \in MCItem |-> IF i = i3 THEN p2 ELSE p1]
MCPrice == [p \in MCProduct |-> IF p = p1 THEN 2 ELSE 3]
=============================================================================
