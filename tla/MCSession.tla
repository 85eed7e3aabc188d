------------------------------ MODULE MCSession ------------------------------
(***************************************************************************)
(* Session for TLC: two users are interchangeable.                         *)
(***************************************************************************)
EXTENDS Session, TLC

UserSymmetry == Permutations(User)
=============================================================================
