----------------------------- MODULE MCReviews -----------------------------
(***************************************************************************)
(* Reviews for TLC: a product with a page and a half of reviews, others    *)
(* with none but the app's.                                                *)
(***************************************************************************)
EXTENDS Reviews

CONSTANTS p1, p2

MCTotal == [p \in Product |-> IF p = p1 THEN 3 ELSE 0]
=============================================================================
