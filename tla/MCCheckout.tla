----------------------------- MODULE MCCheckout -----------------------------
(***************************************************************************)
(* Checkout for TLC.  Spec is checked with one attempt; OverlapSpec lets   *)
(* several attempts overlap, in a history that starts with one row in the  *)
(* cart, and in which the user stays on the checkout pages and the process *)
(* lives.                                                                  *)
(***************************************************************************)
EXTENDS Checkout

CONSTANTS i1, p1

MCProductOf == [i \in Item |-> IF i = i1 THEN p1 ELSE CHOOSE p \in Product : p # p1]
MCPrice == [p \in Product |-> IF p = p1 THEN 1 ELSE 2]
MCNoModel == -1

OneRow == [i \in Item |-> IF i = i1 THEN 2 ELSE 0]

OverlapInit ==
    /\ qty = OneRow /\ box = {i1} /\ disk = OneRow /\ queue = <<>>
    /\ screen = "cart" /\ pages = <<>> /\ priced = OneRow /\ badge = 1
    /\ again = {}
    /\ PayInit

OverlapNext ==
    \/ PressCheckout \/ ContinueBilling \/ Back
    \/ \E a \in Attempt : Attempting(a)
    \/ WalletServed \/ (\E v \in walletAns : WalletAnswered(v))
    \/ Hive

OverlapSpec == OverlapInit /\ [][OverlapNext]_vars /\ Fairness
=============================================================================
