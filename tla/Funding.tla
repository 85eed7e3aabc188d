------------------------------ MODULE Funding -------------------------------
(***************************************************************************)
(* What the checkout promises about money, apart from how it is done: an   *)
(* attempt that asks PayPal for money is turned into an order only after   *)
(* PayPal captured that money, and no attempt is turned into two orders.   *)
(***************************************************************************)
EXTENDS Naturals

CONSTANT Attempt

VARIABLES
    paypal,    \* the attempts that ask PayPal for money
    captured,  \* the attempts whose money PayPal took
    orders     \* orders[a]: how many orders the shop recorded for a

fundVars == <<paypal, captured, orders>>

Init == /\ paypal = {}
        /\ captured = {}
        /\ orders = [a \in Attempt |-> 0]

Ask(a) == /\ a \notin paypal
          /\ orders[a] = 0
          /\ paypal' = paypal \cup {a}
          /\ UNCHANGED <<captured, orders>>

Capture(a) == /\ a \in paypal \ captured
              /\ orders[a] = 0
              /\ captured' = captured \cup {a}
              /\ UNCHANGED <<paypal, orders>>

Order(a) == /\ orders[a] = 0
            /\ a \in paypal => a \in captured
            /\ orders' = [orders EXCEPT ![a] = 1]
            /\ UNCHANGED <<paypal, captured>>

Next == \E a \in Attempt : Ask(a) \/ Capture(a) \/ Order(a)

Spec == Init /\ [][Next]_fundVars
=============================================================================
