------------------------------ MODULE MCPaying ------------------------------
(***************************************************************************)
(* Currency and Purchases, the way to PayPal and the way back, for TLC.  A *)
(* behaviour is of one of them, the other rests: they have nothing in      *)
(* common, and no property is about both.  The orders are interchangeable. *)
(***************************************************************************)
EXTENDS MCCurrency, TLC

CONSTANTS Order, MaxReads, MaxRefunds

VARIABLES
    part,       \* whose behaviour it is
    orderRoute, page, open, details, load, loads, asks, refunds, requested,
    strays, told, fresh, reset, lost

P == INSTANCE Purchases WITH MaxAsks <- MaxReads, route <- orderRoute

ASSUME PayingAssumption == P!PurchasesAssumption

OrderSymmetry == Permutations(Order)

orderVars == <<orderRoute, page, open, details, load, loads, asks, refunds,
               requested, strays, told, fresh, reset, lost>>

PayingInit ==
    /\ part \in {"currency", "purchases"} /\ Init /\ P!Init
    /\ part = "purchases" => balance = 0

PayingNext ==
    \/ part = "currency" /\ Next /\ UNCHANGED <<part, orderVars>>
    \/ part = "purchases" /\ P!Next /\ UNCHANGED <<part, vars>>

PayingSpec == PayingInit /\ [][PayingNext]_<<part, vars, orderVars>>

-----------------------------------------------------------------------------
\* The types of both; PayPal is asked for a sum and never for an exception, and
\* no page of an order shows details that are null.
PayingTypeOK == CurrencyTypeOK /\ P!PurchasesTypeOK

\* What PayPal is asked for is the share of the payment at the rates of some
\* table, once one has come, and the number on the page for one who pays the
\* whole sum in dollars (getConvertedRate, called by the page and by PAY).
AskedIsRight == AskedIsShown /\ AskedInDollars

\* The details on the page of an order are of that order, or of one that was
\* still being read when it was opened (makeLoad).
DetailsOfOrder == P!DetailsOfOrder

\* An order whose refund the app was told of, opened anew with no older read
\* under way, gets no second request (cancelOrder).
NoSecondRefund == P!NoSecondRefund

\* A refund button spins only while a request of its own is under way, and has
\* one at a time, up to the resets and exceptions that the two parts name.
RefundButtons == P!OnePerButton /\ P!ButtonsFree
=============================================================================
