----------------------------- MODULE Purchases -----------------------------
(***************************************************************************)
(* My Purchases: the page of an order above the list of orders, the        *)
(* details that all such pages share, and the two buttons on it that ask   *)
(* for a refund.  The list of orders itself is in Session.                 *)
(*                                                                         *)
(* Details are the order they are of and whether its refund was asked for  *)
(* (refund # 0); the rest is only shown.                                   *)
(***************************************************************************)
EXTENDS Naturals, FiniteSets

CONSTANTS
    Order,      \* the orders
    None,       \* no order, and null where details should be
    MaxAsks,    \* bound on the reads of details under way
    MaxRefunds  \* bound on the refund requests under way

PurchasesAssumption ==
    /\ None \notin Order \cup [of : Order, refund : BOOLEAN]
    /\ {MaxAsks, MaxRefunds} \subseteq Nat \ {0}

VARIABLES
    route,      \* "order" (MyPurchases), "list" below it, "away" below that;
                \* "blank": no page at all
    page,       \* MyPurchases: widget.orderId
    open,       \* MyPurchases: widget.status # "refunded"
    details,    \* orderDetailsModel
    load,       \* the flag load of OrderDetailsProvider
    loads,      \* OrderCancelProvider: which of loadTop, loadBottom are set
    asks,       \* getOrderDetails under way, with refund as it was when asked
    refunds,    \* cancelOrder under way: "sent", "stored" by the server, or
                \* waiting for getOrder; by: its page, sliding out, or gone
    requested,  \* the server: orders whose refund was asked for
    strays,     \* history: orders being read when the page was opened
    told,       \* history: orders of whose refund request the app was told ...
    fresh,      \* ... before the page was opened, with no read under way
    reset,      \* history: a flag was reset for the request of another button
    lost        \* history: the buttons a request of which threw, or found its
                \* page gone, since the flags were last reset

pageVars == <<route, page, open>>
history == <<strays, told, fresh, reset, lost>>
vars == <<pageVars, details, load, loads, asks, refunds, requested, history>>

Button == {"top", "bottom"}
Details == [of : Order, refund : BOOLEAN]
Refund == [of : Order, from : Button, at : {"sent", "stored", "list"},
           by : {"page", "leaving", "gone"}]

Init ==
    /\ route = "away" /\ page = None /\ open = FALSE
    /\ details = None /\ load = TRUE /\ loads = {}
    /\ asks = {} /\ refunds = {} /\ requested = {}
    /\ strays = {} /\ told = {} /\ fresh = FALSE /\ reset = FALSE /\ lost = {}

-----------------------------------------------------------------------------
(***************************************************************************)
(* The pages                                                               *)
(***************************************************************************)

OpenList ==
    /\ route = "away"
    /\ route' = "list"
    /\ UNCHANGED <<page, open, details, load, loads, asks, refunds, requested>>
    /\ UNCHANGED history

LeaveList ==
    /\ route = "list"
    /\ route' = "away"
    /\ UNCHANGED <<page, open, details, load, loads, asks, refunds, requested>>
    /\ UNCHANGED history

\* getOrderDetails up to its await.  (One read of a kind at a time.)
getOrderDetails(o) ==
    LET r == [of |-> o, refund |-> o \in requested] IN
    /\ Cardinality(asks) < MaxAsks /\ r \notin asks
    /\ asks' = asks \cup {r}
    /\ strays' = {s.of : s \in asks}
    /\ fresh' = (asks = {} /\ o \in told)

\* Faulty: the details of another order stay until the answer comes.
TapOrder_NoMakeLoad(o, live) ==
    /\ route = "list"
    /\ route' = "order" /\ page' = o /\ open' = live
    /\ getOrderDetails(o)
    /\ UNCHANGED <<details, load, loads, refunds, requested, told, reset, lost>>

\* A row of the list: makeLoad, then the page, whose initState asks.  live:
\* the status that the shop says the order has is not "refunded".
TapOrder(o, live) ==
    /\ route = "list"
    /\ load' = TRUE
    /\ route' = "order" /\ page' = o /\ open' = live
    /\ getOrderDetails(o)
    /\ UNCHANGED <<details, loads, refunds, requested, told, reset, lost>>

\* The context of a cancelOrder when its page slides out, and when it has.
Moved(a, b, rs) == {IF r.by = a THEN [r EXCEPT !.by = b] ELSE r : r \in rs}

\* The page on top goes; rs: the refunds that are still under way.
Under == [order |-> "list", list |-> "away", away |-> "blank", blank |-> "blank"]

Pop(rs) ==
    /\ route' = Under[route]
    /\ page' = None /\ open' = FALSE /\ strays' = {} /\ fresh' = FALSE
    /\ refunds' = IF route = "order" THEN Moved("page", "leaving", rs) ELSE rs

LeaveOrder ==
    /\ route = "order"
    /\ Pop(refunds)
    /\ UNCHANGED <<details, load, loads, asks, requested, told, reset, lost>>

TransitionEnds ==
    /\ \E r \in refunds : r.by = "leaving"
    /\ refunds' = Moved("leaving", "gone", refunds)
    /\ UNCHANGED <<pageVars, details, load, loads, asks, requested, history>>

\* 200, as the server has it then; whatever page is there.
DetailsAnswered(r, b) ==
    /\ asks' = asks \ {r}
    /\ details' = [of |-> r.of, refund |-> b] /\ load' = FALSE
    /\ UNCHANGED <<pageVars, loads, refunds, requested, history>>

\* Faulty: the spinner ends with any answer.
DetailsFail_Ends(r) ==
    /\ asks' = asks \ {r}
    /\ load' = FALSE
    /\ UNCHANGED <<pageVars, details, loads, refunds, requested, history>>

\* Another status, or an exception: the spinner stays.
DetailsFail(r) ==
    /\ asks' = asks \ {r}
    /\ UNCHANGED <<pageVars, details, load, loads, refunds, requested, history>>

-----------------------------------------------------------------------------
(***************************************************************************)
(* cancelOrder                                                             *)
(***************************************************************************)

\* Faulty: the button does not wait.
PressRefund_Again(b) ==
    /\ route = "order" /\ ~load /\ ~details.refund /\ open
    /\ Cardinality(refunds) < MaxRefunds
    /\ LET r == [of |-> page, from |-> b, at |-> "sent", by |-> "page"] IN
         r \notin refunds /\ refunds' = refunds \cup {r}
    /\ loads' = loads \cup {b}
    /\ UNCHANGED <<pageVars, details, load, asks, requested, history>>

\* REFUND at the top, REQUEST REFUND at the bottom: each looks at its own flag,
\* and at the details, whosever they are, but sends widget.orderId.
PressRefund(b) ==
    /\ route = "order" /\ ~load /\ ~details.refund /\ open
    /\ b \notin loads
    /\ Cardinality(refunds) < MaxRefunds
    /\ LET r == [of |-> page, from |-> b, at |-> "sent", by |-> "page"] IN
         r \notin refunds /\ refunds' = refunds \cup {r}
    /\ loads' = loads \cup {b}
    /\ UNCHANGED <<pageVars, details, load, asks, requested, history>>

RefundStored(r) ==
    /\ r.at = "sent"
    /\ refunds' = (refunds \ {r}) \cup {[r EXCEPT !.at = "stored"]}
    /\ requested' = requested \cup {r.of}
    /\ UNCHANGED <<pageVars, details, load, loads, asks, history>>

\* 200, whatever "response" says: the orders are read again.  Provider.of
\* throws when the page is gone.
RefundAnswered(r) ==
    /\ r.at # "list"
    /\ refunds' = (refunds \ {r})
                  \cup IF r.by = "gone" THEN {} ELSE {[r EXCEPT !.at = "list"]}
    /\ told' = IF r.at = "stored" THEN told \cup {r.of} ELSE told
    /\ lost' = IF r.by = "gone" THEN lost \cup {r.from} ELSE lost
    /\ UNCHANGED <<pageVars, details, load, loads, asks, requested>>
    /\ UNCHANGED <<strays, fresh, reset>>

\* Both flags go, also that of a request still under way.
ResetFor(r) ==
    /\ loads' = {} /\ lost' = {}
    /\ reset' = (reset \/ refunds \ {r} # {})

\* Another status: a toast.
RefundRefused(r) ==
    /\ r.at # "list"
    /\ refunds' = refunds \ {r}
    /\ ResetFor(r)
    /\ UNCHANGED <<pageVars, details, load, asks, requested>>
    /\ UNCHANGED <<strays, told, fresh>>

\* Faulty: when the page is closed, so is the matter.
OrdersRead_Pops(r) ==
    /\ r.at = "list" /\ r.by # "gone"
    /\ Pop(refunds \ {r})
    /\ UNCHANGED <<details, load, loads, asks, requested, told, reset, lost>>

\* getOrder has ended: pop, then the flags.  The pop throws when the page is
\* gone; while it slides out, the page below it goes.
OrdersRead(r) ==
    /\ r.at = "list"
    /\ IF r.by = "gone"
         THEN /\ refunds' = refunds \ {r} /\ lost' = lost \cup {r.from}
              /\ UNCHANGED <<pageVars, loads, strays, fresh, reset>>
         ELSE Pop(refunds \ {r}) /\ ResetFor(r)
    /\ UNCHANGED <<details, load, asks, requested, told>>

\* refund_request, or getOrder, throws: the flag stays.
RefundThrows(r) ==
    /\ refunds' = refunds \ {r}
    /\ lost' = lost \cup {r.from}
    /\ UNCHANGED <<pageVars, details, load, loads, asks, requested>>
    /\ UNCHANGED <<strays, told, fresh, reset>>

RefundEnds(r) ==
    RefundAnswered(r) \/ RefundRefused(r) \/ OrdersRead(r) \/ RefundThrows(r)

\* The process ends; the server remembers.  (With requests under way, which end
\* then, it leaves no other state.)
Restart ==
    /\ asks = {} /\ refunds = {}
    /\ route' = "away" /\ page' = None /\ open' = FALSE
    /\ details' = None /\ load' = TRUE /\ loads' = {}
    /\ strays' = {} /\ fresh' = FALSE /\ reset' = FALSE /\ lost' = {}
    /\ UNCHANGED <<asks, refunds, requested, told>>

Next ==
    \/ OpenList \/ LeaveList \/ LeaveOrder \/ TransitionEnds \/ Restart
    \/ \E o \in Order, live \in BOOLEAN : TapOrder(o, live)
    \/ \E r \in asks :
         \/ DetailsFail(r)
         \/ \E b \in {r.refund, r.of \in requested} : DetailsAnswered(r, b)
    \/ \E b \in Button : PressRefund(b)
    \/ \E r \in refunds : RefundStored(r) \/ RefundEnds(r)

Spec == Init /\ [][Next]_vars

-----------------------------------------------------------------------------
(***************************************************************************)
(* Properties                                                              *)
(***************************************************************************)

\* No page shows details that are null.
PurchasesTypeOK ==
    /\ route \in {"order", "list", "away", "blank"}
    /\ page \in Order \cup {None} /\ open \in BOOLEAN
    /\ details \in Details \cup {None} /\ load \in BOOLEAN
    /\ ~load => details # None
    /\ loads \subseteq Button
    /\ asks \subseteq Details /\ refunds \subseteq Refund
    /\ {requested, strays, told} \subseteq SUBSET Order
    /\ lost \subseteq Button
    /\ {fresh, reset} \subseteq BOOLEAN

\* The details on the page are of its order, or of one that was still being
\* read when it was opened: nothing from before is shown (makeLoad).
DetailsOfOrder ==
    route = "order" /\ ~load => details.of \in {page} \cup strays

\* Once the app was told that the refund of an order was asked for, the page of
\* that order, opened anew with no older read under way, sends no second
\* request: it waits for details that know of the first.
NoSecondRefund ==
    [][route = "order" /\ fresh => loads' \subseteq loads]_vars

\* Each button has one request under way, of whatever order, until an answer
\* to another request resets both flags.
OnePerButton ==
    ~reset => \A b \in Button : Cardinality({r \in refunds : r.from = b}) <= 1

\* A button spins only while a request of its own is under way, on the page of
\* whatever order, or after one threw or found its page gone - and then until
\* the answer to another request resets the flags.
ButtonsFree ==
    \A b \in loads \ lost : \E r \in refunds : r.from = b
=============================================================================
