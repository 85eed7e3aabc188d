------------------------------ MODULE Checkout ------------------------------
(***************************************************************************)
(* The checkout: the routes from the Cart tab over BillingAddress, Payment *)
(* and PaypalPayment to OrderPlaced, the payment attempts started on them, *)
(* the wallet balance the app remembers, and the three servers (PayPal,    *)
(* the wallet API, WooCommerce) with what they have recorded.              *)
(*                                                                         *)
(* A request is served in one step and answered in another, so that cart   *)
(* taps, navigation, other attempts, a lost answer or the death of the     *)
(* process come between.  Timers of 20 microseconds, and the 20 ms one of  *)
(* Payment's initState, are folded into the step that starts them.         *)
(***************************************************************************)
EXTENDS Cart, SequencesExt

CONSTANTS
    Attempt,     \* the taps on PAY of one history (bounds their number)
    MaxBalance,  \* the wallet balance at the start is at most this
    NoModel      \* walletModel == null

ASSUME CheckoutAssumption ==
    /\ MaxBalance \in Nat
    /\ NoModel \in Int \ Nat
    /\ {"billing", "payment", "placed"} \cap Attempt = {}

VARIABLES
    \* the app
    routes,      \* routes above the tabs; an attempt stands for its WebView
    bill,        \* what BillingAddress and Payment were opened with
    orderPlace,  \* WoocommerceProvider.orderPlace: spinner instead of PAY
    cached,      \* walletModel.data.balance
    leaving,     \* WebViews popped but still mounted (exit transition)
    phase,       \* phase[a]: how far the handler of attempt a has come
    kind,        \* kind[a]: paymentType
    job,         \* job[a]: the bill of the Payment page a was started on
    asked,       \* asked[a]: what PayPal is asked for
    charge,      \* charge[a]: what reduce_wallet is asked for
    lines,       \* lines[a]: the quantities in the order's line_items
    alive,       \* alive[a]: that Payment page is still mounted
    \* the servers, and the wallet reads on their way
    captured,    \* attempts whose PayPal payment was executed
    taken,       \* taken[a]: what the wallet API took for a
    orders,      \* orders[a]: orders WooCommerce created for a
    balance,     \* the wallet balance the server has
    walletAsk,   \* a getWalletDetails request is on its way to the server
    walletAns,   \* balances read by the server and not yet stored in the app
    \* history
    late,        \* late[a]: items touched since a began
    reread       \* attempts in whose PayPal part the balance was read anew

appVars == <<routes, bill, orderPlace, leaving, alive>>
walletVars == <<cached, walletAsk, walletAns, reread>>
jobVars == <<kind, job, asked, charge, lines>>
serverVars == <<captured, taken, orders, balance>>
payVars == <<appVars, phase, walletVars, jobVars, serverVars>>
vars == <<cartVars, payVars, late>>

ViaPaypal == {"Paypal", "Wallet & Paypal"}

Phase == {"idle", "create", "approve", "exec", "execOk", "execNo", "debit",
          "debited", "post", "postOk", "postOdd", "done", "unseen", "dead"}

\* The phases in which a request, or its answer, is on its way.
Waiting == {"create", "exec", "execOk", "execNo", "debit", "debited", "post",
            "postOk", "postOdd"}

NoBill == [total |-> 0, list |-> {}, hasty |-> FALSE]

PayInit ==
    /\ routes = <<>> /\ bill = NoBill /\ orderPlace = FALSE
    /\ cached = NoModel /\ leaving = {}
    /\ phase = [a \in Attempt |-> "idle"]
    /\ kind = [a \in Attempt |-> "none"]
    /\ job = [a \in Attempt |-> NoBill]
    /\ asked = [a \in Attempt |-> 0]
    /\ charge = [a \in Attempt |-> 0]
    /\ lines = [a \in Attempt |-> Nothing]
    /\ alive = [a \in Attempt |-> FALSE]
    /\ captured = {}
    /\ taken = [a \in Attempt |-> 0]
    /\ orders = [a \in Attempt |-> 0]
    /\ balance \in 0..MaxBalance
    /\ walletAsk = TRUE /\ walletAns = {}
    /\ late = [a \in Attempt |-> {}]
    /\ reread = {}

Init == CartInit /\ PayInit

Top(r) == routes # <<>> /\ Last(routes) = r

Removed(n) == {routes[k] : k \in (Len(routes) - n + 1)..Len(routes)}

\* Navigator.pop, n times: the pages on top are disposed.  A WebView that
\* goes before its user approved ends its attempt; one whose execution is
\* under way stays mounted until its exit transition ends.  ph: the phases
\* after the rest of the handler.
Pop(n, ph) ==
    /\ routes' = SubSeq(routes, 1, Len(routes) - n)
    /\ phase' = [a \in Attempt |->
                    IF a \in Removed(n) /\ ph[a] \in {"create", "approve"}
                      THEN "dead" ELSE ph[a]]
    /\ leaving' = leaving \cup
                    {a \in Removed(n) \cap Attempt :
                        ph[a] \in {"exec", "execOk", "execNo"}}
    /\ alive' = [a \in Attempt |-> alive[a] /\ "payment" \notin Removed(n)]

\* The late Navigator.pop of a finished executePayment: it throws when the
\* WebView is no longer mounted, else it pops whatever is on top.
LatePop(a, ph) ==
    IF a \in leaving \cup ToSet(routes) /\ routes # <<>>
      THEN Pop(1, ph)
      ELSE phase' = ph /\ UNCHANGED <<routes, leaving, alive>>

-----------------------------------------------------------------------------
(***************************************************************************)
(* Pages                                                                   *)
(***************************************************************************)

\* CHECKOUT of the Cart tab (for a signed-in user): the total is a copy of
\* the prices shown, the list is the list of the live objects.
PressCheckout ==
    /\ routes = <<>>
    /\ screen = "cart"
    /\ Rows # {}
    /\ routes' = <<"billing">>
    /\ bill' = [total |-> Total(priced), list |-> Rows,
                hasty |-> priced # Live]
    /\ UNCHANGED <<cartVars, orderPlace, leaving, alive, phase, walletVars,
                   jobVars, serverVars, late>>

\* CONTINUE of BillingAddress; Payment's initState does change(false).
ContinueBilling ==
    /\ Top("billing")
    /\ routes' = Append(routes, "payment")
    /\ orderPlace' = FALSE
    /\ UNCHANGED <<cartVars, bill, leaving, alive, phase, walletVars, jobVars,
                   serverVars, late>>

\* The back button or gesture, on any page above the tabs.
Back ==
    /\ routes # <<>>
    /\ Pop(1, phase)
    /\ UNCHANGED <<cartVars, bill, orderPlace, walletVars, jobVars, serverVars,
                   late>>

\* CLOSE of OrderPlaced: every route is replaced by a new BottomNavigation on
\* HOME, whose initState reads the wallet and the cart.
ClosePlaced ==
    /\ Top("placed")
    /\ Pop(Len(routes), phase)
    /\ screen' = "home"
    /\ priced' = Nothing
    /\ queue' = Orphaned(Tab, queue)
    /\ badge' = Cardinality(box)
    /\ walletAsk' = TRUE
    /\ UNCHANGED <<qty, box, disk, pages, again, bill, orderPlace, cached,
                   walletAns, reread, jobVars, serverVars, late>>

\* A tap in the tabs, possible only while nothing lies above them.
Browse ==
    /\ routes = <<>>
    /\ UserStep
    /\ walletAsk' = (walletAsk \/ (pages # <<>> /\ screen' = "cart"))
    /\ late' = [a \in Attempt |->
                  IF phase[a] \in {"idle", "dead"} THEN late[a]
                  ELSE late[a] \cup {i \in Item : \/ qty'[i] # qty[i]
                                            \/ (i \in box') # (i \in box)}]
    /\ UNCHANGED <<appVars, phase, cached, walletAns, reread, jobVars,
                   serverVars>>

\* The Profile tab: its initState reads the wallet.
OpenProfile ==
    /\ routes = <<>>
    /\ pages = <<>>
    /\ IF screen = "cart" THEN LeaveCart ELSE UNCHANGED cartVars
    /\ walletAsk' = TRUE
    /\ UNCHANGED <<appVars, phase, cached, walletAns, reread, jobVars, serverVars,
                   late>>

-----------------------------------------------------------------------------
(***************************************************************************)
(* The PAY button                                                          *)
(***************************************************************************)

\* The page is built from walletModel and shows PAY only while ~orderPlace.
CanPay(a) == /\ Top("payment")
             /\ ~orderPlace
             /\ cached # NoModel
             /\ phase[a] = "idle"

\* Faulty: changeOrderPlace() is forgotten.
PayByWallet_NoSpinner(a) ==
    /\ CanPay(a)
    /\ bill.total <= cached
    /\ phase' = [phase EXCEPT ![a] = "debit"]
    /\ kind' = [kind EXCEPT ![a] = "Wallet"]
    /\ job' = [job EXCEPT ![a] = bill]
    /\ charge' = [charge EXCEPT ![a] = bill.total]
    /\ alive' = [alive EXCEPT ![a] = TRUE]
    /\ UNCHANGED <<cartVars, routes, bill, orderPlace, leaving, walletVars, asked,
                   lines, serverVars, late>>

\* Wallet checked and total <= balance: reduce_wallet is sent.
PayByWallet(a) ==
    /\ CanPay(a)
    /\ bill.total <= cached
    /\ phase' = [phase EXCEPT ![a] = "debit"]
    /\ kind' = [kind EXCEPT ![a] = "Wallet"]
    /\ job' = [job EXCEPT ![a] = bill]
    /\ charge' = [charge EXCEPT ![a] = bill.total]
    /\ alive' = [alive EXCEPT ![a] = TRUE]
    /\ orderPlace' = TRUE
    /\ UNCHANGED <<cartVars, routes, bill, leaving, walletVars, asked, lines,
                   serverVars, late>>

\* Otherwise the PaypalPayment WebView is pushed, for the whole total or for
\* what the remembered balance leaves; its initState asks for the payment.
PayByPaypal(a, k, amount) ==
    /\ CanPay(a)
    /\ phase' = [phase EXCEPT ![a] = "create"]
    /\ kind' = [kind EXCEPT ![a] = k]
    /\ job' = [job EXCEPT ![a] = bill]
    /\ asked' = [asked EXCEPT ![a] = amount]
    /\ alive' = [alive EXCEPT ![a] = TRUE]
    /\ routes' = Append(routes, a)
    /\ UNCHANGED <<cartVars, bill, orderPlace, leaving, walletVars, charge, lines,
                   serverVars, late>>

\* Faulty: the balance is subtracted also when it is the larger amount.
Pay_Uncompared(a) ==
    \/ PayByWallet(a)
    \/ PayByPaypal(a, "Wallet & Paypal", bill.total - cached)
    \/ PayByPaypal(a, "Paypal", bill.total)

\* Faulty: PayPal is asked for the whole total of a mixed payment.
Pay_Whole(a) ==
    \/ PayByWallet(a)
    \/ bill.total > cached /\ PayByPaypal(a, "Wallet & Paypal", bill.total)
    \/ PayByPaypal(a, "Paypal", bill.total)

Pay(a) ==
    \/ PayByWallet(a)
    \/ bill.total > cached /\ PayByPaypal(a, "Wallet & Paypal", bill.total - cached)
    \/ PayByPaypal(a, "Paypal", bill.total)

-----------------------------------------------------------------------------
(***************************************************************************)
(* The PayPal WebView                                                      *)
(***************************************************************************)

\* Token and payment are there: the WebView opens the approval page.
CreateAnswered(a) ==
    /\ phase[a] = "create"
    /\ phase' = [phase EXCEPT ![a] = "approve"]
    /\ UNCHANGED <<cartVars, appVars, walletVars, jobVars, serverVars, late>>

\* The user approved (returnURL with a PayerID): executePayment is sent and
\* the page popped at once.
Approve(a) ==
    /\ phase[a] = "approve"
    /\ Pop(1, [phase EXCEPT ![a] = "exec"])
    /\ UNCHANGED <<cartVars, bill, orderPlace, walletVars, jobVars, serverVars,
                   late>>

\* returnURL without a PayerID: two pops, the second takes the page below.
ReturnWithoutPayer(a) ==
    /\ phase[a] = "approve"
    /\ Pop(2, [phase EXCEPT ![a] = "dead"])
    /\ UNCHANGED <<cartVars, bill, orderPlace, walletVars, jobVars, serverVars,
                   late>>

\* cancelURL: one pop.
CancelPaypal(a) ==
    /\ phase[a] = "approve"
    /\ Pop(1, [phase EXCEPT ![a] = "dead"])
    /\ UNCHANGED <<cartVars, bill, orderPlace, walletVars, jobVars, serverVars,
                   late>>

ExecServed(a) ==
    /\ phase[a] = "exec"
    /\ \/ /\ captured' = captured \cup {a}
          /\ phase' = [phase EXCEPT ![a] = "execOk"]
       \/ /\ captured' = captured
          /\ phase' = [phase EXCEPT ![a] = "execNo"]
    /\ UNCHANGED <<cartVars, appVars, walletVars, jobVars, taken, orders, balance,
                   late>>

\* Faulty: the body of the order says "quantity": 1.
Posting_One(a) ==
    /\ orderPlace' = TRUE
    /\ lines' = [lines EXCEPT ![a] =
                   [i \in Item |-> IF i \in job[a].list THEN 1 ELSE 0]]

\* The state the app is in when createOrder of a has sent its POST.
Posting(a) ==
    /\ orderPlace' = TRUE
    /\ lines' = [lines EXCEPT ![a] =
                   [i \in Item |-> IF i \in job[a].list THEN qty[i] ELSE 0]]

\* executePayment answered 200: onFinish(id) runs, then the late pop.  A
\* mixed payment goes on to reduce_wallet with the balance remembered now.
ExecAnswered(a) ==
    /\ phase[a] = "execOk"
    /\ \/ /\ kind[a] = "Paypal"
          /\ LatePop(a, [phase EXCEPT ![a] = "post"])
          /\ Posting(a)
          /\ UNCHANGED charge
       \/ /\ kind[a] = "Wallet & Paypal"
          /\ LatePop(a, [phase EXCEPT ![a] = "debit"])
          /\ orderPlace' = TRUE
          /\ charge' = [charge EXCEPT ![a] = cached]
          /\ UNCHANGED lines
    /\ UNCHANGED <<cartVars, bill, walletVars, kind, job, asked, serverVars, late>>

\* Faulty: the test `number != null` is missing.
ExecRefused_Ordered(a) ==
    /\ phase[a] = "execNo"
    /\ LatePop(a, [phase EXCEPT ![a] = "post"])
    /\ Posting(a)
    /\ UNCHANGED <<cartVars, bill, walletVars, kind, job, asked, charge, serverVars,
                   late>>

\* Any other status: onFinish(null) shows "Payment Failed".
ExecRefused(a) ==
    /\ phase[a] = "execNo"
    /\ LatePop(a, [phase EXCEPT ![a] = "dead"])
    /\ UNCHANGED <<cartVars, bill, orderPlace, walletVars, jobVars, serverVars,
                   late>>

\* The exit transition of a popped WebView ends: it is unmounted.
TransitionEnds(a) ==
    /\ a \in leaving
    /\ leaving' = leaving \ {a}
    /\ UNCHANGED <<cartVars, routes, bill, orderPlace, alive, phase, walletVars,
                   jobVars, serverVars, late>>

-----------------------------------------------------------------------------
(***************************************************************************)
(* The wallet API and WooCommerce                                          *)
(***************************************************************************)

\* reduce_wallet: taken, or refused (response false, or an error status).
DebitServed(a) ==
    /\ phase[a] = "debit"
    /\ phase' = [phase EXCEPT ![a] = "debited"]
    /\ \/ /\ charge[a] <= balance
          /\ balance' = balance - charge[a]
          /\ taken' = [taken EXCEPT ![a] = charge[a]]
       \/ UNCHANGED <<balance, taken>>
    /\ UNCHANGED <<cartVars, appVars, walletVars, jobVars, captured, orders, late>>

\* Faulty: the callback gives up when its page is gone.
DebitAnswered_IfMounted(a) ==
    /\ phase[a] = "debited"
    /\ phase' = [phase EXCEPT ![a] = IF alive[a] THEN "post" ELSE "unseen"]
    /\ Posting(a)
    /\ UNCHANGED <<cartVars, routes, bill, leaving, alive, walletVars, kind, job,
                   asked, charge, serverVars, late>>

\* reduceWalletAmount completes whatever the answer says: createOrder.
DebitAnswered(a) ==
    /\ phase[a] = "debited"
    /\ phase' = [phase EXCEPT ![a] = "post"]
    /\ Posting(a)
    /\ UNCHANGED <<cartVars, routes, bill, leaving, alive, walletVars, kind, job,
                   asked, charge, serverVars, late>>

\* WooCommerce creates the order (201), or answers another 2xx.
PostServed(a) ==
    /\ phase[a] = "post"
    /\ \/ /\ orders' = [orders EXCEPT ![a] = @ + 1]
          /\ phase' = [phase EXCEPT ![a] = "postOk"]
       \/ /\ orders' = orders
          /\ phase' = [phase EXCEPT ![a] = "postOdd"]
    /\ UNCHANGED <<cartVars, appVars, walletVars, jobVars, captured, taken,
                   balance, late>>

\* Faulty: an order whose page is gone is posted again.
PostAnswered_Again(a) ==
    /\ phase[a] = "postOk"
    /\ phase' = [phase EXCEPT ![a] = IF alive[a] THEN "done" ELSE "post"]
    /\ UNCHANGED <<cartVars, appVars, walletVars, jobVars, serverVars, late>>

\* 201: the cart is cleared, not awaited.  OrderPlaced is pushed with the
\* context of the Payment page: without it the rest of the handler is lost.
PostAnswered(a) ==
    /\ phase[a] = "postOk"
    /\ queue' = Append(queue, [op |-> "clear", item |-> NoItem, qty |-> 0,
                               by |-> Gone])
    /\ IF alive[a]
         THEN /\ phase' = [phase EXCEPT ![a] = "done"]
              /\ routes' = Append(routes, "placed")
              /\ orderPlace' = FALSE
         ELSE /\ phase' = [phase EXCEPT ![a] = "unseen"]
              /\ UNCHANGED <<routes, orderPlace>>
    /\ UNCHANGED <<qty, box, disk, screen, pages, priced, badge, again,
                   bill, leaving, alive, walletVars, jobVars, serverVars, late>>

\* Faulty: the cart is cleared whatever 2xx comes back.
PostOddAnswered_Clears(a) ==
    /\ phase[a] = "postOdd"
    /\ phase' = [phase EXCEPT ![a] = "dead"]
    /\ orderPlace' = FALSE
    /\ queue' = Append(queue, [op |-> "clear", item |-> NoItem, qty |-> 0,
                               by |-> Gone])
    /\ UNCHANGED <<qty, box, disk, screen, pages, priced, badge, again,
                   routes, bill, leaving, alive, walletVars, jobVars, serverVars, late>>

\* Another 2xx: the spinner goes and a toast names the status.
PostOddAnswered(a) ==
    /\ phase[a] = "postOdd"
    /\ phase' = [phase EXCEPT ![a] = "dead"]
    /\ orderPlace' = FALSE
    /\ UNCHANGED <<cartVars, routes, bill, leaving, alive, walletVars, jobVars,
                   serverVars, late>>

\* The request or its answer is lost, or the status makes the client throw:
\* nothing catches the exception and the handler ends where it is.
Throws(a) ==
    /\ phase[a] \in Waiting
    /\ phase' = [phase EXCEPT ![a] = "dead"]
    /\ UNCHANGED <<cartVars, appVars, walletVars, jobVars, serverVars, late>>

\* getWalletDetails: the server reads the balance ...
WalletServed ==
    /\ walletAsk
    /\ walletAsk' = FALSE
    /\ walletAns' = walletAns \cup {balance}
    /\ UNCHANGED <<cartVars, appVars, phase, cached, reread, jobVars, serverVars,
                   late>>

\* ... and the answer is stored, or lost.
WalletAnswered(v) ==
    /\ v \in walletAns
    /\ walletAns' = walletAns \ {v}
    /\ \/ /\ cached' = v
          /\ reread' = reread \cup
                {a \in Attempt : phase[a] \in {"create", "approve", "exec", "execOk"}}
       \/ UNCHANGED <<cached, reread>>
    /\ UNCHANGED <<cartVars, appVars, phase, walletAsk, jobVars, serverVars, late>>

-----------------------------------------------------------------------------
Hive ==
    /\ WriteDone \/ ClearDone
    /\ UNCHANGED <<payVars, late>>

\* The process dies: requests may have been served, no answer is heard.
Restart ==
    /\ CartRestart
    /\ routes' = <<>> /\ bill' = NoBill /\ orderPlace' = FALSE
    /\ cached' = NoModel /\ leaving' = {}
    /\ phase' = [a \in Attempt |->
                    IF phase[a] \in Waiting \cup {"approve"} THEN "dead" ELSE phase[a]]
    /\ alive' = [a \in Attempt |-> FALSE]
    /\ walletAsk' = TRUE /\ walletAns' = {}
    /\ UNCHANGED <<jobVars, serverVars, late, reread>>

Answers(a) ==
    \/ ExecAnswered(a) \/ ExecRefused(a) \/ DebitAnswered(a)
    \/ PostAnswered(a) \/ PostOddAnswered(a)

Serves(a) == ExecServed(a) \/ DebitServed(a) \/ PostServed(a)

Attempting(a) ==
    \/ Pay(a) \/ CreateAnswered(a) \/ Approve(a) \/ ReturnWithoutPayer(a)
    \/ CancelPaypal(a) \/ TransitionEnds(a) \/ Serves(a) \/ Answers(a) \/ Throws(a)

Next ==
    \/ PressCheckout \/ ContinueBilling \/ Back \/ ClosePlaced \/ Browse
    \/ OpenProfile
    \/ \E a \in Attempt : Attempting(a)
    \/ WalletServed \/ (\E v \in walletAns : WalletAnswered(v))
    \/ Hive \/ Restart

\* A request that was sent is served and answered, unless it throws; the
\* event loop runs the handler then.  The user owes nothing.
Fairness ==
    /\ WF_vars(Hive)
    /\ \A a \in Attempt : WF_vars(Serves(a)) /\ WF_vars(Answers(a))

Spec == Init /\ [][Next]_vars /\ Fairness

-----------------------------------------------------------------------------
(***************************************************************************)
(* Properties                                                              *)
(***************************************************************************)

Bill == [total : Nat, list : SUBSET Item, hasty : BOOLEAN]

\* The types of the routes and of the attempts' progress.
FlowTypeOK ==
    /\ routes \in Seq({"billing", "payment", "placed"} \cup Attempt)
    /\ orderPlace \in BOOLEAN
    /\ leaving \subseteq Attempt
    /\ phase \in [Attempt -> Phase]
    /\ kind \in [Attempt -> ViaPaypal \cup {"Wallet", "none"}]
    /\ alive \in [Attempt -> BOOLEAN]
    /\ captured \subseteq Attempt
    /\ orders \in [Attempt -> Nat]
    /\ walletAsk \in BOOLEAN

\* These, and the types of the amounts and of what checkout sees of the cart.
TypeOK ==
    /\ FlowTypeOK
    /\ cached \in Nat \cup {NoModel}
    /\ walletAns \subseteq Nat
    /\ balance \in Nat
    /\ taken \in [Attempt -> Nat]
    /\ bill \in Bill
    /\ job \in [Attempt -> Bill]
    /\ asked \in [Attempt -> Nat]
    /\ charge \in [Attempt -> Nat]
    /\ lines \in [Attempt -> [Item -> 0..MaxQty]]
    /\ late \in [Attempt -> SUBSET Item]
    /\ reread \subseteq Attempt
    /\ qty \in [Item -> 0..MaxQty]
    /\ queue \in Seq(Write)

\* Money and orders go together as Funding says: an order whose payment went
\* over PayPal is created only after the capture, and never a second time,
\* whatever page the user is on when the answers arrive.
Fund == INSTANCE Funding WITH
            paypal <- {a \in Attempt : kind[a] \in ViaPaypal}
FundedOrders == Fund!Spec

\* The same as an invariant: no order via PayPal without its capture.
OrdersAreCaptured ==
    \A a \in Attempt : orders[a] > 0 /\ kind[a] \in ViaPaypal => a \in captured

\* One tap on PAY gives at most one order.
OneOrderPerAttempt == \A a \in Attempt : orders[a] <= 1

\* The frozen total is the price of the lines the shop gets, unless CHECKOUT
\* was tapped while a quantity was still being saved, or the user went back
\* and changed a row of the list while the attempt was running.
ChargedIsOrdered ==
    \A a \in Attempt :
        /\ phase[a] \in {"post", "postOk", "postOdd"}
        /\ ~job[a].hasty
        /\ late[a] \cap job[a].list = {}
        => Total(lines[a]) = job[a].total

\* A mixed payment covers the total exactly, unless the wallet was read anew
\* between the PAY tap, which fixed PayPal's share, and the capture, after
\* which the wallet's share is computed again.
SplitAddsUp ==
    \A a \in Attempt \ reread :
        phase[a] = "debit" /\ kind[a] = "Wallet & Paypal"
            => asked[a] + charge[a] = job[a].total

\* Clearing the cart after an order removes only what an accepted order
\* bought in that quantity, or what the user touched while the order ran.
ClearedWasOrdered ==
    [][ClearDone => \A i \in box : \E a \in Attempt :
            /\ phase[a] \in {"done", "unseen"}
            /\ lines[a][i] = qty[i] \/ i \in late[a]]_vars

\* While the wallet is being debited or the order posted, the page that
\* started it shows the spinner and not PAY.  With one attempt only: the flag
\* is shared by all of them.
SpinnerWhilePaying ==
    \A a \in Attempt :
        alive[a] /\ phase[a] \in {"debit", "debited", "post", "postOk", "postOdd"}
            => orderPlace

\* Money PayPal captured is followed up to an order, wherever the user has
\* navigated to, unless a request threw or the process died.
CaptureIsPursued ==
    \A a \in Attempt : a \in captured ~> (orders[a] > 0 \/ phase[a] = "dead")

\* createOrder posts "set_paid": true; the documented answer of reduce_wallet
\* says whether the wallet paid.  Stated as if the code read that answer.
OrdersArePaid ==
    \A a \in Attempt :
        orders[a] > 0 =>
            (IF a \in captured THEN asked[a] ELSE 0) + taken[a] >= job[a].total
=============================================================================
