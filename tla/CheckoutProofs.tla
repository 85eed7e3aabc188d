--------------------------- MODULE CheckoutProofs ---------------------------
(***************************************************************************)
(* Theorems about Checkout for every set of attempts, items and prices:    *)
(* orders are funded by captures, and Checkout implements Funding; the     *)
(* types; the spinner; that the two shares of a mixed payment are the      *)
(* bill, that the bill is the price of the lines the shop gets, and that   *)
(* an order clears the cart of what it bought.                             *)
(***************************************************************************)
EXTENDS Checkout, CartProofs

\* How far an attempt can have come with money and with the order.
Unordered == {"idle", "create", "approve", "exec", "execOk", "execNo", "debit",
              "debited", "post", "postOdd"}
InPaypal == {"create", "approve", "exec", "execOk", "execNo"}
Charged == {"execOk", "debit", "debited", "post", "postOk"}

ProgressOK(p, k, o, a, c) ==
    /\ p \in Phase
    /\ k \in ViaPaypal \cup {"Wallet", "none"}
    /\ o \in {0, 1}
    /\ p = "idle" => k = "none"
    /\ p \in InPaypal => k \in ViaPaypal
    /\ p \in Charged /\ k \in ViaPaypal => a \in c
    /\ p \in Unordered => o = 0
    /\ o = 1 /\ k \in ViaPaypal => a \in c

FundInv ==
    /\ phase \in [Attempt -> Phase]
    /\ kind \in [Attempt -> ViaPaypal \cup {"Wallet", "none"}]
    /\ orders \in [Attempt -> {0, 1}]
    /\ captured \subseteq Attempt
    /\ \A a \in Attempt : ProgressOK(phase[a], kind[a], orders[a], a, captured)

\* The variables FundInv is about.
fundPart == <<phase, kind, orders, captured>>

\* Keeps the string set of ViaPaypal out of the steps with arithmetic.
LEMMA OtherKinds == "Wallet" \notin ViaPaypal /\ "none" \notin ViaPaypal
BY DEF ViaPaypal

LEMMA OneMore == ASSUME NEW n, n = 0 PROVE n + 1 = 1
OBVIOUS

LEMMA FundInit == Init => FundInv
BY DEF Init, PayInit, FundInv, ProgressOK, Phase, ViaPaypal, InPaypal, Charged, Unordered

\* A step that only ends attempts keeps the invariant.
LEMMA EndingKeeps ==
    ASSUME FundInv, UNCHANGED <<kind, orders, captured>>,
           phase' \in [Attempt -> Phase],
           \A a \in Attempt : phase'[a] \in {phase[a], "dead"}
    PROVE  FundInv'
BY DEF FundInv, ProgressOK, Phase, ViaPaypal, InPaypal, Charged, Unordered

\* Pop gives every attempt the phase it was passed, or ends it.
LEMMA PopPhase ==
    ASSUME NEW n, NEW ph \in [Attempt -> Phase], Pop(n, ph)
    PROVE  /\ phase' \in [Attempt -> Phase]
           /\ \A a \in Attempt : phase'[a] \in {ph[a], "dead"}
BY DEF Pop, Phase

LEMMA LatePopPhase ==
    ASSUME NEW b, NEW ph \in [Attempt -> Phase], LatePop(b, ph)
    PROVE  /\ phase' \in [Attempt -> Phase]
           /\ \A a \in Attempt : phase'[a] \in {ph[a], "dead"}
BY PopPhase DEF LatePop

\* One attempt changes its phase, kind, order count or capture; the others
\* keep theirs or end.
LEMMA OneMoves ==
    ASSUME FundInv, NEW b \in Attempt,
           phase' \in [Attempt -> Phase],
           kind' \in [Attempt -> ViaPaypal \cup {"Wallet", "none"}],
           orders' \in [Attempt -> {0, 1}],
           captured' \subseteq Attempt, captured \subseteq captured',
           \A a \in Attempt \ {b} : /\ phase'[a] \in {phase[a], "dead"}
                                    /\ kind'[a] = kind[a]
                                    /\ orders'[a] = orders[a],
           ProgressOK(phase'[b], kind'[b], orders'[b], b, captured')
    PROVE  FundInv'
<1>1. ASSUME NEW a \in Attempt \ {b}
      PROVE  ProgressOK(phase'[a], kind'[a], orders'[a], a, captured')
  BY <1>1 DEF FundInv, ProgressOK, Phase, ViaPaypal, InPaypal, Charged, Unordered
<1>2. QED
  BY <1>1 DEF FundInv

\* Pushing the PaypalPayment page for an attempt is a legal beginning.
LEMMA PaypalStarts ==
    ASSUME NEW a, NEW means \in ViaPaypal, NEW c
    PROVE  ProgressOK("create", means, 0, a, c)
BY OtherKinds DEF ProgressOK, Phase, InPaypal, Charged, Unordered

LEMMA AttemptKeeps ==
    ASSUME FundInv, NEW b \in Attempt, Attempting(b)
    PROVE  FundInv'
<1> USE OtherKinds DEF FundInv, jobVars, serverVars, Phase
<1>1. CASE Pay(b)
  <2>1. CASE PayByWallet(b)
    <3>1. ProgressOK(phase'[b], kind'[b], orders'[b], b, captured')
      BY <2>1 DEF PayByWallet, CanPay, ProgressOK, InPaypal, Charged, Unordered
    <3>2. QED
      BY <2>1, <3>1, OneMoves DEF PayByWallet
  <2>2. ASSUME NEW means \in ViaPaypal, NEW n, PayByPaypal(b, means, n)
        PROVE  FundInv'
    <3>1. /\ phase' = [phase EXCEPT ![b] = "create"]
          /\ kind' = [kind EXCEPT ![b] = means]
          /\ UNCHANGED <<orders, captured>>
          /\ phase[b] = "idle"
      BY <2>2 DEF PayByPaypal, CanPay
    <3>2. phase'[b] = "create" /\ kind'[b] = means /\ orders'[b] = 0
      BY <3>1 DEF ProgressOK, Unordered
    <3>3. ProgressOK(phase'[b], kind'[b], orders'[b], b, captured')
      BY <2>2, <3>2, PaypalStarts
    <3>4. QED
      BY <3>1, <3>3, OneMoves
  <2>3. QED
    BY ONLY <1>1, <2>1, <2>2 DEF Pay, ViaPaypal
<1>2. CASE CreateAnswered(b)
  <2>1. ProgressOK(phase'[b], kind'[b], orders'[b], b, captured')
    BY <1>2 DEF CreateAnswered, ProgressOK, InPaypal, Charged, Unordered
  <2>2. QED
    BY <1>2, <2>1, OneMoves DEF CreateAnswered
<1>3. CASE Approve(b)
  <2>1. /\ phase' \in [Attempt -> Phase]
        /\ \A a \in Attempt : phase'[a] \in {[phase EXCEPT ![b] = "exec"][a], "dead"}
    BY <1>3, PopPhase DEF Approve
  <2>2. ProgressOK(phase'[b], kind'[b], orders'[b], b, captured')
    BY <1>3, <2>1 DEF Approve, ProgressOK, InPaypal, Charged, Unordered
  <2>3. QED
    BY <1>3, <2>1, <2>2, OneMoves DEF Approve
<1>4. CASE ReturnWithoutPayer(b) \/ CancelPaypal(b)
  <2> DEFINE ended == [phase EXCEPT ![b] = "dead"]
  <2>0. /\ phase' \in [Attempt -> Phase]
        /\ \A a \in Attempt : phase'[a] \in {ended[a], "dead"}
    BY <1>4, PopPhase DEF ReturnWithoutPayer, CancelPaypal
  <2>1. /\ phase' \in [Attempt -> Phase]
        /\ \A a \in Attempt : phase'[a] \in {phase[a], "dead"}
    BY <2>0
  <2>2. QED
    BY <1>4, <2>1, EndingKeeps DEF ReturnWithoutPayer, CancelPaypal
<1>5. CASE ExecServed(b)
  <2>1. ProgressOK(phase'[b], kind'[b], orders'[b], b, captured')
    BY <1>5 DEF ExecServed, ProgressOK, InPaypal, Charged, Unordered
  <2>2. QED
    BY <1>5, <2>1, OneMoves DEF ExecServed
<1>6. CASE DebitServed(b)
  <2>1. ProgressOK(phase'[b], kind'[b], orders'[b], b, captured')
    BY <1>6 DEF DebitServed, ProgressOK, InPaypal, Charged, Unordered
  <2>2. QED
    BY <1>6, <2>1, OneMoves DEF DebitServed
<1>7. CASE PostServed(b)
  <2>1. /\ orders[b] = 0
        /\ kind[b] \in ViaPaypal => b \in captured
    BY <1>7 DEF PostServed, ProgressOK, Charged, Unordered
  <2>2. CASE /\ phase' = [phase EXCEPT ![b] = "postOk"]
             /\ orders' = [orders EXCEPT ![b] = @ + 1]
    <3>1. orders'[b] = 1 /\ orders' \in [Attempt -> {0, 1}]
      <4>1. orders[b] + 1 = 1
        BY ONLY <2>1, OneMore
      <4>2. orders' = [orders EXCEPT ![b] = 1]
        BY <2>2, <4>1
      <4>3. QED
        BY <4>2
    <3>2. ProgressOK(phase'[b], kind'[b], orders'[b], b, captured')
      BY <1>7, <2>1, <2>2, <3>1 DEF PostServed, ProgressOK, InPaypal, Unordered
    <3>3. QED
      BY <1>7, <2>2, <3>1, <3>2, OneMoves DEF PostServed
  <2>3. CASE phase' = [phase EXCEPT ![b] = "postOdd"] /\ orders' = orders
    <3>1. ProgressOK(phase'[b], kind'[b], orders'[b], b, captured')
      BY <1>7, <2>1, <2>3 DEF PostServed, ProgressOK, InPaypal, Charged
    <3>2. QED
      BY <1>7, <2>3, <3>1, OneMoves DEF PostServed
  <2>4. QED
    BY <1>7, <2>1, <2>2, <2>3 DEF PostServed
<1>8. CASE ExecAnswered(b)
  <2>1. PICK p \in {"post", "debit"} : LatePop(b, [phase EXCEPT ![b] = p])
    BY <1>8 DEF ExecAnswered
  <2>2. /\ phase' \in [Attempt -> Phase]
        /\ \A a \in Attempt : phase'[a] \in {[phase EXCEPT ![b] = p][a], "dead"}
    BY <2>1, LatePopPhase
  <2>3. ProgressOK(phase'[b], kind'[b], orders'[b], b, captured')
    BY <1>8, <2>2 DEF ExecAnswered, ProgressOK, InPaypal, Charged, Unordered
  <2>4. QED
    BY <1>8, <2>2, <2>3, OneMoves DEF ExecAnswered
<1>9. CASE ExecRefused(b)
  <2> DEFINE ended == [phase EXCEPT ![b] = "dead"]
  <2>0. /\ phase' \in [Attempt -> Phase]
        /\ \A a \in Attempt : phase'[a] \in {ended[a], "dead"}
    BY <1>9, LatePopPhase DEF ExecRefused
  <2>1. /\ phase' \in [Attempt -> Phase]
        /\ \A a \in Attempt : phase'[a] \in {phase[a], "dead"}
    BY <2>0
  <2>2. QED
    BY <1>9, <2>1, EndingKeeps DEF ExecRefused
<1>10. CASE DebitAnswered(b)
  <2>1. ProgressOK(phase'[b], kind'[b], orders'[b], b, captured')
    BY <1>10 DEF DebitAnswered, ProgressOK, InPaypal, Charged, Unordered
  <2>2. QED
    BY <1>10, <2>1, OneMoves DEF DebitAnswered
<1>11. CASE PostAnswered(b)
  <2>1. ProgressOK(phase'[b], kind'[b], orders'[b], b, captured')
    BY <1>11 DEF PostAnswered, ProgressOK, InPaypal, Charged, Unordered
  <2>2. QED
    BY <1>11, <2>1, OneMoves DEF PostAnswered
<1>12. CASE PostOddAnswered(b) \/ Throws(b)
  <2>1. /\ phase' \in [Attempt -> Phase]
        /\ \A a \in Attempt : phase'[a] \in {phase[a], "dead"}
    BY <1>12 DEF PostOddAnswered, Throws
  <2>2. QED
    BY <1>12, <2>1, EndingKeeps DEF PostOddAnswered, Throws
<1>13. CASE TransitionEnds(b)
  <2>1. phase' = phase
    BY <1>13 DEF TransitionEnds
  <2>2. QED
    BY <1>13, <2>1, EndingKeeps DEF TransitionEnds
<1>14. QED
  BY <1>1, <1>2, <1>3, <1>4, <1>5, <1>6, <1>7, <1>8, <1>9, <1>10, <1>11, <1>12,
     <1>13 DEF Attempting, Serves, Answers

\* The steps of the user, of Hive, of the wallet reads and of the process.
LEMMA OtherKeeps ==
    ASSUME FundInv,
           \/ PressCheckout \/ ContinueBilling \/ Back \/ ClosePlaced \/ Browse
           \/ OpenProfile \/ WalletServed \/ (\E v \in walletAns : WalletAnswered(v))
           \/ Hive \/ Restart
    PROVE  FundInv'
<1>1. /\ UNCHANGED <<kind, orders, captured>>
      /\ phase' \in [Attempt -> Phase]
      /\ \A a \in Attempt : phase'[a] \in {phase[a], "dead"}
  <2> USE DEF FundInv, jobVars, serverVars
  <2>1. CASE PressCheckout
    BY <2>1 DEF PressCheckout
  <2>2. CASE ContinueBilling
    BY <2>2 DEF ContinueBilling
  <2>3. CASE Back
    BY <2>3, PopPhase DEF Back
  <2>4. CASE ClosePlaced
    BY <2>4, PopPhase DEF ClosePlaced
  <2>5. CASE Browse
    BY <2>5 DEF Browse
  <2>6. CASE WalletServed
    BY <2>6 DEF WalletServed
  <2>7. CASE \E v \in walletAns : WalletAnswered(v)
    BY <2>7 DEF WalletAnswered
  <2>8. CASE Hive
    BY <2>8 DEF Hive, payVars
  <2>9. CASE Restart
    BY <2>9 DEF Restart, Phase
  <2>10. CASE OpenProfile
    BY <2>10 DEF OpenProfile
  <2>11. QED
    BY <2>1, <2>2, <2>3, <2>4, <2>5, <2>6, <2>7, <2>8, <2>9, <2>10
<1>2. QED
  BY <1>1, EndingKeeps

\* FundInv is inductive.
LEMMA FundNext == FundInv /\ [Next]_vars => FundInv'
<1> SUFFICES ASSUME FundInv, [Next]_vars PROVE FundInv'
  OBVIOUS
<1>1. CASE UNCHANGED vars
  BY <1>1, EndingKeeps DEF FundInv, vars, payVars, jobVars, serverVars
<1>2. CASE Next
  BY <1>2, AttemptKeeps, OtherKeeps DEF Next
<1>3. QED
  BY <1>1, <1>2

THEOREM FundInvariant == Spec => []FundInv
BY FundInit, FundNext, PTL DEF Spec

\* No order whose payment went over PayPal without PayPal's capture, for any
\* number of attempts that overlap, whatever answers are lost.
THEOREM OrdersCaptured == Spec => []OrdersAreCaptured
<1>1. FundInv => OrdersAreCaptured
  BY DEF FundInv, ProgressOK, OrdersAreCaptured
<1>2. QED
  BY <1>1, FundInvariant, PTL

\* No tap on PAY ever gives two orders.
THEOREM OneOrder == Spec => []OneOrderPerAttempt
<1>1. FundInv => OneOrderPerAttempt
  BY DEF FundInv, OneOrderPerAttempt
<1>2. QED
  BY <1>1, FundInvariant, PTL

-----------------------------------------------------------------------------
(***************************************************************************)
(* Checkout implements Funding                                             *)
(***************************************************************************)

Stutter == UNCHANGED <<kind, captured, orders>>

\* The mapped set is untouched when kinds are.
LEMMA StutterMaps == Stutter => UNCHANGED Fund!fundVars
BY DEF Stutter, Fund!fundVars

\* A wallet payment is not among those that ask PayPal.
LEMMA WalletMaps ==
    ASSUME FundInv, NEW b \in Attempt, PayByWallet(b)
    PROVE  UNCHANGED Fund!fundVars
<1>1. /\ kind[b] = "none"
      /\ kind' = [kind EXCEPT ![b] = "Wallet"]
      /\ UNCHANGED <<captured, orders>>
  BY DEF PayByWallet, CanPay, FundInv, ProgressOK, serverVars
<1>2. \A a \in Attempt : kind'[a] \in ViaPaypal <=> kind[a] \in ViaPaypal
  BY <1>1, OtherKinds DEF FundInv
<1>3. QED
  BY <1>1, <1>2 DEF Fund!fundVars

\* Pushing PaypalPayment is Ask.
LEMMA PaypalMaps ==
    ASSUME FundInv, NEW b \in Attempt, NEW means \in ViaPaypal, NEW n,
           PayByPaypal(b, means, n)
    PROVE  Fund!Ask(b)
<1>1. /\ kind[b] = "none"
      /\ orders[b] = 0
      /\ kind' = [kind EXCEPT ![b] = means]
      /\ UNCHANGED <<captured, orders>>
  BY DEF PayByPaypal, CanPay, FundInv, ProgressOK, serverVars, Unordered
<1>2. \A a \in Attempt :
        kind'[a] \in ViaPaypal <=> kind[a] \in ViaPaypal \/ a = b
  BY <1>1 DEF FundInv
<1>3. QED
  BY <1>1, <1>2, OtherKinds DEF Fund!Ask

\* The execution of a payment is Capture, or PayPal's refusal.
LEMMA ExecMaps ==
    ASSUME FundInv, NEW b \in Attempt, ExecServed(b)
    PROVE  Fund!Capture(b) \/ Stutter
<1>1. /\ kind[b] \in ViaPaypal
      /\ orders[b] = 0
      /\ UNCHANGED <<kind, orders>>
  BY DEF ExecServed, FundInv, ProgressOK, InPaypal, Unordered, jobVars
<1>2. captured' = captured \/ captured' = captured \cup {b}
  BY DEF ExecServed
<1>3. CASE b \in captured \/ captured' = captured
  BY <1>1, <1>2, <1>3 DEF Stutter
<1>4. CASE b \notin captured /\ captured' = captured \cup {b}
  BY <1>1, <1>4 DEF Fund!Capture
<1>5. QED
  BY <1>2, <1>3, <1>4

\* WooCommerce's 201 is Order.
LEMMA PostMaps ==
    ASSUME FundInv, NEW b \in Attempt, PostServed(b)
    PROVE  Fund!Order(b) \/ Stutter
<1>1. /\ orders[b] = 0
      /\ kind[b] \in ViaPaypal => b \in captured
      /\ UNCHANGED <<kind, captured>>
  BY DEF PostServed, FundInv, ProgressOK, Charged, Unordered, jobVars
<1>2. CASE orders' = [orders EXCEPT ![b] = @ + 1]
  <2>1. orders[b] + 1 = 1
    BY ONLY <1>1, OneMore
  <2>2. orders' = [orders EXCEPT ![b] = 1]
    BY <1>2, <2>1
  <2>3. QED
    BY <1>1, <2>2 DEF Fund!Order
<1>3. CASE orders' = orders
  BY <1>1, <1>3 DEF Stutter
<1>4. QED
  BY <1>2, <1>3 DEF PostServed

\* Every other step leaves money and orders alone.
LEMMA RestStutters ==
    ASSUME NEW b \in Attempt,
           \/ CreateAnswered(b) \/ Approve(b) \/ ReturnWithoutPayer(b)
           \/ CancelPaypal(b) \/ TransitionEnds(b) \/ DebitServed(b)
           \/ Answers(b) \/ Throws(b)
    PROVE  Stutter
<1> USE DEF Stutter, jobVars, serverVars
<1>1. CASE CreateAnswered(b) \/ Approve(b) \/ ReturnWithoutPayer(b)
  BY <1>1 DEF CreateAnswered, Approve, ReturnWithoutPayer
<1>2. CASE CancelPaypal(b) \/ TransitionEnds(b) \/ DebitServed(b) \/ Throws(b)
  BY <1>2 DEF CancelPaypal, TransitionEnds, DebitServed, Throws
<1>3. CASE Answers(b)
  BY <1>3 DEF Answers, ExecAnswered, ExecRefused, DebitAnswered, PostAnswered,
              PostOddAnswered
<1>4. QED
  BY <1>1, <1>2, <1>3

LEMMA OthersStutter ==
    ASSUME \/ PressCheckout \/ ContinueBilling \/ Back \/ ClosePlaced \/ Browse
           \/ OpenProfile \/ WalletServed \/ (\E v \in walletAns : WalletAnswered(v))
           \/ Hive \/ Restart
    PROVE  Stutter
<1> USE DEF Stutter, jobVars, serverVars
<1>1. CASE PressCheckout \/ ContinueBilling \/ Back \/ ClosePlaced \/ Browse
  BY <1>1 DEF PressCheckout, ContinueBilling, Back, ClosePlaced, Browse
<1>2. CASE WalletServed \/ (\E v \in walletAns : WalletAnswered(v))
  BY <1>2 DEF WalletServed, WalletAnswered
<1>3. CASE Hive \/ Restart \/ OpenProfile
  BY <1>3 DEF Hive, Restart, OpenProfile, payVars
<1>4. QED
  BY <1>1, <1>2, <1>3

LEMMA InitMaps == Init => Fund!Init
BY OtherKinds DEF Init, PayInit, Fund!Init

LEMMA NextMaps == FundInv /\ [Next]_vars => [Fund!Next]_(Fund!fundVars)
<1> SUFFICES ASSUME FundInv, [Next]_vars
             PROVE  Fund!Next \/ UNCHANGED Fund!fundVars
  OBVIOUS
<1>1. CASE UNCHANGED vars
  BY <1>1, StutterMaps DEF Stutter, vars, payVars, jobVars, serverVars
<1>2. ASSUME NEW b \in Attempt, Attempting(b)
      PROVE  Fund!Next \/ UNCHANGED Fund!fundVars
  <2>1. CASE Pay(b)
    <3>1. PayByWallet(b) \/ \E means \in ViaPaypal, n \in {bill.total, bill.total - cached} :
                                PayByPaypal(b, means, n)
      BY <2>1 DEF Pay, ViaPaypal
    <3>2. QED
      BY <3>1, WalletMaps, PaypalMaps DEF Fund!Next
  <2>2. CASE Serves(b)
    BY <2>2, ExecMaps, PostMaps, RestStutters, StutterMaps DEF Serves, Fund!Next
  <2>3. CASE ~Pay(b) /\ ~Serves(b)
    BY <1>2, <2>3, RestStutters, StutterMaps DEF Attempting
  <2>4. QED
    BY <2>1, <2>2, <2>3
<1>3. CASE Next
  BY <1>2, <1>3, OthersStutter, StutterMaps DEF Next
<1>4. QED
  BY <1>1, <1>3

\* Checkout implements Funding: whatever the pages, the answers and the
\* process do, an order over PayPal follows its capture and comes once.
THEOREM ImplementsFunding == Spec => FundedOrders
<1>1. Spec => []FundInv
  BY FundInvariant
<1>2. Init => Fund!Init
  BY InitMaps
<1>3. FundInv /\ [Next]_vars => [Fund!Next]_(Fund!fundVars)
  BY NextMaps
<1>4. QED
  BY <1>1, <1>2, <1>3, PTL DEF Spec, FundedOrders, Fund!Spec

-----------------------------------------------------------------------------
(***************************************************************************)
(* The pages                                                               *)
(***************************************************************************)

Page == {"billing", "payment", "placed"} \cup Attempt

\* BillingAddress is at the bottom only, and a Payment page that an attempt
\* was started on and that is still mounted is one of the routes.
RoutesInv ==
    /\ routes \in Seq(Page)
    /\ alive \in [Attempt -> BOOLEAN]
    /\ \A k \in 1..Len(routes) : routes[k] = "billing" => k = 1
    /\ \A a \in Attempt : alive[a] => \E k \in 1..Len(routes) : routes[k] = "payment"

flowPart == <<routes, alive>>

LEMMA RoutesInit == Init => RoutesInv
<1> SUFFICES ASSUME Init PROVE RoutesInv
  OBVIOUS
<1>1. routes = <<>> /\ alive = [a \in Attempt |-> FALSE]
  BY DEF Init, PayInit
<1>2. <<>> \in Seq(Page) /\ Len(<<>>) = 0
  OBVIOUS
<1>3. QED
  BY <1>1, <1>2 DEF RoutesInv

\* A page on top of the others, which is not BillingAddress.
LEMMA PushKeeps ==
    ASSUME RoutesInv, NEW r \in Page, r # "billing", routes' = Append(routes, r),
           alive' \in [Attempt -> BOOLEAN],
           \A a \in Attempt : alive'[a] => \E k \in 1..Len(routes) : routes[k] = "payment"
    PROVE  RoutesInv'
<1>1. /\ routes' \in Seq(Page) /\ Len(routes) \in Nat /\ Len(routes') = Len(routes) + 1
      /\ \A k \in 1..Len(routes) : routes'[k] = routes[k]
      /\ routes'[Len(routes) + 1] = r
  BY AppendProperties DEF RoutesInv
<1>2. ASSUME NEW k \in 1..Len(routes'), routes'[k] = "billing" PROVE k = 1
  <2>1. k \in 1..Len(routes)
    BY <1>1, <1>2
  <2>2. QED
    BY <1>1, <1>2, <2>1 DEF RoutesInv
<1>3. ASSUME NEW a \in Attempt, alive'[a]
      PROVE  \E k \in 1..Len(routes') : routes'[k] = "payment"
  <2>1. PICK k \in 1..Len(routes) : routes[k] = "payment"
    BY <1>3
  <2>2. k \in 1..Len(routes') /\ routes'[k] = "payment"
    BY <1>1, <2>1
  <2>3. QED
    BY <2>2
<1>4. QED
  BY <1>1, <1>2, <1>3 DEF RoutesInv

\* The page on top is one of the routes.
LEMMA TopIs ==
    ASSUME RoutesInv, NEW r, Top(r)
    PROVE  Len(routes) \in 1..Len(routes) /\ routes[Len(routes)] = r
BY DEF RoutesInv, Top, Last

LEMMA PopRoutes ==
    ASSUME RoutesInv, NEW n \in Nat, NEW ph, Pop(n, ph)
    PROVE  RoutesInv' /\ (routes' # <<>> => routes # <<>>)
<1> DEFINE m == Len(routes) - n
<1>1. m \in Int /\ Len(routes) \in Nat /\ m <= Len(routes)
  BY DEF RoutesInv
<1>2. \A k \in 1..m : k \in 1..Len(routes) /\ routes[k] \in Page
  BY <1>1 DEF RoutesInv
<1>3. routes' = SubSeq(routes, 1, m)
  BY DEF Pop
<1>4. /\ routes' \in Seq(Page)
      /\ Len(routes') = IF 1 <= m THEN m ELSE 0
      /\ \A k \in 1..m : routes'[k] = routes[k]
  <2> HIDE DEF m
  <2>1. 1 \in Int /\ m - 1 + 1 = m
    BY <1>1
  <2>2. /\ SubSeq(routes, 1, m) \in Seq(Page)
        /\ Len(SubSeq(routes, 1, m)) = IF 1 <= m THEN m - 1 + 1 ELSE 0
        /\ \A k \in 1..(m - 1 + 1) : SubSeq(routes, 1, m)[k] = routes[1 + k - 1]
    BY ONLY <1>1, <1>2, <2>1, SubSeqProperties
  <2>3. \A k \in 1..m : 1 + k - 1 = k
    BY <1>1
  <2>4. QED
    BY ONLY <1>3, <2>1, <2>2, <2>3
<1>5. 1..Len(routes') = 1..m
  BY <1>1, <1>4
<1>6. ASSUME NEW k \in 1..Len(routes'), routes'[k] = "billing" PROVE k = 1
  BY <1>2, <1>4, <1>5, <1>6 DEF RoutesInv
<1>7. alive' = [a \in Attempt |-> alive[a] /\ "payment" \notin Removed(n)]
  BY DEF Pop
<1>8. ASSUME NEW a \in Attempt, alive'[a]
      PROVE  \E k \in 1..Len(routes') : routes'[k] = "payment"
  <2>1. alive[a] /\ "payment" \notin Removed(n)
    BY <1>7, <1>8
  <2>2. PICK k \in 1..Len(routes) : routes[k] = "payment"
    BY <2>1 DEF RoutesInv
  <2>3. k \notin (m + 1)..Len(routes)
    BY <2>1, <2>2 DEF Removed
  <2>4. k \in 1..m
    BY <1>1, <2>2, <2>3
  <2>5. QED
    BY <1>4, <1>5, <2>2, <2>4
<1>9. alive' \in [Attempt -> BOOLEAN]
  BY <1>7 DEF RoutesInv
<1>10. routes' # <<>> => routes # <<>>
  <2>1. routes = <<>> => Len(routes) = 0
    OBVIOUS
  <2>2. Len(routes) = 0 => Len(routes') = 0
    BY <1>1, <1>4
  <2>3. Len(routes') = 0 => routes' = <<>>
    BY <1>4
  <2>4. QED
    BY <2>1, <2>2, <2>3
<1>11. QED
  BY <1>4, <1>6, <1>8, <1>9, <1>10 DEF RoutesInv

LEMMA LatePopRoutes ==
    ASSUME RoutesInv, NEW a, NEW ph, LatePop(a, ph)
    PROVE  RoutesInv' /\ (routes' # <<>> => routes # <<>>)
<1>1. CASE Pop(1, ph)
  BY <1>1, PopRoutes
<1>2. CASE UNCHANGED <<routes, leaving, alive>>
  BY <1>2 DEF RoutesInv
<1>3. QED
  BY <1>1, <1>2 DEF LatePop

\* Without a route, no Payment page is mounted.
LEMMA NoRouteNoPage ==
    ASSUME RoutesInv, NEW a \in Attempt, alive[a]
    PROVE  routes # <<>>
<1>1. PICK k \in 1..Len(routes) : routes[k] = "payment"
  BY DEF RoutesInv
<1>2. routes = <<>> => Len(routes) = 0
  OBVIOUS
<1>3. QED
  BY <1>1, <1>2

LEMMA PressCheckoutRoutes == ASSUME RoutesInv, PressCheckout PROVE RoutesInv'
<1>1. routes = <<>> /\ routes' = <<"billing">> /\ alive' = alive
  BY DEF PressCheckout
<1>2. routes' \in Seq(Page) /\ Len(routes') = 1
  BY <1>1 DEF Page
<1>3. \A a \in Attempt : ~alive[a]
  BY <1>1, NoRouteNoPage
<1>4. \A k \in 1..Len(routes') : k = 1
  BY <1>2
<1>5. QED
  BY <1>1, <1>2, <1>3, <1>4 DEF RoutesInv

LEMMA ContinueRoutes == ASSUME RoutesInv, ContinueBilling PROVE RoutesInv'
<1>1. routes' = Append(routes, "payment") /\ alive' = alive
  BY DEF ContinueBilling
<1>2. QED
  BY <1>1, PushKeeps DEF RoutesInv, Page

LEMMA PayRoutes == ASSUME RoutesInv, NEW a \in Attempt, Pay(a) PROVE RoutesInv'
<1>1. /\ Len(routes) \in 1..Len(routes) /\ routes[Len(routes)] = "payment"
      /\ alive' = [alive EXCEPT ![a] = TRUE]
      /\ routes' \in {routes, Append(routes, a)}
  BY TopIs DEF Pay, PayByWallet, PayByPaypal, CanPay
<1>2. alive' \in [Attempt -> BOOLEAN]
  BY <1>1 DEF RoutesInv
<1>3. CASE routes' = routes
  BY <1>1, <1>2, <1>3 DEF RoutesInv
<1>4. CASE routes' = Append(routes, a)
  <2>1. a \in Page /\ a # "billing"
    BY CheckoutAssumption DEF Page
  <2>2. QED
    BY <1>1, <1>2, <1>4, <2>1, PushKeeps
<1>5. QED
  BY <1>1, <1>3, <1>4

LEMMA PostAnsweredRoutes ==
    ASSUME RoutesInv, NEW a \in Attempt, PostAnswered(a) PROVE RoutesInv'
<1>1. CASE routes' = Append(routes, "placed") /\ alive' = alive
  BY <1>1, PushKeeps DEF RoutesInv, Page
<1>2. CASE routes' = routes /\ alive' = alive
  BY <1>2 DEF RoutesInv
<1>3. QED
  BY <1>1, <1>2 DEF PostAnswered

LEMMA AttemptRoutes ==
    ASSUME RoutesInv, NEW a \in Attempt, Attempting(a)
    PROVE  RoutesInv'
<1>1. CASE Pay(a) \/ PostAnswered(a)
  BY <1>1, PayRoutes, PostAnsweredRoutes
<1>2. CASE Approve(a) \/ ReturnWithoutPayer(a) \/ CancelPaypal(a)
  BY <1>2, PopRoutes DEF Approve, ReturnWithoutPayer, CancelPaypal
<1>3. CASE ExecAnswered(a) \/ ExecRefused(a)
  BY <1>3, LatePopRoutes DEF ExecAnswered, ExecRefused
<1>4. CASE \/ CreateAnswered(a) \/ TransitionEnds(a) \/ Throws(a) \/ Serves(a)
           \/ DebitAnswered(a) \/ PostOddAnswered(a)
  <2>1. UNCHANGED flowPart
    BY <1>4 DEF CreateAnswered, TransitionEnds, Throws, Serves, ExecServed,
       DebitServed, PostServed, DebitAnswered, PostOddAnswered, appVars, flowPart
  <2>2. QED
    BY <2>1 DEF RoutesInv, flowPart
<1>5. QED
  BY <1>1, <1>2, <1>3, <1>4 DEF Attempting, Answers

LEMMA OtherRoutes ==
    ASSUME RoutesInv,
           \/ PressCheckout \/ ContinueBilling \/ Back \/ ClosePlaced \/ Browse
           \/ OpenProfile \/ WalletServed \/ (\E v \in walletAns : WalletAnswered(v))
           \/ Hive \/ Restart
    PROVE  RoutesInv'
<1>1. CASE PressCheckout \/ ContinueBilling
  BY <1>1, PressCheckoutRoutes, ContinueRoutes
<1>2. CASE Back \/ ClosePlaced
  <2>1. PICK n \in Nat : Pop(n, phase)
    BY <1>2 DEF Back, ClosePlaced, RoutesInv
  <2>2. QED
    BY <2>1, PopRoutes
<1>3. CASE \/ Browse \/ OpenProfile \/ WalletServed \/ Hive
           \/ (\E v \in walletAns : WalletAnswered(v))
  <2>1. UNCHANGED flowPart
    BY <1>3 DEF Browse, OpenProfile, WalletServed, WalletAnswered, Hive, payVars,
       appVars, flowPart
  <2>2. QED
    BY <2>1 DEF RoutesInv, flowPart
<1>4. CASE Restart
  <2>1. routes' = <<>> /\ alive' = [a \in Attempt |-> FALSE]
    BY <1>4 DEF Restart
  <2>2. <<>> \in Seq(Page) /\ Len(<<>>) = 0
    OBVIOUS
  <2>3. QED
    BY <2>1, <2>2 DEF RoutesInv
<1>5. QED
  BY <1>1, <1>2, <1>3, <1>4

LEMMA RoutesNext == RoutesInv /\ [Next]_vars => RoutesInv'
<1> SUFFICES ASSUME RoutesInv, [Next]_vars PROVE RoutesInv'
  OBVIOUS
<1>1. CASE UNCHANGED vars
  BY <1>1 DEF RoutesInv, vars, payVars, appVars
<1>2. CASE Next
  BY <1>2, AttemptRoutes, OtherRoutes DEF Next
<1>3. QED
  BY <1>1, <1>2

-----------------------------------------------------------------------------
(***************************************************************************)
(* The spinner                                                             *)
(***************************************************************************)

SpinnerInv == FundInv /\ RoutesInv /\ SpinnerWhilePaying

\* A popped page is no longer mounted, and no page is mounted by a pop.
LEMMA PopAlive ==
    ASSUME RoutesInv, NEW n, NEW ph, Pop(n, ph)
    PROVE  \A a \in Attempt : alive'[a] => alive[a]
BY DEF Pop, RoutesInv

LEMMA LatePopAlive ==
    ASSUME RoutesInv, NEW b, NEW ph, LatePop(b, ph)
    PROVE  \A a \in Attempt : alive'[a] => alive[a]
BY PopAlive DEF LatePop

\* A step that ends attempts, or moves them on while their page keeps its
\* spinner, leaves the spinner right.
LEMMA SpinnerStays ==
    ASSUME SpinnerWhilePaying, orderPlace' = orderPlace,
           \A a \in Attempt : alive'[a] => alive[a],
           \A a \in Attempt : phase'[a] \in {"debit", "debited", "post", "postOk", "postOdd"}
              => phase[a] \in {"debit", "debited", "post", "postOk", "postOdd"}
    PROVE  SpinnerWhilePaying'
BY DEF SpinnerWhilePaying

LEMMA SpinnerAttempt ==
    ASSUME SpinnerInv, NEW b \in Attempt, \A a \in Attempt : a = b, Attempting(b)
    PROVE  SpinnerWhilePaying'
<1> USE DEF SpinnerInv, FundInv
<1>1. CASE PayByWallet(b) \/ DebitAnswered(b)
  BY <1>1 DEF PayByWallet, DebitAnswered, Posting, SpinnerWhilePaying
<1>2. CASE ExecAnswered(b)
  <2>1. orderPlace' = TRUE
    BY <1>2 DEF ExecAnswered, Posting
  <2>2. QED
    BY <2>1 DEF SpinnerWhilePaying
<1>3. CASE \/ \E means, n : PayByPaypal(b, means, n)
           \/ CreateAnswered(b) \/ ExecServed(b) \/ PostAnswered(b) \/ PostOddAnswered(b)
           \/ Throws(b)
  <2>1. phase'[b] \in {"create", "approve", "execOk", "execNo", "done", "unseen", "dead"}
    BY <1>3 DEF PayByPaypal, CreateAnswered, ExecServed, PostAnswered, PostOddAnswered,
       Throws
  <2>2. QED
    BY <2>1 DEF SpinnerWhilePaying
<1>4. CASE Approve(b) \/ ReturnWithoutPayer(b) \/ CancelPaypal(b) \/ ExecRefused(b)
  <2>1. PICK p \in {"exec", "dead"} :
            LET ph == [phase EXCEPT ![b] = p]
            IN  LatePop(b, ph) \/ \E n \in Nat : Pop(n, ph)
    BY <1>4 DEF Approve, ReturnWithoutPayer, CancelPaypal, ExecRefused
  <2> DEFINE ph == [phase EXCEPT ![b] = p]
  <2>2. ph \in [Attempt -> Phase] /\ ph[b] = p
    BY DEF Phase
  <2> HIDE DEF ph
  <2>3. LatePop(b, ph) \/ \E n \in Nat : Pop(n, ph)
    BY <2>1 DEF ph
  <2>4. phase'[b] \in {ph[b], "dead"}
    BY <2>2, <2>3, PopPhase, LatePopPhase
  <2>5. QED
    BY <2>2, <2>4 DEF SpinnerWhilePaying
<1>5. CASE DebitServed(b) \/ PostServed(b)
  <2>1. UNCHANGED <<orderPlace, alive>>
    BY <1>5 DEF DebitServed, PostServed, appVars
  <2>2. phase[b] \in {"debit", "post"}
    BY <1>5 DEF DebitServed, PostServed
  <2>3. QED
    BY <2>1, <2>2, SpinnerStays
<1>6. CASE TransitionEnds(b)
  BY <1>6, SpinnerStays DEF TransitionEnds
<1>7. Pay(b) => PayByWallet(b) \/ \E means, n : PayByPaypal(b, means, n)
  BY DEF Pay
<1>8. QED
  BY <1>1, <1>2, <1>3, <1>4, <1>5, <1>6, <1>7 DEF Attempting, Serves, Answers

LEMMA SpinnerOther ==
    ASSUME SpinnerInv,
           \/ PressCheckout \/ ContinueBilling \/ Back \/ ClosePlaced \/ Browse
           \/ OpenProfile \/ WalletServed \/ (\E v \in walletAns : WalletAnswered(v))
           \/ Hive \/ Restart
    PROVE  SpinnerWhilePaying'
<1> USE DEF SpinnerInv
<1>1. CASE \/ PressCheckout \/ Browse \/ OpenProfile \/ WalletServed \/ Hive
           \/ (\E v \in walletAns : WalletAnswered(v))
  <2>1. UNCHANGED <<orderPlace, alive, phase>>
    BY <1>1 DEF PressCheckout, Browse, OpenProfile, WalletServed, WalletAnswered,
       Hive, payVars, appVars
  <2>2. QED
    BY <2>1, SpinnerStays
\* Under BillingAddress there is no Payment page.
<1>2. CASE ContinueBilling
  <2>1. Len(routes) \in 1..Len(routes) /\ routes[Len(routes)] = "billing"
    BY <1>2, TopIs DEF ContinueBilling
  <2>2. Len(routes) = 1
    BY <2>1 DEF RoutesInv
  <2>3. \A k \in 1..Len(routes) : routes[k] # "payment"
    BY <2>1, <2>2
  <2>4. \A a \in Attempt : ~alive[a]
    BY <2>3 DEF RoutesInv
  <2>5. QED
    BY <1>2, <2>4 DEF ContinueBilling, SpinnerWhilePaying
<1>3. CASE Back \/ ClosePlaced
  <2>1. orderPlace' = orderPlace /\ \E n : Pop(n, phase)
    BY <1>3 DEF Back, ClosePlaced
  <2>2. \A a \in Attempt : phase'[a] \in {phase[a], "dead"}
    BY <2>1, PopPhase DEF FundInv
  <2>3. \A a \in Attempt : alive'[a] => alive[a]
    BY <2>1, PopAlive
  <2>4. QED
    BY <2>1, <2>2, <2>3, SpinnerStays
<1>4. CASE Restart
  BY <1>4 DEF Restart, SpinnerWhilePaying
<1>5. QED
  BY <1>1, <1>2, <1>3, <1>4

LEMMA SpinnerNext ==
    ASSUME \A a, b \in Attempt : a = b
    PROVE  SpinnerInv /\ [Next]_vars => SpinnerInv'
<1> SUFFICES ASSUME SpinnerInv, [Next]_vars PROVE SpinnerInv'
  OBVIOUS
<1>1. FundInv' /\ RoutesInv'
  BY FundNext, RoutesNext DEF SpinnerInv
<1>2. CASE UNCHANGED vars
  <2>1. UNCHANGED <<orderPlace, alive, phase>>
    BY <1>2 DEF vars, payVars, appVars
  <2>2. SpinnerWhilePaying'
    BY <2>1, SpinnerStays DEF SpinnerInv
  <2>3. QED
    BY <1>1, <2>2 DEF SpinnerInv
<1>3. CASE Next
  <2>1. SpinnerWhilePaying'
    BY <1>3, SpinnerAttempt, SpinnerOther DEF Next
  <2>2. QED
    BY <1>1, <2>1 DEF SpinnerInv
<1>4. QED
  BY <1>2, <1>3

\* While the wallet is debited or the order is posted, a Payment page that is
\* still there shows the spinner, provided there is one attempt only: the
\* flag is shared by all.
THEOREM SpinnerCovers ==
    ASSUME \A a, b \in Attempt : a = b
    PROVE  Spec => []SpinnerWhilePaying
<1>1. Init => SpinnerInv
  <2>1. Init => SpinnerWhilePaying
    BY DEF Init, PayInit, SpinnerWhilePaying
  <2>2. QED
    BY <2>1, FundInit, RoutesInit DEF SpinnerInv
<1>2. SpinnerInv /\ [Next]_vars => SpinnerInv'
  BY SpinnerNext
<1>3. SpinnerInv => SpinnerWhilePaying
  BY DEF SpinnerInv
<1>4. QED
  BY <1>1, <1>2, <1>3, PTL DEF Spec

-----------------------------------------------------------------------------
(***************************************************************************)
(* Types: what checkout sees of the cart                                   *)
(***************************************************************************)

\* CartTypeOK without the bound on the queue, to which every order that is
\* answered adds a clear, and without what the checkout does not read.
Basket ==
    /\ qty \in [Item -> 0..MaxQty]
    /\ box \subseteq Item
    /\ disk \in [Item -> 0..MaxQty]
    /\ priced \in [Item -> 0..MaxQty]
    /\ queue \in Seq(Write)
    /\ PagesOK

basketPart == <<qty, box, disk, priced, queue, pages>>

LEMMA NothingType == Nothing \in [Item -> 0..MaxQty]
BY Bounds DEF Nothing

LEMMA BasketLive == ASSUME Basket PROVE Live \in [Item -> 0..MaxQty]
BY Bounds DEF Basket, Live

LEMMA BasketTap ==
    ASSUME Basket, NEW i \in Item, AddToCart(i) \/ Plus(i) \/ Minus(i) \/ DeleteRow(i)
    PROVE  Basket'
<1>1. CASE AddToCart(i)
  <2>1. 1 \in 0..MaxQty /\ Len(pages) \in Gone..MaxPages
    BY Bounds DEF Basket, PagesOK, Gone
  <2>2. [op |-> "add", item |-> i, qty |-> 1, by |-> Len(pages)] \in Write
    BY <2>1, WriteType
  <2>3. queue' \in Seq(Write)
    BY <1>1, <2>2, AppendProperties DEF AddToCart, Basket
  <2>4. QED
    BY <1>1, <2>1, <2>3 DEF AddToCart, Basket, PagesOK
<1>2. CASE Plus(i) \/ Minus(i)
  <2>1. PICK n \in 0..MaxQty : SetQuantity(i, n)
    BY <1>2, StepBounds DEF Plus, Minus, Basket
  <2>2. [op |-> "put", item |-> i, qty |-> n, by |-> Tab] \in Write
    BY WriteType, Bounds
  <2>3. queue' \in Seq(Write)
    BY <2>1, <2>2, AppendProperties DEF SetQuantity, Basket
  <2>4. QED
    BY <2>1, <2>3 DEF SetQuantity, Basket, PagesOK
<1>3. CASE DeleteRow(i)
  <2>1. 0 \in 0..MaxQty
    BY Bounds
  <2>2. [op |-> "delete", item |-> i, qty |-> 0, by |-> Tab] \in Write
    BY <2>1, WriteType, Bounds
  <2>3. queue' \in Seq(Write)
    BY <1>3, <2>2, AppendProperties DEF DeleteRow, Basket
  <2>4. QED
    BY <1>3, <2>3 DEF DeleteRow, Basket, PagesOK
<1>4. QED
  BY <1>1, <1>2, <1>3

LEMMA BasketLook ==
    ASSUME Basket,
           \/ ShowCart \/ LeaveCart \/ LeaveDetails \/ HeartDone \/ ClosePlaced
           \/ \E p \in Product : OpenDetails(p)
    PROVE  Basket'
<1>1. UNCHANGED <<qty, box, disk>>
  BY DEF ShowCart, LeaveCart, LeaveDetails, HeartDone, OpenDetails, ClosePlaced
<1>2. PICK n \in Int : queue' \in {queue, Orphaned(n, queue)}
  <2>1. Len(pages) \in Int
    BY DEF Basket, PagesOK
  <2>2. QED
    BY <2>1, TabIsANumber
       DEF ShowCart, LeaveCart, LeaveDetails, HeartDone, OpenDetails, ClosePlaced
<1>3. priced' \in {priced, Nothing, Live}
  BY DEF ShowCart, getCart, LeaveCart, LeaveDetails, HeartDone, OpenDetails,
         ClosePlaced
<1>4. queue' \in Seq(Write)
  BY <1>2, OrphanedType DEF Basket
<1>5. priced' \in [Item -> 0..MaxQty]
  BY <1>3, NothingType, BasketLive DEF Basket
<1>6. PagesOK'
  <2>1. CASE HeartDone
    BY <2>1, CheckedPages DEF HeartDone, Basket, PagesOK
  <2>2. CASE \E p \in Product : OpenDetails(p)
    <3>1. /\ Len(pages) \in Nat /\ Len(pages) < MaxPages
          /\ pages' \in Seq(Details) /\ Len(pages') = Len(pages) + 1
      BY <2>2, OpenedPages DEF Basket
    <3>2. QED
      BY <3>1, Bounds DEF PagesOK
  <2>3. CASE LeaveDetails
    BY <2>3, LeftPages, Bounds DEF Basket, PagesOK
  <2>4. CASE ShowCart \/ LeaveCart \/ ClosePlaced
    <3>1. pages' = pages \/ pages' = <<>>
      BY <2>4 DEF ShowCart, LeaveCart, ClosePlaced
    <3>2. <<>> \in Seq(Details) /\ Len(<<>>) <= MaxPages
      BY Bounds
    <3>3. QED
      BY <3>1, <3>2 DEF Basket, PagesOK
  <2>5. QED
    BY <2>1, <2>2, <2>3, <2>4
<1>7. QED
  BY <1>1, <1>4, <1>5, <1>6 DEF Basket

LEMMA BasketUser == ASSUME Basket, UserStep PROVE Basket'
BY BasketLook, BasketTap DEF UserStep, OpenCart, GoToCart

LEMMA BasketHive == ASSUME Basket, Hive PROVE Basket'
<1>1. CASE WriteDone
  <2> DEFINE w == Head(queue)
  <2>1. w \in Write /\ queue' \in Seq(Write)
    BY <1>1, HeadTail DEF WriteDone, Basket
  <2>2. PICK q \in (IF w.op = "delete" THEN {0} ELSE {w.qty, qty[w.item]}) :
            disk' = [disk EXCEPT ![w.item] = q]
    BY <1>1 DEF WriteDone
  <2>3. disk' \in [Item -> 0..MaxQty]
    <3>1. CASE w.item \notin Item
      BY <2>2, <3>1 DEF Basket
    <3>2. CASE w.item \in Item
      <4>1. q \in 0..MaxQty
        <5>1. w.qty \in 0..MaxQty /\ qty[w.item] \in 0..MaxQty /\ 0 \in 0..MaxQty
          BY <2>1, <3>2, Bounds DEF Basket, Write
        <5>2. QED
          BY <2>2, <5>1
      <4>2. QED
        BY <2>2, <4>1 DEF Basket
    <3>3. QED
      BY <3>1, <3>2
  <2>4. priced' \in {priced, Live}
    BY <1>1 DEF WriteDone, Callback, checkCart, getCart
  <2>5. PagesOK'
    <3>1. pages' = pages \/ \E k : checkCart(k)
      BY <1>1 DEF WriteDone, Callback
    <3>2. QED
      BY <3>1, CheckedPages DEF Basket, PagesOK
  <2>6. QED
    BY <1>1, <2>1, <2>3, <2>4, <2>5, BasketLive DEF WriteDone, Basket
<1>2. CASE ClearDone
  <2>1. queue' \in Seq(Write)
    BY <1>2, HeadTail DEF ClearDone, Basket
  <2>2. QED
    BY <1>2, <2>1, NothingType DEF ClearDone, Basket, PagesOK
<1>3. QED
  BY <1>1, <1>2 DEF Hive

LEMMA BasketRestart == ASSUME Basket, Restart PROVE Basket'
<1>1. queue' \in Seq(Write)
  BY DEF Restart, CartRestart
<1>2. box' \subseteq Item
  BY DEF Restart, CartRestart
<1>3. PagesOK'
  BY Bounds DEF Restart, CartRestart, PagesOK
<1>4. QED
  BY <1>1, <1>2, <1>3, NothingType DEF Restart, CartRestart, Basket

\* The clear of the cart after an order.
ClearWrite == [op |-> "clear", item |-> NoItem, qty |-> 0, by |-> Gone]

LEMMA ClearWriteType == ClearWrite \in Write /\ ClearWrite.op = "clear"
<1>1. 0 \in 0..MaxQty
  BY Bounds
<1>2. QED
  BY <1>1, Bounds DEF ClearWrite, Write

LEMMA BasketAttempt ==
    ASSUME Basket, NEW a \in Attempt, Attempting(a)
    PROVE  Basket'
<1>1. CASE PostAnswered(a)
  <2>1. queue' = Append(queue, ClearWrite)
    BY <1>1 DEF PostAnswered, ClearWrite
  <2>2. queue' \in Seq(Write)
    BY <2>1, ClearWriteType, AppendProperties DEF Basket
  <2>3. QED
    BY <1>1, <2>2 DEF PostAnswered, Basket, PagesOK
<1>2. CASE ~PostAnswered(a)
  <2>1. UNCHANGED cartVars
    BY <1>2 DEF Attempting, Pay, PayByWallet, PayByPaypal, CreateAnswered, Approve,
       ReturnWithoutPayer, CancelPaypal, TransitionEnds, Serves, ExecServed,
       DebitServed, PostServed, Answers, ExecAnswered, ExecRefused, DebitAnswered,
       PostOddAnswered, Throws
  <2>2. QED
    BY <2>1 DEF cartVars, Basket, PagesOK
<1>3. QED
  BY <1>1, <1>2

LEMMA BasketNext == Basket /\ [Next]_vars => Basket'
<1> SUFFICES ASSUME Basket, [Next]_vars PROVE Basket'
  OBVIOUS
<1>1. CASE UNCHANGED vars
  BY <1>1 DEF Basket, PagesOK, vars, cartVars
<1>2. CASE PressCheckout \/ ContinueBilling \/ Back \/ WalletServed
           \/ \E v \in walletAns : WalletAnswered(v)
  <2>1. UNCHANGED cartVars
    BY <1>2 DEF PressCheckout, ContinueBilling, Back, WalletServed, WalletAnswered
  <2>2. QED
    BY <2>1 DEF cartVars, Basket, PagesOK
<1>3. CASE OpenProfile
  BY <1>3, BasketLook DEF OpenProfile, cartVars, Basket, PagesOK
<1>4. CASE Browse \/ ClosePlaced \/ Hive \/ Restart
  BY <1>4, BasketUser, BasketLook, BasketHive, BasketRestart DEF Browse
<1>5. QED
  BY <1>1, <1>2, <1>3, <1>4, BasketAttempt DEF Next

LEMMA BasketInit == Init => Basket
<1> SUFFICES ASSUME Init PROVE Basket
  OBVIOUS
<1>1. queue \in Seq(Write) /\ PagesOK
  BY Bounds DEF Init, CartInit, PagesOK
<1>2. QED
  BY <1>1, NothingType DEF Init, CartInit, Basket

-----------------------------------------------------------------------------
(***************************************************************************)
(* Steps that only move attempts on                                        *)
(***************************************************************************)

Onward == {<<"create", "approve">>, <<"approve", "exec">>, <<"exec", "execOk">>,
           <<"exec", "execNo">>, <<"debit", "debited">>, <<"post", "postOk">>,
           <<"post", "postOdd">>}

Ordered == {"done", "unseen"}

MovesOn(p, q) ==
    \/ q = p
    \/ q = "dead" /\ p \notin Ordered
    \/ <<p, q>> \in Onward

\* No bill, no cart, no amount and no list of lines changes.
Moving ==
    /\ UNCHANGED <<cartVars, bill, cached, reread, jobVars, late>>
    /\ routes' # <<>> => routes # <<>>
    /\ \A a \in Attempt : MovesOn(phase[a], phase'[a])

\* A pop ends only attempts whose WebView is waiting for the user.
LEMMA PopEnds ==
    ASSUME NEW n, NEW b, NEW ph \in [Attempt -> Phase], Pop(n, ph) \/ LatePop(b, ph)
    PROVE  \A a \in Attempt : \/ phase'[a] = ph[a]
                              \/ phase'[a] = "dead" /\ ph[a] \in {"create", "approve"}
BY DEF Pop, LatePop

\* Only attempt b moves, the others at most end.
LEMMA OneMovesOn ==
    ASSUME FundInv, NEW b \in Attempt, NEW q \in Phase,
           <<phase[b], q>> \in Onward \/ (q = "dead" /\ phase[b] \notin Ordered),
           \A a \in Attempt : LET p == [phase EXCEPT ![b] = q][a] IN
               phase'[a] = p \/ (phase'[a] = "dead" /\ p \in {"create", "approve"})
    PROVE  \A a \in Attempt : MovesOn(phase[a], phase'[a])
<1>1. ASSUME NEW a \in Attempt, a # b
      PROVE  phase'[a] = phase[a] \/ (phase'[a] = "dead" /\ phase[a] \in {"create", "approve"})
  BY <1>1 DEF FundInv
<1>2. phase'[b] = q \/ (phase'[b] = "dead" /\ q \in {"create", "approve"})
  BY DEF FundInv
<1>3. \A a \in Attempt \ {b} : MovesOn(phase[a], phase'[a])
  BY <1>1 DEF MovesOn, Ordered
<1>4. MovesOn(phase[b], phase'[b])
  BY <1>2 DEF MovesOn, Ordered, Onward
<1>5. QED
  BY <1>3, <1>4

LEMMA PagesMove ==
    ASSUME FundInv, RoutesInv, NEW b \in Attempt,
           \/ Approve(b) \/ ReturnWithoutPayer(b) \/ CancelPaypal(b) \/ ExecRefused(b)
    PROVE  Moving
<1>1. UNCHANGED <<cartVars, bill, cached, reread, jobVars, late>>
  BY DEF Approve, ReturnWithoutPayer, CancelPaypal, ExecRefused, walletVars
<1>2. PICK q \in {"exec", "dead"} :
          /\ <<phase[b], q>> \in Onward \/ (q = "dead" /\ phase[b] \notin Ordered)
          /\ LET ph == [phase EXCEPT ![b] = q]
             IN  LatePop(b, ph) \/ \E n \in Nat : Pop(n, ph)
  BY DEF Approve, ReturnWithoutPayer, CancelPaypal, ExecRefused, Onward, Ordered
<1> DEFINE ph == [phase EXCEPT ![b] = q]
<1>3. ph \in [Attempt -> Phase] /\ q \in Phase
  BY DEF FundInv, Phase
<1>4. /\ routes' # <<>> => routes # <<>>
      /\ \A a \in Attempt : \/ phase'[a] = ph[a]
                            \/ phase'[a] = "dead" /\ ph[a] \in {"create", "approve"}
  <2>1. LatePop(b, ph) \/ \E n \in Nat : Pop(n, ph)
    BY <1>2
  <2> HIDE DEF ph
  <2>2. QED
    BY <1>3, <2>1, PopEnds, PopRoutes, LatePopRoutes
<1>5. \A a \in Attempt : MovesOn(phase[a], phase'[a])
  BY <1>2, <1>3, <1>4, OneMovesOn
<1>6. QED
  BY <1>1, <1>4, <1>5 DEF Moving

LEMMA AttemptMoves ==
    ASSUME FundInv, RoutesInv, NEW b \in Attempt, Attempting(b)
    PROVE  \/ Pay(b) \/ ExecAnswered(b) \/ DebitAnswered(b) \/ PostAnswered(b)
           \/ Moving
<1>1. CASE \/ Approve(b) \/ ReturnWithoutPayer(b) \/ CancelPaypal(b) \/ ExecRefused(b)
  BY <1>1, PagesMove
<1>2. CASE \/ CreateAnswered(b) \/ ExecServed(b) \/ DebitServed(b) \/ PostServed(b)
           \/ PostOddAnswered(b) \/ Throws(b)
  <2>1. UNCHANGED <<cartVars, bill, cached, reread, jobVars, late, routes>>
    BY <1>2 DEF CreateAnswered, ExecServed, DebitServed, PostServed, PostOddAnswered,
       Throws, walletVars, appVars
  <2>2. PICK q \in Phase :
            /\ <<phase[b], q>> \in Onward \/ (q = "dead" /\ phase[b] \notin Ordered)
            /\ phase' = [phase EXCEPT ![b] = q]
    BY <1>2 DEF CreateAnswered, ExecServed, DebitServed, PostServed, PostOddAnswered,
       Throws, Waiting, Onward, Ordered, Phase
  <2>3. \A a \in Attempt : MovesOn(phase[a], phase'[a])
    BY <2>2, OneMovesOn
  <2>4. QED
    BY <2>1, <2>3 DEF Moving
<1>3. CASE TransitionEnds(b)
  BY <1>3 DEF TransitionEnds, Moving, MovesOn, walletVars
<1>4. QED
  BY <1>1, <1>2, <1>3 DEF Attempting, Serves, Answers

LEMMA OtherMoves ==
    ASSUME FundInv, RoutesInv, ContinueBilling \/ Back \/ WalletServed \/ UNCHANGED vars
    PROVE  Moving
<1>1. UNCHANGED <<cartVars, bill, cached, reread, jobVars, late>>
  BY DEF ContinueBilling, Back, WalletServed, vars, payVars, appVars, walletVars
<1>2. routes' # <<>> => routes # <<>>
  BY PopRoutes DEF ContinueBilling, Top, Back, WalletServed, vars, payVars, appVars
<1>3. \A a \in Attempt : \/ phase'[a] = phase[a]
                         \/ phase'[a] = "dead" /\ phase[a] \in {"create", "approve"}
  BY PopEnds DEF ContinueBilling, Back, WalletServed, vars, payVars, FundInv
<1>4. QED
  BY <1>1, <1>2, <1>3 DEF Moving, MovesOn, Ordered

\* Every step, by what it does to bills, carts, amounts and lines.
LEMMA Steps ==
    ASSUME FundInv, RoutesInv, [Next]_vars
    PROVE  \/ Moving \/ PressCheckout \/ ClosePlaced \/ Browse \/ OpenProfile
           \/ (\E v \in walletAns : WalletAnswered(v)) \/ Hive \/ Restart
           \/ \E b \in Attempt : \/ Pay(b) \/ ExecAnswered(b) \/ DebitAnswered(b)
                                 \/ PostAnswered(b)
BY AttemptMoves, OtherMoves DEF Next

-----------------------------------------------------------------------------
(***************************************************************************)
(* Types                                                                   *)
(***************************************************************************)

\* The amounts in the app; while a WebView is open the wallet has been read.
AmountsInv ==
    /\ cached \in Nat \cup {NoModel}
    /\ bill \in Bill
    /\ job \in [Attempt -> Bill]
    /\ asked \in [Attempt -> Nat]
    /\ charge \in [Attempt -> Nat]
    /\ lines \in [Attempt -> [Item -> 0..MaxQty]]
    /\ late \in [Attempt -> SUBSET Item]
    /\ reread \subseteq Attempt
    /\ \A a \in Attempt : phase[a] \in InPaypal => cached \in Nat

\* The amounts on the servers and on their way.
MoneyInv ==
    /\ walletAns \subseteq Nat
    /\ balance \in Nat
    /\ taken \in [Attempt -> Nat]

FlagsInv == orderPlace \in BOOLEAN /\ leaving \subseteq Attempt /\ walletAsk \in BOOLEAN

TypeInv ==
    /\ FundInv /\ RoutesInv /\ Basket
    /\ AmountsInv /\ MoneyInv /\ FlagsInv

LEMMA TypeInvTypes == TypeInv => TypeOK
<1> SUFFICES ASSUME TypeInv PROVE TypeOK
  OBVIOUS
<1>1. FlowTypeOK
  BY DEF TypeInv, FundInv, RoutesInv, FlagsInv, FlowTypeOK, Page
<1>2. QED
  BY <1>1 DEF TypeInv, TypeOK, AmountsInv, MoneyInv, Basket

LEMMA MovingAmounts == ASSUME AmountsInv, Moving PROVE AmountsInv'
<1>1. \A a \in Attempt : phase'[a] \in InPaypal => phase[a] \in InPaypal
  BY DEF Moving, MovesOn, Onward, InPaypal
<1>2. QED
  BY <1>1 DEF AmountsInv, Moving, jobVars

LEMMA PayAmounts ==
    ASSUME FundInv, AmountsInv, NEW b \in Attempt, Pay(b)
    PROVE  AmountsInv'
<1>1. cached \in Nat /\ bill.total \in Nat
  BY DEF Pay, PayByWallet, PayByPaypal, CanPay, AmountsInv, Bill
<1>2. /\ UNCHANGED <<cached, bill, lines, late, reread>>
      /\ job' = [job EXCEPT ![b] = bill]
  BY DEF Pay, PayByWallet, PayByPaypal, walletVars
<1>3. asked' \in [Attempt -> Nat] /\ charge' \in [Attempt -> Nat]
  <2>1. CASE PayByWallet(b)
    BY <1>1, <2>1 DEF PayByWallet, AmountsInv
  <2>2. CASE ~PayByWallet(b)
    <3>1. PICK n : n \in {bill.total, bill.total - cached}
                   /\ (n = bill.total \/ bill.total > cached)
                   /\ asked' = [asked EXCEPT ![b] = n] /\ charge' = charge
      BY <2>2 DEF Pay, PayByPaypal
    <3>2. n \in Nat
      BY ONLY <1>1, <3>1
    <3>3. QED
      BY <3>1, <3>2 DEF AmountsInv
  <2>3. QED
    BY <2>1, <2>2
<1>4. job' \in [Attempt -> Bill] /\ bill' \in Bill
  BY <1>2 DEF AmountsInv
<1>5. cached' \in Nat
  BY <1>1, <1>2
<1>6. QED
  BY <1>2, <1>3, <1>4, <1>5 DEF AmountsInv

\* What createOrder sends is a list of quantities.
LEMMA PostingLines ==
    ASSUME Basket, AmountsInv, NEW b \in Attempt, Posting(b)
    PROVE  lines' \in [Attempt -> [Item -> 0..MaxQty]]
<1> DEFINE l == [i \in Item |-> IF i \in job[b].list THEN qty[i] ELSE 0]
<1>1. l \in [Item -> 0..MaxQty]
  BY Bounds DEF Basket
<1>2. lines' = [lines EXCEPT ![b] = l]
  BY DEF Posting
<1>3. QED
  BY <1>1, <1>2 DEF AmountsInv

LEMMA AnsweredAmounts ==
    ASSUME FundInv, RoutesInv, Basket, AmountsInv, NEW b \in Attempt,
           ExecAnswered(b) \/ DebitAnswered(b) \/ PostAnswered(b)
    PROVE  AmountsInv'
<1>1. UNCHANGED <<cached, bill, job, asked, late, reread>>
  BY DEF ExecAnswered, DebitAnswered, PostAnswered, walletVars, jobVars
<1>2. lines' = lines \/ Posting(b)
  BY DEF ExecAnswered, DebitAnswered, PostAnswered, jobVars
<1>3. lines' \in [Attempt -> [Item -> 0..MaxQty]]
  BY <1>2, PostingLines DEF AmountsInv
<1>4. \/ charge' = charge
      \/ charge' = [charge EXCEPT ![b] = cached] /\ phase[b] = "execOk"
  BY DEF ExecAnswered, DebitAnswered, PostAnswered, jobVars
<1>5. charge' \in [Attempt -> Nat]
  BY <1>4 DEF AmountsInv, InPaypal
<1>6. PICK q \in Phase \ InPaypal :
          \A a \in Attempt : phase'[a] \in {[phase EXCEPT ![b] = q][a], "dead"}
  <2>1. PICK q \in {"post", "debit", "done", "unseen"} :
            LET ph == [phase EXCEPT ![b] = q] IN phase' = ph \/ LatePop(b, ph)
    BY DEF ExecAnswered, DebitAnswered, PostAnswered
  <2> DEFINE ph == [phase EXCEPT ![b] = q]
  <2>2. ph \in [Attempt -> Phase] /\ q \in Phase \ InPaypal
    BY DEF FundInv, Phase, InPaypal
  <2>3. phase' = ph \/ LatePop(b, ph)
    BY <2>1
  <2>4. \A a \in Attempt : phase'[a] \in {ph[a], "dead"}
    <3> HIDE DEF ph
    <3>1. QED
      BY <2>2, <2>3, LatePopPhase
  <2>5. QED
    BY <2>2, <2>4
<1>7. \A a \in Attempt : phase'[a] \in InPaypal => phase[a] \in InPaypal
  BY <1>6 DEF FundInv, InPaypal
<1>8. QED
  BY <1>1, <1>3, <1>5, <1>7 DEF AmountsInv

LEMMA AmountsNext ==
    ASSUME TypeInv, [Next]_vars
    PROVE  AmountsInv'
<1> USE DEF TypeInv
<1>1. CASE Moving
  BY <1>1, MovingAmounts
<1>2. CASE PressCheckout
  <2>1. Total(priced) \in Nat
    <3>1. priced \in [Item -> Nat]
      BY Bounds DEF Basket
    <3>2. QED
      BY <3>1, TotalType
  <2>2. bill' \in Bill
    BY <1>2, <2>1 DEF PressCheckout, Bill, Rows
  <2>3. UNCHANGED <<cached, job, asked, charge, lines, late, reread, phase>>
    BY <1>2 DEF PressCheckout, walletVars, jobVars
  <2>4. QED
    BY <2>2, <2>3 DEF AmountsInv
<1>3. CASE Hive \/ OpenProfile
  <2>1. UNCHANGED <<cached, bill, job, asked, charge, lines, late, reread, phase>>
    BY <1>3 DEF Hive, OpenProfile, payVars, appVars, walletVars, jobVars
  <2>2. QED
    BY <2>1 DEF AmountsInv
<1>4. CASE Browse
  <2>1. UNCHANGED <<cached, bill, job, asked, charge, lines, reread, phase>>
    BY <1>4 DEF Browse, appVars, walletVars, jobVars
  <2>2. late' \in [Attempt -> SUBSET Item]
    BY <1>4 DEF Browse, AmountsInv
  <2>3. QED
    BY <2>1, <2>2 DEF AmountsInv
<1>5. CASE \E v \in walletAns : WalletAnswered(v)
  <2>1. UNCHANGED <<bill, job, asked, charge, lines, late, phase>>
    BY <1>5 DEF WalletAnswered, appVars, jobVars
  <2>2. cached' = cached \/ cached' \in Nat
    BY <1>5 DEF WalletAnswered, MoneyInv
  <2>3. reread' \subseteq Attempt
    BY <1>5 DEF WalletAnswered, AmountsInv
  <2>4. QED
    BY <2>1, <2>2, <2>3 DEF AmountsInv
<1>6. CASE ClosePlaced
  <2>1. UNCHANGED <<cached, bill, job, asked, charge, lines, late, reread>>
    BY <1>6 DEF ClosePlaced, jobVars
  <2>2. \A a \in Attempt : phase'[a] \in {phase[a], "dead"}
    BY <1>6, PopPhase DEF ClosePlaced, FundInv
  <2>3. QED
    BY <2>1, <2>2 DEF AmountsInv, InPaypal
<1>7. CASE Restart
  <2>1. UNCHANGED <<job, asked, charge, lines, late, reread>>
    BY <1>7 DEF Restart, jobVars
  <2>2. cached' = NoModel /\ bill' \in Bill
    BY <1>7 DEF Restart, NoBill, Bill
  <2>3. \A a \in Attempt : phase'[a] \notin InPaypal
    BY <1>7 DEF Restart, Waiting, InPaypal
  <2>4. QED
    BY <2>1, <2>2, <2>3 DEF AmountsInv
<1>8. QED
  BY <1>1, <1>2, <1>3, <1>4, <1>5, <1>6, <1>7, PayAmounts, AnsweredAmounts, Steps

LEMMA MoneyNext ==
    ASSUME TypeInv, [Next]_vars
    PROVE  MoneyInv'
<1> USE DEF TypeInv
<1>1. ASSUME NEW b \in Attempt, DebitServed(b) PROVE MoneyInv'
  <2>1. CASE UNCHANGED <<balance, taken>>
    BY <1>1, <2>1 DEF DebitServed, MoneyInv, walletVars
  <2>2. CASE /\ charge[b] <= balance
             /\ balance' = balance - charge[b]
             /\ taken' = [taken EXCEPT ![b] = charge[b]]
    <3>1. charge[b] \in Nat /\ balance \in Nat
      BY DEF AmountsInv, MoneyInv
    <3>2. balance' \in Nat
      BY ONLY <2>2, <3>1
    <3>3. QED
      BY <1>1, <2>2, <3>1, <3>2 DEF DebitServed, MoneyInv, walletVars
  <2>3. QED
    BY <1>1, <2>1, <2>2 DEF DebitServed
<1>2. CASE WalletServed
  BY <1>2 DEF WalletServed, MoneyInv, serverVars
<1>3. CASE \E v \in walletAns : WalletAnswered(v)
  BY <1>3 DEF WalletAnswered, MoneyInv, serverVars
<1>4. CASE Restart
  BY <1>4 DEF Restart, MoneyInv, serverVars
<1>5. ASSUME NEW b \in Attempt, Attempting(b), ~DebitServed(b)
      PROVE  UNCHANGED <<walletAns, balance, taken>>
  BY <1>5 DEF Attempting, Pay, PayByWallet, PayByPaypal, CreateAnswered, Approve,
       ReturnWithoutPayer, CancelPaypal, TransitionEnds, Serves, ExecServed,
       PostServed, Answers, ExecAnswered, ExecRefused, DebitAnswered, PostAnswered,
       PostOddAnswered, Throws, walletVars, serverVars
<1>6. CASE \/ PressCheckout \/ ContinueBilling \/ Back \/ ClosePlaced \/ Browse
           \/ OpenProfile \/ Hive \/ UNCHANGED vars
  <2>1. UNCHANGED <<walletAns, balance, taken>>
    BY <1>6 DEF PressCheckout, ContinueBilling, Back, ClosePlaced, Browse,
       OpenProfile, Hive, vars, payVars, walletVars, serverVars
  <2>2. QED
    BY <2>1 DEF MoneyInv
<1>7. UNCHANGED <<walletAns, balance, taken>> => MoneyInv'
  BY DEF MoneyInv
<1>8. QED
  BY <1>1, <1>2, <1>3, <1>4, <1>5, <1>6, <1>7 DEF Next

LEMMA FlagsNext ==
    ASSUME TypeInv, [Next]_vars
    PROVE  FlagsInv'
<1> USE DEF TypeInv
<1>1. orderPlace' \in BOOLEAN
  <2>1. ASSUME NEW b \in Attempt, Attempting(b)
        PROVE  orderPlace' \in {orderPlace, TRUE, FALSE}
    BY <2>1 DEF Attempting, Pay, PayByWallet, PayByPaypal, CreateAnswered, Approve,
       ReturnWithoutPayer, CancelPaypal, TransitionEnds, Serves, ExecServed,
       DebitServed, PostServed, Answers, ExecAnswered, ExecRefused, DebitAnswered,
       PostAnswered, PostOddAnswered, Throws, Posting, appVars
  <2>2. CASE ~\E b \in Attempt : Attempting(b)
    <3>1. orderPlace' \in {orderPlace, FALSE}
      BY <2>2 DEF Next, PressCheckout, ContinueBilling, Back, ClosePlaced, Browse,
         OpenProfile, WalletServed, WalletAnswered, Hive, Restart, vars, payVars, appVars
    <3>2. QED
      BY <3>1 DEF FlagsInv
  <2>3. QED
    BY <2>1, <2>2 DEF FlagsInv
<1>2. leaving' \subseteq Attempt
  <2>1. ASSUME NEW n, NEW ph, Pop(n, ph) \/ \E b : LatePop(b, ph) PROVE leaving' \subseteq Attempt
    BY <2>1 DEF Pop, LatePop, FlagsInv
  <2>2. ASSUME NEW b \in Attempt, Attempting(b)
        PROVE  leaving' \subseteq leaving \/ \E n, ph : Pop(n, ph) \/ LatePop(b, ph)
    BY <2>2 DEF Attempting, Pay, PayByWallet, PayByPaypal, CreateAnswered, Approve,
       ReturnWithoutPayer, CancelPaypal, TransitionEnds, Serves, ExecServed,
       DebitServed, PostServed, Answers, ExecAnswered, ExecRefused, DebitAnswered,
       PostAnswered, PostOddAnswered, Throws, appVars
  <2>3. CASE ~\E b \in Attempt : Attempting(b)
    <3>1. leaving' \subseteq leaving \/ \E n, ph : Pop(n, ph)
      BY <2>3 DEF Next, PressCheckout, ContinueBilling, Back, ClosePlaced, Browse,
         OpenProfile, WalletServed, WalletAnswered, Hive, Restart, vars, payVars, appVars
    <3>2. QED
      BY <2>1, <3>1 DEF FlagsInv
  <2>4. QED
    BY <2>1, <2>2, <2>3 DEF FlagsInv
<1>3. walletAsk' \in BOOLEAN
  <2>1. ASSUME NEW b \in Attempt, Attempting(b) PROVE walletAsk' = walletAsk
    BY <2>1 DEF Attempting, Pay, PayByWallet, PayByPaypal, CreateAnswered, Approve,
       ReturnWithoutPayer, CancelPaypal, TransitionEnds, Serves, ExecServed,
       DebitServed, PostServed, Answers, ExecAnswered, ExecRefused, DebitAnswered,
       PostAnswered, PostOddAnswered, Throws, walletVars
  <2>2. CASE Browse
    BY <2>2 DEF Browse, FlagsInv
  <2>3. CASE ~Browse /\ ~\E b \in Attempt : Attempting(b)
    <3>1. walletAsk' \in {walletAsk, TRUE, FALSE}
      BY <2>3 DEF Next, PressCheckout, ContinueBilling, Back, ClosePlaced,
         OpenProfile, WalletServed, WalletAnswered, Hive, Restart, vars, payVars, walletVars
    <3>2. QED
      BY <3>1 DEF FlagsInv
  <2>4. QED
    BY <2>1, <2>2, <2>3 DEF FlagsInv
<1>4. QED
  BY <1>1, <1>2, <1>3 DEF FlagsInv

LEMMA TypeInvNext == TypeInv /\ [Next]_vars => TypeInv'
<1> SUFFICES ASSUME TypeInv, [Next]_vars PROVE TypeInv'
  OBVIOUS
<1>1. FundInv' /\ RoutesInv' /\ Basket'
  BY FundNext, RoutesNext, BasketNext DEF TypeInv
<1>2. AmountsInv' /\ MoneyInv' /\ FlagsInv'
  BY AmountsNext, MoneyNext, FlagsNext
<1>3. QED
  BY <1>1, <1>2 DEF TypeInv

LEMMA TypeInvInit == Init => TypeInv
<1> SUFFICES ASSUME Init PROVE TypeInv
  OBVIOUS
<1>1. FundInv /\ RoutesInv /\ Basket
  BY FundInit, RoutesInit, BasketInit
<1>2. Nothing \in [Item -> 0..MaxQty] /\ NoBill \in Bill
  BY NothingType DEF NoBill, Bill
<1>3. AmountsInv
  BY <1>2 DEF Init, PayInit, AmountsInv, InPaypal
<1>4. balance \in Nat
  BY CheckoutAssumption DEF Init, PayInit
<1>5. MoneyInv /\ FlagsInv
  BY <1>4 DEF Init, PayInit, MoneyInv, FlagsInv
<1>6. QED
  BY <1>1, <1>3, <1>5 DEF TypeInv

\* The checkout's types: no amount is ever negative or missing while a
\* payment needs it, and only pages of the checkout are opened.
THEOREM CheckoutTypes == Spec => []TypeOK
<1>1. Init => TypeInv
  BY TypeInvInit
<1>2. TypeInv /\ [Next]_vars => TypeInv'
  BY TypeInvNext
<1>3. TypeInv => TypeOK
  BY TypeInvTypes
<1>4. QED
  BY <1>1, <1>2, <1>3, PTL DEF Spec

-----------------------------------------------------------------------------
(***************************************************************************)
(* A mixed payment covers the total                                        *)
(***************************************************************************)

\* The phases in which PayPal's share is fixed and the wallet's is not.
Halfway == {"create", "approve", "exec", "execOk"}

SplitInv ==
    \A a \in Attempt \ reread : kind[a] = "Wallet & Paypal" =>
        /\ phase[a] \in Halfway => cached \in Nat /\ asked[a] = job[a].total - cached
        /\ phase[a] = "debit" => asked[a] + charge[a] = job[a].total

LEMMA MovingSplit == ASSUME SplitInv, Moving PROVE SplitInv'
<1>1. \A a \in Attempt : /\ phase'[a] \in Halfway => phase[a] \in Halfway
                         /\ phase'[a] = "debit" => phase[a] = "debit"
  BY DEF Moving, MovesOn, Onward, Halfway
<1>2. QED
  BY <1>1 DEF SplitInv, Moving, jobVars

\* The attempts that are not b keep their phase, or end.
LEMMA OthersEnd ==
    ASSUME FundInv, NEW b \in Attempt, Pay(b) \/ ExecAnswered(b) \/ DebitAnswered(b)
                                       \/ PostAnswered(b)
    PROVE  /\ phase' \in [Attempt -> Phase]
           /\ \A a \in Attempt \ {b} : phase'[a] \in {phase[a], "dead"}
<1>1. PICK q \in Phase :
          LET ph == [phase EXCEPT ![b] = q] IN phase' = ph \/ LatePop(b, ph)
  BY DEF Pay, PayByWallet, PayByPaypal, ExecAnswered, DebitAnswered, PostAnswered, Phase
<1> DEFINE ph == [phase EXCEPT ![b] = q]
<1>2. ph \in [Attempt -> Phase]
  BY DEF FundInv
<1>3. phase' = ph \/ LatePop(b, ph)
  BY <1>1
<1>4. /\ phase' \in [Attempt -> Phase]
      /\ \A a \in Attempt : phase'[a] \in {ph[a], "dead"}
  <2> HIDE DEF ph
  <2>1. QED
    BY <1>2, <1>3, LatePopPhase, "dead" \in Phase DEF Phase
<1>5. QED
  BY <1>4 DEF FundInv

LEMMA ExecOutcome ==
    ASSUME FundInv, NEW b \in Attempt, ExecAnswered(b)
    PROVE  /\ phase[b] = "execOk"
           /\ \/ /\ kind[b] = "Paypal"
                 /\ phase'[b] \in {"post", "dead"}
                 /\ Posting(b) /\ charge' = charge
              \/ /\ kind[b] = "Wallet & Paypal"
                 /\ phase'[b] \in {"debit", "dead"}
                 /\ charge' = [charge EXCEPT ![b] = cached] /\ lines' = lines
<1>1. ASSUME NEW q \in {"post", "debit"}, LatePop(b, [phase EXCEPT ![b] = q])
      PROVE  phase'[b] \in {q, "dead"}
  <2> DEFINE ph == [phase EXCEPT ![b] = q]
  <2>1. ph \in [Attempt -> Phase] /\ ph[b] = q
    BY DEF FundInv, Phase
  <2>2. LatePop(b, ph)
    BY <1>1
  <2> HIDE DEF ph
  <2>3. QED
    BY <2>1, <2>2, LatePopPhase
<1>2. QED
  BY <1>1 DEF ExecAnswered

\* PayPal's share and the wallet's are the total.
LEMMA Shares ==
    ASSUME NEW t, NEW c \in Nat, t \in Nat
    PROVE  (t - c) + c = t
OBVIOUS

LEMMA PaySplit ==
    ASSUME TypeInv, SplitInv, NEW b \in Attempt, Pay(b)
    PROVE  SplitInv'
<1> USE DEF TypeInv
<1>1. UNCHANGED <<cached, reread>> /\ job' = [job EXCEPT ![b] = bill]
  BY DEF Pay, PayByWallet, PayByPaypal, walletVars
<1>2. ASSUME NEW a \in Attempt, a # b
      PROVE  /\ phase'[a] \in {phase[a], "dead"} /\ kind'[a] = kind[a]
             /\ job'[a] = job[a] /\ asked'[a] = asked[a] /\ charge'[a] = charge[a]
  BY <1>1, <1>2 DEF Pay, PayByWallet, PayByPaypal, FundInv, AmountsInv
<1>3. ASSUME kind'[b] = "Wallet & Paypal"
      PROVE  /\ phase'[b] = "create" /\ cached' \in Nat
             /\ asked'[b] = job'[b].total - cached'
  <2>1. PayByPaypal(b, "Wallet & Paypal", bill.total - cached)
    BY <1>3 DEF Pay, PayByWallet, PayByPaypal, FundInv
  <2>2. QED
    BY <1>1, <2>1 DEF PayByPaypal, CanPay, FundInv, AmountsInv
<1>4. ASSUME NEW a \in Attempt \ reread, kind'[a] = "Wallet & Paypal"
      PROVE  /\ phase'[a] \in Halfway => cached' \in Nat /\ asked'[a] = job'[a].total - cached'
             /\ phase'[a] = "debit" => asked'[a] + charge'[a] = job'[a].total
  <2>1. CASE a = b
    BY <1>3, <1>4, <2>1
  <2>2. CASE a # b
    <3>1. /\ phase'[a] \in Halfway => phase[a] \in Halfway
          /\ phase'[a] = "debit" => phase[a] = "debit"
      BY <1>2, <2>2 DEF Halfway
    <3>2. QED
      BY <1>1, <1>2, <1>4, <2>2, <3>1 DEF SplitInv
  <2>3. QED
    BY <2>1, <2>2
<1>5. QED
  BY <1>1, <1>4 DEF SplitInv

LEMMA AnsweredSplit ==
    ASSUME TypeInv, SplitInv, NEW b \in Attempt,
           ExecAnswered(b) \/ DebitAnswered(b) \/ PostAnswered(b)
    PROVE  SplitInv'
<1> USE DEF TypeInv
<1>1. UNCHANGED <<cached, reread, kind, job, asked>>
  BY DEF ExecAnswered, DebitAnswered, PostAnswered, walletVars, jobVars
<1>2. ASSUME NEW a \in Attempt, a # b
      PROVE  phase'[a] \in {phase[a], "dead"} /\ charge'[a] = charge[a]
  BY <1>2, OthersEnd DEF ExecAnswered, DebitAnswered, PostAnswered, AmountsInv, jobVars
<1>3. phase'[b] \notin Halfway
  BY ExecOutcome DEF DebitAnswered, PostAnswered, Halfway, FundInv
<1>4. ASSUME b \notin reread, kind[b] = "Wallet & Paypal", phase'[b] = "debit"
      PROVE  asked[b] + charge'[b] = job[b].total
  <2>1. ExecAnswered(b)
    BY <1>4 DEF DebitAnswered, PostAnswered, FundInv
  <2>2. charge'[b] = cached /\ phase[b] = "execOk"
    BY <1>4, <2>1, ExecOutcome DEF AmountsInv
  <2>3. cached \in Nat /\ asked[b] = job[b].total - cached /\ job[b].total \in Nat
    BY <1>4, <2>2 DEF SplitInv, Halfway, AmountsInv, Bill
  <2>4. QED
    BY <2>2, <2>3, Shares
<1>5. QED
  BY <1>1, <1>2, <1>3, <1>4 DEF SplitInv, Halfway

LEMMA SplitNext == TypeInv /\ SplitInv /\ [Next]_vars => SplitInv'
<1> SUFFICES ASSUME TypeInv, SplitInv, [Next]_vars PROVE SplitInv'
  OBVIOUS
<1> USE DEF TypeInv
<1>1. CASE PressCheckout \/ Browse \/ OpenProfile \/ Hive
  <2>1. UNCHANGED <<cached, reread, kind, job, asked, charge, phase>>
    BY <1>1 DEF PressCheckout, Browse, OpenProfile, Hive, payVars, walletVars, jobVars
  <2>2. QED
    BY <2>1 DEF SplitInv
<1>2. CASE ClosePlaced
  <2>1. UNCHANGED <<cached, reread, kind, job, asked, charge>>
    BY <1>2 DEF ClosePlaced, jobVars
  <2>2. \A a \in Attempt : phase'[a] \in {phase[a], "dead"}
    BY <1>2, PopPhase DEF ClosePlaced, FundInv
  <2>3. QED
    BY <2>1, <2>2 DEF SplitInv, Halfway
\* A new balance is stored: whoever is halfway is from now on a reread.
<1>3. CASE \E v \in walletAns : WalletAnswered(v)
  <2>1. UNCHANGED <<kind, job, asked, charge, phase>>
    BY <1>3 DEF WalletAnswered, jobVars
  <2>2. CASE UNCHANGED <<cached, reread>>
    BY <2>1, <2>2 DEF SplitInv
  <2>3. CASE reread' = reread \cup {a \in Attempt : phase[a] \in Halfway}
    BY <2>1, <2>3 DEF SplitInv
  <2>4. QED
    BY <1>3, <2>2, <2>3 DEF WalletAnswered, Halfway
<1>4. CASE Restart
  <2>1. UNCHANGED <<reread, kind, job, asked, charge>>
    BY <1>4 DEF Restart, jobVars
  <2>2. \A a \in Attempt : phase'[a] \notin Halfway \cup {"debit"}
    BY <1>4 DEF Restart, Waiting, Halfway
  <2>3. QED
    BY <2>1, <2>2 DEF SplitInv
<1>5. QED
  BY <1>1, <1>2, <1>3, <1>4, MovingSplit, PaySplit, AnsweredSplit, Steps

\* PayPal's share and the wallet's add up to the bill, unless the wallet was
\* read anew in between.
THEOREM SharesAddUp == Spec => []SplitAddsUp
<1>1. Init => TypeInv /\ SplitInv
  <2>1. Init => SplitInv
    BY DEF Init, PayInit, SplitInv
  <2>2. QED
    BY <2>1, TypeInvInit
<1>2. TypeInv /\ SplitInv /\ [Next]_vars => (TypeInv /\ SplitInv)'
  BY TypeInvNext, SplitNext
<1>3. SplitInv => SplitAddsUp
  BY DEF SplitInv, SplitAddsUp
<1>4. QED
  BY <1>1, <1>2, <1>3, PTL DEF Spec

-----------------------------------------------------------------------------
(***************************************************************************)
(* The bill is the price of the lines                                      *)
(***************************************************************************)

\* The lines createOrder makes of the objects in l with the quantities q.
Sold(l, q) == [i \in Item |-> IF i \in l THEN q[i] ELSE 0]

\* The phases before createOrder has made the lines, and those with them.
Before == {"create", "approve", "exec", "execOk", "execNo", "debit", "debited"}
Posted == {"post", "postOk", "postOdd"}

\* The attempt saw the cart at rest and the user has not touched its rows.
Steady(a) == ~job[a].hasty /\ late[a] \cap job[a].list = {}

SumInv ==
    /\ routes # <<>> /\ ~bill.hasty => Total(Sold(bill.list, qty)) = bill.total
    /\ \A a \in Attempt : Steady(a) =>
        /\ phase[a] \in Before => Total(Sold(job[a].list, qty)) = job[a].total
        /\ phase[a] \in Posted => Total(lines[a]) = job[a].total

\* Nothing SumInv speaks about changes, and no attempt enters its phases.
LEMMA SumStays ==
    ASSUME SumInv, UNCHANGED <<qty, bill, job, lines, late>>,
           routes' # <<>> => routes # <<>>,
           \A a \in Attempt : /\ phase'[a] \in Before => phase[a] \in Before
                              /\ phase'[a] \in Posted => phase[a] \in Posted
    PROVE  SumInv'
BY DEF SumInv, Steady

LEMMA MovingPhases ==
    ASSUME Moving
    PROVE  \A a \in Attempt : /\ phase'[a] \in Before => phase[a] \in Before
                              /\ phase'[a] \in Posted => phase[a] \in Posted
BY DEF Moving, MovesOn, Onward, Before, Posted

\* When the tab shows what is in the box, its rows are the lines.
LEMMA SnapshotSold ==
    ASSUME Basket, priced = Live
    PROVE  Sold(Rows, qty) = priced
<1>1. ASSUME NEW i \in Item PROVE (IF i \in Rows THEN qty[i] ELSE 0) = priced[i]
  <2>1. priced[i] \in 0..MaxQty /\ priced[i] = IF i \in box THEN qty[i] ELSE 0
    BY DEF Basket, Live
  <2>2. CASE priced[i] > 0
    BY <2>1, <2>2 DEF Rows
  <2>3. CASE ~(priced[i] > 0)
    <3>1. priced[i] = 0
      BY <2>1, <2>3, Bounds
    <3>2. QED
      BY <2>3, <3>1 DEF Rows
  <2>4. QED
    BY <2>2, <2>3
<1>2. priced = [i \in Item |-> priced[i]]
  BY DEF Basket
<1>3. QED
  BY <1>1, <1>2 DEF Sold

LEMMA PressCheckoutSum ==
    ASSUME TypeInv, SumInv, PressCheckout
    PROVE  SumInv'
<1>1. UNCHANGED <<qty, job, lines, late, phase>>
  BY DEF PressCheckout, cartVars, jobVars
<1>2. bill' = [total |-> Total(priced), list |-> Rows, hasty |-> priced # Live]
  BY DEF PressCheckout
<1>3. ~bill'.hasty => Sold(bill'.list, qty') = priced
  BY <1>1, <1>2, SnapshotSold DEF TypeInv
<1>4. ~bill'.hasty => Total(Sold(bill'.list, qty')) = bill'.total
  BY <1>2, <1>3
<1>5. QED
  BY <1>1, <1>4 DEF SumInv, Steady

LEMMA BrowseSum ==
    ASSUME TypeInv, SumInv, Browse
    PROVE  SumInv'
<1>1. UNCHANGED <<routes, bill, job, lines, phase>> /\ routes = <<>>
  BY DEF Browse, appVars, jobVars
<1>2. ASSUME NEW a \in Attempt, Steady(a)', phase[a] \in Before \cup Posted
      PROVE  /\ Steady(a)
             /\ Sold(job[a].list, qty') = Sold(job[a].list, qty)
  <2>1. phase[a] \notin {"idle", "dead"}
    BY <1>2 DEF Before, Posted
  <2>2. late'[a] = late[a] \cup {i \in Item : \/ qty'[i] # qty[i]
                                              \/ (i \in box') # (i \in box)}
    BY <2>1 DEF Browse
  <2>3. ~job[a].hasty /\ late'[a] \cap job[a].list = {}
    BY <1>1, <1>2 DEF Steady
  <2>4. Steady(a)
    BY <2>2, <2>3 DEF Steady
  <2>5. \A i \in Item : i \in job[a].list => qty'[i] = qty[i]
    BY <2>2, <2>3
  <2>6. Sold(job[a].list, qty') = Sold(job[a].list, qty)
    BY <2>5 DEF Sold
  <2>7. QED
    BY <2>4, <2>6
<1>3. QED
  BY <1>1, <1>2 DEF SumInv

LEMMA PaySum ==
    ASSUME TypeInv, SumInv, NEW b \in Attempt, Pay(b)
    PROVE  SumInv'
<1> USE DEF TypeInv
<1>1. /\ UNCHANGED <<qty, bill, lines, late>>
      /\ job' = [job EXCEPT ![b] = bill]
      /\ routes # <<>>
      /\ phase'[b] \in {"debit", "create"}
  BY DEF Pay, PayByWallet, PayByPaypal, CanPay, Top, cartVars, FundInv
<1>2. job'[b] = bill
  BY <1>1 DEF AmountsInv
<1>3. ASSUME NEW a \in Attempt, a # b
      PROVE  /\ phase'[a] \in {phase[a], "dead"} /\ job'[a] = job[a]
             /\ lines'[a] = lines[a] /\ late'[a] = late[a]
  BY <1>1, <1>3, OthersEnd DEF AmountsInv
<1>4. ASSUME NEW a \in Attempt, Steady(a)'
      PROVE  /\ phase'[a] \in Before => Total(Sold(job'[a].list, qty')) = job'[a].total
             /\ phase'[a] \in Posted => Total(lines'[a]) = job'[a].total
  <2>1. CASE a = b
    <3>1. ~bill.hasty
      BY <1>2, <1>4, <2>1 DEF Steady
    <3>2. QED
      BY <1>1, <1>2, <2>1, <3>1 DEF SumInv, Posted
  <2>2. CASE a # b
    <3>1. Steady(a)
      BY <1>3, <1>4, <2>2 DEF Steady
    <3>2. /\ phase'[a] \in Before => phase[a] \in Before
          /\ phase'[a] \in Posted => phase[a] \in Posted
      BY <1>3, <2>2 DEF Before, Posted
    <3>3. QED
      BY <1>1, <1>3, <2>2, <3>1, <3>2 DEF SumInv
  <2>3. QED
    BY <2>1, <2>2
<1>5. QED
  BY <1>1, <1>4 DEF SumInv

\* createOrder makes lines of what the bill lists, in the quantities of now.
LEMMA PostingSold ==
    ASSUME TypeInv, NEW b \in Attempt, Posting(b)
    PROVE  /\ lines'[b] = Sold(job[b].list, qty)
           /\ \A a \in Attempt \ {b} : lines'[a] = lines[a]
BY DEF Posting, Sold, TypeInv, AmountsInv

LEMMA AnsweredRoutes ==
    ASSUME TypeInv, NEW b \in Attempt,
           ExecAnswered(b) \/ DebitAnswered(b) \/ PostAnswered(b)
    PROVE  routes' # <<>> => routes # <<>>
<1> USE DEF TypeInv
<1>1. CASE ExecAnswered(b)
  BY <1>1, LatePopRoutes DEF ExecAnswered
<1>2. CASE DebitAnswered(b)
  BY <1>2 DEF DebitAnswered
<1>3. CASE PostAnswered(b)
  BY <1>3, NoRouteNoPage DEF PostAnswered
<1>4. QED
  BY <1>1, <1>2, <1>3

\* What the answers do to the attempt they are for.
LEMMA Outcomes ==
    ASSUME TypeInv, NEW b \in Attempt,
           ExecAnswered(b) \/ DebitAnswered(b) \/ PostAnswered(b)
    PROVE  \/ phase[b] \in Before /\ phase'[b] = "post" /\ Posting(b)
           \/ phase[b] \in Before /\ phase'[b] = "debit" /\ lines' = lines
           \/ phase'[b] \in {"done", "unseen", "dead"} /\ (lines' = lines \/ Posting(b))
<1> USE DEF TypeInv
<1>1. CASE ExecAnswered(b)
  BY <1>1, ExecOutcome DEF Before
<1>2. CASE DebitAnswered(b)
  BY <1>2 DEF DebitAnswered, Before, FundInv
<1>3. CASE PostAnswered(b)
  BY <1>3 DEF PostAnswered, FundInv, jobVars
<1>4. QED
  BY <1>1, <1>2, <1>3

LEMMA AnsweredSum ==
    ASSUME TypeInv, SumInv, NEW b \in Attempt,
           ExecAnswered(b) \/ DebitAnswered(b) \/ PostAnswered(b)
    PROVE  SumInv'
<1>1. UNCHANGED <<qty, bill, job, late>>
  BY DEF ExecAnswered, DebitAnswered, PostAnswered, cartVars, jobVars
<1>2. routes' # <<>> => routes # <<>>
  BY AnsweredRoutes
<1>3. ASSUME NEW a \in Attempt, a # b
      PROVE  phase'[a] \in {phase[a], "dead"} /\ lines'[a] = lines[a]
  <2>1. phase'[a] \in {phase[a], "dead"}
    BY <1>3, OthersEnd DEF TypeInv
  <2>2. lines' = lines \/ Posting(b)
    BY Outcomes
  <2>3. QED
    BY <1>3, <2>1, <2>2, PostingSold
<1>4. ASSUME NEW a \in Attempt, Steady(a)
      PROVE  /\ phase'[a] \in Before => Total(Sold(job[a].list, qty)) = job[a].total
             /\ phase'[a] \in Posted => Total(lines'[a]) = job[a].total
  <2>1. CASE a = b
    <3>1. CASE phase[b] \in Before /\ phase'[b] = "post" /\ Posting(b)
      BY <1>4, <2>1, <3>1, PostingSold DEF SumInv, Before
    <3>2. CASE phase[b] \in Before /\ phase'[b] = "debit"
      BY <1>4, <2>1, <3>2 DEF SumInv, Posted
    <3>3. CASE phase'[b] \in {"done", "unseen", "dead"}
      BY <2>1, <3>3 DEF Before, Posted
    <3>4. QED
      BY <3>1, <3>2, <3>3, Outcomes
  <2>2. CASE a # b
    <3>1. /\ phase'[a] \in Before => phase[a] \in Before
          /\ phase'[a] \in Posted => phase[a] \in Posted
      BY <1>3, <2>2 DEF Before, Posted
    <3>2. QED
      BY <1>3, <1>4, <2>2, <3>1 DEF SumInv
  <2>3. QED
    BY <2>1, <2>2
<1>5. QED
  BY <1>1, <1>2, <1>4 DEF SumInv, Steady

LEMMA SumNext == TypeInv /\ SumInv /\ [Next]_vars => SumInv'
<1> SUFFICES ASSUME TypeInv, SumInv, [Next]_vars PROVE SumInv'
  OBVIOUS
<1> USE DEF TypeInv
<1>1. CASE Moving
  <2>1. UNCHANGED <<qty, bill, job, lines, late>> /\ (routes' # <<>> => routes # <<>>)
    BY <1>1 DEF Moving, cartVars, jobVars
  <2>2. QED
    BY <1>1, <2>1, MovingPhases, SumStays
<1>2. CASE OpenProfile \/ Hive \/ \E v \in walletAns : WalletAnswered(v)
  <2>1. UNCHANGED <<qty, bill, job, lines, late, routes, phase>>
    BY <1>2 DEF OpenProfile, LeaveCart, Hive, WriteDone, ClearDone, WalletAnswered,
       payVars, appVars, jobVars, cartVars
  <2>2. QED
    BY <2>1, SumStays
<1>3. CASE ClosePlaced
  <2>1. UNCHANGED <<qty, bill, job, lines, late>> /\ \E n \in Nat : Pop(n, phase)
    BY <1>3 DEF ClosePlaced, jobVars, RoutesInv
  <2>2. \A a \in Attempt : phase'[a] \in {phase[a], "dead"}
    BY <2>1, PopPhase DEF FundInv
  <2>3. \A a \in Attempt : /\ phase'[a] \in Before => phase[a] \in Before
                           /\ phase'[a] \in Posted => phase[a] \in Posted
    BY <2>2 DEF Before, Posted
  <2>4. QED
    BY <2>1, <2>3, PopRoutes, SumStays
<1>4. CASE Restart
  <2>1. routes' = <<>> /\ \A a \in Attempt : phase'[a] \notin Before \cup Posted
    BY <1>4 DEF Restart, Waiting, Before, Posted
  <2>2. QED
    BY <2>1 DEF SumInv
<1>5. QED
  BY <1>1, <1>2, <1>3, <1>4, PressCheckoutSum, BrowseSum, PaySum, AnsweredSum, Steps

\* The frozen total is the price of the lines the shop gets, unless CHECKOUT
\* was tapped too early or the user touched a listed row meanwhile.
THEOREM ChargesMatch == Spec => []ChargedIsOrdered
<1>1. Init => TypeInv /\ SumInv
  <2>1. Init => SumInv
    BY DEF Init, PayInit, SumInv, Before, Posted
  <2>2. QED
    BY <2>1, TypeInvInit
<1>2. TypeInv /\ SumInv /\ [Next]_vars => (TypeInv /\ SumInv)'
  BY TypeInvNext, SumNext
<1>3. SumInv => ChargedIsOrdered
  BY DEF SumInv, Steady, Posted, ChargedIsOrdered
<1>4. QED
  BY <1>1, <1>2, <1>3, PTL DEF Spec

-----------------------------------------------------------------------------
(***************************************************************************)
(* The cart is cleared of what was ordered                                 *)
(***************************************************************************)

\* An object in the box has a quantity, and the Cart tab shows its row; no
\* Details page lies above that tab.
RowsInv ==
    /\ Above
    /\ \A i \in box : qty[i] > 0
    /\ screen = "cart" => box \subseteq Rows

LEMMA LiveRows ==
    ASSUME Basket, \A i \in box : qty[i] > 0
    PROVE  box \subseteq {i \in Item : Live[i] > 0}
BY DEF Basket, Live

\* Neither the box nor a quantity changes, and the tab shows the rows it did,
\* those of now, or is closed.
LEMMA RowsStay ==
    ASSUME Basket, RowsInv, Above', UNCHANGED <<qty, box>>,
           \/ screen' = screen /\ priced' = priced
           \/ priced' = Live
           \/ screen' # "cart"
    PROVE  RowsInv'
<1>1. CASE priced' = Live
  <2>1. Rows' = {i \in Item : Live[i] > 0}
    BY <1>1 DEF Rows
  <2>2. QED
    BY <2>1, LiveRows DEF RowsInv
<1>2. CASE screen' = screen /\ priced' = priced
  BY <1>2 DEF RowsInv, Rows
<1>3. CASE screen' # "cart"
  BY <1>3 DEF RowsInv
<1>4. QED
  BY <1>1, <1>2, <1>3

LEMMA RowsTap ==
    ASSUME Basket, RowsInv, Above', NEW i \in Item,
           AddToCart(i) \/ Plus(i) \/ Minus(i) \/ DeleteRow(i)
    PROVE  RowsInv'
<1>1. CASE AddToCart(i)
  <2>1. screen' # "cart"
    BY <1>1 DEF AddToCart, RowsInv, Above
  <2>2. \A j \in box' : qty'[j] > 0
    BY <1>1 DEF AddToCart, RowsInv, Basket
  <2>3. QED
    BY <2>1, <2>2 DEF RowsInv
<1>2. CASE Plus(i) \/ Minus(i)
  <2>1. PICK n \in Int : n > 0 /\ qty' = [qty EXCEPT ![i] = n]
    <3>1. qty[i] \in Nat
      BY Bounds DEF Basket
    <3>2. qty[i] + 1 \in Int /\ qty[i] + 1 > 0
      BY ONLY <3>1
    <3>3. qty[i] > 1 => qty[i] - 1 \in Int /\ qty[i] - 1 > 0
      BY ONLY <3>1
    <3>4. QED
      BY <1>2, <3>2, <3>3 DEF Plus, Minus, SetQuantity
  <2>2. UNCHANGED <<box, screen, priced>>
    BY <1>2 DEF Plus, Minus, SetQuantity
  <2>3. QED
    BY <2>1, <2>2 DEF RowsInv, Rows, Basket
<1>3. CASE DeleteRow(i)
  BY <1>3 DEF DeleteRow, RowsInv, Rows
<1>4. QED
  BY <1>1, <1>2, <1>3

LEMMA RowsLook ==
    ASSUME Basket, RowsInv, Above',
           \/ ShowCart \/ LeaveCart \/ LeaveDetails \/ HeartDone \/ ClosePlaced
           \/ \E p \in Product : OpenDetails(p)
    PROVE  RowsInv'
<1>1. UNCHANGED <<qty, box>>
  BY DEF ShowCart, LeaveCart, LeaveDetails, HeartDone, ClosePlaced, OpenDetails
<1>2. \/ screen' = screen /\ priced' = priced
      \/ priced' = Live
      \/ screen' # "cart"
  BY DEF ShowCart, getCart, LeaveCart, LeaveDetails, HeartDone,
     ClosePlaced, OpenDetails
<1>3. QED
  BY <1>1, <1>2, RowsStay

LEMMA RowsHive == ASSUME Basket, RowsInv, Above', Hive PROVE RowsInv'
<1>1. CASE WriteDone
  <2>1. UNCHANGED <<qty, box, screen>> /\ priced' \in {priced, Live}
    BY <1>1 DEF WriteDone, Callback, checkCart, getCart
  <2>2. QED
    BY <2>1, RowsStay
<1>2. CASE ClearDone
  BY <1>2 DEF ClearDone, RowsInv
<1>3. QED
  BY <1>1, <1>2 DEF Hive

\* Details pages lie above HOME only, whatever the checkout does.
LEMMA AboveSteps == TypeInv /\ RowsInv /\ [Next]_vars => Above'
<1> SUFFICES ASSUME TypeInv, RowsInv, [Next]_vars PROVE Above'
  OBVIOUS
<1> USE DEF TypeInv
<1>0. PagesOK /\ Above
  BY DEF Basket, RowsInv
<1>1. CASE Moving \/ PressCheckout \/ (\E v \in walletAns : WalletAnswered(v))
           \/ \E b \in Attempt : \/ Pay(b) \/ ExecAnswered(b) \/ DebitAnswered(b)
                                 \/ PostAnswered(b)
  <2>1. UNCHANGED <<screen, pages>>
    BY <1>1 DEF Moving, PressCheckout, WalletAnswered, Pay, PayByWallet, PayByPaypal,
       ExecAnswered, DebitAnswered, PostAnswered, cartVars
  <2>2. QED
    BY <1>0, <2>1 DEF Above
<1>2. CASE OpenProfile
  <2>1. UserStep \/ UNCHANGED <<screen, pages>>
    BY <1>2 DEF OpenProfile, UserStep, cartVars
  <2>2. QED
    BY <1>0, <2>1, AboveNext DEF CartNext, Above
<1>3. CASE Browse
  BY <1>0, <1>3, AboveNext DEF Browse, CartNext
<1>4. CASE Restart
  BY <1>0, <1>4, AboveNext DEF Restart, CartNext
<1>5. CASE Hive
  <2>1. WriteDone \/ UNCHANGED <<screen, pages>>
    BY <1>5 DEF Hive, ClearDone
  <2>2. QED
    BY <1>0, <2>1, AboveNext DEF CartNext, Above
<1>6. CASE ClosePlaced
  BY <1>6 DEF ClosePlaced, Above
<1>7. QED
  BY <1>1, <1>2, <1>3, <1>4, <1>5, <1>6, Steps

LEMMA RowsNext == TypeInv /\ RowsInv /\ [Next]_vars => RowsInv'
<1> SUFFICES ASSUME TypeInv, RowsInv, [Next]_vars PROVE RowsInv'
  OBVIOUS
<1> USE DEF TypeInv
<1>0. Above'
  BY AboveSteps
<1>1. CASE Moving \/ PressCheckout \/ (\E v \in walletAns : WalletAnswered(v))
           \/ \E b \in Attempt : \/ Pay(b) \/ ExecAnswered(b) \/ DebitAnswered(b)
                                 \/ PostAnswered(b)
  <2>1. UNCHANGED <<qty, box, screen, priced>>
    BY <1>1 DEF Moving, PressCheckout, WalletAnswered, Pay, PayByWallet, PayByPaypal,
       ExecAnswered, DebitAnswered, PostAnswered, cartVars
  <2>2. QED
    BY <1>0, <2>1, RowsStay
<1>2. CASE OpenProfile
  <2>1. LeaveCart \/ UNCHANGED <<qty, box, screen, priced>>
    BY <1>2 DEF OpenProfile, cartVars
  <2>2. QED
    BY <1>0, <2>1, RowsLook, RowsStay
<1>3. CASE Browse
  BY <1>0, <1>3, RowsLook, RowsTap DEF Browse, UserStep, OpenCart, GoToCart
<1>4. CASE Restart
  BY <1>0, <1>4 DEF Restart, CartRestart, RowsInv
<1>5. QED
  BY <1>0, <1>1, <1>2, <1>3, <1>4, RowsLook, RowsHive, Steps

\* Every object in the box was ordered by a in that quantity, or touched
\* since a began.
Accounted(a) == \A i \in box : lines[a][i] = qty[i] \/ i \in late[a]

Cleared(q) == \E k \in 1..Len(q) : q[k].op = "clear"

\* A bill and an attempt list every object of the box that was not touched
\* since, and a clear is pending only for an order that covers the box.
CoverInv ==
    /\ routes # <<>> => box \subseteq bill.list
    /\ \A a \in Attempt : /\ phase[a] \in Before => box \subseteq job[a].list \cup late[a]
                          /\ phase[a] \in Posted => Accounted(a)
    /\ Cleared(queue) => \E a \in Attempt : phase[a] \in Ordered /\ Accounted(a)

\* The box does not grow, and no attempt enters or leaves the phases.
LEMMA CoverStays ==
    ASSUME CoverInv, UNCHANGED <<qty, bill, job, lines, late>>, box' \subseteq box,
           routes' # <<>> => routes # <<>>, Cleared(queue)' => Cleared(queue),
           \A a \in Attempt : /\ phase'[a] \in Before => phase[a] \in Before
                              /\ phase'[a] \in Posted => phase[a] \in Posted
                              /\ phase[a] \in Ordered => phase'[a] \in Ordered
    PROVE  CoverInv'
<1>1. \A a \in Attempt : Accounted(a) => Accounted(a)'
  BY DEF Accounted
<1>2. Cleared(queue') => \E a \in Attempt : phase'[a] \in Ordered /\ Accounted(a)'
  BY <1>1 DEF CoverInv, Cleared
<1>3. QED
  BY <1>1, <1>2 DEF CoverInv

LEMMA PressCheckoutCovers ==
    ASSUME RowsInv, CoverInv, PressCheckout
    PROVE  CoverInv'
<1>1. UNCHANGED <<qty, box, queue, job, lines, late, phase>>
  BY DEF PressCheckout, cartVars, jobVars
<1>2. box \subseteq Rows /\ bill'.list = Rows
  BY DEF PressCheckout, RowsInv
<1>3. QED
  BY <1>1, <1>2 DEF CoverInv, Accounted, Cleared

\* A tap in the tabs sends no clear.
LEMMA UserClears ==
    ASSUME Basket, UserStep
    PROVE  Cleared(queue') => Cleared(queue)
<1>1. CASE queue' = queue
  BY <1>1
<1>2. ASSUME NEW n \in Int, queue' = Orphaned(n, queue)
      PROVE  Cleared(queue') => Cleared(queue)
  <2>1. queue \in Seq(Write) /\ Len(queue') = Len(queue)
    BY <1>2, OrphanedType DEF Basket
  <2>2. \A k \in 1..Len(queue) : queue'[k].op = queue[k].op
    BY <1>2, <2>1, OrphanedWrite
  <2>3. QED
    BY <2>1, <2>2 DEF Cleared
<1>3. ASSUME NEW w \in Write, w.op # "clear", queue' = Append(queue, w)
      PROVE  Cleared(queue') => Cleared(queue)
  <2>1. /\ Len(queue) \in Nat /\ Len(queue') = Len(queue) + 1
        /\ \A k \in 1..Len(queue) : queue'[k] = queue[k]
        /\ queue'[Len(queue) + 1] = w
    BY <1>3, AppendProperties DEF Basket
  <2>2. \A k \in 1..Len(queue') : k \in 1..Len(queue) \/ k = Len(queue) + 1
    BY <2>1
  <2>3. QED
    BY <1>3, <2>1, <2>2 DEF Cleared
<1>4. \/ queue' = queue
      \/ \E n \in Int : queue' = Orphaned(n, queue)
      \/ \E i \in Item, n \in 0..MaxQty, o \in {"add", "put", "delete"}, b \in Gone..MaxPages :
             queue' = Append(queue, [op |-> o, item |-> i, qty |-> n, by |-> b])
  <2>1. /\ 0 \in 0..MaxQty /\ 1 \in 0..MaxQty
        /\ Len(pages) \in Gone..MaxPages /\ Len(pages) \in Int
    BY Bounds DEF Basket, PagesOK, Gone
  <2>2. ASSUME NEW i \in Item, Plus(i) \/ Minus(i)
        PROVE  \E n \in 0..MaxQty : SetQuantity(i, n)
    BY <2>2, StepBounds DEF Plus, Minus, Basket
  <2>3. ASSUME NEW i \in Item, AddToCart(i) \/ Plus(i) \/ Minus(i) \/ DeleteRow(i)
        PROVE  \/ queue' = queue
               \/ \E n \in 0..MaxQty, o \in {"add", "put", "delete"}, b \in Gone..MaxPages :
                   queue' = Append(queue, [op |-> o, item |-> i, qty |-> n, by |-> b])
    <3>1. CASE AddToCart(i)
      BY <2>1, <3>1 DEF AddToCart
    <3>2. CASE Plus(i) \/ Minus(i)
      BY <2>2, <3>2, Bounds DEF SetQuantity
    <3>3. CASE DeleteRow(i)
      BY <2>1, <3>3, Bounds DEF DeleteRow
    <3>4. QED
      BY <2>3, <3>1, <3>2, <3>3
  <2>4. QED
    BY <2>1, <2>3, TabIsANumber
       DEF UserStep, OpenCart, LeaveCart, LeaveDetails, GoToCart, HeartDone,
       OpenDetails, ShowCart
<1>5. QED
  <2>1. ASSUME NEW i \in Item, NEW n \in 0..MaxQty, NEW o \in {"add", "put", "delete"},
               NEW b \in Gone..MaxPages
        PROVE  /\ [op |-> o, item |-> i, qty |-> n, by |-> b] \in Write
               /\ [op |-> o, item |-> i, qty |-> n, by |-> b].op # "clear"
    BY WriteType
  <2>2. QED
    BY <1>1, <1>2, <1>3, <1>4, <2>1

\* What the user touches while an attempt runs is late.
LEMMA BrowseCovers ==
    ASSUME TypeInv, CoverInv, Browse
    PROVE  CoverInv'
<1>1. UNCHANGED <<routes, bill, job, lines, phase>> /\ routes = <<>>
  BY DEF Browse, appVars, jobVars
<1>2. Cleared(queue') => Cleared(queue)
  BY UserClears DEF Browse, TypeInv
<1>3. box' \subseteq Item
  BY BasketNext DEF TypeInv, Next, Basket
<1>4. ASSUME NEW a \in Attempt, phase[a] \notin {"idle", "dead"}, NEW i \in box'
      PROVE  i \in late'[a] \/ (i \in box /\ qty'[i] = qty[i] /\ (i \in late[a] <=> i \in late'[a]))
  <2>1. late'[a] = late[a] \cup {j \in Item : \/ qty'[j] # qty[j]
                                              \/ (j \in box') # (j \in box)}
    BY <1>4 DEF Browse
  <2>2. QED
    BY <1>3, <1>4, <2>1
<1>5. ASSUME NEW a \in Attempt, phase[a] \in Before
      PROVE  box' \subseteq job[a].list \cup late'[a]
  BY <1>4, <1>5 DEF CoverInv, Before
<1>6. ASSUME NEW a \in Attempt, phase[a] \in Posted \cup Ordered, Accounted(a)
      PROVE  Accounted(a)'
  <2>1. phase[a] \notin {"idle", "dead"}
    BY <1>6 DEF Posted, Ordered
  <2>2. QED
    BY <1>1, <1>4, <1>6, <2>1 DEF Accounted
<1>7. QED
  BY <1>1, <1>2, <1>5, <1>6 DEF CoverInv

\* An attempt that has ordered stays so.
LEMMA OrderedStay ==
    ASSUME FundInv, NEW b \in Attempt, Pay(b) \/ ExecAnswered(b) \/ DebitAnswered(b)
                                       \/ PostAnswered(b)
    PROVE  \A a \in Attempt : phase[a] \in Ordered => phase'[a] \in Ordered
<1>1. PICK q \in Phase :
          LET ph == [phase EXCEPT ![b] = q] IN phase' = ph \/ LatePop(b, ph)
  BY DEF Pay, PayByWallet, PayByPaypal, ExecAnswered, DebitAnswered, PostAnswered, Phase
<1>2. phase[b] \notin Ordered
  BY DEF Pay, PayByWallet, PayByPaypal, CanPay, ExecAnswered, DebitAnswered,
     PostAnswered, Ordered
<1> DEFINE ph == [phase EXCEPT ![b] = q]
<1>3. ph \in [Attempt -> Phase]
  BY DEF FundInv
<1>4. \A a \in Attempt : \/ phase'[a] = ph[a]
                         \/ phase'[a] = "dead" /\ ph[a] \in {"create", "approve"}
  <2>1. phase' = ph \/ LatePop(b, ph)
    BY <1>1
  <2> HIDE DEF ph
  <2>2. QED
    BY <1>3, <2>1, PopEnds
<1>5. QED
  BY <1>2, <1>4 DEF FundInv, Ordered

LEMMA PayCovers ==
    ASSUME TypeInv, CoverInv, NEW b \in Attempt, Pay(b)
    PROVE  CoverInv'
<1> USE DEF TypeInv
<1>1. /\ UNCHANGED <<qty, box, queue, bill, lines, late>>
      /\ job' = [job EXCEPT ![b] = bill]
      /\ routes # <<>>
      /\ phase'[b] \in {"debit", "create"}
  BY DEF Pay, PayByWallet, PayByPaypal, CanPay, Top, cartVars, FundInv
<1>2. job'[b] = bill /\ \A a \in Attempt \ {b} : job'[a] = job[a]
  BY <1>1 DEF AmountsInv
<1>3. \A a \in Attempt \ {b} : phase'[a] \in {phase[a], "dead"}
  BY OthersEnd
<1>4. \A a \in Attempt : Accounted(a)' <=> Accounted(a)
  BY <1>1 DEF Accounted
<1>5. ASSUME NEW a \in Attempt
      PROVE  /\ phase'[a] \in Before => box' \subseteq job'[a].list \cup late'[a]
             /\ phase'[a] \in Posted => Accounted(a)
  <2>1. CASE a = b
    BY <1>1, <1>2, <2>1 DEF CoverInv, Posted
  <2>2. CASE a # b
    <3>1. /\ phase'[a] \in Before => phase[a] \in Before
          /\ phase'[a] \in Posted => phase[a] \in Posted
      BY <1>3, <2>2 DEF Before, Posted
    <3>2. QED
      BY <1>1, <1>2, <2>2, <3>1 DEF CoverInv
  <2>3. QED
    BY <2>1, <2>2
<1>6. QED
  BY <1>1, <1>4, <1>5, OrderedStay DEF CoverInv, Cleared

\* An accepted order appends the clear, and is itself the order that covers
\* the box.
LEMMA AnsweredClears ==
    ASSUME TypeInv, CoverInv, NEW b \in Attempt,
           ExecAnswered(b) \/ DebitAnswered(b) \/ PostAnswered(b), Cleared(queue')
    PROVE  \/ Cleared(queue)
           \/ phase'[b] \in Ordered /\ Accounted(b) /\ lines' = lines
<1>1. CASE PostAnswered(b)
  BY <1>1 DEF PostAnswered, TypeInv, FundInv, CoverInv, Posted, Ordered, jobVars
<1>2. CASE ExecAnswered(b) \/ DebitAnswered(b)
  BY <1>2 DEF ExecAnswered, DebitAnswered, cartVars
<1>3. QED
  BY <1>1, <1>2

LEMMA AnsweredCovers ==
    ASSUME TypeInv, CoverInv, NEW b \in Attempt,
           ExecAnswered(b) \/ DebitAnswered(b) \/ PostAnswered(b)
    PROVE  CoverInv'
<1>1. UNCHANGED <<qty, box, bill, job, late>> /\ box \subseteq Item
  BY DEF ExecAnswered, DebitAnswered, PostAnswered, cartVars, jobVars, TypeInv, Basket
<1>2. routes' # <<>> => routes # <<>>
  BY AnsweredRoutes
<1>3. ASSUME NEW a \in Attempt, a # b
      PROVE  /\ phase'[a] \in {phase[a], "dead"} /\ lines'[a] = lines[a]
             /\ Accounted(a)' <=> Accounted(a)
  <2>1. phase'[a] \in {phase[a], "dead"}
    BY <1>3, OthersEnd DEF TypeInv
  <2>2. lines' = lines \/ Posting(b)
    BY Outcomes
  <2>3. lines'[a] = lines[a]
    BY <1>3, <2>2, PostingSold
  <2>4. QED
    BY <1>1, <2>1, <2>3 DEF Accounted
<1>4. ASSUME phase[b] \in Before, Posting(b) PROVE Accounted(b)'
  <2>1. box \subseteq job[b].list \cup late[b]
    BY <1>4 DEF CoverInv
  <2>2. \A i \in box : i \in job[b].list => lines'[b][i] = qty[i]
    BY <1>1, <1>4, PostingSold DEF Sold
  <2>3. QED
    BY <1>1, <2>1, <2>2 DEF Accounted
<1>5. ASSUME NEW a \in Attempt
      PROVE  /\ phase'[a] \in Before => box \subseteq job[a].list \cup late[a]
             /\ phase'[a] \in Posted => Accounted(a)'
  <2>1. CASE a = b
    BY <1>4, <2>1, Outcomes DEF CoverInv, Before, Posted
  <2>2. CASE a # b
    <3>1. /\ phase'[a] \in Before => phase[a] \in Before
          /\ phase'[a] \in Posted => phase[a] \in Posted
      BY <1>3, <2>2 DEF Before, Posted
    <3>2. QED
      BY <1>3, <2>2, <3>1 DEF CoverInv
  <2>3. QED
    BY <2>1, <2>2
<1>6. ASSUME Cleared(queue')
      PROVE  \E a \in Attempt : phase'[a] \in Ordered /\ Accounted(a)'
  <2>1. CASE phase'[b] \in Ordered /\ Accounted(b) /\ lines' = lines
    <3>1. Accounted(b)'
      BY <1>1, <2>1 DEF Accounted
    <3>2. QED
      BY <2>1, <3>1
  <2>2. CASE Cleared(queue)
    <3>1. PICK a \in Attempt : phase[a] \in Ordered /\ Accounted(a)
      BY <2>2 DEF CoverInv
    <3>2. a # b
      BY <3>1 DEF ExecAnswered, DebitAnswered, PostAnswered, Ordered
    <3>3. phase'[a] \in Ordered
      BY <3>1, OrderedStay DEF TypeInv
    <3>4. QED
      BY <1>3, <3>1, <3>2, <3>3
  <2>3. QED
    BY <1>6, <2>1, <2>2, AnsweredClears
<1>7. QED
  BY <1>1, <1>2, <1>5, <1>6 DEF CoverInv

LEMMA HiveCovers ==
    ASSUME TypeInv, CoverInv, Hive
    PROVE  CoverInv'
<1>1. UNCHANGED <<qty, bill, job, lines, late, routes, phase>>
  BY DEF Hive, WriteDone, ClearDone, payVars, appVars, jobVars
<1>2. box' \subseteq box
  BY DEF Hive, WriteDone, ClearDone
<1>3. Cleared(queue') => Cleared(queue)
  <2>1. queue \in Seq(Write) /\ queue # <<>> /\ queue' = Tail(queue)
    BY DEF Hive, WriteDone, ClearDone, TypeInv, Basket
  <2>2. /\ Len(queue') = Len(queue) - 1 /\ Len(queue) \in Nat
        /\ \A k \in 1..Len(queue') : queue'[k] = queue[k + 1]
    BY <2>1, HeadTail
  <2>3. \A k \in 1..Len(queue') : k + 1 \in 1..Len(queue)
    BY <2>2
  <2>4. QED
    BY <2>2, <2>3 DEF Cleared
<1>4. QED
  BY <1>1, <1>2, <1>3, CoverStays

LEMMA CoverNext == TypeInv /\ RowsInv /\ CoverInv /\ [Next]_vars => CoverInv'
<1> SUFFICES ASSUME TypeInv, RowsInv, CoverInv, [Next]_vars PROVE CoverInv'
  OBVIOUS
<1> USE DEF TypeInv
<1>1. CASE Moving
  <2>1. UNCHANGED <<qty, box, queue, bill, job, lines, late>>
        /\ (routes' # <<>> => routes # <<>>)
    BY <1>1 DEF Moving, cartVars, jobVars
  <2>2. \A a \in Attempt : phase[a] \in Ordered => phase'[a] \in Ordered
    BY <1>1 DEF Moving, MovesOn, Onward, Ordered
  <2>3. Cleared(queue)' => Cleared(queue)
    BY <2>1 DEF Cleared
  <2>4. QED
    BY <1>1, <2>1, <2>2, <2>3, MovingPhases, CoverStays
<1>2. CASE \E v \in walletAns : WalletAnswered(v)
  <2>1. UNCHANGED <<qty, box, queue, bill, job, lines, late, routes, phase>>
    BY <1>2 DEF WalletAnswered, appVars, jobVars, cartVars
  <2>2. Cleared(queue)' => Cleared(queue)
    BY <2>1 DEF Cleared
  <2>3. QED
    BY <2>1, <2>2, CoverStays
<1>3. CASE OpenProfile
  <2>1. UNCHANGED <<qty, box, bill, job, lines, late, routes, phase>>
    BY <1>3 DEF OpenProfile, LeaveCart, appVars, jobVars, cartVars
  <2>2. Cleared(queue') => Cleared(queue)
    BY <1>3, UserClears DEF OpenProfile, UserStep, cartVars
  <2>3. QED
    BY <2>1, <2>2, CoverStays
<1>4. CASE ClosePlaced
  <2>1. /\ UNCHANGED <<qty, box, bill, job, lines, late>>
        /\ queue' = Orphaned(Tab, queue) /\ Tab \in Int
        /\ \E n \in Nat : Pop(n, phase)
    BY <1>4, TabIsANumber DEF ClosePlaced, jobVars, RoutesInv
  <2>2. \A a \in Attempt : \/ phase'[a] = phase[a]
                           \/ phase'[a] = "dead" /\ phase[a] \in {"create", "approve"}
    BY <2>1, PopEnds DEF FundInv
  <2>3. \A a \in Attempt : /\ phase'[a] \in Before => phase[a] \in Before
                           /\ phase'[a] \in Posted => phase[a] \in Posted
                           /\ phase[a] \in Ordered => phase'[a] \in Ordered
    BY <2>2 DEF Before, Posted, Ordered
  <2>4. queue \in Seq(Write) /\ Len(queue') = Len(queue)
    BY <2>1, OrphanedType DEF Basket
  <2>5. \A k \in 1..Len(queue) : queue'[k].op = queue[k].op
    BY <2>1, <2>4, OrphanedWrite
  <2>6. Cleared(queue)' => Cleared(queue)
    BY <2>4, <2>5 DEF Cleared
  <2>7. QED
    BY <2>1, <2>3, <2>6, PopRoutes, CoverStays
<1>5. CASE Restart
  <2>1. routes' = <<>> /\ \A a \in Attempt : phase'[a] \notin Before \cup Posted
    BY <1>5 DEF Restart, Waiting, Before, Posted
  <2>2. ~Cleared(queue')
    <3>1. queue' = <<>> /\ Len(<<>>) = 0
      BY <1>5 DEF Restart, CartRestart
    <3>2. QED
      BY <3>1 DEF Cleared
  <2>3. QED
    BY <2>1, <2>2 DEF CoverInv
<1>6. QED
  BY <1>1, <1>2, <1>3, <1>4, <1>5, PressCheckoutCovers, BrowseCovers, PayCovers,
     AnsweredCovers, HiveCovers, Steps

\* A clear that reaches the box finds an order that covers it.
LEMMA ClearFinds ==
    ASSUME TypeInv, CoverInv, ClearDone
    PROVE  \A i \in box : \E a \in Attempt :
              /\ phase[a] \in {"done", "unseen"}
              /\ lines[a][i] = qty[i] \/ i \in late[a]
<1>1. queue \in Seq(Write) /\ queue # <<>> /\ Head(queue).op = "clear"
  BY DEF ClearDone, TypeInv, Basket
<1>2. 1 \in 1..Len(queue) /\ queue[1].op = "clear"
  BY <1>1, HeadTail
<1>3. PICK a \in Attempt : phase[a] \in Ordered /\ Accounted(a)
  BY <1>2 DEF CoverInv, Cleared
<1>4. QED
  BY <1>3 DEF Ordered, Accounted

\* Clearing the cart after an order removes only what an accepted order
\* bought in that quantity, or what the user touched while the order ran.
THEOREM ClearsTheOrdered == Spec => ClearedWasOrdered
<1> DEFINE I == TypeInv /\ RowsInv /\ CoverInv
<1>1. Init => I
  <2>1. Init => RowsInv
    BY DEF Init, CartInit, RowsInv, Above
  <2>2. Init => CoverInv
    <3>1. ASSUME Init PROVE CoverInv
      <4>1. queue = <<>> /\ Len(<<>>) = 0
        BY <3>1 DEF Init, CartInit
      <4>2. QED
        BY <3>1, <4>1 DEF Init, CartInit, PayInit, CoverInv, Before, Posted, Cleared
    <3>2. QED
      BY <3>1
  <2>3. QED
    BY <2>1, <2>2, TypeInvInit
<1>2. I /\ [Next]_vars => I'
  BY TypeInvNext, RowsNext, CoverNext
<1>3. I /\ [Next]_vars => [ClearDone => \A i \in box : \E a \in Attempt :
            /\ phase[a] \in {"done", "unseen"}
            /\ lines[a][i] = qty[i] \/ i \in late[a]]_vars
  BY ClearFinds
<1> HIDE DEF I
<1>4. QED
  BY <1>1, <1>2, <1>3, PTL DEF Spec, ClearedWasOrdered
=============================================================================
