--------------------------- MODULE PayingProofs ---------------------------
(***************************************************************************)
(* Theorems about Purchases and Currency for every set of orders, of       *)
(* currencies, tables of rates and sums, and every bound: whose details    *)
(* are shown, that no refund is asked for twice, what the buttons show,    *)
(* and what PayPal is asked for.                                           *)
(***************************************************************************)
EXTENDS MCPaying, FiniteSetTheorems, TLAPS

USE DEF P!pageVars, P!history, P!vars

-----------------------------------------------------------------------------
(***************************************************************************)
(* The pages of orders                                                     *)
(***************************************************************************)

\* What a refund request looks like after a pop, or after its transition, is a
\* request for the same order, from the same button, that is as far (Moved).
LEMMA MovedKeeps ==
    ASSUME NEW a \in {"page", "leaving", "gone"},
           NEW b \in {"page", "leaving", "gone"},
           NEW rs \in SUBSET P!Refund
    PROVE  /\ P!Moved(a, b, rs) \in SUBSET P!Refund
           /\ \A r \in P!Moved(a, b, rs) : \E s \in rs :
                /\ r.of = s.of /\ r.from = s.from /\ r.at = s.at
                /\ r = IF s.by = a THEN [s EXCEPT !.by = b] ELSE s
           /\ \A s \in rs : \E r \in P!Moved(a, b, rs) :
                r.of = s.of /\ r.from = s.from /\ r.at = s.at
<1> DEFINE M(s) == IF s.by = a THEN [s EXCEPT !.by = b] ELSE s
<1>1. ASSUME NEW s \in rs
      PROVE  /\ M(s) \in P!Refund
             /\ M(s).of = s.of /\ M(s).from = s.from /\ M(s).at = s.at
  BY DEF P!Refund, P!Button
<1>2. P!Moved(a, b, rs) = {M(s) : s \in rs}
  BY DEF P!Moved
<1> HIDE DEF M
<1>3. \A r \in P!Moved(a, b, rs) : \E s \in rs : r = M(s)
  BY <1>2
<1>4. \A s \in rs : M(s) \in P!Moved(a, b, rs)
  BY <1>2
<1>5. /\ P!Moved(a, b, rs) \in SUBSET P!Refund
      /\ \A r \in P!Moved(a, b, rs) : \E s \in rs :
           r.of = s.of /\ r.from = s.from /\ r.at = s.at /\ r = M(s)
      /\ \A s \in rs : \E r \in P!Moved(a, b, rs) :
           r.of = s.of /\ r.from = s.from /\ r.at = s.at
  BY <1>1, <1>3, <1>4
<1> QED
  BY <1>5 DEF M

\* A pop leaves a page below, and the requests as they are but for their pages.
LEMMA PopKeeps ==
    ASSUME P!PurchasesTypeOK, NEW rs \in SUBSET refunds, P!Pop(rs)
    PROVE  /\ orderRoute' \in {"list", "away", "blank"}
           /\ page' = None /\ open' = FALSE /\ strays' = {} /\ fresh' = FALSE
           /\ refunds' \in SUBSET P!Refund
           /\ \A r \in refunds' : \E s \in rs :
                r.of = s.of /\ r.from = s.from /\ r.at = s.at
<1>1. rs \in SUBSET P!Refund
  BY DEF P!PurchasesTypeOK
<1>2. /\ orderRoute' \in {"list", "away", "blank"}
      /\ page' = None /\ open' = FALSE /\ strays' = {} /\ fresh' = FALSE
  BY DEF P!Pop, P!Under, P!PurchasesTypeOK
<1>3. refunds' = rs \/ refunds' = P!Moved("page", "leaving", rs)
  BY DEF P!Pop
<1> QED
  BY <1>1, <1>2, <1>3, MovedKeeps

-----------------------------------------------------------------------------
\* Details are records of an order and a Boolean.
LEMMA DetailsAre ==
    ASSUME NEW o \in Order, NEW b \in BOOLEAN
    PROVE  [of |-> o, refund |-> b] \in P!Details
  BY DEF P!Details

\* The types are not inductive: a refund request is for the order on screen,
\* which is one whenever a page of an order is there.
OrdersInv ==
    /\ P!PurchasesTypeOK
    /\ orderRoute = "order" => page \in Order

\* Init has them.
LEMMA OrdersStart ==
    ASSUME P!PurchasesAssumption, P!Init
    PROVE  OrdersInv
  BY DEF OrdersInv, P!Init, P!PurchasesTypeOK, P!PurchasesAssumption, P!Button, P!Details,
         P!Refund

\* Every step keeps them.
LEMMA OrdersTyped ==
    ASSUME P!PurchasesAssumption, OrdersInv, [P!Next]_(P!vars)
    PROVE  OrdersInv'
<1> USE DEF OrdersInv, P!PurchasesTypeOK, P!Details
<1>1. CASE P!OpenList \/ P!LeaveList \/ P!Restart
  BY <1>1 DEF P!OpenList, P!LeaveList, P!Restart
<1>2. ASSUME NEW rs \in SUBSET refunds, P!Pop(rs), loads' \subseteq P!Button,
             reset' \in BOOLEAN, lost' \subseteq P!Button,
             UNCHANGED <<details, load, asks, requested, told>>
      PROVE  OrdersInv'
  <2>1. /\ orderRoute' \in {"list", "away", "blank"}
        /\ page' = None /\ open' = FALSE /\ strays' = {} /\ fresh' = FALSE
        /\ refunds' \in SUBSET P!Refund
    BY <1>2, PopKeeps
  <2> QED
    BY <1>2, <2>1
<1>3. CASE P!TransitionEnds
  BY <1>3, MovedKeeps DEF P!TransitionEnds
<1>4. ASSUME NEW o \in Order, NEW live \in BOOLEAN, P!TapOrder(o, live)
      PROVE  OrdersInv'
  <2>1. [of |-> o, refund |-> o \in requested] \in P!Details
    BY DetailsAre
  <2>2. /\ asks' = asks \cup {[of |-> o, refund |-> o \in requested]}
        /\ strays' = {s.of : s \in asks} /\ fresh' = (asks = {} /\ o \in told)
    BY <1>4 DEF P!TapOrder, P!getOrderDetails
  <2>3. asks' \subseteq P!Details /\ strays' \subseteq Order /\ fresh' \in BOOLEAN
    BY <2>1, <2>2
  <2>4. /\ orderRoute' = "order" /\ page' = o /\ open' = live /\ load' = TRUE
        /\ UNCHANGED <<details, loads, refunds, requested, told, reset, lost>>
    BY <1>4 DEF P!TapOrder
  <2> QED
    BY <2>3, <2>4
<1>5. ASSUME NEW r \in asks, P!DetailsFail(r)
      PROVE  OrdersInv'
  BY <1>5 DEF P!DetailsFail
<1>6. ASSUME NEW r \in asks, NEW b \in {r.refund, r.of \in requested},
             P!DetailsAnswered(r, b)
      PROVE  OrdersInv'
  <2>1. r.of \in Order /\ r.refund \in BOOLEAN
    OBVIOUS
  <2>2. b \in {r.refund, r.of \in requested}
    OBVIOUS
  <2> HIDE DEF OrdersInv, P!PurchasesTypeOK, P!Details
  <2>3. b \in BOOLEAN
    <3> DEFINE p == r.refund
               q == r.of \in requested
    <3>1. q \in BOOLEAN /\ p \in BOOLEAN /\ b \in {p, q}
      BY <2>1, <2>2
    <3> HIDE DEF p, q
    <3> QED
      BY ONLY <3>1
  <2>4. [of |-> r.of, refund |-> b] \in P!Details
    BY ONLY <2>1, <2>3, DetailsAre
  <2>5. [of |-> r.of, refund |-> b] # None
    BY <2>4 DEF P!PurchasesAssumption, P!Details
  <2>6. details' \in P!Details /\ details' # None /\ load' = FALSE
    BY <1>6, <2>4, <2>5 DEF P!DetailsAnswered
  <2>7. /\ asks' \subseteq asks
        /\ UNCHANGED <<P!pageVars, loads, refunds, requested, P!history>>
    BY <1>6 DEF P!DetailsAnswered
  <2> QED
    BY <2>6, <2>7 DEF OrdersInv, P!PurchasesTypeOK
<1>7. ASSUME NEW b \in P!Button, P!PressRefund(b)
      PROVE  OrdersInv'
  <2>1. [of |-> page, from |-> b, at |-> "sent", by |-> "page"] \in P!Refund
    BY <1>7 DEF P!PressRefund, P!Refund
  <2> QED
    BY <1>7, <2>1 DEF P!PressRefund
<1>8. ASSUME NEW r \in refunds, P!RefundStored(r)
      PROVE  OrdersInv'
  BY <1>8 DEF P!RefundStored, P!Refund
<1>9. ASSUME NEW r \in refunds, P!RefundAnswered(r)
      PROVE  OrdersInv'
  BY <1>9 DEF P!RefundAnswered, P!Refund
<1>10. ASSUME NEW r \in refunds, P!RefundRefused(r)
       PROVE  OrdersInv'
  BY <1>10 DEF P!RefundRefused, P!ResetFor
<1>11. ASSUME NEW r \in refunds, P!OrdersRead(r)
       PROVE  OrdersInv'
  <2>1. CASE r.by = "gone"
    BY <1>11, <2>1 DEF P!OrdersRead, P!Refund
  <2>2. CASE r.by # "gone"
    <3>1. refunds \ {r} \in SUBSET refunds /\ P!Pop(refunds \ {r})
      BY <1>11, <2>2 DEF P!OrdersRead
    <3>2. /\ loads' = {} /\ lost' = {} /\ reset' \in BOOLEAN
          /\ UNCHANGED <<details, load, asks, requested, told>>
      BY <1>11, <2>2 DEF P!OrdersRead, P!ResetFor
    <3> QED
      BY <1>2, <3>1, <3>2
  <2> QED
    BY <2>1, <2>2
<1>12. ASSUME NEW r \in refunds, P!RefundThrows(r)
       PROVE  OrdersInv'
  BY <1>12 DEF P!RefundThrows, P!Refund
<1>13. CASE UNCHANGED P!vars
  BY <1>13
<1> QED
  BY <1>1, <1>2, <1>3, <1>4, <1>5, <1>6, <1>7, <1>8, <1>9, <1>10, <1>11, <1>12,
     <1>13 DEF P!Next, P!RefundEnds, P!LeaveOrder

-----------------------------------------------------------------------------
\* DetailsOfOrder is not inductive: the answer to come must be of the order on
\* screen too, or one of the strays.
DetailsInv ==
    /\ orderRoute = "order" =>
         \A r \in asks : r.of \in {page} \cup strays
    /\ DetailsOfOrder

LEMMA DetailsKept ==
    ASSUME P!PurchasesTypeOK, DetailsInv, [P!Next]_(P!vars)
    PROVE  DetailsInv'
<1> USE DEF DetailsInv, DetailsOfOrder, P!DetailsOfOrder
<1>1. CASE P!OpenList \/ P!LeaveList \/ P!Restart \/ P!TransitionEnds
  BY <1>1 DEF P!OpenList, P!LeaveList, P!Restart, P!TransitionEnds
<1>2. ASSUME NEW rs \in SUBSET refunds, P!Pop(rs)
      PROVE  DetailsInv'
  BY <1>2, PopKeeps
<1>3. ASSUME NEW o \in Order, NEW live \in BOOLEAN, P!TapOrder(o, live)
      PROVE  DetailsInv'
  BY <1>3 DEF P!TapOrder, P!getOrderDetails
<1>4. ASSUME NEW r \in asks, P!DetailsFail(r)
      PROVE  DetailsInv'
  BY <1>4 DEF P!DetailsFail
<1>5. ASSUME NEW r \in asks, NEW b, P!DetailsAnswered(r, b)
      PROVE  DetailsInv'
  BY <1>5 DEF P!DetailsAnswered
<1>6. ASSUME NEW b \in P!Button, P!PressRefund(b)
      PROVE  DetailsInv'
  BY <1>6 DEF P!PressRefund
<1>7. ASSUME NEW r \in refunds, P!RefundStored(r) \/ P!RefundEnds(r)
      PROVE  DetailsInv'
  BY <1>2, <1>7 DEF P!RefundStored, P!RefundEnds, P!RefundAnswered,
     P!RefundRefused, P!OrdersRead, P!RefundThrows
<1>8. CASE UNCHANGED P!vars
  BY <1>8
<1> QED
  BY <1>1, <1>2, <1>3, <1>4, <1>5, <1>6, <1>7, <1>8 DEF P!Next, P!LeaveOrder

-----------------------------------------------------------------------------
\* What the app was told, the server has; and on a page that was opened anew
\* every read, answered or not, began after the server had it.
KnownInv ==
    /\ told \subseteq requested
    /\ \A r \in refunds : r.at = "stored" => r.of \in requested
    /\ fresh => \A r \in asks : r.refund /\ r.of \in requested
    /\ fresh /\ ~load => details.refund

LEMMA KnownKept ==
    ASSUME P!PurchasesTypeOK, KnownInv, [P!Next]_(P!vars)
    PROVE  KnownInv'
<1> USE DEF KnownInv
<1>1. CASE P!OpenList \/ P!LeaveList \/ P!Restart
  BY <1>1 DEF P!OpenList, P!LeaveList, P!Restart
<1>2. CASE P!TransitionEnds
  BY <1>2, MovedKeeps DEF P!TransitionEnds, P!PurchasesTypeOK
<1>3. ASSUME NEW rs \in SUBSET refunds, P!Pop(rs),
             UNCHANGED <<details, load, asks, requested, told>>
      PROVE  KnownInv'
  <2>1. /\ fresh' = FALSE
        /\ \A r \in refunds' : \E s \in rs :
             r.of = s.of /\ r.from = s.from /\ r.at = s.at
    BY <1>3, PopKeeps
  <2> QED
    BY <1>3, <2>1
<1>4. ASSUME NEW o \in Order, NEW live \in BOOLEAN, P!TapOrder(o, live)
      PROVE  KnownInv'
  <2>1. /\ asks' = asks \cup {[of |-> o, refund |-> o \in requested]}
        /\ fresh' = (asks = {} /\ o \in told) /\ load' = TRUE
        /\ UNCHANGED <<refunds, requested, told>>
    BY <1>4 DEF P!TapOrder, P!getOrderDetails
  <2>2. ASSUME fresh'
        PROVE  \A r \in asks' : r.refund /\ r.of \in requested'
    <3>1. (o \in requested) = TRUE
      BY <2>1, <2>2
    <3>2. asks' = {[of |-> o, refund |-> TRUE]}
      BY <2>1, <2>2, <3>1
    <3> QED
      BY <2>1, <3>1, <3>2
  <2> QED
    BY <2>1, <2>2
<1>5. ASSUME NEW r \in asks, P!DetailsFail(r)
      PROVE  KnownInv'
  BY <1>5 DEF P!DetailsFail
<1>6. ASSUME NEW r \in asks, NEW b \in {r.refund, r.of \in requested},
             P!DetailsAnswered(r, b)
      PROVE  KnownInv'
  <2>1. fresh => b
    BY DEF P!PurchasesTypeOK, P!Details
  <2> QED
    BY <1>6, <2>1 DEF P!DetailsAnswered
<1>7. ASSUME NEW b \in P!Button, P!PressRefund(b)
      PROVE  KnownInv'
  BY <1>7 DEF P!PressRefund
<1>8. ASSUME NEW r \in refunds, P!RefundStored(r)
      PROVE  KnownInv'
  BY <1>8 DEF P!RefundStored, P!PurchasesTypeOK, P!Refund
<1>9. ASSUME NEW r \in refunds, P!RefundAnswered(r)
      PROVE  KnownInv'
  BY <1>9 DEF P!RefundAnswered, P!PurchasesTypeOK, P!Refund
<1>10. ASSUME NEW r \in refunds,
              P!RefundRefused(r) \/ P!OrdersRead(r) \/ P!RefundThrows(r)
       PROVE  KnownInv'
  BY <1>3, <1>10 DEF P!RefundRefused, P!OrdersRead, P!RefundThrows
<1>11. CASE UNCHANGED P!vars
  BY <1>11
<1> QED
  BY <1>1, <1>2, <1>3, <1>4, <1>5, <1>6, <1>7, <1>8, <1>9, <1>10, <1>11
     DEF P!Next, P!RefundEnds, P!LeaveOrder

\* The step itself: a button is pressed only where the details do not know.
LEMMA NoSecond ==
    ASSUME P!PurchasesTypeOK, KnownInv, [P!Next]_(P!vars)
    PROVE  orderRoute = "order" /\ fresh => loads' \subseteq loads
  BY DEF KnownInv, P!PurchasesTypeOK, P!Next, P!OpenList, P!LeaveList, P!LeaveOrder,
         P!TransitionEnds, P!Restart, P!TapOrder, P!DetailsFail,
         P!DetailsAnswered, P!PressRefund, P!RefundStored, P!RefundEnds,
         P!RefundAnswered, P!RefundRefused, P!OrdersRead, P!RefundThrows,
         P!ResetFor

-----------------------------------------------------------------------------
\* RefundButtons counts the requests of a button; as long as no flag was reset
\* for the request of another one, whoever has a request has its flag.
ButtonsInv ==
    /\ ~reset => \A r, s \in refunds : r.from = s.from => r = s
    /\ ~reset => \A r \in refunds : r.from \in loads
    /\ P!ButtonsFree

LEMMA ButtonsKept ==
    ASSUME P!PurchasesTypeOK, ButtonsInv, [P!Next]_(P!vars)
    PROVE  ButtonsInv'
<1> USE DEF ButtonsInv, P!ButtonsFree
<1>1. CASE P!OpenList \/ P!LeaveList \/ P!Restart
  BY <1>1 DEF P!OpenList, P!LeaveList, P!Restart, P!PurchasesTypeOK
<1>2. ASSUME NEW a \in {"page", "leaving"}, NEW b \in {"leaving", "gone"},
             refunds' = P!Moved(a, b, refunds), UNCHANGED <<loads, reset, lost>>
      PROVE  ButtonsInv'
  <2>1. /\ \A r \in refunds' : \E s \in refunds :
             /\ r.from = s.from
             /\ r = IF s.by = a THEN [s EXCEPT !.by = b] ELSE s
        /\ \A s \in refunds : \E r \in refunds' : r.from = s.from
    BY <1>2, MovedKeeps DEF P!PurchasesTypeOK
  <2> QED
    BY <1>2, <2>1
<1>3. CASE P!TransitionEnds \/ P!LeaveOrder
  <2>1. /\ \/ refunds' = refunds
           \/ refunds' = P!Moved("page", "leaving", refunds)
           \/ refunds' = P!Moved("leaving", "gone", refunds)
        /\ UNCHANGED <<loads, reset, lost>>
    BY <1>3 DEF P!TransitionEnds, P!LeaveOrder, P!Pop
  <2> QED
    BY <1>2, <2>1
<1>4. ASSUME NEW o \in Order, NEW live \in BOOLEAN, P!TapOrder(o, live)
      PROVE  ButtonsInv'
  BY <1>4 DEF P!TapOrder
<1>5. ASSUME NEW r \in asks, NEW b, P!DetailsFail(r) \/ P!DetailsAnswered(r, b)
      PROVE  ButtonsInv'
  BY <1>5 DEF P!DetailsFail, P!DetailsAnswered
<1>6. ASSUME NEW b \in P!Button, P!PressRefund(b)
      PROVE  ButtonsInv'
  BY <1>6 DEF P!PressRefund
<1>7. ASSUME NEW r \in refunds, P!RefundStored(r) \/ P!RefundAnswered(r)
      PROVE  ButtonsInv'
  <2>1. CASE P!RefundStored(r)
    <3>1. [r EXCEPT !.at = "stored"].from = r.from
      BY DEF P!PurchasesTypeOK, P!Refund
    <3> DEFINE q == [r EXCEPT !.at = "stored"]
    <3>2. q.from = r.from
      BY <3>1
    <3>3. refunds' = (refunds \ {r}) \cup {q} /\ UNCHANGED <<loads, reset, lost>>
      BY <2>1 DEF P!RefundStored
    <3> HIDE DEF q
    <3> QED
      BY <3>2, <3>3
  <2>2. CASE P!RefundAnswered(r)
    <3>1. [r EXCEPT !.at = "list"].from = r.from
      BY DEF P!PurchasesTypeOK, P!Refund
    <3> DEFINE q == [r EXCEPT !.at = "list"]
    <3>2. q.from = r.from
      BY <3>1
    <3>3. /\ refunds' = (refunds \ {r}) \cup IF r.by = "gone" THEN {} ELSE {q}
          /\ lost' = IF r.by = "gone" THEN lost \cup {r.from} ELSE lost
          /\ UNCHANGED <<loads, reset>>
      BY <2>2 DEF P!RefundAnswered
    <3> HIDE DEF q
    <3>4. CASE r.by = "gone"
      <4>1. /\ refunds' = refunds \ {r} /\ UNCHANGED <<loads, reset>>
            /\ lost' = lost \cup {r.from}
        BY <3>3, <3>4
      <4> QED
        BY <4>1
    <3>5. CASE r.by # "gone"
      <4>1. refunds' = (refunds \ {r}) \cup {q} /\ UNCHANGED <<loads, reset, lost>>
        BY <3>3, <3>5
      <4> QED
        BY <3>2, <4>1
    <3> QED
      BY <3>4, <3>5
  <2> QED
    BY <1>7, <2>1, <2>2
<1>8. ASSUME NEW r \in refunds, P!RefundRefused(r)
      PROVE  ButtonsInv'
  BY <1>8 DEF P!RefundRefused, P!ResetFor, P!PurchasesTypeOK
<1>9. ASSUME NEW r \in refunds, P!OrdersRead(r)
      PROVE  ButtonsInv'
  <2>1. CASE r.by = "gone"
    BY <1>9, <2>1 DEF P!OrdersRead
  <2>2. CASE r.by # "gone"
    <3>1. /\ loads' = {} /\ reset' = (reset \/ refunds \ {r} # {})
          /\ P!Pop(refunds \ {r})
      BY <1>9, <2>2 DEF P!OrdersRead, P!ResetFor
    <3>2. ~reset' => refunds' = {}
      <4>1. \/ refunds' = refunds \ {r}
            \/ refunds' = P!Moved("page", "leaving", refunds \ {r})
        BY <3>1 DEF P!Pop
      <4>2. ASSUME ~reset'
            PROVE  refunds \ {r} = {}
        BY <3>1, <4>2
      <4> QED
        BY <4>1, <4>2 DEF P!Moved
    <3> QED
      BY <3>1, <3>2
  <2> QED
    BY <2>1, <2>2
<1>10. ASSUME NEW r \in refunds, P!RefundThrows(r)
       PROVE  ButtonsInv'
  BY <1>10 DEF P!RefundThrows
<1>11. CASE UNCHANGED P!vars
  BY <1>11
<1> QED
  BY <1>1, <1>2, <1>3, <1>4, <1>5, <1>6, <1>7, <1>8, <1>9, <1>10, <1>11
     DEF P!Next, P!RefundEnds

\* No two requests of a button are at most one.
LEMMA ButtonsCount ==
    ASSUME ButtonsInv
    PROVE  RefundButtons
<1>1. ASSUME ~reset, NEW b \in P!Button
      PROVE  Cardinality({r \in refunds : r.from = b}) <= 1
  <2> DEFINE S == {r \in refunds : r.from = b}
  <2>1. CASE S = {}
    BY <2>1, FS_EmptySet
  <2>2. ASSUME NEW r \in S
        PROVE  Cardinality(S) = 1
    <3>1. S = {r}
      BY <1>1 DEF ButtonsInv
    <3> QED
      BY <3>1, FS_Singleton
  <2> QED
    BY <2>1, <2>2
<1>2. P!OnePerButton
  BY <1>1 DEF P!OnePerButton, P!Cardinality, Cardinality
<1> QED
  BY <1>2 DEF RefundButtons, ButtonsInv

-----------------------------------------------------------------------------
\* All of it holds at the start, and what does not change stays.
ReturnInv == OrdersInv /\ DetailsInv /\ KnownInv /\ ButtonsInv

LEMMA ReturnStarts ==
    ASSUME P!PurchasesAssumption, P!Init
    PROVE  ReturnInv
<1>1. OrdersInv
  BY OrdersStart
<1>2. DetailsInv /\ KnownInv /\ ButtonsInv
  BY DEF P!Init, DetailsInv, DetailsOfOrder, P!DetailsOfOrder, KnownInv,
         ButtonsInv, P!ButtonsFree
<1> QED
  BY <1>1, <1>2 DEF ReturnInv

LEMMA ReturnKept ==
    ASSUME P!PurchasesAssumption, ReturnInv, [P!Next]_(P!vars)
    PROVE  ReturnInv'
  BY OrdersTyped, DetailsKept, KnownKept, ButtonsKept DEF ReturnInv, OrdersInv

-----------------------------------------------------------------------------
(***************************************************************************)
(* The sum                                                                 *)
(***************************************************************************)

\* A sum of riyals in another currency is a sum again (toStringAsFixed).
LEMMA RoundedIsSum ==
    ASSUME NEW a \in Nat, NEW rate \in Nat
    PROVE  Rounded(a, rate) \in Nat
<1> DEFINE p == a * rate
<1>1. p \in Nat
  OBVIOUS
<1> HIDE DEF p
<1>2. (p + 50) \div 100 \in Nat
  BY <1>1
<1> QED
  BY <1>2 DEF Rounded, p

\* getConvertedRate throws only for a currency whose rate is not fetched.
LEMMA Converted ==
    ASSUME CurrencyAssumption, usd \in Market \cup {None}, NEW a \in Nat, NEW c
    PROVE  /\ getConvertedRate(a, c) \in Nat \cup {Error}
           /\ c = Usd => getConvertedRate(a, c) \in Nat
           /\ c = Usd /\ usd # None =>
                usd \in Market /\ getConvertedRate(a, c) = Rounded(a, usd[Usd])
<1>1. c \in Fetched /\ usd # None => Rounded(a, usd[c]) \in Nat
  BY RoundedIsSum DEF CurrencyAssumption
<1>2. Usd \in Fetched /\ Usd # Qar
  BY DEF CurrencyAssumption
<1> QED
  BY <1>1, <1>2 DEF getConvertedRate

\* The types are not inductive: a Payment page has a total.
SumInv ==
    /\ CurrencyTypeOK
    /\ route # "tabs" => total \in Sum

LEMMA SumsTyped ==
    ASSUME CurrencyAssumption, SumInv, [Next]_vars
    PROVE  SumInv'
<1> USE DEF SumInv, CurrencyTypeOK, vars, payVars
<1>0. Sum \subseteq Nat /\ Balance \subseteq Nat /\ MaxAsks \in Nat
  BY DEF CurrencyAssumption
<1>1. CASE BuildHome
  BY <1>0, <1>1 DEF BuildHome
<1>2. ASSUME NEW t \in Market, RatesAnswered(t)
      PROVE  SumInv'
  BY <1>0, <1>2 DEF RatesAnswered
<1>3. CASE RatesFail
  BY <1>0, <1>3 DEF RatesFail
<1>4. ASSUME NEW c \in Tile, changeCurrency(c)
      PROVE  SumInv'
  BY <1>4 DEF changeCurrency
<1>5. ASSUME NEW s \in Sum, OpenPayment(s)
      PROVE  SumInv'
  <2>1. getConvertedRate(s, name) \in Nat \cup {Error}
    BY <1>0, Converted
  <2> QED
    BY <1>5, <2>1 DEF OpenPayment, Show
<1>6. CASE Tick
  <2>1. getConvertedRate(total, name) \in Nat \cup {Error}
    BY <1>0, <1>6, Converted DEF Tick
  <2> QED
    BY <1>6, <2>1 DEF Tick, Show
<1>7. ASSUME NEW b \in Balance, WalletAnswered(b)
      PROVE  SumInv'
  <2>1. route # "tabs" => getConvertedRate(total, name) \in Nat \cup {Error}
    BY <1>0, Converted
  <2> QED
    BY <1>7, <2>1 DEF WalletAnswered, Show
<1>8. CASE PayByPaypal
  <2>1. share' \in Nat
    <3>1. /\ total \in Nat /\ balance \in Nat /\ (check => total > balance)
          /\ share' = IF check THEN total - balance ELSE total
      BY <1>0, <1>8 DEF PayByPaypal
    <3> QED
      BY ONLY <3>1
  <2>2. getConvertedRate(share', Usd) \in Nat
    BY <2>1, Converted
  <2> QED
    BY <1>8, <2>1, <2>2 DEF PayByPaypal
<1>9. CASE Back
  BY <1>9 DEF Back
<1>10. CASE UNCHANGED vars
  BY <1>10
<1> QED
  BY <1>1, <1>2, <1>3, <1>4, <1>5, <1>6, <1>7, <1>8, <1>9, <1>10 DEF Next

\* The number on the Payment page is the total at the present rates, unless
\* others came since it was built; what PAY compares is there only during the
\* payment.  A table that has come is never lost.
ShownInv ==
    /\ route # "tabs" /\ ~moved => shown = getConvertedRate(total, name)
    /\ seen # None => route = "paypal"
    /\ known => usd # None
    /\ AskedIsRight

LEMMA ShownKept ==
    ASSUME CurrencyAssumption, SumInv, ShownInv, [Next]_vars
    PROVE  ShownInv'
<1> USE DEF ShownInv, AskedIsRight, AskedIsShown, AskedInDollars, vars, payVars
<1>0. None \notin Market
  BY DEF CurrencyAssumption
<1>1. CASE BuildHome \/ RatesFail
  BY <1>1 DEF BuildHome, RatesFail, getConvertedRate
<1>2. ASSUME NEW t \in Market, RatesAnswered(t)
      PROVE  ShownInv'
  <2>1. usd' # None /\ UNCHANGED payVars /\ name' = name /\ moved' = (route # "tabs")
    BY <1>0, <1>2 DEF RatesAnswered
  <2> QED
    BY <2>1
<1>3. ASSUME NEW c \in Tile, changeCurrency(c)
      PROVE  ShownInv'
  BY <1>3 DEF changeCurrency
<1>4. ASSUME NEW s \in Sum, OpenPayment(s)
      PROVE  ShownInv'
  BY <1>4 DEF OpenPayment, Show, getConvertedRate
<1>5. CASE Tick
  BY <1>5 DEF Tick, Show, getConvertedRate
<1>6. ASSUME NEW b \in Balance, WalletAnswered(b)
      PROVE  ShownInv'
  BY <1>6 DEF WalletAnswered, Show, getConvertedRate
<1>7. CASE PayByPaypal
  <2>1. /\ route' = "paypal" /\ rated' = known
        /\ asked' = getConvertedRate(share', Usd)
        /\ seen' = IF moved THEN None ELSE shown
        /\ UNCHANGED <<usd, name, total, shown, known, moved>>
        /\ route = "payment"
    BY <1>7 DEF PayByPaypal
  <2>2. share' \in Nat
    BY <1>7 DEF PayByPaypal, SumInv, CurrencyTypeOK, CurrencyAssumption
  <2>3. AskedIsShown'
    BY <2>1 DEF getConvertedRate
  <2>4. AskedInDollars'
    BY <2>1, <2>2, Converted DEF SumInv, CurrencyTypeOK
  <2>5. route' # "tabs" /\ ~moved' => shown' = getConvertedRate(total, name)'
    BY <2>1 DEF getConvertedRate
  <2> QED
    BY <2>1, <2>3, <2>4, <2>5
<1>8. CASE Back
  BY <1>8 DEF Back, getConvertedRate
<1>9. CASE UNCHANGED vars
  BY <1>9 DEF getConvertedRate
<1> QED
  BY <1>1, <1>2, <1>3, <1>4, <1>5, <1>6, <1>7, <1>8, <1>9 DEF Next

AmountInv == SumInv /\ ShownInv

LEMMA AmountStarts ==
    ASSUME CurrencyAssumption, Init
    PROVE  AmountInv
<1>1. 0 \in 0..MaxAsks
  BY DEF CurrencyAssumption
<1>2. SumInv
  BY <1>1 DEF SumInv, CurrencyTypeOK, Init, CurrencyAssumption
<1>3. ShownInv
  BY DEF ShownInv, Init, AskedIsRight, AskedIsShown, AskedInDollars
<1> QED
  BY <1>2, <1>3 DEF AmountInv

LEMMA AmountKept ==
    ASSUME CurrencyAssumption, AmountInv, [Next]_vars
    PROVE  AmountInv'
  BY SumsTyped, ShownKept DEF AmountInv

-----------------------------------------------------------------------------
(***************************************************************************)
(* The theorems.  Each is stated of the component by itself, whatever else *)
(* happens, and of the two side by side, as TLC checks them.               *)
(***************************************************************************)

LEMMA AmountAlways == Spec => []AmountInv
<1>1. Init => AmountInv
  BY AmountStarts, CurrencyAssumption
<1>2. AmountInv /\ [Next]_vars => AmountInv'
  BY AmountKept, CurrencyAssumption
<1> QED
  BY <1>1, <1>2, PTL DEF Spec

LEMMA ReturnAlways == P!Spec => []ReturnInv
<1>1. P!Init => ReturnInv
  BY ReturnStarts, PayingAssumption
<1>2. ReturnInv /\ [P!Next]_(P!vars) => ReturnInv'
  BY ReturnKept, PayingAssumption
<1> QED
  BY <1>1, <1>2, PTL DEF P!Spec

\* A step of one is a step of it and a stutter of the other.
LEMMA PayingSteps ==
    ASSUME [PayingNext]_<<part, vars, orderVars>>
    PROVE  [Next]_vars /\ [P!Next]_(P!vars)
  BY DEF PayingNext, orderVars, P!vars, P!pageVars, P!history

LEMMA PayingAlways == PayingSpec => [](AmountInv /\ ReturnInv)
<1>1. PayingInit => AmountInv /\ ReturnInv
  BY AmountStarts, ReturnStarts, CurrencyAssumption, PayingAssumption
     DEF PayingInit
<1>2. AmountInv /\ ReturnInv /\ [PayingNext]_<<part, vars, orderVars>>
        => (AmountInv /\ ReturnInv)'
  BY PayingSteps, AmountKept, ReturnKept, CurrencyAssumption, PayingAssumption
<1> QED
  BY <1>1, <1>2, PTL DEF PayingSpec

\* PayPal is asked for a sum and never for an exception, and no page of an
\* order shows details that are null (getConvertedRate, getOrderDetails).
THEOREM PayingTypes == PayingSpec => []PayingTypeOK
<1>1. AmountInv /\ ReturnInv => PayingTypeOK
  BY DEF AmountInv, SumInv, ReturnInv, OrdersInv, PayingTypeOK
<1> QED
  BY <1>1, PayingAlways, PTL

\* Whoever taps PAY once rates have come is asked for the share of the payment
\* at the rates of some table; whoever pays the whole in dollars, for the
\* number on the page, unless new rates came since it was built.
THEOREM AsksRight ==
    /\ Spec => []AskedIsRight
    /\ PayingSpec => []AskedIsRight
<1>1. AmountInv => AskedIsRight
  BY DEF AmountInv, ShownInv
<1> QED
  BY <1>1, AmountAlways, PayingAlways, PTL

\* The details on the page of an order are of that order, or of one that was
\* still being read when it was opened, however late the answers are.
THEOREM DetailsStayTheirs ==
    /\ P!Spec => []DetailsOfOrder
    /\ PayingSpec => []DetailsOfOrder
<1>1. ReturnInv => DetailsOfOrder
  BY DEF ReturnInv, DetailsInv
<1> QED
  BY <1>1, ReturnAlways, PayingAlways, PTL

\* A refund button spins only while a request of its own is under way, or after
\* one threw or found its page gone and no other answer has reset the flags
\* since; and it has one request at a time, until an answer to another request
\* resets the flags while its own is under way.
THEOREM ButtonsStayTrue ==
    /\ P!Spec => []RefundButtons
    /\ PayingSpec => []RefundButtons
<1>1. ReturnInv => RefundButtons
  BY ButtonsCount DEF ReturnInv
<1> QED
  BY <1>1, ReturnAlways, PayingAlways, PTL

\* No second request for a refund the app was told of, from a page opened anew
\* with no older read under way (cancelOrder).
THEOREM RefundedOnlyOnce ==
    /\ P!Spec => NoSecondRefund
    /\ PayingSpec => NoSecondRefund
<1> DEFINE Once == orderRoute = "order" /\ fresh => loads' \subseteq loads
<1>1. ReturnInv /\ [P!Next]_(P!vars) => [Once]_(P!vars)
  BY NoSecond DEF ReturnInv, OrdersInv
<1>2. ReturnInv /\ [PayingNext]_<<part, vars, orderVars>> => [Once]_(P!vars)
  BY <1>1, PayingSteps
<1>3. P!Spec => NoSecondRefund
  BY <1>1, ReturnAlways, PTL DEF P!Spec, NoSecondRefund, P!NoSecondRefund
<1>4. PayingSpec => NoSecondRefund
  BY <1>2, PayingAlways, PTL DEF PayingSpec, NoSecondRefund, P!NoSecondRefund
<1> QED
  BY <1>3, <1>4

=============================================================================
