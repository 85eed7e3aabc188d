----------------------------- MODULE CartProofs -----------------------------
(***************************************************************************)
(* Theorems about Cart for every set of products, of objects, and every    *)
(* bound: its types, that the disk follows the memory, that the Cart tab   *)
(* shows the box and that a product has one row in it; and that the total  *)
(* of a cart is a number.                                                  *)
(***************************************************************************)
EXTENDS Cart, FiniteSetTheorems, SequenceTheorems, WellFoundedInduction, TLAPS

LEMMA Bounds ==
    /\ MaxQty \in Nat \ {0} /\ MaxPending \in Nat \ {0} /\ MaxPages \in Nat \ {0}
    /\ Tab \in Gone..MaxPages /\ Gone \in Gone..MaxPages
BY CartAssumption DEF Tab, Gone

LEMMA LiveType ==
    ASSUME CartTypeOK
    PROVE  Live \in [Item -> 0..MaxQty]
BY Bounds DEF CartTypeOK, Live

LEMMA BoxCard == ASSUME NEW S \in SUBSET Item PROVE Cardinality(S) \in Nat
<1>1. IsFiniteSet(S)
  BY CartAssumption, FS_Subset
<1>2. QED
  BY <1>1, FS_CardinalityType

\* A write that lost its listener is still the same write; only the States from
\* place n on stop listening.
LEMMA OrphanedWrite ==
    ASSUME NEW n \in Int, NEW q \in Seq(Write), NEW k \in 1..Len(q)
    PROVE  /\ Orphaned(n, q)[k] \in Write
           /\ Orphaned(n, q)[k].op = q[k].op
           /\ Orphaned(n, q)[k].item = q[k].item
           /\ Orphaned(n, q)[k].qty = q[k].qty
           /\ Orphaned(n, q)[k].by = IF q[k].by >= n THEN Gone ELSE q[k].by
<1>1. q[k] \in Write /\ k \in DOMAIN q
  OBVIOUS
<1>2. Orphaned(n, q)[k] = IF q[k].by >= n THEN [q[k] EXCEPT !.by = Gone] ELSE q[k]
  BY ONLY <1>1 DEF Orphaned
<1>3. ASSUME NEW w \in Write
      PROVE  LET u == [w EXCEPT !.by = Gone]
             IN  /\ u \in Write /\ u.op = w.op /\ u.item = w.item /\ u.qty = w.qty
                 /\ u.by = Gone
  BY ONLY <1>3, Bounds DEF Write
<1>4. QED
  BY ONLY <1>1, <1>2, <1>3

LEMMA OrphanedType ==
    ASSUME NEW n \in Int, NEW q \in Seq(Write)
    PROVE  Orphaned(n, q) \in Seq(Write) /\ Len(Orphaned(n, q)) = Len(q)
<1>1. \A k \in 1..Len(q) : Orphaned(n, q)[k] \in Write
  BY OrphanedWrite
<1>2. DOMAIN Orphaned(n, q) = 1..Len(q)
  BY DEF Orphaned
<1>3. Orphaned(n, q) \in [1..Len(q) -> Write]
  <2>1. Orphaned(n, q) = [k \in 1..Len(q) |-> Orphaned(n, q)[k]]
    BY <1>2 DEF Orphaned
  <2>2. QED
    BY <1>1, <2>1
<1>4. Len(q) \in Nat
  OBVIOUS
<1>5. QED
  BY ONLY <1>3, <1>4

LEMMA TabIsANumber == Tab \in Int /\ \A w \in Write : w.by \in Int
BY Bounds DEF Tab, Gone, Write

\* The part of CartTypeOK that is about the Details pages.
PagesOK == pages \in Seq(Details) /\ Len(pages) <= MaxPages

LEMMA CartPagesOK == CartTypeOK => PagesOK
BY DEF CartTypeOK, PagesOK

\* What a page becomes when it is covered.
LEMMA BehindType ==
    ASSUME NEW g \in Details, NEW b \in BOOLEAN, NEW h, h = [g EXCEPT !.behind = b]
    PROVE  h \in Details /\ h.of = g.of /\ h.inCart = g.inCart /\ h.behind = b
BY DEF Details

\* OpenDetails: every page keeps its place and its flag, those of p fall
\* behind, and the page of p lies on top.
LEMMA OpenedPages ==
    ASSUME PagesOK, NEW p \in Product, OpenDetails(p)
    PROVE  LET n == Len(pages) IN
           /\ n \in Nat /\ n < MaxPages
           /\ pages' \in Seq(Details) /\ Len(pages') = n + 1
           /\ \A k \in 1..n : /\ pages'[k].of = pages[k].of
                              /\ pages'[k].inCart = pages[k].inCart
                              /\ pages'[k].behind = (pages[k].behind \/ pages[k].of = p)
           /\ pages'[n + 1].of = p /\ pages'[n + 1].inCart = HasProduct(p)
           /\ pages'[n + 1].behind = FALSE
<1> DEFINE n == Len(pages)
           low == [k \in DOMAIN pages |-> [pages[k] EXCEPT !.behind = @ \/ pages[k].of = p]]
           top == [of |-> p, inCart |-> HasProduct(p), behind |-> FALSE]
<1>1. /\ pages \in Seq(Details) /\ n \in Nat /\ DOMAIN pages = 1..n
      /\ \A k \in 1..n : pages[k] \in Details
  BY DEF PagesOK
<1>2. \A k \in 1..n : /\ low[k] \in Details
                      /\ low[k].of = pages[k].of /\ low[k].inCart = pages[k].inCart
                      /\ low[k].behind = (pages[k].behind \/ pages[k].of = p)
  <2>1. ASSUME NEW k \in 1..n
        PROVE  /\ low[k] \in Details
               /\ low[k].of = pages[k].of /\ low[k].inCart = pages[k].inCart
               /\ low[k].behind = (pages[k].behind \/ pages[k].of = p)
    <3> DEFINE b == pages[k].behind \/ pages[k].of = p
    <3>1. pages[k] \in Details /\ b \in BOOLEAN
      BY <1>1
    <3>2. low[k] = [pages[k] EXCEPT !.behind = b]
      BY <1>1
    <3> HIDE DEF b, low
    <3>3. /\ low[k] \in Details /\ low[k].of = pages[k].of
          /\ low[k].inCart = pages[k].inCart /\ low[k].behind = b
      BY ONLY <3>1, <3>2, BehindType
    <3>4. QED
      BY <3>3, Zenon DEF b
  <2>2. QED
    BY <2>1
<1>3. low \in Seq(Details) /\ Len(low) = n
  <2>1. low \in [1..n -> Details]
    BY <1>1, <1>2
  <2>2. QED
    BY ONLY <1>1, <2>1
<1>4. top \in Details /\ top.of = p /\ top.inCart = HasProduct(p) /\ top.behind = FALSE
  BY DEF Details, HasProduct
<1>5. pages' = Append(low, top) /\ n < MaxPages
  BY DEF OpenDetails
<1> HIDE DEF low, top
<1>6. /\ pages' \in Seq(Details) /\ Len(pages') = n + 1
      /\ \A k \in 1..n : pages'[k] = low[k]
      /\ pages'[n + 1] = top
  BY ONLY <1>1, <1>3, <1>4, <1>5, AppendProperties
<1>7. QED
  BY <1>1, <1>2, <1>4, <1>5, <1>6

\* checkCart: only the page at place k changes.
LEMMA CheckedPages ==
    ASSUME PagesOK, NEW k, checkCart(k)
    PROVE  /\ pages' \in Seq(Details) /\ Len(pages') = Len(pages) /\ Len(pages) \in Nat
           /\ \A j \in 1..Len(pages) :
                  /\ pages'[j].of = pages[j].of
                  /\ j # k => pages'[j] = pages[j]
                  /\ j = k => /\ pages'[j].inCart = (pages[j].inCart \/ HasProduct(pages[j].of))
                             /\ pages'[j].behind = Covered(j)
<1>1. /\ pages \in Seq(Details) /\ Len(pages) \in Nat /\ DOMAIN pages = 1..Len(pages)
      /\ \A j \in 1..Len(pages) : pages[j] \in Details
  BY DEF PagesOK
<1>2. DOMAIN pages' = DOMAIN pages
  BY DEF checkCart
<1>3. ASSUME NEW j \in 1..Len(pages)
      PROVE  /\ pages'[j] \in Details
             /\ pages'[j].of = pages[j].of
             /\ j # k => pages'[j] = pages[j]
             /\ j = k => /\ pages'[j].inCart = (pages[j].inCart \/ HasProduct(pages[j].of))
                        /\ pages'[j].behind = Covered(j)
  <2>1. CASE j # k
    BY <1>1, <1>3, <2>1 DEF checkCart
  <2>2. CASE j = k
    <3> DEFINE c == pages[j].inCart \/ HasProduct(pages[j].of)
               b == Covered(j)
    <3>1. pages[j] \in Details /\ c \in BOOLEAN /\ b \in BOOLEAN
      BY <1>1 DEF Covered
    <3>2. pages'[j] = [of |-> pages[j].of, inCart |-> c, behind |-> b]
      BY <1>1, <1>3, <2>2, <3>1 DEF checkCart, Details
    <3> HIDE DEF b, c
    <3>3. /\ pages'[j] \in Details /\ pages'[j].of = pages[j].of
          /\ pages'[j].inCart = c /\ pages'[j].behind = b
      BY ONLY <3>1, <3>2 DEF Details
    <3>4. QED
      BY <2>2, <3>3, Zenon DEF b, c
  <2>3. QED
    BY <2>1, <2>2
<1>4. pages' \in [1..Len(pages) -> Details]
  <2>1. pages' = [j \in 1..Len(pages) |-> pages'[j]]
    BY <1>1, <1>2 DEF checkCart
  <2>2. QED
    BY <1>3, <2>1
<1>5. pages' \in Seq(Details) /\ Len(pages') = Len(pages)
  BY ONLY <1>1, <1>4
<1>6. QED
  BY <1>1, <1>3, <1>5

\* LeaveDetails: the pages below stay.
LEMMA LeftPages ==
    ASSUME PagesOK, LeaveDetails
    PROVE  /\ Len(pages) \in Nat \ {0} /\ Len(pages) \in Int
           /\ pages' \in Seq(Details) /\ Len(pages') = Len(pages) - 1
           /\ \A k \in 1..Len(pages') : pages'[k] = pages[k]
<1>1. /\ pages \in Seq(Details) /\ Len(pages) \in Nat \ {0}
      /\ pages' = SubSeq(pages, 1, Len(pages) - 1)
  BY DEF PagesOK, LeaveDetails
<1> DEFINE n == Len(pages) - 1
<1>2. n \in Nat /\ n \in Int /\ Len(pages) = n + 1 /\ n - 1 + 1 = n
  BY <1>1
<1>3. \A k \in 1..n : k \in 1..Len(pages)
  BY <1>2
<1> HIDE DEF n
<1>4. /\ pages' \in Seq(Details) /\ Len(pages') = n
      /\ \A k \in 1..n : pages'[k] = pages[k]
  BY ONLY <1>1, <1>2, <1>3, pages' = SubSeq(pages, 1, n)
<1>5. QED
  BY <1>1, <1>2, <1>4

LEMMA AppendType ==
    ASSUME NEW q \in Seq(Write), NEW w \in Write, Len(q) < MaxPending,
           Len(q) <= MaxPending
    PROVE  Append(q, w) \in Seq(Write) /\ Len(Append(q, w)) <= MaxPending
BY Bounds

LEMMA WriteType ==
    ASSUME NEW i \in Item, NEW n \in 0..MaxQty, NEW o \in {"add", "put", "delete"},
           NEW b \in Gone..MaxPages
    PROVE  [op |-> o, item |-> i, qty |-> n, by |-> b] \in Write
BY DEF Write

LEMMA CartTypeInit == CartInit => CartTypeOK
<1> SUFFICES ASSUME CartInit PROVE CartTypeOK
  OBVIOUS
<1>1. Nothing \in [Item -> 0..MaxQty]
  BY Bounds DEF Nothing
<1>2. /\ queue \in Seq(Write) /\ Len(queue) <= MaxPending
      /\ pages \in Seq(Details) /\ Len(pages) <= MaxPages
  BY Bounds DEF CartInit
<1>3. QED
  BY <1>1, <1>2 DEF CartInit, CartTypeOK

LEMMA ShowCartType == ASSUME CartTypeOK, ShowCart PROVE CartTypeOK'
<1>1. Live \in [Item -> 0..MaxQty] /\ Cardinality(box) \in Nat
  BY LiveType, BoxCard DEF CartTypeOK
<1>2. queue' \in Seq(Write) /\ Len(queue') <= MaxPending
  BY OrphanedType, TabIsANumber DEF ShowCart, CartTypeOK
<1>3. pages' \in Seq(Details) /\ Len(pages') <= MaxPages
  BY Bounds DEF ShowCart
<1>4. QED
  BY <1>1, <1>2, <1>3 DEF ShowCart, getCart, CartTypeOK

LEMMA LeaveType ==
    ASSUME CartTypeOK, LeaveCart \/ LeaveDetails
    PROVE  CartTypeOK'
<1>1. Nothing \in [Item -> 0..MaxQty]
  BY Bounds DEF Nothing
<1>2. CASE LeaveCart
  <2>1. queue' \in Seq(Write) /\ Len(queue') <= MaxPending
    BY <1>2, OrphanedType, TabIsANumber DEF LeaveCart, CartTypeOK
  <2>2. QED
    BY <1>1, <1>2, <2>1 DEF LeaveCart, CartTypeOK
<1>3. CASE LeaveDetails
  <2>1. /\ Len(pages) \in Int /\ pages' \in Seq(Details) /\ Len(pages') <= MaxPages
    BY <1>3, LeftPages, CartPagesOK, Bounds DEF CartTypeOK
  <2>2. queue' \in Seq(Write) /\ Len(queue') <= MaxPending
    BY <1>3, <2>1, OrphanedType DEF LeaveDetails, CartTypeOK
  <2>3. QED
    BY <1>3, <2>1, <2>2 DEF LeaveDetails, CartTypeOK
<1>4. QED
  BY <1>2, <1>3

LEMMA OpenDetailsType ==
    ASSUME CartTypeOK, NEW p \in Product, OpenDetails(p)
    PROVE  CartTypeOK'
<1>1. Cardinality(box) \in Nat
  BY BoxCard DEF CartTypeOK
<1>2. pages' \in Seq(Details) /\ Len(pages') <= MaxPages
  <2>1. /\ Len(pages) \in Nat /\ Len(pages) < MaxPages
        /\ pages' \in Seq(Details) /\ Len(pages') = Len(pages) + 1
    BY OpenedPages, CartPagesOK
  <2>2. QED
    BY ONLY <2>1, Bounds
<1>3. QED
  BY <1>1, <1>2 DEF OpenDetails, CartTypeOK

LEMMA AddToCartType ==
    ASSUME CartTypeOK, NEW i \in Item, AddToCart(i)
    PROVE  CartTypeOK'
<1>1. ProductOf[i] \in Product
  BY CartAssumption
<1>2. [op |-> "add", item |-> i, qty |-> 1, by |-> Len(pages)] \in Write
  <2>1. 1 \in 0..MaxQty /\ Len(pages) \in Gone..MaxPages
    BY Bounds DEF CartTypeOK, Gone
  <2>2. QED
    BY <2>1, WriteType, Bounds
<1>3. queue' \in Seq(Write) /\ Len(queue') <= MaxPending
  BY <1>2, AppendType DEF AddToCart, CartTypeOK
<1>4. qty' \in [Item -> 0..MaxQty] /\ box' \subseteq Item
  BY Bounds DEF AddToCart, CartTypeOK
<1>5. again' \subseteq Product
  BY <1>1 DEF AddToCart, CartTypeOK
<1>6. QED
  BY <1>3, <1>4, <1>5 DEF AddToCart, CartTypeOK

LEMMA SetQuantityType ==
    ASSUME CartTypeOK, NEW i \in Item, NEW n \in 0..MaxQty, SetQuantity(i, n)
    PROVE  CartTypeOK'
<1>1. [op |-> "put", item |-> i, qty |-> n, by |-> Tab] \in Write
  BY WriteType, Bounds
<1>2. queue' \in Seq(Write) /\ Len(queue') <= MaxPending
  BY <1>1, AppendType DEF SetQuantity, CartTypeOK
<1>3. qty' \in [Item -> 0..MaxQty]
  BY DEF SetQuantity, CartTypeOK
<1>4. QED
  BY <1>2, <1>3 DEF SetQuantity, CartTypeOK

\* The minus and plus buttons stay within 1..MaxQty.
LEMMA StepBounds ==
    ASSUME NEW m \in 0..MaxQty
    PROVE  /\ m < MaxQty => m + 1 \in 0..MaxQty
           /\ m > 1 => m - 1 \in 0..MaxQty
BY Bounds

LEMMA PlusMinusType ==
    ASSUME CartTypeOK, NEW i \in Item, Plus(i) \/ Minus(i)
    PROVE  CartTypeOK'
<1>1. PICK n \in 0..MaxQty : SetQuantity(i, n)
  BY StepBounds DEF Plus, Minus, CartTypeOK
<1>2. QED
  BY <1>1, SetQuantityType

LEMMA DeleteRowType ==
    ASSUME CartTypeOK, NEW i \in Item, DeleteRow(i)
    PROVE  CartTypeOK'
<1>1. [op |-> "delete", item |-> i, qty |-> 0, by |-> Tab] \in Write
  <2>1. 0 \in 0..MaxQty
    BY Bounds
  <2>2. QED
    BY <2>1, WriteType, Bounds
<1>2. queue' \in Seq(Write) /\ Len(queue') <= MaxPending
  BY <1>1, AppendType DEF DeleteRow, CartTypeOK
<1>3. QED
  BY <1>2 DEF DeleteRow, CartTypeOK

\* The oldest write is a write, the rest is a shorter queue.
LEMMA HeadTail ==
    ASSUME NEW q \in Seq(Write), q # <<>>
    PROVE  /\ Head(q) \in Write
           /\ Tail(q) \in Seq(Write)
           /\ Len(Tail(q)) = Len(q) - 1
           /\ Len(q) \in Nat \ {0}
           /\ Head(q) = q[1]
           /\ \A k \in 1..Len(Tail(q)) : Tail(q)[k] = q[k + 1]
BY HeadTailProperties

LEMMA WriteDoneType ==
    ASSUME CartTypeOK, WriteDone
    PROVE  CartTypeOK'
<1> DEFINE w == Head(queue)
<1>1. w \in Write /\ queue' \in Seq(Write) /\ Len(queue') <= MaxPending
  BY HeadTail, Bounds DEF WriteDone, CartTypeOK
<1>2. disk' \in [Item -> 0..MaxQty]
  <2>1. PICK q \in (IF w.op = "delete" THEN {0} ELSE {w.qty, qty[w.item]}) :
            disk' = [disk EXCEPT ![w.item] = q]
    BY DEF WriteDone
  <2>2. CASE w.item \in Item
    <3>1. q \in 0..MaxQty
      <4>1. w.qty \in 0..MaxQty /\ qty[w.item] \in 0..MaxQty /\ 0 \in 0..MaxQty
        BY <1>1, <2>2, Bounds DEF CartTypeOK, Write
      <4>2. QED
        BY ONLY <2>1, <4>1
    <3>2. QED
      BY <2>1, <3>1 DEF CartTypeOK
  <2>3. CASE w.item \notin Item
    BY <2>1, <2>3 DEF CartTypeOK
  <2>4. QED
    BY <2>2, <2>3
<1>3. Live \in [Item -> 0..MaxQty] /\ Cardinality(box) \in Nat
  BY LiveType, BoxCard DEF CartTypeOK
<1>4. priced' \in [Item -> 0..MaxQty] /\ badge' \in Nat
  BY <1>3 DEF WriteDone, Callback, checkCart, getCart, CartTypeOK
<1>5. pages' \in Seq(Details) /\ Len(pages') <= MaxPages
  <2>1. pages' = pages \/ checkCart(w.by)
    BY DEF WriteDone, Callback
  <2>2. QED
    BY <2>1, CheckedPages, CartPagesOK DEF CartTypeOK
<1>6. QED
  BY <1>1, <1>2, <1>4, <1>5 DEF WriteDone, CartTypeOK

LEMMA CartRestartType == ASSUME CartTypeOK, CartRestart PROVE CartTypeOK'
<1>1. Cardinality(box') \in Nat /\ box' \subseteq Item
  BY BoxCard DEF CartRestart
<1>2. Nothing \in [Item -> 0..MaxQty]
  BY Bounds DEF Nothing
<1>3. /\ queue' \in Seq(Write) /\ Len(queue') <= MaxPending
      /\ pages' \in Seq(Details) /\ Len(pages') <= MaxPages
  BY Bounds DEF CartRestart
<1>4. again' \subseteq Product
  BY DEF CartRestart, CartTypeOK
<1>5. QED
  BY <1>1, <1>2, <1>3, <1>4 DEF CartRestart, CartTypeOK

LEMMA HeartDoneType == ASSUME CartTypeOK, HeartDone PROVE CartTypeOK'
<1>1. Cardinality(box) \in Nat
  BY BoxCard DEF CartTypeOK
<1>2. PICK k \in DOMAIN pages : checkCart(k)
  BY DEF HeartDone
<1>3. pages' \in Seq(Details) /\ Len(pages') <= MaxPages /\ badge' \in Nat
  BY <1>1, <1>2, CheckedPages, CartPagesOK DEF checkCart, CartTypeOK
<1>4. QED
  BY <1>3 DEF HeartDone, CartTypeOK

LEMMA CartTypeNext == CartTypeOK /\ [CartNext]_cartVars => CartTypeOK'
<1> SUFFICES ASSUME CartTypeOK, [CartNext]_cartVars PROVE CartTypeOK'
  OBVIOUS
<1>1. CASE UNCHANGED cartVars
  BY <1>1 DEF cartVars, CartTypeOK
<1>2. CASE UserStep
  BY <1>2, ShowCartType, LeaveType, OpenDetailsType, AddToCartType, PlusMinusType,
     DeleteRowType, HeartDoneType DEF UserStep, OpenCart, GoToCart
<1>3. CASE WriteDone \/ CartRestart
  BY <1>3, WriteDoneType, CartRestartType
<1>4. QED
  BY <1>1, <1>2, <1>3 DEF CartNext

\* Every state of the cart is well typed: the buttons keep a quantity within
\* 1..MaxQty, and nothing but a known product is ever opened.
THEOREM CartTypes == CartSpec => []CartTypeOK
BY CartTypeInit, CartTypeNext, PTL DEF CartSpec

\* Details pages lie above the other tabs only.
Above == pages # <<>> => screen = "home"

LEMMA AboveNext == PagesOK /\ Above /\ [CartNext]_cartVars => Above'
<1> SUFFICES ASSUME PagesOK, Above, [CartNext]_cartVars PROVE Above'
  OBVIOUS
<1>1. CASE UNCHANGED cartVars
  BY <1>1 DEF cartVars, Above
<1>2. CASE OpenCart \/ GoToCart \/ LeaveCart \/ LeaveDetails \/ HeartDone
  BY <1>2 DEF OpenCart, GoToCart, ShowCart, LeaveCart, LeaveDetails, HeartDone, Above
<1>3. CASE \E p \in Product : OpenDetails(p)
  BY <1>3 DEF OpenDetails, Above
<1>4. CASE \E i \in Item : AddToCart(i) \/ Plus(i) \/ Minus(i) \/ DeleteRow(i)
  BY <1>4 DEF AddToCart, Plus, Minus, SetQuantity, DeleteRow, Above
<1>5. CASE WriteDone
  <2>1. screen' = screen /\ (pages' = pages \/ \E k : checkCart(k))
    BY <1>5 DEF WriteDone, Callback
  <2>2. pages' # <<>> => pages # <<>>
    BY <2>1, CheckedPages, CartPagesOK DEF PagesOK
  <2>3. QED
    BY <2>1, <2>2 DEF Above
<1>6. CASE CartRestart
  BY <1>6 DEF CartRestart, Above
<1>7. QED
  BY <1>1, <1>2, <1>3, <1>4, <1>5, <1>6 DEF CartNext, UserStep

-----------------------------------------------------------------------------
(***************************************************************************)
(* The disk follows the memory                                             *)
(***************************************************************************)

\* No write of q from place k on is about i.
Silent(q, k, i) == \A j \in k..Len(q) : q[j].item # i

\* What write w leaves on disk for i is what memory, with the objects B in the
\* box and the quantities Q, holds for i.
Settles(w, i, B, Q) == IF i \in B THEN w.op # "delete" /\ w.qty = Q[i]
                                  ELSE w.op = "delete"

\* The last pending write about i settles i.
LastSettles(q, B, Q) ==
    \A i \in Item, k \in 1..Len(q) :
        q[k].item = i /\ Silent(q, k + 1, i) => Settles(q[k], i, B, Q)

DiskInv == CartTypeOK /\ LastSettles(queue, box, qty) /\ DiskFollows

LEMMA FollowsAlt ==
    ASSUME CartTypeOK
    PROVE  DiskFollows <=> \A i \in Item : Silent(queue, 1, i) => disk[i] = Live[i]
<1>1. DOMAIN queue = 1..Len(queue)
  BY DEF CartTypeOK
<1>2. QED
  BY ONLY <1>1 DEF DiskFollows, Silent

LEMMA OrphanedSettles ==
    ASSUME CartTypeOK, LastSettles(queue, box, qty), DiskFollows,
           NEW n \in Int, queue' \in {queue, Orphaned(n, queue)},
           UNCHANGED <<qty, box, disk>>
    PROVE  LastSettles(queue', box', qty') /\ DiskFollows'
<1>1. queue \in Seq(Write) /\ queue' \in Seq(Write) /\ Len(queue') = Len(queue)
      /\ Len(queue) \in Nat
  BY OrphanedType DEF CartTypeOK
<1>2. \A k \in 1..Len(queue) : /\ queue'[k].op = queue[k].op
                               /\ queue'[k].item = queue[k].item
                               /\ queue'[k].qty = queue[k].qty
  BY <1>1, OrphanedWrite
<1>3. LastSettles(queue', box', qty')
  BY <1>1, <1>2 DEF LastSettles, Silent, Settles
<1>4. DOMAIN queue' = DOMAIN queue /\ DOMAIN queue = 1..Len(queue)
  BY <1>1
<1>5. Live' = Live
  BY DEF Live
<1>6. DiskFollows'
  BY ONLY <1>2, <1>4, <1>5, DiskFollows, UNCHANGED disk DEF DiskFollows
<1>7. QED
  BY <1>3, <1>6

\* A tap appends a write that settles its row.
LEMMA AppendSettles ==
    ASSUME CartTypeOK, LastSettles(queue, box, qty), DiskFollows,
           NEW i \in Item, NEW w \in Write, w.item = i,
           queue' = Append(queue, w), disk' = disk,
           \A j \in Item \ {i} : (j \in box' <=> j \in box) /\ qty'[j] = qty[j],
           Settles(w, i, box', qty')
    PROVE  LastSettles(queue', box', qty') /\ DiskFollows'
<1>1. /\ queue \in Seq(Write) /\ queue' \in Seq(Write)
      /\ Len(queue) \in Nat /\ Len(queue') = Len(queue) + 1
      /\ \A k \in 1..Len(queue) : queue'[k] = queue[k]
      /\ queue'[Len(queue) + 1] = w
  BY AppendProperties DEF CartTypeOK
<1>2. ASSUME NEW j \in Item, NEW k \in 1..Len(queue'),
             queue'[k].item = j, Silent(queue', k + 1, j)
      PROVE  Settles(queue'[k], j, box', qty')
  <2>1. CASE k = Len(queue) + 1
    BY <1>1, <1>2, <2>1
  <2>2. CASE k \in 1..Len(queue)
    <3>1. j # i
      BY <1>1, <1>2, <2>2 DEF Silent
    <3>2. queue[k].item = j /\ Silent(queue, k + 1, j)
      BY <1>1, <1>2, <2>2 DEF Silent
    <3>3. Settles(queue[k], j, box, qty)
      BY <2>2, <3>2 DEF LastSettles
    <3>4. QED
      BY <1>1, <2>2, <3>1, <3>3 DEF Settles
  <2>3. QED
    BY <1>1, <2>1, <2>2
<1>3. ASSUME NEW j \in Item, Silent(queue', 1, j)
      PROVE  disk'[j] = Live'[j]
  <2>1. j # i
    BY <1>1, <1>3 DEF Silent
  <2>2. Silent(queue, 1, j)
    BY <1>1, <1>3 DEF Silent
  <2>3. disk[j] = Live[j]
    BY <2>2, FollowsAlt
  <2>4. QED
    BY <2>1, <2>3 DEF Live
<1>4. DOMAIN queue' = 1..Len(queue')
  BY <1>1
<1>5. LastSettles(queue', box', qty')
  BY ONLY <1>2 DEF LastSettles
<1>6. DiskFollows'
  BY ONLY <1>3, <1>4 DEF DiskFollows, Silent
<1>7. QED
  BY <1>5, <1>6

LEMMA SilentTail ==
    ASSUME NEW q \in Seq(Write), q # <<>>, NEW k \in Nat \ {0}, NEW j,
           Silent(Tail(q), k, j)
    PROVE  Silent(q, k + 1, j)
<1>1. ASSUME NEW m \in (k + 1)..Len(q) PROVE q[m].item # j
  <2>1. /\ m - 1 \in k..Len(Tail(q)) /\ m - 1 \in 1..Len(Tail(q))
        /\ (m - 1) + 1 = m
    BY HeadTail
  <2>2. Tail(q)[m - 1] = q[m]
    BY <2>1, HeadTail
  <2>3. QED
    BY <2>1, <2>2 DEF Silent
<1>2. QED
  BY ONLY <1>1 DEF Silent

\* Hive writes the oldest record: either a later write settles the row, or
\* this one did.
LEMMA WriteDoneSettles ==
    ASSUME CartTypeOK, LastSettles(queue, box, qty), DiskFollows, WriteDone
    PROVE  LastSettles(queue', box', qty') /\ DiskFollows'
<1> DEFINE w == Head(queue)
<1>1. /\ queue \in Seq(Write) /\ queue' \in Seq(Write)
      /\ Len(queue) \in Nat \ {0} /\ Len(queue') = Len(queue) - 1
      /\ w = queue[1]
      /\ \A k \in 1..Len(queue') : queue'[k] = queue[k + 1]
      /\ UNCHANGED <<qty, box>>
  BY HeadTail DEF WriteDone, CartTypeOK
<1>2. ASSUME NEW j \in Item, NEW k \in 1..Len(queue'),
             queue'[k].item = j, Silent(queue', k + 1, j)
      PROVE  Settles(queue'[k], j, box', qty')
  <2>1. k + 1 \in 1..Len(queue) /\ queue[k + 1].item = j
    BY <1>1, <1>2
  <2>2. Silent(queue, (k + 1) + 1, j)
    BY <1>1, <1>2, SilentTail DEF WriteDone
  <2>3. Settles(queue[k + 1], j, box, qty)
    BY <2>1, <2>2 DEF LastSettles
  <2>4. QED
    BY <1>1, <2>3 DEF Settles
<1>3. ASSUME NEW j \in Item, Silent(queue', 1, j)
      PROVE  disk'[j] = Live'[j]
  <2>1. Live' = Live
    BY <1>1 DEF Live
  <2>2. PICK q \in (IF w.op = "delete" THEN {0} ELSE {w.qty, qty[w.item]}) :
            disk' = [disk EXCEPT ![w.item] = q]
    BY DEF WriteDone
  <2>3. Silent(queue, 1 + 1, j)
    BY <1>1, <1>3, SilentTail DEF WriteDone
  <2>4. CASE w.item = j
    <3>1. Settles(w, j, box, qty)
      BY <1>1, <2>3, <2>4 DEF LastSettles
    <3>2. q = Live[j]
      BY ONLY <2>2, <2>4, <3>1, j \in Item DEF Settles, Live
    <3>3. QED
      BY <2>1, <2>2, <2>4, <3>2 DEF CartTypeOK
  <2>5. CASE w.item # j
    <3>1. Silent(queue, 1, j)
      BY ONLY <1>1, <2>3, <2>5 DEF Silent
    <3>2. disk[j] = Live[j]
      BY <3>1, FollowsAlt
    <3>3. QED
      BY <2>1, <2>2, <2>5, <3>2 DEF CartTypeOK
  <2>6. QED
    BY <2>4, <2>5
<1>4. DOMAIN queue' = 1..Len(queue')
  BY <1>1
<1>5. LastSettles(queue', box', qty')
  BY ONLY <1>2 DEF LastSettles
<1>6. DiskFollows'
  BY ONLY <1>3, <1>4 DEF DiskFollows, Silent
<1>7. QED
  BY <1>5, <1>6

LEMMA AddToCartSettles ==
    ASSUME CartTypeOK, LastSettles(queue, box, qty), DiskFollows,
           NEW i \in Item, AddToCart(i)
    PROVE  LastSettles(queue', box', qty') /\ DiskFollows'
<1> DEFINE w == [op |-> "add", item |-> i, qty |-> 1, by |-> Len(pages)]
<1>1. 1 \in 0..MaxQty /\ Len(pages) \in Gone..MaxPages
  BY Bounds DEF CartTypeOK, Gone
<1>2. w \in Write /\ w.item = i
  BY <1>1, WriteType, Bounds
<1>3. queue' = Append(queue, w) /\ disk' = disk
  BY DEF AddToCart
<1>4. \A j \in Item \ {i} : (j \in box' <=> j \in box) /\ qty'[j] = qty[j]
  BY DEF AddToCart, CartTypeOK
<1>5. Settles(w, i, box', qty')
  BY DEF AddToCart, CartTypeOK, Settles
<1>6. QED
  BY <1>2, <1>3, <1>4, <1>5, AppendSettles

\* A quantity that is set on a removed object is not saved, and not shown.
LEMMA SetQuantitySettles ==
    ASSUME CartTypeOK, LastSettles(queue, box, qty), DiskFollows,
           NEW i \in Item, NEW n \in 0..MaxQty, SetQuantity(i, n)
    PROVE  LastSettles(queue', box', qty') /\ DiskFollows'
<1> DEFINE w == [op |-> "put", item |-> i, qty |-> n, by |-> Tab]
<1>1. w \in Write /\ w.item = i
  BY WriteType, Bounds
<1>2. /\ disk' = disk /\ box' = box
      /\ \A j \in Item \ {i} : qty'[j] = qty[j]
  BY DEF SetQuantity, CartTypeOK
<1>3. CASE i \in box
  <2>1. queue' = Append(queue, w)
    BY <1>3 DEF SetQuantity
  <2>2. Settles(w, i, box', qty')
    BY <1>2, <1>3 DEF SetQuantity, CartTypeOK, Settles
  <2>3. QED
    BY <1>1, <1>2, <2>1, <2>2, AppendSettles
<1>4. CASE i \notin box
  <2>1. queue' = queue
    BY <1>4 DEF SetQuantity
  <2>2. Live' = Live
    BY <1>2, <1>4 DEF Live
  <2>3. DiskFollows'
    BY ONLY <1>2, <2>1, <2>2, DiskFollows DEF DiskFollows
  <2>4. LastSettles(queue', box', qty')
    BY <1>2, <1>4, <2>1 DEF LastSettles, Settles
  <2>5. QED
    BY <2>3, <2>4
<1>5. QED
  BY <1>3, <1>4

LEMMA DeleteRowSettles ==
    ASSUME CartTypeOK, LastSettles(queue, box, qty), DiskFollows,
           NEW i \in Item, DeleteRow(i)
    PROVE  LastSettles(queue', box', qty') /\ DiskFollows'
<1> DEFINE w == [op |-> "delete", item |-> i, qty |-> 0, by |-> Tab]
<1>1. 0 \in 0..MaxQty
  BY Bounds
<1>2. w \in Write /\ w.item = i
  BY <1>1, WriteType, Bounds
<1>3. queue' = Append(queue, w) /\ disk' = disk
  BY DEF DeleteRow
<1>4. \A j \in Item \ {i} : (j \in box' <=> j \in box) /\ qty'[j] = qty[j]
  BY DEF DeleteRow
<1>5. Settles(w, i, box', qty')
  BY DEF DeleteRow, Settles
<1>6. QED
  BY <1>2, <1>3, <1>4, <1>5, AppendSettles

LEMMA CartRestartSettles ==
    ASSUME CartTypeOK, CartRestart
    PROVE  LastSettles(queue', box', qty') /\ DiskFollows'
<1>1. queue' = <<>>
  BY DEF CartRestart
<1>2. \A i \in Item : disk'[i] = Live'[i]
  BY Bounds DEF CartRestart, Live, CartTypeOK
<1>3. QED
  BY <1>1, <1>2 DEF LastSettles, DiskFollows

LEMMA DiskInit == CartInit => DiskInv
<1> SUFFICES ASSUME CartInit PROVE DiskInv
  OBVIOUS
<1>1. queue = <<>> /\ \A i \in Item : disk[i] = Live[i]
  BY DEF CartInit, Live, Nothing
<1>2. LastSettles(queue, box, qty) /\ DiskFollows
  BY <1>1 DEF LastSettles, DiskFollows
<1>3. QED
  BY <1>2, CartTypeInit DEF DiskInv

LEMMA DiskNext == DiskInv /\ [CartNext]_cartVars => DiskInv'
<1> SUFFICES ASSUME DiskInv, [CartNext]_cartVars PROVE DiskInv'
  OBVIOUS
<1>0. CartTypeOK /\ LastSettles(queue, box, qty) /\ DiskFollows /\ CartTypeOK'
  BY CartTypeNext DEF DiskInv
<1>1. ASSUME NEW n \in Int, queue' \in {queue, Orphaned(n, queue)},
             UNCHANGED <<qty, box, disk>>
      PROVE  DiskInv'
  BY <1>0, <1>1, OrphanedSettles DEF DiskInv
<1>2. CASE OpenCart \/ GoToCart \/ LeaveCart
  BY <1>1, <1>2, TabIsANumber DEF OpenCart, GoToCart, ShowCart, LeaveCart
<1>3. CASE LeaveDetails
  BY <1>0, <1>1, <1>3, LeftPages, CartPagesOK DEF LeaveDetails
<1>8. CASE UNCHANGED cartVars \/ HeartDone \/ \E p \in Product : OpenDetails(p)
  BY <1>1, <1>8, TabIsANumber DEF cartVars, HeartDone, OpenDetails
<1>4. ASSUME NEW i \in Item, AddToCart(i) \/ Plus(i) \/ Minus(i) \/ DeleteRow(i)
      PROVE  DiskInv'
  <2>1. CASE AddToCart(i)
    BY <1>0, <2>1, AddToCartSettles DEF DiskInv
  <2>2. CASE Plus(i) \/ Minus(i)
    <3>1. PICK n \in 0..MaxQty : SetQuantity(i, n)
      BY <1>0, <2>2, StepBounds DEF Plus, Minus, CartTypeOK
    <3>2. QED
      BY <1>0, <3>1, SetQuantitySettles DEF DiskInv
  <2>3. CASE DeleteRow(i)
    BY <1>0, <2>3, DeleteRowSettles DEF DiskInv
  <2>4. QED
    BY <1>4, <2>1, <2>2, <2>3
<1>5. CASE WriteDone
  BY <1>0, <1>5, WriteDoneSettles DEF DiskInv
<1>6. CASE CartRestart
  BY <1>0, <1>6, CartRestartSettles DEF DiskInv
<1>7. QED
  BY <1>2, <1>3, <1>4, <1>5, <1>6, <1>8 DEF CartNext, UserStep

\* For any number of rows, of pending writes and of restarts: a row none of
\* whose writes is pending is on disk exactly as it is in memory.
THEOREM DiskAlwaysFollows == CartSpec => []DiskFollows
<1>1. DiskInv => DiskFollows
  BY DEF DiskInv
<1>2. QED
  BY <1>1, DiskInit, DiskNext, PTL DEF CartSpec

-----------------------------------------------------------------------------
(***************************************************************************)
(* The Cart tab shows the box                                              *)
(***************************************************************************)

TabShows == priced = Live /\ badge = Cardinality(box)

\* No refresh is to come after the pending writes: the last one has no listener.
NoRefresh(q) == q = <<>> \/ q[Len(q)].by = Gone

\* While the Cart tab is open, a pending callback is its own getCart, and the
\* tab may differ from the box only while the last callback is still to come.
ShownInv ==
    /\ CartTypeOK
    /\ Above
    /\ screen = "cart" =>
         /\ \A k \in 1..Len(queue) : queue[k].by \in {Gone, Tab}
         /\ NoRefresh(queue) => TabShows

LEMMA ShowCartShows ==
    ASSUME ShownInv, ShowCart
    PROVE  ShownInv'
<1>1. CartTypeOK'
  BY ShowCartType DEF ShownInv
<1>2. /\ queue \in Seq(Write) /\ queue' \in Seq(Write) /\ Len(queue') = Len(queue)
      /\ queue' = Orphaned(Tab, queue)
  BY OrphanedType, TabIsANumber DEF ShownInv, CartTypeOK, ShowCart
<1>3. ASSUME NEW k \in 1..Len(queue') PROVE queue'[k].by \in {Gone, Tab}
  <2>1. queue[k] \in Write /\ k \in 1..Len(queue)
    BY <1>2
  <2>2. queue'[k].by = IF queue[k].by >= Tab THEN Gone ELSE queue[k].by
    BY <1>2, <2>1, OrphanedWrite, TabIsANumber
  <2>3. QED
    BY ONLY <2>1, <2>2 DEF Write, Tab, Gone
<1>4. TabShows'
  BY DEF ShowCart, getCart, TabShows, Live
<1>5. pages' = <<>>
  BY DEF ShowCart
<1>6. QED
  BY <1>1, <1>3, <1>4, <1>5 DEF ShownInv, Above

\* A tap appends a write with a listener: its getCart is still to come.
LEMMA TapShows ==
    ASSUME ShownInv, CartTypeOK', screen = "cart", UNCHANGED <<screen, pages>>,
           NEW w \in Write, w.by = Tab, queue' = Append(queue, w)
    PROVE  ShownInv'
<1>1. /\ queue \in Seq(Write) /\ Len(queue) \in Nat /\ Len(queue') = Len(queue) + 1
      /\ \A k \in 1..Len(queue) : queue'[k] = queue[k]
      /\ queue'[Len(queue) + 1] = w
  BY AppendProperties DEF ShownInv, CartTypeOK
<1>2. ~NoRefresh(queue')
  BY <1>1 DEF NoRefresh, Tab, Gone
<1>3. \A k \in 1..Len(queue') : queue'[k].by \in {Gone, Tab}
  <2>1. ASSUME NEW k \in 1..Len(queue'), k # Len(queue) + 1 PROVE k \in 1..Len(queue)
    BY <1>1, <2>1
  <2>2. QED
    BY <1>1, <2>1 DEF ShownInv
<1>4. QED
  BY <1>2, <1>3 DEF ShownInv, Above

LEMMA SetQuantityShows ==
    ASSUME ShownInv, NEW i \in Item, NEW n \in 0..MaxQty, SetQuantity(i, n)
    PROVE  ShownInv'
<1> DEFINE w == [op |-> "put", item |-> i, qty |-> n, by |-> Tab]
<1>1. CartTypeOK' /\ screen = "cart" /\ UNCHANGED <<screen, pages>>
  BY SetQuantityType DEF ShownInv, SetQuantity
<1>2. CASE i \in box
  <2>1. w \in Write /\ w.by = Tab /\ queue' = Append(queue, w)
    BY <1>2, WriteType, Bounds DEF SetQuantity
  <2>2. QED
    BY <1>1, <2>1, TapShows
<1>3. CASE i \notin box
  <2>1. Live' = Live
    BY <1>3 DEF SetQuantity, Live, ShownInv, CartTypeOK
  <2>2. QED
    BY <1>1, <1>3, <2>1 DEF SetQuantity, ShownInv, TabShows, NoRefresh, Above
<1>4. QED
  BY <1>2, <1>3

LEMMA DeleteRowShows ==
    ASSUME ShownInv, NEW i \in Item, DeleteRow(i)
    PROVE  ShownInv'
<1> DEFINE w == [op |-> "delete", item |-> i, qty |-> 0, by |-> Tab]
<1>1. 0 \in 0..MaxQty
  BY Bounds
<1>2. w \in Write /\ w.by = Tab
  BY <1>1, WriteType, Bounds
<1>3. CartTypeOK' /\ screen = "cart" /\ UNCHANGED <<screen, pages>> /\ queue' = Append(queue, w)
  BY DeleteRowType DEF ShownInv, DeleteRow
<1>4. QED
  BY <1>2, <1>3, TapShows

\* A callback refreshes the tab; without one the tab stays as it is, and either
\* a later callback is still to come or the tab showed the box already.
LEMMA WriteDoneShows ==
    ASSUME ShownInv, WriteDone
    PROVE  ShownInv'
<1>1. CartTypeOK' /\ UNCHANGED screen /\ Above'
  BY WriteDoneType, AboveNext, CartPagesOK DEF ShownInv, WriteDone, CartNext
<1>2. SUFFICES ASSUME screen = "cart"
               PROVE  /\ \A k \in 1..Len(queue') : queue'[k].by \in {Gone, Tab}
                      /\ NoRefresh(queue') => TabShows'
  BY <1>1 DEF ShownInv
<1>3. /\ queue # <<>> /\ queue' = Tail(queue) /\ Head(queue) = queue[1]
      /\ Len(queue) \in Nat \ {0} /\ Len(queue') = Len(queue) - 1
      /\ \A k \in 1..Len(queue') : queue'[k] = queue[k + 1]
  BY HeadTail DEF ShownInv, CartTypeOK, WriteDone
<1>4. \A k \in 1..Len(queue') : queue'[k].by \in {Gone, Tab}
  <2>1. \A k \in 1..Len(queue') : k + 1 \in 1..Len(queue)
    BY <1>3
  <2>2. QED
    BY <1>2, <1>3, <2>1 DEF ShownInv
<1>5. Live' = Live /\ box' = box
  BY DEF WriteDone, Live
<1>6. CASE queue[1].by = Tab
  <2>1. getCart
    BY <1>3, <1>6 DEF WriteDone, Callback, Tab, Gone
  <2>2. QED
    BY <1>4, <1>5, <2>1 DEF getCart, TabShows
<1>7. CASE queue[1].by = Gone
  <2>1. priced' = priced /\ badge' = badge
    BY <1>3, <1>7 DEF WriteDone, Callback, Tab, Gone
  <2>2. NoRefresh(queue') => NoRefresh(queue)
    <3>1. CASE Len(queue) = 1
      BY <1>7, <3>1 DEF NoRefresh
    <3>2. CASE Len(queue) # 1
      <4>1. Len(queue') \in 1..Len(queue') /\ Len(queue') + 1 = Len(queue) /\ queue' # <<>>
        BY <1>3, <3>2
      <4>2. QED
        BY <1>3, <4>1 DEF NoRefresh
    <3>3. QED
      BY <3>1, <3>2
  <2>3. QED
    BY <1>2, <1>4, <1>5, <2>1, <2>2 DEF ShownInv, TabShows
<1>8. queue[1].by \in {Gone, Tab}
  <2>1. 1 \in 1..Len(queue)
    BY <1>3
  <2>2. QED
    BY <1>2, <2>1 DEF ShownInv
<1>9. QED
  BY <1>6, <1>7, <1>8

LEMMA ShownNext == ShownInv /\ [CartNext]_cartVars => ShownInv'
<1> SUFFICES ASSUME ShownInv, [CartNext]_cartVars PROVE ShownInv'
  OBVIOUS
<1>1. CartTypeOK' /\ Above'
  BY CartTypeNext, AboveNext, CartPagesOK DEF ShownInv
<1>2. CASE UNCHANGED cartVars
  BY <1>1, <1>2 DEF cartVars, ShownInv, TabShows, Live, NoRefresh
<1>3. CASE OpenCart \/ GoToCart
  BY <1>3, ShowCartShows DEF OpenCart, GoToCart
<1>4. CASE \/ LeaveCart \/ LeaveDetails \/ HeartDone \/ CartRestart
           \/ \E p \in Product : OpenDetails(p)
  <2>1. CASE HeartDone
    <3>1. pages # <<>> /\ screen' = screen
      BY <2>1 DEF HeartDone
    <3>2. QED
      BY <1>1, <3>1 DEF ShownInv, Above
  <2>2. CASE ~HeartDone
    <3>1. screen' = "home"
      BY <1>4, <2>2 DEF LeaveCart, LeaveDetails, CartRestart, OpenDetails, ShownInv, Above
    <3>2. QED
      BY <1>1, <3>1 DEF ShownInv
  <2>3. QED
    BY <2>1, <2>2
<1>5. ASSUME NEW i \in Item, AddToCart(i) \/ Plus(i) \/ Minus(i) \/ DeleteRow(i)
      PROVE  ShownInv'
  <2>1. CASE AddToCart(i)
    <3>1. screen' = "home"
      BY <2>1 DEF AddToCart, ShownInv, Above
    <3>2. QED
      BY <1>1, <3>1 DEF ShownInv
  <2>2. CASE Plus(i) \/ Minus(i)
    <3>1. PICK n \in 0..MaxQty : SetQuantity(i, n)
      BY <2>2, StepBounds DEF Plus, Minus, ShownInv, CartTypeOK
    <3>2. QED
      BY <3>1, SetQuantityShows
  <2>3. CASE DeleteRow(i)
    BY <2>3, DeleteRowShows
  <2>4. QED
    BY <1>5, <2>1, <2>2, <2>3
<1>6. CASE WriteDone
  BY <1>6, WriteDoneShows
<1>7. QED
  BY <1>2, <1>3, <1>4, <1>5, <1>6 DEF CartNext, UserStep

\* For any number of rows and of pending writes: an open Cart tab whose writes
\* are all done shows every row of the box with its quantity, and the badge
\* counts them, however taps, callbacks and tab changes are interleaved.
THEOREM TabAlwaysShows == CartSpec => []CartShowsBox
<1>1. CartInit => ShownInv
  BY CartTypeInit DEF CartInit, ShownInv, Above
<1>2. ShownInv => CartShowsBox
  BY DEF ShownInv, CartShowsBox, NoRefresh, TabShows
<1>3. QED
  BY <1>1, <1>2, ShownNext, PTL DEF CartSpec

-----------------------------------------------------------------------------
(***************************************************************************)
(* One row per product                                                     *)
(***************************************************************************)

\* The record of i is in file d once the first k writes of q are done.
Kept(q, d, i, k) ==
    IF \E m \in 1..k : q[m].item = i
      THEN \E m \in 1..k : /\ q[m].item = i /\ q[m].op # "delete"
                           /\ \A n \in (m + 1)..k : q[n].item # i
      ELSE d[i] > 0

\* Whenever the process dies, what is found then has one row per product: the
\* add of a second row can only follow the delete of the first.
OnePerProduct ==
    \A k \in 0..Len(queue), i, j \in Item :
        i # j /\ ProductOf[i] = ProductOf[j] /\ Kept(queue, disk, i, k) /\ Kept(queue, disk, j, k)
            => ProductOf[i] \in again

\* The memory is what the file will be.
BoxIsKept == \A i \in Item : i \in box <=> Kept(queue, disk, i, Len(queue))

\* Every pending write is about one object, and one that is stored has a quantity.
Stored ==
    \A k \in 1..Len(queue) :
        /\ queue[k].item \in Item
        /\ queue[k].op # "delete" => queue[k].qty > 0 /\ qty[queue[k].item] > 0

\* A Details page offers ADD TO CART for a product of the box only while it
\* waits for its own add, whose callback will see the box, or once another page
\* of the product has lain above it.
Stopped ==
    \A k \in 1..Len(pages) :
        HasProduct(pages[k].of) /\ ~pages[k].inCart
            => pages[k].behind \/ \E m \in 1..Len(queue) : queue[m].op = "add" /\ queue[m].by = k

\* The pages of a product below another one know that they are behind.
Shaded ==
    \A k \in 1..Len(pages), j \in 1..Len(pages) :
        k < j /\ pages[k].of = pages[j].of => pages[k].behind

RowParts == OnePerProduct /\ BoxIsKept /\ Stored /\ Stopped /\ Shaded

OneRowInv == CartTypeOK /\ Above /\ RowParts

LEMMA OneRowImplies == OneRowInv => RowPerProduct
<1> SUFFICES ASSUME OneRowInv, NEW i \in box, NEW j \in box,
                    i # j, ProductOf[i] = ProductOf[j]
             PROVE  ProductOf[i] \in again
  BY DEF RowPerProduct
<1>1. i \in Item /\ j \in Item /\ Len(queue) \in 0..Len(queue)
  BY DEF OneRowInv, RowParts, CartTypeOK
<1>2. Kept(queue, disk, i, Len(queue)) /\ Kept(queue, disk, j, Len(queue))
  BY <1>1 DEF OneRowInv, RowParts, BoxIsKept
<1>3. QED
  BY <1>1, <1>2 DEF OneRowInv, RowParts, OnePerProduct

\* What is kept depends on the rows and the kinds of the writes alone.
LEMMA KeptSame ==
    ASSUME NEW p, NEW q, NEW d, NEW i, NEW k,
           \A m \in 1..k : p[m].item = q[m].item /\ p[m].op = q[m].op,
           \A m \in 1..k : \A n \in (m + 1)..k : p[n].item = q[n].item
    PROVE  Kept(p, d, i, k) <=> Kept(q, d, i, k)
<1>1. (\E m \in 1..k : p[m].item = i) <=> (\E m \in 1..k : q[m].item = i)
  OBVIOUS
<1>2. ASSUME NEW m \in 1..k
      PROVE  (\A n \in (m + 1)..k : p[n].item # i) <=> (\A n \in (m + 1)..k : q[n].item # i)
  OBVIOUS
<1> QED
  BY <1>1, <1>2, Zenon DEF Kept

\* A page change may take the listeners away: the file and the memory stay.
LEMMA PageKeepsRows ==
    ASSUME OneRowInv, NEW d \in Int, queue' \in {queue, Orphaned(d, queue)},
           UNCHANGED <<box, disk, again>>,
           \A i \in Item : qty[i] > 0 => qty'[i] > 0
    PROVE  OnePerProduct' /\ BoxIsKept' /\ Stored'
<1>1. queue \in Seq(Write) /\ queue' \in Seq(Write) /\ Len(queue') = Len(queue)
      /\ Len(queue) \in Nat
  BY OrphanedType DEF OneRowInv, RowParts, CartTypeOK
<1>2. \A k \in 1..Len(queue) : /\ queue'[k].op = queue[k].op
                               /\ queue'[k].item = queue[k].item
                               /\ queue'[k].qty = queue[k].qty
  BY <1>1, OrphanedWrite
<1>3. ASSUME NEW k \in 0..Len(queue), NEW i \in Item
      PROVE  Kept(queue', disk', i, k) <=> Kept(queue, disk, i, k)
  <2>1. \A m \in 1..k : m \in 1..Len(queue) /\ \A n \in (m + 1)..k : n \in 1..Len(queue)
    BY <1>1
  <2>2. disk' = disk
    OBVIOUS
  <2>3. /\ \A m \in 1..k : queue'[m].item = queue[m].item /\ queue'[m].op = queue[m].op
        /\ \A m \in 1..k : \A n \in (m + 1)..k : queue'[n].item = queue[n].item
    BY ONLY <1>2, <2>1
  <2>4. QED
    BY <2>2, <2>3, KeptSame
<1>4. OnePerProduct'
  BY <1>1, <1>3 DEF OneRowInv, RowParts, OnePerProduct
<1>5. BoxIsKept'
  <2>1. Len(queue) \in 0..Len(queue)
    BY <1>1
  <2>2. QED
    BY <1>1, <1>3, <2>1 DEF OneRowInv, RowParts, BoxIsKept
<1>6. Stored'
  BY <1>1, <1>2 DEF OneRowInv, RowParts, Stored
<1>7. QED
  BY <1>4, <1>5, <1>6

\* The appended write decides what is kept of its object; the rest stays.
LEMMA AppendKept ==
    ASSUME OneRowInv, NEW w \in Write, w.item \in Item,
           queue' = Append(queue, w), disk' = disk
    PROVE  /\ Len(queue') = Len(queue) + 1 /\ Len(queue) \in Nat
           /\ \A k \in 1..Len(queue) : queue'[k] = queue[k]
           /\ queue'[Len(queue) + 1] = w
           /\ \A k \in 0..Len(queue), i \in Item : Kept(queue', disk', i, k) <=> Kept(queue, disk, i, k)
           /\ \A i \in Item \ {w.item} : Kept(queue', disk', i, Len(queue')) <=> Kept(queue, disk, i, Len(queue))
           /\ Kept(queue', disk', w.item, Len(queue')) <=> w.op # "delete"
<1>1. /\ queue \in Seq(Write) /\ Len(queue) \in Nat /\ Len(queue') = Len(queue) + 1
      /\ \A k \in 1..Len(queue) : queue'[k] = queue[k]
      /\ queue'[Len(queue) + 1] = w
  BY AppendProperties DEF OneRowInv, RowParts, CartTypeOK
<1>2. ASSUME NEW k \in 0..Len(queue), NEW i \in Item
      PROVE  Kept(queue', disk', i, k) <=> Kept(queue, disk, i, k)
  <2>1. \A m \in 1..k : m \in 1..Len(queue) /\ \A n \in (m + 1)..k : n \in 1..Len(queue)
    BY <1>1
  <2>2. QED
    BY <1>1, <2>1 DEF Kept
<1>3. ASSUME NEW i \in Item \ {w.item}
      PROVE  Kept(queue', disk', i, Len(queue')) <=> Kept(queue, disk, i, Len(queue))
  <2>1. \A m \in 1..Len(queue') : queue'[m].item = i => m \in 1..Len(queue)
    BY <1>1
  <2>2. \A m \in 1..Len(queue) : m \in 1..Len(queue') /\ queue'[m] = queue[m]
    BY <1>1
  <2>3. \A m \in 1..Len(queue) :
            (\A n \in (m + 1)..Len(queue') : queue'[n].item # i)
              <=> (\A n \in (m + 1)..Len(queue) : queue[n].item # i)
    BY <1>1
  <2>4. (\E m \in 1..Len(queue') : queue'[m].item = i)
          <=> (\E m \in 1..Len(queue) : queue[m].item = i)
    BY <2>1, <2>2
  <2>5. QED
    BY <1>3, <2>1, <2>2, <2>3, <2>4 DEF Kept
<1>4. Kept(queue', disk', w.item, Len(queue')) <=> w.op # "delete"
  <2>1. /\ Len(queue') \in 1..Len(queue') /\ queue'[Len(queue')] = w
        /\ \A n \in (Len(queue') + 1)..Len(queue') : FALSE
    BY <1>1
  <2>2. ASSUME NEW m \in 1..Len(queue'), m # Len(queue')
        PROVE  Len(queue') \in (m + 1)..Len(queue')
    BY <1>1, <2>2
  <2>3. QED
    BY <2>1, <2>2 DEF Kept
<1>5. QED
  BY <1>1, <1>2, <1>3, <1>4

LEMMA AddToCartOneRow ==
    ASSUME OneRowInv, NEW x \in Item, AddToCart(x)
    PROVE  RowParts'
<1> DEFINE top == Len(pages)
           w == [op |-> "add", item |-> x, qty |-> 1, by |-> top]
<1>0. 1 \in 0..MaxQty /\ top \in Gone..MaxPages /\ top \in 1..Len(pages)
  BY Bounds DEF OneRowInv, RowParts, CartTypeOK, AddToCart, Gone
<1>1. w \in Write /\ w.item = x /\ w.op = "add" /\ w.by = top /\ w.qty = 1
  BY <1>0, WriteType
<1>2. queue' = Append(queue, w) /\ disk' = disk
  BY DEF AddToCart
<1>3. /\ Len(queue') = Len(queue) + 1 /\ Len(queue) \in Nat
      /\ \A k \in 1..Len(queue) : queue'[k] = queue[k]
      /\ queue'[Len(queue) + 1] = w
      /\ \A k \in 0..Len(queue), i \in Item : Kept(queue', disk', i, k) <=> Kept(queue, disk, i, k)
      /\ \A i \in Item \ {x} : Kept(queue', disk', i, Len(queue')) <=> Kept(queue, disk, i, Len(queue))
      /\ Kept(queue', disk', x, Len(queue'))
  BY <1>1, <1>2, AppendKept
<1>4. /\ pages[top].of = ProductOf[x] /\ ~pages[top].inCart /\ pages' = pages
      /\ box' = box \cup {x} /\ again \subseteq again'
      /\ \A i \in Item : qty'[i] = IF i = x THEN 1 ELSE qty[i]
  BY DEF AddToCart, OneRowInv, RowParts, CartTypeOK
<1>5. BoxIsKept'
  BY <1>3, <1>4 DEF OneRowInv, RowParts, BoxIsKept
<1>6. ASSUME NEW j \in Item, j # x, ProductOf[j] = ProductOf[x], Kept(queue, disk, j, Len(queue))
      PROVE  ProductOf[x] \in again'
  <2>1. HasProduct(pages[top].of)
    BY <1>4, <1>6 DEF OneRowInv, RowParts, BoxIsKept, HasProduct
  <2>2. pages[top].behind \/ \E k \in 1..Len(queue) : queue[k].op = "add" /\ queue[k].by = top
    BY <1>0, <1>4, <2>1 DEF OneRowInv, RowParts, Stopped
  <2>3. pages[top].behind \/ Adding(top)
    BY <2>2 DEF Adding, OneRowInv, RowParts, CartTypeOK
  <2>4. again' = again \cup {ProductOf[x]}
    BY <2>3 DEF AddToCart
  <2>5. QED
    BY <2>4
<1>7. ASSUME NEW k \in 0..Len(queue'), NEW i \in Item, NEW j \in Item, i # j,
             ProductOf[i] = ProductOf[j], Kept(queue', disk', i, k), Kept(queue', disk', j, k)
      PROVE  ProductOf[i] \in again'
  <2>1. CASE k \in 0..Len(queue)
    BY <1>3, <1>4, <1>7, <2>1 DEF OneRowInv, RowParts, OnePerProduct
  <2>2. CASE k = Len(queue')
    <3>1. CASE i # x /\ j # x
      <4>1. Kept(queue, disk, i, Len(queue)) /\ Kept(queue, disk, j, Len(queue)) /\ Len(queue) \in 0..Len(queue)
        BY <1>3, <1>7, <2>2, <3>1
      <4>2. QED
        BY <1>4, <1>7, <4>1 DEF OneRowInv, RowParts, OnePerProduct
    <3>2. CASE i = x
      BY <1>3, <1>6, <1>7, <2>2, <3>2
    <3>3. CASE j = x
      BY <1>3, <1>6, <1>7, <2>2, <3>3
    <3>4. QED
      BY <3>1, <3>2, <3>3
  <2>3. QED
    BY <1>3, <2>1, <2>2
<1>8. Stored'
  BY <1>1, <1>3, <1>4 DEF OneRowInv, RowParts, Stored
<1>9. Stopped'
  <2>1. ASSUME NEW k \in 1..Len(pages), HasProduct(pages[k].of)', ~pages[k].inCart, ~pages[k].behind
        PROVE  \E m \in 1..Len(queue') : queue'[m].op = "add" /\ queue'[m].by = k
    <3>1. CASE pages[k].of = ProductOf[x]
      <4>1. k = top
        <5>1. ~(k < top)
          BY <1>0, <1>4, <2>1, <3>1 DEF OneRowInv, RowParts, Shaded
        <5>2. QED
          BY <1>0, <2>1, <5>1 DEF OneRowInv, RowParts, CartTypeOK
      <4>2. Len(queue) + 1 \in 1..Len(queue')
        BY <1>3
      <4>3. QED
        BY <1>1, <1>3, <4>1, <4>2
    <3>2. CASE pages[k].of # ProductOf[x]
      <4>1. HasProduct(pages[k].of)
        BY <1>4, <2>1, <3>2 DEF HasProduct
      <4>2. PICK m \in 1..Len(queue) : queue[m].op = "add" /\ queue[m].by = k
        BY <2>1, <4>1 DEF OneRowInv, RowParts, Stopped
      <4>3. m \in 1..Len(queue') /\ queue'[m] = queue[m]
        BY <1>3
      <4>4. QED
        BY <4>2, <4>3
    <3>3. QED
      BY <3>1, <3>2
  <2>2. QED
    BY <1>4, <2>1 DEF Stopped, HasProduct
<1>12. Shaded'
  BY <1>4 DEF OneRowInv, RowParts, Shaded
<1>10. OnePerProduct'
  BY <1>7 DEF OnePerProduct
<1>11. QED
  BY <1>2, <1>5, <1>8, <1>9, <1>10, <1>12 DEF OneRowInv, RowParts

\* A write of the Cart tab, about an object of the box, adds none.
LEMMA TapOneRow ==
    ASSUME OneRowInv, NEW w \in Write, NEW x \in Item, w.item = x,
           x \in box, queue' = Append(queue, w), disk' = disk, again' = again,
           box' = IF w.op = "delete" THEN box \ {x} ELSE box,
           w.op # "delete" => w.qty > 0,
           \A i \in Item : qty[i] > 0 => qty'[i] > 0, qty'[x] > 0,
           pages' = pages
    PROVE  RowParts'
<1>3. /\ Len(queue') = Len(queue) + 1 /\ Len(queue) \in Nat
      /\ \A k \in 1..Len(queue) : queue'[k] = queue[k]
      /\ queue'[Len(queue) + 1] = w
      /\ \A k \in 0..Len(queue), i \in Item : Kept(queue', disk', i, k) <=> Kept(queue, disk, i, k)
      /\ \A i \in Item \ {x} : Kept(queue', disk', i, Len(queue')) <=> Kept(queue, disk, i, Len(queue))
      /\ Kept(queue', disk', x, Len(queue')) <=> w.op # "delete"
  BY AppendKept
<1>4. BoxIsKept'
  BY <1>3 DEF OneRowInv, RowParts, BoxIsKept
<1>5. \A i \in Item : Kept(queue', disk', i, Len(queue')) => Kept(queue, disk, i, Len(queue))
  BY <1>3 DEF OneRowInv, RowParts, BoxIsKept
<1>6. ASSUME NEW k \in 0..Len(queue'), NEW i \in Item, NEW j \in Item, i # j,
             ProductOf[i] = ProductOf[j], Kept(queue', disk', i, k), Kept(queue', disk', j, k)
      PROVE  ProductOf[i] \in again'
  <2>1. PICK l \in 0..Len(queue) : Kept(queue, disk, i, l) /\ Kept(queue, disk, j, l)
    <3>1. CASE k \in 0..Len(queue)
      BY <1>3, <1>6, <3>1
    <3>2. CASE k = Len(queue')
      <4>1. Len(queue) \in 0..Len(queue)
        BY <1>3
      <4>2. QED
        BY <1>5, <1>6, <3>2, <4>1
    <3>3. QED
      BY <1>3, <3>1, <3>2
  <2>2. QED
    BY <1>6, <2>1 DEF OneRowInv, RowParts, OnePerProduct
<1>7. Stored'
  BY <1>3 DEF OneRowInv, RowParts, Stored
<1>8. Stopped' /\ Shaded'
  <2>1. ASSUME NEW k \in 1..Len(pages), HasProduct(pages[k].of)', ~pages[k].inCart, ~pages[k].behind
        PROVE  \E m \in 1..Len(queue') : queue'[m].op = "add" /\ queue'[m].by = k
    <3>1. HasProduct(pages[k].of)
      BY <2>1 DEF HasProduct
    <3>2. PICK m \in 1..Len(queue) : queue[m].op = "add" /\ queue[m].by = k
      BY <2>1, <3>1 DEF OneRowInv, RowParts, Stopped
    <3>3. m \in 1..Len(queue') /\ queue'[m] = queue[m]
      BY <1>3
    <3>4. QED
      BY <3>2, <3>3
  <2>2. QED
    BY <2>1 DEF OneRowInv, RowParts, Stopped, Shaded, HasProduct
<1>9. OnePerProduct'
  BY <1>6 DEF OnePerProduct
<1>10. QED
  BY <1>4, <1>7, <1>8, <1>9 DEF OneRowInv, RowParts

LEMMA SetQuantityOneRow ==
    ASSUME OneRowInv, NEW x \in Item, NEW n \in 0..MaxQty, n > 0, SetQuantity(x, n)
    PROVE  RowParts'
<1> DEFINE w == [op |-> "put", item |-> x, qty |-> n, by |-> Tab]
<1>1. w \in Write /\ w.item = x /\ w.op = "put" /\ w.qty = n
  BY WriteType, Bounds
<1>2. /\ pages' = pages
      /\ UNCHANGED <<box, disk, again>>
      /\ qty'[x] > 0 /\ \A i \in Item : qty[i] > 0 => qty'[i] > 0
  BY DEF SetQuantity, OneRowInv, RowParts, CartTypeOK
<1>3. CASE x \in box
  <2>1. queue' = Append(queue, w)
    BY <1>3 DEF SetQuantity
  <2>2. QED
    BY <1>1, <1>2, <1>3, <2>1, TapOneRow
<1>4. CASE x \notin box
  <2>1. OnePerProduct' /\ BoxIsKept' /\ Stored'
    BY <1>2, <1>4, PageKeepsRows, TabIsANumber DEF SetQuantity
  <2>2. Stopped' /\ Shaded'
    BY <1>2, <1>4 DEF SetQuantity, OneRowInv, RowParts, Stopped, Shaded, HasProduct
  <2>3. QED
    BY <1>2, <2>1, <2>2 DEF OneRowInv, RowParts
<1>5. QED
  BY <1>3, <1>4

LEMMA DeleteRowOneRow ==
    ASSUME OneRowInv, NEW x \in Item, DeleteRow(x)
    PROVE  RowParts'
<1> DEFINE w == [op |-> "delete", item |-> x, qty |-> 0, by |-> Tab]
<1>0. 0 \in 0..MaxQty
  BY Bounds
<1>1. w \in Write /\ w.item = x /\ w.op = "delete"
  BY <1>0, WriteType, Bounds
<1>2. /\ pages' = pages /\ x \in box
      /\ queue' = Append(queue, w) /\ box' = box \ {x}
      /\ UNCHANGED <<disk, again>>
      /\ qty'[x] > 0 /\ \A i \in Item : qty[i] > 0 => qty'[i] > 0
  BY DEF DeleteRow, OneRowInv, RowParts
<1>3. QED
  BY <1>1, <1>2, TapOneRow

\* The file after the oldest write: what was kept after k + 1 writes is kept
\* after k.
LEMMA WriteDoneKept ==
    ASSUME OneRowInv, WriteDone, NEW k \in 0..Len(queue'), NEW i \in Item
    PROVE  Kept(queue', disk', i, k) <=> Kept(queue, disk, i, k + 1)
<1> DEFINE w == queue[1]
<1>1. /\ queue # <<>> /\ queue' = Tail(queue) /\ Head(queue) = w
      /\ Len(queue) \in Nat \ {0} /\ Len(queue') = Len(queue) - 1
      /\ \A m \in 1..Len(queue') : queue'[m] = queue[m + 1]
  BY HeadTail DEF OneRowInv, RowParts, CartTypeOK, WriteDone
<1>2. /\ w.item \in Item
      /\ w.op # "delete" => w.qty > 0 /\ qty[w.item] > 0
  <2>1. 1 \in 1..Len(queue)
    BY <1>1
  <2>2. QED
    BY <2>1 DEF OneRowInv, RowParts, Stored
<1>3. PICK q \in (IF w.op = "delete" THEN {0} ELSE {w.qty, qty[w.item]}) :
            disk' = [disk EXCEPT ![w.item] = q]
  BY <1>1 DEF WriteDone
<1>4. /\ disk'[w.item] > 0 <=> w.op # "delete"
      /\ i # w.item => disk'[i] = disk[i]
  <2>1. q > 0 <=> w.op # "delete"
    BY <1>2, <1>3
  <2>2. disk'[w.item] = q /\ (i # w.item => disk'[i] = disk[i])
    BY <1>2, <1>3 DEF OneRowInv, RowParts, CartTypeOK
  <2>3. QED
    BY <2>1, <2>2
<1>5. \A m \in 1..k : m + 1 \in 2..(k + 1) /\ queue'[m] = queue[m + 1]
  BY <1>1
<1>6. \A m \in 2..(k + 1) : m - 1 \in 1..k /\ queue'[m - 1] = queue[m]
  <2>1. \A m \in 2..(k + 1) : m - 1 \in 1..Len(queue') /\ (m - 1) + 1 = m
    BY <1>1
  <2>2. QED
    BY <1>1, <2>1
<1>7. CASE \E m \in 1..k : queue'[m].item = i
  <2>1. \E m \in 1..(k + 1) : queue[m].item = i
    BY <1>5, <1>7
  <2>2. ASSUME NEW m \in 1..k, queue'[m].item = i, queue'[m].op # "delete",
               \A n \in (m + 1)..k : queue'[n].item # i
        PROVE  Kept(queue, disk, i, k + 1)
    <3>1. m + 1 \in 1..(k + 1) /\ queue[m + 1] = queue'[m]
      BY <1>5
    <3>2. ASSUME NEW n \in ((m + 1) + 1)..(k + 1) PROVE queue[n].item # i
      <4>1. n \in 2..(k + 1) /\ n - 1 \in (m + 1)..k
        OBVIOUS
      <4>2. QED
        BY <1>6, <2>2, <4>1
    <3>3. QED
      BY <2>1, <2>2, <3>1, <3>2 DEF Kept
  <2>3. ASSUME NEW m \in 1..(k + 1), queue[m].item = i, queue[m].op # "delete",
               \A n \in (m + 1)..(k + 1) : queue[n].item # i
        PROVE  Kept(queue', disk', i, k)
    <3>1. m # 1
      <4>1. PICK l \in 1..k : queue'[l].item = i
        BY <1>7
      <4>2. queue[l + 1].item = i /\ l + 1 \in 2..(k + 1)
        BY <1>5, <4>1
      <4>3. QED
        BY <2>3, <4>2
    <3>2. m - 1 \in 1..k /\ queue'[m - 1] = queue[m]
      BY <1>6, <3>1
    <3>3. ASSUME NEW n \in ((m - 1) + 1)..k PROVE queue'[n].item # i
      <4>1. n \in 1..k /\ n + 1 \in (m + 1)..(k + 1)
        BY <3>2
      <4>2. QED
        BY <1>5, <2>3, <4>1
    <3>4. QED
      BY <1>7, <2>3, <3>2, <3>3 DEF Kept
  <2>4. QED
    BY <1>7, <2>1, <2>2, <2>3 DEF Kept
<1>8. CASE \A m \in 1..k : queue'[m].item # i
  <2>1. \A m \in 2..(k + 1) : queue[m].item # i
    BY <1>6, <1>8
  <2>2. 1 \in 1..(k + 1) /\ \A m \in 1..(k + 1) : m = 1 \/ m \in 2..(k + 1)
    OBVIOUS
  <2>3. CASE i = w.item
    <3>1. Kept(queue, disk, i, k + 1) <=> w.op # "delete"
      <4>1. \E m \in 1..(k + 1) : queue[m].item = i
        BY <2>2, <2>3
      <4>2. \A n \in (1 + 1)..(k + 1) : queue[n].item # i
        BY <2>1
      <4>3. QED
        BY <2>1, <2>2, <2>3, <4>1, <4>2 DEF Kept
    <3>2. QED
      BY <1>4, <1>8, <2>3, <3>1 DEF Kept
  <2>4. CASE i # w.item
    <3>1. \A m \in 1..(k + 1) : queue[m].item # i
      BY <2>1, <2>2, <2>4
    <3>2. QED
      BY <1>4, <1>8, <2>4, <3>1 DEF Kept
  <2>5. QED
    BY <2>3, <2>4
<1>9. QED
  BY <1>7, <1>8

\* A page that looks at the box knows its product; the others keep what they
\* know, and the adds they wait for.
LEMMA CheckedOneRow ==
    ASSUME OneRowInv, NEW n, checkCart(n), box' = box,
           \A m \in 1..Len(queue) : queue[m].by # n => \E l \in 1..Len(queue') : queue'[l] = queue[m]
    PROVE  Stopped' /\ Shaded'
<1>1. CartTypeOK
  BY DEF OneRowInv, RowParts
<1>2. /\ Len(pages') = Len(pages)
      /\ \A j \in 1..Len(pages) :
             /\ pages'[j].of = pages[j].of
             /\ j # n => pages'[j] = pages[j]
             /\ j = n => /\ pages'[j].inCart = (pages[j].inCart \/ HasProduct(pages[j].of))
                        /\ pages'[j].behind = Covered(j)
  BY <1>1, CheckedPages, CartPagesOK
<1>3. Stopped'
  <2>1. ASSUME NEW k \in 1..Len(pages), HasProduct(pages'[k].of), ~pages'[k].inCart, ~pages'[k].behind
        PROVE  \E m \in 1..Len(queue') : queue'[m].op = "add" /\ queue'[m].by = k
    <3>1. k # n /\ pages'[k] = pages[k]
      BY <1>2, <2>1
    <3>2. PICK m \in 1..Len(queue) : queue[m].op = "add" /\ queue[m].by = k
      BY <2>1, <3>1 DEF OneRowInv, RowParts, Stopped
    <3>3. PICK l \in 1..Len(queue') : queue'[l] = queue[m]
      BY <3>1, <3>2
    <3>4. QED
      BY <3>2, <3>3
  <2>2. QED
    BY <1>2, <2>1 DEF Stopped, HasProduct
<1>4. Shaded'
  <2>1. ASSUME NEW k \in 1..Len(pages), NEW j \in 1..Len(pages), k < j, pages'[k].of = pages'[j].of
        PROVE  pages'[k].behind
    <3>1. pages[k].of = pages[j].of
      BY <1>2, <2>1
    <3>2. Covered(k)
      BY <1>1, <2>1, <3>1 DEF Covered, CartTypeOK
    <3>3. pages[k].behind
      BY <2>1, <3>1 DEF OneRowInv, RowParts, Shaded
    <3>4. QED
      BY <1>2, <3>2, <3>3
  <2>2. QED
    BY <1>2, <2>1 DEF Shaded
<1>5. QED
  BY <1>3, <1>4

LEMMA WriteDoneOneRow ==
    ASSUME OneRowInv, WriteDone
    PROVE  RowParts'
<1>1. /\ queue # <<>> /\ queue' = Tail(queue) /\ Head(queue) = queue[1]
      /\ Len(queue) \in Nat \ {0} /\ Len(queue') = Len(queue) - 1
      /\ \A k \in 1..Len(queue') : queue'[k] = queue[k + 1]
  BY HeadTail DEF OneRowInv, RowParts, CartTypeOK, WriteDone
<1>2. UNCHANGED <<qty, box, screen, again>>
  BY DEF WriteDone
<1>3. OnePerProduct'
  <2>1. \A k \in 0..Len(queue') : k + 1 \in 0..Len(queue)
    BY <1>1
  <2>2. QED
    BY <1>2, <2>1, WriteDoneKept DEF OneRowInv, RowParts, OnePerProduct
<1>4. BoxIsKept'
  <2>1. Len(queue') \in 0..Len(queue') /\ Len(queue') + 1 = Len(queue)
    BY <1>1
  <2>2. \A i \in Item : Kept(queue', disk', i, Len(queue'))
                           <=> Kept(queue, disk, i, Len(queue))
    BY <2>1, WriteDoneKept
  <2>3. QED
    BY <1>2, <2>2 DEF OneRowInv, RowParts, BoxIsKept
<1>5. \A k \in 1..Len(queue') : k + 1 \in 1..Len(queue)
  BY <1>1
<1>6. Stored'
  BY <1>1, <1>2, <1>5 DEF OneRowInv, RowParts, Stored
<1>7. Stopped' /\ Shaded'
  <2>1. CASE queue[1].by \in {Gone, Tab}
    <3>1. pages' = pages
      BY <1>1, <2>1 DEF WriteDone, Callback, Gone, Tab
    <3>2. ASSUME NEW k \in 1..Len(pages), HasProduct(pages[k].of), ~pages[k].inCart, ~pages[k].behind
          PROVE  \E m \in 1..Len(queue') : queue'[m].op = "add" /\ queue'[m].by = k
      <4>1. PICK m \in 1..Len(queue) : queue[m].op = "add" /\ queue[m].by = k
        BY <3>2 DEF OneRowInv, RowParts, Stopped
      <4>2. m # 1
        BY <2>1, <4>1 DEF Gone, Tab
      <4>3. m - 1 \in 1..Len(queue') /\ (m - 1) + 1 = m
        BY <1>1, <4>2
      <4>4. queue'[m - 1] = queue[m]
        BY <1>1, <4>3
      <4>5. QED
        BY <4>1, <4>3, <4>4
    <3>3. QED
      BY <1>2, <3>1, <3>2 DEF OneRowInv, RowParts, Stopped, Shaded, HasProduct
  <2>2. CASE queue[1].by \notin {Gone, Tab}
    <3>1. checkCart(queue[1].by)
      BY <1>1, <2>2 DEF WriteDone, Callback
    <3>2. ASSUME NEW k \in 1..Len(queue), queue[k].by # queue[1].by
          PROVE  \E m \in 1..Len(queue') : queue'[m] = queue[k]
      <4>1. k - 1 \in 1..Len(queue') /\ (k - 1) + 1 = k
        BY <1>1, <3>2
      <4>2. QED
        BY <1>1, <4>1
    <3>3. QED
      BY <1>2, <3>1, <3>2, CheckedOneRow
  <2>3. QED
    BY <2>1, <2>2
<1>8. QED
  BY <1>2, <1>3, <1>4, <1>6, <1>7 DEF OneRowInv, RowParts

\* The process may die at any moment: the file has one row per product.
LEMMA CartRestartOneRow ==
    ASSUME OneRowInv, CartRestart
    PROVE  RowParts'
<1>1. /\ queue' = <<>> /\ disk' = disk /\ pages' = <<>>
      /\ box' = {i \in Item : disk[i] > 0}
      /\ again' = {ProductOf[i] : i \in box'} \cap again
  BY DEF CartRestart
<1>2. ASSUME NEW i \in Item
      PROVE  /\ Kept(queue', disk', i, 0) <=> i \in box'
             /\ Kept(queue, disk, i, 0) <=> i \in box'
  BY <1>1 DEF Kept
<1>3. OnePerProduct'
  <2>1. ASSUME NEW i \in Item, NEW j \in Item, i # j, ProductOf[i] = ProductOf[j],
               Kept(queue', disk', i, 0), Kept(queue', disk', j, 0)
        PROVE  ProductOf[i] \in again'
    <3>1. i \in box' /\ Kept(queue, disk, i, 0) /\ Kept(queue, disk, j, 0)
      BY <1>2, <2>1
    <3>2. 0 \in 0..Len(queue)
      BY DEF OneRowInv, RowParts, CartTypeOK
    <3>3. ProductOf[i] \in again
      BY <2>1, <3>1, <3>2 DEF OneRowInv, RowParts, OnePerProduct
    <3>4. QED
      BY <1>1, <3>1, <3>3
  <2>2. 0..Len(queue') = {0}
    BY <1>1
  <2>3. QED
    BY <2>1, <2>2 DEF OnePerProduct
<1>4. BoxIsKept'
  BY <1>1, <1>2 DEF BoxIsKept
<1>5. Stored'
  BY <1>1 DEF Stored
<1>6. Stopped' /\ Shaded'
  BY <1>1 DEF Stopped, Shaded
<1>7. QED
  BY <1>1, <1>3, <1>4, <1>5, <1>6 DEF OneRowInv, RowParts

LEMMA OneRowInit == CartInit => OneRowInv
<1> SUFFICES ASSUME CartInit PROVE OneRowInv
  OBVIOUS
<1>1. queue = <<>> /\ box = {} /\ pages = <<>> /\ \A i \in Item : disk[i] = 0
  BY DEF CartInit, Nothing
<1>2. \A i \in Item : ~Kept(queue, disk, i, 0)
  BY <1>1 DEF Kept
<1>3. OnePerProduct /\ BoxIsKept /\ Stored
  BY <1>1, <1>2 DEF OnePerProduct, BoxIsKept, Stored
<1>4. Stopped /\ Shaded
  BY <1>1 DEF Stopped, Shaded
<1>5. QED
  BY <1>1, <1>3, <1>4, CartTypeInit DEF OneRowInv, RowParts, Above

\* The page of p that opens has looked at the box; those of p below it are
\* behind from now on.
LEMMA OpenDetailsOneRow ==
    ASSUME OneRowInv, NEW p \in Product, OpenDetails(p)
    PROVE  RowParts'
<1> DEFINE n == Len(pages)
<1>1. CartTypeOK /\ UNCHANGED <<qty, box, disk, queue, again>>
  BY DEF OneRowInv, RowParts, OpenDetails
<1>2. /\ n \in Nat /\ Len(pages') = n + 1
      /\ \A k \in 1..n : /\ pages'[k].of = pages[k].of
                         /\ pages'[k].inCart = pages[k].inCart
                         /\ pages'[k].behind = (pages[k].behind \/ pages[k].of = p)
      /\ pages'[n + 1].of = p /\ pages'[n + 1].inCart = HasProduct(p)
  BY <1>1, OpenedPages, CartPagesOK
<1>3. OnePerProduct' /\ BoxIsKept' /\ Stored'
  BY <1>1, PageKeepsRows, TabIsANumber
<1>4. ASSUME NEW k \in 1..(n + 1), HasProduct(pages'[k].of), ~pages'[k].inCart, ~pages'[k].behind
      PROVE  \E m \in 1..Len(queue) : queue[m].op = "add" /\ queue[m].by = k
  <2>1. k \in 1..n
    BY <1>2, <1>4
  <2>2. QED
    BY <1>2, <1>4, <2>1 DEF OneRowInv, RowParts, Stopped
<1>5. Stopped'
  BY <1>1, <1>2, <1>4 DEF Stopped, HasProduct
<1>6. ASSUME NEW k \in 1..(n + 1), NEW j \in 1..(n + 1), k < j, pages'[k].of = pages'[j].of
      PROVE  pages'[k].behind
  <2>1. k \in 1..n
    BY <1>2, <1>6
  <2>2. CASE j = n + 1
    BY <1>2, <1>6, <2>1, <2>2
  <2>3. CASE j # n + 1
    <3>1. j \in 1..n
      <4>1. n \in Nat
        BY <1>2
      <4>2. QED
        BY ONLY <1>6, <2>3, <4>1
    <3>2. QED
      BY <1>2, <1>6, <2>1, <3>1 DEF OneRowInv, RowParts, Shaded
  <2>4. QED
    BY <2>2, <2>3
<1>7. Shaded'
  BY <1>2, <1>6 DEF Shaded
<1>8. QED
  BY <1>1, <1>3, <1>5, <1>7 DEF OneRowInv, RowParts

\* The pages below the one that is left keep their listeners.
LEMMA LeaveDetailsOneRow ==
    ASSUME OneRowInv, LeaveDetails
    PROVE  RowParts'
<1>1. /\ CartTypeOK /\ UNCHANGED <<qty, box, disk, again>>
      /\ queue' = Orphaned(Len(pages), queue)
  BY DEF OneRowInv, RowParts, LeaveDetails
<1>2. /\ Len(pages) \in Nat \ {0} /\ Len(pages) \in Int /\ Len(pages') = Len(pages) - 1
      /\ \A k \in 1..Len(pages') : pages'[k] = pages[k]
  BY <1>1, LeftPages, CartPagesOK
<1>3. OnePerProduct' /\ BoxIsKept' /\ Stored'
  BY <1>1, <1>2, PageKeepsRows
<1>4. queue \in Seq(Write) /\ Len(queue') = Len(queue)
  BY <1>1, <1>2, OrphanedType DEF CartTypeOK
<1>5. ASSUME NEW k \in 1..Len(pages'), HasProduct(pages[k].of), ~pages[k].inCart, ~pages[k].behind
      PROVE  \E m \in 1..Len(queue') : queue'[m].op = "add" /\ queue'[m].by = k
  <2>1. k \in 1..Len(pages) /\ k < Len(pages)
    BY <1>2
  <2>2. PICK m \in 1..Len(queue) : queue[m].op = "add" /\ queue[m].by = k
    BY <1>5, <2>1 DEF OneRowInv, RowParts, Stopped
  <2>3. queue'[m].op = queue[m].op /\ queue'[m].by = k
    <3>1. ~(k >= Len(pages))
      BY <1>2, <2>1
    <3>2. /\ queue'[m].op = queue[m].op
          /\ queue'[m].by = IF queue[m].by >= Len(pages) THEN Gone ELSE queue[m].by
      BY <1>1, <1>2, <1>4, OrphanedWrite
    <3>3. QED
      BY ONLY <2>2, <3>1, <3>2
  <2>4. QED
    BY <1>4, <2>2, <2>3
<1>6. Stopped'
  BY <1>1, <1>2, <1>5 DEF Stopped, HasProduct
<1>7. Shaded'
  BY <1>2 DEF OneRowInv, RowParts, Shaded
<1>8. QED
  BY <1>1, <1>3, <1>6, <1>7 DEF OneRowInv, RowParts

LEMMA OneRowNext == OneRowInv /\ [CartNext]_cartVars => OneRowInv'
<1> SUFFICES ASSUME OneRowInv, [CartNext]_cartVars PROVE OneRowInv'
  OBVIOUS
<1>1. CartTypeOK' /\ Above'
  BY CartTypeNext, AboveNext, CartPagesOK DEF OneRowInv
<1>2. CASE UNCHANGED cartVars
  <2>1. OnePerProduct' /\ BoxIsKept' /\ Stored'
    BY <1>2, PageKeepsRows, TabIsANumber DEF cartVars
  <2>2. Stopped' /\ Shaded'
    BY <1>2 DEF cartVars, OneRowInv, RowParts, Stopped, Shaded, HasProduct
  <2>3. QED
    BY <1>1, <2>1, <2>2 DEF OneRowInv, RowParts
<1>3. CASE OpenCart \/ GoToCart
  <2>1. OnePerProduct' /\ BoxIsKept' /\ Stored' /\ pages' = <<>>
    BY <1>3, PageKeepsRows, TabIsANumber DEF OpenCart, GoToCart, ShowCart
  <2>2. QED
    BY <1>1, <2>1 DEF OneRowInv, RowParts, Stopped, Shaded
<1>4. CASE HeartDone
  <2>1. OnePerProduct' /\ BoxIsKept' /\ Stored'
    BY <1>4, PageKeepsRows, TabIsANumber DEF HeartDone
  <2>2. Stopped' /\ Shaded'
    BY <1>4, CheckedOneRow DEF HeartDone
  <2>3. QED
    BY <1>1, <2>1, <2>2 DEF OneRowInv, RowParts
<1>8. CASE LeaveCart
  <2>1. OnePerProduct' /\ BoxIsKept' /\ Stored'
    BY <1>8, PageKeepsRows, TabIsANumber DEF LeaveCart
  <2>2. pages' = <<>>
    BY <1>8 DEF LeaveCart, OneRowInv, Above
  <2>3. QED
    BY <1>1, <2>1, <2>2 DEF OneRowInv, RowParts, Stopped, Shaded
<1>5. ASSUME NEW i \in Item, AddToCart(i) \/ Plus(i) \/ Minus(i) \/ DeleteRow(i)
      PROVE  OneRowInv'
  <2>1. CASE AddToCart(i)
    BY <2>1, <1>1, AddToCartOneRow DEF OneRowInv
  <2>2. CASE Plus(i) \/ Minus(i)
    <3>1. qty[i] \in 0..MaxQty
      BY DEF OneRowInv, RowParts, CartTypeOK
    <3>2. PICK n \in 0..MaxQty : n > 0 /\ SetQuantity(i, n)
      BY <2>2, <3>1, StepBounds DEF Plus, Minus
    <3>3. QED
      BY <3>2, <1>1, SetQuantityOneRow DEF OneRowInv
  <2>3. CASE DeleteRow(i)
    BY <2>3, <1>1, DeleteRowOneRow DEF OneRowInv
  <2>4. QED
    BY <1>5, <2>1, <2>2, <2>3
<1>6. CASE WriteDone \/ CartRestart
  BY <1>1, <1>6, WriteDoneOneRow, CartRestartOneRow DEF OneRowInv
<1>7. QED
  BY <1>1, <1>2, <1>3, <1>4, <1>5, <1>6, <1>8, OpenDetailsOneRow, LeaveDetailsOneRow
     DEF CartNext, UserStep, OneRowInv

\* For any number of objects of a product, of Details pages above each other, of
\* pending writes and of restarts: two rows of a product come only from a tap
\* on a page whose first add was still to be written, or above which another
\* page of the product had lain since it last looked at the box.
THEOREM RowsAreUnique == CartSpec => []RowPerProduct
BY OneRowInit, OneRowNext, OneRowImplies, PTL DEF CartSpec

-----------------------------------------------------------------------------
(***************************************************************************)
(* The total of a bill is a number                                         *)
(***************************************************************************)

\* Every set of numbers has a least one.
LEMMA LeastOf ==
    ASSUME NEW R, IsWellFoundedOn(R, Nat), \A m, n \in Nat : <<n, m>> \in R <=> n < m,
           NEW S \in SUBSET Nat, S # {}
    PROVE  \E m \in S : \A n \in S : m <= n
<1>1. PICK m \in S : \A n \in S : ~(<<n, m>> \in R)
  BY WFMin
<1>2. ASSUME NEW n \in S PROVE m <= n
  <2>1. m \in Nat /\ n \in Nat /\ ~(n < m)
    BY <1>1
  <2>2. QED
    BY ONLY <2>1
<1>3. QED
  BY <1>2

LEMMA LessThan == \A m, n \in Nat : <<n, m>> \in OpToRel(<, Nat) <=> n < m
BY DEF OpToRel

LEMMA Least == \A S \in SUBSET Nat : S # {} => \E m \in S : \A n \in S : m <= n
<1> DEFINE R == OpToRel(<, Nat)
<1>1. IsWellFoundedOn(R, Nat) /\ \A m, n \in Nat : <<n, m>> \in R <=> n < m
  BY NatLessThanWellFounded, LessThan
<1> HIDE DEF R
<1>2. QED
  BY <1>1, LeastOf

Choice(s) == CHOOSE x \in s : TRUE

\* One step of the sum of the weights w over the set s; f: the sums of the
\* smaller sets.
Sum1(w, f, s) == IF s = {} THEN 0 ELSE w[Choice(s)] + f[s \ {Choice(s)}]

Fold(w) == CHOOSE f : f = [s \in SUBSET Item |-> Sum1(w, f, s)]

\* Total unfolds to the fold of the community modules.
LEMMA TotalIsFold ==
    ASSUME NEW q
    PROVE  Total(q) = Fold([i \in Item |-> Price[ProductOf[i]] * q[i]])[Item]
BY DEF Total, MapThenSumSet, MapThenFoldSet, Fold, Sum1, Choice

\* f sums the sets of up to n items.
Sums(w, f, n) ==
    /\ f \in [SUBSET Item -> Nat]
    /\ \A s \in SUBSET Item : Cardinality(s) <= n => f[s] = Sum1(w, f, s)

\* Taking the chosen item away makes a set smaller.
LEMMA Smaller ==
    ASSUME NEW s \in SUBSET Item, s # {}
    PROVE  /\ Choice(s) \in Item /\ s \ {Choice(s)} \in SUBSET Item
           /\ Cardinality(s) \in Nat /\ Cardinality(s) # 0
           /\ Cardinality(s \ {Choice(s)}) = Cardinality(s) - 1
<1>1. Choice(s) \in s
  BY DEF Choice
<1>2. IsFiniteSet(s)
  BY CartAssumption, FS_Subset
<1>3. Cardinality(s) \in Nat
  BY <1>2, FS_CardinalityType
<1>4. Cardinality(s) # 0
  BY <1>1, <1>2, FS_EmptySet
<1>5. Cardinality(s \ {Choice(s)}) = Cardinality(s) - 1
  BY <1>1, <1>2, FS_RemoveElement
<1>6. QED
  BY <1>1, <1>3, <1>4, <1>5

LEMMA Sum1Type ==
    ASSUME NEW w \in [Item -> Nat], NEW f \in [SUBSET Item -> Nat], NEW s \in SUBSET Item
    PROVE  Sum1(w, f, s) \in Nat
<1>1. CASE s = {}
  BY <1>1 DEF Sum1
<1>2. CASE s # {}
  <2>1. w[Choice(s)] \in Nat /\ f[s \ {Choice(s)}] \in Nat
    BY <1>2, Smaller
  <2>2. Sum1(w, f, s) = w[Choice(s)] + f[s \ {Choice(s)}]
    BY <1>2 DEF Sum1
  <2>3. QED
    BY ONLY <2>1, <2>2
<1>3. QED
  BY <1>1, <1>2

\* The sums of the sets of up to n items exist, for every n.
LEMMA SumsNone ==
    ASSUME NEW w \in [Item -> Nat]
    PROVE  \E f : Sums(w, f, 0)
<1> DEFINE f == [s \in SUBSET Item |-> 0]
<1>1. ASSUME NEW s \in SUBSET Item, Cardinality(s) <= 0 PROVE s = {}
  <2>1. SUFFICES ASSUME s # {} PROVE FALSE
    OBVIOUS
  <2>2. Cardinality(s) \in Nat /\ Cardinality(s) # 0
    BY <2>1, Smaller
  <2>3. QED
    BY ONLY <1>1, <2>2
<1>2. Sums(w, f, 0)
  BY <1>1 DEF Sums, Sum1
<1>3. QED
  BY <1>2

LEMMA SumsMore ==
    ASSUME NEW w \in [Item -> Nat], NEW n \in Nat, NEW f, Sums(w, f, n)
    PROVE  \E g : Sums(w, g, n + 1)
<1> DEFINE g == [s \in SUBSET Item |-> Sum1(w, f, s)]
<1>1. f \in [SUBSET Item -> Nat]
  BY DEF Sums
<1>2. g \in [SUBSET Item -> Nat]
  BY <1>1, Sum1Type
<1>3. ASSUME NEW s \in SUBSET Item, Cardinality(s) <= n + 1
      PROVE  g[s] = Sum1(w, g, s)
  <2>1. CASE s = {}
    BY <2>1 DEF Sum1
  <2>2. CASE s # {}
    <3> DEFINE t == s \ {Choice(s)}
    <3>1. t \in SUBSET Item /\ Cardinality(t) <= n
      BY <1>3, <2>2, Smaller
    <3>2. g[t] = f[t]
      BY <3>1 DEF Sums
    <3>3. QED
      BY <2>2, <3>2 DEF Sum1
  <2>3. QED
    BY <2>1, <2>2
<1> HIDE DEF g
<1>4. QED
  BY <1>2, <1>3 DEF Sums

LEMMA SumsAll ==
    ASSUME NEW w \in [Item -> Nat], NEW n \in Nat
    PROVE  \E f : Sums(w, f, n)
<1> DEFINE None == {k \in Nat : ~\E f : Sums(w, f, k)}
<1>1. SUFFICES ASSUME None # {} PROVE FALSE
  OBVIOUS
<1>2. PICK m \in None : \A k \in None : m <= k
  <2>1. None \in SUBSET Nat
    OBVIOUS
  <2>2. QED
    BY <1>1, <2>1, Least
<1>3. m # 0
  BY SumsNone
<1>4. m - 1 \in Nat /\ m - 1 \notin None
  BY <1>2, <1>3
<1>5. \E f : Sums(w, f, m - 1)
  BY <1>4
<1>6. \E f : Sums(w, f, (m - 1) + 1)
  BY <1>4, <1>5, SumsMore
<1>7. QED
  BY <1>6

\* So the fold is a function, and all its values are numbers.
LEMMA FoldType ==
    ASSUME NEW w \in [Item -> Nat]
    PROVE  Fold(w)[Item] \in Nat
<1>1. PICK f : Sums(w, f, Cardinality(Item))
  BY SumsAll, CartAssumption, FS_CardinalityType
<1>2. ASSUME NEW s \in SUBSET Item PROVE f[s] = Sum1(w, f, s)
  BY <1>1, CartAssumption, FS_Subset DEF Sums
<1>3. f = [s \in SUBSET Item |-> Sum1(w, f, s)]
  BY <1>1, <1>2 DEF Sums
<1>4. Fold(w) = [s \in SUBSET Item |-> Sum1(w, Fold(w), s)]
  BY <1>3 DEF Fold
<1> DEFINE F == Fold(w)
<1>5. \A s \in SUBSET Item : F[s] = Sum1(w, F, s)
  BY <1>4
<1> HIDE DEF F
<1>6. ASSUME NEW n \in Nat
      PROVE  \A s \in SUBSET Item : Cardinality(s) = n => F[s] \in Nat
  <2> DEFINE Bad == {k \in Nat : \E s \in SUBSET Item : Cardinality(s) = k /\ F[s] \notin Nat}
  <2>1. SUFFICES ASSUME Bad # {} PROVE FALSE
    OBVIOUS
  <2>2. PICK m \in Bad : \A k \in Bad : m <= k
    <3>1. Bad \in SUBSET Nat
      OBVIOUS
    <3>2. QED
      BY <2>1, <3>1, Least
  <2>3. PICK s \in SUBSET Item : Cardinality(s) = m /\ F[s] \notin Nat
    BY <2>2
  <2>4. s # {}
    <3>1. s = {} => Sum1(w, F, s) = 0
      BY DEF Sum1
    <3>2. F[s] = Sum1(w, F, s)
      BY <1>5
    <3>3. Sum1(w, F, s) # 0
      BY <2>3, <3>2
    <3>4. QED
      BY <3>1, <3>3
  <2>5. /\ s \ {Choice(s)} \in SUBSET Item /\ Cardinality(s \ {Choice(s)}) = m - 1
        /\ m \in Nat /\ m # 0 /\ Choice(s) \in Item
    <3>1. Cardinality(s) = m
      BY <2>3
    <3>2. QED
      BY ONLY <3>1, <2>4, Smaller, s \in SUBSET Item
  <2>6. m - 1 \in Nat /\ ~(m <= m - 1) /\ w[Choice(s)] \in Nat
    <3>1. w[Choice(s)] \in Nat
      BY <2>5
    <3>2. QED
      BY ONLY <2>5, <3>1
  <2>7. m - 1 \notin Bad
    BY <2>2, <2>6
  <2>8. F[s \ {Choice(s)}] \in Nat
    BY <2>5, <2>6, <2>7
  <2>9. F[s] = w[Choice(s)] + F[s \ {Choice(s)}]
    BY <1>5, <2>4 DEF Sum1
  <2>10. F[s] \in Nat
    BY ONLY <2>6, <2>8, <2>9
  <2>11. QED
    BY <2>3, <2>10
<1>7. Cardinality(Item) \in Nat /\ Item \in SUBSET Item
  BY CartAssumption, FS_CardinalityType
<1>8. QED
  BY <1>6, <1>7 DEF F

\* Whatever the prices and the quantities, a total is a number.
LEMMA TotalType ==
    ASSUME NEW q \in [Item -> Nat]
    PROVE  Total(q) \in Nat
<1> DEFINE w == [i \in Item |-> Price[ProductOf[i]] * q[i]]
<1>1. w \in [Item -> Nat]
  BY CartAssumption
<1>2. Total(q) = Fold(w)[Item]
  BY TotalIsFold
<1> HIDE DEF w
<1>3. QED
  BY <1>1, <1>2, FoldType
=============================================================================
