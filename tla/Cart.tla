-------------------------------- MODULE Cart --------------------------------
(***************************************************************************)
(* The shopping cart: the Hive box "cart" (in memory and on disk), the     *)
(* Cart tab that shows a snapshot of it, the Details pages that add to it  *)
(* and the badge of the navigation bar.  A tap on a banner of HOME pushes  *)
(* its Details page when the product has come, whatever is on top by then: *)
(* Details pages lie above each other, also two of one product.            *)
(*                                                                         *)
(* Dart runs one handler at a time.  A handler that calls save(), delete() *)
(* or add() changes the memory of the box at once; Hive writes the disk in *)
(* the order of the calls and runs the `.then` callback after the write.   *)
(* Timers of 20 microseconds are folded into the step that starts them.    *)
(***************************************************************************)
EXTENDS Integers, FiniteSets, Sequences, FiniteSetsExt

CONSTANTS
    Item,        \* the CartModel objects one run of the app can create
    Product,     \* the products the shop sells
    ProductOf,   \* ProductOf[i]: the id and price source of object i
    Price,       \* Price[p]: the price of product p in the store's currency
    MaxQty,      \* bound on the quantity of a row
    MaxPending,  \* bound on the Hive writes not yet on disk
    MaxPages,    \* bound on the Details pages above each other
    NoItem       \* the item field of a write that is about the whole box

ASSUME CartAssumption ==
    /\ IsFiniteSet(Item)
    /\ ProductOf \in [Item -> Product]
    /\ Price \in [Product -> Nat \ {0}]
    /\ MaxQty \in Nat \ {0}
    /\ MaxPending \in Nat \ {0}
    /\ MaxPages \in Nat \ {0}
    /\ NoItem \notin Item

VARIABLES
    qty,      \* qty[i]: the quantity field of object i; 0: not created
    box,      \* the objects that are in the box, in memory
    disk,     \* disk[i]: the quantity on disk; 0: no record
    queue,    \* the writes Hive has not finished, oldest first
    screen,   \* the tab at the bottom: "cart", or "home" for any other
    pages,    \* the Details pages above it, lowest first
    priced,   \* the Cart tab's snapshot: quantity priced per row; 0: no row
    badge,    \* cartQuantity of WoocommerceProvider
    again     \* history: products added again from a page that could not know

cartVars == <<qty, box, disk, queue, screen, pages, priced, badge, again>>

Nothing == [i \in Item |-> 0]

\* cartBox.values with the quantities the objects have now.
Live == [i \in Item |-> IF i \in box THEN qty[i] ELSE 0]

Rows == {i \in Item : priced[i] > 0}

\* price.reduce((value, element) => value + element)
Total(q) == MapThenSumSet(LAMBDA i : Price[ProductOf[i]] * q[i], Item)

\* inCart turns ADD TO CART into GO TO CART.  behind is history: another page
\* of the product has lain above this one since it last looked at the box.
Details == [of : Product, inCart : BOOLEAN, behind : BOOLEAN]

\* by: the State whose `.then` callback waits for the write: the Cart tab, the
\* Details page at this place, or none that is still mounted.
Gone == -1
Tab == 0

Write == [op : {"add", "put", "delete", "clear"}, item : Item \cup {NoItem},
          qty : 0..MaxQty, by : Gone..MaxPages]

\* The States from place n on are disposed: their callbacks throw in setState
\* and do nothing.
Orphaned(n, q) ==
    [k \in DOMAIN q |-> IF q[k].by >= n THEN [q[k] EXCEPT !.by = Gone] ELSE q[k]]

\* The Details page at place k waits for the add of a row it tapped.
Adding(k) == \E w \in DOMAIN queue : queue[w].op = "add" /\ queue[w].by = k

\* A Details page of the same product lies above the one at place k.
Covered(k) == \E j \in DOMAIN pages : j > k /\ pages[j].of = pages[k].of

\* Faulty: the file is looked at, which lags behind the memory.
HasProduct_OnDisk(p) == \E i \in box : ProductOf[i] = p /\ disk[i] > 0

HasProduct(p) == \E i \in box : ProductOf[i] = p

CartInit ==
    /\ qty = Nothing /\ box = {} /\ disk = Nothing /\ queue = <<>>
    /\ screen = "home" /\ pages = <<>> /\ priced = Nothing /\ badge = 0
    /\ again = {}

-----------------------------------------------------------------------------
(***************************************************************************)
(* Opening and leaving screens                                             *)
(***************************************************************************)

\* Faulty: the badge is left as it was.
getCart_NoBadge == /\ priced' = Live
                   /\ badge' = badge

\* getCart of the Cart tab: a new snapshot, and the badge with it.
getCart == /\ priced' = Live
           /\ badge' = Cardinality(box)

\* A tap on the CART tab, or a new BottomNavigation with index 3.
ShowCart ==
    /\ screen' = "cart"
    /\ pages' = <<>>
    /\ queue' = Orphaned(Tab, queue)
    /\ getCart
    /\ UNCHANGED <<qty, box, disk, again>>

OpenCart == screen = "home" /\ pages = <<>> /\ ShowCart

LeaveCart ==
    /\ screen = "cart"
    /\ screen' = "home"
    /\ queue' = Orphaned(Tab, queue)
    /\ priced' = Nothing
    /\ UNCHANGED <<qty, box, disk, pages, badge, again>>

\* A tap on a product, or the late answer to a tap on a banner: the Details
\* page of p comes on top.  Its initState runs checkCart.
OpenDetails(p) ==
    /\ screen = "home"
    /\ Len(pages) < MaxPages
    /\ pages' = Append([k \in DOMAIN pages |->
                          [pages[k] EXCEPT !.behind = @ \/ pages[k].of = p]],
                       [of |-> p, inCart |-> HasProduct(p), behind |-> FALSE])
    /\ badge' = Cardinality(box)
    /\ UNCHANGED <<qty, box, disk, queue, screen, priced, again>>

LeaveDetails ==
    /\ pages # <<>>
    /\ pages' = SubSeq(pages, 1, Len(pages) - 1)
    /\ queue' = Orphaned(Len(pages), queue)
    /\ UNCHANGED <<qty, box, disk, screen, priced, badge, again>>

-----------------------------------------------------------------------------
(***************************************************************************)
(* The taps that change the box                                            *)
(***************************************************************************)

\* ADD TO CART: cartBox.add(quantity 1).then(toast; checkCart).  The page
\* knows of a row of the product unless its own add is on its way or another
\* page of the product was above it.
AddToCart(i) ==
    /\ pages # <<>>
    /\ LET n == Len(pages) IN
         /\ pages[n].of = ProductOf[i]
         /\ ~pages[n].inCart
         /\ queue' = Append(queue, [op |-> "add", item |-> i, qty |-> 1, by |-> n])
         /\ again' = IF pages[n].behind \/ Adding(n)
                       THEN again \cup {ProductOf[i]} ELSE again
    /\ qty[i] = 0
    /\ Len(queue) < MaxPending
    /\ qty' = [qty EXCEPT ![i] = 1]
    /\ box' = box \cup {i}
    /\ UNCHANGED <<disk, screen, pages, priced, badge>>

\* GO TO CART replaces every route by a BottomNavigation on its Cart tab.
GoToCart == pages # <<>> /\ pages[Len(pages)].inCart /\ ShowCart

\* Faulty: the new quantity is not saved.
SetQuantity_NoSave(i, n) ==
    /\ screen = "cart"
    /\ i \in Rows
    /\ qty' = [qty EXCEPT ![i] = n]
    /\ UNCHANGED <<box, disk, queue, screen, pages, badge, again>>
    /\ priced' = Live'

\* quantity := n; save().then(getCart).  save() throws on a removed object,
\* after the assignment.
SetQuantity(i, n) ==
    /\ screen = "cart"
    /\ i \in Rows
    /\ Len(queue) < MaxPending
    /\ qty' = [qty EXCEPT ![i] = n]
    /\ queue' = IF i \in box
                  THEN Append(queue, [op |-> "put", item |-> i, qty |-> n,
                                      by |-> Tab])
                  ELSE queue
    /\ UNCHANGED <<box, disk, screen, priced, pages, badge, again>>

Plus(i) == qty[i] < MaxQty /\ SetQuantity(i, qty[i] + 1)

\* Faulty: the test for the last one is missing.
Minus_BelowOne(i) == SetQuantity(i, qty[i] - 1)

Minus(i) == qty[i] > 1 /\ SetQuantity(i, qty[i] - 1)

\* Faulty: delete() without its .then(getCart).
DeleteRow_Silent(i) ==
    /\ screen = "cart"
    /\ i \in Rows \cap box
    /\ qty[i] = 1
    /\ Len(queue) < MaxPending
    /\ box' = box \ {i}
    /\ queue' = Append(queue, [op |-> "delete", item |-> i, qty |-> 0,
                               by |-> Gone])
    /\ UNCHANGED <<qty, disk, screen, priced, pages, badge, again>>

\* The minus button of a row with quantity 1: delete().then(getCart).
\* delete() throws on a removed object and nothing changes.
DeleteRow(i) ==
    /\ screen = "cart"
    /\ i \in Rows \cap box
    /\ qty[i] = 1
    /\ Len(queue) < MaxPending
    /\ box' = box \ {i}
    /\ queue' = Append(queue, [op |-> "delete", item |-> i, qty |-> 0,
                               by |-> Tab])
    /\ UNCHANGED <<qty, disk, screen, priced, pages, badge, again>>

-----------------------------------------------------------------------------
(***************************************************************************)
(* Hive and the operating system                                           *)
(***************************************************************************)

\* checkCart of the Details page at place k: inCart is only ever set, never
\* cleared.
checkCart(k) ==
    /\ pages' = [pages EXCEPT ![k].inCart = @ \/ HasProduct(pages[k].of),
                              ![k].behind = Covered(k)]
    /\ badge' = Cardinality(box)

\* The heart of a Details page was tapped and its write (Wishlist) is done: the
\* callback runs checkCart, also while the add of a row is pending.
HeartDone ==
    /\ \E k \in DOMAIN pages : checkCart(k)
    /\ UNCHANGED <<qty, box, disk, queue, screen, priced, again>>

\* The `.then` callback of write w, without the toast of an add, which is shown
\* even when its page is gone.
Callback(w) ==
    CASE w.by = Gone -> UNCHANGED <<priced, pages, badge>>
      [] w.by = Tab -> getCart /\ UNCHANGED pages
      [] OTHER -> checkCart(w.by) /\ UNCHANGED priced

\* The oldest write reaches the disk and its callback runs.  Hive encodes an
\* object when its turn comes: the record holds the quantity of the call or the
\* one of now.
WriteDone ==
    /\ queue # <<>>
    /\ LET w == Head(queue) IN
         /\ w.op # "clear"
         /\ \E q \in (IF w.op = "delete" THEN {0} ELSE {w.qty, qty[w.item]}) :
                disk' = [disk EXCEPT ![w.item] = q]
         /\ Callback(w)
    /\ queue' = Tail(queue)
    /\ UNCHANGED <<qty, box, screen, again>>

\* Box.clear(): the file is truncated, then the memory is emptied, with
\* whatever was added meanwhile.
ClearDone ==
    /\ queue # <<>>
    /\ Head(queue).op = "clear"
    /\ disk' = Nothing
    /\ box' = {}
    /\ queue' = Tail(queue)
    /\ UNCHANGED <<qty, screen, priced, pages, badge, again>>

\* The process dies and the app is started again: memory comes from disk.
CartRestart ==
    /\ box' = {i \in Item : disk[i] > 0}
    /\ qty' = disk
    /\ queue' = <<>>
    /\ screen' = "home"
    /\ pages' = <<>>
    /\ priced' = Nothing
    /\ badge' = Cardinality(box')
    /\ again' = {ProductOf[i] : i \in box'} \cap again
    /\ UNCHANGED disk

-----------------------------------------------------------------------------
UserStep ==
    \/ OpenCart \/ LeaveCart \/ LeaveDetails \/ GoToCart \/ HeartDone
    \/ \E p \in Product : OpenDetails(p)
    \/ \E i \in Item : AddToCart(i) \/ Plus(i) \/ Minus(i) \/ DeleteRow(i)

CartNext == UserStep \/ WriteDone \/ CartRestart

\* Hive finishes what it started; the user owes nothing.
CartSpec == CartInit /\ [][CartNext]_cartVars /\ WF_cartVars(WriteDone)

-----------------------------------------------------------------------------
(***************************************************************************)
(* Properties                                                              *)
(***************************************************************************)

CartTypeOK ==
    /\ qty \in [Item -> 0..MaxQty]
    /\ box \subseteq Item
    /\ disk \in [Item -> 0..MaxQty]
    /\ queue \in Seq(Write) /\ Len(queue) <= MaxPending
    /\ screen \in {"home", "cart"}
    /\ pages \in Seq(Details) /\ Len(pages) <= MaxPages
    /\ priced \in [Item -> 0..MaxQty]
    /\ badge \in Nat
    /\ again \subseteq Product

\* What is not waiting to be written is on disk: an object none of whose
\* writes is pending (the toast "Item added to Cart", or the refresh after a
\* tap, was shown) survives a crash exactly as the user sees it, whatever
\* else is still pending.
DiskFollows ==
    \A i \in Item : (\A k \in DOMAIN queue : queue[k].item # i) => disk[i] = Live[i]

\* The Cart tab shows the box (rows, total and badge) whenever none of its
\* writes is pending: every tap ends in getCart, and a tab that is opened
\* anew reads the box before anything else.
CartShowsBox ==
    screen = "cart" /\ queue = <<>> =>
        priced = Live /\ badge = Cardinality(box)

\* Two rows of one product appear only when ADD TO CART was tapped again on a
\* page whose first add had not reached the disk, or on a page above which
\* another Details of the product had lain since it last looked at the box.
\* Otherwise inCart stops it, also when Details was left and opened again
\* while the add was pending, or lies above an older page of the product.
RowPerProduct ==
    \A i, j \in box : i # j /\ ProductOf[i] = ProductOf[j] => ProductOf[i] \in again

\* A row the user removed leaves the screen: the delete is written and its
\* callback refreshes the tab that is still open.
RemovedRowLeaves ==
    \A i \in Item : (i \in Rows \ box) ~> (i \notin Rows \/ i \in box)
=============================================================================
