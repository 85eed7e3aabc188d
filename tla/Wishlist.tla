------------------------------ MODULE Wishlist ------------------------------
(***************************************************************************)
(* The wish list: the Hive box "favourites", the Favourites page that      *)
(* shows a snapshot of it, and the hearts of the Details pages above it.   *)
(* A Details page comes on top when its product has come from the shop,    *)
(* whatever is on top by then: Details pages lie above each other, also    *)
(* two of one product.                                                     *)
(*                                                                         *)
(* A wish is a CartModel object; objects are numbered in the order of      *)
(* their keys, so a list of wishes is a set and the index of a row a rank. *)
(* Hive works as in Cart: memory at the call, disk in the order of the     *)
(* calls, the `.then` callback after the write.                            *)
(***************************************************************************)
EXTENDS Integers, FiniteSets, Sequences

CONSTANTS
    Product,     \* the products
    MaxWish,     \* bound on the wishes created in one history
    MaxPending,  \* bound on the Hive writes not yet on disk
    MaxPages,    \* bound on the Details pages above each other
    Ask,         \* the getProduct calls that can be under way at a time
    None         \* no product (selectedInt == -1, a wish not created), no call

Wish == 1..MaxWish

\* A getProduct call of Favourites.  The handler keeps the index of the row;
\* rows is history: the list as it was at the tap.
Call == [at : Wish, of : Product, rows : SUBSET Wish]

ASSUME WishlistAssumption ==
    /\ MaxWish \in Nat \ {0}
    /\ MaxPending \in Nat \ {0}
    /\ MaxPages \in Nat \ {0}
    /\ None \notin Product /\ None \notin Call

VARIABLES
    of,          \* of[i]: the product of wish i
    box,         \* the wishes in the box, in memory
    disk,        \* the wishes on disk
    queue,       \* the writes Hive has not finished, oldest first
    favourites,  \* the Favourites page is open
    pages,       \* the Details pages on top, lowest first
    listed,      \* Favourites: the snapshot favourites
    selected,    \* Favourites: selectedInt, the product whose row has a spinner
    opening,     \* Favourites: the getProduct calls under way
    again,       \* history: products wished again from a page that could not know
    dropped      \* history: wishes an answer removed under a page's red heart

boxVars == <<of, box, disk>>
listVars == <<listed, selected, opening>>
vars == <<boxVars, queue, favourites, pages, listVars, again, dropped>>

Wishes(p) == {i \in box : of[i] = p}

\* Faulty: the index of a row counts from zero, as in Dart.
Rank_FromZero(i, rows) == Cardinality({j \in rows : j < i})

Rank(i, rows) == Cardinality({j \in rows : j <= i})

\* rows[k], empty when the list has become shorter.
At(k, rows) == {i \in rows : Rank(i, rows) = k}

\* heart: favourites[favouritesIndex]; 0: ~inFavourites.  behind is history:
\* another page of the product has lain above this one since it last looked.
Details == [of : Product, heart : Wish \cup {0}, behind : BOOLEAN]

\* by: the State whose `.then` callback waits for the write: Favourites, the
\* Details page at this place, or none that is still mounted.
Gone == -1
List == 0

Write == [op : {"add", "delete"}, wish : Wish, by : Gone..MaxPages]

\* The States from place n on are disposed.
Orphaned(n, q) ==
    [k \in DOMAIN q |-> IF q[k].by >= n THEN [q[k] EXCEPT !.by = Gone] ELSE q[k]]

\* The Details page at place k waits for the add of a wish.
Adding(k) == \E w \in DOMAIN queue : queue[w].op = "add" /\ queue[w].by = k

\* A Details page of the same product lies above the one at place k.
Covered(k) == \E j \in DOMAIN pages : j > k /\ pages[j].of = pages[k].of

\* Faulty: the file is looked at, which lags behind the memory.
Found_OnDisk(p) ==
    LET found == Wishes(p) \cap disk IN
    IF found = {} THEN 0 ELSE CHOOSE i \in found : \A j \in found : j <= i

\* The loop of checkCart: the last wish of the product, if there is one.
Found(p) ==
    IF Wishes(p) = {} THEN 0 ELSE CHOOSE i \in Wishes(p) : \A j \in Wishes(p) : j <= i

Init ==
    /\ of = [i \in Wish |-> None] /\ box = {} /\ disk = {} /\ queue = <<>>
    /\ favourites = FALSE /\ pages = <<>>
    /\ listed = {} /\ selected = None /\ opening = [c \in Ask |-> None]
    /\ again = {} /\ dropped = {}

-----------------------------------------------------------------------------
(***************************************************************************)
(* Pages                                                                   *)
(***************************************************************************)

OpenFavourites ==
    /\ ~favourites /\ pages = <<>>
    /\ favourites' = TRUE
    /\ listed' = box /\ selected' = None
    /\ UNCHANGED <<boxVars, queue, pages, opening, again, dropped>>

\* The Details page of p comes on top; its initState runs checkCart.
Push(p) ==
    /\ Len(pages) < MaxPages
    /\ pages' = Append([k \in DOMAIN pages |->
                          [pages[k] EXCEPT !.behind = @ \/ pages[k].of = p]],
                       [of |-> p, heart |-> Found(p), behind |-> FALSE])

\* A tap on a product, or the late answer to a tap on a banner of HOME, which
\* is not mounted below Favourites.
OpenDetails(p) ==
    /\ ~favourites /\ Push(p)
    /\ UNCHANGED <<boxVars, queue, favourites, listVars, again, dropped>>

\* Back from Details: Favourites below it is not refreshed.
LeaveDetails ==
    /\ pages # <<>>
    /\ pages' = SubSeq(pages, 1, Len(pages) - 1)
    /\ queue' = Orphaned(Len(pages), queue)
    /\ UNCHANGED <<boxVars, favourites, listVars, again, dropped>>

\* Back from Favourites: an answer that comes later throws in setState.
LeaveFavourites ==
    /\ favourites /\ pages = <<>>
    /\ favourites' = FALSE
    /\ queue' = Orphaned(List, queue)
    /\ listed' = {} /\ selected' = None /\ opening' = [c \in Ask |-> None]
    /\ UNCHANGED <<boxVars, pages, again, dropped>>

-----------------------------------------------------------------------------
(***************************************************************************)
(* The heart of Details                                                    *)
(***************************************************************************)

\* The page on top, its heart not red, wishes its product as object i.
Wishing(i) ==
    /\ pages # <<>> /\ pages[Len(pages)].heart = 0
    /\ of[i] = None /\ \A j \in Wish : j < i => of[j] # None
    /\ of' = [of EXCEPT ![i] = pages[Len(pages)].of] /\ box' = box \cup {i}

\* Faulty: the box is not asked to store the wish.
HeartOn_NoAdd(i) ==
    /\ Wishing(i)
    /\ UNCHANGED <<disk, queue, favourites, pages, listVars, again, dropped>>

\* favouritesBox.add(...).then(checkCart).  The page knows of a wish for the
\* product unless its own add is on its way or another page was above it.
HeartOn(i) ==
    /\ Wishing(i)
    /\ Len(queue) < MaxPending
    /\ LET n == Len(pages) IN
         /\ queue' = Append(queue, [op |-> "add", wish |-> i, by |-> n])
         /\ again' = IF pages[n].behind \/ Adding(n)
                       THEN again \cup {pages[n].of} ELSE again
    /\ UNCHANGED <<disk, favourites, pages, listVars, dropped>>

\* Faulty: nothing happens when the write is done.
HeartOff_Silent ==
    /\ pages # <<>> /\ Len(queue) < MaxPending
    /\ LET i == pages[Len(pages)].heart IN
         /\ i \in box /\ box' = box \ {i}
         /\ queue' = Append(queue, [op |-> "delete", wish |-> i, by |-> Gone])
    /\ UNCHANGED <<of, disk, favourites, pages, listVars, again, dropped>>

\* favourites[favouritesIndex].delete().then(checkCart); a second tap before
\* the callback throws, since the object is in no box.
HeartOff ==
    /\ pages # <<>> /\ Len(queue) < MaxPending
    /\ LET i == pages[Len(pages)].heart IN
         /\ i \in box /\ box' = box \ {i}
         /\ queue' = Append(queue, [op |-> "delete", wish |-> i, by |-> Len(pages)])
    /\ UNCHANGED <<of, disk, favourites, pages, listVars, again, dropped>>

-----------------------------------------------------------------------------
(***************************************************************************)
(* The Favourites page                                                     *)
(***************************************************************************)

\* favourites[index].delete().then(getCart), of a row still in the box.
Unwish(i) ==
    /\ box' = box \ {i}
    /\ queue' = Append(queue, [op |-> "delete", wish |-> i, by |-> List])

\* The delete icon of row i.
DeleteRow(i) ==
    /\ favourites /\ pages = <<>>
    /\ i \in listed \cap box /\ selected # of[i]
    /\ Len(queue) < MaxPending
    /\ Unwish(i)
    /\ UNCHANGED <<of, disk, favourites, pages, listVars, again, dropped>>

\* A tap on row i asks the shop for its product.
TapRow(i) ==
    /\ favourites /\ pages = <<>>
    /\ i \in listed /\ selected # of[i]
    /\ selected' = of[i]
    /\ \E c \in Ask :
         /\ opening[c] = None
         /\ opening' = [opening EXCEPT ![c] =
                          [at |-> Rank(i, listed), of |-> of[i], rows |-> listed]]
    /\ UNCHANGED <<boxVars, queue, favourites, pages, listed, again, dropped>>

\* The handler goes on: setState resets the spinner, whichever row has it.
Answered(c) ==
    /\ opening[c] # None
    /\ opening' = [opening EXCEPT ![c] = None]
    /\ selected' = None

\* The shop has it: Details is pushed, on top of what was opened meanwhile.
ProductFound(c) ==
    /\ Answered(c)
    /\ Push(opening[c].of)
    /\ UNCHANGED <<boxVars, queue, favourites, listed, again, dropped>>

\* The row with index k of the list as it is now is deleted.  RangeError, or
\* an object in no box: nothing.
Remove(k) ==
    /\ Len(queue) < MaxPending
    /\ IF At(k, listed) \cap box = {} THEN UNCHANGED <<box, queue, dropped>>
       ELSE \E i \in At(k, listed) :
              /\ Unwish(i)
              /\ dropped' = dropped \cup ({i} \cap {pages[n].heart : n \in DOMAIN pages})
    /\ UNCHANGED <<of, disk, favourites, pages, listed, again>>

\* Faulty: the index counts from one.
ProductMissing_OffByOne(c) == Answered(c) /\ Remove(opening[c].at + 1)

\* An error with "data" comes back and getProduct returns null: the row that
\* has the index now is deleted.
ProductMissing(c) == Answered(c) /\ Remove(opening[c].at)

\* woocommerce.get throws: the spinner stays, its row does not react any more.
ProductThrows(c) ==
    /\ opening[c] # None
    /\ opening' = [opening EXCEPT ![c] = None]
    /\ UNCHANGED <<boxVars, queue, favourites, pages, listed, selected, again, dropped>>

-----------------------------------------------------------------------------
\* checkCart of the Details page at place k.
checkCart(k) ==
    pages' = [pages EXCEPT ![k].heart = Found(pages[k].of), ![k].behind = Covered(k)]

\* A row was added to the cart from a Details page (Cart) and its write is
\* done: the callback runs checkCart, also while a write of the heart pends.
CartDone ==
    /\ \E k \in DOMAIN pages : checkCart(k)
    /\ UNCHANGED <<boxVars, queue, favourites, listVars, again, dropped>>

\* The `.then` callback of write w.
Callback(w) ==
    CASE w.by = Gone -> UNCHANGED <<listed, pages>>
      [] w.by = List -> listed' = box /\ UNCHANGED pages
      [] OTHER -> checkCart(w.by) /\ UNCHANGED listed

\* The oldest write reaches the disk and its callback runs.
WriteDone ==
    /\ queue # <<>>
    /\ LET w == Head(queue) IN
         /\ disk' = IF w.op = "add" THEN disk \cup {w.wish} ELSE disk \ {w.wish}
         /\ Callback(w)
    /\ queue' = Tail(queue)
    /\ UNCHANGED <<of, box, favourites, selected, opening, again, dropped>>

\* The process dies and the app is started again.
Restart ==
    /\ box' = disk /\ queue' = <<>> /\ favourites' = FALSE /\ pages' = <<>>
    /\ listed' = {} /\ selected' = None /\ opening' = [c \in Ask |-> None]
    /\ dropped' = {}
    /\ UNCHANGED <<of, disk, again>>

Next ==
    \/ OpenFavourites \/ LeaveFavourites \/ LeaveDetails
    \/ HeartOff \/ CartDone
    \/ \E p \in Product : OpenDetails(p)
    \/ \E i \in Wish : HeartOn(i) \/ DeleteRow(i) \/ TapRow(i)
    \/ \E c \in Ask : ProductFound(c) \/ ProductMissing(c) \/ ProductThrows(c)
    \/ WriteDone \/ Restart

Spec == Init /\ [][Next]_vars

-----------------------------------------------------------------------------
(***************************************************************************)
(* Properties                                                              *)
(***************************************************************************)

WishTypeOK ==
    /\ of \in [Wish -> Product \cup {None}]
    /\ box \subseteq Wish /\ disk \subseteq Wish /\ listed \subseteq Wish
    /\ queue \in Seq(Write) /\ Len(queue) <= MaxPending
    /\ favourites \in BOOLEAN
    /\ pages \in Seq(Details) /\ Len(pages) <= MaxPages
    /\ selected \in Product \cup {None}
    /\ opening \in [Ask -> Call \cup {None}]
    /\ again \subseteq Product /\ dropped \subseteq Wish

\* The index of the tapped row is used after the wait for getProduct, when the
\* rows may have moved.  Still the answer never removes a wish older than the
\* tapped one; and it removes a newer one only when the tapped row, or one
\* before it, has left the list meanwhile.
LateAnswersGoForward ==
    [][\A c \in Ask : favourites' /\ opening[c] # None /\ opening'[c] = None =>
         \A i \in box \ box', j \in At(opening[c].at, opening[c].rows) :
            /\ i >= j
            /\ i # j => \E m \in opening[c].rows \ listed : m <= j]_vars

\* The heart of a Details page is red exactly for a product on the wish list,
\* and points at a wish that is there, once the page's own writes are done:
\* unless another Details of the product has lain above since it last looked,
\* or a late answer of the shop has deleted that wish from the list below.
HeartIsTrue ==
    \A k \in DOMAIN pages :
        /\ ~pages[k].behind
        /\ \A w \in DOMAIN queue : queue[w].by # k
        => IF pages[k].heart = 0 THEN Wishes(pages[k].of) = {}
           ELSE pages[k].heart \in Wishes(pages[k].of) \cup dropped

\* A product is wished twice only by a second tap on the heart before the
\* first add reached the disk, or on a page above which another Details of
\* the product had lain since it last looked at the box.
WishedOnce ==
    \A i, j \in box : i # j /\ of[i] = of[j] => of[i] \in again

\* The box "favourites" as the store of WriteBehind, key by key.
Store == INSTANCE WriteBehind WITH
    Key <- Wish, Value <- BOOLEAN,
    mem <- [i \in Wish |-> i \in box], device <- [i \in Wish |-> i \in disk],
    log <- [k \in DOMAIN queue |->
               [key |-> queue[k].wish, val |-> queue[k].op = "add"]]

\* Whatever the order of hearts, deletes and late answers of the shop: no
\* handler changes the wishes behind the back of Hive, so a wish without a
\* pending write survives a crash exactly as the app shows it (Durable).
WishesWriteBehind == Store!Spec
=============================================================================
