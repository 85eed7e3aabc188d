--------------------------- MODULE WishlistProofs ---------------------------
(***************************************************************************)
(* Theorems about Wishlist for every set of products and every bound: its  *)
(* types, that it implements WriteBehind, that the hearts are true, that a *)
(* product is wished once and how far a late answer can go wrong.          *)
(***************************************************************************)
EXTENDS Wishlist, FiniteSetTheorems, SequenceTheorems, WellFoundedInduction, TLAPS

-----------------------------------------------------------------------------
(***************************************************************************)
(* Ranks, the last wish of a product, and the pages                        *)
(***************************************************************************)

LEMMA WishBounds ==
    /\ MaxWish \in Nat \ {0} /\ MaxPending \in Nat \ {0} /\ MaxPages \in Nat \ {0}
    /\ None \notin Product /\ None \notin Call
BY WishlistAssumption

\* Every set of numbers has a least one.
LEMMA LeastOf ==
    ASSUME NEW R, IsWellFoundedOn(R, Nat), \A m, n \in Nat : <<n, m>> \in R <=> n < m,
           NEW S \in SUBSET Nat, S # {}
    PROVE  \E m \in S : \A n \in S : m <= n
<1>1. PICK m \in S : \A n \in S : ~(<<n, m>> \in R)
  BY WFMin
<1>2. ASSUME NEW n \in S PROVE m <= n
  <2>1. m \in Nat /\ n \in Nat /\ ~(n < m)
    BY <1>1
  <2>2. QED
    BY ONLY <2>1
<1>3. QED
  BY <1>2

LEMMA LessThan == \A m, n \in Nat : <<n, m>> \in OpToRel(<, Nat) <=> n < m
BY DEF OpToRel

LEMMA Least == \A S \in SUBSET Nat : S # {} => \E m \in S : \A n \in S : m <= n
<1> DEFINE R == OpToRel(<, Nat)
<1>1. IsWellFoundedOn(R, Nat) /\ \A m, n \in Nat : <<n, m>> \in R <=> n < m
  BY NatLessThanWellFounded, LessThan
<1> HIDE DEF R
<1>2. QED
  BY <1>1, LeastOf

\* A set of wishes that is not empty has a last one: the least upper bound.
LEMMA LastWish ==
    ASSUME NEW S \in SUBSET Wish, S # {}
    PROVE  \E i \in S : \A j \in S : j <= i
<1> DEFINE U == {n \in Nat : \A j \in S : j <= n}
<1>1. MaxWish \in U
  BY WishBounds DEF Wish
<1>2. PICK m \in U : \A n \in U : m <= n
  <2>1. U \in SUBSET Nat /\ U # {}
    BY <1>1
  <2> HIDE DEF U
  <2>2. QED
    BY <2>1, Least
<1>3. \A j \in S : j \in Int /\ j > 0 /\ j <= m
  BY <1>2, WishBounds DEF Wish
<1>4. m \in S
  <2>1. SUFFICES ASSUME m \notin S PROVE FALSE
    OBVIOUS
  <2>2. m \in Nat /\ m > 0
    BY <1>2, <1>3
  <2>3. \A j \in S : j <= m - 1
    BY <1>3, <2>1, <2>2
  <2>4. m - 1 \in U
    BY <2>2, <2>3
  <2>5. QED
    BY <1>2, <2>2, <2>4
<1>5. QED
  BY <1>3, <1>4

\* checkCart finds a wish of the product exactly when there is one.
LEMMA FoundOf ==
    ASSUME NEW p, box \subseteq Wish
    PROVE  /\ Wishes(p) = {} => Found(p) = 0
           /\ Wishes(p) # {} => Found(p) \in Wishes(p)
           /\ Found(p) \in Wish \cup {0}
<1>1. Wishes(p) \in SUBSET Wish
  BY DEF Wishes
<1>2. CASE Wishes(p) # {}
  <2>1. \E i \in Wishes(p) : \A j \in Wishes(p) : j <= i
    BY <1>1, <1>2, LastWish
  <2>2. Found(p) \in Wishes(p)
    BY <1>2, <2>1 DEF Found
  <2>3. QED
    BY <1>1, <1>2, <2>2
<1>3. QED
  BY <1>2 DEF Found

LEMMA Fewer ==
    ASSUME NEW S, NEW T \in SUBSET S, IsFiniteSet(S), T # S
    PROVE  Cardinality(T) # Cardinality(S)
BY FS_Subset

\* The index of a row is that of one row.
LEMMA RankOf ==
    ASSUME NEW rows \in SUBSET Wish
    PROVE  /\ \A i \in rows : Rank(i, rows) \in Wish
           /\ \A i, j \in rows : Rank(i, rows) = Rank(j, rows) => i = j
<1> DEFINE Below(i) == {j \in rows : j <= i}
<1>1. IsFiniteSet(Wish) /\ Cardinality(Wish) = MaxWish
  BY WishBounds, FS_Interval DEF Wish
<1>2. ASSUME NEW i \in rows
      PROVE  /\ IsFiniteSet(Below(i)) /\ Cardinality(Below(i)) \in Wish
  <2>1. Below(i) \in SUBSET Wish
    OBVIOUS
  <2>2. IsFiniteSet(Below(i)) /\ Cardinality(Below(i)) <= MaxWish
    BY <1>1, <2>1, FS_Subset
  <2>3. Cardinality(Below(i)) \in Nat
    BY <2>2, FS_CardinalityType
  <2>4. i \in Below(i)
    BY WishBounds DEF Wish
  <2>5. Cardinality(Below(i)) # 0
    BY <2>2, <2>4, FS_EmptySet
  <2> HIDE DEF Below
  <2>6. QED
    BY <2>2, <2>3, <2>5, WishBounds DEF Wish
<1>3. ASSUME NEW i \in rows, NEW j \in rows, i < j
      PROVE  Cardinality(Below(i)) # Cardinality(Below(j))
  <2>1. i \in Int /\ j \in Int /\ rows \subseteq Int
    BY WishBounds DEF Wish
  <2>2. Below(i) \in SUBSET Below(j) /\ j \in Below(j) /\ j \notin Below(i)
    <3>1. ~(j <= i) /\ j <= j /\ \A k \in rows : k <= i => k <= j
      BY <1>3, <2>1
    <3>2. QED
      BY <3>1
  <2>3. IsFiniteSet(Below(j)) /\ Below(i) # Below(j)
    BY <1>2, <2>2
  <2> HIDE DEF Below
  <2>4. QED
    BY <2>2, <2>3, Fewer
<1>4. \A i, j \in rows : i < j \/ j < i \/ i = j
  BY WishBounds DEF Wish
<1>5. \A i \in rows : Rank(i, rows) = Cardinality(Below(i))
  BY DEF Rank
<1>6. QED
  BY <1>2, <1>3, <1>4, <1>5

LEMMA Alone ==
    ASSUME NEW S, NEW s \in Seq(S), Len(s) = 1
    PROVE  s = <<s[1]>>
<1>1. s[1] \in S
  OBVIOUS
<1>2. /\ <<s[1]>> \in Seq(S) /\ Len(<<s[1]>>) = 1
      /\ \A k \in 1..1 : s[k] = <<s[1]>>[k]
  BY <1>1
<1>3. QED
  BY ONLY <1>2, s \in Seq(S), Len(s) = 1, SeqEqual

PagesOK == pages \in Seq(Details) /\ Len(pages) <= MaxPages

\* What a page becomes when it is covered.
LEMMA BehindType ==
    ASSUME NEW g \in Details, NEW b \in BOOLEAN, NEW h, h = [g EXCEPT !.behind = b]
    PROVE  h \in Details /\ h.of = g.of /\ h.heart = g.heart /\ h.behind = b
BY DEF Details

\* Push: every page keeps its place and its heart, those of p fall behind, and
\* the page of p lies on top.
LEMMA PushedPages ==
    ASSUME PagesOK, box \subseteq Wish, NEW p \in Product, Push(p)
    PROVE  LET n == Len(pages) IN
           /\ n \in Nat /\ n < MaxPages
           /\ pages' \in Seq(Details) /\ Len(pages') = n + 1
           /\ \A k \in 1..n : /\ pages'[k].of = pages[k].of
                              /\ pages'[k].heart = pages[k].heart
                              /\ pages'[k].behind = (pages[k].behind \/ pages[k].of = p)
           /\ pages'[n + 1].of = p /\ pages'[n + 1].heart = Found(p)
           /\ pages'[n + 1].behind = FALSE
<1> DEFINE n == Len(pages)
           low == [k \in DOMAIN pages |-> [pages[k] EXCEPT !.behind = @ \/ pages[k].of = p]]
           top == [of |-> p, heart |-> Found(p), behind |-> FALSE]
<1>1. /\ pages \in Seq(Details) /\ n \in Nat /\ DOMAIN pages = 1..n
      /\ \A k \in 1..n : pages[k] \in Details
  BY DEF PagesOK
<1>2. \A k \in 1..n : /\ low[k] \in Details
                      /\ low[k].of = pages[k].of /\ low[k].heart = pages[k].heart
                      /\ low[k].behind = (pages[k].behind \/ pages[k].of = p)
  <2>1. ASSUME NEW k \in 1..n
        PROVE  /\ low[k] \in Details
               /\ low[k].of = pages[k].of /\ low[k].heart = pages[k].heart
               /\ low[k].behind = (pages[k].behind \/ pages[k].of = p)
    <3> DEFINE b == pages[k].behind \/ pages[k].of = p
    <3>1. pages[k] \in Details /\ b \in BOOLEAN
      BY <1>1
    <3>2. low[k] = [pages[k] EXCEPT !.behind = b]
      BY <1>1
    <3> HIDE DEF b, low
    <3>3. /\ low[k] \in Details /\ low[k].of = pages[k].of
          /\ low[k].heart = pages[k].heart /\ low[k].behind = b
      BY ONLY <3>1, <3>2, BehindType
    <3>4. QED
      BY <3>3, Zenon DEF b
  <2>2. QED
    BY <2>1
<1>3. low \in Seq(Details) /\ Len(low) = n
  <2>1. low \in [1..n -> Details]
    BY <1>1, <1>2
  <2>2. QED
    BY ONLY <1>1, <2>1
<1>4. top \in Details /\ top.of = p /\ top.heart = Found(p) /\ top.behind = FALSE
  <2>1. Found(p) \in Wish \cup {0}
    BY FoundOf
  <2>2. QED
    BY <2>1 DEF Details
<1>5. pages' = Append(low, top) /\ n < MaxPages
  BY DEF Push
<1> HIDE DEF low, top
<1>6. /\ pages' \in Seq(Details) /\ Len(pages') = n + 1
      /\ \A k \in 1..n : pages'[k] = low[k]
      /\ pages'[n + 1] = top
  BY ONLY <1>1, <1>3, <1>4, <1>5, AppendProperties
<1>7. QED
  BY <1>1, <1>2, <1>4, <1>5, <1>6

\* checkCart: only the page at place k changes.
LEMMA CheckedPages ==
    ASSUME PagesOK, box \subseteq Wish, NEW k, checkCart(k)
    PROVE  /\ pages' \in Seq(Details) /\ Len(pages') = Len(pages) /\ Len(pages) \in Nat
           /\ \A j \in 1..Len(pages) :
                  /\ pages'[j].of = pages[j].of
                  /\ j # k => pages'[j] = pages[j]
                  /\ j = k => /\ pages'[j].heart = Found(pages[j].of)
                             /\ pages'[j].behind = Covered(j)
<1>1. /\ pages \in Seq(Details) /\ Len(pages) \in Nat /\ DOMAIN pages = 1..Len(pages)
      /\ \A j \in 1..Len(pages) : pages[j] \in Details
  BY DEF PagesOK
<1>2. DOMAIN pages' = DOMAIN pages
  BY DEF checkCart
<1>3. ASSUME NEW j \in 1..Len(pages)
      PROVE  /\ pages'[j] \in Details
             /\ pages'[j].of = pages[j].of
             /\ j # k => pages'[j] = pages[j]
             /\ j = k => /\ pages'[j].heart = Found(pages[j].of)
                        /\ pages'[j].behind = Covered(j)
  <2>1. CASE j # k
    BY <1>1, <1>3, <2>1 DEF checkCart
  <2>2. CASE j = k
    <3> DEFINE h == Found(pages[j].of)
               b == Covered(j)
    <3>1. pages[j] \in Details /\ h \in Wish \cup {0} /\ b \in BOOLEAN
      BY <1>1, FoundOf DEF Covered
    <3> HIDE DEF b, h
    <3>2. pages'[j] = [of |-> pages[j].of, heart |-> h, behind |-> b]
      BY <1>1, <1>3, <2>2, <3>1 DEF checkCart, Details, b, h
    <3>3. /\ pages'[j] \in Details /\ pages'[j].of = pages[j].of
          /\ pages'[j].heart = h /\ pages'[j].behind = b
      BY ONLY <3>1, <3>2 DEF Details
    <3>4. QED
      BY <2>2, <3>3, Zenon DEF b, h
  <2>3. QED
    BY <2>1, <2>2
<1>4. pages' \in [1..Len(pages) -> Details]
  <2>1. pages' = [j \in 1..Len(pages) |-> pages'[j]]
    BY <1>1, <1>2 DEF checkCart
  <2>2. QED
    BY <1>3, <2>1
<1>5. pages' \in Seq(Details) /\ Len(pages') = Len(pages)
  BY ONLY <1>1, <1>4
<1>6. QED
  BY <1>1, <1>3, <1>5

\* LeaveDetails: the pages below stay.
LEMMA LeftPages ==
    ASSUME PagesOK, LeaveDetails
    PROVE  /\ Len(pages) \in Nat \ {0} /\ Len(pages) \in Int
           /\ pages' \in Seq(Details) /\ Len(pages') = Len(pages) - 1
           /\ \A k \in 1..Len(pages') : pages'[k] = pages[k]
<1>1. /\ pages \in Seq(Details) /\ Len(pages) \in Nat \ {0}
      /\ pages' = SubSeq(pages, 1, Len(pages) - 1)
  BY DEF PagesOK, LeaveDetails
<1> DEFINE n == Len(pages) - 1
<1>2. n \in Nat /\ n \in Int /\ Len(pages) = n + 1 /\ n - 1 + 1 = n
  BY <1>1
<1>3. \A k \in 1..n : k \in 1..Len(pages)
  BY <1>2
<1> HIDE DEF n
<1>4. /\ pages' \in Seq(Details) /\ Len(pages') = n
      /\ \A k \in 1..n : pages'[k] = pages[k]
  BY ONLY <1>1, <1>2, <1>3, pages' = SubSeq(pages, 1, n)
<1>5. QED
  BY <1>1, <1>2, <1>4

-----------------------------------------------------------------------------
(***************************************************************************)
(* Types                                                                   *)
(***************************************************************************)

LEMMA OrphanedWish ==
    ASSUME NEW q \in Seq(Write), NEW n \in Int
    PROVE  /\ Orphaned(n, q) \in Seq(Write) /\ Len(Orphaned(n, q)) = Len(q)
           /\ \A k \in 1..Len(q) :
                /\ Orphaned(n, q)[k].op = q[k].op
                /\ Orphaned(n, q)[k].wish = q[k].wish
                /\ q[k].by >= n => Orphaned(n, q)[k].by = Gone
                /\ ~(q[k].by >= n) => Orphaned(n, q)[k].by = q[k].by
<1>1. ASSUME NEW w \in Write
      PROVE  /\ [w EXCEPT !.by = Gone] \in Write
             /\ [w EXCEPT !.by = Gone].op = w.op
             /\ [w EXCEPT !.by = Gone].wish = w.wish
             /\ [w EXCEPT !.by = Gone].by = Gone
  BY WishBounds DEF Write, Gone
<1>2. \A k \in 1..Len(q) : q[k] \in Write
  OBVIOUS
<1>3. DOMAIN q = 1..Len(q) /\ Len(q) \in Nat
  OBVIOUS
<1>4. Orphaned(n, q) \in [1..Len(q) -> Write]
  BY <1>1, <1>2, <1>3 DEF Orphaned
<1>5. Orphaned(n, q) \in Seq(Write) /\ Len(Orphaned(n, q)) = Len(q)
  BY ONLY <1>3, <1>4
<1>6. ASSUME NEW k \in 1..Len(q)
      PROVE  Orphaned(n, q)[k] = IF q[k].by >= n THEN [q[k] EXCEPT !.by = Gone] ELSE q[k]
  BY <1>3 DEF Orphaned
<1>7. ASSUME NEW k \in 1..Len(q)
      PROVE  /\ Orphaned(n, q)[k].op = q[k].op
             /\ Orphaned(n, q)[k].wish = q[k].wish
             /\ q[k].by >= n => Orphaned(n, q)[k].by = Gone
             /\ ~(q[k].by >= n) => Orphaned(n, q)[k].by = q[k].by
  <2>1. q[k] \in Write
    BY <1>2
  <2>2. CASE q[k].by >= n
    <3>1. Orphaned(n, q)[k] = [q[k] EXCEPT !.by = Gone]
      BY <1>6, <2>2
    <3>2. /\ [q[k] EXCEPT !.by = Gone].op = q[k].op
          /\ [q[k] EXCEPT !.by = Gone].wish = q[k].wish
          /\ [q[k] EXCEPT !.by = Gone].by = Gone
      BY <1>1, <2>1
    <3>3. QED
      BY <2>2, <3>1, <3>2, Zenon
  <2>3. CASE ~(q[k].by >= n)
    BY <1>6, <2>3
  <2>4. QED
    BY <2>2, <2>3
<1>8. QED
  BY <1>5, <1>7

LEMMA ListIsANumber == List \in Int /\ \A w \in Write : w.by \in Int
BY DEF List, Write, Gone

LEMMA AppendWish ==
    ASSUME NEW q \in Seq(Write), NEW w \in Write
    PROVE  /\ Append(q, w) \in Seq(Write) /\ Len(Append(q, w)) = Len(q) + 1
           /\ Len(q) \in Nat
           /\ \A k \in 1..Len(q) : Append(q, w)[k] = q[k]
           /\ Append(q, w)[Len(q) + 1] = w
BY AppendProperties

LEMMA HeadTailWish ==
    ASSUME NEW q \in Seq(Write), q # <<>>
    PROVE  /\ q[1] \in Write /\ Head(q) = q[1]
           /\ Tail(q) \in Seq(Write) /\ Len(Tail(q)) = Len(q) - 1
           /\ Len(q) \in Nat \ {0}
           /\ \A k \in 1..Len(Tail(q)) : Tail(q)[k] = q[k + 1]
BY HeadTailProperties

LEMMA NewWrite ==
    ASSUME NEW o \in {"add", "delete"}, NEW i \in Wish, NEW b \in Gone..MaxPages
    PROVE  [op |-> o, wish |-> i, by |-> b] \in Write
BY DEF Write

\* The States that ask for a write: Favourites and the page on top.
LEMMA Askers ==
    ASSUME PagesOK
    PROVE  List \in Gone..MaxPages /\ (pages # <<>> => Len(pages) \in Gone..MaxPages)
BY WishBounds DEF PagesOK, List, Gone

LEMMA WishPagesOK == WishTypeOK => PagesOK /\ box \subseteq Wish
BY DEF WishTypeOK, PagesOK

LEMMA TopPage ==
    ASSUME PagesOK, pages # <<>>
    PROVE  /\ Len(pages) \in DOMAIN pages /\ DOMAIN pages = 1..Len(pages)
           /\ Len(pages) \in Nat \ {0} /\ pages[Len(pages)] \in Details
           /\ pages[Len(pages)].of \in Product /\ pages[Len(pages)].heart \in Wish \cup {0}
<1>1. Len(pages) \in 1..Len(pages) /\ DOMAIN pages = 1..Len(pages) /\ Len(pages) \in Nat \ {0}
  BY DEF PagesOK
<1>2. \A k \in 1..Len(pages) : pages[k] \in Details
  BY DEF PagesOK
<1>3. QED
  BY <1>1, <1>2 DEF Details

LEMMA WishTypeInit == Init => WishTypeOK
<1> SUFFICES ASSUME Init PROVE WishTypeOK
  OBVIOUS
<1>1. /\ of \in [Wish -> Product \cup {None}] /\ opening \in [Ask -> Call \cup {None}]
      /\ queue \in Seq(Write) /\ Len(queue) <= MaxPending
      /\ pages \in Seq(Details) /\ Len(pages) <= MaxPages
  BY WishBounds DEF Init
<1>2. /\ box \subseteq Wish /\ disk \subseteq Wish /\ listed \subseteq Wish
      /\ selected \in Product \cup {None} /\ favourites \in BOOLEAN
      /\ again \subseteq Product /\ dropped \subseteq Wish
  BY DEF Init
<1>3. QED
  BY <1>1, <1>2 DEF WishTypeOK

\* A tap that writes: the queue has room.
LEMMA TapQueue ==
    ASSUME WishTypeOK, Len(queue) < MaxPending, NEW w \in Write, queue' = Append(queue, w)
    PROVE  queue' \in Seq(Write) /\ Len(queue') <= MaxPending
BY AppendWish, WishBounds DEF WishTypeOK

LEMMA OpenFavouritesType == ASSUME WishTypeOK, OpenFavourites PROVE WishTypeOK'
BY DEF OpenFavourites, WishTypeOK, boxVars

LEMMA PushType ==
    ASSUME WishTypeOK, NEW p \in Product, Push(p)
    PROVE  pages' \in Seq(Details) /\ Len(pages') <= MaxPages
<1>1. /\ Len(pages) \in Nat /\ Len(pages) < MaxPages
      /\ pages' \in Seq(Details) /\ Len(pages') = Len(pages) + 1
  BY PushedPages, WishPagesOK
<1>2. QED
  BY ONLY <1>1, WishBounds

LEMMA OpenDetailsType ==
    ASSUME WishTypeOK, NEW p \in Product, OpenDetails(p)
    PROVE  WishTypeOK'
<1>1. pages' \in Seq(Details) /\ Len(pages') <= MaxPages
  BY PushType DEF OpenDetails
<1>2. QED
  BY <1>1 DEF OpenDetails, WishTypeOK, boxVars, listVars

LEMMA LeaveDetailsType == ASSUME WishTypeOK, LeaveDetails PROVE WishTypeOK'
<1>1. /\ Len(pages) \in Int /\ pages' \in Seq(Details) /\ Len(pages') <= MaxPages
  BY LeftPages, WishPagesOK, WishBounds DEF WishTypeOK
<1>2. queue' \in Seq(Write) /\ Len(queue') <= MaxPending
  BY <1>1, OrphanedWish DEF LeaveDetails, WishTypeOK
<1>3. QED
  BY <1>1, <1>2 DEF LeaveDetails, WishTypeOK, boxVars, listVars

LEMMA LeaveFavouritesType == ASSUME WishTypeOK, LeaveFavourites PROVE WishTypeOK'
<1>1. queue' \in Seq(Write) /\ Len(queue') <= MaxPending
  BY OrphanedWish, ListIsANumber DEF LeaveFavourites, WishTypeOK
<1>2. QED
  BY <1>1 DEF LeaveFavourites, WishTypeOK, boxVars

LEMMA HeartOnType ==
    ASSUME WishTypeOK, NEW i \in Wish, HeartOn(i)
    PROVE  WishTypeOK'
<1> DEFINE n == Len(pages)
<1>1. /\ pages # <<>> /\ of' = [of EXCEPT ![i] = pages[n].of] /\ box' = box \cup {i}
      /\ queue' = Append(queue, [op |-> "add", wish |-> i, by |-> n])
      /\ Len(queue) < MaxPending
  BY DEF HeartOn, Wishing
<1>2. n \in Gone..MaxPages /\ pages[n].of \in Product
  BY <1>1, Askers, WishPagesOK, TopPage
<1>3. queue' \in Seq(Write) /\ Len(queue') <= MaxPending
  BY <1>1, <1>2, NewWrite, TapQueue
<1>4. again' \subseteq Product
  BY <1>2 DEF HeartOn, WishTypeOK
<1>5. of' \in [Wish -> Product \cup {None}] /\ box' \subseteq Wish
  BY <1>1, <1>2 DEF WishTypeOK
<1>6. QED
  BY <1>3, <1>4, <1>5 DEF HeartOn, WishTypeOK, listVars

\* The icon of a row, the heart, and an answer without a product delete a wish.
LEMMA DeletesType ==
    ASSUME WishTypeOK, NEW i \in Wish, NEW b \in Gone..MaxPages, box' = box \ {i},
           Len(queue) < MaxPending,
           queue' = Append(queue, [op |-> "delete", wish |-> i, by |-> b])
    PROVE  /\ box' \subseteq Wish
           /\ queue' \in Seq(Write) /\ Len(queue') <= MaxPending
BY NewWrite, TapQueue DEF WishTypeOK

LEMMA HeartOffType == ASSUME WishTypeOK, HeartOff PROVE WishTypeOK'
<1> DEFINE i == pages[Len(pages)].heart
<1>1. /\ pages # <<>> /\ i \in Wish /\ box' = box \ {i} /\ Len(queue) < MaxPending
      /\ queue' = Append(queue, [op |-> "delete", wish |-> i, by |-> Len(pages)])
  BY DEF HeartOff, WishTypeOK
<1>2. box' \subseteq Wish /\ queue' \in Seq(Write) /\ Len(queue') <= MaxPending
  BY <1>1, Askers, WishPagesOK, DeletesType
<1>3. QED
  BY <1>2 DEF HeartOff, WishTypeOK, listVars

LEMMA DeleteRowType ==
    ASSUME WishTypeOK, NEW i \in Wish, DeleteRow(i)
    PROVE  WishTypeOK'
<1>1. box' \subseteq Wish /\ queue' \in Seq(Write) /\ Len(queue') <= MaxPending
  BY Askers, WishPagesOK, DeletesType DEF DeleteRow, Unwish
<1>2. QED
  BY <1>1 DEF DeleteRow, WishTypeOK, listVars

\* What is listed has been wished.
LEMMA TapRowType ==
    ASSUME WishTypeOK, NEW i \in Wish, TapRow(i), of[i] # None
    PROVE  WishTypeOK'
<1>1. of[i] \in Product /\ Rank(i, listed) \in Wish /\ listed \in SUBSET Wish
  BY RankOf DEF TapRow, WishTypeOK
<1>2. [at |-> Rank(i, listed), of |-> of[i], rows |-> listed] \in Call
  BY <1>1 DEF Call
<1>3. opening' \in [Ask -> Call \cup {None}]
  BY <1>2 DEF TapRow, WishTypeOK
<1>4. QED
  BY <1>1, <1>3 DEF TapRow, WishTypeOK, boxVars

LEMMA AnsweredType ==
    ASSUME WishTypeOK, NEW c \in Ask, opening[c] # None
    PROVE  /\ opening[c] \in Call /\ opening[c].of \in Product
           /\ opening[c].at \in Wish /\ opening[c].rows \in SUBSET Wish
           /\ [opening EXCEPT ![c] = None] \in [Ask -> Call \cup {None}]
BY DEF WishTypeOK, Call

LEMMA ProductFoundType ==
    ASSUME WishTypeOK, NEW c \in Ask, ProductFound(c)
    PROVE  WishTypeOK'
<1>1. opening[c].of \in Product /\ opening' \in [Ask -> Call \cup {None}]
  BY AnsweredType DEF ProductFound, Answered
<1>2. pages' \in Seq(Details) /\ Len(pages') <= MaxPages
  BY <1>1, PushType DEF ProductFound
<1>3. QED
  BY <1>1, <1>2 DEF ProductFound, Answered, WishTypeOK, boxVars

\* What Remove does to the box, if anything.
LEMMA RemoveCases ==
    ASSUME NEW k, Remove(k)
    PROVE  \/ UNCHANGED <<box, queue, dropped>>
           \/ \E i \in At(k, listed) :
                 /\ Unwish(i)
                 /\ dropped' = dropped \cup ({i} \cap {pages[n].heart : n \in DOMAIN pages})
BY DEF Remove

LEMMA ProductMissingType ==
    ASSUME WishTypeOK, NEW c \in Ask, ProductMissing(c)
    PROVE  WishTypeOK'
<1>1. opening' \in [Ask -> Call \cup {None}]
  BY AnsweredType DEF ProductMissing, Answered
<1>2. /\ box' \subseteq Wish /\ queue' \in Seq(Write) /\ Len(queue') <= MaxPending
      /\ dropped' \subseteq Wish
  <2>1. CASE UNCHANGED <<box, queue, dropped>>
    BY <2>1 DEF WishTypeOK
  <2>2. ASSUME NEW i \in At(opening[c].at, listed), Unwish(i),
               dropped' = dropped \cup ({i} \cap {pages[n].heart : n \in DOMAIN pages})
        PROVE  /\ box' \subseteq Wish /\ queue' \in Seq(Write) /\ Len(queue') <= MaxPending
               /\ dropped' \subseteq Wish
    <3>1. i \in Wish /\ Len(queue) < MaxPending
      BY <2>2 DEF At, WishTypeOK, ProductMissing, Remove
    <3>2. box' \subseteq Wish /\ queue' \in Seq(Write) /\ Len(queue') <= MaxPending
      BY <2>2, <3>1, Askers, WishPagesOK, DeletesType DEF Unwish
    <3>3. QED
      BY <2>2, <3>1, <3>2 DEF WishTypeOK
  <2>3. QED
    BY <2>1, <2>2, RemoveCases DEF ProductMissing
<1>3. QED
  BY <1>1, <1>2 DEF ProductMissing, Answered, Remove, WishTypeOK

LEMMA ProductThrowsType ==
    ASSUME WishTypeOK, NEW c \in Ask, ProductThrows(c)
    PROVE  WishTypeOK'
<1>1. opening' \in [Ask -> Call \cup {None}]
  BY AnsweredType DEF ProductThrows
<1>2. QED
  BY <1>1 DEF ProductThrows, WishTypeOK, boxVars

LEMMA CheckType ==
    ASSUME WishTypeOK, NEW k, checkCart(k)
    PROVE  pages' \in Seq(Details) /\ Len(pages') <= MaxPages
<1>1. pages' \in Seq(Details) /\ Len(pages') = Len(pages)
  BY CheckedPages, WishPagesOK
<1>2. QED
  BY <1>1 DEF WishTypeOK

LEMMA CartDoneType == ASSUME WishTypeOK, CartDone PROVE WishTypeOK'
<1>1. pages' \in Seq(Details) /\ Len(pages') <= MaxPages
  BY CheckType DEF CartDone
<1>2. QED
  BY <1>1 DEF CartDone, WishTypeOK, boxVars, listVars

\* Whose callback runs when write w is done.
LEMMA CallbackCases ==
    ASSUME NEW w, Callback(w)
    PROVE  \/ w.by = Gone /\ UNCHANGED <<listed, pages>>
           \/ w.by = List /\ listed' = box /\ UNCHANGED pages
           \/ w.by # Gone /\ w.by # List /\ checkCart(w.by) /\ UNCHANGED listed
BY DEF Callback, Gone, List

LEMMA WriteDoneType == ASSUME WishTypeOK, WriteDone PROVE WishTypeOK'
<1> DEFINE w == Head(queue)
<1>1. /\ queue \in Seq(Write) /\ queue # <<>> /\ queue' = Tail(queue)
      /\ w \in Write /\ queue' \in Seq(Write) /\ Len(queue') = Len(queue) - 1
      /\ Len(queue) \in Nat /\ Callback(w)
  BY HeadTailWish DEF WishTypeOK, WriteDone
<1>2. disk' \subseteq Wish
  BY <1>1 DEF WriteDone, WishTypeOK, Write
<1> HIDE DEF w
<1>3. /\ listed' \subseteq Wish /\ pages' \in Seq(Details) /\ Len(pages') <= MaxPages
  <2>1. CASE UNCHANGED pages /\ listed' \in {listed, box}
    BY <2>1 DEF WishTypeOK
  <2>2. CASE checkCart(w.by) /\ UNCHANGED listed
    BY <2>2, CheckType DEF WishTypeOK
  <2>3. QED
    BY <1>1, <2>1, <2>2, CallbackCases
<1>4. Len(queue') <= MaxPending
  BY <1>1, WishBounds DEF WishTypeOK
<1>5. QED
  BY <1>1, <1>2, <1>3, <1>4 DEF WriteDone, WishTypeOK

LEMMA RestartType == ASSUME WishTypeOK, Restart PROVE WishTypeOK'
<1>1. /\ queue' \in Seq(Write) /\ Len(queue') <= MaxPending
      /\ pages' \in Seq(Details) /\ Len(pages') <= MaxPages
  BY WishBounds DEF Restart
<1>2. QED
  BY <1>1 DEF Restart, WishTypeOK

-----------------------------------------------------------------------------
(***************************************************************************)
(* What the writes and the pages keep                                      *)
(***************************************************************************)

Made == {i \in Wish : of[i] # None}

\* A wish that is anywhere has been made.
Created ==
    /\ box \subseteq Made /\ disk \subseteq Made /\ listed \subseteq Made
    /\ \A k \in 1..Len(queue) : queue[k].wish \in Made
    /\ \A c \in Ask : opening[c] # None => opening[c].rows \subseteq Made

\* Wishes are made in the order of their keys.
Segment == \A i \in Made, j \in Wish : j < i => j \in Made

\* Without Favourites no answer is waited for.
Closed == ~favourites => \A c \in Ask : opening[c] = None

\* What came into the list or the box after a row was tapped, and into the box
\* after it was listed, is newer than all that was listed then.
Newer ==
    /\ \A c \in Ask : opening[c] # None =>
          \A i \in (box \cup listed) \ opening[c].rows, j \in opening[c].rows : j < i
    /\ favourites => \A i \in box \ listed, j \in listed : j < i

\* A page that another of its product lies above is behind.
Shaded == \A k, n \in 1..Len(pages) : k < n /\ pages[n].of = pages[k].of => pages[k].behind

\* A red heart points at a wish of the product of its page.
Hearted ==
    \A k \in 1..Len(pages) : pages[k].heart # 0 => /\ pages[k].heart \in Made
                                                  /\ of[pages[k].heart] = pages[k].of

WishInv == WishTypeOK /\ Created /\ Segment /\ Closed /\ Newer /\ Shaded /\ Hearted

LEMMA WishTypeNext ==
    ASSUME WishInv, [Next]_vars
    PROVE  WishTypeOK'
<1>1. WishTypeOK /\ \A i \in listed : of[i] # None
  BY DEF WishInv, Created, Made
<1>2. CASE UNCHANGED vars
  BY <1>1, <1>2 DEF vars, boxVars, listVars, WishTypeOK
<1>3. CASE \/ OpenFavourites \/ LeaveFavourites \/ LeaveDetails
           \/ HeartOff \/ CartDone \/ WriteDone \/ Restart
  BY <1>1, <1>3, OpenFavouritesType, LeaveFavouritesType, LeaveDetailsType,
     HeartOffType, CartDoneType, WriteDoneType, RestartType
<1>4. CASE \E p \in Product : OpenDetails(p)
  BY <1>1, <1>4, OpenDetailsType
<1>5. ASSUME NEW i \in Wish, HeartOn(i) \/ DeleteRow(i) \/ TapRow(i) PROVE WishTypeOK'
  <2>1. CASE HeartOn(i)
    BY <1>1, <2>1, HeartOnType
  <2>2. CASE DeleteRow(i)
    BY <1>1, <2>2, DeleteRowType
  <2>3. CASE TapRow(i)
    <3>1. of[i] # None
      BY <1>1, <2>3 DEF TapRow
    <3>2. QED
      BY <1>1, <2>3, <3>1, TapRowType
  <2>4. QED
    BY <1>5, <2>1, <2>2, <2>3
<1>6. CASE \E c \in Ask : ProductFound(c) \/ ProductMissing(c) \/ ProductThrows(c)
  BY <1>1, <1>6, ProductFoundType, ProductMissingType, ProductThrowsType
<1>7. QED
  BY <1>2, <1>3, <1>4, <1>5, <1>6 DEF Next

\* What a step is to the box, its file and the writes: nothing, but for who
\* waits; a wish more; a wish less; the end of the oldest write; a crash.
Quiet ==
    /\ UNCHANGED <<of, box, disk, again>>
    /\ queue' = queue \/ \E n \in Int : queue' = Orphaned(n, queue)

Deletes(i, b) ==
    /\ box' = box \ {i}
    /\ queue' = Append(queue, [op |-> "delete", wish |-> i, by |-> b])
    /\ UNCHANGED <<of, disk, again>>

LEMMA StepCases ==
    ASSUME WishInv, [Next]_vars
    PROVE  \/ Quiet
           \/ \E i \in Wish : HeartOn(i)
           \/ \E i \in Made, b \in Gone..MaxPages : Deletes(i, b)
           \/ WriteDone
           \/ Restart
<1>1. CASE UNCHANGED vars \/ OpenFavourites \/ CartDone
  BY <1>1 DEF vars, boxVars, OpenFavourites, CartDone, Quiet
<1>2. CASE LeaveFavourites \/ LeaveDetails
  <2>1. List \in Int /\ (LeaveDetails => Len(pages) \in Int)
    BY LeftPages, WishPagesOK, ListIsANumber DEF WishInv
  <2>2. QED
    BY <1>2, <2>1 DEF boxVars, LeaveFavourites, LeaveDetails, Quiet
<1>3. CASE HeartOff
  <2>1. Len(pages) \in Gone..MaxPages
    BY <1>3, Askers, WishPagesOK DEF WishInv, HeartOff
  <2>2. PICK i \in box : i = pages[Len(pages)].heart
    BY <1>3 DEF HeartOff
  <2>3. i \in Made
    BY <2>2 DEF WishInv, Created
  <2>4. Deletes(i, Len(pages))
    BY <1>3, <2>2 DEF HeartOff, Deletes
  <2>5. QED
    BY <2>1, <2>3, <2>4
<1>4. ASSUME NEW p \in Product, OpenDetails(p) PROVE Quiet
  BY <1>4 DEF OpenDetails, boxVars, Quiet
<1>5. ASSUME NEW i \in Wish, DeleteRow(i) \/ TapRow(i)
      PROVE  Quiet \/ \E b \in Gone..MaxPages : i \in Made /\ Deletes(i, b)
  <2>1. CASE DeleteRow(i)
    <3>1. i \in Made /\ List \in Gone..MaxPages
      BY <2>1, Askers, WishPagesOK DEF DeleteRow, WishInv, Created
    <3>2. Deletes(i, List)
      BY <2>1 DEF DeleteRow, Unwish, Deletes
    <3>3. QED
      BY <3>1, <3>2
  <2>2. CASE TapRow(i)
    BY <2>2 DEF TapRow, boxVars, Quiet
  <2>3. QED
    BY <1>5, <2>1, <2>2
<1>6. ASSUME NEW c \in Ask, ProductFound(c) \/ ProductThrows(c) PROVE Quiet
  BY <1>6 DEF ProductFound, ProductThrows, boxVars, Quiet
<1>7. ASSUME NEW c \in Ask, ProductMissing(c)
      PROVE  Quiet \/ \E i \in Made, b \in Gone..MaxPages : Deletes(i, b)
  <2>1. Remove(opening[c].at) /\ UNCHANGED <<of, disk, again>>
    BY <1>7 DEF ProductMissing, Remove
  <2>2. CASE UNCHANGED <<box, queue, dropped>>
    BY <2>1, <2>2 DEF Quiet
  <2>3. ASSUME NEW i \in At(opening[c].at, listed), Unwish(i)
        PROVE  i \in Made /\ List \in Gone..MaxPages /\ Deletes(i, List)
    BY <2>1, <2>3, Askers, WishPagesOK DEF At, Unwish, Deletes, WishInv, Created
  <2>4. QED
    BY <2>1, <2>2, <2>3, RemoveCases
<1>8. QED
  BY <1>1, <1>2, <1>3, <1>4, <1>5, <1>6, <1>7 DEF Next

\* A tap of the heart makes the next wish, which was nowhere before.
LEMMA HeartOnMade ==
    ASSUME WishInv, NEW i \in Wish, HeartOn(i)
    PROVE  /\ i \notin Made /\ Made' = Made \cup {i}
           /\ of'[i] = pages[Len(pages)].of /\ \A j \in Wish : j # i => of'[j] = of[j]
           /\ \A j \in Wish : j < i => j \in Made
           /\ \A j \in Made : j < i
           /\ box' = box \cup {i} /\ pages # <<>> /\ pages[Len(pages)].heart = 0
           /\ queue' = Append(queue, [op |-> "add", wish |-> i, by |-> Len(pages)])
           /\ Len(pages) \in Gone..MaxPages
           /\ UNCHANGED <<disk, favourites, pages, listVars, dropped>>
<1> DEFINE p == pages[Len(pages)].of
<1>1. /\ of[i] = None /\ of' = [of EXCEPT ![i] = p] /\ \A j \in Wish : j < i => of[j] # None
      /\ box' = box \cup {i} /\ pages # <<>> /\ pages[Len(pages)].heart = 0
      /\ queue' = Append(queue, [op |-> "add", wish |-> i, by |-> Len(pages)])
      /\ UNCHANGED <<disk, favourites, pages, listVars, dropped>>
  BY DEF HeartOn, Wishing
<1>2. p \in Product /\ p # None /\ Len(pages) \in Gone..MaxPages
  BY <1>1, TopPage, Askers, WishPagesOK, WishBounds DEF WishInv
<1>3. of'[i] = p /\ \A j \in Wish : j # i => of'[j] = of[j]
  BY <1>1 DEF WishInv, WishTypeOK
<1>4. i \notin Made /\ Made' = Made \cup {i} /\ \A j \in Wish : j < i => j \in Made
  BY <1>1, <1>2, <1>3 DEF Made
<1>5. ASSUME NEW j \in Made PROVE j < i
  <2>1. j # i /\ ~(i < j)
    BY <1>4 DEF WishInv, Segment
  <2>2. i \in Int /\ j \in Int
    BY WishBounds DEF Wish, Made
  <2>3. QED
    BY <2>1, <2>2
<1>6. QED
  BY <1>1, <1>2, <1>3, <1>4, <1>5

\* Made wishes keep their product, and stay made.
LEMMA KeepsProduct ==
    ASSUME WishInv, [Next]_vars
    PROVE  Made \subseteq Made' /\ \A j \in Made : of'[j] = of[j]
<1>1. ASSUME NEW i \in Wish, HeartOn(i)
      PROVE  Made \subseteq Made' /\ \A j \in Made : of'[j] = of[j]
  BY <1>1, HeartOnMade DEF Made
<1>2. CASE UNCHANGED of
  BY <1>2 DEF Made
<1>3. QED
  BY <1>1, <1>2, StepCases DEF Quiet, Deletes, WriteDone, Restart

\* The queue with one write more.
LEMMA AppendCreated ==
    ASSUME WishInv, NEW w \in Write, queue' = Append(queue, w), Made \subseteq Made',
           w.wish \in Made'
    PROVE  \A k \in 1..Len(queue') : queue'[k].wish \in Made'
<1>1. /\ Len(queue') = Len(queue) + 1 /\ Len(queue) \in Nat
      /\ \A k \in 1..Len(queue) : queue'[k] = queue[k]
      /\ queue'[Len(queue) + 1] = w
  BY AppendWish DEF WishInv, WishTypeOK
<1>2. \A k \in 1..Len(queue') : k \in 1..Len(queue) \/ k = Len(queue) + 1
  BY <1>1
<1>3. QED
  BY <1>1, <1>2 DEF WishInv, Created

\* The box, the file and the queue hold what has been made.
LEMMA StoredNext ==
    ASSUME WishInv, [Next]_vars
    PROVE  /\ box' \subseteq Made' /\ disk' \subseteq Made'
           /\ \A k \in 1..Len(queue') : queue'[k].wish \in Made'
<1> DEFINE Stored == /\ box' \subseteq Made' /\ disk' \subseteq Made'
                     /\ \A k \in 1..Len(queue') : queue'[k].wish \in Made'
<1>1. Made \subseteq Made'
  BY KeepsProduct
<1>2. CASE Quiet
  <2>1. Len(queue') = Len(queue) /\ \A k \in 1..Len(queue) : queue'[k].wish = queue[k].wish
    BY <1>2, OrphanedWish DEF Quiet, WishInv, WishTypeOK
  <2>2. QED
    BY <1>1, <1>2, <2>1 DEF Quiet, WishInv, Created
<1>3. ASSUME NEW i \in Wish, HeartOn(i) PROVE Stored
  <2>1. /\ i \in Made' /\ box' = box \cup {i} /\ disk' = disk /\ Len(pages) \in Gone..MaxPages
        /\ queue' = Append(queue, [op |-> "add", wish |-> i, by |-> Len(pages)])
    BY <1>3, HeartOnMade
  <2>2. \A k \in 1..Len(queue') : queue'[k].wish \in Made'
    BY <1>1, <2>1, NewWrite, AppendCreated
  <2>3. QED
    BY <1>1, <2>1, <2>2 DEF WishInv, Created
<1>4. ASSUME NEW i \in Made, NEW b \in Gone..MaxPages, Deletes(i, b) PROVE Stored
  <2>1. \A k \in 1..Len(queue') : queue'[k].wish \in Made'
    BY <1>1, <1>4, NewWrite, AppendCreated DEF Deletes, Made
  <2>2. QED
    BY <1>1, <1>4, <2>1 DEF Deletes, WishInv, Created
<1>5. CASE WriteDone
  <2>1. /\ queue # <<>> /\ queue' = Tail(queue) /\ Head(queue) = queue[1]
        /\ Len(queue) \in Nat \ {0} /\ Len(queue') = Len(queue) - 1
        /\ \A k \in 1..Len(queue') : queue'[k] = queue[k + 1]
    BY <1>5, HeadTailWish DEF WishInv, WishTypeOK, WriteDone
  <2>2. 1 \in 1..Len(queue) /\ \A k \in 1..Len(queue') : k + 1 \in 1..Len(queue)
    BY <2>1
  <2>3. disk' \subseteq disk \cup {queue[1].wish} /\ box' = box
    BY <1>5, <2>1 DEF WriteDone
  <2>4. QED
    BY <1>1, <2>1, <2>2, <2>3 DEF WishInv, Created
<1>6. CASE Restart
  BY <1>1, <1>6 DEF Restart, WishInv, Created
<1>7. QED
  BY <1>2, <1>3, <1>4, <1>5, <1>6, StepCases

\* What is listed is what was, or the box as it is.
LEMMA ListSteps ==
    ASSUME WishInv, [Next]_vars
    PROVE  /\ listed' \in {listed, box, {}}
           /\ Closed'
           /\ favourites' => \/ listed' = box /\ box' = box
                             \/ listed' = listed /\ favourites
<1>1. CASE UNCHANGED vars
  BY <1>1 DEF vars, listVars, WishInv, Closed
<1>2. CASE OpenFavourites \/ LeaveFavourites \/ Restart
  BY <1>2 DEF OpenFavourites, LeaveFavourites, Restart, boxVars, WishInv, Closed
<1>3. CASE LeaveDetails \/ HeartOff \/ CartDone \/ \E p \in Product : OpenDetails(p)
  BY <1>3 DEF LeaveDetails, HeartOff, CartDone, OpenDetails, listVars, WishInv, Closed
<1>4. ASSUME NEW i \in Wish, HeartOn(i) \/ DeleteRow(i)
      PROVE  listed' = listed /\ favourites' = favourites /\ opening' = opening
  BY <1>4 DEF HeartOn, DeleteRow, listVars
<1>5. ASSUME NEW i \in Wish, TapRow(i)
      PROVE  listed' = listed /\ favourites' = favourites /\ favourites
  BY <1>5 DEF TapRow
<1>6. ASSUME NEW c \in Ask, ProductFound(c) \/ ProductMissing(c) \/ ProductThrows(c)
      PROVE  /\ listed' = listed /\ favourites' = favourites
             /\ \A d \in Ask : opening'[d] \in {opening[d], None}
  BY <1>6 DEF ProductFound, ProductMissing, ProductThrows, Answered, Remove, WishInv, WishTypeOK
<1>7. CASE WriteDone
  <2>1. /\ listed' \in {listed, box} /\ box' = box
        /\ favourites' = favourites /\ opening' = opening
    BY <1>7, CallbackCases DEF WriteDone
  <2>2. QED
    BY <2>1 DEF WishInv, Closed
<1>8. QED
  BY <1>1, <1>2, <1>3, <1>4, <1>5, <1>6, <1>7 DEF Next, WishInv, Closed

\* A call under way is one of before, or that of a row tapped now.
LEMMA CallSteps ==
    ASSUME WishInv, [Next]_vars, NEW c \in Ask, opening'[c] # None
    PROVE  \/ opening[c] # None /\ opening'[c] = opening[c]
           \/ /\ opening'[c].rows = listed /\ favourites
              /\ UNCHANGED <<of, box, listed>>
<1>1. ASSUME NEW i \in Wish, TapRow(i)
      PROVE  \/ opening'[c] = opening[c]
             \/ /\ opening'[c].rows = listed /\ favourites
                /\ UNCHANGED <<of, box, listed>>
  <2>1. PICK d \in Ask :
          opening' = [opening EXCEPT ![d] =
                         [at |-> Rank(i, listed), of |-> of[i], rows |-> listed]]
    BY <1>1 DEF TapRow
  <2>2. opening'[c] = IF c = d THEN [at |-> Rank(i, listed), of |-> of[i], rows |-> listed]
                      ELSE opening[c]
    BY <2>1 DEF WishInv, WishTypeOK
  <2>3. QED
    BY <1>1, <2>2 DEF TapRow, boxVars
<1>2. ASSUME NEW d \in Ask, opening' = [opening EXCEPT ![d] = None]
      PROVE  opening'[c] = opening[c]
  BY <1>2 DEF WishInv, WishTypeOK
<1>3. CASE \E d \in Ask : ProductFound(d) \/ ProductMissing(d) \/ ProductThrows(d)
  BY <1>2, <1>3 DEF ProductFound, ProductMissing, ProductThrows, Answered
<1>4. CASE LeaveFavourites \/ Restart
  BY <1>4 DEF LeaveFavourites, Restart
<1>5. CASE \/ UNCHANGED vars \/ OpenFavourites \/ LeaveDetails \/ HeartOff \/ CartDone
           \/ WriteDone \/ (\E p \in Product : OpenDetails(p))
           \/ \E i \in Wish : HeartOn(i) \/ DeleteRow(i)
  <2>1. opening' = opening
    BY <1>5 DEF vars, listVars, OpenFavourites, LeaveDetails, HeartOff, CartDone, WriteDone,
       OpenDetails, HeartOn, DeleteRow
  <2>2. QED
    BY <2>1
<1>6. QED
  BY <1>1, <1>3, <1>4, <1>5 DEF Next

LEMMA CreatedNext == WishInv /\ [Next]_vars => Created'
<1> SUFFICES ASSUME WishInv, [Next]_vars PROVE Created'
  OBVIOUS
<1>1. Made \subseteq Made'
  BY KeepsProduct
<1>2. listed' \subseteq Made'
  BY <1>1, ListSteps DEF WishInv, Created
<1>3. \A c \in Ask : opening'[c] # None => opening'[c].rows \subseteq Made'
  BY <1>1, CallSteps DEF WishInv, Created
<1>4. QED
  BY <1>2, <1>3, StoredNext DEF Created

LEMMA SegmentNext == WishInv /\ [Next]_vars => Segment'
<1> SUFFICES ASSUME WishInv, [Next]_vars PROVE Segment'
  OBVIOUS
<1>1. ASSUME NEW i \in Wish, HeartOn(i) PROVE Segment'
  <2>1. /\ Made' = Made \cup {i} /\ \A j \in Wish : j < i => j \in Made
    BY <1>1, HeartOnMade
  <2>2. QED
    BY <2>1 DEF WishInv, Segment
<1>2. CASE UNCHANGED of
  <2>1. Made' = Made
    BY <1>2 DEF Made
  <2>2. QED
    BY <2>1 DEF WishInv, Segment
<1>3. QED
  BY <1>1, <1>2, StepCases DEF Quiet, Deletes, WriteDone, Restart

LEMMA NewerNext == WishInv /\ [Next]_vars => Newer'
<1> SUFFICES ASSUME WishInv, [Next]_vars PROVE Newer'
  OBVIOUS
<1>1. CASE Restart
  BY <1>1 DEF Restart, Newer
<1>2. \/ Restart \/ box' \subseteq box
      \/ \E i \in Wish : /\ box' = box \cup {i} /\ \A j \in Made : j < i
                         /\ UNCHANGED <<listed, opening>>
  <2>1. ASSUME NEW i \in Wish, HeartOn(i)
        PROVE  /\ box' = box \cup {i} /\ \A j \in Made : j < i
               /\ UNCHANGED <<listed, opening>>
    BY <2>1, HeartOnMade DEF listVars
  <2>2. QED
    BY <2>1, StepCases DEF Quiet, Deletes, WriteDone
<1>3. ASSUME ~Restart, NEW c \in Ask, opening'[c] # None,
             NEW i \in (box' \cup listed') \ opening'[c].rows, NEW j \in opening'[c].rows
      PROVE  j < i
  <2>1. CASE opening[c] # None /\ opening'[c] = opening[c]
    <3>1. j \in Made
      BY <2>1, <1>3 DEF WishInv, Created
    <3>2. CASE i \in box \cup listed
      BY <1>3, <2>1, <3>2 DEF WishInv, Newer
    <3>3. CASE i \notin box \cup listed
      BY <1>2, <1>3, <3>1, <3>3, ListSteps
    <3>4. QED
      BY <3>2, <3>3
  <2>2. CASE /\ opening'[c].rows = listed /\ favourites
             /\ UNCHANGED <<of, box, listed>>
    BY <1>3, <2>2 DEF WishInv, Newer
  <2>3. QED
    BY <1>3, <2>1, <2>2, CallSteps
<1>4. ASSUME ~Restart, favourites', NEW i \in box' \ listed', NEW j \in listed'
      PROVE  j < i
  <2>1. listed' = listed /\ favourites
    BY <1>4, ListSteps
  <2>2. j \in Made
    BY <1>4, <2>1 DEF WishInv, Created
  <2>3. CASE i \in box
    BY <1>4, <2>1, <2>3 DEF WishInv, Newer
  <2>4. CASE i \notin box
    BY <1>2, <1>4, <2>2, <2>4
  <2>5. QED
    BY <2>3, <2>4
<1>5. QED
  BY <1>1, <1>3, <1>4 DEF Newer

\* What a step is to the pages.
LEMMA PageSteps ==
    ASSUME WishInv, [Next]_vars
    PROVE  \/ UNCHANGED pages
           \/ \E p \in Product : Push(p) /\ Quiet
           \/ LeaveDetails
           \/ \E k \in Int : checkCart(k) /\ UNCHANGED <<of, box>>
           \/ pages' = <<>>
<1>1. CASE \/ UNCHANGED vars \/ OpenFavourites \/ LeaveFavourites \/ HeartOff
           \/ (\E i \in Wish : HeartOn(i) \/ DeleteRow(i) \/ TapRow(i))
           \/ \E c \in Ask : ProductMissing(c) \/ ProductThrows(c)
  <2>1. pages' = pages
    BY <1>1 DEF vars, OpenFavourites, LeaveFavourites, HeartOff, HeartOn, DeleteRow, TapRow,
       ProductMissing, Remove, ProductThrows
  <2>2. QED
    BY <2>1
<1>2. ASSUME NEW p \in Product, OpenDetails(p) PROVE Push(p) /\ Quiet
  BY <1>2 DEF OpenDetails, Quiet, boxVars
<1>3. ASSUME NEW c \in Ask, ProductFound(c)
      PROVE  opening[c].of \in Product /\ Push(opening[c].of) /\ Quiet
  BY <1>3, AnsweredType DEF ProductFound, Answered, Quiet, boxVars, WishInv
<1>4. CASE CartDone
  <2>1. \A k \in DOMAIN pages : k \in Int
    BY DEF WishInv, WishTypeOK
  <2>2. QED
    BY <1>4, <2>1 DEF CartDone, boxVars
<1>5. CASE WriteDone
  <2>1. Callback(Head(queue)) /\ Head(queue).by \in Int /\ UNCHANGED <<of, box>>
    BY <1>5, HeadTailWish, ListIsANumber DEF WriteDone, WishInv, WishTypeOK
  <2>2. QED
    BY <2>1, CallbackCases
<1>6. CASE Restart
  BY <1>6 DEF Restart
<1>7. QED
  BY <1>1, <1>2, <1>3, <1>4, <1>5, <1>6 DEF Next

LEMMA ShadedNext == WishInv /\ [Next]_vars => Shaded'
<1> SUFFICES ASSUME WishInv, [Next]_vars PROVE Shaded'
  OBVIOUS
<1>1. PagesOK /\ box \subseteq Wish /\ Shaded
  BY WishPagesOK DEF WishInv
<1>2. CASE UNCHANGED pages
  BY <1>1, <1>2 DEF Shaded
<1>3. ASSUME NEW p \in Product, Push(p) PROVE Shaded'
  <2> DEFINE n == Len(pages)
  <2>1. /\ n \in Nat /\ Len(pages') = n + 1
        /\ \A k \in 1..n : /\ pages'[k].of = pages[k].of
                           /\ pages'[k].behind = (pages[k].behind \/ pages[k].of = p)
        /\ pages'[n + 1].of = p
    BY <1>1, <1>3, PushedPages
  <2> SUFFICES ASSUME NEW k \in 1..Len(pages'), NEW m \in 1..Len(pages'), k < m,
                      pages'[m].of = pages'[k].of
               PROVE  pages'[k].behind
    BY DEF Shaded
  <2>2. k \in 1..n /\ (m \in 1..n \/ m = n + 1)
    <3>1. n \in Nat /\ k \in 1..(n + 1) /\ m \in 1..(n + 1) /\ k < m
      BY <2>1
    <3> HIDE DEF n
    <3>2. QED
      BY ONLY <3>1
  <2>3. CASE m \in 1..n
    BY <1>1, <2>1, <2>2, <2>3 DEF Shaded
  <2>4. CASE m = n + 1
    BY <2>1, <2>2, <2>4
  <2>5. QED
    BY <2>2, <2>3, <2>4
<1>4. CASE LeaveDetails
  <2>1. /\ Len(pages) \in Nat \ {0} /\ Len(pages') = Len(pages) - 1
        /\ \A k \in 1..Len(pages') : pages'[k] = pages[k] /\ k \in 1..Len(pages)
    BY <1>1, <1>4, LeftPages
  <2>2. QED
    BY <1>1, <2>1 DEF Shaded
<1>5. ASSUME NEW c, checkCart(c) PROVE Shaded'
  <2>1. /\ Len(pages') = Len(pages) /\ DOMAIN pages = 1..Len(pages)
        /\ \A j \in 1..Len(pages) : /\ pages'[j].of = pages[j].of
                                    /\ j # c => pages'[j] = pages[j]
                                    /\ j = c => pages'[j].behind = Covered(j)
    BY <1>1, <1>5, CheckedPages DEF PagesOK
  <2> SUFFICES ASSUME NEW k \in 1..Len(pages), NEW m \in 1..Len(pages), k < m,
                      pages[m].of = pages[k].of
               PROVE  pages'[k].behind
    BY <2>1 DEF Shaded
  <2>2. Covered(k)
    BY <2>1 DEF Covered
  <2>3. QED
    BY <1>1, <2>1, <2>2 DEF Shaded
<1>6. CASE pages' = <<>>
  BY <1>6 DEF Shaded
<1>7. QED
  BY <1>2, <1>3, <1>4, <1>5, <1>6, PageSteps

LEMMA HeartedNext == WishInv /\ [Next]_vars => Hearted'
<1> SUFFICES ASSUME WishInv, [Next]_vars PROVE Hearted'
  OBVIOUS
<1>1. /\ PagesOK /\ box \subseteq Wish /\ Hearted
      /\ Made \subseteq Made' /\ \A j \in Made : of'[j] = of[j]
  BY WishPagesOK, KeepsProduct DEF WishInv
<1>2. ASSUME NEW p, Found(p) # 0 PROVE Found(p) \in Made /\ of[Found(p)] = p
  BY <1>1, <1>2, FoundOf DEF Wishes, WishInv, Created
<1>3. CASE UNCHANGED pages
  BY <1>1, <1>3 DEF Hearted
<1>4. ASSUME NEW p \in Product, Push(p) PROVE Hearted'
  <2> DEFINE n == Len(pages)
  <2>1. /\ n \in Nat /\ Len(pages') = n + 1
        /\ \A k \in 1..n : pages'[k].of = pages[k].of /\ pages'[k].heart = pages[k].heart
        /\ pages'[n + 1].of = p /\ pages'[n + 1].heart = Found(p)
    BY <1>1, <1>4, PushedPages
  <2>2. \A k \in 1..Len(pages') : k \in 1..n \/ k = n + 1
    BY <2>1
  <2>3. QED
    BY <1>1, <1>2, <2>1, <2>2 DEF Hearted
<1>5. CASE LeaveDetails
  <2>1. /\ Len(pages) \in Nat \ {0} /\ Len(pages') = Len(pages) - 1
        /\ \A k \in 1..Len(pages') : pages'[k] = pages[k] /\ k \in 1..Len(pages)
    BY <1>1, <1>5, LeftPages
  <2>2. QED
    BY <1>1, <2>1 DEF Hearted
<1>6. ASSUME NEW c, checkCart(c) PROVE Hearted'
  <2>1. /\ Len(pages') = Len(pages)
        /\ \A j \in 1..Len(pages) : /\ pages'[j].of = pages[j].of
                                    /\ j # c => pages'[j] = pages[j]
                                    /\ j = c => pages'[j].heart = Found(pages[j].of)
    BY <1>1, <1>6, CheckedPages
  <2>2. QED
    BY <1>1, <1>2, <2>1 DEF Hearted
<1>7. CASE pages' = <<>>
  BY <1>7 DEF Hearted
<1>8. QED
  BY <1>3, <1>4, <1>5, <1>6, <1>7, PageSteps

LEMMA WishInit == Init => WishInv
<1> SUFFICES ASSUME Init PROVE WishInv
  OBVIOUS
<1>1. of = [i \in Wish |-> None] /\ opening = [c \in Ask |-> None]
      /\ box = {} /\ disk = {} /\ listed = {} /\ queue = <<>> /\ pages = <<>>
  BY DEF Init
<1>2. Made = {}
  BY <1>1 DEF Made
<1>3. Created /\ Segment /\ Closed /\ Newer /\ Shaded /\ Hearted
  BY <1>1, <1>2 DEF Created, Segment, Closed, Newer, Shaded, Hearted
<1>4. QED
  BY <1>3, WishTypeInit DEF WishInv

LEMMA WishNext == WishInv /\ [Next]_vars => WishInv'
BY WishTypeNext, CreatedNext, SegmentNext, ListSteps, NewerNext, ShadedNext, HeartedNext
   DEF WishInv

\* The state of the wish list has its types whatever the pages, the box and
\* the shop do; the product of a tapped row is one because a row was made.
THEOREM WishTypes == Spec => []WishTypeOK
<1>1. WishInv => WishTypeOK
  BY DEF WishInv
<1>2. QED
  BY <1>1, WishInit, WishNext, PTL DEF Spec

-----------------------------------------------------------------------------
(***************************************************************************)
(* Late answers                                                            *)
(***************************************************************************)

\* A row of this list and one of that list have the same index.
LEMMA SameIndex ==
    ASSUME NEW R \in SUBSET Wish, NEW L \in SUBSET Wish, NEW j \in R, NEW i \in L,
           Rank(i, L) = Rank(j, R), \A x \in L \ R, y \in R : y < x
    PROVE  i >= j /\ (i # j => \E m \in R \ L : m <= j)
<1> DEFINE A == {m \in L : m <= i}
           B == {m \in R : m <= j}
<1>1. Cardinality(A) = Cardinality(B)
  BY DEF Rank
<1>2. IsFiniteSet(A) /\ IsFiniteSet(B)
  <2>1. IsFiniteSet(Wish)
    BY WishBounds, FS_Interval DEF Wish
  <2>2. A \in SUBSET Wish /\ B \in SUBSET Wish
    OBVIOUS
  <2>3. QED
    BY <2>1, <2>2, FS_Subset
<1>3. Wish \subseteq Int
  BY WishBounds DEF Wish
<1>4. i \in Int /\ j \in Int
  BY <1>3
<1>5. ~(i < j)
  <2> SUFFICES ASSUME i < j PROVE FALSE
    OBVIOUS
  <2>1. \A m \in L : m <= i => m \in R /\ m <= j
    <3> SUFFICES ASSUME NEW m \in L, m <= i PROVE m \in R /\ m <= j
      OBVIOUS
    <3>1. m \in Int /\ m < j /\ ~(j < m)
      BY <1>3, <1>4
    <3>2. QED
      BY <3>1
  <2>2. A \in SUBSET B
    BY <2>1
  <2>3. j \in B /\ j \notin A
    BY <1>4
  <2>4. A # B
    BY <2>3
  <2> HIDE DEF A, B
  <2>5. QED
    BY <1>1, <1>2, <2>2, <2>4, Fewer
<1>6. ASSUME i # j, \A m \in R \ L : ~(m <= j) PROVE FALSE
  <2>1. \A m \in R : m <= j => m \in L /\ m <= i
    <3> SUFFICES ASSUME NEW m \in R, m <= j PROVE m \in L /\ m <= i
      OBVIOUS
    <3>1. m \in Int /\ m <= i
      BY <1>3, <1>4, <1>5
    <3>2. QED
      BY <1>6, <3>1
  <2>2. B \in SUBSET A
    BY <2>1
  <2>3. i \in A /\ i \notin B
    BY <1>4, <1>5, <1>6
  <2>4. A # B
    BY <2>3
  <2> HIDE DEF A, B
  <2>5. QED
    BY <1>1, <1>2, <2>2, <2>4, Fewer
<1>7. QED
  BY <1>4, <1>5, <1>6

LEMMA LateStep ==
    ASSUME WishInv, [Next]_vars, NEW c \in Ask, favourites', opening[c] # None,
           opening'[c] = None, NEW i \in box \ box',
           NEW j \in At(opening[c].at, opening[c].rows)
    PROVE  i >= j /\ (i # j => \E m \in opening[c].rows \ listed : m <= j)
<1> DEFINE r == opening[c]
<1>1. r.rows \in SUBSET Wish /\ listed \in SUBSET Wish /\ j \in r.rows /\ Rank(j, r.rows) = r.at
  BY AnsweredType DEF At, WishInv, WishTypeOK
<1>2. CASE ProductMissing(c)
  <2>1. i \in At(r.at, listed)
    <3>1. Remove(r.at)
      BY <1>2 DEF ProductMissing
    <3>2. QED
      BY <3>1, RemoveCases DEF Unwish
  <2>2. i \in listed /\ Rank(i, listed) = Rank(j, r.rows)
    BY <1>1, <2>1 DEF At
  <2>3. \A x \in listed \ r.rows, y \in r.rows : y < x
    BY DEF WishInv, Newer
  <2> HIDE DEF r
  <2>4. QED
    BY <1>1, <2>2, <2>3, SameIndex DEF r
<1>3. ASSUME ~ProductMissing(c) PROVE FALSE
  <2>1. ASSUME NEW d \in Ask, d # c, opening' = [opening EXCEPT ![d] = None] PROVE FALSE
    BY <2>1 DEF WishInv, WishTypeOK
  <2>2. ASSUME NEW d \in Ask, ProductMissing(d) PROVE FALSE
    BY <1>3, <2>1, <2>2 DEF ProductMissing, Answered
  <2>3. ASSUME NEW d \in Ask, ProductFound(d) \/ ProductThrows(d) PROVE FALSE
    <3>1. box' = box
      BY <2>3 DEF ProductFound, ProductThrows, boxVars
    <3>2. QED
      BY <3>1
  <2>4. CASE LeaveFavourites \/ Restart
    BY <2>4 DEF LeaveFavourites, Restart
  <2>5. ASSUME NEW k \in Wish, TapRow(k) PROVE FALSE
    <3>1. box' = box
      BY <2>5 DEF TapRow, boxVars
    <3>2. QED
      BY <3>1
  <2>6. CASE \/ UNCHANGED vars \/ OpenFavourites \/ LeaveDetails \/ HeartOff \/ CartDone
             \/ WriteDone \/ (\E p \in Product : OpenDetails(p))
             \/ \E k \in Wish : HeartOn(k) \/ DeleteRow(k)
    <3>1. opening' = opening
      BY <2>6 DEF vars, listVars, OpenFavourites, LeaveDetails, HeartOff, CartDone, WriteDone,
         OpenDetails, HeartOn, DeleteRow
    <3>2. QED
      BY <3>1
  <2>7. QED
    BY <2>2, <2>3, <2>4, <2>5, <2>6 DEF Next
<1>4. QED
  BY <1>2, <1>3

\* The index kept over the wait for the shop may have become that of another
\* row, but never that of an older wish: the rows only move up, and what comes
\* behind them is newer.
THEOREM AnswersGoForward == Spec => LateAnswersGoForward
<1>1. ASSUME WishInv, [Next]_vars
      PROVE  [\A c \in Ask : favourites' /\ opening[c] # None /\ opening'[c] = None =>
                \A i \in box \ box', j \in At(opening[c].at, opening[c].rows) :
                   /\ i >= j
                   /\ i # j => \E m \in opening[c].rows \ listed : m <= j]_vars
  BY <1>1, LateStep
<1>2. QED
  BY <1>1, WishInit, WishNext, PTL DEF Spec, LateAnswersGoForward

-----------------------------------------------------------------------------
(***************************************************************************)
(* The heart                                                               *)
(***************************************************************************)

Shows(k) == IF pages[k].heart = 0 THEN Wishes(pages[k].of) = {}
            ELSE pages[k].heart \in Wishes(pages[k].of) \cup dropped

\* No write of the page at place k pends.
Still(k, q) == \A w \in 1..Len(q) : q[w].by # k

\* HeartIsTrue, by places.
Hearts == \A k \in 1..Len(pages) : ~pages[k].behind /\ Still(k, queue) => Shows(k)

LEMMA HeartsAlt == WishTypeOK => (HeartIsTrue <=> Hearts)
<1> SUFFICES ASSUME WishTypeOK PROVE HeartIsTrue <=> Hearts
  OBVIOUS
<1>1. DOMAIN pages = 1..Len(pages) /\ DOMAIN queue = 1..Len(queue)
  BY DEF WishTypeOK
<1>2. QED
  BY <1>1 DEF HeartIsTrue, Hearts, Still, Shows

\* The writes of a page that is left are not those of one below.
LEMMA StillOrphaned ==
    ASSUME WishInv, NEW n \in Int, NEW k \in Int, k < n, Still(k, Orphaned(n, queue))
    PROVE  Still(k, queue)
<1>1. /\ queue \in Seq(Write) /\ Len(Orphaned(n, queue)) = Len(queue)
      /\ \A w \in 1..Len(queue) : queue[w].by \in Int
  BY OrphanedWish, ListIsANumber DEF WishInv, WishTypeOK
<1>2. ASSUME NEW w \in 1..Len(queue), queue[w].by = k PROVE FALSE
  <2>1. ~(queue[w].by >= n)
    BY <1>2
  <2>2. Orphaned(n, queue)[w].by = k
    BY <1>1, <1>2, <2>1, OrphanedWish
  <2>3. QED
    BY <1>1, <2>2 DEF Still
<1>3. QED
  BY <1>2 DEF Still

\* A write more, and one of the page in particular.
LEMMA StillAppended ==
    ASSUME WishInv, NEW w \in Write, queue' = Append(queue, w), NEW k, Still(k, queue')
    PROVE  Still(k, queue) /\ w.by # k
<1>1. /\ Len(queue) \in Nat /\ Len(queue') = Len(queue) + 1
      /\ \A m \in 1..Len(queue) : queue'[m] = queue[m] /\ m \in 1..Len(queue')
      /\ queue'[Len(queue) + 1] = w /\ Len(queue) + 1 \in 1..Len(queue')
  BY AppendWish DEF WishInv, WishTypeOK
<1>2. QED
  BY <1>1 DEF Still

\* No write of the page is left after one that it does not wait for only if
\* none was there before.
LEMMA StillBefore ==
    ASSUME WishInv, queue # <<>>, queue' = Tail(queue), NEW k, Head(queue).by # k,
           Still(k, queue')
    PROVE  Still(k, queue)
<1>1. /\ Head(queue) = queue[1] /\ Len(queue) \in Nat \ {0} /\ Len(queue') = Len(queue) - 1
      /\ \A m \in 1..Len(queue') : queue'[m] = queue[m + 1]
  BY HeadTailWish DEF WishInv, WishTypeOK
<1>2. ASSUME NEW m \in 1..Len(queue), m # 1 PROVE queue[m].by # k
  <2>1. m - 1 \in 1..Len(queue') /\ (m - 1) + 1 = m
    BY <1>1, <1>2
  <2>2. QED
    BY <1>1, <2>1 DEF Still
<1>3. QED
  BY <1>1, <1>2 DEF Still

\* A page shows what it showed: its heart, the wishes of its product and the
\* wishes dropped are as they were.
LEMMA ShowsOn ==
    ASSUME NEW k, Shows(k), pages'[k].heart = pages[k].heart, pages'[k].of = pages[k].of,
           Wishes(pages[k].of)' = Wishes(pages[k].of), dropped \subseteq dropped'
    PROVE  Shows(k)'
BY DEF Shows, Wishes

LEMMA SameWishes == ASSUME UNCHANGED <<of, box>> PROVE \A p : Wishes(p)' = Wishes(p)
BY DEF Wishes

\* A heart that was looked up now is true.
LEMMA LookedUp ==
    ASSUME WishInv, UNCHANGED <<of, box>>, NEW k, NEW p, pages'[k].of = p,
           pages'[k].heart = Found(p)
    PROVE  Shows(k)'
<1>1. box \subseteq Wish /\ \A i \in Wishes(p) : i # 0
  BY DEF Wishes, WishInv, WishTypeOK, Wish
<1>2. /\ Wishes(p) = {} => Found(p) = 0
      /\ Wishes(p) # {} => Found(p) \in Wishes(p)
  BY <1>1, FoundOf
<1>3. {i \in box' : of'[i] = pages'[k].of} = Wishes(p)
  BY DEF Wishes
<1>4. QED
  BY <1>1, <1>2, <1>3 DEF Shows, Wishes

LEMMA PushHearts ==
    ASSUME WishInv, Hearts, NEW p \in Product, Push(p), UNCHANGED <<of, box, queue, dropped>>
    PROVE  Hearts'
<1>0. PICK n \in Nat : n = Len(pages)
  BY DEF WishInv, WishTypeOK
<1>1. /\ n \in Nat /\ Len(pages') = n + 1
      /\ \A k \in 1..n : /\ pages'[k].of = pages[k].of
                         /\ pages'[k].heart = pages[k].heart
                         /\ pages'[k].behind = (pages[k].behind \/ pages[k].of = p)
      /\ pages'[n + 1].of = p /\ pages'[n + 1].heart = Found(p)
  BY <1>0, PushedPages, WishPagesOK DEF WishInv
<1>2. ASSUME NEW k \in 1..n, ~pages'[k].behind, Still(k, queue') PROVE Shows(k)'
  <2>1. ~pages[k].behind /\ Still(k, queue)
    BY <1>1, <1>2
  <2>2. Shows(k)
    BY <1>0, <2>1 DEF Hearts
  <2>3. QED
    BY <1>1, <2>2, ShowsOn, SameWishes
<1>3. Shows(n + 1)'
  BY <1>1, LookedUp
<1>4. \A k \in 1..Len(pages') : k \in 1..n \/ k = n + 1
  BY <1>1
<1>5. QED
  BY <1>2, <1>3, <1>4 DEF Hearts

\* A page runs checkCart, whatever pends.
LEMMA CheckHearts ==
    ASSUME WishInv, NEW c, checkCart(c), UNCHANGED <<of, box, dropped>>,
           \A k \in 1..Len(pages) : /\ k # c /\ ~pages[k].behind /\ Still(k, queue')
                                    => Shows(k)
    PROVE  Hearts'
<1>1. /\ Len(pages') = Len(pages)
      /\ \A j \in 1..Len(pages) : /\ pages'[j].of = pages[j].of
                                  /\ j # c => pages'[j] = pages[j]
                                  /\ j = c => pages'[j].heart = Found(pages[j].of)
  BY CheckedPages, WishPagesOK DEF WishInv
<1>2. ASSUME NEW k \in 1..Len(pages), ~pages'[k].behind, Still(k, queue') PROVE Shows(k)'
  <2>1. CASE k = c
    BY <1>1, <2>1, LookedUp
  <2>2. CASE k # c
    BY <1>1, <1>2, <2>2, ShowsOn, SameWishes
  <2>3. QED
    BY <2>1, <2>2
<1>3. QED
  BY <1>1, <1>2 DEF Hearts

LEMMA LeaveHearts ==
    ASSUME WishInv, Hearts, LeaveDetails
    PROVE  Hearts'
<1> DEFINE n == Len(pages)
<1>1. /\ n \in Nat \ {0} /\ Len(pages') = n - 1 /\ \A k \in 1..(n - 1) : pages'[k] = pages[k]
      /\ queue' = Orphaned(n, queue) /\ UNCHANGED <<of, box, dropped>>
  BY LeftPages, WishPagesOK DEF WishInv, LeaveDetails, boxVars
<1>2. ASSUME NEW k \in 1..(n - 1), ~pages'[k].behind, Still(k, queue') PROVE Shows(k)'
  <2>1. k \in 1..n /\ k \in Int /\ n \in Int /\ k < n
    BY <1>1
  <2>2. Still(k, queue)
    BY <1>1, <1>2, <2>1, StillOrphaned
  <2>3. Shows(k)
    BY <1>1, <1>2, <2>1, <2>2 DEF Hearts
  <2>4. QED
    BY <1>1, <2>3, ShowsOn, SameWishes
<1>3. QED
  BY <1>1, <1>2 DEF Hearts

\* The tap of a heart waits for its write; the pages below of the same product
\* are behind, and the others are not concerned.
LEMMA TapHearts ==
    ASSUME WishInv, Hearts, HeartOff \/ \E i \in Wish : HeartOn(i)
    PROVE  Hearts'
<1> DEFINE n == Len(pages)
           p == pages[n].of
<1>1. /\ UNCHANGED pages /\ pages # <<>> /\ UNCHANGED dropped
      /\ \A q : q # p => Wishes(q)' = Wishes(q)
      /\ \E w \in Write : w.by = n /\ queue' = Append(queue, w)
  <2>1. CASE HeartOff
    <3> DEFINE i == pages[n].heart
    <3>1. /\ pages # <<>> /\ i \in Wish /\ box' = box \ {i} /\ UNCHANGED <<of, pages, dropped>>
          /\ queue' = Append(queue, [op |-> "delete", wish |-> i, by |-> n])
      BY <2>1 DEF HeartOff, WishInv, WishTypeOK
    <3>2. n \in 1..Len(pages) /\ i # 0
      BY <3>1, TopPage, WishPagesOK DEF WishInv, Wish
    <3>3. of[i] = p
      BY <3>2 DEF WishInv, Hearted
    <3>4. \A q : q # p => Wishes(q)' = Wishes(q)
      BY <3>1, <3>3 DEF Wishes
    <3>5. [op |-> "delete", wish |-> i, by |-> n] \in Write
      BY <3>1, Askers, NewWrite, WishPagesOK DEF WishInv
    <3>6. [op |-> "delete", wish |-> i, by |-> n].by = n
      OBVIOUS
    <3> HIDE DEF n, p
    <3>7. QED
      BY <3>1, <3>4, <3>5, <3>6
  <2>2. ASSUME NEW i \in Wish, HeartOn(i)
        PROVE  /\ UNCHANGED pages /\ pages # <<>> /\ UNCHANGED dropped
               /\ \A q : q # p => Wishes(q)' = Wishes(q)
               /\ \E w \in Write : w.by = n /\ queue' = Append(queue, w)
    <3>1. /\ pages # <<>> /\ UNCHANGED <<pages, dropped>> /\ box' = box \cup {i}
          /\ of'[i] = p /\ \A j \in Wish : j # i => of'[j] = of[j]
          /\ i \notin box /\ box \subseteq Wish
          /\ queue' = Append(queue, [op |-> "add", wish |-> i, by |-> n])
          /\ n \in Gone..MaxPages
      BY <2>2, HeartOnMade DEF WishInv, Created, WishTypeOK
    <3>2. \A q : q # p => Wishes(q)' = Wishes(q)
      BY <3>1 DEF Wishes
    <3>3. [op |-> "add", wish |-> i, by |-> n] \in Write
      BY <3>1, NewWrite
    <3>4. [op |-> "add", wish |-> i, by |-> n].by = n
      OBVIOUS
    <3> HIDE DEF n, p
    <3>5. QED
      BY <3>1, <3>2, <3>3, <3>4
  <2>3. QED
    BY <2>1, <2>2
<1>2. n \in 1..Len(pages) /\ n \in Nat
  BY <1>1, TopPage, WishPagesOK DEF WishInv
<1>3. ASSUME NEW k \in 1..Len(pages), ~pages[k].behind, Still(k, queue') PROVE Shows(k)'
  <2>1. Still(k, queue) /\ k # n
    BY <1>1, <1>3, StillAppended
  <2>2. k < n
    BY <1>2, <2>1
  <2>3. pages[k].of # p
    BY <1>2, <1>3, <2>2 DEF WishInv, Shaded
  <2>4. Shows(k)
    BY <1>3, <2>1 DEF Hearts
  <2>5. QED
    BY <1>1, <2>3, <2>4, ShowsOn
<1>4. QED
  BY <1>1, <1>3 DEF Hearts

\* An answer that removes the wish of a red heart drops it.
LEMMA MissingHearts ==
    ASSUME WishInv, Hearts, NEW c \in Ask, ProductMissing(c)
    PROVE  Hearts'
<1>1. Remove(opening[c].at) /\ UNCHANGED <<of, pages>>
  BY DEF ProductMissing, Remove
<1>2. CASE UNCHANGED <<box, queue, dropped>>
  BY <1>1, <1>2, ShowsOn, SameWishes DEF Hearts
<1>3. ASSUME NEW i \in At(opening[c].at, listed), Unwish(i),
             dropped' = dropped \cup ({i} \cap {pages[n].heart : n \in DOMAIN pages}),
             NEW k \in 1..Len(pages), ~pages[k].behind, Still(k, queue')
      PROVE  Shows(k)'
  <2>1. [op |-> "delete", wish |-> i, by |-> List] \in Write
    BY <1>3, Askers, NewWrite, WishPagesOK DEF At, WishInv, WishTypeOK
  <2>2. Still(k, queue)
    BY <1>3, <2>1, StillAppended DEF Unwish
  <2>3. Shows(k)
    BY <1>3, <2>2 DEF Hearts
  <2>4. Wishes(pages[k].of)' = Wishes(pages[k].of) \ {i} /\ k \in DOMAIN pages
    BY <1>1, <1>3 DEF Wishes, Unwish, WishInv, WishTypeOK
  <2>5. pages[k].heart = i => i \in dropped'
    BY <1>3, <2>4
  <2>6. QED
    BY <1>1, <1>3, <2>3, <2>4, <2>5 DEF Shows, Wishes
<1>4. QED
  BY <1>1, <1>2, <1>3, RemoveCases DEF Hearts

\* Only the write of the page itself runs checkCart; the rest keeps what it
\* showed.
LEMMA WriteDoneHearts ==
    ASSUME WishInv, Hearts, WriteDone
    PROVE  Hearts'
<1> DEFINE b == Head(queue).by
<1>1. /\ queue # <<>> /\ queue' = Tail(queue) /\ Callback(Head(queue))
      /\ UNCHANGED <<of, box, dropped>>
  BY DEF WriteDone
<1>2. ASSUME NEW k \in 1..Len(pages), k # b, ~pages[k].behind, Still(k, queue') PROVE Shows(k)
  BY <1>1, <1>2, StillBefore DEF Hearts
<1>3. CASE b \in {Gone, List} /\ UNCHANGED pages
  <2>1. \A k \in 1..Len(pages) : k # b
    BY <1>3 DEF Gone, List
  <2>2. QED
    BY <1>1, <1>2, <1>3, <2>1, ShowsOn, SameWishes DEF Hearts
<1>4. CASE checkCart(b)
  BY <1>1, <1>2, <1>4, CheckHearts
<1>5. QED
  BY <1>1, <1>3, <1>4, CallbackCases

LEMMA HeartNext == WishInv /\ Hearts /\ [Next]_vars => Hearts'
<1> SUFFICES ASSUME WishInv, Hearts, [Next]_vars PROVE Hearts'
  OBVIOUS
<1>1. CASE \/ UNCHANGED vars \/ (\E i \in Wish : TapRow(i))
           \/ \E c \in Ask : ProductThrows(c)
  <2>1. UNCHANGED <<of, box, queue, pages, dropped>>
    BY <1>1 DEF vars, boxVars, TapRow, ProductThrows
  <2>2. QED
    BY <2>1, ShowsOn, SameWishes DEF Hearts
<1>2. CASE OpenFavourites \/ LeaveFavourites \/ Restart \/ \E i \in Wish : DeleteRow(i)
  <2>1. pages' = <<>>
    BY <1>2 DEF OpenFavourites, LeaveFavourites, Restart, DeleteRow
  <2>2. QED
    BY <2>1 DEF Hearts
<1>3. ASSUME NEW p \in Product, OpenDetails(p) PROVE Hearts'
  BY <1>3, PushHearts DEF OpenDetails, boxVars
<1>4. ASSUME NEW c \in Ask, ProductFound(c) PROVE Hearts'
  <2>1. opening[c].of \in Product
    BY <1>4, AnsweredType DEF ProductFound, Answered, WishInv
  <2>2. QED
    BY <1>4, <2>1, PushHearts DEF ProductFound, boxVars
<1>5. CASE CartDone
  <2>1. PICK k \in DOMAIN pages : checkCart(k)
    BY <1>5 DEF CartDone
  <2>2. QED
    BY <1>5, <2>1, CheckHearts DEF CartDone, boxVars, Hearts
<1>6. QED
  BY <1>1, <1>2, <1>3, <1>4, <1>5, LeaveHearts, TapHearts, MissingHearts, WriteDoneHearts DEF Next

\* The heart of every page shows the box, and points at a wish of it, once the
\* writes of its page are done, for any number of wishes, taps, late answers
\* and pages above each other, but for the exceptions HeartIsTrue states.
THEOREM HeartStaysTrue == Spec => []HeartIsTrue
<1>1. Init => Hearts
  BY DEF Init, Hearts
<1>2. WishInv /\ Hearts => HeartIsTrue
  BY HeartsAlt DEF WishInv
<1>3. QED
  BY <1>1, <1>2, WishInit, WishNext, HeartNext, PTL DEF Spec

-----------------------------------------------------------------------------
(***************************************************************************)
(* A product is wished once                                                *)
(***************************************************************************)

\* Wish i is in file d once the first k writes of q are done.
Kept(q, d, i, k) ==
    IF \E m \in 1..k : q[m].wish = i
      THEN \E m \in 1..k : /\ q[m].wish = i /\ q[m].op = "add"
                           /\ \A n \in (m + 1)..k : q[n].wish # i
      ELSE i \in d

\* Whenever the process dies, what is found then has one wish per product.
OnePerProduct ==
    \A k \in 0..Len(queue), i, j \in Wish :
        i # j /\ of[i] = of[j] /\ Kept(queue, disk, i, k) /\ Kept(queue, disk, j, k)
            => of[i] \in again

\* The memory is what the file will be.
BoxIsKept == \A i \in Wish : i \in box <=> Kept(queue, disk, i, Len(queue))

\* The heart of a page is grey for a product of the box only while its add is
\* pending, or when it is behind.
Stopped ==
    \A k \in 1..Len(pages) :
        pages[k].heart = 0 /\ Wishes(pages[k].of) # {} => pages[k].behind \/ Adding(k)

OnceInv == WishInv /\ OnePerProduct /\ BoxIsKept /\ Stopped

LEMMA OnceImplies == OnceInv => WishedOnce
<1> SUFFICES ASSUME OnceInv, NEW i \in box, NEW j \in box, i # j, of[i] = of[j]
             PROVE  of[i] \in again
  BY DEF WishedOnce
<1>1. i \in Wish /\ j \in Wish /\ Len(queue) \in 0..Len(queue)
  BY DEF OnceInv, WishInv, WishTypeOK
<1>2. Kept(queue, disk, i, Len(queue)) /\ Kept(queue, disk, j, Len(queue))
  BY <1>1 DEF OnceInv, BoxIsKept
<1>3. QED
  BY <1>1, <1>2 DEF OnceInv, OnePerProduct

\* What is in the file, and in what it becomes, has been made.
LEMMA KeptMade ==
    ASSUME OnceInv, NEW k \in 0..Len(queue), NEW i \in Wish, Kept(queue, disk, i, k)
    PROVE  i \in Made
<1>1. \A m \in 1..k : m \in 1..Len(queue)
  BY DEF OnceInv, WishInv, WishTypeOK
<1>2. QED
  BY <1>1 DEF Kept, OnceInv, WishInv, Created

\* The pages come and go: the file and the memory stay.
LEMMA PageKeepsOnce ==
    ASSUME OnceInv, Quiet
    PROVE  OnePerProduct' /\ BoxIsKept'
<1>1. queue \in Seq(Write) /\ Len(queue') = Len(queue) /\ Len(queue) \in Nat
  BY OrphanedWish DEF Quiet, OnceInv, WishInv, WishTypeOK
<1>2. \A k \in 1..Len(queue) : queue'[k].op = queue[k].op /\ queue'[k].wish = queue[k].wish
  BY <1>1, OrphanedWish DEF Quiet
<1>3. ASSUME NEW k \in 0..Len(queue), NEW i \in Wish
      PROVE  Kept(queue', disk', i, k) <=> Kept(queue, disk, i, k)
  <2>1. \A m \in 1..k : m \in 1..Len(queue) /\ \A n \in (m + 1)..k : n \in 1..Len(queue)
    BY <1>1
  <2>2. disk' = disk
    BY DEF Quiet
  <2>3. QED
    BY ONLY <1>2, <2>1, <2>2 DEF Kept
<1>4. OnePerProduct'
  BY <1>1, <1>3 DEF Quiet, OnceInv, OnePerProduct
<1>5. BoxIsKept'
  <2>1. Len(queue) \in 0..Len(queue)
    BY <1>1
  <2>2. QED
    BY <1>1, <1>3, <2>1 DEF Quiet, OnceInv, BoxIsKept
<1>6. QED
  BY <1>4, <1>5

\* The appended write decides what is kept of its wish; the rest stays.
LEMMA AppendKept ==
    ASSUME OnceInv, NEW w \in Write, queue' = Append(queue, w), disk' = disk
    PROVE  /\ Len(queue') = Len(queue) + 1 /\ Len(queue) \in Nat
           /\ \A k \in 1..Len(queue) : queue'[k] = queue[k]
           /\ queue'[Len(queue) + 1] = w
           /\ \A k \in 0..Len(queue), i \in Wish : Kept(queue', disk', i, k) <=> Kept(queue, disk, i, k)
           /\ \A i \in Wish \ {w.wish} : Kept(queue', disk', i, Len(queue')) <=> Kept(queue, disk, i, Len(queue))
           /\ Kept(queue', disk', w.wish, Len(queue')) <=> w.op = "add"
<1>1. /\ queue \in Seq(Write) /\ Len(queue) \in Nat /\ Len(queue') = Len(queue) + 1
      /\ \A k \in 1..Len(queue) : queue'[k] = queue[k]
      /\ queue'[Len(queue) + 1] = w
  BY AppendWish DEF OnceInv, WishInv, WishTypeOK
<1>2. ASSUME NEW k \in 0..Len(queue), NEW i \in Wish
      PROVE  Kept(queue', disk', i, k) <=> Kept(queue, disk, i, k)
  <2>1. \A m \in 1..k : m \in 1..Len(queue) /\ \A n \in (m + 1)..k : n \in 1..Len(queue)
    BY <1>1
  <2>2. QED
    BY <1>1, <2>1 DEF Kept
<1>3. ASSUME NEW i \in Wish \ {w.wish}
      PROVE  Kept(queue', disk', i, Len(queue')) <=> Kept(queue, disk, i, Len(queue))
  <2>1. \A m \in 1..Len(queue') : queue'[m].wish = i => m \in 1..Len(queue)
    BY <1>1
  <2>2. \A m \in 1..Len(queue) : m \in 1..Len(queue') /\ queue'[m] = queue[m]
    BY <1>1
  <2>3. \A m \in 1..Len(queue) :
            (\A n \in (m + 1)..Len(queue') : queue'[n].wish # i)
              <=> (\A n \in (m + 1)..Len(queue) : queue[n].wish # i)
    BY <1>1
  <2>4. (\E m \in 1..Len(queue') : queue'[m].wish = i)
          <=> (\E m \in 1..Len(queue) : queue[m].wish = i)
    BY <2>1, <2>2
  <2>5. QED
    BY <1>3, <2>1, <2>2, <2>3, <2>4 DEF Kept
<1>4. Kept(queue', disk', w.wish, Len(queue')) <=> w.op = "add"
  <2>1. /\ Len(queue') \in 1..Len(queue') /\ queue'[Len(queue')] = w
        /\ \A n \in (Len(queue') + 1)..Len(queue') : FALSE
    BY <1>1
  <2>2. ASSUME NEW m \in 1..Len(queue'), m # Len(queue')
        PROVE  Len(queue') \in (m + 1)..Len(queue')
    BY <1>1, <2>2
  <2>3. QED
    BY <2>1, <2>2 DEF Kept
<1>5. QED
  BY <1>1, <1>2, <1>3, <1>4

LEMMA HeartOnOnce ==
    ASSUME OnceInv, NEW x \in Wish, HeartOn(x)
    PROVE  OnePerProduct' /\ BoxIsKept'
<1>0. PICK n \in Gone..MaxPages, p \in Product : n = Len(pages) /\ p = pages[n].of
  <2>1. pages # <<>> /\ pages \in Seq(Details) /\ Len(pages) \in Gone..MaxPages
    BY HeartOnMade DEF OnceInv, WishInv, WishTypeOK
  <2>2. pages[Len(pages)] \in Details
    <3>1. Len(pages) \in 1..Len(pages)
      BY <2>1
    <3> QED
      BY <2>1, <3>1
  <2> QED
    BY <2>1, <2>2 DEF Details
<1> DEFINE w == [op |-> "add", wish |-> x, by |-> n]
<1>1. /\ x \notin Made /\ of'[x] = p /\ \A i \in Wish : i # x => of'[i] = of[i]
      /\ box' = box \cup {x} /\ pages # <<>> /\ pages[n].heart = 0
      /\ queue' = Append(queue, w) /\ disk' = disk
  BY <1>0, HeartOnMade DEF OnceInv
<1>2. w \in Write /\ w.wish = x /\ w.op = "add"
  BY NewWrite
<1> HIDE DEF w
<1>3. again \subseteq again' /\ (pages[n].behind \/ Adding(n) => p \in again')
  BY <1>0 DEF HeartOn
<1>4. /\ Len(queue') = Len(queue) + 1 /\ Len(queue) \in Nat
      /\ \A k \in 0..Len(queue), i \in Wish : Kept(queue', disk', i, k) <=> Kept(queue, disk, i, k)
      /\ \A i \in Wish \ {x} : Kept(queue', disk', i, Len(queue')) <=> Kept(queue, disk, i, Len(queue))
      /\ Kept(queue', disk', x, Len(queue'))
  BY <1>1, <1>2, AppendKept
<1>6. BoxIsKept'
  BY <1>1, <1>4 DEF OnceInv, BoxIsKept
<1>7. ASSUME NEW j \in Wish, j # x, of'[j] = p, Kept(queue, disk, j, Len(queue))
      PROVE  p \in again'
  <2>1. j \in Wishes(p)
    BY <1>1, <1>7 DEF OnceInv, BoxIsKept, Wishes
  <2>2. n \in 1..Len(pages)
    BY <1>0, <1>1, TopPage, WishPagesOK DEF OnceInv, WishInv
  <2>3. pages[n].behind \/ Adding(n)
    BY <1>0, <1>1, <2>1, <2>2 DEF OnceInv, Stopped
  <2>4. QED
    BY <1>3, <2>3
<1>8. ASSUME NEW k \in 0..Len(queue'), NEW i \in Wish, NEW j \in Wish, i # j,
             of'[i] = of'[j], Kept(queue', disk', i, k), Kept(queue', disk', j, k)
      PROVE  of'[i] \in again'
  <2>1. CASE k \in 0..Len(queue)
    <3>1. Kept(queue, disk, i, k) /\ Kept(queue, disk, j, k)
      BY <1>4, <1>8, <2>1
    <3>2. i \in Made /\ j \in Made
      BY <2>1, <3>1, KeptMade
    <3>3. of'[i] = of[i] /\ of'[j] = of[j]
      BY <1>1, <3>2
    <3>4. QED
      BY <1>3, <1>8, <2>1, <3>1, <3>3 DEF OnceInv, OnePerProduct
  <2>2. CASE k = Len(queue')
    <3>1. CASE i # x /\ j # x
      <4>1. Kept(queue, disk, i, Len(queue)) /\ Kept(queue, disk, j, Len(queue)) /\ Len(queue) \in 0..Len(queue)
        BY <1>4, <1>8, <2>2, <3>1
      <4>2. QED
        BY <1>1, <1>3, <1>8, <3>1, <4>1 DEF OnceInv, OnePerProduct
    <3>2. CASE i = x
      BY <1>1, <1>4, <1>7, <1>8, <2>2, <3>2
    <3>3. CASE j = x
      BY <1>1, <1>4, <1>7, <1>8, <2>2, <3>3
    <3>4. QED
      BY <3>1, <3>2, <3>3
  <2>3. QED
    BY <1>4, <2>1, <2>2
<1>9. OnePerProduct'
  BY <1>8 DEF OnePerProduct
<1>10. QED
  BY <1>6, <1>9

\* A delete adds no wish.
LEMMA DeleteOnce ==
    ASSUME OnceInv, NEW i \in Made, NEW b \in Gone..MaxPages, Deletes(i, b)
    PROVE  OnePerProduct' /\ BoxIsKept'
<1> DEFINE w == [op |-> "delete", wish |-> i, by |-> b]
<1>1. w \in Write /\ w.wish = i /\ w.op = "delete" /\ i \in Wish /\ queue' = Append(queue, w)
      /\ box' = box \ {i} /\ UNCHANGED <<of, disk, again>>
  BY NewWrite DEF Made, Deletes
<1> HIDE DEF w
<1>2. /\ Len(queue') = Len(queue) + 1 /\ Len(queue) \in Nat
      /\ \A k \in 0..Len(queue), j \in Wish : Kept(queue', disk', j, k) <=> Kept(queue, disk, j, k)
      /\ \A j \in Wish \ {i} : Kept(queue', disk', j, Len(queue')) <=> Kept(queue, disk, j, Len(queue))
      /\ ~Kept(queue', disk', i, Len(queue'))
  BY <1>1, AppendKept
<1>3. BoxIsKept'
  BY <1>1, <1>2 DEF OnceInv, BoxIsKept
<1>4. OnePerProduct'
  <2> SUFFICES ASSUME NEW k \in 0..Len(queue'), NEW x \in Wish, NEW y \in Wish, x # y,
                      of[x] = of[y], Kept(queue', disk', x, k), Kept(queue', disk', y, k)
               PROVE  of[x] \in again
    BY <1>1 DEF OnePerProduct
  <2>1. CASE k \in 0..Len(queue)
    BY <1>2, <2>1 DEF OnceInv, OnePerProduct
  <2>2. CASE k = Len(queue')
    <3>1. Kept(queue, disk, x, Len(queue)) /\ Kept(queue, disk, y, Len(queue)) /\ Len(queue) \in 0..Len(queue)
      BY <1>2, <2>2
    <3>2. QED
      BY <3>1 DEF OnceInv, OnePerProduct
  <2>3. QED
    BY <1>2, <2>1, <2>2
<1>5. QED
  BY <1>3, <1>4

\* The file after the oldest write: what was kept after k + 1 writes is kept
\* after k.
LEMMA WriteDoneKept ==
    ASSUME OnceInv, WriteDone, NEW k \in 0..Len(queue'), NEW i \in Wish
    PROVE  Kept(queue', disk', i, k) <=> Kept(queue, disk, i, k + 1)
<1> DEFINE w == queue[1]
<1>1. /\ queue # <<>> /\ queue' = Tail(queue) /\ Head(queue) = w /\ w \in Write
      /\ Len(queue) \in Nat \ {0} /\ Len(queue') = Len(queue) - 1
      /\ \A m \in 1..Len(queue') : queue'[m] = queue[m + 1]
  BY HeadTailWish DEF OnceInv, WishInv, WishTypeOK, WriteDone
<1>2. w.wish \in Wish
  BY <1>1 DEF Write
<1>3. disk' = IF w.op = "add" THEN disk \cup {w.wish} ELSE disk \ {w.wish}
  BY <1>1 DEF WriteDone
<1>4. /\ w.wish \in disk' <=> w.op = "add"
      /\ i # w.wish => (i \in disk' <=> i \in disk)
  BY <1>2, <1>3
<1>5. \A m \in 1..k : m + 1 \in 2..(k + 1) /\ queue'[m] = queue[m + 1]
  BY <1>1
<1>6. \A m \in 2..(k + 1) : m - 1 \in 1..k /\ queue'[m - 1] = queue[m]
  <2>1. \A m \in 2..(k + 1) : m - 1 \in 1..Len(queue') /\ (m - 1) + 1 = m
    BY <1>1
  <2>2. QED
    BY <1>1, <2>1
<1>7. CASE \E m \in 1..k : queue'[m].wish = i
  <2>1. \E m \in 1..(k + 1) : queue[m].wish = i
    BY <1>5, <1>7
  <2>2. ASSUME NEW m \in 1..k, queue'[m].wish = i, queue'[m].op = "add",
               \A n \in (m + 1)..k : queue'[n].wish # i
        PROVE  Kept(queue, disk, i, k + 1)
    <3>1. m + 1 \in 1..(k + 1) /\ queue[m + 1] = queue'[m]
      BY <1>5
    <3>2. ASSUME NEW n \in ((m + 1) + 1)..(k + 1) PROVE queue[n].wish # i
      <4>1. n \in 2..(k + 1) /\ n - 1 \in (m + 1)..k
        OBVIOUS
      <4>2. QED
        BY <1>6, <2>2, <4>1
    <3>3. QED
      BY <2>1, <2>2, <3>1, <3>2 DEF Kept
  <2>3. ASSUME NEW m \in 1..(k + 1), queue[m].wish = i, queue[m].op = "add",
               \A n \in (m + 1)..(k + 1) : queue[n].wish # i
        PROVE  Kept(queue', disk', i, k)
    <3>1. m # 1
      <4>1. PICK l \in 1..k : queue'[l].wish = i
        BY <1>7
      <4>2. queue[l + 1].wish = i /\ l + 1 \in 2..(k + 1)
        BY <1>5, <4>1
      <4>3. QED
        BY <2>3, <4>2
    <3>2. m - 1 \in 1..k /\ queue'[m - 1] = queue[m]
      BY <1>6, <3>1
    <3>3. ASSUME NEW n \in ((m - 1) + 1)..k PROVE queue'[n].wish # i
      <4>1. n \in 1..k /\ n + 1 \in (m + 1)..(k + 1)
        BY <3>2
      <4>2. QED
        BY <1>5, <2>3, <4>1
    <3>4. QED
      BY <1>7, <2>3, <3>2, <3>3 DEF Kept
  <2>4. QED
    BY <1>7, <2>1, <2>2, <2>3 DEF Kept
<1>8. CASE \A m \in 1..k : queue'[m].wish # i
  <2>1. \A m \in 2..(k + 1) : queue[m].wish # i
    BY <1>6, <1>8
  <2>2. 1 \in 1..(k + 1) /\ \A m \in 1..(k + 1) : m = 1 \/ m \in 2..(k + 1)
    OBVIOUS
  <2>3. CASE i = w.wish
    <3>1. Kept(queue, disk, i, k + 1) <=> w.op = "add"
      <4>1. \E m \in 1..(k + 1) : queue[m].wish = i
        BY <2>2, <2>3
      <4>2. \A n \in (1 + 1)..(k + 1) : queue[n].wish # i
        BY <2>1
      <4>3. QED
        BY <2>1, <2>2, <2>3, <4>1, <4>2 DEF Kept
    <3>2. QED
      BY <1>4, <1>8, <2>3, <3>1 DEF Kept
  <2>4. CASE i # w.wish
    <3>1. \A m \in 1..(k + 1) : queue[m].wish # i
      BY <2>1, <2>2, <2>4
    <3>2. QED
      BY <1>4, <1>8, <2>4, <3>1 DEF Kept
  <2>5. QED
    BY <2>3, <2>4
<1>9. QED
  BY <1>7, <1>8

LEMMA WriteDoneOnce ==
    ASSUME OnceInv, WriteDone
    PROVE  OnePerProduct' /\ BoxIsKept'
<1>1. /\ queue # <<>> /\ queue' = Tail(queue) /\ Head(queue) = queue[1]
      /\ Len(queue) \in Nat \ {0} /\ Len(queue') = Len(queue) - 1
      /\ queue' \in Seq(Write) /\ DOMAIN queue = 1..Len(queue)
      /\ \A k \in 1..Len(queue') : queue'[k] = queue[k + 1]
  BY HeadTailWish DEF OnceInv, WishInv, WishTypeOK, WriteDone
<1>2. UNCHANGED <<of, box, again>>
  BY DEF WriteDone
<1>3. OnePerProduct'
  <2>1. \A k \in 0..Len(queue') : k + 1 \in 0..Len(queue)
    BY <1>1
  <2>2. QED
    BY <1>2, <2>1, WriteDoneKept DEF OnceInv, OnePerProduct
<1>4. BoxIsKept'
  <2>1. Len(queue') \in 0..Len(queue') /\ Len(queue') + 1 = Len(queue)
    BY <1>1
  <2>2. \A i \in Wish : Kept(queue', disk', i, Len(queue'))
                           <=> Kept(queue, disk, i, Len(queue))
    BY <2>1, WriteDoneKept
  <2>3. QED
    BY <1>2, <2>2 DEF OnceInv, BoxIsKept
<1>5. QED
  BY <1>3, <1>4

\* The process may die at any moment: the file has one wish per product.
LEMMA RestartOnce ==
    ASSUME OnceInv, Restart
    PROVE  OnePerProduct' /\ BoxIsKept'
<1>1. queue' = <<>> /\ box' = disk /\ UNCHANGED <<of, disk, again>>
  BY DEF Restart
<1>2. ASSUME NEW i \in Wish
      PROVE  /\ Kept(queue', disk', i, 0) <=> i \in disk
             /\ Kept(queue, disk, i, 0) <=> i \in disk
  BY <1>1 DEF Kept
<1>3. OnePerProduct'
  <2>1. 0 \in 0..Len(queue)
    BY DEF OnceInv, WishInv, WishTypeOK
  <2>2. 0..Len(queue') = {0}
    BY <1>1
  <2>3. QED
    BY <1>1, <1>2, <2>1, <2>2 DEF OnceInv, OnePerProduct
<1>4. BoxIsKept'
  BY <1>1, <1>2 DEF BoxIsKept
<1>5. QED
  BY <1>3, <1>4

LEMMA OnceInit == Init => OnceInv
<1> SUFFICES ASSUME Init PROVE OnceInv
  OBVIOUS
<1>1. queue = <<>> /\ box = {} /\ disk = {} /\ pages = <<>>
  BY DEF Init
<1>2. \A i \in Wish : ~Kept(queue, disk, i, 0)
  BY <1>1 DEF Kept
<1>3. OnePerProduct /\ BoxIsKept /\ Stopped
  BY <1>1, <1>2 DEF OnePerProduct, BoxIsKept, Stopped
<1>4. QED
  BY <1>3, WishInit DEF OnceInv

\* Who waits for an add still does: after one write more, when a page above
\* is left, and after a write of another page.
LEMMA AddingAppended ==
    ASSUME WishInv, NEW w \in Write, queue' = Append(queue, w)
    PROVE  /\ \A k : Adding(k) => \E m \in DOMAIN queue' : queue'[m].op = "add" /\ queue'[m].by = k
           /\ w.op = "add" => \E m \in DOMAIN queue' : queue'[m].op = "add" /\ queue'[m].by = w.by
<1>1. /\ DOMAIN queue = 1..Len(queue) /\ Len(queue) \in Nat
      /\ queue' \in Seq(Write) /\ Len(queue') = Len(queue) + 1
      /\ \A m \in 1..Len(queue) : queue'[m] = queue[m]
      /\ queue'[Len(queue) + 1] = w
  BY AppendWish DEF WishInv, WishTypeOK
<1>2. /\ \A m \in DOMAIN queue : m \in DOMAIN queue' /\ queue'[m] = queue[m]
      /\ Len(queue) + 1 \in DOMAIN queue'
  BY <1>1
<1>3. QED
  BY <1>1, <1>2 DEF Adding

LEMMA AddingOrphaned ==
    ASSUME WishInv, NEW n \in Int, queue' = Orphaned(n, queue), NEW k \in Int, k < n, Adding(k)
    PROVE  \E m \in DOMAIN queue' : queue'[m].op = "add" /\ queue'[m].by = k
<1>1. /\ queue \in Seq(Write) /\ queue' \in Seq(Write) /\ Len(queue') = Len(queue)
      /\ DOMAIN queue = 1..Len(queue) /\ DOMAIN queue' = 1..Len(queue)
  BY OrphanedWish DEF WishInv, WishTypeOK
<1>2. PICK m \in 1..Len(queue) : queue[m].op = "add" /\ queue[m].by = k
  BY <1>1 DEF Adding
<1>3. ~(queue[m].by >= n)
  BY <1>2
<1>4. QED
  BY <1>1, <1>2, <1>3, OrphanedWish

LEMMA AddingTail ==
    ASSUME WishInv, queue # <<>>, queue' = Tail(queue), NEW k, Head(queue).by # k, Adding(k)
    PROVE  \E m \in DOMAIN queue' : queue'[m].op = "add" /\ queue'[m].by = k
<1>1. /\ Head(queue) = queue[1] /\ Len(queue) \in Nat \ {0} /\ Len(queue') = Len(queue) - 1
      /\ queue' \in Seq(Write) /\ DOMAIN queue = 1..Len(queue)
      /\ \A m \in 1..Len(queue') : queue'[m] = queue[m + 1]
  BY HeadTailWish DEF WishInv, WishTypeOK
<1>2. PICK m \in 1..Len(queue) : queue[m].op = "add" /\ queue[m].by = k
  BY <1>1 DEF Adding
<1>3. m - 1 \in 1..Len(queue') /\ (m - 1) + 1 = m
  BY <1>1, <1>2
<1>4. queue'[m - 1] = queue[m] /\ m - 1 \in DOMAIN queue'
  BY <1>1, <1>3
<1>5. QED
  BY <1>2, <1>4

\* Stopped, with the writes spelled out.
Waits(k, q) == \E m \in DOMAIN q : q[m].op = "add" /\ q[m].by = k

LEMMA StoppedSame ==
    ASSUME OnceInv, UNCHANGED pages, \A p : Wishes(p)' \subseteq Wishes(p),
           \A k \in 1..Len(pages) : Adding(k) => Waits(k, queue')
    PROVE  Stopped'
BY DEF OnceInv, Stopped, Adding, Waits, Wishes

LEMMA FoundNone ==
    ASSUME WishInv, NEW p, Found(p) = 0
    PROVE  Wishes(p) = {}
<1>1. box \subseteq Wish /\ \A i \in Wishes(p) : i # 0
  BY DEF Wishes, WishInv, WishTypeOK, Wish
<1>2. QED
  BY <1>1, FoundOf

LEMMA StoppedPush ==
    ASSUME OnceInv, NEW p \in Product, Push(p), UNCHANGED <<of, box, queue>>
    PROVE  Stopped'
<1>0. PICK n \in Nat : n = Len(pages)
  BY DEF OnceInv, WishInv, WishTypeOK
<1>1. /\ Len(pages') = n + 1
      /\ \A k \in 1..n : /\ pages'[k].of = pages[k].of
                         /\ pages'[k].heart = pages[k].heart
                         /\ pages'[k].behind = (pages[k].behind \/ pages[k].of = p)
      /\ pages'[n + 1].of = p /\ pages'[n + 1].heart = Found(p)
  BY <1>0, PushedPages, WishPagesOK DEF OnceInv, WishInv
<1> SUFFICES ASSUME NEW k \in 1..(n + 1), pages'[k].heart = 0, NEW i \in box,
                    of[i] = pages'[k].of
             PROVE  pages'[k].behind \/ Waits(k, queue')
  BY <1>1 DEF Stopped, Wishes, Adding, Waits
<1>2. CASE k \in 1..n
  <2>1. pages[k].heart = 0 /\ i \in Wishes(pages[k].of)
    BY <1>1, <1>2 DEF Wishes
  <2>2. pages[k].behind \/ Adding(k)
    BY <1>0, <1>2, <2>1 DEF OnceInv, Stopped
  <2>3. QED
    BY <1>1, <1>2, <2>2 DEF Adding, Waits
<1>3. CASE k = n + 1
  <2>1. i \in Wishes(p) /\ Found(p) = 0
    BY <1>1, <1>3 DEF Wishes
  <2>2. QED
    BY <2>1, FoundNone DEF OnceInv
<1>4. QED
  BY <1>2, <1>3

\* A page that looks at the box knows its wishes; the others wait on.
LEMMA StoppedCheck ==
    ASSUME OnceInv, NEW c, checkCart(c), UNCHANGED <<of, box>>,
           \A k \in 1..Len(pages) : k # c /\ Adding(k) => Waits(k, queue')
    PROVE  Stopped'
<1>1. /\ Len(pages') = Len(pages)
      /\ \A j \in 1..Len(pages) : /\ pages'[j].of = pages[j].of
                                  /\ j # c => pages'[j] = pages[j]
                                  /\ j = c => pages'[j].heart = Found(pages[j].of)
  BY CheckedPages, WishPagesOK DEF OnceInv, WishInv
<1> SUFFICES ASSUME NEW k \in 1..Len(pages), pages'[k].heart = 0, NEW i \in box,
                    of[i] = pages'[k].of
             PROVE  pages'[k].behind \/ Waits(k, queue')
  BY <1>1 DEF Stopped, Wishes, Adding, Waits
<1>2. CASE k # c
  <2>1. pages'[k] = pages[k] /\ i \in Wishes(pages[k].of)
    BY <1>1, <1>2 DEF Wishes
  <2>2. pages[k].behind \/ Adding(k)
    BY <2>1 DEF OnceInv, Stopped
  <2>3. QED
    BY <1>2, <2>1, <2>2
<1>3. CASE k = c
  <2>1. i \in Wishes(pages[k].of) /\ Found(pages[k].of) = 0
    BY <1>1, <1>3 DEF Wishes
  <2>2. QED
    BY <2>1, FoundNone DEF OnceInv
<1>4. QED
  BY <1>2, <1>3

LEMMA StoppedLeave ==
    ASSUME OnceInv, LeaveDetails
    PROVE  Stopped'
<1>0. PICK n \in Nat : n = Len(pages)
  BY DEF OnceInv, WishInv, WishTypeOK
<1>1. /\ Len(pages') = n - 1 /\ \A k \in 1..(n - 1) : pages'[k] = pages[k] /\ k \in 1..n
      /\ queue' = Orphaned(n, queue) /\ UNCHANGED <<of, box>>
  <2>1. /\ Len(pages') = n - 1 /\ \A k \in 1..(n - 1) : pages'[k] = pages[k]
        /\ queue' = Orphaned(n, queue) /\ UNCHANGED <<of, box>>
    BY <1>0, LeftPages, WishPagesOK DEF OnceInv, WishInv, LeaveDetails, boxVars
  <2>2. QED
    BY <2>1
<1> SUFFICES ASSUME NEW k \in 1..(n - 1), pages'[k].heart = 0, NEW i \in box,
                    of[i] = pages'[k].of
             PROVE  pages'[k].behind \/ Waits(k, queue')
  BY <1>1 DEF Stopped, Wishes, Adding, Waits
<1>2. k \in 1..Len(pages) /\ pages'[k] = pages[k] /\ i \in Wishes(pages[k].of)
  BY <1>0, <1>1 DEF Wishes
<1>3. pages[k].behind \/ Adding(k)
  BY <1>2 DEF OnceInv, Stopped
<1>4. k \in Int /\ n \in Int /\ k < n
  OBVIOUS
<1>5. QED
  BY <1>1, <1>2, <1>3, <1>4, AddingOrphaned DEF OnceInv, Waits

\* The page that wishes waits for its add; those of its product below it are
\* behind.
LEMMA StoppedHeartOn ==
    ASSUME OnceInv, NEW x \in Wish, HeartOn(x)
    PROVE  Stopped'
<1>0. PICK n \in Gone..MaxPages : n = Len(pages)
  BY HeartOnMade DEF OnceInv
<1> DEFINE w == [op |-> "add", wish |-> x, by |-> n]
<1>1. /\ x \notin Made /\ of'[x] = pages[n].of /\ \A i \in Wish : i # x => of'[i] = of[i]
      /\ box' = box \cup {x} /\ pages # <<>> /\ UNCHANGED pages
      /\ queue' = Append(queue, w) /\ box \subseteq Wish
  BY <1>0, HeartOnMade DEF OnceInv, WishInv, WishTypeOK
<1>2. w \in Write /\ w.by = n /\ w.op = "add"
  BY NewWrite
<1> HIDE DEF w
<1>3. Waits(n, queue') /\ \A k : Adding(k) => Waits(k, queue')
  BY <1>1, <1>2, AddingAppended DEF OnceInv, Waits
<1>4. n \in 1..Len(pages) /\ n \in Nat
  BY <1>0, <1>1, TopPage, WishPagesOK DEF OnceInv, WishInv
<1> SUFFICES ASSUME NEW k \in 1..Len(pages), pages[k].heart = 0, NEW i \in box',
                    of'[i] = pages[k].of, k # n
             PROVE  pages[k].behind \/ Waits(k, queue')
  BY <1>1, <1>3 DEF Stopped, Wishes, Adding, Waits
<1>5. CASE i = x
  <2>1. k < n /\ pages[n].of = pages[k].of
    BY <1>0, <1>1, <1>4, <1>5
  <2>2. QED
    BY <1>4, <2>1 DEF OnceInv, WishInv, Shaded
<1>6. CASE i # x
  <2>1. i \in Wishes(pages[k].of)
    BY <1>1, <1>6 DEF Wishes
  <2>2. QED
    BY <1>3, <2>1 DEF OnceInv, Stopped
<1>7. QED
  BY <1>5, <1>6

LEMMA StoppedDelete ==
    ASSUME OnceInv, NEW i \in Made, NEW b \in Gone..MaxPages, Deletes(i, b), UNCHANGED pages
    PROVE  Stopped'
<1>1. [op |-> "delete", wish |-> i, by |-> b] \in Write
  BY NewWrite DEF Made
<1>2. \A k : Adding(k) => Waits(k, queue')
  BY <1>1, AddingAppended DEF Deletes, OnceInv, Waits
<1>3. \A p : Wishes(p)' \subseteq Wishes(p)
  BY DEF Deletes, Wishes
<1>4. QED
  BY <1>2, <1>3, StoppedSame

LEMMA StoppedWriteDone ==
    ASSUME OnceInv, WriteDone
    PROVE  Stopped'
<1> DEFINE b == Head(queue).by
<1>1. /\ queue # <<>> /\ queue' = Tail(queue) /\ Callback(Head(queue))
      /\ UNCHANGED <<of, box>>
  BY DEF WriteDone
<1>2. \A k : k # b /\ Adding(k) => Waits(k, queue')
  BY <1>1, AddingTail DEF OnceInv, Waits
<1>3. CASE b \in {Gone, List} /\ UNCHANGED pages
  <2>1. \A k \in 1..Len(pages) : k # b
    BY <1>3 DEF Gone, List
  <2>2. \A p : Wishes(p)' \subseteq Wishes(p)
    BY <1>1 DEF Wishes
  <2>3. QED
    BY <1>2, <1>3, <2>1, <2>2, StoppedSame
<1>4. CASE checkCart(b)
  BY <1>1, <1>2, <1>4, StoppedCheck
<1>5. QED
  BY <1>1, <1>3, <1>4, CallbackCases

LEMMA StoppedNext == OnceInv /\ [Next]_vars => Stopped'
<1> SUFFICES ASSUME OnceInv, [Next]_vars PROVE Stopped'
  OBVIOUS
<1>1. CASE \/ UNCHANGED vars \/ (\E i \in Wish : TapRow(i))
           \/ \E c \in Ask : ProductThrows(c)
  <2>1. UNCHANGED <<of, box, queue, pages>>
    BY <1>1 DEF vars, boxVars, TapRow, ProductThrows
  <2>2. QED
    BY <2>1, StoppedSame, SameWishes DEF Adding, Waits
<1>2. CASE OpenFavourites \/ LeaveFavourites \/ Restart \/ \E i \in Wish : DeleteRow(i)
  <2>1. pages' = <<>>
    BY <1>2 DEF OpenFavourites, LeaveFavourites, Restart, DeleteRow
  <2>2. QED
    BY <2>1 DEF Stopped
<1>3. ASSUME NEW p \in Product, OpenDetails(p) PROVE Stopped'
  BY <1>3, StoppedPush DEF OpenDetails, boxVars
<1>4. ASSUME NEW c \in Ask, ProductFound(c) PROVE Stopped'
  <2>1. opening[c].of \in Product
    BY <1>4, AnsweredType DEF ProductFound, Answered, OnceInv, WishInv
  <2>2. QED
    BY <1>4, <2>1, StoppedPush DEF ProductFound, boxVars
<1>5. CASE CartDone
  <2>1. PICK k \in DOMAIN pages : checkCart(k)
    BY <1>5 DEF CartDone
  <2>2. QED
    BY <1>5, <2>1, StoppedCheck DEF CartDone, boxVars, Adding, Waits
<1>6. CASE HeartOff
  <2>1. UNCHANGED pages /\ pages # <<>> /\ Len(pages) \in Gone..MaxPages
    BY <1>6, Askers, WishPagesOK DEF HeartOff, OnceInv, WishInv
  <2>2. PICK i \in box : i = pages[Len(pages)].heart
    BY <1>6 DEF HeartOff
  <2>3. i \in Made /\ Deletes(i, Len(pages))
    BY <1>6, <2>2 DEF HeartOff, Deletes, OnceInv, WishInv, Created
  <2>4. QED
    BY <2>1, <2>3, StoppedDelete
<1>7. ASSUME NEW c \in Ask, ProductMissing(c) PROVE Stopped'
  <2>1. Remove(opening[c].at) /\ UNCHANGED <<of, disk, pages, again>>
    BY <1>7 DEF ProductMissing, Remove
  <2>2. CASE UNCHANGED <<box, queue, dropped>>
    BY <2>1, <2>2, StoppedSame, SameWishes DEF Adding, Waits
  <2>3. ASSUME NEW i \in At(opening[c].at, listed), Unwish(i) PROVE Stopped'
    <3>1. i \in Made /\ List \in Gone..MaxPages /\ Deletes(i, List)
      BY <2>1, <2>3, Askers, WishPagesOK DEF At, Unwish, Deletes, OnceInv, WishInv, Created
    <3>2. QED
      BY <2>1, <3>1, StoppedDelete
  <2>4. QED
    BY <2>1, <2>2, <2>3, RemoveCases
<1>8. QED
  BY <1>1, <1>2, <1>3, <1>4, <1>5, <1>6, <1>7, StoppedLeave, StoppedHeartOn, StoppedWriteDone
     DEF Next

LEMMA OnceNext == OnceInv /\ [Next]_vars => OnceInv'
<1> SUFFICES ASSUME OnceInv, [Next]_vars PROVE OnceInv'
  OBVIOUS
<1>1. WishInv /\ WishInv' /\ Stopped'
  BY WishNext, StoppedNext DEF OnceInv
<1>2. OnePerProduct' /\ BoxIsKept'
  BY <1>1, StepCases, PageKeepsOnce, HeartOnOnce, DeleteOnce, WriteDoneOnce, RestartOnce
<1>3. QED
  BY <1>1, <1>2 DEF OnceInv

\* For any number of wishes, pending writes, restarts and pages above each
\* other: two wishes of one product come only from a second tap before the
\* first was written, or from a page another of its product had lain above.
THEOREM WishedOnlyOnce == Spec => []WishedOnce
BY OnceInit, OnceNext, OnceImplies, PTL DEF Spec

-----------------------------------------------------------------------------
(***************************************************************************)
(* The wish list implements WriteBehind                                    *)
(***************************************************************************)

\* The refinement mapping of Store.
Mem(b) == [i \in Wish |-> i \in b]
Written(w) == [key |-> w.wish, val |-> w.op = "add"]
Log(q) == [k \in DOMAIN q |-> Written(q[k])]

LEMMA MemOf ==
    ASSUME NEW b
    PROVE  Mem(b) \in [Wish -> BOOLEAN] /\ \A i \in Wish : Mem(b)[i] = (i \in b)
<1>1. \A i \in Wish : (i \in b) \in BOOLEAN
  OBVIOUS
<1>2. QED
  BY <1>1, Zenon DEF Mem

LEMMA EntryOf ==
    ASSUME NEW w \in Write
    PROVE  /\ Written(w) \in Store!Entry /\ Written(w).key = w.wish
           /\ Written(w).val = (w.op = "add")
BY DEF Store!Entry, Written, Write

LEMMA LogOf ==
    ASSUME NEW q \in Seq(Write)
    PROVE  /\ Log(q) \in Seq(Store!Entry) /\ Len(Log(q)) = Len(q) /\ Len(q) \in Nat
           /\ DOMAIN Log(q) = 1..Len(q)
           /\ \A k \in 1..Len(q) : Log(q)[k] = Written(q[k])
<1>1. DOMAIN q = 1..Len(q) /\ Len(q) \in Nat
  OBVIOUS
<1>2. \A k \in 1..Len(q) : Written(q[k]) \in Store!Entry
  <2>1. \A k \in 1..Len(q) : q[k] \in Write
    OBVIOUS
  <2>2. QED
    BY <2>1, EntryOf
<1>3. Log(q) = [k \in 1..Len(q) |-> Written(q[k])]
  BY <1>1, Zenon DEF Log
<1>4. Log(q) \in [1..Len(q) -> Store!Entry]
  BY <1>2, <1>3, Zenon
<1>5. Log(q) \in Seq(Store!Entry) /\ Len(Log(q)) = Len(q) /\ DOMAIN Log(q) = 1..Len(q)
  BY ONLY <1>1, <1>4
<1>6. \A k \in 1..Len(q) : Log(q)[k] = Written(q[k])
  BY <1>3, Zenon
<1>7. QED
  BY <1>1, <1>5, <1>6

\* Two lists of writes that agree on what is written have one log.
LEMMA SameLog ==
    ASSUME NEW q \in Seq(Write), NEW r \in Seq(Write), Len(q) = Len(r),
           \A k \in 1..Len(q) : q[k].wish = r[k].wish /\ q[k].op = r[k].op
    PROVE  Log(q) = Log(r)
<1>1. \A k \in 1..Len(q) : Log(q)[k] = Log(r)[k]
  <2>1. \A k \in 1..Len(q) : Written(q[k]) = Written(r[k])
    BY DEF Written
  <2>2. QED
    BY <2>1, LogOf
<1>2. Log(q) \in Seq(Store!Entry) /\ Log(r) \in Seq(Store!Entry) /\ Len(Log(q)) = Len(Log(r))
      /\ Len(Log(q)) = Len(q)
  BY LogOf
<1>3. QED
  BY ONLY <1>1, <1>2, SeqEqual

LEMMA LogAppend ==
    ASSUME NEW q \in Seq(Write), NEW w \in Write
    PROVE  Log(Append(q, w)) = Append(Log(q), Written(w))
<1> DEFINE e == Written(w)
<1>1. e \in Store!Entry
  BY EntryOf
<1>2. /\ Append(q, w) \in Seq(Write) /\ Len(Append(q, w)) = Len(q) + 1 /\ Len(q) \in Nat
      /\ \A k \in 1..Len(q) : Append(q, w)[k] = q[k]
      /\ Append(q, w)[Len(q) + 1] = w
  BY AppendWish
<1>3. /\ Log(q) \in Seq(Store!Entry) /\ Len(Log(q)) = Len(q)
      /\ Log(Append(q, w)) \in Seq(Store!Entry) /\ Len(Log(Append(q, w))) = Len(q) + 1
  BY <1>2, LogOf
<1>4. \A k \in 1..Len(q) : Log(Append(q, w))[k] = Log(q)[k]
  <2>1. \A k \in 1..Len(q) : k \in 1..Len(Append(q, w))
    BY <1>2
  <2>2. QED
    BY <1>2, <2>1, LogOf
<1>5. Log(Append(q, w))[Len(q) + 1] = e
  <2>1. Len(q) + 1 \in 1..Len(Append(q, w))
    BY <1>2
  <2>2. QED
    BY <1>2, <2>1, LogOf
<1>6. /\ Append(Log(q), e) \in Seq(Store!Entry) /\ Len(Append(Log(q), e)) = Len(q) + 1
      /\ \A k \in 1..Len(q) : Append(Log(q), e)[k] = Log(q)[k]
      /\ Append(Log(q), e)[Len(q) + 1] = e
  BY <1>1, <1>3, AppendProperties
<1>7. \A k \in 1..(Len(q) + 1) : Log(Append(q, w))[k] = Append(Log(q), e)[k]
  <2>1. \A k \in 1..(Len(q) + 1) : k \in 1..Len(q) \/ k = Len(q) + 1
    BY <1>2
  <2>2. QED
    BY <1>4, <1>5, <1>6, <2>1
<1>8. QED
  BY ONLY <1>2, <1>3, <1>6, <1>7, SeqEqual

LEMMA LogTail ==
    ASSUME NEW q \in Seq(Write), q # <<>>
    PROVE  /\ Log(q) # <<>> /\ Head(Log(q)) = Written(Head(q))
           /\ Log(Tail(q)) = Tail(Log(q))
<1>1. /\ Tail(q) \in Seq(Write) /\ Len(Tail(q)) = Len(q) - 1 /\ Len(q) \in Nat \ {0}
      /\ \A k \in 1..Len(Tail(q)) : Tail(q)[k] = q[k + 1]
  BY HeadTailWish
<1>2. /\ Log(q) \in Seq(Store!Entry) /\ Len(Log(q)) = Len(q)
      /\ Log(Tail(q)) \in Seq(Store!Entry) /\ Len(Log(Tail(q))) = Len(q) - 1
  BY <1>1, LogOf
<1>3. Log(q) # <<>> /\ Head(Log(q)) = Log(q)[1] /\ 1 \in 1..Len(q)
  BY <1>1, <1>2, HeadTailProperties
<1>4. /\ Tail(Log(q)) \in Seq(Store!Entry) /\ Len(Tail(Log(q))) = Len(q) - 1
      /\ \A k \in 1..(Len(q) - 1) : Tail(Log(q))[k] = Log(q)[k + 1]
  BY <1>1, <1>2, <1>3, HeadTailProperties
<1>5. \A k \in 1..(Len(q) - 1) : Log(Tail(q))[k] = Log(q)[k + 1]
  <2>1. \A k \in 1..(Len(q) - 1) : k + 1 \in 1..Len(q) /\ k \in 1..Len(Tail(q))
    BY <1>1
  <2>2. QED
    BY <1>1, <2>1, LogOf
<1>6. \A k \in 1..(Len(q) - 1) : Log(Tail(q))[k] = Tail(Log(q))[k]
  BY <1>4, <1>5
<1>7. Log(Tail(q)) = Tail(Log(q))
  BY ONLY <1>1, <1>2, <1>4, <1>6, SeqEqual
<1>8. Head(q) = q[1]
  BY HeadTailWish
<1>9. QED
  BY <1>3, <1>7, <1>8, LogOf

\* The entry that a longer log has more.
LEMMA LastEntry ==
    ASSUME NEW l \in Seq(Store!Entry), NEW e \in Store!Entry
    PROVE  /\ SubSeq(Append(l, e), Len(l) + 1, Len(Append(l, e))) = <<e>>
           /\ Append(l, e) = l \o <<e>>
           /\ <<e>> \in Seq(Store!Entry) /\ <<e>> # <<>>
           /\ DOMAIN <<e>> = {1} /\ <<e>>[1] = e
<1>1. /\ Append(l, e) \in Seq(Store!Entry) /\ Len(Append(l, e)) = Len(l) + 1 /\ Len(l) \in Nat
      /\ Append(l, e)[Len(l) + 1] = e
  BY AppendProperties
<1>2. /\ <<e>> \in Seq(Store!Entry) /\ <<e>> # <<>> /\ Len(<<e>>) = 1
      /\ DOMAIN <<e>> = {1} /\ <<e>>[1] = e
  OBVIOUS
<1> DEFINE s == SubSeq(Append(l, e), Len(l) + 1, Len(l) + 1)
<1>3. s \in Seq(Store!Entry) /\ Len(s) = 1 /\ s[1] = e
  BY <1>1, SubSeqProperties
<1>4. s = <<e>>
  BY <1>3, Alone
<1>5. Append(l, e) = l \o <<e>>
  BY AppendIsConcat
<1>6. QED
  BY <1>1, <1>2, <1>4, <1>5

\* A handler that asks for one write is a call of the store.
LEMMA CallStep ==
    ASSUME WishInv, NEW w \in Write, queue' = Append(queue, w), disk' = disk,
           box' = IF w.op = "add" THEN box \cup {w.wish} ELSE box \ {w.wish}
    PROVE  Store!Next
<1> DEFINE l == Log(queue)
           e == Written(w)
<1>1. queue \in Seq(Write) /\ l \in Seq(Store!Entry) /\ e \in Store!Entry
      /\ e.key = w.wish /\ e.val = (w.op = "add") /\ w.wish \in Wish
  BY LogOf, EntryOf DEF WishInv, WishTypeOK, Write
<1>2. Log(queue') = Append(l, e)
  BY <1>1, LogAppend
<1> HIDE DEF l, e
<1>3. /\ SubSeq(Log(queue'), Len(l) + 1, Len(Log(queue'))) = <<e>>
      /\ Log(queue') = l \o <<e>> /\ <<e>> \in Seq(Store!Entry) /\ <<e>> # <<>>
      /\ DOMAIN <<e>> = {1} /\ <<e>>[1] = e
  BY <1>1, <1>2, LastEntry
<1>4. /\ Mem(box') \in [Wish -> BOOLEAN] /\ Mem(disk') = Mem(disk)
      /\ Mem(box')[e.key] = e.val
      /\ \A k \in Wish : k # e.key => Mem(box')[k] = Mem(box)[k]
  <2>1. /\ w.wish \in box' <=> w.op = "add"
        /\ \A k \in Wish : k # w.wish => (k \in box' <=> k \in box)
    OBVIOUS
  <2>2. QED
    BY <1>1, <2>1, MemOf
<1>5. /\ \A n \in DOMAIN <<e>> : Mem(box')[<<e>>[n].key] = <<e>>[n].val
      /\ \A k \in Wish : ~Store!In(k, <<e>>) => Mem(box')[k] = Mem(box)[k]
  BY <1>3, <1>4 DEF Store!In
<1>6. /\ <<e>> \in Seq(Store!Entry) /\ <<e>> # <<>>
      /\ Log(queue') = Log(queue) \o <<e>>
      /\ Mem(box') \in [Wish -> BOOLEAN]
      /\ \A n \in DOMAIN <<e>> : Store!IsLast(n, <<e>>) => Mem(box')[<<e>>[n].key] = <<e>>[n].val
      /\ \A k \in Wish : ~Store!In(k, <<e>>) => Mem(box')[k] = Mem(box)[k]
      /\ Mem(disk') = Mem(disk)
  BY <1>3, <1>4, <1>5 DEF l
<1>7. LET ws == SubSeq(Log(queue'), Len(Log(queue)) + 1, Len(Log(queue'))) IN
      /\ ws \in Seq(Store!Entry) /\ ws # <<>>
      /\ Log(queue') = Log(queue) \o ws
      /\ Mem(box') \in [Wish -> BOOLEAN]
      /\ \A n \in DOMAIN ws : Store!IsLast(n, ws) => Mem(box')[ws[n].key] = ws[n].val
      /\ \A k \in Wish : ~Store!In(k, ws) => Mem(box')[k] = Mem(box)[k]
      /\ Mem(disk') = Mem(disk)
  BY <1>3, <1>6, Zenon DEF l
<1>8. Store!Call(SubSeq(Log(queue'), Len(Log(queue)) + 1, Len(Log(queue'))))
  BY <1>7, Zenon DEF Store!Call, Mem, Log, Written
<1>9. QED
  BY <1>8, Zenon DEF Store!Next, Log, Written

\* The write that reaches the disk is the oldest of the store.
LEMMA FlushStep ==
    ASSUME WishInv, WriteDone
    PROVE  Store!Next
<1> DEFINE w == Head(queue)
<1>1. /\ queue \in Seq(Write) /\ queue # <<>> /\ queue' = Tail(queue) /\ w \in Write
      /\ disk' = IF w.op = "add" THEN disk \cup {w.wish} ELSE disk \ {w.wish}
      /\ box' = box
  BY HeadTailWish DEF WishInv, WishTypeOK, WriteDone
<1>2. /\ Log(queue) # <<>> /\ Head(Log(queue)) = Written(w) /\ Log(queue') = Tail(Log(queue))
      /\ Written(w).key = w.wish /\ Written(w).val = (w.op = "add") /\ w.wish \in Wish
  BY <1>1, LogTail, EntryOf DEF Write
<1>3. /\ Mem(disk') \in [Wish -> BOOLEAN] /\ Mem(box') = Mem(box)
      /\ Mem(disk')[w.wish] = (w.op = "add")
      /\ \A k \in Wish : k # w.wish => Mem(disk')[k] = Mem(disk)[k]
  <2>1. /\ w.wish \in disk' <=> w.op = "add"
        /\ \A k \in Wish : k # w.wish => (k \in disk' <=> k \in disk)
    BY <1>1
  <2>2. QED
    BY <1>1, <1>2, <2>1, MemOf
<1> HIDE DEF w
<1>4. /\ Log(queue) # <<>> /\ Log(queue') = Tail(Log(queue))
      /\ Mem(disk') \in [Wish -> BOOLEAN]
      /\ \A k \in Wish : k # Head(Log(queue)).key => Mem(disk')[k] = Mem(disk)[k]
      /\ ~Store!In(Head(Log(queue)).key, Log(queue')) =>
             Mem(disk')[Head(Log(queue)).key] = Head(Log(queue)).val
      /\ Mem(box') = Mem(box)
  BY <1>2, <1>3
<1>5. Store!Flush
  BY <1>4, Zenon DEF Store!Flush, Mem, Log, Written
<1>6. QED
  BY <1>5 DEF Store!Next

LEMMA CrashStep == ASSUME Restart PROVE Store!Next
<1>1. Mem(box') = Mem(disk) /\ Log(queue') = <<>> /\ Mem(disk') = Mem(disk)
  <2>1. queue' = <<>> /\ box' = disk /\ disk' = disk
    BY DEF Restart
  <2>2. Log(<<>>) = <<>>
    BY DEF Log
  <2>3. QED
    BY <2>1, <2>2
<1>2. Store!Crash
  BY <1>1, Zenon DEF Store!Crash, Mem, Log, Written
<1>3. QED
  BY <1>2 DEF Store!Next

\* Every other step is none of the store: at most it changes who waits.
LEMMA StutterStep ==
    ASSUME WishInv, Quiet
    PROVE  UNCHANGED Store!storeVars
<1>1. /\ queue \in Seq(Write) /\ queue' \in Seq(Write) /\ Len(queue') = Len(queue)
      /\ \A k \in 1..Len(queue) : queue[k].wish = queue'[k].wish /\ queue[k].op = queue'[k].op
  BY OrphanedWish DEF Quiet, WishInv, WishTypeOK
<1>2. Log(queue') = Log(queue)
  BY <1>1, SameLog
<1>3. Mem(box') = Mem(box) /\ Mem(disk') = Mem(disk)
  BY DEF Quiet
<1>4. QED
  BY <1>2, <1>3, Zenon DEF Store!storeVars, Mem, Log, Written

LEMMA StoreInit == Init => Store!Init
<1> SUFFICES ASSUME Init PROVE Store!Init
  OBVIOUS
<1>1. box = {} /\ disk = {} /\ queue = <<>>
  BY DEF Init
<1>2. Mem(box) \in [Wish -> BOOLEAN] /\ Mem(disk) = Mem(box) /\ Log(queue) = <<>>
  <2>1. Log(<<>>) = <<>>
    BY DEF Log
  <2>2. QED
    BY <1>1, <2>1, MemOf
<1>3. QED
  BY <1>2, Zenon DEF Store!Init, Mem, Log, Written

LEMMA StoreNext == WishInv /\ [Next]_vars => [Store!Next]_(Store!storeVars)
<1> SUFFICES ASSUME WishInv, [Next]_vars PROVE Store!Next \/ UNCHANGED Store!storeVars
  OBVIOUS
<1>1. ASSUME NEW i \in Wish, HeartOn(i) PROVE Store!Next
  <2>1. /\ box' = box \cup {i} /\ disk' = disk /\ Len(pages) \in Gone..MaxPages
        /\ queue' = Append(queue, [op |-> "add", wish |-> i, by |-> Len(pages)])
    BY <1>1, HeartOnMade
  <2>2. QED
    BY <2>1, NewWrite, CallStep
<1>2. ASSUME NEW i \in Made, NEW b \in Gone..MaxPages, Deletes(i, b) PROVE Store!Next
  BY <1>2, NewWrite, CallStep DEF Deletes, Made
<1>3. QED
  BY <1>1, <1>2, StepCases, StutterStep, FlushStep, CrashStep

\* No handler, in whatever order, changes the wishes behind the back of Hive:
\* each step is a call, the end of the oldest write or a crash of WriteBehind.
THEOREM ImplementsStore == Spec => WishesWriteBehind
BY WishInit, WishNext, StoreInit, StoreNext, PTL DEF Spec, WishesWriteBehind, Store!Spec

\* What WriteBehindProofs shows of the store, under the same mapping.
StoreProofs == INSTANCE WriteBehindProofs WITH
    Key <- Wish, Value <- BOOLEAN,
    mem <- [i \in Wish |-> i \in box], device <- [i \in Wish |-> i \in disk],
    log <- [k \in DOMAIN queue |->
               [key |-> queue[k].wish, val |-> queue[k].op = "add"]]

\* A wish without a pending write survives a crash as the app shows it.
WishSurvives ==
    \A i \in Wish : (\A k \in DOMAIN queue : queue[k].wish # i) => (i \in disk <=> i \in box)

LEMMA DurableWish == WishInv /\ StoreProofs!Durable => WishSurvives
<1> SUFFICES ASSUME WishInv, StoreProofs!Durable, NEW i \in Wish,
                    \A k \in DOMAIN queue : queue[k].wish # i
             PROVE  i \in disk <=> i \in box
  BY DEF WishSurvives
<1>1. \A k \in Wish : ~StoreProofs!In(k, Log(queue)) => Mem(disk)[k] = Mem(box)[k]
  BY Zenon DEF StoreProofs!Durable, Mem, Log, Written
<1>2. ~StoreProofs!In(i, Log(queue))
  <2>1. queue \in Seq(Write) /\ \A k \in 1..Len(queue) : queue[k] \in Write
    BY DEF WishInv, WishTypeOK
  <2>2. DOMAIN Log(queue) = DOMAIN queue
    BY <2>1, LogOf
  <2>3. \A k \in DOMAIN queue : Log(queue)[k].key = queue[k].wish
    BY <2>1, LogOf, EntryOf
  <2>4. QED
    BY <2>2, <2>3 DEF StoreProofs!In
<1>3. QED
  BY <1>1, <1>2, MemOf

\* A wish that no pending write is about is in the file exactly if it is in the
\* box: from the refinement and the theorem about every write-behind store.
THEOREM WishesSurvive == Spec => []WishSurvives
<1>1. Store!Init => StoreProofs!Init
  BY DEF Store!Init, StoreProofs!Init
<1>2. [Store!Next]_(Store!storeVars) => [StoreProofs!Next]_(StoreProofs!storeVars)
  BY DEF Store!Next, StoreProofs!Next, Store!storeVars, StoreProofs!storeVars,
     Store!Call, StoreProofs!Call, Store!Flush, StoreProofs!Flush, Store!Crash, StoreProofs!Crash,
     Store!In, StoreProofs!In, Store!IsLast, StoreProofs!IsLast, Store!Entry, StoreProofs!Entry
<1>3. Spec => StoreProofs!Spec
  BY <1>1, <1>2, ImplementsStore, PTL DEF WishesWriteBehind, Store!Spec, StoreProofs!Spec
<1>4. StoreProofs!Spec => []StoreProofs!Durable
  BY StoreProofs!StoreDurable
<1>5. QED
  BY <1>3, <1>4, WishInit, WishNext, DurableWish, PTL DEF Spec
=============================================================================
