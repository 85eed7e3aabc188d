--------------------------- MODULE CatalogueProofs ---------------------------
(***************************************************************************)
(* Theorems about Listing and Shelves for every set of categories, every   *)
(* size of a page, every number of products and every bound: the lists are *)
(* of their query, nothing is missing in them, the categories are whole,   *)
(* and the spinners wait for something.                                    *)
(***************************************************************************)
EXTENDS MCCatalogue, SequenceTheorems, WellFoundedInduction, TLAPS

-----------------------------------------------------------------------------
(***************************************************************************)
(* Product lists: queries, pages and pops                                  *)
(***************************************************************************)

\* A page has at most PageSize products; the first one has some, if there are.
LEMMA PageLenIs ==
    ASSUME ListingAssumption, NEW q \in Query, NEW n \in {1, 2}
    PROVE  /\ PageLen(q, n) \in 0..PageSize
           /\ n = 1 /\ Total[q] > 0 => PageLen(q, n) > 0
<1>1. /\ Total[q] \in Nat /\ PageSize \in Nat /\ PageSize > 0
      /\ (n - 1) * PageSize = IF n = 1 THEN 0 ELSE PageSize
  BY DEF ListingAssumption
<1> DEFINE left == Total[q] - (n - 1) * PageSize
<1>2. left \in Int /\ (n = 1 => left = Total[q])
  BY <1>1
<1> HIDE DEF left
<1>3. PageLen(q, n) = IF left <= 0 THEN 0
                      ELSE IF left <= PageSize THEN left ELSE PageSize
  BY DEF PageLen, left
<1> QED
  BY <1>1, <1>2, <1>3

\* The listener asks for the first page, or after a full one for the second.
LEMMA NextIndexIs ==
    ASSUME ListingAssumption, lastLen \in 0..PageSize, lastLen % PageSize = 0
    PROVE  \/ NextIndex = 1
           \/ NextIndex = 2 /\ lastLen > 0
<1>1. PageSize \in Nat /\ PageSize > 0 /\ lastLen \in Nat /\ lastLen <= PageSize
  BY DEF ListingAssumption
<1>2. lastLen < PageSize => lastLen \div PageSize = 0
  BY <1>1, SMT
<1>3. lastLen = PageSize => lastLen \div PageSize = 1
  BY <1>1, SMT
<1> QED
  BY <1>1, <1>2, <1>3 DEF NextIndex

LEMMA AskedIsQuery ==
    ASSUME ListingTypeOK, NEW c \in Query
    PROVE  Asked(c) \in Query
  BY DEF Asked, Query, ListingTypeOK

\* What a pop leaves: a page below, and the requests as they are but for who
\* waits, which a page that is gone does no more.
LEMMA PopLeaves ==
    ASSUME ListingTypeOK, NEW open \in SUBSET asks, Pop(open)
    PROVE  /\ (route = "filter" /\ route' = "list") \/ route' \in {"away", "blank"}
           /\ asks' \in SUBSET Request
           /\ \A r \in asks' : \E s \in open : r.of = s.of /\ r.page = s.page
           /\ \A s \in open : \E r \in asks' :
                /\ r.of = s.of /\ r.page = s.page
                /\ s.then # route => r.then = s.then
<1> DEFINE M(r) == IF r.then = route THEN [r EXCEPT !.then = Gone[route]] ELSE r
<1>1. asks' = {M(r) : r \in open}
  BY DEF Pop
<1>2. ASSUME NEW r \in open
      PROVE  /\ M(r) \in Request /\ M(r).of = r.of /\ M(r).page = r.page
             /\ r.then # route => M(r).then = r.then
  <2>1. r \in Request
    BY DEF ListingTypeOK
  <2> QED
    BY <2>1 DEF Request, Waiter, Gone, ListingTypeOK
<1> HIDE DEF M
<1>3. (route = "filter" /\ route' = "list") \/ route' \in {"away", "blank"}
  BY DEF Pop, Under, ListingTypeOK
<1>4. \A r \in asks' : \E s \in open : r = M(s)
  BY <1>1
<1>5. \A s \in open : M(s) \in asks'
  BY <1>1
<1> QED
  BY <1>2, <1>3, <1>4, <1>5

-----------------------------------------------------------------------------
\* The types are not inductive: APPLY CHANGES asks for the selection, which is
\* what a page without a category shows.
PagesInv ==
    /\ ListingTypeOK
    /\ route = "filter" => here = Any

LEMMA PagesTyped ==
    ASSUME ListingAssumption, PagesInv, [Next]_vars
    PROVE  PagesInv'
<1> USE DEF PagesInv, ListingTypeOK, vars, pageVars, listVars
<1>0. 0 \in 0..PageSize /\ PageSize \in Nat
  BY DEF ListingAssumption
<1>1. ASSUME NEW c \in Category \cup {Any}, OpenList(c)
      PROVE  PagesInv'
  <2>1. /\ route' = "list" /\ here' = c /\ load' = TRUE /\ busy' = FALSE
        /\ chosen' = Normal /\ list' = {} /\ strays' = {r.of : r \in asks}
        /\ picked' = FALSE /\ lastLen' = 0 /\ filterLoad' = TRUE /\ lost' = {}
        /\ asks' = asks \cup
             {[of |-> [cat |-> c, priced |-> FALSE], page |-> 1, then |-> "list"]}
    BY <1>1 DEF OpenList, makeEmpty, Ask
  <2>2. Normal \in Query /\ strays' \subseteq Query /\ asks' \subseteq Request
    <3>1. [cat |-> c, priced |-> FALSE] \in Query /\ Normal \in Query
      BY DEF Normal, Query
    <3>2. asks' \subseteq Request
      <4> DEFINE q == [cat |-> c, priced |-> FALSE]
      <4>1. q \in Query /\ asks \subseteq Request
        BY <3>1
      <4>2. asks' = asks \cup {[of |-> q, page |-> 1, then |-> "list"]}
        BY <2>1
      <4> HIDE DEF q
      <4>3. [of |-> q, page |-> 1, then |-> "list"] \in Request
        BY <4>1 DEF Request, Waiter
      <4> QED
        BY <4>1, <4>2, <4>3
    <3>3. strays' \subseteq Query
      BY <2>1 DEF Request, Waiter
    <3> QED
      BY <3>1, <3>2, <3>3
  <2> QED
    BY <1>0, <2>1, <2>2
<1>2. CASE Leave
  <2>1. asks \in SUBSET asks /\ Pop(asks)
    BY <1>2 DEF Leave
  <2>2. UNCHANGED <<here, load, busy, chosen, listVars, lost, strays, picked>>
    BY <1>2 DEF Leave
  <2> QED
    BY <2>1, <2>2, PopLeaves
<1>3. CASE TransitionEnds
  BY <1>3 DEF TransitionEnds, Request, Waiter
<1>4. CASE Scroll
  <2>1. Asked(chosen) \in Query
    BY AskedIsQuery
  <2>2. NextIndex \in {1, 2}
    BY <1>4, NextIndexIs DEF Scroll
  <2>3. asks' \subseteq Request /\ lastLen' = 0 /\ filterLoad' = TRUE
    BY <1>4, <2>1, <2>2 DEF Scroll, Ask, Request, Waiter
  <2> QED
    BY <1>0, <1>4, <2>3 DEF Scroll
<1>5. CASE OpenFilter
  BY <1>5 DEF OpenFilter
<1>6. ASSUME NEW c \in Category, PickCategory(c)
      PROVE  PagesInv'
  BY <1>6 DEF PickCategory, Query
<1>7. ASSUME NEW range \in BOOLEAN, Apply(range)
      PROVE  PagesInv'
  <2>1. chosen' \in Query
    BY <1>7 DEF Apply, Query
  <2>2. /\ asks' = asks \cup {[of |-> chosen', page |-> 1, then |-> "filter"]}
        /\ strays' = {r.of : r \in asks} /\ list' = {} /\ picked' = FALSE
        /\ lastLen' = 0 /\ filterLoad' = TRUE /\ busy' = TRUE
        /\ UNCHANGED <<route, here, load, lost>>
    BY <1>7 DEF Apply, Ask, makeEmpty
  <2>3. asks' \subseteq Request /\ strays' \subseteq Query
    BY <2>1, <2>2 DEF Request, Waiter
  <2> QED
    BY <1>0, <2>1, <2>2, <2>3
<1>8. ASSUME NEW r \in asks, Answered(r)
      PROVE  PagesInv'
  <2>1. r.of \in Query /\ r.page \in {1, 2}
    BY DEF Request, Waiter
  <2>2. lastLen' \in 0..PageSize
    BY <1>8, <2>1, PageLenIs DEF Answered
  <2>3. list' \subseteq [of : Query, page : {1, 2}]
    BY <1>8, <2>1 DEF Answered, Fill
  <2>4. /\ filterLoad' = FALSE /\ load' \in BOOLEAN /\ busy' \in BOOLEAN
        /\ UNCHANGED <<here, chosen, lost, strays, picked>>
    BY <1>8 DEF Answered
  <2>5. CASE r.then \in {"filter", "leaving"}
    <3>1. asks \ {r} \in SUBSET asks /\ Pop(asks \ {r})
      BY <1>8, <2>5 DEF Answered
    <3> QED
      BY <2>2, <2>3, <2>4, <3>1, PopLeaves
  <2>6. CASE r.then \notin {"filter", "leaving"}
    <3>1. asks' = asks \ {r} /\ route' = route
      BY <1>8, <2>6 DEF Answered
    <3> QED
      BY <2>2, <2>3, <2>4, <3>1
  <2> QED
    BY <2>5, <2>6
<1>9. ASSUME NEW r \in asks, Throws(r)
      PROVE  PagesInv'
  <2>1. r.then \in Waiter
    BY DEF Request
  <2>2. asks' \subseteq Request /\ lost' \subseteq Waiter
    BY <1>9, <2>1 DEF Throws
  <2> QED
    BY <1>9, <2>2 DEF Throws
<1>10. CASE Restart
  BY <1>0, <1>10 DEF Restart, Normal, Query
<1>11. CASE UNCHANGED vars
  BY <1>11
<1> QED
  BY <1>1, <1>2, <1>3, <1>4, <1>5, <1>6, <1>7, <1>8, <1>9, <1>10, <1>11 DEF Next

-----------------------------------------------------------------------------
(***************************************************************************)
(* ListOfQuery and NothingMissing                                          *)
(***************************************************************************)

\* A product list is on the stack, and says what it asks for.
Settled == route \in {"list", "filter"} /\ ~picked
Own(x) == x.of = Asked(chosen) \/ x.of \in strays
First == [of |-> Asked(chosen), page |-> 1]

\* ListOfQuery is not inductive: what is under way fills the list too.
QueryInv == Settled => \A x \in list \cup asks : Own(x)

\* NothingMissing is neither.  As long as all is of one query: who asks for the
\* second page has the first, so has a last page that is not empty; and
\* the first page is there, or to come, or empty.
FirstInv ==
    Settled =>
        /\ strays = {} =>
             /\ \A c \in list : c.page = 2 => First \in list
             /\ \A r \in asks : r.page = 2 => First \in list
             /\ lastLen > 0 => First \in list
        /\ \/ First \in list
           \/ Total[Asked(chosen)] = 0 \/ lost # {}
           \/ \E r \in asks : r.of = Asked(chosen) /\ r.page = 1

ListsInv == PagesInv /\ QueryInv /\ FirstInv /\ SpinnersEnd

\* A new selection: the list is empty, and its first page asked for.
LEMMA FreshList ==
    ASSUME ListsInv, PagesInv', makeEmpty, lastLen' = 0, NEW who,
           asks' = asks \cup {[of |-> Asked(chosen)', page |-> 1, then |-> who]}
    PROVE  QueryInv' /\ FirstInv'
<1> DEFINE a == Asked(chosen)'
           q == [of |-> a, page |-> 1, then |-> who]
<1>1. asks' = asks \cup {q} /\ list' = {} /\ strays' = {r.of : r \in asks}
  BY DEF makeEmpty
<1>2. q.of = a /\ q.page = 1
  OBVIOUS
<1> HIDE DEF q
<1>3. QueryInv'
  BY <1>1, <1>2 DEF QueryInv, Own
<1>4. strays' = {} => asks' = {q}
  BY <1>1
<1>5. FirstInv'
  BY <1>1, <1>2, <1>4 DEF FirstInv
<1> QED
  BY <1>3, <1>5

\* A step after which there are no other requests, and that leaves the list.
LEMMA SameList ==
    ASSUME ListsInv, NEW open \in SUBSET asks,
           Settled' => Settled /\ Asked(chosen)' = Asked(chosen),
           UNCHANGED <<list, strays>>, lastLen' \in {0, lastLen},
           \A r \in asks' : \E s \in open : r.of = s.of /\ r.page = s.page,
           \A s \in open : \E r \in asks' : r.of = s.of /\ r.page = s.page,
           lost \subseteq lost', \A r \in asks \ open : r.page = 1 => lost' # {}
    PROVE  QueryInv' /\ FirstInv'
<1>1. QueryInv'
  BY DEF ListsInv, QueryInv, Own
<1>2. Settled' => First' = First
  BY DEF First
<1>3. \A s \in asks : s.page = 1 =>
        lost' # {} \/ \E r \in asks' : r.of = s.of /\ r.page = s.page
  OBVIOUS
<1> QED
  BY <1>1, <1>2, <1>3 DEF ListsInv, FirstInv

\* An answer fills the list, if its page is not empty.
LEMMA FilledList ==
    ASSUME ListingAssumption, ListsInv, NEW r \in asks,
           Settled' => Settled /\ Asked(chosen)' = Asked(chosen),
           Fill(r), lastLen' = PageLen(r.of, r.page), UNCHANGED <<strays, lost>>,
           \A t \in asks' : \E s \in asks \ {r} : t.of = s.of /\ t.page = s.page,
           \A s \in asks \ {r} : \E t \in asks' : t.of = s.of /\ t.page = s.page
    PROVE  QueryInv' /\ FirstInv'
<1> DEFINE c == [of |-> r.of, page |-> r.page]
<1>1. c.of = r.of /\ c.page = r.page /\ r.of \in Query /\ r.page \in {1, 2}
  BY DEF ListsInv, PagesInv, ListingTypeOK, Request, Waiter
<1>2. /\ list' = IF lastLen' = 0 THEN list ELSE list \cup {c}
      /\ lastLen' \in 0..PageSize
      /\ r.page = 1 /\ Total[r.of] > 0 => lastLen' > 0
  BY <1>1, PageLenIs DEF Fill
<1>3. r.page = 1 /\ r.of = Asked(chosen) => c = First
  BY DEF First
<1>4. Settled' => First' = First
  BY DEF First
<1> HIDE DEF c
<1>5. QueryInv'
  BY <1>1, <1>2 DEF ListsInv, QueryInv, Own
<1>6. PageSize \in Nat /\ (Asked(chosen) = r.of => Total[Asked(chosen)] \in Nat)
  BY <1>1 DEF ListingAssumption
<1>7. ASSUME Settled', strays' = {}
      PROVE  /\ \A d \in list' : d.page = 2 => First' \in list'
             /\ \A t \in asks' : t.page = 2 => First' \in list'
             /\ lastLen' > 0 => First' \in list'
  <2>1. r.of = Asked(chosen)
    BY <1>7 DEF ListsInv, QueryInv, Own
  <2>2. /\ \A d \in list : d.page = 2 => First \in list
        /\ \A s \in asks : s.page = 2 => First \in list
    BY <1>7 DEF ListsInv, FirstInv
  <2>3. lastLen' # 0 => First \in list'
    BY <1>1, <1>2, <1>3, <2>1, <2>2
  <2>4. lastLen' = 0 => list' = list
    BY <1>2
  <2>5. First' = First
    BY <1>4, <1>7
  <2>6. list' # list => lastLen' # 0
    BY <2>4
  <2> QED
    BY <1>2, <2>2, <2>3, <2>4, <2>5
<1>8. ASSUME Settled'
      PROVE  \/ First' \in list'
             \/ Total[Asked(chosen)'] = 0 \/ lost' # {}
             \/ \E t \in asks' : t.of = Asked(chosen)' /\ t.page = 1
  <2>1. \/ First \in list
        \/ Total[Asked(chosen)] = 0 \/ lost # {}
        \/ \E s \in asks : s.of = Asked(chosen) /\ s.page = 1
    BY <1>8 DEF ListsInv, FirstInv
  <2>2. CASE First \in list
    BY <1>2, <1>4, <1>8, <2>2
  <2>3. CASE r.of = Asked(chosen) /\ r.page = 1
    BY <1>2, <1>3, <1>4, <1>6, <1>8, <2>3
  <2>4. CASE \E s \in asks \ {r} : s.of = Asked(chosen) /\ s.page = 1
    BY <1>8, <2>4
  <2> QED
    BY <1>8, <2>1, <2>2, <2>3, <2>4
<1> QED
  BY <1>5, <1>7, <1>8 DEF FirstInv

-----------------------------------------------------------------------------
\* What is asked for depends on the page and the selection only.
LEMMA SameAsked ==
    ASSUME UNCHANGED <<here, chosen>>
    PROVE  Asked(chosen)' = Asked(chosen)
  BY DEF Asked

LEMMA ListsStep ==
    ASSUME ListingAssumption, ListsInv, PagesInv', [Next]_vars
    PROVE  QueryInv' /\ FirstInv'
<1> USE DEF vars, pageVars, listVars
<1>1. ASSUME NEW c \in Category \cup {Any}, OpenList(c)
      PROVE  QueryInv' /\ FirstInv'
  <2>1. Asked(chosen)' = [cat |-> c, priced |-> FALSE]
    BY <1>1 DEF OpenList, Asked, Normal
  <2>2. /\ lastLen' = 0
        /\ asks' = asks \cup
             {[of |-> [cat |-> c, priced |-> FALSE], page |-> 1, then |-> "list"]}
    BY <1>1 DEF OpenList, Ask
  <2>3. makeEmpty
    BY <1>1 DEF OpenList
  <2> QED
    BY <2>1, <2>2, <2>3, FreshList
<1>2. CASE Leave
  <2>1. /\ UNCHANGED <<here, chosen, list, lastLen, strays, picked, lost>>
        /\ Pop(asks) /\ asks \in SUBSET asks
    BY <1>2 DEF Leave
  <2>2. /\ route' \in {"list", "filter"} => route \in {"list", "filter"}
        /\ \A r \in asks' : \E s \in asks : r.of = s.of /\ r.page = s.page
        /\ \A s \in asks : \E r \in asks' : r.of = s.of /\ r.page = s.page
    BY <2>1, PopLeaves DEF ListsInv, PagesInv
  <2>3. Settled' => Settled /\ Asked(chosen)' = Asked(chosen)
    BY <2>1, <2>2, SameAsked DEF Settled
  <2> QED
    BY <2>1, <2>2, <2>3, SameList
<1>3. CASE TransitionEnds
  <2>1. /\ UNCHANGED <<route, here, chosen, list, lastLen, strays, picked, lost>>
        /\ asks' = {IF r.then = "leaving" THEN [r EXCEPT !.then = "nobody"]
                    ELSE r : r \in asks}
    BY <1>3 DEF TransitionEnds
  <2>2. /\ \A r \in asks' : \E s \in asks : r.of = s.of /\ r.page = s.page
        /\ \A s \in asks : \E r \in asks' : r.of = s.of /\ r.page = s.page
    <3> DEFINE M(r) == IF r.then = "leaving" THEN [r EXCEPT !.then = "nobody"] ELSE r
    <3>1. ASSUME NEW r \in asks
          PROVE  M(r).of = r.of /\ M(r).page = r.page
      BY DEF ListsInv, PagesInv, ListingTypeOK, Request, Waiter
    <3>2. asks' = {M(r) : r \in asks}
      BY <2>1
    <3> HIDE DEF M
    <3> QED
      BY <3>1, <3>2
  <2>3. Settled' => Settled /\ Asked(chosen)' = Asked(chosen)
    BY <2>1, SameAsked DEF Settled
  <2>4. asks \in SUBSET asks
    OBVIOUS
  <2> QED
    BY <2>1, <2>2, <2>3, <2>4, SameList
<1>4. CASE Scroll
  <2> DEFINE q == [of |-> Asked(chosen), page |-> NextIndex, then |-> "nobody"]
  <2>1. /\ asks' = asks \cup {q} /\ lastLen' = 0 /\ route = "list"
        /\ UNCHANGED <<route, here, chosen, list, strays, picked, lost>>
    BY <1>4 DEF Scroll, Ask
  <2>2. q.of = Asked(chosen) /\ q.page = NextIndex
    OBVIOUS
  <2>3. q.page = 1 \/ (q.page = 2 /\ lastLen > 0)
    <3>1. lastLen \in 0..PageSize /\ lastLen % PageSize = 0
      BY <1>4 DEF Scroll, ListsInv, PagesInv, ListingTypeOK
    <3> QED
      BY <2>2, <3>1, NextIndexIs
  <2> HIDE DEF q
  <2>4. Asked(chosen)' = Asked(chosen) /\ First' = First /\ (Settled' <=> Settled)
    BY <2>1, SameAsked DEF First, Settled
  <2>5. QueryInv'
    BY <2>1, <2>2, <2>4 DEF ListsInv, QueryInv, Own
  <2>6. ASSUME Settled', strays' = {}
        PROVE  \A r \in asks' : r.page = 2 => First' \in list'
    BY <2>1, <2>3, <2>4, <2>6 DEF ListsInv, FirstInv
  <2>7. FirstInv'
    BY <2>1, <2>4, <2>6 DEF ListsInv, FirstInv
  <2> QED
    BY <2>5, <2>7
<1>5. CASE OpenFilter \/ UNCHANGED vars
  <2>1. /\ UNCHANGED <<here, chosen, list, lastLen, asks, strays, picked, lost>>
        /\ route' \in {"list", "filter"} => route \in {"list", "filter"}
    BY <1>5 DEF OpenFilter
  <2>2. Settled' => Settled /\ Asked(chosen)' = Asked(chosen)
    BY <2>1, SameAsked DEF Settled
  <2>3. asks \in SUBSET asks
    OBVIOUS
  <2> QED
    BY <2>1, <2>2, <2>3, SameList
<1>6. ASSUME NEW c \in Category, PickCategory(c)
      PROVE  QueryInv' /\ FirstInv'
  BY <1>6 DEF PickCategory, QueryInv, FirstInv, Settled
<1>7. ASSUME NEW range \in BOOLEAN, Apply(range)
      PROVE  QueryInv' /\ FirstInv'
  <2>1. Asked(chosen)' = chosen'
    BY <1>7 DEF Apply, Asked, ListsInv, PagesInv
  <2>2. /\ lastLen' = 0
        /\ asks' = asks \cup {[of |-> chosen', page |-> 1, then |-> "filter"]}
    BY <1>7 DEF Apply, Ask
  <2>3. makeEmpty
    BY <1>7 DEF Apply
  <2> QED
    BY <2>1, <2>2, <2>3, FreshList
<1>8. ASSUME NEW r \in asks, Answered(r)
      PROVE  QueryInv' /\ FirstInv'
  <2>1. /\ UNCHANGED <<here, chosen, strays, picked, lost>>
        /\ Fill(r) /\ lastLen' = PageLen(r.of, r.page)
    BY <1>8 DEF Answered
  <2>2. /\ route' \in {"list", "filter"} => route \in {"list", "filter"}
        /\ \A t \in asks' : \E s \in asks \ {r} : t.of = s.of /\ t.page = s.page
        /\ \A s \in asks \ {r} : \E t \in asks' : t.of = s.of /\ t.page = s.page
    <3>1. CASE r.then \in {"filter", "leaving"}
      <4>1. asks \ {r} \in SUBSET asks /\ Pop(asks \ {r})
        BY <1>8, <3>1 DEF Answered
      <4> QED
        BY <4>1, PopLeaves DEF ListsInv, PagesInv
    <3>2. CASE r.then \notin {"filter", "leaving"}
      BY <1>8, <3>2 DEF Answered
    <3> QED
      BY <3>1, <3>2
  <2>3. Settled' => Settled /\ Asked(chosen)' = Asked(chosen)
    BY <2>1, <2>2, SameAsked DEF Settled
  <2> QED
    BY <2>1, <2>2, <2>3, FilledList
<1>9. ASSUME NEW r \in asks, Throws(r)
      PROVE  QueryInv' /\ FirstInv'
  <2>1. /\ UNCHANGED <<route, here, chosen, list, lastLen, strays, picked>>
        /\ asks' = asks \ {r} /\ lost \subseteq lost'
        /\ r.page = 1 => lost' # {}
    BY <1>9 DEF Throws
  <2>2. Settled' => Settled /\ Asked(chosen)' = Asked(chosen)
    BY <2>1, SameAsked DEF Settled
  <2>3. asks \ {r} \in SUBSET asks
    OBVIOUS
  <2> QED
    BY <2>1, <2>2, <2>3, SameList
<1>10. CASE Restart
  BY <1>10 DEF Restart, QueryInv, FirstInv, Settled
<1> QED
  BY <1>1, <1>2, <1>3, <1>4, <1>5, <1>6, <1>7, <1>8, <1>9, <1>10 DEF Next

LEMMA ListSpinners ==
    ASSUME PagesInv, SpinnersEnd, [Next]_vars
    PROVE  SpinnersEnd'
<1> USE DEF SpinnersEnd, vars, pageVars, listVars
<1>1. ASSUME NEW c \in Category \cup {Any}, OpenList(c)
      PROVE  SpinnersEnd'
  <2> DEFINE q == [of |-> [cat |-> c, priced |-> FALSE], page |-> 1,
                   then |-> "list"]
  <2>1. q \in asks' /\ route' = "list"
    BY <1>1 DEF OpenList, Ask
  <2>2. q.then = "list"
    OBVIOUS
  <2> QED
    BY <2>1, <2>2
<1>2. ASSUME NEW open \in SUBSET asks, Pop(open), UNCHANGED lost,
             load' => load /\ \A r \in asks \ open : r.then # "list",
             busy' => busy /\ \A r \in asks \ open : r.then # "filter"
      PROVE  SpinnersEnd'
  <2>1. /\ (route = "filter" /\ route' = "list") \/ route' \in {"away", "blank"}
        /\ \A s \in open : \E r \in asks' :
             s.then # route => r.then = s.then
    BY <1>2, PopLeaves DEF PagesInv
  <2> QED
    BY <1>2, <2>1
<1>3. CASE Leave
  BY <1>2, <1>3 DEF Leave
<1>4. CASE TransitionEnds
  BY <1>4 DEF TransitionEnds
<1>5. CASE Scroll
  BY <1>5 DEF Scroll, Ask
<1>6. CASE OpenFilter \/ UNCHANGED vars
  BY <1>6 DEF OpenFilter
<1>7. ASSUME NEW c \in Category, PickCategory(c)
      PROVE  SpinnersEnd'
  BY <1>7 DEF PickCategory
<1>8. ASSUME NEW range \in BOOLEAN, Apply(range)
      PROVE  SpinnersEnd'
  <2> DEFINE q == [of |-> chosen', page |-> 1, then |-> "filter"]
  <2>1. /\ asks' = asks \cup {q} /\ UNCHANGED <<route, load, lost>>
        /\ route = "filter"
    BY <1>8 DEF Apply, Ask
  <2>2. q.then = "filter"
    OBVIOUS
  <2> HIDE DEF q
  <2> QED
    BY <2>1, <2>2
<1>9. ASSUME NEW r \in asks, Answered(r)
      PROVE  SpinnersEnd'
  <2>1. /\ load' = (load /\ r.then # "list") /\ busy' = (busy /\ r.then # "filter")
        /\ UNCHANGED lost
    BY <1>9 DEF Answered
  <2>2. CASE r.then \in {"filter", "leaving"}
    <3>1. asks \ {r} \in SUBSET asks /\ Pop(asks \ {r})
      BY <1>9, <2>2 DEF Answered
    <3> QED
      BY <1>2, <2>1, <3>1
  <2>3. CASE r.then \notin {"filter", "leaving"}
    <3>1. asks' = asks \ {r} /\ route' = route
      BY <1>9, <2>3 DEF Answered
    <3> QED
      BY <2>1, <3>1
  <2> QED
    BY <2>2, <2>3
<1>10. ASSUME NEW r \in asks, Throws(r)
       PROVE  SpinnersEnd'
  BY <1>10 DEF Throws, PagesInv, ListingTypeOK, Request
<1>11. CASE Restart
  BY <1>11 DEF Restart
<1> QED
  BY <1>1, <1>3, <1>4, <1>5, <1>6, <1>7, <1>8, <1>9, <1>10, <1>11 DEF Next

LEMMA ListsStart ==
    ASSUME ListingAssumption, Init
    PROVE  ListsInv
<1>1. Normal \in Query
  BY DEF Normal, Query
<1>2. PagesInv
  <2>1. 0 \in 0..PageSize
    BY DEF ListingAssumption
  <2> QED
    BY <1>1, <2>1 DEF PagesInv, ListingTypeOK, Init
<1>3. QueryInv /\ FirstInv /\ SpinnersEnd
  BY DEF QueryInv, FirstInv, SpinnersEnd, Settled, Init
<1> QED
  BY <1>2, <1>3 DEF ListsInv

LEMMA ListsKept ==
    ASSUME ListingAssumption, ListsInv, [Next]_vars
    PROVE  ListsInv'
<1>1. PagesInv' /\ SpinnersEnd'
  BY PagesTyped, ListSpinners DEF ListsInv
<1> QED
  BY <1>1, ListsStep DEF ListsInv

\* What the two say of the properties.
LEMMA ListsShow ==
    ASSUME ListsInv
    PROVE  ListingTypeOK /\ ListOfQuery /\ NothingMissing /\ SpinnersEnd
<1>1. ListOfQuery
  BY DEF ListsInv, QueryInv, ListOfQuery, Settled, Own
<1>2. NothingHidden
  BY DEF ListsInv, FirstInv, NothingHidden, Settled, First
<1>3. ASSUME Settled, strays = {}, NEW c \in list, c.page = 2
      PROVE  [c EXCEPT !.page = 1] \in list
  <2>1. First \in list /\ c.of = Asked(chosen)
    BY <1>3 DEF ListsInv, FirstInv, QueryInv, Own
  <2>2. c \in [of : Query, page : {1, 2}]
    BY DEF ListsInv, PagesInv, ListingTypeOK
  <2>3. [c EXCEPT !.page = 1] = First
    BY <2>1, <2>2 DEF First
  <2> QED
    BY <2>1, <2>3
<1>4. FirstPageFirst
  BY <1>3 DEF FirstPageFirst, Settled
<1> QED
  BY <1>1, <1>2, <1>4 DEF ListsInv, PagesInv, NothingMissing

-----------------------------------------------------------------------------
(***************************************************************************)
(* Shelves: pages and lengths                                              *)
(***************************************************************************)

\* What a whole number of pages is, and the pages that fit into a length.
LEMMA WholePages ==
    ASSUME NEW p \in Nat \ {0}, NEW n \in Nat
    PROVE  /\ (n * p) % p = 0 /\ n * p \in Nat
           /\ (n \div p) * p <= n /\ n \div p \in Nat
           /\ (n - 1) * p = n * p - p
<1>1. n * p \in Nat /\ (n - 1) * p = n * p - p
  OBVIOUS
<1>2. (n \div p) * p <= n /\ n \div p \in Nat
  OBVIOUS
<1>3. (n * p) % p = 0
  OBVIOUS
<1> QED
  BY <1>1, <1>2, <1>3

\* The entries of a page are consecutive.
LEMMA PageOfIs ==
    ASSUME S!ShelvesAssumption, NEW n \in Nat \ {0}, NEW total \in Nat,
           NEW page, page = S!PageOf(n, total)
    PROVE  LET first == (n - 1) * PageSize
               last == IF n * PageSize < total THEN n * PageSize ELSE total
           IN  /\ first \in Nat /\ last \in Nat /\ last <= total
               /\ page \in Seq(1..total)
               /\ Len(page) = IF last > first THEN last - first ELSE 0
               /\ \A k \in 1..Len(page) : page[k] = first + k
<1> DEFINE first == (n - 1) * PageSize
           x == n * PageSize
           last == IF x < total THEN x ELSE total
           len == IF last > first THEN last - first ELSE 0
<1>1. first \in Nat /\ x \in Nat
  BY WholePages DEF S!ShelvesAssumption
<1>2. page = [k \in 1..len |-> first + k]
  BY DEF S!PageOf
<1> HIDE DEF first, x
<1>3. last \in Nat /\ last <= total /\ len \in Nat
  BY <1>1
<1>4. \A k \in 1..len : first + k \in 1..total
  BY <1>1
<1>5. page \in Seq(1..total) /\ Len(page) = len
  BY <1>2, <1>3, <1>4
<1> HIDE DEF last, len
<1>6. \A k \in 1..Len(page) : page[k] = first + k
  BY <1>2, <1>5
<1> QED
  BY <1>1, <1>3, <1>5, <1>6 DEF first, x, last, len

\* Every set of numbers has a least one.
LEMMA LeastOf ==
    ASSUME NEW R, IsWellFoundedOn(R, Nat), \A m, n \in Nat : <<n, m>> \in R <=> n < m,
           NEW D \in SUBSET Nat, D # {}
    PROVE  \E m \in D : \A n \in D : m <= n
<1>1. PICK m \in D : \A n \in D : ~(<<n, m>> \in R)
  BY WFMin
<1>2. ASSUME NEW n \in D PROVE m <= n
  <2>1. m \in Nat /\ n \in Nat /\ ~(n < m)
    BY <1>1
  <2> QED
    BY ONLY <2>1
<1> QED
  BY <1>2

LEMMA LessThan == \A m, n \in Nat : <<n, m>> \in OpToRel(<, Nat) <=> n < m
  BY DEF OpToRel

LEMMA Least == \A D \in SUBSET Nat : D # {} => \E m \in D : \A n \in D : m <= n
<1> DEFINE R == OpToRel(<, Nat)
<1>1. IsWellFoundedOn(R, Nat) /\ \A m, n \in Nat : <<n, m>> \in R <=> n < m
  BY NatLessThanWellFounded, LessThan
<1> HIDE DEF R
<1> QED
  BY <1>1, LeastOf

\* The numbers from 1 to n, a list without gaps or repeats.
UpTo(n) == [k \in 1..n |-> k]
Larger(m, n) == IF m < n THEN n ELSE m

LEMMA UpToIs ==
    ASSUME NEW n \in Nat
    PROVE  /\ UpTo(n) \in Seq(Nat) /\ Len(UpTo(n)) = n
           /\ S!ToSet(UpTo(n)) = 1..n
           /\ Append(UpTo(n), n + 1) = UpTo(n + 1)
<1>1. UpTo(n) \in Seq(Nat) /\ Len(UpTo(n)) = n
  BY DEF UpTo
<1>2. S!ToSet(UpTo(n)) = 1..n
  BY DEF UpTo, S!ToSet
<1>3. Append(UpTo(n), n + 1) = UpTo(n + 1)
  BY <1>1 DEF UpTo
<1> QED
  BY <1>1, <1>2, <1>3

\* One step of retainWhere on a page, over what was kept before it.
Kept(page, old, f, k) ==
    IF k = 0 THEN old
    ELSE IF page[k] \in S!ToSet(f[k - 1]) THEN f[k - 1]
    ELSE Append(f[k - 1], page[k])

\* What is kept of a page whose entries go on from `first`, at most where the
\* list ends.
LEMMA KeptIs ==
    ASSUME NEW n \in Nat, NEW first \in 0..n, NEW page \in Seq(Nat),
           \A k \in 1..Len(page) : page[k] = first + k,
           NEW f, NEW k \in 1..Len(page), f[k - 1] = UpTo(Larger(n, first + (k - 1)))
    PROVE  Kept(page, UpTo(n), f, k) = UpTo(Larger(n, first + k))
<1> DEFINE m == Larger(n, first + (k - 1))
<1>1. m \in Nat /\ page[k] = first + k /\ Len(page) \in Nat /\ k \in Nat /\ k # 0
  BY DEF Larger
<1>2. S!ToSet(f[k - 1]) = 1..m
  BY <1>1, UpToIs
<1>3. CASE first + k <= n
  <2>1. m = n /\ Larger(n, first + k) = n /\ first + k \in 1..m
    BY <1>1, <1>3 DEF Larger
  <2> QED
    BY <1>1, <1>2, <2>1 DEF Kept
<1>4. CASE ~(first + k <= n)
  <2>1. m + 1 = first + k /\ Larger(n, first + k) = first + k /\ first + k \notin 1..m
    BY <1>1, <1>4 DEF Larger
  <2>2. Kept(page, UpTo(n), f, k) = Append(UpTo(m), m + 1)
    BY <1>1, <1>2, <2>1 DEF Kept
  <2> QED
    BY <1>1, <2>1, <2>2, UpToIs
<1> QED
  BY <1>3, <1>4

\* Collect: the list goes on to the end of the page, or stays as it is.
LEMMA CollectIs ==
    ASSUME NEW n \in Nat, NEW first \in 0..n, NEW page \in Seq(Nat),
           \A k \in 1..Len(page) : page[k] = first + k
    PROVE  S!Collect(UpTo(n), page) = UpTo(Larger(n, first + Len(page)))
<1> DEFINE L == Len(page)
           F(f) == [k \in 0..L |-> Kept(page, UpTo(n), f, k)]
           kept == CHOOSE f : f = F(f)
           G(k) == UpTo(Larger(n, first + k))
           g == [k \in 0..L |-> G(k)]
<1>1. S!Collect(UpTo(n), page) = kept[L]
  BY DEF S!Collect, Kept
<1>2. L \in Nat
  OBVIOUS
<1>3. G(0) = UpTo(n)
  BY DEF Larger
<1>4. ASSUME NEW f, NEW k \in 0..L, k = 0 \/ f[k - 1] = G(k - 1)
      PROVE  Kept(page, UpTo(n), f, k) = G(k)
  <2>1. CASE k = 0
    BY <1>3, <2>1 DEF Kept
  <2>2. CASE k # 0
    <3>1. k \in 1..L /\ f[k - 1] = G(k - 1)
      BY <1>2, <1>4, <2>2
    <3> QED
      BY <3>1, KeptIs
  <2> QED
    BY <2>1, <2>2
<1> HIDE DEF G
<1>5. g = F(g)
  <2>1. ASSUME NEW k \in 0..L
        PROVE  g[k] = Kept(page, UpTo(n), g, k)
    <3>1. k = 0 \/ g[k - 1] = G(k - 1)
      BY <1>2
    <3> HIDE DEF g
    <3>2. Kept(page, UpTo(n), g, k) = G(k)
      BY <1>4, <3>1
    <3> QED
      BY <3>2 DEF g
  <2> QED
    BY <2>1
<1>6. kept = F(kept)
  <2> HIDE DEF g, F
  <2> QED
    BY <1>5
<1> DEFINE D == {k \in 0..L : kept[k] # G(k)}
<1>7. D = {}
  <2>1. SUFFICES ASSUME D # {}
                 PROVE  FALSE
    OBVIOUS
  <2>2. D \in SUBSET Nat
    BY <1>2
  <2>3. PICK k \in D : \A m \in D : k <= m
    BY <2>1, <2>2, Least
  <2>4. k \in 0..L /\ kept[k] # G(k)
    OBVIOUS
  <2>5. k = 0 \/ kept[k - 1] = G(k - 1)
    <3>1. k # 0 => k - 1 \in 0..L /\ ~(k <= k - 1)
      BY <1>2, <2>4
    <3> QED
      BY <2>3, <3>1
  <2>6. kept[k] = Kept(page, UpTo(n), kept, k)
    <3> HIDE DEF kept
    <3> QED
      BY <1>6, <2>4
  <2> HIDE DEF kept, D, L
  <2> QED
    BY <1>4, <2>4, <2>5, <2>6
<1> HIDE DEF kept
<1> QED
  BY <1>1, <1>2, <1>7 DEF G

USE DEF S!homeVars, S!catVars, S!prodVars, S!vars

-----------------------------------------------------------------------------
(***************************************************************************)
(* The shelves of HOME                                                     *)
(***************************************************************************)

LEMMA ShelfBounds ==
    ASSUME S!ShelvesAssumption
    PROVE  /\ PageSize \in Nat \ {0} /\ Categories \in Nat /\ Products \in Nat
           /\ MaxShelfAsks \in Nat \ {0} /\ MaxList \in Nat
           /\ S!Pages \subseteq Nat \ {0} /\ 1 \in S!Pages
<1>1. PageSize \in Nat \ {0} /\ MaxList \in Nat
  BY DEF S!ShelvesAssumption
<1>2. MaxList \div PageSize \in Nat
  BY <1>1, WholePages
<1> DEFINE q == MaxList \div PageSize
<1>3. S!Pages = 1..(q + 1)
  BY DEF S!Pages
<1> HIDE DEF q
<1>4. q \in Nat
  BY <1>2 DEF q
<1>5. S!Pages \subseteq Nat \ {0} /\ 1 \in S!Pages
  BY <1>3, <1>4
<1> QED
  BY <1>5 DEF S!ShelvesAssumption

\* The types of everything but the lists.
FlagsInv ==
    /\ rates \in {"none", "asked", "done"}
    /\ mounted \in BOOLEAN /\ shelf \in BOOLEAN
    /\ shelfLost \subseteq {"categories", "products"}
    /\ categoryLoad \in BOOLEAN /\ productLoad \in BOOLEAN
    /\ catAsks \in [S!Pages -> 0..MaxShelfAsks]
    /\ productAsks \in [S!Pages -> 0..MaxShelfAsks]

ProductsInv ==
    /\ productsAll \in Seq(1..Products) /\ Len(productsAll) <= MaxList
    /\ newReleases \in Seq(1..Products)

\* What is under way begins where the categories end, or before.
CategoriesInv ==
    \E n \in 0..Categories :
        /\ categories = UpTo(n)
        /\ n % PageSize = 0 \/ n = Categories
        /\ \A m \in S!Pages : catAsks[m] > 0 => (m - 1) * PageSize <= n

\* Before the first answer only the first page is asked for, and it fills both
\* lists of products.
ReleasesInv ==
    /\ newReleases = <<>> => productsAll = <<>>
    /\ productsAll = <<>> => \A m \in S!Pages : productAsks[m] > 0 => m = 1
    /\ S!ReleasesOnce

\* The spinner of each shelf, by itself.
FlagInv ==
    /\ categories # <<>> /\ categoryLoad =>
          "categories" \in shelfLost \/ \E m \in S!Pages : catAsks[m] > 0
    /\ productsAll # <<>> /\ productLoad =>
          "products" \in shelfLost \/ \E m \in S!Pages : productAsks[m] > 0

ShelvesInv == FlagsInv /\ ProductsInv /\ CategoriesInv /\ ReleasesInv /\ FlagInv

-----------------------------------------------------------------------------
\* The counters of what is under way.
LEMMA Counted ==
    ASSUME S!ShelvesAssumption, NEW a \in [S!Pages -> 0..MaxShelfAsks],
           NEW n \in S!Pages
    PROVE  /\ a[n] < MaxShelfAsks =>
                /\ [a EXCEPT ![n] = @ + 1] \in [S!Pages -> 0..MaxShelfAsks]
                /\ [a EXCEPT ![n] = @ + 1][n] > 0
                /\ \A m \in S!Pages : m # n => [a EXCEPT ![n] = @ + 1][m] = a[m]
           /\ a[n] > 0 =>
                /\ [a EXCEPT ![n] = @ - 1] \in [S!Pages -> 0..MaxShelfAsks]
                /\ \A m \in S!Pages : [a EXCEPT ![n] = @ - 1][m] <= a[m]
  BY ShelfBounds

\* The next page begins where the list ends, or before it.
LEMMA NextPageIs ==
    ASSUME S!ShelvesAssumption, NEW n \in Nat, NEW l, Len(l) = n
    PROVE  /\ S!NextPage(l) \in Nat \ {0}
           /\ (S!NextPage(l) - 1) * PageSize <= n
           /\ n = 0 => S!NextPage(l) = 1
<1>1. PageSize \in Nat \ {0}
  BY ShelfBounds
<1> DEFINE q == n \div PageSize
<1>2. q * PageSize <= n /\ q \in Nat
  BY <1>1, WholePages
<1>3. n = 0 => q = 0
  BY <1>1, SMT
<1>4. S!NextPage(l) = q + 1
  BY DEF S!NextPage
<1> HIDE DEF q
<1>5. (q + 1) - 1 = q
  BY <1>2
<1> QED
  BY <1>2, <1>3, <1>4, <1>5

\* getCategory asked for: one more page under way.
LEMMA AskCategoriesKeeps ==
    ASSUME S!ShelvesAssumption, ShelvesInv, NEW p \in S!Pages,
           S!AskCategories(p), UNCHANGED shelfLost,
           p = 1 \/ p = S!NextPage(categories)
    PROVE  /\ catAsks' \in [S!Pages -> 0..MaxShelfAsks] /\ categoryLoad' \in BOOLEAN
           /\ CategoriesInv'
           /\ \E m \in S!Pages : catAsks'[m] > 0
<1>1. /\ catAsks[p] < MaxShelfAsks /\ categories' = categories
      /\ catAsks' = [catAsks EXCEPT ![p] = @ + 1] /\ categoryLoad' \in BOOLEAN
  BY DEF S!AskCategories
<1>2. /\ catAsks' \in [S!Pages -> 0..MaxShelfAsks] /\ catAsks'[p] > 0
      /\ \A m \in S!Pages : m # p => catAsks'[m] = catAsks[m]
  BY <1>1, Counted DEF ShelvesInv, FlagsInv
<1>3. PICK n \in 0..Categories :
         /\ categories = UpTo(n)
         /\ n % PageSize = 0 \/ n = Categories
         /\ \A m \in S!Pages : catAsks[m] > 0 => (m - 1) * PageSize <= n
  BY DEF ShelvesInv, CategoriesInv
<1>4. n \in Nat /\ Len(categories) = n
  BY <1>3, ShelfBounds, UpToIs
<1>5. (p - 1) * PageSize <= n
  <2>1. (1 - 1) * PageSize = 0 /\ 0 <= n
    BY <1>4, ShelfBounds
  <2> QED
    BY <1>4, <2>1, NextPageIs
<1>6. \A m \in S!Pages : catAsks'[m] > 0 => (m - 1) * PageSize <= n
  BY <1>2, <1>3, <1>5
<1>7. CategoriesInv'
  BY <1>1, <1>3, <1>6 DEF CategoriesInv
<1> QED
  BY <1>1, <1>2, <1>7

\* getAllProducts asked for.
LEMMA AskProductsKeeps ==
    ASSUME S!ShelvesAssumption, ShelvesInv, NEW p \in S!Pages, S!AskProducts(p),
           p = 1 \/ p = S!NextPage(productsAll)
    PROVE  /\ productAsks' \in [S!Pages -> 0..MaxShelfAsks]
           /\ productLoad' \in BOOLEAN /\ ProductsInv' /\ ReleasesInv'
           /\ \E m \in S!Pages : productAsks'[m] > 0
<1>1. /\ productAsks[p] < MaxShelfAsks /\ UNCHANGED <<productsAll, newReleases>>
      /\ productAsks' = [productAsks EXCEPT ![p] = @ + 1] /\ productLoad' \in BOOLEAN
  BY DEF S!AskProducts
<1>2. /\ productAsks' \in [S!Pages -> 0..MaxShelfAsks] /\ productAsks'[p] > 0
      /\ \A m \in S!Pages : m # p => productAsks'[m] = productAsks[m]
  BY <1>1, Counted DEF ShelvesInv, FlagsInv
<1>3. productsAll = <<>> => p = 1
  <2>1. Len(<<>>) = 0
    OBVIOUS
  <2> QED
    BY <2>1, NextPageIs
<1>4. ReleasesInv'
  BY <1>1, <1>2, <1>3 DEF ShelvesInv, ReleasesInv, S!ReleasesOnce
<1>5. ProductsInv'
  BY <1>1 DEF ShelvesInv, ProductsInv
<1> QED
  BY <1>1, <1>2, <1>4, <1>5

\* A page of categories, whichever of those under way: the list goes on to its
\* end, which is a whole number of pages or all there are.
LEMMA CollectKeeps ==
    ASSUME S!ShelvesAssumption, ShelvesInv, NEW p \in S!Pages, catAsks[p] > 0,
           catAsks' \in [S!Pages -> 0..MaxShelfAsks],
           \A m \in S!Pages : catAsks'[m] <= catAsks[m],
           categories' = S!Collect(categories, S!PageOf(p, Categories))
    PROVE  CategoriesInv'
<1>1. PICK n \in 0..Categories :
         /\ categories = UpTo(n)
         /\ n % PageSize = 0 \/ n = Categories
         /\ \A m \in S!Pages : catAsks[m] > 0 => (m - 1) * PageSize <= n
  BY DEF ShelvesInv, CategoriesInv
<1> DEFINE page == S!PageOf(p, Categories)
           first == (p - 1) * PageSize
           x == p * PageSize
           last == IF x < Categories THEN x ELSE Categories
           len == Len(page)
<1>2. /\ p \in Nat \ {0} /\ Categories \in Nat /\ n \in Nat /\ n <= Categories
      /\ PageSize \in Nat \ {0}
  BY <1>1, ShelfBounds
<1>3. /\ first \in Nat /\ last \in Nat /\ last <= Categories
      /\ page \in Seq(1..Categories) /\ len = IF last > first THEN last - first ELSE 0
      /\ \A k \in 1..len : page[k] = first + k
  BY <1>2, PageOfIs
<1>4. x % PageSize = 0 /\ x \in Nat
  BY <1>2, WholePages
<1>5. first <= n
  BY <1>1
<1>6. categories' = S!Collect(UpTo(n), page)
  BY <1>1
<1> HIDE DEF page, first, x
<1>7. categories' = UpTo(Larger(n, first + len))
  <2>1. page \in Seq(Nat)
    BY <1>2, <1>3
  <2>2. first \in 0..n
    BY <1>2, <1>3, <1>5
  <2> QED
    BY <1>2, <1>3, <1>6, <2>1, <2>2, CollectIs
<1> DEFINE n1 == Larger(n, first + len)
<1>8. /\ n1 \in 0..Categories /\ n <= n1
      /\ n1 = n \/ n1 = last
  <2> HIDE DEF last
  <2> QED
    BY <1>2, <1>3, <1>5 DEF Larger
<1>9. n1 % PageSize = 0 \/ n1 = Categories
  BY <1>1, <1>4, <1>8
<1>10. ASSUME NEW m \in S!Pages, catAsks'[m] > 0
       PROVE  (m - 1) * PageSize <= n1
  <2>1. /\ catAsks[m] \in Int /\ catAsks'[m] \in Int
        /\ m \in Nat /\ PageSize \in Nat
    BY <1>2, ShelfBounds DEF ShelvesInv, FlagsInv
  <2>2. catAsks[m] > 0
    BY <1>10, <2>1
  <2> DEFINE y == (m - 1) * PageSize
  <2>3. y <= n /\ y \in Int
    BY <1>1, <2>1, <2>2
  <2> HIDE DEF y, n1
  <2>4. y <= n1
    BY <1>2, <1>8, <2>3
  <2> QED
    BY <2>4 DEF y
<1> HIDE DEF n1
<1> QED
  BY <1>7, <1>8, <1>9, <1>10 DEF CategoriesInv, n1

\* A page of products fills productsAll, and newReleases if that was empty.
LEMMA FillKeeps ==
    ASSUME S!ShelvesAssumption, ShelvesInv, NEW p \in S!Pages,
           S!ProductsAnswered(p)
    PROVE  ProductsInv' /\ ReleasesInv'
<1> DEFINE page == S!PageOf(p, Products)
<1>1. /\ productAsks[p] > 0 /\ Len(productsAll \o page) <= MaxList
      /\ productAsks' = [productAsks EXCEPT ![p] = @ - 1]
      /\ productsAll' = productsAll \o page
      /\ newReleases' = IF newReleases = <<>> THEN productsAll' ELSE newReleases
  BY DEF S!ProductsAnswered
<1>2. page \in Seq(1..Products)
  BY PageOfIs, ShelfBounds
<1>3. \A m \in S!Pages : productAsks'[m] <= productAsks[m]
  BY <1>1, Counted DEF ShelvesInv, FlagsInv
<1>4. ProductsInv'
  <2>1. /\ productsAll \in Seq(1..Products) /\ newReleases \in Seq(1..Products)
        /\ Len(productsAll) <= MaxList
    BY DEF ShelvesInv, ProductsInv
  <2> HIDE DEF page
  <2>2. productsAll \o page \in Seq(1..Products)
    BY <1>2, <2>1
  <2> QED
    BY <1>1, <2>1, <2>2 DEF ProductsInv
<1>5. productsAll = <<>> => p = 1 /\ productsAll' = page
  BY <1>1, <1>2 DEF ShelvesInv, ReleasesInv
<1>6. S!ReleasesOnce'
  <2>1. CASE newReleases = <<>>
    <3>1. newReleases' = page /\ p = 1
      BY <1>1, <1>5, <2>1 DEF ShelvesInv, ReleasesInv
    <3> QED
      BY <3>1 DEF S!ReleasesOnce
  <2>2. CASE newReleases # <<>>
    BY <1>1, <2>2 DEF ShelvesInv, ReleasesInv, S!ReleasesOnce
  <2> QED
    BY <2>1, <2>2
<1>7. newReleases' = <<>> => productsAll' = <<>>
  BY <1>1
<1>8. productsAll' = <<>> => productsAll = <<>>
  <2>1. productsAll \in Seq(1..Products)
    BY DEF ShelvesInv, ProductsInv
  <2> HIDE DEF page
  <2>2. Len(productsAll \o page) = Len(productsAll) + Len(page)
    BY <1>2, <2>1
  <2>3. Len(productsAll) \in Nat /\ Len(page) \in Nat
    BY <1>2, <2>1
  <2>4. Len(<<>>) = 0
    OBVIOUS
  <2>5. productsAll' = <<>> => Len(productsAll) = 0
    BY <1>1, <2>2, <2>3, <2>4
  <2> QED
    BY <2>1, <2>5
<1>9. ASSUME productsAll' = <<>>, NEW m \in S!Pages, productAsks'[m] > 0
      PROVE  m = 1
  <2>1. productAsks[m] \in Int /\ productAsks'[m] \in Int
    BY <1>1, Counted DEF ShelvesInv, FlagsInv
  <2>2. productAsks[m] > 0
    BY <1>3, <1>9, <2>1
  <2> QED
    BY <1>8, <1>9, <2>2 DEF ShelvesInv, ReleasesInv
<1> QED
  BY <1>4, <1>6, <1>7, <1>9 DEF ReleasesInv

LEMMA ShelvesStart ==
    ASSUME S!ShelvesAssumption, S!Init
    PROVE  ShelvesInv
<1>1. 0 \in 0..MaxShelfAsks /\ 0 \in 0..Categories /\ MaxList \in Nat
      /\ PageSize \in Nat \ {0}
  BY ShelfBounds
<1>2. /\ catAsks \in [S!Pages -> 0..MaxShelfAsks]
      /\ productAsks \in [S!Pages -> 0..MaxShelfAsks]
      /\ \A m \in S!Pages : catAsks[m] = 0 /\ productAsks[m] = 0
  BY <1>1 DEF S!Init, S!NoAsks
<1>3. FlagsInv
  BY <1>2 DEF FlagsInv, S!Init
<1>4. ProductsInv
  BY <1>1 DEF ProductsInv, S!Init
<1>5. CategoriesInv
  <2>1. categories = UpTo(0) /\ 0 % PageSize = 0
    BY <1>1 DEF S!Init, UpTo
  <2> QED
    BY <1>1, <1>2, <2>1 DEF CategoriesInv
<1>6. ReleasesInv /\ FlagInv
  BY <1>2 DEF ReleasesInv, S!ReleasesOnce, FlagInv, S!Init
<1> QED
  BY <1>3, <1>4, <1>5, <1>6 DEF ShelvesInv

\* Steps that ask for nothing and are answered nothing.
LEMMA ShelvesRest ==
    ASSUME ShelvesInv, UNCHANGED <<S!catVars, S!prodVars, shelfLost>>,
           rates' \in {"none", "asked", "done"}, mounted' \in BOOLEAN,
           shelf' \in BOOLEAN
    PROVE  ShelvesInv'
  BY DEF ShelvesInv, FlagsInv, ProductsInv, CategoriesInv, ReleasesInv, FlagInv,
         S!ReleasesOnce

LEMMA ShelvesKept ==
    ASSUME S!ShelvesAssumption, ShelvesInv, [S!Next]_(S!vars)
    PROVE  ShelvesInv'
<1>0. 1 \in S!Pages
  BY ShelfBounds
<1>1. CASE S!OpenHome \/ S!LeaveHome \/ S!RatesFail \/ S!ShelfDisappears
  BY <1>1, ShelvesRest DEF S!OpenHome, S!LeaveHome, S!RatesFail,
     S!ShelfDisappears, ShelvesInv, FlagsInv
<1>2. CASE UNCHANGED S!vars
  BY <1>2, ShelvesRest DEF ShelvesInv, FlagsInv
<1>3. CASE S!RatesAnswered \/ S!ShelfAppears
  <2>1. /\ S!AskCategories(1) /\ S!AskProducts(1) /\ UNCHANGED shelfLost
        /\ rates' \in {"none", "asked", "done"} /\ mounted' \in BOOLEAN
        /\ shelf' \in BOOLEAN
    BY <1>3 DEF S!RatesAnswered, S!ShelfAppears, ShelvesInv, FlagsInv
  <2>2. /\ catAsks' \in [S!Pages -> 0..MaxShelfAsks] /\ categoryLoad' \in BOOLEAN
        /\ CategoriesInv' /\ \E m \in S!Pages : catAsks'[m] > 0
    BY <1>0, <2>1, AskCategoriesKeeps
  <2>3. /\ productAsks' \in [S!Pages -> 0..MaxShelfAsks]
        /\ productLoad' \in BOOLEAN /\ ProductsInv' /\ ReleasesInv'
        /\ \E m \in S!Pages : productAsks'[m] > 0
    BY <1>0, <2>1, AskProductsKeeps
  <2>4. FlagsInv'
    BY <2>1, <2>2, <2>3 DEF FlagsInv, ShelvesInv
  <2>5. FlagInv'
    BY <2>2, <2>3 DEF FlagInv
  <2> QED
    BY <2>2, <2>3, <2>4, <2>5 DEF ShelvesInv
<1>4. CASE S!ScrollCategories
  <2> DEFINE p == S!NextPage(categories)
  <2>1. /\ p \in S!Pages /\ S!AskCategories(p)
        /\ UNCHANGED <<S!homeVars, S!prodVars, shelfLost>>
    BY <1>4 DEF S!ScrollCategories
  <2>2. /\ catAsks' \in [S!Pages -> 0..MaxShelfAsks] /\ categoryLoad' \in BOOLEAN
        /\ CategoriesInv' /\ \E m \in S!Pages : catAsks'[m] > 0
    BY <2>1, AskCategoriesKeeps
  <2>3. FlagsInv' /\ ProductsInv' /\ ReleasesInv' /\ FlagInv'
    BY <2>1, <2>2 DEF FlagsInv, ProductsInv, ReleasesInv, S!ReleasesOnce, FlagInv,
       ShelvesInv
  <2> QED
    BY <2>2, <2>3 DEF ShelvesInv
<1>5. CASE S!ScrollProducts
  <2> DEFINE p == S!NextPage(productsAll)
  <2>1. /\ p \in S!Pages /\ S!AskProducts(p)
        /\ UNCHANGED <<S!homeVars, S!catVars, shelfLost>>
    BY <1>5 DEF S!ScrollProducts
  <2>2. /\ productAsks' \in [S!Pages -> 0..MaxShelfAsks]
        /\ productLoad' \in BOOLEAN /\ ProductsInv' /\ ReleasesInv'
        /\ \E m \in S!Pages : productAsks'[m] > 0
    BY <2>1, AskProductsKeeps
  <2>3. FlagsInv' /\ CategoriesInv' /\ FlagInv'
    BY <2>1, <2>2 DEF FlagsInv, CategoriesInv, FlagInv, ShelvesInv
  <2> QED
    BY <2>2, <2>3 DEF ShelvesInv
<1>6. ASSUME NEW p \in S!Pages,
             S!CategoriesAnswered(p) \/ S!CategoriesThrow(p)
      PROVE  ShelvesInv'
  <2>1. /\ catAsks[p] > 0 /\ catAsks' = [catAsks EXCEPT ![p] = @ - 1]
        /\ UNCHANGED <<S!homeVars, S!prodVars>>
        /\ categoryLoad' \in BOOLEAN /\ shelfLost' \subseteq {"categories", "products"}
    BY <1>6 DEF S!CategoriesAnswered, S!CategoriesThrow, ShelvesInv, FlagsInv
  <2>2. /\ catAsks' \in [S!Pages -> 0..MaxShelfAsks]
        /\ \A m \in S!Pages : catAsks'[m] <= catAsks[m]
    BY <2>1, Counted DEF ShelvesInv, FlagsInv
  <2>3. FlagsInv' /\ ProductsInv' /\ ReleasesInv'
    BY <2>1, <2>2 DEF FlagsInv, ProductsInv, ReleasesInv, S!ReleasesOnce, ShelvesInv
  <2>4. FlagInv'
    <3>1. /\ "categories" \in shelfLost' \/ categoryLoad' = FALSE
          /\ "products" \in shelfLost => "products" \in shelfLost'
      BY <1>6 DEF S!CategoriesAnswered, S!CategoriesThrow
    <3> QED
      BY <2>1, <3>1 DEF FlagInv, ShelvesInv
  <2>5. CategoriesInv'
    <3>1. CASE S!CategoriesAnswered(p)
      <4>1. categories' = S!Collect(categories, S!PageOf(p, Categories))
        BY <3>1 DEF S!CategoriesAnswered
      <4> QED
        BY <2>1, <2>2, <4>1, CollectKeeps
    <3>2. CASE S!CategoriesThrow(p)
      <4>1. categories' = categories
        BY <3>2 DEF S!CategoriesThrow
      <4>2. ASSUME NEW m \in S!Pages, catAsks'[m] > 0
            PROVE  catAsks[m] > 0
        <5>1. catAsks[m] \in Int /\ catAsks'[m] \in Int
          BY <2>2 DEF ShelvesInv, FlagsInv
        <5> QED
          BY <2>2, <4>2, <5>1
      <4> QED
        BY <4>1, <4>2 DEF CategoriesInv, ShelvesInv
    <3> QED
      BY <1>6, <3>1, <3>2
  <2> QED
    BY <2>3, <2>4, <2>5 DEF ShelvesInv
<1>7. ASSUME NEW p \in S!Pages, S!ProductsAnswered(p) \/ S!ProductsThrow(p)
      PROVE  ShelvesInv'
  <2>1. /\ productAsks[p] > 0 /\ productAsks' = [productAsks EXCEPT ![p] = @ - 1]
        /\ UNCHANGED <<S!homeVars, S!catVars>>
        /\ productLoad' \in BOOLEAN /\ shelfLost' \subseteq {"categories", "products"}
    BY <1>7 DEF S!ProductsAnswered, S!ProductsThrow, ShelvesInv, FlagsInv
  <2>2. /\ productAsks' \in [S!Pages -> 0..MaxShelfAsks]
        /\ \A m \in S!Pages : productAsks'[m] <= productAsks[m]
    BY <2>1, Counted DEF ShelvesInv, FlagsInv
  <2>3. FlagsInv' /\ CategoriesInv'
    BY <2>1, <2>2 DEF FlagsInv, CategoriesInv, ShelvesInv
  <2>4. FlagInv'
    <3>1. /\ "products" \in shelfLost' \/ productLoad' = FALSE
          /\ "categories" \in shelfLost => "categories" \in shelfLost'
      BY <1>7 DEF S!ProductsAnswered, S!ProductsThrow
    <3> QED
      BY <2>1, <3>1 DEF FlagInv, ShelvesInv
  <2>5. ProductsInv' /\ ReleasesInv'
    <3>1. CASE S!ProductsAnswered(p)
      BY <3>1, FillKeeps
    <3>2. CASE S!ProductsThrow(p)
      <4>1. UNCHANGED <<productsAll, newReleases>>
        BY <3>2 DEF S!ProductsThrow
      <4>2. ASSUME NEW m \in S!Pages, productAsks'[m] > 0
            PROVE  productAsks[m] > 0
        <5>1. productAsks[m] \in Int /\ productAsks'[m] \in Int
          BY <2>2 DEF ShelvesInv, FlagsInv
        <5> QED
          BY <2>2, <4>2, <5>1
      <4> QED
        BY <4>1, <4>2 DEF ProductsInv, ReleasesInv, S!ReleasesOnce, ShelvesInv
    <3> QED
      BY <1>7, <3>1, <3>2
  <2> QED
    BY <2>3, <2>4, <2>5 DEF ShelvesInv
<1> QED
  BY <1>1, <1>2, <1>3, <1>4, <1>5, <1>6, <1>7 DEF S!Next, S!Answered

\* What it says of the properties.
LEMMA ShelvesShow ==
    ASSUME S!ShelvesAssumption, ShelvesInv
    PROVE  S!ShelvesTypeOK /\ ShelvesWhole /\ S!SpinnersEnd
<1>1. S!CategoriesWhole
  BY DEF ShelvesInv, CategoriesInv, S!CategoriesWhole, UpTo
<1>2. categories \in Seq(1..Categories)
  <2>1. PICK n \in 0..Categories : categories = UpTo(n)
    BY DEF ShelvesInv, CategoriesInv
  <2>2. n \in Nat /\ Categories \in Nat /\ n <= Categories
    BY <2>1, ShelfBounds
  <2> QED
    BY <2>1, <2>2 DEF UpTo
<1>3. S!ShelvesTypeOK
  BY <1>2 DEF ShelvesInv, FlagsInv, ProductsInv, S!ShelvesTypeOK
<1>4. S!SpinnersEnd
  BY DEF ShelvesInv, FlagInv, S!SpinnersEnd
<1> QED
  BY <1>1, <1>3, <1>4 DEF ShelvesInv, ReleasesInv, ShelvesWhole

-----------------------------------------------------------------------------
(***************************************************************************)
(* The theorems.  Each is stated of the component by itself, whatever else *)
(* happens, and of the two side by side, as TLC checks them.               *)
(***************************************************************************)

LEMMA ListsAlways == Spec => []ListsInv
<1>1. Init => ListsInv
  BY ListsStart, ListingAssumption
<1>2. ListsInv /\ [Next]_vars => ListsInv'
  BY ListsKept, ListingAssumption
<1> QED
  BY <1>1, <1>2, PTL DEF Spec

LEMMA ShelvesAlways == S!Spec => []ShelvesInv
<1>1. S!Init => ShelvesInv
  BY ShelvesStart, CatalogueAssumption
<1>2. ShelvesInv /\ [S!Next]_(S!vars) => ShelvesInv'
  BY ShelvesKept, CatalogueAssumption
<1> QED
  BY <1>1, <1>2, PTL DEF S!Spec

\* A step of one is a step of it and a stutter of the other.
LEMMA CatalogueSteps ==
    ASSUME [CatalogueNext]_<<part, vars, shelfVars>>
    PROVE  [Next]_vars /\ [S!Next]_(S!vars)
  BY DEF CatalogueNext, shelfVars, S!vars, S!homeVars, S!catVars, S!prodVars

LEMMA CatalogueAlways == CatalogueSpec => [](ListsInv /\ ShelvesInv)
<1>1. CatalogueInit => ListsInv /\ ShelvesInv
  BY ListsStart, ShelvesStart, ListingAssumption, CatalogueAssumption
     DEF CatalogueInit
<1>2. ListsInv /\ ShelvesInv /\ [CatalogueNext]_<<part, vars, shelfVars>>
        => (ListsInv /\ ShelvesInv)'
  BY CatalogueSteps, ListsKept, ShelvesKept, ListingAssumption, CatalogueAssumption
<1> QED
  BY <1>1, <1>2, PTL DEF CatalogueSpec

\* The types of both, with the index of a request: 1 or 2 for a product list,
\* since it is computed from the last page alone (product_list.dart:69).
THEOREM CatalogueTypes == CatalogueSpec => []CatalogueTypeOK
<1>1. ListsInv /\ ShelvesInv => CatalogueTypeOK
  BY ListsShow, ShelvesShow, CatalogueAssumption DEF CatalogueTypeOK
<1> QED
  BY <1>1, CatalogueAlways, PTL

\* A product list shows products of its query, whatever requests overtake each
\* other, up to what ListOfQuery names (filter, makeEmpty).
THEOREM ListsAreOfQuery ==
    /\ Spec => []ListOfQuery
    /\ CatalogueSpec => []ListOfQuery
<1>1. ListsInv => ListOfQuery
  BY ListsShow
<1> QED
  BY <1>1, ListsAlways, CatalogueAlways, PTL

\* While no category is picked and not applied: no second page without the
\* first, if no request of another query was under way when the list was last
\* emptied; and the first one there when all requests were answered, so that
\* "Empty" is true, if no request for a first page threw since the page was
\* opened (filter, the listener of ProductList).
THEOREM NothingIsMissing ==
    /\ Spec => []NothingMissing
    /\ CatalogueSpec => []NothingMissing
<1>1. ListsInv => NothingMissing
  BY ListsShow
<1> QED
  BY <1>1, ListsAlways, CatalogueAlways, PTL

\* The categories are the first ones of the shop, each once, for every number of
\* categories, every size of a page and every order of the answers; the latest
\* releases are one page (getCategory, getAllProducts).
THEOREM ShelvesStayWhole ==
    /\ S!Spec => []ShelvesWhole
    /\ CatalogueSpec => []ShelvesWhole
<1>1. ShelvesInv => ShelvesWhole
  BY ShelvesShow, CatalogueAssumption
<1> QED
  BY <1>1, ShelvesAlways, CatalogueAlways, PTL

\* A spinner is shown only while the answer that ends it is to come, or after a
\* request threw: for ProductList and Filter one that this page waited for, for a
\* shelf one of its own with no answer since (load of the pages; categoryLoad,
\* productLoad).
THEOREM SpinnersWait == CatalogueSpec => []CatalogueSpinners
<1>1. ListsInv /\ ShelvesInv => CatalogueSpinners
  BY ListsShow, ShelvesShow, CatalogueAssumption DEF CatalogueSpinners
<1> QED
  BY <1>1, CatalogueAlways, PTL

=============================================================================
