------------------------------- MODULE Listing -------------------------------
(***************************************************************************)
(* The ProductList page: filterProductsAll, which all ProductList pages    *)
(* share and fill page by page, the Filter page above it, and the          *)
(* selection that FilterProvider keeps.                                    *)
(*                                                                         *)
(* A query is a category (Any: selectedID 0) with or without a range of    *)
(* prices.  The list is the set of the answers it was filled with, so      *)
(* repeats and the order, which short changes, are left out.  The timer of *)
(* 3 ms in initState is folded into the step that starts it.               *)
(***************************************************************************)
EXTENDS Integers, FiniteSets

CONSTANTS
    Category,   \* the ids of the categories
    Any,        \* selectedID 0, and no category page
    PageSize,   \* products of a page (10: the default of WooCommerce)
    MaxAsks,    \* bound on the requests under way
    Total       \* Total[q]: the products that the shop has for query q

Query == [cat : Category \cup {Any}, priced : BOOLEAN]

ASSUME ListingAssumption ==
    /\ Any \notin Category
    /\ PageSize \in Nat \ {0} /\ MaxAsks \in Nat \ {0}
    /\ Total \in [Query -> Nat]

VARIABLES
    route,      \* "away", "list" (ProductList) or "filter" (Filter above it);
                \* "blank": no page at all
    here,       \* ProductList: its category, Any for a page with a filter
    chosen,     \* FilterProvider: selectedID, and whether low and high are set
    list,       \* filterProductsAll: the answers it was filled with
    lastLen,    \* filterProducts.length
    asks,       \* requests under way; then: what waits for the answer
    filterLoad, \* the flag filterLoad
    load,       \* ProductList: the flag load
    busy,       \* Filter: the flag load
    lost,       \* history: who waited for the first pages that threw since
                \* ProductList was opened
    strays,     \* history: the queries under way at the last makeEmpty
    picked      \* history: a category was picked since, and not applied

pageVars == <<route, here, load, busy>>
listVars == <<list, lastLen, filterLoad>>
vars == <<pageVars, chosen, listVars, asks, lost, strays, picked>>

Normal == [cat |-> Any, priced |-> FALSE]

\* widget.category ? widget.id : filter.selectedID, with low and high
Asked(c) == IF here = Any THEN c ELSE [c EXCEPT !.cat = here]

\* products on page n of query q
PageLen(q, n) ==
    LET left == Total[q] - (n - 1) * PageSize
    IN IF left <= 0 THEN 0 ELSE IF left <= PageSize THEN left ELSE PageSize

Init ==
    /\ route = "away" /\ here = Any /\ chosen = Normal
    /\ list = {} /\ lastLen = 0 /\ asks = {}
    /\ filterLoad = FALSE /\ load = TRUE /\ busy = FALSE
    /\ lost = {} /\ strays = {} /\ picked = FALSE

-----------------------------------------------------------------------------
\* filter up to its await.  (One request of a kind at a time, MaxAsks in all.)
Ask(q, n, who) ==
    /\ Cardinality(asks) < MaxAsks
    /\ [of |-> q, page |-> n, then |-> who] \notin asks
    /\ asks' = asks \cup {[of |-> q, page |-> n, then |-> who]}
    /\ lastLen' = 0 /\ filterLoad' = TRUE

\* Faulty: the list is only filled, never emptied.
makeEmpty_Not == /\ list' = list
                 /\ strays' = {r.of : r \in asks} /\ picked' = FALSE

makeEmpty == /\ list' = {}
             /\ strays' = {r.of : r \in asks} /\ picked' = FALSE

\* The page on top goes, and with it what waits for one of the answers `open`;
\* filter itself runs to its end.  The callback of a Filter page still pops
\* while the page slides out.
Gone == [list |-> "nobody", filter |-> "leaving"]

Under == [filter |-> "list", list |-> "away", away |-> "blank", blank |-> "blank"]

Pop(open) ==
    /\ route' = Under[route]
    /\ asks' = {IF r.then = route THEN [r EXCEPT !.then = Gone[route]] ELSE r : r \in open}

\* A category of HOME, or VIEW ALL (c = Any).
OpenList(c) ==
    /\ route = "away"
    /\ route' = "list" /\ here' = c /\ load' = TRUE /\ busy' = FALSE
    /\ chosen' = Normal
    /\ makeEmpty
    /\ Ask([cat |-> c, priced |-> FALSE], 1, "list")
    /\ lost' = {}

\* Back, or the icon that closes Filter.
Leave ==
    /\ route \in {"list", "filter"}
    /\ Pop(asks)
    /\ UNCHANGED <<here, load, busy, chosen, listVars, lost, strays, picked>>

\* The Filter page that was left has slid out.
TransitionEnds ==
    /\ \E r \in asks : r.then = "leaving"
    /\ asks' = {IF r.then = "leaving" THEN [r EXCEPT !.then = "nobody"] ELSE r : r \in asks}
    /\ UNCHANGED <<pageVars, chosen, listVars, lost, strays, picked>>

\* Faulty: the page after the one that comes next.
NextIndex_FromTwo == lastLen \div PageSize + 2

\* (filterProducts.length / 10) + 1, rounded down: of the last page alone.
NextIndex == lastLen \div PageSize + 1

\* The end of the list is reached.
Scroll ==
    /\ route = "list" /\ ~load /\ list # {}
    /\ lastLen % PageSize = 0
    /\ Ask(Asked(chosen), NextIndex, "nobody")
    /\ UNCHANGED <<pageVars, chosen, list, lost, strays, picked>>

OpenFilter ==
    /\ route = "list" /\ here = Any
    /\ route' = "filter" /\ busy' = FALSE
    /\ UNCHANGED <<here, load, chosen, listVars, asks, lost, strays, picked>>

\* The radio button of a category changes the selection at once.
PickCategory(c) ==
    /\ route = "filter" /\ c # chosen.cat
    /\ chosen' = [chosen EXCEPT !.cat = c]
    /\ picked' = TRUE
    /\ UNCHANGED <<pageVars, listVars, asks, lost, strays>>

\* Faulty: the list is emptied and nothing is asked for.
Apply_NoAsk(range) ==
    /\ route = "filter" /\ ~busy
    /\ busy' = TRUE
    /\ chosen' = [chosen EXCEPT !.priced = range]
    /\ makeEmpty
    /\ UNCHANGED <<route, here, load, lastLen, filterLoad, asks, lost>>

\* APPLY CHANGES, with a range of prices or with 0 to 0, which is none.
Apply(range) ==
    /\ route = "filter" /\ ~busy
    /\ busy' = TRUE
    /\ chosen' = [chosen EXCEPT !.priced = range]
    /\ makeEmpty
    /\ Ask(chosen', 1, "filter")
    /\ UNCHANGED <<route, here, load, lost>>

\* Faulty: the answer replaces the list.
Fill_Replace(r) ==
    list' = IF lastLen' = 0 THEN list ELSE {[of |-> r.of, page |-> r.page]}

\* Faulty: an answer nobody waits for is dropped.
Fill_IfHeard(r) ==
    list' = IF lastLen' = 0 \/ r.then = "nobody" THEN list
            ELSE list \cup {[of |-> r.of, page |-> r.page]}

\* filterProductsAll.addAll(filterProducts)
Fill(r) ==
    list' = IF lastLen' = 0 THEN list ELSE list \cup {[of |-> r.of, page |-> r.page]}

\* filter ends, on whatever page: the list is shared.  Then ProductList shows
\* it, or the callback of a Filter page pops the page on top.
Answered(r) ==
    /\ r \in asks
    /\ IF r.then \in {"filter", "leaving"} THEN Pop(asks \ {r})
       ELSE asks' = asks \ {r} /\ UNCHANGED route
    /\ lastLen' = PageLen(r.of, r.page) /\ Fill(r)
    /\ filterLoad' = FALSE
    /\ load' = (load /\ r.then # "list")
    /\ busy' = (busy /\ r.then # "filter")
    /\ UNCHANGED <<here, chosen, lost, strays, picked>>

\* An exception leaves every flag as it is.
Throws(r) ==
    /\ r \in asks
    /\ asks' = asks \ {r}
    /\ lost' = IF r.page = 1 THEN lost \cup {r.then} ELSE lost
    /\ UNCHANGED <<pageVars, chosen, listVars, strays, picked>>

\* The process ends: nothing of this is on the device.
Restart ==
    /\ route' = "away" /\ here' = Any /\ chosen' = Normal
    /\ list' = {} /\ lastLen' = 0 /\ asks' = {}
    /\ filterLoad' = FALSE /\ load' = TRUE /\ busy' = FALSE
    /\ lost' = {} /\ strays' = {} /\ picked' = FALSE

Next ==
    \/ \E c \in Category \cup {Any} : OpenList(c)
    \/ \E c \in Category : PickCategory(c)
    \/ \E range \in BOOLEAN : Apply(range)
    \/ Leave \/ TransitionEnds \/ Scroll \/ OpenFilter \/ Restart
    \/ \E r \in asks : Answered(r) \/ Throws(r)

Spec == Init /\ [][Next]_vars

-----------------------------------------------------------------------------
(***************************************************************************)
(* Properties                                                              *)
(***************************************************************************)

Waiter == {"list", "filter", "leaving", "nobody"}

\* Nobody waits for the second page.
Request == {r \in [of : Query, page : {1, 2}, then : Waiter] :
              r.page = 2 => r.then = "nobody"}

\* The index of a request is 1 or 2: it is computed from the last page alone,
\* and that is empty while a request is under way.
ListingTypeOK ==
    /\ route \in {"away", "list", "filter", "blank"}
    /\ here \in Category \cup {Any}
    /\ chosen \in Query
    /\ list \subseteq [of : Query, page : {1, 2}]
    /\ lastLen \in 0..PageSize
    /\ asks \subseteq Request /\ lost \subseteq Waiter
    /\ {filterLoad, load, busy, picked} \subseteq BOOLEAN
    /\ strays \subseteq Query

\* The page shows products of the category, or of the selection, it was
\* opened or filtered with; others only when their request was still under way
\* then, or when a category was picked on the Filter page and not applied.
ListOfQuery ==
    route \in {"list", "filter"} /\ ~picked =>
        \A c \in list : c.of = Asked(chosen) \/ c.of \in strays

\* Nothing is missing before what the list shows: the second page of the
\* query is there only with the first, whatever the order of the answers,
\* unless one of a query before came in between and set the index.
FirstPageFirst ==
    route \in {"list", "filter"} /\ ~picked /\ strays = {} =>
        \A c \in list : c.page = 2 => [c EXCEPT !.page = 1] \in list

\* When every request was answered, the list has the first page of its query,
\* so "Empty" is shown only for a query without products: also when the Filter
\* page was left before its answer came, but not when a request for a first
\* page threw since ProductList was opened.
NothingHidden ==
    /\ route \in {"list", "filter"} /\ ~picked /\ asks = {} /\ lost = {}
    /\ Total[Asked(chosen)] > 0
    => [of |-> Asked(chosen), page |-> 1] \in list

\* ProductList and Filter show their spinner only while the answer that ends
\* it is still to come, or after a request of theirs threw.
SpinnersEnd ==
    /\ route \in {"list", "filter"} /\ load =>
          "list" \in lost \/ \E r \in asks : r.then = "list"
    /\ route = "filter" /\ busy =>
          "filter" \in lost \/ \E r \in asks : r.then = "filter"
=============================================================================
