------------------------------- MODULE Search -------------------------------
(***************************************************************************)
(* The Search tab: every change of its text field asks the shop, so does   *)
(* the Filter page above it, and one list shows whatever is answered.      *)
(*                                                                         *)
(* A query is the word, and of FilterProvider the category (All: 0) and    *)
(* whether a range of prices is set; the four calls of getProducts differ  *)
(* in how they pass it.  FilterProvider.keyword is written and never read, *)
(* and is left out.                                                        *)
(***************************************************************************)
EXTENDS Naturals, Sequences, SequencesExt

CONSTANTS
    Word,       \* what the text field may say
    Empty,      \* the word without letters
    Category,   \* the ids of the categories
    All,        \* selectedID 0
    None,       \* searchList = [], and no query yet
    MaxAsks     \* bound on the searches under way

Choice == [cat : Category \cup {All}, priced : BOOLEAN]
Query == [word : Word, by : Choice]

SearchAssumption ==
    /\ Empty \in Word /\ All \notin Category /\ None \notin Query
    /\ MaxAsks \in Nat \ {0}

VARIABLES
    route,      \* "search", "filter" or "details" (above it), "away" (another
                \* tab) or "blank" (no page at all)
    text,       \* what the text field says
    chosen,     \* FilterProvider: selectedID, and whether low and high are set
    list,       \* searchList: the query it answers
    searchLoad, \* the flag searchLoad
    busy,       \* Filter: the flag load
    asks,       \* searches under way, oldest first; then: what waits for one
    last,       \* history: the query asked last
    behind,     \* history: the queries under way when it was asked
    swapped,    \* history: since no search was under way, one was answered ...
    lost        \* ... before an older one; one threw

pageVars == <<route, text, busy>>
history == <<last, behind, swapped, lost>>
vars == <<pageVars, chosen, list, searchLoad, asks, history>>

Normal == [cat |-> All, priced |-> FALSE]

Init ==
    /\ route = "away" /\ text = Empty /\ busy = FALSE /\ chosen = Normal
    /\ list = None /\ searchLoad = FALSE /\ asks = <<>>
    /\ last = None /\ behind = {} /\ swapped = FALSE /\ lost = FALSE

-----------------------------------------------------------------------------
\* What the history keeps of a search for q.
Noted(q) ==
    /\ last' = q /\ behind' = {r.of : r \in ToSet(asks)}
    /\ swapped' = (swapped /\ asks # <<>>) /\ lost' = (lost /\ asks # <<>>)

\* Faulty: what was found before stays until the answer comes.
searchProduct_Keeps(q, who) ==
    /\ Len(asks) < MaxAsks
    /\ asks' = Append(asks, [of |-> q, then |-> who])
    /\ searchLoad' = TRUE
    /\ UNCHANGED list
    /\ Noted(q)

\* searchProduct up to its await.
searchProduct(q, who) ==
    /\ Len(asks) < MaxAsks
    /\ asks' = Append(asks, [of |-> q, then |-> who])
    /\ list' = None /\ searchLoad' = TRUE
    /\ Noted(q)

\* A key on the Search tab.
Type(w) ==
    /\ route = "search" /\ w # text
    /\ text' = w
    /\ searchProduct([word |-> w, by |-> chosen], "nobody")
    /\ UNCHANGED <<route, busy, chosen>>

OpenFilter ==
    /\ route = "search"
    /\ route' = "filter" /\ busy' = FALSE
    /\ UNCHANGED <<text, chosen, list, searchLoad, asks, history>>

\* The radio button of a category: at once, and without a search.
PickCategory(c) ==
    /\ route = "filter" /\ c # chosen.cat
    /\ chosen' = [chosen EXCEPT !.cat = c]
    /\ UNCHANGED <<pageVars, list, searchLoad, asks, history>>

\* Faulty: the search is not waited for.
Apply_NoThen(range) ==
    /\ route = "filter" /\ ~busy
    /\ busy' = TRUE
    /\ chosen' = [chosen EXCEPT !.priced = range]
    /\ searchProduct([word |-> Empty, by |-> chosen'], "nobody")
    /\ UNCHANGED <<route, text>>

\* APPLY CHANGES: keyword = "" goes into the search, the field keeps its text.
Apply(range) ==
    /\ route = "filter" /\ ~busy
    /\ busy' = TRUE
    /\ chosen' = [chosen EXCEPT !.priced = range]
    /\ searchProduct([word |-> Empty, by |-> chosen'], "filter")
    /\ UNCHANGED <<route, text>>

\* The callbacks of page a wait as b from now on.
Rename(a, b, s) ==
    [k \in DOMAIN s |-> IF s[k].then = a THEN [s[k] EXCEPT !.then = b] ELSE s[k]]

\* Faulty: the Filter page is taken for the one that ProductList opens.
Under_List == [filter |-> "list", details |-> "search", search |-> "blank",
               away |-> "blank", blank |-> "blank"]

\* What the pop of the page on top leaves.
Under == [filter |-> "search", details |-> "search", search |-> "blank",
          away |-> "blank", blank |-> "blank"]

\* The page on top goes, the searches under way are `open`: the callback of a
\* Filter page still pops while the page slides out ("leaving").
Pop(open) ==
    /\ route' = Under[route]
    /\ asks' = IF route = "filter" THEN Rename("filter", "leaving", open) ELSE open

\* The icon that closes Filter, or Back.
CloseFilter ==
    /\ route = "filter"
    /\ Pop(asks)
    /\ UNCHANGED <<text, busy, chosen, list, searchLoad, history>>

\* The Filter page that was left has slid out: setState in its callback throws.
TransitionEnds ==
    /\ \E r \in ToSet(asks) : r.then = "leaving"
    /\ asks' = Rename("leaving", "nobody", asks)
    /\ UNCHANGED <<pageVars, chosen, list, searchLoad, history>>

\* A tap on a product, and back.
OpenDetails ==
    /\ route = "search" /\ list # None
    /\ route' = "details"
    /\ UNCHANGED <<text, busy, chosen, list, searchLoad, asks, history>>

LeaveDetails ==
    /\ route = "details"
    /\ route' = "search"
    /\ UNCHANGED <<text, busy, chosen, list, searchLoad, asks, history>>

\* Another tab, and back: the text field is disposed, what was found is not.
LeaveTab ==
    /\ route = "search"
    /\ route' = "away" /\ text' = Empty
    /\ UNCHANGED <<busy, chosen, list, searchLoad, asks, history>>

OpenTab ==
    /\ route = "away"
    /\ route' = "search"
    /\ UNCHANGED <<text, busy, chosen, list, searchLoad, asks, history>>

\* ProductList, from the HOME tab, and the Filter page above that.
ChooseElsewhere(c) ==
    /\ route = "away" /\ c # chosen
    /\ chosen' = c
    /\ UNCHANGED <<pageVars, list, searchLoad, asks, history>>

\* A search is not under way any more; the callback of the Filter page that
\* waited for it pops the page on top, be that page a newer one.
Ended(k) ==
    /\ IF asks[k].then = "nobody" THEN asks' = RemoveAt(asks, k) /\ UNCHANGED route
       ELSE Pop(RemoveAt(asks, k))
    /\ busy' = (busy /\ asks[k].then # "filter")
    /\ swapped' = (swapped \/ k # 1)
    /\ UNCHANGED <<text, chosen, last, behind, lost>>

\* Faulty: the spinner is only taken away while the tab is on the screen.
Answered_IfShown(k) ==
    /\ list' = asks[k].of /\ searchLoad' = (searchLoad /\ route # "search")
    /\ Ended(k)

\* Faulty: what was found is set when the first of several answers comes.
Answered_FirstOnly(k) ==
    /\ list' = (IF searchLoad THEN asks[k].of ELSE list) /\ searchLoad' = FALSE
    /\ Ended(k)

\* searchProduct ends.
Answered(k) ==
    /\ list' = asks[k].of /\ searchLoad' = FALSE
    /\ Ended(k)

\* An exception leaves both flags as they are.
Throws(k) ==
    /\ asks' = RemoveAt(asks, k)
    /\ lost' = TRUE
    /\ UNCHANGED <<pageVars, chosen, list, searchLoad, last, behind, swapped>>

\* The process ends: nothing of this is on the device.
Restart ==
    /\ route' = "away" /\ text' = Empty /\ busy' = FALSE /\ chosen' = Normal
    /\ list' = None /\ searchLoad' = FALSE /\ asks' = <<>>
    /\ last' = None /\ behind' = {} /\ swapped' = FALSE /\ lost' = FALSE

Shop == \E k \in DOMAIN asks : Answered(k) \/ Throws(k)

Next ==
    \/ \E w \in Word : Type(w)
    \/ \E c \in Category : PickCategory(c)
    \/ \E range \in BOOLEAN : Apply(range)
    \/ \E c \in Choice : ChooseElsewhere(c)
    \/ OpenFilter \/ CloseFilter \/ TransitionEnds
    \/ OpenDetails \/ LeaveDetails \/ LeaveTab \/ OpenTab \/ Shop \/ Restart

\* Every search under way is answered or throws in the end; the user owes
\* nothing.
Fairness == WF_vars(Shop)

Spec == Init /\ [][Next]_vars /\ Fairness

-----------------------------------------------------------------------------
(***************************************************************************)
(* Properties                                                              *)
(***************************************************************************)

SearchTypeOK ==
    /\ route \in {"search", "filter", "details", "away", "blank"}
    /\ text \in Word /\ chosen \in Choice
    /\ list \in Query \cup {None} /\ last \in Query \cup {None}
    /\ asks \in Seq([of : Query, then : {"filter", "leaving", "nobody"}])
    /\ Len(asks) <= MaxAsks
    /\ behind \subseteq Query
    /\ {searchLoad, busy, swapped, lost} \subseteq BOOLEAN

\* The results on the tab answer the query asked last, or one that was still
\* under way when it was asked: whatever was on the screen before that query
\* was typed is gone (searchProduct empties searchList before its await).
ResultsAreRecent == list # None => list = last \/ list \in behind

\* With every search answered, none of them lost and none overtaken by a
\* later one, the tab shows the answer to the last query: keystrokes that
\* follow each other quickly do not leave the results of a prefix behind.
LastQueryShown ==
    asks = <<>> /\ ~swapped /\ ~lost => list = last

\* Filter shows its spinner only while the answer that closes it is to come,
\* whatever is typed, closed and opened again meanwhile.
FilterWaits ==
    route = "filter" /\ busy /\ ~lost =>
        \E r \in ToSet(asks) : r.then = "filter"

\* The spinner of the tab ends, unless a search threw, however fast the user
\* types.
SearchEnds == searchLoad ~> (~searchLoad \/ lost)
=============================================================================
