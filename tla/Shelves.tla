------------------------------- MODULE Shelves -------------------------------
(***************************************************************************)
(* The shelves of the HOME tab: the categories and the products that       *)
(* WoocommerceProvider collects page by page, and the latest releases.     *)
(*                                                                         *)
(* Home and HomeList ask for the first pages each time they are built, and *)
(* their scroll listeners for more; answers come in any order, or not. The *)
(* shop lists its categories and products as 1, 2, 3 ... and does not      *)
(* change meanwhile.                                                       *)
(***************************************************************************)
EXTENDS Integers, Sequences, SequencesExt

CONSTANTS
    PageSize,    \* entries of a page (10: the default of WooCommerce)
    Categories,  \* the number of categories the shop has
    Products,    \* the number of products
    MaxAsks,     \* bound on the requests for one page under way
    MaxList      \* bound on the length of productsAll

ShelvesAssumption ==
    /\ PageSize \in Nat \ {0}
    /\ Categories \in Nat /\ Products \in Nat
    /\ MaxAsks \in Nat \ {0} /\ MaxList \in Nat

VARIABLES
    mounted,       \* the HOME tab is there
    rates,         \* Home waits for getRates ("asked"), or listens ("done")
    shelf,         \* HomeList is built, and listens
    catAsks,       \* catAsks[n]: getCategory(n) under way
    categories,    \* productCategoryAll
    categoryLoad,  \* the flag categoryLoad
    asks,          \* asks[n]: getAllProducts(n) under way
    productsAll,   \* productsAll
    newReleases,   \* newReleases
    productLoad,   \* the flag productLoad
    lost           \* history: what a request for threw, with no answer since

homeVars == <<mounted, rates, shelf>>
catVars == <<catAsks, categories, categoryLoad>>
prodVars == <<asks, productsAll, newReleases, productLoad>>
vars == <<homeVars, catVars, prodVars, lost>>

\* The page numbers the listeners can compute.
Pages == 1..(MaxList \div PageSize + 1)

\* page n of a list of `total` entries
PageOf(n, total) ==
    LET last == IF n * PageSize < total THEN n * PageSize ELSE total
        first == (n - 1) * PageSize
    IN [k \in 1..(IF last > first THEN last - first ELSE 0) |-> first + k]

\* (list.length / 10) + 1, rounded down.
NextPage(list) == Len(list) \div PageSize + 1

NoAsks == [n \in Pages |-> 0]

Init ==
    /\ mounted = FALSE /\ rates = "none" /\ shelf = FALSE
    /\ catAsks = NoAsks /\ categories = <<>> /\ categoryLoad = TRUE
    /\ asks = NoAsks /\ productsAll = <<>> /\ newReleases = <<>> /\ productLoad = TRUE
    /\ lost = {}

-----------------------------------------------------------------------------
\* getCategory(n) and getAllProducts(n) up to their await.
AskCategories(n) ==
    /\ catAsks[n] < MaxAsks
    /\ catAsks' = [catAsks EXCEPT ![n] = @ + 1]
    /\ categoryLoad' = (categoryLoad \/ n > 1)
    /\ UNCHANGED categories

AskProducts(n) ==
    /\ asks[n] < MaxAsks
    /\ asks' = [asks EXCEPT ![n] = @ + 1]
    /\ productLoad' = (productLoad \/ n > 1)
    /\ UNCHANGED <<productsAll, newReleases>>

\* The HOME tab is built: getRates is sent.
OpenHome ==
    /\ ~mounted
    /\ mounted' = TRUE /\ rates' = "asked"
    /\ UNCHANGED <<shelf, catVars, prodVars, lost>>

\* Another tab: Home and HomeList are disposed, with their listeners.
LeaveHome ==
    /\ mounted
    /\ mounted' = FALSE /\ rates' = "none" /\ shelf' = FALSE
    /\ UNCHANGED <<catVars, prodVars, lost>>

\* getRates is done: Home asks for the first pages and starts to listen.
RatesAnswered ==
    /\ rates = "asked"
    /\ rates' = "done"
    /\ AskCategories(1) /\ AskProducts(1)
    /\ UNCHANGED <<mounted, shelf, lost>>

\* getRates rethrows: Home asks for nothing and installs no listener.
RatesFail ==
    /\ rates = "asked"
    /\ rates' = "none"
    /\ UNCHANGED <<mounted, shelf, catVars, prodVars, lost>>

\* The user scrolls HOME: HomeList is built and asks for the first pages too,
\* every time it comes into view.
ShelfAppears ==
    /\ mounted /\ ~shelf
    /\ shelf' = TRUE
    /\ AskCategories(1) /\ AskProducts(1)
    /\ UNCHANGED <<rates, mounted, lost>>

ShelfDisappears ==
    /\ shelf
    /\ shelf' = FALSE
    /\ UNCHANGED <<rates, mounted, catVars, prodVars, lost>>

\* The end of the categories is reached: scrollController2 of Home.
ScrollCategories ==
    /\ rates = "done" /\ categories # <<>>
    /\ NextPage(categories) \in Pages
    /\ AskCategories(NextPage(categories))
    /\ UNCHANGED <<homeVars, prodVars, lost>>

\* The end of HomeList is reached, or that of a list Home listens to.
ScrollProducts ==
    /\ (shelf /\ productsAll # <<>>) \/ rates = "done"
    /\ NextPage(productsAll) \in Pages
    /\ AskProducts(NextPage(productsAll))
    /\ UNCHANGED <<homeVars, catVars, lost>>

\* Faulty: the loop that removes repeated ids is missing.
Collect_NoDedup(list, page) == list \o page

\* addAll, then retainWhere keeps the first entry of every id.
Collect(list, page) ==
    LET kept[k \in 0..Len(page)] ==
            IF k = 0 THEN list
            ELSE IF page[k] \in ToSet(kept[k - 1]) THEN kept[k - 1]
            ELSE Append(kept[k - 1], page[k])
    IN kept[Len(page)]

\* Faulty: the answer is handled, though nothing was asked.
CategoriesAnswered_Unasked(n) ==
    /\ catAsks' = [catAsks EXCEPT ![n] = @ - 1]
    /\ categories' = Collect(categories, PageOf(n, Categories))
    /\ categoryLoad' = FALSE /\ lost' = lost \ {"categories"}
    /\ UNCHANGED <<homeVars, prodVars>>

CategoriesAnswered(n) ==
    /\ catAsks[n] > 0
    /\ catAsks' = [catAsks EXCEPT ![n] = @ - 1]
    /\ categories' = Collect(categories, PageOf(n, Categories))
    /\ categoryLoad' = FALSE /\ lost' = lost \ {"categories"}
    /\ UNCHANGED <<homeVars, prodVars>>

\* Faulty: the latest releases are filled with every answer.
ProductsAnswered_Always(n) ==
    /\ asks[n] > 0
    /\ Len(productsAll \o PageOf(n, Products)) <= MaxList
    /\ asks' = [asks EXCEPT ![n] = @ - 1]
    /\ productsAll' = productsAll \o PageOf(n, Products)
    /\ newReleases' = newReleases \o PageOf(n, Products)
    /\ productLoad' = FALSE /\ lost' = lost \ {"products"}
    /\ UNCHANGED <<homeVars, catVars>>

\* Faulty: an empty page leaves the flag set.
ProductsAnswered_EmptyStays(n) ==
    /\ asks[n] > 0
    /\ Len(productsAll \o PageOf(n, Products)) <= MaxList
    /\ asks' = [asks EXCEPT ![n] = @ - 1]
    /\ productsAll' = productsAll \o PageOf(n, Products)
    /\ newReleases' = IF newReleases = <<>> THEN productsAll' ELSE newReleases
    /\ productLoad' = (productLoad /\ PageOf(n, Products) = <<>>)
    /\ lost' = lost \ {"products"}
    /\ UNCHANGED <<homeVars, catVars>>

\* addAll without a look at what is there; the first answer fills newReleases.
ProductsAnswered(n) ==
    /\ asks[n] > 0
    /\ Len(productsAll \o PageOf(n, Products)) <= MaxList
    /\ asks' = [asks EXCEPT ![n] = @ - 1]
    /\ productsAll' = productsAll \o PageOf(n, Products)
    /\ newReleases' = IF newReleases = <<>> THEN productsAll' ELSE newReleases
    /\ productLoad' = FALSE /\ lost' = lost \ {"products"}
    /\ UNCHANGED <<homeVars, catVars>>

\* An exception: the flag stays as it is.
CategoriesThrow(n) ==
    /\ catAsks[n] > 0
    /\ catAsks' = [catAsks EXCEPT ![n] = @ - 1]
    /\ lost' = lost \cup {"categories"}
    /\ UNCHANGED <<homeVars, categories, categoryLoad, prodVars>>

ProductsThrow(n) ==
    /\ asks[n] > 0
    /\ asks' = [asks EXCEPT ![n] = @ - 1]
    /\ lost' = lost \cup {"products"}
    /\ UNCHANGED <<homeVars, catVars, productsAll, newReleases, productLoad>>

Answered(n) == CategoriesAnswered(n) \/ ProductsAnswered(n)

Next ==
    \/ OpenHome \/ LeaveHome \/ RatesAnswered \/ RatesFail
    \/ ShelfAppears \/ ShelfDisappears
    \/ ScrollCategories \/ ScrollProducts
    \/ \E n \in Pages : Answered(n) \/ CategoriesThrow(n) \/ ProductsThrow(n)

Spec == Init /\ [][Next]_vars

-----------------------------------------------------------------------------
(***************************************************************************)
(* Properties                                                              *)
(***************************************************************************)

ShelvesTypeOK ==
    /\ rates \in {"none", "asked", "done"}
    /\ mounted \in BOOLEAN /\ shelf \in BOOLEAN
    /\ categoryLoad \in BOOLEAN /\ productLoad \in BOOLEAN
    /\ lost \subseteq {"categories", "products"}
    /\ catAsks \in [Pages -> 0..MaxAsks] /\ asks \in [Pages -> 0..MaxAsks]
    /\ categories \in Seq(1..Categories)
    /\ productsAll \in Seq(1..Products) /\ Len(productsAll) <= MaxList
    /\ newReleases \in Seq(1..Products)

\* The categories are always the first ones of the shop, each once and none
\* left out, although Home and HomeList both ask for the first page, the
\* listener asks again while a page is on its way, and a half page that is read
\* again overlaps what is there: the next page is computed from the length, which
\* only the removal of repeated ids keeps right.
CategoriesWhole ==
    \E n \in 0..Categories :
        /\ categories = [k \in 1..n |-> k]
        /\ n % PageSize = 0 \/ n = Categories

\* The latest releases are one page and never the double one that productsAll
\* becomes when both requests for the first page are answered.
ReleasesOnce == newReleases \in {<<>>, PageOf(1, Products)}

\* A shelf that has something shows its spinner only while an answer of its own
\* is still to come, whatever the order of the answers, or after a request of
\* its own threw and none was answered since.
SpinnersEnd ==
    /\ categories # <<>> /\ categoryLoad =>
          "categories" \in lost \/ \E n \in Pages : catAsks[n] > 0
    /\ productsAll # <<>> /\ productLoad =>
          "products" \in lost \/ \E n \in Pages : asks[n] > 0
=============================================================================
