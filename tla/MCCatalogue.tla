---------------------------- MODULE MCCatalogue -----------------------------
(***************************************************************************)
(* Listing and Shelves for TLC.  A behaviour is of one of them, the other  *)
(* rests: they share no list and no flag, and no property is about both.   *)
(* Listing has queries without products, with a part of a page, with one   *)
(* full page and with a part of a third.                                   *)
(***************************************************************************)
EXTENDS Listing

CONSTANTS Categories, Products, MaxShelfAsks, MaxList

VARIABLES
    part,       \* whose behaviour it is
    mounted, rates, shelf, catAsks, categories, categoryLoad,
    productAsks, productsAll, newReleases, productLoad, shelfLost

S == INSTANCE Shelves WITH MaxAsks <- MaxShelfAsks, asks <- productAsks,
                           lost <- shelfLost

MCTotal == [q \in Query |-> IF q.cat = Any THEN IF q.priced THEN 2 ELSE 5
                            ELSE IF q.priced THEN 0 ELSE 1]

ASSUME CatalogueAssumption == S!ShelvesAssumption

shelfVars == <<mounted, rates, shelf, catAsks, categories, categoryLoad,
               productAsks, productsAll, newReleases, productLoad, shelfLost>>

CatalogueInit == part \in {"listing", "shelves"} /\ Init /\ S!Init

CatalogueNext ==
    \/ part = "listing" /\ Next /\ UNCHANGED <<part, shelfVars>>
    \/ part = "shelves" /\ S!Next /\ UNCHANGED <<part, vars>>

CatalogueSpec == CatalogueInit /\ [][CatalogueNext]_<<part, vars, shelfVars>>

-----------------------------------------------------------------------------
\* The types of both; the index of the page that a product list asks for is 1
\* or 2, since it is computed from the last page alone (product_list.dart:69).
CatalogueTypeOK == ListingTypeOK /\ S!ShelvesTypeOK

\* The shelves of HOME: the categories are the first ones of the shop, each
\* once, however often and in whatever order their pages come (getCategory
\* removes repeated ids); the latest releases are one page, never doubled.
ShelvesWhole == S!CategoriesWhole /\ S!ReleasesOnce

\* A product list misses nothing before what it shows: no second page without
\* the first one, while no answer of a query before came in between, and with
\* every request answered at least the first, unless one for a first page threw.
NothingMissing == FirstPageFirst /\ NothingHidden

\* Spinners of the shelves, of ProductList and of Filter are shown only while
\* the answer that ends them is to come, or after a request of that shelf or
\* page threw.
CatalogueSpinners == SpinnersEnd /\ S!SpinnersEnd
=============================================================================
