----------------------------- MODULE MCWaiting ------------------------------
(***************************************************************************)
(* The pages that wait for an answer with a spinner and are left meanwhile *)
(* - Reviews, Search, Banners and SignIn - for TLC.  A behaviour is of one *)
(* of them, the others rest: they have nothing in common but the answers'  *)
(* way to find a page gone, and each property speaks of each of them       *)
(* alone.  No symmetry, since a liveness property is checked.              *)
(***************************************************************************)
EXTENDS MCReviews

CONSTANTS
    Word, Empty, Category, All, MaxSearches,
    Banner, MaxVersion, MaxListeners, MaxOpens,
    Slot, Free

VARIABLES
    part,       \* whose behaviour it is
    searchRoute, text, chosen, searchList, searchLoad, busy, searches, last,
    behind, swapped, searchLost,
    home, rates, server, heard, bannerList, selected, opens, above, early,
    crossed, bannerLost,
    signRoute, loginLoad, signUpLoad, signed, forms, slid, unheard, signLost

S == INSTANCE Search WITH MaxAsks <- MaxSearches, route <- searchRoute,
        list <- searchList, asks <- searches, lost <- searchLost
B == INSTANCE Banners WITH list <- bannerList, lost <- bannerLost
I == INSTANCE SignIn WITH route <- signRoute, asks <- forms, lost <- signLost

ASSUME WaitingAssumption ==
    S!SearchAssumption /\ B!BannersAssumption /\ I!SignInAssumption

searchVars == <<searchRoute, text, chosen, searchList, searchLoad, busy,
                searches, last, behind, swapped, searchLost>>
bannerVars == <<home, rates, server, heard, bannerList, selected, opens, above,
                early, crossed, bannerLost>>
signVars == <<signRoute, loginLoad, signUpLoad, signed, forms, slid, unheard,
              signLost>>
allVars == <<part, vars, searchVars, bannerVars, signVars>>

WaitingInit ==
    /\ part \in {"reviews", "search", "banners", "sign in"}
    /\ Init /\ S!Init /\ B!Init /\ I!Init

WaitingNext ==
    /\ \/ part = "reviews" /\ Next /\ UNCHANGED <<searchVars, bannerVars, signVars>>
       \/ part = "search" /\ S!Next /\ UNCHANGED <<vars, bannerVars, signVars>>
       \/ part = "banners" /\ B!Next /\ UNCHANGED <<vars, searchVars, signVars>>
       \/ part = "sign in" /\ I!Next /\ UNCHANGED <<vars, searchVars, bannerVars>>
    /\ UNCHANGED part

\* A part that rests waits for nothing, so its fairness asks for nothing.
WaitingSpec ==
    /\ WaitingInit /\ [][WaitingNext]_allVars
    /\ Fairness /\ S!Fairness /\ B!Fairness /\ I!Fairness

-----------------------------------------------------------------------------
\* The types of the four; a page that waits for its form is on top, or under
\* SignUp.
WaitingTypeOK ==
    /\ ReviewsTypeOK /\ S!SearchTypeOK /\ B!BannersTypeOK /\ I!SignInTypeOK

\* The Search tab shows the answer to the query asked last, once all searches
\* were answered in their order, and never one from before it (searchProduct).
LastQueryShown == S!LastQueryShown /\ S!ResultsAreRecent

\* A rating is among the reviews when they were read back, and nothing from
\* before it is (createRating empties reviewModelAll and reads it anew).
RatingReadBack == RatingIsShown /\ EmptiedByRating

\* The banners of HOME are shown once each, however often it is built, unless
\* two builds listened before the first of the answers came (getBanner).
BannersOnce == B!BannersOnce

\* The late pops of Login and SignUp leave the tabs alone, except for one that
\* comes while its page slides out (login.dart, sign_up.dart).
TabsStay == I!TabsStay

\* A spinner stands for one request, which is under way: of SUBMIT, of APPLY
\* CHANGES, of LOGIN and REGISTER, and of a tap on a banner, whatever page was
\* left, covered or opened anew meanwhile, unless a request threw.
OneRequestPerSpinner ==
    /\ OneRatingAtATime /\ SubmitIsBack
    /\ S!FilterWaits
    /\ I!OneFormAtATime /\ I!FormsWait
    /\ B!OneDetailsPerTap

\* Every wait ends: the spinners do, unless a request threw, Login closes for
\* whoever has signed in, and the banners of the shop come to HOME.
WaitsEnd ==
    /\ ReviewSpinnersEnd /\ S!SearchEnds
    /\ B!BannersFollow /\ B!BannerSpinnerEnds
    /\ I!LoginCloses /\ I!FormSpinnersEnd
=============================================================================
