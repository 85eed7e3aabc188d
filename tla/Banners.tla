------------------------------ MODULE Banners -------------------------------
(***************************************************************************)
(* The banners of HOME: FirebaseProvider's listeners on Firestore, the one *)
(* list they all append to, and the taps that open a product.              *)
(*                                                                         *)
(* A snapshot is a version of the document; the list is the versions it    *)
(* was filled with.  All versions have the same banners to tap.  banner2   *)
(* and banner3, single banners with a flag each, are left out.             *)
(***************************************************************************)
EXTENDS Naturals, Sequences, FiniteSetsExt

CONSTANTS
    Banner,        \* the products that banners are of
    None,          \* selectedInt -100
    MaxVersion,    \* bound on the versions of the document
    MaxListeners,  \* bound on the calls of getBanner in one run of the app
    MaxOpens       \* bound on the products asked for at a time, or open

BannersAssumption ==
    /\ IsFiniteSet(Banner) /\ None \notin Banner
    /\ {MaxVersion, MaxListeners, MaxOpens} \subseteq Nat \ {0}

VARIABLES
    home,      \* is HOME there?
    rates,     \* HOME waits for getRates
    server,    \* the version of the document
    heard,     \* heard[l]: the version listener l has come to; 0: none
    list,      \* bannerList
    selected,  \* HOME: selectedInt
    opens,     \* opens[b]: HOME's getProduct calls under way
    above,     \* how many Details pages above HOME they opened
    early,     \* history: getBanner was called twice before a snapshot came
    crossed,   \* history: a banner was tapped while another was asked for
    lost       \* history: getProduct threw

homeVars == <<home, rates>>
storeVars == <<server, heard, list, early>>
tapVars == <<selected, opens, above, crossed, lost>>
vars == <<homeVars, storeVars, tapVars>>

\* What the taps on banners have led to so far.
Opening == above + MapThenSumSet(LAMBDA b : opens[b], Banner)

Untapped ==
    /\ selected' = None /\ opens' = [b \in Banner |-> 0]
    /\ above' = 0 /\ crossed' = FALSE /\ lost' = FALSE

Init ==
    /\ home = FALSE /\ rates = FALSE
    /\ server = 1 /\ heard = <<>> /\ list = <<>> /\ early = FALSE
    /\ selected = None /\ opens = [b \in Banner |-> 0]
    /\ above = 0 /\ crossed = FALSE /\ lost = FALSE

-----------------------------------------------------------------------------
\* The HOME tab is built: initState waits for the rates.
OpenHome ==
    /\ ~home
    /\ home' = TRUE /\ rates' = TRUE
    /\ UNCHANGED <<storeVars, tapVars>>

\* Another tab.  The callbacks of this HOME throw from now on; the listeners
\* are not HOME's and go on.
LeaveHome ==
    /\ home /\ above = 0
    /\ home' = FALSE /\ rates' = FALSE
    /\ Untapped
    /\ UNCHANGED storeVars

\* getBanner: the list is emptied, and one more listener fills it.
getBanner ==
    /\ Len(heard) < MaxListeners
    /\ list' = <<>> /\ heard' = Append(heard, 0)
    /\ early' = (early \/ (heard # <<>> /\ list = <<>>))

\* Faulty: the list is not looked at.
RatesAnswered_Always ==
    /\ rates
    /\ rates' = FALSE
    /\ getBanner
    /\ UNCHANGED <<home, server, tapVars>>

\* getRates is done: the banners are asked for, unless there are some.
RatesAnswered ==
    /\ rates
    /\ rates' = FALSE
    /\ IF list = <<>> THEN getBanner ELSE UNCHANGED <<heard, list, early>>
    /\ UNCHANGED <<home, server, tapVars>>

\* getRates throws: nothing is asked for.
RatesFail ==
    /\ rates
    /\ rates' = FALSE
    /\ UNCHANGED <<home, storeVars, tapVars>>

\* The shop changes its banners.
ServerChanges ==
    /\ server < MaxVersion
    /\ server' = server + 1
    /\ UNCHANGED <<homeVars, heard, list, early, tapVars>>

\* Faulty: only the first snapshot is used.
Snapshot_First(l, v) ==
    /\ heard[l] < v
    /\ heard' = [heard EXCEPT ![l] = v]
    /\ list' = IF list = <<>> THEN <<v>> ELSE list
    /\ UNCHANGED <<homeVars, server, early, tapVars>>

\* Faulty: what a listener has come to comes again.
Snapshot_Repeats(l, v) ==
    /\ heard[l] <= v
    /\ heard' = [heard EXCEPT ![l] = v]
    /\ list' = Append(list, v)
    /\ UNCHANGED <<homeVars, server, early, tapVars>>

\* Firestore calls a listener with what is cached, and with every change; its
\* banners are added to those that are there.
Snapshot(l, v) ==
    /\ heard[l] < v
    /\ heard' = [heard EXCEPT ![l] = v]
    /\ list' = Append(list, v)
    /\ UNCHANGED <<homeVars, server, early, tapVars>>

-----------------------------------------------------------------------------
\* Faulty: the banner with the spinner reacts.
TapBanner_Again(b) ==
    /\ home /\ above = 0 /\ list # <<>>
    /\ Opening < MaxOpens
    /\ selected' = b
    /\ opens' = [opens EXCEPT ![b] = @ + 1]
    /\ crossed' = \/ crossed /\ Opening > 0
                  \/ \E c \in Banner \ {b} : opens[c] > 0
    /\ UNCHANGED <<homeVars, storeVars, above, lost>>

\* A tap on a banner, but not on the one with the spinner: getProduct.
TapBanner(b) ==
    /\ home /\ above = 0 /\ list # <<>>
    /\ selected # b
    /\ Opening < MaxOpens
    /\ selected' = b
    /\ opens' = [opens EXCEPT ![b] = @ + 1]
    /\ crossed' = \/ crossed /\ Opening > 0
                  \/ \E c \in Banner \ {b} : opens[c] > 0
    /\ UNCHANGED <<homeVars, storeVars, above, lost>>

\* The shop has the product: Details is pushed, on whatever is on top.
ProductFound(b) ==
    /\ opens[b] > 0
    /\ opens' = [opens EXCEPT ![b] = @ - 1]
    /\ selected' = None
    /\ above' = above + 1
    /\ UNCHANGED <<homeVars, storeVars, crossed, lost>>

\* Faulty: the toast and nothing else.
ProductMissing_Toast(b) ==
    /\ opens[b] > 0
    /\ opens' = [opens EXCEPT ![b] = @ - 1]
    /\ UNCHANGED <<homeVars, storeVars, selected, above, crossed, lost>>

\* It does not: a toast.
ProductMissing(b) ==
    /\ opens[b] > 0
    /\ opens' = [opens EXCEPT ![b] = @ - 1]
    /\ selected' = None
    /\ UNCHANGED <<homeVars, storeVars, above, crossed, lost>>

\* getProduct throws: the spinner stays, and its banner is dead.
ProductThrows(b) ==
    /\ opens[b] > 0
    /\ opens' = [opens EXCEPT ![b] = @ - 1]
    /\ lost' = TRUE
    /\ UNCHANGED <<homeVars, storeVars, selected, above, crossed>>

LeaveDetails ==
    /\ above > 0
    /\ above' = above - 1
    /\ UNCHANGED <<homeVars, storeVars, selected, opens, crossed, lost>>

\* The process ends, and the listeners with it.
Restart ==
    /\ home' = FALSE /\ rates' = FALSE
    /\ heard' = <<>> /\ list' = <<>> /\ early' = FALSE
    /\ Untapped
    /\ UNCHANGED server

Heard == \E l \in DOMAIN heard, v \in 1..server : Snapshot(l, v)

ProductEnds(b) == ProductFound(b) \/ ProductMissing(b) \/ ProductThrows(b)

Next ==
    \/ OpenHome \/ LeaveHome \/ RatesAnswered \/ RatesFail \/ ServerChanges
    \/ Heard \/ LeaveDetails \/ Restart
    \/ \E b \in Banner : TapBanner(b) \/ ProductEnds(b)

\* Firestore calls its listeners and the shop answers, or getProduct throws; the
\* user owes nothing.
Fairness == WF_vars(Heard) /\ WF_vars(\E b \in Banner : ProductEnds(b))

Spec == Init /\ [][Next]_vars /\ Fairness

-----------------------------------------------------------------------------
(***************************************************************************)
(* Properties                                                              *)
(***************************************************************************)

BannersTypeOK ==
    /\ {home, rates, early, crossed, lost} \subseteq BOOLEAN
    /\ server \in 1..MaxVersion
    /\ heard \in Seq(0..MaxVersion) /\ Len(heard) <= MaxListeners
    /\ list \in Seq(1..MaxVersion) /\ Len(list) <= MaxListeners * MaxVersion
    /\ selected \in Banner \cup {None}
    /\ opens \in [Banner -> 0..MaxOpens] /\ above \in 0..MaxOpens

\* However often HOME is built, a version of the banners is shown once, unless
\* HOME was built anew before the first snapshot came: then two listeners fill
\* the list, from then on.
BannersOnce ==
    ~early => \A i, j \in DOMAIN list : list[i] = list[j] => i = j

\* What the shop shows comes to the list, after whatever was there before.
BannersFollow ==
    heard # <<>> ~> (heard = <<>> \/ \E i \in DOMAIN list : list[i] = server)

\* A tap opens one Details page, however impatient the user: a second one comes
\* only when another banner was tapped in between.
OneDetailsPerTap == ~crossed => Opening <= 1

\* A banner's spinner ends, unless getProduct threw.
BannerSpinnerEnds ==
    \A b \in Banner : selected = b ~> (selected # b \/ lost)
=============================================================================
