------------------------------ MODULE Reviews ------------------------------
(***************************************************************************)
(* The RatingAndReview page, the sheet on it that sends a rating, and the  *)
(* list reviewModelAll and the flags that the pages of all products share. *)
(*                                                                         *)
(* A page of reviews is the product, its index and the number of ratings   *)
(* the app had added when the server read it.  load and paginationLoad are *)
(* set together and are one flag here.  The text of a review is left out.  *)
(***************************************************************************)
EXTENDS Naturals, FiniteSets, Sequences, SequencesExt

CONSTANTS
    Product,    \* the products
    None,       \* no product
    PageSize,   \* reviews of a page (10: the default of WooCommerce)
    Total,      \* Total[p]: the reviews of p that others wrote
    MaxAsks,    \* bound on the reads under way
    MaxPages,   \* bound on the pages of reviews in the list
    MaxRatings  \* bound on the ratings sent for a product

ASSUME ReviewsAssumption ==
    /\ None \notin Product
    /\ Total \in [Product -> Nat]
    /\ {PageSize, MaxAsks, MaxPages} \subseteq Nat \ {0} /\ MaxRatings \in Nat

VARIABLES
    page,         \* the product whose RatingAndReview page is on top, or None
    sheet,        \* is the sheet "Rate this Product" above it?
    list,         \* reviewModelAll: the pages it was filled with, in order
    load,         \* the flags load and paginationLoad
    creatingLoad, \* the flag creatingLoad
    asks,         \* getReview under way; then: whose callback waits, that of a
                  \* createRating with its sheet there, sliding out or gone
    posts,        \* POST of a rating under way, and whether it was stored
    ratings,      \* the server: ratings the app added to a product
    asked,        \* history: products asked for since, or at, the last emptying
    rated,        \* history: the rating it was emptied for, once read back: the
                  \* product, and the app's ratings of it at the read
    lost          \* history: a request threw

listVars == <<list, load>>
history == <<asked, rated, lost>>
vars == <<page, sheet, listVars, creatingLoad, asks, posts, ratings, history>>

By == {"sheet", "leaving", "gone"}
Chunk == [of : Product, page : Nat \ {0}, v : 0..MaxRatings]
Ask == [of : Product, page : Nat \ {0}, v : 0..MaxRatings,
        then : By \cup {"nobody"}]
Post == [of : Product, stored : BOOLEAN, by : By]

\* The reviews of a page: what is left of the product's, at most PageSize.
PageLen(c) ==
    LET skipped == (c.page - 1) * PageSize  all == Total[c.of] + c.v
    IN IF all <= skipped THEN 0
       ELSE IF all - skipped <= PageSize THEN all - skipped ELSE PageSize

\* reviewModelAll.length
Length == FoldSeq(LAMBDA c, n : PageLen(c) + n, 0, list)

Init ==
    /\ page = None /\ sheet = FALSE
    /\ list = <<>> /\ load = TRUE /\ creatingLoad = FALSE
    /\ asks = {} /\ posts = {} /\ ratings = [p \in Product |-> 0]
    /\ asked = {} /\ rated = None /\ lost = FALSE

-----------------------------------------------------------------------------
\* Bounds on what the user asks for.
Room == Cardinality(asks) < MaxAsks /\ Len(list) + Cardinality(asks) < MaxPages

\* getReview up to its await; v: the server has no less when it reads.  (One
\* request of a kind at a time.)
getReview(p, index, who) ==
    LET r == [of |-> p, page |-> index, v |-> ratings[p], then |-> who] IN
    /\ r \notin asks
    /\ asks' = asks \cup {r}
    /\ load' = TRUE

\* initState asks for the first page; what the list holds, stays.
OpenPage(p) ==
    /\ page = None /\ Room
    /\ page' = p
    /\ getReview(p, 1, "nobody")
    /\ asked' = asked \cup {p}
    /\ UNCHANGED <<sheet, list, creatingLoad, posts, ratings, rated, lost>>

LeavePage ==
    /\ page # None /\ ~sheet
    /\ page' = None
    /\ UNCHANGED <<sheet, listVars, creatingLoad, asks, posts, ratings>>
    /\ UNCHANGED history

\* Faulty: the pages counted from zero.
Scroll_FromZero ==
    /\ page # None /\ ~sheet
    /\ Length > PageSize /\ Room
    /\ getReview(page, Length \div PageSize - 1, "nobody")
    /\ asked' = asked \cup {page}
    /\ UNCHANGED <<page, sheet, list, creatingLoad, posts, ratings>>
    /\ UNCHANGED <<rated, lost>>

\* The end of the list is reached: the next page, by the length of it all.
Scroll ==
    /\ page # None /\ ~sheet
    /\ Length > PageSize /\ Room
    /\ getReview(page, Length \div PageSize + 1, "nobody")
    /\ asked' = asked \cup {page}
    /\ UNCHANGED <<page, sheet, list, creatingLoad, posts, ratings>>
    /\ UNCHANGED <<rated, lost>>

OpenSheet ==
    /\ page # None /\ ~sheet
    /\ sheet' = TRUE
    /\ UNCHANGED <<page, listVars, creatingLoad, asks, posts, ratings, history>>

\* What createRating finds of its sheet: it still slides out, then it is gone.
Sheet(a, b) ==
    /\ asks' = {IF r.then = a THEN [r EXCEPT !.then = b] ELSE r : r \in asks}
    /\ posts' = {IF w.by = a THEN [w EXCEPT !.by = b] ELSE w : w \in posts}

\* Faulty: the sheet takes its spinner along.
CloseSheet_Resets ==
    /\ sheet
    /\ sheet' = FALSE /\ creatingLoad' = FALSE
    /\ Sheet("sheet", "leaving")
    /\ UNCHANGED <<page, listVars, ratings, history>>

CloseSheet ==
    /\ sheet
    /\ sheet' = FALSE
    /\ Sheet("sheet", "leaving")
    /\ UNCHANGED <<page, listVars, creatingLoad, ratings, history>>

TransitionEnds ==
    /\ \/ \E r \in asks : r.then = "leaving"
       \/ \E w \in posts : w.by = "leaving"
    /\ Sheet("leaving", "gone")
    /\ UNCHANGED <<page, sheet, listVars, creatingLoad, ratings, history>>

-----------------------------------------------------------------------------
(***************************************************************************)
(* createRating                                                            *)
(***************************************************************************)

\* SUBMIT.
Submit ==
    /\ sheet /\ ~creatingLoad
    /\ ratings[page] + Cardinality({w \in posts : w.of = page}) < MaxRatings
    /\ creatingLoad' = TRUE
    /\ posts' = posts \cup {[of |-> page, stored |-> FALSE, by |-> "sheet"]}
    /\ UNCHANGED <<page, sheet, listVars, asks, ratings, history>>

\* SUBMIT without a user: name and email are null and post throws at once.
\* createRating swallows it, and creatingLoad stays.
SubmitUnsigned ==
    /\ sheet /\ ~creatingLoad
    /\ creatingLoad' = TRUE /\ lost' = TRUE
    /\ UNCHANGED <<page, sheet, listVars, asks, posts, ratings, asked, rated>>

\* The server stores the rating.
RatingStored(w) ==
    /\ ~w.stored
    /\ posts' = (posts \ {w}) \cup {[w EXCEPT !.stored = TRUE]}
    /\ ratings' = [ratings EXCEPT ![w.of] = @ + 1]
    /\ UNCHANGED <<page, sheet, listVars, creatingLoad, asks, history>>

\* Faulty: what the list holds, stays.
RatingAnswered_Keeps(w) ==
    /\ w.stored
    /\ posts' = posts \ {w}
    /\ getReview(w.of, 1, w.by)
    /\ asked' = {r.of : r \in asks} \cup {w.of} /\ rated' = None
    /\ UNCHANGED <<page, sheet, list, creatingLoad, ratings, lost>>

\* Faulty: the rating is answered, the sheet stays and waits.
RatingAnswered_NoThen(w) ==
    /\ w.stored
    /\ posts' = posts \ {w}
    /\ list' = <<>>
    /\ getReview(w.of, 1, "nobody")
    /\ asked' = {r.of : r \in asks} \cup {w.of} /\ rated' = None
    /\ UNCHANGED <<page, sheet, creatingLoad, ratings, lost>>

\* 200 or 201: the list is emptied and the product's reviews are read anew.
RatingAnswered(w) ==
    /\ w.stored
    /\ posts' = posts \ {w}
    /\ list' = <<>>
    /\ getReview(w.of, 1, w.by)
    /\ asked' = {r.of : r \in asks} \cup {w.of} /\ rated' = None
    /\ UNCHANGED <<page, sheet, creatingLoad, ratings, lost>>

\* Another status, whether it was stored or not: SUBMIT comes back.
RatingRefused(w) ==
    /\ posts' = posts \ {w}
    /\ creatingLoad' = FALSE
    /\ UNCHANGED <<page, sheet, listVars, asks, ratings, history>>

\* post throws, stored or not: swallowed as above.
RatingThrows(w) ==
    /\ posts' = posts \ {w}
    /\ lost' = TRUE
    /\ UNCHANGED <<page, sheet, listVars, creatingLoad, asks, ratings>>
    /\ UNCHANGED <<asked, rated>>

-----------------------------------------------------------------------------
\* After getReview: creatingLoad = false, then the pop of the page on top;
\* it throws when the sheet is gone.
Then(r) ==
    /\ creatingLoad' = (creatingLoad /\ r.then = "nobody")
    /\ sheet' = (sheet /\ r.then \notin {"sheet", "leaving"})
    /\ page' = IF ~sheet /\ r.then = "leaving" THEN None ELSE page

\* Faulty: reviews of a product that is not on the screen are not kept.
Answered_IfShown(r, v) ==
    /\ asks' = asks \ {r}
    /\ list' = IF r.of # page THEN list
               ELSE Append(list, [of |-> r.of, page |-> r.page, v |-> v])
    /\ load' = FALSE
    /\ Then(r)
    /\ rated' = IF r.then \in By THEN [of |-> r.of, v |-> r.v] ELSE rated
    /\ UNCHANGED <<posts, ratings, asked, lost>>

\* 200; the server had v ratings of the app.
Answered(r, v) ==
    /\ asks' = asks \ {r}
    /\ list' = Append(list, [of |-> r.of, page |-> r.page, v |-> v])
    /\ load' = FALSE
    /\ Then(r)
    /\ rated' = IF r.then \in By THEN [of |-> r.of, v |-> r.v] ELSE rated
    /\ UNCHANGED <<posts, ratings, asked, lost>>

\* Faulty: a toast and nothing else.
Refused_Toast(r) ==
    /\ asks' = asks \ {r}
    /\ UNCHANGED <<page, sheet, listVars, creatingLoad, posts, ratings, history>>

\* Another status: a toast, and the flags.
Refused(r) ==
    /\ asks' = asks \ {r}
    /\ load' = FALSE
    /\ Then(r)
    /\ UNCHANGED <<list, posts, ratings, history>>

\* get throws: no flag is reset, no callback runs.
Throws(r) ==
    /\ asks' = asks \ {r}
    /\ lost' = TRUE
    /\ UNCHANGED <<page, sheet, listVars, creatingLoad, posts, ratings>>
    /\ UNCHANGED <<asked, rated>>

\* The process ends: only the server remembers.  (With requests under way,
\* which end then, it leaves no other state.)
Restart ==
    /\ asks = {} /\ posts = {}
    /\ page' = None /\ sheet' = FALSE
    /\ list' = <<>> /\ load' = TRUE /\ creatingLoad' = FALSE
    /\ asked' = {} /\ rated' = None /\ lost' = FALSE
    /\ UNCHANGED <<asks, posts, ratings>>

ReadEnds(r) == \/ \E v \in r.v .. ratings[r.of] : Answered(r, v)
               \/ Refused(r) \/ Throws(r)

Posted(w) == RatingAnswered(w) \/ RatingRefused(w) \/ RatingThrows(w)

Next ==
    \/ \E p \in Product : OpenPage(p)
    \/ LeavePage \/ Scroll \/ OpenSheet \/ CloseSheet \/ TransitionEnds
    \/ Submit \/ SubmitUnsigned \/ Restart
    \/ \E r \in asks : ReadEnds(r)
    \/ \E w \in posts : RatingStored(w) \/ Posted(w)

\* Requests end, with an answer or an exception: a read, and what createRating
\* waits for.  The user owes nothing, and neither does the server.
Fairness ==
    /\ WF_vars(\E r \in asks : ReadEnds(r))
    /\ WF_vars(\/ \E r \in asks : r.then # "nobody" /\ ReadEnds(r)
               \/ \E w \in posts : Posted(w))

Spec == Init /\ [][Next]_vars /\ Fairness

-----------------------------------------------------------------------------
(***************************************************************************)
(* Properties                                                              *)
(***************************************************************************)

ReviewsTypeOK ==
    /\ page \in Product \cup {None} /\ sheet \in BOOLEAN
    /\ list \in Seq(Chunk) /\ Len(list) <= MaxPages + 1
    /\ {load, creatingLoad, lost} \subseteq BOOLEAN
    /\ asks \subseteq Ask /\ posts \subseteq Post
    /\ ratings \in [Product -> 0..MaxRatings]
    /\ asked \subseteq Product
    /\ rated \in [of : Product, v : 0..MaxRatings] \cup {None}

\* One rating is sent at a time, whatever sheet of whatever product: SUBMIT
\* is gone from the tap to the end of the read that follows.
OneRatingAtATime ==
    Cardinality(posts) + Cardinality({r \in asks : r.then # "nobody"}) <= 1

\* A sheet shows SUBMIT only when no rating is being sent, and the spinner
\* only while one is, unless a request threw.
SubmitIsBack ==
    ~lost => (creatingLoad <=> posts # {} \/ \E r \in asks : r.then # "nobody")

\* A rating that was answered is among the reviews once they were read back:
\* the first page in the list has it, also when older answers come late.
RatingIsShown ==
    rated # None =>
        \E k \in DOMAIN list : /\ list[k].of = rated.of /\ list[k].page = 1
                               /\ list[k].v >= rated.v /\ rated.v > 0

\* After a rating nothing from before stays in the list, only what was asked
\* for since, or was under way.
EmptiedByRating == \A k \in DOMAIN list : list[k].of \in asked

\* Both spinners end, unless a request threw.
ReviewSpinnersEnd ==
    /\ creatingLoad ~> (~creatingLoad \/ lost)
    /\ (load /\ asks # {}) ~> (~load \/ lost)

\* As the header with the product's name and "Reviews" says: the reviews on the
\* page are those of the product.
ReviewsOfProduct ==
    page # None => \A k \in DOMAIN list : list[k].of = page
=============================================================================
