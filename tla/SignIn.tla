------------------------------- MODULE SignIn -------------------------------
(***************************************************************************)
(* The Login page and the SignUp page above it: their forms, the requests  *)
(* they send, and the pops that the answers cause, whatever page is on top *)
(* by then.  Whose account it is, and what is stored of it, is in Session. *)
(***************************************************************************)
EXTENDS Naturals, FiniteSets

CONSTANTS
    Slot,   \* bound on the requests under way: one each
    Free    \* no request

VARIABLES
    route,      \* "signup" above "login" above "tabs"; "blank": no page
    loginLoad,  \* Login: the flag load
    signUpLoad, \* SignUp: the flag load
    signed,     \* is somebody signed in?
    asks,       \* asks[k]: what for, and whether its page is there by now
    slid,       \* history: a page popped another one while it slid out
    unheard,    \* history: a wallet read of the Login page threw
    lost        \* history: so did the registration of the SignUp page

pageVars == <<route, loginLoad, signUpLoad>>
history == <<slid, unheard, lost>>
vars == <<pageVars, signed, asks, history>>

\* The requests that each page waits for.
Of == [signup |-> {"signup"}, login |-> {"login", "wallet"}, tabs |-> {},
       blank |-> {}]

Ask == [for : {"signup", "login", "wallet"}, by : {"page", "leaving", "gone"}]

SignInAssumption == Free \notin Ask

Under == [signup |-> "login", login |-> "tabs", tabs |-> "blank", blank |-> "blank"]

Waiting(kind) ==
    {k \in Slot : asks[k] # Free /\ asks[k].for = kind /\ asks[k].by = "page"}

Init ==
    /\ route = "tabs" /\ loginLoad = FALSE /\ signUpLoad = FALSE /\ signed = FALSE
    /\ asks = [k \in Slot |-> Free]
    /\ slid = FALSE /\ unheard = FALSE /\ lost = FALSE

-----------------------------------------------------------------------------
(***************************************************************************)
(* The pages                                                               *)
(***************************************************************************)

\* LOGIN of the Profile tab, or CHECKOUT without a token.
OpenLogin ==
    /\ route = "tabs" /\ ~signed
    /\ route' = "login" /\ loginLoad' = FALSE /\ unheard' = FALSE
    /\ UNCHANGED <<signUpLoad, signed, asks, slid, lost>>

\* Also while a login is under way: only its own button waits.
OpenSignUp ==
    /\ route = "login"
    /\ route' = "signup" /\ signUpLoad' = FALSE /\ lost' = FALSE
    /\ UNCHANGED <<loginLoad, signed, asks, slid, unheard>>

\* Faulty: its requests are taken for those of a page that is there.
Pop_Forgets(rs) == route' = Under[route] /\ asks' = rs

\* The page on top goes; what it waits for finds it sliding out.
Pop(rs) ==
    /\ route' = Under[route]
    /\ asks' = [k \in Slot |->
                   IF rs[k] # Free /\ rs[k].for \in Of[route] /\ rs[k].by = "page"
                     THEN [rs[k] EXCEPT !.by = "leaving"] ELSE rs[k]]

\* Back, or "Already have an account?" of SignUp.
Leave ==
    /\ route \in {"signup", "login"}
    /\ Pop(asks)
    /\ UNCHANGED <<loginLoad, signUpLoad, signed, history>>

\* A page that was left has slid out.
TransitionEnds(page) ==
    /\ \E k \in Slot :
         asks[k] # Free /\ asks[k].for \in Of[page] /\ asks[k].by = "leaving"
    /\ asks' = [k \in Slot |->
                   IF asks[k] # Free /\ asks[k].for \in Of[page]
                                     /\ asks[k].by = "leaving"
                     THEN [asks[k] EXCEPT !.by = "gone"] ELSE asks[k]]
    /\ UNCHANGED <<pageVars, signed, history>>

\* LOG OUT of the Profile tab.
Logout ==
    /\ route = "tabs" /\ signed
    /\ signed' = FALSE
    /\ UNCHANGED <<pageVars, asks, history>>

-----------------------------------------------------------------------------
(***************************************************************************)
(* The forms                                                               *)
(***************************************************************************)

Send(k, what) ==
    /\ asks[k] = Free
    /\ asks' = [asks EXCEPT ![k] = [for |-> what, by |-> "page"]]

PressLogin(k) ==
    /\ route = "login" /\ ~loginLoad
    /\ loginLoad' = TRUE
    /\ Send(k, "login")
    /\ UNCHANGED <<route, signUpLoad, signed, history>>

\* Faulty: the button does not wait.
PressSignUp_Again(k) ==
    /\ route = "signup"
    /\ signUpLoad' = TRUE
    /\ Send(k, "signup")
    /\ UNCHANGED <<route, loginLoad, signed, history>>

\* Of a form without faults; the others leave createUser with a toast, and load
\* is false again.
PressSignUp(k) ==
    /\ route = "signup" /\ ~signUpLoad
    /\ signUpLoad' = TRUE
    /\ Send(k, "signup")
    /\ UNCHANGED <<route, loginLoad, signed, history>>

-----------------------------------------------------------------------------
(***************************************************************************)
(* The answers                                                             *)
(***************************************************************************)

Ended(k) == [asks EXCEPT ![k] = Free]

\* Navigator.pop with the context of the page that sent asks[k]: nothing when
\* it is gone; the page on top goes, its own or not.
PopFor(k) ==
    IF asks[k].by = "gone" THEN asks' = Ended(k) /\ UNCHANGED <<route, slid>>
    ELSE Pop(Ended(k)) /\ slid' = (slid \/ asks[k].by = "leaving")

\* loginUser swallows every exception: load is false again.
LoginRefused(k) ==
    /\ asks' = Ended(k)
    /\ loginLoad' = (loginLoad /\ asks[k].by # "page")
    /\ UNCHANGED <<route, signUpLoad, signed, history>>

\* Faulty: Login waits for the wallet as well.
LoginAnswered_Waits(k) ==
    /\ signed' = TRUE
    /\ asks' = IF asks[k].by = "gone" THEN Ended(k)
               ELSE [asks EXCEPT ![k].for = "wallet"]
    /\ UNCHANGED <<pageVars, history>>

\* The user is signed in and load is false before the wallet is asked for, with
\* the context of the page: Provider.of throws when it is gone.
LoginAnswered(k) ==
    /\ signed' = TRUE
    /\ loginLoad' = (loginLoad /\ asks[k].by # "page")
    /\ asks' = IF asks[k].by = "gone" THEN Ended(k)
               ELSE [asks EXCEPT ![k].for = "wallet"]
    /\ UNCHANGED <<route, signUpLoad, history>>

\* Faulty: the page on top goes without a look at whose it is.
WalletRead_Always(k) ==
    /\ Pop(Ended(k)) /\ slid' = (slid \/ asks[k].by = "leaving")
    /\ UNCHANGED <<loginLoad, signUpLoad, signed, unheard, lost>>

\* Faulty: the pop belongs to a balance that was stored.
WalletRead_IfStored(k) ==
    /\ PopFor(k) \/ (asks' = Ended(k) /\ UNCHANGED <<route, slid>>)
    /\ UNCHANGED <<loginLoad, signUpLoad, signed, unheard, lost>>

\* The wallet's answer, with any status: the pop.
WalletRead(k) ==
    /\ PopFor(k)
    /\ UNCHANGED <<loginLoad, signUpLoad, signed, unheard, lost>>

\* getWalletDetails rethrows: no pop.
WalletThrows(k) ==
    /\ asks' = Ended(k)
    /\ unheard' = (unheard \/ asks[k].by = "page")
    /\ UNCHANGED <<pageVars, signed, slid, lost>>

\* "Registration Completed": the pop, then load, of a page that is gone or going.
SignUpAnswered(k) ==
    /\ PopFor(k)
    /\ signUpLoad' = (signUpLoad /\ asks[k].by # "page")
    /\ UNCHANGED <<loginLoad, signed, unheard, lost>>

\* Faulty: the message and nothing else.
SignUpRefused_Toast(k) ==
    /\ asks' = Ended(k)
    /\ UNCHANGED <<pageVars, signed, history>>

\* The answer has a "message": a toast.
SignUpRefused(k) ==
    /\ asks' = Ended(k)
    /\ signUpLoad' = (signUpLoad /\ asks[k].by # "page")
    /\ UNCHANGED <<route, loginLoad, signed, history>>

\* createUser catches nothing: the spinner stays.
SignUpThrows(k) ==
    /\ asks' = Ended(k)
    /\ lost' = (lost \/ asks[k].by = "page")
    /\ UNCHANGED <<pageVars, signed, slid, unheard>>

\* The process ends; who is signed in, stays.
Restart ==
    /\ route' = "tabs" /\ loginLoad' = FALSE /\ signUpLoad' = FALSE
    /\ asks' = [k \in Slot |-> Free]
    /\ slid' = FALSE /\ unheard' = FALSE /\ lost' = FALSE
    /\ UNCHANGED signed

Ends(k) ==
    /\ asks[k] # Free
    /\ \/ asks[k].for = "login" /\ (LoginAnswered(k) \/ LoginRefused(k))
       \/ asks[k].for = "wallet" /\ (WalletRead(k) \/ WalletThrows(k))
       \/ /\ asks[k].for = "signup"
          /\ SignUpAnswered(k) \/ SignUpRefused(k) \/ SignUpThrows(k)

Next ==
    \/ OpenLogin \/ OpenSignUp \/ Leave \/ Logout \/ Restart
    \/ \E page \in {"signup", "login"} : TransitionEnds(page)
    \/ \E k \in Slot : PressLogin(k) \/ PressSignUp(k) \/ Ends(k)

\* Every request ends, with an answer or an exception; the user owes nothing.
Fairness == \A k \in Slot : WF_vars(Ends(k))

Spec == Init /\ [][Next]_vars /\ Fairness

-----------------------------------------------------------------------------
(***************************************************************************)
(* Properties                                                              *)
(***************************************************************************)

\* A page that waits is on top, or under SignUp.
SignInTypeOK ==
    /\ route \in DOMAIN Under
    /\ {loginLoad, signUpLoad, signed, slid, unheard, lost} \subseteq BOOLEAN
    /\ asks \in [Slot -> Ask \cup {Free}]
    /\ Waiting("signup") # {} => route = "signup"
    /\ Waiting("login") \cup Waiting("wallet") # {} => route \in {"signup", "login"}

\* One registration is sent at a time by a SignUp page, and one login by a Login
\* page: also when the page was covered, or popped by the answer of another.
OneFormAtATime ==
    Cardinality(Waiting("signup")) <= 1 /\ Cardinality(Waiting("login")) <= 1

\* A form that shows its spinner waits for a request that is its own, unless
\* its registration threw.
FormsWait ==
    /\ route = "signup" /\ signUpLoad /\ ~lost => Waiting("signup") # {}
    /\ route \in {"signup", "login"} /\ loginLoad => Waiting("login") # {}

\* The tabs, and with them the app, go only when the answer to a page comes in
\* the moment in which it slides out; no other order of answers and pages left
\* ends in a screen without a page.
TabsStay == route = "blank" => slid

\* Whoever signed in leaves the Login page: it is popped, or covered by SignUp,
\* unless the wallet read threw.
LoginCloses ==
    (route = "login" /\ Waiting("wallet") # {}) ~> (route # "login" \/ unheard)

\* The spinners end; that of a registration unless it threw.
FormSpinnersEnd ==
    /\ loginLoad ~> (~loginLoad \/ route \in {"tabs", "blank"})
    /\ signUpLoad ~> (~signUpLoad \/ lost \/ route # "signup")
=============================================================================
