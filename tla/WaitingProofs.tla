---------------------------- MODULE WaitingProofs ----------------------------
(***************************************************************************)
(* Theorems about Reviews, Search, Banners and SignIn for every set of     *)
(* products, words and banners and every bound: what a page waits for is   *)
(* under way, once, and what it shows is what was asked for.               *)
(***************************************************************************)
EXTENDS MCWaiting, FiniteSetTheorems, SequenceTheorems, WellFoundedInduction, TLAPS

-----------------------------------------------------------------------------
(***************************************************************************)
(* Login and SignUp                                                        *)
(***************************************************************************)

\* What a page waits for shows in its flag, and is one thing at a time.
WaitInv ==
    /\ \A k, l \in I!Waiting("signup") : k = l
    /\ \A k, l \in I!Waiting("login") : k = l
    /\ I!Waiting("signup") # {} => signUpLoad
    /\ I!Waiting("login") # {} => loginLoad
    /\ I!FormsWait

\* The invariant: late pops find a page only while they slide out.
FormsInv == I!SignInTypeOK /\ I!TabsStay /\ WaitInv

LEMMA FormsStart ==
    ASSUME I!SignInAssumption, I!Init
    PROVE  FormsInv
<1>1. \A kind : I!Waiting(kind) = {}
  BY DEF I!Init, I!Waiting
<1>2. I!SignInTypeOK
  BY <1>1 DEF I!Init, I!SignInTypeOK, I!Under
<1>3. I!TabsStay /\ WaitInv
  BY <1>1 DEF I!Init, I!TabsStay, WaitInv, I!FormsWait
<1> QED
  BY <1>2, <1>3 DEF FormsInv

\* The page on top goes, and nothing that it waits for waits for it any more.
LEMMA PopForms ==
    ASSUME I!SignInAssumption, I!SignInTypeOK,
           NEW rs \in [Slot -> I!Ask \cup {Free}], I!Pop(rs),
           \A k \in Slot : rs[k] # Free => rs[k] = forms[k]
    PROVE  /\ forms' \in [Slot -> I!Ask \cup {Free}]
           /\ signRoute' \in {"login", "tabs", "blank"}
           /\ signRoute \in {"signup", "login"} => signRoute' # "blank"
           /\ signRoute' = "login" => signRoute = "signup"
           /\ I!Waiting("signup")' = {}
           /\ signRoute' = "login" =>
                /\ I!Waiting("login")' =
                     {k \in I!Waiting("login") : rs[k] # Free}
                /\ I!Waiting("wallet")' =
                     {k \in I!Waiting("wallet") : rs[k] # Free}
           /\ signRoute' # "login" =>
                I!Waiting("login")' = {} /\ I!Waiting("wallet")' = {}
<1>1. /\ signRoute \in {"signup", "login", "tabs", "blank"}
      /\ I!Waiting("signup") # {} => signRoute = "signup"
      /\ I!Waiting("login") \cup I!Waiting("wallet") # {}
           => signRoute \in {"signup", "login"}
  BY DEF I!SignInTypeOK, I!Under
<1>2. /\ signRoute' \in {"login", "tabs", "blank"}
      /\ signRoute \in {"signup", "login"} => signRoute' # "blank"
      /\ signRoute' = "login" <=> signRoute = "signup"
  BY <1>1 DEF I!Pop, I!Under
<1> DEFINE G(k) == rs[k].for \in I!Of[signRoute] /\ rs[k].by = "page"
<1>3. /\ forms' = [k \in Slot |-> IF rs[k] # Free /\ G(k)
                     THEN [rs[k] EXCEPT !.by = "leaving"] ELSE rs[k]]
  BY DEF I!Pop
<1>4. ASSUME NEW k \in Slot, rs[k] # Free
      PROVE  /\ rs[k] \in I!Ask /\ rs[k] = forms[k]
             /\ [rs[k] EXCEPT !.by = "leaving"] \in I!Ask
             /\ [rs[k] EXCEPT !.by = "leaving"].by = "leaving"
  BY <1>4 DEF I!Ask
<1>5. forms' \in [Slot -> I!Ask \cup {Free}]
  BY <1>3, <1>4
<1>6. ASSUME NEW kind, kind \in I!Of[signRoute]
      PROVE  I!Waiting(kind)' = {}
  BY <1>3, <1>4, <1>6 DEF I!Waiting
<1>7. ASSUME NEW kind, kind \notin I!Of[signRoute]
      PROVE  I!Waiting(kind)' = {k \in I!Waiting(kind) : rs[k] # Free}
  BY <1>3, <1>4, <1>7 DEF I!Waiting
<1>8. I!Of = [signup |-> {"signup"}, login |-> {"login", "wallet"}, tabs |-> {},
              blank |-> {}]
  BY DEF I!Of
<1>9. I!Waiting("signup")' = {}
  BY <1>1, <1>6, <1>7, <1>8
<1>10. signRoute' = "login" =>
         /\ I!Waiting("login")' = {k \in I!Waiting("login") : rs[k] # Free}
         /\ I!Waiting("wallet")' = {k \in I!Waiting("wallet") : rs[k] # Free}
  BY <1>2, <1>7, <1>8
<1>11. signRoute' # "login" =>
         I!Waiting("login")' = {} /\ I!Waiting("wallet")' = {}
  BY <1>1, <1>2, <1>6, <1>7, <1>8
<1> QED
  BY <1>2, <1>5, <1>9, <1>10, <1>11

\* A request that ended is not waited for; nothing else changes.
LEMMA EndedIs ==
    ASSUME I!SignInAssumption, I!SignInTypeOK, NEW k \in Slot
    PROVE  /\ I!Ended(k) \in [Slot -> I!Ask \cup {Free}]
           /\ I!Ended(k)[k] = Free
           /\ \A l \in Slot \ {k} : I!Ended(k)[l] = forms[l]
           /\ \A l \in Slot : I!Ended(k)[l] # Free => I!Ended(k)[l] = forms[l]
  BY DEF I!Ended, I!SignInTypeOK

\* The ends without a pop.
LEMMA EndedForms ==
    ASSUME I!SignInAssumption, I!SignInTypeOK, NEW k \in Slot, forms' = I!Ended(k)
    PROVE  \A kind : I!Waiting(kind)' = I!Waiting(kind) \ {k}
<1>1. ASSUME NEW kind
      PROVE  I!Waiting(kind)' = I!Waiting(kind) \ {k}
  BY EndedIs DEF I!Waiting
<1> QED
  BY <1>1

\* Only the page of a waiting request is closed by its answer.
LEMMA PopForForms ==
    ASSUME I!SignInAssumption, I!SignInTypeOK, I!TabsStay, NEW k \in Slot,
           forms[k] # Free, forms[k].for \in {"signup", "wallet"}, I!PopFor(k)
    PROVE  /\ forms' \in [Slot -> I!Ask \cup {Free}]
           /\ signRoute' \in DOMAIN I!Under /\ slid' \in BOOLEAN
           /\ signRoute' = "blank" => slid'
           /\ signRoute' = "signup" => signRoute = "signup"
           /\ signRoute' \in {"signup", "login"} =>
                /\ signRoute \in {"signup", "login"}
                /\ I!Waiting("login")' = I!Waiting("login") \ {k}
                /\ I!Waiting("wallet")' = I!Waiting("wallet") \ {k}
           /\ signRoute' \notin {"signup", "login"} =>
                I!Waiting("login")' = {} /\ I!Waiting("wallet")' = {}
           /\ signRoute' = "signup" =>
                I!Waiting("signup")' = I!Waiting("signup") \ {k}
           /\ signRoute' # "signup" => I!Waiting("signup")' = {}
<1>1. /\ I!Ended(k) \in [Slot -> I!Ask \cup {Free}]
      /\ \A l \in Slot : I!Ended(k)[l] # Free => I!Ended(k)[l] = forms[l]
      /\ \A kind : {l \in I!Waiting(kind) : I!Ended(k)[l] # Free}
                     = I!Waiting(kind) \ {k}
  BY EndedIs DEF I!Waiting
<1>2. /\ signRoute \in {"signup", "login", "tabs", "blank"}
      /\ slid \in BOOLEAN /\ (signRoute = "blank" => slid)
      /\ DOMAIN I!Under = {"signup", "login", "tabs", "blank"}
      /\ I!Waiting("signup") # {} => signRoute = "signup"
      /\ I!Waiting("login") # {} => signRoute \in {"signup", "login"}
      /\ I!Waiting("wallet") # {} => signRoute \in {"signup", "login"}
  BY DEF I!SignInTypeOK, I!Under, I!TabsStay
<1>3. CASE forms[k].by = "gone"
  <2>1. forms' = I!Ended(k) /\ signRoute' = signRoute /\ slid' = slid
    BY <1>3 DEF I!PopFor
  <2>2. \A kind : I!Waiting(kind)' = I!Waiting(kind) \ {k}
    BY <2>1, EndedForms
  <2>3. /\ forms' \in [Slot -> I!Ask \cup {Free}]
        /\ signRoute' \in DOMAIN I!Under /\ slid' \in BOOLEAN
        /\ signRoute' = "blank" => slid'
    <3>1. forms' \in [Slot -> I!Ask \cup {Free}]
      BY <1>1, <2>1
    <3>2. signRoute' \in DOMAIN I!Under
      BY ONLY <1>2, <2>1
    <3>3. slid' \in BOOLEAN /\ (signRoute' = "blank" => slid')
      BY ONLY <1>2, <2>1
    <3> QED
      BY <3>1, <3>2, <3>3
  <2>4. /\ I!Waiting("signup")' = I!Waiting("signup") \ {k}
        /\ I!Waiting("login")' = I!Waiting("login") \ {k}
        /\ I!Waiting("wallet")' = I!Waiting("wallet") \ {k}
    BY <2>2
  <2>5. signRoute \notin {"signup", "login"} =>
          I!Waiting("login")' = {} /\ I!Waiting("wallet")' = {}
    BY <1>2, <2>4
  <2>6. signRoute # "signup" => I!Waiting("signup")' = {}
    BY <1>2, <2>4
  <2> QED
    BY ONLY <1>2, <2>1, <2>3, <2>4, <2>5, <2>6
<1>4. CASE forms[k].by # "gone"
  <2>1. I!Pop(I!Ended(k)) /\ slid' = (slid \/ forms[k].by = "leaving")
    BY <1>4 DEF I!PopFor
  <2>2. forms[k].by = "page" => signRoute \in {"signup", "login"}
    <3>1. forms[k].by = "page" =>
            k \in I!Waiting("signup") \/ k \in I!Waiting("wallet")
      BY DEF I!Waiting
    <3> QED
      BY <1>2, <3>1
  <2>3. forms[k].by \in {"page", "leaving"}
    BY <1>4 DEF I!SignInTypeOK, I!Ask
  <2>4. /\ forms' \in [Slot -> I!Ask \cup {Free}]
        /\ signRoute' \in {"login", "tabs", "blank"}
        /\ signRoute \in {"signup", "login"} => signRoute' # "blank"
        /\ signRoute' = "login" => signRoute = "signup"
        /\ I!Waiting("signup")' = {}
        /\ signRoute' = "login" =>
             /\ I!Waiting("login")' = I!Waiting("login") \ {k}
             /\ I!Waiting("wallet")' = I!Waiting("wallet") \ {k}
        /\ signRoute' # "login" =>
             I!Waiting("login")' = {} /\ I!Waiting("wallet")' = {}
    <3> DEFINE rs == I!Ended(k)
    <3>1. /\ rs \in [Slot -> I!Ask \cup {Free}] /\ I!Pop(rs)
          /\ \A l \in Slot : rs[l] # Free => rs[l] = forms[l]
          /\ \A kind : {l \in I!Waiting(kind) : rs[l] # Free}
                         = I!Waiting(kind) \ {k}
      BY <1>1, <2>1
    <3> HIDE DEF rs
    <3> QED
      BY <3>1, PopForms
  <2> QED
    BY <1>2, <2>1, <2>2, <2>3, <2>4
<1> QED
  BY <1>3, <1>4

-----------------------------------------------------------------------------
\* What is waited for after a request was sent.
LEMMA SendForms ==
    ASSUME I!SignInAssumption, I!SignInTypeOK, NEW k \in Slot,
           NEW what \in {"signup", "login"}, I!Send(k, what)
    PROVE  /\ forms' \in [Slot -> I!Ask \cup {Free}]
           /\ I!Waiting(what)' = I!Waiting(what) \cup {k}
           /\ \A kind : kind # what => I!Waiting(kind)' = I!Waiting(kind)
<1>1. [for |-> what, by |-> "page"] \in I!Ask
  BY DEF I!Ask
<1>2. /\ forms[k] = Free /\ forms \in [Slot -> I!Ask \cup {Free}]
      /\ forms' = [forms EXCEPT ![k] = [for |-> what, by |-> "page"]]
      /\ [for |-> what, by |-> "page"] # Free
  BY <1>1 DEF I!Send, I!SignInTypeOK, I!SignInAssumption
<1>3. forms' \in [Slot -> I!Ask \cup {Free}]
  BY <1>1, <1>2
<1>4. I!Waiting(what)' = I!Waiting(what) \cup {k}
  BY <1>2 DEF I!Waiting
<1>5. ASSUME NEW kind, kind # what
      PROVE  I!Waiting(kind)' = I!Waiting(kind)
  BY <1>2, <1>5 DEF I!Waiting
<1> QED
  BY <1>3, <1>4, <1>5

\* The steps of the pages.
LEMMA FormPages ==
    ASSUME I!SignInAssumption, FormsInv,
           \/ I!OpenLogin \/ I!OpenSignUp \/ I!Leave \/ I!Logout \/ I!Restart
           \/ \E page_ \in {"signup", "login"} : I!TransitionEnds(page_)
           \/ UNCHANGED signVars
    PROVE  FormsInv'
<1> USE DEF FormsInv, I!SignInTypeOK, I!TabsStay, WaitInv, I!FormsWait
<1>0. DOMAIN I!Under = {"signup", "login", "tabs", "blank"}
  BY DEF I!Under
<1>1. CASE I!OpenLogin
  <2>1. \A kind : I!Waiting(kind)' = I!Waiting(kind)
    BY <1>1 DEF I!OpenLogin, I!Waiting
  <2> QED
    BY <1>0, <1>1, <2>1 DEF I!OpenLogin
<1>2. CASE I!OpenSignUp
  <2>1. \A kind : I!Waiting(kind)' = I!Waiting(kind)
    BY <1>2 DEF I!OpenSignUp, I!Waiting
  <2> QED
    BY <1>0, <1>2, <2>1 DEF I!OpenSignUp
<1>3. CASE I!Leave
  <2> DEFINE rs == forms
  <2>1. /\ signRoute \in {"signup", "login"} /\ I!Pop(rs)
        /\ UNCHANGED <<loginLoad, signUpLoad, signed, slid, unheard, signLost>>
    BY <1>3 DEF I!Leave, I!history
  <2>2. rs \in [Slot -> I!Ask \cup {Free}]
    OBVIOUS
  <2>3. /\ forms' \in [Slot -> I!Ask \cup {Free}]
        /\ signRoute' \in {"login", "tabs"}
        /\ signRoute' = "login" => signRoute = "signup"
        /\ I!Waiting("signup")' = {}
        /\ signRoute' = "login" =>
             /\ I!Waiting("login")' = I!Waiting("login")
             /\ I!Waiting("wallet")' = I!Waiting("wallet")
        /\ signRoute' # "login" =>
             I!Waiting("login")' = {} /\ I!Waiting("wallet")' = {}
    <3>1. \A kind : {k \in I!Waiting(kind) : rs[k] # Free} = I!Waiting(kind)
      BY DEF I!Waiting
    <3>2. \A k \in Slot : rs[k] # Free => rs[k] = forms[k]
      OBVIOUS
    <3> HIDE DEF rs, FormsInv
    <3>3. I!SignInTypeOK
      BY DEF FormsInv
    <3> HIDE DEF I!SignInTypeOK, I!TabsStay, WaitInv, I!FormsWait
    <3> QED
      BY <2>1, <2>2, <3>1, <3>2, <3>3, PopForms
  <2> QED
    BY <1>0, <2>1, <2>3
<1>4. CASE I!Logout
  <2>1. \A kind : I!Waiting(kind)' = I!Waiting(kind)
    BY <1>4 DEF I!Logout, I!Waiting
  <2> QED
    BY <1>0, <1>4, <2>1 DEF I!Logout, I!pageVars, I!history
<1>5. CASE I!Restart
  <2>1. \A kind : I!Waiting(kind)' = {}
    BY <1>5 DEF I!Restart, I!Waiting
  <2> QED
    BY <1>0, <1>5, <2>1 DEF I!Restart
<1>6. ASSUME NEW p \in {"signup", "login"}, I!TransitionEnds(p)
      PROVE  FormsInv'
  <2>1. \A kind : I!Waiting(kind)' = I!Waiting(kind)
    <3> SUFFICES ASSUME NEW kind PROVE I!Waiting(kind)' = I!Waiting(kind)
      OBVIOUS
    <3>1. \A k \in Slot : forms[k] # Free => forms[k] \in I!Ask
      OBVIOUS
    <3>2. \A r \in I!Ask : /\ [r EXCEPT !.by = "gone"] \in I!Ask
                           /\ [r EXCEPT !.by = "gone"].by = "gone"
      BY DEF I!Ask
    <3> QED
      BY <1>6, <3>1, <3>2 DEF I!TransitionEnds, I!Waiting, I!SignInAssumption
  <2>2. forms' \in [Slot -> I!Ask \cup {Free}]
    <3>1. \A r \in I!Ask : [r EXCEPT !.by = "gone"] \in I!Ask
      BY DEF I!Ask
    <3> QED
      BY <1>6, <3>1 DEF I!TransitionEnds
  <2> QED
    BY <1>0, <1>6, <2>1, <2>2 DEF I!TransitionEnds, I!pageVars, I!history
<1>7. CASE UNCHANGED signVars
  <2>1. \A kind : I!Waiting(kind)' = I!Waiting(kind)
    BY <1>7 DEF signVars, I!Waiting
  <2> QED
    BY <1>0, <1>7, <2>1 DEF signVars
<1> QED
  BY <1>1, <1>2, <1>3, <1>4, <1>5, <1>6, <1>7

\* The answers to a login, and what ends a wallet read without a pop.
LEMMA FormAnswers ==
    ASSUME I!SignInAssumption, FormsInv, NEW k \in Slot, forms[k] # Free,
           \/ forms[k].for = "login" /\ (I!LoginAnswered(k) \/ I!LoginRefused(k))
           \/ forms[k].for = "wallet" /\ I!WalletThrows(k)
           \/ forms[k].for = "signup" /\ (I!SignUpRefused(k) \/ I!SignUpThrows(k))
    PROVE  FormsInv'
<1>0. I!SignInTypeOK /\ I!TabsStay /\ WaitInv
  BY DEF FormsInv
<1> USE DEF I!SignInTypeOK, I!TabsStay, WaitInv, I!FormsWait
<1>1. /\ forms[k] \in I!Ask
      /\ forms[k].by = "page" <=> k \in I!Waiting(forms[k].for)
      /\ \A kind : k \in I!Waiting(kind) => kind = forms[k].for
  BY <1>0 DEF I!Waiting
<1>2. ASSUME forms' = I!Ended(k)
      PROVE  /\ forms' \in [Slot -> I!Ask \cup {Free}]
             /\ I!Waiting("signup")' = I!Waiting("signup") \ {k}
             /\ I!Waiting("login")' = I!Waiting("login") \ {k}
             /\ I!Waiting("wallet")' = I!Waiting("wallet") \ {k}
  BY <1>0, <1>2, EndedIs, EndedForms DEF I!SignInTypeOK
<1>3. CASE forms[k].for = "login" /\ I!LoginRefused(k)
  <2>1. /\ forms' = I!Ended(k) /\ loginLoad' = (loginLoad /\ forms[k].by # "page")
        /\ UNCHANGED <<signRoute, signUpLoad, signed, slid, unheard, signLost>>
    BY <1>3 DEF I!LoginRefused, I!history
  <2>2. /\ I!SignInTypeOK' /\ I!TabsStay'
    BY <1>0, <1>2, <2>1
  <2>3. /\ I!Waiting("signup")' = I!Waiting("signup") \ {k}
        /\ I!Waiting("login")' = I!Waiting("login") \ {k}
        /\ k \notin I!Waiting("signup")
        /\ forms[k].by = "page" <=> k \in I!Waiting("login")
    BY <1>1, <1>2, <1>3, <2>1
  <2>4. I!Waiting("login")' # {} => loginLoad'
    BY <1>0, <2>1, <2>3
  <2>5. ASSUME forms[k].by = "page"
        PROVE  WaitInv'
    <3>1. loginLoad' = FALSE
      BY <2>1, <2>5
    <3> QED
      BY <1>0, <2>1, <2>3, <2>4, <3>1
  <2>6. ASSUME forms[k].by # "page"
        PROVE  WaitInv'
    <3>1. loginLoad' = loginLoad
      BY <1>0, <2>1, <2>6
    <3>2. I!Waiting("login")' = I!Waiting("login")
      BY <2>3, <2>6
    <3> QED
      BY <1>0, <2>1, <2>3, <3>1, <3>2
  <2>7. WaitInv'
    BY <2>5, <2>6
  <2> QED
    BY <2>2, <2>7 DEF FormsInv
<1>4. CASE forms[k].for = "login" /\ I!LoginAnswered(k)
  <2>1. /\ signed' = TRUE /\ loginLoad' = (loginLoad /\ forms[k].by # "page")
        /\ UNCHANGED <<signRoute, signUpLoad, slid, unheard, signLost>>
    BY <1>4 DEF I!LoginAnswered, I!history
  <2>2. /\ forms' \in [Slot -> I!Ask \cup {Free}]
        /\ I!Waiting("signup")' = I!Waiting("signup")
        /\ I!Waiting("login")' = I!Waiting("login") \ {k}
        /\ I!Waiting("wallet")' \subseteq I!Waiting("wallet") \cup {k}
        /\ k \in I!Waiting("wallet")' => k \in I!Waiting("login")
    <3>1. CASE forms[k].by = "gone"
      <4>1. forms' = I!Ended(k)
        BY <1>4, <3>1 DEF I!LoginAnswered
      <4>2. k \notin I!Waiting("signup")
        BY <1>1, <1>4
      <4>3. k \notin I!Waiting("wallet")
        BY <1>1, <1>4
      <4> QED
        BY <1>2, <4>1, <4>2, <4>3
    <3>2. CASE forms[k].by # "gone"
      <4>1. forms' = [forms EXCEPT ![k].for = "wallet"]
        BY <1>4, <3>2 DEF I!LoginAnswered
      <4> DEFINE r == [forms[k] EXCEPT !.for = "wallet"]
      <4>2. r \in I!Ask /\ r.for = "wallet" /\ r.by = forms[k].by
        BY <1>1 DEF I!Ask
      <4>3. forms' = [forms EXCEPT ![k] = r] /\ r # Free
        BY <4>1, <4>2 DEF I!SignInAssumption
      <4> HIDE DEF r
      <4>4. /\ forms' \in [Slot -> I!Ask \cup {Free}]
            /\ forms'[k] = r /\ \A l \in Slot \ {k} : forms'[l] = forms[l]
        BY <1>0, <4>2, <4>3
      <4>5. /\ I!Waiting("signup")' = I!Waiting("signup")
            /\ I!Waiting("login")' = I!Waiting("login") \ {k}
            /\ I!Waiting("wallet")' \subseteq I!Waiting("wallet") \cup {k}
        BY <1>4, <4>2, <4>3, <4>4 DEF I!Waiting
      <4>6. k \in I!Waiting("wallet")' => k \in I!Waiting("login")
        BY <1>4, <4>2, <4>4 DEF I!Waiting
      <4> QED
        BY <4>4, <4>5, <4>6
    <3> QED
      BY <3>1, <3>2
  <2>3. I!SignInTypeOK' /\ I!TabsStay'
    BY <1>0, <2>1, <2>2
  <2>4. WaitInv'
    BY <1>0, <1>1, <1>4, <2>1, <2>2
  <2> QED
    BY <2>3, <2>4 DEF FormsInv
<1>5. CASE forms[k].for = "wallet" /\ I!WalletThrows(k)
  <2>1. /\ forms' = I!Ended(k) /\ unheard' = (unheard \/ forms[k].by = "page")
        /\ UNCHANGED <<signRoute, loginLoad, signUpLoad, signed, slid, signLost>>
    BY <1>5 DEF I!WalletThrows, I!pageVars
  <2>2. /\ I!SignInTypeOK' /\ I!TabsStay'
    BY <1>0, <1>2, <2>1
  <2>3. WaitInv'
    BY <1>0, <1>1, <1>2, <1>5, <2>1
  <2> QED
    BY <2>2, <2>3 DEF FormsInv
<1>6. CASE forms[k].for = "signup" /\ I!SignUpRefused(k)
  <2>1. /\ forms' = I!Ended(k) /\ signUpLoad' = (signUpLoad /\ forms[k].by # "page")
        /\ UNCHANGED <<signRoute, loginLoad, signed, slid, unheard, signLost>>
    BY <1>6 DEF I!SignUpRefused, I!history
  <2>2. /\ I!SignInTypeOK' /\ I!TabsStay'
    BY <1>0, <1>2, <2>1
  <2>3. WaitInv'
    BY <1>0, <1>1, <1>2, <1>6, <2>1
  <2> QED
    BY <2>2, <2>3 DEF FormsInv
<1>7. CASE forms[k].for = "signup" /\ I!SignUpThrows(k)
  <2>1. /\ forms' = I!Ended(k) /\ signLost' = (signLost \/ forms[k].by = "page")
        /\ UNCHANGED <<signRoute, loginLoad, signUpLoad, signed, slid, unheard>>
    BY <1>7 DEF I!SignUpThrows, I!pageVars
  <2>2. /\ I!SignInTypeOK' /\ I!TabsStay'
    BY <1>0, <1>2, <2>1
  <2>3. WaitInv'
    BY <1>0, <1>1, <1>2, <1>7, <2>1
  <2> QED
    BY <2>2, <2>3 DEF FormsInv
<1> QED
  BY <1>3, <1>4, <1>5, <1>6, <1>7

\* The answers that pop.
LEMMA FormPops ==
    ASSUME I!SignInAssumption, FormsInv, NEW k \in Slot, forms[k] # Free,
           \/ forms[k].for = "wallet" /\ I!WalletRead(k)
           \/ forms[k].for = "signup" /\ I!SignUpAnswered(k)
    PROVE  FormsInv'
<1>0. I!SignInTypeOK /\ I!TabsStay /\ WaitInv
  BY DEF FormsInv
<1>1. /\ forms[k].for \in {"signup", "wallet"} /\ I!PopFor(k)
  BY DEF I!WalletRead, I!SignUpAnswered
<1>2. /\ forms' \in [Slot -> I!Ask \cup {Free}]
      /\ signRoute' \in DOMAIN I!Under /\ slid' \in BOOLEAN
      /\ signRoute' = "blank" => slid'
      /\ signRoute' = "signup" => signRoute = "signup"
      /\ signRoute' \in {"signup", "login"} =>
           /\ signRoute \in {"signup", "login"}
           /\ I!Waiting("login")' = I!Waiting("login") \ {k}
           /\ I!Waiting("wallet")' = I!Waiting("wallet") \ {k}
      /\ signRoute' \notin {"signup", "login"} =>
           I!Waiting("login")' = {} /\ I!Waiting("wallet")' = {}
      /\ signRoute' = "signup" =>
           I!Waiting("signup")' = I!Waiting("signup") \ {k}
      /\ signRoute' # "signup" => I!Waiting("signup")' = {}
  BY <1>0, <1>1, PopForForms
<1>3. k \notin I!Waiting("login")
  BY <1>1 DEF I!Waiting
<1>4. /\ loginLoad' = loginLoad /\ signed' = signed /\ unheard' = unheard
      /\ signLost' = signLost
      /\ \/ signUpLoad' = signUpLoad /\ k \notin I!Waiting("signup")
         \/ signUpLoad' = FALSE /\ k \in I!Waiting("signup")
  <2>1. CASE forms[k].for = "wallet" /\ I!WalletRead(k)
    BY <2>1 DEF I!WalletRead, I!Waiting
  <2>2. CASE forms[k].for = "signup" /\ I!SignUpAnswered(k)
    <3>1. forms[k].by = "page" <=> k \in I!Waiting("signup")
      BY <2>2 DEF I!Waiting
    <3>2. signUpLoad \in BOOLEAN
      BY <1>0 DEF I!SignInTypeOK
    <3> QED
      BY <2>2, <3>1, <3>2 DEF I!SignUpAnswered
  <2> QED
    BY <2>1, <2>2
<1>5. I!SignInTypeOK' /\ I!TabsStay'
  BY <1>0, <1>2, <1>4 DEF I!SignInTypeOK, I!TabsStay
<1>6. WaitInv'
  <2>1. /\ I!Waiting("signup")' \subseteq I!Waiting("signup") \ {k}
        /\ I!Waiting("login")' \subseteq I!Waiting("login")
    BY <1>2
  <2>2. I!FormsWait'
    BY <1>0, <1>2, <1>3, <1>4 DEF WaitInv, I!FormsWait
  <2> QED
    BY <1>0, <1>4, <2>1, <2>2 DEF WaitInv
<1> QED
  BY <1>5, <1>6 DEF FormsInv

\* LOGIN and REGISTER.
LEMMA FormPresses ==
    ASSUME I!SignInAssumption, FormsInv, NEW k \in Slot,
           I!PressLogin(k) \/ I!PressSignUp(k)
    PROVE  FormsInv'
<1>0. I!SignInTypeOK /\ I!TabsStay /\ WaitInv
  BY DEF FormsInv
<1>1. CASE I!PressLogin(k)
  <2>1. I!Send(k, "login")
    BY <1>1 DEF I!PressLogin
  <2>2. /\ forms' \in [Slot -> I!Ask \cup {Free}]
        /\ I!Waiting("login")' = I!Waiting("login") \cup {k}
        /\ I!Waiting("signup")' = I!Waiting("signup")
        /\ I!Waiting("wallet")' = I!Waiting("wallet")
    BY <1>0, <2>1, SendForms
  <2>3. /\ signRoute = "login" /\ loginLoad = FALSE /\ loginLoad' = TRUE
        /\ UNCHANGED <<signRoute, signUpLoad, signed, slid, unheard, signLost>>
    BY <1>0, <1>1 DEF I!PressLogin, I!history, I!SignInTypeOK
  <2>4. I!SignInTypeOK' /\ I!TabsStay'
    BY <1>0, <2>2, <2>3 DEF I!SignInTypeOK, I!TabsStay
  <2>5. WaitInv'
    BY <1>0, <2>2, <2>3 DEF WaitInv, I!FormsWait
  <2> QED
    BY <2>4, <2>5 DEF FormsInv
<1>2. CASE I!PressSignUp(k)
  <2>1. I!Send(k, "signup")
    BY <1>2 DEF I!PressSignUp
  <2>2. /\ forms' \in [Slot -> I!Ask \cup {Free}]
        /\ I!Waiting("signup")' = I!Waiting("signup") \cup {k}
        /\ I!Waiting("login")' = I!Waiting("login")
        /\ I!Waiting("wallet")' = I!Waiting("wallet")
    BY <1>0, <2>1, SendForms
  <2>3. /\ signRoute = "signup" /\ signUpLoad = FALSE /\ signUpLoad' = TRUE
        /\ UNCHANGED <<signRoute, loginLoad, signed, slid, unheard, signLost>>
    BY <1>0, <1>2 DEF I!PressSignUp, I!history, I!SignInTypeOK
  <2>4. I!SignInTypeOK' /\ I!TabsStay'
    BY <1>0, <2>2, <2>3 DEF I!SignInTypeOK, I!TabsStay
  <2>5. WaitInv'
    BY <1>0, <2>2, <2>3 DEF WaitInv, I!FormsWait
  <2> QED
    BY <2>4, <2>5 DEF FormsInv
<1> QED
  BY <1>1, <1>2

LEMMA FormsKept ==
    ASSUME I!SignInAssumption, FormsInv, I!Next \/ UNCHANGED signVars
    PROVE  FormsInv'
<1>1. ASSUME NEW k \in Slot, I!Ends(k)
      PROVE  FormsInv'
  BY <1>1, FormAnswers, FormPops DEF I!Ends
<1> QED
  BY <1>1, FormPages, FormPresses DEF I!Next

\* What it says of the properties.
LEMMA FormsShow ==
    ASSUME FormsInv
    PROVE  I!SignInTypeOK /\ I!TabsStay /\ I!OneFormAtATime /\ I!FormsWait
<1>1. ASSUME NEW D, \A k, l \in D : k = l
      PROVE  Cardinality(D) <= 1
  <2>1. CASE D = {}
    BY <2>1, FS_EmptySet
  <2>2. CASE D # {}
    <3>1. PICK k \in D : D = {k}
      BY <1>1, <2>2
    <3> QED
      BY <3>1, FS_Singleton
  <2> QED
    BY <2>1, <2>2
<1>2. I!OneFormAtATime
  BY <1>1 DEF FormsInv, WaitInv, I!OneFormAtATime, I!Cardinality, Cardinality
<1> QED
  BY <1>2 DEF FormsInv, WaitInv

-----------------------------------------------------------------------------
(***************************************************************************)
(* The Search tab                                                          *)
(***************************************************************************)

\* A search under way, and what waits for it.
Pending == [of : S!Query, then : {"filter", "leaving", "nobody"}]

\* Whatever is under way was asked last or before that, and the youngest, or
\* with none under way the list, is what was asked last.
RecentInv ==
    /\ S!ResultsAreRecent
    /\ \A j \in DOMAIN searches :
         searches[j].of = last \/ searches[j].of \in behind
    /\ ~swapped /\ ~searchLost =>
         IF searches = <<>> THEN searchList = last
         ELSE searches[Len(searches)].of = last

FoundInv == S!SearchTypeOK /\ RecentInv /\ S!FilterWaits

LEMMA FoundStarts ==
    ASSUME S!SearchAssumption, S!Init
    PROVE  FoundInv
<1>1. S!Normal \in S!Choice /\ Empty \in Word /\ 0 <= MaxSearches
  BY DEF S!Normal, S!Choice, S!SearchAssumption
<1>2. S!SearchTypeOK
  <2>1. searches \in Seq([of : S!Query, then : {"filter", "leaving", "nobody"}])
    BY DEF S!Init
  <2>2. Len(searches) <= MaxSearches
    BY <1>1 DEF S!Init
  <2>3. {searchLoad, busy, swapped, searchLost} \subseteq BOOLEAN
    BY DEF S!Init
  <2>4. behind \subseteq S!Query
    BY DEF S!Init
  <2>5. /\ searchRoute \in {"search", "filter", "details", "away", "blank"}
        /\ text \in Word /\ chosen \in S!Choice
        /\ searchList \in S!Query \cup {None} /\ last \in S!Query \cup {None}
    BY <1>1 DEF S!Init
  <2> QED
    BY <2>1, <2>2, <2>3, <2>4, <2>5 DEF S!SearchTypeOK
<1>3. searches = <<>> /\ DOMAIN searches = {}
  BY DEF S!Init
<1>4. RecentInv /\ S!FilterWaits
  BY <1>3 DEF S!Init, RecentInv, S!ResultsAreRecent, S!FilterWaits
<1> QED
  BY <1>2, <1>4 DEF FoundInv

\* What RemoveAt leaves.
LEMMA RemovedIs ==
    ASSUME NEW T, NEW s \in Seq(T), NEW k \in DOMAIN s
    PROVE  /\ RemoveAt(s, k) \in Seq(T)
           /\ Len(RemoveAt(s, k)) = Len(s) - 1
           /\ \A j \in 1..(Len(s) - 1) :
                RemoveAt(s, k)[j] = IF j < k THEN s[j] ELSE s[j + 1]
<1>1. k \in 1..Len(s) /\ Len(s) \in Nat
  OBVIOUS
<1>2. /\ SubSeq(s, 1, k - 1) \in Seq(T)
      /\ Len(SubSeq(s, 1, k - 1)) = k - 1
      /\ \A j \in 1..(k - 1) : SubSeq(s, 1, k - 1)[j] = s[j]
  BY <1>1
<1>3. /\ SubSeq(s, k + 1, Len(s)) \in Seq(T)
      /\ Len(SubSeq(s, k + 1, Len(s))) = Len(s) - k
      /\ \A j \in 1..(Len(s) - k) : SubSeq(s, k + 1, Len(s))[j] = s[k + j]
  BY <1>1
<1> DEFINE a == SubSeq(s, 1, k - 1)  b == SubSeq(s, k + 1, Len(s))
<1> HIDE DEF a, b
<1>4. RemoveAt(s, k) = a \o b
  BY DEF RemoveAt, a, b
<1>5. /\ a \in Seq(T) /\ b \in Seq(T) /\ Len(a) = k - 1 /\ Len(b) = Len(s) - k
      /\ \A j \in 1..(k - 1) : a[j] = s[j]
      /\ \A j \in 1..(Len(s) - k) : b[j] = s[k + j]
  BY <1>2, <1>3 DEF a, b
<1>6. /\ a \o b \in Seq(T) /\ Len(a \o b) = Len(a) + Len(b)
      /\ \A j \in 1..(Len(a) + Len(b)) :
           (a \o b)[j] = IF j <= Len(a) THEN a[j] ELSE b[j - Len(a)]
  BY <1>5, ConcatProperties
<1>7. Len(a) + Len(b) = Len(s) - 1
  BY <1>1, <1>5
<1>8. ASSUME NEW j \in 1..(Len(s) - 1)
      PROVE  (a \o b)[j] = IF j < k THEN s[j] ELSE s[j + 1]
  <2>0. j \in Int /\ k \in Int /\ Len(s) \in Int /\ 1 <= j /\ j <= Len(s) - 1
    BY <1>1
  <2>1. (a \o b)[j] = IF j <= Len(a) THEN a[j] ELSE b[j - Len(a)]
    BY <1>6, <1>7
  <2>2. CASE j < k
    <3>1. j <= Len(a) /\ j \in 1..(k - 1)
      BY <1>5, <2>0, <2>2
    <3> QED
      BY <1>5, <2>1, <2>2, <3>1
  <2>3. CASE ~(j < k)
    <3>1. ~(j <= Len(a)) /\ j - Len(a) = j - k + 1
      BY <1>5, <2>0, <2>3
    <3>2. j - k + 1 \in 1..(Len(s) - k) /\ k + (j - k + 1) = j + 1
      BY <2>0, <2>3
    <3> QED
      BY <1>5, <2>1, <2>3, <3>1, <3>2
  <2> QED
    BY <2>2, <2>3
<1> QED
  BY <1>4, <1>6, <1>7, <1>8

\* What a change of who waits leaves.
LEMMA RenamedIs ==
    ASSUME NEW s \in Seq(Pending), NEW a, NEW b \in {"filter", "leaving", "nobody"}
    PROVE  /\ S!Rename(a, b, s) \in Seq(Pending)
           /\ Len(S!Rename(a, b, s)) = Len(s)
           /\ \A j \in DOMAIN s :
                /\ S!Rename(a, b, s)[j].of = s[j].of
                /\ S!Rename(a, b, s)[j].then =
                     IF s[j].then = a THEN b ELSE s[j].then
<1> DEFINE R(r) == IF r.then = a THEN [r EXCEPT !.then = b] ELSE r
<1>2. ASSUME NEW r \in Pending
      PROVE  /\ R(r) \in Pending /\ R(r).of = r.of
             /\ R(r).then = IF r.then = a THEN b ELSE r.then
  BY DEF Pending
<1>3. S!Rename(a, b, s) = [j \in DOMAIN s |-> R(s[j])]
  BY DEF S!Rename
<1> HIDE DEF R
<1>4. \A j \in DOMAIN s : s[j] \in Pending
  OBVIOUS
<1> QED
  BY <1>2, <1>3, <1>4

\* The types, with the requests by the name they have here.
LEMMA FoundTypes ==
    ASSUME FoundInv
    PROVE  /\ S!SearchTypeOK /\ RecentInv /\ S!FilterWaits
           /\ searches \in Seq(Pending) /\ Len(searches) \in Nat
           /\ DOMAIN searches = 1..Len(searches)
           /\ Len(searches) <= MaxSearches
           /\ \A j \in DOMAIN searches : searches[j] \in Pending
           /\ S!ToSet(searches) = {searches[j] : j \in DOMAIN searches}
<1>1. S!SearchTypeOK /\ RecentInv /\ S!FilterWaits
  BY DEF FoundInv
<1>2. searches \in Seq(Pending) /\ Len(searches) <= MaxSearches
  BY <1>1 DEF S!SearchTypeOK, Pending
<1>3. /\ Len(searches) \in Nat /\ DOMAIN searches = 1..Len(searches)
      /\ \A j \in DOMAIN searches : searches[j] \in Pending
  BY <1>2
<1>4. S!ToSet(searches) = {searches[j] : j \in DOMAIN searches}
  BY DEF S!ToSet
<1> QED
  BY <1>1, <1>2, <1>3, <1>4

\* searchProduct empties the list, and the query it asks for is the last one.
LEMMA SearchedKeeps ==
    ASSUME S!SearchAssumption, FoundInv, NEW q \in S!Query,
           NEW who \in {"filter", "nobody"}, S!searchProduct(q, who)
    PROVE  /\ searches' \in Seq(Pending) /\ Len(searches') <= MaxSearches
           /\ searchList' = None /\ last' = q /\ searchLoad' = TRUE
           /\ behind' \subseteq S!Query /\ swapped' \in BOOLEAN
           /\ searchLost' \in BOOLEAN
           /\ RecentInv'
           /\ who = "filter" => \E r \in S!ToSet(searches') : r.then = "filter"
<1> DEFINE new == [of |-> q, then |-> who]
<1>1. new \in Pending /\ new.of = q /\ new.then = who
  BY DEF Pending
<1>2. /\ searches' = Append(searches, new) /\ Len(searches) < MaxSearches
      /\ searchList' = None /\ last' = q /\ searchLoad' = TRUE
      /\ behind' = {r.of : r \in S!ToSet(searches)}
      /\ swapped' = (swapped /\ searches # <<>>)
      /\ searchLost' = (searchLost /\ searches # <<>>)
  BY DEF S!searchProduct, S!Noted
<1> HIDE DEF new
<1>3. /\ searches' \in Seq(Pending) /\ Len(searches') = Len(searches) + 1
      /\ \A j \in 1..Len(searches) : searches'[j] = searches[j]
      /\ searches'[Len(searches) + 1] = new
      /\ DOMAIN searches' = 1..(Len(searches) + 1)
  BY <1>1, <1>2, FoundTypes
<1>4. Len(searches') <= MaxSearches
  <2>1. Len(searches) \in Int /\ MaxSearches \in Int
    BY FoundTypes DEF S!SearchAssumption
  <2> QED
    BY <1>2, <1>3, <2>1
<1>5. behind' \subseteq S!Query
  BY <1>2, FoundTypes DEF Pending
<1>6. swapped' \in BOOLEAN /\ searchLost' \in BOOLEAN
  BY <1>2, FoundTypes DEF S!SearchTypeOK
<1>7. S!ResultsAreRecent'
  BY <1>2 DEF S!ResultsAreRecent
<1>8. \A j \in DOMAIN searches' :
        searches'[j].of = last' \/ searches'[j].of \in behind'
  <2> TAKE j \in DOMAIN searches'
  <2>1. CASE j = Len(searches) + 1
    BY <1>1, <1>2, <1>3, <2>1
  <2>2. CASE j # Len(searches) + 1
    <3>1. j \in DOMAIN searches
      BY <1>3, <2>2, FoundTypes
    <3> QED
      BY <1>2, <1>3, <3>1, FoundTypes
  <2> QED
    BY <2>1, <2>2
<1>9. searches' # <<>> /\ searches'[Len(searches')].of = last'
  BY <1>1, <1>2, <1>3, FoundTypes
<1>10. who = "filter" => \E r \in S!ToSet(searches') : r.then = "filter"
  <2>1. new \in S!ToSet(searches')
    BY <1>3, FoundTypes DEF S!ToSet
  <2> QED
    BY <1>1, <2>1
<1> QED
  BY <1>2, <1>3, <1>4, <1>5, <1>6, <1>7, <1>8, <1>9, <1>10 DEF RecentInv

\* A search that ended leaves the order of the others.
LEMMA EndedSearch ==
    ASSUME S!SearchAssumption, FoundInv, NEW k \in DOMAIN searches,
           NEW rest, rest = S!RemoveAt(searches, k)
    PROVE  /\ rest \in Seq(Pending) /\ Len(rest) <= MaxSearches
           /\ \A j \in DOMAIN rest : \E i \in DOMAIN searches :
                rest[j] = searches[i]
           /\ rest # <<>> /\ k = 1 =>
                rest[Len(rest)] = searches[Len(searches)]
           /\ rest = <<>> => k = Len(searches) /\ k = 1
           /\ \A i \in DOMAIN searches \ {k} : \E j \in DOMAIN rest :
                rest[j] = searches[i]
<1> DEFINE n == Len(searches)
<1>1. /\ searches \in Seq(Pending) /\ n \in Nat /\ DOMAIN searches = 1..n
      /\ n <= MaxSearches /\ MaxSearches \in Nat
  BY FoundTypes DEF S!SearchAssumption
<1>2. /\ rest \in Seq(Pending) /\ Len(rest) = n - 1
      /\ \A j \in 1..(n - 1) :
           rest[j] = IF j < k THEN searches[j] ELSE searches[j + 1]
  <2>1. S!RemoveAt(searches, k) = RemoveAt(searches, k)
    BY DEF S!RemoveAt, RemoveAt
  <2> QED
    BY <1>1, <2>1, RemovedIs
<1>3. DOMAIN rest = 1..(n - 1)
  BY <1>2
<1> HIDE DEF n
<1>4. Len(rest) <= MaxSearches
  BY <1>1, <1>2
<1>5. \A j \in DOMAIN rest : \E i \in DOMAIN searches :
        rest[j] = searches[i]
  <2> TAKE j \in DOMAIN rest
  <2>1. j \in DOMAIN searches /\ j + 1 \in DOMAIN searches
    BY <1>1, <1>3
  <2> QED
    BY <1>2, <1>3, <2>1
<1>6. rest # <<>> /\ k = 1 =>
        rest[Len(rest)] = searches[Len(searches)]
  <2> HAVE rest # <<>> /\ k = 1
  <2>1. n - 1 \in 1..(n - 1) /\ ~(n - 1 < k) /\ (n - 1) + 1 = n
    BY <1>1, <1>2
  <2> QED
    BY <1>2, <2>1 DEF n
<1>7. rest = <<>> => k = Len(searches) /\ k = 1
  <2> HAVE rest = <<>>
  <2>1. n - 1 = 0
    BY <1>2
  <2>2. n = 1 /\ k \in 1..n
    BY <1>1, <2>1
  <2>3. k = 1 /\ n = Len(searches)
    BY <2>2 DEF n
  <2> QED
    BY <2>2, <2>3
<1>8. \A i \in DOMAIN searches \ {k} : \E j \in DOMAIN rest :
        rest[j] = searches[i]
  <2> TAKE i \in DOMAIN searches \ {k}
  <2>1. i \in Int /\ k \in Int /\ n \in Int /\ 1 <= i /\ i <= n /\ i # k
        /\ 1 <= k /\ k <= n
    BY <1>1
  <2>2. CASE i < k
    <3>1. i \in 1..(n - 1)
      BY <2>1, <2>2
    <3> QED
      BY <1>2, <1>3, <2>2, <3>1
  <2>3. CASE k < i
    <3>1. i - 1 \in 1..(n - 1) /\ ~(i - 1 < k) /\ (i - 1) + 1 = i
      BY <2>1, <2>3
    <3> QED
      BY <1>2, <1>3, <3>1
  <2> QED
    BY <2>1, <2>2, <2>3
<1> QED
  BY <1>2, <1>4, <1>5, <1>6, <1>7, <1>8

\* The steps of the user that ask for nothing.
LEMMA FoundMoves ==
    ASSUME S!SearchAssumption, FoundInv,
           \/ \E c \in Category : S!PickCategory(c)
           \/ \E c \in S!Choice : S!ChooseElsewhere(c)
           \/ S!OpenFilter \/ S!OpenDetails \/ S!LeaveDetails \/ S!LeaveTab
           \/ S!OpenTab \/ UNCHANGED searchVars
    PROVE  FoundInv'
<1>0. S!SearchTypeOK /\ RecentInv /\ S!FilterWaits
  BY DEF FoundInv
<1>1. /\ UNCHANGED <<searches, searchList, searchLoad, last, behind, swapped,
                     searchLost>>
      /\ chosen' \in S!Choice /\ text' \in Word /\ busy' \in BOOLEAN
      /\ searchRoute' \in {"search", "filter", "details", "away", "blank"}
      /\ searchRoute' = "filter" /\ busy' => searchRoute = "filter" /\ busy
  <2> USE <1>0 DEF S!SearchTypeOK, S!pageVars, S!history
  <2>1. CASE \E c \in Category : S!PickCategory(c)
    <3>1. PICK c \in Category : S!PickCategory(c)
      BY <2>1
    <3>2. chosen' \in S!Choice
      BY <3>1 DEF S!PickCategory, S!Choice
    <3> QED
      BY <3>1, <3>2 DEF S!PickCategory
  <2>2. CASE \E c \in S!Choice : S!ChooseElsewhere(c)
    BY <2>2 DEF S!ChooseElsewhere
  <2>3. CASE S!OpenFilter
    BY <2>3 DEF S!OpenFilter
  <2>4. CASE S!OpenDetails \/ S!LeaveDetails
    BY <2>4 DEF S!OpenDetails, S!LeaveDetails
  <2>5. CASE S!LeaveTab \/ S!OpenTab
    BY <2>5 DEF S!LeaveTab, S!OpenTab, S!SearchAssumption
  <2>6. CASE UNCHANGED searchVars
    BY <2>6 DEF searchVars
  <2> QED
    BY <2>1, <2>2, <2>3, <2>4, <2>5, <2>6
<1>2. S!SearchTypeOK'
  BY <1>0, <1>1 DEF S!SearchTypeOK
<1>3. RecentInv'
  BY <1>0, <1>1 DEF RecentInv, S!ResultsAreRecent
<1>4. S!FilterWaits'
  BY <1>0, <1>1 DEF S!FilterWaits, S!ToSet
<1> QED
  BY <1>2, <1>3, <1>4 DEF FoundInv

\* A key, and APPLY CHANGES.
LEMMA FoundAsked ==
    ASSUME S!SearchAssumption, FoundInv,
           \/ \E w \in Word : S!Type(w)
           \/ \E range \in BOOLEAN : S!Apply(range)
    PROVE  FoundInv'
<1>0. S!SearchTypeOK /\ RecentInv /\ S!FilterWaits
  BY DEF FoundInv
<1>1. ASSUME NEW q \in S!Query, NEW who \in {"filter", "nobody"},
             S!searchProduct(q, who), searchRoute' = searchRoute,
             chosen' \in S!Choice, text' \in Word, busy' \in BOOLEAN,
             searchRoute = "filter" => who = "filter"
      PROVE  FoundInv'
  <2>1. /\ searches' \in Seq(Pending) /\ Len(searches') <= MaxSearches
        /\ searchList' = None /\ last' = q /\ searchLoad' = TRUE
        /\ behind' \subseteq S!Query /\ swapped' \in BOOLEAN
        /\ searchLost' \in BOOLEAN
        /\ RecentInv'
        /\ who = "filter" => \E r \in S!ToSet(searches') : r.then = "filter"
    BY <1>1, SearchedKeeps
  <2>2. S!SearchTypeOK'
    BY <1>0, <1>1, <2>1 DEF S!SearchTypeOK, Pending
  <2>3. S!FilterWaits'
    BY <1>1, <2>1 DEF S!FilterWaits, S!ToSet
  <2> QED
    BY <2>1, <2>2, <2>3 DEF FoundInv
<1>2. ASSUME NEW w \in Word, S!Type(w)
      PROVE  FoundInv'
  <2> DEFINE q == [word |-> w, by |-> chosen]
  <2>1. q \in S!Query
    BY <1>0 DEF S!Query, S!SearchTypeOK
  <2>2. /\ S!searchProduct(q, "nobody")
        /\ searchRoute = "search" /\ text' = w
        /\ UNCHANGED <<searchRoute, busy, chosen>>
    BY <1>2 DEF S!Type
  <2>3. busy' \in BOOLEAN /\ chosen' \in S!Choice
    BY <1>0, <2>2 DEF S!SearchTypeOK
  <2> HIDE DEF q
  <2> QED
    BY <1>1, <2>1, <2>2, <2>3
<1>3. ASSUME NEW range \in BOOLEAN, S!Apply(range)
      PROVE  FoundInv'
  <2>1. /\ chosen' = [chosen EXCEPT !.priced = range] /\ busy' = TRUE
        /\ UNCHANGED <<searchRoute, text>>
    BY <1>3 DEF S!Apply
  <2>2. chosen' \in S!Choice
    BY <1>0, <2>1 DEF S!SearchTypeOK, S!Choice
  <2>3. PICK q \in S!Query : q = [word |-> Empty, by |-> chosen']
    BY <2>2 DEF S!Query, S!SearchAssumption
  <2>4. S!searchProduct(q, "filter")
    BY <1>3, <2>3 DEF S!Apply, S!searchProduct, S!Noted
  <2>5. text' \in Word
    BY <1>0, <2>1 DEF S!SearchTypeOK
  <2> QED
    BY <1>1, <2>1, <2>2, <2>4, <2>5
<1> QED
  BY <1>2, <1>3

\* The Filter page goes: what waited for the answer of its search is renamed.
LEMMA FoundLeft ==
    ASSUME S!SearchAssumption, FoundInv, S!CloseFilter \/ S!TransitionEnds
    PROVE  FoundInv'
<1>0. S!SearchTypeOK /\ RecentInv /\ S!FilterWaits
  BY DEF FoundInv
<1>1. ASSUME NEW a \in {"filter", "leaving"}, NEW b \in {"leaving", "nobody"},
             searches' = S!Rename(a, b, searches),
             UNCHANGED <<text, busy, chosen, searchList, searchLoad, last, behind,
                         swapped, searchLost>>,
             searchRoute' \in {"search", "filter", "details", "away", "blank"},
             searchRoute' = "filter" => searchRoute = "filter" /\ a # "filter"
      PROVE  FoundInv'
  <2>1. /\ searches' \in Seq(Pending) /\ Len(searches') = Len(searches)
        /\ \A j \in DOMAIN searches :
             /\ searches'[j].of = searches[j].of
             /\ searches'[j].then = IF searches[j].then = a THEN b
                                    ELSE searches[j].then
    BY <1>1, RenamedIs, FoundTypes
  <2>2. DOMAIN searches' = DOMAIN searches /\ DOMAIN searches = 1..Len(searches)
    BY <2>1, FoundTypes
  <2>3. S!SearchTypeOK'
    BY <1>0, <1>1, <2>1 DEF S!SearchTypeOK, Pending
  <2>4. searches' = <<>> <=> searches = <<>>
    BY <2>1, FoundTypes
  <2>5. searches # <<>> => Len(searches) \in DOMAIN searches
    BY <2>2, FoundTypes
  <2>6. RecentInv'
    <3>1. S!ResultsAreRecent'
      BY <1>0, <1>1 DEF RecentInv, S!ResultsAreRecent
    <3>2. \A j \in DOMAIN searches' :
            searches'[j].of = last' \/ searches'[j].of \in behind'
      BY <1>0, <1>1, <2>1, <2>2 DEF RecentInv
    <3>3. ~swapped' /\ ~searchLost' =>
            IF searches' = <<>> THEN searchList' = last'
            ELSE searches'[Len(searches')].of = last'
      BY <1>0, <1>1, <2>1, <2>4, <2>5 DEF RecentInv
    <3> QED
      BY <3>1, <3>2, <3>3 DEF RecentInv
  <2>7. S!FilterWaits'
    <3> SUFFICES ASSUME searchRoute' = "filter", busy', ~searchLost'
                 PROVE  \E r \in S!ToSet(searches') : r.then = "filter"
      BY DEF S!FilterWaits, S!ToSet
    <3>1. PICK j \in DOMAIN searches : searches[j].then = "filter"
      BY <1>0, <1>1 DEF S!FilterWaits, S!ToSet
    <3>2. searches'[j].then = "filter" /\ j \in DOMAIN searches'
      BY <1>1, <2>1, <2>2, <3>1
    <3> QED
      BY <3>2 DEF S!ToSet
  <2> QED
    BY <2>3, <2>6, <2>7 DEF FoundInv
<1>2. CASE S!CloseFilter
  BY <1>1, <1>2 DEF S!CloseFilter, S!Pop, S!Under, S!history
<1>3. CASE S!TransitionEnds
  <2>1. searchRoute \in {"search", "filter", "details", "away", "blank"}
    BY <1>0 DEF S!SearchTypeOK
  <2> QED
    BY <1>1, <1>3, <2>1 DEF S!TransitionEnds, S!pageVars, S!history
<1> QED
  BY <1>2, <1>3

\* The shop answers, or a search throws.
LEMMA FoundEnded ==
    ASSUME S!SearchAssumption, FoundInv, S!Shop
    PROVE  FoundInv'
<1>0. S!SearchTypeOK /\ RecentInv /\ S!FilterWaits
  BY DEF FoundInv
<1>1. PICK k \in DOMAIN searches : S!Answered(k) \/ S!Throws(k)
  BY DEF S!Shop
<1>2. PICK rest : rest = S!RemoveAt(searches, k)
  OBVIOUS
<1>3. /\ rest \in Seq(Pending) /\ Len(rest) <= MaxSearches
      /\ \A j \in DOMAIN rest : \E i \in DOMAIN searches :
           rest[j] = searches[i]
      /\ rest # <<>> /\ k = 1 =>
           rest[Len(rest)] = searches[Len(searches)]
      /\ rest = <<>> => k = Len(searches) /\ k = 1
      /\ \A i \in DOMAIN searches \ {k} : \E j \in DOMAIN rest :
           rest[j] = searches[i]
  BY <1>2, EndedSearch
<1>4. searches # <<>> /\ searches[k] \in Pending
  BY FoundTypes
<1>5. \A j \in DOMAIN rest :
        rest[j].of = last \/ rest[j].of \in behind
  BY <1>0, <1>3 DEF RecentInv
<1>6. CASE S!Answered(k)
  <2>1. /\ searchList' = searches[k].of /\ searchLoad' = FALSE
        /\ swapped' = (swapped \/ k # 1)
        /\ busy' = (busy /\ searches[k].then # "filter")
        /\ UNCHANGED <<text, chosen, last, behind, searchLost>>
        /\ IF searches[k].then = "nobody"
             THEN searches' = rest /\ UNCHANGED searchRoute ELSE S!Pop(rest)
    BY <1>2, <1>6 DEF S!Answered, S!Ended
  <2>2. /\ searchRoute' \in {"search", "filter", "details", "away", "blank"}
        /\ searchRoute' = "filter" =>
             /\ searchRoute = "filter" /\ searches[k].then = "nobody"
             /\ searches' = rest
    BY <1>0, <2>1 DEF S!SearchTypeOK, S!Pop, S!Under
  <2>8. /\ searches' \in Seq(Pending) /\ Len(searches') = Len(rest)
        /\ \A j \in DOMAIN rest : searches'[j].of = rest[j].of
    BY <1>3, <2>1, RenamedIs DEF S!Pop
  <2>9. DOMAIN searches' = DOMAIN rest /\ DOMAIN rest = 1..Len(rest)
        /\ Len(rest) \in Nat
    BY <1>3, <2>8
  <2>3. searchList' \in S!Query
    BY <1>4, <2>1 DEF Pending
  <2>4. swapped' \in BOOLEAN /\ busy' \in BOOLEAN
    BY <2>1
  <2>5. S!SearchTypeOK'
    BY <1>0, <1>3, <2>1, <2>2, <2>3, <2>4, <2>8 DEF S!SearchTypeOK, Pending
  <2>6. RecentInv'
    <3>1. S!ResultsAreRecent'
      BY <1>0, <2>1 DEF RecentInv, S!ResultsAreRecent
    <3>2. ~swapped' /\ ~searchLost' =>
            IF searches' = <<>> THEN searchList' = last'
            ELSE searches'[Len(searches')].of = last'
      <4> HAVE ~swapped' /\ ~searchLost'
      <4>1. k = 1 /\ searches[Len(searches)].of = last
        BY <1>0, <1>4, <2>1 DEF RecentInv
      <4>2. searches' = <<>> <=> rest = <<>>
        BY <1>3, <2>8
      <4>3. rest # <<>> => Len(rest) \in DOMAIN rest
        BY <1>3, <2>9
      <4> QED
        BY <1>3, <2>1, <2>8, <4>1, <4>2, <4>3
    <3>3. \A j \in DOMAIN searches' :
            searches'[j].of = last' \/ searches'[j].of \in behind'
      BY <1>5, <2>1, <2>8, <2>9
    <3> QED
      BY <3>1, <3>2, <3>3 DEF RecentInv
  <2>7. S!FilterWaits'
    <3> SUFFICES ASSUME searchRoute' = "filter", busy', ~searchLost'
                 PROVE  \E r \in S!ToSet(searches') : r.then = "filter"
      BY DEF S!FilterWaits, S!ToSet
    <3>1. searches[k].then = "nobody" /\ searchRoute = "filter" /\ busy /\ ~searchLost
      BY <2>1, <2>2
    <3>2. PICK i \in DOMAIN searches : searches[i].then = "filter"
      BY <1>0, <3>1 DEF S!FilterWaits, S!ToSet
    <3>3. PICK j \in DOMAIN rest : rest[j] = searches[i]
      BY <1>3, <3>1, <3>2
    <3> QED
      BY <2>2, <3>2, <3>3 DEF S!ToSet
  <2> QED
    BY <2>5, <2>6, <2>7 DEF FoundInv
<1>7. CASE S!Throws(k)
  <2>1. /\ searchLost' = TRUE
        /\ UNCHANGED <<searchRoute, text, busy, chosen, searchList, searchLoad,
                       last, behind, swapped>>
        /\ searches' = rest
    BY <1>2, <1>7 DEF S!Throws, S!pageVars
  <2>2. S!SearchTypeOK'
    BY <1>0, <1>3, <2>1 DEF S!SearchTypeOK, Pending
  <2>3. RecentInv'
    BY <1>0, <1>5, <2>1 DEF RecentInv, S!ResultsAreRecent
  <2>4. S!FilterWaits'
    BY <2>1 DEF S!FilterWaits
  <2> QED
    BY <2>2, <2>3, <2>4 DEF FoundInv
<1> QED
  BY <1>1, <1>6, <1>7

LEMMA FoundKept ==
    ASSUME S!SearchAssumption, FoundInv, S!Next \/ UNCHANGED searchVars
    PROVE  FoundInv'
<1>1. CASE S!Restart
  <2>1. S!Normal \in S!Choice /\ Empty \in Word /\ 0 <= MaxSearches
    BY DEF S!Normal, S!Choice, S!SearchAssumption
  <2>2. S!SearchTypeOK'
    <3>1. searches' \in Seq([of : S!Query, then : {"filter", "leaving", "nobody"}])
      BY <1>1 DEF S!Restart
    <3>2. Len(searches') <= MaxSearches
      BY <1>1, <2>1 DEF S!Restart
    <3>3. {searchLoad', busy', swapped', searchLost'} \subseteq BOOLEAN
      BY <1>1 DEF S!Restart
    <3>4. behind' \subseteq S!Query
      BY <1>1 DEF S!Restart
    <3>5. /\ searchRoute' \in {"search", "filter", "details", "away", "blank"}
          /\ text' \in Word /\ chosen' \in S!Choice
          /\ searchList' \in S!Query \cup {None} /\ last' \in S!Query \cup {None}
      BY <1>1, <2>1 DEF S!Restart
    <3> QED
      BY <3>1, <3>2, <3>3, <3>4, <3>5 DEF S!SearchTypeOK
  <2>3. searches' = <<>> /\ DOMAIN searches' = {}
    BY <1>1 DEF S!Restart
  <2>4. RecentInv' /\ S!FilterWaits'
    BY <1>1, <2>3 DEF S!Restart, RecentInv, S!ResultsAreRecent, S!FilterWaits
  <2> QED
    BY <2>2, <2>4 DEF FoundInv
<1> QED
  BY <1>1, FoundMoves, FoundAsked, FoundLeft, FoundEnded DEF S!Next

\* What it says of the properties.
LEMMA FoundShow ==
    ASSUME FoundInv
    PROVE  S!SearchTypeOK /\ S!LastQueryShown /\ S!ResultsAreRecent /\ S!FilterWaits
  BY DEF FoundInv, RecentInv, S!LastQueryShown

-----------------------------------------------------------------------------
(***************************************************************************)
(* Sums over finite sets, which count the products that banners opened and *)
(* the reviews of a page                                                   *)
(***************************************************************************)

\* Every set of numbers has a least one.
LEMMA LeastOf ==
    ASSUME NEW R, IsWellFoundedOn(R, Nat), \A m, n \in Nat : <<n, m>> \in R <=> n < m,
           NEW D \in SUBSET Nat, D # {}
    PROVE  \E m \in D : \A n \in D : m <= n
<1>1. PICK m \in D : \A n \in D : ~(<<n, m>> \in R)
  BY WFMin
<1>2. ASSUME NEW n \in D PROVE m <= n
  <2>1. m \in Nat /\ n \in Nat /\ ~(n < m)
    BY <1>1
  <2>2. QED
    BY ONLY <2>1
<1>3. QED
  BY <1>2

LEMMA LessThan == \A m, n \in Nat : <<n, m>> \in OpToRel(<, Nat) <=> n < m
BY DEF OpToRel

LEMMA Least == \A D \in SUBSET Nat : D # {} => \E m \in D : \A n \in D : m <= n
<1> DEFINE R == OpToRel(<, Nat)
<1>1. IsWellFoundedOn(R, Nat) /\ \A m, n \in Nat : <<n, m>> \in R <=> n < m
  BY NatLessThanWellFounded, LessThan
<1> HIDE DEF R
<1>2. QED
  BY <1>1, LeastOf

\* What holds of a finite set when it holds of all that lack one element, holds
\* of every finite set.
LEMMA SubsetInduction ==
    ASSUME NEW D, IsFiniteSet(D), NEW H \in SUBSET (SUBSET D),
           \A s \in SUBSET D : (\A x \in s : s \ {x} \in H) => s \in H
    PROVE  H = SUBSET D
<1> DEFINE Bad == {Cardinality(s) : s \in (SUBSET D) \ H}
<1>1. SUFFICES ASSUME Bad # {} PROVE FALSE
  OBVIOUS
<1>2. \A s \in SUBSET D : IsFiniteSet(s) /\ Cardinality(s) \in Nat
  BY FS_Subset, FS_CardinalityType
<1>3. PICK m \in Bad : \A n \in Bad : m <= n
  <2>1. Bad \in SUBSET Nat
    BY <1>2
  <2> QED
    BY <1>1, <2>1, Least
<1>4. PICK s \in SUBSET D : s \notin H /\ m = Cardinality(s)
  BY <1>3
<1>5. PICK x \in s : s \ {x} \notin H
  BY <1>4
<1>6. Cardinality(s \ {x}) = m - 1 /\ m \in Nat /\ s \ {x} \in SUBSET D
  BY <1>2, <1>4, FS_RemoveElement
<1>7. m - 1 \in Bad
  BY <1>5, <1>6
<1>8. m <= m - 1
  BY <1>3, <1>7
<1> QED
  BY <1>6, <1>8

Chosen(s) == CHOOSE x \in s : TRUE

\* One step of the sum of the weights w over the set s; f: the sums of the
\* smaller sets.
Sum1(w, f, s) == IF s = {} THEN 0 ELSE w[Chosen(s)] + f[s \ {Chosen(s)}]

Fold(D, w) == CHOOSE f : f = [s \in SUBSET D |-> Sum1(w, f, s)]

\* f sums the subsets of D of up to n elements.
Sums(D, w, f, n) ==
    /\ f \in [SUBSET D -> Nat]
    /\ \A s \in SUBSET D : Cardinality(s) <= n => f[s] = Sum1(w, f, s)

\* Taking the chosen element away makes a set smaller.
LEMMA Smaller ==
    ASSUME NEW D, IsFiniteSet(D), NEW s \in SUBSET D, s # {}
    PROVE  /\ Chosen(s) \in D /\ s \ {Chosen(s)} \in SUBSET D
           /\ Cardinality(s) \in Nat /\ Cardinality(s) # 0
           /\ Cardinality(s \ {Chosen(s)}) = Cardinality(s) - 1
<1>1. Chosen(s) \in s
  BY DEF Chosen
<1>2. IsFiniteSet(s)
  BY FS_Subset
<1>3. Cardinality(s) \in Nat
  BY <1>2, FS_CardinalityType
<1>4. Cardinality(s) # 0
  BY <1>1, <1>2, FS_EmptySet
<1>5. Cardinality(s \ {Chosen(s)}) = Cardinality(s) - 1
  BY <1>1, <1>2, FS_RemoveElement
<1>6. QED
  BY <1>1, <1>3, <1>4, <1>5

LEMMA Sum1Type ==
    ASSUME NEW D, IsFiniteSet(D), NEW w \in [D -> Nat], NEW f \in [SUBSET D -> Nat], NEW s \in SUBSET D
    PROVE  Sum1(w, f, s) \in Nat
<1>1. CASE s = {}
  BY <1>1 DEF Sum1
<1>2. CASE s # {}
  <2>1. w[Chosen(s)] \in Nat /\ f[s \ {Chosen(s)}] \in Nat
    BY <1>2, Smaller
  <2>2. Sum1(w, f, s) = w[Chosen(s)] + f[s \ {Chosen(s)}]
    BY <1>2 DEF Sum1
  <2>3. QED
    BY ONLY <2>1, <2>2
<1>3. QED
  BY <1>1, <1>2

\* The sums of the sets of up to n elements exist, for every n.
LEMMA SumsNone ==
    ASSUME NEW D, IsFiniteSet(D), NEW w \in [D -> Nat]
    PROVE  \E f : Sums(D, w, f, 0)
<1> DEFINE f == [s \in SUBSET D |-> 0]
<1>1. ASSUME NEW s \in SUBSET D, Cardinality(s) <= 0 PROVE s = {}
  <2>1. SUFFICES ASSUME s # {} PROVE FALSE
    OBVIOUS
  <2>2. Cardinality(s) \in Nat /\ Cardinality(s) # 0
    BY <2>1, Smaller
  <2>3. QED
    BY ONLY <1>1, <2>2
<1>2. Sums(D, w, f, 0)
  BY <1>1 DEF Sums, Sum1
<1>3. QED
  BY <1>2

LEMMA SumsMore ==
    ASSUME NEW D, IsFiniteSet(D), NEW w \in [D -> Nat], NEW n \in Nat, NEW f, Sums(D, w, f, n)
    PROVE  \E g : Sums(D, w, g, n + 1)
<1> DEFINE g == [s \in SUBSET D |-> Sum1(w, f, s)]
<1>1. f \in [SUBSET D -> Nat]
  BY DEF Sums
<1>2. g \in [SUBSET D -> Nat]
  BY <1>1, Sum1Type
<1>3. ASSUME NEW s \in SUBSET D, Cardinality(s) <= n + 1
      PROVE  g[s] = Sum1(w, g, s)
  <2>1. CASE s = {}
    BY <2>1 DEF Sum1
  <2>2. CASE s # {}
    <3> DEFINE t == s \ {Chosen(s)}
    <3>1. t \in SUBSET D /\ Cardinality(t) <= n
      BY <1>3, <2>2, Smaller
    <3>2. g[t] = f[t]
      BY <3>1 DEF Sums
    <3>3. QED
      BY <2>2, <3>2 DEF Sum1
  <2>3. QED
    BY <2>1, <2>2
<1> HIDE DEF g
<1>4. QED
  BY <1>2, <1>3 DEF Sums

LEMMA SumsAll ==
    ASSUME NEW D, IsFiniteSet(D), NEW w \in [D -> Nat], NEW n \in Nat
    PROVE  \E f : Sums(D, w, f, n)
<1> DEFINE Missing == {k \in Nat : ~\E f : Sums(D, w, f, k)}
<1>1. SUFFICES ASSUME Missing # {} PROVE FALSE
  OBVIOUS
<1>2. PICK m \in Missing : \A k \in Missing : m <= k
  <2>1. Missing \in SUBSET Nat
    OBVIOUS
  <2>2. QED
    BY <1>1, <2>1, Least
<1>3. m # 0
  BY SumsNone
<1>4. m - 1 \in Nat /\ m - 1 \notin Missing
  BY <1>2, <1>3
<1>5. \E f : Sums(D, w, f, m - 1)
  BY <1>4
<1>6. \E f : Sums(D, w, f, (m - 1) + 1)
  BY <1>4, <1>5, SumsMore
<1>7. QED
  BY <1>6

\* So the fold is a function, and all its values are numbers.
LEMMA FoldType ==
    ASSUME NEW D, IsFiniteSet(D), NEW w \in [D -> Nat]
    PROVE  \A s \in SUBSET D : /\ Fold(D, w)[s] \in Nat
                               /\ Fold(D, w)[s] = Sum1(w, Fold(D, w), s)
<1>1. PICK f : Sums(D, w, f, Cardinality(D))
  BY SumsAll, FS_CardinalityType
<1>2. ASSUME NEW s \in SUBSET D PROVE f[s] = Sum1(w, f, s)
  BY <1>1, FS_Subset DEF Sums
<1>3. f = [s \in SUBSET D |-> Sum1(w, f, s)]
  BY <1>1, <1>2 DEF Sums
<1>4. Fold(D, w) = [s \in SUBSET D |-> Sum1(w, Fold(D, w), s)]
  BY <1>3 DEF Fold
<1> DEFINE F == Fold(D, w)
<1>5. \A s \in SUBSET D : F[s] = Sum1(w, F, s)
  BY <1>4
<1> HIDE DEF F
<1> DEFINE H == {s \in SUBSET D : F[s] \in Nat}
<1>6. ASSUME NEW s \in SUBSET D, \A x \in s : s \ {x} \in H
      PROVE  s \in H
  <2>1. F[s] = Sum1(w, F, s)
    BY <1>5
  <2>2. CASE s = {}
    BY <2>1, <2>2 DEF Sum1
  <2>3. CASE s # {}
    <3>1. Chosen(s) \in s
      BY <2>3 DEF Chosen
    <3>2. w[Chosen(s)] \in Nat /\ F[s \ {Chosen(s)}] \in Nat
      BY <1>6, <3>1
    <3>3. F[s] = w[Chosen(s)] + F[s \ {Chosen(s)}]
      BY <2>1, <2>3 DEF Sum1
    <3>4. F[s] \in Nat
      BY ONLY <3>2, <3>3
    <3> QED
      BY <3>4
  <2> QED
    BY <2>2, <2>3
<1>7. H = SUBSET D
  <2>1. H \in SUBSET (SUBSET D)
    OBVIOUS
  <2> HIDE DEF H
  <2> QED
    BY <1>6, <2>1, SubsetInduction
<1> QED
  BY <1>5, <1>7 DEF F

\* The order of the summands is of no account.
LEMMA SumSplits ==
    ASSUME NEW D, IsFiniteSet(D), NEW w \in [D -> Nat]
    PROVE  \A s \in SUBSET D : \A b \in s :
             Fold(D, w)[s] = w[b] + Fold(D, w)[s \ {b}]
<1> DEFINE F == Fold(D, w)
<1>1. \A s \in SUBSET D : F[s] \in Nat /\ F[s] = Sum1(w, F, s)
  BY FoldType
<1> HIDE DEF F
<1> DEFINE H == {s \in SUBSET D : \A b \in s : F[s] = w[b] + F[s \ {b}]}
<1>2. ASSUME NEW s \in SUBSET D, \A x \in s : s \ {x} \in H, NEW b \in s
      PROVE  F[s] = w[b] + F[s \ {b}]
  <2> DEFINE x == Chosen(s)
  <2>1. x \in s /\ F[s] = w[x] + F[s \ {x}]
    BY <1>1 DEF Chosen, Sum1
  <2> HIDE DEF x
  <2>2. CASE x = b
    BY <2>1, <2>2
  <2>3. CASE x # b
    <3>1. (s \ {x}) \ {b} = (s \ {b}) \ {x}
      OBVIOUS
    <3>2. F[s \ {x}] = w[b] + F[(s \ {x}) \ {b}]
      BY <1>2, <2>1, <2>3
    <3>3. F[s \ {b}] = w[x] + F[(s \ {b}) \ {x}]
      BY <1>2, <2>1, <2>3
    <3>4. w[b] \in Nat /\ w[x] \in Nat /\ F[(s \ {b}) \ {x}] \in Nat
      BY <1>1, <2>1
    <3> QED
      BY ONLY <2>1, <3>1, <3>2, <3>3, <3>4
  <2> QED
    BY <2>2, <2>3
<1>3. H = SUBSET D
  <2>1. H \in SUBSET (SUBSET D)
    OBVIOUS
  <2>2. \A s \in SUBSET D : (\A x \in s : s \ {x} \in H) => s \in H
    BY <1>2
  <2> HIDE DEF H
  <2> QED
    BY <2>1, <2>2, SubsetInduction
<1> QED
  BY <1>3 DEF F

\* Equal summands, equal sums.
LEMMA SumsAgree ==
    ASSUME NEW D, IsFiniteSet(D), NEW w \in [D -> Nat], NEW v \in [D -> Nat],
           NEW t \in SUBSET D, \A x \in t : v[x] = w[x]
    PROVE  Fold(D, v)[t] = Fold(D, w)[t]
<1> DEFINE F == Fold(D, w)  G == Fold(D, v)
<1>1. \A s \in SUBSET D : F[s] = Sum1(w, F, s)
  BY FoldType
<1>2. \A s \in SUBSET D : G[s] = Sum1(v, G, s)
  BY FoldType
<1> HIDE DEF F, G
<1> DEFINE H == {s \in SUBSET D : s \subseteq t => G[s] = F[s]}
<1>3. ASSUME NEW s \in SUBSET D, \A x \in s : s \ {x} \in H, s \subseteq t
      PROVE  G[s] = F[s]
  <2>1. CASE s = {}
    BY <1>1, <1>2, <2>1 DEF Sum1
  <2>2. CASE s # {}
    <3>1. Chosen(s) \in s
      BY <2>2 DEF Chosen
    <3>2. G[s \ {Chosen(s)}] = F[s \ {Chosen(s)}]
      BY <1>3, <3>1
    <3>3. v[Chosen(s)] = w[Chosen(s)]
      BY <1>3, <3>1
    <3> QED
      BY <1>1, <1>2, <2>2, <3>2, <3>3 DEF Sum1
  <2> QED
    BY <2>1, <2>2
<1>4. H = SUBSET D
  <2>1. H \in SUBSET (SUBSET D)
    OBVIOUS
  <2>2. \A s \in SUBSET D : (\A x \in s : s \ {x} \in H) => s \in H
    BY <1>3
  <2> HIDE DEF H
  <2> QED
    BY <2>1, <2>2, SubsetInduction
<1> QED
  BY <1>4 DEF F, G

\* Nothing but zeros sums up to zero.
LEMMA SumOfNone ==
    ASSUME NEW D, IsFiniteSet(D), NEW w \in [D -> Nat], \A b \in D : w[b] = 0
    PROVE  Fold(D, w)[D] = 0
<1> DEFINE F == Fold(D, w)
<1>1. \A s \in SUBSET D : F[s] = Sum1(w, F, s)
  BY FoldType
<1> HIDE DEF F
<1> DEFINE H == {s \in SUBSET D : F[s] = 0}
<1>2. ASSUME NEW s \in SUBSET D, \A x \in s : s \ {x} \in H
      PROVE  s \in H
  <2>1. CASE s = {}
    BY <1>1, <2>1 DEF Sum1
  <2>2. CASE s # {}
    <3>1. Chosen(s) \in s
      BY <2>2 DEF Chosen
    <3>2. w[Chosen(s)] = 0 /\ F[s \ {Chosen(s)}] = 0
      BY <1>2, <3>1
    <3>3. F[s] = w[Chosen(s)] + F[s \ {Chosen(s)}]
      BY <1>1, <2>2 DEF Sum1
    <3> QED
      BY <3>2, <3>3
  <2> QED
    BY <2>1, <2>2
<1>3. H = SUBSET D
  <2>1. H \in SUBSET (SUBSET D)
    OBVIOUS
  <2> HIDE DEF H
  <2> QED
    BY <1>2, <2>1, SubsetInduction
<1> QED
  BY <1>3 DEF F

\* A sum changes as its only summand that does, and is not below any of them.
LEMMA SumChanges ==
    ASSUME NEW D, IsFiniteSet(D), NEW w \in [D -> Nat], NEW v \in [D -> Nat],
           NEW b \in D, \A x \in D \ {b} : v[x] = w[x]
    PROVE  /\ Fold(D, w)[D] \in Nat /\ Fold(D, v)[D] \in Nat
           /\ Fold(D, v)[D] + w[b] = Fold(D, w)[D] + v[b]
<1> DEFINE t == D \ {b}  W == Fold(D, w)  V == Fold(D, v)
<1>1. W[D] = w[b] + W[t] /\ V[D] = v[b] + V[t]
  BY SumSplits
<1>2. V[t] = W[t]
  <2>1. t \in SUBSET D /\ \A x \in t : v[x] = w[x]
    OBVIOUS
  <2> HIDE DEF t
  <2> QED
    BY <2>1, SumsAgree
<1>3. W[t] \in Nat /\ W[D] \in Nat /\ V[D] \in Nat
  BY FoldType
<1>4. w[b] \in Nat /\ v[b] \in Nat
  OBVIOUS
<1> HIDE DEF W, V, t
<1>5. V[D] + w[b] = W[D] + v[b]
  BY <1>1, <1>2, <1>3, <1>4
<1> QED
  BY <1>3, <1>5 DEF W, V

LEMMA SumBounds ==
    ASSUME NEW D, IsFiniteSet(D), NEW w \in [D -> Nat]
    PROVE  Fold(D, w)[D] \in Nat /\ \A b \in D : w[b] <= Fold(D, w)[D]
<1> DEFINE W == Fold(D, w)
<1>1. \A s \in SUBSET D : W[s] \in Nat
  BY FoldType
<1>2. \A b \in D : W[D] = w[b] + W[D \ {b}]
  BY SumSplits
<1> HIDE DEF W
<1>3. ASSUME NEW b \in D PROVE w[b] <= W[D]
  <2>1. D \in SUBSET D /\ D \ {b} \in SUBSET D /\ w[b] \in Nat
    OBVIOUS
  <2>2. W[D] \in Nat /\ W[D \ {b}] \in Nat /\ W[D] = w[b] + W[D \ {b}]
    BY <1>1, <1>2, <2>1
  <2> QED
    BY ONLY <2>1, <2>2
<1> QED
  BY <1>1, <1>3 DEF W

-----------------------------------------------------------------------------
(***************************************************************************)
(* The banners                                                             *)
(***************************************************************************)

\* f[j] is the listener that version j in the list came from; it has come to
\* that version, and does not come to it twice.
ComeFrom(f) ==
    /\ f \in [DOMAIN bannerList -> DOMAIN heard]
    /\ \A j \in DOMAIN bannerList : bannerList[j] <= heard[f[j]]
    /\ \A i, j \in DOMAIN bannerList :
         f[i] = f[j] /\ bannerList[i] = bannerList[j] => i = j

\* The types without the length of the list, which follows.
ListenInv ==
    /\ {home, rates, early, crossed, bannerLost} \subseteq BOOLEAN
    /\ server \in 1..MaxVersion
    /\ heard \in Seq(0..MaxVersion) /\ Len(heard) <= MaxListeners
    /\ bannerList \in Seq(1..MaxVersion)
    /\ \E f : ComeFrom(f)
    /\ ~early => Len(heard) <= 1

LEMMA ListenFacts ==
    ASSUME B!BannersAssumption, ListenInv
    PROVE  /\ MaxVersion \in Nat \ {0} /\ MaxListeners \in Nat \ {0}
           /\ Len(heard) \in Nat /\ DOMAIN heard = 1..Len(heard)
           /\ Len(heard) <= MaxListeners
           /\ \A k \in DOMAIN heard : heard[k] \in 0..MaxVersion /\ heard[k] \in Int
           /\ Len(bannerList) \in Nat /\ DOMAIN bannerList = 1..Len(bannerList)
           /\ \A k \in DOMAIN bannerList :
                bannerList[k] \in 1..MaxVersion /\ bannerList[k] \in Int
<1>1. MaxVersion \in Nat \ {0} /\ MaxListeners \in Nat \ {0}
  BY DEF B!BannersAssumption
<1> DEFINE U == 0..MaxVersion  V == 1..MaxVersion
<1>2. heard \in Seq(U) /\ bannerList \in Seq(V) /\ Len(heard) <= MaxListeners
  BY DEF ListenInv
<1> HIDE DEF U, V
<1>3. /\ Len(heard) \in Nat /\ DOMAIN heard = 1..Len(heard)
      /\ \A k \in DOMAIN heard : heard[k] \in U
  BY <1>2
<1>4. /\ Len(bannerList) \in Nat /\ DOMAIN bannerList = 1..Len(bannerList)
      /\ \A k \in DOMAIN bannerList : bannerList[k] \in V
  BY <1>2
<1>5. \A x : x \in 0..MaxVersion \/ x \in 1..MaxVersion => x \in Int
  BY <1>1
<1> QED
  BY <1>1, <1>2, <1>3, <1>4, <1>5 DEF U, V

\* A list that is empty came from nowhere.
LEMMA NothingCame ==
    ASSUME bannerList = <<>>
    PROVE  \E f : ComeFrom(f)
<1> DEFINE f == [j \in DOMAIN bannerList |-> 0]
<1>1. DOMAIN bannerList = {}
  OBVIOUS
<1>2. ComeFrom(f)
  BY <1>1 DEF ComeFrom
<1> QED
  BY <1>2

\* So its length is bounded by the listeners and the versions.
LEMMA ListBound ==
    ASSUME B!BannersAssumption, ListenInv
    PROVE  Len(bannerList) <= MaxListeners * MaxVersion
<1> DEFINE T == (1..MaxListeners) \X (1..MaxVersion)  n == Len(bannerList)
<1>1. MaxListeners \in Nat /\ MaxVersion \in Nat
  BY DEF B!BannersAssumption
<1>2. n \in Nat /\ DOMAIN bannerList = 1..n
  BY DEF ListenInv
<1>3. PICK f : ComeFrom(f)
  BY DEF ListenInv
<1> DEFINE g == [j \in 1..n |-> <<f[j], bannerList[j]>>]
<1>4. g \in Injection(1..n, T)
  <2>1. \A j \in 1..n : f[j] \in 1..MaxListeners /\ bannerList[j] \in 1..MaxVersion
    <3>1. DOMAIN heard \subseteq 1..MaxListeners
      BY ListenFacts
    <3> QED
      BY <1>2, <1>3, <3>1, ListenFacts DEF ComeFrom
  <2>2. \A i, j \in 1..n : f[i] = f[j] /\ bannerList[i] = bannerList[j] => i = j
    BY <1>2, <1>3 DEF ComeFrom
  <2> HIDE DEF n
  <2>3. g \in [1..n -> T]
    BY <2>1
  <2>4. \A i, j \in 1..n : g[i] = g[j] => i = j
    BY <2>2
  <2> HIDE DEF g, T
  <2> QED
    BY <2>3, <2>4 DEF Injection, IsInjective
<1> HIDE DEF n, g
<1>5. IsFiniteSet(1..MaxListeners) /\ Cardinality(1..MaxListeners) = MaxListeners
  <2>1. 1 \in Int /\ MaxListeners \in Int /\ ~(1 > MaxListeners)
    BY <1>1 DEF B!BannersAssumption
  <2>2. IsFiniteSet(1..MaxListeners) /\ Cardinality(1..MaxListeners) = MaxListeners - 1 + 1
    BY <2>1, FS_Interval
  <2> QED
    BY <2>1, <2>2
<1>6. IsFiniteSet(1..MaxVersion) /\ Cardinality(1..MaxVersion) = MaxVersion
  <2>1. 1 \in Int /\ MaxVersion \in Int /\ ~(1 > MaxVersion)
    BY <1>1 DEF B!BannersAssumption
  <2>2. IsFiniteSet(1..MaxVersion) /\ Cardinality(1..MaxVersion) = MaxVersion - 1 + 1
    BY <2>1, FS_Interval
  <2> QED
    BY <2>1, <2>2
<1>7. Cardinality(1..n) = n
  <2>1. CASE n = 0
    <3>1. 1..n = {}
      BY <2>1
    <3> QED
      BY <2>1, <3>1, FS_EmptySet
  <2>2. CASE n # 0
    <3>1. 1 \in Int /\ n \in Int /\ ~(1 > n)
      BY <1>2, <2>2
    <3>2. Cardinality(1..n) = n - 1 + 1
      BY <3>1, FS_Interval
    <3> QED
      BY <3>1, <3>2
  <2> QED
    BY <2>1, <2>2
<1>8. IsFiniteSet(T) /\ Cardinality(T) = MaxListeners * MaxVersion
  <2> DEFINE l == 1..MaxListeners  v == 1..MaxVersion
  <2>1. IsFiniteSet(l) /\ IsFiniteSet(v)
    BY <1>5, <1>6
  <2>2. Cardinality(l) = MaxListeners /\ Cardinality(v) = MaxVersion /\ T = l \X v
    BY <1>5, <1>6
  <2> HIDE DEF l, v, T
  <2>3. IsFiniteSet(l \X v) /\ Cardinality(l \X v) = Cardinality(l) * Cardinality(v)
    BY <2>1, FS_Product
  <2> QED
    BY <2>2, <2>3
<1> HIDE DEF T
<1>9. Cardinality(1..n) <= Cardinality(T)
  BY <1>4, <1>8, FS_Injection
<1> QED
  BY <1>7, <1>8, <1>9 DEF n

\* With one listener no version came twice.
LEMMA OnceListed ==
    ASSUME ListenInv
    PROVE  B!BannersOnce
<1> SUFFICES ASSUME ~early, NEW i \in DOMAIN bannerList, NEW j \in DOMAIN bannerList,
                    bannerList[i] = bannerList[j]
             PROVE  i = j
  BY DEF B!BannersOnce
<1>1. PICK f : ComeFrom(f)
  BY DEF ListenInv
<1>2. DOMAIN heard \subseteq {1}
  BY DEF ListenInv
<1>3. f[i] = 1 /\ f[j] = 1
  BY <1>1, <1>2 DEF ComeFrom
<1> QED
  BY <1>1, <1>3 DEF ComeFrom

\* A snapshot is a version that its listener has not come to.
LEMMA SnapshotListens ==
    ASSUME B!BannersAssumption, ListenInv, NEW l \in DOMAIN heard,
           NEW v \in 1..server, B!Snapshot(l, v)
    PROVE  ListenInv'
<1>1. /\ heard[l] < v /\ heard' = [heard EXCEPT ![l] = v]
      /\ bannerList' = Append(bannerList, v)
      /\ UNCHANGED <<home, rates, early, crossed, bannerLost, server>>
  BY DEF B!Snapshot, B!homeVars, B!tapVars
<1>2. v \in 1..MaxVersion /\ v \in 0..MaxVersion
  BY DEF ListenInv, B!BannersAssumption
<1>3. /\ heard' \in Seq(0..MaxVersion) /\ Len(heard') = Len(heard)
      /\ DOMAIN heard' = DOMAIN heard
      /\ \A k \in DOMAIN heard : heard'[k] = IF k = l THEN v ELSE heard[k]
  BY <1>1, <1>2 DEF ListenInv
<1> DEFINE n == Len(bannerList)
<1>4. /\ bannerList' \in Seq(1..MaxVersion) /\ n \in Nat
      /\ DOMAIN bannerList = 1..n /\ DOMAIN bannerList' = 1..(n + 1)
      /\ \A j \in 1..n : bannerList'[j] = bannerList[j]
      /\ bannerList'[n + 1] = v
  BY <1>1, <1>2 DEF ListenInv
<1>5. PICK f : ComeFrom(f)
  BY DEF ListenInv
<1>0. PICK g : g = [j \in 1..(n + 1) |-> IF j = n + 1 THEN l ELSE f[j]]
  OBVIOUS
<1>6. \A k \in DOMAIN heard : heard[k] \in Int
  BY ListenFacts
<1>7. \A j \in 1..n : /\ f[j] \in DOMAIN heard /\ bannerList[j] \in Int
                      /\ bannerList[j] <= heard[f[j]]
  BY <1>4, <1>5, ListenFacts DEF ComeFrom
<1>8. \A i, j \in 1..n : f[i] = f[j] /\ bannerList[i] = bannerList[j] => i = j
  BY <1>4, <1>5 DEF ComeFrom
<1> HIDE DEF n
<1>9. \A j \in 1..(n + 1) : j # n + 1 => j \in 1..n
  BY <1>4
<1>10. /\ g \in [1..(n + 1) -> DOMAIN heard]
       /\ g[n + 1] = l /\ \A j \in 1..n : g[j] = f[j]
  <2>1. n + 1 \in 1..(n + 1) /\ \A j \in 1..n : j # n + 1 /\ j \in 1..(n + 1)
    BY <1>4
  <2> QED
    BY <1>0, <1>7, <1>9, <2>1
<1>11. \A j \in 1..(n + 1) : bannerList'[j] <= heard'[g[j]]
  <2> TAKE j \in 1..(n + 1)
  <2>1. CASE j = n + 1
    BY <1>2, <1>3, <1>4, <1>10, <2>1
  <2>2. CASE j # n + 1
    <3>1. j \in 1..n
      BY <1>9, <2>2
    <3>2. g[j] = f[j] /\ bannerList'[j] = bannerList[j]
      BY <1>4, <1>10, <3>1
    <3>3. CASE f[j] = l
      BY <1>1, <1>2, <1>3, <1>6, <1>7, <3>1, <3>2, <3>3
    <3>4. CASE f[j] # l
      BY <1>3, <1>7, <3>1, <3>2, <3>4
    <3> QED
      BY <3>3, <3>4
  <2> QED
    BY <2>1, <2>2
<1>12. \A i, j \in 1..(n + 1) :
         g[i] = g[j] /\ bannerList'[i] = bannerList'[j] => i = j
  <2>1. ASSUME NEW i \in 1..n, f[i] = l
        PROVE  bannerList[i] # v
    <3>1. bannerList[i] <= heard[l] /\ bannerList[i] \in Int /\ heard[l] \in Int
      BY <1>6, <1>7, <2>1
    <3>2. heard[l] < v /\ v \in Int
      BY <1>1, <1>2
    <3> QED
      BY ONLY <3>1, <3>2
  <2> QED
    BY <1>4, <1>8, <1>9, <1>10, <2>1
<1>15. DOMAIN bannerList' = 1..(n + 1) /\ DOMAIN heard' = DOMAIN heard
  BY <1>3, <1>4
<1>16. ComeFrom(g)'
  BY <1>10, <1>11, <1>12, <1>15 DEF ComeFrom
<1>17. \E f_ : ComeFrom(f_)'
  BY <1>16
<1>13. ~early' => Len(heard') <= 1
  BY <1>1, <1>3 DEF ListenInv
<1>14. Len(heard') <= MaxListeners
  BY <1>3 DEF ListenInv
<1> QED
  BY <1>1, <1>3, <1>4, <1>13, <1>14, <1>17 DEF ListenInv

LEMMA OpeningIs == B!Opening = above + Fold(Banner, opens)[Banner]
BY DEF B!Opening, B!MapThenSumSet, B!MapThenFoldSet, Fold, Sum1, Chosen

LEMMA OpeningWillBe == B!Opening' = above' + Fold(Banner, opens')[Banner]
BY DEF B!Opening, B!MapThenSumSet, B!MapThenFoldSet, Fold, Sum1, Chosen

\* A product that is asked for without a tap on another banner in between is
\* that of the banner with the spinner.
TapsInv ==
    /\ selected \in Banner \cup {None}
    /\ opens \in [Banner -> Nat] /\ above \in Nat
    /\ B!Opening <= MaxOpens
    /\ ~crossed => B!Opening <= 1 /\ \A b \in Banner : opens[b] > 0 => selected = b

LEMMA BannersBounds ==
    ASSUME B!BannersAssumption
    PROVE  IsFiniteSet(Banner) /\ MaxOpens \in Nat \ {0} /\ None \notin Banner
BY DEF B!BannersAssumption, B!IsFiniteSet, IsFiniteSet

\* What the bound on the products says of each of them.
LEMMA TapFacts ==
    ASSUME B!BannersAssumption, TapsInv
    PROVE  /\ above \in 0..MaxOpens /\ opens \in [Banner -> 0..MaxOpens]
           /\ B!Opening \in Nat
           /\ \A b \in Banner : opens[b] + above <= B!Opening
<1>1. IsFiniteSet(Banner) /\ MaxOpens \in Nat
  BY BannersBounds
<1>2. opens \in [Banner -> Nat] /\ above \in Nat /\ B!Opening <= MaxOpens
  BY DEF TapsInv
<1> DEFINE n == Fold(Banner, opens)[Banner]
<1>3. n \in Nat /\ \A b \in Banner : opens[b] <= n
  BY <1>1, <1>2, SumBounds
<1>4. B!Opening = above + n
  BY OpeningIs
<1> HIDE DEF n
<1>5. B!Opening \in Nat /\ above \in 0..MaxOpens
  BY <1>1, <1>2, <1>3, <1>4
<1>6. \A b \in Banner : opens[b] \in 0..MaxOpens /\ opens[b] + above <= B!Opening
  BY <1>1, <1>2, <1>3, <1>4
<1> QED
  BY <1>2, <1>5, <1>6

\* Without a product asked for.
LEMMA UntappedTaps ==
    ASSUME B!BannersAssumption, B!Untapped
    PROVE  TapsInv'
<1>1. /\ selected' = None /\ opens' = [b \in Banner |-> 0] /\ above' = 0
  BY DEF B!Untapped
<1>2. opens' \in [Banner -> Nat] /\ \A b \in Banner : opens'[b] = 0
  BY <1>1
<1>3. Fold(Banner, opens')[Banner] = 0
  BY <1>2, BannersBounds, SumOfNone
<1>4. B!Opening' = 0
  BY <1>1, <1>3, OpeningWillBe
<1> QED
  BY <1>1, <1>2, <1>4, BannersBounds DEF TapsInv

LEMMA TapTaps ==
    ASSUME B!BannersAssumption, TapsInv, NEW b \in Banner, B!TapBanner(b)
    PROVE  TapsInv'
<1>1. /\ above = 0 /\ selected # b /\ B!Opening < MaxOpens
      /\ selected' = b /\ opens' = [opens EXCEPT ![b] = @ + 1]
      /\ above' = above
      /\ crossed' = \/ crossed /\ B!Opening > 0
                    \/ \E c \in Banner \ {b} : opens[c] > 0
  BY DEF B!TapBanner
<1>2. opens \in [Banner -> Nat] /\ IsFiniteSet(Banner) /\ MaxOpens \in Nat
  BY BannersBounds DEF TapsInv
<1>3. /\ opens' \in [Banner -> Nat] /\ opens'[b] = opens[b] + 1
      /\ \A c \in Banner \ {b} : opens'[c] = opens[c]
  BY <1>1, <1>2
<1>4. /\ Fold(Banner, opens)[Banner] \in Nat /\ Fold(Banner, opens')[Banner] \in Nat
      /\ Fold(Banner, opens')[Banner] + opens[b] = Fold(Banner, opens)[Banner] + opens'[b]
  BY <1>2, <1>3, SumChanges
<1>5. B!Opening' = B!Opening + 1 /\ B!Opening \in Nat
  BY <1>1, <1>2, <1>3, <1>4, OpeningIs, OpeningWillBe
<1>6. ASSUME ~crossed' PROVE B!Opening = 0 /\ \A c \in Banner \ {b} : opens[c] = 0
  <2>1. \A c \in Banner \ {b} : opens[c] = 0
    <3>1. \A c \in Banner \ {b} : ~(opens[c] > 0)
      BY <1>1, <1>6
    <3> QED
      BY <1>2, <3>1
  <2>2. CASE crossed
    BY <1>1, <1>5, <1>6, <2>1, <2>2
  <2>3. CASE ~crossed
    <3>1. ~(opens[b] > 0)
      BY <1>1, <2>3 DEF TapsInv
    <3>2. \A c \in Banner : opens[c] = 0
      BY <1>2, <2>1, <3>1
    <3>3. Fold(Banner, opens)[Banner] = 0
      BY <1>2, <3>2, SumOfNone
    <3> QED
      BY <1>1, <2>1, <3>3, OpeningIs
  <2> QED
    BY <2>2, <2>3
<1>7. ~crossed' => /\ B!Opening' <= 1
                   /\ \A c \in Banner : opens'[c] > 0 => selected' = c
  BY <1>1, <1>3, <1>5, <1>6
<1>8. B!Opening' <= MaxOpens
  BY <1>1, <1>2, <1>5
<1>9. above' \in Nat /\ selected' \in Banner \cup {None}
  BY <1>1
<1> QED
  BY <1>3, <1>7, <1>8, <1>9 DEF TapsInv

\* An answer takes one of the products asked for away, and may open it.
LEMMA AnswerTaps ==
    ASSUME B!BannersAssumption, TapsInv, NEW b \in Banner, opens[b] > 0,
           opens' = [opens EXCEPT ![b] = @ - 1],
           above' \in {above, above + 1}, selected' \in {selected, None},
           crossed' = crossed
    PROVE  TapsInv'
<1>1. /\ opens \in [Banner -> Nat] /\ IsFiniteSet(Banner) /\ MaxOpens \in Nat
      /\ above \in Nat /\ b \in Banner
  BY BannersBounds DEF TapsInv
<1>2. /\ opens' \in [Banner -> Nat] /\ opens'[b] = opens[b] - 1
      /\ \A c \in Banner \ {b} : opens'[c] = opens[c]
  BY <1>1
<1>0. /\ Fold(Banner, opens)[Banner] \in Nat /\ Fold(Banner, opens')[Banner] \in Nat
      /\ Fold(Banner, opens')[Banner] + opens[b] = Fold(Banner, opens)[Banner] + opens'[b]
  BY ONLY <1>1, <1>2, SumChanges
<1> DEFINE n == Fold(Banner, opens)[Banner]  m == Fold(Banner, opens')[Banner]
<1>3. n \in Nat /\ m \in Nat /\ m + opens[b] = n + opens'[b] /\ opens[b] \in Nat
  BY <1>0, <1>1
<1>4. \A c \in Banner : opens'[c] <= m
  BY <1>1, <1>2, SumBounds
<1>5. B!Opening = above + n /\ B!Opening' = above' + m
  BY OpeningIs, OpeningWillBe
<1> HIDE DEF n, m
<1>6. m = n - 1
  BY <1>1, <1>2, <1>3
<1>7. B!Opening' <= B!Opening /\ above' \in Nat /\ B!Opening \in Nat /\ B!Opening' \in Nat
  <2>1. above' = above \/ above' = above + 1
    OBVIOUS
  <2> QED
    BY ONLY <1>1, <1>3, <1>5, <1>6, <2>1
<1>8. B!Opening' <= MaxOpens
  BY <1>1, <1>7 DEF TapsInv
<1>9. ASSUME ~crossed' PROVE B!Opening' <= 1 /\ \A c \in Banner : ~(opens'[c] > 0)
  <2>1. B!Opening <= 1
    BY <1>9 DEF TapsInv
  <2>2. m = 0
    BY <1>1, <1>3, <1>5, <1>6, <2>1
  <2>3. \A c \in Banner : ~(opens'[c] > 0)
    BY <1>2, <1>4, <2>2
  <2> QED
    BY <1>7, <2>1, <2>3
<1>10. selected' \in Banner \cup {None}
  BY DEF TapsInv
<1> QED
  BY <1>2, <1>7, <1>8, <1>9, <1>10 DEF TapsInv

LEMMA LeaveTaps ==
    ASSUME B!BannersAssumption, TapsInv, above > 0, above' = above - 1,
           UNCHANGED <<selected, opens, crossed>>
    PROVE  TapsInv'
<1>1. opens \in [Banner -> Nat] /\ IsFiniteSet(Banner) /\ MaxOpens \in Nat /\ above \in Nat
  BY BannersBounds DEF TapsInv
<1>2. Fold(Banner, opens)[Banner] \in Nat
  BY <1>1, SumBounds
<1>3. B!Opening = above + Fold(Banner, opens)[Banner]
  BY OpeningIs
<1>4. B!Opening' = (above - 1) + Fold(Banner, opens)[Banner]
  BY OpeningWillBe
<1>5. B!Opening' <= B!Opening /\ above' \in Nat /\ B!Opening \in Nat /\ B!Opening' \in Nat
  BY <1>1, <1>2, <1>3, <1>4
<1>6. B!Opening' <= MaxOpens /\ (~crossed => B!Opening' <= 1)
  BY <1>1, <1>5 DEF TapsInv
<1> QED
  BY <1>5, <1>6 DEF TapsInv

LEMMA TapsRest ==
    ASSUME TapsInv, UNCHANGED <<selected, opens, above, crossed>>
    PROVE  TapsInv'
<1>1. B!Opening' = B!Opening
  BY OpeningIs, OpeningWillBe
<1> QED
  BY <1>1 DEF TapsInv

BannersInv == ListenInv /\ TapsInv

LEMMA BannersStart ==
    ASSUME B!BannersAssumption, B!Init
    PROVE  BannersInv
<1>1. /\ {home, rates, early, crossed, bannerLost} \subseteq BOOLEAN
      /\ server = 1 /\ heard = <<>> /\ bannerList = <<>>
      /\ selected = None /\ opens = [b \in Banner |-> 0] /\ above = 0
  BY DEF B!Init
<1>2. ListenInv
  <2>1. \E f : ComeFrom(f)
    BY <1>1, NothingCame
  <2>2. 1 \in 1..MaxVersion /\ MaxListeners \in Nat
    BY DEF B!BannersAssumption
  <2>3. heard \in Seq(0..MaxVersion) /\ Len(heard) = 0 /\ bannerList \in Seq(1..MaxVersion)
    BY <1>1
  <2> QED
    BY <1>1, <2>1, <2>2, <2>3 DEF ListenInv
<1>3. TapsInv
  <2>1. opens \in [Banner -> Nat] /\ \A b \in Banner : opens[b] = 0
    BY <1>1
  <2>2. Fold(Banner, opens)[Banner] = 0
    BY <2>1, BannersBounds, SumOfNone
  <2>3. B!Opening = 0
    BY <1>1, <2>2, OpeningIs
  <2> QED
    BY <1>1, <2>1, <2>3, BannersBounds DEF TapsInv
<1> QED
  BY <1>2, <1>3 DEF BannersInv

\* The listeners and the list are left alone.
LEMMA ListenRests ==
    ASSUME ListenInv, UNCHANGED <<heard, bannerList, early>>,
           server' \in 1..MaxVersion,
           {home', rates', crossed', bannerLost'} \subseteq BOOLEAN
    PROVE  ListenInv'
<1>1. PICK f : ComeFrom(f)
  BY DEF ListenInv
<1>2. ComeFrom(f)'
  BY <1>1 DEF ComeFrom
<1>3. \E f_ : ComeFrom(f_)'
  BY <1>2
<1>4. /\ server' \in 1..MaxVersion
      /\ heard' \in Seq(0..MaxVersion) /\ Len(heard') <= MaxListeners
      /\ bannerList' \in Seq(1..MaxVersion)
      /\ (~early' => Len(heard') <= 1)
  BY DEF ListenInv
<1>5. {home', rates', early', crossed', bannerLost'} \subseteq BOOLEAN
  BY DEF ListenInv
<1> QED
  BY <1>3, <1>4, <1>5 DEF ListenInv

\* One more listener, and an empty list; it is the only one unless another one
\* has not come to a version.
LEMMA AskedListens ==
    ASSUME B!BannersAssumption, ListenInv, bannerList = <<>>, B!getBanner,
           rates' = FALSE, UNCHANGED <<home, server, crossed, bannerLost>>
    PROVE  ListenInv'
<1>1. /\ Len(heard) < MaxListeners
      /\ bannerList' = <<>> /\ heard' = Append(heard, 0)
      /\ early' = (early \/ heard # <<>>)
  BY DEF B!getBanner
<1>2. heard \in Seq(0..MaxVersion) /\ MaxVersion \in Nat /\ MaxListeners \in Nat
  BY DEF ListenInv, B!BannersAssumption
<1>3. heard' \in Seq(0..MaxVersion) /\ Len(heard') = Len(heard) + 1 /\ Len(heard) \in Nat
  BY <1>1, <1>2
<1>4. \E f : ComeFrom(f)'
  <2> DEFINE f == [j \in {} |-> 0]
  <2>1. DOMAIN bannerList' = {}
    BY <1>1
  <2>2. PICK g : g = f
    OBVIOUS
  <2>3. ComeFrom(g)'
    BY <2>1, <2>2 DEF ComeFrom
  <2> QED
    BY <2>3
<1>5. ~early' => Len(heard') <= 1
  <2>1. ~early' => heard = <<>>
    BY ONLY <1>1
  <2>2. heard = <<>> => Len(heard') <= 1
    BY <1>3
  <2> QED
    BY <2>1, <2>2
<1>6. early' \in BOOLEAN
  BY <1>1
<1>7. {home', rates', early', crossed', bannerLost'} \subseteq BOOLEAN
  BY <1>6 DEF ListenInv
<1>8. Len(heard') <= MaxListeners /\ bannerList' \in Seq(1..MaxVersion)
  BY <1>1, <1>2, <1>3
<1>9. server' \in 1..MaxVersion
  BY DEF ListenInv
<1> QED
  BY <1>3, <1>4, <1>5, <1>7, <1>8, <1>9 DEF ListenInv

\* The process ends.
LEMMA RestartListens ==
    ASSUME B!BannersAssumption, ListenInv, B!Restart
    PROVE  ListenInv'
<1>1. /\ home' = FALSE /\ rates' = FALSE /\ heard' = <<>> /\ bannerList' = <<>>
      /\ early' = FALSE /\ crossed' = FALSE /\ bannerLost' = FALSE /\ server' = server
  BY DEF B!Restart, B!Untapped
<1>2. \E f : ComeFrom(f)'
  <2> DEFINE f == [j \in {} |-> 0]
  <2>1. DOMAIN bannerList' = {}
    BY <1>1
  <2>2. PICK g : g = f
    OBVIOUS
  <2>3. ComeFrom(g)'
    BY <2>1, <2>2 DEF ComeFrom
  <2> QED
    BY <2>3
<1>3. heard' \in Seq(0..MaxVersion) /\ Len(heard') = 0 /\ bannerList' \in Seq(1..MaxVersion)
  BY <1>1
<1>4. {home', rates', early', crossed', bannerLost'} \subseteq BOOLEAN
  BY <1>1
<1>5. server' \in 1..MaxVersion /\ MaxListeners \in Nat
  BY <1>1 DEF ListenInv, B!BannersAssumption
<1> QED
  BY <1>2, <1>3, <1>4, <1>5 DEF ListenInv

\* What happens to the listeners leaves the taps alone, but for a restart.
LEMMA ListenKept ==
    ASSUME B!BannersAssumption, BannersInv,
           \/ B!OpenHome \/ B!LeaveHome \/ B!RatesAnswered \/ B!RatesFail
           \/ B!ServerChanges \/ B!Heard \/ B!Restart
    PROVE  BannersInv'
<1> USE DEF BannersInv
<1>0. {home, rates, crossed, bannerLost} \subseteq BOOLEAN /\ server \in 1..MaxVersion
  BY DEF ListenInv
<1>1. CASE B!OpenHome
  <2>1. /\ home' = TRUE /\ rates' = TRUE /\ server' = server
        /\ UNCHANGED <<heard, bannerList, early, selected, opens, above, crossed, bannerLost>>
    BY <1>1 DEF B!OpenHome, B!storeVars, B!tapVars
  <2>2. ListenInv'
    BY <1>0, <2>1, ListenRests
  <2>3. TapsInv'
    BY <2>1, TapsRest
  <2> QED
    BY <2>2, <2>3
<1>2. CASE B!LeaveHome
  <2>1. /\ home' = FALSE /\ rates' = FALSE /\ crossed' = FALSE /\ bannerLost' = FALSE
        /\ server' = server /\ UNCHANGED <<heard, bannerList, early>> /\ B!Untapped
    BY <1>2 DEF B!LeaveHome, B!storeVars, B!Untapped
  <2>2. ListenInv'
    BY <1>0, <2>1, ListenRests
  <2>3. TapsInv'
    BY <2>1, UntappedTaps
  <2> QED
    BY <2>2, <2>3
<1>3. CASE B!RatesAnswered
  <2>1. /\ rates' = FALSE /\ UNCHANGED <<home, server>>
        /\ UNCHANGED <<selected, opens, above, crossed, bannerLost>>
        /\ \/ bannerList = <<>> /\ B!getBanner
           \/ bannerList # <<>> /\ UNCHANGED <<heard, bannerList, early>>
    BY <1>3 DEF B!RatesAnswered, B!tapVars
  <2>2. ListenInv'
    BY <1>0, <2>1, ListenRests, AskedListens
  <2>3. TapsInv'
    BY <2>1, TapsRest
  <2> QED
    BY <2>2, <2>3
<1>4. CASE B!RatesFail
  <2>1. /\ rates' = FALSE /\ UNCHANGED <<home, server, heard, bannerList, early>>
        /\ UNCHANGED <<selected, opens, above, crossed, bannerLost>>
    BY <1>4 DEF B!RatesFail, B!storeVars, B!tapVars
  <2>2. ListenInv'
    BY <1>0, <2>1, ListenRests
  <2>3. TapsInv'
    BY <2>1, TapsRest
  <2> QED
    BY <2>2, <2>3
<1>5. CASE B!ServerChanges
  <2>1. /\ server < MaxVersion /\ server' = server + 1
        /\ UNCHANGED <<home, rates, heard, bannerList, early>>
        /\ UNCHANGED <<selected, opens, above, crossed, bannerLost>>
    BY <1>5 DEF B!ServerChanges, B!homeVars, B!tapVars
  <2>2. server' \in 1..MaxVersion
    BY <1>0, <2>1 DEF B!BannersAssumption
  <2>3. ListenInv'
    BY <1>0, <2>1, <2>2, ListenRests
  <2>4. TapsInv'
    BY <2>1, TapsRest
  <2> QED
    BY <2>3, <2>4
<1>6. CASE B!Heard
  <2>1. PICK l \in DOMAIN heard, v \in 1..server : B!Snapshot(l, v)
    BY <1>6 DEF B!Heard
  <2>2. UNCHANGED <<selected, opens, above, crossed, bannerLost>>
    BY <2>1 DEF B!Snapshot, B!tapVars
  <2>3. ListenInv'
    BY <2>1, SnapshotListens
  <2>4. TapsInv'
    BY <2>2, TapsRest
  <2> QED
    BY <2>3, <2>4
<1>7. CASE B!Restart
  BY <1>7, RestartListens, UntappedTaps DEF B!Restart
<1> QED
  BY <1>1, <1>2, <1>3, <1>4, <1>5, <1>6, <1>7

\* And what happens to the taps leaves the listeners alone.
LEMMA TapsKept ==
    ASSUME B!BannersAssumption, BannersInv,
           \/ B!LeaveDetails
           \/ \E b \in Banner : B!TapBanner(b) \/ B!ProductEnds(b)
    PROVE  BannersInv'
<1> USE DEF BannersInv
<1>0. {home, rates, crossed, bannerLost} \subseteq BOOLEAN /\ server \in 1..MaxVersion
  BY DEF ListenInv
<1>1. UNCHANGED <<home, rates, server, heard, bannerList, early>>
  BY DEF B!LeaveDetails, B!TapBanner, B!ProductEnds, B!ProductFound,
         B!ProductMissing, B!ProductThrows, B!homeVars, B!storeVars
<1>2. crossed' \in BOOLEAN /\ bannerLost' \in BOOLEAN
  BY <1>0 DEF B!LeaveDetails, B!TapBanner, B!ProductEnds, B!ProductFound,
         B!ProductMissing, B!ProductThrows
<1>3. ListenInv'
  BY <1>0, <1>1, <1>2, ListenRests
<1>4. CASE B!LeaveDetails
  BY <1>3, <1>4, LeaveTaps DEF B!LeaveDetails
<1>5. ASSUME NEW b \in Banner, B!TapBanner(b) PROVE TapsInv'
  BY <1>5, TapTaps
<1>6. ASSUME NEW b \in Banner, B!ProductEnds(b) PROVE TapsInv'
  <2>1. /\ opens[b] > 0 /\ opens' = [opens EXCEPT ![b] = @ - 1]
        /\ above' \in {above, above + 1} /\ selected' \in {selected, None}
        /\ crossed' = crossed
    BY <1>6 DEF B!ProductEnds, B!ProductFound, B!ProductMissing, B!ProductThrows
  <2> QED
    BY <2>1, AnswerTaps
<1> QED
  BY <1>3, <1>4, <1>5, <1>6

LEMMA BannersKept ==
    ASSUME B!BannersAssumption, BannersInv, B!Next \/ UNCHANGED bannerVars
    PROVE  BannersInv'
<1>1. CASE B!Next
  BY <1>1, ListenKept, TapsKept DEF B!Next
<1>2. CASE UNCHANGED bannerVars
  <2>1. UNCHANGED <<home, rates, server, heard, bannerList, early, selected, opens,
                    above, crossed, bannerLost>>
    BY <1>2 DEF bannerVars
  <2>2. ListenInv'
    <3>1. /\ {home, rates, crossed, bannerLost} \subseteq BOOLEAN
          /\ server \in 1..MaxVersion
      BY DEF BannersInv, ListenInv
    <3>2. {home', rates', crossed', bannerLost'} \subseteq BOOLEAN
      BY <2>1, <3>1
    <3>3. server' \in 1..MaxVersion /\ ListenInv
      BY <2>1, <3>1 DEF BannersInv
    <3> QED
      BY <2>1, <3>2, <3>3, ListenRests
  <2>3. TapsInv'
    BY <2>1, TapsRest DEF BannersInv
  <2> QED
    BY <2>2, <2>3 DEF BannersInv
<1> QED
  BY <1>1, <1>2

LEMMA BannersShow ==
    ASSUME B!BannersAssumption, BannersInv
    PROVE  B!BannersTypeOK /\ B!BannersOnce /\ B!OneDetailsPerTap
<1>1. ListenInv /\ TapsInv
  BY DEF BannersInv
<1>2. B!BannersOnce
  BY <1>1, OnceListed
<1>3. B!OneDetailsPerTap
  BY <1>1 DEF TapsInv, B!OneDetailsPerTap
<1>4. Len(bannerList) <= MaxListeners * MaxVersion
  BY <1>1, ListBound
<1>5. above \in 0..MaxOpens /\ opens \in [Banner -> 0..MaxOpens]
  BY <1>1, TapFacts
<1>6. B!BannersTypeOK
  BY <1>1, <1>4, <1>5 DEF B!BannersTypeOK, ListenInv, TapsInv
<1> QED
  BY <1>2, <1>3, <1>6

-----------------------------------------------------------------------------
(***************************************************************************)
(* The reviews                                                             *)
(***************************************************************************)

\* The reviews of a page are some number.
LEMMA PageLenType ==
    ASSUME NEW c \in Chunk
    PROVE  PageLen(c) \in Nat
<1>1. c.of \in Product /\ c.page \in Nat \ {0} /\ c.v \in 0..MaxRatings
  BY DEF Chunk
<1>2. Total[c.of] \in Nat /\ PageSize \in Nat /\ MaxRatings \in Nat
  BY <1>1, ReviewsAssumption
<1> DEFINE m == c.page - 1
<1>3. m \in Nat
  BY <1>1
<1>4. m * PageSize \in Nat
  <2> HIDE DEF m
  <2> QED
    BY <1>2, <1>3
<1> DEFINE skipped == m * PageSize  all == Total[c.of] + c.v
<1>5. all \in Nat /\ skipped \in Nat
  BY <1>1, <1>2, <1>4
<1>6. PageLen(c) = IF all <= skipped THEN 0
                   ELSE IF all - skipped <= PageSize THEN all - skipped ELSE PageSize
  BY DEF PageLen
<1> HIDE DEF all, skipped
<1> QED
  BY <1>2, <1>5, <1>6

\* The fold that the length of the list is.
Adds(f) ==
    f = [s \in SUBSET DOMAIN list |->
            IF s = {} THEN 0 ELSE PageLen(list[Chosen(s)]) + f[s \ {Chosen(s)}]]

LEMMA LengthIs == Length = (CHOOSE f : Adds(f))[DOMAIN list]
BY DEF Length, FoldSeq, FoldFunction, FoldFunctionOnSet, MapThenFoldSet, Adds, Chosen

LEMMA LengthType ==
    ASSUME list \in Seq(Chunk)
    PROVE  Length \in Nat
<1> DEFINE D == DOMAIN list  w == [k \in DOMAIN list |-> PageLen(list[k])]
<1>1. \A k \in D : list[k] \in Chunk
  OBVIOUS
<1>2. w \in [D -> Nat]
  BY <1>1, PageLenType
<1>3. IsFiniteSet(D)
  <2>1. D = 1..Len(list) /\ Len(list) \in Nat
    OBVIOUS
  <2> QED
    BY <2>1, FS_Interval
<1>4. \A s \in SUBSET D : s # {} => Chosen(s) \in D
  BY DEF Chosen
<1>5. \A k \in D : w[k] = PageLen(list[k])
  OBVIOUS
<1> HIDE DEF w
<1> DEFINE W == Fold(D, w)
<1>6. \A s \in SUBSET D : W[s] = Sum1(w, W, s)
  BY <1>2, <1>3, FoldType
<1>7. W = [s \in SUBSET D |-> Sum1(w, W, s)]
  <2>1. PICK f : Sums(D, w, f, Cardinality(D))
    BY <1>2, <1>3, SumsAll, FS_CardinalityType
  <2>2. ASSUME NEW s \in SUBSET D PROVE f[s] = Sum1(w, f, s)
    BY <1>3, <2>1, FS_Subset DEF Sums
  <2>3. f = [s \in SUBSET D |-> Sum1(w, f, s)]
    BY <2>1, <2>2 DEF Sums
  <2> QED
    BY <2>3 DEF Fold
<1> HIDE DEF W
<1>8. Adds(W)
  <2>1. \A s \in SUBSET D : Sum1(w, W, s) = IF s = {} THEN 0
                            ELSE PageLen(list[Chosen(s)]) + W[s \ {Chosen(s)}]
    BY <1>4, <1>5 DEF Sum1
  <2> QED
    BY <1>7, <2>1 DEF Adds
<1>9. PICK g : Adds(g) /\ Length = g[D]
  BY <1>8, LengthIs
<1> DEFINE H == {s \in SUBSET D : g[s] \in Nat}
<1>10. ASSUME NEW s \in SUBSET D, \A x \in s : s \ {x} \in H
       PROVE  s \in H
  <2>1. CASE s = {}
    <3>1. g[s] = 0
      BY <1>9, <2>1 DEF Adds
    <3> QED
      BY <3>1
  <2>2. CASE s # {}
    <3>1. Chosen(s) \in s
      BY <2>2 DEF Chosen
    <3>2. g[s] = PageLen(list[Chosen(s)]) + g[s \ {Chosen(s)}]
      BY <1>9, <2>2 DEF Adds
    <3>3. PageLen(list[Chosen(s)]) \in Nat /\ g[s \ {Chosen(s)}] \in Nat
      BY <1>1, <1>10, <3>1, PageLenType
    <3>4. g[s] \in Nat
      BY ONLY <3>2, <3>3
    <3> QED
      BY <3>4
  <2> QED
    BY <2>1, <2>2
<1>11. H = SUBSET D
  <2>1. H \in SUBSET (SUBSET D)
    OBVIOUS
  <2>2. \A s \in SUBSET D : (\A x \in s : s \ {x} \in H) => s \in H
    BY <1>10
  <2> HIDE DEF H, D
  <2> QED
    BY <1>3, <2>1, <2>2, SubsetInduction
<1> QED
  BY <1>9, <1>11

\* The types without the length of the list, which follows.
KindsInv ==
    /\ page \in Product \cup {None} /\ sheet \in BOOLEAN
    /\ list \in Seq(Chunk)
    /\ load \in BOOLEAN /\ creatingLoad \in BOOLEAN /\ lost \in BOOLEAN
    /\ asks \subseteq Ask /\ posts \subseteq Post
    /\ ratings \in [Product -> 0..MaxRatings]
    /\ asked \subseteq Product
    /\ rated \in [of : Product, v : 0..MaxRatings] \cup {None}

\* Reads go beyond the bound only for a rating.
BoundInv ==
    /\ IsFiniteSet(asks)
    /\ Len(list) + Cardinality(asks) <= MaxPages + 1
    /\ Cardinality(asks) <= MaxPages \/ \E r \in asks : r.then # "nobody"

\* One rating at a time is sent, or read back, and creatingLoad says so.
OneInv ==
    /\ \A w, x \in posts : w = x
    /\ \A r, s \in asks : r.then # "nobody" /\ s.then # "nobody" => r = s
    /\ posts # {} => \A r \in asks : r.then = "nobody"
    /\ posts # {} => creatingLoad
    /\ \A r \in asks : r.then # "nobody" => creatingLoad
    /\ ~lost /\ creatingLoad => posts # {} \/ \E r \in asks : r.then # "nobody"

\* A rating is stored before its first page is read, which then has it.
ReadInv ==
    /\ \A w \in posts : IF w.stored THEN ratings[w.of] > 0 ELSE ratings[w.of] < MaxRatings
    /\ \A r \in asks : r.of \in asked
    /\ \A r \in asks : r.then # "nobody" => r.page = 1 /\ r.v > 0
    /\ sheet => page # None
    /\ EmptiedByRating /\ RatingIsShown

ReviewsInv == KindsInv /\ BoundInv /\ OneInv /\ ReadInv

LEMMA ReviewsStart ==
    ASSUME Init
    PROVE  ReviewsInv
<1>1. /\ page = None /\ sheet = FALSE /\ list = <<>> /\ load = TRUE
      /\ creatingLoad = FALSE /\ asks = {} /\ posts = {}
      /\ ratings = [p \in Product |-> 0] /\ asked = {} /\ rated = None /\ lost = FALSE
  BY DEF Init
<1>2. MaxPages \in Nat \ {0} /\ MaxRatings \in Nat
  BY ReviewsAssumption
<1>3. KindsInv
  <2>1. list \in Seq(Chunk)
    BY <1>1
  <2>2. ratings \in [Product -> 0..MaxRatings]
    BY <1>1, <1>2
  <2> QED
    BY <1>1, <2>1, <2>2 DEF KindsInv
<1>4. BoundInv
  <2>1. IsFiniteSet(asks) /\ Cardinality(asks) = 0
    BY <1>1, FS_EmptySet
  <2>2. Len(list) = 0
    BY <1>1
  <2> QED
    BY <1>2, <2>1, <2>2 DEF BoundInv
<1>5. OneInv
  BY <1>1 DEF OneInv
<1>6. ReadInv
  BY <1>1 DEF ReadInv, EmptiedByRating, RatingIsShown
<1> QED
  BY <1>3, <1>4, <1>5, <1>6 DEF ReviewsInv

\* The numbers of reads and pages are numbers.
LEMMA ReadFacts ==
    ASSUME ReviewsInv
    PROVE  /\ MaxPages \in Nat \ {0} /\ MaxRatings \in Nat
           /\ IsFiniteSet(asks) /\ Cardinality(asks) \in Nat
           /\ Len(list) \in Nat /\ DOMAIN list = 1..Len(list)
           /\ Cardinality(asks) + Len(list) <= MaxPages + 1
           /\ \A r \in asks : /\ r.of \in Product /\ r.page \in Nat \ {0}
                              /\ r.v \in 0..MaxRatings /\ r.v \in Int
                              /\ r.then \in By \cup {"nobody"}
           /\ \A w \in posts : w.of \in Product /\ w.stored \in BOOLEAN /\ w.by \in By
<1>1. IsFiniteSet(asks) /\ Cardinality(asks) \in Nat
  BY FS_CardinalityType DEF ReviewsInv, BoundInv
<1>2. Len(list) \in Nat /\ DOMAIN list = 1..Len(list)
  <2>1. list \in Seq(Chunk)
    BY DEF ReviewsInv, KindsInv
  <2> QED
    BY <2>1
<1>3. asks \subseteq Ask /\ posts \subseteq Post
  BY DEF ReviewsInv, KindsInv
<1>4. MaxPages \in Nat \ {0} /\ MaxRatings \in Nat
  BY ReviewsAssumption
<1>5. \A r \in asks : /\ r.of \in Product /\ r.page \in Nat \ {0}
                      /\ r.v \in 0..MaxRatings /\ r.v \in Int
                      /\ r.then \in By \cup {"nobody"}
  BY <1>3, <1>4 DEF Ask
<1>6. \A w \in posts : w.of \in Product /\ w.stored \in BOOLEAN /\ w.by \in By
  BY <1>3 DEF Post
<1>7. Cardinality(asks) + Len(list) <= MaxPages + 1
  BY <1>1, <1>2, <1>4 DEF ReviewsInv, BoundInv
<1> QED
  BY <1>1, <1>2, <1>4, <1>5, <1>6, <1>7

\* One more read, of what the server has no less of.
LEMMA ReadAdded ==
    ASSUME ReviewsInv, NEW p \in Product, NEW i \in Nat \ {0},
           NEW who \in By \cup {"nobody"}, getReview(p, i, who)
    PROVE  /\ asks' \subseteq Ask /\ load' = TRUE
           /\ asks' = asks \cup {[of |-> p, page |-> i, v |-> ratings[p], then |-> who]}
           /\ IsFiniteSet(asks') /\ Cardinality(asks') = Cardinality(asks) + 1
<1> DEFINE r == [of |-> p, page |-> i, v |-> ratings[p], then |-> who]
<1>1. r \notin asks /\ asks' = asks \cup {r} /\ load' = TRUE
  BY DEF getReview
<1>2. ratings[p] \in 0..MaxRatings
  BY DEF ReviewsInv, KindsInv
<1>3. r \in Ask
  BY <1>2 DEF Ask
<1>4. asks \subseteq Ask
  BY DEF ReviewsInv, KindsInv
<1> HIDE DEF r
<1>5. IsFiniteSet(asks') /\ Cardinality(asks') = Cardinality(asks) + 1
  BY <1>1, ReadFacts, FS_AddElement
<1>6. asks' \subseteq Ask
  BY <1>1, <1>3, <1>4
<1> QED
  BY <1>1, <1>5, <1>6 DEF r

\* A page that asks for a page of reviews.
LEMMA AsksKept ==
    ASSUME ReviewsInv, NEW p \in Product, NEW i \in Nat \ {0}, Room,
           getReview(p, i, "nobody"), asked' = asked \cup {p},
           page' = p,
           UNCHANGED <<sheet, list, creatingLoad, posts, ratings, rated, lost>>
    PROVE  ReviewsInv'
<1> DEFINE r == [of |-> p, page |-> i, v |-> ratings[p], then |-> "nobody"]
<1>1. /\ asks' \subseteq Ask /\ load' = TRUE /\ asks' = asks \cup {r}
      /\ IsFiniteSet(asks') /\ Cardinality(asks') = Cardinality(asks) + 1
  BY ReadAdded
<1>2. r.of = p /\ r.then = "nobody"
  OBVIOUS
<1> HIDE DEF r
<1>3. KindsInv'
  BY <1>1 DEF ReviewsInv, KindsInv
<1>4. BoundInv'
  <2>1. Len(list) + Cardinality(asks) < MaxPages
    BY DEF Room
  <2>2. /\ Len(list') + Cardinality(asks') <= MaxPages + 1
        /\ Cardinality(asks') <= MaxPages
    BY <1>1, <2>1, ReadFacts
  <2> QED
    BY <1>1, <2>2 DEF BoundInv
<1>5. OneInv'
  BY <1>1, <1>2 DEF ReviewsInv, OneInv
<1>6. ReadInv'
  <2>1. sheet' => page' # None
    BY ReviewsAssumption
  <2>2. EmptiedByRating' /\ RatingIsShown'
    BY DEF ReviewsInv, ReadInv, EmptiedByRating, RatingIsShown
  <2>3. /\ \A s \in asks' : s.of \in asked'
        /\ \A s \in asks' : s.then # "nobody" => s.page = 1 /\ s.v > 0
    BY <1>1, <1>2 DEF ReviewsInv, ReadInv
  <2>4. \A w \in posts' : IF w.stored THEN ratings'[w.of] > 0
                          ELSE ratings'[w.of] < MaxRatings
    BY DEF ReviewsInv, ReadInv
  <2> QED
    BY <2>1, <2>2, <2>3, <2>4 DEF ReadInv
<1> QED
  BY <1>3, <1>4, <1>5, <1>6 DEF ReviewsInv

LEMMA PagesAsk ==
    ASSUME ReviewsInv, (\E p \in Product : OpenPage(p)) \/ Scroll
    PROVE  ReviewsInv'
<1>1. ASSUME NEW p \in Product, OpenPage(p) PROVE ReviewsInv'
  BY <1>1, AsksKept DEF OpenPage
<1>2. CASE Scroll
  <2>1. /\ page # None /\ Room /\ getReview(page, Length \div PageSize + 1, "nobody")
        /\ asked' = asked \cup {page}
        /\ UNCHANGED <<page, sheet, list, creatingLoad, posts, ratings, rated, lost>>
    BY <1>2 DEF Scroll
  <2>2. page \in Product
    BY <2>1 DEF ReviewsInv, KindsInv
  <2>3. Length \div PageSize + 1 \in Nat \ {0}
    <3>1. Length \in Nat
      BY LengthType DEF ReviewsInv, KindsInv
    <3>2. PageSize \in Nat \ {0}
      BY ReviewsAssumption
    <3> QED
      BY ONLY <3>1, <3>2
  <2> QED
    BY <2>1, <2>2, <2>3, AsksKept
<1> QED
  BY <1>1, <1>2

\* Only the page or its sheet changes.
LEMMA PageKept ==
    ASSUME ReviewsInv, LeavePage \/ OpenSheet
    PROVE  ReviewsInv'
<1>1. /\ UNCHANGED <<list, load, creatingLoad, asks, posts, ratings, asked, rated, lost>>
      /\ page' \in {page, None}
      /\ sheet' \in BOOLEAN /\ (sheet' => page' # None)
  <2>1. CASE LeavePage
    <3>1. sheet' = sheet /\ ~sheet
      BY <2>1 DEF LeavePage
    <3>2. sheet' = FALSE
      BY <3>1 DEF ReviewsInv, KindsInv
    <3> QED
      BY <2>1, <3>2 DEF LeavePage, listVars, history
  <2>2. CASE OpenSheet
    BY <2>2 DEF OpenSheet, listVars, history
  <2> QED
    BY <2>1, <2>2
<1>2. KindsInv'
  BY <1>1 DEF ReviewsInv, KindsInv
<1>3. BoundInv' /\ OneInv'
  BY <1>1 DEF ReviewsInv, BoundInv, OneInv
<1>4. ReadInv'
  BY <1>1 DEF ReviewsInv, ReadInv, EmptiedByRating, RatingIsShown
<1> QED
  BY <1>2, <1>3, <1>4 DEF ReviewsInv

\* What createRating finds of its sheet changes, nothing else.
LEMMA SheetMoves ==
    ASSUME ReviewsInv, NEW a \in By, NEW b \in By, Sheet(a, b)
    PROVE  /\ asks' \subseteq Ask /\ posts' \subseteq Post
           /\ IsFiniteSet(asks') /\ Cardinality(asks') <= Cardinality(asks)
           /\ Cardinality(asks') \in Nat
           /\ \E f : /\ f \in [asks -> asks'] /\ asks' = {f[r] : r \in asks}
                     /\ \A r \in asks : /\ f[r].of = r.of /\ f[r].page = r.page
                                        /\ f[r].v = r.v
                                        /\ f[r].then = "nobody" <=> r.then = "nobody"
           /\ \E g : /\ g \in [posts -> posts'] /\ posts' = {g[w] : w \in posts}
                     /\ \A w \in posts : g[w].of = w.of /\ g[w].stored = w.stored
<1> DEFINE f == [r \in asks |-> IF r.then = a THEN [r EXCEPT !.then = b] ELSE r]
           g == [w \in posts |-> IF w.by = a THEN [w EXCEPT !.by = b] ELSE w]
<1>1. asks' = {IF r.then = a THEN [r EXCEPT !.then = b] ELSE r : r \in asks}
  BY DEF Sheet
<1>2. posts' = {IF w.by = a THEN [w EXCEPT !.by = b] ELSE w : w \in posts}
  BY DEF Sheet
<1>3. asks \subseteq Ask /\ posts \subseteq Post
  BY DEF ReviewsInv, KindsInv
<1>4. a # "nobody" /\ b # "nobody"
  BY DEF By
<1>5. \A r \in asks : /\ f[r] \in Ask
                      /\ f[r].of = r.of /\ f[r].page = r.page /\ f[r].v = r.v
                      /\ f[r].then = "nobody" <=> r.then = "nobody"
  BY <1>3, <1>4 DEF Ask
<1>6. \A w \in posts : g[w] \in Post /\ g[w].of = w.of /\ g[w].stored = w.stored
  BY <1>3 DEF Post
<1>7. asks' = {f[r] : r \in asks} /\ posts' = {g[w] : w \in posts}
  BY <1>1, <1>2
<1>8. DOMAIN f = asks /\ DOMAIN g = posts
  OBVIOUS
<1>9. f = [r \in asks |-> f[r]] /\ g = [w \in posts |-> g[w]]
  OBVIOUS
<1> HIDE DEF f, g
<1>10. f \in [asks -> asks'] /\ g \in [posts -> posts']
  BY <1>7, <1>9
<1>11. f \in Surjection(asks, asks')
  BY <1>7, <1>10 DEF Surjection
<1>12. IsFiniteSet(asks') /\ Cardinality(asks') <= Cardinality(asks)
  BY <1>11, ReadFacts, FS_Surjection
<1>13. Cardinality(asks') \in Nat
  BY <1>12, FS_CardinalityType
<1>14. asks' \subseteq Ask /\ posts' \subseteq Post
  BY <1>5, <1>6, <1>7
<1>15. \E h : /\ h \in [asks -> asks'] /\ asks' = {h[r] : r \in asks}
              /\ \A r \in asks : /\ h[r].of = r.of /\ h[r].page = r.page
                                 /\ h[r].v = r.v
                                 /\ h[r].then = "nobody" <=> r.then = "nobody"
  BY <1>5, <1>7, <1>10
<1>16. \E h : /\ h \in [posts -> posts'] /\ posts' = {h[w] : w \in posts}
              /\ \A w \in posts : h[w].of = w.of /\ h[w].stored = w.stored
  BY <1>6, <1>7, <1>10
<1> QED
  BY <1>12, <1>13, <1>14, <1>15, <1>16

LEMMA SheetKept ==
    ASSUME ReviewsInv, CloseSheet \/ TransitionEnds
    PROVE  ReviewsInv'
<1>1. /\ UNCHANGED <<page, list, load, creatingLoad, ratings, asked, rated, lost>>
      /\ sheet' \in {sheet, FALSE}
  BY DEF CloseSheet, TransitionEnds, listVars, history
<1>2. PICK a \in By, b \in By : Sheet(a, b)
  BY DEF CloseSheet, TransitionEnds, By
<1>3. /\ asks' \subseteq Ask /\ posts' \subseteq Post
      /\ IsFiniteSet(asks') /\ Cardinality(asks') <= Cardinality(asks)
      /\ Cardinality(asks') \in Nat
  BY <1>2, SheetMoves
<1>4. PICK f : /\ f \in [asks -> asks'] /\ asks' = {f[r] : r \in asks}
               /\ \A r \in asks : /\ f[r].of = r.of /\ f[r].page = r.page
                                  /\ f[r].v = r.v
                                  /\ f[r].then = "nobody" <=> r.then = "nobody"
  BY <1>2, SheetMoves
<1>5. PICK g : /\ g \in [posts -> posts'] /\ posts' = {g[w] : w \in posts}
               /\ \A w \in posts : g[w].of = w.of /\ g[w].stored = w.stored
  BY <1>2, SheetMoves
<1>6. KindsInv'
  BY <1>1, <1>3 DEF ReviewsInv, KindsInv
<1>7. BoundInv'
  <2>1. Len(list') + Cardinality(asks') <= MaxPages + 1
    BY <1>1, <1>3, ReadFacts
  <2>2. CASE Cardinality(asks) <= MaxPages
    <3>1. Cardinality(asks') <= MaxPages
      BY <1>3, <2>2, ReadFacts
    <3> QED
      BY <1>3, <2>1, <3>1 DEF BoundInv
  <2>3. CASE \E r \in asks : r.then # "nobody"
    <3>1. \E r \in asks' : r.then # "nobody"
      BY <1>4, <2>3
    <3> QED
      BY <1>3, <2>1, <3>1 DEF BoundInv
  <2> QED
    BY <2>2, <2>3 DEF ReviewsInv, BoundInv
<1>8. OneInv'
  <2>1. \A w, x \in posts' : w = x
    BY <1>5 DEF ReviewsInv, OneInv
  <2>2. \A r, s \in asks' : r.then # "nobody" /\ s.then # "nobody" => r = s
    BY <1>4 DEF ReviewsInv, OneInv
  <2>3. posts' # {} => posts # {}
    BY <1>5
  <2>4. posts # {} => posts' # {}
    BY <1>5
  <2>5. posts' # {} => \A r \in asks' : r.then = "nobody"
    BY <1>4, <2>3 DEF ReviewsInv, OneInv
  <2>6. \A r \in asks' : r.then # "nobody" => creatingLoad'
    BY <1>1, <1>4 DEF ReviewsInv, OneInv
  <2>7. ~lost' /\ creatingLoad' => posts' # {} \/ \E r \in asks' : r.then # "nobody"
    BY <1>1, <1>4, <2>4 DEF ReviewsInv, OneInv
  <2>8. posts' # {} => creatingLoad'
    BY <1>1, <2>3 DEF ReviewsInv, OneInv
  <2> QED
    BY <2>1, <2>2, <2>5, <2>6, <2>7, <2>8 DEF OneInv
<1>9. ReadInv'
  <2>1. sheet' => page' # None
    BY <1>1 DEF ReviewsInv, ReadInv
  <2>2. EmptiedByRating' /\ RatingIsShown'
    BY <1>1 DEF ReviewsInv, ReadInv, EmptiedByRating, RatingIsShown
  <2>3. \A r \in asks' : r.of \in asked'
    BY <1>1, <1>4 DEF ReviewsInv, ReadInv
  <2>4. \A r \in asks' : r.then # "nobody" => r.page = 1 /\ r.v > 0
    BY <1>4 DEF ReviewsInv, ReadInv
  <2>5. \A w \in posts' : IF w.stored THEN ratings'[w.of] > 0
                          ELSE ratings'[w.of] < MaxRatings
    BY <1>1, <1>5 DEF ReviewsInv, ReadInv
  <2> QED
    BY <2>1, <2>2, <2>3, <2>4, <2>5 DEF ReadInv
<1> QED
  BY <1>6, <1>7, <1>8, <1>9 DEF ReviewsInv

\* SUBMIT, with a user and without.
LEMMA SubmitKept ==
    ASSUME ReviewsInv, Submit
    PROVE  ReviewsInv'
<1> DEFINE w == [of |-> page, stored |-> FALSE, by |-> "sheet"]
<1>1. /\ sheet /\ ~creatingLoad
      /\ ratings[page] + Cardinality({x \in posts : x.of = page}) < MaxRatings
      /\ creatingLoad' = TRUE /\ posts' = posts \cup {w}
      /\ UNCHANGED <<page, sheet, list, load, asks, ratings, asked, rated, lost>>
  BY DEF Submit, listVars, history
<1>2. posts = {} /\ \A r \in asks : r.then = "nobody"
  BY <1>1 DEF ReviewsInv, OneInv
<1>3. page \in Product
  BY <1>1 DEF ReviewsInv, ReadInv, KindsInv
<1>4. ratings[page] < MaxRatings
  <2>1. {x \in posts : x.of = page} = {}
    BY <1>2
  <2>2. Cardinality({x \in posts : x.of = page}) = 0
    BY <2>1, FS_EmptySet
  <2>3. ratings[page] \in 0..MaxRatings
    BY <1>3 DEF ReviewsInv, KindsInv
  <2> QED
    BY <1>1, <2>2, <2>3
<1>5. w \in Post /\ w.of = page /\ w.stored = FALSE
  BY <1>3 DEF Post, By
<1> HIDE DEF w
<1>6. posts' = {w}
  BY <1>1, <1>2
<1>7. KindsInv'
  BY <1>1, <1>5, <1>6 DEF ReviewsInv, KindsInv
<1>8. BoundInv'
  BY <1>1 DEF ReviewsInv, BoundInv
<1>9. OneInv'
  BY <1>1, <1>2, <1>6 DEF OneInv
<1>10. ReadInv'
  <2>1. EmptiedByRating' /\ RatingIsShown'
    BY <1>1 DEF ReviewsInv, ReadInv, EmptiedByRating, RatingIsShown
  <2> QED
    BY <1>1, <1>4, <1>5, <1>6, <2>1 DEF ReviewsInv, ReadInv
<1> QED
  BY <1>7, <1>8, <1>9, <1>10 DEF ReviewsInv

LEMMA UnsignedKept ==
    ASSUME ReviewsInv, SubmitUnsigned
    PROVE  ReviewsInv'
<1>1. /\ creatingLoad' = TRUE /\ lost' = TRUE
      /\ UNCHANGED <<page, sheet, list, load, asks, posts, ratings, asked, rated>>
  BY DEF SubmitUnsigned, listVars
<1>2. KindsInv'
  BY <1>1 DEF ReviewsInv, KindsInv
<1>3. BoundInv'
  BY <1>1 DEF ReviewsInv, BoundInv
<1>4. OneInv'
  BY <1>1 DEF ReviewsInv, OneInv
<1>5. ReadInv'
  BY <1>1 DEF ReviewsInv, ReadInv, EmptiedByRating, RatingIsShown
<1> QED
  BY <1>2, <1>3, <1>4, <1>5 DEF ReviewsInv

\* The server stores a rating.
LEMMA StoredKept ==
    ASSUME ReviewsInv, NEW w \in posts, RatingStored(w)
    PROVE  ReviewsInv'
<1> DEFINE x == [w EXCEPT !.stored = TRUE]
<1>1. /\ ~w.stored /\ posts' = (posts \ {w}) \cup {x}
      /\ ratings' = [ratings EXCEPT ![w.of] = @ + 1]
      /\ UNCHANGED <<page, sheet, list, load, creatingLoad, asks, asked, rated, lost>>
  BY DEF RatingStored, listVars, history
<1>2. w \in Post /\ w.of \in Product
  BY ReadFacts DEF ReviewsInv, KindsInv
<1>3. x \in Post /\ x.of = w.of /\ x.stored = TRUE
  BY <1>2 DEF Post
<1> HIDE DEF x
<1>4. posts' = {x}
  BY <1>1 DEF ReviewsInv, OneInv
<1>5. ratings[w.of] \in 0..MaxRatings /\ ratings[w.of] < MaxRatings /\ MaxRatings \in Nat
  BY <1>1, <1>2, ReadFacts DEF ReviewsInv, KindsInv, ReadInv
<1>6. ratings' \in [Product -> 0..MaxRatings] /\ ratings'[w.of] > 0
  <2>1. ratings[w.of] + 1 \in 0..MaxRatings /\ ratings[w.of] + 1 > 0
    BY <1>5
  <2>2. ratings \in [Product -> 0..MaxRatings]
    BY DEF ReviewsInv, KindsInv
  <2> QED
    BY <1>1, <1>2, <2>1, <2>2
<1>7. KindsInv'
  BY <1>1, <1>3, <1>4, <1>6 DEF ReviewsInv, KindsInv
<1>8. BoundInv'
  BY <1>1 DEF ReviewsInv, BoundInv
<1>9. OneInv'
  BY <1>1, <1>4 DEF ReviewsInv, OneInv
<1>10. ReadInv'
  <2>1. EmptiedByRating' /\ RatingIsShown'
    BY <1>1 DEF ReviewsInv, ReadInv, EmptiedByRating, RatingIsShown
  <2>2. \A y \in posts' : IF y.stored THEN ratings'[y.of] > 0
                          ELSE ratings'[y.of] < MaxRatings
    BY <1>3, <1>4, <1>6
  <2> QED
    BY <1>1, <2>1, <2>2 DEF ReviewsInv, ReadInv
<1> QED
  BY <1>7, <1>8, <1>9, <1>10 DEF ReviewsInv

\* The rating is stored: the list is emptied, and read anew.
LEMMA RatingAnsweredKept ==
    ASSUME ReviewsInv, NEW w \in posts, RatingAnswered(w)
    PROVE  ReviewsInv'
<1> DEFINE r == [of |-> w.of, page |-> 1, v |-> ratings[w.of], then |-> w.by]
<1>1. /\ w.stored /\ posts' = posts \ {w} /\ list' = <<>>
      /\ getReview(w.of, 1, w.by)
      /\ asked' = {s.of : s \in asks} \cup {w.of} /\ rated' = None
      /\ UNCHANGED <<page, sheet, creatingLoad, ratings, lost>>
  BY DEF RatingAnswered
<1>2. w.of \in Product /\ w.by \in By /\ w.by # "nobody" /\ w.by \in By \cup {"nobody"}
  BY ReadFacts DEF By
<1>0. 1 \in Nat \ {0}
  OBVIOUS
<1>3. /\ asks' \subseteq Ask /\ load' = TRUE /\ asks' = asks \cup {r}
      /\ IsFiniteSet(asks') /\ Cardinality(asks') = Cardinality(asks) + 1
  BY <1>0, <1>1, <1>2, ReadAdded
<1>4. r.of = w.of /\ r.then = w.by /\ r.page = 1 /\ r.v = ratings[w.of]
  OBVIOUS
<1> HIDE DEF r
<1>5. posts' = {} /\ (\A s \in asks : s.then = "nobody") /\ creatingLoad
  BY <1>1 DEF ReviewsInv, OneInv
<1>6. KindsInv'
  <2>1. asked' \subseteq Product
    BY <1>1, <1>2, ReadFacts
  <2>2. list' \in Seq(Chunk)
    BY <1>1
  <2>3. posts' \subseteq Post
    BY <1>5
  <2> QED
    BY <1>1, <1>3, <2>1, <2>2, <2>3 DEF ReviewsInv, KindsInv
<1>7. BoundInv'
  <2>1. Len(list') = 0
    BY <1>1
  <2>2. Cardinality(asks) <= MaxPages
    BY <1>5 DEF ReviewsInv, BoundInv
  <2>3. Len(list') + Cardinality(asks') <= MaxPages + 1
    BY <1>3, <2>1, <2>2, ReadFacts
  <2>4. \E s \in asks' : s.then # "nobody"
    BY <1>2, <1>3, <1>4
  <2> QED
    BY <1>3, <2>3, <2>4 DEF BoundInv
<1>8. OneInv'
  BY <1>1, <1>2, <1>3, <1>4, <1>5 DEF OneInv
<1>9. ReadInv'
  <2>1. \A s \in asks' : s.of \in asked'
    BY <1>1, <1>3, <1>4
  <2>2. \A s \in asks' : s.then # "nobody" => s.page = 1 /\ s.v > 0
    BY <1>1, <1>3, <1>4, <1>5 DEF ReviewsInv, ReadInv
  <2>3. DOMAIN list' = {}
    BY <1>1
  <2>4. EmptiedByRating' /\ RatingIsShown'
    BY <1>1, <2>3 DEF EmptiedByRating, RatingIsShown
  <2>5. sheet' => page' # None
    BY <1>1 DEF ReviewsInv, ReadInv
  <2> QED
    BY <1>5, <2>1, <2>2, <2>4, <2>5 DEF ReadInv
<1> QED
  BY <1>6, <1>7, <1>8, <1>9 DEF ReviewsInv

\* It is refused, or the request throws.
LEMMA PostEnded ==
    ASSUME ReviewsInv, NEW w \in posts, RatingRefused(w) \/ RatingThrows(w)
    PROVE  ReviewsInv'
<1>1. /\ posts' = posts \ {w}
      /\ UNCHANGED <<page, sheet, list, load, asks, ratings, asked, rated>>
      /\ \/ creatingLoad' = FALSE /\ lost' = lost
         \/ creatingLoad' = creatingLoad /\ lost' = TRUE
  BY DEF RatingRefused, RatingThrows, listVars, history
<1>2. posts' = {} /\ \A r \in asks : r.then = "nobody"
  BY <1>1 DEF ReviewsInv, OneInv
<1>3. KindsInv'
  <2>1. creatingLoad' \in BOOLEAN /\ lost' \in BOOLEAN
    BY <1>1 DEF ReviewsInv, KindsInv
  <2>2. posts' \subseteq Post
    BY <1>2
  <2> QED
    BY <1>1, <2>1, <2>2 DEF ReviewsInv, KindsInv
<1>4. BoundInv'
  BY <1>1 DEF ReviewsInv, BoundInv
<1>5. OneInv'
  <2>1. ~lost' => ~creatingLoad'
    BY <1>1
  <2> QED
    BY <1>1, <1>2, <2>1 DEF OneInv
<1>6. ReadInv'
  <2>1. EmptiedByRating' /\ RatingIsShown'
    BY <1>1 DEF ReviewsInv, ReadInv, EmptiedByRating, RatingIsShown
  <2> QED
    BY <1>1, <1>2, <2>1 DEF ReviewsInv, ReadInv
<1> QED
  BY <1>3, <1>4, <1>5, <1>6 DEF ReviewsInv

\* A read ends: its callback waits no longer.
Ended(r) ==
    \/ Then(r) /\ lost' = lost
    \/ UNCHANGED <<page, sheet, creatingLoad>> /\ lost' = TRUE

\* What that leaves of the page, the sheet and the flag.
LEMMA EndedLeaves ==
    ASSUME ReviewsInv, NEW r \in asks, Ended(r)
    PROVE  /\ page' \in Product \cup {None} /\ sheet' \in BOOLEAN
           /\ sheet' => page' # None
           /\ creatingLoad' \in BOOLEAN /\ lost' \in BOOLEAN
           /\ r.then = "nobody" => creatingLoad' = creatingLoad
           /\ r.then # "nobody" => creatingLoad' = FALSE \/ lost' = TRUE
           /\ lost' = lost \/ lost' = TRUE
<1>1. /\ page \in Product \cup {None} /\ sheet \in BOOLEAN
      /\ creatingLoad \in BOOLEAN /\ lost \in BOOLEAN
      /\ sheet => page # None
  BY DEF ReviewsInv, KindsInv, ReadInv
<1>2. CASE Then(r) /\ lost' = lost
  <2>1. /\ creatingLoad' = (creatingLoad /\ r.then = "nobody")
        /\ sheet' = (sheet /\ r.then \notin {"sheet", "leaving"})
        /\ page' = IF ~sheet /\ r.then = "leaving" THEN None ELSE page
    BY <1>2 DEF Then
  <2>2. creatingLoad' \in BOOLEAN /\ sheet' \in BOOLEAN
    BY ONLY <2>1
  <2>3. page' \in Product \cup {None}
    BY <1>1, <2>1
  <2>4. sheet' => page' # None
    <3>1. sheet' => sheet
      BY ONLY <2>1
    <3>2. sheet => page' = page
      BY <2>1
    <3> QED
      BY <1>1, <3>1, <3>2
  <2>5. r.then # "nobody" => creatingLoad' = FALSE
    BY <2>1
  <2>6. r.then = "nobody" => creatingLoad' = creatingLoad
    BY <1>1, <2>1
  <2> QED
    BY <1>1, <1>2, <2>2, <2>3, <2>4, <2>5, <2>6
<1>3. CASE UNCHANGED <<page, sheet, creatingLoad>> /\ lost' = TRUE
  BY <1>1, <1>3
<1> QED
  BY <1>2, <1>3 DEF Ended

LEMMA EndedCounts ==
    ASSUME ReviewsInv, NEW r \in asks, asks' = asks \ {r}
    PROVE  /\ asks' \subseteq Ask /\ IsFiniteSet(asks')
           /\ Cardinality(asks') \in Nat /\ Cardinality(asks') = Cardinality(asks) - 1
<1>1. asks \subseteq Ask /\ IsFiniteSet(asks)
  BY DEF ReviewsInv, KindsInv, BoundInv
<1>2. IsFiniteSet(asks') /\ Cardinality(asks') = Cardinality(asks) - 1
  BY <1>1, FS_RemoveElement
<1> QED
  BY <1>1, <1>2, FS_CardinalityType

LEMMA EndedOne ==
    ASSUME ReviewsInv, NEW r \in asks, Ended(r), asks' = asks \ {r}, posts' = posts
    PROVE  OneInv'
<1>1. /\ r.then = "nobody" => creatingLoad' = creatingLoad
      /\ r.then # "nobody" => creatingLoad' = FALSE \/ lost' = TRUE
      /\ lost' = lost \/ lost' = TRUE
      /\ creatingLoad' \in BOOLEAN /\ lost' \in BOOLEAN
  BY EndedLeaves
<1>2. creatingLoad \in BOOLEAN /\ lost \in BOOLEAN
  BY DEF ReviewsInv, KindsInv
<1>3. OneInv
  BY DEF ReviewsInv
<1>4. /\ \A w, x \in posts' : w = x
      /\ \A q, s \in asks' : q.then # "nobody" /\ s.then # "nobody" => q = s
      /\ posts' # {} => \A s \in asks' : s.then = "nobody"
  BY <1>3 DEF OneInv
<1>5. CASE r.then = "nobody"
  <2>1. creatingLoad' = creatingLoad
    BY <1>1, <1>5
  <2>2. posts' # {} => creatingLoad'
    BY <1>3, <2>1 DEF OneInv
  <2>3. \A s \in asks' : s.then # "nobody" => creatingLoad'
    BY <1>3, <2>1 DEF OneInv
  <2>4. ~lost' /\ creatingLoad' => posts' # {} \/ \E s \in asks' : s.then # "nobody"
    <3>1. ~lost' /\ creatingLoad' => ~lost /\ creatingLoad
      BY <1>1, <1>2, <2>1
    <3>2. ~lost /\ creatingLoad => posts # {} \/ \E s \in asks : s.then # "nobody"
      BY <1>3 DEF OneInv
    <3> QED
      BY <1>5, <3>1, <3>2
  <2> QED
    BY <1>4, <2>2, <2>3, <2>4 DEF OneInv
<1>6. CASE r.then # "nobody"
  <2>1. posts' = {} /\ \A s \in asks' : s.then = "nobody"
    BY <1>3, <1>6 DEF OneInv
  <2>2. ~lost' => ~creatingLoad'
    BY <1>1, <1>6
  <2> QED
    BY <1>4, <2>1, <2>2 DEF OneInv
<1> QED
  BY <1>5, <1>6

\* 200: the page is added to the list, and shows the rating if it was read
\* for one.
LEMMA AnsweredKept ==
    ASSUME ReviewsInv, NEW r \in asks, NEW v \in r.v .. ratings[r.of], Answered(r, v)
    PROVE  ReviewsInv'
<1> DEFINE c == [of |-> r.of, page |-> r.page, v |-> v]
           n == Len(list)
<1>1. /\ asks' = asks \ {r} /\ list' = Append(list, c) /\ load' = FALSE
      /\ Then(r) /\ UNCHANGED <<posts, ratings, asked, lost>>
      /\ rated' = IF r.then \in By THEN [of |-> r.of, v |-> r.v] ELSE rated
  BY DEF Answered
<1>2. Ended(r)
  BY <1>1 DEF Ended
<1>3. /\ r.of \in Product /\ r.page \in Nat \ {0} /\ r.v \in 0..MaxRatings
      /\ r.v \in Int /\ r.then \in By \cup {"nobody"} /\ MaxRatings \in Nat
  BY ReadFacts
<1>4. ratings[r.of] \in 0..MaxRatings
  BY <1>3 DEF ReviewsInv, KindsInv
<1>5. v \in 0..MaxRatings /\ v >= r.v
  BY <1>3, <1>4
<1>6. c \in Chunk /\ c.of = r.of /\ c.page = r.page /\ c.v = v
  BY <1>3, <1>5 DEF Chunk
<1> HIDE DEF c
<1>7. list \in Seq(Chunk)
  BY DEF ReviewsInv, KindsInv
<1>8. /\ list' \in Seq(Chunk) /\ n \in Nat /\ Len(list') = n + 1
      /\ DOMAIN list = 1..n /\ DOMAIN list' = 1..(n + 1)
      /\ \A k \in 1..n : list'[k] = list[k]
      /\ list'[n + 1] = c
  BY <1>1, <1>6, <1>7
<1>9. /\ asks' \subseteq Ask /\ IsFiniteSet(asks')
      /\ Cardinality(asks') \in Nat /\ Cardinality(asks') = Cardinality(asks) - 1
  BY <1>1, EndedCounts
<1>10. /\ page' \in Product \cup {None} /\ sheet' \in BOOLEAN
       /\ sheet' => page' # None
       /\ creatingLoad' \in BOOLEAN /\ lost' \in BOOLEAN
  BY <1>2, EndedLeaves
<1>11. KindsInv'
  <2>1. rated' \in [of : Product, v : 0..MaxRatings] \cup {None}
    BY <1>1, <1>3 DEF ReviewsInv, KindsInv
  <2> QED
    BY <1>1, <1>8, <1>9, <1>10, <2>1 DEF ReviewsInv, KindsInv
<1>12. BoundInv'
  <2>1. Len(list') + Cardinality(asks') <= MaxPages + 1
    BY <1>8, <1>9, ReadFacts
  <2>2. Cardinality(asks') <= MaxPages
    BY <1>9, ReadFacts
  <2> QED
    BY <1>9, <2>1, <2>2 DEF BoundInv
<1>13. OneInv'
  BY <1>1, <1>2, EndedOne
<1>14. ReadInv'
  <2>1. \A k \in 1..(n + 1) : k # n + 1 => k \in 1..n
    BY <1>8
  <2>2. \A k \in 1..n : k \in 1..(n + 1)
    BY <1>8
  <2>3. n + 1 \in 1..(n + 1)
    BY <1>8
  <2> HIDE DEF n
  <2>4. EmptiedByRating'
    <3>1. \A k \in DOMAIN list' : list'[k].of \in asked
      BY <1>6, <1>8, <2>1 DEF ReviewsInv, ReadInv, EmptiedByRating
    <3> QED
      BY <1>1, <3>1 DEF EmptiedByRating
  <2>5. RatingIsShown'
    <3>1. CASE r.then \in By
      <4>1. rated' = [of |-> r.of, v |-> r.v]
        BY <1>1, <3>1
      <4>2. r.then # "nobody"
        BY <3>1 DEF By
      <4>3. r.page = 1 /\ r.v > 0
        BY <4>2 DEF ReviewsInv, ReadInv
      <4>4. /\ list'[n + 1].of = rated'.of /\ list'[n + 1].page = 1
            /\ list'[n + 1].v >= rated'.v /\ rated'.v > 0
        BY <1>5, <1>6, <1>8, <4>1, <4>3
      <4> QED
        BY <1>8, <2>3, <4>4 DEF RatingIsShown
    <3>2. CASE r.then \notin By
      <4>1. rated' = rated
        BY <1>1, <3>2
      <4>2. SUFFICES ASSUME rated # None
                     PROVE  \E k \in DOMAIN list' :
                               /\ list'[k].of = rated.of /\ list'[k].page = 1
                               /\ list'[k].v >= rated.v /\ rated.v > 0
        BY <4>1 DEF RatingIsShown
      <4>3. PICK k \in 1..n : /\ list[k].of = rated.of /\ list[k].page = 1
                              /\ list[k].v >= rated.v /\ rated.v > 0
        BY <1>8, <4>2 DEF ReviewsInv, ReadInv, RatingIsShown
      <4>4. k \in DOMAIN list' /\ list'[k] = list[k]
        BY <1>8, <2>2
      <4> QED
        BY <4>3, <4>4
    <3> QED
      BY <3>1, <3>2
  <2> QED
    BY <1>1, <1>10, <2>4, <2>5 DEF ReviewsInv, ReadInv
<1> QED
  BY <1>11, <1>12, <1>13, <1>14 DEF ReviewsInv

\* Another status, or an exception.
LEMMA RefusedKept ==
    ASSUME ReviewsInv, NEW r \in asks, Refused(r) \/ Throws(r)
    PROVE  ReviewsInv'
<1>1. /\ asks' = asks \ {r} /\ load' \in {load, FALSE}
      /\ UNCHANGED <<list, posts, ratings, asked, rated>>
  BY DEF Refused, Throws, listVars, history
<1>2. Ended(r)
  BY DEF Refused, Throws, Ended, history
<1>3. /\ asks' \subseteq Ask /\ IsFiniteSet(asks')
      /\ Cardinality(asks') \in Nat /\ Cardinality(asks') = Cardinality(asks) - 1
  BY <1>1, EndedCounts
<1>4. /\ page' \in Product \cup {None} /\ sheet' \in BOOLEAN
      /\ sheet' => page' # None
      /\ creatingLoad' \in BOOLEAN /\ lost' \in BOOLEAN
  BY <1>2, EndedLeaves
<1>5. KindsInv'
  <2>1. load' \in BOOLEAN
    BY <1>1 DEF ReviewsInv, KindsInv
  <2> QED
    BY <1>1, <1>3, <1>4, <2>1 DEF ReviewsInv, KindsInv
<1>6. BoundInv'
  <2>1. /\ Len(list') + Cardinality(asks') <= MaxPages + 1
        /\ Cardinality(asks') <= MaxPages
    BY <1>1, <1>3, ReadFacts
  <2> QED
    BY <1>3, <2>1 DEF BoundInv
<1>7. OneInv'
  BY <1>1, <1>2, EndedOne
<1>8. ReadInv'
  <2>1. EmptiedByRating' /\ RatingIsShown'
    BY <1>1 DEF ReviewsInv, ReadInv, EmptiedByRating, RatingIsShown
  <2> QED
    BY <1>1, <1>4, <2>1 DEF ReviewsInv, ReadInv
<1> QED
  BY <1>5, <1>6, <1>7, <1>8 DEF ReviewsInv

\* The process ends.
LEMMA RestartKept ==
    ASSUME ReviewsInv, Restart
    PROVE  ReviewsInv'
<1>1. /\ asks = {} /\ posts = {} /\ asks' = {} /\ posts' = {}
      /\ page' = None /\ sheet' = FALSE /\ list' = <<>> /\ load' = TRUE
      /\ creatingLoad' = FALSE /\ asked' = {} /\ rated' = None /\ lost' = FALSE
      /\ ratings' = ratings
  BY DEF Restart
<1>2. KindsInv'
  <2>1. list' \in Seq(Chunk)
    BY <1>1
  <2> QED
    BY <1>1, <2>1 DEF ReviewsInv, KindsInv
<1>3. BoundInv'
  <2>1. IsFiniteSet(asks') /\ Cardinality(asks') = 0
    BY <1>1, FS_EmptySet
  <2>2. Len(list') = 0
    BY <1>1
  <2> QED
    BY <2>1, <2>2, ReadFacts DEF BoundInv
<1>4. OneInv'
  BY <1>1 DEF OneInv
<1>5. ReadInv'
  BY <1>1 DEF ReadInv, EmptiedByRating, RatingIsShown
<1> QED
  BY <1>2, <1>3, <1>4, <1>5 DEF ReviewsInv

LEMMA ReviewsKept ==
    ASSUME ReviewsInv, Next \/ UNCHANGED vars
    PROVE  ReviewsInv'
<1>1. ASSUME NEW p \in Product, OpenPage(p) PROVE ReviewsInv'
  BY <1>1, PagesAsk
<1>2. CASE LeavePage \/ OpenSheet
  BY <1>2, PageKept
<1>3. CASE Scroll
  BY <1>3, PagesAsk
<1>4. CASE CloseSheet \/ TransitionEnds
  BY <1>4, SheetKept
<1>5. CASE Submit
  BY <1>5, SubmitKept
<1>6. CASE SubmitUnsigned
  BY <1>6, UnsignedKept
<1>7. CASE Restart
  BY <1>7, RestartKept
<1>8. ASSUME NEW r \in asks, ReadEnds(r) PROVE ReviewsInv'
  <2>1. ASSUME NEW v \in r.v .. ratings[r.of], Answered(r, v) PROVE ReviewsInv'
    BY <2>1, AnsweredKept
  <2>2. CASE Refused(r) \/ Throws(r)
    BY <2>2, RefusedKept
  <2> QED
    BY <1>8, <2>1, <2>2 DEF ReadEnds
<1>9. ASSUME NEW w \in posts, RatingStored(w) \/ Posted(w) PROVE ReviewsInv'
  <2>1. CASE RatingStored(w)
    BY <2>1, StoredKept
  <2>2. CASE RatingAnswered(w)
    BY <2>2, RatingAnsweredKept
  <2>3. CASE RatingRefused(w) \/ RatingThrows(w)
    BY <2>3, PostEnded
  <2> QED
    BY <1>9, <2>1, <2>2, <2>3 DEF Posted
<1>10. CASE UNCHANGED vars
  <2>1. /\ UNCHANGED <<page, sheet, list, load, creatingLoad, asks, posts, ratings>>
        /\ UNCHANGED <<asked, rated, lost>>
    BY <1>10 DEF vars, listVars, history
  <2> QED
    BY <2>1 DEF ReviewsInv, KindsInv, BoundInv, OneInv, ReadInv, EmptiedByRating,
       RatingIsShown
<1> QED
  BY <1>1, <1>2, <1>3, <1>4, <1>5, <1>6, <1>7, <1>8, <1>9, <1>10 DEF Next

LEMMA ReviewsShow ==
    ASSUME ReviewsInv
    PROVE  /\ ReviewsTypeOK /\ RatingIsShown /\ EmptiedByRating
           /\ OneRatingAtATime /\ SubmitIsBack
<1>1. RatingIsShown /\ EmptiedByRating
  BY DEF ReviewsInv, ReadInv
<1>2. SubmitIsBack
  <2>1. creatingLoad \in BOOLEAN
    BY DEF ReviewsInv, KindsInv
  <2> QED
    BY <2>1 DEF ReviewsInv, OneInv, SubmitIsBack
<1>3. ReviewsTypeOK
  <2>1. Len(list) <= MaxPages + 1
    BY ReadFacts
  <2> QED
    BY <2>1 DEF ReviewsInv, KindsInv, ReviewsTypeOK
<1>4. OneRatingAtATime
  <2> DEFINE R == {r \in asks : r.then # "nobody"}
  <2>1. OneInv
    BY DEF ReviewsInv
  <2>2. CASE posts = {}
    <3>1. Cardinality(posts) = 0
      BY <2>2, FS_EmptySet
    <3>2. CASE R = {}
      <4>1. Cardinality(R) = 0
        BY <3>2, FS_EmptySet
      <4> QED
        BY <3>1, <4>1 DEF OneRatingAtATime
    <3>3. CASE R # {}
      <4>1. PICK r \in R : R = {r}
        BY <2>1, <3>3 DEF OneInv
      <4>2. Cardinality(R) = 1
        <5> HIDE DEF R
        <5> QED
          BY <4>1, FS_Singleton
      <4> QED
        BY <3>1, <4>2 DEF OneRatingAtATime
    <3> QED
      BY <3>2, <3>3
  <2>3. CASE posts # {}
    <3>1. PICK w \in posts : posts = {w}
      BY <2>1, <2>3 DEF OneInv
    <3>2. Cardinality(posts) = 1
      BY <3>1, FS_Singleton
    <3>3. R = {}
      BY <2>1, <2>3 DEF OneInv
    <3>4. Cardinality(R) = 0
      BY <3>3, FS_EmptySet
    <3> QED
      BY <3>2, <3>4 DEF OneRatingAtATime
  <2> QED
    BY <2>2, <2>3
<1> QED
  BY <1>1, <1>2, <1>3, <1>4

-----------------------------------------------------------------------------
(***************************************************************************)
(* The four, each by itself and side by side                               *)
(***************************************************************************)

LEMMA ReviewsAlways == Spec => []ReviewsInv
<1>1. Init => ReviewsInv
  BY ReviewsStart
<1>2. ReviewsInv /\ [Next]_vars => ReviewsInv'
  BY ReviewsKept
<1> QED
  BY <1>1, <1>2, PTL DEF Spec

LEMMA SearchAlways == S!Spec => []FoundInv
<1>1. S!SearchAssumption
  BY WaitingAssumption
<1>2. S!Init => FoundInv
  BY <1>1, FoundStarts
<1>3. FoundInv /\ [S!Next]_(S!vars) => FoundInv'
  <2>1. UNCHANGED S!vars => UNCHANGED searchVars
    BY DEF S!vars, S!pageVars, S!history, searchVars
  <2> QED
    BY <1>1, <2>1, FoundKept
<1> QED
  BY <1>2, <1>3, PTL DEF S!Spec

LEMMA BannersAlways == B!Spec => []BannersInv
<1>1. B!BannersAssumption
  BY WaitingAssumption
<1>2. B!Init => BannersInv
  BY <1>1, BannersStart
<1>3. BannersInv /\ [B!Next]_(B!vars) => BannersInv'
  <2>1. UNCHANGED B!vars => UNCHANGED bannerVars
    BY DEF B!vars, B!homeVars, B!storeVars, B!tapVars, bannerVars
  <2> QED
    BY <1>1, <2>1, BannersKept
<1> QED
  BY <1>2, <1>3, PTL DEF B!Spec

LEMMA SignInAlways == I!Spec => []FormsInv
<1>1. I!SignInAssumption
  BY WaitingAssumption
<1>2. I!Init => FormsInv
  BY <1>1, FormsStart
<1>3. FormsInv /\ [I!Next]_(I!vars) => FormsInv'
  <2>1. UNCHANGED I!vars => UNCHANGED signVars
    BY DEF I!vars, I!pageVars, I!history, signVars
  <2> QED
    BY <1>1, <2>1, FormsKept
<1> QED
  BY <1>2, <1>3, PTL DEF I!Spec

\* A step is one of one of them, and a stutter of the others.
LEMMA WaitingSteps ==
    ASSUME [WaitingNext]_allVars
    PROVE  /\ Next \/ UNCHANGED vars
           /\ S!Next \/ UNCHANGED searchVars
           /\ B!Next \/ UNCHANGED bannerVars
           /\ I!Next \/ UNCHANGED signVars
BY DEF WaitingNext, allVars

WaitingInv == ReviewsInv /\ FoundInv /\ BannersInv /\ FormsInv

LEMMA WaitingAlways == WaitingSpec => []WaitingInv
<1>1. S!SearchAssumption /\ B!BannersAssumption /\ I!SignInAssumption
  BY WaitingAssumption
<1>2. WaitingInit => WaitingInv
  BY <1>1, ReviewsStart, FoundStarts, BannersStart, FormsStart
     DEF WaitingInit, WaitingInv
<1>3. WaitingInv /\ [WaitingNext]_allVars => WaitingInv'
  BY <1>1, WaitingSteps, ReviewsKept, FoundKept, BannersKept, FormsKept
     DEF WaitingInv
<1> QED
  BY <1>2, <1>3, PTL DEF WaitingSpec

\* The types of the four pages; a page that waits for its form is on top, or
\* under SignUp, and the list of banners is no longer than the listeners and
\* the versions make it.
THEOREM WaitingTypes == WaitingSpec => []WaitingTypeOK
<1>1. WaitingInv => WaitingTypeOK
  BY WaitingAssumption, ReviewsShow, FoundShow, BannersShow, FormsShow
     DEF WaitingInv, WaitingTypeOK
<1> QED
  BY <1>1, WaitingAlways, PTL

\* The Search tab shows the answer to the query asked last, once all searches
\* were answered in their order, and never one from before it (searchProduct).
THEOREM LastIsShown ==
    /\ S!Spec => []LastQueryShown
    /\ WaitingSpec => []LastQueryShown
<1>1. FoundInv => LastQueryShown
  BY FoundShow DEF LastQueryShown
<1>2. WaitingInv => LastQueryShown
  BY <1>1 DEF WaitingInv
<1> QED
  BY <1>1, <1>2, SearchAlways, WaitingAlways, PTL

\* A rating is among the reviews when they were read back, and nothing from
\* before it is (createRating empties reviewModelAll and reads it anew).
THEOREM RatingsAreReadBack ==
    /\ Spec => []RatingReadBack
    /\ WaitingSpec => []RatingReadBack
<1>1. ReviewsInv => RatingReadBack
  BY ReviewsShow DEF RatingReadBack
<1>2. WaitingInv => RatingReadBack
  BY <1>1 DEF WaitingInv
<1> QED
  BY <1>1, <1>2, ReviewsAlways, WaitingAlways, PTL

\* A version of the banners is in HOME's list once, however often HOME is built,
\* unless it was built anew before the first snapshot (getBanner).
THEOREM BannersShowOnce ==
    /\ B!Spec => []BannersOnce
    /\ WaitingSpec => []BannersOnce
<1>1. BannersInv => BannersOnce
  BY WaitingAssumption, BannersShow DEF BannersOnce
<1>2. WaitingInv => BannersOnce
  BY <1>1 DEF WaitingInv
<1> QED
  BY <1>1, <1>2, BannersAlways, WaitingAlways, PTL

\* The late pops of Login and SignUp leave the tabs alone, except for one that
\* comes while its page slides out (login.dart, sign_up.dart).
THEOREM TabsAlwaysStay ==
    /\ I!Spec => []TabsStay
    /\ WaitingSpec => []TabsStay
<1>1. FormsInv => TabsStay
  BY FormsShow DEF TabsStay
<1>2. WaitingInv => TabsStay
  BY <1>1 DEF WaitingInv
<1> QED
  BY <1>1, <1>2, SignInAlways, WaitingAlways, PTL

\* A spinner stands for one request, which is under way: of SUBMIT, of APPLY
\* CHANGES, of LOGIN and REGISTER, and of a tap on a banner, unless a request
\* threw (createRating, searchProduct, loginUser, createUser, getProduct).
THEOREM OneRequestEach == WaitingSpec => []OneRequestPerSpinner
<1>1. WaitingInv => OneRequestPerSpinner
  BY WaitingAssumption, ReviewsShow, FoundShow, BannersShow, FormsShow
     DEF WaitingInv, OneRequestPerSpinner
<1> QED
  BY <1>1, WaitingAlways, PTL
=============================================================================
