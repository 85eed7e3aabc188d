--------------------------- MODULE SessionProofs ---------------------------
(***************************************************************************)
(* Theorems about Session for every set of users and every bound.          *)
(***************************************************************************)
EXTENDS Session, SequenceTheorems, TLAPS

PrefWrite == [key : {"token", "id"}, of : Who]

\* The part of the types the preferences need.
PrefTypeOK ==
    /\ token \in Who /\ userId \in Who
    /\ disk \in [token : Who, id : Who]
    /\ writes \in Seq(PrefWrite)

\* Preferences are written in pairs, token first: the last two pending writes
\* hold what the fields hold, and what is not pending any more is on disk.
PairInv ==
    /\ Len(writes) >= 1 => writes[Len(writes)] = Put("id", userId)
    /\ Len(writes) >= 2 => writes[Len(writes) - 1] = Put("token", token)
    /\ Len(writes) <= 1 => disk.token = token
    /\ Len(writes) = 0 => disk.id = userId

PrefInv == PrefTypeOK /\ PairInv

LEMMA PutType ==
    ASSUME NEW u \in Who, NEW key \in {"token", "id"}
    PROVE  Put(key, u) \in PrefWrite
BY DEF Put, PrefWrite

LEMMA PrefInit == Init => PrefInv
BY DEF Init, PrefInv, PrefTypeOK, PairInv, Who

\* setData and logout append a pair that agrees with the new fields.
LEMMA StoreKeeps ==
    ASSUME PrefInv, NEW u \in Who, Store(u), getData(u), disk' = disk
    PROVE  PrefInv'
<1> DEFINE pair == <<Put("token", u), Put("id", u)>>
<1>1. Put("token", u) \in PrefWrite /\ Put("id", u) \in PrefWrite
  BY PutType
<1>2. writes \in Seq(PrefWrite) /\ pair \in Seq(PrefWrite) /\ Len(pair) = 2
  BY <1>1 DEF PrefInv, PrefTypeOK
<1>3. /\ writes' \in Seq(PrefWrite)
      /\ Len(writes') = Len(writes) + 2 /\ Len(writes) \in Nat
      /\ writes'[Len(writes) + 1] = pair[1]
      /\ writes'[Len(writes) + 2] = pair[2]
  BY ONLY <1>2, Store(u), ConcatProperties DEF Store
<1>4. PrefTypeOK'
  BY <1>3 DEF PrefInv, PrefTypeOK, getData
<1>5. PairInv'
  BY ONLY <1>3, getData(u) DEF PairInv, getData
<1>6. QED
  BY <1>4, <1>5 DEF PrefInv

\* Writing the oldest preference.
LEMMA PrefWrittenKeeps ==
    ASSUME PrefInv, PrefWritten
    PROVE  PrefInv'
<1> DEFINE w == Head(writes)
<1>1. /\ writes \in Seq(PrefWrite) /\ w \in PrefWrite /\ w = writes[1]
      /\ writes' \in Seq(PrefWrite)
      /\ Len(writes) \in Nat \ {0} /\ Len(writes') = Len(writes) - 1
      /\ \A k \in 1..Len(writes') : writes'[k] = writes[k + 1]
  BY HeadTailProperties DEF PrefInv, PrefTypeOK, PrefWritten
<1>2. UNCHANGED <<token, userId>> /\ disk' = [disk EXCEPT ![w.key] = w.of]
  BY DEF PrefWritten
<1>3. PrefTypeOK'
  BY <1>1, <1>2 DEF PrefInv, PrefTypeOK, PrefWrite
<1>4. CASE Len(writes) = 1
  <2>1. w = Put("id", userId) /\ disk.token = token
    BY <1>1, <1>4 DEF PrefInv, PairInv
  <2>2. disk'.token = token /\ disk'.id = userId
    BY <1>2, <2>1 DEF PrefInv, PrefTypeOK, Put
  <2>3. QED
    BY <1>1, <1>2, <1>3, <1>4, <2>2 DEF PrefInv, PairInv
<1>5. CASE Len(writes) = 2
  <2>1. w = Put("token", token) /\ writes[2] = Put("id", userId)
    BY <1>1, <1>5 DEF PrefInv, PairInv
  <2>2. disk'.token = token
    BY <1>2, <2>1 DEF PrefInv, PrefTypeOK, Put
  <2>3. QED
    BY <1>1, <1>2, <1>3, <1>5, <2>1, <2>2 DEF PrefInv, PairInv
<1>6. CASE Len(writes) > 2
  <2>1. /\ writes'[Len(writes')] = writes[Len(writes)]
        /\ writes'[Len(writes') - 1] = writes[Len(writes) - 1]
    BY <1>1, <1>6
  <2>2. QED
    BY <1>1, <1>2, <1>3, <1>6, <2>1 DEF PrefInv, PairInv
<1>7. QED
  BY <1>1, <1>4, <1>5, <1>6

LEMMA PrefNext == PrefInv /\ [Next]_vars => PrefInv'
<1> SUFFICES ASSUME PrefInv, [Next]_vars PROVE PrefInv'
  OBVIOUS
<1>1. CASE UNCHANGED sessionVars
  BY <1>1 DEF sessionVars, PrefInv, PrefTypeOK, PairInv
<1>2. CASE Logout
  BY <1>2, StoreKeeps DEF Logout, Who
<1>3. ASSUME NEW u \in User, LoginAnswered(u) PROVE PrefInv'
  BY <1>3, StoreKeeps DEF LoginAnswered, Who
<1>4. CASE Restart
  <2>1. writes' = <<>> /\ token' = disk'.token /\ userId' = disk'.id /\ disk' = disk
    BY <1>4 DEF Restart
  <2>2. QED
    BY <2>1 DEF PrefInv, PrefTypeOK, PairInv
<1>5. CASE \/ OpenLogin \/ LeaveLogin \/ OpenProfile \/ OpenOrders \/ LeaveOrders
           \/ \E u \in User : \/ PressLogin(u) \/ LoginRefused(u)
                              \/ ClosingAnswered(u) \/ ClosingFails(u)
                              \/ WalletAnswered(u) \/ OrdersAnswered(u)
  BY <1>1, <1>5 DEF OpenLogin, LeaveLogin, OpenProfile, OpenOrders, LeaveOrders,
     PressLogin, LoginRefused, ClosingAnswered, ClosingFails, WalletAnswered,
     OrdersAnswered
<1>6. CASE UNCHANGED vars
  BY <1>1, <1>6 DEF vars
<1>7. QED
  BY <1>2, <1>3, <1>4, <1>5, <1>6, PrefWrittenKeeps DEF Next, Answers

\* However many sign-ins, sign-outs and deaths of the process: when no
\* preference write is pending, a restart finds the session as it is.
THEOREM SessionAlwaysSurvives == Spec => []SessionSurvives
<1>1. PrefInv => SessionSurvives
  <2>1. SUFFICES ASSUME PrefInv, writes = <<>>
                 PROVE  disk = [token |-> token, id |-> userId]
    BY DEF SessionSurvives
  <2>2. disk.token = token /\ disk.id = userId
    BY <2>1 DEF PrefInv, PairInv
  <2>3. QED
    BY <2>2, <2>1 DEF PrefInv, PrefTypeOK
<1>2. QED
  BY <1>1, PrefInit, PrefNext, PTL DEF Spec

-----------------------------------------------------------------------------
(***************************************************************************)
(* Types                                                                   *)
(***************************************************************************)

LEMMA SessionBounds == /\ MaxAsks \in Nat \ {0} /\ MaxWrites \in Nat /\ MaxWrites >= 2
                       /\ Nobody \notin User
BY SessionAssumption

LEMMA SessionTypeInit == Init => SessionTypeOK
<1> SUFFICES ASSUME Init PROVE SessionTypeOK
  OBVIOUS
<1>1. Nobody \in Who /\ 0 \in 0..MaxAsks /\ 0 <= MaxWrites
  BY SessionBounds DEF Who
<1>2. writes \in Seq([key : {"token", "id"}, of : Who]) /\ Len(writes) <= MaxWrites
  BY <1>1 DEF Init
<1>3. disk \in [token : Who, id : Who]
  BY <1>1 DEF Init
<1>4. /\ signin \in [User -> {"none", "page", "orphan"}]
      /\ walletAsks \in [User -> 0..MaxAsks] /\ orderAsks \in [User -> 0..MaxAsks]
  BY <1>1 DEF Init
<1>5. /\ token \in Who /\ userId \in Who /\ wallet \in Who /\ orderList \in Who
      /\ closing \subseteq User /\ strays \subseteq User /\ kept \in Who /\ torn \in 0..2
      /\ page \in {"tabs", "login", "orders"}
  BY <1>1 DEF Init
<1>6. loading \in BOOLEAN /\ orderLoad \in BOOLEAN /\ doubled \in BOOLEAN
  BY DEF Init
<1>7. QED
  BY ONLY <1>2, <1>3, <1>4, <1>5, <1>6 DEF SessionTypeOK

\* setData and logout: two more writes, for which there is room.
LEMMA StoreType ==
    ASSUME SessionTypeOK, NEW u \in Who, Store(u), Len(writes) + 2 <= MaxWrites
    PROVE  writes' \in Seq([key : {"token", "id"}, of : Who]) /\ Len(writes') <= MaxWrites
<1> DEFINE pair == <<Put("token", u), Put("id", u)>>
<1>1. Put("token", u) \in PrefWrite /\ Put("id", u) \in PrefWrite
  BY PutType
<1>2. writes \in Seq(PrefWrite) /\ pair \in Seq(PrefWrite) /\ Len(pair) = 2
  BY <1>1 DEF SessionTypeOK, PrefWrite
<1>3. writes' \in Seq(PrefWrite) /\ Len(writes') = Len(writes) + 2
  BY ONLY <1>2, Store(u), ConcatProperties DEF Store
<1>4. QED
  BY <1>3 DEF PrefWrite

LEMMA ReplaceType ==
    ASSUME SessionTypeOK, NEW u, Replace(u)
    PROVE  /\ strays' \subseteq User /\ kept' \in Who
           /\ doubled' \in BOOLEAN /\ torn' \in 0..2
BY DEF SessionTypeOK, Replace, Who

LEMMA SettleType ==
    ASSUME SessionTypeOK, Settle
    PROVE  /\ strays' \subseteq User /\ kept' \in Who
           /\ doubled' \in BOOLEAN /\ torn' \in 0..2
BY DEF SessionTypeOK, Settle, Who

LEMMA GoesType ==
    ASSUME SessionTypeOK, NEW u, LoginGoes(u), \A v \in closing \ {u} : walletAsks[v] < MaxAsks
    PROVE  /\ page' = "tabs" /\ loading' \in BOOLEAN /\ closing' \subseteq User
           /\ signin' \in [User -> {"none", "page", "orphan"}]
           /\ walletAsks' \in [User -> 0..MaxAsks]
<1>1. \A v \in User : walletAsks[v] \in 0..MaxAsks
  BY DEF SessionTypeOK
<1>2. ASSUME NEW v \in closing \ {u} PROVE walletAsks[v] + 1 \in 0..MaxAsks
  <2>1. v \in User /\ walletAsks[v] < MaxAsks /\ MaxAsks \in Nat
    BY SessionBounds DEF SessionTypeOK
  <2>2. QED
    BY ONLY <1>1, <2>1
<1>3. walletAsks' \in [User -> 0..MaxAsks]
  BY <1>1, <1>2 DEF LoginGoes
<1>4. QED
  BY <1>3 DEF LoginGoes, SessionTypeOK

LEMMA LoginAnsweredType ==
    ASSUME SessionTypeOK, NEW u \in User, LoginAnswered(u)
    PROVE  SessionTypeOK'
<1>1. /\ writes' \in Seq([key : {"token", "id"}, of : Who]) /\ Len(writes') <= MaxWrites
      /\ token' \in Who /\ userId' \in Who
  BY StoreType DEF LoginAnswered, getData, Who
<1>2. /\ strays' \subseteq User /\ kept' \in Who
      /\ doubled' \in BOOLEAN /\ torn' \in 0..2
  BY ReplaceType DEF LoginAnswered
<1>3. /\ signin' \in [User -> {"none", "page", "orphan"}] /\ loading' \in BOOLEAN
      /\ closing' \subseteq User
  BY DEF LoginAnswered, SessionTypeOK
<1>4. QED
  BY <1>1, <1>2, <1>3 DEF LoginAnswered, SessionTypeOK, viewVars

LEMMA LogoutType ==
    ASSUME SessionTypeOK, Logout
    PROVE  SessionTypeOK'
<1>1. /\ writes' \in Seq([key : {"token", "id"}, of : Who]) /\ Len(writes') <= MaxWrites
      /\ token' \in Who /\ userId' \in Who /\ wallet' \in Who
  BY StoreType DEF Logout, getData, Who
<1>2. /\ strays' \subseteq User /\ kept' \in Who
      /\ doubled' \in BOOLEAN /\ torn' \in 0..2
  BY ReplaceType DEF Logout
<1>3. QED
  BY <1>1, <1>2 DEF Logout, SessionTypeOK

LEMMA LoginPageType ==
    ASSUME SessionTypeOK, NEW u \in User,
           OpenLogin \/ PressLogin(u) \/ LoginRefused(u) \/ ClosingFails(u)
    PROVE  SessionTypeOK'
<1>1. CASE OpenLogin
  BY <1>1 DEF OpenLogin, SessionTypeOK, sessionVars, viewVars, history
<1>2. CASE PressLogin(u)
  BY <1>2 DEF PressLogin, SessionTypeOK, sessionVars, viewVars, history
<1>3. CASE LoginRefused(u)
  BY <1>3 DEF LoginRefused, SessionTypeOK, sessionVars, viewVars, history
<1>4. CASE ClosingFails(u)
  BY <1>4, SettleType DEF ClosingFails, SessionTypeOK, sessionVars, viewVars
<1>5. QED
  BY <1>1, <1>2, <1>3, <1>4

LEMMA LoginGoesType ==
    ASSUME SessionTypeOK, NEW u \in User, LeaveLogin \/ ClosingAnswered(u)
    PROVE  SessionTypeOK'
<1>1. CASE LeaveLogin
  <2>1. LoginGoes(Nobody) /\ \A v \in closing \ {Nobody} : walletAsks[v] < MaxAsks
    BY <1>1 DEF LeaveLogin
  <2>2. QED
    BY <1>1, <2>1, GoesType DEF LeaveLogin, SessionTypeOK, sessionVars, viewVars, history
<1>2. CASE ClosingAnswered(u)
  <2>1. LoginGoes(u) /\ \A v \in closing \ {u} : walletAsks[v] < MaxAsks
    BY <1>2 DEF ClosingAnswered
  <2>2. wallet' \in Who
    BY <1>2 DEF ClosingAnswered, SessionTypeOK, Who
  <2>3. QED
    BY <1>2, <2>1, <2>2, GoesType, SettleType DEF ClosingAnswered, SessionTypeOK, sessionVars
<1>3. QED
  BY <1>1, <1>2

\* One more request of a kind, or one fewer.
LEMMA OneAsk ==
    ASSUME NEW f \in [User -> 0..MaxAsks], NEW u \in User
    PROVE  /\ f[u] < MaxAsks => [f EXCEPT ![u] = @ + 1] \in [User -> 0..MaxAsks]
           /\ f[u] > 0 => [f EXCEPT ![u] = @ - 1] \in [User -> 0..MaxAsks]
<1>1. f[u] \in 0..MaxAsks /\ MaxAsks \in Nat
  BY SessionBounds
<1>2. /\ f[u] < MaxAsks => f[u] + 1 \in 0..MaxAsks
      /\ f[u] > 0 => f[u] - 1 \in 0..MaxAsks
  BY ONLY <1>1
<1>3. QED
  BY <1>2

LEMMA OpenType ==
    ASSUME SessionTypeOK, OpenProfile \/ OpenOrders \/ LeaveOrders
    PROVE  SessionTypeOK'
<1> USE DEF sessionVars, viewVars, history
<1>1. userId \in User \/ userId = Nobody
  BY DEF SessionTypeOK, Who
<1>2. CASE OpenProfile
  BY <1>1, <1>2, OneAsk DEF OpenProfile, SessionTypeOK
<1>3. CASE OpenOrders
  BY <1>1, <1>3, OneAsk DEF OpenOrders, SessionTypeOK
<1>4. CASE LeaveOrders
  BY <1>4 DEF LeaveOrders, SessionTypeOK
<1>5. QED
  BY <1>2, <1>3, <1>4

LEMMA ViewType ==
    ASSUME SessionTypeOK, NEW u \in User, WalletAnswered(u) \/ OrdersAnswered(u)
    PROVE  SessionTypeOK'
<1> USE DEF sessionVars, viewVars, history
<1>1. CASE WalletAnswered(u)
  <2>1. wallet' \in Who
    BY <1>1 DEF WalletAnswered, SessionTypeOK, Who
  <2>2. QED
    BY <1>1, <2>1, OneAsk, SettleType DEF WalletAnswered, SessionTypeOK
<1>2. CASE OrdersAnswered(u)
  <2>1. orderList' \in Who /\ orderLoad' \in BOOLEAN
    BY <1>2 DEF OrdersAnswered, SessionTypeOK, Who
  <2>2. QED
    BY <1>2, <2>1, OneAsk DEF OrdersAnswered, SessionTypeOK
<1>3. QED
  BY <1>1, <1>2

LEMMA PrefWrittenType ==
    ASSUME SessionTypeOK, PrefWritten
    PROVE  SessionTypeOK'
<1>0. writes \in Seq(PrefWrite) /\ writes # <<>> /\ writes' = Tail(writes)
  BY DEF SessionTypeOK, PrefWrite, PrefWritten
<1>1. /\ Head(writes) \in PrefWrite /\ writes' \in Seq(PrefWrite)
      /\ Len(writes) \in Nat /\ Len(writes') = Len(writes) - 1
  BY ONLY <1>0, HeadTailProperties
<1>2. writes' \in Seq([key : {"token", "id"}, of : Who]) /\ Len(writes') <= MaxWrites
  BY <1>1, SessionBounds DEF SessionTypeOK, PrefWrite
<1>3. disk' \in [token : Who, id : Who]
  BY <1>1 DEF PrefWritten, SessionTypeOK, PrefWrite
<1>4. QED
  BY <1>2, <1>3 DEF PrefWritten, SessionTypeOK, viewVars, history

LEMMA RestartType ==
    ASSUME SessionTypeOK, Restart
    PROVE  SessionTypeOK'
<1>1. Nobody \in Who /\ 0 \in 0..MaxAsks /\ 1 \in 0..MaxAsks /\ 0 <= MaxWrites
  BY SessionBounds DEF Who
<1>2. token' \in Who /\ userId' \in Who
  BY DEF Restart, SessionTypeOK
<1>3. torn' \in 0..2 /\ kept' \in Who
  BY DEF Restart, SessionTypeOK, Who
<1>4. walletAsks' \in [User -> 0..MaxAsks] /\ orderAsks' \in [User -> 0..MaxAsks]
  BY <1>1 DEF Restart
<1>5. signin' \in [User -> {"none", "page", "orphan"}]
  BY DEF Restart
<1>6. writes' \in Seq([key : {"token", "id"}, of : Who]) /\ Len(writes') <= MaxWrites
  BY <1>1 DEF Restart
<1>7. QED
  BY <1>1, <1>2, <1>3, <1>4, <1>5, <1>6 DEF Restart, SessionTypeOK

LEMMA SessionTypeNext == SessionTypeOK /\ [Next]_vars => SessionTypeOK'
<1> SUFFICES ASSUME SessionTypeOK, [Next]_vars PROVE SessionTypeOK'
  OBVIOUS
<1>1. CASE UNCHANGED vars
  BY <1>1 DEF vars, sessionVars, viewVars, history, SessionTypeOK
<1>2. ASSUME NEW u \in User, PressLogin(u) \/ Answers(u) \/ ClosingFails(u)
      PROVE  SessionTypeOK'
  BY <1>2, LoginAnsweredType, LoginPageType, LoginGoesType, ViewType DEF Answers
<1>3. CASE OpenLogin
  BY <1>3 DEF OpenLogin, SessionTypeOK, sessionVars, viewVars, history
<1>4. CASE LeaveLogin
  <2>1. LoginGoes(Nobody) /\ \A v \in closing \ {Nobody} : walletAsks[v] < MaxAsks
    BY <1>4 DEF LeaveLogin
  <2>2. QED
    BY <1>4, <2>1, GoesType DEF LeaveLogin, SessionTypeOK, sessionVars, viewVars, history
<1>5. QED
  BY <1>1, <1>2, <1>3, <1>4, LogoutType, OpenType, PrefWrittenType, RestartType DEF Next

\* The counters of requests stay within their bounds and nothing but a known
\* account is ever signed in, asked for or shown.
THEOREM SessionTypes == Spec => []SessionTypeOK
BY SessionTypeInit, SessionTypeNext, PTL DEF Spec

-----------------------------------------------------------------------------
(***************************************************************************)
(* The wallet is the user's                                                *)
(***************************************************************************)

\* Whoever's wallet is asked for is signed in, or counted among the strays.
ReadsInv ==
    /\ SessionTypeOK
    /\ \A u \in User : Asked(u) => u = userId \/ u \in strays
    /\ WalletIsUsers

LEMMA ReplaceReads ==
    ASSUME ReadsInv, SessionTypeOK', NEW u \in Who, Replace(u), userId' = u,
           (wallet' = wallet /\ u # Nobody) \/ wallet' = Nobody,
           walletAsks' = walletAsks, closing' \subseteq closing \cup {u}
    PROVE  ReadsInv'
<1>1. \A v \in User : Asked(v)' /\ v # u => v \in strays'
  BY DEF Asked, Replace
<1>2. WalletIsUsers'
  BY DEF WalletIsUsers, Replace, ReadsInv, SessionTypeOK, Who
<1>3. QED
  BY <1>1, <1>2 DEF ReadsInv

\* A step that changes no user asks for, and shows, nothing new of anybody else.
LEMMA SameReads ==
    ASSUME ReadsInv, SessionTypeOK', userId' = userId, Settle \/ UNCHANGED <<strays, kept>>,
           wallet' = wallet \/ (wallet' \in User /\ Asked(wallet')),
           (wallet' # wallet) => Settle,
           \A u \in User : Asked(u)' => Asked(u) \/ u = userId
    PROVE  ReadsInv'
<1>1. ASSUME NEW u \in User, Asked(u)' PROVE u = userId' \/ u \in strays'
  BY <1>1 DEF ReadsInv, Settle
<1>2. CASE wallet' = wallet
  BY <1>2 DEF ReadsInv, WalletIsUsers, Settle
<1>3. CASE wallet' \in User /\ Asked(wallet') /\ Settle
  BY <1>3 DEF ReadsInv, WalletIsUsers, Settle
<1>4. QED
  BY <1>1, <1>2, <1>3 DEF ReadsInv, WalletIsUsers

LEMMA ReadsNext == ReadsInv /\ [Next]_vars => ReadsInv'
<1> SUFFICES ASSUME ReadsInv, [Next]_vars PROVE ReadsInv'
  OBVIOUS
<1> USE DEF sessionVars, viewVars, history
<1>1. SessionTypeOK' /\ SessionTypeOK
  BY SessionTypeNext DEF ReadsInv
<1>2. CASE UNCHANGED vars
  BY <1>1, <1>2, SameReads DEF vars, Asked
<1>3. CASE Logout
  BY <1>1, <1>3, ReplaceReads DEF Logout, getData, Who
<1>4. ASSUME NEW u \in User, LoginAnswered(u) PROVE ReadsInv'
  <2>1. u \in Who /\ u # Nobody
    BY SessionBounds DEF Who
  <2>2. QED
    BY <1>1, <1>4, <2>1, ReplaceReads DEF LoginAnswered, getData
<1>5. CASE OpenLogin \/ OpenOrders \/ LeaveOrders \/ PrefWritten
  BY <1>1, <1>5, SameReads DEF OpenLogin, OpenOrders, LeaveOrders, PrefWritten, Asked
<1>6. ASSUME NEW u \in User, PressLogin(u) \/ LoginRefused(u) \/ OrdersAnswered(u)
      PROVE  ReadsInv'
  BY <1>1, <1>6, SameReads DEF PressLogin, LoginRefused, OrdersAnswered, Asked
<1>7. ASSUME NEW u \in User, ClosingFails(u) PROVE ReadsInv'
  BY <1>1, <1>7, SameReads DEF ClosingFails, Asked
<1>8. ASSUME NEW u, LoginGoes(u), NEW v \in User, Asked(v)' PROVE Asked(v)
  BY <1>1, <1>8 DEF LoginGoes, Asked, SessionTypeOK
<1>9. CASE LeaveLogin
  BY <1>1, <1>8, <1>9, SameReads DEF LeaveLogin
<1>10. ASSUME NEW u \in User, ClosingAnswered(u) PROVE ReadsInv'
  <2>1. Asked(u) /\ wallet' \in {u, wallet} /\ userId' = userId /\ Settle
    BY <1>10 DEF ClosingAnswered, Asked
  <2>2. LoginGoes(u)
    BY <1>10 DEF ClosingAnswered
  <2>3. QED
    BY <1>1, <1>8, <2>1, <2>2, SameReads
<1>11. ASSUME NEW u \in User, WalletAnswered(u) PROVE ReadsInv'
  <2>1. Asked(u) /\ wallet' \in {u, wallet} /\ userId' = userId /\ Settle
    BY <1>11 DEF WalletAnswered, Asked
  <2>2. \A v \in User : Asked(v)' => Asked(v)
    BY <1>1, <1>11 DEF WalletAnswered, Asked, SessionTypeOK
  <2>3. QED
    BY <1>1, <2>1, <2>2, SameReads
<1>12. CASE OpenProfile
  <2>1. \A v \in User : Asked(v)' => Asked(v) \/ v = userId
    BY <1>1, <1>12 DEF OpenProfile, Asked, SessionTypeOK
  <2>2. QED
    BY <1>1, <1>12, <2>1, SameReads DEF OpenProfile
<1>13. CASE Restart
  <2>1. \A v \in User : Asked(v)' => v = userId'
    BY <1>13 DEF Restart, Asked
  <2>2. QED
    BY <1>1, <1>13, <2>1 DEF Restart, ReadsInv, WalletIsUsers
<1>14. QED
  BY <1>2, <1>3, <1>4, <1>5, <1>6, <1>7, <1>9, <1>10, <1>11, <1>12, <1>13
     DEF Next, Answers

\* However sign-ins, sign-outs, deaths and late answers are interleaved: the
\* balance on show is that of the user who is signed in, or of one replaced
\* while a read of theirs was under way, which has been under way or on show
\* since, or the one on show when a second user signed in over the first.
THEOREM WalletStaysUsers == Spec => []WalletIsUsers
<1>1. Init => ReadsInv
  <2>1. ASSUME Init, NEW u \in User PROVE ~Asked(u)
    <3>1. walletAsks[u] = 0 /\ closing = {}
      BY <2>1 DEF Init
    <3>2. QED
      BY <3>1 DEF Asked
  <2>2. Init => WalletIsUsers
    BY DEF Init, WalletIsUsers
  <2>3. QED
    BY <2>1, <2>2, SessionTypeInit DEF ReadsInv
<1>2. ReadsInv => WalletIsUsers
  BY DEF ReadsInv
<1>3. QED
  BY <1>1, <1>2, ReadsNext, PTL DEF Spec

-----------------------------------------------------------------------------
(***************************************************************************)
(* One user                                                                *)
(***************************************************************************)

Agree(t, i) == t = Nobody \/ i = Nobody \/ t = i

\* Each "token" is followed by the "id" of the same user, and the other way round.
Pairs ==
    \A k \in 1..Len(writes) :
        /\ writes[k].key \in {"token", "id"}
        /\ writes[k].key = "token" => k < Len(writes) /\ writes[k + 1] = Put("id", writes[k].of)
        /\ writes[k].key = "id" /\ k > 1 => writes[k - 1] = Put("token", writes[k].of)

\* Before the first death between two writes: wherever the next one comes, what
\* is found on the device agrees.
Untorn ==
    /\ token = userId
    /\ Agree(disk.token, disk.id)
    /\ \A k \in 2..Len(writes) :
          writes[k].key = "token" => Agree(writes[k].of, writes[k - 1].of)
    /\ Len(writes) > 0 /\ writes[1].key = "token" =>
          disk.token = disk.id /\ Agree(writes[1].of, disk.id)
    /\ Len(writes) > 0 /\ writes[1].key = "id" => disk.token = writes[1].of

MixInv ==
    /\ PrefInv /\ Pairs /\ torn \in 0..2
    /\ ~doubled => /\ torn = 0 => Untorn
                   /\ torn < 2 => Agree(token, userId)

\* A pair is appended: it is of one user, and follows a sign-out or is one.
LEMMA StoreMix ==
    ASSUME MixInv, PrefInv', NEW u \in Who, Store(u), getData(u), disk' = disk, Replace(u)
    PROVE  MixInv'
<1> DEFINE pair == <<Put("token", u), Put("id", u)>>
<1>1. writes \in Seq(PrefWrite) /\ pair \in Seq(PrefWrite) /\ Len(pair) = 2
  BY PutType DEF MixInv, PrefInv, PrefTypeOK
<1>2. /\ Len(writes') = Len(writes) + 2 /\ Len(writes) \in Nat
      /\ \A k \in 1..Len(writes) : writes'[k] = writes[k]
      /\ writes'[Len(writes) + 1] = Put("token", u)
      /\ writes'[Len(writes) + 2] = Put("id", u)
  BY ONLY <1>1, Store(u), ConcatProperties DEF Store
<1>3. /\ token' = u /\ userId' = u /\ torn' = torn
      /\ Put("token", u).key = "token" /\ Put("token", u).of = u
      /\ Put("id", u).key = "id" /\ Put("id", u).of = u
  BY DEF getData, Replace, Put
<1>4. Pairs'
  <2>1. SUFFICES ASSUME NEW k \in 1..Len(writes')
        PROVE  /\ writes'[k].key \in {"token", "id"}
               /\ writes'[k].key = "token" =>
                    k < Len(writes') /\ writes'[k + 1] = Put("id", writes'[k].of)
               /\ writes'[k].key = "id" /\ k > 1 =>
                    writes'[k - 1] = Put("token", writes'[k].of)
    BY DEF Pairs
  <2>2. CASE k \in 1..Len(writes)
    <3>1. k > 1 => k - 1 \in 1..Len(writes)
      BY <1>2, <2>2
    <3>2. k < Len(writes) => k + 1 \in 1..Len(writes)
      BY <1>2, <2>2
    <3>3. QED
      BY <1>2, <2>2, <3>1, <3>2 DEF MixInv, Pairs
  <2>3. CASE k = Len(writes) + 1
    BY <1>2, <1>3, <2>3
  <2>4. CASE k = Len(writes) + 2
    BY <1>2, <1>3, <2>4
  <2>5. QED
    BY <1>2, <2>2, <2>3, <2>4
<1>5. ASSUME ~doubled', torn' = 0 PROVE Untorn'
  <2>1. ~doubled /\ torn = 0 /\ Untorn
    BY <1>3, <1>5 DEF Replace, MixInv
  <2>2. u = Nobody \/ userId = Nobody
    BY <1>5, <2>1 DEF Replace, Untorn
  <2>3. Agree(u, userId)
    BY <2>2 DEF Agree
  <2>4. CASE Len(writes) = 0
    <3>1. disk.token = userId /\ disk.id = userId
      BY <2>1, <2>4 DEF MixInv, PrefInv, PairInv, Untorn
    <3>2. \A k \in 2..Len(writes') : writes'[k].key # "token"
      BY <1>2, <1>3, <2>4
    <3>3. QED
      BY <1>2, <1>3, <2>3, <2>4, <3>1, <3>2 DEF Untorn, Agree
  <2>5. CASE Len(writes) > 0
    <3>1. writes[Len(writes)] = Put("id", userId) /\ writes'[1] = writes[1]
      BY <1>2, <2>5 DEF MixInv, PrefInv, PairInv
    <3>2. writes'[Len(writes)].of = userId
      BY <1>2, <2>5, <3>1 DEF Put
    <3>3. ASSUME NEW k \in 2..Len(writes'), writes'[k].key = "token"
          PROVE  Agree(writes'[k].of, writes'[k - 1].of)
      <4>1. CASE k \in 2..Len(writes)
        <5>1. k \in 1..Len(writes) /\ k - 1 \in 1..Len(writes)
          BY <1>2, <4>1
        <5>2. QED
          BY <1>2, <2>1, <3>3, <4>1, <5>1 DEF Untorn
      <4>2. CASE k = Len(writes) + 1
        BY <1>2, <1>3, <2>3, <3>2, <4>2
      <4>3. CASE k = Len(writes) + 2
        BY <1>2, <1>3, <3>3, <4>3
      <4>4. QED
        BY <1>2, <4>1, <4>2, <4>3
    <3>4. QED
      BY <1>2, <1>3, <2>1, <2>5, <3>1, <3>3 DEF Untorn
  <2>6. QED
    BY <1>2, <2>4, <2>5
<1>6. QED
  BY <1>3, <1>4, <1>5 DEF MixInv, Agree

LEMMA PrefWrittenMix ==
    ASSUME MixInv, PrefInv', PrefWritten
    PROVE  MixInv'
<1> DEFINE w == writes[1]
<1>1. /\ writes \in Seq(PrefWrite) /\ writes # <<>> /\ writes' = Tail(writes)
  BY DEF MixInv, PrefInv, PrefTypeOK, PrefWritten
<1>2. /\ Head(writes) = w
      /\ Len(writes) \in Nat \ {0} /\ Len(writes') = Len(writes) - 1
      /\ \A k \in 1..Len(writes') : writes'[k] = writes[k + 1]
  BY ONLY <1>1, HeadTailProperties
<1>3. UNCHANGED <<token, userId, doubled, torn>> /\ disk' = [disk EXCEPT ![w.key] = w.of]
  BY <1>2 DEF PrefWritten, history
<1>4. Pairs'
  <2>1. SUFFICES ASSUME NEW k \in 1..Len(writes')
        PROVE  /\ writes'[k].key \in {"token", "id"}
               /\ writes'[k].key = "token" =>
                    k < Len(writes') /\ writes'[k + 1] = Put("id", writes'[k].of)
               /\ writes'[k].key = "id" /\ k > 1 =>
                    writes'[k - 1] = Put("token", writes'[k].of)
    BY DEF Pairs
  <2>2. k + 1 \in 1..Len(writes) /\ writes'[k] = writes[k + 1] /\ (k + 1) - 1 = k
    BY <1>2
  <2>3. k > 1 => writes'[k - 1] = writes[k]
    <3>1. k > 1 => k - 1 \in 1..Len(writes') /\ (k - 1) + 1 = k
      BY <1>2
    <3>2. QED
      BY <1>2, <3>1
  <2>4. k < Len(writes') => writes'[k + 1] = writes[(k + 1) + 1]
    <3>1. k < Len(writes') => k + 1 \in 1..Len(writes')
      BY <1>2
    <3>2. QED
      BY <1>2, <3>1
  <2>5. k + 1 < Len(writes) <=> k < Len(writes')
    BY <1>2
  <2>6. QED
    BY <2>2, <2>3, <2>4, <2>5 DEF MixInv, Pairs
<1>5. ASSUME ~doubled', torn' = 0 PROVE Untorn'
  <2>1. Untorn
    BY <1>3, <1>5 DEF MixInv
  <2>2. 1 \in 1..Len(writes) /\ w.key \in {"token", "id"}
    BY <1>2 DEF MixInv, Pairs
  <2>3. disk' = [disk EXCEPT ![w.key] = w.of] /\ disk \in [token : Who, id : Who]
    BY <1>3 DEF MixInv, PrefInv, PrefTypeOK
  <2>4. \A k \in 2..Len(writes') :
            writes'[k].key = "token" => Agree(writes'[k].of, writes'[k - 1].of)
    <3>1. ASSUME NEW k \in 2..Len(writes'), writes'[k].key = "token"
          PROVE  Agree(writes'[k].of, writes'[k - 1].of)
      <4>1. /\ k \in 1..Len(writes') /\ k - 1 \in 1..Len(writes')
            /\ k + 1 \in 2..Len(writes) /\ (k - 1) + 1 = (k + 1) - 1
        BY <1>2
      <4>2. writes'[k] = writes[k + 1] /\ writes'[k - 1] = writes[(k + 1) - 1]
        BY <1>2, <4>1
      <4>3. QED
        BY <2>1, <3>1, <4>1, <4>2 DEF Untorn
    <3>2. QED
      BY <3>1
  <2>5. CASE w.key = "token"
    <3>1. disk'.token = w.of /\ disk'.id = disk.id
      BY <2>3, <2>5
    <3>2. Agree(w.of, disk.id)
      BY <1>2, <2>1, <2>5 DEF Untorn
    <3>3. Len(writes) > 1 /\ writes[2] = Put("id", w.of)
      BY <2>2, <2>5 DEF MixInv, Pairs
    <3>4. writes'[1].key = "id" /\ writes'[1].of = w.of
      <4>1. 1 \in 1..Len(writes')
        BY <1>2, <3>3
      <4>2. writes'[1] = Put("id", w.of)
        BY <1>2, <3>3, <4>1
      <4>3. QED
        BY <4>2 DEF Put
    <3>5. QED
      BY <1>3, <2>1, <2>4, <3>1, <3>2, <3>4 DEF Untorn
  <2>6. CASE w.key = "id"
    <3>1. disk'.token = disk.token /\ disk'.id = w.of
      BY <2>3, <2>6
    <3>2. disk.token = w.of
      BY <1>2, <2>1, <2>6 DEF Untorn
    <3>3. Len(writes') > 0 => writes'[1] = writes[2] /\ 2 \in 1..Len(writes)
      BY <1>2
    <3>4. Len(writes') > 0 => writes'[1].key = "token"
      <4>1. ASSUME Len(writes') > 0, writes[2].key = "id" PROVE FALSE
        <5>1. writes[2 - 1] = Put("token", writes[2].of)
          BY <3>3, <4>1 DEF MixInv, Pairs
        <5>2. QED
          BY <2>6, <5>1 DEF Put
      <4>2. QED
        BY <3>3, <4>1 DEF MixInv, Pairs
    <3>5. Len(writes') > 0 => Agree(writes'[1].of, w.of)
      <4>1. Len(writes') > 0 => 2 \in 2..Len(writes) /\ writes[2 - 1] = w
        BY <1>2
      <4>2. QED
        BY <2>1, <3>3, <3>4, <4>1 DEF Untorn
    <3>6. QED
      BY <1>3, <2>1, <2>4, <3>1, <3>2, <3>4, <3>5 DEF Untorn, Agree
  <2>7. QED
    BY <2>2, <2>5, <2>6
<1>6. QED
  BY <1>3, <1>4, <1>5 DEF MixInv

\* A first death finds a device that agrees; a death that finds nothing
\* pending changes nothing.
LEMMA RestartMix ==
    ASSUME MixInv, PrefInv', Restart
    PROVE  MixInv'
<1>1. /\ token' = disk.token /\ userId' = disk.id /\ disk' = disk /\ writes' = <<>>
      /\ doubled' = doubled
      /\ torn' = IF writes # <<>> /\ torn < 2 THEN torn + 1 ELSE torn
  BY DEF Restart
<1>2. torn \in 0..2 /\ torn' \in 0..2 /\ Pairs'
  BY <1>1 DEF MixInv, Pairs
<1>3. CASE writes = <<>>
  <2>1. disk.token = token /\ disk.id = userId
    BY <1>3 DEF MixInv, PrefInv, PairInv
  <2>2. Untorn => Untorn'
    BY <1>1, <1>3, <2>1 DEF Untorn
  <2>3. QED
    BY <1>1, <1>2, <1>3, <2>1, <2>2 DEF MixInv
<1>4. CASE writes # <<>>
  <2>1. torn' # 0 /\ (torn' < 2 => torn = 0)
    BY <1>1, <1>2, <1>4
  <2>2. ~doubled' /\ torn' < 2 => Agree(token', userId')
    BY <1>1, <2>1 DEF MixInv, Untorn
  <2>3. QED
    BY <1>2, <2>1, <2>2 DEF MixInv
<1>5. QED
  BY <1>3, <1>4

LEMMA MixNext == MixInv /\ [Next]_vars => MixInv'
<1> SUFFICES ASSUME MixInv, [Next]_vars PROVE MixInv'
  OBVIOUS
<1>0. PrefInv'
  BY PrefNext DEF MixInv
<1>1. CASE UNCHANGED <<sessionVars, doubled, torn>>
  BY <1>0, <1>1 DEF sessionVars, MixInv, Pairs, Untorn
<1>2. CASE Logout
  BY <1>0, <1>2, StoreMix DEF Logout, Who
<1>3. ASSUME NEW u \in User, LoginAnswered(u) PROVE MixInv'
  BY <1>0, <1>3, StoreMix DEF LoginAnswered, Who
<1>4. CASE PrefWritten \/ Restart
  BY <1>0, <1>4, PrefWrittenMix, RestartMix
<1>5. CASE \/ OpenLogin \/ LeaveLogin \/ OpenProfile \/ OpenOrders \/ LeaveOrders
           \/ \E u \in User : \/ PressLogin(u) \/ LoginRefused(u)
                              \/ ClosingAnswered(u) \/ ClosingFails(u)
                              \/ WalletAnswered(u) \/ OrdersAnswered(u)
  BY <1>1, <1>5 DEF OpenLogin, LeaveLogin, OpenProfile, OpenOrders, LeaveOrders,
     PressLogin, LoginRefused, ClosingAnswered, ClosingFails, WalletAnswered,
     OrdersAnswered, history, Settle
<1>6. CASE UNCHANGED vars
  BY <1>1, <1>6 DEF vars, history
<1>7. QED
  BY <1>2, <1>3, <1>4, <1>5, <1>6 DEF Next, Answers

\* For any number of users, sign-ins and pending writes: token and id of two
\* users are mixed by two deaths between writes, or by a sign-in over another,
\* and by nothing else.
THEOREM SessionIsOnes == Spec => []SameUser
<1>1. Init => MixInv
  BY PrefInit DEF Init, MixInv, Pairs, Untorn, Agree
<1>2. MixInv => SameUser
  BY DEF MixInv, SameUser, Agree
<1>3. QED
  BY <1>1, <1>2, MixNext, PTL DEF Spec
=============================================================================
