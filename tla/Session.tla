------------------------------- MODULE Session -------------------------------
(***************************************************************************)
(* Who is signed in: the preferences on the device, the fields token and   *)
(* userId of WoocommerceProvider, and what the app shows of a user, the    *)
(* wallet and the list of orders.  Requests are answered in any order, and *)
(* late answers find the user gone from the page, or signed out.           *)
(*                                                                         *)
(* SharedPreferences answers reads from memory, which a call changes at    *)
(* once; the device's file follows in the order of the calls.  email and   *)
(* name are written with id and are left out.                              *)
(***************************************************************************)
EXTENDS Integers, Sequences

CONSTANTS
    User,       \* the accounts
    Nobody,     \* null, and an absent preference
    MaxAsks,    \* bound on the requests of one kind under way for one user
    MaxWrites   \* bound on the preference writes not yet on disk

ASSUME SessionAssumption ==
    /\ Nobody \notin User
    /\ MaxAsks \in Nat \ {0}
    /\ MaxWrites \in Nat /\ MaxWrites >= 2

VARIABLES
    token, userId,  \* WoocommerceProvider's fields: the user they are of
    disk,           \* the preferences "token" and "id" on the device
    writes,         \* calls of setString, setInt and remove not yet on disk
    page,           \* "tabs", or the page above them: "login" or "orders"
    loading,        \* Login's flag load
    signin,         \* signin[u]: a login request with u's password: "none",
                    \* "page" (its Login page is there) or "orphan"
    closing,        \* users whose wallet read is to close the Login page
    walletAsks,     \* walletAsks[u]: other getWalletDetails under way
    wallet,         \* whose wallet walletModel is
    orderAsks,      \* orderAsks[u]: getOrder requests under way
    orderList,      \* whose orders orderList holds
    orderLoad,      \* the flag orderLoad
    strays,         \* history: users replaced while their wallet was asked for,
                    \* as long as it is still asked for, or shown
    kept,           \* history: whose wallet was shown when another user signed
                    \* in over them, as long as it is shown
    doubled,        \* history: a login succeeded while somebody was signed in
    torn            \* history: deaths of the process with writes pending (to 2)

sessionVars == <<token, userId, disk, writes>>
viewVars == <<wallet, orderList, orderLoad>>
history == <<strays, kept, doubled, torn>>
vars == <<sessionVars, page, loading, signin, closing, walletAsks, orderAsks,
          viewVars, history>>

Who == User \cup {Nobody}

Put(key, u) == [key |-> key, of |-> u]

\* setData, and the four removes of logout: one call per key.
Store(u) == writes' = writes \o <<Put("token", u), Put("id", u)>>

\* getData: the fields become what the preferences say.
getData(u) == token' = u /\ userId' = u

Asked(u) == walletAsks[u] > 0 \/ u \in closing

\* u takes the place of whoever was signed in; logout, with u = Nobody, clears
\* the wallet, a login does not.
Replace(u) ==
    /\ doubled' = (doubled \/ (u # Nobody /\ token # Nobody /\ userId # Nobody))
    /\ strays' = {v \in User \ {u} :
                    Asked(v) \/ (u # Nobody /\ wallet = v /\ v \in strays)}
    /\ kept' = IF u # Nobody /\ wallet \in {userId, kept} \ {u} THEN wallet ELSE Nobody
    /\ UNCHANGED torn

\* A read has ended: what it leaves of the two histories.
Settle ==
    /\ strays' = {v \in strays : Asked(v)' \/ wallet' = v}
    /\ kept' = IF wallet' = kept THEN kept ELSE Nobody
    /\ UNCHANGED <<doubled, torn>>

Init ==
    /\ token = Nobody /\ userId = Nobody
    /\ disk = [token |-> Nobody, id |-> Nobody] /\ writes = <<>>
    /\ page = "tabs" /\ loading = FALSE
    /\ signin = [u \in User |-> "none"] /\ closing = {}
    /\ walletAsks = [u \in User |-> 0] /\ wallet = Nobody
    /\ orderAsks = [u \in User |-> 0] /\ orderList = Nobody /\ orderLoad = TRUE
    /\ strays = {} /\ kept = Nobody /\ doubled = FALSE /\ torn = 0

-----------------------------------------------------------------------------
(***************************************************************************)
(* Signing in                                                              *)
(***************************************************************************)

\* LOGIN of the Profile tab, or CHECKOUT without a token.
OpenLogin ==
    /\ page = "tabs"
    /\ userId = Nobody \/ token = Nobody
    /\ page' = "login" /\ loading' = FALSE
    /\ UNCHANGED <<sessionVars, signin, closing, walletAsks, orderAsks, viewVars,
                   history>>

\* A tap on "Login" with the password of u.
PressLogin(u) ==
    /\ page = "login" /\ ~loading
    /\ signin[u] = "none"
    /\ loading' = TRUE
    /\ signin' = [signin EXCEPT ![u] = "page"]
    /\ UNCHANGED <<sessionVars, page, closing, walletAsks, orderAsks, viewVars,
                   history>>

\* Wrong password, server error or an exception, which loginUser swallows.
LoginRefused(u) ==
    /\ signin[u] # "none"
    /\ signin' = [signin EXCEPT ![u] = "none"]
    /\ loading' = (loading /\ signin[u] # "page")
    /\ UNCHANGED <<sessionVars, page, closing, walletAsks, orderAsks, viewVars,
                   history>>

\* Faulty: the preferences are written, the fields not read anew.
LoginAnswered_NoGetData(u) ==
    /\ signin[u] # "none"
    /\ Len(writes) + 2 <= MaxWrites
    /\ signin' = [signin EXCEPT ![u] = "none"]
    /\ loading' = (loading /\ signin[u] # "page")
    /\ Store(u)
    /\ Replace(u)
    /\ closing' = IF signin[u] = "page" THEN closing \cup {u} ELSE closing
    /\ UNCHANGED <<token, userId, disk, page, walletAsks, orderAsks, viewVars>>

\* The server accepts: setData, then getData, then the wallet is asked for,
\* with the context of the Login page: Provider.of throws when it is gone.
LoginAnswered(u) ==
    /\ signin[u] # "none"
    /\ Len(writes) + 2 <= MaxWrites
    /\ signin' = [signin EXCEPT ![u] = "none"]
    /\ loading' = (loading /\ signin[u] # "page")
    /\ Store(u)
    /\ getData(u)
    /\ Replace(u)
    /\ closing' = IF signin[u] = "page" THEN closing \cup {u} ELSE closing
    /\ UNCHANGED <<disk, page, walletAsks, orderAsks, viewVars>>

\* The Login page goes: its requests go on without it.
LoginGoes(answered) ==
    /\ page' = "tabs" /\ loading' = FALSE
    /\ signin' = [u \in User |-> IF signin[u] = "page" THEN "orphan" ELSE signin[u]]
    /\ closing' = {}
    /\ walletAsks' = [u \in User |-> IF u \in closing \ {answered}
                                       THEN walletAsks[u] + 1 ELSE walletAsks[u]]

LeaveLogin ==
    /\ page = "login"
    /\ \A u \in closing : walletAsks[u] < MaxAsks
    /\ LoginGoes(Nobody)
    /\ UNCHANGED <<sessionVars, orderAsks, viewVars, history>>

\* The read throws: nothing pops the page.
ClosingFails(u) ==
    /\ u \in closing
    /\ closing' = closing \ {u}
    /\ UNCHANGED <<sessionVars, page, loading, signin, walletAsks, orderAsks, viewVars>>
    /\ Settle

\* The wallet read that LoginAnswered started is answered: with 200 it is stored, with
\* another status not, and either way the Login page is popped.
ClosingAnswered(u) ==
    /\ u \in closing
    /\ \A v \in closing \ {u} : walletAsks[v] < MaxAsks
    /\ wallet' \in {u, wallet}
    /\ LoginGoes(u)
    /\ UNCHANGED <<sessionVars, orderList, orderLoad, orderAsks>>
    /\ Settle

-----------------------------------------------------------------------------
(***************************************************************************)
(* Signing out, and what is shown of the user                              *)
(***************************************************************************)

\* Faulty: the wallet of the user who left stays.
Logout_KeepsWallet ==
    /\ page = "tabs" /\ token # Nobody
    /\ Len(writes) + 2 <= MaxWrites
    /\ Store(Nobody)
    /\ getData(Nobody)
    /\ Replace(Nobody)
    /\ UNCHANGED <<disk, page, loading, signin, closing, walletAsks, orderAsks,
                   viewVars>>

\* Faulty: the preference "id" is not removed.
Logout_KeepsId ==
    /\ page = "tabs" /\ token # Nobody
    /\ Len(writes) + 2 <= MaxWrites
    /\ writes' = Append(writes, Put("token", Nobody))
    /\ getData(Nobody)
    /\ Replace(Nobody)
    /\ wallet' = Nobody
    /\ UNCHANGED <<disk, page, loading, signin, closing, walletAsks, orderAsks,
                   orderList, orderLoad>>

\* LOG OUT, confirmed: logout, then makeNull of the wallet.  orderList and
\* the requests under way are left alone.
Logout ==
    /\ page = "tabs" /\ token # Nobody
    /\ Len(writes) + 2 <= MaxWrites
    /\ Store(Nobody)
    /\ getData(Nobody)
    /\ Replace(Nobody)
    /\ wallet' = Nobody
    /\ UNCHANGED <<disk, page, loading, signin, closing, walletAsks, orderAsks,
                   orderList, orderLoad>>

\* The Profile tab, and every new BottomNavigation, ask for the wallet.
OpenProfile ==
    /\ page = "tabs" /\ userId # Nobody
    /\ walletAsks[userId] < MaxAsks
    /\ walletAsks' = [walletAsks EXCEPT ![userId] = @ + 1]
    /\ UNCHANGED <<sessionVars, page, loading, signin, closing, orderAsks,
                   viewVars, history>>

\* Faulty: an answer is handled a second time.
WalletAnswered_Twice(u) ==
    /\ walletAsks' = [walletAsks EXCEPT ![u] = @ - 1]
    /\ wallet' \in {u, wallet}
    /\ UNCHANGED <<sessionVars, page, loading, signin, closing, orderAsks,
                   orderList, orderLoad>>
    /\ Settle

\* getWalletDetails: 200, another status (a toast), or an exception.
WalletAnswered(u) ==
    /\ walletAsks[u] > 0
    /\ walletAsks' = [walletAsks EXCEPT ![u] = @ - 1]
    /\ wallet' \in {u, wallet}
    /\ UNCHANGED <<sessionVars, page, loading, signin, closing, orderAsks,
                   orderList, orderLoad>>
    /\ Settle

\* MY PURCHASES: OrderList's initState does getOrder.
OpenOrders ==
    /\ page = "tabs" /\ userId # Nobody
    /\ orderAsks[userId] < MaxAsks
    /\ page' = "orders"
    /\ orderAsks' = [orderAsks EXCEPT ![userId] = @ + 1]
    /\ UNCHANGED <<sessionVars, loading, signin, closing, walletAsks, viewVars,
                   history>>

\* 200, another status, or an exception, which leaves orderLoad as it is.
OrdersAnswered(u) ==
    /\ orderAsks[u] > 0
    /\ orderAsks' = [orderAsks EXCEPT ![u] = @ - 1]
    /\ \/ orderList' \in {u, orderList} /\ orderLoad' = FALSE
       \/ UNCHANGED <<orderList, orderLoad>>
    /\ UNCHANGED <<sessionVars, page, loading, signin, closing, walletAsks, wallet,
                   history>>

LeaveOrders ==
    /\ page = "orders"
    /\ page' = "tabs"
    /\ UNCHANGED <<sessionVars, loading, signin, closing, walletAsks, orderAsks,
                   viewVars, history>>

-----------------------------------------------------------------------------
\* The oldest preference write reaches the device.
PrefWritten ==
    /\ writes # <<>>
    /\ disk' = [disk EXCEPT ![Head(writes).key] = Head(writes).of]
    /\ writes' = Tail(writes)
    /\ UNCHANGED <<token, userId, page, loading, signin, closing, walletAsks,
                   orderAsks, viewVars, history>>

\* The process dies and is started again: getData reads the device, and the
\* wallet is asked for when there is an id.
Restart ==
    /\ token' = disk.token /\ userId' = disk.id
    /\ writes' = <<>>
    /\ page' = "tabs" /\ loading' = FALSE
    /\ signin' = [u \in User |-> "none"] /\ closing' = {}
    /\ walletAsks' = [u \in User |-> IF u = disk.id THEN 1 ELSE 0]
    /\ wallet' = Nobody
    /\ orderAsks' = [u \in User |-> 0] /\ orderList' = Nobody /\ orderLoad' = TRUE
    /\ strays' = {} /\ kept' = Nobody /\ UNCHANGED doubled
    /\ torn' = IF writes # <<>> /\ torn < 2 THEN torn + 1 ELSE torn
    /\ UNCHANGED disk

Answers(u) ==
    \/ LoginAnswered(u) \/ LoginRefused(u) \/ ClosingAnswered(u)
    \/ WalletAnswered(u) \/ OrdersAnswered(u)

Next ==
    \/ OpenLogin \/ LeaveLogin \/ Logout \/ OpenProfile \/ OpenOrders \/ LeaveOrders
    \/ \E u \in User : PressLogin(u) \/ Answers(u) \/ ClosingFails(u)
    \/ PrefWritten \/ Restart

Spec == Init /\ [][Next]_vars

-----------------------------------------------------------------------------
(***************************************************************************)
(* Properties                                                              *)
(***************************************************************************)

SessionTypeOK ==
    /\ token \in Who /\ userId \in Who
    /\ disk \in [token : Who, id : Who]
    /\ writes \in Seq([key : {"token", "id"}, of : Who])
    /\ Len(writes) <= MaxWrites
    /\ page \in {"tabs", "login", "orders"}
    /\ loading \in BOOLEAN
    /\ signin \in [User -> {"none", "page", "orphan"}]
    /\ closing \subseteq User
    /\ walletAsks \in [User -> 0..MaxAsks]
    /\ wallet \in Who
    /\ orderAsks \in [User -> 0..MaxAsks]
    /\ orderList \in Who
    /\ orderLoad \in BOOLEAN
    /\ strays \subseteq User /\ kept \in Who
    /\ doubled \in BOOLEAN
    /\ torn \in 0..2

\* Once the device has caught up, a restart finds the user signed in, or
\* out, exactly as the app has it now: setData and logout write every key
\* that getData reads.
SessionSurvives == writes = <<>> => disk = [token |-> token, id |-> userId]

\* token and userId never belong to two users, although neither setData nor
\* logout is atomic: one death between their writes leaves one of the two
\* missing, and it takes a second one, or two sign-ins at a time, to mix them.
SameUser ==
    torn < 2 /\ ~doubled /\ token # Nobody /\ userId # Nobody => token = userId

\* The balance PAY compares and PayPal's share is computed from is that of the
\* user who pays, with two exceptions: a wallet read still under way when its
\* user was replaced is answered late (makeNull clears only what is there), and
\* loginUser clears nothing, so the wallet shown when a second login replaces a
\* signed-in user stays.  Once it is neither read nor shown any more, no
\* wallet of another user comes back.
WalletIsUsers ==
    wallet # Nobody /\ wallet # userId => wallet \in strays \/ wallet = kept

\* Stated as "GET ORDER BY USER" and "MY PURCHASES", "Check your purchase
\* list" say, and with one sign-in at a time: the
\* orders on the page are those of the user who is signed in.
OrdersByUser ==
    page = "orders" /\ ~orderLoad /\ orderList # Nobody /\ ~doubled
        => orderList = userId
=============================================================================
