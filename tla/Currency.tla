------------------------------ MODULE Currency ------------------------------
(***************************************************************************)
(* The rates of CurrencyConverterProvider, the currency picked on HOME,    *)
(* what the Payment page shows and what PayPal is asked for, in dollars.   *)
(*                                                                         *)
(* Sums are integers: hundredths of a riyal, of a dollar, and so on.  A    *)
(* rate is what 100 riyals are worth.  The rest of a payment is Checkout.  *)
(***************************************************************************)
EXTENDS Integers

CONSTANTS
    Tile,       \* the currencies that HOME offers
    Fetched,    \* those whose rates getRates asks for: USD, AED, KWD
    Qar, Usd,   \* two of the tiles: riyals and dollars
    Market,     \* the tables of rates that the service may answer
    Sum,        \* the totals of a cart
    Balance,    \* what may be in the wallet
    MaxAsks,    \* bound on the reads of rates under way
    None,       \* null: no table, nothing shown, nothing asked for
    Error       \* an exception where a sum should be

ASSUME CurrencyAssumption ==
    /\ Fetched \subseteq Tile /\ Qar \in Tile \ Fetched /\ Usd \in Fetched
    /\ Market \subseteq [Fetched -> Nat] /\ None \notin Market
    /\ Sum \subseteq Nat /\ Balance \subseteq Nat
    /\ MaxAsks \in Nat \ {0}

VARIABLES
    usd,       \* CurrencyConverterProvider.usd: the table that came last
    name,      \* CurrencySwitchProvider.currencyName
    rateAsks,  \* getRates under way
    route,     \* "tabs", "payment" above them, "paypal" above that
    total,     \* Payment: widget.total
    balance,   \* walletModel's balance
    check,     \* Payment: is the wallet ticked?
    shown,     \* Payment: the number under "Amount to be Paid"
    asked,     \* PaypalPayment: widget.amount
    share,     \* history: the part of the total it stands for
    known,     \* history: a table has come
    rated,     \* history: known when PAY was tapped
    seen,      \* history: shown when PAY was tapped, None if moved
    moved      \* history: one came since shown was built

payVars == <<route, total, check, shown, asked, share, rated, seen>>
vars == <<usd, name, rateAsks, payVars, balance, known, moved>>

\* toStringAsFixed(2)
Rounded(a, rate) == (a * rate + 50) \div 100

\* Without a table, and for riyals, the sum as it is; a rate that was not
\* asked for is null.
getConvertedRate(a, c) ==
    IF usd = None \/ c = Qar THEN a
    ELSE IF c \in Fetched THEN Rounded(a, usd[c]) ELSE Error

Init ==
    /\ usd = None /\ name = Qar /\ rateAsks = 0
    /\ route = "tabs" /\ total = None /\ check = FALSE
    /\ balance \in Balance
    /\ shown = None /\ asked = None /\ share = None
    /\ known = FALSE /\ rated = FALSE /\ seen = None
    /\ moved = FALSE

-----------------------------------------------------------------------------
\* HOME is built: once more whenever its tab is chosen.
BuildHome ==
    /\ route = "tabs" /\ rateAsks < MaxAsks
    /\ rateAsks' = rateAsks + 1
    /\ UNCHANGED <<usd, name, payVars, balance, known, moved>>

\* 200.  The sum on Payment does not listen.
RatesAnswered(t) ==
    /\ rateAsks > 0
    /\ rateAsks' = rateAsks - 1
    /\ usd' = t /\ known' = TRUE /\ moved' = (route # "tabs")
    /\ UNCHANGED <<name, payVars, balance>>

\* Faulty: the table goes before the new one has come.
RatesFail_Clears ==
    /\ rateAsks > 0
    /\ rateAsks' = rateAsks - 1
    /\ usd' = None
    /\ UNCHANGED <<name, payVars, balance, known, moved>>

\* Another status, without a toast, or an exception.
RatesFail ==
    /\ rateAsks > 0
    /\ rateAsks' = rateAsks - 1
    /\ UNCHANGED <<usd, name, payVars, balance, known, moved>>

\* A tile on HOME.
changeCurrency(c) ==
    /\ route = "tabs" /\ c # name
    /\ name' = c
    /\ UNCHANGED <<usd, rateAsks, payVars, balance, known, moved>>

\* Payment is built.
Show(s) == shown' = getConvertedRate(s, name) /\ moved' = FALSE

\* CONTINUE on BillingAddress.
OpenPayment(s) ==
    /\ route = "tabs"
    /\ route' = "payment" /\ total' = s /\ check' = FALSE
    /\ Show(s)
    /\ UNCHANGED <<usd, name, rateAsks, balance, asked, share, known, rated,
                   seen>>

\* The box next to the wallet: setState builds the page anew.
Tick ==
    /\ route = "payment"
    /\ check' = ~check
    /\ Show(total)
    /\ UNCHANGED <<usd, name, rateAsks, route, total, balance, asked, share,
                   known, rated, seen>>

\* A wallet read is answered: Payment listens and is built anew.
WalletAnswered(b) ==
    /\ balance' = b
    /\ IF route = "tabs" THEN UNCHANGED <<shown, moved>> ELSE Show(total)
    /\ UNCHANGED <<usd, name, rateAsks, route, total, check, asked, share, known,
                   rated, seen>>

\* Faulty: what the page shows is passed on.
PayByPaypal_Shown ==
    /\ route = "payment"
    /\ check => total > balance
    /\ share' = IF check THEN total - balance ELSE total
    /\ asked' = shown
    /\ route' = "paypal" /\ rated' = known
    /\ seen' = IF moved THEN None ELSE shown
    /\ UNCHANGED <<usd, name, rateAsks, total, check, balance, shown, known,
                   moved>>

\* Faulty: what the page shows is converted once more.
PayByPaypal_Twice ==
    /\ route = "payment"
    /\ check => total > balance
    /\ share' = IF check THEN total - balance ELSE total
    /\ asked' = IF shown = Error THEN Error ELSE getConvertedRate(shown, Usd)
    /\ route' = "paypal" /\ rated' = known
    /\ seen' = IF moved THEN None ELSE shown
    /\ UNCHANGED <<usd, name, rateAsks, total, check, balance, shown, known,
                   moved>>

\* PAY: the total, or with the wallet ticked what the wallet lacks.
PayByPaypal ==
    /\ route = "payment"
    /\ check => total > balance
    /\ share' = IF check THEN total - balance ELSE total
    /\ asked' = getConvertedRate(share', Usd)
    /\ route' = "paypal" /\ rated' = known
    /\ seen' = IF moved THEN None ELSE shown
    /\ UNCHANGED <<usd, name, rateAsks, total, check, balance, shown, known,
                   moved>>

\* Back, or the end of the payment.
Back ==
    /\ route # "tabs"
    /\ asked' = None /\ share' = None /\ rated' = FALSE /\ seen' = None
    /\ IF route = "paypal"
       THEN route' = "payment" /\ UNCHANGED <<total, check, shown, moved>>
       ELSE /\ route' = "tabs" /\ total' = None /\ check' = FALSE
            /\ shown' = None /\ moved' = FALSE
    /\ UNCHANGED <<usd, name, rateAsks, balance, known>>

Next ==
    \/ BuildHome \/ RatesFail \/ Tick \/ PayByPaypal \/ Back
    \/ \E t \in Market : RatesAnswered(t)
    \/ \E c \in Tile : changeCurrency(c)
    \/ \E s \in Sum : OpenPayment(s)
    \/ \E b \in Balance : WalletAnswered(b)

Spec == Init /\ [][Next]_vars

-----------------------------------------------------------------------------
(***************************************************************************)
(* Properties                                                              *)
(***************************************************************************)

\* PayPal is asked for a sum, never for an exception.
CurrencyTypeOK ==
    /\ usd \in Market \cup {None} /\ name \in Tile /\ rateAsks \in 0..MaxAsks
    /\ route \in {"tabs", "payment", "paypal"}
    /\ total \in Sum \cup {None} /\ balance \in Balance
    /\ shown \in Nat \cup {None, Error}
    /\ asked \in Nat \cup {None} /\ share \in Nat \cup {None}
    /\ seen \in Nat \cup {None, Error}
    /\ {check, known, rated, moved} \subseteq BOOLEAN

\* Whoever pays in dollars, without the wallet, is asked by PayPal for the
\* number on the Payment page, unless new rates came in between: the page does
\* not listen to the rates, PAY converts anew.
AskedIsShown ==
    seen # None /\ name = Usd /\ share = total => asked = seen

\* Whoever taps PAY once a table of rates has come is asked by PayPal for the
\* share at the rates of some table, whatever reads of rates failed since.
AskedInDollars ==
    asked # None /\ rated =>
        \E t \in Market : asked = Rounded(share, t[Usd])

\* As "Amount to be Paid" with its currency says: in riyals, PayPal, which
\* is told "USD", is not asked for the same number.
AskedIsWorthShown ==
    seen # None /\ name = Qar /\ share = total =>
        \E t \in Market : asked = Rounded(seen, t[Usd])
=============================================================================
