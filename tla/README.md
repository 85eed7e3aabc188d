# e_card: a verification development

The program is a Flutter shop application (`src/lib`, about 12,000 lines of
Dart). It sells products of a WooCommerce shop, keeps a cart and a wish list
in Hive boxes on the device, pays through a wallet API and through PayPal, and
shows orders, reviews and banners. This directory holds TLA+ models of the parts that
decide about money and about what the user keeps, the TLC runs that check
them, and proofs checked by TLAPS.

Everything outside `src/lib` (platform projects, pods, build output, assets) is
generated, vendored or data; `src/test/widget_test.dart` is the counter
template of a new Flutter project and does not fit this program.

## Inventory

| Component | State | Operations | Hard about it |
|---|---|---|---|
| **Cart** `screens/cart.dart`, `details_page.dart`, `bottom_navigation.dart`, `models/cart_model.dart` | Hive box `cart` (memory and disk), the snapshot of the Cart tab, `inCart`, `cartQuantity` | add, plus, minus, delete, open and leave screens, restart | writes finish after the tap; callbacks run on screens that are gone; crash between tap and disk |
| **Checkout** `cart.dart` (CHECKOUT), `billing_address.dart`, `payment.dart`, `paypal_view.dart`, `paypal_services.dart`, `order_placed.dart`, `wallet_provider.dart`, `createOrder` | route stack, `orderPlace`, `walletModel`, one handler per PAY tap; PayPal, wallet and WooCommerce keep theirs | CHECKOUT, CONTINUE, PAY (wallet, mixed, PayPal), approve, cancel, back, execute, reduce_wallet, POST orders, CLOSE | four servers' worth of requests in a row without a transaction; answers after the page is gone; one flag for all attempts; lost answers; death of the process |
| **Session** `loginUser`, `createUser`, `setData`, `getData`, `logout`, `login.dart`, `sign_up.dart` | preferences, `token`, `userId`, `orderList`; `load` of each page | login, register, logout, start | writes not awaited; what logout leaves behind; pops that take whatever page is on top |
| **Wish list** `favourite.dart`, toggle in `details_page.dart` | Hive box `favourites`, index of a row | toggle, open, delete | index used after an await; Details pages of one product above each other |
| **Catalogue** `getAllProducts`, `searchProduct`, `filter`, `short`, `product_list.dart`, `search.dart`, `filter.dart`, `home.dart` | product lists, page index, loading flags | next page, search, filter, sort | pages appended twice; answers that overtake each other |
| **Reviews** `getReview`, `createRating`, `rating_and_reviews.dart` | `reviewModelAll`, `load`, `creatingLoad` | open, scroll, rate | list shared by all products; flags left set by exceptions |
| **Orders** `getOrder`, `order_details_provider.dart`, `order_cancel_provider.dart`, `my_purchases.dart` | `orderList`, `loadTop`, `loadBottom` | list, details, refund request | flags reset after a pop that can throw; details of the wrong order |
| **Currency** `currency_converter_provider.dart` | `usd` (the table of rates), `currencyName` | getRates, pick a currency, convert | conversion before the rates are there, or after they have changed |
| **Banners** `firebase_provider.dart`, `home.dart` | `bannerList`, `selectedInt` | Firestore snapshots, taps | listeners that are never cancelled; taps while another product is asked for |
| Static screens, unused payment paths (Braintree, `paypal_provider.dart`), models, styles | none that others read | | |

How they interact: screens call methods of `ChangeNotifier` providers and read
their fields; Hive boxes are shared by name; handlers are closures that keep
the `BuildContext`, and the arguments, of the page they were started on, and go
on after the page is gone. Dart runs one handler at a time, up to its next
`await` or `.then`, so a step of the models is the code between two such points.

What makes a component correct:

* Cart: disk and screens follow the box in memory; one row per product, as far as pages of one
  product above each other let the code know.
* Checkout: no order via PayPal without its capture, one order per tap, the two
  shares add up to the total, the total is the price of what is ordered, a captured payment
  is followed up, and clearing the cart takes only what was bought.
* Session: nobody sees another user's data; login survives a restart whole.
* Wish list: a late answer never removes a wish older than the row that was tapped, and a newer one
  only when rows have left; the heart says what the box holds; one wish per product.
* Catalogue: the categories are whole; a product list belongs to its query, and
  nothing the shop has is hidden by the order of the answers.
* Reviews and orders: a spinner stands for one request and ends with it; what is
  shown belongs to the product or the order on screen, or the properties name the case
  in which it does not; a rating that was sent is read back; no refund is asked for twice.
* Currency: PayPal is asked for the share of the payment, in dollars.
* Banners: each is shown once and the newest come to HOME; a tap opens one page.
* Login and SignUp: a late answer does not take the tabs away.

`PROJECT.json` lists the hazards line by line, with the properties that cover
them, and the two that none can cover, because the code promises nothing.

## Modules

| Module | What it models |
|---|---|
| `Cart` | the cart: box, disk, pending writes, Cart tab, Details, badge, restart |
| `Checkout` | EXTENDS `Cart`: routes, attempts, wallet, PayPal, WooCommerce; every step says what it leaves of the cart |
| `Funding` | the abstract promise about money: Ask, Capture, Order |
| `Session` | login, preferences, logout, restart; the wallet and the orders shown |
| `SignIn` | the Login and SignUp pages, their forms and the pops of late answers |
| `Wishlist` | the wish list: box, disk, Favourites, the heart of Details, restart |
| `WriteBehind` | the abstract promise about what is kept: memory first, the device in the order of the calls |
| `Shelves` | the shelves of HOME: categories, products, latest releases |
| `Listing` | the ProductList pages, their one shared list, and the Filter page |
| `Search` | the Search tab, a request for every key, the Filter page above it |
| `Reviews` | the reviews of a product, the sheet that sends a rating, the list all products share |
| `Purchases` | the page of an order, its details, both buttons that ask for a refund |
| `Currency` | the rates, the currency picked, the sum shown by Payment and the one PayPal is asked for |
| `Banners` | the banners of HOME, their Firestore listeners, the taps on them |
| `MC...` | constants for TLC; `MCCheckout` also has `OverlapSpec`; `MCCatalogue`, `MCPaying` and `MCWaiting` put components side by side (see Runs) |
| `CartProofs`, `CheckoutProofs` (over `CartProofs`), `SessionProofs`, `WishlistProofs`, `WriteBehindProofs` | theorems and TLAPS proofs of the component each is named after |
| `PayingProofs`, `CatalogueProofs`, `WaitingProofs` | the same for the components that `MCPaying`, `MCCatalogue` and `MCWaiting` put side by side |

Operators whose comment starts with "Faulty:" are wrong variants of the
definition that follows them; no specification uses them. Each stands for a plausible bug
that the property named with it in `PROJECT.json` detects.

### Cart

An element of `Item` is a `CartModel` object; `ProductOf` and `Price` give its
product and price. `qty` is the `quantity` field, `box` the objects the Hive box holds in
memory, `disk` what its file holds. Hive 1.4.4 changes the memory at the call
of `add`, `save` or `delete` and writes the file in the order of the calls; `queue` holds
what is not written yet, each entry with `by`: the State whose
`.then` callback waits for it, which is the Cart tab, the Details page at a place of the stack, or none
that is still mounted. A disposed State throws in
`setState`, so nothing of its callback takes effect but a toast (`Orphaned`).
`WriteDone` is the end of one write together with its callback: `getCart` of the
Cart tab (new snapshot `priced`, new `badge`) or `checkCart` of a Details page
(`inCart`). Hive encodes an object when its write gets its turn, so the record may hold the
quantity of the call or a later one: both are tried. `CartRestart` is the
death of the process at any moment followed by a start.

`pages` is the stack of Details pages above the tabs. A tap on a banner of HOME pushes its page when
`getProduct` has answered, whatever is on top by then (`home.dart:564-588`), so Details pages lie above each
other, also two of one product. No request is kept for these pushes: any banner may have been tapped before,
so a page of any product may come on top at any time. Each page has its own `inCart`, read in `initState` and
again only in callbacks of its own writes, of the row or of the heart (`HeartDone`). `behind` is history: a page of the same
product has lain above this one since it last looked. `again` is history: the products that
were added from a page that could not know of the row, because its own add was pending or it was behind.

### Checkout

`routes` is the stack above the tabs; an attempt on it stands for its PayPal
WebView. An attempt is one tap on PAY, and `phase[a]` says how far its handler
and its requests have come:

    idle -> create -> approve -> exec -> execOk -> [debit -> debited ->] post
                                      -> execNo -> dead      -> postOk -> done / unseen
    idle -> debit -> debited -> post ...                     -> postOdd -> dead

`exec`, `debit` and `post` are requests that were sent, `execOk`, `execNo`, `debited`,
`postOk` and `postOdd` served ones whose answer is still to come; in each of
them `Throws` may lose the request or its answer. `unseen` is an order that was created
while its page was gone: `Navigator.push` throws. `job[a]` is what the Payment page
was opened with, `asked[a]` PayPal's share, `charge[a]` the wallet's, `lines[a]` the
order's quantities, read from the live objects when the order is posted.
`alive[a]` says whether that Payment page still exists.

`Pop` disposes the top pages; `LatePop` is the pop that
`executePayment(...).then` does after `onFinish`: it has no effect on an unmounted
WebView, and takes whatever is on top when it comes while the exit transition of
the WebView is still running (`leaving`). `Browse` lets the user do anything in the tabs while no page
lies above them. `late` and `reread` are history: the items touched since an attempt
began, and the attempts in whose PayPal part the balance was read anew.

The three servers are modelled from how the code uses them and are marked
external: PayPal captures or refuses; `reduce_wallet` takes what is there or refuses;
WooCommerce creates the order (201) or answers another 2xx. Statuses that make the
client throw are `Throws`.

### Session

`token` and `userId` are the fields of `WoocommerceProvider`, as the user they are of; `wallet`
says whose balance `walletModel` holds, `orderList` whose orders. `SharedPreferences` answers
reads from memory, which the fields agree with; `disk` is what the device has and `writes` the calls
that are not there yet: neither `setData` nor `logout` awaits its own. `PrefWritten` is the end
of one of them and `Restart` may come between any two. `signin`, `closing`, `walletAsks` and
`orderAsks` are the requests under way. A login is answered while its page is there
or after it is gone (`orphan`): then the user is signed in all the same, but `Provider.of`
throws and the wallet is not read. `strays`, `kept`, `doubled` (a login succeeded while somebody was
signed in, with token and id) and `torn` are history. A wallet of somebody else is shown in two cases only, and
each has its own history: `strays` are users who were replaced while a read of their wallet was under way, until
it has ended and what it brought is gone; `kept` is whose wallet was on show when a second login replaced
a user who was signed in, which nothing clears until the next read is answered. A logout clears `kept` and leaves
among the strays only whose read is still under way, so a wallet from before a logout comes back only with
an answer that was still to come.

### SignIn

The same sign-in as its pages see it. `route` is SignUp above Login above the tabs; "blank"
is a screen from which the last page was popped. `asks[k]` is a request under way: what it is for
(a registration, a login, or the wallet read that follows a login) and whether its page is
still on the stack (`by = "page"`), sliding out, or gone. `PopFor` is `Navigator.pop` with
the context of that page: nothing when it is gone, and otherwise the page on top, which need not be
the page that asked. `slid`, `unheard` and `lost` are history.

### Wishlist

As in `Cart`, a wish is a `CartModel` object and Hive has a memory, a file and a
queue, whose entries say who waits for them (`by`). Wishes are numbered in the order of their keys, so `listed`, the snapshot
of Favourites, is a set and the `index` of a row its `Rank`. `favourites` says that the Favourites
page is open, `pages` is the stack of Details pages on top. Each has its own `heart`, 0 or the wish
at `favouritesIndex`, and the history `behind` of `Cart`. `opening` holds the `getProduct` calls
under way with the index the handler keeps and, as history, the list of that moment (`rows`);
`ProductFound` pushes Details on top of whatever has been opened meanwhile, also of a page of the same
product (`favourite.dart:118`), and `ProductMissing` evaluates `favourites[index]` again, as the code does
after its await. Below Favourites HOME is not mounted, so late answers of its banners push pages only
without Favourites. `again` is as in `Cart`; `dropped` are the wishes that an answer deleted from
the list below a page whose heart pointed at them.

### WriteBehind

`mem[k]` is what the app reads, `device[k]` what a restart finds, `log` the writes between.
`Call` is one handler that writes any number of keys, `Flush` the end of the oldest write,
`Crash` the death of the process and the next start. A write that is followed by another
of its key may put anything on the device, since Hive encodes an object when its turn
comes. `Wishlist` implements it with `mem` and `device` the sets `box` and `disk`,
`log` the queue of adds and deletes (`WishesWriteBehind`).

### Shelves

`catAsks` and `asks` count the requests under way for each page, `PageOf` is what
the shop answers. Home asks when the rates have come, `HomeList` each time
it is built, the scroll listeners compute the page from the length
of the list. `lost` is history: the shelves a request of which threw, with no answer since. `Collect` is `addAll` followed by the removal of repeated ids, which only
the categories have. It is a recursive function over the entries of the page that is added, so that it can
be reasoned about.

### Listing

`asks` are the requests under way, each with its query, its page and what waits for
the answer (`then`): the initState of ProductList, APPLY CHANGES of a Filter page, that of
a Filter page sliding out, or nobody. `list` is the set of
answers that `filterProductsAll` was filled with. `strays`, `picked` and `lost` are
history: they name the cases in which the list may be another one, the queries under way when it was last
emptied, a category picked and not applied, and who waited for the first pages that threw since ProductList
was opened. `Under` is what a pop
leaves; a pop of the last page leaves "blank", where only what is under way goes on.

### Search

A query is the word and the selection of FilterProvider; `list` is the query that
`searchList` answers, `None` while it is empty. `asks` is a sequence, oldest first, so that the
history `swapped` can say that an answer overtook an older one. `Type` is `onChanged` of the
text field, `Apply` is APPLY CHANGES of the Filter page, which searches for the empty
word and waits for that search; `Answered` runs its callback, which pops the page on top:
also a newer Filter page, when the one that asked is still sliding out, and then the request of the
newer page is one of a page that slides out (`Pop`).
`ChooseElsewhere` is the selection that ProductList and its Filter page leave behind.

### Reviews

`list` is `reviewModelAll` as the pages it was filled with: product, index, and how many of
the app's ratings the server had when it read the page. `OpenPage` asks and empties nothing;
`Scroll` computes the next page from the length of it all; `RatingAnswered` empties the list and
reads the product anew, and the callback of that read ends `creatingLoad` and pops the
sheet (`Then`). `load` stands for `load` and `paginationLoad`, which are set together. `then` and
`by` say whether the sheet that waits is there, sliding out or gone. `asked`, `rated` and
`lost` are history.

### Purchases

`details` is `orderDetailsModel`, shared by all pages of orders; `loads` holds `loadTop` and
`loadBottom`. A refund request is "sent", "stored" by the server, or waits for the
`getOrder` after it ("list"); `by` is its page, there, sliding out or gone. `OrdersRead`
pops first and resets the flags after, as the code does: the pop throws when the
page is gone. `strays`, `told`, `fresh`, `reset` and `lost` are history; `lost` are the
buttons a request of which threw or found its page gone since the flags were last reset.

### Currency

Sums are hundredths, a rate is what 100 riyals are worth and `Rounded` is
`toStringAsFixed(2)`. `shown` is computed when Payment is built (`Show`: opened, the box
ticked, or the wallet answered), `asked` when PAY is tapped, each from the table in `usd` at that time.
A currency without a fetched rate gives `Error`, the exception in `getConvertedRate`. `share`, `known`,
`rated`, `seen` and `moved` are history.

### Banners

A snapshot is a version of the document, `list` the versions `bannerList` was filled with,
`heard[l]` what listener `l` has come to: a listener is never cancelled. `getBanner` empties the list and adds a
listener. `opens[b]` counts HOME's `getProduct` calls for a banner, `above` the Details pages they
pushed. `early`, `crossed` and `lost` are history.

### Abstractions

* Timers of 10 to 20 microseconds, and the 20 ms of Payment's `initState`, are part of the step
  that starts them.
* Checkout counts in one currency; the conversion for PayPal is `Currency`.
* `token == null` (CHECKOUT opens Login) belongs to Session: the user of `Checkout` is
  signed in. Form validation of BillingAddress: only its success changes state.
* The exit transition of the Payment page itself is left out: `alive` ends with
  the pop.
* Hive's file operations do not fail. An `Item` is created once per history.
* Session: the name and the email are left out (written and removed with the token and
  the id). Registration, which signs nobody in, and the exit transitions are in `SignIn`, which leaves
  out whose account it is.
* Cart and Wishlist are models of their own, over two boxes that share nothing. A page of `Cart` has no heart and
  one of `Wishlist` no ADD TO CART; what the one's writes do to the other is `checkCart`, at any time
  (`HeartDone`, `CartDone`).
* Shelves: the shop does not change while it is read; the popular products and the best
  sellers are one-shot reads and left out.
* Listing: order (`short`) and repeats of the list are left out; one request of a kind at a time.
* Search: `FilterProvider.keyword`, which is written and never read, is left out.
* Reviews: the text of a review, and pages of several products above each other, are left out; one
  request of a kind at a time.
* Purchases: of the details only their order and whether a refund was asked for are kept.
* Banners: `banner2` and `banner3`, single banners whose last snapshot wins, are left out; all
  versions have the same banners to tap.
* Bounds: `MaxQty` (quantity), `MaxPending` (unfinished writes), `Attempt` (taps
  on PAY), `MaxPages` (in Cart and Wishlist: Details
  pages above each other), `MaxBalance` (wallet at the start), `MaxWish` (wishes created), `Ask` (`getProduct` calls of
  Favourites under way), `MaxAsks` (requests
  under way; `MaxShelfAsks`, `MaxSearches` and `MaxReads` in the MC modules), `MaxList`
  (length of `productsAll`), `MaxPages` (in Reviews: pages of reviews), `MaxRatings` (ratings of a product),
  `MaxRefunds` (refund requests under way), `MaxVersion` (versions of the banners),
  `MaxListeners` (listeners on them), `MaxOpens` (products asked for by taps on them, or open), `Slot`
  (requests of Login and SignUp under way), `MaxWrites` (pending
  preference writes); `torn` counts deaths up to 2.

## Runs

| Run | Instance | Question and result |
|---|---|---|
| `cart` | 3 objects of 2 products, quantities to 2, 3 pending writes, 2 Details pages | types; disk follows memory through crashes (`DiskFollows`); an idle Cart tab shows the box (`CartShowsBox`); two rows of a product only after a tap on a page whose own add is pending or that is behind (`RowPerProduct`); a removed row leaves the screen (`RemovedRowLeaves`). All hold. |
| `checkout` | 1 object, quantities to 2, 1 Details page, 1 attempt, balance to 2 | types (amounts never negative); capture before order; one order per tap; the shares add up unless the balance was read anew in between; the spinner; the total is the price of the lines; clear() takes what the order bought or what the user touched meanwhile. All hold. |
| `overlap` | 1 row of quantity 2, 2 attempts, balance to 2, `OverlapSpec` | `FundedOrders` (refinement of `Funding`) and the liveness property `CaptureIsPursued` while attempts overlap. Hold. |
| `session` | 2 users | types; with no write pending the device holds the session the app has (`SessionSurvives`); token and id, in the app and on the device, are of one user (`SameUser`); the wallet shown is that user's, up to the reads under way when the user changed and what a second login leaves (`WalletIsUsers`). All hold. |
| `wishlist` | 2 products, 3 wishes, 2 pending writes, 2 Details pages, 2 `getProduct` calls | types; the box is a write-behind store (`WishesWriteBehind`, refinement of `WriteBehind`); the heart of each page tells the truth once its own writes are done, unless it is behind or its wish was dropped (`HeartIsTrue`); a product is wished twice only from a page whose own add is pending or that is behind (`WishedOnce`); a late answer never removes an older wish than the tapped one, and a newer one only when rows up to the tapped one have left (`LateAnswersGoForward`). All hold. |
| `catalogue` | Shelves: pages of 2, 5 categories, 5 products, 2 requests per page. Listing: 1 category, pages of 2, 3 requests; queries with no product, a part of a page, one page, and two and a half | types, with the index of a page; the categories are the first of the shop, each once, and the latest releases one page (`ShelvesWhole`); `ListOfQuery`; no second page without the first, and the first there when all is answered (`NothingMissing`); spinners only while their answer is to come or after their own request threw. All hold, with the exceptions their definitions name. |
| `paying` | Currency: 2 tables of rates, 4 currencies, 3 sums, 2 balances, 2 reads. Purchases: 2 orders, 2 reads, 2 refunds | types (PayPal is asked for a sum, a page of an order never shows null); what PayPal is asked for (`AskedIsRight`); whose details are shown (`DetailsOfOrder`); no second refund request for what is known to be requested (`NoSecondRefund`); the buttons (`RefundButtons`). All hold. |
| `waiting` | Search: 2 words, 1 category, 2 searches. Reviews: 2 products, one with a page and a half, 2 reads, 1 rating of each. Banners: 2 banners, 1 change, 2 listeners, 3 products. SignIn: 2 requests | types; `LastQueryShown`; a rating is read back, and nothing from before it stays (`RatingReadBack`); `BannersOnce`; late pops leave the tabs alone (`TabsStay`); a spinner stands for one request under way (`OneRequestPerSpinner`); every wait ends (`WaitsEnd`, liveness). All hold, with the exceptions their definitions name. |
| `unpaid` | as `overlap`, 1 attempt | `OrdersArePaid` is **violated**: see Findings. |
| `session_orders` | as `session` | `OrdersByUser` is **violated**: see Findings. |
| `reviews_of` | Reviews as in `waiting` | `ReviewsOfProduct` is **violated**: see Findings. |
| `currency_no_rates` | Currency as in `paying` | `AskedIsWorthShown` is **violated**: see Findings. |

`MCCatalogue`, `MCPaying` and `MCWaiting` check several components in one run. The
components have no list, flag or request in common, so each behaviour is of one of them (the
variable `part`) while the others rest at their initial states. Nothing is lost: a behaviour of
all of them together is an interleaving of one of each, steps of another component stutter for it, and
each conjunct of a property speaks of the variables of one component. What two of them see of the same
thing, such as HOME being on the screen, each has for itself and without any restriction by the
others.

Why the bounds suffice: overlap needs two attempts and no more, since attempts share
only `orderPlace`, the wallet and the routes; two objects of one product and one of another
give both duplicates and independence; quantity 2 distinguishes minus from delete and 1 from "the
quantity"; two pending writes give every order of two taps; two requests of a kind give one that
is overtaken or finds its page gone; two orders, products or users give somebody else's answer;
two listeners double the banners as any more would; balances below, at and above
the total of one row give every branch of PAY; two Details pages give one above another of its product
and of a different one, and a third adds only another page that is behind. The checkout runs have one Details
page, since no property of the checkout speaks of `inCart` and CHECKOUT is on the Cart tab, with no such page above. `OverlapSpec` starts with one row in the cart
and leaves out browsing and restart, which the `checkout` run covers for one attempt.
All runs check that some step is always possible.

Fairness. `CartSpec`: weak fairness of `WriteDone`, since Hive finishes a write
it started. `Spec`: the same for `Hive`, and for every attempt weak fairness of
"the request is served" and "the answer's handler runs", which is what the event loop and a
server that answers give; `Throws` and `Restart` may always come first and
the liveness property makes exceptions for them. `Search`, `Reviews`, `Banners` and
`SignIn`: every request ends, with an answer or with an exception, and Firestore calls its
listeners; `Reviews` says it once for reads and once for what `createRating` waits for, since reads
asked for again and again must not starve it. `Purchases`, `Currency`, `Shelves`, `Listing`, `Session` and `Wishlist`
are checked for safety only. Nothing is assumed of the user: no
fairness for taps, approval, navigation or the end of a transition.

### Findings

* `unpaid`: `reduceWalletAmount` (`wallet_provider.dart:53`) prints the answer of
  `reduce_wallet` and completes whatever it says, and the handler goes on to
  `createOrder`, which posts `"set_paid": true` (`woocommerce_provider.dart:500`). The
  comment above the method documents an answer `"response": true` (lines 40-41). When the wallet refuses, for
  example because the balance the app remembers is old, the order is
  marked paid and nothing was taken.
* `session_orders`: `logout` (`woocommerce_provider.dart:350`) clears token, email, name and id
  but not `orderList`, under the comment `///GET ORDER BY USER` (line 553). The next user who
  opens MY PURCHASES, "Check your purchase list" (`profile.dart:245-246`), sees the orders of the one
  before until the new ones have come, and goes on seeing them when the request fails.

* `reviews_of`: `getReview` appends to `reviewModelAll` (`woocommerce_provider.dart:410`),
  which all pages of reviews share and only a new rating empties, under the comment `///GET RATINGS AND
  REVIEWS` (line 386); the page is headed by the product's name (`rating_and_reviews.dart:136`) and its
  number of reviews (line 180). Whoever opens the reviews of a second product sees those of the first
  above them.
* `currency_no_rates`: without a table of rates `getConvertedRate` returns the sum in
  riyals unchanged (`currency_converter_provider.dart:31`), also when PAY asks for dollars. The page
  heads the number "Amount to be Paid" and names the currency (`payment.dart:77, 86`),
  `paypal_view.dart:27-32` says `"currency": "USD"`. When `getRates` has failed, which shows no toast, 100 riyals
  are charged as 100 dollars.

### Observed, and allowed by the properties

The models contain the following behaviours; the code promises nothing else, so
no property forbids them.

* A product added while `clear()` is pending vanishes from memory but can be
  back on disk after a restart, because its record is written behind the truncation.
* After an order, going Back shows a Cart tab with the old rows; CHECKOUT works on
  them again.
* A pop within the exit transition takes the Payment page away; the order is then
  placed unseen and `orderPlace` stays TRUE until another Payment page opens.
* A second Payment page resets `orderPlace` while the first attempt is posting.
* The remembered balance is not refreshed by `reduce_wallet`.
* Money captured by PayPal is lost to the order when a later request throws or the
  process dies: nothing is persisted in between.
* Two Details pages of one product can lie above each other, after two taps on banners or rows whose answers come
  late. What is added or wished on the upper one is unknown to the lower one, which then adds a second row or a second
  wish at one tap, with nothing pending: `RowPerProduct` and `WishedOnce` except these pages (`behind`), and say that there is no
  other way but the second tap during a pending add.
* Wish list: when a row above was deleted while `getProduct` was under way, the answer "no such
  product" removes whatever wish has moved to the index, which is a newer one than the tapped one; so does any
  other error answer with "data", which need not be a 404. A page above whose heart is red for that wish does not learn of it.
* Session: after a second login over the first, without a logout, the wallet of the first user stays on show
  until the new one is read; when that read fails it stays for good. A wallet read that was under way at a logout shows
  the wallet of the user who left.
* `productsAll` holds the first page twice when both requests for it are answered, and the page after it
  is then skipped.
* A product list never gets beyond its second page: the index is computed from the last page alone.
* A Filter page that is closed while it waits pops ProductList too when the answer comes
  during its transition.
* A category picked on the Filter page and not applied is asked for by the next scroll.
* A pop that comes late may take the last page and leave a blank screen: from a Filter page, a
  refund request or a login whose page was left within its transition.
* Search: a filter searches for the empty word while the text field keeps its text; what was found stays
  when the tab is left and opened with an empty field; an answer that overtakes a later one (`swapped`) leaves the
  results of an older query.
* Reviews: SUBMIT while nobody is signed in spins until the app is started anew, in the sheets of all products;
  so does one whose request threw. The next page is never asked for with exactly ten reviews in the list.
* Purchases: the two buttons send a request each; a refused one frees both; when a request threw, or its page was
  left before its answer, its button spins on the pages of all orders until another request ends.
* Currency: picking a currency whose rate is not fetched makes Payment fail; a small sum rounds to 0.00;
  new rates between the page and PAY make the two sums differ.
* Banners: HOME built anew before the first snapshot shows every banner twice from then on; a tap on
  another banner frees the one that waits, and the answers push two Details pages.
* SignIn: the pop after a login takes SignUp, with what was typed there, when it lies above Login;
  a registration whose request threw spins until the page is opened anew.

## Proofs

The theorems hold for all values of the constants, under the named assumption of each component
(finite, disjoint sets of names; bounds that are numbers, positive where a request must fit). Where a run
puts components side by side, the theorem is stated for the composition, and also for the component by
itself when the property speaks of one of them only. Each property, and each inductive invariant, was
checked by TLC on a small instance before it was proved; all safety invariants and action properties of the
runs that hold are now theorems.

The shape is the same everywhere. The property is not inductive, since it speaks of the screens and not of
what is under way; an invariant adds what each pending write, request or page will do to it. A lemma per
action shows that the invariant is kept, usually by way of a few lemmas on the effects that several actions
share (one more request, one answered, a page popped). Then `Init`, the steps and the property follow, and
the last step of each theorem combines them.

`CartProofs` (under `CartAssumption`):

* `CartTypes`: `CartTypeOK` is inductive by itself.
* `DiskAlwaysFollows`: `DiskFollows` speaks only about rows
  without pending writes: when the last write of a row
  finishes, nothing says that it wrote what memory holds. `DiskInv` adds
  `LastSettles`: the last pending write about a row carries the row's present
  quantity, or is a delete when the row is out of the box. Every tap appends a write that settles its row
  (`AppendSettles`), the oldest write either is the last of its row or
  leaves the last one in the queue (`WriteDoneSettles`), and losing listeners changes
  nothing (`OrphanedSettles`).
* `TabAlwaysShows`: `ShownInv`: while the tab is open every pending callback is a `getCart`, and the tab
  differs from the box only while the last of them is to come. `CartShowsBox` alone does not say what a
  callback that is still to come will do.
* `RowsAreUnique`: two rows of a product may come from a restart in the middle of the queue, so
  `OnePerProduct` says it of what each prefix of the queue would leave on disk (`Kept`); the box is what
  the whole queue leaves (`BoxIsKept`), and a page offers ADD TO CART of a product in the box only while
  its own add is pending or when it is behind (`Stopped`). A page with another of its product above it is
  behind (`Shaded`), so what happens on the upper page cannot surprise a lower one that is not. The theorem
  holds for stacks of any height.
* `TotalType`, a lemma: the sum over the rows is a number. The community modules' fold is unfolded to a
  recursive function, which exists since the sums of all sets of up to n rows do, for every n.

`CheckoutProofs` (any attempts, prices and balances):

* `FundInvariant`: `FundInv` says for each attempt how phase, kind,
  capture and number of orders fit together (`ProgressOK`): before `post` is
  served there is no order; the phases after a successful execution imply the capture
  when the kind is one of PayPal's. The properties do not mention the phase and are
  not inductive without it. Pops can end attempts in steps of
  others; `EndingKeeps` and `OneMoves` deal with that once for all actions.
* `OrdersCaptured`, `OneOrder`: consequences of `FundInv`.
* `ImplementsFunding`: `Spec => FundedOrders`. The mapping takes `paypal` to the attempts
  whose kind is one of PayPal's. Pushing the WebView is `Ask`, a successful execution is `Capture`, a 201 is
  `Order`; every other step stutters.
* `CheckoutTypes`: no amount is negative. The mixed payment is where it could happen: `AmountsInv` says that a
  WebView opens only with a balance that was read.
* `SpinnerCovers`: `SpinnerWhilePaying` for one attempt (`\A a, b \in Attempt : a = b`). The flag `orderPlace` is
  shared, and with two attempts the page of the second resets it while the first is paid: the
  assumption is what the property is true of, and what the `checkout` run checks. `RoutesInv` adds
  where pages lie on the stack.
* `SharesAddUp`: `SplitInv` says what each phase of a mixed payment has fixed: first PayPal's share, then
  the wallet's.
* `ChargesMatch`: `SumInv` follows the total from the bill to the job of an attempt to the lines that are
  posted; `Steady` names when no step of the user comes between.
* `ClearsTheOrdered` (an action property): `CoverInv` says that each bill, job and order lists what is in the
  box, or what was touched since, and that a clear is pending only behind such an order.

`SessionProofs` (any users):

* `SessionAlwaysSurvives`: `SessionSurvives` speaks of an empty
  queue only. `PairInv` adds what the last two pending writes hold: they are the token and the id the
  fields have, and as soon as one of the two is no longer pending, the device has it.
* `SessionTypes`, and `WalletStaysUsers`: `ReadsInv` adds that whoever's wallet is asked for is signed in, or
  among the strays; the wallet on show is then the user's, a stray's, or the one that a second login left (`kept`).
* `SessionIsOnes`: a death between two writes mixes two sessions, so `SameUser` depends on what the whole queue
  would leave. `Pairs`: the writes come in pairs of one user; `Untorn`: whatever prefix is done, token and id
  on the device agree, or one of the two is missing; after one such death that still holds of the fields.

`WishlistProofs`:

* `WishTypes`, `AnswersGoForward` (an action property): `WishInv` is the common ground of the others. Every wish
  anywhere has been made (`Created`), in the order of the keys (`Segment`); what came into the list or the box after a
  row was tapped is newer than all rows of then (`Newer`); without Favourites no answer is waited for
  (`Closed`); a page with another of its product above it is behind (`Shaded`); a red heart points at a wish of its product (`Hearted`). That an index
  moves to a newer wish only, and only when a row up to it has left, is then a matter of counting: a set of which
  everything new is larger than the rest has as its k-th element one at least as large, and the same one when
  the first k are still there.
* `HeartStaysTrue`, `WishedOnlyOnce`: as for the cart, the second by what each prefix of the queue leaves
  (`Kept`, `Stopped`, together `OnceInv`). Both hold for stacks of any height.
* `ImplementsStore`: `Spec => WishesWriteBehind`, step by step: a toggle or a delete is `Call`, the end of a
  write `Flush`, a restart `Crash`, the rest stutters. `WishesSurvive` carries `StoreDurable` over: a wish
  without a pending write survives a crash.

`WriteBehindProofs`:

* `StoreDurable`: a key without a pending write is on the device
  as the app reads it. `Durable` is not inductive: when the last write of a key is done, nothing says
  that it carried the value in memory. `StoreInv` adds `Heading`, which says just that of the last
  pending write of each key.

`PayingProofs` (`Purchases` and `Currency`):

* `PayingTypes`: the page of an order has an order and Payment a total; neither is in the types.
* `AsksRight`: `ShownInv`: the number on the page is the total at the present rates unless a table came since.
* `DetailsStayTheirs`: `DetailsInv`: what is under way is of the order on screen or among the strays.
* `ButtonsStayTrue`: `ButtonsInv`: who has a request under way has its flag, as long as no flag was reset for another;
  a flag without a request is of a button that lost one since the last reset.
* `RefundedOnlyOnce` (an action property): `KnownInv`: what the app was told the server has, and on a page opened
  anew every read began after that, so the details, once there, say so.

`CatalogueProofs` (`Listing` and `Shelves`):

* `CatalogueTypes`, `ListsAreOfQuery`, `NothingIsMissing`: what is under way is of the query too (`QueryInv`);
  who asks for the second page has the first, and the first is there, empty, to come, or one that threw (`FirstInv`).
  The exceptions are in the statements: queries under way when the list was emptied (`strays`), a category that is
  picked and not applied, a first page that threw since ProductList was opened.
* `ShelvesStayWhole`: `CategoriesInv`: the list is 1 to n, with n a multiple of the page or the end, and what is
  under way begins at n or before. `CollectIs`: removing repeats from such a page leaves a list without
  gaps. `ReleasesInv` says that before the first answer only the first page was asked for.
* `SpinnersWait`: each flag by itself, with the request that ends it, or with one of its own that threw.

`WaitingProofs` (`Search`, `Reviews`, `Banners` and `SignIn`):

* `WaitingTypes`: the types, with two facts that take counting. The list of banners is no longer than listeners
  times versions (`ListBound`): each entry came from a listener at a version it came to once
  (`ComeFrom`). The pages of reviews in the list and under way stay within the bound and one more (`BoundInv`):
  only a rating asks beyond it.
* `LastIsShown`: `RecentInv`: the youngest search under way, or the list when there is none, is of the query asked
  last, and each search under way is of that query or of one that was under way when it was asked.
* `RatingsAreReadBack`: `ReadInv`: the read that follows a rating asks for the first page, after the server has
  stored the rating, and whatever is under way counts as asked for.
* `BannersShowOnce`: with one listener, `ComeFrom` leaves no version twice in the list.
* `TabsAlwaysStay`: `FormsInv`: late pops find a page only while it slides out.
* `OneRequestEach`: `OneInv` (a rating is sent or read back, once, and `creatingLoad` says so), `WaitInv` (the
  same for both forms), `TapsInv` (one product under way or open, that of the banner with the spinner). The
  number of products opened by taps is a sum over the banners, and steps change one summand (`SumChanges`).

What the prover cannot do, and how far that was avoided. An induction principle cannot be cited, since those of
the library take an operator as a parameter. Where a definition recurs over a number or a finite set it was
possible to argue by a least counterexample instead (`Least`, `SubsetInduction`, from the
well-foundedness of the numbers): so were proved the sums of `Cart`, `Banners` and `Reviews` and the
removal of repeats in `Shelves`. Liveness and ENABLED are out of reach.

Only model-checked, therefore: the liveness properties `RemovedRowLeaves`, `CaptureIsPursued` and `WaitsEnd`;
`SpinnerWhilePaying` when attempts overlap is not claimed at all.

## Plan

Done, in this order:

1. `Cart` and `CartProofs`.
2. `Checkout` over `Cart`, `Funding`, runs with one and two attempts.
3. `CheckoutProofs`: capture before order, one order per tap, refinement.
4. `Session` and `SessionProofs`: whose data the app shows after logout, login and restart.
5. `Wishlist`: delete by index across awaits and pending writes.
6. `Shelves` and `Listing`: paging and filter.

7. `Search`: a request per keystroke, answers that overtake each other, the Filter page above it.
8. `Reviews` and `Purchases`: loading flags under exceptions and pages that are gone, answers for
   another product or order, the refund request; liveness of the spinners.
9. `Currency`: amounts converted before, after and without rates; `Banners`; `SignIn`.
10. `WriteBehind` and its proof, implemented by `Wishlist`.

11. Proofs of the safety invariants, of the action properties and of both refinements, component by
    component: `CartProofs`, `CheckoutProofs`, `SessionProofs`, `WishlistProofs`, `PayingProofs`,
    `CatalogueProofs`, `WaitingProofs`.

Left:

12. `SpinnerWhilePaying` for several attempts: the statement needs a history of the attempts that
    lost the shared flag to another page.
13. The safety parts under the liveness properties: that nothing but the answer or an exception ends what
    `WaitsEnd` waits for.
14. The popular products, the best sellers and `short` (order of a list).

## Not modelled

* Static screens (password, contact, about, notifications): text fields and layout, no state that
  others read, nothing is sent.
* Braintree, `paypal_provider.dart`, `paypal_payment.dart` and `best_selling_products_provider.dart`:
  referenced from commented-out code or from nowhere.
* Models, widgets and styles: JSON mapping and layout, no control.
* `ios`, `android`, `build`, assets: generated or vendored. `ios/Pods` alone is far longer than the
  program (gRPC, BoringSSL, Firestore), but it is the code of others that CocoaPods copied; the program
  meets it only as the plugins the models call Firestore, Hive and the HTTP client. A count of
  lines over the whole tree is therefore no measure of what is modelled of `src/lib`.
