# A verification project for simshop

simshop is a small shop: a Go HTTP backend (`backend/`, Postgres or SQLite
through `database/sql`) and a Flutter client (`lib/`), which is at once the
public storefront and, behind a sign-in with an Ed25519 key file, the admin
tool. This directory holds TLA+ modules that model the parts of it whose
correctness depends on order, overlap and failure, TLC runs that check them on
small instances, and TLAPS proofs of the most important results for all values
of the constants.

Paths below are relative to the repository (`src/` of `PROJECT.json`).

| File | What it is |
|---|---|
| `AdminAccess.tla` | abstract sign-in: what the server promises |
| `AdminAuth.tla`, `.cfg` | challenge / verify / session store, middleware, sweep |
| `AdminAuth_proofs.tla` | its inductive invariant, safety theorems, refinement |
| `AdminClient.tla`, `.cfg` | the app's side of the session, composed with `AdminAccess` |
| `Catalog.tla`, `Catalog*.cfg` | products, galleries, upload files, article/event references |
| `Catalog_proofs.tla` | which promises hold next to how many admins, as theorems |
| `GalleryEdit.tla`, `.cfg` | the edit dialog's gallery while pictures upload |
| `StockSync.tla`, `MCStockSync.tla`, `StockSync.cfg` | the admin list against the server's rows |
| `Lists.tla` | entries picked from a list, as those two need it |
| `AdminApp_proofs.tla` | theorems about the admin's app: its session, the gallery, the list |
| `ConnPool.tla`, `.cfg` | request handlers sharing the database connections |
| `ConnPool_proofs.tla` | its inductive invariant, no leak, no starvation |
| `Media.tla`, `MCMedia.tla`, `Media.cfg` | banners, covers and the store's picture: forms, rows, files |
| `Media_proofs.tla` | no row loses its picture but by a stale save; every leak has a name |
| `RateLimiter.tla`, `.cfg` | the token buckets and their sweep |
| `RateLimiter_proofs.tla` | the bound on every window, Retry-After, the table drains |
| `PriceList.tla`, `MCPriceList.tla`, `PriceList.cfg` | lists and products as priced by events |
| `PriceList_proofs.tla` | quotes are the best of some moment, nothing expired discounts, pages add up |
| `Categories.tla` | the two levels of categories on the server |
| `Storefront.tla`, `MCStorefront.tla`, `Storefront.cfg` | the home page over `Categories` |
| `Storefront_proofs.tla` | theorems about the page and the categories |

Check one with `tlc -workers 2 -config AdminAuth.cfg AdminAuth`; prove one with
`tlapm AdminAuth_proofs.tla`. A module with an `MC` form is checked by that root.

## 1. The system

### Components, their state and their operations

**Admin sign-in, server** (`backend/internal/handler/admin_auth.go`,
`middleware/admin_auth.go`). State: two maps under one RWMutex, `challenges`
(nonce → expiry) and `sessions` (token → expiry), each with a cap. Operations:
`POST challenge` draws a nonce; `POST verify` consumes it, checks an Ed25519
signature and issues a token; `POST logout` revokes; `RequireAdminSession` looks
the token of every admin write up; a ticker goroutine sweeps expired entries in
two passes (read lock, then write lock). Nothing is persisted: a restart empties
both maps. Correct when: a nonce buys at most one session; no session without a
signature; a token that ended never works again; caps hold; nobody's valid entry
is swept; a full table makes room again.

**Admin session, client** (`lib/services/admin_auth_service.dart`,
`_http_with_admin_token.dart`, `viewmodels/admin_auth_viewmodel.dart`,
`views/admin/admin_auth_gate.dart`, `admin_shell.dart`). State: the token in
SharedPreferences, the gate or shell on screen, `adminSessionExpired` in four
view models that live as long as the app. Operations: open the gate, sign in
(challenge, sign, verify, store), send a write with the stored token, handle its
401 by dropping the token and raising a flag, go back to the gate on a flag.
Correct when: a dead token is not sent again; a good one is not lost; a 401 leads
to the gate exactly once.

**Product repository and handlers** (`db/product_repo.go`,
`handler/handler.go`). State: `products`, `product_images`, `product_options`.
Operations: list with filters, get, create (transaction), update (transaction
that replaces every image and option row, then deletes dropped files), stock
PATCH, delete (six statements, no transaction), upload. Correct when galleries
list files that exist, deletes leave nothing behind, and references resolve.

**Uploads directory** (`uploadfs/uploadfs.go`). Files under `/uploads`, written
by the upload handler, deleted by URL when a gallery, cover, banner or store
image drops them. Shared by all repositories; not covered by any transaction.

**Articles, events, banners, store info** (`db/article_repo.go`,
`event_repo.go`, `store_repo.go` and their handlers). Rows with a JSON column
`product_ids` that no foreign key covers; event rows discount the products they
list. Correct when the ids resolve and replaced media go exactly once.

**Admin product list and stepper** (`viewmodels/admin_viewmodel.dart`,
`views/admin/admin_product/`). State: `_products`, its filtered copy, `_error`;
per row position a `_busy` flag. Operations: optimistic stock taps, edits,
additions, deletes, reloads; each is an HTTP call with an await in the middle. Correct when
the list equals the server's rows once all calls are answered.

**Edit/add product dialogs** (`edit_product_dialog.dart`,
`add_product_dialog.dart`, `widgets/options_editor_with_images.dart`). State:
gallery, removed urls, options; `_submit` uploads new pictures one await at a
time. Correct when what is stored is what is shown.

**Database connection** (`db/db.go`, `dialect.go`, `schema.go`). A pool of at
most `DB_MAX_OPEN_CONNS` connections shared by all handlers; no call carries a
context. Correct when none leaks and requests do not wait for each other for ever.

**Banner, cover and store picture forms** (`views/admin/admin_articles/`,
`views/admin/admin_settings/site_config_section.dart`). State: the picture shown,
the file chosen, the picture cleared. Saving uploads the file, then sends the row
with the picture it replaces; the server deletes that one after its statement.
Correct when no row loses its file and a save leaves no file behind.

**Rate limiter** (`middleware/ratelimit.go`). State: a bucket per client address
under a mutex. Operations: allow or refuse a request, sweep silent addresses every
five minutes. Correct when no sender exceeds rate and burst in any window, refused
ones are told the truth, and the table does not grow for good.

**Event pricing** (`handler/event_handler.go`, `models/event.go`). No state of its
own: each answer to a list or product request decorates rows with the best of the
events active at one clock reading. Correct when the price shown is one the shop
meant at some moment of the request.

**Categories** (`db/product_repo.go`, `handler/handler.go`). State: two tables, a
sub-category pointing to its Large category or to none. Operations: add and delete
either; adding a sub-category looks its Large up, creates it, looks again and
inserts. Correct when nothing dangles and a category stands where it was filed.

**Home page** (`viewmodels/home_viewmodel.dart`, `views/home_screen.dart`). State:
products, their filtered copy, both lists of categories, the Large and the pills
picked. Operations: taps on chips and pills, loads of three requests each, which
may overlap. Correct when the grid is what the pills say.

**CORS, router, configuration, server lifecycle, product detail, widgets,
command-line tools**: see section 7.

### How they interact

The client calls the backend over HTTP and keeps the token the server granted;
handlers share the pool, the tables and the uploads directory; `Delete` of a
product rewrites rows of articles and events; the shell watches four view models;
the list and the dialogs share `_products` through `AdminViewModel`; the picture
forms share the uploads directory with the gallery; the home page reads the
products and categories that admins change; events price the products of a list.

### What is hard here

* Goroutines interleave at every unlock and every SQL statement; the product
  delete is not a transaction, the file system never is.
* The client's handlers are cut at every `await`, and gestures, answers and
  rebuilds come in between; indices and tokens read before are used after.
* Answers can be lost, be late, or arrive when the screen is gone.
* The process can be killed between any two statements; sessions are in memory.
* Several statements make one operation with no transaction around them: a delete,
  a list with its count, its prices, a category with its Large one.
* Resources with a cap: sessions, challenges, connections, buckets.

`PROJECT.json` lists each such hazard at its line, with the property aimed at it.

## 2. The modules and the code

### AdminAccess and AdminAuth

`AdminAccess` is the abstract sign-in: nonces are offered, signed, traded for a
token or withdrawn; tokens are live, then ended, for good. No clock, no requests.

`AdminAuth` is the code. `challenges` and `sessions` are the two maps; time is
the number of ticks LEFT to each expiry (positive: `Before`, zero: equal,
negative: `After`), so `Expired` and `Live` keep the code's strict comparisons
and time never runs out. A verify request is split where the code is not under
the mutex: `ConsumeChallenge` (takes the nonce out, good or not), `RejectProof`
or `MintToken` (signature check, draw, expiry computed before the lock),
`StoreSession` (cap and insert). A write is `LookupSession` (reads the expiry
under the read lock), `AdmitWrite` (compares with the clock after unlocking),
`FinishWrite`. `CollectExpired` / `DeleteCollected` are the two passes of
`runCleanupOnce`. `Tick` is the clock, `Restart` loses the maps and every request
in flight. `drawn`, `signed`, `grants` are history. A server without
`ADMIN_PUBLIC_KEY` lets writes through by configuration and is not modelled.

### AdminClient

One running copy of the app, composed with `Server == INSTANCE AdminAccess`, so
every server step is one of the abstract module's and what `AdminAuth` refines is
what the client is checked against. `stored` is the token, `screen` the top of
the navigation stack, `signIn` the awaits of `authenticateWithSecretKey` together
with whether its gate is still mounted, `write` the calls in flight, `flagged`
the view models whose flag is set. Four kinds of write differ in who hears of a
401 (`Reporters`): product saves (flag reset at the start of the next save),
stock and category writes, the three content view models, and deletes and uploads,
whose callers swallow the exception. Simplifications: `_redirecting` and the
post-frame callback are one `Redirect` step (the shell that scheduled it may leave
before, which disables it, as `mounted` does); a nonce never lapses, as every
sign-in may fail anyway; a popped shell is unmounted at
once; handlers make one call; `Lapse` ends sessions at any time; sessions granted
to an answer that got lost count as ended by a later `Lapse`.
The client's `logout` is not modelled: nothing in the app calls it.

### Catalog

Rows, image rows (options' images are urls of the gallery and add nothing the
properties tell apart), references of articles and events, files. Each admin has
one form or request at a time. `BeginUpdate` is the transaction with all its
statements, `CleanRemoved` the file clean-up at the end of the body, `Commit` or
`FailCommit` the deferred function, in that order, which is the code's.
`SnapshotImages`, `DropImages`, `ScanArticles`, `ScrubRow`, `EndScrub`,
`ScanEvents`, `DropRow`, `CleanFiles` are the statements of `Delete`; `FailDelete`
is an error or a crash between any two. `Faults` says what may go wrong in a run:
`"upload"`, `"statement"`, `"commit"`, and `"sqlite"`, which stands for a
connection without `PRAGMA foreign_keys` (the code sends the pragma once, and it
holds for one connection of the pool) and for SQLite's single writer. On
Postgres `RowFree` is the row lock an Update holds to its end. `product_ids` is a
set (the handlers' caps on its length are left out); article and event saves are
single statements; file names never repeat, as `saveFile` builds them. `home` is
history: the product whose gallery first listed an upload.

### GalleryEdit

`_submit` of the edit dialog as a loop over a Dart list that the admin can change
under it. The slots are laid out at the first step; each `Uploaded` looks the slot
up in the gallery of that moment and moves the iterator, which throws when the
list changed its length (`moveNext` checks it), ending `_submit` without a PUT.
`During` lists the gestures made while pictures upload: `"remove"` in the run;
`"reorder"`, and `"pick"` with `"remove"`, break `SavedAsShown` (sections 5, 6).
A picture and the url it gets are one value. `Where` (of `Lists`) is Dart's `where`,
which `cleanOrder` is made with.

### StockSync

Tabs (copies of the app) and the rows of the server. `Tap`, `SaveEdit`, `Add`,
`Delete`, `Reload` are the handlers up to their await; `Serve` is the server's write
with the re-read that makes the answer; `Refuse` an error before it; `Succeed`,
`FailTap`, `FailOther` what the handler does after its await. `Repaint` is
`notifyListeners` and the rebuild: `ListView.builder` gives tiles no keys, so
`busy` belongs to a position, `didUpdateWidget` clears it where the product
changed, and the error view disposes every stepper. The patch remembers the index
and the row it replaced, which `FailTap` writes back. No filter is set, so the
filtered copy is the list; the two category loads of `initialize` are folded into
it.

`addProduct` puts the new row at the end of the list, while the server orders by id,
and ids are random UUIDs: `fresh` are those not drawn yet, and `Add` takes any of
them. So an order is no property of the list, and `SettledShowsServer` compares rows,
not positions. `Listed` is the first page of the endpoint (`ListPage` rows, 20 in the
code), the only one the app asks for. `doubt` is history: the products whose last
answer was lost or that had no place on the page, until a reload.

`Overlap` says which calls an admin waits for. `"none"`: the calls on a product before
acting on it again, loads and deletes before anything, and all calls before a delete, a
reload, scrolling, or a save or add over the error view (which brings the list back
with steppers that know of no call). `"rows"`: the calls on the product and loads, so
that rows are deleted above and added below one whose call is in flight; a reload waits
for all. `"any"`: none. `Failing` are the kinds of calls that may be refused or lose
their answer.

`Lists` has what `GalleryEdit` and `StockSync` do with lists: `Picked` takes the
entries at some places, in order, and `Where` those that pass a test. The library's
`SelectSeq` and `SetToSortSeq` return the same, but nothing can be proved about them.

### ConnPool

Every request is at a statement, waiting for a connection or running on it.
`GetAllFiltered` keeps one connection under its open rows (`open`) while it takes
a second for the images and a third time for the options of each product; all
other handlers take one connection at a time (a transaction is one long
statement). `BadRow` is the early `return` at a row that cannot be decoded, with
the deferred `Close`. An iteration error ends the loop early, unnoticed, as
`rows.Err` is never read.

### Media

Rows of `banner_slides`, `articles` and the one of `store_info` show a picture
each; `files` is the disk. A form (`Open`, from any picture its row ever showed, as
lists may be old) uploads (`Upload`, `LoseUpload`), then sends the row
(`SendUploaded`, `SendShown`) with `OldPicture`, the picture it believes it
replaces. `UpdateRow` is the statement together with the decision to delete the old
picture, `CleanUp` or `FailCleanUp` the deletion; `StartDelete` and `DeleteRow` are
the two statements of a delete; `UpdateMissing` and `DeleteMissing` the 404s. The
three forms differ: an article can be saved at any time, a banner not while it
uploads and not without a picture, the settings form not while it saves, and it
stays open (`Answered`). `past`, `lost` and `marred` are history: what a row
showed, files that a named mishap cost, rows whose last save put an out-of-date
picture back. Titles, order, `article_id` with its foreign key, and drafts are left
out; an id or file name is drawn once.

### RateLimiter

`Newcomer`, `Allow` and `Refuse` are the three ways through `Allow`, one step each
as it holds the mutex; `Sweep` is one pass of `cleanup`. Time is counted in ticks
of which one refills one unit and `Cost` of them pay a request, so all is integer;
the code's floats are taken as exact. `Key` is `resolveClientIP`. `watch` is an
observer, not code: it picks a sender and a moment, and its `budget` is what a
bucket full at that moment has still to give. `Lag` bounds how late the ticker's
goroutine runs.

### PriceList

One request at a time, as nothing is kept between them: `CountRows`, `ReadRows`
(or `ReadSomeRows`, where the iteration breaks off and `rows.Err` is not asked),
`ReadProduct`, `Decorate` (reads the clock), `PriceOne` per product or
`PriceWithoutEvents`, `Answer` or `Refuse`. In between admins change prices
(`SetPrice`, `DropProduct`) and events (`ValidateEvent` and later `StoreEvent` or
`RejectEvent`, `DeleteEvent`) and the clock moves. `PagesFor` is `ORDER BY`,
`LIMIT` and `OFFSET`: a set, as rows of one price come in any order. The filters
are stood for by the least price, the six orders by the two kinds there are: with
unique and with repeated keys. Prices are whole numbers of which percents are
exact; an event without an end cannot be stored by the code and is left out.
`right` and `moved` are history of the request in flight.

### Categories and Storefront

`Categories` is the server: `CreateCategory` (the handler up to its first
statement), `FindLarge`, `CreateLarge`, `FindLargeAgain`, then `InsertCategory` or
`KeepCategory` (the insert that finds the name taken does nothing), `FailAdding`
at any of them. A request in progress holds the id of a Large category, which a
delete may make point to nothing (`"gone"`); ids are not reused on either
database. `ForeignKeys` says whether every connection enforces them, as on Postgres.
The code sends SQLite's pragma to one connection of the pool (`db.go:60`): on the
others a delete may leave the ids that pointed to the row (`Dangling`), and an insert
of a `"gone"` id succeeds, so with `ForeignKeys = FALSE` both happen or do not.
`WithParent` is what the endpoint makes of such an id: no Large.

`Storefront` extends it with the page. A load is three requests (`Open` sends two
and `OpenFurther`, one frame later, the third; `Refresh` all); `ServeList` is the
server reading, `TakeProducts` … `FailSubs` what the view model does when an answer
is there. `Filtered` is `_applyFilters`, which the code calls by hand after each of
these and after each tap; `ShownAfter` is the moment between the answers of one
load when the grid still shows every product. `Lit` are the pills that are picked and
that the row has a chip for (`VisibleSubs`); `PickedUnseen` says that one is picked and
has none any more, as nothing prunes the selection after a load. A list whose rows break off is a
failure here. `quiet` is history: the last load met no write, failure or other load.

## 3. The runs

Every run but the violation is exhaustive for its constants.

| Run | Constants that matter | What it shows |
|---|---|---|
| `sign_in` | 3 nonces, 2 tokens, 2 verify goroutines, 1 write, TTLs 1 and 2, caps 2 and 1 | replay, authentication, caps, resurrection, sweep, drain, refinement of `AdminAccess` |
| `admin_client` | 2 nonces, 2 tokens, 2 writes | dead token never resent, live token kept, no gate loop, a 401 reaches the gate |
| `catalog` | 2 products, 1 article, 1 event, 2 files; an editor and a curator who also deletes; uploads and statements fail | references, galleries and image rows stay consistent |
| `catalog_sole_admin` | the same data, one admin, SQLite, uploads and commits fail | a deleted product leaves no file of its gallery |
| `gallery_edit` | 2 stored, 2 new pictures, removals during uploads | what is sent is what is shown |
| `stock_sync` | 1 tab, 2 of 3 products stocked, stocks 0 and 1, a page of 2, 2 calls in flight; an admin with `Overlap = "none"` whose taps and deletes fail, or one with `"rows"` whose adds fail | the list has the server's rows once settled, answers find their row though others come and go, nothing is listed twice, one step at a time |
| `conn_pool` | 3 lists and another request on 2 connections, pages of 2 | no connection outlives its request, no starvation short of a flood of lists |
| `media` | 1 admin app, a banner, an article, the store; 3 uploads, 4 saves or deletes | no row loses its file but by a stale save; every leak has a name |
| `rate_limit` | a peer and a trusted proxy, burst 2, 10 ticks, sweep every 4, up to 1 late | no window above burst plus refill; Retry-After; the table drains |
| `price_list` | 2 products, 2 prices, 4 kinds of event on 2 ids, 3 writes, 3 seconds | quotes, expiry and pages under writes between any two statements |
| `storefront` | a Large and 2 sub-categories, 1 product, 2 loads, 2 writes, foreign keys | categories filed where asked; the grid follows the pills |
| `catalog_commit` | `"commit"` fails, two admins | **finding**: a listed file is gone |

Why the bounds are enough. *sign_in*: two verify goroutines are needed for a
race and three nonces for one to be pending while two are in flight; the cap of
one session is reached by the second grant; TTLs of 1 and 2 give every entry a
tick at each side of its expiry and make the two tables age differently. The
theorems cover all other values. *admin_client*: two tokens are an old and a
fresh one, two writes a late and a current one. *catalog*: a reference and a
gallery need one product each to go and one to stay; the second article would
only repeat the first one's scrub. *gallery_edit*: two new pictures make the loop
wait twice, two stored ones leave one to be removed before and one after the
iterator. *stock_sync*: two products are needed for a position to be taken over by another row
and for answers to change places, a third to be added before, between or behind them in
the server's order and to fall off its page; two calls overlap. `MCStockSync` has two
admins, since no one admin can be had both ways: where rows move under a tap in flight
its failure must be excluded, as the code's revert then breaks the list (section 6).
*conn_pool*: three lists
on two connections can fill the pool and leave one waiting.

*media*: one app suffices for two forms of different age to meet on a row, as a
form may start from any earlier picture and requests stay in flight after a form is
gone; four requests are two saves, a delete and a late one. *rate_limit*: with a
burst of two a bucket has an inside, and ten ticks let it be emptied, swept late
and filled again. *price_list*: two products make pages of one and ties, two events
a best of several, three writes an event stored, changed and removed in a request.
*storefront*: two loads overlap; two writes put a delete between the statements of
an add; the theorems cover the rest.

Bounds that the code does not have: `Nonces`, `Tokens`, `Verifiers`, `Writers`,
`CallSlots`, `Products`, `Urls`, `Requests`, `PageSize`, `Steps`, `MaxSent`, `Lag`,
`MaxTime`, `MaxEdits`, `MaxWrites`, `MaxLoads`, and `MaxStock`, from which the + button is not tapped. None is used by a property's meaning.

`CHECK_DEADLOCK FALSE` is set for `GalleryEdit` (a sent PUT closes the dialog),
`ConnPool` (all requests answered; the flood of lists that never moves again is
what `NeverStuck` is about), and for `Media`, `RateLimiter` and `Storefront`, which
come to rest when their bounds are used up.

The type invariants of the modules with proofs are proved and, but for `Media`, not
repeated in the runs, and so are `CapsHold`, `OneIntent` and `MovesOnlyToNone`.

### Fairness

* `AdminAuth`: the clock (`Tick`) and the sweep goroutine's two passes. Nothing is
  assumed of clients or logouts. `time.Ticker` and the Go scheduler justify it.
* `AdminClient`: `Redirect`. Flutter draws a frame after `notifyListeners` and
  runs its post-frame callbacks.
* `ConnPool`: each request's goroutine goes on when it can all the time. The pool
  serves waiters in the order they came, and requests are finite here, so a waiter
  is not overtaken for ever; the fairness is only used where some request can move.

The other specifications have safety properties only and assume no fairness.

## 4. The properties

Each is stated above its definition with the code or the comment it is about. In
short: `OneSessionPerNonce`, `EveryWriteIsSigned`, `CapsHold`, `NoResurrection`,
`SweepSparesLive`, `EntriesDrain`, `ImplementsAccess` (sign-in);
`DeadTokenNotResent`, `GoodTokenKept`, `NoGateLoop`, `RefusedReachesGate`
(client); `RefsResolve`, `ListedImagesExist`, `NoStrayImages`,
`DeletedLeavesNoFile` (catalog); `SavedAsShown`, `ListedIsKept`, `OptionsFollow`
(gallery); `SettledShowsServer`, `ListsEachOnce`, `OneStepInFlight`,
`EditsKeepStock` (stock); `NoConnLeaks`, `NeverStuck`, `AnsweredUnlessFlooded`
(pool); `ShownExists`, `LeaksAccounted` (media); `WindowBound`, `RetryAfterHonest`,
`ForgottenInTime` (rate limiter); `BestOfSomeMoment`, `NoExpiredDiscount`,
`PagesAddUp`, `PagesCoverOnce` (prices); `LargeIsThere`, `FiledWhereAsked`,
`MovesOnlyToNone` (categories); `GridMatchesPills`, `APillIsLit`, `OneIntent`,
`RefreshShowsServer` (home page). `EditsKeepStock`
and `APillIsLit` say what the code's comments promise and are in no passing run, as the
code breaks them (section 6). Each property of a passing run has a mutated form of an action next to it (marked "Mutated form")
that breaks it.

## 5. What is proved

`AdminAuth_proofs`, assuming only `ConstantsAssumption` (TTLs positive, caps
natural, nonces and tokens distinct): `TypeCorrect`, `NoReplay`, `Authenticated`,
`RevokedForGood`, `SweepSafe`, `Refinement`, and `Capped`, whose own invariant adds
that the tables are finite. The inductive invariant `IInv` adds to the properties:
`NoncesApart` (a nonce is pending, in flight in one request, or spent, never two
of these: without it two goroutines could hold one nonce), `TokensApart` (a token
about to be stored was granted to nobody), `ProofsGenuine` (a request past the
signature check holds a signed nonce) and `SweepIsStale` (what the first pass
collected is expired or gone at the second: nothing is ever refreshed). The
refinement maps a nonce in flight to "offered" until its request ends, and a token
to "live" while `ValidSession` would accept it; every step then is one of
`Offer`, `Sign`, `Grant`, `Lapse` or a stutter.

`AdminApp_proofs`, the session, assuming only that `None` is no token: `TypeCorrect`,
`DeadStaysDead`, `LoopFree`, `GoodKept`. The first two are not inductive alone:
`RefusedHaveEnded` carries from the server that a refused token has ended, and
`GrantIsFresh` that a token on its way was never stored, sent or refused before.
The server's part is the lemma `ServerStep`, cited by every step.

`AdminApp_proofs`, the gallery, for any number of stored and new pictures:

| Theorem | Property | Needs, of the gestures while pictures upload |
|---|---|---|
| `GalleryTypeCorrect` | `GalleryTypeOK` | nothing |
| `ListedStays` | `ListedIsKept` | not both picking and removing |
| `ShownIsSaved` | `SavedAsShown` | only picking, or only removing |
| `OptionsTrack` | `OptionsFollow` | only picking, or only removing |

TLC breaks each where its condition fails. `GalleryTyped` says that nothing shown is
queued for deletion and that every stored picture is one or the other. The other three
rest on a fact about Dart's iterator: a list that has its old length when an upload
returns has, under these conditions, its old pictures (`SlotsInv`) in their old order
(`UploadInv`, with the slots filled as far as the loop has come, `FilledTo`). So the
slot looked up by value is the one the loop stands at, and the PUT is the gallery.

`AdminApp_proofs`, the product list, for any numbers of products, calls and stocks:

| Theorem | Property | Needs |
|---|---|---|
| `StockTypeCorrect` | `StockTypeOK` | `Orderly` |
| `NoRowTwice` | `ListsEachOnce` | `Orderly` |
| `NoDoubleStep` | `OneStepInFlight` | `Orderly` |
| `SettledIsServer` | `SettledShowsServer` | `Orderly`, one tab |

`Orderly` is what the run assumes of its two admins: either `Overlap = "none"`, with any tabs and any
calls failing; or `Overlap = "rows"` in one tab where taps and deletes do not fail. In
the second case rows are deleted above, and added behind, the row whose call is in
flight, so a write by index would repeat a row; that the code's answers do not is the
point of `NoRowTwice`, and a failing tap is excluded because its revert does (section 6).

The invariant `StockInv` is a typing, `FreshUnused` (no call or row has an id not drawn
yet) and, for each tab, `Tab` and `Present`. `Tab`: the list shows nothing twice and is
busy only where a call says so (`Drawn`), its calls carry rows of their product
(`Shaped`), a product being added is not listed (`Novel`), calls that the admin waits
for are alone (`Exclusive`), a tap's stepper waits where its row is (`Steppers`), no call
is about the product of an open dialog (`Edited`), and only a load is under way behind
an error just cleared (`Cleared`). `Present` says that in one tab a listed product or
a product a call is about is stored unless a delete of it is under way. With one tab,
`Agree` adds what the tab and the server think of each product: they agree unless a call
about it is under way, and then it says how they will (`ListAgrees`, `CallsAgree`,
`LoadAgrees`, `DialogAgrees`). A second tab changes rows behind the first one's
(section 6).

The lemmas on `Lists` (`NthRank`, `NthGrows`, `PickedRows`) say that `Picked` keeps
order and takes every chosen entry once; they take the place of an induction.

`ConnPool_proofs`, assuming finitely many requests and sizes that are natural
numbers: `TypeCorrect`, `NoLeaks`, `Progress`, and `EnoughConnections`: with more
connections than concurrent product lists the pool never runs dry for good, a rule
an operator can configure by. `IInv` adds `Accounting` (the second connection is
open exactly while a list reads its page), `Counting` and `OnlyLists`.

`RateLimiter_proofs`, assuming what the middleware is started with (positive rate and
burst, a bucket that fills up within a sweep period, trusted proxies that are peers):
`TypeCorrect`,
`NoMoreThanTheRate` (in no window, wherever it starts, does a sender pass more than
the burst plus what the rate refills), `RetryAfterOneSecond`, `TableDrains`. The
second is not inductive: the observer's `budget` must cover what the bucket can still
give (`Covered`). That a swept sender comes back to a full burst is harmless because
its bucket had filled up long before, which is `TimeAssumption`. `TableDrains` needs
`Recent`: whoever is in the table was seen since the last sweep but one.

`PriceList_proofs`: `TypeCorrect`, `BestPriceQuoted`, `ExpiredDiscountsNothing`,
`PagesMatchTotal` and `PagesCoverAll`, for every set of products, events and kinds of
event. `CurrentCounts` carries that
the price of this very moment is always among the right ones of a request in flight;
`OpenAtReading` that the events a request holds were active at its clock reading.
A page read to its end is as long as its total says unless a write came in between;
in the order of the ids, whose keys are unique, the pages hold every product once, as a page is the products
whose place, the number of products before them, it covers (`PageByPlace`).
The lemmas `PercentRange`, `ApplyToRange` and `EffectiveIsBest` bound what an event
does to a price.

`Storefront_proofs`: `TypeCorrect`, `NoDanglingLarge` and `NewCategoryFiled` (both
assuming `ForeignKeys`), `CategoriesStay` (the server's side, under any number of
requests), `GridFollowsPills`, `PillAlwaysPicked` and `LoadReplacesAll` (the page, with
foreign keys or without). `CategoriesInv` adds to
`LargeIsThere` that a request holds an id that was issued; `FollowsRule` that the grid
is `Filtered` of what the view model holds now, except between the answers of a load;
`QuietLoad` that a load nothing disturbed will end with the rows of the server.

`Catalog_proofs` says which promise holds next to how many admins, for any products,
files, articles and events, and whatever else `Faults` contains:

| Theorem | Property | Needs |
|---|---|---|
| `TypeCorrect` | `TypeOK` | nothing |
| `NoImageOutlives` | `NoStrayImages` | foreign keys on every connection (no `"sqlite"`) |
| `ReferencesResolve` | `RefsResolve` | one admin for deletes, articles and events |
| `PicturesThere` | `ListedImagesExist` | one product editor, no failing COMMIT |
| `DeletedIsGone` | `DeletedLeavesNoFile` | one admin, no failing statement |

Without the condition TLC breaks each of them (section 6). The strengthenings:
`UpdatesAnchored` (the row lock keeps the product of an Update that lists pictures),
`Scrubbed` (a Delete is past the rows that list its product or holds their new
lists), `AllAtHome` (a picture stays with the product that first listed it, which is
why another product's clean-up cannot take it), `AllBacked` (what the editor is about
to list is on disk) and `AllAccounted` (a picture on disk that was ever listed still is,
or a clean-up in progress names it).

`Media_proofs`: `TypeCorrect`, `PictureKept` (`ShownExists`) and `LeaksNamed`
(`LeaksAccounted`), assuming that ids and names are what they are said to be and with
every mishap at any time. `ShownKept` needs to know that two rows never showed one
file (`PastApart`), that an upload on its way is in one place and in no row's past
(`SendingApart`, `BroughtApart`), and that a form and a request name no other picture
than the one they were opened with (`FormsKnow`, `RequestsKnow`): so no clean-up names
another row's file. `LeaksAccounted` follows from where each file came from (`Origins`)
and what became of it when its row showed it no longer (`PastSettled`).

Each inductive invariant was model-checked before it was proved.

Only model-checked: all liveness (`EntriesDrain`, `RefusedReachesGate`,
`AnsweredUnlessFlooded`; the prover has no fairness and no ENABLED). Every safety
property of the passing runs is a theorem, under the conditions named above. Of
`StockSync` with `Overlap = "any"`, and of `Categories` without foreign keys but for
`CategoriesStay`, nothing is proved: what breaks then is in section 6.

## 6. What the checks show about the code

One run contradicts a sentence of the source, and `PROJECT.json` quotes it
(`catalog_commit`): `Update` deletes the dropped files before its deferred COMMIT
runs (`product_repo.go:467`). Its `err` is no named result either, so a failed COMMIT is
reported as success.

More disagreements are reproduced by giving a module other constants; the property named
is then violated. `S` stands for `Products = {1, 2, 3}`, `Stocked = Products`,
`InitialStocks = {1}`, `MaxStock = 1`, `ListPage = 3`, `Tabs = {tab}`,
`CallSlots = {1, 2}`, under `StockSpec`; `F` for the constants of `Storefront.cfg`.

| What happens | Property | Constants |
|---|---|---|
| An article saved, from a form opened before, after a `Delete` scanned the articles lists a product that is gone, and so do two overlapping `Delete`s ("the catalog and the references stay in sync", `product_repo.go:556-558`) | `RefsResolve` of `Catalog` | `Products = {p1, p2}`, `Articles = {art}`, `Events = {evt}`, `Urls = {u1, u2}`, `ProductEditors = {ed}`, `Curators = {cu}`, `Deleters = {d}` (or `{cu, d}`), `Faults = {}` |
| `Delete` drops the error of reading the picture urls (`product_repo.go:529`), or is retried after it failed half-way, and leaves the files | `DeletedLeavesNoFile` of `Catalog` | those of `CatalogSole.cfg` with `Faults = {"statement"}` |
| Two editors with one product open: the second, whose form is older, lists again the pictures whose files the first one's save deleted (`product_repo.go:383-387`) | `ListedImagesExist` of `Catalog` | `Products = {p1}`, `Urls = {u1}`, `ProductEditors = {e1, e2}`, all other sets empty |
| An added picture is committed between the DELETE of a product's image rows and of the product itself, on a connection without foreign keys: its image row outlives the product | `NoStrayImages` of `Catalog` | `Products = {p1, p2}`, `Urls = {u1, u2}`, `ProductEditors = {e1}`, `Deleters = {d}`, `Faults = {"sqlite"}`, all other sets empty |
| The same with foreign keys: the picture goes with the product, its file stays, as the Delete had read the urls before | `DeletedLeavesNoFile` of `Catalog` | the same with `Faults = {}` |
| Reordering the gallery while a picture uploads stores another order (`edit_product_dialog.dart:167-170` against `:195`) | `SavedAsShown` of `GalleryEdit` | `Existing = {e1, e2}`, `New = {n1, n2}`, `During = {"reorder"}` |
| A failed tap's revert writes to an index from before the await, over the row a delete moved there (`admin_viewmodel.dart:827-828` against `:872`) | `ListsEachOnce` of `StockSync` | `S`, `Gestures = {"tap", "delete"}`, `Overlap = "rows"`, `Failing = {"patch"}` |
| Two taps are under way and the first to fail puts the error view up, which disposes the steppers. Retry (or saving or adding from a dialog, `admin_viewmodel.dart:692`) brings them back with no call known, and a second tap goes out while the first one's PATCH is still in flight ("disabled while a step is in flight", `product_list_tile.dart:441-442`) | `OneStepInFlight` of `StockSync` | `S`, `Gestures = {"tap", "reload"}`, `Overlap = "any"`, `Failing = {"patch"}` |
| A whole-product PUT carries the stock its form was opened with, over a tap of another tab (`admin_viewmodel.dart:822-825` against `product_repo.go:417`) | `EditsKeepStock` of `StockSync` | `S` with `Stocked = {1}`, `Tabs = {tab1, tab2}`, `CallSlots = {1}`, `Gestures = {"tap", "edit"}`, `Overlap = "none"`, `Failing = {}` |
| A picked sub-category that is deleted on the server stays picked after a refresh: its pill is gone, no pill is lit, the filter stays ("at least one pill selected (= no way to ... show zero products)", `home_viewmodel.dart:194-195`) | `APillIsLit` of `Storefront` | `F` |
| A connection of SQLite without the pragma (`db.go:60`) serves the delete of a Large category and leaves the ids that pointed to it (`backend/README.md:137-138`, `admin_viewmodel.dart:427-428`); an insert there takes the id of one just deleted | `LargeIsThere`, `FiledWhereAsked` of `Categories` | `F` with `ForeignKeys = FALSE` |

Seen while modelling, with no run of their own.

Products and stock:

* Picking one picture and removing another while one uploads keeps the list's
  length, so the loop goes on with slots that moved; a url may then be listed and
  deleted at once, which reordering alone never does (`ListedStays`).
* A tap on an unknown stock counts from 0, and the edit form stores 0 for it.
* A recycled tile forgets its `_busy` and takes a second tap; for an admin who waits
  it never does (`NoDoubleStep`).
* The reload of a tab and a tap in flight, or two calls on one product: the last answer
  wins, whatever it carries (`Overlap = "any"` breaks `SettledShowsServer`).
* `addProduct` swallows its failure, and the add dialog says that the product was added
  (`add_product_dialog.dart:159-169`). Its Save stays enabled while it uploads and
  sends, so a second tap adds a second product.
* The admin list has the first page of 20 products (`product_repo.go:617-619`), and the
  next reload drops what was added beyond it.
* The stepper's doc (`product_list_tile.dart:439-440`) speaks of a PUT; it is a
  PATCH. The comment at `product_repo.go:675-677` calls random UUIDs ordered by
  time.

Sign-in and connections:

* A late 401 for an older token drops a fresh one and sends the admin to the gate
  again; `GoodTokenKept` names this as its one exception. A 401 on a delete or an
  upload reaches no shell.
* `MaxConns` concurrent product lists, each with its rows open, wait for each
  other for ever.
* `README.md:176` and `config/config.go:23` say `DB_MAX_OPEN_CONNS` is for SQLite;
  `db.go:46` sets it for both.

Banners, covers, the store's picture (the ways a file is lost or left behind that
`LeaksAccounted` and `ShownExists` name as their exceptions):

* The settings form stays open after a save with the picture it started from, so
  its second save replaces the wrong one and leaves a file; clearing the picture
  before a failed save, or during one, loses the url to delete.
* Saving twice while an article's picture uploads leaves the first upload and may
  create two rows. An answer that gets lost leaves what its call had stored.
* A save from a form that is out of date puts back a picture whose file another
  save deleted (`marred`); so does a save between the two statements of a delete
  (`article_repo.go:172`), the other way round: the file it stored stays.
* The app sends no `is_draft`, so editing a draft publishes it
  (`article_repo.go:258`). Drafts are hidden also from an admin where
  `ADMIN_PUBLIC_KEY` is empty. Neither is modelled.

Prices and pages:

* The base price is read by one statement and the discount by a later one; a quote
  may pair the two from different moments, each right when it was read.
* An error reading the events shows undiscounted prices without a word.
* `ORDER BY price` (and every order but the default) has no tie-break, and the count
  and the page are two statements, so pages may repeat or skip a row:
  `PagesCoverOnce` asks for an order with unique keys and no write in between.
* `rows.Err` is not read: a list that breaks off is answered as if complete.
* An event's end is checked when it is sent and may have passed when it is stored.

Home page and categories:

* The page loads the first 20 products and asks for no more.
* A shop without products shows its skeleton for ever (`home_screen.dart:105-107`).
* Of two loads that overlap the later ANSWER wins, also when it is older or a
  failure; `RefreshShowsServer` is about the load that nothing disturbed.
* A sub-category whose name starts with the word of the "All" pill is taken for that
  pill (`PseudoAssumption` excludes it).
* Adding a sub-category that exists under another Large category answers 201 and
  moves nothing. A Large category made by `POST /api/categories` is trimmed but not
  validated.

## 7. Not modelled

* **Server lifecycle and configuration** (`server.go`, `main.go`, `config.go`): a
  start is a sequence, and configuration is read once. Shutdown waits five seconds
  and then closes the database under running requests (`server.go:111`): for a
  request that is a statement that fails, which `Catalog` has as `"statement"` and
  `ConnPool` leaves out. Restarts are in `AdminAuth`.
* **Router, CORS, dialect, schema, migrations**: static wiring and text of
  statements.
* **Product detail, carousels, cards, theme, layout**: rendering with no state that
  outlives a page. Article pages are stubs in part.
* **keygen, seed, admincurl**: one-shot sequential tools.
* **The category tab of the admin** (`admin_viewmodel.dart`): it reuses the calls of
  `Categories`. Adding a sub-category does not reload the Large ones, and a list that
  was asked for before a delete and is answered after it shows the row again.
* **Drafts, titles, the link of a banner to an article** (a banner form may send an
  article that was deleted, which the foreign key refuses with a 500; deleting an
  article clears it), the texts and limits of every form.
* Lists of categories that break off unnoticed (`Storefront` has them as failures),
  and the floats of the code: prices and buckets are integers here.
* SQL text, JSON, paths and names of files, HTTP headers and texts of messages.

## 8. Plan

The order puts the behaviour that protects or loses data first. Done: (1)
`AdminAccess`, `AdminAuth` and their proofs; (2) `Catalog`; (3) `GalleryEdit`;
(4) `StockSync`; (5) `ConnPool` and its proofs; (6) `AdminClient`, composed with
`AdminAccess`, and its proofs; (7) `Media`, over the uploads directory; (8)
`RateLimiter` and its proofs; (9) `PriceList` and its proofs; (10) `Categories`,
`Storefront` and their proofs; (11) the proofs of `Catalog` and of `Media`; (12) those
of the pages of `PriceList`, of `GalleryEdit` and of `StockSync`.

Next, in this order:

1. An abstract catalogue (products with their galleries, changed atomically) and
   `Catalog` shown to implement it where no fault occurs.
2. The server's lifecycle: signal, shutdown with its deadline, the database closing,
   composed with the requests of `ConnPool`.
3. Truncated category lists and the admin's category tab on top of `Categories`.
