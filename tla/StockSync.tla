------------------------------ MODULE StockSync ------------------------------
(***************************************************************************)
(* The admin's product list and the server's product rows, kept in step by *)
(* optimistic stock taps, whole-product edits, additions, deletes and      *)
(* reloads.                                                                *)
(*                                                                         *)
(* A tab is one running copy of the admin app: the list of AdminViewModel  *)
(* (lib/viewmodels/admin_viewmodel.dart), the steppers of its rows         *)
(* (product_list_tile.dart), at most one open edit dialog, and the HTTP    *)
(* calls in flight.  ListView.builder gives its tiles no keys, so the      *)
(* State holding a stepper's `_busy` belongs to a POSITION of the list.    *)
(*                                                                         *)
(* No list filter is set, so `_filteredProducts` is `_products`.  A        *)
(* handler's statements up to its next await are one step; so is the       *)
(* server's write with the re-read that makes its answer.                  *)
(***************************************************************************)
EXTENDS Naturals, Sequences, FiniteSets, SequencesExt, Lists

CONSTANTS
    Products,       \* ids that may be drawn, in the order the server lists them
    Stocked,        \* the products the shop starts with
    InitialStocks,  \* the stocks a product may start with
    MaxStock,       \* bound: the + button is not tapped from here
    ListPage,       \* the rows in one answer of the list endpoint
    Unknown,        \* a NULL stock, shown as "?"
    Tabs,           \* copies of the admin app
    CallSlots,      \* bound: calls a tab has in flight
    Gestures,       \* what the admins do: subset of AllGestures
    Overlap,        \* which calls they do not wait for: "none", "rows", "any"
    Failing,        \* kinds of calls that may fail, or lose their answer
    NoCall, NoDialog

AllGestures == {"tap", "edit", "add", "delete", "reload", "scroll"}
Kinds == {"patch", "put", "add", "delete", "load"}

ASSUME StockSyncAssumption ==
    /\ Products \subseteq Nat /\ IsFiniteSet(Products)
    /\ Stocked \subseteq Products
    /\ ListPage \in Nat
    /\ MaxStock \in Nat \ {0}
    /\ Unknown \notin Nat
    /\ InitialStocks \subseteq 0..MaxStock \cup {Unknown}
    /\ Gestures \subseteq AllGestures
    /\ Overlap \in {"none", "rows", "any"}
    /\ Failing \subseteq Kinds

VARIABLES
    server,     \* the rows of the products table
    list,       \* AdminViewModel._products, by tab
    error,      \* its _error: "cleared" is null again but not yet repainted
    busy,       \* the positions whose stepper State has _busy set
    dialog,     \* the product the open edit dialog would save
    call,       \* the HTTP calls in flight, by tab and slot
    fresh,      \* ids not drawn yet; no id is drawn twice (random UUIDs)
    doubt       \* products a lost answer left in doubt since the last reload, or
                \* that had no place on its page (history)

stockVars == <<server, list, error, busy, dialog, call, fresh, doubt>>

Stocks == 0..MaxStock \cup {Unknown}
Rows == [id : Products, stock : Stocks, text : {"old", "new"}]

\* One call of ProductService.  A patch remembers what quickAdjustStock keeps
\* across its await (the index it wrote and the row it replaced) and the
\* position of the stepper awaiting it, 0 once that State is disposed.
Calls ==
    [kind : Kinds, stage : {"sent", "ok", "failed"},
     id : Products \cup {0}, row : Rows \cup {NoDialog},
     index : Nat, before : Rows \cup {NoDialog}, tile : Nat, answer : Seq(Rows)]

ASSUME NothingAssumption == NoCall \notin Calls /\ NoDialog \notin Rows

Call(kind, id, row) ==
    [kind |-> kind, stage |-> "sent", id |-> id, row |-> row,
     index |-> 0, before |-> NoDialog, tile |-> 0, answer |-> <<>>]

-----------------------------------------------------------------------------
(* Reading a tab                                                           *)

\* What the list endpoint answers: the first page, the app asking for no other.
OnPage == {p \in DOMAIN server : Cardinality({q \in DOMAIN server : q <= p}) <= ListPage}
Listed == Picked(server, OnPage)
Unlisted == DOMAIN server \ OnPage

\* _products.indexWhere((p) => p.id == id), 0 where Dart answers -1.
IndexOf(rows, id) == SelectInSeq(rows, LAMBDA r : r.id = id)

WithRow(rows, i, row) == IF i \in DOMAIN rows THEN [rows EXCEPT ![i] = row] ELSE rows

InFlight(t) == {s \in CallSlots : call[t][s] # NoCall}

\* Whether an admin about to act on a product waits for this call.  Under
\* "none" for loads, deletes and the calls of these kinds on the product; under
\* "rows" for loads and every call on the product, not for those on others.
WaitsFor(c, id, kinds) ==
    \/ /\ Overlap = "none"
       /\ c.kind \in {"load", "delete"} \/ (c.kind \in kinds /\ c.id = id)
    \/ /\ Overlap = "rows"
       /\ c.kind = "load" \/ c.id = id

Quiet(t, id, kinds) == \A s \in InFlight(t) : ~WaitsFor(call[t][s], id, kinds)

\* Under "none" also a delete, scrolling, and what takes the error view away (it
\* brings up steppers that know of no call) wait until no call is in flight.
AllQuiet(t) == Overlap = "none" => InFlight(t) = {}

\* The rows are on screen and nothing covers them.
RowsShown(t) == error[t] = "none" /\ dialog[t] = NoDialog

\* A call whose stepper's State is disposed with the tiles at these positions.
Detached(c, tiles) ==
    IF c # NoCall /\ c.tile \in tiles THEN [c EXCEPT !.tile = 0] ELSE c

\* notifyListeners and the rebuild it causes: the error view replaces the list
\* and disposes every stepper; otherwise the State of each remaining position
\* survives, didUpdateWidget clearing _busy where the product changed.
Repaint(t, rows, e, marked, live) ==
    LET kept == IF e = "shown" THEN {} ELSE DOMAIN rows
    IN  /\ list' = [list EXCEPT ![t] = rows]
        /\ error' = [error EXCEPT ![t] = e]
        /\ busy' = [busy EXCEPT ![t] = {i \in marked \cap kept : rows[i].id = list[t][i].id}]
        /\ call' = [call EXCEPT ![t] =
                [s \in CallSlots |-> Detached(live[s], Nat \ kept)]]

\* _error as the next notify paints it.
Painted(e) == IF e = "cleared" THEN "none" ELSE e

-----------------------------------------------------------------------------
(* What the admin does                                                     *)

\* (current.stock ?? 0) + delta, clamped at 0.
Adjusted(stock, up) ==
    LET n == IF stock = Unknown THEN 0 ELSE stock
    IN  IF up THEN n + 1 ELSE IF n = 0 THEN 0 ELSE n - 1

\* Mutated form: _bump does not return early while _busy.
TapUnguarded(t, i, up) ==
    LET id == list[t][i].id
        index == IndexOf(list[t], id)
        before == list[t][index]
        after == [before EXCEPT !.stock = Adjusted(@, up)]
    IN  /\ "tap" \in Gestures
        /\ RowsShown(t)
        /\ list[t][i].stock # (IF up THEN MaxStock ELSE 0)
        /\ Quiet(t, id, {"put"})
        /\ \E s \in CallSlots \ InFlight(t) :
             Repaint(t, WithRow(list[t], index, after), "none", busy[t] \cup {i},
                     [call[t] EXCEPT ![s] =
                        [Call("patch", id, after) EXCEPT
                            !.index = index, !.before = before, !.tile = i]])
        /\ UNCHANGED <<server, dialog, fresh, doubt>>

\* _bump and quickAdjustStock to its await: mark the stepper, write the new
\* stock into the list and send the PATCH.
Tap(t, i, up) ==
    LET id == list[t][i].id
        index == IndexOf(list[t], id)
        before == list[t][index]
        after == [before EXCEPT !.stock = Adjusted(@, up)]
    IN  /\ "tap" \in Gestures
        /\ RowsShown(t)
        /\ i \notin busy[t]
        /\ list[t][i].stock # (IF up THEN MaxStock ELSE 0)
        /\ Quiet(t, id, {"put"})
        /\ \E s \in CallSlots \ InFlight(t) :
             Repaint(t, WithRow(list[t], index, after), "none", busy[t] \cup {i},
                     [call[t] EXCEPT ![s] =
                        [Call("patch", id, after) EXCEPT
                            !.index = index, !.before = before, !.tile = i]])
        /\ UNCHANGED <<server, dialog, fresh, doubt>>

\* showEditProductDialog: the form's stock field reads '0' for a null stock.
OpenEdit(t, i) ==
    /\ "edit" \in Gestures
    /\ RowsShown(t)
    /\ Quiet(t, list[t][i].id, {"patch", "put"})
    /\ dialog' = [dialog EXCEPT ![t] =
            [list[t][i] EXCEPT !.stock = IF @ = Unknown THEN 0 ELSE @]]
    /\ UNCHANGED <<server, list, error, busy, call, fresh, doubt>>

CancelEdit(t) ==
    /\ dialog[t] # NoDialog
    /\ dialog' = [dialog EXCEPT ![t] = NoDialog]
    /\ UNCHANGED <<server, list, error, busy, call, fresh, doubt>>

\* _submit and updateProduct to its await: the admin changed the text only, the
\* PUT carries every field of the form.  The barrier lets the admin leave the
\* dialog before the answer.
SaveEdit(t) ==
    /\ dialog[t] # NoDialog
    /\ error[t] = "none" \/ AllQuiet(t)
    /\ \E s \in CallSlots \ InFlight(t) :
         Repaint(t, list[t], "none", busy[t],
                 [call[t] EXCEPT ![s] =
                    Call("put", dialog[t].id, [dialog[t] EXCEPT !.text = "new"])])
    /\ dialog' = [dialog EXCEPT ![t] = NoDialog]
    /\ UNCHANGED <<server, fresh, doubt>>

\* AddProductDialog._submit after its uploads, and addProduct to its await; the
\* button stands over the error view too.  The form starts empty, so only what is
\* sent matters.  It is the server that draws the id: no one looks at it before
\* the answer.
Add(t, p, stock) ==
    /\ "add" \in Gestures
    /\ dialog[t] = NoDialog
    /\ p \in fresh
    /\ Quiet(t, p, {})
    /\ error[t] = "none" \/ AllQuiet(t)
    /\ \E s \in CallSlots \ InFlight(t) :
         Repaint(t, list[t], "none", busy[t],
                 [call[t] EXCEPT ![s] =
                    Call("add", p, [id |-> p, stock |-> stock, text |-> "old"])])
    /\ fresh' = fresh \ {p}
    /\ UNCHANGED <<server, dialog, doubt>>

\* deleteProduct to its await, from the row's confirmation.
Delete(t, i) ==
    /\ "delete" \in Gestures
    /\ RowsShown(t)
    /\ AllQuiet(t)
    /\ Quiet(t, list[t][i].id, {})
    /\ \E s \in CallSlots \ InFlight(t) :
         Repaint(t, list[t], "none", busy[t],
                 [call[t] EXCEPT ![s] = Call("delete", list[t][i].id, NoDialog)])
    /\ UNCHANGED <<server, dialog, fresh, doubt>>

\* initialize to its await: from Retry in the error view, or as the screen is
\* mounted again (with new tiles).  _error is reset without a notify.
Reload(t) ==
    /\ "reload" \in Gestures \/ error[t] = "shown"
    /\ dialog[t] = NoDialog
    /\ Overlap = "any" \/ InFlight(t) = {}
    /\ \E new \in CallSlots \ InFlight(t) :
         call' = [call EXCEPT ![t] =
            [s \in CallSlots |-> IF s = new THEN Call("load", 0, NoDialog) ELSE Detached(@[s], Nat)]]
    /\ error' = [error EXCEPT ![t] = IF @ = "shown" THEN "cleared" ELSE @]
    /\ busy' = [busy EXCEPT ![t] = {}]
    /\ UNCHANGED <<server, list, dialog, fresh, doubt>>

\* A tile scrolled out of the viewport, or filtered away, and back: its State
\* is disposed and made anew.
Scroll(t, i) ==
    /\ "scroll" \in Gestures
    /\ RowsShown(t)
    /\ AllQuiet(t)
    /\ busy' = [busy EXCEPT ![t] = @ \ {i}]
    /\ call' = [call EXCEPT ![t] =
            [s \in CallSlots |-> Detached(@[s], {i})]]
    /\ UNCHANGED <<server, list, error, dialog, fresh, doubt>>

-----------------------------------------------------------------------------
(* What the server does with a call                                        *)

\* UPDATE products SET stock=?, or the whole row, INSERT or DELETE.
Stored(c) ==
    CASE c.kind = "patch"  -> [server EXCEPT ![c.id].stock = c.row.stock]
      [] c.kind = "put"    -> [server EXCEPT ![c.id] = c.row]
      [] c.kind = "add"    -> [p \in DOMAIN server \cup {c.id} |->
                                  IF p = c.id THEN c.row ELSE server[p]]
      [] c.kind = "delete" -> [p \in DOMAIN server \ {c.id} |-> server[p]]
      [] c.kind = "load"   -> server

\* A product that is gone answers 404 (500 for a PUT): a failure.
Serve(t, s) ==
    LET c == call[t][s]
        found == c.kind \in {"load", "add"} \/ c.id \in DOMAIN server
        answer == CASE c.kind = "load"   -> Listed
                    [] c.kind = "delete" -> <<>>
                    [] OTHER             -> <<Stored(c)[c.id]>>
    IN  /\ c # NoCall
        /\ c.stage = "sent"
        /\ server' = IF found THEN Stored(c) ELSE server
        /\ \/ /\ call' = [call EXCEPT ![t][s] = IF found
                            THEN [c EXCEPT !.stage = "ok", !.answer = answer]
                            ELSE [c EXCEPT !.stage = "failed"]]
              /\ UNCHANGED doubt
           \/ /\ c.kind \in Failing
              /\ call' = [call EXCEPT ![t][s].stage = "failed"]
              /\ doubt' = [doubt EXCEPT ![t] = @ \cup {c.id}]
        /\ UNCHANGED <<list, error, busy, dialog, fresh>>

Refuse(t, s) ==
    /\ call[t][s] # NoCall
    /\ call[t][s].kind \in Failing
    /\ call[t][s].stage = "sent"
    /\ call' = [call EXCEPT ![t][s].stage = "failed"]
    /\ UNCHANGED <<server, list, error, busy, dialog, fresh, doubt>>

-----------------------------------------------------------------------------
(* What the tab does with an answer                                        *)

\* Mutated form: initialize does not clear the list it fills.
AppliedAppends(rows, c) ==
    CASE c.kind \in {"patch", "put"} -> WithRow(rows, IndexOf(rows, c.id), c.answer[1])
      [] c.kind \in {"add", "load"}  -> rows \o c.answer
      [] c.kind = "delete"           -> Where(rows, LAMBDA r : r.id # c.id)

\* Mutated form: the row of a tap is not found again by its id.
AppliedAtIndex(rows, c) ==
    CASE c.kind = "patch"            -> WithRow(rows, c.index, c.answer[1])
      [] c.kind = "put"              -> WithRow(rows, IndexOf(rows, c.id), c.answer[1])
      [] c.kind = "add"              -> rows \o c.answer
      [] c.kind = "delete"           -> Where(rows, LAMBDA r : r.id # c.id)
      [] c.kind = "load"             -> c.answer

\* The list after quickAdjustStock, updateProduct, addProduct, deleteProduct or
\* initialize returns: rows are found again by id, a new one comes last.
Applied(rows, c) ==
    CASE c.kind \in {"patch", "put"} -> WithRow(rows, IndexOf(rows, c.id), c.answer[1])
      [] c.kind = "add"              -> rows \o c.answer
      [] c.kind = "delete"           -> Where(rows, LAMBDA r : r.id # c.id)
      [] c.kind = "load"             -> c.answer

\* Mutated form: no finally, the stepper stays marked.
SucceedStaysBusy(t, s) ==
    LET c == call[t][s]
    IN  /\ c # NoCall
        /\ c.stage = "ok"
        /\ Repaint(t, Applied(list[t], c), Painted(error[t]), busy[t],
                   [call[t] EXCEPT ![s] = NoCall])
        /\ UNCHANGED <<server, dialog, fresh, doubt>>

Succeed(t, s) ==
    LET c == call[t][s]
    IN  /\ c # NoCall
        /\ c.stage = "ok"
        /\ Repaint(t, Applied(list[t], c), Painted(error[t]), busy[t] \ {c.tile},
                   [call[t] EXCEPT ![s] = NoCall])
        /\ doubt' = [doubt EXCEPT ![t] = IF c.kind = "load" THEN Unlisted ELSE @]
        /\ UNCHANGED <<server, dialog, fresh>>

\* The catch of quickAdjustStock: the row goes back at the index it was taken
\* from.  Beyond the end of a list grown shorter that throws, before _error is
\* set or anyone notified.
FailTap(t, s) ==
    LET c == call[t][s]
        inRange == c.index \in DOMAIN list[t]
    IN  /\ c # NoCall
        /\ c.kind = "patch"
        /\ c.stage = "failed"
        /\ Repaint(t, WithRow(list[t], c.index, c.before),
                   IF inRange THEN "shown" ELSE error[t],
                   busy[t] \ {c.tile}, [call[t] EXCEPT ![s] = NoCall])
        /\ UNCHANGED <<server, dialog, fresh, doubt>>

FailOther(t, s) ==
    /\ call[t][s] # NoCall
    /\ call[t][s].kind # "patch"
    /\ call[t][s].stage = "failed"
    /\ Repaint(t, list[t], "shown", busy[t], [call[t] EXCEPT ![s] = NoCall])
    /\ UNCHANGED <<server, dialog, fresh, doubt>>

-----------------------------------------------------------------------------
StockInit ==
    /\ server \in [Stocked -> Rows]
    /\ \A p \in Stocked :  /\ server[p].id = p
                           /\ server[p].text = "old"
                           /\ server[p].stock \in InitialStocks
    /\ list = [t \in Tabs |-> Listed]
    /\ error = [t \in Tabs |-> "none"]
    /\ busy = [t \in Tabs |-> {}]
    /\ dialog = [t \in Tabs |-> NoDialog]
    /\ call = [t \in Tabs |-> [s \in CallSlots |-> NoCall]]
    /\ fresh = Products \ Stocked
    /\ doubt = [t \in Tabs |-> Unlisted]

StockNext ==
    \E t \in Tabs :
        \/ \E i \in DOMAIN list[t] :
             \/ \E up \in BOOLEAN : Tap(t, i, up)
             \/ OpenEdit(t, i)
             \/ Delete(t, i)
             \/ Scroll(t, i)
        \/ \E p \in Products, stock \in InitialStocks \ {Unknown} : Add(t, p, stock)
        \/ CancelEdit(t)
        \/ SaveEdit(t)
        \/ Reload(t)
        \/ \E s \in CallSlots :
             \/ Serve(t, s)
             \/ Refuse(t, s)
             \/ Succeed(t, s)
             \/ FailTap(t, s)
             \/ FailOther(t, s)

StockSpec == StockInit /\ [][StockNext]_stockVars

-----------------------------------------------------------------------------
(* Properties                                                              *)

\* Every variable has its type; a busy stepper has its call in flight, so its
\* buttons come back.
StockTypeOK ==
    /\ fresh \subseteq Products
    /\ \A p \in DOMAIN server : p \in Products \ fresh /\ server[p] \in Rows /\ server[p].id = p
    /\ \A t \in Tabs :
         /\ list[t] \in Seq(Rows)
         /\ error[t] \in {"none", "shown", "cleared"}
         /\ doubt[t] \subseteq Products \cup {0}
         /\ busy[t] \subseteq DOMAIN list[t]
         /\ \A i \in busy[t] : \E s \in InFlight(t) : call[t][s].tile = i
         /\ dialog[t] \in Rows \cup {NoDialog}
         /\ \A s \in CallSlots : call[t][s] = NoCall \/ call[t][s] \in Calls

\* Once a tab's calls are answered and no error is shown, it has the server's
\* rows, in whatever order: optimistic writes, reverts and answers of calls that
\* overlapped leave nothing behind, except a product whose answer was lost or
\* that had no place on the page, until a reload.
SettledShowsServer ==
    \A t \in Tabs : InFlight(t) = {} /\ error[t] = "none" =>
        {r \in Range(list[t]) : r.id \notin doubt[t]}
            = {server[p] : p \in DOMAIN server \ doubt[t]}

\* No list shows a product twice: the answer of a tap finds its row again though
\* others were deleted above it meanwhile, and a new product is not there yet.
ListsEachOnce ==
    \A t \in Tabs : \A i, j \in DOMAIN list[t] :
        list[t][i].id = list[t][j].id => i = j

\* A tab never has two stock calls of one product in flight: _busy disables
\* the stepper for as long as its step lasts.
OneStepInFlight ==
    \A t \in Tabs : \A s, z \in InFlight(t) :
        /\ call[t][s].kind = "patch"
        /\ call[t][z].kind = "patch"
        /\ call[t][s].id = call[t][z].id
        => s = z

\* Storing an edit of the text leaves the stock the server has: of "the same
\* product's stock vs. description in two tabs" neither may overwrite the other
\* (admin_viewmodel.dart).  The form carries the stock it was opened with.
EditsKeepStock ==
    [][\A p \in DOMAIN server \cap DOMAIN server' :
         server[p].text # server'[p].text => server[p].stock = server'[p].stock]_stockVars

=============================================================================
