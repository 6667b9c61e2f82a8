----------------------------- MODULE PriceList ------------------------------
(***************************************************************************)
(* What a customer is told a product costs: GET /api/products and          *)
(* GET /api/products/{id} (handler.go, GetAllFiltered in product_repo.go)  *)
(* against the events that discount products (event_handler.go,            *)
(* event_repo.go, models/event.go).                                        *)
(*                                                                         *)
(* A list counts the rows, reads a page of them and then asks the events   *)
(* of each product, every one a statement of its own outside any           *)
(* transaction, with one clock reading for the whole page.  Admins change  *)
(* prices and events between any two of them.  Nothing is kept from one    *)
(* request to the next, so one request at a time is enough.                *)
(***************************************************************************)
EXTENDS Integers, FiniteSets

CONSTANTS
  Products,   \* product ids, numbers for their order in the database
  Prices,     \* base prices
  EventIds,   \* ids the admin app mints for events
  Offers,     \* what an event form may hold, see OffersAssumption
  Pages,      \* values of ?page
  Sizes,      \* values of ?page_size
  Floors,     \* values of ?min_price
  MaxSize,    \* the largest page_size that is accepted (100)
  Default,    \* the size of a page otherwise (20)
  NoEvent,    \* no current_event
  MaxTime,    \* bound: when the clock stops
  MaxEdits    \* bound: writes of the admins

ASSUME ProductsAssumption == IsFiniteSet(Products) /\ Products \subseteq Nat
ASSUME PricesAssumption == Prices \subseteq Nat /\ Floors \subseteq Nat
ASSUME PagingAssumption ==
  /\ Pages \subseteq Int /\ Sizes \subseteq Int
  /\ MaxSize \in Nat /\ Default \in 1..MaxSize
\* What validateEvent lets through, the deadline apart: percents are taken of
\* prices that are multiples of 100.
ASSUME OffersAssumption ==
  Offers \subseteq [kind : {"percent"}, value : 1..100, ends : Nat, products : SUBSET Products]
                   \union [kind : {"fixed"}, value : Nat \ {0}, ends : Nat, products : SUBSET Products]
ASSUME NoEventAssumption == NoEvent \notin Offers
ASSUME BoundsAssumption == MaxTime \in Nat /\ MaxEdits \in Nat

VARIABLES
  prices,   \* rows of products: id -> price
  events,   \* rows of events: id -> offer
  saving,   \* an event that passed validation and is on its way to its row
  now,      \* the clock, in seconds
  request,  \* the list or product being answered
  edits     \* writes made so far

vars == <<prices, events, saving, now, request, edits>>

None == [pc |-> "none"]

-----------------------------------------------------------------------------
(* models.Event and computeEffectivePrice *)

\* Mutated form: the last second counts as part of the event.
IsActiveToTheEnd(e, t) == e.ends >= t

IsActive(e, t) == e.ends > t

ApplyTo(e, price) ==
  IF e.kind = "percent" THEN (price * (100 - e.value)) \div 100
  ELSE IF e.value <= price THEN price - e.value ELSE 0

\* Which rows of a table of events discount p at time t.
Active(table, p, t) ==
  {e \in {table[i] : i \in DOMAIN table} : p \in e.products /\ IsActive(e, t)}

\* Mutated form: the first event found is taken.
EffectiveFirst(base, offers) ==
  IF offers = {} THEN {[price |-> base, event |-> NoEvent]}
  ELSE {[price |-> ApplyTo(e, base), event |-> e] : e \in offers}

\* The loop keeps the first of the lowest prices; the events come in no
\* particular order, so any of the lowest may be the one.
Effective(base, offers) ==
  IF offers = {} THEN {[price |-> base, event |-> NoEvent]}
  ELSE {[price |-> ApplyTo(e, base), event |-> e] :
          e \in {b \in offers : \A f \in offers : ApplyTo(b, base) <= ApplyTo(f, base)}}

-----------------------------------------------------------------------------
(* GetAllFiltered *)

PageOf(q) == IF q.page < 1 THEN 1 ELSE q.page
SizeOf(q) == IF q.size < 1 \/ q.size > MaxSize THEN Default ELSE q.size

\* The filters compare columns of a row; the least price stands for them all.
Matching(q) == {p \in DOMAIN prices : prices[p] >= q.floor}

\* ORDER BY id, or by price with no second key.
NotAfter(q, p, r) == IF q.sort = "id" THEN p <= r ELSE prices[p] <= prices[r]

\* Mutated form: the offset counts pages from zero.
OffsetFromZero(q) == PageOf(q) * SizeOf(q)

Offset(q) == (PageOf(q) - 1) * SizeOf(q)

AtMost(m, n) == IF m <= n THEN m ELSE n

\* LIMIT and OFFSET: the pages the database may return, more than one only
\* where the order leaves rows alike.
PagesFor(q) ==
  LET all == Matching(q)
      skipped == AtMost(Offset(q), Cardinality(all))
      taken == AtMost(SizeOf(q), Cardinality(all) - skipped)
  IN  {page \in SUBSET all :
         /\ Cardinality(page) = taken
         /\ \E before \in SUBSET (all \ page) :
              /\ Cardinality(before) = skipped
              /\ \A b \in before, p \in page : NotAfter(q, b, p)
              /\ \A p \in before \union page, r \in all \ (before \union page) : NotAfter(q, p, r)}

-----------------------------------------------------------------------------
(* The admins *)

\* The lowest price a product may have, under a table of events, at time t.
Best(table, p, price, t) ==
  LET all == {price} \union {ApplyTo(e, price) : e \in Active(table, p, t)}
  IN  CHOOSE c \in all : \A d \in all : c <= d

\* History of the request in flight: the best prices there were at some moment
\* since its clock reading, and whether the page can differ from the count.
Noticed(table, moved) ==
  IF request.pc = "pricing"
  THEN [request EXCEPT !.right =
          [p \in DOMAIN request.right |->
             request.right[p] \union {Best(table, p, request.rows[p], request.at)}]]
  ELSE IF request.pc = "rows" THEN [request EXCEPT !.moved = @ \/ moved]
  ELSE request

WriteProducts(table) ==
  /\ edits < MaxEdits
  /\ edits' = edits + 1
  /\ prices' = table
  /\ request' = Noticed(events, TRUE)
  /\ UNCHANGED <<events, now>>

WriteEvents(table) ==
  /\ edits < MaxEdits
  /\ edits' = edits + 1
  /\ events' = table
  /\ request' = Noticed(table, FALSE)
  /\ UNCHANGED <<prices, now>>

\* A product is added or its price changed.
SetPrice(p, c) ==
  /\ p \in DOMAIN prices => prices[p] # c
  /\ WriteProducts([r \in DOMAIN prices \union {p} |-> IF r = p THEN c ELSE prices[r]])
  /\ UNCHANGED saving

DropProduct(p) ==
  /\ p \in DOMAIN prices
  /\ WriteProducts([r \in DOMAIN prices \ {p} |-> prices[r]])
  /\ UNCHANGED saving

\* CreateEventHandler and UpdateEventHandler up to their statement.
ValidateEvent(op, i, e) ==
  /\ saving = None
  /\ edits < MaxEdits
  /\ e.ends > now
  /\ saving' = [pc |-> op, id |-> i, offer |-> e]
  /\ UNCHANGED <<prices, events, now, request, edits>>

\* EventRepo.Create and EventRepo.Update: the whole row, as it was sent.
StoreEvent ==
  /\ \/ saving.pc = "create" /\ saving.id \notin DOMAIN events
     \/ saving.pc = "update" /\ saving.id \in DOMAIN events
  /\ WriteEvents([i \in DOMAIN events \union {saving.id} |->
                    IF i = saving.id THEN saving.offer ELSE events[i]])
  /\ saving' = None

\* A second row with one id is a 500, an update of no row a 404.
RejectEvent ==
  /\ \/ saving.pc = "create" /\ saving.id \in DOMAIN events
     \/ saving.pc = "update" /\ saving.id \notin DOMAIN events
  /\ saving' = None
  /\ UNCHANGED <<prices, events, now, request, edits>>

DeleteEvent(i) ==
  /\ i \in DOMAIN events
  /\ WriteEvents([j \in DOMAIN events \ {i} |-> events[j]])
  /\ UNCHANGED saving

Tick ==
  /\ now < MaxTime
  /\ now' = now + 1
  /\ UNCHANGED <<prices, events, saving, request, edits>>

-----------------------------------------------------------------------------
(* The requests *)

Init ==
  /\ prices \in UNION {[page -> Prices] : page \in SUBSET Products}
  /\ events = [i \in {} |-> NoEvent]
  /\ saving = None
  /\ now = 0
  /\ request = None
  /\ edits = 0

Queries == [page : Pages, size : Sizes, floor : Floors, sort : {"id", "price_asc"}]

Asks(r) ==
  /\ request = None
  /\ request' = r
  /\ UNCHANGED <<prices, events, saving, now, edits>>

AskList(q) == Asks([pc |-> "count", query |-> q, asked |-> now])

AskProduct(p) == Asks([pc |-> "get", product |-> p, asked |-> now])

Continue(r) ==
  /\ request' = r
  /\ UNCHANGED <<prices, events, saving, now, edits>>

\* Nobody is told a price: an error, or a product that is not there.
Refuse ==
  /\ request.pc \in {"count", "rows", "get"}
  /\ Continue(None)

\* Mutated form: the filters are left out of the count.
CountRowsUnfiltered ==
  /\ request.pc = "count"
  /\ Continue([pc |-> "rows", query |-> request.query, asked |-> request.asked,
               total |-> Cardinality(DOMAIN prices), moved |-> FALSE])

CountRows ==
  /\ request.pc = "count"
  /\ Continue([pc |-> "rows", query |-> request.query, asked |-> request.asked,
               total |-> Cardinality(Matching(request.query)), moved |-> FALSE])

\* The rows that were read, and of a list the total that goes with them.
Read(rows, paging) ==
  Continue([pc |-> "read", asked |-> request.asked, rows |-> rows, paging |-> paging])

ReadRows ==
  /\ request.pc = "rows"
  /\ \E page \in PagesFor(request.query) :
       Read([p \in page |-> prices[p]],
            [query |-> request.query, total |-> request.total, moved |-> request.moved])

\* The database breaks off between two rows.  Nobody asks for rows.Err: the rows
\* so far are taken for the page.
ReadSomeRows ==
  /\ request.pc = "rows"
  /\ \E page \in PagesFor(request.query) : \E some \in SUBSET page :
       Read([p \in some |-> prices[p]],
            [query |-> request.query, total |-> request.total, moved |-> TRUE])

\* GetByID.
ReadProduct ==
  /\ request.pc = "get"
  /\ request.product \in DOMAIN prices
  /\ Read([p \in {request.product} |-> prices[p]], None)

\* decorateProductsWithEvents reads the clock once for the page.
Decorate ==
  /\ request.pc = "read"
  /\ Continue([pc |-> "pricing", asked |-> request.asked, rows |-> request.rows,
               at |-> now, priced |-> [p \in {} |-> NoEvent],
               right |-> [p \in DOMAIN request.rows |->
                            {Best(events, p, request.rows[p], now)}]])

Unpriced == DOMAIN request.rows \ DOMAIN request.priced

Priced(p, offer) ==
  [r \in DOMAIN request.priced \union {p} |-> IF r = p THEN offer ELSE request.priced[r]]

\* ListActiveEventsForProduct and the best of what it finds.
PriceOne(p) ==
  /\ request.pc = "pricing"
  /\ p \in Unpriced
  /\ \E offer \in Effective(request.rows[p], Active(events, p, request.at)) :
       Continue([request EXCEPT !.priced = Priced(p, offer)])

\* The events cannot be read: the base price, as if there were none.
PriceWithoutEvents(p) ==
  /\ request.pc = "pricing"
  /\ p \in Unpriced
  /\ Continue([request EXCEPT
       !.priced = Priced(p, [price |-> request.rows[p], event |-> NoEvent]),
       !.right[p] = @ \union {request.rows[p]}])

Answer ==
  /\ request.pc = "pricing"
  /\ Unpriced = {}
  /\ Continue(None)

Edit ==
  \/ \E p \in Products : DropProduct(p) \/ \E c \in Prices : SetPrice(p, c)
  \/ \E op \in {"create", "update"}, i \in EventIds, e \in Offers : ValidateEvent(op, i, e)
  \/ StoreEvent \/ RejectEvent
  \/ \E i \in EventIds : DeleteEvent(i)

Serve ==
  \/ \E q \in Queries : AskList(q)
  \/ \E p \in Products : AskProduct(p) \/ PriceOne(p) \/ PriceWithoutEvents(p)
  \/ Refuse \/ CountRows \/ ReadRows \/ ReadSomeRows \/ ReadProduct \/ Decorate \/ Answer

Next == Edit \/ Serve \/ Tick

Spec == Init /\ [][Next]_vars

-----------------------------------------------------------------------------
(* Properties *)

Quotes == [price : Nat, event : Offers \union {NoEvent}]
Paging == [query : Queries, total : Nat, moved : BOOLEAN]
ProductRows == UNION {[page -> Prices] : page \in SUBSET Products}

Working ==
  {None}
  \union [pc : {"count"}, query : Queries, asked : 0..now]
  \union [pc : {"rows"}, query : Queries, asked : 0..now, total : Nat, moved : BOOLEAN]
  \union [pc : {"get"}, product : Products, asked : 0..now]
  \union [pc : {"read"}, asked : 0..now, rows : ProductRows, paging : Paging \union {None}]

Pricing ==
  /\ request \in [pc : {"pricing"}, asked : 0..now, rows : ProductRows, at : 0..now,
                  priced : {request.priced}, right : {request.right}]
  /\ request.priced \in [DOMAIN request.priced -> Quotes]
  /\ request.right = [p \in DOMAIN request.rows |-> request.right[p]]
  /\ DOMAIN request.priced \subseteq DOMAIN request.rows

\* Type invariant: no price is negative, and only what was read is priced.
TypeOK ==
  /\ prices \in ProductRows
  /\ DOMAIN events \subseteq EventIds /\ events \in [DOMAIN events -> Offers]
  /\ saving \in {None} \union [pc : {"create", "update"}, id : EventIds, offer : Offers]
  /\ now \in 0..MaxTime
  /\ IF request.pc = "pricing" THEN Pricing ELSE request \in Working
  /\ edits \in 0..MaxEdits

\* Every price a request comes to is the best that the events offered, at some
\* moment since its clock reading, for the base price shown beside it, or that
\* base price where the events could not be read ("picks the lowest
\* post-discount price"), whatever is saved and deleted meanwhile.
BestOfSomeMoment ==
  request.pc = "pricing" =>
    \A p \in DOMAIN request.priced : request.priced[p].price \in request.right[p]

\* An event that was over when the customer asked discounts nothing ("when the
\* event expires the discount simply disappears on the next request").
NoExpiredDiscount ==
  request.pc = "pricing" =>
    \A p \in DOMAIN request.priced :
      request.priced[p].event # NoEvent => request.priced[p].event.ends > request.asked

\* A list that was read to its end, and whose products stayed as they were
\* counted, has on each page what its total announces: full pages, the rest on
\* the last, nothing beyond.
PagesAddUp ==
  request.pc = "read" /\ request.paging # None /\ ~request.paging.moved =>
    LET total == request.paging.total
        size == SizeOf(request.paging.query)
        shown == Cardinality(DOMAIN request.rows)
        past == (PageOf(request.paging.query) - 1) * size
    IN  /\ shown <= size
        /\ past + shown <= total \/ shown = 0
        /\ shown < size => past + shown >= total

\* Whoever walks the pages in the order of the ids, and nothing changes, meets
\* every product once.
PagesCoverOnce ==
  \A s \in Sizes, f \in Floors :
    LET query(n) == [page |-> n, size |-> s, floor |-> f, sort |-> "id"]
    IN  \A p \in Matching(query(1)) :
          \E n \in 1..Cardinality(Products) :
            /\ \A page \in PagesFor(query(n)) : p \in page
            /\ \A m \in 1..Cardinality(Products) \ {n} :
                 \A page \in PagesFor(query(m)) : p \notin page

=============================================================================
