-------------------------- MODULE PriceList_proofs --------------------------
(***************************************************************************)
(* Proofs about PriceList, for any products, prices, events, pages and     *)
(* bounds that satisfy its assumptions.                                    *)
(***************************************************************************)
EXTENDS PriceList, FiniteSetTheorems, TLAPS

-----------------------------------------------------------------------------
(* Arithmetic *)

\* Each place falls on one page: the pages of a given size cut the places
\* without gap or overlap.
LEMMA PlaceOnOnePage ==
  ASSUME NEW r \in Nat, NEW size \in Nat, size > 0
  PROVE  LET n == r \div size + 1
         IN  /\ n \in Nat /\ n <= r + 1 /\ n >= 1
             /\ (n - 1) * size <= r /\ r < (n - 1) * size + size
             /\ \A m \in Nat : m # n => ~((m - 1) * size <= r /\ r < (m - 1) * size + size)
<1> DEFINE k == r \div size
<1>1. k \in Nat /\ k * size <= r /\ r < k * size + size
  OBVIOUS
<1> HIDE DEF k
<1>2. k <= r
  <2>1. k <= k * size
    BY <1>1
  <2> QED BY <1>1, <2>1
<1>3. ASSUME NEW m \in Nat, m # k + 1
      PROVE  ~((m - 1) * size <= r /\ r < (m - 1) * size + size)
  <2> DEFINE d == m - 1
  <2>1. d \in Int /\ d # k
    BY <1>1, <1>3
  <2> HIDE DEF d
  <2>2. CASE d > k
    <3>1. d * size >= (k + 1) * size
      BY <1>1, <2>1, <2>2
    <3>2. (k + 1) * size = k * size + size
      BY <1>1
    <3>3. d * size \in Int /\ k * size \in Int
      BY <1>1, <2>1
    <3> QED BY <1>1, <3>1, <3>2, <3>3 DEF d
  <2>3. CASE d < k
    <3>1. (d + 1) * size <= k * size
      BY <1>1, <2>1, <2>3
    <3>2. (d + 1) * size = d * size + size
      BY <1>1, <2>1
    <3>3. d * size \in Int /\ k * size \in Int
      BY <1>1, <2>1
    <3> QED BY <1>1, <3>1, <3>2, <3>3 DEF d
  <2> QED BY <1>1, <2>1, <2>2, <2>3
<1>4. k + 1 - 1 = k
  BY <1>1
<1> QED BY <1>1, <1>2, <1>3, <1>4 DEF k

USE ProductsAssumption, PricesAssumption, OffersAssumption, NoEventAssumption,
    BoundsAssumption

-----------------------------------------------------------------------------
(* Discounts *)

\* A percentage of a price is taken off it, not more.
LEMMA PercentRange ==
  ASSUME NEW c \in Nat, NEW v \in 1..100
  PROVE  (c * (100 - v)) \div 100 \in 0..c
<1>1. c * (100 - v) \in 0..(100 * c)
  <2> DEFINE w == 100 - v
  <2>1. w \in 0..100
    OBVIOUS
  <2>2. c * w >= 0 /\ c * w <= c * 100
    BY <2>1
  <2> QED BY <2>1, <2>2
<1> DEFINE n == c * (100 - v)
<1>2. n \in Nat /\ n <= 100 * c
  BY <1>1
<1> HIDE DEF n
<1>3. n \div 100 \in 0..c
  BY <1>2
<1> QED BY <1>3 DEF n

\* An event lowers a price, and never below zero (Event.ApplyTo).
LEMMA ApplyToRange ==
  ASSUME NEW e \in Offers, NEW c \in Nat
  PROVE  ApplyTo(e, c) \in 0..c
<1>1. CASE e.kind = "percent"
  <2>1. e.value \in 1..100
    BY <1>1
  <2> QED BY <1>1, <2>1, PercentRange DEF ApplyTo
<1>2. CASE e.kind = "fixed"
  <2>1. e.value \in Nat
    BY <1>2
  <2> QED BY <1>2, <2>1 DEF ApplyTo
<1> QED BY <1>1, <1>2

\* What the loop of computeEffectivePrice settles on is the lowest price there
\* is, whichever order the events came in, and stands for an event that was
\* among them.
LEMMA EffectiveIsBest ==
  ASSUME NEW table, \A i \in DOMAIN table : table[i] \in Offers,
         NEW p, NEW t, NEW c \in Nat, NEW o \in Effective(c, Active(table, p, t))
  PROVE  /\ o.price = Best(table, p, c, t)
         /\ o \in Quotes
         /\ o.event # NoEvent => o.event \in Active(table, p, t)
<1> DEFINE offers == Active(table, p, t)
           all == {c} \union {ApplyTo(e, c) : e \in offers}
<1>1. offers \subseteq Offers
  BY DEF Active
<1>2. all \subseteq Nat
  BY <1>1, ApplyToRange
<1>3. /\ o.price \in all
      /\ \A d \in all : o.price <= d
      /\ o \in Quotes
      /\ o.event # NoEvent => o.event \in offers
  <2>1. CASE offers = {}
    BY <2>1 DEF Effective, Quotes
  <2>2. CASE offers # {}
    <3>1. PICK b \in offers : /\ o = [price |-> ApplyTo(b, c), event |-> b]
                              /\ \A f \in offers : ApplyTo(b, c) <= ApplyTo(f, c)
      BY <2>2 DEF Effective
    <3>2. ApplyTo(b, c) \in 0..c
      BY <1>1, ApplyToRange
    <3>3. \A d \in all : ApplyTo(b, c) <= d
      BY <3>1, <3>2
    <3> QED BY <1>1, <3>1, <3>2, <3>3 DEF Quotes
  <2> QED BY <2>1, <2>2
<1>4. \A d \in all : (\A e \in all : d <= e) => d = o.price
  BY <1>2, <1>3
<1>5. Best(table, p, c, t) = CHOOSE d \in all : \A e \in all : d <= e
  BY DEF Best
<1>6. Best(table, p, c, t) = o.price
  <2> HIDE DEF all
  <2> QED BY <1>3, <1>4, <1>5
<1> QED BY <1>3, <1>6

-----------------------------------------------------------------------------
(* Types *)

\* Nothing is under way at the start.
LEMMA TypeInit == Init => TypeOK
<1> SUFFICES ASSUME Init PROVE TypeOK
  OBVIOUS
<1>1. request = None /\ request.pc # "pricing" /\ request \in Working
  BY DEF Init, None, Working
<1> QED BY <1>1 DEF Init, TypeOK, ProductRows

\* A table with one row more has rows of the same kind.
LEMMA OneRowMore ==
  ASSUME NEW S, NEW f, f \in [DOMAIN f -> S], NEW k, NEW v \in S
  PROVE  [x \in DOMAIN f \union {k} |-> IF x = k THEN v ELSE f[x]]
           \in [DOMAIN f \union {k} -> S]
OBVIOUS

\* What is noticed of a write keeps the request's type.
LEMMA NoticedType ==
  ASSUME TypeOK, NEW table, NEW m \in BOOLEAN, request' = Noticed(table, m),
         now' = now
  PROVE  IF request'.pc = "pricing" THEN Pricing' ELSE request' \in Working'
<1>1. CASE request.pc = "pricing"
  <2>1. Pricing
    BY <1>1 DEF TypeOK
  <2> DEFINE r == [p \in DOMAIN request.right |->
               request.right[p] \union {Best(table, p, request.rows[p], request.at)}]
  <2>2. r = [p \in DOMAIN request.rows |-> r[p]]
    BY <1>1, <2>1 DEF Pricing
  <2>3. request' = [request EXCEPT !.right = r]
    BY <1>1 DEF Noticed
  <2> HIDE DEF r
  <2> QED BY <2>1, <2>2, <2>3 DEF Pricing
<1>2. CASE request.pc = "rows"
  <2>1. request \in [pc : {"rows"}, query : Queries, asked : 0..now, total : Nat, moved : BOOLEAN]
    BY <1>2 DEF TypeOK, Working, None
  <2>2. request' = [request EXCEPT !.moved = @ \/ m]
    BY <1>2 DEF Noticed
  <2>3. request' \in [pc : {"rows"}, query : Queries, asked : 0..now', total : Nat, moved : BOOLEAN]
    BY <2>1, <2>2
  <2> QED BY <2>3 DEF Working
<1>3. CASE request.pc \notin {"pricing", "rows"}
  BY <1>3 DEF Noticed, TypeOK, Working
<1> QED BY <1>1, <1>2, <1>3

\* Rows of products are a function of some page to prices.
LEMMA RowsShape ==
  ASSUME NEW r
  PROVE  r \in ProductRows <=> DOMAIN r \subseteq Products /\ r \in [DOMAIN r -> Prices]
BY DEF ProductRows

\* A write to the products keeps the types, and those of the request that notices it.
LEMMA TypeWriteProducts ==
  ASSUME TypeOK, NEW table \in ProductRows, WriteProducts(table), saving' = saving
  PROVE  TypeOK'
<1>1. IF request'.pc = "pricing" THEN Pricing' ELSE request' \in Working'
  BY NoticedType DEF WriteProducts
<1>2. edits' \in 0..MaxEdits
  BY DEF WriteProducts, TypeOK
<1> QED BY <1>1, <1>2 DEF WriteProducts, TypeOK

\* So does a write to the events, with the form that sent it.
LEMMA TypeWriteEvents ==
  ASSUME TypeOK, NEW table, DOMAIN table \subseteq EventIds, table \in [DOMAIN table -> Offers],
         WriteEvents(table),
         saving' \in {None} \union [pc : {"create", "update"}, id : EventIds, offer : Offers]
  PROVE  TypeOK'
<1>1. IF request'.pc = "pricing" THEN Pricing' ELSE request' \in Working'
  BY NoticedType DEF WriteEvents
<1>2. edits' \in 0..MaxEdits
  BY DEF WriteEvents, TypeOK
<1> QED BY <1>1, <1>2 DEF WriteEvents, TypeOK

\* The actions of the admins.
LEMMA TypeEdit == TypeOK /\ Edit => TypeOK'
<1> SUFFICES ASSUME TypeOK, Edit PROVE TypeOK'
  OBVIOUS
<1>1. ASSUME NEW p \in Products, NEW c \in Prices, SetPrice(p, c) PROVE TypeOK'
  <2> DEFINE table == [r \in DOMAIN prices \union {p} |-> IF r = p THEN c ELSE prices[r]]
  <2>1. prices \in [DOMAIN prices -> Prices] /\ DOMAIN prices \subseteq Products
    BY RowsShape DEF TypeOK
  <2>2. table \in [DOMAIN prices \union {p} -> Prices]
    BY <2>1, OneRowMore
  <2>3. table \in ProductRows
    BY <2>1, <2>2, RowsShape
  <2>4. WriteProducts(table) /\ saving' = saving
    BY <1>1 DEF SetPrice
  <2> HIDE DEF table
  <2> QED BY <2>3, <2>4, TypeWriteProducts
<1>2. ASSUME NEW p \in Products, DropProduct(p) PROVE TypeOK'
  <2> DEFINE table == [r \in DOMAIN prices \ {p} |-> prices[r]]
  <2>1. prices \in [DOMAIN prices -> Prices] /\ DOMAIN prices \subseteq Products
    BY RowsShape DEF TypeOK
  <2>2. table \in ProductRows
    BY <2>1, RowsShape
  <2>3. WriteProducts(table) /\ saving' = saving
    BY <1>2 DEF DropProduct
  <2> HIDE DEF table
  <2> QED BY <2>2, <2>3, TypeWriteProducts
<1>3. ASSUME NEW op \in {"create", "update"}, NEW i \in EventIds, NEW e \in Offers,
             ValidateEvent(op, i, e)
      PROVE  TypeOK'
  BY <1>3 DEF ValidateEvent, TypeOK, Pricing, Working
<1>4. ASSUME StoreEvent PROVE TypeOK'
  <2>1. saving \in [pc : {"create", "update"}, id : EventIds, offer : Offers]
    BY <1>4 DEF StoreEvent, TypeOK, None
  <2> DEFINE table == [i \in DOMAIN events \union {saving.id} |->
                         IF i = saving.id THEN saving.offer ELSE events[i]]
  <2>2. events \in [DOMAIN events -> Offers] /\ DOMAIN events \subseteq EventIds
    BY DEF TypeOK
  <2>3. table \in [DOMAIN events \union {saving.id} -> Offers]
    BY <2>1, <2>2, OneRowMore
  <2>4. DOMAIN table \subseteq EventIds /\ table \in [DOMAIN table -> Offers]
    BY <2>1, <2>2, <2>3
  <2>5. WriteEvents(table) /\ saving' = None
    BY <1>4 DEF StoreEvent
  <2> HIDE DEF table
  <2> QED BY <2>4, <2>5, TypeWriteEvents
<1>5. ASSUME RejectEvent PROVE TypeOK'
  BY <1>5 DEF RejectEvent, TypeOK, Pricing, Working
<1>6. ASSUME NEW i \in EventIds, DeleteEvent(i) PROVE TypeOK'
  <2> DEFINE table == [j \in DOMAIN events \ {i} |-> events[j]]
  <2>1. DOMAIN table \subseteq EventIds /\ table \in [DOMAIN table -> Offers]
    BY DEF TypeOK
  <2>2. WriteEvents(table) /\ saving' = saving
    BY <1>6 DEF DeleteEvent
  <2>3. saving' \in {None} \union [pc : {"create", "update"}, id : EventIds, offer : Offers]
    BY <2>2 DEF TypeOK
  <2> HIDE DEF table
  <2> QED BY <2>1, <2>2, <2>3, TypeWriteEvents
<1> QED BY <1>1, <1>2, <1>3, <1>4, <1>5, <1>6 DEF Edit

\* The clock only moves within its bound.
LEMMA TypeTick == TypeOK /\ Tick => TypeOK'
<1> SUFFICES ASSUME TypeOK, Tick PROVE TypeOK'
  OBVIOUS
<1>1. now \in Nat /\ now' = now + 1 /\ now' \in 0..MaxTime
  BY DEF Tick, TypeOK
<1>2. 0..now \subseteq 0..now'
  BY <1>1
<1>3. CASE request.pc = "pricing"
  <2>1. Pricing'
    BY <1>2, <1>3 DEF Tick, TypeOK, Pricing
  <2> QED BY <1>1, <1>3, <2>1 DEF Tick, TypeOK
<1>4. CASE request.pc # "pricing"
  <2>1. request \in Working
    BY <1>4 DEF TypeOK
  <2>2. request \in Working'
    BY <1>2, <2>1 DEF Working
  <2> QED BY <1>1, <1>4, <2>2 DEF Tick, TypeOK
<1> QED BY <1>3, <1>4

\* A request that is not pricing is typed by where it is.
LEMMA TypeNotPricing ==
  ASSUME TypeOK, NEW r \in Working, r.pc # "pricing", request' = r,
         UNCHANGED <<prices, events, saving, now, edits>>
  PROVE  TypeOK'
BY DEF TypeOK, Working

\* One that is pricing is typed by what it holds.
LEMMA TypePricing ==
  ASSUME TypeOK, Pricing', request'.pc = "pricing",
         UNCHANGED <<prices, events, saving, now, edits>>
  PROVE  TypeOK'
BY DEF TypeOK

\* How many rows match is a number.
LEMMA MatchingFinite ==
  ASSUME TypeOK, NEW q
  PROVE  Cardinality(Matching(q)) \in Nat
<1>1. Matching(q) \subseteq Products
  BY RowsShape DEF Matching, TypeOK
<1> QED BY <1>1, FS_Subset, FS_CardinalityType

\* One product more is priced.
LEMMA TypePriced ==
  ASSUME TypeOK, request.pc = "pricing", NEW p \in Unpriced, NEW o \in Quotes,
         NEW s, request' = [request EXCEPT !.priced = Priced(p, o), !.right = s],
         s = [x \in DOMAIN request.rows |-> s[x]],
         UNCHANGED <<prices, events, saving, now, edits>>
  PROVE  TypeOK'
<1>1. Pricing
  BY DEF TypeOK
<1>2. Priced(p, o) \in [DOMAIN request.priced \union {p} -> Quotes]
  BY <1>1, OneRowMore DEF Pricing, Priced
<1>3. /\ DOMAIN Priced(p, o) \subseteq DOMAIN request.rows
      /\ Priced(p, o) \in [DOMAIN Priced(p, o) -> Quotes]
  BY <1>1, <1>2 DEF Pricing, Unpriced
<1>4. request' = [pc |-> "pricing", asked |-> request.asked, rows |-> request.rows,
                  at |-> request.at, priced |-> Priced(p, o), right |-> s]
  BY <1>1 DEF Pricing
<1>5. Pricing'
  BY <1>1, <1>3, <1>4 DEF Pricing
<1> QED BY <1>4, <1>5, TypePricing

\* The base price of a listed product is a price.
LEMMA RowPrice ==
  ASSUME TypeOK, request.pc = "pricing", NEW p \in Unpriced
  PROVE  p \in DOMAIN request.rows /\ request.rows[p] \in Prices
BY RowsShape DEF TypeOK, Pricing, Unpriced

\* Every statement of the request leaves it typed.
LEMMA TypeServe == TypeOK /\ Serve => TypeOK'
<1> SUFFICES ASSUME TypeOK, Serve PROVE TypeOK'
  OBVIOUS
<1> now \in 0..now
  BY DEF TypeOK
<1>1. ASSUME NEW q \in Queries, AskList(q) PROVE TypeOK'
  <2>1. [pc |-> "count", query |-> q, asked |-> now] \in Working
    BY DEF Working
  <2> QED BY <1>1, <2>1, TypeNotPricing DEF AskList, Asks
<1>2. ASSUME NEW p \in Products, AskProduct(p) PROVE TypeOK'
  <2>1. [pc |-> "get", product |-> p, asked |-> now] \in Working
    BY DEF Working
  <2> QED BY <1>2, <2>1, TypeNotPricing DEF AskProduct, Asks
<1>3. ASSUME NEW p \in Products, PriceOne(p) PROVE TypeOK'
  <2>1. p \in Unpriced /\ request.pc = "pricing" /\ Pricing
    BY <1>3 DEF PriceOne, TypeOK
  <2>2. PICK o \in Effective(request.rows[p], Active(events, p, request.at)) :
          Continue([request EXCEPT !.priced = Priced(p, o)])
    BY <1>3 DEF PriceOne
  <2>3. o \in Quotes
    BY <2>1, <2>2, RowPrice, EffectiveIsBest DEF TypeOK
  <2> DEFINE s == request.right
  <2>4. request' = [request EXCEPT !.priced = Priced(p, o), !.right = s]
        /\ UNCHANGED <<prices, events, saving, now, edits>>
    BY <2>1, <2>2 DEF Continue, Pricing
  <2>5. s = [x \in DOMAIN request.rows |-> s[x]]
    BY <2>1 DEF Pricing
  <2> HIDE DEF s
  <2> QED BY <2>1, <2>3, <2>4, <2>5, TypePriced
<1>4. ASSUME NEW p \in Products, PriceWithoutEvents(p) PROVE TypeOK'
  <2>1. p \in Unpriced /\ request.pc = "pricing" /\ Pricing
    BY <1>4 DEF PriceWithoutEvents, TypeOK
  <2> DEFINE o == [price |-> request.rows[p], event |-> NoEvent]
             s == [request.right EXCEPT ![p] = @ \union {request.rows[p]}]
  <2>2. o \in Quotes
    BY <2>1, RowPrice DEF Quotes
  <2>3. s = [x \in DOMAIN request.rows |-> s[x]]
    BY <2>1 DEF Pricing
  <2>4. request' = [request EXCEPT !.priced = Priced(p, o), !.right = s]
        /\ UNCHANGED <<prices, events, saving, now, edits>>
    BY <1>4, <2>1 DEF PriceWithoutEvents, Continue, Pricing
  <2> HIDE DEF o, s
  <2> QED BY <2>1, <2>2, <2>3, <2>4, TypePriced
<1>5. ASSUME Refuse \/ Answer PROVE TypeOK'
  <2>1. None \in Working /\ None.pc # "pricing"
    BY DEF Working, None
  <2> QED BY <1>5, <2>1, TypeNotPricing DEF Refuse, Answer, Continue
<1>6. ASSUME CountRows PROVE TypeOK'
  <2>1. request \in [pc : {"count"}, query : Queries, asked : 0..now]
    BY <1>6 DEF CountRows, TypeOK, Working, None
  <2> DEFINE n == Cardinality(Matching(request.query))
  <2>2. n \in Nat
    BY MatchingFinite
  <2>3. Continue([pc |-> "rows", query |-> request.query, asked |-> request.asked,
                  total |-> n, moved |-> FALSE])
    BY <1>6 DEF CountRows
  <2> HIDE DEF n
  <2>4. [pc |-> "rows", query |-> request.query, asked |-> request.asked,
         total |-> n, moved |-> FALSE] \in Working
    BY <2>1, <2>2 DEF Working
  <2> QED BY <2>3, <2>4, TypeNotPricing DEF Continue
<1>7. ASSUME NEW rows \in ProductRows, NEW paging \in Paging \union {None},
             request.asked \in 0..now, Read(rows, paging)
      PROVE  TypeOK'
  <2>1. [pc |-> "read", asked |-> request.asked, rows |-> rows, paging |-> paging] \in Working
    BY <1>7 DEF Working
  <2> QED BY <1>7, <2>1, TypeNotPricing DEF Read, Continue
<1>8. ASSUME ReadRows PROVE TypeOK'
  <2>1. request \in [pc : {"rows"}, query : Queries, asked : 0..now, total : Nat, moved : BOOLEAN]
    BY <1>8 DEF ReadRows, TypeOK, Working, None
  <2>2. PICK page \in PagesFor(request.query) :
          Read([p \in page |-> prices[p]],
               [query |-> request.query, total |-> request.total, moved |-> request.moved])
    BY <1>8 DEF ReadRows
  <2>3. page \subseteq DOMAIN prices
    BY <2>2 DEF PagesFor, Matching
  <2>4. [p \in page |-> prices[p]] \in ProductRows
    BY <2>3, RowsShape DEF TypeOK
  <2>5. [query |-> request.query, total |-> request.total, moved |-> request.moved] \in Paging
    BY <2>1 DEF Paging
  <2> QED BY <1>7, <2>1, <2>2, <2>4, <2>5
<1>9. ASSUME ReadProduct PROVE TypeOK'
  <2>1. request \in [pc : {"get"}, product : Products, asked : 0..now]
    BY <1>9 DEF ReadProduct, TypeOK, Working, None
  <2>2. [p \in {request.product} |-> prices[p]] \in ProductRows
    BY <1>9, RowsShape DEF ReadProduct, TypeOK
  <2> QED BY <1>7, <1>9, <2>1, <2>2 DEF ReadProduct
<1>10. ASSUME Decorate PROVE TypeOK'
  <2>1. request \in [pc : {"read"}, asked : 0..now, rows : ProductRows, paging : Paging \union {None}]
    BY <1>10 DEF Decorate, TypeOK, Working, None
  <2> DEFINE r == [p \in DOMAIN request.rows |-> {Best(events, p, request.rows[p], now)}]
             none == [p \in {} |-> NoEvent]
  <2>2. /\ request' = [pc |-> "pricing", asked |-> request.asked, rows |-> request.rows,
                       at |-> now, priced |-> none, right |-> r]
        /\ UNCHANGED <<prices, events, saving, now, edits>>
    BY <1>10 DEF Decorate, Continue
  <2>3. none \in [DOMAIN none -> Quotes] /\ DOMAIN none \subseteq DOMAIN request.rows
    OBVIOUS
  <2>4. r = [p \in DOMAIN request.rows |-> r[p]]
    OBVIOUS
  <2> HIDE DEF r, none
  <2>5. Pricing'
    BY <2>1, <2>2, <2>3, <2>4 DEF Pricing
  <2> QED BY <2>2, <2>5, TypePricing
<1>11. ASSUME ReadSomeRows PROVE TypeOK'
  <2>1. request \in [pc : {"rows"}, query : Queries, asked : 0..now, total : Nat, moved : BOOLEAN]
    BY <1>11 DEF ReadSomeRows, TypeOK, Working, None
  <2>2. PICK page \in PagesFor(request.query) : \E some \in SUBSET page :
          Read([p \in some |-> prices[p]],
               [query |-> request.query, total |-> request.total, moved |-> TRUE])
    BY <1>11 DEF ReadSomeRows
  <2>3. PICK some \in SUBSET page :
          Read([p \in some |-> prices[p]],
               [query |-> request.query, total |-> request.total, moved |-> TRUE])
    BY <2>2
  <2>4. some \subseteq DOMAIN prices
    BY <2>2, <2>3 DEF PagesFor, Matching
  <2>5. [p \in some |-> prices[p]] \in ProductRows
    BY <2>4, RowsShape DEF TypeOK
  <2>6. [query |-> request.query, total |-> request.total, moved |-> TRUE] \in Paging
    BY <2>1 DEF Paging
  <2> QED BY <1>7, <2>1, <2>3, <2>5, <2>6
<1> QED BY <1>1, <1>2, <1>3, <1>4, <1>5, <1>6, <1>8, <1>9, <1>10, <1>11 DEF Serve

\* No write, tick or statement leaves the types.
LEMMA TypeStep == TypeOK /\ [Next]_vars => TypeOK'
<1>1. TypeOK /\ UNCHANGED vars => TypeOK'
  BY DEF TypeOK, vars, Pricing, Working
<1> QED BY <1>1, TypeEdit, TypeTick, TypeServe DEF Next

\* TypeOK holds in every reachable state: whatever events exist and however
\* they change, no product is ever quoted below zero.
THEOREM TypeCorrect == Spec => []TypeOK
BY TypeInit, TypeStep, PTL DEF Spec

-----------------------------------------------------------------------------
(* Prices *)

\* What makes BestOfSomeMoment inductive: the best price of this moment is
\* among those that count.
CurrentCounts ==
  request.pc = "pricing" =>
    \A p \in DOMAIN request.rows :
      Best(events, p, request.rows[p], request.at) \in request.right[p]

\* What makes NoExpiredDiscount inductive: the clock was read after the
\* question, and no discount was over by then.
OpenAtReading ==
  request.pc = "pricing" =>
    /\ request.asked \in Nat /\ request.at \in Nat /\ request.asked <= request.at
    /\ \A p \in DOMAIN request.priced :
         request.priced[p].event # NoEvent => request.priced[p].event.ends > request.at

\* Steps that leave the request alone, or end or begin one.
LEMMA QuietStep ==
  ASSUME CurrentCounts, BestOfSomeMoment,
         request'.pc # "pricing" \/ UNCHANGED <<request, events>>
  PROVE  CurrentCounts' /\ BestOfSomeMoment'
BY DEF CurrentCounts, BestOfSomeMoment

\* A write adds the price of this very moment to the right ones.
LEMMA BestWrite ==
  ASSUME TypeOK, CurrentCounts, BestOfSomeMoment, NEW m, request' = Noticed(events', m)
  PROVE  CurrentCounts' /\ BestOfSomeMoment'
<1>1. CASE request.pc = "pricing"
  <2> DEFINE r == [p \in DOMAIN request.right |->
               request.right[p] \union {Best(events', p, request.rows[p], request.at)}]
  <2>1. Pricing
    BY <1>1 DEF TypeOK
  <2>2. request' = [request EXCEPT !.right = r]
    BY <1>1 DEF Noticed
  <2>3. /\ request'.pc = "pricing" /\ request'.rows = request.rows /\ request'.at = request.at
        /\ request'.priced = request.priced /\ request'.right = r
    BY <2>1, <2>2 DEF Pricing
  <2>4. \A p \in DOMAIN request.rows :
          /\ request.right[p] \subseteq r[p]
          /\ Best(events', p, request.rows[p], request.at) \in r[p]
    BY <2>1 DEF Pricing
  <2> HIDE DEF r
  <2>5. CurrentCounts'
    BY <2>3, <2>4 DEF CurrentCounts
  <2>6. \A p \in DOMAIN request.priced : request.priced[p].price \in r[p]
    BY <1>1, <2>1, <2>4 DEF BestOfSomeMoment, Pricing
  <2>7. BestOfSomeMoment'
    BY <2>3, <2>6 DEF BestOfSomeMoment
  <2> QED BY <2>5, <2>7
<1>2. CASE request.pc = "rows"
  <2>1. request \in [pc : {"rows"}, query : Queries, asked : 0..now, total : Nat, moved : BOOLEAN]
    BY <1>2 DEF TypeOK, Working, None
  <2>2. request'.pc = "rows"
    BY <1>2, <2>1 DEF Noticed
  <2> QED BY <2>2, QuietStep
<1>3. CASE request.pc \notin {"pricing", "rows"}
  <2>1. request'.pc # "pricing"
    BY <1>3 DEF Noticed
  <2> QED BY <2>1, QuietStep
<1> QED BY <1>1, <1>2, <1>3

\* One price more, which counts.
LEMMA BestPriced ==
  ASSUME TypeOK, CurrentCounts, BestOfSomeMoment, request.pc = "pricing",
         NEW p \in Unpriced, NEW o, NEW s,
         request' = [request EXCEPT !.priced = Priced(p, o), !.right = s],
         o.price \in s[p],
         \A x \in DOMAIN request.rows : request.right[x] \subseteq s[x],
         UNCHANGED events
  PROVE  CurrentCounts' /\ BestOfSomeMoment'
<1>1. Pricing
  BY DEF TypeOK
<1>2. /\ request'.rows = request.rows /\ request'.at = request.at
      /\ request'.priced = Priced(p, o) /\ request'.right = s
  BY <1>1 DEF Pricing
<1>3. CurrentCounts'
  BY <1>2 DEF CurrentCounts
<1>4. \A x \in DOMAIN Priced(p, o) : Priced(p, o)[x].price \in s[x]
  BY <1>1 DEF Priced, BestOfSomeMoment, Pricing
<1> QED BY <1>2, <1>3, <1>4 DEF BestOfSomeMoment

\* What is quoted was the best price of a moment of the request.
LEMMA BestStep ==
  TypeOK /\ CurrentCounts /\ BestOfSomeMoment /\ [Next]_vars
    => CurrentCounts' /\ BestOfSomeMoment'
<1> SUFFICES ASSUME TypeOK, CurrentCounts, BestOfSomeMoment, [Next]_vars
             PROVE  CurrentCounts' /\ BestOfSomeMoment'
  OBVIOUS
<1>1. ASSUME Edit PROVE CurrentCounts' /\ BestOfSomeMoment'
  <2>1. CASE UNCHANGED <<request, events>>
    BY <2>1, QuietStep
  <2>2. CASE \E m \in BOOLEAN : request' = Noticed(events', m)
    BY <2>2, BestWrite
  <2>3. (\E m \in BOOLEAN : request' = Noticed(events', m)) \/ UNCHANGED <<request, events>>
    BY <1>1 DEF Edit, SetPrice, DropProduct, WriteProducts, ValidateEvent, StoreEvent,
                RejectEvent, DeleteEvent, WriteEvents
  <2> QED BY <2>1, <2>2, <2>3
<1>2. ASSUME Tick \/ UNCHANGED vars PROVE CurrentCounts' /\ BestOfSomeMoment'
  BY <1>2, QuietStep DEF Tick, vars
<1>3. ASSUME NEW p \in Products, PriceOne(p) PROVE CurrentCounts' /\ BestOfSomeMoment'
  <2>1. p \in Unpriced /\ request.pc = "pricing" /\ Pricing
    BY <1>3 DEF PriceOne, TypeOK
  <2>2. PICK o \in Effective(request.rows[p], Active(events, p, request.at)) :
          Continue([request EXCEPT !.priced = Priced(p, o)])
    BY <1>3 DEF PriceOne
  <2>3. o.price = Best(events, p, request.rows[p], request.at)
    BY <2>1, <2>2, RowPrice, EffectiveIsBest DEF TypeOK
  <2> DEFINE s == request.right
  <2>4. request' = [request EXCEPT !.priced = Priced(p, o), !.right = s] /\ UNCHANGED events
    BY <2>1, <2>2 DEF Continue, Pricing
  <2>5. o.price \in s[p] /\ \A x \in DOMAIN request.rows : request.right[x] \subseteq s[x]
    BY <2>1, <2>3, RowPrice DEF CurrentCounts
  <2> HIDE DEF s
  <2> QED BY <2>1, <2>4, <2>5, BestPriced
<1>4. ASSUME NEW p \in Products, PriceWithoutEvents(p) PROVE CurrentCounts' /\ BestOfSomeMoment'
  <2>1. p \in Unpriced /\ request.pc = "pricing" /\ Pricing
    BY <1>4 DEF PriceWithoutEvents, TypeOK
  <2> DEFINE o == [price |-> request.rows[p], event |-> NoEvent]
             s == [request.right EXCEPT ![p] = @ \union {request.rows[p]}]
  <2>2. request' = [request EXCEPT !.priced = Priced(p, o), !.right = s] /\ UNCHANGED events
    BY <1>4, <2>1 DEF PriceWithoutEvents, Continue, Pricing
  <2>3. o.price \in s[p] /\ \A x \in DOMAIN request.rows : request.right[x] \subseteq s[x]
    BY <2>1, RowPrice DEF Pricing
  <2> HIDE DEF o, s
  <2> QED BY <2>1, <2>2, <2>3, BestPriced
<1>5. ASSUME Decorate PROVE CurrentCounts' /\ BestOfSomeMoment'
  <2> DEFINE r == [p \in DOMAIN request.rows |-> {Best(events, p, request.rows[p], now)}]
             none == [p \in {} |-> NoEvent]
  <2>1. /\ request' = [pc |-> "pricing", asked |-> request.asked, rows |-> request.rows,
                       at |-> now, priced |-> none, right |-> r]
        /\ UNCHANGED events
    BY <1>5 DEF Decorate, Continue
  <2>2. \A p \in DOMAIN request.rows : Best(events, p, request.rows[p], now) \in r[p]
    OBVIOUS
  <2>3. DOMAIN none = {}
    OBVIOUS
  <2> HIDE DEF r, none
  <2>4. CurrentCounts'
    BY <2>1, <2>2 DEF CurrentCounts
  <2>5. BestOfSomeMoment'
    BY <2>1, <2>3 DEF BestOfSomeMoment
  <2> QED BY <2>4, <2>5
<1>6. ASSUME request'.pc # "pricing" PROVE CurrentCounts' /\ BestOfSomeMoment'
  BY <1>6, QuietStep
<1>7. ASSUME NEW q \in Queries, AskList(q) PROVE request'.pc # "pricing"
  BY <1>7 DEF AskList, Asks
<1>8. ASSUME NEW p \in Products, AskProduct(p) PROVE request'.pc # "pricing"
  BY <1>8 DEF AskProduct, Asks
<1>9. ASSUME Refuse \/ CountRows \/ ReadRows \/ ReadSomeRows \/ ReadProduct \/ Answer
      PROVE  request'.pc # "pricing"
  BY <1>9 DEF Refuse, CountRows, ReadRows, ReadSomeRows, ReadProduct, Answer, Read, Continue, None
<1> QED BY <1>1, <1>2, <1>3, <1>4, <1>5, <1>6, <1>7, <1>8, <1>9 DEF Next, Serve

\* BestOfSomeMoment holds in every reachable state.
THEOREM BestPriceQuoted == Spec => []BestOfSomeMoment
<1>1. Init => CurrentCounts /\ BestOfSomeMoment
  BY DEF Init, None, CurrentCounts, BestOfSomeMoment
<1> QED BY <1>1, TypeInit, TypeStep, BestStep, PTL DEF Spec

-----------------------------------------------------------------------------
(* Expired events *)

\* Pricing a product with an event that was open at the reading keeps the rule.
LEMMA OpenPriced ==
  ASSUME TypeOK, OpenAtReading, request.pc = "pricing",
         NEW p \in Unpriced, NEW o, NEW s,
         request' = [request EXCEPT !.priced = Priced(p, o), !.right = s],
         o.event # NoEvent => o.event.ends > request.at
  PROVE  OpenAtReading'
<1>1. Pricing
  BY DEF TypeOK
<1>2. /\ request'.asked = request.asked /\ request'.at = request.at
      /\ request'.priced = Priced(p, o)
  BY <1>1 DEF Pricing
<1>3. \A x \in DOMAIN Priced(p, o) :
        Priced(p, o)[x].event # NoEvent => Priced(p, o)[x].event.ends > request.at
  BY <1>1 DEF Priced, OpenAtReading, Pricing
<1> QED BY <1>2, <1>3 DEF OpenAtReading

\* Every discount quoted comes from an event that was open at the reading.
LEMMA OpenStep == TypeOK /\ OpenAtReading /\ [Next]_vars => OpenAtReading'
<1> SUFFICES ASSUME TypeOK, OpenAtReading, [Next]_vars PROVE OpenAtReading'
  OBVIOUS
<1>1. ASSUME UNCHANGED request \/ request'.pc # "pricing" PROVE OpenAtReading'
  BY <1>1 DEF OpenAtReading
<1>2. ASSUME NEW table, NEW m, request' = Noticed(table, m) PROVE OpenAtReading'
  <2>1. CASE request.pc = "pricing"
    <3> DEFINE r == [p \in DOMAIN request.right |->
                 request.right[p] \union {Best(table, p, request.rows[p], request.at)}]
    <3>1. request' = [request EXCEPT !.right = r] /\ Pricing
      BY <1>2, <2>1 DEF Noticed, TypeOK
    <3> HIDE DEF r
    <3>2. /\ request'.asked = request.asked /\ request'.at = request.at
          /\ request'.priced = request.priced
      BY <3>1 DEF Pricing
    <3> QED BY <2>1, <3>2 DEF OpenAtReading
  <2>2. CASE request.pc = "rows"
    <3>1. request \in [pc : {"rows"}, query : Queries, asked : 0..now, total : Nat, moved : BOOLEAN]
      BY <2>2 DEF TypeOK, Working, None
    <3>2. request'.pc = "rows"
      BY <1>2, <2>2, <3>1 DEF Noticed
    <3> QED BY <1>1, <3>2
  <2>3. CASE request.pc \notin {"pricing", "rows"}
    BY <1>1, <1>2, <2>3 DEF Noticed
  <2> QED BY <2>1, <2>2, <2>3
<1>3. ASSUME Edit PROVE OpenAtReading'
  <2>1. (\E table : \E m \in BOOLEAN : request' = Noticed(table, m)) \/ UNCHANGED request
    BY <1>3 DEF Edit, SetPrice, DropProduct, WriteProducts, ValidateEvent, StoreEvent,
                RejectEvent, DeleteEvent, WriteEvents
  <2> QED BY <1>1, <1>2, <2>1
<1>4. ASSUME NEW p \in Products, PriceOne(p) PROVE OpenAtReading'
  <2>1. p \in Unpriced /\ request.pc = "pricing" /\ Pricing
    BY <1>4 DEF PriceOne, TypeOK
  <2>2. PICK o \in Effective(request.rows[p], Active(events, p, request.at)) :
          Continue([request EXCEPT !.priced = Priced(p, o)])
    BY <1>4 DEF PriceOne
  <2>3. o.event # NoEvent => o.event \in Active(events, p, request.at)
    BY <2>1, <2>2, RowPrice, EffectiveIsBest DEF TypeOK
  <2>4. o.event # NoEvent => o.event.ends > request.at
    BY <2>3 DEF Active, IsActive
  <2> DEFINE s == request.right
  <2>5. request' = [request EXCEPT !.priced = Priced(p, o), !.right = s]
    BY <2>1, <2>2 DEF Continue, Pricing
  <2> HIDE DEF s
  <2> QED BY <2>1, <2>4, <2>5, OpenPriced
<1>5. ASSUME NEW p \in Products, PriceWithoutEvents(p) PROVE OpenAtReading'
  <2>1. p \in Unpriced /\ request.pc = "pricing" /\ Pricing
    BY <1>5 DEF PriceWithoutEvents, TypeOK
  <2> DEFINE o == [price |-> request.rows[p], event |-> NoEvent]
             s == [request.right EXCEPT ![p] = @ \union {request.rows[p]}]
  <2>2. request' = [request EXCEPT !.priced = Priced(p, o), !.right = s]
    BY <1>5, <2>1 DEF PriceWithoutEvents, Continue, Pricing
  <2>3. o.event = NoEvent
    OBVIOUS
  <2> HIDE DEF o, s
  <2> QED BY <2>1, <2>2, <2>3, OpenPriced
<1>6. ASSUME Decorate PROVE OpenAtReading'
  <2>1. request \in [pc : {"read"}, asked : 0..now, rows : ProductRows, paging : Paging \union {None}]
    BY <1>6 DEF Decorate, TypeOK, Working, None
  <2>2. request.asked \in Nat /\ now \in Nat /\ request.asked <= now
    BY <2>1 DEF TypeOK
  <2> QED BY <1>6, <2>2 DEF Decorate, Continue, OpenAtReading
<1>7. ASSUME NEW q \in Queries, AskList(q) PROVE request'.pc # "pricing"
  BY <1>7 DEF AskList, Asks
<1>8. ASSUME NEW p \in Products, AskProduct(p) PROVE request'.pc # "pricing"
  BY <1>8 DEF AskProduct, Asks
<1>9. ASSUME Refuse \/ CountRows \/ ReadRows \/ ReadSomeRows \/ ReadProduct \/ Answer
      PROVE  request'.pc # "pricing"
  BY <1>9 DEF Refuse, CountRows, ReadRows, ReadSomeRows, ReadProduct, Answer, Read, Continue, None
<1>10. ASSUME Tick \/ UNCHANGED vars PROVE OpenAtReading'
  BY <1>1, <1>10 DEF Tick, vars
<1> QED BY <1>1, <1>3, <1>4, <1>5, <1>6, <1>7, <1>8, <1>9, <1>10 DEF Next, Serve

\* NoExpiredDiscount holds in every reachable state.
THEOREM ExpiredDiscountsNothing == Spec => []NoExpiredDiscount
<1>1. Init => OpenAtReading
  BY DEF Init, None, OpenAtReading
<1>2. TypeOK /\ OpenAtReading => NoExpiredDiscount
  <2> SUFFICES ASSUME TypeOK, OpenAtReading, request.pc = "pricing",
                      NEW p \in DOMAIN request.priced, request.priced[p].event # NoEvent
               PROVE  request.priced[p].event.ends > request.asked
    BY DEF NoExpiredDiscount
  <2>1. request.priced[p].event \in Offers
    BY DEF TypeOK, Pricing, Quotes
  <2>2. request.priced[p].event.ends \in Nat
    BY <2>1
  <2> QED BY <2>2 DEF OpenAtReading
<1> QED BY <1>1, <1>2, TypeInit, TypeStep, OpenStep, PTL DEF Spec

-----------------------------------------------------------------------------
(* Pages *)

\* Whatever page and size a request names, the offset and the size that come
\* of it are sound.
LEMMA PagingShape ==
  ASSUME NEW n \in Int, NEW s \in Sizes, NEW q, q.page = n, q.size = s
  PROVE  /\ PageOf(q) \in Nat /\ PageOf(q) >= 1
         /\ SizeOf(q) \in Nat /\ SizeOf(q) >= 1
         /\ (PageOf(q) - 1) * SizeOf(q) \in Nat
<1>1. PageOf(q) \in Nat /\ PageOf(q) >= 1
  BY DEF PageOf
<1>2. SizeOf(q) \in Nat /\ SizeOf(q) >= 1
  BY PagingAssumption DEF SizeOf
<1>3. ASSUME NEW a \in Nat, NEW b \in Nat, a >= 1 PROVE (a - 1) * b \in Nat
  <2>1. a - 1 \in Nat
    BY <1>3
  <2> QED BY <2>1
<1> QED BY <1>1, <1>2, <1>3

\* How long a page is.
LEMMA PageLength ==
  ASSUME TypeOK, NEW n \in Int, NEW s \in Sizes, NEW q, q.page = n, q.size = s,
         NEW page \in PagesFor(q)
  PROVE  LET all == Cardinality(Matching(q))
             past == (PageOf(q) - 1) * SizeOf(q)
             shown == Cardinality(page)
         IN  /\ shown \in Nat
             /\ shown <= SizeOf(q)
             /\ past + shown <= all \/ shown = 0
             /\ shown < SizeOf(q) => past + shown >= all
<1> DEFINE all == Cardinality(Matching(q))
           past == (PageOf(q) - 1) * SizeOf(q)
           size == SizeOf(q)
           shown == Cardinality(page)
<1>1. all \in Nat /\ past \in Nat /\ size \in Nat
  BY MatchingFinite, PagingShape
<1>2. shown = AtMost(size, all - AtMost(past, all))
  BY DEF PagesFor, Offset
<1> HIDE DEF all, past, size, shown
<1>3. /\ shown \in Nat /\ shown <= size
      /\ past + shown <= all \/ shown = 0
      /\ shown < size => past + shown >= all
  BY <1>1, <1>2 DEF AtMost
<1> QED BY <1>3 DEF all, past, size, shown

\* What makes PagesAddUp inductive: a count still stands unless a product was
\* written since it was taken.
CountStands ==
  request.pc = "rows" /\ ~request.moved =>
    request.total = Cardinality(Matching(request.query))

PagesInv == CountStands /\ PagesAddUp

\* Steps that leave what a list is about alone.
LEMMA PagesQuiet ==
  ASSUME PagesInv,
         request'.pc \notin {"rows", "read"} \/ UNCHANGED <<request, prices>>
  PROVE  PagesInv'
BY DEF PagesInv, CountStands, PagesAddUp, Matching

\* Counted, read, or disturbed in between: the page stays what its total says.
LEMMA PagesStep == TypeOK /\ PagesInv /\ [Next]_vars => PagesInv'
<1> SUFFICES ASSUME TypeOK, PagesInv, [Next]_vars PROVE PagesInv'
  OBVIOUS
<1>1. ASSUME NEW table, NEW m \in BOOLEAN, request' = Noticed(table, m),
             prices' = prices \/ m
      PROVE  PagesInv'
  <2>1. CASE request.pc = "pricing"
    <3>1. request'.pc = "pricing"
      BY <1>1, <2>1 DEF Noticed, TypeOK, Pricing
    <3> QED BY <3>1, PagesQuiet
  <2>2. CASE request.pc = "rows"
    <3>1. request \in [pc : {"rows"}, query : Queries, asked : 0..now, total : Nat, moved : BOOLEAN]
      BY <2>2 DEF TypeOK, Working, None
    <3>2. request' = [request EXCEPT !.moved = request.moved \/ m]
      BY <1>1, <2>2, <3>1 DEF Noticed
    <3>3. /\ request'.pc = "rows" /\ request'.moved = (request.moved \/ m)
          /\ request'.total = request.total /\ request'.query = request.query
      BY <3>1, <3>2
    <3>4. CountStands'
      BY <1>1, <2>2, <3>1, <3>3 DEF PagesInv, CountStands, Matching
    <3>5. PagesAddUp'
      BY <3>3 DEF PagesAddUp
    <3> QED BY <3>4, <3>5 DEF PagesInv
  <2>3. CASE request.pc \notin {"pricing", "rows"}
    <3>1. UNCHANGED request
      BY <1>1, <2>3 DEF Noticed
    <3>2. PagesAddUp'
      BY <3>1 DEF PagesInv, PagesAddUp
    <3>3. CountStands'
      BY <2>3, <3>1 DEF CountStands
    <3> QED BY <3>2, <3>3 DEF PagesInv
  <2> QED BY <2>1, <2>2, <2>3
<1>2. ASSUME Edit PROVE PagesInv'
  <2>1. ASSUME NEW table, WriteProducts(table) PROVE PagesInv'
    BY <1>1, <2>1 DEF WriteProducts
  <2>2. ASSUME NEW table, WriteEvents(table) PROVE PagesInv'
    BY <1>1, <2>2 DEF WriteEvents
  <2>3. ASSUME UNCHANGED <<prices, request>> PROVE PagesInv'
    BY <2>3, PagesQuiet
  <2> QED BY <1>2, <2>1, <2>2, <2>3 DEF Edit, SetPrice, DropProduct, ValidateEvent,
             StoreEvent, RejectEvent, DeleteEvent
<1>3. ASSUME CountRows PROVE PagesInv'
  <2>1. request \in [pc : {"count"}, query : Queries, asked : 0..now]
    BY <1>3 DEF CountRows, TypeOK, Working, None
  <2>2. /\ request'.pc = "rows" /\ request'.query = request.query
        /\ request'.total = Cardinality(Matching(request.query)) /\ UNCHANGED prices
    BY <1>3 DEF CountRows, Continue
  <2>3. Matching(request.query)' = Matching(request'.query)
    BY <2>2 DEF Matching
  <2> QED BY <2>2 DEF PagesInv, CountStands, PagesAddUp, Matching
<1>4. ASSUME ReadRows PROVE PagesInv'
  <2>1. request \in [pc : {"rows"}, query : Queries, asked : 0..now, total : Nat, moved : BOOLEAN]
    BY <1>4 DEF ReadRows, TypeOK, Working, None
  <2> DEFINE q == request.query
  <2>2. PICK page \in PagesFor(q) : Read([p \in page |-> prices[p]],
              [query |-> q, total |-> request.total, moved |-> request.moved])
    BY <1>4 DEF ReadRows
  <2>3. /\ request'.pc = "read" /\ DOMAIN request'.rows = page
        /\ request'.paging.query = q /\ request'.paging.total = request.total
        /\ request'.paging.moved = request.moved
    BY <2>2 DEF Read, Continue
  <2>4. q.page \in Int /\ q.size \in Sizes
    BY <2>1, PagingAssumption DEF Queries
  <2>5. CASE request.moved
    BY <2>3, <2>5 DEF PagesInv, PagesAddUp, CountStands
  <2>6. CASE ~request.moved
    <3>1. request.total = Cardinality(Matching(q))
      BY <1>4, <2>6 DEF PagesInv, CountStands, ReadRows
    <3> DEFINE total == request.total
               shown == Cardinality(page)
               past == (PageOf(q) - 1) * SizeOf(q)
    <3>2. /\ shown <= SizeOf(q)
          /\ past + shown <= total \/ shown = 0
          /\ shown < SizeOf(q) => past + shown >= total
      BY <2>2, <2>4, <3>1, PageLength
    <3>3. PagesAddUp'
      BY <2>3, <3>2 DEF PagesAddUp, PageOf, SizeOf
    <3> QED BY <2>3, <3>3 DEF PagesInv, CountStands
  <2> QED BY <2>5, <2>6
<1>5. ASSUME ReadSomeRows PROVE PagesInv'
  <2>1. request'.pc = "read" /\ request'.paging.moved
    BY <1>5 DEF ReadSomeRows, Read, Continue
  <2> QED BY <2>1 DEF PagesInv, PagesAddUp, CountStands
<1>6. ASSUME ReadProduct PROVE PagesInv'
  <2>1. request'.pc = "read" /\ request'.paging = None
    BY <1>6 DEF ReadProduct, Read, Continue
  <2> QED BY <2>1 DEF PagesInv, PagesAddUp, CountStands
<1>7. ASSUME NEW p \in Products, PriceOne(p) \/ PriceWithoutEvents(p) PROVE PagesInv'
  <2>1. request.pc = "pricing" /\ Pricing
    BY <1>7 DEF PriceOne, PriceWithoutEvents, TypeOK
  <2>2. request'.pc = "pricing"
    BY <1>7, <2>1 DEF PriceOne, PriceWithoutEvents, Continue, Pricing
  <2> QED BY <2>2, PagesQuiet
<1>8. ASSUME \/ \E q \in Queries : AskList(q)
             \/ \E p \in Products : AskProduct(p)
             \/ Refuse \/ Decorate \/ Answer
      PROVE  PagesInv'
  <2>1. request'.pc \notin {"rows", "read"}
    BY <1>8 DEF AskList, AskProduct, Asks, Refuse, Decorate, Answer, Continue, None
  <2> QED BY <2>1, PagesQuiet
<1>9. ASSUME Tick \/ UNCHANGED vars PROVE PagesInv'
  BY <1>9, PagesQuiet DEF Tick, vars
<1> QED BY <1>2, <1>3, <1>4, <1>5, <1>6, <1>7, <1>8, <1>9 DEF Next, Serve

\* PagesAddUp holds in every reachable state: for any number of products and
\* any page and size asked for, a page that was read to its end is as long as
\* its total says, unless a product was written in between.
THEOREM PagesMatchTotal == Spec => []PagesAddUp
<1>1. Init => PagesInv
  BY DEF Init, None, PagesInv, CountStands, PagesAddUp
<1>2. PagesInv => PagesAddUp
  BY DEF PagesInv
<1> QED BY <1>1, <1>2, TypeInit, TypeStep, PagesStep, PTL DEF Spec

\* The place of a product among the matching ones, counted from zero.
Place(all, p) == Cardinality({r \in all : r < p})

\* The first products of an order are those whose place is below their number.
LEMMA FirstByPlace ==
  ASSUME NEW all, all \subseteq Nat, IsFiniteSet(all), NEW first, first \subseteq all,
         \A d \in first, r \in all \ first : d <= r,
         NEW p \in all
  PROVE  /\ Place(all, p) \in Nat
         /\ p \in first <=> Place(all, p) < Cardinality(first)
<1> DEFINE lower == {r \in all : r < p}
<1>1. /\ IsFiniteSet(lower) /\ Cardinality(lower) \in Nat
      /\ IsFiniteSet(first) /\ Cardinality(first) \in Nat
  <2>1. lower \subseteq all
    OBVIOUS
  <2> QED BY <2>1, FS_Subset, FS_CardinalityType
<1>2. CASE p \in first
  <2>1. lower \subseteq first \ {p}
    <3> SUFFICES ASSUME NEW r \in lower PROVE r \in first /\ r # p
      OBVIOUS
    <3>1. r < p /\ r \in all /\ r \in Nat /\ p \in Nat
      OBVIOUS
    <3>2. r \notin first => p <= r
      BY <1>2, <3>1
    <3> QED BY <3>1, <3>2
  <2>2. Cardinality(first \ {p}) = Cardinality(first) - 1 /\ IsFiniteSet(first \ {p})
    BY <1>1, <1>2, FS_RemoveElement
  <2>3. Cardinality(lower) <= Cardinality(first) - 1
    BY <2>1, <2>2, FS_Subset
  <2> QED BY <1>1, <1>2, <2>3 DEF Place
<1>3. CASE p \notin first
  <2>1. first \subseteq lower
    <3> SUFFICES ASSUME NEW d \in first PROVE d < p
      OBVIOUS
    <3>1. d <= p /\ d # p /\ d \in Nat /\ p \in Nat
      BY <1>3
    <3> QED BY <3>1
  <2>2. Cardinality(first) <= Cardinality(lower)
    BY <1>1, <2>1, FS_Subset
  <2> QED BY <1>1, <1>3, <2>2 DEF Place
<1> QED BY <1>2, <1>3

\* In the order of the ids a page holds the products whose places it covers.
LEMMA PageByPlace ==
  ASSUME TypeOK, NEW n \in Int, NEW s \in Sizes, NEW q, q.page = n, q.size = s,
         q.sort = "id", NEW page \in PagesFor(q), NEW p \in Matching(q)
  PROVE  LET place == Place(Matching(q), p)
             past == (PageOf(q) - 1) * SizeOf(q)
         IN  p \in page <=> past <= place /\ place < past + SizeOf(q)
<1> DEFINE all == Matching(q)
           past == (PageOf(q) - 1) * SizeOf(q)
           size == SizeOf(q)
           skipped == AtMost(past, Cardinality(all))
           taken == AtMost(size, Cardinality(all) - skipped)
           place == Place(all, p)
<1>1. all \subseteq Nat /\ IsFiniteSet(all)
  <2>1. all \subseteq Products
    BY RowsShape DEF Matching, TypeOK
  <2> QED BY <2>1, FS_Subset
<1>2. past \in Nat /\ size \in Nat
  BY PagingShape
<1>3. /\ page \subseteq all /\ Cardinality(page) = taken
      /\ \E before \in SUBSET (all \ page) :
           /\ Cardinality(before) = skipped
           /\ \A b \in before, r \in page : b <= r
           /\ \A b \in before \union page, r \in all \ (before \union page) : b <= r
  BY DEF PagesFor, Offset, NotAfter
<1>4. PICK before \in SUBSET (all \ page) :
           /\ Cardinality(before) = skipped
           /\ \A b \in before, r \in page : b <= r
           /\ \A b \in before \union page, r \in all \ (before \union page) : b <= r
  BY <1>3
<1> HIDE DEF all, past, size
<1>5. p \in all
  BY DEF all
<1>6. \A d \in before, r \in all \ before : d <= r
  BY <1>4
<1>7. place \in Nat /\ (p \in before <=> place < skipped)
  <2>1. before \subseteq all
    BY <1>4
  <2>2. Place(all, p) \in Nat /\ (p \in before <=> Place(all, p) < Cardinality(before))
    BY <1>1, <1>5, <1>6, <2>1, FirstByPlace
  <2> QED BY <1>4, <2>2
<1>8. p \in before \union page <=> place < Cardinality(before \union page)
  <2>1. before \union page \subseteq all
    BY <1>3, <1>4
  <2> QED BY <1>1, <1>4, <1>5, <2>1, FirstByPlace
<1>9. /\ Cardinality(all) \in Nat
      /\ Cardinality(before \union page) = skipped + taken
  <2>1. IsFiniteSet(before) /\ IsFiniteSet(page) /\ before \cap page = {}
    BY <1>1, <1>3, <1>4, FS_Subset
  <2>2. /\ Cardinality(before) \in Nat /\ Cardinality(page) \in Nat
        /\ Cardinality(before \union page)
             = Cardinality(before) + Cardinality(page) - Cardinality(before \cap page)
    BY <2>1, FS_CardinalityType, FS_Union
  <2>3. Cardinality(before \cap page) = 0
    BY <2>1, FS_EmptySet
  <2> QED BY <1>1, <1>3, <1>4, <2>2, <2>3, FS_CardinalityType
<1>10. place < Cardinality(all)
  <2>1. \A d \in all, r \in all \ all : d <= r
    OBVIOUS
  <2> QED BY <1>1, <1>5, <2>1, FirstByPlace
<1>11. p \in page <=> ~(place < skipped) /\ place < skipped + taken
  BY <1>4, <1>7, <1>8, <1>9
<1> DEFINE total == Cardinality(all)
<1> HIDE DEF total, place
<1>12. ~(place < skipped) /\ place < skipped + taken <=> past <= place /\ place < past + size
  BY <1>2, <1>7, <1>9, <1>10 DEF AtMost, total
<1> QED BY <1>11, <1>12 DEF all, past, size, place, total

\* The list request whose pages PagesCoverOnce walks.
ById(n, s, f) == [page |-> n, size |-> s, floor |-> f, sort |-> "id"]

\* A product has a page of its own, and it is one of the pages walked.
LEMMA OwnPage ==
  ASSUME TypeOK, NEW s \in Sizes, NEW f, NEW p \in Matching(ById(1, s, f))
  PROVE  \E n \in 1..Cardinality(Products) :
            /\ \A page \in PagesFor(ById(n, s, f)) : p \in page
            /\ \A m \in 1..Cardinality(Products) \ {n} :
                 \A page \in PagesFor(ById(m, s, f)) : p \notin page
<1> DEFINE all == Matching(ById(1, s, f))
           size == SizeOf(ById(1, s, f))
           place == Place(all, p)
           n == place \div size + 1
           products == Cardinality(Products)
<1>1. ASSUME NEW m \in 1..products
      PROVE  /\ Matching(ById(m, s, f)) = all /\ SizeOf(ById(m, s, f)) = size
             /\ PageOf(ById(m, s, f)) = m
  BY FS_CardinalityType DEF ById, Matching, SizeOf, PageOf
<1>2. all \subseteq Products /\ all \subseteq Nat /\ IsFiniteSet(all)
  <2>1. all \subseteq Products
    BY RowsShape DEF Matching, TypeOK
  <2> QED BY <2>1, FS_Subset
<1>3. place \in Nat /\ place < products /\ products \in Nat
  <2>1. place \in Nat /\ place < Cardinality(all)
    <3>1. \A d \in all, r \in all \ all : d <= r
      OBVIOUS
    <3> HIDE DEF all
    <3> QED BY <1>2, <3>1, FirstByPlace DEF all
  <2>2. Cardinality(all) <= products /\ products \in Nat /\ Cardinality(all) \in Nat
    BY <1>2, FS_Subset, FS_CardinalityType
  <2> HIDE DEF place, all, products
  <2> QED BY <2>1, <2>2
<1>4. size \in Nat /\ size > 0
  <2>1. size \in Nat /\ size >= 1
    <3> DEFINE q == ById(1, s, f)
    <3>1. q.page = 1 /\ q.size = s
      BY DEF ById
    <3> HIDE DEF q
    <3>2. SizeOf(q) \in Nat /\ SizeOf(q) >= 1
      BY <3>1, PagingShape
    <3> QED BY <3>2 DEF q
  <2> HIDE DEF size
  <2> QED BY <2>1
<1>5. ASSUME NEW m \in 1..products, NEW page \in PagesFor(ById(m, s, f))
      PROVE  p \in page <=> (m - 1) * size <= place /\ place < (m - 1) * size + size
  <2>1. p \in Matching(ById(m, s, f))
    BY <1>1
  <2> DEFINE q == ById(m, s, f)
  <2>2. q.page = m /\ q.size = s /\ q.sort = "id" /\ m \in Int
    BY <1>3 DEF ById
  <2> HIDE DEF q
  <2>3. p \in page <=> (PageOf(q) - 1) * SizeOf(q) <= Place(Matching(q), p)
                        /\ Place(Matching(q), p) < (PageOf(q) - 1) * SizeOf(q) + SizeOf(q)
    BY <2>1, <2>2, PageByPlace DEF q
  <2> QED BY <1>1, <2>3 DEF q
<1> HIDE DEF all, size, place, products
<1>6. /\ n \in 1..products
      /\ (n - 1) * size <= place /\ place < (n - 1) * size + size
      /\ \A m \in Nat : m # n => ~((m - 1) * size <= place /\ place < (m - 1) * size + size)
  <2>1. /\ n \in Nat /\ n <= place + 1 /\ n >= 1
        /\ (n - 1) * size <= place /\ place < (n - 1) * size + size
        /\ \A m \in Nat : m # n => ~((m - 1) * size <= place /\ place < (m - 1) * size + size)
    BY <1>3, <1>4, PlaceOnOnePage
  <2> HIDE DEF n
  <2> QED BY <1>3, <2>1
<1> HIDE DEF n
<1>7. \A page \in PagesFor(ById(n, s, f)) : p \in page
  BY <1>5, <1>6
<1>8. \A m \in 1..products \ {n} : \A page \in PagesFor(ById(m, s, f)) : p \notin page
  <2> SUFFICES ASSUME NEW m \in 1..products \ {n}, NEW page \in PagesFor(ById(m, s, f))
               PROVE  p \notin page
    OBVIOUS
  <2>1. m \in Nat /\ m # n
    BY <1>3
  <2> QED BY <1>5, <1>6, <2>1
<1> QED BY <1>6, <1>7, <1>8 DEF products

\* PagesCoverOnce holds in every reachable state: whatever the products and
\* their prices, and whatever the size of a page comes to.
THEOREM PagesCoverAll == Spec => []PagesCoverOnce
<1>1. TypeOK => PagesCoverOnce
  BY OwnPage DEF PagesCoverOnce, ById
<1> QED BY <1>1, TypeInit, TypeStep, PTL DEF Spec

=============================================================================
