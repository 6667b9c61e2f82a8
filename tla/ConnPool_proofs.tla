--------------------------- MODULE ConnPool_proofs ---------------------------
(***************************************************************************)
(* Proofs about ConnPool, for every set of requests and every size of the  *)
(* pool: the pool stays within its cap, no connection outlives the request *)
(* that took it, and the pool cannot run dry for good unless MaxConns      *)
(* product lists read their pages at once.                                 *)
(***************************************************************************)
EXTENDS ConnPool, FiniteSetTheorems, TLAPS

(* Within a page the number of products left never exceeds the page; the   *)
(* second connection of a request is open exactly while it reads a page;   *)
(* only a request at a statement runs one; only a list asks for the list.  *)
Counting == \A r \in Paging : left[r] <= page[r]
Accounting ==
  /\ open = Paging
  /\ \A r \in running : stage[r] \in Statements
  /\ InUse <= MaxConns
ListStages == {"count", "list", "images", "options", "events"}
OnlyLists == \A r \in Requests : stage[r] \in ListStages => r \in Lists

IInv == TypeOK /\ Counting /\ Accounting /\ OnlyLists

-----------------------------------------------------------------------------
\* Any set of requests can be counted.
LEMMA FiniteRequests ==
  ASSUME NEW S, S \subseteq Requests
  PROVE  IsFiniteSet(S) /\ Cardinality(S) \in Nat
  BY FS_Subset, FS_CardinalityType, RequestsAssumption

(* Giving a statement's connection back frees exactly one. *)
LEMMA Release ==
  ASSUME TypeOK, NEW r \in running
  PROVE  Cardinality(running \ {r}) = Cardinality(running) - 1
  BY FiniteRequests, FS_RemoveElement DEF TypeOK

\* At the start nobody runs a statement or keeps rows open.
LEMMA InitHolds == Init => IInv
<1> SUFFICES ASSUME Init PROVE IInv
  OBVIOUS
<1>1. TypeOK
  BY SizesAssumption DEF Init, TypeOK, Statements
<1>2. Paging = {}
  BY DEF Init, Paging
<1>3. InUse = 0
  BY FS_EmptySet DEF Init, InUse
<1>4. Accounting
  BY <1>2, <1>3, SizesAssumption DEF Init, Accounting
<1>5. QED
  BY <1>1, <1>2, <1>4 DEF IInv, Init, Counting, OnlyLists, ListStages

(* One lemma per part of the invariant. *)
LEMMA TypeStep ==
  ASSUME IInv, NEW r \in Requests, Handle(r)
  PROVE  TypeOK'
<1> USE SizesAssumption DEF IInv, TypeOK, Statements
<1>1. CASE Arrive(r)
  BY <1>1 DEF Arrive
<1>2. CASE Acquire(r)
  BY <1>2 DEF Acquire
<1>3. CASE Count(r)
  BY <1>3 DEF Count, EndStatement
<1>4. CASE OpenRows(r)
  BY <1>4 DEF OpenRows, EndStatement
<1>5. CASE Images(r)
  BY <1>5 DEF Images, EndStatement
<1>6. CASE Options(r)
  <2>1. left[r] <= page[r] /\ left[r] \in Nat /\ page[r] \in 0..PageSize /\ left[r] > 0
    BY <1>6 DEF Options, Counting, Paging
  <2>2. page[r] - left[r] + 1 \in 1..PageSize
    BY <2>1
  <2>3. CASE left[r] > 1 /\ EndStatement(r, "images")
             /\ left' = [left EXCEPT ![r] = left[r] - 1] /\ UNCHANGED <<page, open>>
    BY <2>1, <2>3 DEF EndStatement
  <2>4. CASE /\ EndStatement(r, "events")
             /\ page' = [page EXCEPT ![r] = page[r] - left[r] + 1]
             /\ left' = [left EXCEPT ![r] = page[r] - left[r] + 1]
             /\ open' = open \ {r}
    BY <2>2, <2>4 DEF EndStatement
  <2>5. QED
    BY <1>6, <2>3, <2>4 DEF Options
<1>7. CASE BadRow(r)
  BY <1>7 DEF BadRow, EndStatement
<1>8. CASE OneByOne(r)
  BY <1>8 DEF OneByOne, EndStatement
<1>9. CASE GiveUp(r)
  BY <1>9 DEF GiveUp, EndStatement
<1>10. QED
  BY <1>1, <1>2, <1>3, <1>4, <1>5, <1>6, <1>7, <1>8, <1>9 DEF Handle

\* A page is left row by row, and never below zero.
LEMMA CountingStep ==
  ASSUME IInv, NEW r \in Requests, Handle(r)
  PROVE  Counting'
<1> USE SizesAssumption DEF IInv, TypeOK, Statements, Counting, Paging
<1>1. CASE Arrive(r)
  BY <1>1 DEF Arrive
<1>2. CASE Acquire(r)
  BY <1>2 DEF Acquire
<1>3. CASE Count(r)
  BY <1>3 DEF Count, EndStatement
<1>4. CASE OpenRows(r)
  BY <1>4 DEF OpenRows, EndStatement
<1>5. CASE Images(r)
  BY <1>5 DEF Images, EndStatement
<1>6. CASE Options(r)
  BY <1>6 DEF Options, EndStatement
<1>7. CASE BadRow(r)
  BY <1>7 DEF BadRow, EndStatement
<1>8. CASE OneByOne(r)
  BY <1>8 DEF OneByOne, EndStatement
<1>9. CASE GiveUp(r)
  BY <1>9 DEF GiveUp, EndStatement
<1>10. QED
  BY <1>1, <1>2, <1>3, <1>4, <1>5, <1>6, <1>7, <1>8, <1>9 DEF Handle

\* Only a list of products comes to the stages that hold rows open.
LEMMA OnlyListsStep ==
  ASSUME IInv, NEW r \in Requests, Handle(r)
  PROVE  OnlyLists'
<1> USE DEF IInv, TypeOK, Statements, OnlyLists, ListStages
<1>1. CASE Arrive(r)
  BY <1>1 DEF Arrive
<1>2. CASE Acquire(r)
  BY <1>2 DEF Acquire
<1>3. CASE Count(r) \/ OpenRows(r) \/ Images(r) \/ Options(r) \/ BadRow(r)
  BY <1>3 DEF Count, OpenRows, Images, Options, BadRow, EndStatement
<1>4. CASE OneByOne(r) \/ GiveUp(r)
  BY <1>4 DEF OneByOne, GiveUp, EndStatement
<1>5. QED
  BY <1>1, <1>2, <1>3, <1>4 DEF Handle

(* Which requests keep a second connection, and which run a statement. *)
LEMMA HoldersStep ==
  ASSUME IInv, NEW r \in Requests, Handle(r)
  PROVE  /\ (open = Paging)'
         /\ (\A q \in running : stage[q] \in Statements)'
<1> USE DEF IInv, TypeOK, Statements, Accounting, Paging
<1>1. CASE Arrive(r) \/ Acquire(r)
  BY <1>1 DEF Arrive, Acquire
<1>2. CASE Count(r) \/ Images(r) \/ OneByOne(r) \/ GiveUp(r)
  BY <1>2 DEF Count, Images, OneByOne, GiveUp, EndStatement
<1>3. CASE OpenRows(r)
  BY <1>3 DEF OpenRows, EndStatement
<1>4. CASE Options(r)
  BY <1>4 DEF Options, EndStatement
<1>5. CASE BadRow(r)
  BY <1>5 DEF BadRow, EndStatement
<1>6. QED
  BY <1>1, <1>2, <1>3, <1>4, <1>5 DEF Handle

(* The cap: a connection is taken only when one is free, and the list's    *)
(* rows keep the connection their statement had.                           *)
LEMMA CapStep ==
  ASSUME IInv, NEW r \in Requests, Handle(r)
  PROVE  (InUse <= MaxConns)'
<1>1. /\ Cardinality(running) \in Nat /\ Cardinality(open) \in Nat
      /\ Cardinality(running) + Cardinality(open) <= MaxConns
      /\ IsFiniteSet(running) /\ IsFiniteSet(open)
      /\ MaxConns \in Nat
  BY FiniteRequests, SizesAssumption DEF IInv, TypeOK, Accounting, InUse
<1>2. CASE Arrive(r)
  BY <1>1, <1>2 DEF Arrive, InUse
<1>3. CASE Acquire(r)
  <2>1. Cardinality(running') = Cardinality(running) + 1
    BY <1>1, <1>3, FS_AddElement DEF Acquire
  <2>2. Cardinality(running) + Cardinality(open) < MaxConns
    BY <1>3 DEF Acquire, Free, InUse
  <2>3. open' = open
    BY <1>3 DEF Acquire
  <2>4. QED
    BY <1>1, <2>1, <2>2, <2>3 DEF InUse
<1>4. CASE OpenRows(r)
  <2>1. r \in running /\ running' = running \ {r}
    BY <1>4 DEF OpenRows, EndStatement
  <2>2. Cardinality(running') = Cardinality(running) - 1
    BY <2>1, Release DEF IInv
  <2>3. Cardinality(open') <= Cardinality(open) + 1 /\ Cardinality(open') \in Nat
    <3>1. CASE open' = open
      BY <1>1, <3>1
    <3>2. CASE open' = open \union {r}
      <4>1. \/ Cardinality(open \union {r}) = Cardinality(open)
            \/ Cardinality(open \union {r}) = Cardinality(open) + 1
        BY <1>1, FS_AddElement
      <4>2. QED
        BY <1>1, <3>2, <4>1
    <3>3. QED
      BY <1>4, <3>1, <3>2 DEF OpenRows
  <2>4. QED
    BY <1>1, <2>2, <2>3 DEF InUse
<1>5. CASE Options(r) \/ BadRow(r) \/ Count(r) \/ Images(r) \/ OneByOne(r) \/ GiveUp(r)
  <2>1. r \in running /\ running' = running \ {r}
    BY <1>5 DEF Options, BadRow, Count, Images, OneByOne, GiveUp, EndStatement
  <2>2. Cardinality(running') = Cardinality(running) - 1
    BY <2>1, Release DEF IInv
  <2>3. open' = open \/ open' = open \ {r}
    BY <1>5 DEF Options, BadRow, Count, Images, OneByOne, GiveUp
  <2>4. Cardinality(open') <= Cardinality(open) /\ Cardinality(open') \in Nat
    <3>1. open' \subseteq open
      BY <2>3
    <3>2. QED
      BY <1>1, <3>1, FS_Subset, FS_CardinalityType
  <2>5. QED
    BY <1>1, <2>2, <2>4 DEF InUse
<1>6. QED
  BY <1>2, <1>3, <1>4, <1>5 DEF Handle

-----------------------------------------------------------------------------
(* Every step of every request keeps the invariant. *)
THEOREM Inductive == IInv /\ [Next]_vars => IInv'
<1> SUFFICES ASSUME IInv, [Next]_vars PROVE IInv'
  OBVIOUS
<1>1. CASE Next
  <2>1. PICK r \in Requests : Handle(r)
    BY <1>1 DEF Next
  <2>2. Accounting'
    BY <2>1, HoldersStep, CapStep DEF Accounting
  <2>3. QED
    BY <2>1, <2>2, TypeStep, CountingStep, OnlyListsStep DEF IInv
<1>2. CASE UNCHANGED vars
  BY <1>2 DEF vars, IInv, TypeOK, Counting, Accounting, OnlyLists, Paging,
              InUse, Statements, ListStages
<1>3. QED
  BY <1>1, <1>2

\* The invariant holds in every reachable state.
THEOREM Invariance == Spec => []IInv
BY InitHolds, Inductive, PTL DEF Spec

(* The variables keep their types: no page or statement counter underflows. *)
THEOREM TypeCorrect == Spec => []TypeOK
<1>1. IInv => TypeOK
  BY DEF IInv
<1>2. QED
  BY <1>1, Invariance, PTL

(* The pool stays within DB_MAX_OPEN_CONNS and no answered request keeps a  *)
(* connection, whichever of its returns the handler took.                  *)
THEOREM NoLeaks == Spec => []NoConnLeaks
<1>1. IInv => NoConnLeaks
  BY DEF IInv, Accounting, NoConnLeaks, Paging, Statements
<1>2. QED
  BY <1>1, Invariance, PTL

-----------------------------------------------------------------------------
(* If nobody can move, the connections all belong to open pages. *)
LEMMA AllHeldByPages ==
  ASSUME IInv, \A r \in Unanswered : ~CanMove(r), Unanswered # {}
  PROVE  Cardinality(Paging) >= MaxConns
<1>1. running \subseteq Unanswered
  BY DEF IInv, TypeOK, Accounting, Unanswered, Statements
<1>2. running = {}
  BY <1>1 DEF CanMove
<1>3. InUse = Cardinality(Paging) /\ Cardinality(Paging) \in Nat
  BY <1>2, FS_EmptySet, FiniteRequests DEF InUse, IInv, Accounting, Paging
<1>4. ~(InUse < MaxConns)
  BY DEF CanMove, Free
<1>5. QED
  BY <1>3, <1>4, SizesAssumption

(* While fewer than MaxConns lists read their pages, some request can go    *)
(* on: no other handler can take part in a deadlock of the pool.           *)
THEOREM Progress == Spec => []NeverStuck
<1>1. IInv => NeverStuck
  <2> SUFFICES ASSUME IInv, Cardinality(Paging) < MaxConns, Unanswered # {},
                      \A r \in Unanswered : ~CanMove(r)
               PROVE  FALSE
    BY DEF NeverStuck
  <2>1. Cardinality(Paging) >= MaxConns /\ Cardinality(Paging) \in Nat
    BY AllHeldByPages, FiniteRequests DEF Paging
  <2>2. QED
    BY <2>1, SizesAssumption
<1>2. QED
  BY <1>1, Invariance, PTL

(* A deployment where fewer lists than connections can be in progress at    *)
(* once never runs dry at all.                                             *)
THEOREM EnoughConnections ==
  ASSUME Cardinality(Lists) < MaxConns
  PROVE  Spec => [](Unanswered # {} => \E r \in Unanswered : CanMove(r))
<1>1. IInv => Cardinality(Paging) < MaxConns
  <2> SUFFICES ASSUME IInv PROVE Cardinality(Paging) < MaxConns
    OBVIOUS
  <2>1. Paging \subseteq Lists
    BY DEF IInv, OnlyLists, Paging, ListStages
  <2>2. IsFiniteSet(Lists) /\ Cardinality(Lists) \in Nat
    BY FiniteRequests, RequestsAssumption
  <2>3. Cardinality(Paging) <= Cardinality(Lists) /\ Cardinality(Paging) \in Nat
    BY <2>1, <2>2, FS_Subset, FS_CardinalityType
  <2>4. QED
    BY <2>2, <2>3, SizesAssumption
<1>2. IInv /\ NeverStuck => (Unanswered # {} => \E r \in Unanswered : CanMove(r))
  BY <1>1 DEF NeverStuck
<1>3. QED
  BY <1>2, Invariance, Progress, PTL

=============================================================================
