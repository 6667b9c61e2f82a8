------------------------------ MODULE ConnPool ------------------------------
(***************************************************************************)
(* The HTTP handlers of the backend and the connections they share.        *)
(*                                                                         *)
(* Every repository works on one *sql.DB whose pool opens at most MaxConns *)
(* connections (db.go, SetMaxOpenConns).  A statement takes a connection   *)
(* and gives it back when it ends; a transaction takes one and uses no     *)
(* other, so the pool sees it as one long statement.  The product list is  *)
(* the exception: GetAllFiltered reads the images and the options of each  *)
(* product, two statements of their own, while the rows of the list are    *)
(* still open and keep a connection.  No call passes a context, so a       *)
(* request that finds the pool empty waits for as long as it takes.        *)
(*                                                                         *)
(* A waiting request is one whose stage is a statement that has not yet    *)
(* got its connection; the pool may serve the waiting ones in any order.   *)
(***************************************************************************)
EXTENDS Naturals, FiniteSets

CONSTANTS
  Requests,   \* the requests that reach the server
  Lists,      \* those that ask for the product list
  MaxConns,   \* DB_MAX_OPEN_CONNS
  PageSize,   \* the most products on a page of the list
  Steps       \* the most statements of any other handler

ASSUME RequestsAssumption == IsFiniteSet(Requests) /\ Lists \subseteq Requests
ASSUME SizesAssumption ==
  /\ MaxConns \in Nat \ {0}
  /\ PageSize \in Nat
  /\ Steps \in Nat \ {0}

VARIABLES
  stage,     \* the statement each request has come to
  left,      \* products (or statements) each request still has to go through
  page,      \* products on the page a list read
  running,   \* requests whose current statement has a connection
  open       \* requests that keep a second one under an unfinished result set

vars == <<stage, left, page, running, open>>

Statements == {"count", "list", "images", "options", "events", "plain"}

TypeOK ==
  /\ stage \in [Requests -> Statements \union {"new", "answered"}]
  /\ left \in [Requests -> Nat]
  /\ page \in [Requests -> 0..PageSize]
  /\ running \subseteq Requests
  /\ open \subseteq Requests
  /\ \A r \in Requests :
        stage[r] \in {"images", "options", "events", "plain"} => left[r] > 0

\* Connections taken from the pool (sql.DB's numOpen less the idle ones).
InUse == Cardinality(running) + Cardinality(open)
Free == InUse < MaxConns

-----------------------------------------------------------------------------
(* Handlers *)

Init ==
  /\ stage = [r \in Requests |-> "new"]
  /\ left = [r \in Requests |-> 0]
  /\ page = [r \in Requests |-> 0]
  /\ running = {}
  /\ open = {}

Arrive(r) ==
  /\ stage[r] = "new"
  /\ \/ /\ r \in Lists
        /\ stage' = [stage EXCEPT ![r] = "count"]
        /\ UNCHANGED left
     \/ /\ r \notin Lists
        /\ stage' = [stage EXCEPT ![r] = "plain"]
        /\ \E n \in 1..Steps : left' = [left EXCEPT ![r] = n]
  /\ UNCHANGED <<page, running, open>>

\* The pool hands a connection to a request that waits for one.
Acquire(r) ==
  /\ stage[r] \in Statements
  /\ r \notin running
  /\ Free
  /\ running' = running \union {r}
  /\ UNCHANGED <<stage, left, page, open>>

\* The statement a request runs ends, its connection goes back, and the
\* request is at its next one.
EndStatement(r, next) ==
  /\ r \in running
  /\ running' = running \ {r}
  /\ stage' = [stage EXCEPT ![r] = next]

\* An error of the count is a 500; otherwise the list is asked for.
Count(r) ==
  /\ stage[r] = "count"
  /\ EndStatement(r, "list") \/ EndStatement(r, "answered")
  /\ UNCHANGED <<left, page, open>>

\* The list fails, has no row, or its first row is read: then the connection
\* stays with the open rows and the product's images are asked for.
OpenRows(r) ==
  /\ stage[r] = "list"
  /\ \/ /\ EndStatement(r, "answered")
        /\ UNCHANGED <<left, page, open>>
     \/ \E n \in 1..PageSize :
           /\ EndStatement(r, "images")
           /\ open' = open \union {r}
           /\ page' = [page EXCEPT ![r] = n]
           /\ left' = [left EXCEPT ![r] = n]

\* Whatever the answer, error included, the product's options come next.
Images(r) ==
  /\ stage[r] = "images"
  /\ EndStatement(r, "options")
  /\ UNCHANGED <<left, page, open>>

\* The next row is read and its images are asked for; or Next reports the end,
\* which closes the rows, and each product read is looked up among the events.
\* An iteration error ends the loop early and nobody looks at rows.Err.
Options(r) ==
  /\ stage[r] = "options"
  /\ \/ /\ left[r] > 1
        /\ EndStatement(r, "images")
        /\ left' = [left EXCEPT ![r] = left[r] - 1]
        /\ UNCHANGED <<page, open>>
     \/ /\ EndStatement(r, "events")
        /\ page' = [page EXCEPT ![r] = page[r] - left[r] + 1]
        /\ left' = [left EXCEPT ![r] = page[r] - left[r] + 1]
        /\ open' = open \ {r}

\* Mutated form: the rows are closed after the loop instead of by a defer, so
\* the early return leaves them open.
BadRowStaysOpen(r) ==
  /\ stage[r] = "options"
  /\ left[r] > 1
  /\ EndStatement(r, "answered")
  /\ UNCHANGED <<left, page, open>>

\* A row that cannot be decoded: the list returns its error, and the deferred
\* Close gives the connection of the rows back.
BadRow(r) ==
  /\ stage[r] = "options"
  /\ left[r] > 1
  /\ EndStatement(r, "answered")
  /\ open' = open \ {r}
  /\ UNCHANGED <<left, page>>

\* Mutated form: a handler of several statements keeps the rows of one open
\* while it runs the next.
OneByOneHolds(r) ==
  /\ stage[r] \in {"events", "plain"}
  /\ \/ /\ left[r] > 1
        /\ EndStatement(r, stage[r])
        /\ open' = open \union {r}
     \/ /\ left[r] = 1
        /\ EndStatement(r, "answered")
        /\ open' = open \ {r}
  /\ left' = [left EXCEPT ![r] = left[r] - 1]
  /\ UNCHANGED page

\* One statement after another, each with a connection of its own: the events
\* of the listed products, or whatever another handler runs.
OneByOne(r) ==
  /\ stage[r] \in {"events", "plain"}
  /\ \/ /\ left[r] > 1
        /\ EndStatement(r, stage[r])
     \/ /\ left[r] = 1
        /\ EndStatement(r, "answered")
  /\ left' = [left EXCEPT ![r] = left[r] - 1]
  /\ UNCHANGED <<page, open>>

\* Any other handler gives up at the first statement that fails.
GiveUp(r) ==
  /\ stage[r] = "plain"
  /\ EndStatement(r, "answered")
  /\ UNCHANGED <<left, page, open>>

Handle(r) ==
  \/ Arrive(r) \/ Acquire(r) \/ Count(r) \/ OpenRows(r) \/ Images(r)
  \/ Options(r) \/ BadRow(r) \/ OneByOne(r) \/ GiveUp(r)

Next == \E r \in Requests : Handle(r)

Spec == Init /\ [][Next]_vars

\* Each request has a goroutine of its own, and a finite number of requests
\* compete: one that can go on does in the end.
FairSpec == Spec /\ \A r \in Requests : WF_vars(Handle(r))

-----------------------------------------------------------------------------
(* Properties *)

Unanswered == {r \in Requests : stage[r] # "answered"}
Paging == {r \in Requests : stage[r] \in {"images", "options"}}

\* The pool never opens more connections than DB_MAX_OPEN_CONNS, and a request
\* keeps one only while it works: none outlives its answer, whichever return
\* of the handler gave it.
NoConnLeaks ==
  /\ InUse <= MaxConns
  /\ \A r \in Requests :
        stage[r] \in {"new", "answered"} => r \notin running \union open

CanMove(r) == stage[r] = "new" \/ r \in running \/ Free

\* The pool can run dry for good in one way only: MaxConns product lists, each
\* with its rows open, all waiting for a second connection.  As long as fewer
\* lists read their pages at once, some request can go on, whatever the other
\* handlers do.
NeverStuck ==
  Cardinality(Paging) < MaxConns /\ Unanswered # {}
    => \E r \in Unanswered : CanMove(r)

\* If the lists never fill the pool, every request is answered.
AnsweredUnlessFlooded ==
  []( Cardinality(Paging) < MaxConns ) => <>( Unanswered = {} )

=============================================================================
