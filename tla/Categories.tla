----------------------------- MODULE Categories -----------------------------
(***************************************************************************)
(* The two-level categories of the server (product_repo.go, handler.go).   *)
(*                                                                         *)
(* A sub-category is added under a Large category in up to four statements *)
(* with no transaction around them, while other requests add and delete    *)
(* the same rows.  Rows are known by their names, which are unique; a      *)
(* request in progress also holds the id of a row, and ids are not used    *)
(* again, so an id of a deleted row names nothing.  Postgres refuses such  *)
(* an id and clears it (ON DELETE SET NULL); SQLite does so on the one     *)
(* connection of the pool that ran the pragma (db.go).                     *)
(***************************************************************************)
EXTENDS Naturals

CONSTANTS
  Larges,    \* names of Large categories
  Subs,      \* names of sub-categories
  None,      \* no Large
  Dangling,  \* the id of a Large that was deleted
  ForeignKeys,  \* whether every connection enforces them
  Requests,  \* POST /api/categories that may be served at once
  MaxWrites  \* bound: requests that write, of all kinds

ASSUME NamesAssumption == None \notin Larges /\ Dangling \notin Larges \union {None}
ASSUME KeysAssumption == ForeignKeys \in BOOLEAN
ASSUME BoundsAssumption == MaxWrites \in Nat

VARIABLES
  large,   \* rows of large_categories
  parent,  \* rows of categories: name -> the Large its id points to
  adding,  \* the POST /api/categories being served
  writes   \* writing requests so far

categories == <<large, parent, adding, writes>>

Parents == Larges \union {None}
Tables == UNION {[present -> Parents \union {Dangling}] : present \in SUBSET Subs}

Idle == [pc |-> "idle"]

\* largeID is sql.NullInt64: not valid, the id of a row, or of a row deleted since.
Adds ==
  [pc : {"find", "create", "find_again"}, name : Subs, under : Larges, id : {"null"}]
    \union [pc : {"insert"}, name : Subs, under : Parents, id : {"null", "valid", "gone"}]

CategoriesInit ==
  /\ large \in SUBSET Larges
  /\ \E present \in SUBSET Subs : parent \in [present -> large \union {None}]
  /\ adding = [r \in Requests |-> Idle]
  /\ writes = 0

Begun == writes < MaxWrites /\ writes' = writes + 1

\* A name that is there already is left alone.
AddLargeCategory(l) ==
  /\ Begun
  /\ large' = large \union {l}
  /\ UNCHANGED <<parent, adding>>

\* Mutated form: the table is declared without ON DELETE SET NULL.
DeleteLargeKeepsIds(l) ==
  /\ l \in large
  /\ Begun
  /\ large' = large \ {l}
  /\ parent' = [c \in DOMAIN parent |-> IF parent[c] = l THEN Dangling ELSE parent[c]]
  /\ UNCHANGED adding

\* What ON DELETE SET NULL leaves, where the connection enforces it or not.
Orphaned == IF ForeignKeys THEN {None} ELSE {None, Dangling}

\* Its categories are kept, without a Large or with an id that names nothing.
DeleteLargeCategory(l) ==
  /\ l \in large
  /\ Begun
  /\ large' = large \ {l}
  /\ \E left \in Orphaned :
       parent' = [c \in DOMAIN parent |-> IF parent[c] = l THEN left ELSE parent[c]]
  /\ adding' = [r \in Requests |->
                  IF adding[r].pc = "insert" /\ adding[r].under = l
                  THEN [adding[r] EXCEPT !.id = "gone"] ELSE adding[r]]

DeleteCategory(c) ==
  /\ c \in DOMAIN parent
  /\ Begun
  /\ parent' = [d \in DOMAIN parent \ {c} |-> parent[d]]
  /\ UNCHANGED <<large, adding>>

\* CreateCategoryHandler: with a Large to look up, or with none.
CreateCategory(r, c, l) ==
  /\ adding[r] = Idle
  /\ Begun
  /\ adding' = [adding EXCEPT ![r] =
       [pc |-> IF l = None THEN "insert" ELSE "find",
        name |-> c, under |-> l, id |-> "null"]]
  /\ UNCHANGED <<large, parent>>

\* The Large is there, or the request goes on at another step.
Resolved(r, otherwise) ==
  adding' = [adding EXCEPT ![r] =
    IF adding[r].under \in large
    THEN [adding[r] EXCEPT !.pc = "insert", !.id = "valid"] ELSE otherwise]

\* Any error counts as not there.
FindLarge(r) ==
  /\ adding[r].pc = "find"
  /\ \/ Resolved(r, [adding[r] EXCEPT !.pc = "create"])
     \/ adding' = [adding EXCEPT ![r].pc = "create"]
  /\ UNCHANGED <<large, parent, writes>>

\* Mutated form: the id of the new row is not read.
CreateLargeOnly(r) ==
  /\ adding[r].pc = "create"
  /\ large' = large \union {adding[r].under}
  /\ adding' = [adding EXCEPT ![r].pc = "insert"]
  /\ UNCHANGED <<parent, writes>>

CreateLarge(r) ==
  /\ adding[r].pc = "create"
  /\ large' = large \union {adding[r].under}
  /\ adding' = [adding EXCEPT ![r].pc = "find_again"]
  /\ UNCHANGED <<parent, writes>>

\* Deleted in between: the answer is a 500.
FindLargeAgain(r) ==
  /\ adding[r].pc = "find_again"
  /\ Resolved(r, Idle)
  /\ UNCHANGED <<large, parent, writes>>

\* A category that is there already keeps the Large it has.
KeepCategory(r) ==
  /\ adding[r].pc = "insert"
  /\ adding[r].name \in DOMAIN parent
  /\ adding' = [adding EXCEPT ![r] = Idle]
  /\ UNCHANGED <<large, parent, writes>>

\* What the id that the request holds makes of a new category.
ParentFor(r) ==
  CASE adding[r].id = "null"  -> None
    [] adding[r].id = "valid" -> adding[r].under
    [] adding[r].id = "gone"  -> Dangling

InsertCategory(r) ==
  /\ adding[r].pc = "insert"
  /\ adding[r].name \notin DOMAIN parent
  /\ adding[r].id = "gone" => ~ForeignKeys
  /\ parent' = [c \in DOMAIN parent \union {adding[r].name} |->
                  IF c = adding[r].name THEN ParentFor(r) ELSE parent[c]]
  /\ adding' = [adding EXCEPT ![r] = Idle]
  /\ UNCHANGED <<large, writes>>

\* The foreign key refuses an id that names nothing, and any statement may fail.
FailAdding(r) ==
  /\ adding[r] # Idle
  /\ adding' = [adding EXCEPT ![r] = Idle]
  /\ UNCHANGED <<large, parent, writes>>

\* GetCategoriesWithParent: the left join finds no row for an id that names none.
WithParent == [c \in DOMAIN parent |-> IF parent[c] = Dangling THEN None ELSE parent[c]]

CategoriesNext ==
  \/ \E l \in Larges : AddLargeCategory(l) \/ DeleteLargeCategory(l)
  \/ \E c \in Subs : DeleteCategory(c)
  \/ \E r \in Requests :
       \/ \E c \in Subs, l \in Parents : CreateCategory(r, c, l)
       \/ FindLarge(r) \/ CreateLarge(r) \/ FindLargeAgain(r)
       \/ KeepCategory(r) \/ InsertCategory(r) \/ FailAdding(r)

-----------------------------------------------------------------------------
(* Properties *)

\* The tables and the requests in progress hold what their columns and their
\* steps allow.
CategoriesOK ==
  /\ large \subseteq Larges
  /\ parent \in Tables
  /\ adding \in [Requests -> Adds \union {Idle}]
  /\ writes \in 0..MaxWrites

\* No category points to a Large that is not there, whatever adds and deletes
\* met while the category was added (AddCategoryWithParent, ON DELETE SET NULL).
\* It needs foreign keys on every connection, which SQLite's pool has not.
LargeIsThere == \A c \in DOMAIN parent : parent[c] \in large \union {None}

\* A category that is new in the table stands under the Large one of its
\* requests named, never silently without one and never under another's, though
\* the Large may be created, deleted and created again between its statements
\* (AddCategoryWithParent resolves, creates, resolves again and inserts).  The
\* insert must be refused when the id it holds is gone: again, foreign keys.
FiledWhereAsked ==
  [][\A c \in DOMAIN parent' \ DOMAIN parent :
       \E r \in Requests :
         /\ adding[r] # Idle /\ adding[r].name = c
         /\ parent'[c] = adding[r].under]_categories

\* A category changes its Large only by the deletion of that Large: adding it
\* again under another one leaves it where it is (UpsertSQL does nothing).
MovesOnlyToNone ==
  [][\A c \in DOMAIN parent \intersect DOMAIN parent' :
       parent'[c] # parent[c] => parent'[c] \in Orphaned /\ parent[c] \notin large']_categories
=============================================================================
