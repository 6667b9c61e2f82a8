------------------------- MODULE Storefront_proofs -------------------------
(***************************************************************************)
(* What Storefront and Categories promise holds for every set of           *)
(* categories, products and requests, and for every number of loads and    *)
(* writes.                                                                 *)
(***************************************************************************)
EXTENDS Storefront, TLAPS

-----------------------------------------------------------------------------
(* The categories *)

\* An id that is not null is that of the Large asked for, which is there; no id
\* is held only when none was asked for.
IdsHeld ==
  \A r \in Requests : adding[r].pc = "insert" =>
    /\ adding[r].id = "null" => adding[r].under = None
    /\ adding[r].id = "valid" => adding[r].under \in large

\* A category points to a Large that is there, or to what a deletion leaves.
Rooted == \A c \in DOMAIN parent : parent[c] \in large \union Orphaned

CategoriesInv == CategoriesOK /\ Rooted /\ IdsHeld

\* The operations of the requests on one category (AddCategoryWithParent).
AddingStep(r) ==
  \/ \E c \in Subs, l \in Parents : CreateCategory(r, c, l)
  \/ FindLarge(r) \/ CreateLarge(r) \/ FindLargeAgain(r)
  \/ KeepCategory(r) \/ InsertCategory(r) \/ FailAdding(r)

\* What the checks call a table is a function of some of the names.
LEMMA TableShape ==
  ASSUME NEW t
  PROVE t \in Tables <=>
          DOMAIN t \subseteq Subs /\ t \in [DOMAIN t -> Parents \union {Dangling}]
  <1>1. ASSUME t \in Tables PROVE DOMAIN t \subseteq Subs /\ t \in [DOMAIN t -> Parents \union {Dangling}]
    <2>1. PICK present \in SUBSET Subs : t \in [present -> Parents \union {Dangling}]
      BY <1>1 DEF Tables
    <2> QED BY <2>1
  <1>2. ASSUME DOMAIN t \subseteq Subs, t \in [DOMAIN t -> Parents \union {Dangling}] PROVE t \in Tables
    BY <1>2 DEF Tables
  <1> QED BY <1>1, <1>2

\* The tables as they may be when the program starts, and no request at work.
LEMMA CategoriesInitInv == CategoriesInit => CategoriesInv
  <1> SUFFICES ASSUME CategoriesInit PROVE CategoriesInv
    OBVIOUS
  <1>1. PICK present \in SUBSET Subs : parent \in [present -> large \union {None}]
    BY DEF CategoriesInit
  <1>2. parent \in Tables
    BY <1>1, TableShape DEF CategoriesInit, Parents
  <1>3. adding \in [Requests -> Adds \union {Idle}] /\ writes \in 0..MaxWrites
    BY BoundsAssumption DEF CategoriesInit
  <1>4. Rooted /\ IdsHeld
    BY <1>1 DEF CategoriesInit, Rooted, Orphaned, IdsHeld, Idle
  <1> QED BY <1>2, <1>3, <1>4 DEF CategoriesInit, CategoriesInv, CategoriesOK

\* A step that begins a writing request counts it.
LEMMA BegunType == ASSUME writes \in 0..MaxWrites, Begun PROVE writes' \in 0..MaxWrites
  BY BoundsAssumption DEF Begun

\* Adding a Large keeps every id good.
LEMMA AddLargeInv ==
  ASSUME CategoriesInv, NEW l \in Larges, AddLargeCategory(l)
  PROVE CategoriesInv'
  BY BegunType DEF CategoriesInv, CategoriesOK, Rooted, IdsHeld, AddLargeCategory

\* Deleting a Large takes it off its categories and out of the ids held.
LEMMA DeleteLargeInv ==
  ASSUME CategoriesInv, NEW l \in Larges, DeleteLargeCategory(l)
  PROVE CategoriesInv'
  <1>1. parent \in [DOMAIN parent -> Parents \union {Dangling}] /\ DOMAIN parent \subseteq Subs
    BY TableShape DEF CategoriesInv, CategoriesOK
  <1>0. PICK left \in Orphaned :
          parent' = [c \in DOMAIN parent |-> IF parent[c] = l THEN left ELSE parent[c]]
    BY DEF DeleteLargeCategory
  <1>2. parent' \in [DOMAIN parent -> Parents \union {Dangling}]
    BY <1>0, <1>1 DEF Parents, Orphaned
  <1>3. parent' \in Tables
    BY <1>1, <1>2, TableShape
  <1>4. adding' \in [Requests -> Adds \union {Idle}]
    <2> SUFFICES ASSUME NEW r \in Requests
                 PROVE (IF adding[r].pc = "insert" /\ adding[r].under = l
                        THEN [adding[r] EXCEPT !.id = "gone"] ELSE adding[r])
                         \in Adds \union {Idle}
      BY DEF DeleteLargeCategory
    <2>1. adding[r] \in Adds \union {Idle}
      BY DEF CategoriesInv, CategoriesOK
    <2>2. CASE adding[r].pc = "insert" /\ adding[r].under = l
      <3>1. adding[r] \in Adds
        BY <2>1, <2>2 DEF Idle
      <3> QED BY <3>1, <2>2 DEF Adds
    <2>3. CASE ~(adding[r].pc = "insert" /\ adding[r].under = l)
      BY <2>1, <2>3
    <2> QED BY <2>2, <2>3
  <1>5. Rooted'
    BY <1>0, <1>1 DEF DeleteLargeCategory, CategoriesInv, Rooted
  <1>6. IdsHeld'
    <2> SUFFICES ASSUME NEW r \in Requests, adding'[r].pc = "insert"
                 PROVE /\ adding'[r].id = "null" => adding'[r].under = None
                       /\ adding'[r].id = "valid" => adding'[r].under \in large'
      BY DEF IdsHeld
    <2>1. adding[r] \in Adds \union {Idle}
      BY DEF CategoriesInv, CategoriesOK
    <2>2. CASE adding[r].pc = "insert" /\ adding[r].under = l
      <3>1. adding[r] \in Adds
        BY <2>1, <2>2 DEF Idle
      <3>2. adding'[r] = [adding[r] EXCEPT !.id = "gone"]
        BY <2>2 DEF DeleteLargeCategory
      <3> QED BY <3>1, <3>2 DEF Adds
    <2>3. CASE ~(adding[r].pc = "insert" /\ adding[r].under = l)
      <3>1. adding'[r] = adding[r]
        BY <2>3 DEF DeleteLargeCategory
      <3> QED BY <3>1, <2>3 DEF DeleteLargeCategory, CategoriesInv, IdsHeld
    <2> QED BY <2>2, <2>3
  <1> QED BY <1>3, <1>4, <1>5, <1>6, BegunType
          DEF CategoriesInv, CategoriesOK, DeleteLargeCategory

\* Deleting a category leaves the others where they are.
LEMMA DeleteCategoryInv ==
  ASSUME CategoriesInv, NEW c \in Subs, DeleteCategory(c)
  PROVE CategoriesInv'
  <1>1. parent \in [DOMAIN parent -> Parents \union {Dangling}] /\ DOMAIN parent \subseteq Subs
    BY TableShape DEF CategoriesInv, CategoriesOK
  <1>2. parent' \in [DOMAIN parent \ {c} -> Parents \union {Dangling}]
    BY <1>1 DEF DeleteCategory
  <1>3. parent' \in Tables
    BY <1>1, <1>2, TableShape
  <1> QED BY <1>1, <1>3, BegunType
          DEF CategoriesInv, CategoriesOK, DeleteCategory, Rooted, IdsHeld

\* Every step of a request that adds a category.
LEMMA AddingInv ==
  ASSUME CategoriesInv, NEW r \in Requests, AddingStep(r)
  PROVE CategoriesInv'
  <1> USE DEF CategoriesInv, CategoriesOK
  <1>1. adding[r] \in Adds \union {Idle}
    OBVIOUS
  <1>t. parent \in [DOMAIN parent -> Parents \union {Dangling}] /\ DOMAIN parent \subseteq Subs
    BY TableShape
  <1>2. ASSUME NEW c \in Subs, NEW l \in Parents, CreateCategory(r, c, l) PROVE CategoriesInv'
    <2> DEFINE a == [pc |-> IF l = None THEN "insert" ELSE "find",
                     name |-> c, under |-> l, id |-> "null"]
    <2>1. a \in Adds /\ (a.pc = "insert" => a.under = None) /\ a.id = "null"
      <3>1. CASE l = None
        BY <3>1 DEF Adds
      <3>2. CASE l # None
        <4>1. l \in Larges
          BY <3>2 DEF Parents
        <4> QED BY <3>2, <4>1 DEF Adds
      <3> QED BY <3>1, <3>2
    <2>2. adding' = [adding EXCEPT ![r] = a] /\ UNCHANGED <<large, parent>> /\ Begun
      BY <1>2 DEF CreateCategory
    <2> HIDE DEF a
    <2> QED BY <2>1, <2>2, BegunType DEF Rooted, IdsHeld
  <1>3. ASSUME NEW otherwise \in Adds \union {Idle}, otherwise.pc # "insert",
               Resolved(r, otherwise), adding[r].pc \in {"find", "find_again"},
               UNCHANGED <<large, parent, writes>>
        PROVE CategoriesInv'
    <2>1. adding[r] \in Adds
      BY <1>1, <1>3 DEF Idle
    <2>2. CASE adding[r].under \in large
      <3> DEFINE a == [adding[r] EXCEPT !.pc = "insert", !.id = "valid"]
      <3>1. a \in Adds /\ a.under \in large /\ a.id = "valid"
        BY <2>1, <2>2, <1>3 DEF Adds, Parents
      <3>2. adding' = [adding EXCEPT ![r] = a]
        BY <1>3, <2>2 DEF Resolved
      <3> HIDE DEF a
      <3> QED BY <3>1, <3>2, <1>3 DEF Rooted, IdsHeld
    <2>3. CASE adding[r].under \notin large
      <3>1. adding' = [adding EXCEPT ![r] = otherwise]
        BY <1>3, <2>3 DEF Resolved
      <3> QED BY <3>1, <1>3 DEF Rooted, IdsHeld
    <2> QED BY <2>2, <2>3
  <1>4. ASSUME NEW pc \in {"create", "find_again"}, adding[r] \in Adds, adding[r].pc # "insert",
               adding' = [adding EXCEPT ![r].pc = pc],
               large \subseteq large', large' \subseteq Larges, UNCHANGED <<parent, writes>>
        PROVE CategoriesInv'
    <2> DEFINE a == [adding[r] EXCEPT !.pc = pc]
    <2>1. a \in Adds /\ a.pc # "insert"
      BY <1>4 DEF Adds
    <2>2. adding' = [adding EXCEPT ![r] = a]
      BY <1>4
    <2> HIDE DEF a
    <2> QED BY <2>1, <2>2, <1>4 DEF Rooted, IdsHeld
  <1>5. ASSUME adding' = [adding EXCEPT ![r] = Idle], UNCHANGED <<large, writes>>,
               parent' \in Tables, Rooted'
        PROVE CategoriesInv'
    <2>1. Idle.pc # "insert"
      BY DEF Idle
    <2> QED BY <2>1, <1>5 DEF IdsHeld
  <1>6. CASE FindLarge(r)
    <2>1. adding[r] \in Adds
      BY <1>1, <1>6 DEF FindLarge, Idle
    <2>2. CASE Resolved(r, [adding[r] EXCEPT !.pc = "create"])
      <3>1. [adding[r] EXCEPT !.pc = "create"] \in Adds
        BY <2>1, <1>6 DEF Adds, FindLarge
      <3>2. [adding[r] EXCEPT !.pc = "create"].pc # "insert"
        BY <2>1 DEF Adds
      <3> QED BY <3>1, <3>2, <2>2, <1>3, <1>6 DEF FindLarge
    <2>3. CASE adding' = [adding EXCEPT ![r].pc = "create"]
      BY <2>1, <2>3, <1>4, <1>6 DEF FindLarge
    <2> QED BY <2>2, <2>3, <1>6 DEF FindLarge
  <1>7. CASE CreateLarge(r)
    <2>1. adding[r] \in Adds
      BY <1>1, <1>7 DEF CreateLarge, Idle
    <2>2. adding[r].under \in Larges
      BY <2>1, <1>7 DEF Adds, CreateLarge
    <2> QED BY <2>2, <2>1, <1>4, <1>7 DEF CreateLarge
  <1>8. CASE FindLargeAgain(r)
    <2>1. Idle \in Adds \union {Idle} /\ Idle.pc # "insert"
      BY DEF Idle
    <2> QED BY <2>1, <1>3, <1>8 DEF FindLargeAgain
  <1>9. CASE KeepCategory(r)
    BY <1>5, <1>9 DEF KeepCategory, Rooted
  <1>10. CASE FailAdding(r)
    BY <1>5, <1>10 DEF FailAdding, Rooted
  <1>11. CASE InsertCategory(r)
    <2>1. adding[r] \in Adds
      BY <1>1, <1>11 DEF InsertCategory, Idle
    <2> DEFINE l == ParentFor(r)
    <2>2. /\ adding[r].name \in Subs
          /\ l \in large \union Orphaned
          /\ l \in Parents \union {Dangling}
      <3>1. adding[r].id \in {"null", "valid", "gone"} /\ adding[r].name \in Subs
            /\ adding[r].under \in Parents
        BY <2>1, <1>11 DEF InsertCategory, Adds
      <3>2. CASE adding[r].id = "null"
        BY <3>1, <3>2 DEF ParentFor, Orphaned, Parents
      <3>3. CASE adding[r].id = "valid"
        BY <3>1, <3>3, <1>11 DEF ParentFor, IdsHeld, InsertCategory
      <3>4. CASE adding[r].id = "gone"
        BY <3>1, <3>4, <1>11 DEF ParentFor, InsertCategory, Orphaned
      <3> QED BY <3>1, <3>2, <3>3, <3>4
    <2>3. parent' = [c \in DOMAIN parent \union {adding[r].name} |->
                       IF c = adding[r].name THEN l ELSE parent[c]]
      BY <1>11 DEF InsertCategory
    <2> HIDE DEF l
    <2>4. parent' \in Tables
      BY <2>2, <2>3, <1>t, TableShape
    <2>5. Rooted'
      BY <2>2, <2>3, <1>t, <1>11 DEF InsertCategory, Rooted
    <2> QED BY <2>4, <2>5, <1>5, <1>11 DEF InsertCategory
  <1> QED BY <1>2, <1>6, <1>7, <1>8, <1>9, <1>10, <1>11 DEF AddingStep

\* Every step of the server keeps the invariant of the categories.
LEMMA CategoriesStepInv ==
  ASSUME CategoriesInv, CategoriesNext PROVE CategoriesInv'
  BY AddLargeInv, DeleteLargeInv, DeleteCategoryInv, AddingInv
     DEF CategoriesNext, AddingStep

\* One of the steps of a run that only the categories take part in.
LEMMA CategoriesMeaning ==
  ASSUME CategoriesInv, CategoriesNext
  PROVE /\ ForeignKeys =>
             \A c \in DOMAIN parent' \ DOMAIN parent :
               \E r \in Requests :
                 adding[r] # Idle /\ adding[r].name = c /\ parent'[c] = adding[r].under
        /\ \A c \in DOMAIN parent \intersect DOMAIN parent' :
             parent'[c] # parent[c] => parent'[c] \in Orphaned /\ parent[c] \notin large'
  <1>1. ASSUME UNCHANGED parent
        PROVE /\ DOMAIN parent' \ DOMAIN parent = {}
              /\ \A c \in DOMAIN parent : parent'[c] = parent[c]
    BY <1>1
  <1>2. ASSUME NEW l \in Larges, DeleteLargeCategory(l)
        PROVE /\ DOMAIN parent' = DOMAIN parent
              /\ \A c \in DOMAIN parent :
                   parent'[c] # parent[c] => parent'[c] \in Orphaned /\ parent[c] \notin large'
    BY <1>2 DEF DeleteLargeCategory
  <1>3. ASSUME NEW c \in Subs, DeleteCategory(c)
        PROVE /\ DOMAIN parent' \ DOMAIN parent = {}
              /\ \A d \in DOMAIN parent' : parent'[d] = parent[d]
    BY <1>3 DEF DeleteCategory
  <1>4. ASSUME NEW r \in Requests, InsertCategory(r)
        PROVE /\ DOMAIN parent' \ DOMAIN parent = {adding[r].name}
              /\ adding[r] # Idle
              /\ ForeignKeys => parent'[adding[r].name] = adding[r].under
              /\ \A d \in DOMAIN parent : parent'[d] = parent[d]
    <2>1. adding[r] \in Adds /\ adding[r].pc = "insert"
      BY <1>4 DEF CategoriesInv, CategoriesOK, InsertCategory, Idle
    <2>2. /\ ForeignKeys => adding[r].id \in {"null", "valid"}
          /\ adding[r].id = "null" => adding[r].under = None
      BY <2>1, <1>4 DEF Adds, InsertCategory, CategoriesInv, IdsHeld
    <2>3. adding[r] # Idle
      BY <2>1 DEF Idle
    <2>4. ForeignKeys => ParentFor(r) = adding[r].under
      BY <2>2 DEF ParentFor
    <2> QED BY <2>3, <2>4, <1>4 DEF InsertCategory
  <1>5. CASE UNCHANGED parent
    BY <1>1, <1>5
  <1>6. ASSUME NEW r \in Requests, AddingStep(r), ~InsertCategory(r) PROVE UNCHANGED parent
    BY <1>6 DEF AddingStep, CreateCategory, FindLarge, CreateLarge, FindLargeAgain,
                KeepCategory, FailAdding
  <1>7. \/ \E l \in Larges : AddLargeCategory(l)
        \/ \E l \in Larges : DeleteLargeCategory(l)
        \/ \E c \in Subs : DeleteCategory(c)
        \/ \E r \in Requests : AddingStep(r)
    BY DEF CategoriesNext, AddingStep
  <1>8. CASE \E l \in Larges : AddLargeCategory(l)
    BY <1>8, <1>5 DEF AddLargeCategory
  <1> QED BY <1>2, <1>3, <1>4, <1>5, <1>6, <1>7, <1>8

-----------------------------------------------------------------------------
(* The page: types *)

LoadsOK ==
  /\ DOMAIN loads = 1..MaxLoads
  /\ \A i \in 1..MaxLoads : DOMAIN loads[i] = Lists
  /\ \A i \in 1..MaxLoads, list \in Lists : loads[i][list] \in Stages(list)

PageOK ==
  /\ products \subseteq Products
  /\ grid \subseteq Products /\ shown \subseteq grid
  /\ opened \in BOOLEAN /\ quiet \in BOOLEAN
  /\ larges \subseteq Larges
  /\ subs \in Tables
  /\ LoadsOK
  /\ picked \in Choices /\ pills \subseteq Pills

\* The type invariant is one of the categories and one of the page.
LEMMA TypeParts == TypeOK <=> CategoriesOK /\ PageOK
  BY DEF TypeOK, PageOK, LoadsOK

\* A filter never adds a product.
LEMMA FilteredPart == ASSUME NEW ps, NEW ss, NEW l, NEW chosen PROVE Filtered(ps, ss, l, chosen) \subseteq ps
  BY DEF Filtered

\* One request moves on.
LEMMA LoadsStep ==
  ASSUME LoadsOK, NEW i \in 1..MaxLoads, NEW list \in Lists, NEW stage \in Stages(list),
         loads' = [loads EXCEPT ![i][list] = stage]
  PROVE LoadsOK'
  <1>1. DOMAIN loads' = 1..MaxLoads /\ \A j \in 1..MaxLoads : DOMAIN loads'[j] = Lists
    BY DEF LoadsOK
  <1>2. ASSUME NEW j \in 1..MaxLoads, NEW m \in Lists PROVE loads'[j][m] \in Stages(m)
    <2>1. loads[j][m] \in Stages(m)
      BY DEF LoadsOK
    <2>2. CASE j = i /\ m = list
      BY <2>2 DEF LoadsOK
    <2>3. CASE ~(j = i /\ m = list)
      <3>1. loads'[j][m] = loads[j][m]
        BY <2>3 DEF LoadsOK
      <3> QED BY <2>1, <3>1
    <2> QED BY <2>2, <2>3
  <1> QED BY <1>1, <1>2 DEF LoadsOK, Stages, Values, Lists

\* Both tables and the page start empty and typed.
LEMMA TypeInit == Init => TypeOK
  <1> SUFFICES ASSUME Init PROVE TypeOK
    OBVIOUS
  <1>1. subs \in Tables
    <2>1. DOMAIN subs = {} /\ subs \in [{} -> Parents \union {Dangling}]
      BY DEF Init
    <2> QED BY <2>1, TableShape
  <1>2. LoadsOK
    BY DEF Init, LoadsOK, Stages
  <1>3. CategoriesOK
    BY CategoriesInitInv DEF Init, CategoriesInv
  <1> QED BY <1>1, <1>2, <1>3, TypeParts DEF Init, PageOK, Choices, Pills

\* A tap leaves a Large that can be picked and pills that can be lit.
LEMMA TypeCustomer == ASSUME TypeOK, Customer PROVE TypeOK'
  <1> USE TypeParts
  <1>1. ASSUME Tap, picked' \in Choices, pills' \subseteq Pills PROVE TypeOK'
    <2>1. shown' \subseteq grid
      BY <1>1, FilteredPart DEF Tap
    <2>2. CategoriesOK'
      BY <1>1 DEF Tap, categories, CategoriesOK
    <2>3. PageOK'
      BY <1>1, <2>1 DEF Tap, PageOK, LoadsOK
    <2> QED BY <2>2, <2>3 DEF TypeOK, PageOK, LoadsOK
  <1>2. ASSUME NEW l \in larges \union {All}, SelectLarge(l) PROVE TypeOK'
    <2>1. l \in Choices
      BY DEF TypeOK, Choices
    <2> QED BY <2>1, <1>1, <1>2 DEF SelectLarge, Pills
  <1>3. ASSUME NEW sub \in Pills, ToggleSub(sub) PROVE TypeOK'
    <2>1. Pseudo(picked) \in Pills
      BY DEF TypeOK, Pills
    <2>2. pills' \subseteq Pills
      BY <2>1, <1>3 DEF TypeOK, ToggleSub, Toggled
    <2> QED BY <2>2, <1>1, <1>3 DEF ToggleSub, TypeOK
  <1> QED BY <1>2, <1>3 DEF Customer

\* What the server answers is what such a list may hold.
LEMMA CurrentType == ASSUME TypeOK, NEW list \in Lists PROVE Current(list) \in Values(list)
  <1>1. parent \in [DOMAIN parent -> Parents \union {Dangling}] /\ DOMAIN parent \subseteq Subs
    BY TableShape DEF TypeOK, CategoriesOK
  <1>2. WithParent \in [DOMAIN parent -> Parents \union {Dangling}] /\ DOMAIN WithParent = DOMAIN parent
    BY <1>1 DEF WithParent, Parents
  <1>3. WithParent \in Tables
    BY <1>1, <1>2, TableShape
  <1> QED BY <1>3 DEF TypeOK, CategoriesOK, Current, Values, Lists

\* Requests that are sent and answered keep the types.
LEMMA TypeLoading == ASSUME TypeOK, Loading PROVE TypeOK'
  <1>c. ASSUME UNCHANGED categories PROVE CategoriesOK'
    BY <1>c DEF TypeOK, categories, CategoriesOK
  <1>1. CASE Open
    <2>1. LoadsOK'
      BY <1>1, PageBounds DEF Open, TypeOK, LoadsOK, Stages
    <2> QED BY <1>1, <1>c, <2>1, TypeParts DEF Open, PageOK, TypeOK, LoadsOK
  <1>2. CASE OpenFurther
    <2>1. 1 \in 1..MaxLoads /\ "subs" \in Lists /\ Sent \in Stages("subs")
      BY PageBounds DEF Lists, Stages
    <2>2. LoadsOK'
      BY <2>1, <1>2, LoadsStep, TypeParts DEF OpenFurther, PageOK
    <2> QED BY <1>2, <1>c, <2>2, TypeParts DEF OpenFurther, PageOK, TypeOK, LoadsOK
  <1>3. CASE Refresh
    <2>1. PICK i \in 1..MaxLoads : loads' = [loads EXCEPT ![i] = [list \in Lists |-> Sent]]
      BY <1>3 DEF Refresh, NextLoad
    <2>2. LoadsOK'
      BY <2>1 DEF TypeOK, LoadsOK, Stages
    <2>3. NothingOut \in BOOLEAN
      BY DEF NothingOut
    <2> QED BY <1>3, <1>c, <2>2, <2>3, TypeParts DEF Refresh, PageOK, TypeOK, LoadsOK
  <1>4. ASSUME NEW i \in 1..MaxLoads, NEW list \in Lists, ServeList(i, list) PROVE TypeOK'
    <2> DEFINE stage == [pc |-> "read", value |-> Current(list)]
    <2>1. stage \in Stages(list)
      BY CurrentType DEF Stages
    <2>2. loads' = [loads EXCEPT ![i][list] = stage]
      BY <1>4 DEF ServeList
    <2> HIDE DEF stage
    <2>3. LoadsOK'
      BY <2>1, <2>2, LoadsStep, TypeParts DEF PageOK
    <2> QED BY <1>4, <1>c, <2>3, TypeParts DEF ServeList, PageOK, TypeOK, LoadsOK
  <1>5. ASSUME NEW i \in 1..MaxLoads, NEW list \in Lists, Land(i, list) PROVE LoadsOK'
    <2>1. Done \in Stages(list)
      BY DEF Stages
    <2> QED BY <2>1, <1>5, LoadsStep, TypeParts DEF Land, PageOK
  <1>6. ASSUME NEW i \in 1..MaxLoads, NEW list \in Lists, loads[i][list].pc = "read"
        PROVE loads[i][list].value \in Values(list)
    <2>1. loads[i][list] \in Stages(list)
      BY DEF TypeOK
    <2> QED BY <2>1, <1>6 DEF Stages, Unsent, Sent, Done
  <1>7. "products" \in Lists /\ "large" \in Lists /\ "subs" \in Lists
    BY DEF Lists
  <1>8. ASSUME NEW i \in 1..MaxLoads, TakeProducts(i) \/ FailProducts(i) PROVE TypeOK'
    <2>1. LoadsOK'
      BY <1>5, <1>7, <1>8 DEF TakeProducts, FailProducts
    <2>2. grid' \subseteq Products
      BY <1>6, <1>7, <1>8 DEF TakeProducts, FailProducts, Values
    <2>3. shown' \subseteq grid'
      BY <1>8, FilteredPart DEF TakeProducts, FailProducts, ShownAfter
    <2>4. UNCHANGED <<categories, products, larges, subs, picked, pills, opened>> /\ quiet' \in BOOLEAN
      BY <1>8 DEF TakeProducts, FailProducts, TypeOK
    <2> HIDE <1>8
    <2> QED BY <1>c, <2>1, <2>2, <2>3, <2>4, TypeParts DEF PageOK, TypeOK, LoadsOK
  <1>9. ASSUME NEW i \in 1..MaxLoads, TakeLarges(i) \/ FailLarges(i) PROVE TypeOK'
    <2>1. LoadsOK'
      BY <1>5, <1>7, <1>9 DEF TakeLarges, FailLarges
    <2>2. larges' \subseteq Larges
      BY <1>6, <1>7, <1>9 DEF TakeLarges, FailLarges, Values, TypeOK
    <2>3. shown' \subseteq grid
      BY <1>9, FilteredPart DEF TakeLarges, FailLarges, ShownAfter, TypeOK
    <2>4. UNCHANGED <<categories, products, grid, subs, picked, pills, opened>> /\ quiet' \in BOOLEAN
      BY <1>9 DEF TakeLarges, FailLarges, TypeOK
    <2> QED BY <1>c, <2>1, <2>2, <2>3, <2>4, TypeParts DEF PageOK, TypeOK, LoadsOK
  <1>10. ASSUME NEW i \in 1..MaxLoads, TakeSubs(i) \/ FailSubs(i) PROVE TypeOK'
    <2>1. LoadsOK'
      BY <1>5, <1>7, <1>10 DEF TakeSubs, FailSubs
    <2>2. subs' \in Tables
      BY <1>6, <1>7, <1>10 DEF TakeSubs, FailSubs, Values, TypeOK
    <2>3. shown' \subseteq grid
      BY <1>10, FilteredPart DEF TakeSubs, FailSubs
    <2>4. UNCHANGED <<categories, products, grid, larges, picked, pills, opened>> /\ quiet' \in BOOLEAN
      BY <1>10 DEF TakeSubs, FailSubs, TypeOK
    <2> QED BY <1>c, <2>1, <2>2, <2>3, <2>4, TypeParts DEF PageOK, TypeOK, LoadsOK
  <1> QED BY <1>1, <1>2, <1>3, <1>4, <1>8, <1>9, <1>10 DEF Loading

\* The tables of the server may change in every way they do.
LEMMA TypeServer == ASSUME TypeOK, CategoriesInv, Server PROVE TypeOK'
  <1>1. PageOK'
    <2>1. products' \subseteq Products
      BY DEF Server, EditProducts, TypeOK
    <2> QED BY <2>1 DEF Server, page, TypeOK, PageOK, LoadsOK
  <1>2. CASE CategoriesNext
    BY <1>2, <1>1, CategoriesStepInv DEF CategoriesInv, TypeOK, PageOK, LoadsOK
  <1>3. CASE EditProducts
    BY <1>3, <1>1, BegunType DEF EditProducts, TypeOK, CategoriesOK, PageOK, LoadsOK
  <1> QED BY <1>2, <1>3 DEF Server

-----------------------------------------------------------------------------
(* The categories under the page *)

\* What leaves the categories alone leaves their invariant alone.
LEMMA QuietCategories == ASSUME CategoriesInv, UNCHANGED categories PROVE CategoriesInv'
  BY DEF categories, CategoriesInv, CategoriesOK, Rooted, IdsHeld

\* A step of the page or of the editors leaves the categories alone.
LEMMA PageStep ==
  ASSUME Next \/ UNCHANGED vars
  PROVE \/ CategoriesNext
        \/ UNCHANGED categories
        \/ EditProducts
  BY DEF Next, Server, Customer, Loading, SelectLarge, ToggleSub, Tap, Open, OpenFurther,
         Refresh, ServeList, TakeProducts, FailProducts, TakeLarges, FailLarges, TakeSubs,
         FailSubs, vars, categories

\* No step of the server or of the page disturbs the categories.
LEMMA CategoriesStep == ASSUME CategoriesInv, [Next]_vars PROVE CategoriesInv'
  <1>1. CASE CategoriesNext
    BY <1>1, CategoriesStepInv
  <1>2. CASE UNCHANGED categories
    BY <1>2, QuietCategories
  <1>3. CASE EditProducts
    BY <1>3, BegunType DEF EditProducts, CategoriesInv, CategoriesOK, Rooted, IdsHeld
  <1> QED BY <1>1, <1>2, <1>3, PageStep

\* No tap, answer or write leaves the types.
LEMMA TypeStep == ASSUME TypeOK, CategoriesInv, [Next]_vars PROVE TypeOK'
  <1>1. CASE UNCHANGED vars
    <2>1. CategoriesOK'
      BY <1>1 DEF vars, TypeOK, CategoriesOK
    <2> QED BY <1>1, <2>1 DEF vars, TypeOK
  <1> QED BY <1>1, TypeServer, TypeCustomer, TypeLoading DEF Next

\* Types hold always, and with them what is said of the categories.
LEMMA TypesAlways == Spec => [](TypeOK /\ CategoriesInv)
  <1>1. Init => TypeOK /\ CategoriesInv
    BY TypeInit, CategoriesInitInv DEF Init
  <1>2. TypeOK /\ CategoriesInv /\ [Next]_vars => (TypeOK /\ CategoriesInv)'
    BY TypeStep, CategoriesStep
  <1> QED BY <1>1, <1>2, PTL DEF Spec

\* Type invariant, of the tables and of the page.
THEOREM TypeCorrect == Spec => []TypeOK
  BY TypesAlways, PTL

\* No interleaving of adds and deletes leaves a category under a Large that is
\* gone, however many requests add at once, where every connection enforces
\* foreign keys.
THEOREM NoDanglingLarge == ASSUME ForeignKeys PROVE Spec => []LargeIsThere
  <1>1. CategoriesInv => LargeIsThere
    BY DEF CategoriesInv, Rooted, Orphaned, LargeIsThere
  <1> QED BY <1>1, TypesAlways, PTL

\* A new category stands under the Large its request named, where every
\* connection enforces foreign keys.
THEOREM NewCategoryFiled == ASSUME ForeignKeys PROVE Spec => FiledWhereAsked
  <1> DEFINE Filed == \A c \in DOMAIN parent' \ DOMAIN parent :
                        \E r \in Requests :
                          /\ adding[r] # Idle /\ adding[r].name = c
                          /\ parent'[c] = adding[r].under
  <1>1. CategoriesInv /\ [Next]_vars => [Filed]_categories
    <2> SUFFICES ASSUME CategoriesInv, [Next]_vars PROVE Filed \/ UNCHANGED categories
      OBVIOUS
    <2>1. CASE CategoriesNext
      BY <2>1, CategoriesMeaning
    <2>2. CASE EditProducts
      BY <2>2 DEF EditProducts
    <2> QED BY <2>1, <2>2, PageStep
  <1> QED BY <1>1, TypesAlways, PTL DEF Spec, FiledWhereAsked

\* A category leaves its Large only by the deletion of that Large.
THEOREM CategoriesStay == Spec => MovesOnlyToNone
  <1> DEFINE Stays == \A c \in DOMAIN parent \intersect DOMAIN parent' :
                        parent'[c] # parent[c] => parent'[c] \in Orphaned /\ parent[c] \notin large'
  <1>1. CategoriesInv /\ [Next]_vars => [Stays]_categories
    <2> SUFFICES ASSUME CategoriesInv, [Next]_vars PROVE Stays \/ UNCHANGED categories
      OBVIOUS
    <2>1. CASE CategoriesNext
      BY <2>1, CategoriesMeaning
    <2>2. CASE EditProducts
      BY <2>2 DEF EditProducts
    <2> QED BY <2>1, <2>2, PageStep
  <1> QED BY <1>1, TypesAlways, PTL DEF Spec, MovesOnlyToNone

-----------------------------------------------------------------------------
(* The pills and the grid *)

\* The rule of the pills, as the filter applies it and as the property says it.
FollowsRule ==
  \/ shown = Filtered(grid, subs, picked, pills)
  \/ HalfLoaded /\ shown = grid

\* What the filter goes by is lit, unless its chip is gone.
LEMMA FilterRule ==
  ASSUME TypeOK, OneIntent, FollowsRule
  PROVE GridMatchesPills
  <1> DEFINE real == pills \intersect Subs
  <1> SUFFICES ASSUME real \subseteq Lit, shown = Filtered(grid, subs, picked, pills)
               PROVE GridMatchesPills
    BY DEF FollowsRule, GridMatchesPills, PickedUnseen
  <1>1. real = Lit \intersect Subs
    BY DEF Lit
  <1>2. CASE real # {}
    <2>1. shown = {p \in grid : real \subseteq Tags[p]}
      BY <1>2 DEF Filtered
    <2>2. shown = {p \in grid : \A c \in Lit \intersect Subs : c \in Tags[p]}
      BY <2>1, <1>1
    <2> QED BY <2>2, <1>1, <1>2 DEF GridMatchesPills
  <1>3. CASE real = {} /\ picked # All
    <2>1. pills = {Pseudo(picked)}
      BY <1>3 DEF TypeOK, OneIntent, Pills
    <2>2. Lit = {Pseudo(picked)}
      BY <2>1, <1>3 DEF Lit, VisibleSubs
    <2>3. VisibleSubs \intersect Subs = Under(picked, subs)
      <3>1. Under(picked, subs) \subseteq Subs /\ Pseudo(picked) \notin Subs
        BY TableShape, PseudoAssumption DEF TypeOK, Under
      <3> QED BY <3>1, <1>3 DEF VisibleSubs
    <2>4. shown = {p \in grid : Tags[p] \intersect Under(picked, subs) # {}}
      BY <1>3 DEF Filtered
    <2>5. shown = {p \in grid : \E c \in VisibleSubs \intersect Subs : c \in Tags[p]}
      BY <2>3, <2>4
    <2> QED BY <2>2, <2>5, <1>3 DEF GridMatchesPills
  <1>4. CASE real = {} /\ picked = All
    BY <1>4 DEF Filtered, GridMatchesPills
  <1> QED BY <1>2, <1>3, <1>4

\* A load that has its products but not its Large categories, and stays so.
LEMMA StillHalfLoaded ==
  ASSUME TypeOK, HalfLoaded,
         \A i \in 1..MaxLoads :
           /\ loads[i]["products"] = Done => loads'[i]["products"] = Done
           /\ loads[i]["large"] # Done /\ loads[i]["products"] = Done => loads'[i]["large"] # Done
  PROVE HalfLoaded'
  BY DEF HalfLoaded

\* An empty grid follows the rule.
LEMMA GridInit == Init => FollowsRule
  BY DEF Init, FollowsRule, Filtered

\* Every step filters, or leaves the grid of a load that is half there.
LEMMA GridStep ==
  ASSUME TypeOK, TypeOK', FollowsRule, [Next]_vars
  PROVE FollowsRule'
  <1>l. "products" \in Lists /\ "large" \in Lists /\ "subs" \in Lists
    BY DEF Lists
  <1>d. Done # Unsent /\ Done # Sent /\ Sent # Unsent
    BY DEF Done, Unsent, Sent
  <1>1. ASSUME UNCHANGED <<grid, shown, subs, picked, pills>>,
               \A i \in 1..MaxLoads :
                 /\ loads[i]["products"] = Done => loads'[i]["products"] = Done
                 /\ loads[i]["large"] # Done /\ loads[i]["products"] = Done
                      => loads'[i]["large"] # Done
        PROVE FollowsRule'
    BY <1>1, StillHalfLoaded DEF FollowsRule, Filtered, Under
  <1>2. CASE Server \/ UNCHANGED vars
    BY <1>1, <1>2 DEF Server, page, vars
  <1>3. ASSUME Tap PROVE FollowsRule'
    BY <1>3 DEF Tap, FollowsRule, Filtered, Under
  <1>4. CASE Customer
    BY <1>3, <1>4 DEF Customer, SelectLarge, ToggleSub
  <1>5. CASE Open
    <2>1. 1 \in 1..MaxLoads /\ loads[1]["products"] = Unsent
      <3>1. \A list \in Lists : loads[1][list] = Unsent
        BY <1>5 DEF Open, Started
      <3> QED BY <3>1, <1>l, PageBounds
    <2> QED BY <2>1, <1>1, <1>5, <1>l, <1>d DEF Open, TypeOK
  <1>6. CASE OpenFurther
    <2>1. \A i \in 1..MaxLoads, list \in {"products", "large"} : loads'[i][list] = loads[i][list]
      BY <1>6 DEF OpenFurther, TypeOK, Lists
    <2> QED BY <2>1, <1>1, <1>6 DEF OpenFurther
  <1>7. CASE Refresh
    <2>1. PICK i \in NextLoad : loads' = [loads EXCEPT ![i] = [list \in Lists |-> Sent]]
      BY <1>7 DEF Refresh
    <2>2. i \in 1..MaxLoads /\ loads[i]["products"] = Unsent
      <3>1. \A list \in Lists : loads[i][list] = Unsent
        BY DEF NextLoad, Started
      <3> QED BY <3>1, <1>l DEF NextLoad
    <2> QED BY <2>1, <2>2, <1>1, <1>7, <1>l, <1>d DEF Refresh, TypeOK
  <1>8. ASSUME NEW i \in 1..MaxLoads, NEW list \in Lists, ServeList(i, list)
        PROVE FollowsRule'
    <2> DEFINE stage == [pc |-> "read", value |-> Current(list)]
    <2>1. stage # Done
      BY DEF Done
    <2>2. loads' = [loads EXCEPT ![i][list] = stage] /\ loads[i][list] = Sent
      BY <1>8 DEF ServeList
    <2> HIDE DEF stage
    <2>3. \A j \in 1..MaxLoads, m \in Lists :
            loads'[j][m] = IF j = i /\ m = list THEN stage ELSE loads[j][m]
      BY <2>2 DEF TypeOK
    <2> QED BY <2>1, <2>2, <2>3, <1>1, <1>8, <1>l, <1>d DEF ServeList
  <1>9. ASSUME NEW i \in 1..MaxLoads, NEW list \in Lists, Land(i, list)
        PROVE \A j \in 1..MaxLoads, m \in Lists :
                loads'[j][m] = IF j = i /\ m = list THEN Done ELSE loads[j][m]
    BY <1>9 DEF Land, TypeOK
  <1>10. ASSUME NEW i \in 1..MaxLoads, TakeProducts(i) PROVE FollowsRule'
    <2>1. CASE loads[i]["large"] = Done
      BY <2>1, <1>10 DEF TakeProducts, ShownAfter, FollowsRule, Filtered, Under
    <2>2. CASE loads[i]["large"] # Done
      <3>1. loads'[i]["products"] = Done /\ loads'[i]["large"] # Done
        BY <2>2, <1>9, <1>10, <1>l DEF TakeProducts
      <3> QED BY <2>2, <3>1, <1>10 DEF TakeProducts, ShownAfter, HalfLoaded, FollowsRule
    <2> QED BY <2>1, <2>2
  <1>11. ASSUME NEW i \in 1..MaxLoads, FailProducts(i) PROVE FollowsRule'
    BY <1>11 DEF FailProducts, FollowsRule, Filtered
  <1>12. ASSUME NEW i \in 1..MaxLoads, TakeLarges(i) \/ FailLarges(i)
         PROVE FollowsRule'
    <2>1. CASE loads[i]["products"] = Done
      BY <2>1, <1>12 DEF TakeLarges, FailLarges, ShownAfter, FollowsRule, Filtered, Under
    <2>2. CASE loads[i]["products"] # Done
      <3>1. \A j \in 1..MaxLoads :
              /\ loads'[j]["products"] = loads[j]["products"]
              /\ loads[j]["products"] = Done => loads'[j]["large"] = loads[j]["large"]
        BY <2>2, <1>9, <1>12, <1>l DEF TakeLarges, FailLarges
      <3> QED BY <2>2, <3>1, <1>1, <1>12 DEF TakeLarges, FailLarges, ShownAfter
    <2> QED BY <2>1, <2>2
  <1>13. ASSUME NEW i \in 1..MaxLoads, TakeSubs(i) \/ FailSubs(i) PROVE FollowsRule'
    BY <1>13 DEF TakeSubs, FailSubs, FollowsRule, Filtered, Under
  <1> QED BY <1>2, <1>4, <1>5, <1>6, <1>7, <1>8, <1>10, <1>11, <1>12, <1>13 DEF Next, Loading

\* Every tap leaves a pill picked, and that of the whole Large only alone.
LEMMA IntentStep == ASSUME TypeOK, OneIntent, [Next]_vars PROVE OneIntent'
  <1>1. CASE UNCHANGED <<picked, pills>>
    BY <1>1 DEF OneIntent
  <1>2. ASSUME NEW l \in larges \union {All}, SelectLarge(l) PROVE OneIntent'
    BY <1>2 DEF SelectLarge, OneIntent, Pseudo
  <1>3. ASSUME NEW sub \in Pills, ToggleSub(sub) PROVE OneIntent'
    <2>1. picked \in Choices /\ pills # {} /\ picked' = picked /\ pills' = Toggled(sub)
      BY <1>3 DEF TypeOK, OneIntent, ToggleSub
    <2>2. sub \notin Subs => sub = Pseudo(picked)
      <3>1. Under(picked, subs) \subseteq Subs
        BY TableShape DEF TypeOK, Under
      <3> QED BY <1>3, <3>1 DEF ToggleSub, VisibleSubs
    <2>3. \A l \in Choices : Pseudo(l) = Pseudo(picked) => l = picked
      BY DEF Pseudo
    <2>4. \A l \in Choices : Pseudo(l) \in pills => l = picked /\ pills = {Pseudo(picked)}
      BY DEF OneIntent
    <2>5. pills' # {}
      BY <2>1 DEF Toggled
    <2>6. \A l \in Choices : Pseudo(l) \in pills' => l = picked /\ pills' = {Pseudo(picked)}
      <3>1. CASE sub \notin Subs
        BY <3>1, <2>1, <2>2, <2>3 DEF Toggled
      <3>2. CASE sub \in Subs /\ sub \notin pills
        BY <3>2, <2>1, <2>4, PseudoAssumption DEF Toggled
      <3>3. CASE sub \in Subs /\ pills = {sub}
        BY <3>3, <2>1, <2>3 DEF Toggled
      <3>4. CASE sub \in Subs /\ sub \in pills /\ pills # {sub}
        BY <3>4, <2>1, <2>4, PseudoAssumption DEF Toggled
      <3> QED BY <3>1, <3>2, <3>3, <3>4
    <2> HIDE DEF Toggled
    <2> QED BY <2>1, <2>5, <2>6 DEF OneIntent
  <1> QED BY <1>1, <1>2, <1>3
          DEF Next, vars, page, Server, Customer, Loading, Open, OpenFurther, Refresh, ServeList,
              TakeProducts, FailProducts, TakeLarges, FailLarges, TakeSubs, FailSubs

\* A pill is always picked, and "All <Large>" only alone and for the Large picked.
THEOREM PillAlwaysPicked == Spec => []OneIntent
  <1>1. Init => OneIntent
    BY DEF Init, OneIntent, Pseudo
  <1> QED BY <1>1, IntentStep, TypeCorrect, PTL DEF Spec

\* The grid agrees with the pills seen lit, whatever order the answers and taps
\* come in, unless a pill that was picked is not seen any more.
THEOREM GridFollowsPills == Spec => []GridMatchesPills
  <1>1. TypeOK /\ TypeOK' /\ FollowsRule /\ [Next]_vars => FollowsRule'
    BY GridStep
  <1>2. TypeOK /\ OneIntent /\ FollowsRule => GridMatchesPills
    BY FilterRule
  <1> QED BY <1>1, <1>2, GridInit, TypeCorrect, PillAlwaysPicked, PTL DEF Spec

-----------------------------------------------------------------------------
(* What a load leaves on the page *)

Held(list) ==
  IF list = "products" THEN grid ELSE IF list = "large" THEN larges ELSE subs

\* The request of one list in a load that nothing disturbed.
Undisturbed(i, list) ==
  \/ loads[i][list] = Sent
  \/ loads[i][list] = [pc |-> "read", value |-> Current(list)]
  \/ loads[i][list] = Done /\ Held(list) = Current(list)
  \/ loads[i][list] = Unsent /\ list = "subs" /\ ~opened

\* While quiet, one load has been at work and all the others are over or to come.
QuietLoad ==
  quiet => \E k \in 1..MaxLoads :
             /\ \A list \in Lists : Undisturbed(k, list)
             /\ \A i \in 1..MaxLoads \ {k}, list \in Lists : loads[i][list] \in {Unsent, Done}

\* Before the second wave of the first load no other load begins.
FirstAlone ==
  /\ loads[1]["products"] = Unsent => ~opened /\ loads[1]["large"] = Unsent
  /\ ~opened => /\ loads[1]["subs"] = Unsent
                /\ \A i \in 2..MaxLoads, list \in Lists : loads[i][list] = Unsent

\* Until the page is open, only its first load has sent anything.
LEMMA FirstStep == ASSUME TypeOK, FirstAlone, [Next]_vars PROVE FirstAlone'
  <1>l. "products" \in Lists /\ "large" \in Lists /\ "subs" \in Lists /\ 1 \in 1..MaxLoads
    BY PageBounds DEF Lists
  <1>d. Done # Unsent /\ Sent # Unsent
    BY DEF Done, Unsent, Sent
  <1>1. CASE UNCHANGED <<loads, opened>>
    BY <1>1 DEF FirstAlone
  <1>2. CASE Open
    <2>1. ~opened
      BY <1>2, <1>l DEF Open, Started, FirstAlone
    <2>2. /\ loads'[1]["products"] = Sent /\ loads'[1]["subs"] = Unsent
          /\ \A i \in 2..MaxLoads : loads'[i] = loads[i]
      BY <1>2, <1>l DEF Open, TypeOK
    <2> QED BY <2>1, <2>2, <1>2, <1>d DEF Open, FirstAlone
  <1>3. CASE OpenFurther
    <2>1. loads[1]["products"] # Unsent
      BY <1>3, <1>l DEF OpenFurther, Started, FirstAlone, Lists
    <2>2. loads'[1]["products"] = loads[1]["products"] /\ opened'
      BY <1>3, <1>l DEF OpenFurther, TypeOK
    <2> QED BY <2>1, <2>2 DEF FirstAlone
  <1>4. CASE Refresh
    <2>1. PICK i \in NextLoad : loads' = [loads EXCEPT ![i] = [list \in Lists |-> Sent]]
      BY <1>4 DEF Refresh
    <2>2. loads[1]["products"] # Unsent /\ opened /\ opened'
      BY <1>4 DEF Refresh, FirstAlone
    <2>3. loads'[1]["products"] # Unsent
      BY <2>1, <2>2, <1>l, <1>d DEF TypeOK
    <2> QED BY <2>2, <2>3 DEF FirstAlone
  <1>5. ASSUME NEW i \in 1..MaxLoads, NEW list \in Lists, NEW stage,
               stage # Unsent, loads[i][list] # Unsent,
               loads' = [loads EXCEPT ![i][list] = stage], UNCHANGED opened
        PROVE FirstAlone'
    <2>1. \A j \in 1..MaxLoads, m \in Lists :
            loads'[j][m] = IF j = i /\ m = list THEN stage ELSE loads[j][m]
      BY <1>5 DEF TypeOK
    <2>2. \A j \in 1..MaxLoads, m \in Lists : loads'[j][m] = Unsent <=> loads[j][m] = Unsent
      BY <2>1, <1>5
    <2>3. \A j \in 2..MaxLoads : j \in 1..MaxLoads
      BY PageBounds
    <2> QED BY <2>2, <2>3, <1>5, <1>l DEF FirstAlone
  <1>6. ASSUME NEW i \in 1..MaxLoads, NEW list \in Lists, ServeList(i, list) PROVE FirstAlone'
    <2>1. [pc |-> "read", value |-> Current(list)] # Unsent
      BY DEF Unsent
    <2> QED BY <2>1, <1>5, <1>6, <1>d DEF ServeList
  <1>7. ASSUME NEW i \in 1..MaxLoads, NEW list \in Lists, Land(i, list), UNCHANGED opened,
               loads[i][list] = Sent \/ loads[i][list].pc = "read"
        PROVE FirstAlone'
    <2>1. loads[i][list] # Unsent
      BY <1>7, <1>d DEF Unsent
    <2> QED BY <2>1, <1>5, <1>7, <1>d DEF Land
  <1>8. ASSUME NEW i \in 1..MaxLoads, TakeProducts(i) \/ FailProducts(i) PROVE FirstAlone'
    BY <1>7, <1>8, <1>l DEF TakeProducts, FailProducts
  <1>9. ASSUME NEW i \in 1..MaxLoads, TakeLarges(i) \/ FailLarges(i) PROVE FirstAlone'
    BY <1>7, <1>9, <1>l DEF TakeLarges, FailLarges
  <1>10. ASSUME NEW i \in 1..MaxLoads, TakeSubs(i) \/ FailSubs(i) PROVE FirstAlone'
    BY <1>7, <1>10, <1>l DEF TakeSubs, FailSubs
  <1>11. CASE Server \/ Customer \/ UNCHANGED vars
    BY <1>1, <1>11 DEF Server, Customer, SelectLarge, ToggleSub, Tap, page, vars
  <1> QED BY <1>2, <1>3, <1>4, <1>6, <1>8, <1>9, <1>10, <1>11 DEF Next, Loading

\* A load that nothing disturbed carries what the server holds.
LEMMA QuietStep == ASSUME TypeOK, FirstAlone, QuietLoad, [Next]_vars PROVE QuietLoad'
  <1>l. "products" \in Lists /\ "large" \in Lists /\ "subs" \in Lists /\ 1 \in 1..MaxLoads
    BY PageBounds DEF Lists
  <1>d. Done # Unsent /\ Sent # Unsent /\ Done # Sent
        /\ \A v : [pc |-> "read", value |-> v] \notin {Unsent, Sent, Done}
    BY DEF Done, Unsent, Sent
  <1>1. CASE quiet' = FALSE
    BY <1>1 DEF QuietLoad
  <1>2. CASE UNCHANGED <<loads, opened, quiet, products, large, parent, grid, larges, subs>>
    BY <1>2 DEF QuietLoad, Undisturbed, Held, Current, WithParent
  <1>3. CASE Open
    <2>1. ~opened /\ ~opened'
      BY <1>3, <1>l DEF Open, Started, FirstAlone
    <2>2. \A list \in Lists : loads'[1][list] = IF list = "subs" THEN Unsent ELSE Sent
      BY <1>3, <1>l DEF Open, TypeOK
    <2>3. \A i \in 1..MaxLoads \ {1}, list \in Lists : loads'[i][list] = Unsent
      <3>1. \A i \in 1..MaxLoads \ {1} : i \in 2..MaxLoads /\ loads'[i] = loads[i]
        BY <1>3, PageBounds DEF Open, TypeOK
      <3> QED BY <3>1, <2>1 DEF FirstAlone
    <2>4. \A list \in Lists : Undisturbed(1, list)'
      BY <2>1, <2>2 DEF Undisturbed
    <2> QED BY <2>3, <2>4, <1>l DEF QuietLoad
  <1>4. CASE OpenFurther /\ quiet
    <2>1. PICK k \in 1..MaxLoads :
            /\ \A list \in Lists : Undisturbed(k, list)
            /\ \A i \in 1..MaxLoads \ {k}, list \in Lists : loads[i][list] \in {Unsent, Done}
      BY <1>4 DEF QuietLoad
    <2>2. k = 1
      <3>1. loads[k]["products"] # Unsent
        BY <2>1, <1>l, <1>d DEF Undisturbed
      <3>2. k \in 2..MaxLoads => loads[k]["products"] = Unsent
        BY <1>4, <1>l DEF OpenFurther, FirstAlone
      <3> QED BY <3>1, <3>2, PageBounds
    <2>3. \A j \in 1..MaxLoads, m \in Lists :
            loads'[j][m] = IF j = 1 /\ m = "subs" THEN Sent ELSE loads[j][m]
      BY <1>4, <1>l DEF OpenFurther, TypeOK
    <2>4. \A m \in Lists : Undisturbed(1, m)'
      <3>1. \A m \in Lists : Held(m)' = Held(m) /\ Current(m)' = Current(m)
        BY <1>4 DEF OpenFurther, categories, Held, Current, WithParent
      <3> QED BY <2>1, <2>2, <2>3, <3>1, <1>l DEF Undisturbed
    <2> QED BY <2>1, <2>2, <2>3, <2>4 DEF QuietLoad
  <1>5. CASE Refresh /\ NothingOut
    <2>1. PICK k \in 1..MaxLoads : loads' = [loads EXCEPT ![k] = [list \in Lists |-> Sent]]
      BY <1>5 DEF Refresh, NextLoad
    <2>2. \A m \in Lists : loads'[k][m] = Sent
      BY <2>1 DEF TypeOK
    <2>3. ASSUME NEW i \in 1..MaxLoads \ {k}, NEW m \in Lists PROVE loads'[i][m] \in {Unsent, Done}
      <3>1. loads'[i][m] = loads[i][m] /\ loads[i][m] \in Stages(m)
        BY <2>1 DEF TypeOK
      <3>2. loads[i][m].pc \notin {"sent", "read"}
        BY <1>5 DEF NothingOut, Waiting
      <3> QED BY <3>1, <3>2 DEF Stages, Sent
    <2> QED BY <2>2, <2>3 DEF QuietLoad, Undisturbed
  <1>6. ASSUME NEW i \in 1..MaxLoads, NEW list \in Lists, NEW stage,
               quiet, loads[i][list] \notin {Unsent, Done},
               loads' = [loads EXCEPT ![i][list] = stage],
               UNCHANGED <<categories, products, opened>>,
               \A m \in Lists \ {list} : Held(m)' = Held(m),
               \/ stage = [pc |-> "read", value |-> Current(list)]
               \/ /\ stage = Done
                  /\ loads[i][list].pc = "read"
                  /\ Held(list)' = loads[i][list].value
        PROVE QuietLoad'
    <2>1. PICK k \in 1..MaxLoads :
            /\ \A m \in Lists : Undisturbed(k, m)
            /\ \A j \in 1..MaxLoads \ {k}, m \in Lists : loads[j][m] \in {Unsent, Done}
      BY <1>6 DEF QuietLoad
    <2>2. i = k
      BY <2>1, <1>6
    <2>3. \A j \in 1..MaxLoads, m \in Lists :
            loads'[j][m] = IF j = i /\ m = list THEN stage ELSE loads[j][m]
      BY <1>6 DEF TypeOK
    <2>4. \A m \in Lists : Current(m)' = Current(m)
      BY <1>6 DEF Current, categories, WithParent
    <2>5. Undisturbed(k, list)'
      <3>1. loads'[k][list] = stage
        BY <2>2, <2>3
      <3>2. CASE stage = [pc |-> "read", value |-> Current(list)]
        BY <3>1, <3>2, <2>4 DEF Undisturbed
      <3>3. CASE stage = Done /\ loads[i][list].pc = "read" /\ Held(list)' = loads[i][list].value
        <4>1. loads[k][list] = [pc |-> "read", value |-> Current(list)]
          BY <2>1, <2>2, <3>3, <1>6 DEF Undisturbed, Sent
        <4>2. Held(list)' = Current(list)
          BY <4>1, <3>3, <2>2
        <4> QED BY <3>1, <3>3, <4>2, <2>4 DEF Undisturbed
      <3> QED BY <3>2, <3>3, <1>6
    <2>6. ASSUME NEW m \in Lists \ {list} PROVE Undisturbed(k, m)'
      BY <2>1, <2>3, <2>4, <1>6 DEF Undisturbed
    <2>7. \A j \in 1..MaxLoads \ {k}, m \in Lists : loads'[j][m] \in {Unsent, Done}
      BY <2>1, <2>2, <2>3
    <2> QED BY <2>5, <2>6, <2>7 DEF QuietLoad
  <1>7. ASSUME NEW i \in 1..MaxLoads, NEW list \in Lists, ServeList(i, list), quiet PROVE QuietLoad'
    <2>1. \A m \in Lists : Held(m)' = Held(m)
      BY <1>7 DEF ServeList, Held
    <2> QED BY <2>1, <1>6, <1>7, <1>d DEF ServeList
  <1>8. ASSUME NEW i \in 1..MaxLoads, NEW list \in Lists, loads[i][list].pc = "read"
        PROVE loads[i][list] \notin {Unsent, Done}
    BY <1>8 DEF Unsent, Done
  <1>9. ASSUME NEW i \in 1..MaxLoads, TakeProducts(i), quiet PROVE QuietLoad'
    <2>1. /\ \A m \in Lists \ {"products"} : Held(m)' = Held(m)
          /\ Held("products")' = loads[i]["products"].value
      BY <1>9 DEF TakeProducts, Held
    <2>2. /\ loads' = [loads EXCEPT ![i]["products"] = Done]
          /\ loads[i]["products"].pc = "read"
          /\ UNCHANGED <<categories, products, opened>>
      BY <1>9 DEF TakeProducts, Land
    <2>3. loads[i]["products"] \notin {Unsent, Done}
      BY <2>2, <1>8, <1>l
    <2> QED BY <2>1, <2>2, <2>3, <1>6, <1>9, <1>l
  <1>10. ASSUME NEW i \in 1..MaxLoads, TakeLarges(i), quiet PROVE QuietLoad'
    <2>1. /\ \A m \in Lists \ {"large"} : Held(m)' = Held(m)
          /\ Held("large")' = loads[i]["large"].value
      BY <1>10 DEF TakeLarges, Held
    <2>2. /\ loads' = [loads EXCEPT ![i]["large"] = Done]
          /\ loads[i]["large"].pc = "read"
          /\ UNCHANGED <<categories, products, opened>>
      BY <1>10 DEF TakeLarges, Land
    <2>3. loads[i]["large"] \notin {Unsent, Done}
      BY <2>2, <1>8, <1>l
    <2> QED BY <2>1, <2>2, <2>3, <1>6, <1>10, <1>l
  <1>11. ASSUME NEW i \in 1..MaxLoads, TakeSubs(i), quiet PROVE QuietLoad'
    <2>1. /\ \A m \in Lists \ {"subs"} : Held(m)' = Held(m)
          /\ Held("subs")' = loads[i]["subs"].value
      BY <1>11 DEF TakeSubs, Held, Lists
    <2>2. /\ loads' = [loads EXCEPT ![i]["subs"] = Done]
          /\ loads[i]["subs"].pc = "read"
          /\ UNCHANGED <<categories, products, opened>>
      BY <1>11 DEF TakeSubs, Land
    <2>3. loads[i]["subs"] \notin {Unsent, Done}
      BY <2>2, <1>8, <1>l
    <2> QED BY <2>1, <2>2, <2>3, <1>6, <1>11, <1>l
  <1>12. CASE Server
    BY <1>1, <1>12 DEF Server
  <1>13. CASE Customer \/ UNCHANGED vars
    BY <1>2, <1>13 DEF Customer, SelectLarge, ToggleSub, Tap, categories, vars
  <1>14. CASE Refresh
    BY <1>1, <1>5, <1>14 DEF Refresh, NothingOut
  <1>15. CASE OpenFurther
    BY <1>1, <1>4, <1>15 DEF OpenFurther, TypeOK
  <1>16. ASSUME NEW i \in 1..MaxLoads,
                \/ \E list \in Lists : ServeList(i, list)
                \/ TakeProducts(i) \/ TakeLarges(i) \/ TakeSubs(i)
         PROVE QuietLoad'
    <2>1. CASE quiet
      BY <2>1, <1>7, <1>9, <1>10, <1>11, <1>16
    <2>2. CASE ~quiet
      <3>1. quiet' = FALSE
        BY <2>2, <1>16 DEF ServeList, TakeProducts, TakeLarges, TakeSubs, TypeOK
      <3> QED BY <3>1, <1>1
    <2> QED BY <2>1, <2>2
  <1>17. ASSUME NEW i \in 1..MaxLoads, FailProducts(i) \/ FailLarges(i) \/ FailSubs(i)
         PROVE QuietLoad'
    BY <1>1, <1>17 DEF FailProducts, FailLarges, FailSubs
  <1> QED BY <1>3, <1>12, <1>13, <1>14, <1>15, <1>16, <1>17 DEF Next, Loading

\* An undisturbed load leaves the page with what the server has.
THEOREM LoadReplacesAll == Spec => []RefreshShowsServer
  <1>1. Init => FirstAlone /\ QuietLoad
    <2> SUFFICES ASSUME Init PROVE FirstAlone /\ QuietLoad
      OBVIOUS
    <2>1. \A i \in 1..MaxLoads, list \in Lists : loads[i][list] = Unsent
      BY DEF Init
    <2>2. \A i \in 2..MaxLoads : i \in 1..MaxLoads
      BY PageBounds
    <2>3. 1 \in 1..MaxLoads /\ "products" \in Lists /\ "large" \in Lists /\ "subs" \in Lists
      BY PageBounds DEF Lists
    <2> QED BY <2>1, <2>2, <2>3 DEF Init, FirstAlone, QuietLoad
  <1>2. TypeOK /\ FirstAlone /\ QuietLoad /\ [Next]_vars => (FirstAlone /\ QuietLoad)'
    BY FirstStep, QuietStep
  <1>3. TypeOK /\ QuietLoad => RefreshShowsServer
    <2> SUFFICES ASSUME TypeOK, QuietLoad, quiet, opened, NothingOut
                 PROVE grid = products /\ larges = large /\ subs = WithParent
      BY DEF RefreshShowsServer
    <2>1. PICK k \in 1..MaxLoads : \A list \in Lists : Undisturbed(k, list)
      BY DEF QuietLoad
    <2>2. ASSUME NEW list \in Lists PROVE Held(list) = Current(list)
      <3>1. loads[k][list].pc \notin {"sent", "read"}
        BY DEF NothingOut, Waiting
      <3>2. loads[k][list] # Sent
        BY <3>1 DEF Sent
      <3>3. loads[k][list] # [pc |-> "read", value |-> Current(list)]
        BY <3>1
      <3> QED BY <2>1, <3>2, <3>3 DEF Undisturbed
    <2> QED BY <2>2 DEF Held, Current, Lists
  <1> QED BY <1>1, <1>2, <1>3, TypeCorrect, PTL DEF Spec
=============================================================================
