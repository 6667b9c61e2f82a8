----------------------------- MODULE Storefront -----------------------------
(***************************************************************************)
(* The home page (home_viewmodel.dart, home_screen.dart) over the          *)
(* categories of the server: the customer narrows the grid by a Large      *)
(* category and by pills of its sub-categories while the three lists       *)
(* behind the page are being loaded.                                       *)
(*                                                                         *)
(* A load asks for the products, the Large categories and the              *)
(* sub-categories by requests of their own, when the page opens and again  *)
(* at every pull and after every product dialog.  Nothing numbers the      *)
(* answers or keeps two loads apart.                                       *)
(***************************************************************************)
EXTENDS Categories

CONSTANTS
  Products,  \* products the catalogue may list
  Tags,      \* product -> the sub-categories it names (category and categories)
  All,       \* the choice "All" of the Large row
  MaxLoads   \* bound: loads the page ever starts

ASSUME TagsAssumption == Tags \in [Products -> SUBSET Subs]
ASSUME AllAssumption == All \notin Larges \union Subs
ASSUME PageBounds == MaxLoads \in Nat \ {0}

VARIABLES
  products,  \* rows of products
  grid,      \* _products
  shown,     \* _filteredProducts
  larges,    \* _largeCategories
  subs,      \* _subCategories: name -> its Large
  picked,    \* _selectedLarge
  pills,     \* _selectedSubs
  loads,     \* per load, per list: where the request is
  opened,    \* the second wave of the first load was sent
  quiet      \* the last load met no other, no failure and no write (history)

page == <<grid, shown, larges, subs, picked, pills, loads, opened>>
vars == <<large, parent, adding, writes, products, grid, shown, larges,
          subs, picked, pills, loads, opened, quiet>>

Lists == {"products", "large", "subs"}
Unsent == [pc |-> "unsent"]
Sent == [pc |-> "sent"]
Done == [pc |-> "done"]

Values(list) ==
  IF list = "products" THEN SUBSET Products
  ELSE IF list = "large" THEN SUBSET Larges ELSE Tables
Stages(list) == {Unsent, Sent, Done} \union [pc : {"read"}, value : Values(list)]

\* The pill "All <Large>".  A sub-category is not called so.
Pseudo(l) == <<l>>
Choices == Larges \union {All}
Pills == Subs \union {Pseudo(l) : l \in Choices}

ASSUME PseudoAssumption == \A l \in Choices : Pseudo(l) \notin Subs

Init ==
  /\ CategoriesInit
  /\ products = Products
  /\ grid = {} /\ shown = {}
  /\ larges = {}
  /\ subs = [c \in {} |-> None]
  /\ picked = All /\ pills = {Pseudo(All)}
  /\ loads = [i \in 1..MaxLoads |-> [list \in Lists |-> Unsent]]
  /\ opened = FALSE
  /\ quiet = FALSE

-----------------------------------------------------------------------------
(* The pills *)

Under(l, ss) == {c \in DOMAIN ss : ss[c] = l}

\* visibleSubCategories: no row of pills under "All".
VisibleSubs == IF picked = All THEN {} ELSE {Pseudo(picked)} \union Under(picked, subs)

\* _applyFilters: every real pill, else any sub-category of the Large, else all.
Filtered(ps, ss, l, chosen) ==
  LET real == chosen \intersect Subs IN
  IF real # {} THEN {p \in ps : real \subseteq Tags[p]}
  ELSE IF l # All THEN {p \in ps : Tags[p] \intersect Under(l, ss) # {}}
  ELSE ps

\* The chips are there once the page is past its skeleton.
Tap ==
  /\ grid # {}
  /\ shown' = Filtered(grid, subs, picked', pills')
  /\ UNCHANGED <<categories, products, grid, larges, subs, loads, opened, quiet>>

SelectLarge(l) ==
  /\ l # picked
  /\ picked' = l
  /\ pills' = {Pseudo(l)}
  /\ Tap

\* The set is never left empty.
Toggled(sub) ==
  IF sub \notin Subs THEN {sub}
  ELSE IF sub \notin pills THEN (pills \ {Pseudo(picked)}) \union {sub}
  ELSE IF pills = {sub} THEN {Pseudo(picked)} ELSE pills \ {sub}

ToggleSub(sub) ==
  /\ sub \in VisibleSubs
  /\ pills' = Toggled(sub)
  /\ picked' = picked
  /\ Tap

-----------------------------------------------------------------------------
(* The loads *)

Waiting(i) == {list \in Lists : loads[i][list].pc \in {"sent", "read"}}
Started(i) == \E list \in Lists : loads[i][list] # Unsent
NextLoad == {i \in 1..MaxLoads : ~Started(i) /\ \A j \in 1..(i - 1) : Started(j)}
NothingOut == \A i \in 1..MaxLoads : Waiting(i) = {}

\* Products and Large categories.
Open ==
  /\ ~Started(1)
  /\ loads' = [loads EXCEPT ![1] = [list \in Lists |->
                 IF list = "subs" THEN Unsent ELSE Sent]]
  /\ quiet' = TRUE
  /\ UNCHANGED <<categories, products, grid, shown, larges, subs, picked, pills, opened>>

\* One frame later: the sub-categories.
OpenFurther ==
  /\ Started(1) /\ ~opened
  /\ opened' = TRUE
  /\ loads' = [loads EXCEPT ![1]["subs"] = Sent]
  /\ UNCHANGED <<categories, products, grid, shown, larges, subs, picked, pills, quiet>>

\* initialize: a pull, the retry of the error page, or the end of a dialog.
Refresh ==
  /\ opened
  /\ \E i \in NextLoad : loads' = [loads EXCEPT ![i] = [list \in Lists |-> Sent]]
  /\ quiet' = NothingOut
  /\ UNCHANGED <<categories, products, grid, shown, larges, subs, picked, pills, opened>>

\* What the server answers at this moment.
Current(list) ==
  IF list = "products" THEN products ELSE IF list = "large" THEN large ELSE WithParent

ServeList(i, list) ==
  /\ loads[i][list] = Sent
  /\ loads' = [loads EXCEPT ![i][list] = [pc |-> "read", value |-> Current(list)]]
  /\ UNCHANGED <<categories, products, grid, shown, larges, subs, picked, pills, opened, quiet>>

Land(i, list) == loads' = [loads EXCEPT ![i][list] = Done]

\* loadCriticalData filters once both of its requests have come to an end; a
\* list of products that comes first is shown as it is.
ShownAfter(i, other, ps, unfiltered) ==
  IF loads[i][other] = Done THEN Filtered(ps, subs, picked, pills) ELSE unfiltered

TakeProducts(i) ==
  /\ loads[i]["products"].pc = "read"
  /\ Land(i, "products")
  /\ grid' = loads[i]["products"].value
  /\ shown' = ShownAfter(i, "large", grid', grid')
  /\ UNCHANGED <<categories, products, larges, subs, picked, pills, opened, quiet>>

\* No answer, or one that is no list: the page is emptied.
FailProducts(i) ==
  /\ loads[i]["products"] = Sent
  /\ Land(i, "products")
  /\ grid' = {} /\ shown' = {}
  /\ quiet' = FALSE
  /\ UNCHANGED <<categories, products, larges, subs, picked, pills, opened>>

\* Mutated form: the list is not cleared first.
TakeLargesOntoOld(i) ==
  /\ loads[i]["large"].pc = "read"
  /\ Land(i, "large")
  /\ larges' = larges \union loads[i]["large"].value
  /\ shown' = ShownAfter(i, "products", grid, shown)
  /\ UNCHANGED <<categories, products, grid, subs, picked, pills, opened, quiet>>

TakeLarges(i) ==
  /\ loads[i]["large"].pc = "read"
  /\ Land(i, "large")
  /\ larges' = loads[i]["large"].value
  /\ shown' = ShownAfter(i, "products", grid, shown)
  /\ UNCHANGED <<categories, products, grid, subs, picked, pills, opened, quiet>>

\* The lists of categories keep their last value.
FailLarges(i) ==
  /\ loads[i]["large"] = Sent
  /\ Land(i, "large")
  /\ shown' = ShownAfter(i, "products", grid, shown)
  /\ quiet' = FALSE
  /\ UNCHANGED <<categories, products, grid, larges, subs, picked, pills, opened>>

\* Mutated form: the new sub-categories are not applied to the grid.
TakeSubsUnapplied(i) ==
  /\ loads[i]["subs"].pc = "read"
  /\ Land(i, "subs")
  /\ subs' = loads[i]["subs"].value
  /\ UNCHANGED <<categories, products, grid, shown, larges, picked, pills, opened, quiet>>

\* loadAuxData.
TakeSubs(i) ==
  /\ loads[i]["subs"].pc = "read"
  /\ Land(i, "subs")
  /\ subs' = loads[i]["subs"].value
  /\ shown' = Filtered(grid, subs', picked, pills)
  /\ UNCHANGED <<categories, products, grid, larges, picked, pills, opened, quiet>>

FailSubs(i) ==
  /\ loads[i]["subs"] = Sent
  /\ Land(i, "subs")
  /\ shown' = Filtered(grid, subs, picked, pills)
  /\ quiet' = FALSE
  /\ UNCHANGED <<categories, products, grid, larges, subs, picked, pills, opened>>

-----------------------------------------------------------------------------

\* The editors change what the list of products holds.
EditProducts ==
  /\ Begun
  /\ products' \in SUBSET Products \ {products}
  /\ UNCHANGED <<large, parent, adding>>

Server ==
  /\ \/ CategoriesNext /\ UNCHANGED products
     \/ EditProducts
  /\ quiet' = FALSE
  /\ UNCHANGED page

Customer ==
  \/ \E l \in larges \union {All} : SelectLarge(l)
  \/ \E sub \in Pills : ToggleSub(sub)

Loading ==
  \/ Open \/ OpenFurther \/ Refresh
  \/ \E i \in 1..MaxLoads :
       \/ \E list \in Lists : ServeList(i, list)
       \/ TakeProducts(i) \/ FailProducts(i)
       \/ TakeLarges(i) \/ FailLarges(i)
       \/ TakeSubs(i) \/ FailSubs(i)

Next == Server \/ Customer \/ Loading

Spec == Init /\ [][Next]_vars

-----------------------------------------------------------------------------
(* Properties *)

\* The tables of the server, and lists and pills of the page out of names that
\* exist; what is shown is part of what was loaded (_filteredProducts is only
\* ever made from _products).
TypeOK ==
  /\ CategoriesOK
  /\ products \subseteq Products
  /\ grid \subseteq Products /\ shown \subseteq grid
  /\ opened \in BOOLEAN /\ quiet \in BOOLEAN
  /\ larges \subseteq Larges
  /\ subs \in Tables
  /\ DOMAIN loads = 1..MaxLoads
  /\ \A i \in 1..MaxLoads : DOMAIN loads[i] = Lists
  /\ \A i \in 1..MaxLoads, list \in Lists : loads[i][list] \in Stages(list)
  /\ picked \in Choices /\ pills \subseteq Pills

\* Between the two answers of one load the grid may show every product.
HalfLoaded ==
  \E i \in 1..MaxLoads : loads[i]["products"] = Done /\ loads[i]["large"] # Done

\* The pills lit on the page: those picked that the row has a chip for.
Lit == pills \intersect VisibleSubs

\* A sub-category picked before a load that no longer lists it under the Large:
\* _selectedSubs is not pruned, its chip is gone.
PickedUnseen == (pills \intersect Subs) \ Lit # {}

\* The grid agrees with the pills the customer sees lit, whatever order the
\* answers of the loads and the taps came in (_applyFilters is called by hand
\* after each of them; the comment over it gives the rule).  A pill that was
\* picked and is not seen any more is the exception.
GridMatchesPills ==
  \/ /\ Lit \intersect Subs # {}
     /\ shown = {p \in grid : \A c \in Lit \intersect Subs : c \in Tags[p]}
  \/ /\ picked # All /\ Lit = {Pseudo(picked)}
     /\ shown = {p \in grid : \E c \in VisibleSubs \intersect Subs : c \in Tags[p]}
  \/ picked = All /\ shown = grid
  \/ HalfLoaded /\ shown = grid
  \/ PickedUnseen

\* The row of pills never shows all of them unlit: "the user always has at
\* least one pill selected (= no way to render an empty filter and show zero
\* products)" (home_viewmodel.dart).
APillIsLit == picked # All => Lit # {}

\* A pill is always picked, "All <Large>" is picked alone, and it is the one of
\* the Large picked (selectLarge, toggleSub).
OneIntent ==
  /\ pills # {}
  /\ \A l \in Choices : Pseudo(l) \in pills => l = picked /\ pills = {Pseudo(l)}

\* A load that met no write, no failure and no other load leaves the page with
\* what the server has: nothing of an earlier load survives it.
RefreshShowsServer ==
  quiet /\ opened /\ NothingOut =>
    /\ grid = products
    /\ larges = large
    /\ subs = WithParent
=============================================================================
