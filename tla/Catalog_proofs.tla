--------------------------- MODULE Catalog_proofs ---------------------------
(***************************************************************************)
(* The catalog for every number of products, pictures, articles, events    *)
(* and admins.  What holds depends on who works at the same time, and each *)
(* theorem names the condition it needs.                                   *)
(***************************************************************************)
EXTENDS Catalog, TLAPS

\* Foreign keys are enforced on every connection.
ForeignKeys == "sqlite" \notin Faults

\* One admin edits products; others may delete them, and edit the rest.
OneEditor == \A a, b \in ProductEditors : a = b

\* One admin deletes products and edits articles and events.
OneKeeper == \A a, b \in Curators \cup Deleters : a = b

OneAdmin == \A a, b \in Admins : a = b

-----------------------------------------------------------------------------
(* The strengthenings                                                      *)

\* What a form or a request holds was handed out before.
Held(t) ==
  /\ t.pc = "form" =>
       /\ t.shown \cup t.fresh \subseteq used
       /\ t.product # "new" => t.product \in used
  /\ t.pc \in {"staged", "cleaned"} => t.gallery \subseteq used /\ t.product \in used
  /\ t.pc \in Deleting \cup {"clean_files"} => t.product \in used
  /\ t.pc = "editing" => t.holder \in used
AllHeld == \A a \in Admins : Held(task[a])

\* An Update that lists pictures has its row, and keeps it.
Anchored(t) == t.pc \in {"staged", "cleaned"} /\ t.gallery # {} => t.product \in products
UpdatesAnchored == \A a \in Admins : Anchored(task[a])

\* Every kind of request is made by those who may.
RightAdmin(a, t) ==
  /\ t.pc \in {"form", "staged", "cleaned"} => a \in ProductEditors
  /\ t.pc \in Deleting \cup {"clean_files"} => a \in Deleters
  /\ t.pc = "editing" => a \in Curators
RightAdmins == \A a \in Admins : RightAdmin(a, task[a])

\* The pictures that were first listed by p.
Of(p) == {u \in DOMAIN home : home[u] = p}

\* A picture stays with the product that first listed it, in the rows and in
\* every form and request, and a new one is on disk and listed nowhere.
AtHome(t) ==
  /\ t.pc = "form" =>
       /\ t.product # "new" => t.shown \subseteq Of(t.product)
       /\ t.fresh \cap DOMAIN home = {} /\ t.fresh \subseteq files
  /\ t.pc \in {"staged", "cleaned"} =>
       /\ t.gallery \cap DOMAIN home \subseteq Of(t.product)
       /\ t.removed \subseteq Of(t.product) /\ t.removed \cap t.gallery = {}
  /\ t.pc \in Deleting \cup {"clean_files"} => t.urls \subseteq Of(t.product)
  /\ t.pc = "clean_files" => t.product \notin products
AllAtHome ==
  /\ \A p \in Products : images[p] \subseteq Of(p)
  /\ \A a \in Admins : AtHome(task[a])

\* What the editor is about to list is on disk.
Backed(t) ==
  /\ t.pc = "form" /\ t.product \in products \ {"new"} => t.shown \subseteq files
  /\ t.pc \in {"staged", "cleaned"} /\ t.product \in products => t.gallery \subseteq files
AllBacked == \A a \in Admins : Backed(task[a])

\* A Delete is past the rows that list its product, or holds their new lists.
Scrubbed(t) ==
  /\ t.pc = "editing" => t.offered \subseteq products
  /\ t.pc \in {"scrub_articles", "scrub_events"} =>
       \A h \in DOMAIN t.rewrites : t.rewrites[h] \subseteq products \ {t.product}
  /\ t.pc = "scrub_articles" =>
       \A h \in DOMAIN refs \cap Articles : t.product \in refs[h] => h \in DOMAIN t.rewrites
  /\ t.pc \in {"scan_events", "scrub_events", "drop_row"} =>
       \A h \in DOMAIN refs \cap Articles : t.product \notin refs[h]
  /\ t.pc = "scrub_events" =>
       \A h \in DOMAIN refs \cap Events : t.product \in refs[h] => h \in DOMAIN t.rewrites
  /\ t.pc = "drop_row" =>
       \A h \in DOMAIN refs \cap Events : t.product \notin refs[h]
AllScrubbed == \A a \in Admins : Scrubbed(task[a])

\* With one admin a picture that is on disk and was listed is still listed by
\* its product, or is on the list of what the Delete in progress cleans up.
Cleaning(t, u) ==
  /\ t.pc \in Deleting \cup {"clean_files"} /\ t.product = home[u] /\ u \in t.urls
  /\ t.pc \in Deleting => home[u] \in products
Accounted(t) ==
  /\ t.pc = "form" /\ t.product # "new" => t.product \in products /\ t.shown = images[t.product]
  /\ t.pc \in {"staged", "cleaned"} =>
       t.product \in products /\ images[t.product] \subseteq t.gallery \cup t.removed
  /\ t.pc = "cleaned" => t.removed \cap files = {}
  /\ t.pc = "drop_images" => images[t.product] \subseteq t.urls
  /\ t.pc \in Deleting \ {"drop_images"} => images[t.product] = {}
AllAccounted ==
  /\ \A u \in DOMAIN home \cap files :
       \/ home[u] \in products /\ u \in images[home[u]]
       \/ \E a \in Admins : Cleaning(task[a], u)
  /\ \A a \in Admins : Accounted(task[a])

-----------------------------------------------------------------------------
(* Type correctness                                                        *)

\* The new lists a Delete has computed.
Rewrites == UNION {[H -> SUBSET Products] : H \in SUBSET Holders}

FormTask   == [pc : {"form"}, product : Products \cup {"new"}, shown : SUBSET Urls, fresh : SUBSET Urls]
UpdateTask == [pc : {"staged", "cleaned"}, product : Products, gallery : SUBSET Urls, removed : SUBSET Urls]
DeleteTask == [pc : Deleting \cup {"clean_files"}, product : Products, urls : SUBSET Urls,
               rewrites : Rewrites]
EditTask   == [pc : {"editing"}, holder : Holders, offered : SUBSET Products]

\* What a task holds is told by its pc.
LEMMA Shapes ==
  ASSUME NEW t \in TaskState
  PROVE  /\ t.pc = "form" <=> t \in FormTask
         /\ t.pc \in {"staged", "cleaned"} <=> t \in UpdateTask
         /\ t.pc \in Deleting \cup {"clean_files"} <=> t \in DeleteTask
         /\ t.pc = "editing" <=> t \in EditTask
         /\ t.pc = "idle" <=> t = Idle
<1>1. t \in {Idle} \cup FormTask \cup UpdateTask \cup DeleteTask \cup EditTask
  BY DEF TaskState, FormTask, UpdateTask, DeleteTask, EditTask, Rewrites
<1> QED BY <1>1 DEF FormTask, UpdateTask, DeleteTask, EditTask, Deleting, Idle

\* These are all the shapes a task takes.
LEMMA ShapesTyped ==
  {Idle} \cup FormTask \cup UpdateTask \cup DeleteTask \cup EditTask = TaskState
  BY DEF TaskState, FormTask, UpdateTask, DeleteTask, EditTask, Rewrites

\* What is in Rewrites.
LEMMA RewritesAre ==
  \A f : f \in Rewrites <=> f \in [DOMAIN f -> SUBSET Products] /\ DOMAIN f \subseteq Holders
<1>1. ASSUME NEW f \in Rewrites PROVE f \in [DOMAIN f -> SUBSET Products] /\ DOMAIN f \subseteq Holders
  <2>1. PICK S \in {[H -> SUBSET Products] : H \in SUBSET Holders} : f \in S
    BY DEF Rewrites
  <2> QED BY <2>1
<1>2. ASSUME NEW f, f \in [DOMAIN f -> SUBSET Products], DOMAIN f \subseteq Holders PROVE f \in Rewrites
  BY <1>2 DEF Rewrites
<1> QED BY <1>1, <1>2

\* No step takes a table, the disk or a task out of its type.
LEMMA TypeStep == TypeOK /\ AllHeld /\ [Next]_vars => TypeOK' /\ AllHeld'
<1> DEFINE Kept == TypeOK' /\ AllHeld'
<1> SUFFICES ASSUME TypeOK, AllHeld, [Next]_vars
             PROVE  Kept
  OBVIOUS
<1> USE ShapesTyped, Shapes DEF Admins
<1>11. ASSUME NEW a \in Deleters, NEW p \in Products, SnapshotImages(a, p) PROVE Kept
  <2>1. PICK urls \in SUBSET (used \cap Urls) :
          task' = [task EXCEPT ![a] = [pc |-> "drop_images", product |-> p, urls |-> urls, rewrites |-> NoRewrites]]
    BY <1>11 DEF SnapshotImages, Do, TypeOK
  <2>2. NoRewrites \in Rewrites
    BY RewritesAre DEF NoRewrites
  <2>3. [pc |-> "drop_images", product |-> p, urls |-> urls, rewrites |-> NoRewrites] \in DeleteTask
    BY <2>2 DEF DeleteTask, Deleting
  <2> QED BY <1>11, <2>1, <2>3 DEF SnapshotImages, TypeOK, AllHeld, Held, Deleting
<1>13. ASSUME NEW a \in Deleters, ScanArticles(a) PROVE Kept
  <2> DEFINE p == task[a].product
             f == [h \in {g \in Articles \cap DOMAIN refs : p \in refs[g]} |-> refs[h] \ {p}]
  <2>1. /\ task[a] \in DeleteTask /\ task' = [task EXCEPT ![a] = [task[a] EXCEPT !.pc = "scrub_articles", !.rewrites = f]]
        /\ UNCHANGED <<products, images, refs, files, used, home>>
    BY <1>13 DEF ScanArticles, ScanTable, Do, TypeOK, Deleting
  <2>2. f \in Rewrites
    BY RewritesAre DEF TypeOK
  <2> HIDE DEF f
  <2>3. [task[a] EXCEPT !.pc = "scrub_articles", !.rewrites = f] \in DeleteTask
    BY <2>1, <2>2 DEF DeleteTask, Deleting
  <2> QED BY <2>1, <2>3, <1>13 DEF DeleteTask, ScanArticles, ScanTable, TypeOK, AllHeld, Held, Deleting
<1>14. ASSUME NEW a \in Deleters, ScanEvents(a) PROVE Kept
  <2> DEFINE p == task[a].product
             f == [h \in {g \in Events \cap DOMAIN refs : p \in refs[g]} |-> refs[h] \ {p}]
  <2>1. /\ task[a] \in DeleteTask /\ task' = [task EXCEPT ![a] = [task[a] EXCEPT !.pc = "scrub_events", !.rewrites = f]]
        /\ UNCHANGED <<products, images, refs, files, used, home>>
    BY <1>14 DEF ScanEvents, ScanTable, Do, TypeOK, Deleting
  <2>2. f \in Rewrites
    BY RewritesAre DEF TypeOK
  <2> HIDE DEF f
  <2>3. [task[a] EXCEPT !.pc = "scrub_events", !.rewrites = f] \in DeleteTask
    BY <2>1, <2>2 DEF DeleteTask, Deleting
  <2> QED BY <2>1, <2>3, <1>14 DEF DeleteTask, ScanEvents, ScanTable, TypeOK, AllHeld, Held, Deleting
<1>15. ASSUME NEW a \in Deleters, NEW h \in Holders, ScrubRow(a, h) PROVE Kept
  <2> DEFINE f == Restrict(task[a].rewrites, DOMAIN task[a].rewrites \ {h})
  <2>1. /\ task[a] \in DeleteTask /\ task' = [task EXCEPT ![a] = [task[a] EXCEPT !.rewrites = f]]
        /\ task[a].pc \in {"scrub_articles", "scrub_events"}
    BY <1>15 DEF ScrubRow, Do, TypeOK, Deleting
  <2>2. task[a].rewrites \in [DOMAIN task[a].rewrites -> SUBSET Products] /\ DOMAIN task[a].rewrites \subseteq Holders
    BY <2>1, RewritesAre DEF DeleteTask
  <2>3. f \in Rewrites
    BY <2>2, RewritesAre DEF Restrict
  <2>4. refs' \in [DOMAIN refs' -> SUBSET Products] /\ DOMAIN refs' = DOMAIN refs
    BY <2>2, <1>15 DEF ScrubRow, TypeOK
  <2> HIDE DEF f
  <2>5. [task[a] EXCEPT !.rewrites = f] \in DeleteTask
    BY <2>1, <2>3 DEF DeleteTask
  <2>6. UNCHANGED <<products, images, files, used, home>>
    BY <1>15 DEF ScrubRow
  <2> QED BY <2>1, <2>4, <2>5, <2>6 DEF DeleteTask, TypeOK, AllHeld, Held, Deleting
<1>21. ASSUME NEW a \in Curators, NEW ids \in SUBSET Products, SaveHolder(a, ids) PROVE Kept
  <2>1. task[a] \in EditTask /\ task' = [task EXCEPT ![a] = Idle] /\ refs' = With(refs, task[a].holder, ids)
        /\ UNCHANGED <<products, images, files, used, home>>
    BY <1>21 DEF SaveHolder, Do, TypeOK
  <2>2. refs' \in [DOMAIN refs' -> SUBSET Products] /\ DOMAIN refs' \subseteq used \cap Holders
    BY <2>1, <1>21 DEF With, TypeOK, EditTask, AllHeld, Held, SaveHolder
  <2> QED BY <2>1, <2>2 DEF TypeOK, AllHeld, Held, Idle, Deleting
<1>22. ASSUME NEW a \in Curators, NEW h \in Holders, DeleteHolder(a, h) PROVE Kept
  <2>1. /\ refs' = Restrict(refs, DOMAIN refs \ {h})
        /\ task' = [b \in Admins |-> IF task[b].pc = "editing" /\ task[b].holder = h THEN Idle ELSE task[b]]
        /\ UNCHANGED <<products, images, files, used, home>>
    BY <1>22 DEF DeleteHolder
  <2>2. refs' \in [DOMAIN refs' -> SUBSET Products] /\ DOMAIN refs' \subseteq DOMAIN refs
    BY <2>1 DEF Restrict, TypeOK
  <2>3. \A b \in Admins : task'[b] \in TaskState /\ (task'[b] = Idle \/ task'[b] = task[b])
    BY <2>1 DEF TypeOK
  <2>4. task' \in [Admins -> TaskState]
    BY <2>1, <2>3
  <2>5. AllHeld'
    BY <2>1, <2>3 DEF AllHeld, Held, Idle, Deleting
  <2> QED BY <2>1, <2>2, <2>4, <2>5 DEF TypeOK
<1> USE ShapesTyped, Shapes DEF Admins, Do, Idle, Deleting, ScanTable, TypeOK, FormTask,
       UpdateTask, DeleteTask, EditTask, AllHeld, Held
<1>1. ASSUME NEW a \in ProductEditors, OpenNewProduct(a) PROVE Kept
  BY <1>1 DEF OpenNewProduct
<1>2. ASSUME NEW a \in ProductEditors, NEW p \in Products, OpenProduct(a, p) PROVE Kept
  BY <1>2 DEF OpenProduct
<1>3. ASSUME NEW a \in ProductEditors, NEW p \in Products, CreateProduct(a, p) PROVE Kept
  BY <1>3 DEF CreateProduct
<1>4. ASSUME NEW a \in ProductEditors, NEW u \in Urls, Upload(a, u) PROVE Kept
  BY <1>4 DEF Upload
<1>5. ASSUME NEW a \in ProductEditors, NEW u \in Urls, FailUpload(a, u) PROVE Kept
  BY <1>5 DEF FailUpload
<1>6. ASSUME NEW a \in ProductEditors, NEW removed \in SUBSET Urls, BeginUpdate(a, removed) PROVE Kept
  BY <1>6 DEF BeginUpdate
<1>7. ASSUME NEW a \in ProductEditors, RollBack(a) PROVE Kept
  BY <1>7 DEF RollBack
<1>8. ASSUME NEW a \in ProductEditors, CleanRemoved(a) PROVE Kept
  BY <1>8 DEF CleanRemoved
<1>9. ASSUME NEW a \in ProductEditors, Commit(a) PROVE Kept
  BY <1>9 DEF Commit
<1>10. ASSUME NEW a \in ProductEditors, FailCommit(a) PROVE Kept
  BY <1>10 DEF FailCommit
<1>12. ASSUME NEW a \in Deleters, DropImages(a) PROVE Kept
  BY <1>12 DEF DropImages
<1>16. ASSUME NEW a \in Deleters, EndScrub(a) PROVE Kept
  BY <1>16 DEF EndScrub
<1>17. ASSUME NEW a \in Deleters, DropRow(a) PROVE Kept
  BY <1>17 DEF DropRow
<1>18. ASSUME NEW a \in Deleters, CleanFiles(a) PROVE Kept
  BY <1>18 DEF CleanFiles
<1>19. ASSUME NEW a \in Deleters, FailDelete(a) PROVE Kept
  BY <1>19 DEF FailDelete
<1>20. ASSUME NEW a \in Curators, NEW h \in Holders, OpenHolder(a, h) PROVE Kept
  BY <1>20 DEF OpenHolder
<1>23. ASSUME NEW a \in Admins, Abandon(a) PROVE Kept
  BY <1>23 DEF Abandon
<1>u. CASE UNCHANGED vars
  BY <1>u DEF vars
<1> HIDE DEF Kept
<1> QED
  BY <1>1, <1>2, <1>3, <1>4, <1>5, <1>6, <1>7, <1>8, <1>9, <1>10, <1>11, <1>12,
     <1>13, <1>14, <1>15, <1>16, <1>17, <1>18, <1>19, <1>20, <1>21, <1>22, <1>23, <1>u
  DEF Next, EditProduct, DeleteProduct, Curate

\* Type correctness, with what the tasks hold.
LEMMA Typed == Spec => [](TypeOK /\ AllHeld)
<1>1. Init => TypeOK /\ AllHeld
  BY ShapesTyped DEF Init, TypeOK, AllHeld, Held, Idle, Deleting
<1> QED BY <1>1, TypeStep, PTL DEF Spec

\* Tables, disk and requests keep their type, whoever works at the same time
\* and whatever fails.
THEOREM TypeCorrect == Spec => []TypeOK
<1> QED BY Typed, PTL

-----------------------------------------------------------------------------
(* Image rows                                                              *)

\* No step lists pictures of a product without its row: an Update holds the row
\* it wrote to, and a Delete waits for it.
LEMMA AnchorStep ==
  ASSUME ForeignKeys
  PROVE  TypeOK /\ UpdatesAnchored /\ NoStrayImages /\ [Next]_vars
         => UpdatesAnchored' /\ NoStrayImages'
<1> DEFINE Kept == UpdatesAnchored' /\ NoStrayImages'
<1> SUFFICES ASSUME TypeOK, UpdatesAnchored, NoStrayImages, [Next]_vars
             PROVE  Kept
  OBVIOUS
<1> USE Shapes DEF Admins, Do, Idle, Deleting, ScanTable, TypeOK, FormTask, UpdateTask,
       DeleteTask, EditTask, UpdatesAnchored, Anchored, NoStrayImages, ForeignKeys,
       Accepted, RowFree, InUpdate
<1>1. ASSUME NEW a \in ProductEditors, OpenNewProduct(a) PROVE Kept
  BY <1>1 DEF OpenNewProduct
<1>2. ASSUME NEW a \in ProductEditors, NEW p \in Products, OpenProduct(a, p) PROVE Kept
  BY <1>2 DEF OpenProduct
<1>3. ASSUME NEW a \in ProductEditors, NEW p \in Products, CreateProduct(a, p) PROVE Kept
  BY <1>3 DEF CreateProduct
<1>4. ASSUME NEW a \in ProductEditors, NEW u \in Urls, Upload(a, u) PROVE Kept
  BY <1>4 DEF Upload
<1>5. ASSUME NEW a \in ProductEditors, NEW u \in Urls, FailUpload(a, u) PROVE Kept
  BY <1>5 DEF FailUpload
<1>6. ASSUME NEW a \in ProductEditors, NEW removed \in SUBSET Urls, BeginUpdate(a, removed) PROVE Kept
  BY <1>6 DEF BeginUpdate
<1>7. ASSUME NEW a \in ProductEditors, RollBack(a) PROVE Kept
  BY <1>7 DEF RollBack
<1>8. ASSUME NEW a \in ProductEditors, CleanRemoved(a) PROVE Kept
  BY <1>8 DEF CleanRemoved
<1>9. ASSUME NEW a \in ProductEditors, Commit(a) PROVE Kept
  BY <1>9 DEF Commit
<1>10. ASSUME NEW a \in ProductEditors, FailCommit(a) PROVE Kept
  BY <1>10 DEF FailCommit
<1>11. ASSUME NEW a \in Deleters, NEW p \in Products, SnapshotImages(a, p) PROVE Kept
  BY <1>11 DEF SnapshotImages
<1>12. ASSUME NEW a \in Deleters, DropImages(a) PROVE Kept
  BY <1>12 DEF DropImages
<1>13. ASSUME NEW a \in Deleters, ScanArticles(a) PROVE Kept
  BY <1>13 DEF ScanArticles
<1>14. ASSUME NEW a \in Deleters, ScanEvents(a) PROVE Kept
  BY <1>14 DEF ScanEvents
<1>15. ASSUME NEW a \in Deleters, NEW h \in Holders, ScrubRow(a, h) PROVE Kept
  BY <1>15 DEF ScrubRow
<1>16. ASSUME NEW a \in Deleters, EndScrub(a) PROVE Kept
  BY <1>16 DEF EndScrub
<1>17. ASSUME NEW a \in Deleters, DropRow(a) PROVE Kept
  BY <1>17 DEF DropRow
<1>18. ASSUME NEW a \in Deleters, CleanFiles(a) PROVE Kept
  BY <1>18 DEF CleanFiles
<1>19. ASSUME NEW a \in Deleters, FailDelete(a) PROVE Kept
  BY <1>19 DEF FailDelete
<1>20. ASSUME NEW a \in Curators, NEW h \in Holders, OpenHolder(a, h) PROVE Kept
  BY <1>20 DEF OpenHolder
<1>21. ASSUME NEW a \in Curators, NEW ids \in SUBSET Products, SaveHolder(a, ids) PROVE Kept
  BY <1>21 DEF SaveHolder
<1>22. ASSUME NEW a \in Curators, NEW h \in Holders, DeleteHolder(a, h) PROVE Kept
  BY <1>22 DEF DeleteHolder
<1>23. ASSUME NEW a \in Admins, Abandon(a) PROVE Kept
  BY <1>23 DEF Abandon
<1>u. CASE UNCHANGED vars
  BY <1>u DEF vars
<1> HIDE DEF Kept
<1> QED
  BY <1>1, <1>2, <1>3, <1>4, <1>5, <1>6, <1>7, <1>8, <1>9, <1>10, <1>11, <1>12,
     <1>13, <1>14, <1>15, <1>16, <1>17, <1>18, <1>19, <1>20, <1>21, <1>22, <1>23, <1>u
  DEF Next, EditProduct, DeleteProduct, Curate

\* Nobody gets at a request that is not theirs to make.
LEMMA RightStep == TypeOK /\ RightAdmins /\ [Next]_vars => RightAdmins'
<1> DEFINE Kept == RightAdmins'
<1> SUFFICES ASSUME TypeOK, RightAdmins, [Next]_vars
             PROVE  Kept
  OBVIOUS
<1> USE Shapes DEF Admins, Do, Idle, Deleting, ScanTable, TypeOK, FormTask, UpdateTask,
       DeleteTask, EditTask, RightAdmins, RightAdmin
<1>1. ASSUME NEW a \in ProductEditors, OpenNewProduct(a) PROVE Kept
  BY <1>1 DEF OpenNewProduct
<1>2. ASSUME NEW a \in ProductEditors, NEW p \in Products, OpenProduct(a, p) PROVE Kept
  BY <1>2 DEF OpenProduct
<1>3. ASSUME NEW a \in ProductEditors, NEW p \in Products, CreateProduct(a, p) PROVE Kept
  BY <1>3 DEF CreateProduct
<1>4. ASSUME NEW a \in ProductEditors, NEW u \in Urls, Upload(a, u) PROVE Kept
  BY <1>4 DEF Upload
<1>5. ASSUME NEW a \in ProductEditors, NEW u \in Urls, FailUpload(a, u) PROVE Kept
  BY <1>5 DEF FailUpload
<1>6. ASSUME NEW a \in ProductEditors, NEW removed \in SUBSET Urls, BeginUpdate(a, removed) PROVE Kept
  BY <1>6 DEF BeginUpdate
<1>7. ASSUME NEW a \in ProductEditors, RollBack(a) PROVE Kept
  BY <1>7 DEF RollBack
<1>8. ASSUME NEW a \in ProductEditors, CleanRemoved(a) PROVE Kept
  BY <1>8 DEF CleanRemoved
<1>9. ASSUME NEW a \in ProductEditors, Commit(a) PROVE Kept
  BY <1>9 DEF Commit
<1>10. ASSUME NEW a \in ProductEditors, FailCommit(a) PROVE Kept
  BY <1>10 DEF FailCommit
<1>11. ASSUME NEW a \in Deleters, NEW p \in Products, SnapshotImages(a, p) PROVE Kept
  BY <1>11 DEF SnapshotImages
<1>12. ASSUME NEW a \in Deleters, DropImages(a) PROVE Kept
  BY <1>12 DEF DropImages
<1>13. ASSUME NEW a \in Deleters, ScanArticles(a) PROVE Kept
  BY <1>13 DEF ScanArticles
<1>14. ASSUME NEW a \in Deleters, ScanEvents(a) PROVE Kept
  BY <1>14 DEF ScanEvents
<1>15. ASSUME NEW a \in Deleters, NEW h \in Holders, ScrubRow(a, h) PROVE Kept
  BY <1>15 DEF ScrubRow
<1>16. ASSUME NEW a \in Deleters, EndScrub(a) PROVE Kept
  BY <1>16 DEF EndScrub
<1>17. ASSUME NEW a \in Deleters, DropRow(a) PROVE Kept
  BY <1>17 DEF DropRow
<1>18. ASSUME NEW a \in Deleters, CleanFiles(a) PROVE Kept
  BY <1>18 DEF CleanFiles
<1>19. ASSUME NEW a \in Deleters, FailDelete(a) PROVE Kept
  BY <1>19 DEF FailDelete
<1>20. ASSUME NEW a \in Curators, NEW h \in Holders, OpenHolder(a, h) PROVE Kept
  BY <1>20 DEF OpenHolder
<1>21. ASSUME NEW a \in Curators, NEW ids \in SUBSET Products, SaveHolder(a, ids) PROVE Kept
  BY <1>21 DEF SaveHolder
<1>22. ASSUME NEW a \in Curators, NEW h \in Holders, DeleteHolder(a, h) PROVE Kept
  BY <1>22 DEF DeleteHolder
<1>23. ASSUME NEW a \in Admins, Abandon(a) PROVE Kept
  BY <1>23 DEF Abandon
<1>u. CASE UNCHANGED vars
  BY <1>u DEF vars
<1> HIDE DEF Kept
<1> QED
  BY <1>1, <1>2, <1>3, <1>4, <1>5, <1>6, <1>7, <1>8, <1>9, <1>10, <1>11, <1>12,
     <1>13, <1>14, <1>15, <1>16, <1>17, <1>18, <1>19, <1>20, <1>21, <1>22, <1>23, <1>u
  DEF Next, EditProduct, DeleteProduct, Curate

\* A picture is offered again only to the product it is with: forms start from
\* the rows, and with one editor a new picture is in one form.
LEMMA HomeStep ==
  ASSUME OneEditor
  PROVE  TypeOK /\ AllHeld /\ RightAdmins /\ AllAtHome /\ [Next]_vars
         => AllAtHome'
<1> DEFINE Kept == AllAtHome'
<1> SUFFICES ASSUME TypeOK, AllHeld, RightAdmins, AllAtHome, [Next]_vars
             PROVE  Kept
  OBVIOUS
<1> USE Shapes DEF Admins, Do, Idle, Deleting, ScanTable, TypeOK, FormTask, UpdateTask,
       DeleteTask, EditTask, AllHeld, Held, RightAdmins, RightAdmin, OneEditor, AllAtHome,
       AtHome, Of
<1>1. ASSUME NEW a \in ProductEditors, OpenNewProduct(a) PROVE Kept
  BY <1>1 DEF OpenNewProduct
<1>2. ASSUME NEW a \in ProductEditors, NEW p \in Products, OpenProduct(a, p) PROVE Kept
  BY <1>2 DEF OpenProduct
<1>3. ASSUME NEW a \in ProductEditors, NEW p \in Products, CreateProduct(a, p) PROVE Kept
  BY <1>3 DEF CreateProduct
<1>4. ASSUME NEW a \in ProductEditors, NEW u \in Urls, Upload(a, u) PROVE Kept
  BY <1>4 DEF Upload
<1>5. ASSUME NEW a \in ProductEditors, NEW u \in Urls, FailUpload(a, u) PROVE Kept
  BY <1>5 DEF FailUpload
<1>6. ASSUME NEW a \in ProductEditors, NEW removed \in SUBSET Urls, BeginUpdate(a, removed) PROVE Kept
  BY <1>6 DEF BeginUpdate
<1>7. ASSUME NEW a \in ProductEditors, RollBack(a) PROVE Kept
  BY <1>7 DEF RollBack
<1>8. ASSUME NEW a \in ProductEditors, CleanRemoved(a) PROVE Kept
  BY <1>8 DEF CleanRemoved
<1>9. ASSUME NEW a \in ProductEditors, Commit(a) PROVE Kept
  BY <1>9 DEF Commit
<1>10. ASSUME NEW a \in ProductEditors, FailCommit(a) PROVE Kept
  BY <1>10 DEF FailCommit
<1>11. ASSUME NEW a \in Deleters, NEW p \in Products, SnapshotImages(a, p) PROVE Kept
  BY <1>11 DEF SnapshotImages
<1>12. ASSUME NEW a \in Deleters, DropImages(a) PROVE Kept
  BY <1>12 DEF DropImages
<1>13. ASSUME NEW a \in Deleters, ScanArticles(a) PROVE Kept
  BY <1>13 DEF ScanArticles
<1>14. ASSUME NEW a \in Deleters, ScanEvents(a) PROVE Kept
  BY <1>14 DEF ScanEvents
<1>15. ASSUME NEW a \in Deleters, NEW h \in Holders, ScrubRow(a, h) PROVE Kept
  BY <1>15 DEF ScrubRow
<1>16. ASSUME NEW a \in Deleters, EndScrub(a) PROVE Kept
  BY <1>16 DEF EndScrub
<1>17. ASSUME NEW a \in Deleters, DropRow(a) PROVE Kept
  BY <1>17 DEF DropRow
<1>18. ASSUME NEW a \in Deleters, CleanFiles(a) PROVE Kept
  BY <1>18 DEF CleanFiles
<1>19. ASSUME NEW a \in Deleters, FailDelete(a) PROVE Kept
  BY <1>19 DEF FailDelete
<1>20. ASSUME NEW a \in Curators, NEW h \in Holders, OpenHolder(a, h) PROVE Kept
  BY <1>20 DEF OpenHolder
<1>21. ASSUME NEW a \in Curators, NEW ids \in SUBSET Products, SaveHolder(a, ids) PROVE Kept
  BY <1>21 DEF SaveHolder
<1>22. ASSUME NEW a \in Curators, NEW h \in Holders, DeleteHolder(a, h) PROVE Kept
  BY <1>22 DEF DeleteHolder
<1>23. ASSUME NEW a \in Admins, Abandon(a) PROVE Kept
  BY <1>23 DEF Abandon
<1>u. CASE UNCHANGED vars
  BY <1>u DEF vars
<1> HIDE DEF Kept
<1> QED
  BY <1>1, <1>2, <1>3, <1>4, <1>5, <1>6, <1>7, <1>8, <1>9, <1>10, <1>11, <1>12,
     <1>13, <1>14, <1>15, <1>16, <1>17, <1>18, <1>19, <1>20, <1>21, <1>22, <1>23, <1>u
  DEF Next, EditProduct, DeleteProduct, Curate

\* Whoever deletes or curates is the only one to.
LEMMA Keeper ==
  ASSUME OneKeeper, RightAdmins, NEW a \in Curators \cup Deleters
  PROVE  \A b \in Admins \ {a} : task[b].pc \notin Deleting \cup {"clean_files", "editing"}
  BY DEF OneKeeper, RightAdmins, RightAdmin

\* Between its scan and its last row a Delete meets no other save.
LEMMA ScrubStep ==
  ASSUME OneKeeper
  PROVE  TypeOK /\ RightAdmins /\ RefsResolve /\ AllScrubbed /\ [Next]_vars
         => RefsResolve' /\ AllScrubbed'
<1> DEFINE Kept == RefsResolve' /\ AllScrubbed'
<1> SUFFICES ASSUME TypeOK, RightAdmins, RefsResolve, AllScrubbed, [Next]_vars
             PROVE  Kept
  OBVIOUS
<1> USE Shapes DEF Admins
<1>15. ASSUME NEW a \in Deleters, NEW h \in Holders, ScrubRow(a, h) PROVE Kept
  <2> DEFINE f == task[a].rewrites
  <2>1. /\ task[a] \in DeleteTask /\ task[a].pc \in {"scrub_articles", "scrub_events"} /\ h \in DOMAIN f
        /\ task' = [task EXCEPT ![a] = [task[a] EXCEPT !.rewrites = Restrict(f, DOMAIN f \ {h})]]
        /\ refs' = IF h \in DOMAIN refs THEN [refs EXCEPT ![h] = f[h]] ELSE refs
        /\ UNCHANGED products
    BY <1>15 DEF ScrubRow, Do, TypeOK, Deleting
  <2>2. /\ DOMAIN refs' = DOMAIN refs /\ f[h] \subseteq products \ {task[a].product}
        /\ \A g \in DOMAIN refs : (g # h /\ refs'[g] = refs[g]) \/ (g = h /\ refs'[g] = f[h])
    BY <2>1 DEF TypeOK, AllScrubbed, Scrubbed
  <2>3. /\ task'[a].pc = task[a].pc /\ task'[a].product = task[a].product
        /\ DOMAIN task'[a].rewrites = DOMAIN f \ {h}
        /\ \A g \in DOMAIN task'[a].rewrites : task'[a].rewrites[g] = f[g]
    BY <2>1 DEF DeleteTask, Restrict, TypeOK
  <2>4. \A b \in Admins \ {a} : task'[b] = task[b] /\ task[b].pc \notin Deleting \cup {"clean_files", "editing"}
    BY <2>1, Keeper DEF TypeOK
  <2>5. RefsResolve'
    BY <2>1, <2>2 DEF RefsResolve
  <2>s. Scrubbed(task[a])
    BY DEF AllScrubbed
  <2>o. \A g \in DOMAIN refs : task[a].product \in refs'[g] => g # h /\ task[a].product \in refs[g]
    BY <2>2
  <2>6. Scrubbed(task[a])'
    <3> HIDE DEF f
    <3>1. \A g \in DOMAIN task'[a].rewrites : task'[a].rewrites[g] \subseteq products' \ {task'[a].product}
      BY <2>1, <2>3, <2>s DEF Scrubbed, f
    <3>2. CASE task[a].pc = "scrub_articles"
      BY <2>1, <2>2, <2>3, <2>s, <2>o, <3>1, <3>2 DEF Scrubbed, f
    <3>3. CASE task[a].pc = "scrub_events"
      BY <2>1, <2>2, <2>3, <2>s, <2>o, <3>1, <3>3 DEF Scrubbed, f
    <3> QED BY <2>1, <3>2, <3>3
  <2>7. ASSUME NEW b \in Admins \ {a} PROVE Scrubbed(task[b])'
    BY <2>4 DEF Scrubbed, Deleting
  <2> QED BY <2>5, <2>6, <2>7 DEF AllScrubbed
<1>16. ASSUME NEW a \in Deleters, EndScrub(a) PROVE Kept
  <2>1. /\ task[a] \in DeleteTask /\ task[a].pc \in {"scrub_articles", "scrub_events"}
        /\ DOMAIN task[a].rewrites = {}
        /\ task' = [task EXCEPT ![a] = [task[a] EXCEPT !.pc = IF @ = "scrub_articles" THEN "scan_events" ELSE "drop_row"]]
        /\ UNCHANGED <<products, refs>>
    BY <1>16 DEF EndScrub, Do, TypeOK, Deleting, NoRewrites
  <2>2. /\ task'[a].product = task[a].product
        /\ task'[a].pc = IF task[a].pc = "scrub_articles" THEN "scan_events" ELSE "drop_row"
    BY <2>1 DEF DeleteTask, TypeOK
  <2>3. \A b \in Admins \ {a} : task'[b] = task[b]
    BY <2>1 DEF TypeOK
  <2>4. Scrubbed(task[a])'
    BY <2>1, <2>2 DEF AllScrubbed, Scrubbed
  <2> QED BY <2>1, <2>3, <2>4 DEF RefsResolve, AllScrubbed, Scrubbed
<1>17. ASSUME NEW a \in Deleters, DropRow(a) PROVE Kept
  <2> DEFINE p == task[a].product
  <2>1. /\ task[a].pc = "drop_row" /\ products' = products \ {p} /\ UNCHANGED refs
        /\ task'[a].pc \in {"clean_files", "idle"}
        /\ \A b \in Admins \ {a} : task'[b] = task[b]
    BY <1>17 DEF DropRow, Do, TypeOK, Deleting, DeleteTask, Idle
  <2>2. \A h \in DOMAIN refs : h \in Articles \cup Events /\ p \notin refs[h]
    BY <2>1 DEF TypeOK, Holders, AllScrubbed, Scrubbed
  <2>3. \A b \in Admins \ {a} : task[b].pc \notin Deleting \cup {"clean_files", "editing"}
    BY Keeper
  <2>4. RefsResolve'
    BY <2>1, <2>2 DEF RefsResolve
  <2> QED BY <2>1, <2>3, <2>4 DEF AllScrubbed, Scrubbed, Deleting
<1>21. ASSUME NEW a \in Curators, NEW ids \in SUBSET Products, SaveHolder(a, ids) PROVE Kept
  <2>1. /\ task[a] \in EditTask /\ task' = [task EXCEPT ![a] = Idle] /\ refs' = With(refs, task[a].holder, ids)
        /\ ids \subseteq task[a].offered /\ UNCHANGED products
    BY <1>21 DEF SaveHolder, Do, TypeOK
  <2>2. \A h \in DOMAIN refs' : refs'[h] = ids \/ (h \in DOMAIN refs /\ refs'[h] = refs[h])
    BY <2>1 DEF With
  <2>3. ids \subseteq products
    BY <2>1 DEF AllScrubbed, Scrubbed, EditTask
  <2>4. \A b \in Admins \ {a} : task'[b] = task[b] /\ task[b].pc \notin Deleting \cup {"clean_files", "editing"}
    BY <2>1, Keeper DEF TypeOK
  <2>5. task'[a].pc = "idle"
    BY <2>1 DEF TypeOK, Idle
  <2>6. RefsResolve'
    BY <2>1, <2>2, <2>3 DEF RefsResolve
  <2> QED BY <2>4, <2>5, <2>6 DEF AllScrubbed, Scrubbed, Deleting
<1>22. ASSUME NEW a \in Curators, NEW h \in Holders, DeleteHolder(a, h) PROVE Kept
  <2>1. /\ refs' = Restrict(refs, DOMAIN refs \ {h}) /\ task[a] = Idle
        /\ task' = [b \in Admins |-> IF task[b].pc = "editing" /\ task[b].holder = h THEN Idle ELSE task[b]]
        /\ UNCHANGED products
    BY <1>22 DEF DeleteHolder
  <2>2. \A g \in DOMAIN refs' : g \in DOMAIN refs /\ refs'[g] = refs[g]
    BY <2>1 DEF Restrict, TypeOK
  <2>3. \A b \in Admins : task[b].pc \notin Deleting \cup {"clean_files", "editing"}
    BY <2>1, Keeper DEF Idle, Deleting
  <2>4. \A b \in Admins : task'[b].pc = "idle" \/ task'[b] = task[b]
    BY <2>1 DEF Idle
  <2>5. RefsResolve'
    BY <2>1, <2>2 DEF RefsResolve
  <2> QED BY <2>3, <2>4, <2>5 DEF AllScrubbed, Scrubbed, Deleting
<1> USE Shapes DEF Admins, Do, Idle, Deleting, ScanTable, TypeOK, FormTask, UpdateTask,
       DeleteTask, EditTask, RightAdmins, RightAdmin, OneKeeper, RefsResolve, AllScrubbed,
       Scrubbed
<1>1. ASSUME NEW a \in ProductEditors, OpenNewProduct(a) PROVE Kept
  BY <1>1 DEF OpenNewProduct
<1>2. ASSUME NEW a \in ProductEditors, NEW p \in Products, OpenProduct(a, p) PROVE Kept
  BY <1>2 DEF OpenProduct
<1>3. ASSUME NEW a \in ProductEditors, NEW p \in Products, CreateProduct(a, p) PROVE Kept
  BY <1>3 DEF CreateProduct
<1>4. ASSUME NEW a \in ProductEditors, NEW u \in Urls, Upload(a, u) PROVE Kept
  BY <1>4 DEF Upload
<1>5. ASSUME NEW a \in ProductEditors, NEW u \in Urls, FailUpload(a, u) PROVE Kept
  BY <1>5 DEF FailUpload
<1>6. ASSUME NEW a \in ProductEditors, NEW removed \in SUBSET Urls, BeginUpdate(a, removed) PROVE Kept
  BY <1>6 DEF BeginUpdate
<1>7. ASSUME NEW a \in ProductEditors, RollBack(a) PROVE Kept
  BY <1>7 DEF RollBack
<1>8. ASSUME NEW a \in ProductEditors, CleanRemoved(a) PROVE Kept
  BY <1>8 DEF CleanRemoved
<1>9. ASSUME NEW a \in ProductEditors, Commit(a) PROVE Kept
  BY <1>9 DEF Commit
<1>10. ASSUME NEW a \in ProductEditors, FailCommit(a) PROVE Kept
  BY <1>10 DEF FailCommit
<1>11. ASSUME NEW a \in Deleters, NEW p \in Products, SnapshotImages(a, p) PROVE Kept
  BY <1>11 DEF SnapshotImages
<1>12. ASSUME NEW a \in Deleters, DropImages(a) PROVE Kept
  BY <1>12 DEF DropImages
<1>13. ASSUME NEW a \in Deleters, ScanArticles(a) PROVE Kept
  BY <1>13 DEF ScanArticles
<1>14. ASSUME NEW a \in Deleters, ScanEvents(a) PROVE Kept
  BY <1>14 DEF ScanEvents
<1>18. ASSUME NEW a \in Deleters, CleanFiles(a) PROVE Kept
  BY <1>18 DEF CleanFiles
<1>19. ASSUME NEW a \in Deleters, FailDelete(a) PROVE Kept
  BY <1>19 DEF FailDelete
<1>20. ASSUME NEW a \in Curators, NEW h \in Holders, OpenHolder(a, h) PROVE Kept
  BY <1>20 DEF OpenHolder
<1>23. ASSUME NEW a \in Admins, Abandon(a) PROVE Kept
  BY <1>23 DEF Abandon
<1>u. CASE UNCHANGED vars
  BY <1>u DEF vars
<1> HIDE DEF Kept
<1> QED
  BY <1>1, <1>2, <1>3, <1>4, <1>5, <1>6, <1>7, <1>8, <1>9, <1>10, <1>11, <1>12,
     <1>13, <1>14, <1>15, <1>16, <1>17, <1>18, <1>19, <1>20, <1>21, <1>22, <1>23, <1>u
  DEF Next, EditProduct, DeleteProduct, Curate

\* One admin edits products and no COMMIT fails.
Calm == OneEditor /\ "commit" \notin Faults

\* The disk loses only what the product in hand drops, or what a product that
\* is gone had.
LEMMA BackedStep ==
  ASSUME Calm
  PROVE  TypeOK /\ AllHeld /\ RightAdmins /\ AllAtHome /\ AllBacked /\ ListedImagesExist /\ [Next]_vars
         => AllBacked' /\ ListedImagesExist'
<1> DEFINE Kept == AllBacked' /\ ListedImagesExist'
<1> SUFFICES ASSUME TypeOK, AllHeld, RightAdmins, AllAtHome, AllBacked, ListedImagesExist, [Next]_vars
             PROVE  Kept
  OBVIOUS
<1> USE Shapes DEF Admins
<1>18. ASSUME NEW a \in Deleters, CleanFiles(a) PROVE Kept
  <2> DEFINE p == task[a].product
  <2>1. /\ task[a].pc = "clean_files" /\ files' = files \ task[a].urls /\ task' = [task EXCEPT ![a] = Idle]
        /\ UNCHANGED <<products, images, home>>
    BY <1>18 DEF CleanFiles, Do
  <2>2. p \notin products /\ \A u \in task[a].urls : u \in DOMAIN home => home[u] = p
    BY <2>1 DEF AllAtHome, AtHome, Of
  <2>3. task[a].urls \subseteq DOMAIN home
    BY <2>1 DEF AllAtHome, AtHome, Of
  <2>4. \A b \in Admins : task'[b] = task[b] \/ task'[b].pc = "idle"
    BY <2>1 DEF TypeOK, Idle
  <2>5. ASSUME NEW b \in Admins PROVE Backed(task[b])'
    <3>1. CASE task'[b].pc = "idle"
      BY <3>1 DEF Backed
    <3>2. CASE task'[b] = task[b] /\ task[b].pc = "form" /\ task[b].product \in products \ {"new"}
      <4>1. task[b].shown \subseteq files /\ task[b].shown \subseteq Of(task[b].product)
        BY <3>2 DEF AllBacked, Backed, AllAtHome, AtHome
      <4> QED BY <2>1, <2>2, <3>2, <4>1 DEF Backed, Of
    <3>3. CASE task'[b] = task[b] /\ task[b].pc \in {"staged", "cleaned"} /\ task[b].product \in products
      <4>1. task[b].gallery \subseteq files /\ task[b].gallery \cap DOMAIN home \subseteq Of(task[b].product)
        BY <3>3 DEF AllBacked, Backed, AllAtHome, AtHome
      <4> QED BY <2>1, <2>2, <2>3, <3>3, <4>1 DEF Backed, Of
    <3> QED BY <2>1, <2>4, <3>1, <3>2, <3>3 DEF Backed
  <2>6. ListedImagesExist'
    <3> SUFFICES ASSUME NEW q \in products, \A b \in Admins : task'[b].pc = "cleaned" => task'[b].product # q
                 PROVE  images[q] \subseteq files'
      BY <2>1 DEF ListedImagesExist
    <3>1. images[q] \subseteq files
      BY <2>1, <2>4, <1>18 DEF ListedImagesExist, CleanFiles
    <3>2. images[q] \subseteq Of(q)
      BY DEF AllAtHome, TypeOK
    <3> QED BY <2>1, <2>2, <3>1, <3>2 DEF Of
  <2> QED BY <2>5, <2>6 DEF AllBacked
<1> USE Shapes DEF Admins, Do, Idle, Deleting, ScanTable, TypeOK, FormTask, UpdateTask,
       DeleteTask, EditTask, AllHeld, Held, RightAdmins, RightAdmin, OneEditor,
       AllAtHome, AtHome, Of, AllBacked, Backed, ListedImagesExist, Calm
<1>1. ASSUME NEW a \in ProductEditors, OpenNewProduct(a) PROVE Kept
  BY <1>1 DEF OpenNewProduct
<1>2. ASSUME NEW a \in ProductEditors, NEW p \in Products, OpenProduct(a, p) PROVE Kept
  BY <1>2 DEF OpenProduct
<1>3. ASSUME NEW a \in ProductEditors, NEW p \in Products, CreateProduct(a, p) PROVE Kept
  BY <1>3 DEF CreateProduct
<1>4. ASSUME NEW a \in ProductEditors, NEW u \in Urls, Upload(a, u) PROVE Kept
  BY <1>4 DEF Upload
<1>5. ASSUME NEW a \in ProductEditors, NEW u \in Urls, FailUpload(a, u) PROVE Kept
  BY <1>5 DEF FailUpload
<1>6. ASSUME NEW a \in ProductEditors, NEW removed \in SUBSET Urls, BeginUpdate(a, removed) PROVE Kept
  BY <1>6 DEF BeginUpdate
<1>7. ASSUME NEW a \in ProductEditors, RollBack(a) PROVE Kept
  BY <1>7 DEF RollBack
<1>8. ASSUME NEW a \in ProductEditors, CleanRemoved(a) PROVE Kept
  BY <1>8 DEF CleanRemoved
<1>9. ASSUME NEW a \in ProductEditors, Commit(a) PROVE Kept
  BY <1>9 DEF Commit
<1>10. ASSUME NEW a \in ProductEditors, FailCommit(a) PROVE Kept
  BY <1>10 DEF FailCommit
<1>11. ASSUME NEW a \in Deleters, NEW p \in Products, SnapshotImages(a, p) PROVE Kept
  BY <1>11 DEF SnapshotImages
<1>12. ASSUME NEW a \in Deleters, DropImages(a) PROVE Kept
  BY <1>12 DEF DropImages
<1>13. ASSUME NEW a \in Deleters, ScanArticles(a) PROVE Kept
  BY <1>13 DEF ScanArticles
<1>14. ASSUME NEW a \in Deleters, ScanEvents(a) PROVE Kept
  BY <1>14 DEF ScanEvents
<1>15. ASSUME NEW a \in Deleters, NEW h \in Holders, ScrubRow(a, h) PROVE Kept
  BY <1>15 DEF ScrubRow
<1>16. ASSUME NEW a \in Deleters, EndScrub(a) PROVE Kept
  BY <1>16 DEF EndScrub
<1>17. ASSUME NEW a \in Deleters, DropRow(a) PROVE Kept
  BY <1>17 DEF DropRow
<1>19. ASSUME NEW a \in Deleters, FailDelete(a) PROVE Kept
  BY <1>19 DEF FailDelete
<1>20. ASSUME NEW a \in Curators, NEW h \in Holders, OpenHolder(a, h) PROVE Kept
  BY <1>20 DEF OpenHolder
<1>21. ASSUME NEW a \in Curators, NEW ids \in SUBSET Products, SaveHolder(a, ids) PROVE Kept
  BY <1>21 DEF SaveHolder
<1>22. ASSUME NEW a \in Curators, NEW h \in Holders, DeleteHolder(a, h) PROVE Kept
  BY <1>22 DEF DeleteHolder
<1>23. ASSUME NEW a \in Admins, Abandon(a) PROVE Kept
  BY <1>23 DEF Abandon
<1>u. CASE UNCHANGED vars
  BY <1>u DEF vars
<1> HIDE DEF Kept
<1> QED
  BY <1>1, <1>2, <1>3, <1>4, <1>5, <1>6, <1>7, <1>8, <1>9, <1>10, <1>11, <1>12,
     <1>13, <1>14, <1>15, <1>16, <1>17, <1>18, <1>19, <1>20, <1>21, <1>22, <1>23, <1>u
  DEF Next, EditProduct, DeleteProduct, Curate

\* What a save drops and what a Delete snapshots is removed before the request ends.
LEMMA AccountedStep ==
  ASSUME OneAdmin /\ "statement" \notin Faults
  PROVE  TypeOK /\ AllHeld /\ AllAtHome /\ AllAccounted /\ [Next]_vars
         => AllAccounted'
<1> DEFINE Kept == AllAccounted'
<1> SUFFICES ASSUME TypeOK, AllHeld, AllAtHome, AllAccounted, [Next]_vars
             PROVE  Kept
  OBVIOUS
<1> USE Shapes DEF Admins, Do, Idle, Deleting, ScanTable, TypeOK, FormTask, UpdateTask,
       DeleteTask, EditTask, AllHeld, Held, AllAtHome, AtHome, Of, OneAdmin, AllAccounted,
       Accounted, Cleaning
<1>1. ASSUME NEW a \in ProductEditors, OpenNewProduct(a) PROVE Kept
  BY <1>1 DEF OpenNewProduct
<1>2. ASSUME NEW a \in ProductEditors, NEW p \in Products, OpenProduct(a, p) PROVE Kept
  BY <1>2 DEF OpenProduct
<1>3. ASSUME NEW a \in ProductEditors, NEW p \in Products, CreateProduct(a, p) PROVE Kept
  BY <1>3 DEF CreateProduct
<1>4. ASSUME NEW a \in ProductEditors, NEW u \in Urls, Upload(a, u) PROVE Kept
  BY <1>4 DEF Upload
<1>5. ASSUME NEW a \in ProductEditors, NEW u \in Urls, FailUpload(a, u) PROVE Kept
  BY <1>5 DEF FailUpload
<1>6. ASSUME NEW a \in ProductEditors, NEW removed \in SUBSET Urls, BeginUpdate(a, removed) PROVE Kept
  BY <1>6 DEF BeginUpdate
<1>7. ASSUME NEW a \in ProductEditors, RollBack(a) PROVE Kept
  BY <1>7 DEF RollBack
<1>8. ASSUME NEW a \in ProductEditors, CleanRemoved(a) PROVE Kept
  BY <1>8 DEF CleanRemoved
<1>9. ASSUME NEW a \in ProductEditors, Commit(a) PROVE Kept
  BY <1>9 DEF Commit
<1>10. ASSUME NEW a \in ProductEditors, FailCommit(a) PROVE Kept
  BY <1>10 DEF FailCommit
<1>11. ASSUME NEW a \in Deleters, NEW p \in Products, SnapshotImages(a, p) PROVE Kept
  BY <1>11 DEF SnapshotImages
<1>12. ASSUME NEW a \in Deleters, DropImages(a) PROVE Kept
  BY <1>12 DEF DropImages
<1>13. ASSUME NEW a \in Deleters, ScanArticles(a) PROVE Kept
  BY <1>13 DEF ScanArticles
<1>14. ASSUME NEW a \in Deleters, ScanEvents(a) PROVE Kept
  BY <1>14 DEF ScanEvents
<1>15. ASSUME NEW a \in Deleters, NEW h \in Holders, ScrubRow(a, h) PROVE Kept
  BY <1>15 DEF ScrubRow
<1>16. ASSUME NEW a \in Deleters, EndScrub(a) PROVE Kept
  BY <1>16 DEF EndScrub
<1>17. ASSUME NEW a \in Deleters, DropRow(a) PROVE Kept
  BY <1>17 DEF DropRow
<1>18. ASSUME NEW a \in Deleters, CleanFiles(a) PROVE Kept
  BY <1>18 DEF CleanFiles
<1>19. ASSUME NEW a \in Deleters, FailDelete(a) PROVE Kept
  BY <1>19 DEF FailDelete
<1>20. ASSUME NEW a \in Curators, NEW h \in Holders, OpenHolder(a, h) PROVE Kept
  BY <1>20 DEF OpenHolder
<1>21. ASSUME NEW a \in Curators, NEW ids \in SUBSET Products, SaveHolder(a, ids) PROVE Kept
  BY <1>21 DEF SaveHolder
<1>22. ASSUME NEW a \in Curators, NEW h \in Holders, DeleteHolder(a, h) PROVE Kept
  BY <1>22 DEF DeleteHolder
<1>23. ASSUME NEW a \in Admins, Abandon(a) PROVE Kept
  BY <1>23 DEF Abandon
<1>u. CASE UNCHANGED vars
  BY <1>u DEF vars
<1> HIDE DEF Kept
<1> QED
  BY <1>1, <1>2, <1>3, <1>4, <1>5, <1>6, <1>7, <1>8, <1>9, <1>10, <1>11, <1>12,
     <1>13, <1>14, <1>15, <1>16, <1>17, <1>18, <1>19, <1>20, <1>21, <1>22, <1>23, <1>u
  DEF Next, EditProduct, DeleteProduct, Curate

-----------------------------------------------------------------------------
(* The theorems                                                            *)

\* At the start every invariant holds.
LEMMA InitIs ==
  Init => /\ TypeOK /\ AllHeld /\ RightAdmins /\ UpdatesAnchored /\ NoStrayImages
          /\ AllAtHome /\ AllBacked /\ ListedImagesExist
          /\ AllScrubbed /\ RefsResolve /\ AllAccounted
<1> SUFFICES ASSUME Init
             PROVE  /\ TypeOK /\ AllHeld /\ RightAdmins /\ UpdatesAnchored /\ NoStrayImages
                    /\ AllAtHome /\ AllBacked /\ ListedImagesExist
                    /\ AllScrubbed /\ RefsResolve /\ AllAccounted
  OBVIOUS
<1>1. \A a \in Admins : task[a].pc = "idle"
  BY DEF Init, Idle
<1>2. products = {} /\ files = {} /\ DOMAIN refs = {} /\ DOMAIN home = {} /\ \A p \in Products : images[p] = {}
  BY DEF Init
<1>3. TypeOK /\ AllHeld
  BY ShapesTyped DEF Init, TypeOK, AllHeld, Held, Idle, Deleting
<1>4. RightAdmins /\ UpdatesAnchored /\ NoStrayImages
  BY <1>1, <1>2 DEF RightAdmins, RightAdmin, UpdatesAnchored, Anchored, NoStrayImages, Deleting
<1>5. AllAtHome /\ AllBacked /\ ListedImagesExist
  BY <1>1, <1>2 DEF AllAtHome, AtHome, AllBacked, Backed, ListedImagesExist, Deleting
<1>6. AllScrubbed /\ RefsResolve /\ AllAccounted
  BY <1>1, <1>2 DEF AllScrubbed, Scrubbed, RefsResolve, AllAccounted, Accounted, Deleting
<1> QED BY <1>3, <1>4, <1>5, <1>6

\* Requests are made by those who may, in every state.
LEMMA RolesKept == Spec => []RightAdmins
<1> QED BY InitIs, RightStep, Typed, PTL DEF Spec

\* Where foreign keys hold, no image row outlives its product, whatever
\* editors and deleters do at the same time and whatever fails.
THEOREM NoImageOutlives == ASSUME ForeignKeys PROVE Spec => []NoStrayImages
<1>1. TypeOK /\ UpdatesAnchored /\ NoStrayImages /\ [Next]_vars => UpdatesAnchored' /\ NoStrayImages'
  BY AnchorStep
<1> QED BY <1>1, InitIs, Typed, PTL DEF Spec

\* With one admin for deletes, articles and events, no article or event lists
\* a product that is gone, wherever a Delete fails or dies, next to any editors.
THEOREM ReferencesResolve == ASSUME OneKeeper PROVE Spec => []RefsResolve
<1>1. TypeOK /\ RightAdmins /\ RefsResolve /\ AllScrubbed /\ [Next]_vars => RefsResolve' /\ AllScrubbed'
  BY ScrubStep
<1> QED BY <1>1, InitIs, Typed, RolesKept, PTL DEF Spec

\* Pictures stay at home while there is one editor.
LEMMA HomesKept == ASSUME OneEditor PROVE Spec => []AllAtHome
<1>1. TypeOK /\ AllHeld /\ RightAdmins /\ AllAtHome /\ [Next]_vars => AllAtHome'
  BY HomeStep
<1> QED BY <1>1, InitIs, Typed, RolesKept, PTL DEF Spec

\* With one editor and a COMMIT that does not fail, every picture a stored
\* product lists is on disk, next to any deleters, on either database, wherever
\* an upload or a statement fails: an id that is gone never comes back, so what
\* an Update without foreign keys leaves there is listed by no product.
THEOREM PicturesThere == ASSUME Calm PROVE Spec => []ListedImagesExist
<1>1. TypeOK /\ AllHeld /\ RightAdmins /\ AllAtHome /\ AllBacked /\ ListedImagesExist /\ [Next]_vars
      => AllBacked' /\ ListedImagesExist'
  BY BackedStep
<1>2. Spec => []AllAtHome
  BY HomesKept DEF Calm
<1> QED BY <1>1, <1>2, InitIs, Typed, RolesKept, PTL DEF Spec

\* One admin whose statements all succeed leaves none of a deleted product's
\* pictures on disk, also where uploads and commits fail.
THEOREM DeletedIsGone ==
  ASSUME OneAdmin, "statement" \notin Faults PROVE Spec => []DeletedLeavesNoFile
<1>1. OneEditor
  BY DEF OneAdmin, OneEditor, Admins
<1>2. Spec => []AllAtHome
  BY <1>1, HomesKept
<1>3. TypeOK /\ AllHeld /\ AllAtHome /\ AllAccounted /\ [Next]_vars => AllAccounted'
  BY AccountedStep
<1>4. TypeOK /\ AllAccounted => DeletedLeavesNoFile
  BY DEF TypeOK, AllAccounted, Cleaning, DeletedLeavesNoFile, Deleting
<1> QED BY <1>2, <1>3, <1>4, InitIs, Typed, PTL DEF Spec

=============================================================================
