------------------------------ MODULE Catalog ------------------------------
(***************************************************************************)
(* The catalog the admin edits: product rows with their image rows         *)
(* (internal/db/product_repo.go), the uploads directory (uploadfs.go and   *)
(* UploadImageHandler), and the product_ids lists of articles and events   *)
(* (article_repo.go, event_repo.go), which no foreign key protects.        *)
(*                                                                         *)
(* Create and Update run in a transaction; every statement of Delete       *)
(* commits on its own.  One step here is one statement, one commit or one  *)
(* pass over the disk, so requests of different admins interleave, fail    *)
(* and die between any two of them.  Uncommitted rows of an Update live in *)
(* its task; other requests see them only after the commit.                *)
(***************************************************************************)
EXTENDS FiniteSets, Functions

CONSTANTS
  Products,        \* product ids (uuids: never used twice)
  Articles,        \* article ids
  Events,          \* event ids
  Urls,            \* names buildUploadFilename can produce (never twice)
  ProductEditors,  \* admins who add and edit products
  Curators,        \* admins who edit articles and events
  Deleters,        \* admins who delete products
  Faults           \* what can go wrong, see below

Holders == Articles \cup Events
Admins  == ProductEditors \cup Curators \cup Deleters

\* "upload": a multi-file upload fails after some of its files are on disk.
\* "statement": a statement of a request fails, or the process dies there.
\* "commit": the COMMIT of an Update fails, or the process dies just before.
\* "sqlite": the database is SQLite, and the connection is not the one that ran
\* PRAGMA foreign_keys; a transaction that has written keeps other writers out.
ASSUME FaultsAssumption == Faults \subseteq {"upload", "statement", "commit", "sqlite"}

VARIABLES
  products,  \* rows of products
  images,    \* product -> its rows in product_images
  refs,      \* article or event row -> its product_ids
  files,     \* what is on disk in /uploads
  used,      \* ids and file names handed out so far
  home,      \* upload -> the product whose gallery first listed it (history)
  task       \* per admin: the open form or the request being served

vars == <<products, images, refs, files, used, home, task>>

-----------------------------------------------------------------------------
Idle == [pc |-> "idle"]

With(m, k, v) == [x \in DOMAIN m \cup {k} |-> IF x = k THEN v ELSE m[x]]

Do(a, t) == task' = [task EXCEPT ![a] = t]

\* The transaction of an Update holds its product's row until it ends.
InUpdate(a) == task[a].pc \in {"staged", "cleaned"}
RowFree(p)  == \A a \in Admins : InUpdate(a) => task[a].product # p
MayWrite    == "sqlite" \in Faults => \A a \in Admins : ~InUpdate(a)

Init ==
  /\ products = {} /\ files = {} /\ used = {}
  /\ images = [p \in Products |-> {}]
  /\ refs = [h \in {} |-> {}]
  /\ home = [u \in {} |-> {}]
  /\ task = [a \in Admins |-> Idle]

-----------------------------------------------------------------------------
(* Product forms and uploads                                               *)

OpenNewProduct(a) ==
  /\ task[a] = Idle
  /\ Do(a, [pc |-> "form", product |-> "new", shown |-> {}, fresh |-> {}])
  /\ UNCHANGED <<products, images, refs, files, used, home>>

OpenProduct(a, p) ==
  /\ task[a] = Idle
  /\ p \in products
  /\ Do(a, [pc |-> "form", product |-> p, shown |-> images[p], fresh |-> {}])
  /\ UNCHANGED <<products, images, refs, files, used, home>>

\* The dialog uploads the new pictures before it saves.
Upload(a, u) ==
  /\ task[a].pc = "form"
  /\ u \notin used
  /\ files' = files \cup {u}
  /\ used' = used \cup {u}
  /\ Do(a, [task[a] EXCEPT !.fresh = @ \cup {u}])
  /\ UNCHANGED <<products, images, refs, home>>

\* A later file of the upload is refused: what was written stays on disk, and
\* the dialog forgets the names it had collected.
FailUpload(a, u) ==
  /\ "upload" \in Faults
  /\ task[a].pc = "form"
  /\ u \notin used
  /\ files' = files \cup {u}
  /\ used' = used \cup {u}
  /\ Do(a, [task[a] EXCEPT !.fresh = {}])
  /\ UNCHANGED <<products, images, refs, home>>

\* Closes any form without saving.
Abandon(a) ==
  /\ task[a].pc \in {"form", "editing"}
  /\ Do(a, Idle)
  /\ UNCHANGED <<products, images, refs, files, used, home>>

\* POST /api/products: one transaction, nothing of it is visible before the
\* commit; a failed one leaves what Abandon leaves.
CreateProduct(a, p) ==
  /\ task[a].pc = "form" /\ task[a].product = "new"
  /\ p \notin used
  /\ MayWrite
  /\ products' = products \cup {p}
  /\ used' = used \cup {p}
  /\ images' = [images EXCEPT ![p] = task[a].fresh]
  /\ home' = [u \in DOMAIN home \cup task[a].fresh |->
                IF u \in DOMAIN home THEN home[u] ELSE p]
  /\ Do(a, Idle)
  /\ UNCHANGED <<refs, files>>

-----------------------------------------------------------------------------
(* PUT /api/products/{id}                                                  *)

\* A deleted product's row is gone: the UPDATE hits nothing, unnoticed, and
\* the first image INSERT trips the foreign key, if it is enforced.
Accepted(p, gallery) == p \in products \/ gallery = {} \/ "sqlite" \in Faults

\* Mutated form: the dropped pictures are cleaned up on the way in.
BeginUpdateEager(a, removed) ==
  LET p == task[a].product
      gallery == (task[a].shown \ removed) \cup task[a].fresh
  IN  /\ task[a].pc = "form" /\ p # "new" /\ removed \subseteq task[a].shown
      /\ RowFree(p) /\ MayWrite
      /\ files' = files \ removed
      /\ IF Accepted(p, gallery)
         THEN Do(a, [pc |-> "staged", product |-> p, gallery |-> gallery, removed |-> removed])
         ELSE Do(a, Idle)
      /\ UNCHANGED <<products, images, refs, used, home>>

\* BEGIN and every statement of the transaction, on the form as it stands.
BeginUpdate(a, removed) ==
  LET p == task[a].product
      gallery == (task[a].shown \ removed) \cup task[a].fresh
  IN  /\ task[a].pc = "form" /\ p # "new" /\ removed \subseteq task[a].shown
      /\ RowFree(p) /\ MayWrite
      /\ IF Accepted(p, gallery)
         THEN Do(a, [pc |-> "staged", product |-> p, gallery |-> gallery, removed |-> removed])
         ELSE Do(a, Idle)
      /\ UNCHANGED <<products, images, refs, files, used, home>>

\* A statement fails: the deferred function rolls back.
RollBack(a) ==
  /\ "statement" \in Faults
  /\ task[a].pc = "staged"
  /\ Do(a, Idle)
  /\ UNCHANGED <<products, images, refs, files, used, home>>

\* The last lines of the body: err is nil, the dropped files go.
CleanRemoved(a) ==
  /\ task[a].pc = "staged"
  /\ files' = files \ task[a].removed
  /\ Do(a, [task[a] EXCEPT !.pc = "cleaned"])
  /\ UNCHANGED <<products, images, refs, used, home>>

\* The deferred function runs after the body, and only now commits.
Commit(a) ==
  /\ task[a].pc = "cleaned"
  /\ images' = [images EXCEPT ![task[a].product] = task[a].gallery]
  /\ home' = [u \in DOMAIN home \cup task[a].gallery |->
                IF u \in DOMAIN home THEN home[u] ELSE task[a].product]
  /\ Do(a, Idle)
  /\ UNCHANGED <<products, refs, files, used>>

\* err is not a named result: the request ends like a good one.
FailCommit(a) ==
  /\ "commit" \in Faults
  /\ task[a].pc = "cleaned"
  /\ Do(a, Idle)
  /\ UNCHANGED <<products, images, refs, files, used, home>>

-----------------------------------------------------------------------------
(* DELETE /api/products/{id}                                               *)

NoRewrites == [h \in {} |-> {}]

\* getImageURLsForProduct, its error ignored.  The id comes from a list that
\* may be old: the product may be gone.
SnapshotImages(a, p) ==
  /\ task[a] = Idle
  /\ p \in used
  /\ \E urls \in {images[p]} \cup (IF "statement" \in Faults THEN {{}} ELSE {}) :
       Do(a, [pc |-> "drop_images", product |-> p, urls |-> urls, rewrites |-> NoRewrites])
  /\ UNCHANGED <<products, images, refs, files, used, home>>

\* The DELETEs on product_images and product_options.
DropImages(a) ==
  /\ task[a].pc = "drop_images"
  /\ MayWrite
  /\ images' = [images EXCEPT ![task[a].product] = {}]
  /\ Do(a, [task[a] EXCEPT !.pc = "scan_articles"])
  /\ UNCHANGED <<products, refs, files, used, home>>

\* removeProductIDFromJSONArrayColumn, first half: SELECT the rows that list
\* the product and compute each one's new list.
ScanTable(a, table, here, scrub) ==
  LET p == task[a].product IN
  /\ task[a].pc = here
  /\ Do(a, [task[a] EXCEPT !.pc = scrub,
              !.rewrites = [h \in {g \in table \cap DOMAIN refs : p \in refs[g]} |-> refs[h] \ {p}]])
  /\ UNCHANGED <<products, images, refs, files, used, home>>

ScanArticles(a) == ScanTable(a, Articles, "scan_articles", "scrub_articles")

\* Mutated form: the scrub was written for articles and not for events.
ScanEventsSkipped(a) == ScanTable(a, {}, "scan_events", "scrub_events")

ScanEvents(a) == ScanTable(a, Events, "scan_events", "scrub_events")

\* Second half: one UPDATE per row, with the list computed back then.
ScrubRow(a, h) ==
  /\ task[a].pc \in {"scrub_articles", "scrub_events"}
  /\ h \in DOMAIN task[a].rewrites
  /\ MayWrite
  /\ refs' = IF h \in DOMAIN refs THEN [refs EXCEPT ![h] = task[a].rewrites[h]] ELSE refs
  /\ Do(a, [task[a] EXCEPT !.rewrites = Restrict(@, DOMAIN @ \ {h})])
  /\ UNCHANGED <<products, images, files, used, home>>

EndScrub(a) ==
  /\ task[a].pc \in {"scrub_articles", "scrub_events"}
  /\ task[a].rewrites = NoRewrites
  /\ Do(a, [task[a] EXCEPT !.pc = IF @ = "scrub_articles" THEN "scan_events" ELSE "drop_row"])
  /\ UNCHANGED <<products, images, refs, files, used, home>>

\* Mutated form: an image row that slipped in after DropImages survives its
\* product, as if no foreign key were declared with a cascade.
DropRowNoCascade(a) ==
  LET p == task[a].product IN
  /\ task[a].pc = "drop_row"
  /\ RowFree(p) /\ MayWrite
  /\ products' = products \ {p}
  /\ UNCHANGED images
  /\ Do(a, IF p \in products THEN [task[a] EXCEPT !.pc = "clean_files"] ELSE Idle)
  /\ UNCHANGED <<refs, files, used, home>>

\* DELETE FROM products: waits for the row, and cascades to product_images
\* where foreign keys are on.  No row deleted is a 404 and no clean-up.
DropRow(a) ==
  LET p == task[a].product IN
  /\ task[a].pc = "drop_row"
  /\ RowFree(p) /\ MayWrite
  /\ products' = products \ {p}
  /\ images' = IF "sqlite" \in Faults THEN images ELSE [images EXCEPT ![p] = {}]
  /\ Do(a, IF p \in products THEN [task[a] EXCEPT !.pc = "clean_files"] ELSE Idle)
  /\ UNCHANGED <<refs, files, used, home>>

\* Mutated form: the files listed now, when the rows are gone already.
CleanFilesLate(a) ==
  /\ task[a].pc = "clean_files"
  /\ files' = files \ images[task[a].product]
  /\ Do(a, Idle)
  /\ UNCHANGED <<products, images, refs, used, home>>

CleanFiles(a) ==
  /\ task[a].pc = "clean_files"
  /\ files' = files \ task[a].urls
  /\ Do(a, Idle)
  /\ UNCHANGED <<products, images, refs, used, home>>

Deleting == {"drop_images", "scan_articles", "scrub_articles",
             "scan_events", "scrub_events", "drop_row"}

\* A statement of Delete fails (500), or the process dies before it or before
\* the clean-up: what the earlier statements did stays done.
FailDelete(a) ==
  /\ "statement" \in Faults
  /\ task[a].pc \in Deleting \cup {"clean_files"}
  /\ Do(a, Idle)
  /\ UNCHANGED <<products, images, refs, files, used, home>>

-----------------------------------------------------------------------------
(* Articles and events: each save and delete is one statement              *)

\* The form shows the row's list; the picker offers the products of the day.
OpenHolder(a, h) ==
  /\ task[a] = Idle
  /\ h \in DOMAIN refs \/ h \notin used
  /\ Do(a, [pc |-> "editing", holder |-> h,
            offered |-> products \cup (IF h \in DOMAIN refs THEN refs[h] ELSE {})])
  /\ used' = used \cup {h}
  /\ UNCHANGED <<products, images, refs, files, home>>

\* CreateArticle, UpdateArticle, EventRepo.Create, EventRepo.Update: the ids
\* are stored as sent.
SaveHolder(a, ids) ==
  /\ task[a].pc = "editing"
  /\ ids \subseteq task[a].offered
  /\ MayWrite
  /\ refs' = With(refs, task[a].holder, ids)
  /\ Do(a, Idle)
  /\ UNCHANGED <<products, images, files, used, home>>

\* DeleteArticle, EventRepo.Delete.  A form open on the row is closed with it:
\* its save would be a 404.
DeleteHolder(a, h) ==
  /\ task[a] = Idle
  /\ h \in DOMAIN refs
  /\ MayWrite
  /\ refs' = Restrict(refs, DOMAIN refs \ {h})
  /\ task' = [b \in Admins |-> IF task[b].pc = "editing" /\ task[b].holder = h THEN Idle ELSE task[b]]
  /\ UNCHANGED <<products, images, files, used, home>>

-----------------------------------------------------------------------------
EditProduct(a) ==
  \/ OpenNewProduct(a)
  \/ \E p \in Products : OpenProduct(a, p) \/ CreateProduct(a, p)
  \/ \E u \in Urls : Upload(a, u) \/ FailUpload(a, u)
  \/ \E removed \in SUBSET Urls : BeginUpdate(a, removed)
  \/ RollBack(a)
  \/ CleanRemoved(a)
  \/ Commit(a)
  \/ FailCommit(a)

DeleteProduct(a) ==
  \/ \E p \in Products : SnapshotImages(a, p)
  \/ DropImages(a)
  \/ ScanArticles(a)
  \/ ScanEvents(a)
  \/ \E h \in Holders : ScrubRow(a, h)
  \/ EndScrub(a)
  \/ DropRow(a)
  \/ CleanFiles(a)
  \/ FailDelete(a)

Curate(a) ==
  \E h \in Holders, ids \in SUBSET Products :
    OpenHolder(a, h) \/ SaveHolder(a, ids) \/ DeleteHolder(a, h)

Next ==
  \/ \E a \in ProductEditors : EditProduct(a)
  \/ \E a \in Deleters : DeleteProduct(a)
  \/ \E a \in Curators : Curate(a)
  \/ \E a \in Admins : Abandon(a)

Spec == Init /\ [][Next]_vars

-----------------------------------------------------------------------------
(* Properties                                                              *)

TaskState ==
  {Idle}
  \cup [pc : {"form"}, product : Products \cup {"new"}, shown : SUBSET Urls, fresh : SUBSET Urls]
  \cup [pc : {"staged", "cleaned"}, product : Products, gallery : SUBSET Urls, removed : SUBSET Urls]
  \cup [pc : Deleting \cup {"clean_files"}, product : Products, urls : SUBSET Urls,
        rewrites : UNION {[H -> SUBSET Products] : H \in SUBSET Holders}]
  \cup [pc : {"editing"}, holder : Holders, offered : SUBSET Products]

\* Type invariant of the tables, the disk and the requests.
TypeOK ==
  /\ products \subseteq used \cap Products
  /\ images \in [Products -> SUBSET (used \cap Urls)]
  /\ DOMAIN refs \subseteq used \cap Holders /\ refs \in [DOMAIN refs -> SUBSET Products]
  /\ files \subseteq used \cap Urls
  /\ used \subseteq Products \cup Holders \cup Urls
  /\ DOMAIN home \subseteq used \cap Urls /\ home \in [DOMAIN home -> Products]
  /\ task \in [Admins -> TaskState]

\* No article or event lists a product that is not there (Delete: "Run these
\* before the parent DELETE so the catalog and the references stay in sync"),
\* wherever a Delete fails or dies half-way.
RefsResolve == \A h \in DOMAIN refs : refs[h] \subseteq products

\* Every picture a stored product lists is on disk (Update: "a failed DB write
\* leaves the files intact"), wherever an Update or a Delete fails or dies; an
\* Update about to commit is the exception, for that instant.
ListedImagesExist ==
  \A p \in products :
    (\A a \in Admins : task[a].pc = "cleaned" => task[a].product # p) => images[p] \subseteq files

\* Image rows never outlive their product: an Update that overlaps a Delete of
\* the same product is refused or swept away with it.
NoStrayImages == \A p \in Products \ products : images[p] = {}

\* Deleting a product leaves none of its pictures on disk ("Without this the
\* gallery leaks one file per product delete").
DeletedLeavesNoFile ==
  \A u \in DOMAIN home :
    home[u] \notin products /\ (\A a \in Admins : task[a].pc # "clean_files") => u \notin files

=============================================================================
