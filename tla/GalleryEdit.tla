---------------------------- MODULE GalleryEdit ----------------------------
(***************************************************************************)
(* The gallery of the edit-product dialog while it is being saved          *)
(* (lib/views/admin/admin_product/edit_product_dialog.dart): the pictures  *)
(* added in this session are uploaded one await at a time, and the dialog  *)
(* stays live in between, so the admin's gestures land in the middle of    *)
(* the loop that walks the gallery.                                        *)
(*                                                                         *)
(* A picture and the url it is stored under are the same value here, as    *)
(* every upload is stored under a name of its own.                         *)
(***************************************************************************)
EXTENDS Integers, SequencesExt, Lists

CONSTANTS
  Existing,  \* urls the product lists when the dialog opens
  New,       \* pictures the admin can pick
  Blank,     \* the '' of an imageOrder slot not filled yet
  During     \* gestures the admin makes while pictures upload

ASSUME DialogAssumption ==
  /\ During \subseteq {"remove", "pick", "reorder"}
  /\ IsFiniteSet(Existing)
  /\ Existing \cap New = {} /\ Blank \notin Existing \cup New

VARIABLES
  gallery,   \* _gallery: what the dialog shows, in order
  removed,   \* _removedImageUrls
  options,   \* the urls the product's options show
  unpicked,  \* pictures not picked yet
  saving,    \* _submit between two awaits
  body       \* the PUT, once it is sent

galleryVars == <<gallery, removed, options, unpicked, saving, body>>

-----------------------------------------------------------------------------
\* No _submit is running.
Editing == [pc |-> "editing"]
Unsent  == [pc |-> "unsent"]

Sent == body # Unsent

\* A gesture reaches the dialog before _submit, or in one of its awaits.
Allows(gesture) == ~Sent /\ (saving = Editing \/ gesture \in During)

\* The next picture the loop must upload after position i, 0 if there is none.
NextNew(g, i) == SelectInSeq(g, LAMBDA x : x \in New /\ \E j \in i + 1 .. Len(g) : g[j] = x)

IndexIn(g, x) == SelectInSeq(g, LAMBDA y : y = x)

GalleryInit ==
  /\ gallery \in SetToSeqs(Existing)
  /\ removed = {}
  /\ options \in SUBSET Existing
  /\ unpicked = New
  /\ saving = Editing
  /\ body = Unsent

-----------------------------------------------------------------------------
(* Gestures                                                                *)

\* _pickImages: appended to the gallery.
PickImage(n) ==
  /\ Allows("pick")
  /\ n \in unpicked
  /\ unpicked' = unpicked \ {n}
  /\ gallery' = Append(gallery, n)
  /\ UNCHANGED <<removed, options, saving, body>>

\* Mutated form: a picture that was never uploaded is queued for deletion too.
OnRemoveAtTracksNew(i) ==
  /\ Allows("remove")
  /\ gallery' = RemoveAt(gallery, i)
  /\ removed' = removed \cup {gallery[i]}
  /\ UNCHANGED <<options, unpicked, saving, body>>

\* _onRemoveAt: only what the server has is queued for deletion.
OnRemoveAt(i) ==
  /\ Allows("remove")
  /\ gallery' = RemoveAt(gallery, i)
  /\ removed' = removed \cup ({gallery[i]} \cap Existing)
  /\ UNCHANGED <<options, unpicked, saving, body>>

\* _onReorder: newIndex counts after the removal.
OnReorder(i, j) ==
  /\ Allows("reorder")
  /\ i # j
  /\ gallery' = InsertAt(RemoveAt(gallery, i), j, gallery[i])
  /\ UNCHANGED <<removed, options, unpicked, saving, body>>

\* An option starts or stops showing one of the gallery's stored pictures.
ToggleOption(u) ==
  /\ ~Sent /\ saving = Editing
  /\ u \in ToSet(gallery) \cap Existing
  /\ options' = IF u \in options THEN options \ {u} ELSE options \cup {u}
  /\ UNCHANGED <<gallery, removed, unpicked, saving, body>>

-----------------------------------------------------------------------------
(* _submit                                                                 *)

\* Mutated form: the options are forwarded as they are.
RequestUnpruned(order) ==
  [pc |-> "sent", images |-> Where(order, LAMBDA u : u # Blank),
   removed |-> removed, options |-> options]

\* The PUT: cleanOrder, the deletions, and the options without deleted urls.
Request(order) ==
  [pc |-> "sent", images |-> Where(order, LAMBDA u : u # Blank),
   removed |-> removed, options |-> options \ removed]

\* The loop's iterator moves on: another upload starts, or the PUT is sent.
Proceed(order, from, length) ==
  LET i == NextNew(gallery, from) IN
  IF i = 0
  THEN /\ body' = Request(order)
       /\ saving' = Editing
  ELSE /\ saving' = [pc |-> "uploading", picture |-> gallery[i], at |-> i,
                     order |-> order, length |-> length]
       /\ UNCHANGED body

\* Up to the first await: the slots of the stored pictures are filled.
Submit ==
  /\ ~Sent /\ saving = Editing
  /\ Proceed([i \in DOMAIN gallery |-> IF gallery[i] \in Existing THEN gallery[i] ELSE Blank],
             0, Len(gallery))
  /\ UNCHANGED <<gallery, removed, options, unpicked>>

\* The slot of the picture just uploaded, looked up in the gallery of now.
Filled(order) ==
  LET slot == IndexIn(gallery, saving.picture)
  IN  IF slot \in DOMAIN order THEN [order EXCEPT ![slot] = saving.picture] ELSE order

\* Mutated form: new urls go to the end, as before imageOrder was introduced.
UploadedAppends ==
  /\ saving.pc = "uploading"
  /\ IF Len(gallery) # saving.length
     THEN saving' = Editing /\ UNCHANGED body
     ELSE Proceed(Append(saving.order, saving.picture), saving.at, saving.length)
  /\ UNCHANGED <<gallery, removed, options, unpicked>>

\* Mutated form: the loop walks a copy of the gallery's length unchecked.
UploadedUnchecked ==
  /\ saving.pc = "uploading"
  /\ Proceed(Filled(saving.order), saving.at, saving.length)
  /\ UNCHANGED <<gallery, removed, options, unpicked>>

\* An upload returns its url.  A list that changed its length under the
\* iterator makes moveNext throw, and _submit ends there.
Uploaded ==
  /\ saving.pc = "uploading"
  /\ IF Len(gallery) # saving.length
     THEN saving' = Editing /\ UNCHANGED body
     ELSE Proceed(Filled(saving.order), saving.at, saving.length)
  /\ UNCHANGED <<gallery, removed, options, unpicked>>

\* uploadImage returned null: an error is shown and the dialog stays.
UploadFails ==
  /\ saving.pc = "uploading"
  /\ saving' = Editing
  /\ UNCHANGED <<gallery, removed, options, unpicked, body>>

Gesture ==
  \/ \E n \in New : PickImage(n)
  \/ \E i \in DOMAIN gallery : OnRemoveAt(i)
  \/ \E i, j \in DOMAIN gallery : OnReorder(i, j)
  \/ \E u \in Existing : ToggleOption(u)

GalleryNext == Gesture \/ Submit \/ Uploaded \/ UploadFails

GallerySpec == GalleryInit /\ [][GalleryNext]_galleryVars

-----------------------------------------------------------------------------
(* Properties                                                              *)

\* Type invariant; what is queued for deletion is on the server, and the
\* gallery shows nothing twice.
GalleryTypeOK ==
  /\ gallery \in Seq(Existing \cup New) /\ IsInjective(gallery)
  /\ removed \subseteq Existing
  /\ options \subseteq Existing
  /\ unpicked \subseteq New
  /\ saving = Editing \/
       /\ saving.pc = "uploading" /\ saving.picture \in New
       /\ saving.at \in 1..saving.length
       /\ saving.order \in [1..saving.length -> Existing \cup New \cup {Blank}]

\* What is stored is what the dialog shows, in that order ("build a single
\* ordered imageOrder that the VM will write to images verbatim").
SavedAsShown == Sent => body.images = gallery

\* The server is never told to delete a picture it is told to list.
ListedIsKept == Sent => ToSet(body.images) \cap body.removed = {}

\* An option shows only pictures of the stored gallery ("so the option tracks
\* the cleaned-up gallery").
OptionsFollow == Sent => body.options \subseteq ToSet(body.images)

=============================================================================
