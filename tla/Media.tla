------------------------------- MODULE Media --------------------------------
(***************************************************************************)
(* The rows that show one uploaded picture each: banner slides and article *)
(* covers (article_repo.go, article_handler.go), the banner of the store   *)
(* (store_repo.go, handler.go), and the forms that edit them               *)
(* (banner_dialog.dart, article_dialog.dart, site_config_section.dart).    *)
(*                                                                         *)
(* A form uploads the new picture first and then sends the row, together   *)
(* with the picture it believes it replaces; the handler runs one          *)
(* statement and deletes that old file afterwards.  Nothing compares the   *)
(* old picture with the one the row really shows, so a form opened from an *)
(* old list, a form saved twice, a failed statement and a crash between    *)
(* two steps all have their effect on the disk.                            *)
(*                                                                         *)
(* The lists a form is opened from may be as old as one likes: a form      *)
(* starts from any picture its row has ever shown.                         *)
(***************************************************************************)
EXTENDS Naturals

CONSTANTS
  Admins,      \* open admin apps
  Banners,     \* ids for banner slides (the time of the save: never twice)
  Articles,    \* ids for articles (likewise)
  Store,       \* the one row of store_info
  Urls,        \* names buildUploadFilename can produce (never twice)
  External,    \* a picture on a host that is not ours
  None,        \* the empty string
  First,       \* what the store shows at first: one of the last two
  MaxSent      \* bound: saves and deletes that are ever sent

Rows == Banners \union Articles \union {Store}
Pictures == Urls \union {External, None}

ASSUME RowsAssumption ==
  /\ Store \notin Banners \union Articles
  /\ Banners \intersect Articles = {}
  /\ {"new banner", "new article"} \intersect Rows = {}
ASSUME PicturesAssumption == External \notin Urls /\ None \notin Urls /\ External # None
ASSUME FirstAssumption == First \in {None, External}
ASSUME MaxSentAssumption == MaxSent \in Nat

VARIABLES
  image,     \* the rows there are, and the picture each one shows
  files,     \* what is on disk in /uploads
  form,      \* admin -> the form open in the app, if any
  requests,  \* what has been sent and not yet run its statement
  sent,      \* how many saves and deletes have been
  doomed,    \* files whose handler has changed the row and now deletes them
  used,      \* ids and file names handed out so far
  past,      \* every picture a row has shown (history)
  lost,      \* files some failure or stale save cost (history)
  marred     \* rows whose last save kept the picture of a stale form (history)

vars == <<image, files, form, requests, sent, doomed, used, past, lost, marred>>

-----------------------------------------------------------------------------
(* Forms *)

Closed == [row |-> None]

Blank == {"new banner", "new article"}
IsBanner(row) == row = "new banner" \/ row \in Banners
IdsFor(row) == IF row = "new banner" THEN Banners ELSE Articles

Fresh(row, shown) ==
  [row |-> row, base |-> shown, pic |-> shown, removed |-> None,
   staged |-> FALSE, sending |-> {}, saving |-> FALSE]

Init ==
  /\ image = [r \in {Store} |-> First]
  /\ past = [r \in Rows |-> IF r = Store THEN {First} ELSE {}]
  /\ form = [a \in Admins |-> Closed]
  /\ files = {} /\ requests = {} /\ sent = 0 /\ doomed = {}
  /\ used = {} /\ lost = {} /\ marred = {}

IsOpen(a) == form[a] # Closed

Open(a, row) ==
  /\ ~IsOpen(a)
  /\ \/ row \in Blank /\ form' = [form EXCEPT ![a] = Fresh(row, None)]
     \/ row \in Rows
        /\ \E shown \in past[row] : form' = [form EXCEPT ![a] = Fresh(row, shown)]
  /\ UNCHANGED <<image, files, requests, sent, doomed, used, past, lost, marred>>

\* The button is there when the form shows a saved picture and no chosen one.
Clear(a) ==
  /\ IsOpen(a)
  /\ form[a].pic # None /\ ~form[a].staged /\ form[a].sending = {}
  /\ form' = [form EXCEPT ![a].removed = form[a].pic, ![a].pic = None]
  /\ UNCHANGED <<image, files, requests, sent, doomed, used, past, lost, marred>>

\* The button of an article is always enabled, that of a banner while nothing
\* uploads, that of the store while no save is under way.
CanSave(f) ==
  \/ f.row \in Articles \union {"new article"}
  \/ f.sending = {} /\ ~f.saving

\* Save, first half, when a picture has been chosen from the gallery, now or
\* before an earlier save: it stays chosen.  It is written to disk.
Upload(a, u) ==
  /\ IsOpen(a) /\ CanSave(form[a])
  /\ u \in Urls \ used
  /\ files' = files \union {u}
  /\ used' = used \union {u}
  /\ form' = [form EXCEPT ![a].staged = TRUE, ![a].sending = form[a].sending \union {u}]
  /\ UNCHANGED <<image, requests, sent, doomed, past, lost, marred>>

\* The answer to the upload never comes: the save stops there.
LoseUpload(a, u) ==
  /\ IsOpen(a) /\ CanSave(form[a])
  /\ u \in Urls \ used
  /\ files' = files \union {u}
  /\ used' = used \union {u}
  /\ lost' = lost \union {u}
  /\ form' = [form EXCEPT ![a].staged = TRUE]
  /\ UNCHANGED <<image, requests, sent, doomed, past, marred>>

\* Mutated form: the clear button keeps no snapshot of what it cleared.
OldPictureShownOnly(f, pic) == IF pic # f.pic THEN f.pic ELSE None

\* The old url sent with a save, from the form as it is after the upload.
OldPicture(f, pic) ==
  IF f.removed # None THEN f.removed
  ELSE IF pic # f.pic THEN f.pic ELSE None

\* The PUT (or, from a blank form, the POST: a new row at each save).
Request(f, row, pic) ==
  [op |-> IF f.row \in Blank THEN "create" ELSE "update", row |-> row,
   pic |-> pic, old |-> OldPicture(f, pic), base |-> f.base]

Send(a, pic, sending) ==
  /\ sent < MaxSent /\ sent' = sent + 1
  /\ \E row \in IF form[a].row \in Blank THEN IdsFor(form[a].row) \ used ELSE {form[a].row} :
        /\ requests' = requests \union {Request(form[a], row, pic)}
        /\ used' = used \union {row}
  /\ form' = [form EXCEPT ![a].sending = sending, ![a].saving = (form[a].row = Store)]

\* Save, second half: the upload is answered and the form is still there.
SendUploaded(a, u) ==
  /\ IsOpen(a) /\ u \in form[a].sending
  /\ Send(a, u, form[a].sending \ {u})
  /\ UNCHANGED <<image, files, doomed, past, lost, marred>>

\* Save with no picture chosen; a banner must have one.
SendShown(a) ==
  /\ IsOpen(a) /\ ~form[a].staged /\ CanSave(form[a])
  /\ IsBanner(form[a].row) => form[a].pic # None
  /\ Send(a, form[a].pic, form[a].sending)
  /\ UNCHANGED <<image, files, doomed, past, lost, marred>>

\* The form goes away: cancelled, or popped when some save of it is answered,
\* for better or worse.  An upload still on its way is then not sent.
Dismiss(a) ==
  /\ IsOpen(a)
  /\ form' = [form EXCEPT ![a] = Closed]
  /\ lost' = lost \union form[a].sending
  /\ UNCHANGED <<image, files, requests, sent, doomed, used, past, marred>>

\* The settings form stays: it forgets the cleared picture when an answer
\* comes, good or bad, also one cleared since the save was sent.
Answered(a) ==
  /\ IsOpen(a) /\ form[a].saving
  /\ form' = [form EXCEPT ![a].saving = FALSE, ![a].removed = None]
  /\ lost' = lost \union ({form[a].removed} \intersect {image[Store]} \intersect Urls)
  /\ UNCHANGED <<image, files, requests, sent, doomed, used, past, marred>>

-----------------------------------------------------------------------------
(* Handlers *)

Brings(q) == {q.pic} \ {q.base}
Stale(q) == image[q.row] # q.base

\* Mutated form: the host of the old url is not compared with ours.
OnDiskAnyHost(pics) == pics \ {None}

\* FilenameFromURL: the pictures among these that are files of ours.
OnDisk(pics) == pics \intersect Urls

Show(row, pic) == [r \in DOMAIN image \union {row} |-> IF r = row THEN pic ELSE image[r]]

\* POST: validated, inserted.
CreateRow(q) ==
  /\ q \in requests /\ q.op = "create"
  /\ requests' = requests \ {q}
  /\ image' = Show(q.row, q.pic)
  /\ past' = [past EXCEPT ![q.row] = past[q.row] \union {q.pic}]
  /\ UNCHANGED <<files, form, sent, doomed, used, lost, marred>>

\* PUT: the row takes what was sent, whatever it showed, and then the old
\* picture named by the client goes, unless it is the one sent.
UpdateRow(q) ==
  /\ q \in requests /\ q.op = "update" /\ q.row \in DOMAIN image
  /\ requests' = requests \ {q}
  /\ image' = Show(q.row, q.pic)
  /\ past' = [past EXCEPT ![q.row] = past[q.row] \union {q.pic}]
  /\ doomed' = doomed \union OnDisk({q.old} \ {q.pic})
  /\ lost' = lost \union (IF Stale(q) THEN {image[q.row]} \intersect Urls ELSE {})
  /\ marred' = IF Brings(q) # {} THEN marred \ {q.row}
               ELSE IF Stale(q) THEN marred \union {q.row} ELSE marred
  /\ UNCHANGED <<files, form, sent, used>>

\* No row with that id: 404 and no clean-up.
UpdateMissing(q) ==
  /\ q \in requests /\ q.op = "update" /\ q.row \notin DOMAIN image
  /\ requests' = requests \ {q}
  /\ lost' = lost \union (Brings(q) \intersect Urls)
  /\ UNCHANGED <<image, files, form, sent, doomed, used, past, marred>>

\* DELETE, first statement: what does the row show?  An error is ignored.
StartDelete(row) ==
  /\ row \in Rows \ {Store} /\ past[row] # {}
  /\ sent < MaxSent /\ sent' = sent + 1
  /\ \E shown \in {None} \union (IF row \in DOMAIN image THEN {image[row]} ELSE {}) :
        requests' = requests \union
          {[op |-> "delete", row |-> row, pic |-> shown, old |-> shown, base |-> shown]}
  /\ UNCHANGED <<image, files, form, doomed, used, past, lost, marred>>

\* Second statement.  The file that goes is the one seen by the first.
DeleteRow(q) ==
  /\ q \in requests /\ q.op = "delete" /\ q.row \in DOMAIN image
  /\ requests' = requests \ {q}
  /\ image' = [r \in DOMAIN image \ {q.row} |-> image[r]]
  /\ doomed' = doomed \union OnDisk({q.old})
  /\ lost' = lost \union (IF Stale(q) THEN {image[q.row]} \intersect Urls ELSE {})
  /\ UNCHANGED <<files, form, sent, used, past, marred>>

DeleteMissing(q) ==
  /\ q \in requests /\ q.op = "delete" /\ q.row \notin DOMAIN image
  /\ requests' = requests \ {q}
  /\ UNCHANGED <<image, files, form, sent, doomed, used, past, lost, marred>>

\* Mutated form: the old picture goes whether or not the statement succeeds.
FailAndCleanUp(q) ==
  /\ q \in requests
  /\ requests' = requests \ {q}
  /\ doomed' = doomed \union OnDisk({q.old})
  /\ lost' = lost \union (Brings(q) \intersect Urls)
  /\ UNCHANGED <<image, files, form, sent, used, past, marred>>

\* The request is lost or refused, its statement fails, or the process dies
\* before it: nothing is cleaned up, and what was uploaded for it stays.
Fail(q) ==
  /\ q \in requests
  /\ requests' = requests \ {q}
  /\ lost' = lost \union (Brings(q) \intersect Urls)
  /\ UNCHANGED <<image, files, form, sent, doomed, used, past, marred>>

\* SafeDelete; a file that is gone already is no error.
CleanUp(u) ==
  /\ u \in doomed
  /\ files' = files \ {u}
  /\ doomed' = doomed \ {u}
  /\ UNCHANGED <<image, form, requests, sent, used, past, lost, marred>>

\* The removal fails, which is logged and swallowed, or the process dies.
FailCleanUp(u) ==
  /\ u \in doomed
  /\ doomed' = doomed \ {u}
  /\ lost' = lost \union {u}
  /\ UNCHANGED <<image, files, form, requests, sent, used, past, marred>>

Edit(a) ==
  \/ \E row \in Rows \union Blank : Open(a, row)
  \/ Clear(a)
  \/ \E u \in Urls : Upload(a, u) \/ LoseUpload(a, u) \/ SendUploaded(a, u)
  \/ SendShown(a) \/ Dismiss(a) \/ Answered(a)

Serve(q) ==
  \/ CreateRow(q) \/ UpdateRow(q) \/ UpdateMissing(q)
  \/ DeleteRow(q) \/ DeleteMissing(q) \/ Fail(q)

Next ==
  \/ \E a \in Admins : Edit(a)
  \/ \E row \in Rows : StartDelete(row)
  \/ \E q \in requests : Serve(q)
  \/ \E u \in doomed : CleanUp(u) \/ FailCleanUp(u)

Spec == Init /\ [][Next]_vars

-----------------------------------------------------------------------------
(* Properties *)

FormState ==
  [row : Rows \union Blank, base : Pictures, pic : Pictures, removed : Pictures,
   staged : BOOLEAN, sending : SUBSET Urls, saving : BOOLEAN]

RequestState ==
  [op : {"create", "update", "delete"}, row : Rows, pic : Pictures,
   old : Pictures, base : Pictures]

\* Type invariant: a stored banner always has a picture, and only files of
\* ours are ever about to be removed from the uploads directory.
TypeOK ==
  /\ DOMAIN image \subseteq Rows /\ Store \in DOMAIN image
  /\ \A r \in DOMAIN image : image[r] \in Pictures /\ (r \in Banners => image[r] # None)
  /\ files \subseteq used \intersect Urls
  /\ form \in [Admins -> FormState \union {Closed}]
  /\ requests \subseteq RequestState
  /\ sent \in 0..MaxSent
  /\ doomed \subseteq Urls
  /\ used \subseteq Urls \union Rows
  /\ past \in [Rows -> SUBSET Pictures]
  /\ lost \subseteq Urls
  /\ marred \subseteq Rows

\* A row whose picture is missing was last saved without a new picture from a
\* form that showed an out-of-date one: no crash, failed statement, failed
\* upload, double save or delete takes the file of a row away ("the old file
\* is best-effort deleted from disk after the UPDATE succeeds").
ShownExists == \A r \in DOMAIN image \ marred : image[r] \in Urls => image[r] \in files

Uploading == UNION {form[a].sending : a \in {b \in Admins : IsOpen(b)}}
Shown == {image[r] : r \in DOMAIN image}
Brought == UNION {Brings(q) : q \in requests}

\* Every file on disk is shown, on its way to a row or on its way out, except
\* those that one of a few named mishaps has cost: an upload nobody saved, a
\* request or a removal that failed, a save or delete that overwrote a picture
\* its form had not seen.  A save from an up-to-date form leaks nothing
\* ("without it the /uploads/ dir leaks one file per banner edit").
LeaksAccounted == files \subseteq Shown \union Uploading \union Brought \union doomed \union lost

=============================================================================
