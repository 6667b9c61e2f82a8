---------------------------- MODULE Media_proofs ----------------------------
(***************************************************************************)
(* Banners, covers and the store's picture for every number of admins,     *)
(* rows, pictures and saves, with every mishap of Media at any time.       *)
(***************************************************************************)
EXTENDS Media, TLAPS

\* The bound on what is sent is kept.
LEMMA SentBound ==
  /\ 0 \in 0..MaxSent
  /\ sent \in 0..MaxSent /\ sent < MaxSent /\ sent' = sent + 1 => sent' \in 0..MaxSent
  BY MaxSentAssumption

USE RowsAssumption, PicturesAssumption

-----------------------------------------------------------------------------
(* The strengthenings                                                      *)

\* The uploads of a form that are not answered yet.
Sending(a) == IF IsOpen(a) THEN form[a].sending ELSE {}

\* A picture is shown by one row only, ever.
PastApart ==
  /\ \A r \in Rows : past[r] \intersect Urls \subseteq used
  /\ \A r, s \in Rows : r # s => past[r] \intersect past[s] \intersect Urls = {}
  /\ \A r \in Rows : past[r] # {} => r \in used \union {Store}
  /\ \A r \in DOMAIN image : image[r] \in past[r]
  /\ \A r \in marred : past[r] # {}

Pasts == {u \in Pictures : \E r \in Rows : u \in past[r]}

\* A picture on its way to a row, from a form or in a request, is on disk, in
\* one place, and no row has shown it.
SendingApart ==
  /\ \A a \in Admins : \A u \in Sending(a) :
       u \in files \ (doomed \union Pasts) /\ (\A q \in requests : u \notin Brings(q))
  /\ \A a, b \in Admins : a # b => Sending(a) \intersect Sending(b) = {}
BroughtApart ==
  /\ \A q \in requests : Brings(q) \intersect Urls \subseteq files \ (doomed \union Pasts)
  /\ \A q, p \in requests : p # q => Brings(p) \intersect Brings(q) \intersect Urls = {}

\* Nothing on disk is left to do about this picture.
Settled(u) == u \in files => u \in doomed \union lost

\* What a form shows and has cleared is what it was opened with; where the
\* cleared picture was forgotten, its file was seen to.
FormKnows(f) ==
  /\ IF f.row \in Blank THEN f.base = None ELSE f.base \in past[f.row]
  /\ f.pic \in {f.base, None} /\ f.removed \in {f.base, None}
  /\ f.removed # None => f.pic = None
  /\ f.saving => f.row = Store
  /\ f.base \in Urls /\ f.pic = None /\ f.removed = None => Settled(f.base)
FormsKnow == \A a \in Admins : IsOpen(a) => FormKnows(form[a])

\* So does a request, which names the picture it replaces.
RequestKnows(q) ==
  /\ q.op = "create" =>
       /\ q.base = None /\ q.row \in used /\ q.row # Store /\ past[q.row] = {}
       /\ \A p \in requests : p.row = q.row => p = q
  /\ q.op = "update" =>
       /\ q.base \in past[q.row] /\ q.old \in {q.base, None}
       /\ q.base \in Urls /\ q.pic # q.base => q.old = q.base \/ Settled(q.base)
  /\ q.op = "delete" =>
       /\ past[q.row] # {} /\ q.base \in past[q.row] \union {None}
       /\ q.pic = q.base /\ q.old = q.base
  /\ q.pic \in {q.base, None} \union Urls
RequestsKnow == \A q \in requests : RequestKnows(q)

\* What a row shows is not on its way out, unless the row is marred.
ShownKept ==
  \A r \in DOMAIN image \ marred : image[r] \in Urls => image[r] \in files \ doomed
DoomedShown == doomed \subseteq Pasts

\* Where every file comes from, and what became of the replaced ones.
Origins ==
  \A u \in files :
    \/ \E a \in Admins : u \in Sending(a)
    \/ \E q \in requests : u \in Brings(q)
    \/ u \in lost \union Pasts
PastSettled ==
  \A r \in Rows : \A u \in past[r] \intersect Urls :
    Settled(u) \/ (r \in DOMAIN image /\ image[r] = u)

IInv ==
  /\ PastApart /\ SendingApart /\ BroughtApart
  /\ FormsKnow /\ RequestsKnow
  /\ ShownKept /\ DoomedShown /\ Origins /\ PastSettled

\* What the type of a request leaves open: a banner is never saved without a
\* picture, and the store is never deleted.
Sound(q) ==
  /\ q.op # "delete" /\ q.row \in Banners => q.pic # None
  /\ q.op = "delete" => q.row # Store
AllSound == \A q \in requests : Sound(q)

-----------------------------------------------------------------------------
(* What the steps of a form leave in it                                    *)

\* An open form is not taken for a closed one.
LEMMA ClosedApart == Closed \notin FormState
<1>1. DOMAIN Closed = {"row"}
  BY DEF Closed
<1>2. \A f \in FormState : "base" \in DOMAIN f
  BY DEF FormState
<1> QED BY <1>1, <1>2

\* No app reaches into the form of another.
LEMMA Others ==
  ASSUME TypeOK, NEW a \in Admins, Edit(a)
  PROVE  \A b \in Admins \ {a} : form'[b] = form[b]
  BY DEF TypeOK, Edit, Open, Clear, Upload, LoseUpload, SendUploaded, SendShown, Send, Dismiss, Answered

\* The form that is open is a form.
LEMMA OpenIs ==
  ASSUME TypeOK, NEW a \in Admins, IsOpen(a)
  PROVE  form[a] \in FormState
  BY DEF TypeOK, IsOpen

\* The form g differs from f in these fields.
Changed(f, g, pic, removed, staged, sending, saving) ==
  /\ g \in FormState /\ g # Closed
  /\ g.row = f.row /\ g.base = f.base
  /\ g.pic = pic /\ g.removed = removed
  /\ g.staged = staged /\ g.sending = sending /\ g.saving = saving

\* What opening, clearing, uploading, saving, being answered and going away
\* leave in the form at hand.
LEMMA OpenStep ==
  ASSUME TypeOK, NEW a \in Admins, NEW row \in Rows \union Blank, Open(a, row)
  PROVE  \E shown \in Pictures :
           /\ IF row \in Blank THEN shown = None ELSE shown \in past[row]
           /\ form' = [form EXCEPT ![a] = Fresh(row, shown)]
           /\ Fresh(row, shown) \in FormState
<1>1. None \in Pictures /\ (row \in Rows => past[row] \subseteq Pictures /\ row \notin Blank)
  BY DEF Pictures, TypeOK, Blank
<1>2. \A shown \in Pictures : Fresh(row, shown) \in FormState
  BY <1>1 DEF Fresh, FormState
<1> QED BY <1>1, <1>2 DEF Open

\* Clearing remembers the picture it clears.
LEMMA ClearStep ==
  ASSUME TypeOK, NEW a \in Admins, Clear(a)
  PROVE  /\ form[a] \in FormState
         /\ Changed(form[a], form'[a], None, form[a].pic, form[a].staged, form[a].sending, form[a].saving)
<1>1. form[a] \in FormState
  BY OpenIs DEF Clear
<1>2. form'[a] = [form[a] EXCEPT !.removed = form[a].pic, !.pic = None]
  BY <1>1 DEF Clear, TypeOK
<1>3. form'[a] \in FormState
  BY <1>1, <1>2 DEF FormState, Pictures
<1> QED BY <1>1, <1>2, <1>3, ClosedApart DEF Changed, FormState

\* An upload is on its way from the form.
LEMMA UploadStep ==
  ASSUME TypeOK, NEW a \in Admins, NEW u \in Urls, Upload(a, u)
  PROVE  /\ form[a] \in FormState
         /\ Changed(form[a], form'[a], form[a].pic, form[a].removed,
                    TRUE, form[a].sending \union {u}, form[a].saving)
<1>1. form[a] \in FormState
  BY OpenIs DEF Upload
<1>2. form'[a] = [form[a] EXCEPT !.staged = TRUE, !.sending = form[a].sending \union {u}]
  BY <1>1 DEF Upload, TypeOK
<1>a. form[a].sending \union {u} \in SUBSET Urls
  BY <1>1 DEF FormState
<1>3. form'[a] \in FormState
  BY <1>1, <1>2, <1>a DEF FormState
<1> QED BY <1>1, <1>2, <1>3, ClosedApart DEF Changed, FormState

\* A lost upload leaves the picture chosen.
LEMMA LoseUploadStep ==
  ASSUME TypeOK, NEW a \in Admins, NEW u \in Urls, LoseUpload(a, u)
  PROVE  /\ form[a] \in FormState
         /\ Changed(form[a], form'[a], form[a].pic, form[a].removed, TRUE, form[a].sending, form[a].saving)
<1>1. form[a] \in FormState
  BY OpenIs DEF LoseUpload
<1>2. form'[a] = [form[a] EXCEPT !.staged = TRUE]
  BY <1>1 DEF LoseUpload, TypeOK
<1>3. form'[a] \in FormState
  BY <1>1, <1>2 DEF FormState, Pictures
<1> QED BY <1>1, <1>2, <1>3, ClosedApart DEF Changed, FormState

\* An answered upload is no longer on its way.
LEMMA SendUploadedStep ==
  ASSUME TypeOK, NEW a \in Admins, NEW u \in Urls, SendUploaded(a, u)
  PROVE  /\ form[a] \in FormState
         /\ Changed(form[a], form'[a], form[a].pic, form[a].removed,
                    form[a].staged, form[a].sending \ {u}, (form[a].row = Store))
<1>1. form[a] \in FormState
  BY OpenIs DEF SendUploaded
<1>2. form'[a] = [form[a] EXCEPT !.sending = form[a].sending \ {u}, !.saving = (form[a].row = Store)]
  BY <1>1 DEF SendUploaded, Send, TypeOK
<1>3. form'[a] \in FormState
  BY <1>1, <1>2 DEF FormState, Pictures
<1> QED BY <1>1, <1>2, <1>3, ClosedApart DEF Changed, FormState

\* A save without a new picture leaves the form as it is.
LEMMA SendShownStep ==
  ASSUME TypeOK, NEW a \in Admins, SendShown(a)
  PROVE  /\ form[a] \in FormState
         /\ Changed(form[a], form'[a], form[a].pic, form[a].removed,
                    form[a].staged, form[a].sending, (form[a].row = Store))
<1>1. form[a] \in FormState
  BY OpenIs DEF SendShown
<1>2. form'[a] = [form[a] EXCEPT !.sending = form[a].sending, !.saving = (form[a].row = Store)]
  BY <1>1 DEF SendShown, Send, TypeOK
<1>3. form'[a] \in FormState
  BY <1>1, <1>2 DEF FormState, Pictures
<1> QED BY <1>1, <1>2, <1>3, ClosedApart DEF Changed, FormState

\* The settings form forgets what it cleared.
LEMMA AnsweredStep ==
  ASSUME TypeOK, NEW a \in Admins, Answered(a)
  PROVE  /\ form[a] \in FormState
         /\ Changed(form[a], form'[a], form[a].pic, None, form[a].staged, form[a].sending, FALSE)
<1>1. form[a] \in FormState
  BY OpenIs DEF Answered
<1>2. form'[a] = [form[a] EXCEPT !.saving = FALSE, !.removed = None]
  BY <1>1 DEF Answered, TypeOK
<1>3. form'[a] \in FormState
  BY <1>1, <1>2 DEF FormState, Pictures
<1> QED BY <1>1, <1>2, <1>3, ClosedApart DEF Changed, FormState

\* A dismissed form is closed.
LEMMA DismissStep ==
  ASSUME TypeOK, NEW a \in Admins, Dismiss(a)
  PROVE  form[a] \in FormState /\ form'[a] = Closed
  BY OpenIs DEF Dismiss, TypeOK

\* A save puts one request on its way.
Sends(q, a, pic) ==
  /\ q \in RequestState
  /\ q.op = (IF form[a].row \in Blank THEN "create" ELSE "update")
  /\ q.row \in (IF form[a].row \in Blank THEN IdsFor(form[a].row) \ used ELSE {form[a].row})
  /\ q.pic = pic /\ q.old = OldPicture(form[a], pic) /\ q.base = form[a].base

\* A save sends one request, of the form's row or of a new one.
LEMMA SendStep ==
  ASSUME TypeOK, NEW a \in Admins, NEW STATE pic, pic \in Pictures, NEW STATE sending,
         form[a] \in FormState, Send(a, pic, sending)
  PROVE  \E q \in RequestState :
              Sends(q, a, pic) /\ requests' = requests \union {q} /\ used' = used \union {q.row}
<1>1. OldPicture(form[a], pic) \in Pictures /\ form[a].base \in Pictures
  BY DEF OldPicture, FormState, Pictures
<1>2. form[a].row \notin Blank => form[a].row \in Rows
  BY DEF FormState
<1>3. IdsFor(form[a].row) \subseteq Rows
  BY DEF IdsFor, Rows
<1>4. PICK row \in (IF form[a].row \in Blank THEN IdsFor(form[a].row) \ used ELSE {form[a].row}) :
        requests' = requests \union {Request(form[a], row, pic)} /\ used' = used \union {row}
  BY DEF Send
<1>5. row \in Rows
  BY <1>2, <1>3, <1>4
<1>6. Request(form[a], row, pic) \in RequestState
  BY <1>1, <1>5 DEF Request, RequestState
<1>7. Sends(Request(form[a], row, pic), a, pic)
  BY <1>4, <1>6 DEF Sends, Request
<1>8. Request(form[a], row, pic).row = row
  BY DEF Request
<1> QED BY <1>4, <1>6, <1>7, <1>8

-----------------------------------------------------------------------------
(* Type correctness                                                        *)

\* What a row shows after it was saved, and has ever shown.
LEMMA ShowIs ==
  ASSUME NEW STATE row, NEW STATE pic, image' = Show(row, pic)
  PROVE  /\ DOMAIN image' = DOMAIN image \union {row}
         /\ \A r \in DOMAIN image' : image'[r] = IF r = row THEN pic ELSE image[r]
  BY DEF Show

\* No step takes a row, the disk, a form or a request out of its type.
LEMMA TypeStep ==
  ASSUME TypeOK, AllSound, [Next]_vars
  PROVE  TypeOK' /\ AllSound'
<1> DEFINE Kept == TypeOK' /\ AllSound'
<1> SUFFICES Kept
  OBVIOUS
<1>1. ASSUME NEW a \in Admins, NEW row \in Rows \union Blank, Open(a, row) PROVE Kept
  <2>a. PICK shown \in Pictures :
          form' = [form EXCEPT ![a] = Fresh(row, shown)] /\ Fresh(row, shown) \in FormState
    BY <1>1, OpenStep
  <2>1. form' \in [Admins -> FormState \union {Closed}]
    BY <2>a DEF TypeOK
  <2> QED BY <1>1, <2>1 DEF Open, TypeOK, AllSound, Sound
<1>2. ASSUME NEW a \in Admins, Clear(a) PROVE Kept
  <2>1. form'[a] \in FormState \union {Closed}
    BY <1>2, ClearStep DEF Changed
  <2>2. form' \in [Admins -> FormState \union {Closed}]
    BY <1>2, <2>1 DEF Clear, TypeOK
  <2> QED BY <1>2, <2>2 DEF Clear, TypeOK, AllSound, Sound
<1>3. ASSUME NEW a \in Admins, NEW u \in Urls, Upload(a, u) PROVE Kept
  <2>1. form'[a] \in FormState \union {Closed}
    BY <1>3, UploadStep DEF Changed
  <2>2. form' \in [Admins -> FormState \union {Closed}]
    BY <1>3, <2>1 DEF Upload, TypeOK
  <2> QED BY <1>3, <2>2 DEF Upload, TypeOK, AllSound, Sound
<1>4. ASSUME NEW a \in Admins, NEW u \in Urls, LoseUpload(a, u) PROVE Kept
  <2>1. form'[a] \in FormState \union {Closed}
    BY <1>4, LoseUploadStep DEF Changed
  <2>2. form' \in [Admins -> FormState \union {Closed}]
    BY <1>4, <2>1 DEF LoseUpload, TypeOK
  <2> QED BY <1>4, <2>2 DEF LoseUpload, TypeOK, AllSound, Sound
<1>5. ASSUME NEW a \in Admins, NEW u \in Urls, SendUploaded(a, u) PROVE Kept
  <2>1. form'[a] \in FormState \union {Closed}
    BY <1>5, SendUploadedStep DEF Changed
  <2>2. form' \in [Admins -> FormState \union {Closed}]
    BY <1>5, <2>1 DEF SendUploaded, TypeOK, Send
  <2>3. form[a] \in FormState /\ Send(a, u, form[a].sending \ {u}) /\ u \in Pictures
    BY <1>5, OpenIs DEF SendUploaded, FormState, Pictures
  <2>4. \E q \in RequestState :
             Sends(q, a, u) /\ requests' = requests \union {q} /\ used' = used \union {q.row}
    BY <2>3, SendStep
  <2>5. PICK q \in RequestState :
          Sends(q, a, u) /\ requests' = requests \union {q} /\ used' = used \union {q.row}
    BY <2>4
  <2>6. q.row \in Rows /\ Sound(q)
    <3>1. q.row \in Banners => IsBanner(form[a].row)
      BY <2>3, <2>5, RowsAssumption DEF Sends, IsBanner, IdsFor, Blank, Rows, FormState
    <3> QED BY <1>5, <2>5, <3>1 DEF Sends, Sound, RequestState, SendUploaded
  <2>7. sent' \in 0..MaxSent
    BY <1>5, SentBound DEF SendUploaded, Send, TypeOK
  <2> QED BY <1>5, <2>2, <2>5, <2>6, <2>7 DEF SendUploaded, TypeOK, AllSound, Sound
<1>6. ASSUME NEW a \in Admins, SendShown(a) PROVE Kept
  <2>1. form'[a] \in FormState \union {Closed}
    BY <1>6, SendShownStep DEF Changed
  <2>2. form' \in [Admins -> FormState \union {Closed}]
    BY <1>6, <2>1 DEF SendShown, TypeOK, Send
  <2>3. form[a] \in FormState /\ Send(a, form[a].pic, form[a].sending) /\ form[a].pic \in Pictures
    BY <1>6, OpenIs DEF SendShown, FormState, Pictures
  <2>4. \E q \in RequestState :
             Sends(q, a, form[a].pic) /\ requests' = requests \union {q} /\ used' = used \union {q.row}
    BY <2>3, SendStep
  <2>5. PICK q \in RequestState :
          Sends(q, a, form[a].pic) /\ requests' = requests \union {q} /\ used' = used \union {q.row}
    BY <2>4
  <2>6. q.row \in Rows /\ Sound(q)
    <3>1. q.row \in Banners => IsBanner(form[a].row)
      BY <2>3, <2>5, RowsAssumption DEF Sends, IsBanner, IdsFor, Blank, Rows, FormState
    <3> QED BY <1>6, <2>5, <3>1 DEF Sends, Sound, RequestState, SendShown
  <2>7. sent' \in 0..MaxSent
    BY <1>6, SentBound DEF SendShown, Send, TypeOK
  <2> QED BY <1>6, <2>2, <2>5, <2>6, <2>7 DEF SendShown, TypeOK, AllSound, Sound
<1>7. ASSUME NEW a \in Admins, Dismiss(a) PROVE Kept
  <2>1. form'[a] \in FormState \union {Closed}
    BY <1>7, DismissStep DEF Changed
  <2>2. form' \in [Admins -> FormState \union {Closed}]
    BY <1>7, <2>1 DEF Dismiss, TypeOK
  <2> QED BY <1>7, <2>2, DismissStep DEF Dismiss, TypeOK, AllSound, Sound, FormState
<1>8. ASSUME NEW a \in Admins, Answered(a) PROVE Kept
  <2>1. form'[a] \in FormState \union {Closed}
    BY <1>8, AnsweredStep DEF Changed
  <2>2. form' \in [Admins -> FormState \union {Closed}]
    BY <1>8, <2>1 DEF Answered, TypeOK
  <2> QED BY <1>8, <2>2 DEF Answered, TypeOK, AllSound, Sound, FormState
<1>9. ASSUME NEW q \in requests, CreateRow(q) PROVE Kept
  <2>1. q \in RequestState /\ image' = Show(q.row, q.pic) /\ (q.row \in Banners => q.pic # None)
    BY <1>9 DEF CreateRow, TypeOK, AllSound, Sound
  <2>2. /\ DOMAIN image' = DOMAIN image \union {q.row}
        /\ \A r \in DOMAIN image' : image'[r] = IF r = q.row THEN q.pic ELSE image[r]
    BY <2>1, ShowIs
  <2>3. past' \in [Rows -> SUBSET Pictures]
    BY <1>9, <2>1 DEF CreateRow, TypeOK, RequestState
  <2>4. DOMAIN image' \subseteq Rows /\ Store \in DOMAIN image' /\ requests' \subseteq requests
    BY <1>9, <2>1, <2>2 DEF CreateRow, TypeOK, RequestState
  <2>5. \A r \in DOMAIN image' : image'[r] \in Pictures /\ (r \in Banners => image'[r] # None)
    BY <2>1, <2>2 DEF TypeOK, RequestState
  <2> QED BY <1>9, <2>3, <2>4, <2>5 DEF CreateRow, TypeOK, AllSound
<1>10. ASSUME NEW q \in requests, UpdateRow(q) PROVE Kept
  <2>1. q \in RequestState /\ image' = Show(q.row, q.pic) /\ (q.row \in Banners => q.pic # None)
    BY <1>10 DEF UpdateRow, TypeOK, AllSound, Sound
  <2>2. /\ DOMAIN image' = DOMAIN image \union {q.row}
        /\ \A r \in DOMAIN image' : image'[r] = IF r = q.row THEN q.pic ELSE image[r]
    BY <2>1, ShowIs
  <2>3. past' \in [Rows -> SUBSET Pictures]
    BY <1>10, <2>1 DEF UpdateRow, TypeOK, RequestState
  <2>4. DOMAIN image' \subseteq Rows /\ Store \in DOMAIN image' /\ requests' \subseteq requests
    BY <1>10, <2>1, <2>2 DEF UpdateRow, TypeOK, RequestState
  <2>5. \A r \in DOMAIN image' : image'[r] \in Pictures /\ (r \in Banners => image'[r] # None)
    BY <2>1, <2>2 DEF TypeOK, RequestState
  <2>6. doomed' \subseteq Urls /\ lost' \subseteq Urls
    BY <1>10 DEF UpdateRow, TypeOK, OnDisk
  <2>7. marred' \subseteq Rows
    BY <1>10, <2>1 DEF UpdateRow, TypeOK, RequestState
  <2> QED BY <1>10, <2>3, <2>4, <2>5, <2>6, <2>7 DEF UpdateRow, TypeOK, AllSound
<1>11. ASSUME NEW row \in Rows, StartDelete(row) PROVE Kept
  <2>1. PICK shown \in Pictures :
          requests' = requests \union
            {[op |-> "delete", row |-> row, pic |-> shown, old |-> shown, base |-> shown]}
    BY <1>11 DEF StartDelete, TypeOK, Pictures
  <2> DEFINE q == [op |-> "delete", row |-> row, pic |-> shown, old |-> shown, base |-> shown]
  <2>a. row \in Rows /\ row # Store /\ requests' = requests \union {q}
    BY <1>11, <2>1 DEF StartDelete
  <2>b. q \in RequestState /\ Sound(q)
    BY <2>a DEF RequestState, Sound
  <2> HIDE DEF q
  <2>2. requests' \subseteq RequestState /\ AllSound'
    BY <2>a, <2>b DEF TypeOK, AllSound
  <2>3. sent' \in 0..MaxSent
    BY <1>11, SentBound DEF StartDelete, TypeOK
  <2> QED BY <1>11, <2>2, <2>3 DEF StartDelete, TypeOK
<1> USE DEF TypeOK, AllSound, Sound, RequestState, Rows, Pictures, OnDisk, Brings,
      Stale, Show
<1>12. ASSUME NEW q \in requests, UpdateMissing(q) PROVE Kept
  BY <1>12 DEF UpdateMissing
<1>13. ASSUME NEW q \in requests, DeleteRow(q) PROVE Kept
  BY <1>13 DEF DeleteRow
<1>14. ASSUME NEW q \in requests, DeleteMissing(q) PROVE Kept
  BY <1>14 DEF DeleteMissing
<1>15. ASSUME NEW q \in requests, Fail(q) PROVE Kept
  BY <1>15 DEF Fail
<1>16. ASSUME NEW u \in doomed, CleanUp(u) PROVE Kept
  BY <1>16 DEF CleanUp
<1>17. ASSUME NEW u \in doomed, FailCleanUp(u) PROVE Kept
  BY <1>17 DEF FailCleanUp
<1>u. CASE UNCHANGED vars
  BY <1>u DEF vars
<1> HIDE DEF Kept
<1> QED
  BY <1>1, <1>2, <1>3, <1>4, <1>5, <1>6, <1>7, <1>8, <1>9,
     <1>10, <1>11, <1>12, <1>13, <1>14, <1>15, <1>16, <1>17, <1>u
  DEF Next, Edit, Serve

-----------------------------------------------------------------------------
(* What the steps of a handler leave                                       *)

\* A saved row shows what was sent: the picture its form was opened with, or
\* one of its own that no row has shown.
Saves(q) ==
  /\ q \in RequestState /\ q.row \in Rows
  /\ requests' = requests \ {q}
  /\ DOMAIN image' = DOMAIN image \union {q.row}
  /\ \A r \in DOMAIN image' : image'[r] = IF r = q.row THEN q.pic ELSE image[r]
  /\ \A r \in Rows : past'[r] = IF r = q.row THEN past[r] \union {q.pic} ELSE past[r]
  /\ Pasts' = Pasts \union {q.pic}
Own(q) ==
  q.pic \in Urls => \/ q.pic = q.base /\ q.pic \in past[q.row]
                    \/ q.pic \in Brings(q) /\ q.pic \in files \ (doomed \union Pasts)

\* Both handlers that save do this much.
LEMMA SaveIs ==
  ASSUME TypeOK, NEW q \in requests, CreateRow(q) \/ UpdateRow(q)
  PROVE  Saves(q)
<1>1. q \in RequestState /\ q.row \in Rows /\ q.pic \in Pictures
  BY DEF TypeOK, RequestState
<1>2. image' = Show(q.row, q.pic) /\ requests' = requests \ {q}
  BY DEF CreateRow, UpdateRow
<1>3. past' = [past EXCEPT ![q.row] = past[q.row] \union {q.pic}]
  BY DEF CreateRow, UpdateRow
<1>4. \A r \in Rows : past'[r] = IF r = q.row THEN past[r] \union {q.pic} ELSE past[r]
  BY <1>1, <1>3 DEF TypeOK
<1>5. Pasts' = Pasts \union {q.pic}
  <2>1. \A u \in Pictures : (\E r \in Rows : u \in past'[r]) <=> (\E r \in Rows : u \in past[r]) \/ u = q.pic
    BY <1>1, <1>4
  <2> QED BY <1>1, <2>1 DEF Pasts
<1>6. /\ DOMAIN image' = DOMAIN image \union {q.row}
      /\ \A r \in DOMAIN image' : image'[r] = IF r = q.row THEN q.pic ELSE image[r]
  BY <1>2, ShowIs
<1> QED BY <1>1, <1>2, <1>4, <1>5, <1>6 DEF Saves

\* The picture of a save is one its row has shown or a new one of its own.
LEMMA OwnPicture ==
  ASSUME BroughtApart, RequestsKnow, NEW q \in requests, q.op # "delete", q \in RequestState
  PROVE  Own(q)
<1>1. RequestKnows(q)
  BY DEF RequestsKnow
<1>2. q.op = "create" \/ q.op = "update"
  BY DEF RequestState
<1>3. q.base = None \/ q.base \in past[q.row]
  BY <1>1, <1>2 DEF RequestKnows
<1>4. q.pic \in Urls /\ q.pic # q.base =>
        q.pic \in Brings(q) /\ q.pic \in files \ (doomed \union Pasts)
  BY DEF BroughtApart, Brings
<1> QED BY <1>3, <1>4 DEF Own

\* Pictures shown by two rows are different files, also after a save.
LEMMA PastsApart ==
  ASSUME TypeOK, PastApart, NEW r \in Rows, NEW u \in past[r], u \in Urls
  PROVE  u \in Pasts /\ u \in used /\ (\A s \in Rows : u \in past[s] => s = r)
  BY DEF Pasts, PastApart, Pictures

\* A request that is saved knows which pictures its row has shown.
LEMMA SavedKnows ==
  ASSUME TypeOK, BroughtApart, RequestsKnow, NEW q \in requests, CreateRow(q) \/ UpdateRow(q)
  PROVE  /\ Saves(q) /\ Own(q) /\ RequestKnows(q)
         /\ \/ q.op = "create" /\ CreateRow(q)
            \/ q.op = "update" /\ UpdateRow(q)
<1>1. Saves(q)
  BY SaveIs
<1>2. RequestKnows(q)
  BY DEF RequestsKnow
<1>a. CreateRow(q) => q.op = "create"
  BY DEF CreateRow
<1>b. UpdateRow(q) => q.op = "update"
  BY DEF UpdateRow
<1>3. q.op # "delete" /\ ((q.op = "create" /\ CreateRow(q)) \/ (q.op = "update" /\ UpdateRow(q)))
  BY <1>a, <1>b
<1>4. q \in RequestState
  BY <1>1 DEF Saves
<1> QED BY <1>1, <1>2, <1>3, <1>4, OwnPicture

\* Only the form at hand changes what it uploads.
LEMMA SendingOthers ==
  ASSUME TypeOK, NEW a \in Admins, Edit(a)
  PROVE  \A b \in Admins \ {a} : Sending(b)' = Sending(b)
  BY Others DEF Sending, IsOpen

\* What each step of a form does to its uploads.
LEMMA SendingIs ==
  ASSUME TypeOK, NEW a \in Admins
  PROVE  /\ \A row \in Rows \union Blank : Open(a, row) => Sending(a)' = {}
         /\ Clear(a) \/ SendShown(a) \/ Answered(a) => Sending(a)' = Sending(a)
         /\ \A u \in Urls : LoseUpload(a, u) => Sending(a)' = Sending(a)
         /\ \A u \in Urls : Upload(a, u) => Sending(a)' = Sending(a) \union {u}
         /\ \A u \in Urls : SendUploaded(a, u) => u \in Sending(a) /\ Sending(a)' = Sending(a) \ {u}
         /\ Dismiss(a) => Sending(a)' = {} /\ Sending(a) = form[a].sending
<1>1. ASSUME NEW row \in Rows \union Blank, Open(a, row)
      PROVE  Sending(a)' = {}
  <2>1. PICK shown \in Pictures : form' = [form EXCEPT ![a] = Fresh(row, shown)]
    BY <1>1, OpenStep
  <2>2. form'[a] = Fresh(row, shown)
    BY <2>1 DEF TypeOK
  <2>3. Fresh(row, shown).sending = {}
    BY DEF Fresh
  <2> QED BY <2>2, <2>3 DEF Sending, IsOpen
<1>2. Clear(a) => Sending(a)' = Sending(a)
  BY ClearStep DEF Sending, Changed, Clear, IsOpen
<1>3. SendShown(a) => Sending(a)' = Sending(a)
  BY SendShownStep DEF Sending, Changed, SendShown, IsOpen
<1>4. Answered(a) => Sending(a)' = Sending(a)
  BY AnsweredStep DEF Sending, Changed, Answered, IsOpen
<1>5. ASSUME NEW u \in Urls, LoseUpload(a, u)
      PROVE  Sending(a)' = Sending(a)
  <2>1. IsOpen(a) /\ form'[a] # Closed /\ form'[a].sending = form[a].sending
    BY <1>5, LoseUploadStep DEF Changed, LoseUpload
  <2> QED BY <2>1 DEF Sending, IsOpen
<1>6. ASSUME NEW u \in Urls, Upload(a, u)
      PROVE  Sending(a)' = Sending(a) \union {u}
  BY <1>6, UploadStep DEF Sending, Changed, Upload, IsOpen
<1>7. ASSUME NEW u \in Urls, SendUploaded(a, u)
      PROVE  u \in Sending(a) /\ Sending(a)' = Sending(a) \ {u}
  BY <1>7, SendUploadedStep DEF Sending, Changed, SendUploaded, IsOpen
<1>8. ASSUME Dismiss(a)
      PROVE  Sending(a)' = {} /\ Sending(a) = form[a].sending
  BY <1>8, DismissStep DEF Sending, Dismiss, IsOpen
<1> QED BY <1>1, <1>2, <1>3, <1>4, <1>5, <1>6, <1>7, <1>8

\* The request of a save carries the new picture, or one the row has shown.
LEMMA SendIs ==
  ASSUME TypeOK, NEW a \in Admins
  PROVE  /\ SendShown(a) => \E q \in RequestState :
                               /\ Sends(q, a, form[a].pic)
                               /\ requests' = requests \union {q} /\ used' = used \union {q.row}
         /\ \A u \in Urls : SendUploaded(a, u) =>
              \E q \in RequestState :
                 Sends(q, a, u) /\ requests' = requests \union {q} /\ used' = used \union {q.row}
<1>1. ASSUME SendShown(a)
      PROVE  \E q \in RequestState : /\ Sends(q, a, form[a].pic)
                                     /\ requests' = requests \union {q} /\ used' = used \union {q.row}
  <2>1. form[a] \in FormState /\ Send(a, form[a].pic, form[a].sending) /\ form[a].pic \in Pictures
    BY <1>1, OpenIs DEF SendShown, FormState
  <2> QED BY <2>1, SendStep
<1>2. ASSUME NEW u \in Urls, SendUploaded(a, u)
      PROVE  \E q \in RequestState :
                Sends(q, a, u) /\ requests' = requests \union {q} /\ used' = used \union {q.row}
  <2>1. form[a] \in FormState /\ Send(a, u, form[a].sending \ {u}) /\ u \in Pictures
    BY <1>2, OpenIs DEF SendUploaded, Pictures
  <2> QED BY <2>1, SendStep
<1> QED BY <1>1, <1>2

\* The request of a save brings at most the picture just uploaded for it.
LEMMA SendBrings ==
  ASSUME TypeOK, FormsKnow, NEW a \in Admins
  PROVE  /\ SendShown(a) => \E q \in RequestState :
                               /\ Sends(q, a, form[a].pic) /\ Brings(q) \intersect Urls = {}
                               /\ requests' = requests \union {q} /\ used' = used \union {q.row}
         /\ \A u \in Urls : SendUploaded(a, u) =>
              \E q \in RequestState :
                 /\ Sends(q, a, u) /\ Brings(q) \subseteq {u}
                 /\ requests' = requests \union {q} /\ used' = used \union {q.row}
<1>1. ASSUME SendShown(a)
      PROVE  \E q \in RequestState : /\ Sends(q, a, form[a].pic) /\ Brings(q) \intersect Urls = {}
                                     /\ requests' = requests \union {q} /\ used' = used \union {q.row}
  <2>1. form[a].pic \in {form[a].base, None}
    BY <1>1 DEF FormsKnow, FormKnows, SendShown
  <2>2. PICK q \in RequestState : /\ Sends(q, a, form[a].pic)
                                  /\ requests' = requests \union {q} /\ used' = used \union {q.row}
    BY <1>1, SendIs
  <2>3. Brings(q) \intersect Urls = {}
    BY <2>1, <2>2 DEF Sends, Brings
  <2> QED BY <2>2, <2>3
<1>2. ASSUME NEW u \in Urls, SendUploaded(a, u)
      PROVE  \E q \in RequestState :
                /\ Sends(q, a, u) /\ Brings(q) \subseteq {u}
                /\ requests' = requests \union {q} /\ used' = used \union {q.row}
  <2>1. PICK q \in RequestState :
                Sends(q, a, u) /\ requests' = requests \union {q} /\ used' = used \union {q.row}
    BY <1>2, SendIs
  <2>2. Brings(q) \subseteq {u}
    BY <2>1 DEF Sends, Brings
  <2> QED BY <2>1, <2>2
<1> QED BY <1>1, <1>2

-----------------------------------------------------------------------------
(* Pictures, uploads, forms and requests keep what is known of them        *)

\* No picture comes to be shown by a second row.
LEMMA PastStep ==
  ASSUME TypeOK, BroughtApart, RequestsKnow, PastApart, [Next]_vars
  PROVE  PastApart'
<1> DEFINE Kept == PastApart'
<1> SUFFICES Kept
  OBVIOUS
<1>1. ASSUME NEW a \in Admins, NEW u \in Urls, SendUploaded(a, u) PROVE Kept
  <2>1. used \subseteq used'
    BY <1>1 DEF SendUploaded, Send
  <2> QED BY <1>1, <2>1 DEF SendUploaded, PastApart
<1>2. ASSUME NEW a \in Admins, SendShown(a) PROVE Kept
  <2>1. used \subseteq used'
    BY <1>2 DEF SendShown, Send
  <2> QED BY <1>2, <2>1 DEF SendShown, PastApart
<1>3. ASSUME NEW q \in requests, CreateRow(q) PROVE Kept
  <2>0. Saves(q) /\ Own(q) /\ RequestKnows(q) /\ q.op = "create"
    BY <1>3, SavedKnows DEF CreateRow
  <2>1. q.row \in used \union {Store} /\ used' = used /\ marred' = marred
    BY <1>3, <2>0 DEF CreateRow, RequestKnows
  <2>a. past'[q.row] = past[q.row] \union {q.pic} /\ q.row \in Rows
    BY <2>0 DEF Saves
  <2>b. files \subseteq used
    BY DEF TypeOK
  <2>2. past'[q.row] \intersect Urls \subseteq used
    <3>1. \A u \in past[q.row] \intersect Urls : u \in used
      BY <2>a DEF PastApart
    <3>2. q.pic \in Urls => q.pic \in used
      BY <2>0, <2>b, <3>1 DEF Own
    <3> QED BY <2>a, <3>1, <3>2
  <2>3. ASSUME NEW r \in Rows \ {q.row}
        PROVE  past'[r] = past[r] /\ past'[r] \intersect past'[q.row] \intersect Urls = {}
    <3>1. past'[r] = past[r]
      BY <2>0 DEF Saves
    <3>2. \A u \in past[r] : u \in Urls => u \in Pasts /\ u \notin past[q.row]
      BY <2>a, PastsApart
    <3>3. q.pic \in Urls => q.pic \notin past[r]
      BY <2>0, <3>2 DEF Own
    <3> QED BY <2>a, <3>1, <3>2, <3>3
  <2>4. ASSUME NEW r \in DOMAIN image'
        PROVE  r \in Rows /\ image'[r] \in past'[r]
    <3>1. image'[r] = (IF r = q.row THEN q.pic ELSE image[r]) /\ r \in DOMAIN image \union {q.row}
      BY <2>0 DEF Saves
    <3>2. r \in Rows
      BY <2>a, <3>1 DEF TypeOK
    <3>3. past'[r] = IF r = q.row THEN past[r] \union {q.pic} ELSE past[r]
      BY <2>0, <3>2 DEF Saves
    <3> QED BY <3>1, <3>2, <3>3 DEF PastApart
  <2>5. \A r \in Rows :
          past'[r] \intersect Urls \subseteq used' /\ (past'[r] # {} => r \in used' \union {Store})
    BY <2>0, <2>1, <2>2, <2>3 DEF PastApart
  <2>6. \A r \in marred' : past'[r] # {}
    <3>1. \A r \in marred : r \in Rows /\ past[r] # {}
      BY DEF PastApart, TypeOK
    <3>2. \A r \in Rows : past[r] \subseteq past'[r]
      BY <2>0 DEF Saves
    <3> QED BY <2>1, <2>a, <3>1, <3>2
  <2>7. \A r, s \in Rows : r # s => past'[r] \intersect past'[s] \intersect Urls = {}
    <3> SUFFICES ASSUME NEW r \in Rows, NEW s \in Rows, r # s
                 PROVE  past'[r] \intersect past'[s] \intersect Urls = {}
      OBVIOUS
    <3>1. CASE r = q.row
      <4>1. past'[s] \intersect past'[q.row] \intersect Urls = {}
        BY <2>3, <3>1
      <4> QED BY <3>1, <4>1
    <3>2. CASE s = q.row
      BY <2>3, <3>2
    <3>3. CASE r # q.row /\ s # q.row
      BY <2>3, <3>3 DEF PastApart
    <3> QED BY <3>1, <3>2, <3>3
  <2> QED BY <2>4, <2>5, <2>6, <2>7 DEF PastApart
<1>4. ASSUME NEW q \in requests, UpdateRow(q) PROVE Kept
  <2>0. Saves(q) /\ Own(q) /\ RequestKnows(q) /\ q.op = "update"
    BY <1>4, SavedKnows DEF UpdateRow
  <2>1. q.row \in used \union {Store} /\ used' = used /\ marred' \subseteq marred \union {q.row}
    BY <1>4, <2>0 DEF UpdateRow, RequestKnows, PastApart, Saves
  <2>a. past'[q.row] = past[q.row] \union {q.pic} /\ q.row \in Rows
    BY <2>0 DEF Saves
  <2>b. files \subseteq used
    BY DEF TypeOK
  <2>2. past'[q.row] \intersect Urls \subseteq used
    <3>1. \A u \in past[q.row] \intersect Urls : u \in used
      BY <2>a DEF PastApart
    <3>2. q.pic \in Urls => q.pic \in used
      BY <2>0, <2>b, <3>1 DEF Own
    <3> QED BY <2>a, <3>1, <3>2
  <2>3. ASSUME NEW r \in Rows \ {q.row}
        PROVE  past'[r] = past[r] /\ past'[r] \intersect past'[q.row] \intersect Urls = {}
    <3>1. past'[r] = past[r]
      BY <2>0 DEF Saves
    <3>2. \A u \in past[r] : u \in Urls => u \in Pasts /\ u \notin past[q.row]
      BY <2>a, PastsApart
    <3>3. q.pic \in Urls => q.pic \notin past[r]
      BY <2>0, <3>2 DEF Own
    <3> QED BY <2>a, <3>1, <3>2, <3>3
  <2>4. ASSUME NEW r \in DOMAIN image'
        PROVE  r \in Rows /\ image'[r] \in past'[r]
    <3>1. image'[r] = (IF r = q.row THEN q.pic ELSE image[r]) /\ r \in DOMAIN image \union {q.row}
      BY <2>0 DEF Saves
    <3>2. r \in Rows
      BY <2>a, <3>1 DEF TypeOK
    <3>3. past'[r] = IF r = q.row THEN past[r] \union {q.pic} ELSE past[r]
      BY <2>0, <3>2 DEF Saves
    <3> QED BY <3>1, <3>2, <3>3 DEF PastApart
  <2>5. \A r \in Rows :
          past'[r] \intersect Urls \subseteq used' /\ (past'[r] # {} => r \in used' \union {Store})
    BY <2>0, <2>1, <2>2, <2>3 DEF PastApart
  <2>6. \A r \in marred' : past'[r] # {}
    <3>1. \A r \in marred : r \in Rows /\ past[r] # {}
      BY DEF PastApart, TypeOK
    <3>2. \A r \in Rows : past[r] \subseteq past'[r]
      BY <2>0 DEF Saves
    <3> QED BY <2>1, <2>a, <3>1, <3>2
  <2>7. \A r, s \in Rows : r # s => past'[r] \intersect past'[s] \intersect Urls = {}
    <3> SUFFICES ASSUME NEW r \in Rows, NEW s \in Rows, r # s
                 PROVE  past'[r] \intersect past'[s] \intersect Urls = {}
      OBVIOUS
    <3>1. CASE r = q.row
      <4>1. past'[s] \intersect past'[q.row] \intersect Urls = {}
        BY <2>3, <3>1
      <4> QED BY <3>1, <4>1
    <3>2. CASE s = q.row
      BY <2>3, <3>2
    <3>3. CASE r # q.row /\ s # q.row
      BY <2>3, <3>3 DEF PastApart
    <3> QED BY <3>1, <3>2, <3>3
  <2> QED BY <2>4, <2>5, <2>6, <2>7 DEF PastApart
<1> USE DEF PastApart, TypeOK
<1>5. ASSUME NEW a \in Admins, NEW row \in Rows \union Blank, Open(a, row) PROVE Kept
  BY <1>5 DEF Open
<1>6. ASSUME NEW a \in Admins, Clear(a) PROVE Kept
  BY <1>6 DEF Clear
<1>7. ASSUME NEW a \in Admins, NEW u \in Urls, Upload(a, u) PROVE Kept
  BY <1>7 DEF Upload
<1>8. ASSUME NEW a \in Admins, NEW u \in Urls, LoseUpload(a, u) PROVE Kept
  BY <1>8 DEF LoseUpload
<1>9. ASSUME NEW a \in Admins, Dismiss(a) PROVE Kept
  BY <1>9 DEF Dismiss
<1>10. ASSUME NEW a \in Admins, Answered(a) PROVE Kept
  BY <1>10 DEF Answered
<1>11. ASSUME NEW q \in requests, UpdateMissing(q) PROVE Kept
  BY <1>11 DEF UpdateMissing
<1>12. ASSUME NEW row \in Rows, StartDelete(row) PROVE Kept
  BY <1>12 DEF StartDelete
<1>13. ASSUME NEW q \in requests, DeleteRow(q) PROVE Kept
  BY <1>13 DEF DeleteRow
<1>14. ASSUME NEW q \in requests, DeleteMissing(q) PROVE Kept
  BY <1>14 DEF DeleteMissing
<1>15. ASSUME NEW q \in requests, Fail(q) PROVE Kept
  BY <1>15 DEF Fail
<1>16. ASSUME NEW u \in doomed, CleanUp(u) PROVE Kept
  BY <1>16 DEF CleanUp
<1>17. ASSUME NEW u \in doomed, FailCleanUp(u) PROVE Kept
  BY <1>17 DEF FailCleanUp
<1>u. CASE UNCHANGED vars
  BY <1>u DEF vars
<1> HIDE DEF Kept
<1> QED
  BY <1>1, <1>2, <1>3, <1>4, <1>5, <1>6, <1>7, <1>8, <1>9,
     <1>10, <1>11, <1>12, <1>13, <1>14, <1>15, <1>16, <1>17, <1>u
  DEF Next, Edit, Serve

\* What was seen to once stays so: a name is never given to a second file.
LEMMA SettledStep ==
  ASSUME TypeOK, [Next]_vars
  PROVE  \A u \in used : Settled(u) => Settled(u)'
<1> DEFINE Kept == \A u \in used : Settled(u) => Settled(u)'
<1> SUFFICES Kept
  OBVIOUS
<1> USE DEF Settled, TypeOK
<1>1. ASSUME NEW a \in Admins, NEW row \in Rows \union Blank, Open(a, row) PROVE Kept
  BY <1>1 DEF Open
<1>2. ASSUME NEW a \in Admins, Clear(a) PROVE Kept
  BY <1>2 DEF Clear
<1>3. ASSUME NEW a \in Admins, NEW u \in Urls, Upload(a, u) PROVE Kept
  BY <1>3 DEF Upload
<1>4. ASSUME NEW a \in Admins, NEW u \in Urls, LoseUpload(a, u) PROVE Kept
  BY <1>4 DEF LoseUpload
<1>5. ASSUME NEW a \in Admins, NEW u \in Urls, SendUploaded(a, u) PROVE Kept
  BY <1>5 DEF SendUploaded, Send, Request, OldPicture
<1>6. ASSUME NEW a \in Admins, SendShown(a) PROVE Kept
  BY <1>6 DEF SendShown, Send, Request, OldPicture
<1>7. ASSUME NEW a \in Admins, Dismiss(a) PROVE Kept
  BY <1>7 DEF Dismiss
<1>8. ASSUME NEW a \in Admins, Answered(a) PROVE Kept
  BY <1>8 DEF Answered
<1>9. ASSUME NEW q \in requests, CreateRow(q) PROVE Kept
  BY <1>9 DEF CreateRow
<1>10. ASSUME NEW q \in requests, UpdateRow(q) PROVE Kept
  BY <1>10 DEF UpdateRow
<1>11. ASSUME NEW q \in requests, UpdateMissing(q) PROVE Kept
  BY <1>11 DEF UpdateMissing
<1>12. ASSUME NEW row \in Rows, StartDelete(row) PROVE Kept
  BY <1>12 DEF StartDelete
<1>13. ASSUME NEW q \in requests, DeleteRow(q) PROVE Kept
  BY <1>13 DEF DeleteRow
<1>14. ASSUME NEW q \in requests, DeleteMissing(q) PROVE Kept
  BY <1>14 DEF DeleteMissing
<1>15. ASSUME NEW q \in requests, Fail(q) PROVE Kept
  BY <1>15 DEF Fail
<1>16. ASSUME NEW u \in doomed, CleanUp(u) PROVE Kept
  BY <1>16 DEF CleanUp
<1>17. ASSUME NEW u \in doomed, FailCleanUp(u) PROVE Kept
  BY <1>17 DEF FailCleanUp
<1>u. CASE UNCHANGED vars
  BY <1>u DEF vars
<1> HIDE DEF Kept
<1> QED
  BY <1>1, <1>2, <1>3, <1>4, <1>5, <1>6, <1>7, <1>8, <1>9,
     <1>10, <1>11, <1>12, <1>13, <1>14, <1>15, <1>16, <1>17, <1>u
  DEF Next, Edit, Serve

\* The old picture a request names is one its row has shown.
LEMMA OldShown ==
  ASSUME TypeOK, RequestsKnow, NEW q \in requests, q.op # "create"
  PROVE  OnDisk({q.old}) \subseteq past[q.row] /\ OnDisk({q.old}) \subseteq Pasts
<1>1. q.op \in {"update", "delete"} /\ q.row \in Rows /\ RequestKnows(q)
  BY DEF TypeOK, RequestState, RequestsKnow
<1>2. q.old = None \/ q.old \in past[q.row]
  BY <1>1 DEF RequestKnows
<1> QED BY <1>1, <1>2 DEF OnDisk, Pasts, Pictures

\* An upload on its way from a form is on disk and nobody else's.
LEMMA SendingStep ==
  ASSUME TypeOK, PastApart, BroughtApart, FormsKnow, RequestsKnow, DoomedShown,
         SendingApart, [Next]_vars
  PROVE  SendingApart'
<1> DEFINE Kept == SendingApart'
<1> SUFFICES Kept
  OBVIOUS
<1>1. ASSUME NEW a \in Admins, NEW row \in Rows \union Blank, Open(a, row) PROVE Kept
  <2>1. \A b \in Admins : Sending(b)' \subseteq Sending(b)
    BY <1>1, SendingIs, SendingOthers DEF Edit
  <2>2. /\ files \subseteq files' /\ doomed' = doomed /\ Pasts' = Pasts
        /\ requests' = requests
    BY <1>1 DEF Open, Pasts
  <2> QED BY <2>1, <2>2 DEF SendingApart
<1>2. ASSUME NEW a \in Admins, Clear(a) PROVE Kept
  <2>1. \A b \in Admins : Sending(b)' \subseteq Sending(b)
    BY <1>2, SendingIs, SendingOthers DEF Edit
  <2>2. /\ files \subseteq files' /\ doomed' = doomed /\ Pasts' = Pasts
        /\ requests' = requests
    BY <1>2 DEF Clear, Pasts
  <2> QED BY <2>1, <2>2 DEF SendingApart
<1>3. ASSUME NEW a \in Admins, NEW u \in Urls, Upload(a, u) PROVE Kept
  <2>1. Sending(a)' = Sending(a) \union {u} /\ (\A b \in Admins \ {a} : Sending(b)' = Sending(b))
    BY <1>3, SendingIs, SendingOthers DEF Edit
  <2>2. /\ files' = files \union {u} /\ doomed' = doomed /\ Pasts' = Pasts
        /\ requests' = requests /\ u \notin used
    BY <1>3 DEF Upload, Pasts
  <2>3. files \subseteq used /\ Pasts \intersect Urls \subseteq used
    BY DEF TypeOK, Pasts, PastApart
  <2>4. u \notin doomed \union Pasts
    BY <2>2, <2>3 DEF DoomedShown
  <2>5. \A q \in requests : u \notin Brings(q)
    BY <2>2, <2>3 DEF BroughtApart
  <2>6. \A b \in Admins : u \notin Sending(b)
    BY <2>2, <2>3 DEF SendingApart
  <2>7. \A b \in Admins : \A v \in Sending(b)' :
          v \in files' \ (doomed' \union Pasts') /\ (\A q \in requests' : v \notin Brings(q))
    <3> SUFFICES ASSUME NEW b \in Admins, NEW v \in Sending(b)'
                 PROVE  v \in files' \ (doomed' \union Pasts') /\ (\A q \in requests' : v \notin Brings(q))
      OBVIOUS
    <3>1. v = u \/ v \in Sending(b)
      BY <2>1
    <3>2. CASE v = u
      BY <3>2, <2>2, <2>4, <2>5
    <3>3. CASE v \in Sending(b)
      BY <3>3, <2>2 DEF SendingApart
    <3> QED BY <3>1, <3>2, <3>3
  <2>8. \A b \in Admins \ {a} : Sending(a)' \intersect Sending(b)' = {}
    BY <2>1, <2>6 DEF SendingApart
  <2>9. \A b, c \in Admins : b # c => Sending(b)' \intersect Sending(c)' = {}
    <3> SUFFICES ASSUME NEW b \in Admins, NEW c \in Admins, b # c
                 PROVE  Sending(b)' \intersect Sending(c)' = {}
      OBVIOUS
    <3>1. CASE b = a
      BY <3>1, <2>8
    <3>2. CASE c = a
      <4>1. Sending(a)' \intersect Sending(b)' = {}
        BY <3>2, <2>8
      <4> QED BY <3>2, <4>1
    <3>3. CASE b # a /\ c # a
      BY <3>3, <2>1 DEF SendingApart
    <3> QED BY <3>1, <3>2, <3>3
  <2> QED BY <2>7, <2>9 DEF SendingApart
<1>4. ASSUME NEW a \in Admins, NEW u \in Urls, LoseUpload(a, u) PROVE Kept
  <2>1. \A b \in Admins : Sending(b)' \subseteq Sending(b)
    BY <1>4, SendingIs, SendingOthers DEF Edit
  <2>2. /\ files \subseteq files' /\ doomed' = doomed /\ Pasts' = Pasts
        /\ requests' = requests
    BY <1>4 DEF LoseUpload, Pasts
  <2> QED BY <2>1, <2>2 DEF SendingApart
<1>5. ASSUME NEW a \in Admins, NEW u \in Urls, SendUploaded(a, u) PROVE Kept
  <2>1. PICK q \in RequestState : Brings(q) \subseteq {u} /\ requests' = requests \union {q}
    BY <1>5, SendBrings
  <2>2. /\ u \in Sending(a) /\ Sending(a)' = Sending(a) \ {u}
        /\ \A b \in Admins \ {a} : Sending(b)' = Sending(b)
    BY <1>5, SendingIs, SendingOthers DEF Edit
  <2>3. files' = files /\ doomed' = doomed /\ Pasts' = Pasts
    BY <1>5 DEF SendUploaded, Pasts
  <2>4. \A b \in Admins : Sending(b)' \subseteq Sending(b) /\ u \notin Sending(b)'
    <3>1. \A b \in Admins \ {a} : u \notin Sending(b)
      BY <2>2 DEF SendingApart
    <3> QED BY <2>2, <3>1
  <2>5. u \in Urls
    OBVIOUS
  <2>6. \A b \in Admins : \A v \in Sending(b)' : \A p \in requests' : v \notin Brings(p)
    <3> SUFFICES ASSUME NEW b \in Admins, NEW v \in Sending(b)', NEW p \in requests'
                 PROVE  v \notin Brings(p)
      OBVIOUS
    <3>1. v # u /\ v \in Sending(b)
      BY <2>4
    <3>2. p = q \/ p \in requests
      BY <2>1
    <3>3. CASE p = q
      BY <2>1, <3>1, <3>3
    <3>4. CASE p \in requests
      BY <3>1, <3>4 DEF SendingApart
    <3> QED BY <3>2, <3>3, <3>4
  <2> QED BY <2>3, <2>4, <2>6 DEF SendingApart
<1>6. ASSUME NEW a \in Admins, SendShown(a) PROVE Kept
  <2>1. PICK q \in RequestState : Brings(q) \intersect Urls = {} /\ requests' = requests \union {q}
    BY <1>6, SendBrings
  <2>2. \A b \in Admins : Sending(b)' = Sending(b)
    BY <1>6, SendingIs, SendingOthers DEF Edit
  <2>3. files' = files /\ doomed' = doomed /\ Pasts' = Pasts
    BY <1>6 DEF SendShown, Pasts
  <2>4. \A b \in Admins : Sending(b) \subseteq Urls
    BY <2>3, OpenIs DEF Sending, FormState
  <2> QED BY <2>1, <2>2, <2>3, <2>4 DEF SendingApart
<1>7. ASSUME NEW a \in Admins, Dismiss(a) PROVE Kept
  <2>1. \A b \in Admins : Sending(b)' \subseteq Sending(b)
    BY <1>7, SendingIs, SendingOthers DEF Edit
  <2>2. /\ files \subseteq files' /\ doomed' = doomed /\ Pasts' = Pasts
        /\ requests' = requests
    BY <1>7 DEF Dismiss, Pasts
  <2> QED BY <2>1, <2>2 DEF SendingApart
<1>8. ASSUME NEW a \in Admins, Answered(a) PROVE Kept
  <2>1. \A b \in Admins : Sending(b)' \subseteq Sending(b)
    BY <1>8, SendingIs, SendingOthers DEF Edit
  <2>2. /\ files \subseteq files' /\ doomed' = doomed /\ Pasts' = Pasts
        /\ requests' = requests
    BY <1>8 DEF Answered, Pasts
  <2> QED BY <2>1, <2>2 DEF SendingApart
<1>9. ASSUME NEW q \in requests, CreateRow(q) PROVE Kept
  <2>1. Saves(q) /\ Own(q) /\ RequestKnows(q)
    BY <1>9, SavedKnows
  <2>2. files' = files /\ form' = form /\ doomed' \subseteq doomed \union Pasts
    <3>1. q.op # "create" => OnDisk({q.old}) \subseteq Pasts
      BY OldShown
    <3> QED BY <1>9, <3>1 DEF CreateRow, OnDisk
  <2>3. \A b \in Admins : Sending(b)' = Sending(b) /\ q.pic \notin Sending(b)
    <3>1. \A b \in Admins : Sending(b)' = Sending(b)
      BY <2>2 DEF Sending, IsOpen
    <3>2. ASSUME NEW b \in Admins, q.pic \in Sending(b) PROVE FALSE
      <4>1. q.pic \notin Pasts /\ q.pic \notin Brings(q) /\ q.pic \in Urls
        BY <3>2 DEF SendingApart, TypeOK
      <4> QED BY <2>1, <4>1, PastsApart DEF Own, Saves
    <3> QED BY <3>1, <3>2
  <2>4. Pasts' = Pasts \union {q.pic} /\ requests' \subseteq requests
    BY <2>1 DEF Saves
  <2> QED BY <2>2, <2>3, <2>4 DEF SendingApart
<1>10. ASSUME NEW q \in requests, UpdateRow(q) PROVE Kept
  <2>1. Saves(q) /\ Own(q) /\ RequestKnows(q)
    BY <1>10, SavedKnows
  <2>2. files' = files /\ form' = form /\ doomed' \subseteq doomed \union Pasts
    <3>1. q.op # "create" => OnDisk({q.old}) \subseteq Pasts
      BY OldShown
    <3> QED BY <1>10, <3>1 DEF UpdateRow, OnDisk
  <2>3. \A b \in Admins : Sending(b)' = Sending(b) /\ q.pic \notin Sending(b)
    <3>1. \A b \in Admins : Sending(b)' = Sending(b)
      BY <2>2 DEF Sending, IsOpen
    <3>2. ASSUME NEW b \in Admins, q.pic \in Sending(b) PROVE FALSE
      <4>1. q.pic \notin Pasts /\ q.pic \notin Brings(q) /\ q.pic \in Urls
        BY <3>2 DEF SendingApart, TypeOK
      <4> QED BY <2>1, <4>1, PastsApart DEF Own, Saves
    <3> QED BY <3>1, <3>2
  <2>4. Pasts' = Pasts \union {q.pic} /\ requests' \subseteq requests
    BY <2>1 DEF Saves
  <2> QED BY <2>2, <2>3, <2>4 DEF SendingApart
<1>11. ASSUME NEW q \in requests, UpdateMissing(q) PROVE Kept
  <2>1. /\ files \ doomed \subseteq files' /\ form' = form /\ Pasts' = Pasts
        /\ doomed' \subseteq doomed /\ requests' \subseteq requests
    BY <1>11 DEF UpdateMissing, Pasts
  <2>2. \A b \in Admins : Sending(b)' = Sending(b)
    BY <2>1 DEF Sending, IsOpen
  <2> QED BY <2>1, <2>2 DEF SendingApart
<1>12. ASSUME NEW row \in Rows, StartDelete(row) PROVE Kept
  <2>1. files' = files /\ form' = form /\ Pasts' = Pasts /\ doomed' = doomed
    BY <1>12 DEF StartDelete, Pasts
  <2>2. \A b \in Admins : Sending(b)' = Sending(b)
    BY <2>1 DEF Sending, IsOpen
  <2>3. \A q \in requests' : q \in requests \/ Brings(q) = {}
    <3>1. PICK shown :
            requests' = requests \union
              {[op |-> "delete", row |-> row, pic |-> shown, old |-> shown, base |-> shown]}
      BY <1>12 DEF StartDelete
    <3> DEFINE d == [op |-> "delete", row |-> row, pic |-> shown, old |-> shown, base |-> shown]
    <3>2. Brings(d) = {}
      BY DEF Brings
    <3> HIDE DEF d
    <3> QED BY <3>1, <3>2 DEF d
  <2> QED BY <2>1, <2>2, <2>3 DEF SendingApart
<1>13. ASSUME NEW q \in requests, DeleteRow(q) PROVE Kept
  <2>1. /\ files' = files /\ form' = form /\ requests' \subseteq requests /\ Pasts' = Pasts
        /\ doomed' \subseteq doomed \union Pasts
    BY <1>13, OldShown DEF DeleteRow, Pasts
  <2>2. \A b \in Admins : Sending(b)' = Sending(b)
    BY <2>1 DEF Sending, IsOpen
  <2> QED BY <2>1, <2>2 DEF SendingApart
<1>14. ASSUME NEW q \in requests, DeleteMissing(q) PROVE Kept
  <2>1. /\ files \ doomed \subseteq files' /\ form' = form /\ Pasts' = Pasts
        /\ doomed' \subseteq doomed /\ requests' \subseteq requests
    BY <1>14 DEF DeleteMissing, Pasts
  <2>2. \A b \in Admins : Sending(b)' = Sending(b)
    BY <2>1 DEF Sending, IsOpen
  <2> QED BY <2>1, <2>2 DEF SendingApart
<1>15. ASSUME NEW q \in requests, Fail(q) PROVE Kept
  <2>1. /\ files \ doomed \subseteq files' /\ form' = form /\ Pasts' = Pasts
        /\ doomed' \subseteq doomed /\ requests' \subseteq requests
    BY <1>15 DEF Fail, Pasts
  <2>2. \A b \in Admins : Sending(b)' = Sending(b)
    BY <2>1 DEF Sending, IsOpen
  <2> QED BY <2>1, <2>2 DEF SendingApart
<1>16. ASSUME NEW u \in doomed, CleanUp(u) PROVE Kept
  <2>1. /\ files \ doomed \subseteq files' /\ form' = form /\ Pasts' = Pasts
        /\ doomed' \subseteq doomed /\ requests' \subseteq requests
    BY <1>16 DEF CleanUp, Pasts
  <2>2. \A b \in Admins : Sending(b)' = Sending(b)
    BY <2>1 DEF Sending, IsOpen
  <2> QED BY <2>1, <2>2 DEF SendingApart
<1>17. ASSUME NEW u \in doomed, FailCleanUp(u) PROVE Kept
  <2>1. /\ files \ doomed \subseteq files' /\ form' = form /\ Pasts' = Pasts
        /\ doomed' \subseteq doomed /\ requests' \subseteq requests
    BY <1>17 DEF FailCleanUp, Pasts
  <2>2. \A b \in Admins : Sending(b)' = Sending(b)
    BY <2>1 DEF Sending, IsOpen
  <2> QED BY <2>1, <2>2 DEF SendingApart
<1>u. CASE UNCHANGED vars
  <2>1. /\ files' = files /\ form' = form /\ requests' = requests /\ Pasts' = Pasts /\ doomed' = doomed
    BY <1>u DEF vars, Pasts
  <2>2. \A b \in Admins : Sending(b)' = Sending(b)
    BY <2>1 DEF Sending, IsOpen
  <2> QED BY <2>1, <2>2 DEF SendingApart
<1> HIDE DEF Kept
<1> QED
  BY <1>1, <1>2, <1>3, <1>4, <1>5, <1>6, <1>7, <1>8, <1>9,
     <1>10, <1>11, <1>12, <1>13, <1>14, <1>15, <1>16, <1>17, <1>u
  DEF Next, Edit, Serve

\* A picture in a request is on disk, in no other request, and shown by no row.
LEMMA BroughtStep ==
  ASSUME TypeOK, PastApart, SendingApart, FormsKnow, RequestsKnow, DoomedShown,
         BroughtApart, [Next]_vars
  PROVE  BroughtApart'
<1> DEFINE Kept == BroughtApart'
<1> SUFFICES Kept
  OBVIOUS
<1>1. ASSUME NEW a \in Admins, NEW row \in Rows \union Blank, Open(a, row) PROVE Kept
  <2>1. /\ files \ doomed \subseteq files' /\ Pasts' = Pasts
        /\ doomed' \subseteq doomed /\ requests' \subseteq requests
    BY <1>1 DEF Open, Pasts
  <2> QED BY <2>1 DEF BroughtApart
<1>2. ASSUME NEW a \in Admins, Clear(a) PROVE Kept
  <2>1. /\ files \ doomed \subseteq files' /\ Pasts' = Pasts
        /\ doomed' \subseteq doomed /\ requests' \subseteq requests
    BY <1>2 DEF Clear, Pasts
  <2> QED BY <2>1 DEF BroughtApart
<1>3. ASSUME NEW a \in Admins, NEW u \in Urls, Upload(a, u) PROVE Kept
  <2>1. /\ files \ doomed \subseteq files' /\ Pasts' = Pasts
        /\ doomed' \subseteq doomed /\ requests' \subseteq requests
    BY <1>3 DEF Upload, Pasts
  <2> QED BY <2>1 DEF BroughtApart
<1>4. ASSUME NEW a \in Admins, NEW u \in Urls, LoseUpload(a, u) PROVE Kept
  <2>1. /\ files \ doomed \subseteq files' /\ Pasts' = Pasts
        /\ doomed' \subseteq doomed /\ requests' \subseteq requests
    BY <1>4 DEF LoseUpload, Pasts
  <2> QED BY <2>1 DEF BroughtApart
<1>5. ASSUME NEW a \in Admins, NEW u \in Urls, SendUploaded(a, u) PROVE Kept
  <2>1. PICK q \in RequestState : Brings(q) \subseteq {u} /\ requests' = requests \union {q}
    BY <1>5, SendBrings
  <2>2. files' = files /\ doomed' = doomed /\ Pasts' = Pasts
    BY <1>5 DEF SendUploaded, Pasts
  <2>3. u \in files \ (doomed \union Pasts) /\ (\A p \in requests : u \notin Brings(p))
    BY <1>5, SendingIs DEF SendingApart
  <2>4. \A p \in requests' : Brings(p) \intersect Urls \subseteq files' \ (doomed' \union Pasts')
    <3> SUFFICES ASSUME NEW p \in requests'
                 PROVE  Brings(p) \intersect Urls \subseteq files' \ (doomed' \union Pasts')
      OBVIOUS
    <3>1. CASE p = q
      BY <3>1, <2>1, <2>2, <2>3
    <3>2. CASE p \in requests
      BY <3>2, <2>2 DEF BroughtApart
    <3> QED BY <2>1, <3>1, <3>2
  <2>5. \A p, r \in requests' : p # r => Brings(p) \intersect Brings(r) \intersect Urls = {}
    <3> SUFFICES ASSUME NEW p \in requests', NEW r \in requests', p # r
                 PROVE  Brings(p) \intersect Brings(r) \intersect Urls = {}
      OBVIOUS
    <3>1. CASE p \in requests /\ r \in requests
      BY <3>1 DEF BroughtApart
    <3>2. CASE p = q /\ r \in requests
      BY <3>2, <2>1, <2>3
    <3>3. CASE r = q /\ p \in requests
      BY <3>3, <2>1, <2>3
    <3> QED BY <2>1, <3>1, <3>2, <3>3
  <2> QED BY <2>4, <2>5 DEF BroughtApart
<1>6. ASSUME NEW a \in Admins, SendShown(a) PROVE Kept
  <2>1. files' = files /\ doomed' = doomed /\ Pasts' = Pasts
    BY <1>6 DEF SendShown, Pasts
  <2>2. \A q \in requests' : q \in requests \/ Brings(q) \intersect Urls = {}
    <3>1. PICK q \in RequestState : Brings(q) \intersect Urls = {} /\ requests' = requests \union {q}
      BY <1>6, SendBrings
    <3> QED BY <3>1
  <2> QED BY <2>1, <2>2 DEF BroughtApart
<1>7. ASSUME NEW a \in Admins, Dismiss(a) PROVE Kept
  <2>1. /\ files \ doomed \subseteq files' /\ Pasts' = Pasts
        /\ doomed' \subseteq doomed /\ requests' \subseteq requests
    BY <1>7 DEF Dismiss, Pasts
  <2> QED BY <2>1 DEF BroughtApart
<1>8. ASSUME NEW a \in Admins, Answered(a) PROVE Kept
  <2>1. /\ files \ doomed \subseteq files' /\ Pasts' = Pasts
        /\ doomed' \subseteq doomed /\ requests' \subseteq requests
    BY <1>8 DEF Answered, Pasts
  <2> QED BY <2>1 DEF BroughtApart
<1>9. ASSUME NEW q \in requests, CreateRow(q) PROVE Kept
  <2>1. Saves(q) /\ Own(q) /\ RequestKnows(q)
    BY <1>9, SavedKnows
  <2>2. files' = files /\ doomed' \subseteq doomed \union Pasts
    <3>1. q.op # "create" => OnDisk({q.old}) \subseteq Pasts
      BY OldShown
    <3> QED BY <1>9, <3>1 DEF CreateRow, OnDisk
  <2>3. requests' = requests \ {q} /\ Pasts' = Pasts \union {q.pic}
    BY <2>1 DEF Saves
  <2>4. \A p \in requests' : p \in requests /\ q.pic \notin Brings(p) \intersect Urls
    BY <2>1, <2>3, PastsApart DEF Own, Saves, BroughtApart
  <2> QED BY <2>2, <2>3, <2>4 DEF BroughtApart
<1>10. ASSUME NEW q \in requests, UpdateRow(q) PROVE Kept
  <2>1. Saves(q) /\ Own(q) /\ RequestKnows(q)
    BY <1>10, SavedKnows
  <2>2. files' = files /\ doomed' \subseteq doomed \union Pasts
    <3>1. q.op # "create" => OnDisk({q.old}) \subseteq Pasts
      BY OldShown
    <3> QED BY <1>10, <3>1 DEF UpdateRow, OnDisk
  <2>3. requests' = requests \ {q} /\ Pasts' = Pasts \union {q.pic}
    BY <2>1 DEF Saves
  <2>4. \A p \in requests' : p \in requests /\ q.pic \notin Brings(p) \intersect Urls
    BY <2>1, <2>3, PastsApart DEF Own, Saves, BroughtApart
  <2> QED BY <2>2, <2>3, <2>4 DEF BroughtApart
<1>11. ASSUME NEW q \in requests, UpdateMissing(q) PROVE Kept
  <2>1. /\ files \ doomed \subseteq files' /\ Pasts' = Pasts
        /\ doomed' \subseteq doomed /\ requests' \subseteq requests
    BY <1>11 DEF UpdateMissing, Pasts
  <2> QED BY <2>1 DEF BroughtApart
<1>12. ASSUME NEW row \in Rows, StartDelete(row) PROVE Kept
  <2>1. files' = files /\ doomed' = doomed /\ Pasts' = Pasts
    BY <1>12 DEF StartDelete, Pasts
  <2>2. \A q \in requests' : q \in requests \/ Brings(q) = {}
    <3>1. PICK shown :
            requests' = requests \union
              {[op |-> "delete", row |-> row, pic |-> shown, old |-> shown, base |-> shown]}
      BY <1>12 DEF StartDelete
    <3> DEFINE d == [op |-> "delete", row |-> row, pic |-> shown, old |-> shown, base |-> shown]
    <3>2. Brings(d) = {}
      BY DEF Brings
    <3> HIDE DEF d
    <3> QED BY <3>1, <3>2 DEF d
  <2> QED BY <2>1, <2>2 DEF BroughtApart
<1>13. ASSUME NEW q \in requests, DeleteRow(q) PROVE Kept
  <2>1. /\ files' = files /\ requests' \subseteq requests
        /\ Pasts' = Pasts /\ doomed' \subseteq doomed \union Pasts
    BY <1>13, OldShown DEF DeleteRow, Pasts
  <2> QED BY <2>1 DEF BroughtApart
<1>14. ASSUME NEW q \in requests, DeleteMissing(q) PROVE Kept
  <2>1. /\ files \ doomed \subseteq files' /\ Pasts' = Pasts
        /\ doomed' \subseteq doomed /\ requests' \subseteq requests
    BY <1>14 DEF DeleteMissing, Pasts
  <2> QED BY <2>1 DEF BroughtApart
<1>15. ASSUME NEW q \in requests, Fail(q) PROVE Kept
  <2>1. /\ files \ doomed \subseteq files' /\ Pasts' = Pasts
        /\ doomed' \subseteq doomed /\ requests' \subseteq requests
    BY <1>15 DEF Fail, Pasts
  <2> QED BY <2>1 DEF BroughtApart
<1>16. ASSUME NEW u \in doomed, CleanUp(u) PROVE Kept
  <2>1. /\ files \ doomed \subseteq files' /\ Pasts' = Pasts
        /\ doomed' \subseteq doomed /\ requests' \subseteq requests
    BY <1>16 DEF CleanUp, Pasts
  <2> QED BY <2>1 DEF BroughtApart
<1>17. ASSUME NEW u \in doomed, FailCleanUp(u) PROVE Kept
  <2>1. /\ files \ doomed \subseteq files' /\ Pasts' = Pasts
        /\ doomed' \subseteq doomed /\ requests' \subseteq requests
    BY <1>17 DEF FailCleanUp, Pasts
  <2> QED BY <2>1 DEF BroughtApart
<1>u. CASE UNCHANGED vars
  <2>1. /\ files \ doomed \subseteq files' /\ Pasts' = Pasts
        /\ doomed' \subseteq doomed /\ requests' \subseteq requests
    BY <1>u DEF vars, Pasts
  <2> QED BY <2>1 DEF BroughtApart
<1> HIDE DEF Kept
<1> QED
  BY <1>1, <1>2, <1>3, <1>4, <1>5, <1>6, <1>7, <1>8, <1>9,
     <1>10, <1>11, <1>12, <1>13, <1>14, <1>15, <1>16, <1>17, <1>u
  DEF Next, Edit, Serve

\* What a row has shown it has shown for good.
LEMMA PastGrowsStep ==
  ASSUME TypeOK, [Next]_vars
  PROVE  \A r \in Rows : past[r] \subseteq past'[r]
<1> DEFINE Kept == \A r \in Rows : past[r] \subseteq past'[r]
<1> SUFFICES Kept
  OBVIOUS
<1>1. ASSUME NEW q \in requests, CreateRow(q) PROVE Kept
  BY <1>1, SaveIs DEF Saves
<1>2. ASSUME NEW q \in requests, UpdateRow(q) PROVE Kept
  BY <1>2, SaveIs DEF Saves
<1> USE DEF TypeOK
<1>3. ASSUME NEW a \in Admins, NEW row \in Rows \union Blank, Open(a, row) PROVE Kept
  BY <1>3 DEF Open
<1>4. ASSUME NEW a \in Admins, Clear(a) PROVE Kept
  BY <1>4 DEF Clear
<1>5. ASSUME NEW a \in Admins, NEW u \in Urls, Upload(a, u) PROVE Kept
  BY <1>5 DEF Upload
<1>6. ASSUME NEW a \in Admins, NEW u \in Urls, LoseUpload(a, u) PROVE Kept
  BY <1>6 DEF LoseUpload
<1>7. ASSUME NEW a \in Admins, NEW u \in Urls, SendUploaded(a, u) PROVE Kept
  BY <1>7 DEF SendUploaded, Send, Request, OldPicture
<1>8. ASSUME NEW a \in Admins, SendShown(a) PROVE Kept
  BY <1>8 DEF SendShown, Send, Request, OldPicture
<1>9. ASSUME NEW a \in Admins, Dismiss(a) PROVE Kept
  BY <1>9 DEF Dismiss
<1>10. ASSUME NEW a \in Admins, Answered(a) PROVE Kept
  BY <1>10 DEF Answered
<1>11. ASSUME NEW q \in requests, UpdateMissing(q) PROVE Kept
  BY <1>11 DEF UpdateMissing
<1>12. ASSUME NEW row \in Rows, StartDelete(row) PROVE Kept
  BY <1>12 DEF StartDelete
<1>13. ASSUME NEW q \in requests, DeleteRow(q) PROVE Kept
  BY <1>13 DEF DeleteRow
<1>14. ASSUME NEW q \in requests, DeleteMissing(q) PROVE Kept
  BY <1>14 DEF DeleteMissing
<1>15. ASSUME NEW q \in requests, Fail(q) PROVE Kept
  BY <1>15 DEF Fail
<1>16. ASSUME NEW u \in doomed, CleanUp(u) PROVE Kept
  BY <1>16 DEF CleanUp
<1>17. ASSUME NEW u \in doomed, FailCleanUp(u) PROVE Kept
  BY <1>17 DEF FailCleanUp
<1>u. CASE UNCHANGED vars
  BY <1>u DEF vars
<1> HIDE DEF Kept
<1> QED
  BY <1>1, <1>2, <1>3, <1>4, <1>5, <1>6, <1>7, <1>8, <1>9,
     <1>10, <1>11, <1>12, <1>13, <1>14, <1>15, <1>16, <1>17, <1>u
  DEF Next, Edit, Serve

\* A form was opened with a picture whose name is taken.
LEMMA BaseUsed ==
  ASSUME PastApart, NEW b \in Admins, FormKnows(form[b]), form[b] \in FormState
  PROVE  form[b].base \in Urls => form[b].base \in used
<1>1. form[b].row \in Rows \/ form[b].base = None
  BY DEF FormState, FormKnows
<1> QED BY <1>1 DEF FormKnows, PastApart, Blank

\* A form nobody touches goes on knowing what it knows.
LEMMA FormKept ==
  ASSUME TypeOK, PastApart, FormsKnow, [Next]_vars, NEW b \in Admins, form'[b] = form[b], IsOpen(b)
  PROVE  FormKnows(form[b])'
<1>1. FormKnows(form[b]) /\ form[b] \in FormState
  BY OpenIs DEF FormsKnow
<1>2. \A r \in Rows : past[r] \subseteq past'[r]
  BY PastGrowsStep
<1>3. form[b].base \in Urls => form[b].base \in used
  BY <1>1, BaseUsed
<1>4. form[b].base \in Urls /\ Settled(form[b].base) /\ form[b].base \in files' =>
        form[b].base \in doomed' \union lost'
  BY <1>3, SettledStep DEF Settled
<1>5. form[b].row \in Rows \union Blank
  BY <1>1 DEF FormState
<1> QED BY <1>1, <1>2, <1>4, <1>5 DEF FormKnows, Settled

\* What a form shows and has cleared is what it was opened with.
LEMMA FormsStep ==
  ASSUME TypeOK, PastApart, PastSettled, FormsKnow, [Next]_vars
  PROVE  FormsKnow'
<1> DEFINE Kept == FormsKnow'
<1> SUFFICES Kept
  OBVIOUS
<1>1. ASSUME NEW a \in Admins, NEW row \in Rows \union Blank, Open(a, row) PROVE Kept
  <2>1. FormKnows(form[a])'
    <3>1. PICK shown \in Pictures :
            /\ IF row \in Blank THEN shown = None ELSE shown \in past[row]
            /\ form' = [form EXCEPT ![a] = Fresh(row, shown)]
      BY <1>1, OpenStep
    <3>2. form'[a] = Fresh(row, shown) /\ past' = past
      BY <1>1, <3>1 DEF TypeOK, Open
    <3>3. /\ Fresh(row, shown).row = row /\ Fresh(row, shown).base = shown /\ Fresh(row, shown).pic = shown
          /\ Fresh(row, shown).removed = None /\ ~Fresh(row, shown).saving
      BY DEF Fresh
    <3> QED BY <3>1, <3>2, <3>3 DEF FormKnows
  <2>2. \A b \in Admins \ {a} : IsOpen(b)' => FormKnows(form[b])'
    BY <1>1, Others, FormKept DEF Edit, IsOpen
  <2> QED BY <2>1, <2>2 DEF FormsKnow
<1>2. ASSUME NEW a \in Admins, Clear(a) PROVE Kept
  <2>1. FormKnows(form[a])'
    <3>1. Changed(form[a], form'[a], None, form[a].pic, form[a].staged, form[a].sending, form[a].saving)
      BY <1>2, ClearStep
    <3>2. form[a].pic # None /\ past' = past /\ FormKnows(form[a])
      BY <1>2 DEF Clear, FormsKnow
    <3> QED BY <3>1, <3>2 DEF FormKnows, Changed
  <2>2. \A b \in Admins \ {a} : IsOpen(b)' => FormKnows(form[b])'
    BY <1>2, Others, FormKept DEF Edit, IsOpen
  <2> QED BY <2>1, <2>2 DEF FormsKnow
<1>3. ASSUME NEW a \in Admins, NEW u \in Urls, Upload(a, u) PROVE Kept
  <2>1. FormKnows(form[a])'
    <3>1. /\ form'[a].row = form[a].row /\ form'[a].base = form[a].base
          /\ form'[a].pic = form[a].pic /\ form'[a].removed = form[a].removed
          /\ form'[a].saving => form[a].saving \/ form[a].row = Store
      BY <1>3, UploadStep DEF Changed
    <3>2. past' = past /\ IsOpen(a) /\ FormKnows(form[a]) /\ form[a] \in FormState
      BY <1>3, OpenIs DEF Upload, FormsKnow
    <3>3. form[a].base \in Urls => form[a].base \in used
      BY <3>2, BaseUsed
    <3>4. form[a].base \in Urls /\ Settled(form[a].base) /\ form[a].base \in files' =>
            form[a].base \in doomed' \union lost'
      BY <3>3, SettledStep DEF Settled
    <3> QED BY <3>1, <3>2, <3>4 DEF FormKnows, Settled
  <2>2. \A b \in Admins \ {a} : IsOpen(b)' => FormKnows(form[b])'
    BY <1>3, Others, FormKept DEF Edit, IsOpen
  <2> QED BY <2>1, <2>2 DEF FormsKnow
<1>4. ASSUME NEW a \in Admins, NEW u \in Urls, LoseUpload(a, u) PROVE Kept
  <2>1. FormKnows(form[a])'
    <3>1. /\ form'[a].row = form[a].row /\ form'[a].base = form[a].base
          /\ form'[a].pic = form[a].pic /\ form'[a].removed = form[a].removed
          /\ form'[a].saving => form[a].saving \/ form[a].row = Store
      BY <1>4, LoseUploadStep DEF Changed
    <3>2. past' = past /\ IsOpen(a) /\ FormKnows(form[a]) /\ form[a] \in FormState
      BY <1>4, OpenIs DEF LoseUpload, FormsKnow
    <3>3. form[a].base \in Urls => form[a].base \in used
      BY <3>2, BaseUsed
    <3>4. form[a].base \in Urls /\ Settled(form[a].base) /\ form[a].base \in files' =>
            form[a].base \in doomed' \union lost'
      BY <3>3, SettledStep DEF Settled
    <3> QED BY <3>1, <3>2, <3>4 DEF FormKnows, Settled
  <2>2. \A b \in Admins \ {a} : IsOpen(b)' => FormKnows(form[b])'
    BY <1>4, Others, FormKept DEF Edit, IsOpen
  <2> QED BY <2>1, <2>2 DEF FormsKnow
<1>5. ASSUME NEW a \in Admins, NEW u \in Urls, SendUploaded(a, u) PROVE Kept
  <2>1. FormKnows(form[a])'
    <3>1. /\ form'[a].row = form[a].row /\ form'[a].base = form[a].base
          /\ form'[a].pic = form[a].pic /\ form'[a].removed = form[a].removed
          /\ form'[a].saving => form[a].saving \/ form[a].row = Store
      BY <1>5, SendUploadedStep DEF Changed
    <3>2. past' = past /\ IsOpen(a) /\ FormKnows(form[a]) /\ form[a] \in FormState
      BY <1>5, OpenIs DEF SendUploaded, FormsKnow
    <3>3. form[a].base \in Urls => form[a].base \in used
      BY <3>2, BaseUsed
    <3>4. form[a].base \in Urls /\ Settled(form[a].base) /\ form[a].base \in files' =>
            form[a].base \in doomed' \union lost'
      BY <3>3, SettledStep DEF Settled
    <3> QED BY <3>1, <3>2, <3>4 DEF FormKnows, Settled
  <2>2. \A b \in Admins \ {a} : IsOpen(b)' => FormKnows(form[b])'
    BY <1>5, Others, FormKept DEF Edit, IsOpen
  <2> QED BY <2>1, <2>2 DEF FormsKnow
<1>6. ASSUME NEW a \in Admins, SendShown(a) PROVE Kept
  <2>1. FormKnows(form[a])'
    <3>1. /\ form'[a].row = form[a].row /\ form'[a].base = form[a].base
          /\ form'[a].pic = form[a].pic /\ form'[a].removed = form[a].removed
          /\ form'[a].saving => form[a].saving \/ form[a].row = Store
      BY <1>6, SendShownStep DEF Changed
    <3>2. past' = past /\ IsOpen(a) /\ FormKnows(form[a]) /\ form[a] \in FormState
      BY <1>6, OpenIs DEF SendShown, FormsKnow
    <3>3. form[a].base \in Urls => form[a].base \in used
      BY <3>2, BaseUsed
    <3>4. form[a].base \in Urls /\ Settled(form[a].base) /\ form[a].base \in files' =>
            form[a].base \in doomed' \union lost'
      BY <3>3, SettledStep DEF Settled
    <3> QED BY <3>1, <3>2, <3>4 DEF FormKnows, Settled
  <2>2. \A b \in Admins \ {a} : IsOpen(b)' => FormKnows(form[b])'
    BY <1>6, Others, FormKept DEF Edit, IsOpen
  <2> QED BY <2>1, <2>2 DEF FormsKnow
<1>7. ASSUME NEW a \in Admins, Dismiss(a) PROVE Kept
  <2>1. ~IsOpen(a)'
    BY <1>7, DismissStep DEF IsOpen
  <2>2. \A b \in Admins \ {a} : IsOpen(b)' => FormKnows(form[b])'
    BY <1>7, Others, FormKept DEF Edit, IsOpen
  <2> QED BY <2>1, <2>2 DEF FormsKnow
<1>8. ASSUME NEW a \in Admins, Answered(a) PROVE Kept
  <2>1. FormKnows(form[a])'
    <3>1. Changed(form[a], form'[a], form[a].pic, None, form[a].staged, form[a].sending, FALSE)
      BY <1>8, AnsweredStep
    <3>2. past' = past /\ form[a].saving /\ FormKnows(form[a]) /\ form[a] \in FormState
      BY <1>8, OpenIs DEF Answered, FormsKnow
    <3>3. form[a].row = Store /\ form[a].base \in past[Store] /\ Store \in Rows
      BY <3>2 DEF FormKnows, Blank, Rows
    <3>4. form[a].base \in Urls /\ form[a].pic = None /\ form[a].base \in files' =>
            form[a].base \in doomed' \union lost'
      <4> SUFFICES ASSUME form[a].base \in Urls, form[a].pic = None, form[a].base \in files'
                   PROVE  form[a].base \in doomed' \union lost'
        OBVIOUS
      <4>1. files' = files /\ doomed' = doomed
            /\ lost' = lost \union ({form[a].removed} \intersect {image[Store]} \intersect Urls)
        BY <1>8 DEF Answered
      <4>2. CASE form[a].removed = None
        BY <4>1, <4>2, <3>2 DEF FormKnows, Settled
      <4>3. CASE form[a].removed # None
        <5>1. form[a].removed = form[a].base
          BY <4>3, <3>2 DEF FormKnows
        <5>2. Settled(form[a].base) \/ image[Store] = form[a].base
          BY <3>3 DEF PastSettled
        <5> QED BY <4>1, <5>1, <5>2 DEF Settled
      <4> QED BY <4>2, <4>3
    <3> QED BY <3>1, <3>2, <3>3, <3>4 DEF FormKnows, Changed, Settled
  <2>2. \A b \in Admins \ {a} : IsOpen(b)' => FormKnows(form[b])'
    BY <1>8, Others, FormKept DEF Edit, IsOpen
  <2> QED BY <2>1, <2>2 DEF FormsKnow
<1>9. ASSUME NEW q \in requests, CreateRow(q) PROVE Kept
  <2>1. form' = form
    BY <1>9 DEF CreateRow
  <2> QED BY <2>1, FormKept DEF FormsKnow, IsOpen
<1>10. ASSUME NEW q \in requests, UpdateRow(q) PROVE Kept
  <2>1. form' = form
    BY <1>10 DEF UpdateRow
  <2> QED BY <2>1, FormKept DEF FormsKnow, IsOpen
<1>11. ASSUME NEW q \in requests, UpdateMissing(q) PROVE Kept
  <2>1. form' = form
    BY <1>11 DEF UpdateMissing
  <2> QED BY <2>1, FormKept DEF FormsKnow, IsOpen
<1>12. ASSUME NEW row \in Rows, StartDelete(row) PROVE Kept
  <2>1. form' = form
    BY <1>12 DEF StartDelete
  <2> QED BY <2>1, FormKept DEF FormsKnow, IsOpen
<1>13. ASSUME NEW q \in requests, DeleteRow(q) PROVE Kept
  <2>1. form' = form
    BY <1>13 DEF DeleteRow
  <2> QED BY <2>1, FormKept DEF FormsKnow, IsOpen
<1>14. ASSUME NEW q \in requests, DeleteMissing(q) PROVE Kept
  <2>1. form' = form
    BY <1>14 DEF DeleteMissing
  <2> QED BY <2>1, FormKept DEF FormsKnow, IsOpen
<1>15. ASSUME NEW q \in requests, Fail(q) PROVE Kept
  <2>1. form' = form
    BY <1>15 DEF Fail
  <2> QED BY <2>1, FormKept DEF FormsKnow, IsOpen
<1>16. ASSUME NEW u \in doomed, CleanUp(u) PROVE Kept
  <2>1. form' = form
    BY <1>16 DEF CleanUp
  <2> QED BY <2>1, FormKept DEF FormsKnow, IsOpen
<1>17. ASSUME NEW u \in doomed, FailCleanUp(u) PROVE Kept
  <2>1. form' = form
    BY <1>17 DEF FailCleanUp
  <2> QED BY <2>1, FormKept DEF FormsKnow, IsOpen
<1>u. CASE UNCHANGED vars
  <2>1. form' = form
    BY <1>u DEF vars
  <2> QED BY <2>1, FormKept DEF FormsKnow, IsOpen
<1> HIDE DEF Kept
<1> QED
  BY <1>1, <1>2, <1>3, <1>4, <1>5, <1>6, <1>7, <1>8, <1>9,
     <1>10, <1>11, <1>12, <1>13, <1>14, <1>15, <1>16, <1>17, <1>u
  DEF Next, Edit, Serve

\* A name given out is never given out again.
LEMMA UsedGrowsStep ==
  ASSUME TypeOK, [Next]_vars
  PROVE  used \subseteq used'
<1> DEFINE Kept == used \subseteq used'
<1> SUFFICES Kept
  OBVIOUS
<1> USE DEF TypeOK
<1>1. ASSUME NEW a \in Admins, NEW row \in Rows \union Blank, Open(a, row) PROVE Kept
  BY <1>1 DEF Open
<1>2. ASSUME NEW a \in Admins, Clear(a) PROVE Kept
  BY <1>2 DEF Clear
<1>3. ASSUME NEW a \in Admins, NEW u \in Urls, Upload(a, u) PROVE Kept
  BY <1>3 DEF Upload
<1>4. ASSUME NEW a \in Admins, NEW u \in Urls, LoseUpload(a, u) PROVE Kept
  BY <1>4 DEF LoseUpload
<1>5. ASSUME NEW a \in Admins, NEW u \in Urls, SendUploaded(a, u) PROVE Kept
  BY <1>5 DEF SendUploaded, Send, Request, OldPicture
<1>6. ASSUME NEW a \in Admins, SendShown(a) PROVE Kept
  BY <1>6 DEF SendShown, Send, Request, OldPicture
<1>7. ASSUME NEW a \in Admins, Dismiss(a) PROVE Kept
  BY <1>7 DEF Dismiss
<1>8. ASSUME NEW a \in Admins, Answered(a) PROVE Kept
  BY <1>8 DEF Answered
<1>9. ASSUME NEW q \in requests, CreateRow(q) PROVE Kept
  BY <1>9 DEF CreateRow
<1>10. ASSUME NEW q \in requests, UpdateRow(q) PROVE Kept
  BY <1>10 DEF UpdateRow
<1>11. ASSUME NEW q \in requests, UpdateMissing(q) PROVE Kept
  BY <1>11 DEF UpdateMissing
<1>12. ASSUME NEW row \in Rows, StartDelete(row) PROVE Kept
  BY <1>12 DEF StartDelete
<1>13. ASSUME NEW q \in requests, DeleteRow(q) PROVE Kept
  BY <1>13 DEF DeleteRow
<1>14. ASSUME NEW q \in requests, DeleteMissing(q) PROVE Kept
  BY <1>14 DEF DeleteMissing
<1>15. ASSUME NEW q \in requests, Fail(q) PROVE Kept
  BY <1>15 DEF Fail
<1>16. ASSUME NEW u \in doomed, CleanUp(u) PROVE Kept
  BY <1>16 DEF CleanUp
<1>17. ASSUME NEW u \in doomed, FailCleanUp(u) PROVE Kept
  BY <1>17 DEF FailCleanUp
<1>u. CASE UNCHANGED vars
  BY <1>u DEF vars
<1> HIDE DEF Kept
<1> QED
  BY <1>1, <1>2, <1>3, <1>4, <1>5, <1>6, <1>7, <1>8, <1>9,
     <1>10, <1>11, <1>12, <1>13, <1>14, <1>15, <1>16, <1>17, <1>u
  DEF Next, Edit, Serve

\* A request under way goes on knowing what it knows, unless its new row does.
LEMMA RequestKept ==
  ASSUME TypeOK, PastApart, RequestsKnow, [Next]_vars, NEW q \in requests,
         q.op = "create" => past'[q.row] = {} /\ (\A p \in requests' : p.row = q.row => p = q)
  PROVE  RequestKnows(q)'
<1>1. RequestKnows(q) /\ q \in RequestState /\ q.row \in Rows
  BY DEF RequestsKnow, TypeOK, RequestState
<1>2. past[q.row] \subseteq past'[q.row]
  BY <1>1, PastGrowsStep
<1>3. used \subseteq used'
  BY UsedGrowsStep
<1>4. q.base \in past[q.row] /\ q.base \in Urls /\ Settled(q.base) => Settled(q.base)'
  BY <1>1, SettledStep DEF PastApart
<1>5. CASE q.op = "create"
  BY <1>1, <1>3, <1>5 DEF RequestKnows
<1>6. CASE q.op = "update"
  BY <1>1, <1>2, <1>4, <1>6 DEF RequestKnows
<1>7. CASE q.op = "delete"
  BY <1>1, <1>2, <1>7 DEF RequestKnows
<1> QED BY <1>1, <1>5, <1>6, <1>7 DEF RequestState

\* Every request is about a row whose id has been given out.
LEMMA RowTaken ==
  ASSUME TypeOK, PastApart, RequestsKnow, NEW q \in requests
  PROVE  /\ q.row \in used \union {Store}
         /\ q.op = "create" => past[q.row] = {} /\ q.row \in used
                               /\ (\A p \in requests : p.row = q.row => p = q)
<1>1. RequestKnows(q) /\ q.op \in {"create", "update", "delete"} /\ q.row \in Rows
  BY DEF RequestsKnow, TypeOK, RequestState
<1>2. q.op = "create" => past[q.row] = {} /\ q.row \in used /\ (\A p \in requests : p.row = q.row => p = q)
  BY <1>1 DEF RequestKnows
<1>3. q.op # "create" => past[q.row] # {}
  BY <1>1 DEF RequestKnows
<1> QED BY <1>1, <1>2, <1>3 DEF PastApart

\* What the request of a save knows, from the form it was sent by.
LEMMA SentKnows ==
  ASSUME TypeOK, PastApart, FormsKnow, NEW a \in Admins, IsOpen(a),
         NEW STATE pic, pic \in Urls \union {form[a].pic},
         NEW q \in RequestState, Sends(q, a, pic),
         requests' = requests \union {q}, used' = used \union {q.row}, past' = past,
         files' = files, doomed' = doomed, lost' = lost, RequestsKnow
  PROVE  RequestKnows(q)' /\ (\A p \in requests : p.op = "create" /\ p.row = q.row => p = q)
<1>1. form[a] \in FormState /\ FormKnows(form[a])
  BY OpenIs DEF FormsKnow
<1>2. CASE form[a].row \in Blank
  <2>1. q.op = "create" /\ q.base = None /\ q.row \in (Banners \union Articles) \ used /\ q.pic = pic
    BY <1>1, <1>2 DEF Sends, IdsFor, FormKnows
  <2>2. q.row # Store /\ q.row \in Rows
    BY <2>1 DEF Rows
  <2>3. past[q.row] = {} /\ (\A p \in requests : p.row # q.row)
    BY <2>1, <2>2, RowTaken DEF PastApart
  <2>4. q.pic \in {None} \union Urls
    BY <1>1, <2>1, <1>2 DEF FormKnows
  <2> QED BY <2>1, <2>2, <2>3, <2>4 DEF RequestKnows
<1>3. CASE form[a].row \notin Blank
  <2>1. q.op = "update" /\ q.base = form[a].base /\ q.row = form[a].row /\ q.pic = pic
        /\ q.old = OldPicture(form[a], pic)
    BY <1>3 DEF Sends
  <2>2. q.base \in past[q.row]
    BY <1>1, <1>3, <2>1 DEF FormKnows
  <2>3. q.old \in {q.base, None}
    BY <1>1, <2>1 DEF FormKnows, OldPicture
  <2>4. q.base \in Urls /\ q.pic # q.base => q.old = q.base \/ Settled(q.base)
    BY <1>1, <2>1 DEF FormKnows, OldPicture
  <2>5. q.pic \in {q.base, None} \union Urls
    BY <1>1, <2>1 DEF FormKnows
  <2>6. \A p \in requests : p.op = "create" => p.row # q.row
    BY <2>2, RowTaken
  <2> QED BY <2>1, <2>2, <2>3, <2>4, <2>5, <2>6 DEF RequestKnows, Settled
<1> QED BY <1>2, <1>3

\* A request names the picture it replaces, and a new row has one request.
LEMMA RequestsStep ==
  ASSUME TypeOK, PastApart, BroughtApart, FormsKnow, RequestsKnow, [Next]_vars
  PROVE  RequestsKnow'
<1> DEFINE Kept == RequestsKnow'
<1> SUFFICES Kept
  OBVIOUS
<1>1. ASSUME NEW a \in Admins, NEW row \in Rows \union Blank, Open(a, row) PROVE Kept
  <2>1. requests' \subseteq requests /\ past' = past
    BY <1>1 DEF Open
  <2>2. \A p \in requests' : RequestKnows(p)'
    BY <2>1, RowTaken, RequestKept
  <2> QED BY <2>2 DEF RequestsKnow
<1>2. ASSUME NEW a \in Admins, Clear(a) PROVE Kept
  <2>1. requests' \subseteq requests /\ past' = past
    BY <1>2 DEF Clear
  <2>2. \A p \in requests' : RequestKnows(p)'
    BY <2>1, RowTaken, RequestKept
  <2> QED BY <2>2 DEF RequestsKnow
<1>3. ASSUME NEW a \in Admins, NEW u \in Urls, Upload(a, u) PROVE Kept
  <2>1. requests' \subseteq requests /\ past' = past
    BY <1>3 DEF Upload
  <2>2. \A p \in requests' : RequestKnows(p)'
    BY <2>1, RowTaken, RequestKept
  <2> QED BY <2>2 DEF RequestsKnow
<1>4. ASSUME NEW a \in Admins, NEW u \in Urls, LoseUpload(a, u) PROVE Kept
  <2>1. requests' \subseteq requests /\ past' = past
    BY <1>4 DEF LoseUpload
  <2>2. \A p \in requests' : RequestKnows(p)'
    BY <2>1, RowTaken, RequestKept
  <2> QED BY <2>2 DEF RequestsKnow
<1>5. ASSUME NEW a \in Admins, NEW u \in Urls, SendUploaded(a, u) PROVE Kept
  <2>1. PICK q \in RequestState :
          Sends(q, a, u) /\ requests' = requests \union {q} /\ used' = used \union {q.row}
    BY <1>5, SendIs
  <2>2. past' = past /\ files' = files /\ doomed' = doomed /\ lost' = lost /\ IsOpen(a)
    BY <1>5 DEF SendUploaded
  <2>3. RequestKnows(q)' /\ (\A p \in requests : p.op = "create" /\ p.row = q.row => p = q)
    BY <2>1, <2>2, SentKnows
  <2>4. \A p \in requests : RequestKnows(p)'
    BY <2>1, <2>2, <2>3, RowTaken, RequestKept
  <2> QED BY <2>1, <2>3, <2>4 DEF RequestsKnow
<1>6. ASSUME NEW a \in Admins, SendShown(a) PROVE Kept
  <2>1. PICK q \in RequestState :
          Sends(q, a, form[a].pic) /\ requests' = requests \union {q} /\ used' = used \union {q.row}
    BY <1>6, SendIs
  <2>2. past' = past /\ files' = files /\ doomed' = doomed /\ lost' = lost /\ IsOpen(a)
    BY <1>6 DEF SendShown
  <2>3. RequestKnows(q)' /\ (\A p \in requests : p.op = "create" /\ p.row = q.row => p = q)
    BY <2>1, <2>2, SentKnows
  <2>4. \A p \in requests : RequestKnows(p)'
    BY <2>1, <2>2, <2>3, RowTaken, RequestKept
  <2> QED BY <2>1, <2>3, <2>4 DEF RequestsKnow
<1>7. ASSUME NEW a \in Admins, Dismiss(a) PROVE Kept
  <2>1. requests' \subseteq requests /\ past' = past
    BY <1>7 DEF Dismiss
  <2>2. \A p \in requests' : RequestKnows(p)'
    BY <2>1, RowTaken, RequestKept
  <2> QED BY <2>2 DEF RequestsKnow
<1>8. ASSUME NEW a \in Admins, Answered(a) PROVE Kept
  <2>1. requests' \subseteq requests /\ past' = past
    BY <1>8 DEF Answered
  <2>2. \A p \in requests' : RequestKnows(p)'
    BY <2>1, RowTaken, RequestKept
  <2> QED BY <2>2 DEF RequestsKnow
<1>9. ASSUME NEW q \in requests, CreateRow(q) PROVE Kept
  <2>1. Saves(q) /\ RequestKnows(q)
    BY <1>9, SavedKnows
  <2>2. requests' = requests \ {q} /\ (\A r \in Rows \ {q.row} : past'[r] = past[r])
    BY <2>1 DEF Saves
  <2>3. \A p \in requests' : p.op = "create" => p.row \in Rows \ {q.row} /\ past[p.row] = {}
    BY <2>2, RowTaken DEF TypeOK, RequestState
  <2>4. \A p \in requests' : RequestKnows(p)'
    BY <2>2, <2>3, RowTaken, RequestKept
  <2> QED BY <2>4 DEF RequestsKnow
<1>10. ASSUME NEW q \in requests, UpdateRow(q) PROVE Kept
  <2>1. Saves(q) /\ RequestKnows(q)
    BY <1>10, SavedKnows
  <2>2. requests' = requests \ {q} /\ (\A r \in Rows \ {q.row} : past'[r] = past[r])
    BY <2>1 DEF Saves
  <2>3. \A p \in requests' : p.op = "create" => p.row \in Rows \ {q.row} /\ past[p.row] = {}
    BY <2>2, RowTaken DEF TypeOK, RequestState
  <2>4. \A p \in requests' : RequestKnows(p)'
    BY <2>2, <2>3, RowTaken, RequestKept
  <2> QED BY <2>4 DEF RequestsKnow
<1>11. ASSUME NEW q \in requests, UpdateMissing(q) PROVE Kept
  <2>1. requests' \subseteq requests /\ past' = past
    BY <1>11 DEF UpdateMissing
  <2>2. \A p \in requests' : RequestKnows(p)'
    BY <2>1, RowTaken, RequestKept
  <2> QED BY <2>2 DEF RequestsKnow
<1>12. ASSUME NEW row \in Rows, StartDelete(row) PROVE Kept
  <2>1. PICK shown \in {None} \union (IF row \in DOMAIN image THEN {image[row]} ELSE {}) :
          requests' = requests \union
            {[op |-> "delete", row |-> row, pic |-> shown, old |-> shown, base |-> shown]}
    BY <1>12 DEF StartDelete
  <2> DEFINE q == [op |-> "delete", row |-> row, pic |-> shown, old |-> shown, base |-> shown]
  <2>2. q.op = "delete" /\ q.row = row /\ q.pic = shown /\ q.old = shown /\ q.base = shown
    OBVIOUS
  <2>3. requests' = requests \union {q} /\ past' = past /\ past[row] # {}
    BY <1>12, <2>1 DEF StartDelete
  <2> HIDE DEF q
  <2>4. shown \in past[row] \union {None}
    BY <2>1 DEF PastApart
  <2>5. RequestKnows(q)'
    BY <2>2, <2>3, <2>4 DEF RequestKnows
  <2>6. \A p \in requests : RequestKnows(p)'
    <3>1. \A p \in requests : p.op = "create" => p.row # q.row
      BY <2>2, <2>3, RowTaken
    <3> QED BY <2>3, <3>1, RowTaken, RequestKept
  <2> QED BY <2>3, <2>5, <2>6 DEF RequestsKnow
<1>13. ASSUME NEW q \in requests, DeleteRow(q) PROVE Kept
  <2>1. requests' \subseteq requests /\ past' = past
    BY <1>13 DEF DeleteRow
  <2>2. \A p \in requests' : RequestKnows(p)'
    BY <2>1, RowTaken, RequestKept
  <2> QED BY <2>2 DEF RequestsKnow
<1>14. ASSUME NEW q \in requests, DeleteMissing(q) PROVE Kept
  <2>1. requests' \subseteq requests /\ past' = past
    BY <1>14 DEF DeleteMissing
  <2>2. \A p \in requests' : RequestKnows(p)'
    BY <2>1, RowTaken, RequestKept
  <2> QED BY <2>2 DEF RequestsKnow
<1>15. ASSUME NEW q \in requests, Fail(q) PROVE Kept
  <2>1. requests' \subseteq requests /\ past' = past
    BY <1>15 DEF Fail
  <2>2. \A p \in requests' : RequestKnows(p)'
    BY <2>1, RowTaken, RequestKept
  <2> QED BY <2>2 DEF RequestsKnow
<1>16. ASSUME NEW u \in doomed, CleanUp(u) PROVE Kept
  <2>1. requests' \subseteq requests /\ past' = past
    BY <1>16 DEF CleanUp
  <2>2. \A p \in requests' : RequestKnows(p)'
    BY <2>1, RowTaken, RequestKept
  <2> QED BY <2>2 DEF RequestsKnow
<1>17. ASSUME NEW u \in doomed, FailCleanUp(u) PROVE Kept
  <2>1. requests' \subseteq requests /\ past' = past
    BY <1>17 DEF FailCleanUp
  <2>2. \A p \in requests' : RequestKnows(p)'
    BY <2>1, RowTaken, RequestKept
  <2> QED BY <2>2 DEF RequestsKnow
<1>u. CASE UNCHANGED vars
  <2>1. requests' \subseteq requests /\ past' = past
    BY <1>u DEF vars
  <2>2. \A p \in requests' : RequestKnows(p)'
    BY <2>1, RowTaken, RequestKept
  <2> QED BY <2>2 DEF RequestsKnow
<1> HIDE DEF Kept
<1> QED
  BY <1>1, <1>2, <1>3, <1>4, <1>5, <1>6, <1>7, <1>8, <1>9,
     <1>10, <1>11, <1>12, <1>13, <1>14, <1>15, <1>16, <1>17, <1>u
  DEF Next, Edit, Serve

-----------------------------------------------------------------------------
(* What is shown, removed and lost                                         *)

\* What a row shows is not taken off the disk, unless a stale save marred the row.
LEMMA ShownStep ==
  ASSUME TypeOK, PastApart, BroughtApart, RequestsKnow, ShownKept, [Next]_vars
  PROVE  ShownKept'
<1> DEFINE Kept == ShownKept'
<1> SUFFICES Kept
  OBVIOUS
<1>1. ASSUME NEW a \in Admins, NEW row \in Rows \union Blank, Open(a, row) PROVE Kept
  <2>1. files \ doomed \subseteq files' /\ doomed' \subseteq doomed /\ image' = image /\ marred' = marred
    BY <1>1 DEF Open
  <2> QED BY <2>1 DEF ShownKept
<1>2. ASSUME NEW a \in Admins, Clear(a) PROVE Kept
  <2>1. files \ doomed \subseteq files' /\ doomed' \subseteq doomed /\ image' = image /\ marred' = marred
    BY <1>2 DEF Clear
  <2> QED BY <2>1 DEF ShownKept
<1>3. ASSUME NEW a \in Admins, NEW u \in Urls, Upload(a, u) PROVE Kept
  <2>1. files \ doomed \subseteq files' /\ doomed' \subseteq doomed /\ image' = image /\ marred' = marred
    BY <1>3 DEF Upload
  <2> QED BY <2>1 DEF ShownKept
<1>4. ASSUME NEW a \in Admins, NEW u \in Urls, LoseUpload(a, u) PROVE Kept
  <2>1. files \ doomed \subseteq files' /\ doomed' \subseteq doomed /\ image' = image /\ marred' = marred
    BY <1>4 DEF LoseUpload
  <2> QED BY <2>1 DEF ShownKept
<1>5. ASSUME NEW a \in Admins, NEW u \in Urls, SendUploaded(a, u) PROVE Kept
  <2>1. files \ doomed \subseteq files' /\ doomed' \subseteq doomed /\ image' = image /\ marred' = marred
    BY <1>5 DEF SendUploaded, Send
  <2> QED BY <2>1 DEF ShownKept
<1>6. ASSUME NEW a \in Admins, SendShown(a) PROVE Kept
  <2>1. files \ doomed \subseteq files' /\ doomed' \subseteq doomed /\ image' = image /\ marred' = marred
    BY <1>6 DEF SendShown, Send
  <2> QED BY <2>1 DEF ShownKept
<1>7. ASSUME NEW a \in Admins, Dismiss(a) PROVE Kept
  <2>1. files \ doomed \subseteq files' /\ doomed' \subseteq doomed /\ image' = image /\ marred' = marred
    BY <1>7 DEF Dismiss
  <2> QED BY <2>1 DEF ShownKept
<1>8. ASSUME NEW a \in Admins, Answered(a) PROVE Kept
  <2>1. files \ doomed \subseteq files' /\ doomed' \subseteq doomed /\ image' = image /\ marred' = marred
    BY <1>8 DEF Answered
  <2> QED BY <2>1 DEF ShownKept
<1>9. ASSUME NEW q \in requests, CreateRow(q) PROVE Kept
  <2>1. Saves(q) /\ Own(q) /\ RequestKnows(q) /\ q.row \in Rows
    BY <1>9, SavedKnows DEF Saves
  <2>2. DOMAIN image' = DOMAIN image \union {q.row}
        /\ (\A r \in DOMAIN image' : image'[r] = IF r = q.row THEN q.pic ELSE image[r])
    BY <2>1 DEF Saves
  <2>3. files' = files /\ doomed' = doomed /\ marred' = marred /\ past[q.row] = {} /\ q.op = "create"
    BY <1>9, <2>1 DEF CreateRow, RequestKnows
  <2>4. q.pic \in Urls => q.pic \in files' \ doomed'
    BY <2>1, <2>3 DEF Own
  <2> QED BY <2>2, <2>3, <2>4 DEF ShownKept
<1>10. ASSUME NEW q \in requests, UpdateRow(q) PROVE Kept
  <2>1. Saves(q) /\ Own(q) /\ RequestKnows(q) /\ q.row \in Rows
    BY <1>10, SavedKnows DEF Saves
  <2>2. DOMAIN image' = DOMAIN image \union {q.row}
        /\ (\A r \in DOMAIN image' : image'[r] = IF r = q.row THEN q.pic ELSE image[r])
    BY <2>1 DEF Saves
  <2>3. /\ q.op = "update" /\ files' = files /\ doomed' = doomed \union OnDisk({q.old} \ {q.pic})
        /\ marred' = IF Brings(q) # {} THEN marred \ {q.row}
                     ELSE IF Stale(q) THEN marred \union {q.row} ELSE marred
    BY <1>10 DEF UpdateRow
  <2>4. q.old = None \/ q.old \in past[q.row]
    BY <2>1, <2>3 DEF RequestKnows
  <2>5. ASSUME NEW r \in DOMAIN image' \ marred', r # q.row, image'[r] \in Urls
        PROVE  image'[r] \in files' \ doomed'
    <3>1. r \in DOMAIN image /\ image'[r] = image[r] /\ r \notin marred
      BY <2>2, <2>3, <2>5
    <3>2. image[r] \in files \ doomed
      BY <2>5, <3>1 DEF ShownKept
    <3>3. image[r] \notin past[q.row]
      <4>1. r \in Rows /\ image[r] \in past[r] /\ image[r] \in Urls
        BY <2>5, <3>1 DEF PastApart, TypeOK
      <4> QED BY <2>1, <2>5, <4>1, PastsApart
    <3> QED BY <2>3, <2>4, <3>1, <3>2, <3>3 DEF OnDisk
  <2>6. ASSUME q.row \notin marred', q.pic \in Urls
        PROVE  q.pic \in files' \ doomed'
    <3>1. CASE q.pic \in Brings(q) /\ q.pic \in files \ (doomed \union Pasts)
      BY <2>3, <3>1 DEF OnDisk
    <3>2. CASE q.pic = q.base
      <4>1. Brings(q) = {}
        BY <3>2 DEF Brings
      <4>2. q.row \notin marred /\ image[q.row] = q.base /\ q.row \in DOMAIN image
        BY <1>10, <2>3, <2>6, <4>1 DEF Stale, UpdateRow
      <4>3. q.pic \in files \ doomed
        BY <2>6, <3>2, <4>2 DEF ShownKept
      <4> QED BY <2>3, <4>3 DEF OnDisk
    <3> QED BY <2>1, <2>6, <3>1, <3>2 DEF Own
  <2> QED BY <2>2, <2>5, <2>6 DEF ShownKept
<1>11. ASSUME NEW q \in requests, UpdateMissing(q) PROVE Kept
  <2>1. files \ doomed \subseteq files' /\ doomed' \subseteq doomed /\ image' = image /\ marred' = marred
    BY <1>11 DEF UpdateMissing
  <2> QED BY <2>1 DEF ShownKept
<1>12. ASSUME NEW row \in Rows, StartDelete(row) PROVE Kept
  <2>1. files \ doomed \subseteq files' /\ doomed' \subseteq doomed /\ image' = image /\ marred' = marred
    BY <1>12 DEF StartDelete
  <2> QED BY <2>1 DEF ShownKept
<1>13. ASSUME NEW q \in requests, DeleteRow(q) PROVE Kept
  <2>1. q.op # "create" /\ q.row \in Rows
    BY <1>13 DEF DeleteRow, TypeOK, RequestState
  <2>2. /\ files' = files /\ marred' = marred /\ doomed' = doomed \union OnDisk({q.old})
        /\ DOMAIN image' = DOMAIN image \ {q.row} /\ (\A r \in DOMAIN image' : image'[r] = image[r])
    BY <1>13 DEF DeleteRow
  <2>3. OnDisk({q.old}) \subseteq past[q.row]
    BY <2>1, OldShown
  <2>4. \A r \in DOMAIN image' : image[r] \in Urls => image[r] \notin past[q.row]
    BY <2>1, <2>2, PastsApart DEF PastApart, TypeOK
  <2> QED BY <2>2, <2>3, <2>4 DEF ShownKept
<1>14. ASSUME NEW q \in requests, DeleteMissing(q) PROVE Kept
  <2>1. files \ doomed \subseteq files' /\ doomed' \subseteq doomed /\ image' = image /\ marred' = marred
    BY <1>14 DEF DeleteMissing
  <2> QED BY <2>1 DEF ShownKept
<1>15. ASSUME NEW q \in requests, Fail(q) PROVE Kept
  <2>1. files \ doomed \subseteq files' /\ doomed' \subseteq doomed /\ image' = image /\ marred' = marred
    BY <1>15 DEF Fail
  <2> QED BY <2>1 DEF ShownKept
<1>16. ASSUME NEW u \in doomed, CleanUp(u) PROVE Kept
  <2>1. files \ doomed \subseteq files' /\ doomed' \subseteq doomed /\ image' = image /\ marred' = marred
    BY <1>16 DEF CleanUp
  <2> QED BY <2>1 DEF ShownKept
<1>17. ASSUME NEW u \in doomed, FailCleanUp(u) PROVE Kept
  <2>1. files \ doomed \subseteq files' /\ doomed' \subseteq doomed /\ image' = image /\ marred' = marred
    BY <1>17 DEF FailCleanUp
  <2> QED BY <2>1 DEF ShownKept
<1>u. CASE UNCHANGED vars
  <2>1. files \ doomed \subseteq files' /\ doomed' \subseteq doomed /\ image' = image /\ marred' = marred
    BY <1>u DEF vars
  <2> QED BY <2>1 DEF ShownKept
<1> HIDE DEF Kept
<1> QED
  BY <1>1, <1>2, <1>3, <1>4, <1>5, <1>6, <1>7, <1>8, <1>9,
     <1>10, <1>11, <1>12, <1>13, <1>14, <1>15, <1>16, <1>17, <1>u
  DEF Next, Edit, Serve

\* Only a picture that some row has shown is ever removed.
LEMMA DoomedStep ==
  ASSUME TypeOK, RequestsKnow, DoomedShown, [Next]_vars
  PROVE  DoomedShown'
<1> DEFINE Kept == DoomedShown'
<1> SUFFICES Kept
  OBVIOUS
<1>1. ASSUME NEW a \in Admins, NEW u \in Urls, SendUploaded(a, u) PROVE Kept
  BY <1>1 DEF SendUploaded, Send, DoomedShown, Pasts
<1>2. ASSUME NEW a \in Admins, SendShown(a) PROVE Kept
  BY <1>2 DEF SendShown, Send, DoomedShown, Pasts
<1>3. ASSUME NEW q \in requests, CreateRow(q) PROVE Kept
  <2>1. Pasts' = Pasts \union {q.pic}
    BY <1>3, SaveIs DEF Saves
  <2>2. q.op # "create" => OnDisk({q.old}) \subseteq Pasts
    BY OldShown
  <2>3. doomed' \subseteq doomed \union Pasts
    BY <1>3, <2>2 DEF CreateRow, OnDisk
  <2> QED BY <2>1, <2>3 DEF DoomedShown
<1>4. ASSUME NEW q \in requests, UpdateRow(q) PROVE Kept
  <2>1. Pasts' = Pasts \union {q.pic}
    BY <1>4, SaveIs DEF Saves
  <2>2. q.op # "create" => OnDisk({q.old}) \subseteq Pasts
    BY OldShown
  <2>3. doomed' \subseteq doomed \union Pasts
    BY <1>4, <2>2 DEF UpdateRow, OnDisk
  <2> QED BY <2>1, <2>3 DEF DoomedShown
<1>5. ASSUME NEW q \in requests, DeleteRow(q) PROVE Kept
  <2>1. doomed' \subseteq doomed \union Pasts /\ Pasts \subseteq Pasts'
    BY <1>5, OldShown DEF DeleteRow, Pasts
  <2> QED BY <2>1 DEF DoomedShown
<1> USE DEF DoomedShown, Pasts
<1>6. ASSUME NEW a \in Admins, NEW row \in Rows \union Blank, Open(a, row) PROVE Kept
  BY <1>6 DEF Open
<1>7. ASSUME NEW a \in Admins, Clear(a) PROVE Kept
  BY <1>7 DEF Clear
<1>8. ASSUME NEW a \in Admins, NEW u \in Urls, Upload(a, u) PROVE Kept
  BY <1>8 DEF Upload
<1>9. ASSUME NEW a \in Admins, NEW u \in Urls, LoseUpload(a, u) PROVE Kept
  BY <1>9 DEF LoseUpload
<1>10. ASSUME NEW a \in Admins, Dismiss(a) PROVE Kept
  BY <1>10 DEF Dismiss
<1>11. ASSUME NEW a \in Admins, Answered(a) PROVE Kept
  BY <1>11 DEF Answered
<1>12. ASSUME NEW q \in requests, UpdateMissing(q) PROVE Kept
  BY <1>12 DEF UpdateMissing
<1>13. ASSUME NEW row \in Rows, StartDelete(row) PROVE Kept
  BY <1>13 DEF StartDelete
<1>14. ASSUME NEW q \in requests, DeleteMissing(q) PROVE Kept
  BY <1>14 DEF DeleteMissing
<1>15. ASSUME NEW q \in requests, Fail(q) PROVE Kept
  BY <1>15 DEF Fail
<1>16. ASSUME NEW u \in doomed, CleanUp(u) PROVE Kept
  BY <1>16 DEF CleanUp
<1>17. ASSUME NEW u \in doomed, FailCleanUp(u) PROVE Kept
  BY <1>17 DEF FailCleanUp
<1>u. CASE UNCHANGED vars
  BY <1>u DEF vars
<1> HIDE DEF Kept
<1> QED
  BY <1>1, <1>2, <1>3, <1>4, <1>5, <1>6, <1>7, <1>8, <1>9,
     <1>10, <1>11, <1>12, <1>13, <1>14, <1>15, <1>16, <1>17, <1>u
  DEF Next, Edit, Serve

\* Every file on disk is on its way, has been shown, or is accounted lost.
LEMMA OriginsStep ==
  ASSUME TypeOK, SendingApart, FormsKnow, RequestsKnow, Origins, [Next]_vars
  PROVE  Origins'
<1> DEFINE Kept == Origins'
<1> SUFFICES Kept
  OBVIOUS
<1>1. ASSUME NEW a \in Admins, NEW row \in Rows \union Blank, Open(a, row) PROVE Kept
  <2>1. \A b \in Admins : Sending(b) \subseteq Sending(b)'
    <3>1. Sending(a) = {}
      BY <1>1 DEF Open, Sending
    <3> QED BY <1>1, <3>1, SendingOthers DEF Edit
  <2>2. /\ files' \subseteq files \union lost' /\ lost \subseteq lost'
        /\ Pasts' = Pasts /\ requests \subseteq requests'
    BY <1>1 DEF Open, Pasts
  <2> QED BY <2>1, <2>2 DEF Origins
<1>2. ASSUME NEW a \in Admins, Clear(a) PROVE Kept
  <2>1. \A b \in Admins : Sending(b) \subseteq Sending(b)'
    BY <1>2, SendingIs, SendingOthers DEF Edit
  <2>2. /\ files' \subseteq files \union lost' /\ lost \subseteq lost'
        /\ Pasts' = Pasts /\ requests \subseteq requests'
    BY <1>2 DEF Clear, Pasts
  <2> QED BY <2>1, <2>2 DEF Origins
<1>3. ASSUME NEW a \in Admins, NEW u \in Urls, Upload(a, u) PROVE Kept
  <2>1. u \in Sending(a)' /\ (\A b \in Admins : Sending(b) \subseteq Sending(b)')
    <3>1. Sending(a)' = Sending(a) \union {u}
      BY <1>3, SendingIs
    <3>2. \A b \in Admins \ {a} : Sending(b)' = Sending(b)
      BY <1>3, SendingOthers DEF Edit
    <3> QED BY <3>1, <3>2
  <2>2. files' = files \union {u} /\ lost' = lost /\ Pasts' = Pasts /\ requests' = requests
    BY <1>3 DEF Upload, Pasts
  <2> QED BY <2>1, <2>2 DEF Origins
<1>4. ASSUME NEW a \in Admins, NEW u \in Urls, LoseUpload(a, u) PROVE Kept
  <2>1. \A b \in Admins : Sending(b) \subseteq Sending(b)'
    BY <1>4, SendingIs, SendingOthers DEF Edit
  <2>2. /\ files' \subseteq files \union lost' /\ lost \subseteq lost'
        /\ Pasts' = Pasts /\ requests \subseteq requests'
    BY <1>4 DEF LoseUpload, Pasts
  <2> QED BY <2>1, <2>2 DEF Origins
<1>5. ASSUME NEW a \in Admins, NEW u \in Urls, SendUploaded(a, u) PROVE Kept
  <2>1. PICK q \in RequestState : Sends(q, a, u) /\ requests' = requests \union {q}
    BY <1>5, SendIs
  <2>2. /\ u \in Sending(a) /\ Sending(a)' = Sending(a) \ {u}
        /\ \A b \in Admins \ {a} : Sending(b)' = Sending(b)
    BY <1>5, SendingIs, SendingOthers DEF Edit
  <2>3. /\ files' = files /\ lost' = lost /\ Pasts' = Pasts
        /\ IsOpen(a) /\ form[a] \in FormState /\ FormKnows(form[a])
    BY <1>5, OpenIs DEF SendUploaded, Pasts, FormsKnow
  <2>4. u # q.base
    <3>1. q.base = form[a].base /\ q.base \in Pictures /\ (form[a].row \in Rows \/ form[a].row \in Blank)
      BY <2>1, <2>3 DEF Sends, RequestState, FormState
    <3>2. q.base \in Pasts \/ q.base = None
      BY <2>3, <3>1 DEF FormKnows, Pasts
    <3>3. u \notin Pasts
      BY <2>2 DEF SendingApart
    <3> QED BY <3>2, <3>3
  <2>5. u \in Brings(q)
    BY <2>1, <2>4 DEF Sends, Brings
  <2>6. \A b \in Admins : Sending(b) \subseteq Sending(b)' \union {u}
    BY <2>2
  <2> QED BY <2>1, <2>3, <2>5, <2>6 DEF Origins
<1>6. ASSUME NEW a \in Admins, SendShown(a) PROVE Kept
  <2>1. \A b \in Admins : Sending(b) \subseteq Sending(b)'
    BY <1>6, SendingIs, SendingOthers DEF Edit
  <2>2. /\ files' \subseteq files \union lost' /\ lost \subseteq lost'
        /\ Pasts' = Pasts /\ requests \subseteq requests'
    BY <1>6 DEF SendShown, Pasts, Send
  <2> QED BY <2>1, <2>2 DEF Origins
<1>7. ASSUME NEW a \in Admins, Dismiss(a) PROVE Kept
  <2>1. Sending(a) = form[a].sending /\ (\A b \in Admins \ {a} : Sending(b)' = Sending(b))
    BY <1>7, SendingIs, SendingOthers DEF Edit
  <2>2. /\ files' = files /\ lost' = lost \union form[a].sending /\ Pasts' = Pasts
        /\ requests' = requests
    BY <1>7 DEF Dismiss, Pasts
  <2> QED BY <2>1, <2>2 DEF Origins
<1>8. ASSUME NEW a \in Admins, Answered(a) PROVE Kept
  <2>1. \A b \in Admins : Sending(b) \subseteq Sending(b)'
    BY <1>8, SendingIs, SendingOthers DEF Edit
  <2>2. /\ files' \subseteq files \union lost' /\ lost \subseteq lost'
        /\ Pasts' = Pasts /\ requests \subseteq requests'
    BY <1>8 DEF Answered, Pasts
  <2> QED BY <2>1, <2>2 DEF Origins
<1>9. ASSUME NEW q \in requests, CreateRow(q) PROVE Kept
  <2>1. /\ files' \subseteq files /\ lost \subseteq lost' /\ form' = form
        /\ requests \ {q} \subseteq requests' /\ Pasts \subseteq Pasts' /\ files \subseteq Urls
    BY <1>9, SaveIs DEF CreateRow, Saves, TypeOK
  <2>2. \A b \in Admins : Sending(b)' = Sending(b)
    BY <2>1 DEF Sending, IsOpen
  <2>3. Brings(q) \intersect Urls \subseteq lost' \union Pasts'
    BY <1>9, SaveIs DEF Saves, Brings
  <2> QED BY <2>1, <2>2, <2>3 DEF Origins
<1>10. ASSUME NEW q \in requests, UpdateRow(q) PROVE Kept
  <2>1. /\ files' \subseteq files /\ lost \subseteq lost' /\ form' = form
        /\ requests \ {q} \subseteq requests' /\ Pasts \subseteq Pasts' /\ files \subseteq Urls
    BY <1>10, SaveIs DEF UpdateRow, Saves, TypeOK
  <2>2. \A b \in Admins : Sending(b)' = Sending(b)
    BY <2>1 DEF Sending, IsOpen
  <2>3. Brings(q) \intersect Urls \subseteq lost' \union Pasts'
    BY <1>10, SaveIs DEF Saves, Brings
  <2> QED BY <2>1, <2>2, <2>3 DEF Origins
<1>11. ASSUME NEW q \in requests, UpdateMissing(q) PROVE Kept
  <2>1. /\ files' \subseteq files /\ lost \subseteq lost' /\ form' = form
        /\ requests \ {q} \subseteq requests' /\ Pasts \subseteq Pasts' /\ files \subseteq Urls
    BY <1>11 DEF UpdateMissing, Pasts, TypeOK
  <2>2. \A b \in Admins : Sending(b)' = Sending(b)
    BY <2>1 DEF Sending, IsOpen
  <2>3. Brings(q) \intersect Urls \subseteq lost' \union Pasts'
    BY <1>11 DEF UpdateMissing
  <2> QED BY <2>1, <2>2, <2>3 DEF Origins
<1>12. ASSUME NEW row \in Rows, StartDelete(row) PROVE Kept
  <2>1. /\ files' \subseteq files /\ lost \subseteq lost' /\ form' = form /\ requests \subseteq requests'
        /\ Pasts' = Pasts
    BY <1>12 DEF StartDelete, Pasts
  <2>2. \A b \in Admins : Sending(b)' = Sending(b)
    BY <2>1 DEF Sending, IsOpen
  <2> QED BY <2>1, <2>2 DEF Origins
<1>13. ASSUME NEW q \in requests, DeleteRow(q) PROVE Kept
  <2>1. /\ files' \subseteq files /\ lost \subseteq lost' /\ form' = form
        /\ requests \ {q} \subseteq requests' /\ Pasts \subseteq Pasts' /\ files \subseteq Urls
    BY <1>13 DEF DeleteRow, Pasts, TypeOK
  <2>2. \A b \in Admins : Sending(b)' = Sending(b)
    BY <2>1 DEF Sending, IsOpen
  <2>3. Brings(q) \intersect Urls \subseteq lost' \union Pasts'
    BY <1>13 DEF DeleteRow, RequestsKnow, RequestKnows, Brings
  <2> QED BY <2>1, <2>2, <2>3 DEF Origins
<1>14. ASSUME NEW q \in requests, DeleteMissing(q) PROVE Kept
  <2>1. /\ files' \subseteq files /\ lost \subseteq lost' /\ form' = form
        /\ requests \ {q} \subseteq requests' /\ Pasts \subseteq Pasts' /\ files \subseteq Urls
    BY <1>14 DEF DeleteMissing, Pasts, TypeOK
  <2>2. \A b \in Admins : Sending(b)' = Sending(b)
    BY <2>1 DEF Sending, IsOpen
  <2>3. Brings(q) \intersect Urls \subseteq lost' \union Pasts'
    BY <1>14 DEF DeleteMissing, RequestsKnow, RequestKnows, Brings
  <2> QED BY <2>1, <2>2, <2>3 DEF Origins
<1>15. ASSUME NEW q \in requests, Fail(q) PROVE Kept
  <2>1. /\ files' \subseteq files /\ lost \subseteq lost' /\ form' = form
        /\ requests \ {q} \subseteq requests' /\ Pasts \subseteq Pasts' /\ files \subseteq Urls
    BY <1>15 DEF Fail, Pasts, TypeOK
  <2>2. \A b \in Admins : Sending(b)' = Sending(b)
    BY <2>1 DEF Sending, IsOpen
  <2>3. Brings(q) \intersect Urls \subseteq lost' \union Pasts'
    BY <1>15 DEF Fail
  <2> QED BY <2>1, <2>2, <2>3 DEF Origins
<1>16. ASSUME NEW u \in doomed, CleanUp(u) PROVE Kept
  <2>1. /\ files' \subseteq files /\ lost \subseteq lost' /\ form' = form /\ requests \subseteq requests'
        /\ Pasts' = Pasts
    BY <1>16 DEF CleanUp, Pasts
  <2>2. \A b \in Admins : Sending(b)' = Sending(b)
    BY <2>1 DEF Sending, IsOpen
  <2> QED BY <2>1, <2>2 DEF Origins
<1>17. ASSUME NEW u \in doomed, FailCleanUp(u) PROVE Kept
  <2>1. /\ files' \subseteq files /\ lost \subseteq lost' /\ form' = form /\ requests \subseteq requests'
        /\ Pasts' = Pasts
    BY <1>17 DEF FailCleanUp, Pasts
  <2>2. \A b \in Admins : Sending(b)' = Sending(b)
    BY <2>1 DEF Sending, IsOpen
  <2> QED BY <2>1, <2>2 DEF Origins
<1>u. CASE UNCHANGED vars
  <2>1. /\ files' \subseteq files /\ lost \subseteq lost' /\ form' = form /\ requests \subseteq requests'
        /\ Pasts' = Pasts
    BY <1>u DEF vars, Pasts
  <2>2. \A b \in Admins : Sending(b)' = Sending(b)
    BY <2>1 DEF Sending, IsOpen
  <2> QED BY <2>1, <2>2 DEF Origins
<1> HIDE DEF Kept
<1> QED
  BY <1>1, <1>2, <1>3, <1>4, <1>5, <1>6, <1>7, <1>8, <1>9,
     <1>10, <1>11, <1>12, <1>13, <1>14, <1>15, <1>16, <1>17, <1>u
  DEF Next, Edit, Serve

\* What is settled about the pictures of a row stays so.
LEMMA PastSettledKept ==
  ASSUME TypeOK, PastApart, PastSettled, [Next]_vars, NEW r \in Rows, NEW u \in past[r], u \in Urls
  PROVE  Settled(u)' \/ (r \in DOMAIN image /\ image[r] = u)
<1>1. Settled(u) \/ (r \in DOMAIN image /\ image[r] = u)
  BY DEF PastSettled
<1>2. u \in used
  BY PastsApart
<1> QED BY <1>1, <1>2, SettledStep

\* A picture that a row shows no more is off the disk, on its way off, or accounted lost.
LEMMA PastSettledStep ==
  ASSUME TypeOK, PastApart, BroughtApart, RequestsKnow, PastSettled, [Next]_vars
  PROVE  PastSettled'
<1> DEFINE Kept == PastSettled'
<1> SUFFICES Kept
  OBVIOUS
<1>1. ASSUME NEW a \in Admins, NEW row \in Rows \union Blank, Open(a, row) PROVE Kept
  <2>1. image' = image /\ past' = past
    BY <1>1 DEF Open
  <2> QED BY <2>1, PastSettledKept DEF PastSettled
<1>2. ASSUME NEW a \in Admins, Clear(a) PROVE Kept
  <2>1. image' = image /\ past' = past
    BY <1>2 DEF Clear
  <2> QED BY <2>1, PastSettledKept DEF PastSettled
<1>3. ASSUME NEW a \in Admins, NEW u \in Urls, Upload(a, u) PROVE Kept
  <2>1. image' = image /\ past' = past
    BY <1>3 DEF Upload
  <2> QED BY <2>1, PastSettledKept DEF PastSettled
<1>4. ASSUME NEW a \in Admins, NEW u \in Urls, LoseUpload(a, u) PROVE Kept
  <2>1. image' = image /\ past' = past
    BY <1>4 DEF LoseUpload
  <2> QED BY <2>1, PastSettledKept DEF PastSettled
<1>5. ASSUME NEW a \in Admins, NEW u \in Urls, SendUploaded(a, u) PROVE Kept
  <2>1. image' = image /\ past' = past
    BY <1>5 DEF SendUploaded
  <2> QED BY <2>1, PastSettledKept DEF PastSettled
<1>6. ASSUME NEW a \in Admins, SendShown(a) PROVE Kept
  <2>1. image' = image /\ past' = past
    BY <1>6 DEF SendShown
  <2> QED BY <2>1, PastSettledKept DEF PastSettled
<1>7. ASSUME NEW a \in Admins, Dismiss(a) PROVE Kept
  <2>1. image' = image /\ past' = past
    BY <1>7 DEF Dismiss
  <2> QED BY <2>1, PastSettledKept DEF PastSettled
<1>8. ASSUME NEW a \in Admins, Answered(a) PROVE Kept
  <2>1. image' = image /\ past' = past
    BY <1>8 DEF Answered
  <2> QED BY <2>1, PastSettledKept DEF PastSettled
<1>9. ASSUME NEW q \in requests, CreateRow(q) PROVE Kept
  <2>1. Saves(q) /\ RequestKnows(q) /\ q.row \in Rows
    BY <1>9, SavedKnows DEF Saves
  <2>2. DOMAIN image' = DOMAIN image \union {q.row}
        /\ (\A r \in DOMAIN image' : image'[r] = IF r = q.row THEN q.pic ELSE image[r])
        /\ (\A r \in Rows : past'[r] = IF r = q.row THEN past[r] \union {q.pic} ELSE past[r])
    BY <2>1 DEF Saves
  <2>3. ASSUME NEW r \in Rows \ {q.row}, NEW u \in past'[r] \intersect Urls
        PROVE  Settled(u)' \/ (r \in DOMAIN image' /\ image'[r] = u)
    <3>1. u \in past[r]
      BY <2>2
    <3>2. Settled(u)' \/ (r \in DOMAIN image /\ image[r] = u)
      BY <3>1, PastSettledKept
    <3> QED BY <2>2, <3>2
  <2>4. ASSUME NEW u \in past[q.row] \intersect Urls, u # q.pic
        PROVE  Settled(u)'
    BY <1>9, <2>1 DEF CreateRow, RequestKnows
  <2>5. ASSUME NEW u \in past'[q.row] \intersect Urls
        PROVE  Settled(u)' \/ (q.row \in DOMAIN image' /\ image'[q.row] = u)
    <3>1. CASE u = q.pic
      BY <2>2, <3>1
    <3>2. CASE u # q.pic
      BY <2>1, <2>2, <2>4, <3>2
    <3> QED BY <3>1, <3>2
  <2> QED BY <2>3, <2>5 DEF PastSettled
<1>10. ASSUME NEW q \in requests, UpdateRow(q) PROVE Kept
  <2>1. Saves(q) /\ RequestKnows(q) /\ q.row \in Rows
    BY <1>10, SavedKnows DEF Saves
  <2>2. DOMAIN image' = DOMAIN image \union {q.row}
        /\ (\A r \in DOMAIN image' : image'[r] = IF r = q.row THEN q.pic ELSE image[r])
        /\ (\A r \in Rows : past'[r] = IF r = q.row THEN past[r] \union {q.pic} ELSE past[r])
    BY <2>1 DEF Saves
  <2>3. ASSUME NEW r \in Rows \ {q.row}, NEW u \in past'[r] \intersect Urls
        PROVE  Settled(u)' \/ (r \in DOMAIN image' /\ image'[r] = u)
    <3>1. u \in past[r]
      BY <2>2
    <3>2. Settled(u)' \/ (r \in DOMAIN image /\ image[r] = u)
      BY <3>1, PastSettledKept
    <3> QED BY <2>2, <3>2
  <2>4. ASSUME NEW u \in past[q.row] \intersect Urls, u # q.pic
        PROVE  Settled(u)'
    <3>1. Settled(u)' \/ (q.row \in DOMAIN image /\ image[q.row] = u)
      BY <2>1, PastSettledKept
    <3>2. CASE q.row \in DOMAIN image /\ image[q.row] = u
      <4>1. CASE Stale(q)
        BY <1>10, <3>2, <4>1 DEF UpdateRow, Settled
      <4>2. CASE ~Stale(q)
        <5>1. u = q.base /\ q.base \in Urls /\ q.pic # q.base
          BY <2>4, <3>2, <4>2 DEF Stale
        <5>2. q.old = q.base \/ Settled(q.base)
          BY <1>10, <2>1, <5>1 DEF UpdateRow, RequestKnows
        <5>3. files' = files /\ doomed' = doomed \union OnDisk({q.old} \ {q.pic}) /\ lost \subseteq lost'
          BY <1>10 DEF UpdateRow
        <5> QED BY <5>1, <5>2, <5>3 DEF Settled, OnDisk
      <4> QED BY <4>1, <4>2
    <3> QED BY <3>1, <3>2
  <2>5. ASSUME NEW u \in past'[q.row] \intersect Urls
        PROVE  Settled(u)' \/ (q.row \in DOMAIN image' /\ image'[q.row] = u)
    <3>1. CASE u = q.pic
      BY <2>2, <3>1
    <3>2. CASE u # q.pic
      BY <2>1, <2>2, <2>4, <3>2
    <3> QED BY <3>1, <3>2
  <2> QED BY <2>3, <2>5 DEF PastSettled
<1>11. ASSUME NEW q \in requests, UpdateMissing(q) PROVE Kept
  <2>1. image' = image /\ past' = past
    BY <1>11 DEF UpdateMissing
  <2> QED BY <2>1, PastSettledKept DEF PastSettled
<1>12. ASSUME NEW row \in Rows, StartDelete(row) PROVE Kept
  <2>1. image' = image /\ past' = past
    BY <1>12 DEF StartDelete
  <2> QED BY <2>1, PastSettledKept DEF PastSettled
<1>13. ASSUME NEW q \in requests, DeleteRow(q) PROVE Kept
  <2>1. /\ past' = past /\ q.row \in DOMAIN image /\ DOMAIN image' = DOMAIN image \ {q.row}
        /\ (\A r \in DOMAIN image' : image'[r] = image[r])
    BY <1>13 DEF DeleteRow
  <2>2. ASSUME NEW r \in Rows \ {q.row}, NEW u \in past'[r] \intersect Urls
        PROVE  Settled(u)' \/ (r \in DOMAIN image' /\ image'[r] = u)
    <3>1. Settled(u)' \/ (r \in DOMAIN image /\ image[r] = u)
      BY <2>1, PastSettledKept
    <3> QED BY <2>1, <3>1
  <2>3. ASSUME NEW u \in past'[q.row] \intersect Urls
        PROVE  Settled(u)'
    <3>1. Settled(u)' \/ image[q.row] = u
      BY <2>1, PastSettledKept DEF TypeOK
    <3>2. CASE image[q.row] = u
      <4>1. CASE Stale(q)
        BY <1>13, <3>2, <4>1 DEF DeleteRow, Settled
      <4>2. CASE ~Stale(q)
        <5>1. u = q.base /\ q.old = q.base
          BY <1>13, <3>2, <4>2 DEF Stale, DeleteRow, RequestsKnow, RequestKnows
        <5> QED BY <1>13, <5>1 DEF DeleteRow, Settled, OnDisk
      <4> QED BY <4>1, <4>2
    <3> QED BY <3>1, <3>2
  <2> QED BY <2>2, <2>3 DEF PastSettled
<1>14. ASSUME NEW q \in requests, DeleteMissing(q) PROVE Kept
  <2>1. image' = image /\ past' = past
    BY <1>14 DEF DeleteMissing
  <2> QED BY <2>1, PastSettledKept DEF PastSettled
<1>15. ASSUME NEW q \in requests, Fail(q) PROVE Kept
  <2>1. image' = image /\ past' = past
    BY <1>15 DEF Fail
  <2> QED BY <2>1, PastSettledKept DEF PastSettled
<1>16. ASSUME NEW u \in doomed, CleanUp(u) PROVE Kept
  <2>1. image' = image /\ past' = past
    BY <1>16 DEF CleanUp
  <2> QED BY <2>1, PastSettledKept DEF PastSettled
<1>17. ASSUME NEW u \in doomed, FailCleanUp(u) PROVE Kept
  <2>1. image' = image /\ past' = past
    BY <1>17 DEF FailCleanUp
  <2> QED BY <2>1, PastSettledKept DEF PastSettled
<1>u. CASE UNCHANGED vars
  <2>1. image' = image /\ past' = past
    BY <1>u DEF vars
  <2> QED BY <2>1, PastSettledKept DEF PastSettled
<1> HIDE DEF Kept
<1> QED
  BY <1>1, <1>2, <1>3, <1>4, <1>5, <1>6, <1>7, <1>8, <1>9,
     <1>10, <1>11, <1>12, <1>13, <1>14, <1>15, <1>16, <1>17, <1>u
  DEF Next, Edit, Serve

-----------------------------------------------------------------------------
(* The theorems                                                            *)

\* The first state satisfies all of it.
LEMMA InitOK == Init => TypeOK /\ AllSound /\ IInv
<1> SUFFICES ASSUME Init PROVE TypeOK /\ AllSound /\ IInv
  OBVIOUS
<1>1. \A r \in Rows : past[r] = IF r = Store THEN {First} ELSE {}
  BY DEF Init
<1>2. DOMAIN image = {Store} /\ image[Store] = First /\ Store \in Rows /\ First \in Pictures \ Urls
  BY FirstAssumption DEF Init, Rows, Pictures
<1>3. /\ files = {} /\ requests = {} /\ sent = 0 /\ doomed = {} /\ used = {} /\ lost = {} /\ marred = {}
      /\ \A a \in Admins : form[a] = Closed
  BY DEF Init
<1>4. TypeOK /\ AllSound
  <2>1. past \in [Rows -> SUBSET Pictures]
    BY <1>1, <1>2 DEF Init
  <2>2. form \in [Admins -> FormState \union {Closed}]
    BY DEF Init
  <2>3. sent \in 0..MaxSent
    BY <1>3, SentBound
  <2>4. \A r \in DOMAIN image : image[r] \in Pictures /\ (r \in Banners => image[r] # None)
    BY <1>2
  <2> QED BY <1>2, <1>3, <2>1, <2>2, <2>3, <2>4 DEF TypeOK, AllSound
<1>5. PastApart
  BY <1>1, <1>2, <1>3 DEF PastApart
<1>6. \A a \in Admins : ~IsOpen(a) /\ Sending(a) = {}
  BY <1>3 DEF IsOpen, Sending
<1>7. SendingApart /\ BroughtApart /\ FormsKnow /\ RequestsKnow
  BY <1>3, <1>6 DEF SendingApart, BroughtApart, FormsKnow, RequestsKnow
<1>8. ShownKept /\ DoomedShown /\ Origins
  BY <1>2, <1>3 DEF ShownKept, DoomedShown, Origins
<1>9. PastSettled
  BY <1>1, <1>2, <1>3 DEF PastSettled, Settled
<1> QED BY <1>4, <1>5, <1>7, <1>8, <1>9 DEF IInv

\* Every step keeps the type and all of the strengthenings.
THEOREM Invariance == Spec => [](TypeOK /\ AllSound /\ IInv)
<1>1. TypeOK /\ AllSound /\ IInv /\ [Next]_vars => (TypeOK /\ AllSound /\ IInv)'
  BY TypeStep, PastStep, SendingStep, BroughtStep, FormsStep, RequestsStep, ShownStep, DoomedStep,
     OriginsStep, PastSettledStep DEF IInv
<1> QED BY InitOK, <1>1, PTL DEF Spec

\* No sequence of edits, answers, losses, failures and crashes takes any of
\* the state out of its type.
THEOREM TypeCorrect == Spec => []TypeOK
<1>1. TypeOK /\ AllSound /\ IInv => TypeOK
  OBVIOUS
<1> QED BY Invariance, <1>1, PTL

\* The picture a banner, an article or the store shows is on disk, whatever
\* else happened, unless a form opened before saved an older one over it.
THEOREM PictureKept == Spec => []ShownExists
<1>1. TypeOK /\ AllSound /\ IInv => ShownExists
  BY DEF IInv, ShownKept, ShownExists
<1> QED BY Invariance, <1>1, PTL

\* A file nobody shows, sends or removes was cost by one of the named mishaps.
THEOREM LeaksNamed == Spec => []LeaksAccounted
<1>1. ASSUME TypeOK, Origins, PastSettled, NEW u \in files
      PROVE  u \in Shown \union Uploading \union Brought \union doomed \union lost
  <2>1. CASE \E a \in Admins : u \in Sending(a)
    <3>1. PICK a \in Admins : u \in Sending(a)
      BY <2>1
    <3>2. IsOpen(a) /\ u \in form[a].sending
      BY <3>1 DEF Sending
    <3> QED BY <3>2 DEF Uploading
  <2>2. CASE \E q \in requests : u \in Brings(q)
    BY <2>2 DEF Brought
  <2>3. CASE u \in Pasts
    <3>1. PICK r \in Rows : u \in past[r]
      BY <2>3 DEF Pasts
    <3>2. u \in Urls
      BY <1>1 DEF TypeOK
    <3>3. Settled(u) \/ (r \in DOMAIN image /\ image[r] = u)
      BY <1>1, <3>1, <3>2 DEF PastSettled
    <3> QED BY <1>1, <3>3 DEF Settled, Shown
  <2> QED BY <1>1, <2>1, <2>2, <2>3 DEF Origins
<1>2. TypeOK /\ AllSound /\ IInv => LeaksAccounted
  BY <1>1 DEF IInv, LeaksAccounted
<1> QED BY Invariance, <1>2, PTL

=============================================================================
