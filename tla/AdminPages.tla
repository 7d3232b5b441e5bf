----------------------------- MODULE AdminPages -----------------------------
(***************************************************************************)
(* The four pages on which an administrator keeps the directory:           *)
(* BuildingsTab, FloorsTab, ZonesTab and the user page with its            *)
(* UserDialog.  A behaviour is one visit to one of them: the list, the     *)
(* dialog that creates or edits a row, the delete button and, on the page  *)
(* of the zones, the dialog that shows a zone's QR code.                   *)
(*                                                                         *)
(* Every handler awaits the server and writes into the state of the page   *)
(* when the answer comes, whatever the user has opened meanwhile; nothing  *)
(* cancels or orders the requests.  Another administrator works on the     *)
(* same rows.                                                              *)
(*                                                                         *)
(* A row is a text (its name, code or address) and the parent it belongs   *)
(* to: the building of a floor, the floor of a zone.                       *)
(***************************************************************************)
EXTENDS Naturals

CONSTANTS
  Seed,       \* the rows the visit begins with
  Texts,      \* what a row may be called
  Parent,     \* the building or floor that rows may belong to
  MaxPresses, \* bound: how often the administrators press a button
  None

Pages == {"buildings", "floors", "zones", "users"}
Presses == 1..MaxPresses
Ids == Seed \cup Presses  \* a created row is named by the press that made it

ASSUME PagesAssumption ==
  /\ MaxPresses \in Nat
  /\ Seed \cap Presses = {}
  /\ None \notin Ids \cup Texts \cup {Parent}

VARIABLES
  page,         \* which page this is: never changes
  table,        \* the rows in the database
  parentThere,  \* whether Parent is there
  list,         \* the rows the page shows
  choices,      \* the parents its dialog offers
  loading,
  isDialogOpen,
  form,         \* the fields of the dialog, with editingId
  isSubmitting,
  loads, saves, deletes,  \* the handlers that await an answer
  qrZone, payload, qrLoading, qrError, fetches,  \* QrCodeDialog
  pressed,      \* how many buttons were pressed, up to MaxPresses
  excused,      \* history: something happened that the page cannot follow
  crossed       \* history: a code was asked for before the last one came

shown == <<list, choices, loading, loads>>
dialog == <<isDialogOpen, form, isSubmitting>>
server == <<table, parentThere>>
qr == <<qrZone, payload, qrLoading, qrError, fetches, crossed>>
vars == <<page, server, shown, dialog, saves, deletes, qr, pressed, excused>>

Row(t, p) == [text |-> t, up |-> p]
RowSet == [text : Texts, up : {Parent, None}]
Linked == page \in {"floors", "zones"}
Unique == page \in {"zones", "users"}  \* a zone's code, a user's address

With(f, i, v) == [j \in DOMAIN f \cup {i} |-> IF j = i THEN v ELSE f[j]]
Without(f, i) == [j \in DOMAIN f \ {i} |-> f[j]]

\* The dialog remembers which fields were touched (history).
Blank == [id |-> None, text |-> None, up |-> None, touched |-> {}]

\* The effect that runs when the page is shown has begun the first load.
Init ==
  /\ page \in Pages
  /\ \E name \in [Seed -> Texts] :
       /\ \A i, j \in Seed : name[i] = name[j] => i = j
       /\ table \in [Seed -> RowSet]
       /\ \A i \in Seed : /\ table[i].text = name[i]
                          /\ ~Linked => table[i].up = None
  /\ parentThere = TRUE
  /\ list = [i \in {} |-> None] /\ choices = {} /\ loading = TRUE
  /\ loads = {[n |-> 0, got |-> None]}
  /\ isDialogOpen = FALSE /\ form = Blank /\ isSubmitting = FALSE
  /\ saves = {} /\ deletes = {}
  /\ qrZone = None /\ payload = None
  /\ qrLoading = FALSE /\ qrError = FALSE /\ fetches = {}
  /\ pressed = 0 /\ excused = FALSE /\ crossed = FALSE

Press == pressed < MaxPresses /\ pressed' = pressed + 1

----------------------------------------------------------------------------
(* loadData and loadUsers. *)

\* Loads that overlap may arrive in any order.
BeginLoad(n) ==
  /\ loading' = TRUE
  /\ loads' = loads \cup {[n |-> n, got |-> None]}
  /\ excused' = (excused \/ loads # {})
  /\ UNCHANGED <<list, choices>>

\* The server answers with the rows, and with the parents where the dialog
\* offers them.
LoadRead(l) ==
  /\ l.got = None
  /\ loads' = (loads \ {l}) \cup
       {[l EXCEPT !.got =
           [rows |-> table,
            parents |-> IF Linked /\ parentThere THEN {Parent} ELSE {}]]}
  /\ UNCHANGED <<page, server, list, choices, loading, dialog, saves, deletes,
                 qr, pressed, excused>>

LoadDone(l) ==
  /\ l.got # None
  /\ loads' = loads \ {l}
  /\ list' = l.got.rows
  /\ choices' = l.got.parents
  /\ loading' = FALSE
  /\ UNCHANGED <<page, server, dialog, saves, deletes, qr, pressed, excused>>

LoadFails_Spins(l) ==
  /\ loads' = loads \ {l}
  /\ excused' = TRUE
  /\ UNCHANGED <<page, server, list, choices, loading, dialog, saves, deletes,
                 qr, pressed>>

\* The message is shown over the old list.
LoadFails(l) ==
  /\ loads' = loads \ {l}
  /\ loading' = FALSE
  /\ excused' = TRUE
  /\ UNCHANGED <<page, server, list, choices, dialog, saves, deletes, qr, pressed>>

----------------------------------------------------------------------------
(* The buttons.  Both dialogs are modal. *)

Free == ~isDialogOpen /\ qrZone = None

\* The buttons of the rows give way to the spinner.
Offered_Always == IF Free THEN DOMAIN list ELSE {}
Offered == IF Free /\ ~loading THEN DOMAIN list ELSE {}

OpenCreate_Resubmits ==
  /\ Free /\ Press
  /\ isDialogOpen' = TRUE
  /\ form' = Blank
  /\ isSubmitting' = FALSE
  /\ UNCHANGED <<page, server, shown, saves, deletes, qr, excused>>

OpenCreate ==
  /\ Free /\ Press
  /\ isDialogOpen' = TRUE
  /\ form' = Blank
  /\ UNCHANGED <<page, server, shown, isSubmitting, saves, deletes, qr, excused>>

OpenEdit(i) ==
  /\ i \in Offered /\ Press
  /\ isDialogOpen' = TRUE
  /\ form' = [id |-> i, text |-> list[i].text, up |-> list[i].up, touched |-> {}]
  /\ UNCHANGED <<page, server, shown, isSubmitting, saves, deletes, qr, excused>>

TypeText(t) ==
  /\ isDialogOpen
  /\ form' = [form EXCEPT !.text = t, !.touched = @ \cup {"text"}]
  /\ UNCHANGED <<page, server, shown, isDialogOpen, isSubmitting, saves, deletes,
                 qr, pressed, excused>>

\* Only the floors' dialog offers "none".
ChooseParent(p) ==
  /\ isDialogOpen
  /\ p \in choices \cup (IF page = "floors" THEN {None} ELSE {})
  /\ form' = [form EXCEPT !.up = p, !.touched = @ \cup {"up"}]
  /\ UNCHANGED <<page, server, shown, isDialogOpen, isSubmitting, saves, deletes,
                 qr, pressed, excused>>

\* Cancel or Escape; UserDialog's effect clears its fields as well.
Cancel ==
  /\ isDialogOpen
  /\ isDialogOpen' = FALSE
  /\ UNCHANGED <<page, server, shown, form, isSubmitting, saves, deletes, qr,
                 pressed, excused>>

----------------------------------------------------------------------------
(* handleSave and UserDialog's handleSubmit. *)

Save ==
  /\ isDialogOpen /\ ~isSubmitting /\ Press
  /\ form.text # None
  /\ page = "zones" => form.up # None
  /\ isSubmitting' = TRUE
  /\ saves' = saves \cup {[n |-> pressed', form |-> form, stage |-> "sent"]}
  /\ UNCHANGED <<page, server, shown, isDialogOpen, form, deletes, qr, excused>>

Advanced(set, h, stage) == (set \ {h}) \cup {[h EXCEPT !.stage = stage]}

Taken(t, i) == Unique /\ \E j \in DOMAIN table \ {i} : table[j].text = t

Acceptable(f) ==
  /\ f.id # None => f.id \in DOMAIN table
  /\ f.up # None => parentThere
  /\ ~Taken(f.text, f.id)

\* "none" is sent as undefined, which leaves a floor where it is.
Saved(f) ==
  Row(f.text, IF f.up = None /\ f.id # None THEN table[f.id].up ELSE f.up)

SaveHandled(h) ==
  /\ h.stage = "sent"
  /\ IF Acceptable(h.form)
     THEN /\ table' = With(table, IF h.form.id = None THEN h.n ELSE h.form.id,
                           Saved(h.form))
          /\ saves' = Advanced(saves, h, "ok")
     ELSE saves' = Advanced(saves, h, "refused") /\ UNCHANGED table
  /\ UNCHANGED <<page, parentThere, shown, dialog, deletes, qr, pressed, excused>>

\* The answer closes the dialog, whichever row it shows by now.
SaveAnswered(h) ==
  /\ h.stage = "ok"
  /\ saves' = saves \ {h}
  /\ isDialogOpen' = FALSE
  /\ isSubmitting' = FALSE
  /\ BeginLoad(h.n)
  /\ UNCHANGED <<page, server, form, deletes, qr, pressed>>

SaveRefused(h) ==
  /\ h.stage = "refused"
  /\ saves' = saves \ {h}
  /\ isSubmitting' = FALSE
  /\ UNCHANGED <<page, server, shown, isDialogOpen, form, deletes, qr, pressed,
                 excused>>

\* The connection breaks, before or after the server acted: apiRequest cannot
\* queue what is not a task's action, and throws.
SaveUnheard(h) ==
  /\ saves' = saves \ {h}
  /\ isSubmitting' = FALSE
  /\ excused' = TRUE
  /\ UNCHANGED <<page, server, shown, isDialogOpen, form, deletes, qr, pressed>>

----------------------------------------------------------------------------
(* handleDelete. *)

Delete(i) ==
  /\ i \in Offered /\ Press
  /\ deletes' = deletes \cup {[n |-> pressed', id |-> i, stage |-> "sent"]}
  /\ UNCHANGED <<page, server, shown, dialog, saves, qr, excused>>

\* A row that other rows need is not deleted either.
DeleteHandled(h) ==
  /\ h.stage = "sent"
  /\ \/ /\ h.id \in DOMAIN table
        /\ table' = Without(table, h.id)
        /\ deletes' = Advanced(deletes, h, "ok")
     \/ deletes' = Advanced(deletes, h, "refused") /\ UNCHANGED table
  /\ UNCHANGED <<page, parentThere, shown, dialog, saves, qr, pressed, excused>>

DeleteAnswered_Forgets(h) ==
  /\ h.stage = "ok"
  /\ deletes' = deletes \ {h}
  /\ UNCHANGED <<page, server, shown, dialog, saves, qr, pressed, excused>>

DeleteAnswered(h) ==
  /\ h.stage = "ok"
  /\ deletes' = deletes \ {h}
  /\ BeginLoad(h.n)
  /\ UNCHANGED <<page, server, dialog, saves, qr, pressed>>

DeleteRefused(h) ==
  /\ h.stage = "refused"
  /\ deletes' = deletes \ {h}
  /\ UNCHANGED <<page, server, shown, dialog, saves, qr, pressed, excused>>

DeleteUnheard(h) ==
  /\ deletes' = deletes \ {h}
  /\ excused' = TRUE
  /\ UNCHANGED <<page, server, shown, dialog, saves, qr, pressed>>

----------------------------------------------------------------------------
(* QrCodeDialog, on the page of the zones. *)

LoadQr_NoSpinner(i) ==
  /\ fetches' = fetches \cup {[n |-> pressed', zone |-> i]}
  /\ qrError' = FALSE
  /\ crossed' = (crossed \/ fetches # {})
  /\ UNCHANGED <<payload, qrLoading>>

LoadQr(i) ==
  /\ fetches' = fetches \cup {[n |-> pressed', zone |-> i]}
  /\ qrLoading' = TRUE
  /\ qrError' = FALSE
  /\ crossed' = (crossed \/ fetches # {})
  /\ UNCHANGED payload

\* The effect of the dialog runs when the zone is set.
ShowQr(i) ==
  /\ page = "zones" /\ i \in Offered /\ Press
  /\ qrZone' = i
  /\ LoadQr(i)
  /\ UNCHANGED <<page, server, shown, dialog, saves, deletes, excused>>

RetryQr ==
  /\ qrZone # None /\ qrError /\ Press
  /\ LoadQr(qrZone)
  /\ UNCHANGED <<page, server, shown, dialog, saves, deletes, qrZone, excused>>

CloseQr ==
  /\ qrZone # None
  /\ qrZone' = None
  /\ payload' = None
  /\ qrError' = FALSE
  /\ UNCHANGED <<page, server, shown, dialog, saves, deletes, qrLoading, fetches,
                 crossed, pressed, excused>>

\* A code signed for the zone that was asked for.
QrArrives(h) ==
  /\ fetches' = fetches \ {h}
  /\ payload' = h.zone
  /\ qrLoading' = FALSE
  /\ UNCHANGED <<page, server, shown, dialog, saves, deletes, qrZone, qrError,
                 crossed, pressed, excused>>

QrFails(h) ==
  /\ fetches' = fetches \ {h}
  /\ qrError' = TRUE
  /\ qrLoading' = FALSE
  /\ UNCHANGED <<page, server, shown, dialog, saves, deletes, qrZone, payload,
                 crossed, pressed, excused>>

\* What can be scanned off the screen, and printed.
ShownCode == IF qrZone # None /\ ~qrLoading /\ ~qrError THEN payload ELSE None

----------------------------------------------------------------------------
(* Another administrator renames or deletes a row, or deletes the parent:  *)
(* a building takes its floors along, a floor leaves its zones behind.     *)

Unparented == [i \in {j \in DOMAIN table : table[j].up = None} |-> table[i]]

Elsewhere ==
  /\ Press
  /\ \/ \E i \in DOMAIN table :
          /\ \/ \E t \in Texts :
                  /\ ~Taken(t, i)
                  /\ table' = [table EXCEPT ![i].text = t]
             \/ table' = Without(table, i)
          /\ UNCHANGED parentThere
     \/ /\ parentThere
        /\ parentThere' = FALSE
        /\ table' = IF page = "floors" THEN Unparented
                    ELSE [i \in DOMAIN table |-> [table[i] EXCEPT !.up = None]]
  /\ excused' = TRUE
  /\ UNCHANGED <<page, shown, dialog, saves, deletes, qr>>

----------------------------------------------------------------------------
User ==
  \/ OpenCreate \/ Cancel \/ Save \/ RetryQr \/ CloseQr \/ Elsewhere
  \/ \E i \in Ids : OpenEdit(i) \/ Delete(i) \/ ShowQr(i)
  \/ \E t \in Texts : TypeText(t)
  \/ \E p \in {Parent, None} : ChooseParent(p)

Network ==
  \/ \E l \in loads : LoadRead(l) \/ LoadDone(l) \/ LoadFails(l)
  \/ \E h \in saves :
       SaveHandled(h) \/ SaveAnswered(h) \/ SaveRefused(h) \/ SaveUnheard(h)
  \/ \E h \in deletes : \/ DeleteHandled(h) \/ DeleteAnswered(h)
                        \/ DeleteRefused(h) \/ DeleteUnheard(h)
  \/ \E h \in fetches : QrArrives(h) \/ QrFails(h)

Next == User \/ Network

Spec == Init /\ [][Next]_vars
----------------------------------------------------------------------------
(* Properties *)

Forms == [id : Ids \cup {None}, text : Texts \cup {None}, up : {Parent, None},
          touched : SUBSET {"text", "up"}]

Tables == UNION {[S -> RowSet] : S \in SUBSET Ids}
Answers == [rows : Tables, parents : SUBSET {Parent}]

Stages == {"sent", "ok", "refused"}
LoadSet == [n : 0..MaxPresses, got : Answers \cup {None}]
SaveSet == [n : Presses, form : Forms, stage : Stages]
DeleteSet == [n : Presses, id : Ids, stage : Stages]
FetchSet == [n : Presses, zone : Ids]

\* Every variable has the type its comment gives it: what is listed, and what
\* is written, are rows with a text and a parent, whatever was typed.
TypeOK ==
  /\ page \in Pages /\ parentThere \in BOOLEAN
  /\ table \in Tables /\ list \in Tables /\ choices \subseteq {Parent}
  /\ loads \subseteq LoadSet /\ saves \subseteq SaveSet
  /\ deletes \subseteq DeleteSet /\ fetches \subseteq FetchSet
  /\ form \in Forms
  /\ qrZone \in Ids \cup {None} /\ payload \in Ids \cup {None}
  /\ pressed \in 0..MaxPresses
  /\ {loading, isDialogOpen, isSubmitting, qrLoading, qrError, excused, crossed}
       \subseteq BOOLEAN

\* One save is under way at a time, and the button is disabled exactly while
\* it is: no order of closing a dialog over its save, opening another and
\* pressing again sends a second one beside it or leaves the button dead.
SaveOnce ==
  /\ \A g, h \in saves : g = h
  /\ isSubmitting <=> saves # {}

\* No spinner turns for an answer that will not come, however loads fail and
\* overtake each other: the rows behind it can be reached again.
SpinnersEnd ==
  /\ loading => loads # {}
  /\ qrLoading => fetches # {}

\* When nothing is under way the list is what the database holds, unless the
\* page had no way to know: a load failed or overlapped with another, an
\* answer was lost, somebody else wrote.
FreshWhenQuiet ==
  loads = {} /\ saves = {} /\ deletes = {} /\ ~excused => list = table

\* A save sends every field of its form, but it changes only those the
\* administrator touched: with the same exceptions, the form it was filled
\* from is never older than what the page itself has written.
UntouchedKept ==
  [][~excused' =>
       \A i \in DOMAIN table \cap DOMAIN table', field \in {"text", "up"} :
         table'[i][field] # table[i][field] =>
           \E h \in saves : h.form.id = i /\ field \in h.form.touched]_vars

\* The code on the screen under a zone's name, from where it is printed and
\* hung on the door, is that zone's, unless it was asked for while the code
\* of another was still on its way.
CodeOfZone == ~crossed /\ ShownCode # None => ShownCode = qrZone
=============================================================================
