-------------------------- MODULE AdminPages_proof --------------------------
(***************************************************************************)
(* What the pages of the administrator keep, for every set of rows, of     *)
(* texts and number of presses, however the requests overlap.              *)
(*                                                                         *)
(* SaveOnce, SpinnersEnd and CodeKnown, from which CodeOfZone follows, are *)
(* inductive as they stand.  FreshWhenQuiet and UntouchedKept are not:     *)
(* that the list agrees with the database when everything is answered      *)
(* rests on what held while it was not.  The invariant says it for every   *)
(* state: as long as nothing happened that the page cannot follow, one     *)
(* load is under way (OneLoad), and the list, or the answer that is about  *)
(* to replace it, differs from the database only by what the page has      *)
(* itself written or deleted and not heard of (RowsKnown).  A form is      *)
(* filled from such a list, and only one save is ever under way, so what   *)
(* it sends of the fields nobody touched is what the row holds             *)
(* (FormsCurrent).                                                         *)
(***************************************************************************)
EXTENDS AdminPages, TLAPS

\* The page has written or deleted a row and not heard of it yet.
Wrote == \E h \in saves : h.stage = "ok"
Deleted == \E h \in deletes : h.stage = "ok"

\* A row is named by the press that creates it, and no press creates two.
Numbered ==
  /\ DOMAIN table \subseteq Seed \cup 1..pressed
  /\ \A h \in saves : /\ h.n <= pressed
                      /\ h.form.text # None
                      /\ h.stage = "sent" => h.n \notin DOMAIN table

\* While nothing happens that the page cannot follow, loads do not overlap
\* and the spinner turns for the one that is under way.
OneLoad ==
  ~excused => /\ \A k, l \in loads : k = l
              /\ loads # {} => loading

\* Rows the page was told of are those of the database, but for what it has
\* written or deleted itself and not heard of; a row that was deleted aside,
\* they agree with the database even so.
Known(rows) ==
  /\ rows = table \/ Wrote \/ Deleted
  /\ Wrote \/ \A i \in DOMAIN rows \cap DOMAIN table : rows[i] = table[i]

RowsKnown ==
  ~excused => /\ loads = {} => Known(list)
              /\ \A l \in loads : l.got # None => Known(l.got.rows)

\* The fields of a form that were not touched are those of its row.
Current(f) ==
  f.id \in DOMAIN table =>
    /\ "text" \in f.touched \/ f.text = table[f.id].text
    /\ "up" \in f.touched \/ f.up = table[f.id].up

FormsCurrent ==
  ~excused => /\ isDialogOpen => Wrote \/ Current(form)
              /\ \A h \in saves : h.stage = "sent" => Current(h.form)

\* Unless two codes were asked for at a time, the one on its way is that of
\* the zone on the screen, and nothing is shown in its place.
CodeKnown ==
  ~crossed => /\ \A f, g \in fetches : f = g
              /\ qrZone # None =>
                   /\ \A f \in fetches : f.zone = qrZone
                   /\ qrLoading \/ qrError \/ payload = qrZone

----------------------------------------------------------------------------
LEMMA Named ==
  /\ MaxPresses \in Nat /\ Presses \subseteq Ids /\ Seed \subseteq Ids
  /\ None \notin Ids /\ None \notin Texts
  /\ \A n \in Presses : n \in Nat /\ n \in 0..MaxPresses /\ n \notin Seed
BY PagesAssumption DEF PagesAssumption, Presses, Ids

\* A table is a function on some of the ids, and each value is a row.
LEMMA TableRows ==
  ASSUME NEW f \in Tables
  PROVE  /\ DOMAIN f \subseteq Ids /\ f = [i \in DOMAIN f |-> f[i]]
         /\ \A i \in DOMAIN f : /\ f[i] \in RowSet
                                /\ f[i].text \in Texts /\ f[i].up \in {Parent, None}
<1>1. PICK S \in SUBSET Ids : f \in [S -> RowSet]
  BY DEF Tables
<1>2. \A r \in RowSet : r.text \in Texts /\ r.up \in {Parent, None}
  BY DEF RowSet
<1> QED
  BY <1>1, <1>2

LEMMA RowsTable ==
  ASSUME NEW S \in SUBSET Ids, NEW f \in [S -> RowSet]
  PROVE  f \in Tables
BY DEF Tables

LEMMA WithTable ==
  ASSUME NEW f \in Tables, NEW i \in Ids, NEW r \in RowSet
  PROVE  With(f, i, r) \in Tables
<1>1. With(f, i, r) \in [DOMAIN f \cup {i} -> RowSet]
  BY TableRows DEF With
<1> QED
  BY <1>1, TableRows, RowsTable

LEMMA WithoutTable ==
  ASSUME NEW f \in Tables, NEW i
  PROVE  Without(f, i) \in Tables
<1>1. Without(f, i) \in [DOMAIN f \ {i} -> RowSet]
  BY TableRows DEF Without
<1> QED
  BY <1>1, TableRows, RowsTable

\* An answer only turns the stage of the request.
LEMMA SaveAdvanced ==
  ASSUME NEW h \in SaveSet, NEW stage \in Stages
  PROVE  /\ [h EXCEPT !.stage = stage] \in SaveSet
         /\ [h EXCEPT !.stage = stage].n = h.n
         /\ [h EXCEPT !.stage = stage].form = h.form
         /\ [h EXCEPT !.stage = stage].stage = stage
BY DEF SaveSet

LEMMA DeleteAdvanced ==
  ASSUME NEW h \in DeleteSet, NEW stage \in Stages
  PROVE  /\ [h EXCEPT !.stage = stage] \in DeleteSet
         /\ [h EXCEPT !.stage = stage].stage = stage
BY DEF DeleteSet

----------------------------------------------------------------------------
(* Types. *)

LEMMA TypeInitial == Init => TypeOK
<1> SUFFICES ASSUME Init PROVE TypeOK
  OBVIOUS
<1>1. table \in Tables
  BY Named, RowsTable DEF Init
<1>2. list \in Tables
  <2>1. list \in [{} -> RowSet]
    BY DEF Init
  <2> QED
    BY <2>1, RowsTable
<1>3. [n |-> 0, got |-> None] \in LoadSet
  BY Named DEF LoadSet
<1>4. Blank \in Forms
  BY DEF Blank, Forms
<1>5. pressed \in 0..MaxPresses /\ choices \subseteq {Parent}
  BY Named DEF Init
<1>6. {loading, isDialogOpen, isSubmitting, qrLoading, qrError, excused, crossed}
        \subseteq BOOLEAN
  BY DEF Init
<1>7. /\ loads \subseteq LoadSet /\ saves \subseteq SaveSet
      /\ deletes \subseteq DeleteSet /\ fetches \subseteq FetchSet
  BY <1>3 DEF Init
<1>8. /\ page \in Pages /\ parentThere \in BOOLEAN /\ form \in Forms
      /\ qrZone \in Ids \cup {None} /\ payload \in Ids \cup {None}
  BY <1>4 DEF Init
<1> QED
  BY <1>1, <1>2, <1>5, <1>6, <1>7, <1>8 DEF TypeOK

LEMMA PressType ==
  ASSUME TypeOK, Press
  PROVE  pressed' \in Presses /\ pressed' \in 0..MaxPresses /\ pressed' = pressed + 1
BY Named DEF Press, Presses, TypeOK

LEMMA BeginLoadType ==
  ASSUME TypeOK, NEW n \in 0..MaxPresses, BeginLoad(n)
  PROVE  loads' \subseteq LoadSet /\ loading' = TRUE /\ excused' \in BOOLEAN
<1>1. [n |-> n, got |-> None] \in LoadSet
  BY DEF LoadSet
<1> QED
  BY <1>1 DEF BeginLoad, TypeOK

LEMMA LoadQrType ==
  ASSUME TypeOK, Press, NEW i \in Ids, LoadQr(i)
  PROVE  /\ fetches' \subseteq FetchSet /\ crossed' \in BOOLEAN
         /\ qrLoading' = TRUE /\ qrError' = FALSE /\ payload' = payload
<1>1. [n |-> pressed', zone |-> i] \in FetchSet
  BY PressType DEF FetchSet
<1> QED
  BY <1>1 DEF LoadQr, TypeOK

LEMMA SavedRow ==
  ASSUME TypeOK, NEW f \in Forms, f.text # None, Acceptable(f)
  PROVE  Saved(f) \in RowSet
<1>1. f.text \in Texts /\ f.up \in {Parent, None}
  BY DEF Forms
<1>2. f.id # None => table[f.id].up \in {Parent, None}
  BY TableRows DEF Acceptable, TypeOK
<1> QED
  BY <1>1, <1>2 DEF Saved, Row, RowSet

LEMMA ElsewhereType ==
  ASSUME TypeOK, Elsewhere
  PROVE  table' \in Tables /\ parentThere' \in BOOLEAN
<1>1. table \in Tables
  BY DEF TypeOK
<1>2. ASSUME NEW i \in DOMAIN table, NEW t \in Texts,
             table' = [table EXCEPT ![i].text = t]
      PROVE  table' \in Tables
  <2>1. [table[i] EXCEPT !.text = t] \in RowSet
    BY <1>1, TableRows DEF RowSet
  <2>2. table' = [table EXCEPT ![i] = [table[i] EXCEPT !.text = t]]
    BY <1>2
  <2>3. table' \in [DOMAIN table -> RowSet]
    BY <1>1, <2>1, <2>2, TableRows
  <2> QED
    BY <1>1, <2>3, TableRows, RowsTable
<1>3. Unparented \in Tables
  <2>1. Unparented \in [{j \in DOMAIN table : table[j].up = None} -> RowSet]
    BY <1>1, TableRows DEF Unparented
  <2>2. {j \in DOMAIN table : table[j].up = None} \subseteq Ids
    BY <1>1, TableRows
  <2> QED
    BY <2>1, <2>2, RowsTable
<1>4. [i \in DOMAIN table |-> [table[i] EXCEPT !.up = None]] \in Tables
  <2>1. \A i \in DOMAIN table : [table[i] EXCEPT !.up = None] \in RowSet
    BY <1>1, TableRows DEF RowSet
  <2>2. [i \in DOMAIN table |-> [table[i] EXCEPT !.up = None]]
          \in [DOMAIN table -> RowSet]
    BY <2>1
  <2> QED
    BY <1>1, <2>2, TableRows, RowsTable
<1>5. \A i : Without(table, i) \in Tables
  BY <1>1, WithoutTable
<1> QED
  BY <1>2, <1>3, <1>4, <1>5 DEF Elsewhere, TypeOK

\* The step of a page splits by what it may write; the rest keeps its type.
LEMMA TypeStep == TypeOK /\ Numbered /\ [Next]_vars => TypeOK'
<1> SUFFICES ASSUME TypeOK, Numbered, [Next]_vars PROVE TypeOK'
  OBVIOUS
<1> USE DEF shown, dialog, server, qr
<1>1. CASE OpenCreate \/ Cancel
  <2>1. form' \in Forms /\ isDialogOpen' \in BOOLEAN /\ pressed' \in 0..MaxPresses
    <3>1. Blank \in Forms
      BY DEF Blank, Forms
    <3> QED
      BY <1>1, <3>1, PressType DEF OpenCreate, Cancel, TypeOK
  <2> QED
    BY <1>1, <2>1 DEF OpenCreate, Cancel, TypeOK
<1>2. ASSUME NEW i \in Ids, OpenEdit(i)
      PROVE  TypeOK'
  <2>1. i \in DOMAIN list /\ Press
    BY <1>2 DEF OpenEdit, Offered
  <2>2. list[i].text \in Texts /\ list[i].up \in {Parent, None}
    BY <2>1, TableRows DEF TypeOK
  <2>3. form' \in Forms
    BY <1>2, <2>2 DEF OpenEdit, Forms
  <2>4. pressed' \in 0..MaxPresses
    BY <2>1, PressType
  <2> QED
    BY <1>2, <2>3, <2>4 DEF OpenEdit, TypeOK
<1>3. ASSUME NEW t \in Texts, TypeText(t)
      PROVE  TypeOK'
  <2>1. form' \in Forms
    BY <1>3 DEF TypeText, TypeOK, Forms
  <2> QED
    BY <1>3, <2>1 DEF TypeText, TypeOK
<1>4. ASSUME NEW p \in {Parent, None}, ChooseParent(p)
      PROVE  TypeOK'
  <2>1. form' \in Forms
    BY <1>4 DEF ChooseParent, TypeOK, Forms
  <2> QED
    BY <1>4, <2>1 DEF ChooseParent, TypeOK
<1>5. CASE Save
  <2>1. pressed' \in Presses /\ pressed' \in 0..MaxPresses
    BY <1>5, PressType DEF Save
  <2>2. [n |-> pressed', form |-> form, stage |-> "sent"] \in SaveSet
    BY <2>1 DEF SaveSet, Stages, TypeOK
  <2>3. saves' \subseteq SaveSet
    BY <1>5, <2>2 DEF Save, TypeOK
  <2> QED
    BY <1>5, <2>1, <2>3 DEF Save, TypeOK
<1>6. ASSUME NEW h \in saves, SaveHandled(h)
      PROVE  TypeOK'
  <2>1. h \in SaveSet /\ h.n \in Ids /\ h.form \in Forms
    BY Named DEF TypeOK, SaveSet
  <2>2. \A stage \in Stages : Advanced(saves, h, stage) \subseteq SaveSet
    BY <2>1, SaveAdvanced DEF Advanced, TypeOK
  <2>3. saves' \subseteq SaveSet
    BY <1>6, <2>2 DEF SaveHandled, Stages
  <2>4. table' \in Tables
    <3>1. CASE Acceptable(h.form)
      <4>1. table' = With(table, IF h.form.id = None THEN h.n ELSE h.form.id,
                          Saved(h.form))
        BY <1>6, <3>1 DEF SaveHandled
      <4>2. h.form.id \in Ids \cup {None}
        BY <2>1 DEF Forms
      <4>3. h.form.text # None
        BY DEF Numbered
      <4> QED
        BY <2>1, <3>1, <4>1, <4>2, <4>3, SavedRow, WithTable DEF TypeOK
    <3>2. CASE ~Acceptable(h.form)
      BY <1>6, <3>2 DEF SaveHandled, TypeOK
    <3> QED
      BY <3>1, <3>2
  <2> QED
    BY <1>6, <2>3, <2>4 DEF SaveHandled, TypeOK
<1>7. ASSUME NEW h \in saves, SaveAnswered(h)
      PROVE  TypeOK'
  <2>1. h.n \in 0..MaxPresses
    BY Named DEF TypeOK, SaveSet
  <2>2. loads' \subseteq LoadSet /\ loading' = TRUE /\ excused' \in BOOLEAN
    BY <1>7, <2>1, BeginLoadType DEF SaveAnswered
  <2> QED
    BY <1>7, <2>2 DEF SaveAnswered, BeginLoad, TypeOK
<1>8. ASSUME NEW h \in saves, SaveRefused(h) \/ SaveUnheard(h)
      PROVE  TypeOK'
  BY <1>8 DEF SaveRefused, SaveUnheard, TypeOK
<1>9. ASSUME NEW i \in Ids, Delete(i)
      PROVE  TypeOK'
  <2>1. pressed' \in Presses /\ pressed' \in 0..MaxPresses
    BY <1>9, PressType DEF Delete
  <2>2. [n |-> pressed', id |-> i, stage |-> "sent"] \in DeleteSet
    BY <2>1 DEF DeleteSet, Stages
  <2>3. deletes' \subseteq DeleteSet
    BY <1>9, <2>2 DEF Delete, TypeOK
  <2> QED
    BY <1>9, <2>1, <2>3 DEF Delete, TypeOK
<1>10. ASSUME NEW h \in deletes, DeleteHandled(h)
       PROVE  TypeOK'
  <2>1. \A stage \in Stages : Advanced(deletes, h, stage) \subseteq DeleteSet
    BY DeleteAdvanced DEF Advanced, TypeOK
  <2>2. deletes' \subseteq DeleteSet
    BY <1>10, <2>1 DEF DeleteHandled, Stages
  <2>3. table' \in Tables
    BY <1>10, WithoutTable DEF DeleteHandled, TypeOK
  <2> QED
    BY <1>10, <2>2, <2>3 DEF DeleteHandled, TypeOK
<1>11. ASSUME NEW h \in deletes, DeleteAnswered(h)
       PROVE  TypeOK'
  <2>1. h.n \in 0..MaxPresses
    BY Named DEF TypeOK, DeleteSet
  <2>2. loads' \subseteq LoadSet /\ loading' = TRUE /\ excused' \in BOOLEAN
    BY <1>11, <2>1, BeginLoadType DEF DeleteAnswered
  <2> QED
    BY <1>11, <2>2 DEF DeleteAnswered, BeginLoad, TypeOK
<1>12. ASSUME NEW h \in deletes, DeleteRefused(h) \/ DeleteUnheard(h)
       PROVE  TypeOK'
  BY <1>12 DEF DeleteRefused, DeleteUnheard, TypeOK
<1>13. ASSUME NEW l \in loads, LoadRead(l)
       PROVE  TypeOK'
  <2>1. [rows |-> table,
         parents |-> IF Linked /\ parentThere THEN {Parent} ELSE {}] \in Answers
    BY DEF Answers, TypeOK
  <2>2. loads' \subseteq LoadSet
    BY <1>13, <2>1 DEF LoadRead, LoadSet, TypeOK
  <2> QED
    BY <1>13, <2>2 DEF LoadRead, TypeOK
<1>14. ASSUME NEW l \in loads, LoadDone(l)
       PROVE  TypeOK'
  <2>1. l.got \in Answers
    BY <1>14 DEF LoadDone, LoadSet, TypeOK
  <2>2. list' \in Tables /\ choices' \subseteq {Parent}
    BY <1>14, <2>1 DEF LoadDone, Answers
  <2> QED
    BY <1>14, <2>2 DEF LoadDone, TypeOK
<1>15. ASSUME NEW l \in loads, LoadFails(l)
       PROVE  TypeOK'
  BY <1>15 DEF LoadFails, TypeOK
<1>16. ASSUME NEW i \in Ids, ShowQr(i)
       PROVE  TypeOK'
  <2>1. Press /\ LoadQr(i) /\ qrZone' = i
    BY <1>16 DEF ShowQr
  <2> QED
    BY <1>16, <2>1, PressType, LoadQrType DEF ShowQr, TypeOK
<1>17. CASE RetryQr
  <2>1. Press /\ LoadQr(qrZone) /\ qrZone \in Ids
    BY <1>17 DEF RetryQr, TypeOK
  <2> QED
    BY <1>17, <2>1, PressType, LoadQrType DEF RetryQr, TypeOK
<1>18. CASE CloseQr
  BY <1>18 DEF CloseQr, TypeOK
<1>19. ASSUME NEW h \in fetches, QrArrives(h) \/ QrFails(h)
       PROVE  TypeOK'
  <2>1. h.zone \in Ids
    BY DEF TypeOK, FetchSet
  <2> QED
    BY <1>19, <2>1 DEF QrArrives, QrFails, TypeOK
<1>20. CASE Elsewhere
  <2>1. table' \in Tables /\ parentThere' \in BOOLEAN /\ pressed' \in 0..MaxPresses
    BY <1>20, ElsewhereType, PressType DEF Elsewhere
  <2> QED
    BY <1>20, <2>1 DEF Elsewhere, TypeOK
<1>21. CASE UNCHANGED vars
  BY <1>21 DEF vars, TypeOK
<1> QED
  BY <1>1, <1>2, <1>3, <1>4, <1>5, <1>6, <1>7, <1>8, <1>9, <1>10, <1>11,
     <1>12, <1>13, <1>14, <1>15, <1>16, <1>17, <1>18, <1>19, <1>20, <1>21
  DEF Next, User, Network

----------------------------------------------------------------------------
(* SaveOnce and SpinnersEnd are inductive as they stand. *)

\* A press adds a save only when none is under way, and each of its answers
\* takes away the only one there is.
LEMMA SaveOnceStep == SaveOnce /\ [Next]_vars => SaveOnce'
<1> SUFFICES ASSUME SaveOnce, [Next]_vars PROVE SaveOnce'
  OBVIOUS
<1> USE DEF dialog
<1>1. ASSUME UNCHANGED <<isSubmitting, saves>>
      PROVE  SaveOnce'
  BY <1>1 DEF SaveOnce
<1>2. CASE Save
  <2>1. saves = {}
    BY <1>2 DEF Save, SaveOnce
  <2> QED
    BY <1>2, <2>1 DEF Save, SaveOnce
<1>3. ASSUME NEW h \in saves, SaveHandled(h)
      PROVE  SaveOnce'
  <2>1. saves = {h} /\ isSubmitting
    BY DEF SaveOnce
  <2>2. PICK stage \in Stages : saves' = Advanced(saves, h, stage)
    BY <1>3 DEF SaveHandled, Stages
  <2>3. saves' = {[h EXCEPT !.stage = stage]} /\ isSubmitting' = isSubmitting
    BY <1>3, <2>1, <2>2 DEF Advanced, SaveHandled
  <2> QED
    BY <2>1, <2>3 DEF SaveOnce
<1>4. ASSUME NEW h \in saves, SaveAnswered(h) \/ SaveRefused(h) \/ SaveUnheard(h)
      PROVE  SaveOnce'
  <2>1. saves = {h}
    BY DEF SaveOnce
  <2>2. saves' = {} /\ isSubmitting' = FALSE
    BY <1>4, <2>1 DEF SaveAnswered, SaveRefused, SaveUnheard
  <2> QED
    BY <2>2 DEF SaveOnce
<1>5. CASE UNCHANGED vars
  BY <1>1, <1>5 DEF vars
<1> QED
  BY <1>1, <1>2, <1>3, <1>4, <1>5
  DEF Next, User, Network, OpenCreate, OpenEdit, TypeText, ChooseParent, Cancel,
      Delete, DeleteHandled, DeleteAnswered, DeleteRefused, DeleteUnheard,
      LoadRead, LoadDone, LoadFails, ShowQr, RetryQr, CloseQr, QrArrives,
      QrFails, Elsewhere

LEMMA SpinnersStep == SpinnersEnd /\ [Next]_vars => SpinnersEnd'
<1> SUFFICES ASSUME SpinnersEnd, [Next]_vars PROVE SpinnersEnd'
  OBVIOUS
<1> USE DEF shown, qr
<1>1. ASSUME UNCHANGED <<loading, loads, qrLoading, fetches>>
      PROVE  SpinnersEnd'
  BY <1>1 DEF SpinnersEnd
<1>2. ASSUME NEW n, BeginLoad(n), UNCHANGED <<qrLoading, fetches>>
      PROVE  SpinnersEnd'
  BY <1>2 DEF BeginLoad, SpinnersEnd
<1>3. ASSUME NEW l \in loads, LoadRead(l) \/ LoadDone(l) \/ LoadFails(l)
      PROVE  SpinnersEnd'
  <2>1. CASE LoadRead(l)
    BY <2>1 DEF LoadRead, SpinnersEnd
  <2>2. CASE LoadDone(l) \/ LoadFails(l)
    BY <2>2 DEF LoadDone, LoadFails, SpinnersEnd
  <2> QED
    BY <1>3, <2>1, <2>2
<1>4. ASSUME NEW i, LoadQr(i), UNCHANGED <<loading, loads>>
      PROVE  SpinnersEnd'
  BY <1>4 DEF LoadQr, SpinnersEnd
<1>5. ASSUME NEW h \in fetches, QrArrives(h) \/ QrFails(h)
      PROVE  SpinnersEnd'
  BY <1>5 DEF QrArrives, QrFails, SpinnersEnd
<1>6. ASSUME NEW h, SaveAnswered(h) \/ DeleteAnswered(h)
      PROVE  SpinnersEnd'
  BY <1>2, <1>6 DEF SaveAnswered, DeleteAnswered
<1>7. ASSUME NEW i, ShowQr(i)
      PROVE  SpinnersEnd'
  BY <1>4, <1>7 DEF ShowQr
<1>8. CASE RetryQr
  BY <1>4, <1>8 DEF RetryQr
<1>9. CASE UNCHANGED vars
  BY <1>1, <1>9 DEF vars
<1> QED
  BY <1>1, <1>3, <1>5, <1>6, <1>7, <1>8, <1>9
  DEF Next, User, Network, OpenCreate, OpenEdit, TypeText, ChooseParent, Cancel,
      Save, SaveHandled, SaveRefused, SaveUnheard, Delete, DeleteHandled,
      DeleteRefused, DeleteUnheard, CloseQr, Elsewhere

----------------------------------------------------------------------------
(* The rows the page knows, and the forms filled from them. *)

\* A table that loses a row keeps the others as they are.
LEMMA WithoutRow ==
  ASSUME NEW f, NEW i, NEW g, g = f \/ g = Without(f, i)
  PROVE  /\ DOMAIN g \subseteq DOMAIN f
         /\ \A j \in DOMAIN g : g[j] = f[j]
<1>1. CASE g = f
  BY <1>1
<1>2. CASE g = Without(f, i)
  BY <1>2 DEF Without
<1> QED
  BY <1>1, <1>2

LEMMA NumberedStep ==
  ASSUME TypeOK, SaveOnce, Numbered, [Next]_vars
  PROVE  Numbered'
<1> USE DEF server
<1>1. pressed \in Nat /\ pressed' \in Nat /\ pressed <= pressed'
  <2>1. Press \/ pressed' = pressed
    BY DEF Next, User, Network, vars, OpenCreate, OpenEdit, TypeText,
           ChooseParent, Cancel, Save, SaveHandled, SaveAnswered, SaveRefused,
           SaveUnheard, Delete, DeleteHandled, DeleteAnswered, DeleteRefused,
           DeleteUnheard, LoadRead, LoadDone, LoadFails, ShowQr, RetryQr,
           CloseQr, QrArrives, QrFails, Elsewhere
  <2>2. pressed \in Nat
    BY Named DEF TypeOK
  <2> QED
    BY <2>1, <2>2 DEF Press
<1>2. 1..pressed \subseteq 1..pressed'
  BY <1>1
<1>3. ASSUME DOMAIN table' \subseteq DOMAIN table, saves' \subseteq saves
      PROVE  Numbered'
  <2>1. \A h \in saves' : h.n <= pressed'
    <3>1. \A h \in saves : h.n \in Nat /\ h.n <= pressed
      BY Named DEF Numbered, TypeOK, SaveSet
    <3> QED
      BY <1>1, <1>3, <3>1
  <2> QED
    BY <1>2, <1>3, <2>1 DEF Numbered
<1>4. CASE Save
  <2>1. saves = {}
    BY <1>4 DEF Save, SaveOnce
  <2>2. /\ saves' = {[n |-> pressed', form |-> form, stage |-> "sent"]}
        /\ form.text # None /\ table' = table
    BY <1>4, <2>1 DEF Save
  <2>3. pressed' \notin DOMAIN table
    <3>1. pressed' \notin Seed /\ pressed' = pressed + 1
      BY <1>4, PressType, Named DEF Save
    <3>2. pressed' \notin 1..pressed
      BY <1>1, <3>1
    <3> QED
      BY <3>1, <3>2 DEF Numbered
  <2> QED
    BY <1>1, <1>2, <2>2, <2>3 DEF Numbered
<1>5. ASSUME NEW h \in saves, SaveHandled(h)
      PROVE  Numbered'
  <2>1. saves = {h} /\ h \in SaveSet /\ h.n \in Nat /\ h.n > 0 /\ h.n <= pressed
    <3>1. h.n \in 1..MaxPresses /\ h \in SaveSet
      BY DEF TypeOK, SaveSet, Presses
    <3> QED
      BY <3>1, Named DEF SaveOnce, Numbered
  <2>2. PICK stage \in {"ok", "refused"} : saves' = {[h EXCEPT !.stage = stage]}
    <3>1. \A stage : Advanced(saves, h, stage) = {[h EXCEPT !.stage = stage]}
      BY <2>1 DEF Advanced
    <3> QED
      BY <1>5, <3>1 DEF SaveHandled
  <2>3. \A g \in saves' : g.n = h.n /\ g.form = h.form /\ g.stage # "sent"
    <3> DEFINE g == [h EXCEPT !.stage = stage]
    <3>1. g.n = h.n /\ g.form = h.form /\ g.stage = stage
      BY <2>1, SaveAdvanced DEF Stages
    <3> HIDE DEF g
    <3>2. saves' = {g}
      BY <2>2 DEF g
    <3> QED
      BY <3>1, <3>2
  <2>4. DOMAIN table' \subseteq DOMAIN table \cup {h.n}
    <3>1. CASE Acceptable(h.form)
      <4>1. table' = With(table, IF h.form.id = None THEN h.n ELSE h.form.id,
                          Saved(h.form))
        BY <1>5, <3>1 DEF SaveHandled
      <4>2. h.form.id # None => h.form.id \in DOMAIN table
        BY <3>1 DEF Acceptable
      <4> DEFINE i == IF h.form.id = None THEN h.n ELSE h.form.id
      <4>3. i \in DOMAIN table \cup {h.n}
        BY <4>2
      <4>4. DOMAIN table' = DOMAIN table \cup {i}
        <5>1. table' = With(table, i, Saved(h.form))
          BY <4>1
        <5> HIDE DEF i
        <5> QED
          BY <5>1 DEF With
      <4> QED
        BY <4>3, <4>4
    <3>2. CASE ~Acceptable(h.form)
      BY <1>5, <3>2 DEF SaveHandled
    <3> QED
      BY <3>1, <3>2
  <2>5. h.n \in 1..pressed
    BY <1>1, <2>1
  <2>6. pressed' = pressed
    BY <1>5 DEF SaveHandled
  <2> QED
    BY <2>1, <2>3, <2>4, <2>5, <2>6 DEF Numbered
<1>6. ASSUME NEW h \in saves, SaveAnswered(h) \/ SaveRefused(h) \/ SaveUnheard(h)
      PROVE  Numbered'
  BY <1>3, <1>6 DEF SaveAnswered, SaveRefused, SaveUnheard
<1>7. ASSUME NEW h \in deletes, DeleteHandled(h)
      PROVE  Numbered'
  <2>1. table' = table \/ table' = Without(table, h.id)
    BY <1>7 DEF DeleteHandled
  <2>2. DOMAIN table' \subseteq DOMAIN table
    BY <2>1, WithoutRow
  <2> QED
    BY <1>3, <1>7, <2>2 DEF DeleteHandled
<1>8. CASE Elsewhere
  <2>1. DOMAIN table' \subseteq DOMAIN table
    <3>1. \/ \E i, t : table' = [table EXCEPT ![i].text = t]
          \/ \E i : table' = Without(table, i)
          \/ table' = Unparented
          \/ table' = [i \in DOMAIN table |-> [table[i] EXCEPT !.up = None]]
      BY <1>8 DEF Elsewhere
    <3>2. \A i : DOMAIN Without(table, i) \subseteq DOMAIN table
      BY DEF Without
    <3> QED
      BY <3>1, <3>2 DEF Unparented
  <2> QED
    BY <1>3, <1>8, <2>1 DEF Elsewhere
<1>9. CASE UNCHANGED vars
  BY <1>3, <1>9 DEF vars
<1> QED
  BY <1>3, <1>4, <1>5, <1>6, <1>7, <1>8, <1>9
  DEF Next, User, Network, OpenCreate, OpenEdit, TypeText, ChooseParent, Cancel,
      Delete, DeleteAnswered, DeleteRefused, DeleteUnheard, LoadRead, LoadDone,
      LoadFails, ShowQr, RetryQr, CloseQr, QrArrives, QrFails

LEMMA OneLoadStep ==
  ASSUME OneLoad, [Next]_vars
  PROVE  OneLoad'
<1> USE DEF shown
<1>1. ASSUME UNCHANGED <<loads, loading>>, ~excused' => ~excused
      PROVE  OneLoad'
  BY <1>1 DEF OneLoad
<1>2. ASSUME NEW n, BeginLoad(n)
      PROVE  OneLoad'
  <2>1. ASSUME ~excused'
        PROVE  loads' = {[n |-> n, got |-> None]} /\ loading' = TRUE
    BY <1>2, <2>1 DEF BeginLoad
  <2> QED
    BY <2>1 DEF OneLoad
<1>3. ASSUME NEW l \in loads, LoadRead(l) \/ LoadDone(l) \/ LoadFails(l)
      PROVE  OneLoad'
  <2>1. CASE LoadRead(l)
    <3>1. ASSUME ~excused
          PROVE  loads = {l} /\ loading
      BY <3>1 DEF OneLoad
    <3>2. PICK k : loads' = (loads \ {l}) \cup {k}
      BY <2>1 DEF LoadRead
    <3>3. excused' = excused /\ loading' = loading
      BY <2>1 DEF LoadRead
    <3> QED
      BY <3>1, <3>2, <3>3 DEF OneLoad
  <2>2. CASE LoadDone(l)
    <3>1. ASSUME ~excused'
          PROVE  loads' = {}
      BY <2>2, <3>1 DEF LoadDone, OneLoad
    <3> QED
      BY <3>1 DEF OneLoad
  <2>3. CASE LoadFails(l)
    BY <2>3 DEF LoadFails, OneLoad
  <2> QED
    BY <1>3, <2>1, <2>2, <2>3
<1>4. ASSUME NEW h, SaveAnswered(h) \/ DeleteAnswered(h)
      PROVE  OneLoad'
  BY <1>2, <1>4 DEF SaveAnswered, DeleteAnswered
<1>5. ASSUME NEW h, SaveUnheard(h) \/ DeleteUnheard(h)
      PROVE  OneLoad'
  BY <1>5 DEF SaveUnheard, DeleteUnheard, OneLoad
<1>6. CASE Elsewhere
  BY <1>6 DEF Elsewhere, OneLoad
<1>7. CASE UNCHANGED vars
  BY <1>1, <1>7 DEF vars
<1>8. CASE User
  BY <1>1, <1>6, <1>8
  DEF User, OpenCreate, OpenEdit, TypeText, ChooseParent, Cancel, Save, Delete,
      ShowQr, RetryQr, CloseQr
<1>9. CASE Network
  BY <1>1, <1>3, <1>4, <1>5, <1>9
  DEF Network, SaveHandled, SaveRefused, DeleteHandled, DeleteRefused,
      QrArrives, QrFails
<1> QED
  BY <1>7, <1>8, <1>9 DEF Next

LEMMA RowsKnownStep ==
  ASSUME TypeOK, OneLoad, RowsKnown, [Next]_vars
  PROVE  RowsKnown'
<1> USE DEF shown, server
<1>1. ASSUME ~excused' => ~excused,
             UNCHANGED <<list, loads, table>>,
             Wrote => Wrote', Deleted => Deleted'
      PROVE  RowsKnown'
  BY <1>1 DEF RowsKnown, Known
<1>2. ASSUME NEW n, BeginLoad(n)
      PROVE  RowsKnown'
  <2>1. ASSUME ~excused'
        PROVE  loads' # {} /\ \A l \in loads' : l.got = None
    <3>1. loads' = {[n |-> n, got |-> None]}
      BY <1>2, <2>1 DEF BeginLoad
    <3> QED
      BY <3>1
  <2> QED
    BY <2>1 DEF RowsKnown
<1>3. ASSUME NEW l \in loads, LoadRead(l)
      PROVE  RowsKnown'
  <2> DEFINE answer == [rows |-> table,
                        parents |-> IF Linked /\ parentThere THEN {Parent} ELSE {}]
             k == [l EXCEPT !.got = answer]
  <2>1. k.got.rows = table
    BY DEF TypeOK, LoadSet
  <2>2. ~excused => loads' = {k}
    BY <1>3 DEF LoadRead, OneLoad
  <2>3. table' = table /\ excused' = excused
    BY <1>3 DEF LoadRead
  <2> HIDE DEF k
  <2> QED
    BY <2>1, <2>2, <2>3 DEF RowsKnown, Known
<1>4. ASSUME NEW l \in loads, LoadDone(l)
      PROVE  RowsKnown'
  <2>1. /\ l.got # None /\ list' = l.got.rows
        /\ UNCHANGED <<table, saves, deletes, excused>>
    BY <1>4 DEF LoadDone
  <2>2. ~excused => Known(l.got.rows) /\ loads' = {}
    BY <1>4, <2>1 DEF LoadDone, RowsKnown, OneLoad
  <2> QED
    BY <2>1, <2>2 DEF RowsKnown, Known, Wrote, Deleted
<1>5. ASSUME NEW h \in saves, SaveHandled(h)
      PROVE  RowsKnown'
  <2>1. h.stage = "sent" /\ UNCHANGED <<list, loads, deletes, excused>>
    BY <1>5 DEF SaveHandled
  <2>2. CASE Acceptable(h.form)
    <3>1. saves' = Advanced(saves, h, "ok")
      BY <1>5, <2>2 DEF SaveHandled
    <3>2. [h EXCEPT !.stage = "ok"].stage = "ok"
      BY SaveAdvanced DEF Stages, TypeOK
    <3>3. Wrote'
      BY <3>1, <3>2 DEF Wrote, Advanced
    <3> QED
      BY <2>1, <3>3 DEF RowsKnown, Known
  <2>3. CASE ~Acceptable(h.form)
    <3>1. saves' = Advanced(saves, h, "refused") /\ table' = table
      BY <1>5, <2>3 DEF SaveHandled
    <3>2. Wrote => Wrote'
      BY <2>1, <3>1 DEF Wrote, Advanced
    <3> QED
      BY <1>1, <2>1, <3>1, <3>2 DEF Deleted
  <2> QED
    BY <2>2, <2>3
<1>6. ASSUME NEW h \in deletes, DeleteHandled(h)
      PROVE  RowsKnown'
  <2>1. h.stage = "sent" /\ UNCHANGED <<list, loads, saves, excused>>
    BY <1>6 DEF DeleteHandled
  <2>2. CASE table' = Without(table, h.id) /\ deletes' = Advanced(deletes, h, "ok")
    <3>1. [h EXCEPT !.stage = "ok"].stage = "ok"
      BY DeleteAdvanced DEF Stages, TypeOK
    <3>2. Deleted'
      BY <2>2, <3>1 DEF Deleted, Advanced
    <3>3. /\ DOMAIN table' \subseteq DOMAIN table
          /\ \A i \in DOMAIN table' : table'[i] = table[i]
      BY <2>2, WithoutRow
    <3>4. ASSUME NEW rows, Known(rows)
          PROVE  Wrote \/ \A i \in DOMAIN rows \cap DOMAIN table' :
                            rows[i] = table'[i]
      BY <3>3, <3>4 DEF Known
    <3> QED
      BY <2>1, <3>2, <3>4 DEF RowsKnown, Known, Wrote
  <2>3. CASE table' = table /\ deletes' = Advanced(deletes, h, "refused")
    <3>1. Deleted => Deleted'
      BY <2>1, <2>3 DEF Deleted, Advanced
    <3> QED
      BY <1>1, <2>1, <2>3, <3>1 DEF Wrote
  <2> QED
    BY <1>6, <2>2, <2>3 DEF DeleteHandled
<1>7. ASSUME NEW h \in saves, SaveRefused(h)
      PROVE  RowsKnown'
  <2>1. Wrote => Wrote'
    BY <1>7 DEF SaveRefused, Wrote
  <2> QED
    BY <1>1, <1>7, <2>1 DEF SaveRefused, Deleted
<1>8. ASSUME NEW h \in deletes, DeleteRefused(h)
      PROVE  RowsKnown'
  <2>1. Deleted => Deleted'
    BY <1>8 DEF DeleteRefused, Deleted
  <2> QED
    BY <1>1, <1>8, <2>1 DEF DeleteRefused, Wrote
<1>9. ASSUME excused'
      PROVE  RowsKnown'
  BY <1>9 DEF RowsKnown
<1>10. CASE Save \/ \E i \in Ids : Delete(i)
  <2>1. (Wrote => Wrote') /\ (Deleted => Deleted')
    BY <1>10 DEF Save, Delete, Wrote, Deleted
  <2> QED
    BY <1>1, <1>10, <2>1 DEF Save, Delete
<1>11. ASSUME UNCHANGED <<list, loads, table, saves, deletes, excused>>
       PROVE  RowsKnown'
  BY <1>1, <1>11 DEF Wrote, Deleted
<1>12. CASE User
  BY <1>9, <1>10, <1>11, <1>12
  DEF User, OpenCreate, OpenEdit, TypeText, ChooseParent, Cancel, ShowQr,
      RetryQr, CloseQr, Elsewhere
<1>13. CASE Network
  BY <1>2, <1>3, <1>4, <1>5, <1>6, <1>7, <1>8, <1>9, <1>11, <1>13
  DEF Network, LoadFails, SaveAnswered, SaveUnheard, DeleteAnswered,
      DeleteUnheard, QrArrives, QrFails
<1>14. CASE UNCHANGED vars
  BY <1>11, <1>14 DEF vars
<1> QED
  BY <1>12, <1>13, <1>14 DEF Next

LEMMA FormsCurrentStep ==
  ASSUME TypeOK, SaveOnce, OneLoad, RowsKnown, FormsCurrent, [Next]_vars
  PROVE  FormsCurrent'
<1> USE DEF shown, dialog, server
<1>0. None \notin DOMAIN table
  BY TableRows, Named DEF TypeOK
<1>1. ASSUME ~excused' => ~excused,
             UNCHANGED <<isDialogOpen, form, table, saves>>
      PROVE  FormsCurrent'
  BY <1>1 DEF FormsCurrent, Current, Wrote
<1>2. ASSUME NEW f, form' = f, ~excused => Wrote \/ Current(f),
             UNCHANGED <<excused, table, saves>>
      PROVE  FormsCurrent'
  BY <1>2 DEF FormsCurrent, Current, Wrote
<1>3. CASE OpenCreate
  BY <1>0, <1>2, <1>3 DEF OpenCreate, Blank, Current
<1>4. ASSUME NEW i \in Ids, OpenEdit(i)
      PROVE  FormsCurrent'
  <2>1. i \in DOMAIN list /\ ~loading
    BY <1>4 DEF OpenEdit, Offered
  <2> DEFINE f == [id |-> i, text |-> list[i].text, up |-> list[i].up,
                   touched |-> {}]
  <2>2. ~excused => Known(list)
    BY <2>1 DEF OneLoad, RowsKnown
  <2>3. ~excused => Wrote \/ Current(f)
    BY <2>1, <2>2 DEF Known, Current
  <2>4. form' = f /\ UNCHANGED <<excused, table, saves>>
    BY <1>4 DEF OpenEdit
  <2> HIDE DEF f
  <2> QED
    BY <1>2, <2>3, <2>4
<1>5. ASSUME isDialogOpen,
             \/ \E t \in Texts : TypeText(t)
             \/ \E p \in {Parent, None} : ChooseParent(p)
      PROVE  FormsCurrent'
  <2> DEFINE Filled == /\ form'.id = form.id
                       /\ form.touched \subseteq form'.touched
                       /\ "text" \in form'.touched \/ form'.text = form.text
                       /\ "up" \in form'.touched \/ form'.up = form.up
  <2>1. Filled
    <3>1. ASSUME NEW t \in Texts, TypeText(t)
          PROVE  Filled
      BY <3>1 DEF TypeText, TypeOK, Forms
    <3>2. ASSUME NEW p \in {Parent, None}, ChooseParent(p)
          PROVE  Filled
      BY <3>2 DEF ChooseParent, TypeOK, Forms
    <3> QED
      BY <1>5, <3>1, <3>2
  <2>2. UNCHANGED <<excused, table, saves, isDialogOpen>>
    BY <1>5 DEF TypeText, ChooseParent
  <2> QED
    BY <1>5, <2>1, <2>2 DEF FormsCurrent, Current, Wrote
<1>6. CASE Cancel
  BY <1>6 DEF Cancel, FormsCurrent, Current
<1>7. CASE Save
  <2>1. /\ saves = {} /\ isDialogOpen
        /\ saves' = {[n |-> pressed', form |-> form, stage |-> "sent"]}
        /\ UNCHANGED <<isDialogOpen, form, table, excused>>
    BY <1>7 DEF Save, SaveOnce
  <2>2. ~excused => Current(form)
    BY <2>1 DEF FormsCurrent, Wrote
  <2> QED
    BY <2>1, <2>2 DEF FormsCurrent, Current, Wrote
<1>8. ASSUME NEW h \in saves, SaveHandled(h)
      PROVE  FormsCurrent'
  <2>1. /\ saves = {h} /\ h.stage = "sent"
        /\ UNCHANGED <<isDialogOpen, form, excused>>
    BY <1>8 DEF SaveHandled, SaveOnce
  <2>2. PICK stage \in {"ok", "refused"} :
          /\ saves' = {[h EXCEPT !.stage = stage]}
          /\ stage = "refused" => table' = table
    BY <1>8, <2>1 DEF SaveHandled, Advanced
  <2> DEFINE g == [h EXCEPT !.stage = stage]
  <2>3. g.stage = stage
    BY SaveAdvanced DEF Stages, TypeOK
  <2>4. saves' = {g}
    BY <2>2
  <2> HIDE DEF g
  <2>5. CASE stage = "ok"
    BY <2>1, <2>3, <2>4, <2>5 DEF FormsCurrent, Wrote
  <2>6. CASE stage = "refused"
    <3>1. ~excused /\ isDialogOpen => Current(form)
      BY <2>1 DEF FormsCurrent, Wrote
    <3> QED
      BY <2>1, <2>2, <2>3, <2>4, <2>6, <3>1 DEF FormsCurrent, Current
  <2> QED
    BY <2>5, <2>6
<1>9. ASSUME NEW h \in saves, SaveAnswered(h)
      PROVE  FormsCurrent'
  <2>1. saves' = {} /\ isDialogOpen' = FALSE
    BY <1>9 DEF SaveAnswered, SaveOnce
  <2> QED
    BY <2>1 DEF FormsCurrent
<1>10. ASSUME NEW h \in saves, SaveRefused(h)
       PROVE  FormsCurrent'
  <2>1. /\ saves = {h} /\ saves' = {} /\ h.stage = "refused"
        /\ UNCHANGED <<isDialogOpen, form, table, excused>>
    BY <1>10 DEF SaveRefused, SaveOnce
  <2> QED
    BY <2>1 DEF FormsCurrent, Current, Wrote
<1>11. ASSUME NEW h \in deletes, DeleteHandled(h)
       PROVE  FormsCurrent'
  <2>1. table' = table \/ table' = Without(table, h.id)
    BY <1>11 DEF DeleteHandled
  <2>2. /\ DOMAIN table' \subseteq DOMAIN table
        /\ \A i \in DOMAIN table' : table'[i] = table[i]
    BY <2>1, WithoutRow
  <2>3. UNCHANGED <<isDialogOpen, form, saves, excused>>
    BY <1>11 DEF DeleteHandled
  <2> QED
    BY <2>2, <2>3 DEF FormsCurrent, Current, Wrote
<1>12. ASSUME excused'
       PROVE  FormsCurrent'
  BY <1>12 DEF FormsCurrent
<1>13. CASE User
  BY <1>1, <1>3, <1>4, <1>5, <1>6, <1>7, <1>12, <1>13
  DEF User, TypeText, ChooseParent, Delete, ShowQr, RetryQr, CloseQr, Elsewhere
<1>14. CASE Network
  BY <1>1, <1>8, <1>9, <1>10, <1>11, <1>12, <1>14
  DEF Network, LoadRead, LoadDone, LoadFails, SaveUnheard, DeleteAnswered,
      DeleteRefused, DeleteUnheard, BeginLoad, QrArrives, QrFails
<1>15. CASE UNCHANGED vars
  BY <1>1, <1>15 DEF vars
<1> QED
  BY <1>13, <1>14, <1>15 DEF Next

----------------------------------------------------------------------------
(* The code on the screen. *)

LEMMA CodeKnownStep ==
  ASSUME TypeOK, CodeKnown, [Next]_vars
  PROVE  CodeKnown'
<1> USE DEF qr
<1>1. ASSUME UNCHANGED qr
      PROVE  CodeKnown'
  BY <1>1 DEF CodeKnown
<1>2. ASSUME NEW i, LoadQr(i), qrZone' = i
      PROVE  CodeKnown'
  <2>1. ASSUME ~crossed'
        PROVE  fetches' = {[n |-> pressed', zone |-> i]} /\ qrLoading'
    BY <1>2, <2>1 DEF LoadQr
  <2> QED
    BY <1>2, <2>1 DEF CodeKnown
<1>3. ASSUME NEW i, ShowQr(i)
      PROVE  CodeKnown'
  BY <1>2, <1>3 DEF ShowQr
<1>4. CASE RetryQr
  BY <1>2, <1>4 DEF RetryQr
<1>5. CASE CloseQr
  BY <1>5 DEF CloseQr, CodeKnown
<1>6. ASSUME NEW h \in fetches, QrArrives(h) \/ QrFails(h)
      PROVE  CodeKnown'
  BY <1>6 DEF QrArrives, QrFails, CodeKnown
<1>7. CASE UNCHANGED vars
  BY <1>1, <1>7 DEF vars
<1>8. CASE User
  BY <1>1, <1>3, <1>4, <1>5, <1>8
  DEF User, OpenCreate, OpenEdit, TypeText, ChooseParent, Cancel, Save, Delete,
      Elsewhere
<1>9. CASE Network
  BY <1>1, <1>6, <1>9
  DEF Network, LoadRead, LoadDone, LoadFails, SaveHandled, SaveAnswered,
      SaveRefused, SaveUnheard, DeleteHandled, DeleteAnswered, DeleteRefused,
      DeleteUnheard
<1> QED
  BY <1>7, <1>8, <1>9 DEF Next

----------------------------------------------------------------------------
Inv ==
  /\ TypeOK /\ SaveOnce /\ SpinnersEnd
  /\ Numbered /\ OneLoad /\ RowsKnown /\ FormsCurrent /\ CodeKnown

LEMMA InvInitial == Init => Inv
<1> SUFFICES ASSUME Init PROVE Inv
  OBVIOUS
<1>1. TypeOK
  BY TypeInitial
<1>2. SaveOnce /\ SpinnersEnd /\ CodeKnown
  BY DEF Init, SaveOnce, SpinnersEnd, CodeKnown
<1>3. Numbered /\ FormsCurrent
  BY DEF Init, Numbered, FormsCurrent
<1>4. OneLoad /\ RowsKnown
  <2>1. loads = {[n |-> 0, got |-> None]} /\ loading = TRUE
    BY DEF Init
  <2>2. loads # {} /\ \A l \in loads : l.got = None
    BY <2>1
  <2> QED
    BY <2>1, <2>2 DEF OneLoad, RowsKnown
<1> QED
  BY <1>1, <1>2, <1>3, <1>4 DEF Inv

LEMMA InvStep == Inv /\ [Next]_vars => Inv'
BY TypeStep, SaveOnceStep, SpinnersStep, NumberedStep, OneLoadStep,
   RowsKnownStep, FormsCurrentStep, CodeKnownStep
DEF Inv

LEMMA Invariant == Spec => []Inv
BY InvInitial, InvStep, PTL DEF Spec

----------------------------------------------------------------------------
\* Whatever loads, saves and deletes overlap, every variable of a page keeps
\* its type, and what is written is a row (handleSave of the four pages).
THEOREM TypeCorrect == Spec => []TypeOK
<1>1. Inv => TypeOK
  BY DEF Inv
<1> QED
  BY Invariant, <1>1, PTL

\* One save is under way at a time and its button is disabled meanwhile
\* (isSubmitting in handleSave and handleSubmit).
THEOREM SaveCorrect == Spec => []SaveOnce
<1>1. Inv => SaveOnce
  BY DEF Inv
<1> QED
  BY Invariant, <1>1, PTL

\* A spinner turns only while an answer is still to come (loading of the
\* pages, loading of QrCodeDialog).
THEOREM SpinnersCorrect == Spec => []SpinnersEnd
<1>1. Inv => SpinnersEnd
  BY DEF Inv
<1> QED
  BY Invariant, <1>1, PTL

\* Once everything is answered the list is what the database holds, unless
\* the page could not know (loadData after handleSave and handleDelete).
THEOREM FreshCorrect == Spec => []FreshWhenQuiet
<1>1. Inv => FreshWhenQuiet
  BY DEF Inv, RowsKnown, Known, Wrote, Deleted, FreshWhenQuiet
<1> QED
  BY Invariant, <1>1, PTL

\* The code that is shown and printed is that of the zone whose name stands
\* above it, unless two were asked for at a time (loadQr of QrCodeDialog).
THEOREM CodeCorrect == Spec => []CodeOfZone
<1>1. Inv => CodeOfZone
  BY DEF Inv, CodeKnown, CodeOfZone, ShownCode
<1> QED
  BY Invariant, <1>1, PTL

\* The only step that may change a field of a row is a save that the
\* administrator touched the field in (handleSave of the four pages), unless
\* somebody else writes.
THEOREM UntouchedCorrect == Spec => UntouchedKept
<1>1. Inv /\ [Next]_vars =>
        [~excused' =>
           \A i \in DOMAIN table \cap DOMAIN table', field \in {"text", "up"} :
             table'[i][field] # table[i][field] =>
               \E h \in saves : h.form.id = i /\ field \in h.form.touched]_vars
  <2> SUFFICES ASSUME Inv, Next, ~excused',
                      NEW i \in DOMAIN table \cap DOMAIN table',
                      NEW field \in {"text", "up"},
                      table'[i][field] # table[i][field]
               PROVE  \E h \in saves : h.form.id = i /\ field \in h.form.touched
    OBVIOUS
  <2>1. CASE \E h \in saves : SaveHandled(h)
    <3>1. PICK h \in saves : SaveHandled(h)
      BY <2>1
    <3>2. Acceptable(h.form) /\ h.stage = "sent" /\ excused' = excused
      BY <3>1 DEF SaveHandled
    <3> DEFINE f == h.form
               at == IF f.id = None THEN h.n ELSE f.id
    <3>3. table' = With(table, at, Saved(f))
      BY <3>1, <3>2 DEF SaveHandled
    <3>4. i = at /\ table'[i] = Saved(f)
      <4> HIDE DEF at, f
      <4>1. table'[at] = Saved(f)
        BY <3>3 DEF With
      <4>2. \A j \in DOMAIN table \ {at} : table'[j] = table[j]
        BY <3>3 DEF With
      <4>3. i = at
        BY <4>2
      <4> QED
        BY <4>1, <4>3
    <3>5. h.n \notin DOMAIN table
      BY <3>2 DEF Inv, Numbered
    <3>6. i = f.id /\ f.id # None
      BY <3>4, <3>5
    <3>7. /\ "text" \in f.touched \/ f.text = table[i].text
          /\ "up" \in f.touched \/ f.up = table[i].up
      BY <3>2, <3>6 DEF Inv, FormsCurrent, Current
    <3>8. /\ table'[i].text = f.text
          /\ table'[i].up = IF f.up = None THEN table[i].up ELSE f.up
      BY <3>4, <3>6 DEF Saved, Row
    <3>9. field \in f.touched
      <4>1. CASE field = "text"
        BY <3>7, <3>8, <4>1
      <4>2. CASE field = "up"
        BY <3>7, <3>8, <4>2
      <4> QED
        BY <4>1, <4>2
    <3> QED
      BY <3>6, <3>9
  <2>2. CASE \E h \in deletes : DeleteHandled(h)
    <3>1. PICK h \in deletes : DeleteHandled(h)
      BY <2>2
    <3>2. table' = table \/ table' = Without(table, h.id)
      BY <3>1 DEF DeleteHandled
    <3>3. table'[i] = table[i]
      BY <3>2, WithoutRow
    <3> QED
      BY <3>3
  <2>3. CASE Elsewhere
    BY <2>3 DEF Elsewhere
  <2> QED
    BY <2>1, <2>2, <2>3
    DEF Next, User, Network, server, OpenCreate, OpenEdit, TypeText,
        ChooseParent, Cancel, Save, SaveAnswered, SaveRefused, SaveUnheard,
        Delete, DeleteAnswered, DeleteRefused, DeleteUnheard, LoadRead,
        LoadDone, LoadFails, ShowQr, RetryQr, CloseQr, QrArrives, QrFails
<1> QED
  BY Invariant, InvStep, <1>1, PTL DEF Spec, UntouchedKept
=============================================================================
