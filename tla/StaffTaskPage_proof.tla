------------------------ MODULE StaffTaskPage_proof ------------------------
(***************************************************************************)
(* Theorems about the page of the staff and about the scanner in its       *)
(* dialog, for every number of tasks, of overlapping requests and of runs  *)
(* of the scanner's effect.                                                *)
(*                                                                         *)
(* The page: its types, BusyBacked and UnconfirmedMarked.  The inductive   *)
(* invariant is PageInv: the types, and what every answer and every list   *)
(* that is still under way says about the server.  And who makes up for a  *)
(* list or a badge that is behind the queue.                               *)
(*                                                                         *)
(* The scanner: ScannerInv, below; and that the scanner is what the page   *)
(* takes it for.                                                           *)
(***************************************************************************)
EXTENDS StaffTaskPage, QRScanner, WellFoundedInduction, TLAPS

\* A set of numbers that is not empty has a least one.
LEMMA Least ==
  ASSUME NEW S \in SUBSET Nat, S # {}
  PROVE  \E b \in S : \A d \in S : b <= d
<1> DEFINE less == {p \in Nat \X Nat : p[1] < p[2]}
<1>1. IsWellFoundedOn(less, Nat)
  BY NatLessThanWellFounded, Zenon DEF OpToRel
<1>2. \A m, n \in Nat : m < n => <<m, n>> \in less
  OBVIOUS
<1> HIDE DEF less
<1>3. PICK b \in S : \A d \in S : <<d, b>> \notin less
  BY <1>1, WFMin
<1>4. \A d \in S : ~ (d < b) /\ d \in Nat /\ b \in Nat
  BY <1>2, <1>3
<1> QED
  BY <1>4

LEMMA NoneApart ==
  /\ None \notin Tasks /\ None \notin Status
  /\ None \notin Shown /\ None \notin Requests /\ None \notin Handlers
  /\ None \notin Fetches /\ None \notin Flushes /\ None \notin [Tasks -> Status]
BY PageAssumption DEF PageAssumption

LEMMA OriginsApart ==
  /\ "page" \in Origins /\ "flush" \in Origins /\ Calls \subseteq Origins
  /\ "page" \notin Calls /\ "flush" \notin Calls
BY PageAssumption DEF PageAssumption, Origins

LEMMA EffectIs ==
  /\ Effect("start") = "IN_PROGRESS"
  /\ Effect("complete") = "DONE"
  /\ Effect("flag") = "FLAGGED"
BY DEF Effect

LEMMA EffectIsStatus == \A a \in Actions : Effect(a) \in Status
BY EffectIs DEF Actions, Status

----------------------------------------------------------------------------
(* Types. *)

LEMMA TypeInitial == Init => TypeOK
<1> SUFFICES ASSUME Init PROVE TypeOK
  OBVIOUS
<1>1. queue \in Seq(Requests) /\ Len(queue) \in Nat
  <2>1. \A t \in Tasks : Request(t, "start") \in Requests
    BY DEF Request, Requests, Actions
  <2>2. queue = <<>> \/ \E r \in Requests : queue = <<r>>
    BY <2>1 DEF Init
  <2>3. <<>> \in Seq(Requests) /\ \A r \in Requests : <<r>> \in Seq(Requests)
    OBVIOUS
  <2>4. queue \in Seq(Requests)
    BY <2>2, <2>3
  <2> QED
    BY <2>4
<1>2. server \in [Tasks -> Status] /\ rows \in [Tasks -> Shown \cup {None}]
  BY DEF Init, Status
<1>3. loads \in [Origins -> Fetches \cup {None}]
  BY DEF Init, Fetches
<1>4. \A c \in Calls : loads[c] = None /\ calls[c] = None
  BY OriginsApart DEF Init
<1> QED
  BY <1>1, <1>2, <1>3, <1>4 DEF Init, TypeOK

\* What a new fetch of the list does to the types, whoever begins it.
LEMMA BeginLoadType ==
  ASSUME TypeOK, NEW o \in Origins, BeginLoad(o)
  PROVE  /\ loads' \in [Origins -> Fetches \cup {None}]
         /\ isLoading' \in BOOLEAN /\ error' \in BOOLEAN /\ unseen' \in BOOLEAN
         /\ rows' = rows
         /\ loads[o] = None /\ loads'[o] # None
         /\ \A p \in Origins \ {o} : loads'[p] = loads[p]
<1>1. [list |-> None] \in Fetches
  BY DEF Fetches
<1> QED
  BY <1>1, NoneApart DEF BeginLoad, TypeOK

\* Settle, too, is called from several handlers.
LEMMA SettleType ==
  ASSUME TypeOK, NEW c \in Calls, Settle(c)
  PROVE  /\ calls' \in [Calls -> Handlers \cup {None}]
         /\ calls'[c] = None
         /\ \A d \in Calls \ {c} : calls'[d] = calls[d]
         /\ actionLoading' \in Tasks \cup {None}
         /\ chosen' \in Requests \cup {None} /\ isProcessing' \in BOOLEAN
         /\ qrOpen' \in BOOLEAN /\ armed' \in BOOLEAN /\ (armed' => qrOpen')
BY DEF Settle, TypeOK

LEMMA LoadOverType ==
  ASSUME TypeOK, NEW o \in Origins, LoadOver(o)
  PROVE  /\ loads' \in [Origins -> Fetches \cup {None}]
         /\ calls' \in [Calls -> Handlers \cup {None}]
         /\ isLoading' \in BOOLEAN
         /\ actionLoading' \in Tasks \cup {None}
         /\ chosen' \in Requests \cup {None} /\ isProcessing' \in BOOLEAN
         /\ qrOpen' \in BOOLEAN /\ armed' \in BOOLEAN /\ (armed' => qrOpen')
         /\ \A c \in Calls : loads'[c] # None <=>
                              calls'[c] # None /\ calls'[c].at = "reloading"
<1>1. loads' = [loads EXCEPT ![o] = None] /\ isLoading' = FALSE
  BY DEF LoadOver
<1>2. CASE o \in Calls
  <2>1. Settle(o)
    BY <1>2 DEF LoadOver
  <2>2. \A c \in Calls \ {o} : loads'[c] = loads[c] /\ calls'[c] = calls[c]
    BY <1>1, <1>2, <2>1, SettleType, OriginsApart DEF TypeOK
  <2>3. loads'[o] = None /\ calls'[o] = None
    BY <1>1, <1>2, <2>1, SettleType DEF TypeOK
  <2> QED
    BY <1>1, <1>2, <2>1, <2>2, <2>3, SettleType DEF TypeOK
<1>3. CASE o \notin Calls
  <2>1. UNCHANGED <<calls, actionLoading, chosen, qrOpen, armed, isProcessing>>
    BY <1>3 DEF LoadOver, dialog
  <2>2. \A c \in Calls : loads'[c] = loads[c]
    BY <1>1, <1>3, OriginsApart DEF TypeOK
  <2> QED
    BY <1>1, <2>1, <2>2 DEF TypeOK
<1> QED
  BY <1>2, <1>3

LEMMA PerformType ==
  ASSUME TypeOK, NEW c \in Calls, NEW r \in Requests, Perform(c, r)
  PROVE  /\ calls' \in [Calls -> Handlers \cup {None}]
         /\ actionLoading' = r.task /\ r.task \in Tasks
         /\ calls'[c] # None /\ calls'[c].task = r.task
         /\ calls'[c].got = None
         /\ calls'[c].at # "reloading"
         /\ calls[c] = None
         /\ \A d \in Calls \ {c} : calls'[d] = calls[d]
<1>1. PICK at \in {"sending", "queueing"} :
        calls' = [calls EXCEPT ![c] = [task |-> r.task, action |-> r.action,
                                       at |-> at, got |-> None]]
  BY DEF Perform
<1>2. [task |-> r.task, action |-> r.action, at |-> at, got |-> None]
        \in Handlers /\ r.task \in Tasks
  BY DEF Handlers, Requests
<1>3. calls'[c] = [task |-> r.task, action |-> r.action, at |-> at,
                   got |-> None]
  BY <1>1 DEF TypeOK
<1> QED
  BY <1>1, <1>2, <1>3, NoneApart DEF Perform, TypeOK

\* A request in flight goes on to another stage with its task and action.
LEMMA StageType ==
  ASSUME TypeOK, NEW c \in Calls, calls[c] # None,
         NEW at \in {"sending", "checked", "answered", "queueing",
                     "reloading"},
         NEW got \in Status \cup {None},
         calls' = [calls EXCEPT ![c].at = at, ![c].got = got]
  PROVE  /\ calls' \in [Calls -> Handlers \cup {None}]
         /\ calls'[c] # None /\ calls[c] \in Handlers
         /\ calls'[c].task = calls[c].task
         /\ calls'[c].at = at /\ calls'[c].got = got
         /\ \A d \in Calls \ {c} : calls'[d] = calls[d]
<1>1. calls[c] \in Handlers
  BY DEF TypeOK
<1>2. calls' = [calls EXCEPT ![c] = [calls[c] EXCEPT !.at = at, !.got = got]]
  BY DEF TypeOK
<1>3. /\ [calls[c] EXCEPT !.at = at, !.got = got] \in Handlers
      /\ [calls[c] EXCEPT !.at = at, !.got = got].task = calls[c].task
      /\ [calls[c] EXCEPT !.at = at, !.got = got].at = at
      /\ [calls[c] EXCEPT !.at = at, !.got = got].got = got
  BY <1>1 DEF Handlers
<1>4. calls'[c] = [calls[c] EXCEPT !.at = at, !.got = got]
  BY <1>2 DEF TypeOK
<1> QED
  BY <1>1, <1>2, <1>3, <1>4, NoneApart DEF TypeOK

\* A request that goes on to another stage keeps the answer it has or lacks.
LEMMA KeepsGot ==
  ASSUME TypeOK, NEW c \in Calls, calls[c] # None,
         NEW at \in {"checked", "answered", "reloading"}
  PROVE  /\ [calls EXCEPT ![c].at = at]
              = [calls EXCEPT ![c].at = at, ![c].got = calls[c].got]
         /\ calls[c].got \in Status \cup {None}
<1>1. calls[c] \in Handlers
  BY DEF TypeOK
<1> QED
  BY <1>1 DEF TypeOK, Handlers

\* The steps of a request in the backend, as stages.
LEMMA CheckedStage ==
  ASSUME TypeOK, NEW c \in Calls, Checked(c)
  PROVE  /\ calls[c] # None /\ calls[c] \in Handlers /\ calls[c].at = "sending"
         /\ calls[c].got \in Status \cup {None}
         /\ \E at \in {"checked", "answered"} :
              calls' = [calls EXCEPT ![c].at = at, ![c].got = calls[c].got]
<1>1. calls[c] # None /\ calls[c] \in Handlers /\ calls[c].at = "sending"
  BY DEF Checked, TypeOK
<1>2. PICK at \in {"checked", "answered"} : calls' = [calls EXCEPT ![c].at = at]
  BY DEF Checked
<1> QED
  BY <1>1, <1>2, KeepsGot

LEMMA HandledStage ==
  ASSUME TypeOK, NEW c \in Calls, Handled(c)
  PROVE  /\ calls[c] # None /\ calls[c] \in Handlers /\ calls[c].at = "checked"
         /\ \E got \in Status \cup {None} :
              /\ calls' = [calls EXCEPT ![c].at = "answered", ![c].got = got]
              /\ \/ /\ got \in {Effect(calls[c].action), None}
                    /\ Write(calls[c].task, Effect(calls[c].action))
                 \/ got = calls[c].got /\ UNCHANGED <<server, was>>
<1>1. calls[c] # None /\ calls[c] \in Handlers /\ calls[c].at = "checked"
  BY DEF Handled, TypeOK
<1>2. CASE /\ Write(calls[c].task, Effect(calls[c].action))
           /\ \E got \in {Effect(calls[c].action), None} :
                calls' = [calls EXCEPT ![c].at = "answered", ![c].got = got]
  <2>1. Effect(calls[c].action) \in Status
    BY <1>1, EffectIsStatus DEF Handlers
  <2> QED
    BY <1>1, <1>2, <2>1
<1>3. CASE calls' = [calls EXCEPT ![c].at = "answered"] /\ UNCHANGED database
  BY <1>1, <1>3, KeepsGot DEF database
<1> QED
  BY <1>2, <1>3 DEF Handled

\* The record that decides what the overlay shows is one of the task's.
LEMMA LatestIsQueued ==
  ASSUME NEW t \in Tasks, queue \in Seq(Requests), Queued(t) # {}
  PROVE  Latest(t) \in Queued(t)
<1> DEFINE back == {Len(queue) - i : i \in Queued(t)}
<1>1. Queued(t) \subseteq 1..Len(queue) /\ Len(queue) \in Nat
  BY DEF Queued
<1>2. back \subseteq Nat /\ back # {}
  BY <1>1
<1>3. PICK b \in back : \A d \in back : b <= d
  <2> HIDE DEF back
  <2> QED
    BY <1>2, Least
<1>4. PICK i \in Queued(t) : b = Len(queue) - i
  OBVIOUS
<1>5. \A j \in Queued(t) : Len(queue) - j \in back /\ j \in Int
  BY <1>1
<1>6. \A j \in Queued(t) : b <= Len(queue) - j
  BY <1>3, <1>5
<1>7. \A j \in Queued(t) : j <= i
  BY <1>1, <1>4, <1>5, <1>6
<1> QED
  BY <1>7 DEF Latest

\* What the overlay shows of a task: what was fetched, unmarked, or what a
\* record of the queue asks for, marked.
LEMMA OverlayRow ==
  ASSUME TypeOK, NEW fetched \in [Tasks -> Status], NEW t \in Tasks
  PROVE  /\ Overlay(fetched)[t] \in Shown
         /\ ~Overlay(fetched)[t].pending =>
              Overlay(fetched)[t].status = fetched[t]
<1>1. CASE Queued(t) = {}
  <2>1. Overlay(fetched)[t] = Row(fetched[t], FALSE)
    BY <1>1 DEF Overlay
  <2> QED
    BY <2>1 DEF Row, Shown
<1>2. CASE Queued(t) # {}
  <2>1. Overlay(fetched)[t] = Row(Effect(queue[Latest(t)].action), TRUE)
    BY <1>2 DEF Overlay
  <2>2. Queued(t) \subseteq 1..Len(queue)
    BY DEF Queued, TypeOK
  <2>3. Latest(t) \in Queued(t)
    BY <1>2, <2>2, LatestIsQueued DEF TypeOK
  <2>4. queue[Latest(t)] \in Requests
    BY <2>2, <2>3 DEF TypeOK
  <2>5. Effect(queue[Latest(t)].action) \in Status
    BY <2>4, EffectIsStatus DEF Requests
  <2> QED
    BY <2>1, <2>5 DEF Row, Shown
<1> QED
  BY <1>1, <1>2

\* A status that is written is one the task has had, and so are all before it.
LEMMA WriteType ==
  ASSUME TypeOK, NEW t \in Tasks, NEW s \in Status, Write(t, s)
  PROVE  /\ server' \in [Tasks -> Status] /\ was' \in [Tasks -> SUBSET Status]
         /\ server'[t] = s /\ s \in was'[t]
         /\ \A u \in Tasks \ {t} : server'[u] = server[u]
         /\ \A u \in Tasks : was[u] \subseteq was'[u]
BY DEF Write, TypeOK

\* What the request at the head of the queue asks for.
LEMMA HeadIs ==
  ASSUME TypeOK, flush # None, flush.left > 0
  PROVE  /\ flush \in Flushes /\ queue # <<>>
         /\ Head(queue).task \in Tasks
         /\ Effect(Head(queue).action) \in Status
<1>1. flush \in Flushes /\ flush.left \in Nat /\ flush.left <= Len(queue)
  BY DEF TypeOK, Flushes
<1>2. queue # <<>> /\ Head(queue) \in Requests
  BY <1>1 DEF TypeOK
<1> QED
  BY <1>1, <1>2, EffectIsStatus DEF Requests

LEMMA TypeStep == TypeOK /\ [Next]_vars => TypeOK'
<1> SUFFICES ASSUME TypeOK, [Next]_vars PROVE TypeOK'
  OBVIOUS
<1> USE DEF database, list, dialog, badge
<1>1. CASE Refresh
  <2>1. BeginLoad("page") /\ taps' \in Nat
    BY <1>1 DEF Refresh, Tap, TypeOK
  <2>2. \A c \in Calls : loads'[c] = loads[c]
    BY <2>1, BeginLoadType, OriginsApart
  <2> QED
    BY <1>1, <2>1, <2>2, BeginLoadType, OriginsApart DEF Refresh, TypeOK
<1>2. CASE Recount \/ CloseQR \/ StartFlush
  <2>1. CASE Recount
    <3>1. pendingCount' \in Nat /\ recount' = FALSE
      BY <2>1 DEF Recount, TypeOK
    <3>2. UNCHANGED <<server, was, queue, storage, rows, isLoading, error, loads,
                      unseen, chosen, qrOpen, armed, isProcessing,
                      actionLoading, calls, taps, flush>>
      BY <2>1 DEF Recount
    <3> QED
      BY <3>1, <3>2 DEF TypeOK
  <2>2. CASE CloseQR
    BY <2>2 DEF CloseQR, TypeOK
  <2>3. CASE StartFlush
    <3>1. /\ flush' \in Flushes /\ flush'.left = Len(queue)
          /\ flush'.at = "sending"
      BY <2>3 DEF StartFlush, Flushes, TypeOK
    <3> QED
      BY <2>3, <3>1 DEF StartFlush, TypeOK
  <2> QED
    BY <1>2, <2>1, <2>2, <2>3
<1>3. CASE ReplayChecked \/ Replayed
  <2>1. /\ flush # None /\ flush \in Flushes /\ flush.left > 0
        /\ \E at \in {"checked", "dealt"} : flush' = [flush EXCEPT !.at = at]
    BY <1>3 DEF ReplayChecked, Replayed, TypeOK
  <2>2. flush' \in Flushes /\ flush'.left = flush.left
    BY <2>1 DEF Flushes
  <2>3. server' \in [Tasks -> Status] /\ was' \in [Tasks -> SUBSET Status]
    <3>1. CASE UNCHANGED database
      BY <3>1 DEF TypeOK
    <3>2. CASE Write(Head(queue).task, Effect(Head(queue).action))
      BY <2>1, <3>2, HeadIs, WriteType
    <3> QED
      BY <1>3, <3>1, <3>2 DEF ReplayChecked, Replayed
  <2>4. UNCHANGED <<queue, storage, list, dialog, badge, actionLoading, calls,
                    taps>>
    BY <1>3 DEF ReplayChecked, Replayed
  <2> QED
    BY <2>1, <2>2, <2>3, <2>4 DEF TypeOK
<1>4. CASE Removed
  <2>1. PICK left \in {flush.left - 1, 0} :
          flush' = [left |-> left, drained |-> TRUE, at |-> "sending"]
    BY <1>4 DEF Removed
  <2>2. flush.left \in Nat /\ flush.left > 0 /\ flush.left <= Len(queue)
    BY <1>4 DEF Removed, TypeOK, Flushes
  <2>3. /\ queue' = Tail(queue) /\ queue' \in Seq(Requests)
        /\ Len(queue') = Len(queue) - 1
    BY <1>4, <2>2 DEF Removed, TypeOK
  <2>4. flush' \in Flushes /\ flush'.left <= Len(queue') /\ flush'.at = "sending"
    BY <2>1, <2>2, <2>3 DEF Flushes, TypeOK
  <2> QED
    BY <1>4, <2>3, <2>4 DEF Removed, NotifyQueueChanged, TypeOK
<1>5. CASE FlushEnds
  <2>1. CASE Announced
    <3>1. BeginLoad("flush")
      BY <1>5, <2>1 DEF FlushEnds
    <3>2. \A c \in Calls : loads'[c] = loads[c]
      BY <3>1, BeginLoadType, OriginsApart
    <3> QED
      BY <1>5, <3>1, <3>2, BeginLoadType, OriginsApart DEF FlushEnds, TypeOK
  <2>2. CASE ~Announced
    BY <1>5, <2>2 DEF FlushEnds, TypeOK
  <2> QED
    BY <2>1, <2>2
<1>6. ASSUME NEW o \in Origins, ListRead(o)
      PROVE  TypeOK'
  <2>1. loads[o] \in Fetches /\ loads' = [loads EXCEPT ![o].list = server]
    BY <1>6 DEF ListRead, TypeOK
  <2>2. loads' = [loads EXCEPT ![o] = [loads[o] EXCEPT !.list = server]]
        /\ [loads[o] EXCEPT !.list = server] \in Fetches
    BY <2>1 DEF TypeOK, Fetches
  <2>3. \A c \in Calls : loads'[c] # None <=> loads[c] # None
    BY <1>6, <2>2, NoneApart, OriginsApart DEF ListRead, TypeOK
  <2> QED
    BY <1>6, <2>2, <2>3 DEF ListRead, TypeOK
<1>7. ASSUME NEW o \in Origins, LoadDone(o)
      PROVE  TypeOK'
  <2>1. LoadOver(o) /\ pendingCount' \in Nat /\ rows' = Overlay(loads[o].list)
    BY <1>7 DEF LoadDone, TypeOK
  <2>2. loads[o].list \in [Tasks -> Status]
    BY <1>7 DEF LoadDone, TypeOK, Fetches
  <2>3. rows' \in [Tasks -> Shown \cup {None}]
    <3>1. DOMAIN rows' = Tasks /\ rows' = [t \in Tasks |-> rows'[t]]
      BY <2>1 DEF Overlay
    <3>2. \A t \in Tasks : rows'[t] \in Shown
      BY <2>1, <2>2, OverlayRow
    <3> QED
      BY <3>1, <3>2
  <2> QED
    BY <1>7, <2>1, <2>3, LoadOverType DEF LoadDone, TypeOK
<1>8. ASSUME NEW o \in Origins, LoadFails(o)
      PROVE  TypeOK'
  <2>1. LoadOver(o) /\ error' = TRUE
    BY <1>8 DEF LoadFails
  <2> QED
    BY <1>8, <2>1, LoadOverType DEF LoadFails, TypeOK
<1>9. ASSUME NEW t \in Tasks, NEW a \in Actions, OpenQR(t, a)
      PROVE  TypeOK'
  <2>1. Request(t, a) \in Requests
    BY DEF Request, Requests
  <2> QED
    <3>1. /\ chosen' \in Requests /\ qrOpen' = TRUE /\ armed' = TRUE
          /\ isProcessing' = FALSE /\ taps' \in Nat
      BY <1>9, <2>1 DEF OpenQR, Tap, TypeOK
    <3>2. UNCHANGED <<server, was, queue, storage, rows, isLoading, error, loads,
                      unseen, pendingCount, recount, actionLoading, calls,
                      flush>>
      BY <1>9 DEF OpenQR
    <3> QED
      BY <3>1, <3>2 DEF TypeOK
<1>10. ASSUME NEW c \in Calls, HandleQRScan(c)
       PROVE  TypeOK'
  <2>1. CASE chosen # None /\ ~isProcessing
    <3>1. chosen \in Requests /\ Perform(c, chosen)
      BY <1>10, <2>1 DEF HandleQRScan, TypeOK
    <3>2. /\ chosen' = chosen /\ isProcessing' = TRUE /\ qrOpen' = FALSE
          /\ armed' = FALSE
      BY <1>10, <2>1 DEF HandleQRScan
    <3>3. \A d \in Calls : loads[d] # None <=>
                             calls'[d] # None /\ calls'[d].at = "reloading"
      BY <3>1, PerformType DEF TypeOK
    <3> QED
      BY <1>10, <3>1, <3>2, <3>3, PerformType DEF HandleQRScan, TypeOK
  <2>2. CASE chosen = None \/ isProcessing
    BY <1>10, <2>2 DEF HandleQRScan, TypeOK
  <2> QED
    BY <2>1, <2>2
<1>11. ASSUME NEW c \in Calls, NEW t \in Tasks, HandleFlag(c, t)
       PROVE  TypeOK'
  <2>1. Request(t, "flag") \in Requests
    BY DEF Request, Requests, Actions
  <2>2. Perform(c, Request(t, "flag")) /\ taps' \in Nat
    BY <1>11 DEF HandleFlag, Tap, TypeOK
  <2>3. \A d \in Calls : loads[d] # None <=>
                           calls'[d] # None /\ calls'[d].at = "reloading"
    BY <2>1, <2>2, PerformType DEF TypeOK
  <2> QED
    BY <1>11, <2>1, <2>2, <2>3, PerformType DEF HandleFlag, TypeOK
<1>12. ASSUME NEW c \in Calls, Checked(c) \/ Handled(c)
       PROVE  TypeOK'
  <2>1. PICK at \in {"checked", "answered"}, got \in Status \cup {None} :
          calls' = [calls EXCEPT ![c].at = at, ![c].got = got]
    BY <1>12, CheckedStage, HandledStage
  <2>2. /\ calls[c] # None /\ calls[c] \in Handlers
        /\ calls[c].at \in {"sending", "checked"}
    BY <1>12, CheckedStage, HandledStage
  <2>3. server' \in [Tasks -> Status] /\ was' \in [Tasks -> SUBSET Status]
    <3>1. CASE UNCHANGED database
      BY <3>1 DEF TypeOK
    <3>2. CASE Write(calls[c].task, Effect(calls[c].action))
      <4>1. calls[c].task \in Tasks /\ Effect(calls[c].action) \in Status
        BY <2>2, EffectIsStatus DEF Handlers
      <4> QED
        BY <3>2, <4>1, WriteType
    <3> QED
      BY <1>12, <3>1, <3>2 DEF Checked, Handled
  <2>4. /\ calls' \in [Calls -> Handlers \cup {None}]
        /\ calls'[c].at = at
        /\ \A d \in Calls \ {c} : calls'[d] = calls[d]
    BY <2>1, <2>2, StageType
  <2>5. \A d \in Calls : loads[d] # None <=>
                           calls'[d] # None /\ calls'[d].at = "reloading"
    BY <2>2, <2>4 DEF TypeOK
  <2>6. UNCHANGED <<queue, storage, rows, isLoading, error, loads, unseen,
                    chosen, qrOpen, armed, isProcessing, pendingCount, recount,
                    actionLoading, taps, flush>>
    BY <1>12 DEF Checked, Handled
  <2> QED
    BY <2>3, <2>4, <2>5, <2>6 DEF TypeOK
<1>13. ASSUME NEW c \in Calls, AnswerArrives(c)
       PROVE  TypeOK'
  <2>1. Settle(c) /\ loads[c] = None /\ calls[c] \in Handlers
    BY <1>13 DEF AnswerArrives, TypeOK
  <2>2. rows' \in [Tasks -> Shown \cup {None}]
    <3>1. calls[c].got # None => Row(calls[c].got, FALSE) \in Shown
      BY <2>1 DEF Handlers, Row, Shown
    <3> QED
      BY <1>13, <3>1 DEF AnswerArrives, TypeOK
  <2>3. \A d \in Calls : loads[d] # None <=>
                           calls'[d] # None /\ calls'[d].at = "reloading"
    BY <2>1, SettleType DEF TypeOK
  <2> QED
    BY <1>13, <2>1, <2>2, <2>3, SettleType DEF AnswerArrives, TypeOK
<1>14. ASSUME NEW c \in Calls, NetworkFails(c)
       PROVE  TypeOK'
  <2>1. /\ calls[c] # None /\ calls[c].at # "reloading"
        /\ calls' = [calls EXCEPT ![c].at = "queueing", ![c].got = None]
    BY <1>14 DEF NetworkFails
  <2>2. /\ calls' \in [Calls -> Handlers \cup {None}]
        /\ calls'[c].at = "queueing"
        /\ \A d \in Calls \ {c} : calls'[d] = calls[d]
    BY <2>1, StageType
  <2>3. \A d \in Calls : loads[d] # None <=>
                           calls'[d] # None /\ calls'[d].at = "reloading"
    BY <2>1, <2>2 DEF TypeOK
  <2> QED
    BY <1>14, <2>2, <2>3 DEF NetworkFails, TypeOK
<1>15. ASSUME NEW c \in Calls, QueueRequest(c)
       PROVE  TypeOK'
  <2>1. CASE storage
    <3>1. /\ calls[c] # None /\ BeginLoad(c)
          /\ queue' = Append(queue, Request(calls[c].task, calls[c].action))
          /\ calls' = [calls EXCEPT ![c].at = "reloading"]
      BY <1>15, <2>1 DEF QueueRequest
    <3>2. calls[c] \in Handlers
      BY <3>1 DEF TypeOK
    <3>3. /\ calls' = [calls EXCEPT ![c].at = "reloading",
                                    ![c].got = calls[c].got]
          /\ calls[c].got \in Status \cup {None}
      BY <3>1, KeepsGot
    <3>4. Request(calls[c].task, calls[c].action) \in Requests
      BY <3>2 DEF Handlers, Request, Requests
    <3>5. queue' \in Seq(Requests) /\ Len(queue') = Len(queue) + 1
      BY <3>1, <3>4 DEF TypeOK
    <3>6. \A d \in Calls : loads'[d] # None <=>
                             calls'[d] # None /\ calls'[d].at = "reloading"
      <4>1. /\ calls'[c] # None /\ calls'[c].at = "reloading"
            /\ \A d \in Calls \ {c} : calls'[d] = calls[d]
        BY <3>1, <3>3, StageType
      <4>2. loads'[c] # None /\ \A d \in Calls \ {c} : loads'[d] = loads[d]
        BY <3>1, BeginLoadType, OriginsApart
      <4> QED
        BY <4>1, <4>2 DEF TypeOK
    <3>7. flush # None => flush.left <= Len(queue')
      <4>1. flush # None => flush.left \in Nat /\ flush.left <= Len(queue)
        BY DEF TypeOK, Flushes
      <4>2. Len(queue) \in Nat
        BY DEF TypeOK
      <4> QED
        BY <3>5, <4>1, <4>2
    <3>8. calls' \in [Calls -> Handlers \cup {None}]
      BY <3>1, <3>3, StageType
    <3>9. /\ loads' \in [Origins -> Fetches \cup {None}]
          /\ isLoading' \in BOOLEAN /\ error' \in BOOLEAN /\ unseen' \in BOOLEAN
          /\ rows' = rows
      BY <3>1, BeginLoadType, OriginsApart
    <3> QED
      BY <1>15, <2>1, <3>5, <3>6, <3>7, <3>8, <3>9
      DEF QueueRequest, NotifyQueueChanged, TypeOK
  <2>2. CASE ~storage
    <3>1. Settle(c) /\ UNCHANGED <<queue, recount, list>> /\ loads[c] = None
      BY <1>15, <2>2 DEF QueueRequest, TypeOK
    <3>2. \A d \in Calls : loads[d] # None <=>
                             calls'[d] # None /\ calls'[d].at = "reloading"
      BY <3>1, SettleType DEF TypeOK
    <3> QED
      BY <1>15, <3>1, <3>2, SettleType DEF QueueRequest, TypeOK
  <2> QED
    BY <2>1, <2>2
<1>16. ASSUME NEW t \in Tasks, NEW s \in Elsewhere, WrittenElsewhere(t, s)
       PROVE  TypeOK'
  BY <1>16, WriteType, PageAssumption DEF WrittenElsewhere, TypeOK
<1>17. CASE UNCHANGED vars
  BY <1>17 DEF vars, TypeOK
<1> QED
  BY <1>1, <1>2, <1>3, <1>4, <1>5, <1>6, <1>7, <1>8, <1>9, <1>10, <1>11,
     <1>12, <1>13, <1>14, <1>15, <1>16, <1>17
  DEF Next

----------------------------------------------------------------------------
(* BusyBacked: a handler that marks its task as busy is in flight until    *)
(* the mark is gone.                                                       *)

LEMMA BusyInitial == Init => BusyBacked
BY DEF Init, BusyBacked

\* Handlers that stay in flight with their task keep the mark backed.
LEMMA StaysBacked ==
  ASSUME BusyBacked, actionLoading' = actionLoading,
         \A d \in Calls : calls[d] # None =>
           calls'[d] # None /\ calls'[d].task = calls[d].task
  PROVE  BusyBacked'
BY DEF BusyBacked

LEMMA BusyStep == TypeOK /\ BusyBacked /\ [Next]_vars => BusyBacked'
<1> SUFFICES ASSUME TypeOK, BusyBacked, [Next]_vars PROVE BusyBacked'
  OBVIOUS
<1>0. ASSUME UNCHANGED <<calls, actionLoading>>
      PROVE  BusyBacked'
  BY <1>0 DEF BusyBacked
<1>1. CASE Refresh \/ Recount \/ CloseQR
  BY <1>1, <1>0 DEF Refresh, Recount, CloseQR
<1>2. CASE StartFlush \/ ReplayChecked \/ Replayed \/ Removed \/ FlushEnds
  BY <1>2, <1>0 DEF StartFlush, ReplayChecked, Replayed, Removed, FlushEnds
<1>3. ASSUME NEW o \in Origins, ListRead(o)
      PROVE  BusyBacked'
  BY <1>3, <1>0 DEF ListRead
<1>4. ASSUME NEW c \in Calls, Settle(c)
      PROVE  BusyBacked'
  BY <1>4 DEF Settle, BusyBacked
<1>5. ASSUME NEW o \in Origins, LoadDone(o) \/ LoadFails(o)
      PROVE  BusyBacked'
  <2>1. CASE o \in Calls
    BY <1>4, <1>5, <2>1 DEF LoadDone, LoadFails, LoadOver
  <2>2. CASE o \notin Calls
    BY <1>0, <1>5, <2>2 DEF LoadDone, LoadFails, LoadOver
  <2> QED
    BY <2>1, <2>2
<1>6. ASSUME NEW t \in Tasks, NEW a \in Actions, OpenQR(t, a)
      PROVE  BusyBacked'
  BY <1>6, <1>0 DEF OpenQR
<1>7. ASSUME NEW c \in Calls, NEW r \in Requests, Perform(c, r)
      PROVE  BusyBacked'
  BY <1>7, PerformType DEF BusyBacked
<1>8. ASSUME NEW c \in Calls, HandleQRScan(c)
      PROVE  BusyBacked'
  <2>1. CASE chosen # None /\ ~isProcessing
    BY <1>7, <1>8, <2>1 DEF HandleQRScan, TypeOK
  <2>2. CASE chosen = None \/ isProcessing
    BY <1>0, <1>8, <2>2 DEF HandleQRScan
  <2> QED
    BY <2>1, <2>2
<1>9. ASSUME NEW c \in Calls, NEW t \in Tasks, HandleFlag(c, t)
      PROVE  BusyBacked'
  <2>1. Request(t, "flag") \in Requests
    BY DEF Request, Requests, Actions
  <2> QED
    BY <1>7, <1>9, <2>1 DEF HandleFlag
<1>10. ASSUME NEW c \in Calls, Checked(c) \/ Handled(c)
       PROVE  BusyBacked'
  <2>1. \E at \in {"checked", "answered"}, got \in Status \cup {None} :
          calls' = [calls EXCEPT ![c].at = at, ![c].got = got]
    BY <1>10, CheckedStage, HandledStage
  <2>2. calls[c] # None /\ actionLoading' = actionLoading
    BY <1>10 DEF Checked, Handled
  <2>3. \A d \in Calls : calls[d] # None =>
          calls'[d] # None /\ calls'[d].task = calls[d].task
    BY <2>1, <2>2, StageType
  <2> QED
    BY <2>2, <2>3, StaysBacked
<1>11. ASSUME NEW c \in Calls, AnswerArrives(c)
       PROVE  BusyBacked'
  BY <1>4, <1>11 DEF AnswerArrives
<1>12. ASSUME NEW c \in Calls, NetworkFails(c)
       PROVE  BusyBacked'
  <2>1. /\ calls[c] # None /\ actionLoading' = actionLoading
        /\ calls' = [calls EXCEPT ![c].at = "queueing", ![c].got = None]
    BY <1>12 DEF NetworkFails
  <2>2. \A d \in Calls : calls[d] # None =>
          calls'[d] # None /\ calls'[d].task = calls[d].task
    BY <2>1, StageType
  <2> QED
    BY <2>1, <2>2, StaysBacked
<1>13. ASSUME NEW c \in Calls, QueueRequest(c)
       PROVE  BusyBacked'
  <2>1. CASE storage
    <3>1. /\ calls[c] # None /\ actionLoading' = actionLoading
          /\ calls' = [calls EXCEPT ![c].at = "reloading"]
      BY <1>13, <2>1 DEF QueueRequest
    <3>2. /\ calls' = [calls EXCEPT ![c].at = "reloading",
                                    ![c].got = calls[c].got]
          /\ calls[c].got \in Status \cup {None}
      BY <3>1, KeepsGot
    <3>3. \A d \in Calls : calls[d] # None =>
            calls'[d] # None /\ calls'[d].task = calls[d].task
      BY <3>1, <3>2, StageType
    <3> QED
      BY <3>1, <3>3, StaysBacked
  <2>2. CASE ~storage
    BY <1>4, <1>13, <2>2 DEF QueueRequest
  <2> QED
    BY <2>1, <2>2
<1>14. ASSUME NEW t \in Tasks, NEW s \in Elsewhere, WrittenElsewhere(t, s)
       PROVE  BusyBacked'
  BY <1>14, <1>0 DEF WrittenElsewhere
<1>15. CASE UNCHANGED vars
  BY <1>15, <1>0 DEF vars
<1> QED
  BY <1>1, <1>2, <1>3, <1>5, <1>6, <1>8, <1>9, <1>10, <1>11, <1>12, <1>13,
     <1>14, <1>15
  DEF Next

----------------------------------------------------------------------------
(* UnconfirmedMarked: whatever the page has been told, in an answer or in  *)
(* a list that is still on its way, the database held at some moment,      *)
(* although others may have written the task since, or between the check   *)
(* of a request and its own write.                                         *)

ServerIs == \A t \in Tasks : server[t] \in was[t]

AnswersWere ==
  \A c \in Calls :
    calls[c] # None /\ calls[c].got # None => calls[c].got \in was[calls[c].task]

ListsWere ==
  \A o \in Origins :
    loads[o] # None /\ loads[o].list # None =>
      \A t \in Tasks : loads[o].list[t] \in was[t]

Told == ServerIs /\ UnconfirmedMarked /\ AnswersWere /\ ListsWere

\* What the steps of the backend and of the others do to the database.
LEMMA DatabaseStep ==
  ASSUME TypeOK, [Next]_vars
  PROVE  \/ UNCHANGED <<server, was>>
         \/ \E t \in Tasks, s \in Status : Write(t, s)
<1>1. CASE Replayed
  <2>1. flush # None /\ flush.left > 0
    BY <1>1 DEF Replayed, TypeOK
  <2> QED
    BY <1>1, <2>1, HeadIs DEF Replayed, database
<1>2. ASSUME NEW c \in Calls, Handled(c)
      PROVE  \/ UNCHANGED <<server, was>>
             \/ \E t \in Tasks, s \in Status : Write(t, s)
  <2>1. calls[c] \in Handlers
    BY <1>2, HandledStage
  <2>2. calls[c].task \in Tasks /\ Effect(calls[c].action) \in Status
    BY <2>1, EffectIsStatus DEF Handlers
  <2> QED
    BY <1>2, <2>2 DEF Handled, database
<1>3. ASSUME NEW t \in Tasks, NEW s \in Elsewhere, WrittenElsewhere(t, s)
      PROVE  \E u \in Tasks, v \in Status : Write(u, v)
  BY <1>3, PageAssumption DEF WrittenElsewhere
<1>4. CASE UNCHANGED vars
  BY <1>4 DEF vars, database
<1> QED
  BY <1>1, <1>2, <1>3, <1>4
  DEF Next, database, Refresh, Recount, CloseQR, StartFlush, ReplayChecked,
      Removed, FlushEnds, ListRead, LoadDone, LoadFails, OpenQR, HandleQRScan,
      Checked, AnswerArrives, NetworkFails, QueueRequest, HandleFlag

\* What the database held once it has always held.
LEMMA WasGrows ==
  ASSUME TypeOK, [Next]_vars
  PROVE  \A u \in Tasks : was[u] \subseteq was'[u]
<1>1. ASSUME UNCHANGED <<server, was>>
      PROVE  \A u \in Tasks : was[u] \subseteq was'[u]
  BY <1>1
<1>2. ASSUME NEW t \in Tasks, NEW s \in Status, Write(t, s)
      PROVE  \A u \in Tasks : was[u] \subseteq was'[u]
  BY <1>2, WriteType
<1> QED
  BY <1>1, <1>2, DatabaseStep

LEMMA ServerStep ==
  ASSUME TypeOK, ServerIs, [Next]_vars
  PROVE  ServerIs'
<1>1. ASSUME UNCHANGED <<server, was>>
      PROVE  ServerIs'
  BY <1>1 DEF ServerIs
<1>2. ASSUME NEW t \in Tasks, NEW s \in Status, Write(t, s)
      PROVE  ServerIs'
  BY <1>2, WriteType DEF ServerIs
<1> QED
  BY <1>1, <1>2, DatabaseStep

\* The answer to an action that was carried out is the row that was written.
LEMMA AnswersStep ==
  ASSUME TypeOK, AnswersWere, [Next]_vars
  PROVE  AnswersWere'
<1>1. ASSUME NEW c \in Calls, calls'[c] # None, calls'[c].got # None,
             calls[c] # None, calls'[c].task = calls[c].task,
             calls'[c].got = calls[c].got
      PROVE  calls'[c].got \in was'[calls'[c].task]
  <2>1. calls[c].task \in Tasks
    BY <1>1 DEF TypeOK, Handlers
  <2> QED
    BY <1>1, <2>1, WasGrows DEF AnswersWere
<1>2. ASSUME calls' = calls
      PROVE  AnswersWere'
  BY <1>1, <1>2 DEF AnswersWere
<1>3. ASSUME NEW c \in Calls, Settle(c)
      PROVE  AnswersWere'
  BY <1>1, <1>3, SettleType DEF AnswersWere
<1>4. ASSUME NEW c \in Calls, NEW r \in Requests, Perform(c, r)
      PROVE  AnswersWere'
  BY <1>1, <1>4, PerformType DEF AnswersWere
<1>5. ASSUME NEW o \in Origins, LoadDone(o) \/ LoadFails(o)
      PROVE  AnswersWere'
  <2>1. CASE o \in Calls
    BY <1>3, <1>5, <2>1 DEF LoadDone, LoadFails, LoadOver
  <2>2. CASE o \notin Calls
    BY <1>2, <1>5, <2>2 DEF LoadDone, LoadFails, LoadOver
  <2> QED
    BY <2>1, <2>2
<1>6. ASSUME NEW c \in Calls, HandleQRScan(c)
      PROVE  AnswersWere'
  BY <1>2, <1>4, <1>6 DEF HandleQRScan, TypeOK
<1>7. ASSUME NEW c \in Calls, NEW t \in Tasks, HandleFlag(c, t)
      PROVE  AnswersWere'
  <2>1. Request(t, "flag") \in Requests
    BY DEF Request, Requests, Actions
  <2> QED
    BY <1>4, <1>7, <2>1 DEF HandleFlag
<1>8. ASSUME NEW c \in Calls, Handled(c) \/ Checked(c)
      PROVE  AnswersWere'
  <2>1. calls[c] # None /\ calls[c] \in Handlers
    BY <1>8, HandledStage, CheckedStage
  <2>2. PICK at \in {"checked", "answered"}, got \in Status \cup {None} :
          /\ calls' = [calls EXCEPT ![c].at = at, ![c].got = got]
          /\ \/ /\ got \in {Effect(calls[c].action), None}
                /\ Write(calls[c].task, Effect(calls[c].action))
             \/ got = calls[c].got
    BY <1>8, HandledStage, CheckedStage
  <2>3. /\ calls'[c].task = calls[c].task /\ calls'[c].got = got
        /\ calls'[c] # None
        /\ \A d \in Calls \ {c} : calls'[d] = calls[d]
    BY <2>1, <2>2, StageType
  <2>4. ASSUME got = Effect(calls[c].action),
               Write(calls[c].task, Effect(calls[c].action))
        PROVE  got \in was'[calls[c].task]
    <3>1. calls[c].task \in Tasks /\ Effect(calls[c].action) \in Status
      BY <2>1, EffectIsStatus DEF Handlers
    <3> QED
      BY <2>4, <3>1, WriteType
  <2>5. ASSUME got = calls[c].got, got # None
        PROVE  got \in was'[calls[c].task]
    BY <1>1, <2>1, <2>3, <2>5
  <2>6. got # None => got \in was'[calls'[c].task]
    BY <2>2, <2>3, <2>4, <2>5
  <2>7. \A d \in Calls \ {c} : calls'[d] # None /\ calls'[d].got # None =>
          calls'[d].got \in was'[calls'[d].task]
    BY <1>1, <2>3
  <2> QED
    BY <2>3, <2>6, <2>7 DEF AnswersWere
<1>9. ASSUME NEW c \in Calls, NetworkFails(c)
      PROVE  AnswersWere'
  <2>1. /\ calls[c] # None
        /\ calls' = [calls EXCEPT ![c].at = "queueing", ![c].got = None]
    BY <1>9 DEF NetworkFails
  <2>2. calls'[c].got = None /\ \A d \in Calls \ {c} : calls'[d] = calls[d]
    BY <2>1, StageType
  <2> QED
    BY <1>1, <2>2 DEF AnswersWere
<1>10. ASSUME NEW c \in Calls, QueueRequest(c)
       PROVE  AnswersWere'
  <2>1. CASE storage
    <3>1. calls[c] # None /\ calls' = [calls EXCEPT ![c].at = "reloading"]
      BY <1>10, <2>1 DEF QueueRequest
    <3>2. /\ calls' = [calls EXCEPT ![c].at = "reloading",
                                    ![c].got = calls[c].got]
          /\ calls[c].got \in Status \cup {None}
      BY <3>1, KeepsGot
    <3>3. /\ calls'[c].task = calls[c].task /\ calls'[c].got = calls[c].got
          /\ \A d \in Calls \ {c} : calls'[d] = calls[d]
      BY <3>1, <3>2, StageType
    <3> QED
      BY <1>1, <3>1, <3>3 DEF AnswersWere
  <2>2. CASE ~storage
    BY <1>3, <1>10, <2>2 DEF QueueRequest
  <2> QED
    BY <2>1, <2>2
<1>11. ASSUME NEW c \in Calls, AnswerArrives(c)
       PROVE  AnswersWere'
  BY <1>3, <1>11 DEF AnswerArrives
<1>12. CASE UNCHANGED vars
  BY <1>2, <1>12 DEF vars
<1> QED
  BY <1>2, <1>5, <1>6, <1>7, <1>8, <1>9, <1>10, <1>11, <1>12
  DEF Next, Refresh, Recount, CloseQR, StartFlush, ReplayChecked, Replayed,
      Removed, FlushEnds, ListRead, OpenQR, WrittenElsewhere

\* A list is read from the server at one moment.
LEMMA ListsStep ==
  ASSUME TypeOK, ServerIs, ListsWere, [Next]_vars
  PROVE  ListsWere'
<1>1. ASSUME NEW o \in Origins, loads'[o] # None, loads'[o].list # None,
             loads'[o] = loads[o]
      PROVE  \A t \in Tasks : loads'[o].list[t] \in was'[t]
  BY <1>1, WasGrows DEF ListsWere
<1>2. ASSUME loads' = loads
      PROVE  ListsWere'
  BY <1>1, <1>2 DEF ListsWere
<1>3. ASSUME NEW o \in Origins, BeginLoad(o)
      PROVE  ListsWere'
  <2>1. loads'[o] = [list |-> None]
    BY <1>3 DEF BeginLoad, TypeOK
  <2>2. \A p \in Origins \ {o} : loads'[p] = loads[p]
    BY <1>3, BeginLoadType
  <2> QED
    BY <1>1, <2>1, <2>2 DEF ListsWere
<1>4. ASSUME NEW o \in Origins, LoadOver(o)
      PROVE  ListsWere'
  <2>1. loads'[o] = None /\ \A p \in Origins \ {o} : loads'[p] = loads[p]
    BY <1>4 DEF LoadOver, TypeOK
  <2> QED
    BY <1>1, <2>1 DEF ListsWere
<1>5. ASSUME NEW o \in Origins, ListRead(o)
      PROVE  ListsWere'
  <2>1. loads[o] \in Fetches /\ loads' = [loads EXCEPT ![o].list = server]
    BY <1>5 DEF ListRead, TypeOK
  <2>2. loads'[o].list = server /\ \A p \in Origins \ {o} : loads'[p] = loads[p]
    BY <2>1 DEF TypeOK, Fetches
  <2>3. was' = was /\ \A t \in Tasks : server[t] \in was[t]
    BY <1>5 DEF ListRead, database, ServerIs
  <2> QED
    BY <1>1, <2>2, <2>3 DEF ListsWere
<1>6. ASSUME NEW c \in Calls, QueueRequest(c)
      PROVE  ListsWere'
  BY <1>2, <1>3, <1>6, OriginsApart DEF QueueRequest, list
<1>7. CASE Refresh \/ FlushEnds
  BY <1>2, <1>3, <1>7, OriginsApart DEF Refresh, FlushEnds, list
<1>8. ASSUME NEW o \in Origins, LoadDone(o) \/ LoadFails(o)
      PROVE  ListsWere'
  BY <1>4, <1>8 DEF LoadDone, LoadFails
<1>9. CASE UNCHANGED vars
  BY <1>2, <1>9 DEF vars, list
<1> QED
  BY <1>2, <1>5, <1>6, <1>7, <1>8, <1>9
  DEF Next, list, Recount, CloseQR, StartFlush, ReplayChecked, Replayed,
      Removed, OpenQR, HandleQRScan, HandleFlag, Checked, Handled,
      AnswerArrives, NetworkFails, WrittenElsewhere

LEMMA RowsStep ==
  ASSUME TypeOK, Told, [Next]_vars
  PROVE  UnconfirmedMarked'
<1>1. ASSUME NEW t \in Tasks, rows'[t] = rows[t], rows'[t] # None,
             ~rows'[t].pending
      PROVE  rows'[t].status \in was'[t]
  BY <1>1, WasGrows DEF Told, UnconfirmedMarked
<1>2. ASSUME rows' = rows
      PROVE  UnconfirmedMarked'
  BY <1>1, <1>2 DEF UnconfirmedMarked
<1>3. ASSUME NEW o \in Origins, LoadDone(o)
      PROVE  UnconfirmedMarked'
  <2>1. /\ loads[o] # None /\ loads[o].list # None /\ was' = was
        /\ rows' = Overlay(loads[o].list)
    BY <1>3 DEF LoadDone, database
  <2>2. loads[o].list \in [Tasks -> Status]
    BY <2>1 DEF TypeOK, Fetches
  <2>3. \A t \in Tasks : ~rows'[t].pending => rows'[t].status = loads[o].list[t]
    BY <2>1, <2>2, OverlayRow
  <2> QED
    BY <2>1, <2>3 DEF Told, ListsWere, UnconfirmedMarked
<1>4. ASSUME NEW c \in Calls, AnswerArrives(c)
      PROVE  UnconfirmedMarked'
  <2>1. /\ calls[c] # None /\ was' = was
        /\ rows' = IF calls[c].got = None THEN rows
                   ELSE [rows EXCEPT
                           ![calls[c].task] = Row(calls[c].got, FALSE)]
    BY <1>4 DEF AnswerArrives, database
  <2>2. CASE calls[c].got = None
    BY <1>2, <2>1, <2>2
  <2>3. CASE calls[c].got # None
    <3>1. calls[c].task \in Tasks
      BY <2>1 DEF TypeOK, Handlers
    <3>2. /\ rows'[calls[c].task] = Row(calls[c].got, FALSE)
          /\ \A t \in Tasks \ {calls[c].task} : rows'[t] = rows[t]
      BY <2>1, <2>3, <3>1 DEF TypeOK
    <3>3. calls[c].got \in was'[calls[c].task]
      BY <2>1, <2>3 DEF Told, AnswersWere
    <3>4. rows'[calls[c].task].status = calls[c].got
      BY <3>2 DEF Row
    <3> QED
      BY <1>1, <3>2, <3>3, <3>4 DEF UnconfirmedMarked
  <2> QED
    BY <2>2, <2>3
<1>5. CASE UNCHANGED vars
  BY <1>2, <1>5 DEF vars, list
<1> QED
  BY <1>2, <1>3, <1>4, <1>5
  DEF Next, list, BeginLoad, Refresh, Recount, CloseQR, StartFlush,
      ReplayChecked, Replayed, Removed, FlushEnds, ListRead, LoadFails, OpenQR,
      HandleQRScan, HandleFlag, Checked, Handled, NetworkFails, QueueRequest,
      WrittenElsewhere

LEMMA ToldInitial == Init => Told
BY OriginsApart
DEF Init, Told, ServerIs, UnconfirmedMarked, AnswersWere, ListsWere

PageInv == TypeOK /\ BusyBacked /\ Told

LEMMA PageInvariant == Spec => []PageInv
<1>1. Init => PageInv
  BY TypeInitial, BusyInitial, ToldInitial DEF PageInv
<1>2. PageInv /\ [Next]_vars => PageInv'
  BY TypeStep, BusyStep, ServerStep, RowsStep, AnswersStep, ListsStep
  DEF PageInv, Told
<1> QED
  BY <1>1, <1>2, PTL DEF Spec

----------------------------------------------------------------------------
\* The state of the component, its handlers and the flush have their types,
\* and a handler awaits the list exactly while its fetch is in flight
\* (loadTasks in handleQRScan and handleFlag).
THEOREM TypeCorrect == Spec => []TypeOK
<1>1. PageInv => TypeOK
  BY DEF PageInv
<1> QED
  BY PageInvariant, <1>1, PTL

\* A task whose buttons are disabled has a request in flight, however many
\* handlers overlap (setActionLoading in handleQRScan and handleFlag).
THEOREM BusyCorrect == Spec => []BusyBacked
<1>1. PageInv => BusyBacked
  BY DEF PageInv
<1> QED
  BY PageInvariant, <1>1, PTL

\* What the list shows without the mark of a pending action the task had in
\* the database, whichever of the overlapping fetches and answers wrote it
\* last and whoever else wrote the task between the backend's check and its
\* update (setTasks in loadTasks, handleQRScan and handleFlag; TasksService).
THEOREM MarkedCorrect == Spec => []UnconfirmedMarked
<1>1. PageInv => UnconfirmedMarked
  BY DEF PageInv, Told
<1> QED
  BY PageInvariant, <1>1, PTL

----------------------------------------------------------------------------
(* What RefetchAfterFlush and BadgeFollows rest on: whoever leaves the     *)
(* list or the badge behind the queue also leaves somebody who will make   *)
(* up for it.                                                              *)

\* A removal that no fetch has followed yet is one of the flush under way,
\* which will announce it.
DebtOfFlush == unseen => flush # None /\ flush.drained

\* The badge shows the length of the queue, or a count is on its way.
BadgeBacked == pendingCount = Len(queue) \/ recount

LEMMA DebtStep == TypeOK /\ DebtOfFlush /\ [Next]_vars => DebtOfFlush'
<1> SUFFICES ASSUME TypeOK, DebtOfFlush, [Next]_vars PROVE DebtOfFlush'
  OBVIOUS
<1>1. CASE UNCHANGED <<unseen, flush>>
  BY <1>1 DEF DebtOfFlush
<1>2. CASE unseen' = FALSE
  BY <1>2 DEF DebtOfFlush
<1>3. CASE StartFlush
  BY <1>3, <1>2 DEF StartFlush, DebtOfFlush, list, TypeOK
<1>4. CASE ReplayChecked \/ Replayed
  <2>1. /\ flush \in Flushes /\ unseen' = unseen
        /\ \E at \in {"checked", "dealt"} : flush' = [flush EXCEPT !.at = at]
    BY <1>4 DEF ReplayChecked, Replayed, TypeOK, list
  <2>2. flush' \in Flushes /\ flush'.drained = flush.drained
    BY <2>1 DEF Flushes
  <2> QED
    BY <2>1, <2>2, NoneApart DEF DebtOfFlush
<1>5. CASE Removed
  <2>1. PICK left \in {flush.left - 1, 0} :
          flush' = [left |-> left, drained |-> TRUE, at |-> "sending"]
    BY <1>5 DEF Removed
  <2>2. left \in Nat
    BY <1>5, <2>1, NoneApart DEF Removed, TypeOK, Flushes
  <2>3. flush' \in Flushes /\ flush'.drained
    BY <2>1, <2>2 DEF Flushes
  <2> QED
    BY <2>3, NoneApart DEF DebtOfFlush
<1>6. CASE FlushEnds
  <2>1. CASE Announced
    BY <1>6, <2>1, <1>2 DEF FlushEnds, BeginLoad
  <2>2. CASE ~Announced
    BY <1>6, <2>2 DEF FlushEnds, Announced, DebtOfFlush, list
  <2> QED
    BY <2>1, <2>2
<1>7. CASE Refresh
  BY <1>7, <1>2 DEF Refresh, BeginLoad
<1>8. ASSUME NEW c \in Calls, QueueRequest(c)
      PROVE  DebtOfFlush'
  BY <1>8, <1>1, <1>2 DEF QueueRequest, BeginLoad, list
<1> QED
  BY <1>1, <1>3, <1>4, <1>5, <1>6, <1>7, <1>8
  DEF Next, vars, list, Recount, CloseQR, ListRead, LoadDone, LoadFails, OpenQR,
      HandleQRScan, Checked, Handled, AnswerArrives, NetworkFails, HandleFlag,
      WrittenElsewhere

LEMMA BadgeStep ==
  ASSUME [Next]_vars, BadgeBacked \/ queue' # queue
  PROVE  BadgeBacked'
<1>1. CASE UNCHANGED <<queue, badge>>
  BY <1>1 DEF BadgeBacked, badge
<1>2. CASE recount'
  BY <1>2 DEF BadgeBacked
<1>3. CASE Recount
  BY <1>3 DEF Recount, BadgeBacked
<1>4. ASSUME NEW o \in Origins, LoadDone(o)
      PROVE  BadgeBacked'
  BY <1>4 DEF LoadDone, BadgeBacked
<1>5. CASE Removed
  BY <1>5, <1>2 DEF Removed, NotifyQueueChanged
<1>6. ASSUME NEW c \in Calls, QueueRequest(c)
      PROVE  BadgeBacked'
  BY <1>6, <1>1, <1>2 DEF QueueRequest, NotifyQueueChanged, badge
<1> QED
  BY <1>1, <1>3, <1>4, <1>5, <1>6
  DEF Next, vars, Refresh, CloseQR, StartFlush, ReplayChecked, Replayed,
      FlushEnds, ListRead, LoadFails, OpenQR, HandleQRScan, Checked, Handled,
      AnswerArrives, NetworkFails, HandleFlag, WrittenElsewhere

\* Never is the list behind what a flush took off the queue without the flush
\* that will fetch it again, cut short or not (the notify after the loop of
\* flushQueue, and its listener).
THEOREM DebtCorrect == Spec => []DebtOfFlush
<1>1. Init => DebtOfFlush
  BY DEF Init, DebtOfFlush
<1>2. PageInv => TypeOK
  BY DEF PageInv
<1> QED
  BY PageInvariant, <1>1, <1>2, DebtStep, PTL DEF Spec

\* A change of the queue is counted, and from then on the badge is right or
\* about to be: no fetch of the list and no earlier count that returns late
\* leaves it behind (refreshPendingCount and loadTasks).
THEOREM BadgeCorrect ==
  Spec => [][BadgeBacked \/ queue' # queue => BadgeBacked']_vars
<1>1. [Next]_vars => [BadgeBacked \/ queue' # queue => BadgeBacked']_vars
  BY BadgeStep
<1> QED
  BY <1>1, PTL DEF Spec

----------------------------------------------------------------------------
(***************************************************************************)
(* The scanner in the dialog: the page takes from it that each opening     *)
(* hands over one code, and none once the dialog is closed.                *)
(*                                                                         *)
(* The inductive invariant: all runs but the mounted one are cancelled and *)
(* those to come are untouched; runningRef means that the scanner the ref  *)
(* holds is the mounted one and scans; a code is on its way, or has been   *)
(* handed over by the mounted run, only if scannedRef says so.             *)
(***************************************************************************)
Current(i) == mountedRef /\ i = mounts

RunsOK ==
  /\ mountedRef => mounts \in Effects
  /\ \A i \in Effects : cancelled[i] <=> i <= mounts /\ ~Current(i)
  /\ \A i \in Effects : i > mounts => /\ camera[i] = "none"
                                      /\ scans[i] = 0
                                      /\ i \notin awaiting

RefsOK ==
  /\ scannerRef # Nobody => mountedRef /\ scannerRef = mounts
  /\ runningRef => /\ scannerRef # Nobody
                   /\ camera[mounts] = "on"
                   /\ mounts \notin awaiting
  /\ \A i \in awaiting : Current(i) => scannerRef = i

StartsOK == \A i \in awaiting : camera[i] \in {"opening", "on"}

CallsOK ==
  /\ \A i \in Effects : scans[i] <= 1
  /\ \A i \in Effects : stopper[i] = "callback" => scans[i] = 0
  /\ \A i \in Effects :
       Current(i) /\ ~scannedRef => scans[i] = 0 /\ stopper[i] # "callback"

\* A camera that is not off belongs to a start that is awaited, to whoever
\* awaits its stop, or to the mounted run, whose cleanup finds it.
CamerasOK ==
  \A i \in Effects :
    /\ camera[i] = "opening" => i \in awaiting
    /\ camera[i] = "on" /\ i \notin awaiting => Current(i) /\ runningRef

ScannerInv ==
  ScannerTypeOK /\ RunsOK /\ RefsOK /\ StartsOK /\ CallsOK /\ CleanupSafe

\* The runs are numbers, and the empty ref is none of them.
LEMMA EffectsAreNat == Effects \subseteq Nat \ {0} /\ Nobody \notin Effects
BY ScannerAssumption DEF Effects

LEMMA ScannerInitial == ScannerInit => ScannerInv
<1> SUFFICES ASSUME ScannerInit PROVE ScannerInv
  OBVIOUS
<1>1. ScannerTypeOK
  <2>1. mounts \in 0..MaxMounts
    BY ScannerAssumption DEF ScannerInit
  <2> QED BY <2>1 DEF ScannerInit, ScannerTypeOK
<1>2. RunsOK
  <2>1. \A i \in Effects : i \in Nat /\ i > 0 /\ ~(i <= 0)
    BY EffectsAreNat
  <2> QED BY <2>1 DEF ScannerInit, RunsOK
<1>3. RefsOK /\ StartsOK /\ CallsOK /\ CleanupSafe
  BY DEF ScannerInit, RefsOK, StartsOK, CallsOK, CleanupSafe, Current
<1> QED BY <1>1, <1>2, <1>3 DEF ScannerInv

LEMMA MountStep ==
  ASSUME ScannerInv, NEW i \in Effects, Mount(i)
  PROVE  ScannerInv'
<1> USE EffectsAreNat DEF refs, ui
<1>1. /\ i \in Nat \ {0} /\ mounts \in Nat /\ i = mounts + 1 /\ mounts' = i
      /\ ~mountedRef /\ mountedRef' /\ scannedRef' = FALSE
      /\ UNCHANGED <<cancelled, stopper, broken, scans>>
      /\ scannerRef = Nobody /\ ~runningRef /\ ~runningRef'
      /\ camera[i] = "none" /\ scans[i] = 0 /\ stopper[i] = "nobody"
      /\ \A j \in Effects : j \in Nat
  BY DEF Mount, Complain, ScannerInv, ScannerTypeOK, RunsOK, RefsOK
<1>2. \/ UNCHANGED <<scannerRef, awaiting, camera>>
      \/ /\ scannerRef' = i /\ awaiting' = awaiting \cup {i}
         /\ camera' = [camera EXCEPT ![i] = "opening"]
  BY DEF Mount
<1>3. ScannerTypeOK'
  <2>1. mounts' \in 0..MaxMounts
    BY <1>1, ScannerAssumption DEF Effects
  <2>2. /\ startingRef' \in BOOLEAN /\ runningRef' \in BOOLEAN
        /\ starting' \in BOOLEAN /\ cameraError' \in BOOLEAN
    BY DEF Mount, Complain, ScannerInv, ScannerTypeOK
  <2>3. /\ camera' \in [Effects -> {"none", "opening", "on", "closing", "off"}]
        /\ \A j \in Effects : stopper'[j] # "nobody" <=> camera'[j] = "closing"
    BY <1>1, <1>2 DEF ScannerInv, ScannerTypeOK
  <2> QED BY <1>1, <1>2, <2>1, <2>2, <2>3 DEF ScannerInv, ScannerTypeOK
<1>4. RunsOK'
  <2>1. \A j \in Effects : j <= i <=> j <= mounts \/ j = i
    BY <1>1
  <2>2. \A j \in Effects : cancelled[j] <=> j <= mounts
    BY <1>1 DEF ScannerInv, RunsOK, Current
  <2>3. \A j \in Effects : cancelled'[j] <=> j <= i /\ j # i
    BY <1>1, <2>1, <2>2
  <2>4. \A j \in Effects : j > i => j > mounts /\ j # i
    BY <1>1
  <2>5. \A j \in Effects : j > i => /\ camera'[j] = "none" /\ scans'[j] = 0
                                    /\ j \notin awaiting'
    BY <1>1, <1>2, <2>4 DEF ScannerInv, ScannerTypeOK, RunsOK
  <2> QED BY <1>1, <2>3, <2>5 DEF RunsOK, Current
<1>5. RefsOK'
  <2>1. \A j \in awaiting : j # i
    BY <1>1 DEF ScannerInv, RunsOK
  <2>2. \A j \in awaiting' : j = i => scannerRef' = i
    BY <1>2, <2>1
  <2> QED BY <1>1, <1>2, <2>2 DEF ScannerInv, RefsOK, Current
<1>6. StartsOK'
  <2>1. camera \in [Effects -> {"none", "opening", "on", "closing", "off"}]
        /\ awaiting \subseteq Effects
    BY DEF ScannerInv, ScannerTypeOK
  <2> QED BY <1>2, <2>1 DEF ScannerInv, StartsOK
<1>7. CallsOK'
  BY <1>1 DEF ScannerInv, CallsOK, Current
<1> QED BY <1>1, <1>3, <1>4, <1>5, <1>6, <1>7 DEF ScannerInv, CleanupSafe

LEMMA OpensStep ==
  ASSUME ScannerInv, NEW i \in Effects, CameraOpens(i)
  PROVE  ScannerInv'
<1> USE EffectsAreNat DEF refs, ui
<1>1. ScannerTypeOK'
  BY DEF CameraOpens, ScannerInv, ScannerTypeOK
<1>2. RunsOK' /\ RefsOK' /\ StartsOK'
  BY DEF CameraOpens, ScannerInv, ScannerTypeOK, RunsOK, RefsOK, StartsOK,
         Current
<1>3. CallsOK' /\ CleanupSafe'
  BY DEF CameraOpens, ScannerInv, CallsOK, CleanupSafe, Current
<1> QED BY <1>1, <1>2, <1>3 DEF ScannerInv

LEMMA ResolvedStep ==
  ASSUME ScannerInv, NEW i \in Effects, StartResolved(i)
  PROVE  ScannerInv'
<1> USE EffectsAreNat DEF refs, ui
<1>1. /\ i \in awaiting /\ camera[i] = "on" /\ stopper[i] = "nobody"
      /\ awaiting' = awaiting \ {i}
      /\ UNCHANGED <<mounts, mountedRef, scannedRef, scannerRef, cancelled,
                     cameraError, broken, scans>>
      /\ i <= mounts /\ i \in Nat /\ mounts \in Nat
  BY DEF StartResolved, ScannerInv, ScannerTypeOK, StartsOK, RunsOK
<1>2. CASE Abandoned(i)
  <2>1. /\ camera' = [camera EXCEPT ![i] = "closing"]
        /\ stopper' = [stopper EXCEPT ![i] = "start"]
        /\ UNCHANGED <<startingRef, runningRef, starting>>
    BY <1>1, <1>2 DEF StartResolved, Stop
  <2>2. ~Current(i)
    BY <1>2 DEF Abandoned, ScannerInv, RunsOK, Current
  <2>3. ScannerTypeOK'
    BY <1>1, <2>1 DEF ScannerInv, ScannerTypeOK
  <2>4. RunsOK' /\ StartsOK'
    BY <1>1, <2>1 DEF ScannerInv, ScannerTypeOK, RunsOK, StartsOK, Current
  <2>5. RefsOK'
    BY <1>1, <2>1, <2>2 DEF ScannerInv, ScannerTypeOK, RefsOK, Current
  <2>6. CallsOK' /\ CleanupSafe'
    BY <1>1, <2>1 DEF ScannerInv, ScannerTypeOK, CallsOK, CleanupSafe, Current
  <2> QED BY <2>3, <2>4, <2>5, <2>6 DEF ScannerInv
<1>3. CASE ~Abandoned(i)
  <2>1. /\ runningRef' = TRUE /\ starting' = FALSE /\ startingRef' = FALSE
        /\ UNCHANGED <<camera, stopper>>
    BY <1>3 DEF StartResolved
  <2>2. mountedRef /\ i = mounts
    BY <1>1, <1>3 DEF Abandoned, ScannerInv, RunsOK, Current
  <2>3. ScannerTypeOK' /\ RunsOK' /\ StartsOK' /\ CallsOK' /\ CleanupSafe'
    BY <1>1, <2>1
    DEF ScannerInv, ScannerTypeOK, RunsOK, StartsOK, CallsOK, CleanupSafe,
        Current
  <2>4. RefsOK'
    BY <1>1, <2>1, <2>2 DEF ScannerInv, RefsOK, Current
  <2> QED BY <2>3, <2>4 DEF ScannerInv
<1> QED BY <1>2, <1>3

LEMMA RejectedStep ==
  ASSUME ScannerInv, NEW i \in Effects, StartRejected(i)
  PROVE  ScannerInv'
<1> USE EffectsAreNat DEF refs, ui
<1>1. /\ i \in awaiting /\ camera[i] = "opening"
      /\ awaiting' = awaiting \ {i}
      /\ camera' = [camera EXCEPT ![i] = "off"]
      /\ UNCHANGED <<mounts, mountedRef, scannedRef, scannerRef, cancelled,
                     stopper, broken, scans>>
      /\ runningRef' => runningRef
  BY DEF StartRejected, Complain
<1>2. ScannerTypeOK'
  BY <1>1 DEF StartRejected, Complain, ScannerInv, ScannerTypeOK
<1>3. RunsOK' /\ StartsOK'
  BY <1>1 DEF ScannerInv, ScannerTypeOK, RunsOK, StartsOK, Current
<1>4. RefsOK'
  BY <1>1 DEF ScannerInv, ScannerTypeOK, RefsOK, Current
<1>5. CallsOK' /\ CleanupSafe'
  BY <1>1 DEF ScannerInv, CallsOK, CleanupSafe, Current
<1> QED BY <1>2, <1>3, <1>4, <1>5 DEF ScannerInv

LEMMA DecodeStep ==
  ASSUME ScannerInv, NEW i \in Effects, Decode(i)
  PROVE  ScannerInv'
<1> USE EffectsAreNat DEF refs, ui
<1>1. /\ camera[i] = "on" /\ stopper[i] = "nobody" /\ scannedRef = FALSE
      /\ mountedRef /\ i = mounts /\ scans[i] = 0 /\ scannedRef' = TRUE
      /\ UNCHANGED <<mounts, mountedRef, startingRef, scannerRef, cancelled,
                     awaiting, ui, broken>>
  <2>1. camera[i] = "on" /\ ~cancelled[i] /\ mountedRef /\ ~scannedRef
    BY DEF Decode, Ignored, Abandoned
  <2>2. i <= mounts
    BY <2>1 DEF ScannerInv, ScannerTypeOK, RunsOK
  <2>3. i = mounts
    BY <2>1, <2>2 DEF ScannerInv, RunsOK, Current
  <2> QED BY <2>1, <2>3 DEF Decode, ScannerInv, ScannerTypeOK, CallsOK, Current
<1>2. CASE runningRef
  <2>1. /\ runningRef' = FALSE /\ scans' = scans
        /\ camera' = [camera EXCEPT ![i] = "closing"]
        /\ stopper' = [stopper EXCEPT ![i] = "callback"]
        /\ i \notin awaiting
    BY <1>1, <1>2 DEF Decode, Handover, Stop, ScannerInv, RefsOK
  <2>2. ScannerTypeOK' /\ RunsOK' /\ RefsOK'
    BY <1>1, <2>1 DEF ScannerInv, ScannerTypeOK, RunsOK, RefsOK, Current
  <2>3. StartsOK' /\ CallsOK' /\ CleanupSafe'
    BY <1>1, <2>1
    DEF ScannerInv, ScannerTypeOK, StartsOK, CallsOK, CleanupSafe, Current
  <2> QED BY <2>2, <2>3 DEF ScannerInv
<1>3. CASE ~runningRef
  <2>1. /\ UNCHANGED <<runningRef, camera, stopper>>
        /\ scans' = [scans EXCEPT ![i] = 1]
    BY <1>1, <1>3 DEF Decode, ScannerInv, ScannerTypeOK
  <2>2. ScannerTypeOK' /\ RunsOK' /\ RefsOK'
    BY <1>1, <2>1 DEF ScannerInv, ScannerTypeOK, RunsOK, RefsOK, Current
  <2>3. StartsOK' /\ CallsOK' /\ CleanupSafe'
    BY <1>1, <2>1
    DEF ScannerInv, ScannerTypeOK, StartsOK, CallsOK, CleanupSafe, Current
  <2> QED BY <2>2, <2>3 DEF ScannerInv
<1> QED BY <1>2, <1>3

LEMMA StopStep ==
  ASSUME ScannerInv, NEW i \in Effects, StopDone(i)
  PROVE  ScannerInv'
<1> USE EffectsAreNat DEF refs, ui
<1>1. /\ camera[i] = "closing"
      /\ camera' = [camera EXCEPT ![i] = "off"]
      /\ stopper' = [stopper EXCEPT ![i] = "nobody"]
      /\ startingRef' \in BOOLEAN
      /\ UNCHANGED <<mounts, mountedRef, runningRef, scannedRef, scannerRef,
                     cancelled, awaiting, ui, broken>>
      /\ \/ scans' = scans
         \/ stopper[i] = "callback" /\ scans' = [scans EXCEPT ![i] = @ + 1]
  BY DEF StopDone, Rest
<1>2. \/ scans' = scans
      \/ /\ stopper[i] = "callback" /\ scans[i] = 0
         /\ scans' = [scans EXCEPT ![i] = 1]
  BY <1>1 DEF ScannerInv, ScannerTypeOK, CallsOK
<1>3. ScannerTypeOK'
  BY <1>1, <1>2 DEF ScannerInv, ScannerTypeOK
<1>4. RunsOK'
  BY <1>1, <1>2 DEF ScannerInv, ScannerTypeOK, RunsOK, Current
<1>5. RefsOK' /\ StartsOK'
  BY <1>1 DEF ScannerInv, ScannerTypeOK, RefsOK, StartsOK, Current
<1>6. CallsOK' /\ CleanupSafe'
  BY <1>1, <1>2 DEF ScannerInv, ScannerTypeOK, CallsOK, CleanupSafe, Current
<1> QED BY <1>3, <1>4, <1>5, <1>6 DEF ScannerInv

LEMMA UnmountStep ==
  ASSUME ScannerInv, Unmount
  PROVE  ScannerInv'
<1> USE EffectsAreNat DEF refs, ui
<1>1. /\ mountedRef /\ mounts \in Effects /\ ~mountedRef'
      /\ cancelled' = [cancelled EXCEPT ![mounts] = TRUE]
      /\ scannerRef' = Nobody /\ ~runningRef'
      /\ UNCHANGED <<mounts, scannedRef, awaiting, ui, scans>>
  BY DEF Unmount, ScannerInv, ScannerTypeOK, RunsOK, RefsOK
<1>2. /\ broken' = broken /\ startingRef' \in BOOLEAN
      /\ \/ UNCHANGED <<camera, stopper>>
         \/ /\ camera[mounts] = "on" /\ mounts \notin awaiting
            /\ camera' = [camera EXCEPT ![mounts] = "closing"]
            /\ stopper' = [stopper EXCEPT ![mounts] = "cleanup"]
  <2>1. CASE scannerRef # Nobody /\ runningRef
    <3>1. scannerRef = mounts /\ camera[mounts] = "on" /\ mounts \notin awaiting
      BY <2>1 DEF ScannerInv, RefsOK
    <3> QED BY <2>1, <3>1 DEF Unmount, Stop, ScannerInv, ScannerTypeOK
  <2>2. CASE ~(scannerRef # Nobody /\ runningRef)
    BY <2>2 DEF Unmount
  <2> QED BY <2>1, <2>2
<1>3. ScannerTypeOK'
  <2>1. /\ ScannerTypeOK /\ cancelled' \in [Effects -> BOOLEAN]
        /\ UNCHANGED <<starting, cameraError>>
        /\ mountedRef' \in BOOLEAN /\ runningRef' \in BOOLEAN
    BY <1>1 DEF Unmount, ScannerInv, ScannerTypeOK
  <2>2. CASE UNCHANGED <<camera, stopper>>
    <3> QED BY <1>1, <1>2, <2>1, <2>2 DEF ScannerTypeOK
  <2>3. CASE /\ camera' = [camera EXCEPT ![mounts] = "closing"]
             /\ stopper' = [stopper EXCEPT ![mounts] = "cleanup"]
    <3>1. /\ camera' \in [Effects -> {"none", "opening", "on", "closing", "off"}]
          /\ stopper' \in
               [Effects -> {"nobody", "callback", "start", "cleanup"}]
      BY <1>1, <2>1, <2>3 DEF ScannerTypeOK
    <3>2. \A i \in Effects : stopper'[i] # "nobody" <=> camera'[i] = "closing"
      BY <1>1, <2>1, <2>3 DEF ScannerTypeOK
    <3> QED BY <1>1, <1>2, <2>1, <3>1, <3>2 DEF ScannerTypeOK
  <2> QED BY <1>2, <2>2, <2>3
<1>4. RunsOK'
  <2>1. \A i \in Effects : cancelled'[i] <=> cancelled[i] \/ i = mounts
    BY <1>1 DEF ScannerInv, ScannerTypeOK
  <2>2. \A i \in Effects : cancelled'[i] <=> i <= mounts
    BY <1>1, <2>1 DEF ScannerInv, ScannerTypeOK, RunsOK, Current
  <2>3. \A i \in Effects : i > mounts => camera'[i] = camera[i]
    BY <1>1, <1>2 DEF ScannerInv, ScannerTypeOK
  <2> QED BY <1>1, <2>2, <2>3 DEF ScannerInv, RunsOK, Current
<1>5. RefsOK' /\ StartsOK'
  BY <1>1, <1>2 DEF ScannerInv, ScannerTypeOK, RefsOK, StartsOK, Current
<1>6. CallsOK' /\ CleanupSafe'
  BY <1>1, <1>2 DEF ScannerInv, ScannerTypeOK, CallsOK, CleanupSafe, Current
<1> QED BY <1>3, <1>4, <1>5, <1>6 DEF ScannerInv

LEMMA ScannerStep == ScannerInv /\ [ScannerNext]_scannerVars => ScannerInv'
<1> SUFFICES ASSUME ScannerInv, [ScannerNext]_scannerVars PROVE ScannerInv'
  OBVIOUS
<1>1. CASE UNCHANGED scannerVars
  BY <1>1 DEF scannerVars, refs, ui, ScannerInv, ScannerTypeOK, RunsOK, RefsOK,
              StartsOK, CallsOK, CleanupSafe, Current
<1> QED
  BY <1>1, MountStep, OpensStep, ResolvedStep, RejectedStep, DecodeStep,
     StopStep, UnmountStep
  DEF ScannerNext

\* A run that is not cancelled and has touched its camera is the mounted one.
LEMMA NotCancelled ==
  ASSUME ScannerInv, NEW i \in Effects, ~cancelled[i], camera[i] # "none"
  PROVE  Current(i)
BY EffectsAreNat DEF ScannerInv, ScannerTypeOK, RunsOK

LEMMA CamerasStep ==
  ScannerInv /\ CamerasOK /\ [ScannerNext]_scannerVars => CamerasOK'
<1> SUFFICES ASSUME ScannerInv, CamerasOK, [ScannerNext]_scannerVars,
                    NEW i \in Effects
             PROVE  /\ camera'[i] = "opening" => i \in awaiting'
                    /\ camera'[i] = "on" /\ i \notin awaiting' =>
                         Current(i)' /\ runningRef'
  BY DEF CamerasOK
<1> DEFINE Backed == /\ camera'[i] = "opening" => i \in awaiting'
                     /\ camera'[i] = "on" /\ i \notin awaiting' =>
                          Current(i)' /\ runningRef'
<1> USE DEF refs, ui
<1>1. /\ camera[i] = "opening" => i \in awaiting
      /\ camera[i] = "on" /\ i \notin awaiting => Current(i) /\ runningRef
      /\ camera \in [Effects -> {"none", "opening", "on", "closing", "off"}]
  BY DEF CamerasOK, ScannerInv, ScannerTypeOK
<1>2. ASSUME NEW j \in Effects, Mount(j) PROVE Backed
  <2>1. ~mountedRef /\ ~(camera[i] = "on" /\ i \notin awaiting)
    BY <1>1, <1>2 DEF Mount, Current
  <2> QED BY <1>1, <1>2, <2>1 DEF Mount, Complain
<1>3. ASSUME NEW j \in Effects, CameraOpens(j) PROVE Backed
  BY <1>1, <1>3 DEF CameraOpens, Current
<1>4. ASSUME NEW j \in Effects, StartResolved(j) PROVE Backed
  <2>1. CASE i = j
    <3>1. CASE Abandoned(j)
      BY <1>1, <1>4, <2>1, <3>1 DEF StartResolved, Stop
    <3>2. CASE ~Abandoned(j)
      <4>1. Current(j) /\ UNCHANGED <<mountedRef, mounts>> /\ runningRef'
        BY <1>4, <3>2, NotCancelled DEF StartResolved, Abandoned
      <4> QED BY <1>4, <2>1, <3>2, <4>1 DEF StartResolved, Current
    <3> QED BY <3>1, <3>2
  <2>2. CASE i # j
    <3>1. /\ camera'[i] = camera[i] /\ awaiting' = awaiting \ {j}
          /\ UNCHANGED <<mountedRef, mounts>> /\ (runningRef => runningRef')
      BY <1>1, <1>4, <2>2 DEF StartResolved, Stop
    <3> QED BY <1>1, <2>2, <3>1 DEF Current
  <2> QED BY <2>1, <2>2
<1>5. ASSUME NEW j \in Effects, StartRejected(j) PROVE Backed
  <2>1. /\ camera' = [camera EXCEPT ![j] = "off"] /\ awaiting' = awaiting \ {j}
        /\ UNCHANGED <<mountedRef, mounts>>
        /\ runningRef' # runningRef => Current(j)
    BY <1>5, NotCancelled DEF StartRejected, Abandoned, ui
  <2> QED BY <1>1, <2>1 DEF Current
<1>6. ASSUME NEW j \in Effects, Decode(j) PROVE Backed
  <2>1. Current(j) /\ UNCHANGED <<mountedRef, mounts, awaiting>>
    BY <1>6, NotCancelled DEF Decode, Ignored, Abandoned
  <2> QED BY <1>1, <1>6, <2>1 DEF Decode, Stop, Current
<1>7. ASSUME NEW j \in Effects, StopDone(j) PROVE Backed
  BY <1>1, <1>7 DEF StopDone, Current
<1>8. CASE Unmount
  <2>1. UNCHANGED awaiting /\ Current(mounts)
    BY <1>8 DEF Unmount, Current
  <2>2. runningRef => /\ scannerRef # Nobody /\ scannerRef = mounts
                      /\ camera[mounts] = "on"
    BY DEF ScannerInv, RefsOK
  <2> QED BY <1>1, <1>8, <2>1, <2>2 DEF Unmount, Stop, Current
<1>9. CASE UNCHANGED scannerVars
  BY <1>1, <1>9 DEF scannerVars, Current
<1> QED
  BY <1>2, <1>3, <1>4, <1>5, <1>6, <1>7, <1>8, <1>9 DEF ScannerNext

----------------------------------------------------------------------------
\* The refs, the cameras and those who wait for them stay coherent.
THEOREM ScannerTypeCorrect == ScannerSpec => []ScannerTypeOK
<1>1. ScannerInv => ScannerTypeOK
  BY DEF ScannerInv
<1> QED BY ScannerInitial, ScannerStep, <1>1, PTL DEF ScannerSpec

\* A code is handed over once per run of the effect, whatever is decoded
\* while the camera starts and stops.
THEOREM ScanCorrect == ScannerSpec => []OneScanPerOpening
<1>1. ScannerInv => OneScanPerOpening
  BY DEF ScannerInv, CallsOK, OneScanPerOpening
<1> QED BY ScannerInitial, ScannerStep, <1>1, PTL DEF ScannerSpec

\* Whoever calls onScan is the mounted run.
THEOREM LateCorrect == ScannerSpec => NoLateScan
<1>1. ScannerInv /\ [ScannerNext]_scannerVars =>
        [\A i \in Effects :
           scans'[i] # scans[i] => mountedRef /\ ~cancelled[i]]_scannerVars
  <2> SUFFICES ASSUME ScannerInv, ScannerNext, NEW i \in Effects,
                      scans'[i] # scans[i]
               PROVE  mountedRef /\ ~cancelled[i]
    BY DEF scannerVars
  <2>1. PICK j \in Effects : Decode(j) \/ StopDone(j)
    BY DEF ScannerNext, Unmount, Mount, CameraOpens, StartResolved,
           StartRejected
  <2>2. scans' = [scans EXCEPT ![j] = @ + 1] /\ ~Abandoned(j)
    BY <2>1 DEF Decode, StopDone, Ignored, Wanted
  <2>3. i = j
    BY <2>2 DEF ScannerInv, ScannerTypeOK
  <2> QED BY <2>2, <2>3 DEF Abandoned
<1> QED BY ScannerInitial, ScannerStep, <1>1, PTL DEF ScannerSpec, NoLateScan

\* What CameraReleased rests on: the camera of a run that is gone is on, or
\* about to be, only while that run's start is awaited, whose continuation
\* stops it, or is being stopped already (the cleanup and startScanner's check
\* after the await).
THEOREM ReleaseCorrect ==
  ScannerSpec =>
    [](\A i \in Effects :
         cancelled[i] /\ camera[i] \in {"opening", "on"} => i \in awaiting)
<1>1. ScannerInit => CamerasOK
  BY DEF ScannerInit, CamerasOK
<1>2. ScannerInv /\ CamerasOK =>
        \A i \in Effects :
          cancelled[i] /\ camera[i] \in {"opening", "on"} => i \in awaiting
  BY DEF ScannerInv, RunsOK, CamerasOK
<1> QED
  BY ScannerInitial, ScannerStep, CamerasStep, <1>1, <1>2, PTL DEF ScannerSpec

\* A camera that has gone out stays out, and that of a run cancelled before it
\* asked for one is never opened.
THEOREM OutCorrect ==
  ScannerSpec =>
    [][\A i \in Effects :
         (camera[i] = "off" \/ (cancelled[i] /\ camera[i] = "none"))
           => camera'[i] = camera[i]]_scannerVars
<1>1. ScannerInv /\ [ScannerNext]_scannerVars =>
        [\A i \in Effects :
           (camera[i] = "off" \/ (cancelled[i] /\ camera[i] = "none"))
             => camera'[i] = camera[i]]_scannerVars
  <2> SUFFICES ASSUME ScannerInv, ScannerNext, NEW i \in Effects,
                      camera[i] = "off" \/ (cancelled[i] /\ camera[i] = "none")
               PROVE  camera'[i] = camera[i]
    OBVIOUS
  <2>1. /\ camera \in [Effects -> {"none", "opening", "on", "closing", "off"}]
        /\ i > mounts => ~cancelled[i] /\ camera[i] = "none"
        /\ runningRef => scannerRef # Nobody /\ camera[scannerRef] = "on"
    BY EffectsAreNat DEF ScannerInv, ScannerTypeOK, RunsOK, RefsOK
  <2>2. ASSUME NEW j \in Effects, Mount(j) PROVE camera'[i] = camera[i]
    BY <2>1, <2>2, EffectsAreNat DEF Mount, ScannerInv, ScannerTypeOK
  <2>3. ASSUME NEW j \in Effects,
               \/ CameraOpens(j) \/ StartResolved(j) \/ StartRejected(j)
               \/ Decode(j) \/ StopDone(j)
        PROVE  camera'[i] = camera[i]
    BY <2>1, <2>3
    DEF CameraOpens, StartResolved, StartRejected, Decode, StopDone, Stop
  <2>4. CASE Unmount
    BY <2>1, <2>4 DEF Unmount, Stop
  <2> QED BY <2>2, <2>3, <2>4 DEF ScannerNext
<1> QED BY ScannerInitial, ScannerStep, <1>1, PTL DEF ScannerSpec

\* What StaffTaskPage takes the scanner for.  It is armed by a mount and by
\* nothing else, and disarmed by handing over a code or by the unmount; it
\* hands over one code, and only while it is armed (onScan, and the effect).
Armed == mountedRef /\ scans[mounts] = 0

DialogStep ==
  /\ \A i \in Effects :
       scans'[i] # scans[i] => Armed /\ ~Armed' /\ i = mounts /\ scans'[i] = 1
  /\ ~Armed /\ Armed' => ~mountedRef /\ mountedRef'
  /\ Armed /\ ~Armed' => ~mountedRef' \/ scans'[mounts] = 1

THEOREM DialogCorrect == ScannerSpec => [][DialogStep]_scannerVars
<1>1. ScannerInv /\ [ScannerNext]_scannerVars => [DialogStep]_scannerVars
  <2> SUFFICES ASSUME ScannerInv, ScannerNext PROVE DialogStep
    OBVIOUS
  <2>1. /\ scans \in [Effects -> Nat] /\ mounts \in Nat
        /\ mountedRef => mounts \in Effects
        /\ \A i \in Effects : scans[i] <= 1
        /\ \A i \in Effects : i > mounts => scans[i] = 0
        /\ \A i \in Effects : stopper[i] = "callback" => scans[i] = 0
        /\ \A i \in Effects : Current(i) /\ ~scannedRef => scans[i] = 0
    BY EffectsAreNat DEF ScannerInv, ScannerTypeOK, CallsOK, RunsOK
  <2>2. CASE UNCHANGED <<scans, mounts, mountedRef>>
    BY <2>2 DEF DialogStep, Armed
  <2>3. ASSUME NEW j \in Effects, Mount(j) PROVE DialogStep
    BY <2>1, <2>3 DEF Mount, DialogStep, Armed
  <2>4. CASE Unmount
    BY <2>4 DEF Unmount, DialogStep, Armed
  <2>5. ASSUME NEW j \in Effects, scans' = [scans EXCEPT ![j] = @ + 1],
               Current(j), scans[j] = 0, UNCHANGED <<mounts, mountedRef>>
        PROVE  DialogStep
    BY <2>1, <2>5 DEF DialogStep, Armed, Current
  <2>6. ASSUME NEW j \in Effects, Decode(j) PROVE DialogStep
    <3>1. Current(j) /\ ~scannedRef /\ UNCHANGED <<mounts, mountedRef>>
      BY <2>6, NotCancelled DEF Decode, Ignored, Abandoned
    <3> QED BY <2>1, <2>2, <2>5, <2>6, <3>1 DEF Decode
  <2>7. ASSUME NEW j \in Effects, StopDone(j) PROVE DialogStep
    <3>1. UNCHANGED <<mounts, mountedRef>>
      BY <2>7 DEF StopDone
    <3>2. CASE stopper[j] = "callback" /\ ~Abandoned(j)
      BY <2>1, <2>5, <2>7, <3>1, <3>2, NotCancelled
      DEF StopDone, Wanted, Abandoned
    <3>3. CASE ~(stopper[j] = "callback" /\ ~Abandoned(j))
      BY <2>2, <2>7, <3>1, <3>3 DEF StopDone, Wanted
    <3> QED BY <3>2, <3>3
  <2>8. ASSUME NEW j \in Effects,
               CameraOpens(j) \/ StartResolved(j) \/ StartRejected(j)
        PROVE  DialogStep
    BY <2>2, <2>8 DEF CameraOpens, StartResolved, StartRejected, refs
  <2> QED BY <2>3, <2>4, <2>6, <2>7, <2>8 DEF ScannerNext
<1> QED BY ScannerInitial, ScannerStep, <1>1, PTL DEF ScannerSpec

\* The cleanup never throws.
THEOREM CleanupCorrect == ScannerSpec => []CleanupSafe
<1>1. ScannerInv => CleanupSafe
  BY DEF ScannerInv
<1> QED BY ScannerInitial, ScannerStep, <1>1, PTL DEF ScannerSpec
=============================================================================
