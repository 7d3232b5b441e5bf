--------------------------- MODULE StaffTaskPage ---------------------------
(***************************************************************************)
(* The page on which a member of staff works through the day               *)
(* (StaffDailyTasks): the list fetched from the server with the queued     *)
(* actions laid over it, the buttons, the QR dialog and the badge that     *)
(* counts what waits in the offline queue.                                 *)
(*                                                                         *)
(* Every handler awaits a request and writes into the state of the         *)
(* component when the answer comes, whatever has happened to that state    *)
(* meanwhile.  A flush of the queue runs beside them.                      *)
(*                                                                         *)
(* The clicks of one user decide who acts; which request fails is the      *)
(* environment's choice.  A device that is offline is one whose requests   *)
(* all fail or are queued at once.                                         *)
(***************************************************************************)
EXTENDS Integers, Sequences

CONSTANTS
  Tasks,    \* the tasks of the day
  Calls,    \* bound: the requests for an action in flight at a time
  MaxQueue, \* bound: how many records the queue holds
  MaxTaps,  \* bound: how many buttons the user presses in a visit
  Elsewhere, \* bound: the statuses that somebody else writes meanwhile
  None

\* PENDING has the buttons of SCHEDULED, MISSED those of DONE.
Status == {"SCHEDULED", "IN_PROGRESS", "DONE", "FLAGGED"}
Actions == {"start", "complete", "flag"}

\* Who fetches the list: a handler whose action was queued, a flush that
\* took something off the queue, or the page itself (mount and button).
\* Bound: one fetch of each is in flight at a time.
Origins == Calls \cup {"page", "flush"}

\* What a row shows, an action asked for, and where a handler, a fetch of the
\* list and a flush of the queue wait.
Shown == [status : Status, pending : BOOLEAN]
Requests == [task : Tasks, action : Actions]
Handlers == [task : Tasks, action : Actions,
             at : {"sending", "checked", "answered", "queueing", "reloading"},
             got : Status \cup {None}]
Fetches == [list : [Tasks -> Status] \cup {None}]
Flushes == [left : Nat, drained : BOOLEAN,
            at : {"sending", "checked", "dealt"}]

ASSUME PageAssumption ==
  /\ MaxQueue \in Nat \ {0}
  /\ MaxTaps \in Nat
  /\ Elsewhere \subseteq Status
  /\ {"page", "flush"} \cap Calls = {}
  /\ None \notin Tasks \cup Status
  /\ None \notin [Tasks -> Status]
  /\ None \notin Shown \cup Requests \cup Handlers \cup Fetches \cup Flushes

VARIABLES
  server,        \* the status of each task in the database
  was,           \* history: the statuses the database has had in this visit
  queue,         \* the records of the offline queue, oldest first
  storage,       \* whether IndexedDB is available to this page
  rows,          \* tasks: what the list shows of each task
  isLoading, error,
  actionLoading, \* the task whose buttons are disabled
  pendingCount,  \* the badge
  chosen,        \* selectedTaskId and qrAction, set and cleared together
  qrOpen,
  armed,         \* the scanner in the dialog has not handed over a code yet
  isProcessing,  \* isProcessingQr
  calls,         \* handleQRScan and handleFlag, where they wait
  loads,         \* loadTasks, where it waits
  recount,       \* refreshPendingCount is under way
  flush,         \* flushQueue, where it waits
  taps,          \* how many buttons were pressed, up to MaxTaps
  unseen         \* history: a flush has removed a record since the last
                 \* fetch of the list began

database == <<server, was>>
list == <<rows, isLoading, error, loads, unseen>>
dialog == <<chosen, qrOpen, armed, isProcessing>>
badge == <<pendingCount, recount>>
vars == <<database, queue, storage, list, dialog, badge, actionLoading,
          calls, taps, flush>>

Row(s, p) == [status |-> s, pending |-> p]
Request(t, a) == [task |-> t, action |-> a]

\* A visit begins with the first fetch under way, and perhaps with an action
\* left in the queue by an earlier visit.
Init ==
  /\ server = [t \in Tasks |-> "SCHEDULED"]
  /\ was = [t \in Tasks |-> {server[t]}]
  /\ storage \in BOOLEAN
  /\ queue \in {<<>>} \cup
       (IF storage THEN {<<Request(t, "start")>> : t \in Tasks} ELSE {})
  /\ rows = [t \in Tasks |-> None]
  /\ isLoading = TRUE /\ error = FALSE /\ actionLoading = None
  /\ pendingCount = 0 /\ recount = FALSE
  /\ chosen = None /\ qrOpen = FALSE /\ armed = FALSE /\ isProcessing = FALSE
  /\ calls = [c \in Calls |-> None] /\ taps = 0
  /\ loads = [o \in Origins |-> IF o = "page" THEN [list |-> None] ELSE None]
  /\ flush = None
  /\ unseen = FALSE

----------------------------------------------------------------------------
(* The backend, as far as the page can tell.  A handler of TasksService     *)
(* reads the task and checks its status, and writes the new one by the id   *)
(* alone when that query has been answered: what happened in between is     *)
(* overwritten.                                                             *)

Effect(a) == CASE a = "start"    -> "IN_PROGRESS"
               [] a = "complete" -> "DONE"
               [] a = "flag"     -> "FLAGGED"

Accepts(s, a) ==
  \/ a = "start" /\ s = "SCHEDULED"
  \/ a = "complete" /\ s = "IN_PROGRESS"
  \/ a = "flag"

Write(t, s) ==
  /\ server' = [server EXCEPT ![t] = s]
  /\ was' = [was EXCEPT ![t] = @ \cup {s}]

\* PUT from another window, PATCH :id/status by anybody who is signed in, and
\* a request of this page whose connection broke before it was carried out.
WrittenElsewhere(t, s) ==
  /\ Write(t, s)
  /\ UNCHANGED <<queue, storage, list, dialog, badge, actionLoading, calls,
                 taps, flush>>

----------------------------------------------------------------------------
(* Fetching the list. *)

\* applyPendingOverlay: the last record of a task decides what is shown.
Queued(t) == {i \in DOMAIN queue : queue[i].task = t}
Latest(t) == CHOOSE i \in Queued(t) : \A j \in Queued(t) : j <= i

Overlay_Unmarked(fetched) ==
  [t \in Tasks |->
     Row(IF Queued(t) = {} THEN fetched[t]
         ELSE Effect(queue[Latest(t)].action), FALSE)]

Overlay(fetched) ==
  [t \in Tasks |->
     IF Queued(t) = {} THEN Row(fetched[t], FALSE)
     ELSE Row(Effect(queue[Latest(t)].action), TRUE)]

\* The synchronous part of loadTasks.
BeginLoad(o) ==
  /\ loads[o] = None
  /\ loads' = [loads EXCEPT ![o] = [list |-> None]]
  /\ isLoading' = TRUE
  /\ error' = FALSE
  /\ unseen' = FALSE
  /\ UNCHANGED rows

\* The finally block of a handler.  That of handleQRScan also forgets the
\* task and the action that are selected by now.
Settle_ScanOnly(c) ==
  /\ calls' = [calls EXCEPT ![c] = None]
  /\ IF calls[c].action = "flag"
     THEN UNCHANGED <<actionLoading, chosen, isProcessing>>
     ELSE actionLoading' = None /\ chosen' = None /\ isProcessing' = FALSE
  /\ UNCHANGED <<qrOpen, armed>>

Settle(c) ==
  /\ calls' = [calls EXCEPT ![c] = None]
  /\ actionLoading' = None
  /\ IF calls[c].action = "flag"
     THEN UNCHANGED <<chosen, isProcessing>>
     ELSE chosen' = None /\ isProcessing' = FALSE
  /\ UNCHANGED <<qrOpen, armed>>

\* loadTasks returns; a handler that awaits it goes on to its end.
LoadOver(o) ==
  /\ loads' = [loads EXCEPT ![o] = None]
  /\ isLoading' = FALSE
  /\ IF o \in Calls THEN Settle(o)
     ELSE UNCHANGED <<calls, actionLoading, dialog>>

\* The user presses a button.
Tap ==
  /\ taps < MaxTaps
  /\ taps' = taps + 1

\* The refresh button.
Refresh ==
  /\ ~isLoading
  /\ Tap
  /\ BeginLoad("page")
  /\ UNCHANGED <<database, queue, storage, dialog, badge, actionLoading,
                 calls, flush>>

\* The server reads the list; the answer is under way.
ListRead(o) ==
  /\ loads[o] # None
  /\ loads[o].list = None
  /\ loads' = [loads EXCEPT ![o].list = server]
  /\ UNCHANGED <<database, queue, storage, rows, isLoading, error, unseen,
                 dialog, badge, actionLoading, calls, taps, flush>>

\* The answer has come and the queue has been read.
LoadDone(o) ==
  /\ loads[o] # None
  /\ loads[o].list # None
  /\ rows' = Overlay(loads[o].list)
  /\ pendingCount' = Len(queue)
  /\ LoadOver(o)
  /\ UNCHANGED <<database, queue, storage, error, unseen, recount, taps, flush>>

\* No answer, or not a 2xx.
LoadFails(o) ==
  /\ loads[o] # None
  /\ error' = TRUE
  /\ LoadOver(o)
  /\ UNCHANGED <<database, queue, storage, rows, unseen, badge, taps, flush>>

\* The event that announces a change of the queue.
NotifyQueueChanged_Silent == UNCHANGED recount
NotifyQueueChanged == recount' = TRUE

\* refreshPendingCount, after the event of a change.
Recount ==
  /\ recount
  /\ recount' = FALSE
  /\ pendingCount' = Len(queue)
  /\ UNCHANGED <<database, queue, storage, list, dialog, actionLoading,
                 calls, taps, flush>>

----------------------------------------------------------------------------
(* The buttons and the dialog. *)

Offered(s) == CASE s = "SCHEDULED"   -> {"start", "flag"}
                [] s = "IN_PROGRESS" -> {"complete", "flag"}
                [] OTHER             -> {}

\* A button that can be pressed: the list is on screen, no dialog covers it,
\* and the task is not the one marked as busy.
Pressable(t, a) ==
  /\ ~isLoading /\ ~error /\ ~qrOpen
  /\ rows[t] # None
  /\ a \in Offered(rows[t].status)
  /\ actionLoading # t

OpenQR(t, a) ==
  /\ Pressable(t, a)
  /\ a # "flag"
  /\ Tap
  /\ chosen' = Request(t, a)
  /\ qrOpen' = TRUE
  /\ armed' = TRUE
  /\ isProcessing' = FALSE
  /\ UNCHANGED <<database, queue, storage, list, badge, actionLoading, calls,
                 flush>>

CloseQR ==
  /\ qrOpen
  /\ qrOpen' = FALSE
  /\ armed' = FALSE
  /\ chosen' = None
  /\ isProcessing' = FALSE
  /\ UNCHANGED <<database, queue, storage, list, badge, actionLoading, calls,
                 taps, flush>>

----------------------------------------------------------------------------
(* The handlers. *)

\* apiRequest sends the action, or queues it when the device is offline.
Perform(c, r) ==
  /\ calls[c] = None
  /\ \E at \in {"sending", "queueing"} :
       calls' = [calls EXCEPT ![c] = [task |-> r.task, action |-> r.action,
                                      at |-> at, got |-> None]]
  /\ actionLoading' = r.task

\* The scanner hands over a code, once per opening of the dialog.
HandleQRScan(c) ==
  /\ armed
  /\ armed' = FALSE
  /\ \/ /\ chosen # None /\ ~isProcessing
        /\ isProcessing' = TRUE
        /\ qrOpen' = FALSE
        /\ Perform(c, chosen)
        /\ UNCHANGED chosen
     \/ /\ chosen = None \/ isProcessing
        /\ UNCHANGED <<calls, actionLoading, chosen, qrOpen, isProcessing>>
  /\ UNCHANGED <<database, queue, storage, list, badge, taps, flush>>

HandleFlag(c, t) ==
  /\ Pressable(t, "flag")
  /\ Tap
  /\ Perform(c, Request(t, "flag"))
  /\ UNCHANGED <<database, queue, storage, list, badge, dialog, flush>>

\* The server has read the task: it goes on, or answers with an error.
Checked(c) ==
  /\ calls[c] # None
  /\ calls[c].at = "sending"
  /\ \/ /\ Accepts(server[calls[c].task], calls[c].action)
        /\ calls' = [calls EXCEPT ![c].at = "checked"]
     \/ calls' = [calls EXCEPT ![c].at = "answered"]
  /\ UNCHANGED <<database, queue, storage, list, dialog, badge, actionLoading,
                 taps, flush>>

\* It writes the status and answers; an error may come before or after that.
Handled(c) ==
  /\ calls[c] # None
  /\ calls[c].at = "checked"
  /\ \/ /\ Write(calls[c].task, Effect(calls[c].action))
        /\ \E got \in {Effect(calls[c].action), None} :
             calls' = [calls EXCEPT ![c].at = "answered", ![c].got = got]
     \/ /\ calls' = [calls EXCEPT ![c].at = "answered"]
        /\ UNCHANGED database
  /\ UNCHANGED <<queue, storage, list, dialog, badge, actionLoading, taps,
                 flush>>

\* The row is replaced by the one in the answer; an error is shown.
AnswerArrives(c) ==
  /\ calls[c] # None
  /\ calls[c].at = "answered"
  /\ rows' = IF calls[c].got = None THEN rows
             ELSE [rows EXCEPT ![calls[c].task] = Row(calls[c].got, FALSE)]
  /\ Settle(c)
  /\ UNCHANGED <<database, queue, storage, isLoading, error, loads, unseen,
                 badge, taps, flush>>

\* The fetch is rejected; the request may have reached the server, or may
\* reach it yet (WrittenElsewhere).
NetworkFails(c) ==
  /\ calls[c] # None
  /\ calls[c].at \in {"sending", "checked", "answered"}
  /\ calls' = [calls EXCEPT ![c].at = "queueing", ![c].got = None]
  /\ UNCHANGED <<database, queue, storage, list, dialog, badge,
                 actionLoading, taps, flush>>

\* The record is stored, the change is announced and the handler fetches
\* the list; without a store the user is shown an error.
QueueRequest(c) ==
  /\ calls[c] # None
  /\ calls[c].at = "queueing"
  /\ \/ /\ storage
        /\ Len(queue) < MaxQueue
        /\ queue' = Append(queue, Request(calls[c].task, calls[c].action))
        /\ NotifyQueueChanged
        /\ calls' = [calls EXCEPT ![c].at = "reloading"]
        /\ BeginLoad(c)
        /\ UNCHANGED <<actionLoading, dialog>>
     \/ /\ ~storage
        /\ Settle(c)
        /\ UNCHANGED <<queue, recount, list>>
  /\ UNCHANGED <<database, storage, pendingCount, taps, flush>>

----------------------------------------------------------------------------
(* A flush of the queue; its triggers are those of OfflineQueue. *)

StartFlush ==
  /\ flush = None
  /\ queue # <<>>
  /\ flush' = [left |-> Len(queue), drained |-> FALSE, at |-> "sending"]
  /\ UNCHANGED <<database, queue, storage, list, dialog, badge,
                 actionLoading, calls, taps>>

\* The server has read the task of the oldest record.
ReplayChecked ==
  /\ flush # None
  /\ flush.left > 0 /\ flush.at = "sending"
  /\ \/ /\ Accepts(server[Head(queue).task], Head(queue).action)
        /\ flush' = [flush EXCEPT !.at = "checked"]
     \/ flush' = [flush EXCEPT !.at = "dealt"]
  /\ UNCHANGED <<database, queue, storage, list, dialog, badge, actionLoading,
                 calls, taps>>

Replayed ==
  /\ flush # None
  /\ flush.at = "checked"
  /\ flush' = [flush EXCEPT !.at = "dealt"]
  /\ \/ Write(Head(queue).task, Effect(Head(queue).action))
     \/ UNCHANGED database
  /\ UNCHANGED <<queue, storage, list, dialog, badge, actionLoading, calls,
                 taps>>

\* A final answer takes the record off the queue, and so does the last
\* permitted server error, which also ends the loop.
Removed ==
  /\ flush # None
  /\ flush.at = "dealt"
  /\ queue' = Tail(queue)
  /\ NotifyQueueChanged
  /\ unseen' = TRUE
  /\ \E left \in {flush.left - 1, 0} :
       flush' = [left |-> left, drained |-> TRUE, at |-> "sending"]
  /\ UNCHANGED <<database, storage, rows, isLoading, error, loads, dialog,
                 pendingCount, actionLoading, calls, taps>>

\* The event is dispatched if a record was removed.
Announced_WhenEmpty == flush.drained /\ flush.left = 0
Announced == flush.drained

\* The queue is drained, or no answer, a 401 or a 5xx stops the loop.
FlushEnds ==
  /\ flush # None
  /\ IF Announced THEN BeginLoad("flush") ELSE UNCHANGED list
  /\ flush' = None
  /\ UNCHANGED <<database, queue, storage, dialog, badge, actionLoading,
                 calls, taps>>

----------------------------------------------------------------------------
Next ==
  \/ Refresh \/ Recount \/ CloseQR
  \/ StartFlush \/ ReplayChecked \/ Replayed \/ Removed \/ FlushEnds
  \/ \E o \in Origins : ListRead(o) \/ LoadDone(o) \/ LoadFails(o)
  \/ \E t \in Tasks, a \in Actions : OpenQR(t, a)
  \/ \E c \in Calls :
       \/ HandleQRScan(c) \/ Checked(c) \/ Handled(c) \/ AnswerArrives(c)
       \/ NetworkFails(c) \/ QueueRequest(c)
       \/ \E t \in Tasks : HandleFlag(c, t)
  \/ \E t \in Tasks, s \in Elsewhere : WrittenElsewhere(t, s)

Spec == Init /\ [][Next]_vars

\* A fetch is answered or rejected in the end, and a count of the store
\* returns.  Nothing is assumed of the user or of the server's verdicts.
FairSpec ==
  /\ Spec
  /\ WF_vars(Recount)
  /\ WF_vars(FlushEnds)
  /\ \A o \in Origins : WF_vars(LoadDone(o) \/ LoadFails(o))

----------------------------------------------------------------------------
(* Properties. *)

\* Types; a handler waits for the list exactly while its fetch is in flight,
\* a flush never holds more than the queue, and the scanner runs in the
\* open dialog only.
TypeOK ==
  /\ server \in [Tasks -> Status]
  /\ was \in [Tasks -> SUBSET Status]
  /\ queue \in Seq(Requests)
  /\ storage \in BOOLEAN
  /\ rows \in [Tasks -> Shown \cup {None}]
  /\ isLoading \in BOOLEAN /\ error \in BOOLEAN /\ unseen \in BOOLEAN
  /\ actionLoading \in Tasks \cup {None}
  /\ pendingCount \in Nat /\ recount \in BOOLEAN /\ taps \in Nat
  /\ chosen \in Requests \cup {None}
  /\ qrOpen \in BOOLEAN /\ isProcessing \in BOOLEAN
  /\ armed \in BOOLEAN /\ (armed => qrOpen)
  /\ calls \in [Calls -> Handlers \cup {None}]
  /\ loads \in [Origins -> Fetches \cup {None}]
  /\ \A c \in Calls :
       loads[c] # None <=> calls[c] # None /\ calls[c].at = "reloading"
  /\ flush \in Flushes \cup {None}
  /\ flush # None => /\ flush.left <= Len(queue)
                     /\ flush.at # "sending" => flush.left > 0

\* What the list shows without the mark of a pending action may be old, but
\* the task did have that status: an action that nothing has confirmed does
\* not pass for one that was carried out, whichever of the overlapping lists,
\* answers and replays comes last (setTasks, applyPendingOverlay).
UnconfirmedMarked ==
  \A t \in Tasks :
    rows[t] # None /\ ~rows[t].pending => rows[t].status \in was[t]

\* A task whose buttons are disabled has a request in flight: whatever way
\* the handlers overlap and end, none leaves a task blocked behind.
BusyBacked ==
  actionLoading # None =>
    \E c \in Calls : calls[c] # None /\ calls[c].task = actionLoading

\* Once the queue has changed, the badge follows it: when the queue comes to
\* rest the badge ends up showing its length, although fetches of the list
\* and counts of the store run into each other.
BadgeFollows ==
  \A n \in 0..MaxQueue :
    <>[](Len(queue) = n) /\ <>(Len(queue) # n) => <>[](pendingCount = n)

\* What a flush takes off the queue is followed by a fetch of the list that
\* begins afterwards, also when the flush is cut short.
RefetchAfterFlush == unseen ~> ~unseen
=============================================================================
