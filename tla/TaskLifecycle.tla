--------------------------- MODULE TaskLifecycle ---------------------------
(***************************************************************************)
(* TasksService of the backend: the handlers that move a task.             *)
(*                                                                         *)
(* No handler runs in a transaction.  Each one awaits a findUnique, checks *)
(* what it read, awaits an update that carries no condition on what was    *)
(* read, and, for a request that carries a QR code, awaits the creation of *)
(* a scan event.  Node runs other requests during every await, so a        *)
(* handler is up to three steps: the read and its checks (StartTask ..),   *)
(* the write (CommitStart ..), the scan event (RecordScan).                *)
(***************************************************************************)
EXTENDS TaskRecord

CONSTANTS
  Requests,   \* the HTTP requests the backend gets, each handled once
  Endpoints,  \* which of AllEndpoints the clients use
  Concurrent  \* may two requests be in flight at once?

AllEndpoints == {"start", "complete", "flag", "put", "status"}
InFlight == {"write", "scan"}
Answers == {"200", "400", "404", "500", "lost"}

ASSUME LifecycleAssumption ==
  /\ Endpoints \subseteq AllEndpoints
  /\ Concurrent \in BOOLEAN

VARIABLES
  rows, status, owner, startedAt, completedAt, durationSec, \* task_instances
  accounts,  \* users that still have a row
  scans,     \* scan_events written by the task handlers
  pc,        \* where the handler of each request stands
  call,      \* what each request in flight asked for
  seenStart, \* startedAt as its handler read it before the checks
  told,      \* history: the requests with a QR code that were answered 200
  overridden \* history: the tasks whose status PUT has written

columns == <<rows, status, owner, startedAt, completedAt, durationSec>>
vars == <<columns, accounts, scans, pc, call, seenStart, told, overridden>>

Calls ==
  [ep : Endpoints, user : Users, task : Tasks, to : OrNone(TaskStatus),
   qr : BOOLEAN]

Init ==
  /\ rows = Tasks
  /\ status = [t \in Tasks |-> "SCHEDULED"]
  /\ owner \in [Tasks -> OrNone(Users)]
  /\ startedAt = [t \in Tasks |-> None]
  /\ completedAt = [t \in Tasks |-> None]
  /\ durationSec = [t \in Tasks |-> None]
  /\ accounts = Users
  /\ scans = {}
  /\ pc = [r \in Requests |-> "idle"]
  /\ call = [r \in Requests |-> None]
  /\ seenStart = [r \in Requests |-> None]
  /\ told = {}
  /\ overridden = {}

----------------------------------------------------------------------------
(* The checks of each handler, on the row it has just read. *)

Foreign_Skipped(u, t) == FALSE
Foreign(u, t) == owner[t] # u

StartRefused(t) == status[t] \notin {"SCHEDULED", "PENDING"}

CompleteRefused_Loose(t) == status[t] \in {"DONE", "MISSED"}
CompleteRefused(t) == status[t] # "IN_PROGRESS"

StatusRefused_NoOrder(t, s) == status[t] \in {"DONE", "MISSED"}
StatusRefused(t, s) ==
  \/ status[t] \in {"DONE", "MISSED"}
  \/ s = "DONE" /\ status[t] # "IN_PROGRESS"

Admitted(r) ==
  /\ pc[r] = "idle"
  /\ Concurrent \/ \A q \in Requests : pc[q] \notin InFlight

\* A handler that answers is over, and what it held is gone.
Answer(r, code) ==
  /\ pc' = [pc EXCEPT ![r] = code]
  /\ call' = [call EXCEPT ![r] = None]
  /\ seenStart' = [seenStart EXCEPT ![r] = None]

\* The first half of a handler: c is read against the row and the request
\* is answered at once, or goes on to its write.
Receive(r, c, refused, noop) ==
  /\ c.ep \in Endpoints
  /\ \/ /\ c.task \notin rows
        /\ Answer(r, "404")
     \/ /\ c.task \in rows /\ noop
        /\ Answer(r, "200")
     \/ /\ c.task \in rows /\ ~noop /\ refused
        /\ Answer(r, "400")
     \/ /\ c.task \in rows /\ ~noop /\ ~refused
        /\ pc' = [pc EXCEPT ![r] = "write"]
        /\ call' = [call EXCEPT ![r] = c]
        /\ seenStart' = [seenStart EXCEPT ![r] = startedAt[c.task]]
  /\ UNCHANGED <<columns, accounts, scans, told, overridden>>

Call(ep, u, t, s, qr) ==
  [ep |-> ep, user |-> u, task |-> t, to |-> s, qr |-> qr]

StartTask(r) ==
  /\ Admitted(r)
  /\ \E u \in Users, t \in Tasks, qr \in BOOLEAN :
       Receive(r, Call("start", u, t, "IN_PROGRESS", qr),
               Foreign(u, t) \/ StartRefused(t), FALSE)

CompleteTask(r) ==
  /\ Admitted(r)
  /\ \E u \in Users, t \in Tasks, qr \in BOOLEAN :
       Receive(r, Call("complete", u, t, "DONE", qr),
               Foreign(u, t) \/ CompleteRefused(t), FALSE)

FlagTask(r) ==
  /\ Admitted(r)
  /\ \E u \in Users, t \in Tasks :
       Receive(r, Call("flag", u, t, "FLAGGED", FALSE), Foreign(u, t), FALSE)

\* The body of PUT may hold a status, or only a checklist (to = None).
UpdateTask(r) ==
  /\ Admitted(r)
  /\ \E u \in Users, t \in Tasks, s \in OrNone(TaskStatus) :
       Receive(r, Call("put", u, t, s, FALSE), Foreign(u, t), FALSE)

\* The one endpoint that does not look at who is calling.
UpdateTaskStatus(r) ==
  /\ Admitted(r)
  /\ \E u \in Users, t \in Tasks, s \in TaskStatus :
       Receive(r, Call("status", u, t, s, FALSE),
               StatusRefused(t, s), status[t] = s)

\* A flag without a reason is refused before anything is read.
FlagWithoutReason(r) ==
  /\ Admitted(r)
  /\ "flag" \in Endpoints
  /\ Answer(r, "400")
  /\ UNCHANGED <<columns, accounts, scans, told, overridden>>

----------------------------------------------------------------------------
(* The second half: the update by primary key, whatever the row now holds. *)

NeedsScan_Never(c) == FALSE
NeedsScan(c) == c.qr

\* Answering 200; told remembers it of the requests that owe an event.
Succeed(r) ==
  /\ Answer(r, "200")
  /\ told' = IF call[r].qr THEN told \cup {[by |-> r, user |-> call[r].user]}
             ELSE told

Commit(r, ep, s) ==
  LET t == call[r].task
  IN  /\ pc[r] = "write"
      /\ call[r].ep = ep
      /\ t \in rows
      /\ status' = [status EXCEPT ![t] = s]
      /\ IF NeedsScan(call[r])
         THEN /\ pc' = [pc EXCEPT ![r] = "scan"]
              /\ UNCHANGED <<call, seenStart, told>>
         ELSE Succeed(r)
      /\ overridden' = IF ep = "put" /\ call[r].to # None
                       THEN overridden \cup {t} ELSE overridden
      /\ UNCHANGED <<rows, owner, accounts, scans>>

CommitStart(r) ==
  /\ Commit(r, "start", "IN_PROGRESS")
  /\ \E at \in Times :
       startedAt' = [startedAt EXCEPT ![call[r].task] = at]
  /\ UNCHANGED <<completedAt, durationSec>>

CommitComplete(r) ==
  /\ Commit(r, "complete", "DONE")
  /\ \E at \in Times :
       completedAt' = [completedAt EXCEPT ![call[r].task] = at]
  /\ UNCHANGED <<startedAt, durationSec>>

CommitFlag(r) ==
  /\ Commit(r, "flag", "FLAGGED")
  /\ UNCHANGED <<startedAt, completedAt, durationSec>>

CommitPut(r) ==
  /\ Commit(r, "put",
            IF call[r].to = None THEN status[call[r].task] ELSE call[r].to)
  /\ UNCHANGED <<startedAt, completedAt, durationSec>>

\* The duration is counted from the startedAt that was read, not from the
\* one the row holds now; a row that had none counts from the end itself.
CommitStatus(r) ==
  LET t == call[r].task
      s == call[r].to
  IN  /\ Commit(r, "status", s)
      /\ \E at \in Times :
           /\ startedAt' = IF s = "IN_PROGRESS"
                           THEN [startedAt EXCEPT ![t] = at]
                           ELSE startedAt
           /\ completedAt' = IF s = "DONE"
                             THEN [completedAt EXCEPT ![t] = at]
                             ELSE completedAt
           /\ durationSec' =
                IF s = "DONE"
                THEN [durationSec EXCEPT ![t] =
                        IF seenStart[r] = None THEN Elapsed(at, at)
                        ELSE Elapsed(seenStart[r], at)]
                ELSE durationSec

\* Prisma's "record to update not found".
CommitMissing(r) ==
  /\ pc[r] = "write"
  /\ call[r].task \notin rows
  /\ Answer(r, "500")
  /\ UNCHANGED <<columns, accounts, scans, told, overridden>>

----------------------------------------------------------------------------
(* The third half-step: the scan event, after the task has been changed. *)

ScanAction_Swapped(ep) == IF ep = "start" THEN "CHECK_OUT" ELSE "CHECK_IN"
ScanAction(ep) == IF ep = "start" THEN "CHECK_IN" ELSE "CHECK_OUT"

\* r stands for the random key the event is created with.
RecordScan(r) ==
  /\ pc[r] = "scan"
  /\ call[r].task \in rows
  /\ call[r].user \in accounts
  /\ scans' = scans \cup {[by |-> r, task |-> call[r].task,
                           user |-> call[r].user,
                           action |-> ScanAction(call[r].ep)]}
  /\ Succeed(r)
  /\ UNCHANGED <<columns, accounts, overridden>>

\* A foreign key of the event points at a row that is gone.
ScanOrphaned(r) ==
  /\ pc[r] = "scan"
  /\ call[r].task \notin rows \/ call[r].user \notin accounts
  /\ Answer(r, "500")
  /\ UNCHANGED <<columns, accounts, scans, told, overridden>>

----------------------------------------------------------------------------
(* The rest of the system. *)

\* The database refuses or loses the statement the handler waits for.
DbError(r) ==
  /\ pc[r] \in InFlight
  /\ Answer(r, "500")
  /\ UNCHANGED <<columns, accounts, scans, told, overridden>>

\* The backend process dies; what it had not yet sent is never sent.
Crash ==
  /\ \E r \in Requests : pc[r] \in InFlight
  /\ pc' = [r \in Requests |-> IF pc[r] \in InFlight THEN "lost" ELSE pc[r]]
  /\ call' = [r \in Requests |-> None]
  /\ seenStart' = [r \in Requests |-> None]
  /\ UNCHANGED <<columns, accounts, scans, told, overridden>>

\* A zone is deleted: its tasks cascade, their scan events lose the task.
DeleteZone(z) ==
  /\ \E t \in rows : ZoneOf[t] = z
  /\ rows' = {t \in rows : ZoneOf[t] # z}
  /\ scans' = {[s EXCEPT !.task = IF s.task \in rows' THEN s.task ELSE None] :
                 s \in scans}
  /\ UNCHANGED <<status, owner, startedAt, completedAt, durationSec,
                 accounts, pc, call, seenStart, told, overridden>>

\* An account is deleted: its tasks lose their owner, its events go with
\* it.  Its token stays good: nothing looks the account up again.
RemoveUser(u) ==
  /\ u \in accounts
  /\ accounts' = accounts \ {u}
  /\ owner' = [t \in Tasks |-> IF owner[t] = u THEN None ELSE owner[t]]
  /\ scans' = {s \in scans : s.user # u}
  /\ UNCHANGED <<rows, status, startedAt, completedAt, durationSec,
                 pc, call, seenStart, told, overridden>>

----------------------------------------------------------------------------
Handler(r) ==
  \/ StartTask(r) \/ CommitStart(r)
  \/ CompleteTask(r) \/ CommitComplete(r)
  \/ FlagTask(r) \/ FlagWithoutReason(r) \/ CommitFlag(r)
  \/ UpdateTask(r) \/ CommitPut(r)
  \/ UpdateTaskStatus(r) \/ CommitStatus(r)
  \/ CommitMissing(r) \/ RecordScan(r) \/ ScanOrphaned(r) \/ DbError(r)

Next ==
  \/ \E r \in Requests : Handler(r)
  \/ Crash
  \/ \E z \in Zones : DeleteZone(z)
  \/ \E u \in Users : RemoveUser(u)

Spec == Init /\ [][Next]_vars

----------------------------------------------------------------------------
(* Properties. *)

\* Every column keeps its SQL type; a recorded duration is never negative,
\* however far the clock was stepped back (updateTaskStatus, Math.max).
TypeOK ==
  /\ rows \subseteq Tasks
  /\ status \in [Tasks -> TaskStatus]
  /\ owner \in [Tasks -> OrNone(Users)]
  /\ startedAt \in [Tasks -> OrNone(Times)]
  /\ completedAt \in [Tasks -> OrNone(Times)]
  /\ durationSec \in [Tasks -> OrNone(Nat)]
  /\ accounts \subseteq Users
  /\ scans \subseteq [by : Requests, task : OrNone(Tasks), user : Users,
                      action : {"CHECK_IN", "CHECK_OUT"}]
  /\ pc \in [Requests -> {"idle"} \cup InFlight \cup Answers]
  /\ call \in [Requests -> OrNone(Calls)]
  /\ seenStart \in [Requests -> OrNone(Times)]
  /\ told \subseteq [by : Requests, user : Users]
  /\ overridden \subseteq Tasks

\* Unless PUT has set its status, a task at work has a start, a finished
\* task has both stamps, no end is recorded without a start and no duration
\* without an end: whatever requests overlap, although every write is
\* decided on a row that may since have changed (startTask, completeTask,
\* updateTaskStatus).
StampsBacked ==
  \A t \in Tasks \ overridden :
    /\ status[t] \in {"IN_PROGRESS", "DONE"} => startedAt[t] # None
    /\ status[t] = "DONE" => completedAt[t] # None
    /\ completedAt[t] # None => startedAt[t] # None
    /\ durationSec[t] # None => completedAt[t] # None

\* The event log tells no story the task table does not: a CHECK_IN on a
\* task that is still there means the task was started, a CHECK_OUT means
\* it was completed (the scanEvent.create of startTask and completeTask
\* comes after the update it belongs to).
ScanBacked ==
  \A s \in scans :
    s.task # None =>
      /\ s.action = "CHECK_IN" => startedAt[s.task] # None
      /\ s.action = "CHECK_OUT" => completedAt[s.task] # None

\* A client that sent a QR code and was told 200 has its event in the log,
\* unless the account was deleted since: failures between the update and
\* scanEvent.create never come back as a success.
AnsweredScanned ==
  \A x \in told :
    x.user \in accounts => \E s \in scans : s.by = x.by /\ s.user = x.user

\* A task's state moves only by a request of the person it was assigned to
\* when it was written or who lost it by the deletion of the account, or
\* by PATCH status, which checks no owner.
OnlyOwnerMovesTask ==
  [][\A t \in Tasks :
       <<status[t], startedAt[t], completedAt[t]>>'
         # <<status[t], startedAt[t], completedAt[t]>> =>
         \E r \in Requests :
           /\ pc[r] = "write" /\ pc'[r] # "write"
           /\ call[r].task = t
           /\ call[r].ep = "status" \/ owner[t] \in {call[r].user, None}]_vars

\* When requests do not overlap and nobody uses PUT, every step of the
\* handlers is a step of the life cycle TaskProtocol describes, or none.
Protocol == INSTANCE TaskProtocol
  WITH rows <- rows, status <- status, owner <- owner,
       startedAt <- startedAt, completedAt <- completedAt,
       durationSec <- durationSec
ImplementsProtocol == Protocol!Spec

=============================================================================
