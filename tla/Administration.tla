--------------------------- MODULE Administration ---------------------------
(***************************************************************************)
(* The backend's administration: OrganizationsService, UsersService and    *)
(* AuthService.register behind their controllers, the audit interceptor    *)
(* around them, and the nightly task generator, which works on the same    *)
(* zones.                                                                  *)
(*                                                                         *)
(* No handler runs in a transaction: it awaits the read of the row it is   *)
(* about, then the read that looks for a duplicate, then the write, and    *)
(* others run in between.  What a handler checked may no longer hold when  *)
(* it writes; then only the constraints of the schema are left, and their  *)
(* errors reach the client as a 500.                                       *)
(***************************************************************************)
EXTENDS DirectoryRows

CONSTANT MaxRuns  \* how often the queue hands out the nightly job

ASSUME RunsAssumption == MaxRuns \in Nat \ {0}

VARIABLES
  table, up, key,  \* buildings, floors, zones, users
  tasks,    \* task_instances: the zone and the run that created the row
  pc, call, \* where each request stands and what it asks for
  audit,    \* audit_logs: the requests that have an entry
  job,      \* the nightly job
  skipped,  \* history: zones whose insert the database refused in this run
  wrote,    \* history: the requests whose write was committed
  excused   \* history: the requests that a server error has a reason for

rows == <<table, up, key>>
history == <<skipped, wrote, excused>>
vars == <<rows, tasks, pc, call, audit, job, history>>

Waiting == {"key", "write"}
Answers == {"200", "403", "404", "409", "500", "lost", "closed"}
JobStates == {"due", "loop", "done", "failed"}

Named(k) == {i \in Ids : table[i] = k} \cup {Gone}
Found(k, i) == i \in Ids /\ table[i] = k

Call(op, k, i, u, e) == [op |-> op, table |-> k, id |-> i, up |-> u, key |-> e]

Calls == [op : {"get", "create", "update", "delete"}, table : Tables,
          id : Ids \cup {Gone}, up : Ids \cup {None, Gone}, key : Keys \cup {None}]

ASSUME CallAssumption == None \notin Calls

Init ==
  /\ table = SeedTable
  /\ up = SeedUp
  /\ key = SeedKey
  /\ tasks = {}
  /\ pc = [r \in Requests |-> "idle"]
  /\ call = [r \in Requests |-> None]
  /\ audit = {}
  /\ job = [state |-> "due", run |-> 0, zones |-> {}, todo |-> {}]
  /\ skipped = {}
  /\ wrote = {}
  /\ excused = {}

----------------------------------------------------------------------------
(* The first step of a handler: its body and the first row it reads. *)

Answer(r, code) ==
  /\ pc' = [pc EXCEPT ![r] = code]
  /\ call' = [call EXCEPT ![r] = None]

\* updateFloor and updateZone do not look at the place they are given.
Unchecked(c) == c.op = "update" /\ c.up = Gone

\* c is answered 404 when the row it needs is not there.
Receive(r, c, found, then) ==
  /\ pc[r] = "idle"
  /\ IF found
     THEN /\ pc' = [pc EXCEPT ![r] = then]
          /\ call' = [call EXCEPT ![r] = c]
     ELSE Answer(r, "404")
  /\ excused' = IF found /\ Unchecked(c) THEN excused \cup {r} ELSE excused
  /\ UNCHANGED <<rows, tasks, audit, job, skipped, wrote>>

CreateBuilding(r) ==
  Receive(r, Call("create", "building", r, None, None), TRUE, "write")

UpdateBuilding(r) ==
  \E i \in Named("building") :
    Receive(r, Call("update", "building", i, None, None),
            Found("building", i), "write")

DeleteBuilding(r) ==
  \E i \in Named("building") :
    Receive(r, Call("delete", "building", i, None, None),
            Found("building", i), "write")

CreateFloor(r) ==
  \E b \in Named("building") \cup {None} :
    Receive(r, Call("create", "floor", r, b, None),
            b = None \/ Found("building", b), "write")

UpdateFloor(r) ==
  \E i \in Named("floor"), b \in Named("building") \cup {None} :
    Receive(r, Call("update", "floor", i, b, None), Found("floor", i), "write")

DeleteFloor(r) ==
  \E i \in Named("floor") :
    Receive(r, Call("delete", "floor", i, None, None), Found("floor", i), "write")

CreateZone(r) ==
  \E f \in Named("floor") \cup {None}, c \in Codes :
    Receive(r, Call("create", "zone", r, f, c), f = None \/ Found("floor", f), "key")

\* A body without a code skips the search for a duplicate.
ZoneNext_Unchecked(c) == "write"
ZoneNext(c) == IF c = None THEN "write" ELSE "key"

UpdateZone(r) ==
  \E i \in Named("zone"), f \in Named("floor") \cup {None}, c \in Codes \cup {None} :
    Receive(r, Call("update", "zone", i, f, c), Found("zone", i), ZoneNext(c))

DeleteZone(r) ==
  \E i \in Named("zone") :
    Receive(r, Call("delete", "zone", i, None, None), Found("zone", i), "write")

CreateUser(r) ==
  \E e \in Emails : Receive(r, Call("create", "user", r, None, e), TRUE, "key")

\* Anybody may register; the handler is the same up to the token it returns.
Register(r) == CreateUser(r)

\* Only an address other than the one just read is looked up.
AddressNext(i, e) ==
  IF e = None \/ (i \in Ids /\ key[i] = e) THEN "write" ELSE "key"

UpdateUser(r) ==
  \E i \in Named("user"), e \in Emails \cup {None} :
    Receive(r, Call("update", "user", i, None, e), Found("user", i), AddressNext(i, e))

RemoveUser(r) ==
  \E i \in Named("user") :
    Receive(r, Call("delete", "user", i, None, None), Found("user", i), "write")

\* The lists are read in one query and answered.
FindAll(r) ==
  /\ pc[r] = "idle"
  /\ \E k \in Tables :
       call' = [call EXCEPT ![r] = Call("get", k, Gone, None, None)]
  /\ pc' = [pc EXCEPT ![r] = "200"]
  /\ UNCHANGED <<rows, tasks, audit, job, history>>

\* RolesGuard: a list is for everybody who is logged in, the list of users
\* and every change for administrators.
RequiredRoles(op, k) == IF op = "get" /\ k # "user" THEN {} ELSE {"ADMIN"}
CanActivate(required, role) == required = {} \/ role \in required

Forbidden(r) ==
  /\ pc[r] = "idle"
  /\ \E op \in {"get", "create", "update", "delete"}, k \in Tables,
        role \in {"STAFF", "SUPERVISOR"} : ~CanActivate(RequiredRoles(op, k), role)
  /\ Answer(r, "403")
  /\ UNCHANGED <<rows, tasks, audit, job, history>>

----------------------------------------------------------------------------
(* The second step, for bodies with a unique value: look for a duplicate. *)

\* A zone may keep its own code; an account is asked only for a new address.
Duplicate(c) ==
  \E j \in Ids : key[j] = c.key /\ ~(c.op = "update" /\ c.table = "zone" /\ j = c.id)

CheckKey(r) ==
  /\ pc[r] = "key"
  /\ IF Duplicate(call[r])
     THEN Answer(r, "409")
     ELSE pc' = [pc EXCEPT ![r] = "write"] /\ UNCHANGED call
  /\ UNCHANGED <<rows, tasks, audit, job, history>>

----------------------------------------------------------------------------
(* The last step: one statement, which the constraints of the schema may   *)
(* refuse.                                                                 *)

RowThere(c) == c.op = "create" \/ Found(c.table, c.id)
RefThere(c) == c.up = None \/ Found(Above(c.table), c.up)
KeyFree_NoIndex(c) == TRUE
KeyFree(c) == c.key = None \/ \A j \in Ids : key[j] = c.key => j = c.id
Writable(c) == RowThere(c) /\ RefThere(c) /\ KeyFree(c)

Insert(c) ==
  /\ table' = [table EXCEPT ![c.id] = c.table]
  /\ up' = [up EXCEPT ![c.id] = c.up]
  /\ key' = [key EXCEPT ![c.id] = c.key]
  /\ UNCHANGED tasks

\* A field the body does not have is left alone.
Update(c) ==
  /\ up' = [up EXCEPT ![c.id] = IF c.up = None THEN @ ELSE c.up]
  /\ key' = [key EXCEPT ![c.id] = IF c.key = None THEN @ ELSE c.key]
  /\ UNCHANGED <<table, tasks>>

\* onDelete of Floor.building, Zone.floor and TaskInstance.zone.
Unlinked_FloorsOnly(i, gone) == i \in gone
Unlinked(i, gone) == i \in gone \/ up[i] \in gone

Delete(c) ==
  LET gone == WithRow(table, up, c.id)
  IN  /\ table' = [i \in Ids |-> IF i \in gone THEN "none" ELSE table[i]]
      /\ up' = [i \in Ids |-> IF Unlinked(i, gone) THEN None ELSE up[i]]
      /\ key' = [i \in Ids |-> IF i \in gone THEN None ELSE key[i]]
      /\ tasks' = {t \in tasks : t.zone \notin gone}

Commit(r) ==
  /\ pc[r] = "write"
  /\ Writable(call[r])
  /\ \/ call[r].op = "create" /\ Insert(call[r])
     \/ call[r].op = "update" /\ Update(call[r])
     \/ call[r].op = "delete" /\ Delete(call[r])
  /\ pc' = [pc EXCEPT ![r] = "200"]
  /\ wrote' = wrote \cup {r}
  /\ excused' = excused \cup {q \in Requests \ {r} : pc[q] \in Waiting}
  /\ UNCHANGED <<call, audit, job, skipped>>

Refused(r) ==
  /\ pc[r] = "write"
  /\ ~Writable(call[r])
  /\ Answer(r, "500")
  /\ UNCHANGED <<rows, tasks, audit, job, history>>

DbError(r) ==
  /\ pc[r] \in Waiting
  /\ Answer(r, "500")
  /\ excused' = excused \cup {r}
  /\ UNCHANGED <<rows, tasks, audit, job, skipped, wrote>>

\* AuditInterceptor: the tap runs after a success, nobody awaits its insert,
\* and an error of the insert is only printed.
MutatingMethod_Any(op) == TRUE
MutatingMethod(op) == op # "get"

AuditEntry(r) ==
  /\ pc[r] = "200"
  /\ Answer(r, "closed")
  /\ audit' \in {audit, IF MutatingMethod(call[r].op) THEN audit \cup {r} ELSE audit}
  /\ UNCHANGED <<rows, tasks, job, history>>

----------------------------------------------------------------------------
(* TasksProcessor.process, handed out by the queue at midnight. *)

JobStart ==
  /\ job.state = "due"
  /\ LET zones == {i \in Ids : table[i] = "zone"}
     IN  job' = [state |-> "loop", run |-> job.run + 1, zones |-> zones, todo |-> zones]
  /\ skipped' = {}
  /\ UNCHANGED <<rows, tasks, pc, call, audit, wrote, excused>>

\* The read itself fails: the error is thrown on and the queue gives up.
JobReadFails ==
  /\ job.state = "due"
  /\ job' = [job EXCEPT !.state = "failed", !.run = @ + 1]
  /\ UNCHANGED <<rows, tasks, pc, call, audit, history>>

\* What is left of the loop after the insert for zone z, caught or not.
Remaining(z) == job.todo \ {z}
CaughtRest_Aborts(z) == {}
CaughtRest(z) == Remaining(z)

JobCreate(z) ==
  /\ job.state = "loop" /\ z \in job.todo
  /\ IF Found("zone", z)
     THEN /\ tasks' = tasks \cup {[zone |-> z, run |-> job.run]}
          /\ job' = [job EXCEPT !.todo = Remaining(z)]
     ELSE /\ job' = [job EXCEPT !.todo = CaughtRest(z)]
          /\ UNCHANGED tasks
  /\ UNCHANGED <<rows, pc, call, audit, history>>

JobCreateFails(z) ==
  /\ job.state = "loop" /\ z \in job.todo
  /\ job' = [job EXCEPT !.todo = CaughtRest(z)]
  /\ skipped' = skipped \cup {z}
  /\ UNCHANGED <<rows, tasks, pc, call, audit, wrote, excused>>

JobEnd ==
  /\ job.state = "loop" /\ job.todo = {}
  /\ job' = [job EXCEPT !.state = "done"]
  /\ UNCHANGED <<rows, tasks, pc, call, audit, history>>

\* The process dies.  A job that stalls is handed out again, up to MaxRuns.
Crash ==
  /\ pc' = [r \in Requests |-> IF pc[r] \in Waiting THEN "lost"
                               ELSE IF pc[r] = "200" THEN "closed" ELSE pc[r]]
  /\ call' = [r \in Requests |-> None]
  /\ job' = IF job.state # "loop" THEN job
            ELSE [job EXCEPT !.state = IF job.run < MaxRuns THEN "due" ELSE "failed"]
  /\ UNCHANGED <<rows, tasks, audit, history>>

----------------------------------------------------------------------------
First(r) ==
  \/ CreateBuilding(r) \/ UpdateBuilding(r) \/ DeleteBuilding(r)
  \/ CreateFloor(r) \/ UpdateFloor(r) \/ DeleteFloor(r)
  \/ CreateZone(r) \/ UpdateZone(r) \/ DeleteZone(r)
  \/ CreateUser(r) \/ Register(r) \/ UpdateUser(r) \/ RemoveUser(r)
  \/ FindAll(r) \/ Forbidden(r)

Nightly ==
  \/ JobStart \/ JobReadFails \/ JobEnd
  \/ \E z \in Ids : JobCreate(z) \/ JobCreateFails(z)

Next ==
  \/ \E r \in Requests : \/ First(r) \/ CheckKey(r) \/ Commit(r) \/ Refused(r)
                         \/ DbError(r) \/ AuditEntry(r)
  \/ Nightly
  \/ Crash

Spec == Init /\ [][Next]_vars

----------------------------------------------------------------------------
(* The variables keep their types, a request in flight has its call, and   *)
(* the job's loop only has zones it has read.                              *)
TypeOK ==
  /\ table \in [Ids -> Tables \cup {"none"}]
  /\ up \in [Ids -> Ids \cup {None}]
  /\ key \in [Ids -> Keys \cup {None}]
  /\ tasks \subseteq [zone : Ids, run : 1..MaxRuns]
  /\ pc \in [Requests -> {"idle"} \cup Waiting \cup Answers]
  /\ call \in [Requests -> Calls \cup {None}]
  /\ \A r \in Requests : call[r] \in Calls <=> pc[r] \in Waiting \cup {"200"}
  /\ job \in [state : JobStates, run : 0..MaxRuns, zones : SUBSET Ids, todo : SUBSET Ids]
  /\ job.state = "due" => job.run < MaxRuns
  /\ job.todo \subseteq job.zones
  /\ audit \subseteq Requests /\ wrote \subseteq Requests /\ excused \subseteq Requests
  /\ skipped \subseteq Ids

\* No floor, zone or task hangs on a row that is gone, whatever deletions
\* and inserts overlap: schema.prisma's foreign keys and unique columns.
ReferencesHold ==
  /\ RowsConsistent(table, up, key)
  /\ \A t \in tasks : table[t.zone] = "zone"

\* The checks of the services are worth their name: a request fails with a
\* 500 only for a write that another request committed while it waited, a
\* place of the body that an update does not look up, or a database error.
ServerErrorExplained ==
  \A r \in Requests : pc[r] = "500" => r \in excused

\* A nightly job that reports success has created a task of its own for
\* every zone it read that still exists, but for those whose insert failed:
\* one bad zone costs the others nothing.
NightlyCovers ==
  job.state = "done" =>
    \A z \in job.zones :
      table[z] = "zone" => [zone |-> z, run |-> job.run] \in tasks \/ z \in skipped

\* The audit trail names no request that changed nothing.
AuditBacked == audit \subseteq wrote

\* Overlapping requests change the tables as the registry would, one row at
\* a time, with every code and address given once.
Reg == INSTANCE Registry WITH
         table <- table, up <- up,
         holders <- [k \in Keys |-> {i \in Ids : key[i] = k}]

ImplementsRegistry == Reg!Spec
=============================================================================
