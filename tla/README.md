# Verification of the personnel task tracker

Staff clean zones of a building. Every night a task is generated for every
active zone; staff start, complete and flag their tasks from a phone, usually
by scanning the QR code on the zone's door, and often without a connection.
Supervisors watch dashboards and administer users and zones. The backend is
NestJS over PostgreSQL (Prisma), Redis and BullMQ; the frontend is Next.js with
a proxy of its own (the BFF), an IndexedDB queue and a background flush.

This directory models the parts of that system where the order of steps
matters. TLC checks them on small instances; TLAPS proves the safety
properties for every number of tasks, people, requests, tabs, rows and records.

## 1. Inventory

| Part | State | Operations | Modelled in |
|---|---|---|---|
| Task life cycle (`backend/src/tasks/tasks.service.ts`, `tasks.controller.ts`) | rows of `task_instances`, `scan_events` | start, complete, flag, PUT, PATCH status | `TaskRecord`, `TaskProtocol`, `TaskLifecycle` |
| Offline queue (`frontend/src/services/db.ts`, `syncService.ts`, `apiClient.ts`) | the store `pending_scans`, `isFlushing` of each tab | queue an action, flush, triggers | `OfflineQueue` |
| Session and BFF (`proxy.ts`, `api/proxy`, `api/auth`, `login/page.tsx`, `AppSidebar.tsx`), authentication (`auth.service.ts`) | HttpOnly cookie, two cookies of the page, token in local storage, `users.deviceId` | login, logout, expiry, redirects, device binding | `Sessions`; the substitution of the header in `OfflineQueue` |
| Scan batch ingest (`scans.service.ts` `processBatchScans`, `redis.service.ts`) | Redis keys, `scan_events` | POST /scans/batch | `ScanBatch` |
| Scan history (`scans.service.ts` `findAll`, `dashboard/scans/page.tsx`) | the page's list, spinner and drawer | load, refresh, drawer, late uploads, deletion of accounts | `ScanHistory` |
| Organizations, users (`organizations.service.ts`, `users.service.ts`, `register`) | buildings, floors, zones, accounts | create, update, delete, read | `DirectoryRows`, `Registry`, `Administration`; what deletions do to tasks and events in `TaskLifecycle` |
| Nightly generator (`tasks.processor.ts`, `task-scheduler.service.ts`) | the day's tasks | one BullMQ job per night, handed out again after a stall | `Administration` |
| Audit trail (`audit.interceptor.ts`) | `audit_logs` | entry after each answer | `Administration` |
| Administration pages (`BuildingsTab`, `FloorsTab`, `ZonesTab`, `QrCodeDialog`, `users/page.tsx`, `UserDialog`) | lists, dialogs, spinners | load, create, edit, delete, show a code | `AdminPages` |
| Staff task page (`StaffDailyTasks.tsx`) | the list, its overlay of queued actions, the badge, the dialog | load, start, complete, flag | `StaffTaskPage` |
| QR scanner (`QRScanner.tsx`) | the camera and five refs | open, decode, close | `QRScanner` |
| Dynamic QR codes (`qr.service.ts`) | none, a function of time and secret | generate, validate | generate, as the dialog sees it, in `AdminPages` |
| Dashboard counts, retention, export, websocket gateway, bootstrap, DTOs, UI library | none that a protocol depends on | | not modelled |

### How the parts interact

- A phone's action goes through `apiRequest`: it is sent to the BFF, or, when
  the browser is offline or the fetch is rejected, stored in IndexedDB.
- The BFF replaces the bearer token by the one in the cookie and forwards the
  request to the backend.
- The handlers of the task service read a row, check it, update it by primary
  key and, for a request with a QR code, create a scan event; none of this is
  in a transaction, and Node runs other requests at every `await`.
- Deleting a zone cascades to its tasks, deleting an account frees its tasks
  and removes its events (foreign keys in `schema.prisma`), at any moment
  between two of those steps.
- The nightly job inserts a task for every zone it has read while
  administrators create and delete zones.
- The pages of the administration keep copies of rows that others change, and
  save all the fields of a row they listed some time ago.
- Login and logout write one cookie through the BFF's response and three more
  copies from the page; the proxy reads all but the one in local storage.
- A flush replays the stored actions in order; login, logout, expiry and other
  tabs change what it works on while it waits.

### What is hard about each part, and what makes it correct

- **Task life cycle**: two requests check the same row and both write; the
  process dies between the update and the event; the clock is stepped back; a
  zone or an account goes away mid-request. Correct means: a status keeps the
  stamps it stands for (`StampsBacked`), the log never contradicts the table
  (`ScanBacked`), a success means the event is there (`AnsweredScanned`), only
  the owner moves a task (`OnlyOwnerMovesTask`), and requests that do not
  overlap behave like a one-step life cycle (`ImplementsProtocol`).
- **Offline queue**: a flush works on a snapshot while records are added,
  other tabs flush the same store, tabs are reloaded, tokens expire and
  devices change hands. Correct means: nothing vanishes without an answer
  (`NoSilentLoss`), the order is kept (`FifoReplay`), a record that stays on a
  device that is online was left for one of three causes (`LeftForCause`), and
  as long as flushes begin again everything leaves the queue (`Drains`).
- **Scan batch**: Redis and PostgreSQL are two stores without a common
  transaction, clients repeat what they got no answer for, and so does the
  client of Redis. Correct means: once per event (`OncePerEvent`), a success is
  durable (`AckedPersisted`), a key that stands for nothing comes from a request
  that failed or from a command that was sent twice (`ClaimsAccounted`).
- **QR scanner**: frames come before `start()` has resolved, the dialog is
  closed while the camera starts or stops, React runs the effect twice.
  Correct means: one code per opening (`OneScanPerOpening`), none after it
  (`NoLateScan`), no cleanup that throws (`CleanupSafe`), no camera left on
  (`CameraReleased`).
- **Staff task page**: several handlers and several fetches of the list wait at
  the same time and write the same state, and the backend checks a status and
  writes the next one in two queries. Correct means: without the mark nothing is
  shown that the task has not been (`UnconfirmedMarked`), no task stays blocked
  (`BusyBacked`), the badge follows the queue (`BadgeFollows`), what a flush did
  becomes visible (`RefetchAfterFlush`).
- **Administration**: every handler checks, waits and writes, without a
  transaction. Correct means: no reference hangs (`ReferencesHold`), a 500 has a
  reason that no check could have caught (`ServerErrorExplained`), the whole is
  a registry that changes one row at a time (`ImplementsRegistry`), the night
  leaves no zone out (`NightlyCovers`), the audit trail names nothing that did
  not happen (`AuditBacked`).
- **Administration pages**: handlers overlap and answers come in any order.
  Correct means: one save at a time (`SaveOnce`), no spinner for ever
  (`SpinnersEnd`), a list that follows the database (`FreshWhenQuiet`), a save
  that changes only what was touched (`UntouchedKept`), a code that is the
  named zone's (`CodeOfZone`).
- **Sessions**: one session is kept in four places, by two writers, shared by
  all tabs, and outlives a change of its user's role. Correct means: a browser is
  one user in one role (`OneIdentity`), a logout leaves nothing
  (`LoggedOutEverywhere`), who was let in as staff is logged in on his own device
  only (`BoundWhereLoggedIn`), redirects end (`RedirectsEnd`).
- **Scan history**: a list is read by one query for the page and one more per
  check-out, while scans of the past arrive. Correct means: durations measured
  from the right check-in (`StaysSound`), no minute counted twice
  (`TotalInSpan`). The order of two loads is no matter here: the button is
  disabled while one is under way.

## 2. Modules

### TaskRecord, TaskProtocol, TaskLifecycle

`TaskRecord` has the columns' value sets and `Elapsed`, the duration arithmetic
of `updateTaskStatus` (`Math.max(0, Math.floor(ms / 1000))`). Wall-clock
readings are any members of `Times`: nothing relates two readings, since
several instances stamp a row and the code itself allows for clocks that go
back.

`TaskLifecycle` models each handler at its awaits. `StartTask`, `CompleteTask`,
`FlagTask`, `UpdateTask` and `UpdateTaskStatus` are `findUnique` and the checks
that follow, up to an early return or the next await; `CommitStart` and the
other `Commit` actions are the update by primary key; `RecordScan` is
`scanEvent.create`. What a handler holds between them is `call[r]` and
`seenStart[r]`. `CommitMissing` and `ScanOrphaned` are the errors of an update
or insert whose row or reference is gone, `DbError` is any other database
error, `Crash` the death of the process, `DeleteZone` and `RemoveUser` the
administration's deletions. Requests are used once; a retry is another request
with the same content.

`told` and `overridden` are history variables: who was answered 200 with a QR
code, and which tasks' status PUT has written. PUT writes any status of its
body and no stamp, so a task it touched can be DONE without `completedAt`;
`StampsBacked` exempts exactly those tasks.

`TaskProtocol` is the abstract specification: one step per change of a task.
With `Concurrent = FALSE` and without PUT, `TaskLifecycle` implements it under
the identity mapping of the columns; the reads and the scan events are
stuttering steps.

### OfflineQueue

Shared by the tabs: the store with its auto-increment key `next`, `attempts`
and `author` of each record, `online`, `cookie` and `stored` (local storage).
Per tab: `pc` (idle exactly when `isFlushing` is false), the snapshot `todo`
and `seen`, the record in flight `item`, the `token` read at the start and
`adding`, the action whose record is about to be stored.

`WakeIn` is the guard of `flushQueue`, taken in every place that triggers it:
after a record was stored (`AddRecord`), on the `online` event (`GoOnline`), on
mount (`Reload`). `SendNext` is the head of the loop, so that `ReadQueue` and
`Remove` continue to the next record as the code does. The answers of a replay
are `FinalAnswer` (2xx or 4xx other than 401), `Unauthorized`, `ServerError`
and `NetworkError`; `Remove`, `Bury` and `Update` are the three database
requests that may follow; `StorageError` is any of them failing.
`Identity` is the BFF's substitution: the cookie wins over the header.
`fails` counts 5xx answers up to `FailureCap = MaxAttempts`, the most that a
property compares with. `GiveUp` is the end of a flush that leaves records, and
`stalled` names them, together with those whose trigger found a flush running or
no token; the next read of the store clears it. A record's timestamp, action and payload are
abstracted: no property tells them apart.

### ScanBatch

`Claim` is one round of the loop with its `SET NX`; `ClaimResent` the same round
when the connection to Redis breaks before the reply: ioredis sends unfulfilled
commands again (`redis.service.ts:13` sets nothing against it), the second
execution answers nil, and the scan is passed over. `Store` is the transaction and
the answer; `AllSkipped` the answer without one. `Fail` is a rejected await,
`ClaimUnheard` and `StoreUnheard` are rejections of something that was done and
whose reply was lost for good, `orphaned` and `resent` the events this happened to, `Crash` ends every request, `Lapse` is the expiry of a
key after a day (a request is never that slow, which is its guard).
`Insertable` is the unique index on `idempotencyKey`. Rows are only added here:
the deletion of an account, which takes its events along, is in
`TaskLifecycle`.

### QRScanner

One component instance, whose definitions have names of their own
(`ScannerSpec`, `ScannerTypeOK`) so that the module can be extended together
with that of the page. `Mount(i)` is the i-th run of its effect up to the
await of `scanner.start`; the refs are shared by the runs, `cancelled` is a
variable of each run. The camera of a run's scanner is opened by the browser
(`CameraOpens`), stopped by the callback, by a start that resolves after the
component is gone, or by the cleanup (`stopper` says who waits), and is off some
time later (`StopDone`). html5-qrcode is external: `stop()` throws at once
unless the scanner is scanning, which is what `broken` records.

### StaffTaskPage

The React state of the page has the source's names; `selectedTaskId` and
`qrAction`, always set and cleared together, are `chosen`. `calls` holds the
handlers that wait (`handleQRScan`, `handleFlag`) with the stage they wait at,
`loads` the fetches of the list (`loadTasks`) by who began them: the page, a
flush, or a handler whose action was queued and which awaits the fetch before
its `finally` (`LoadOver`, `Settle`). `LoadDone` is the read of the queue and the
overlay: IndexedDB serves the requests of a store in order, so read and
`setTasks` are one step, later than `ListRead`, the read on the server. The
scanner hands over at most one code per opening of the dialog (`armed`), which
`QRScanner` establishes. The flush is that of `OfflineQueue` with one tab, its
triggers replaced by "at any time"; the backend is `TaskLifecycle` as the page
sees it, check and write apart: `Checked` and `ReplayChecked` read the task and
compare its status (`Accepts`), `Handled` and `Replayed` write the new one by id,
whatever has become of the old one. `WrittenElsewhere` is anybody else's write
(PUT, PATCH status, a request of this page whose connection broke before it was
carried out), and `was` the statuses the database has had: a status may go back,
so that no property can say the page is not ahead of the database, but one can
say that it shows nothing the database never held. `applyOptimisticUpdate` (lines
238-257) is called by nobody and not modelled.

### DirectoryRows, Registry, Administration

`DirectoryRows` has the tables (buildings, floors, zones, users), what lies
above what, which tables have a unique column, and `WithRow`, the rows that
`onDelete: Cascade` takes along. A row's id is the request that created it or one
of the seed.

`Registry` is the abstract specification: rows enter, change and leave one at a
time, with everything below them, and a code or an address is given once. Its
state has no requests; a name belongs to a set of holders, so that uniqueness is
something to be shown and not a type.

`Administration` has one action per endpoint (`CreateZone`, `UpdateUser`,
`Register` and so on): the body, the row read first and the 404. `CheckKey` is
the read that looks for a duplicate and the 409, `Commit` the statement with the
constraints of the schema: `KeyFree`, `RefThere`, `RowThere`; where one fails,
`Refused` is the 500. `Forbidden` is the roles guard. `DbError` is any other
error and the reply that is lost after a commit; `AuditEntry` the entry or its
swallowed failure, after the answer. `JobStart`, `JobCreate` and `JobCreateFails`
are the nightly job at its awaits, `Crash` the death of the process, after which
BullMQ hands the job out again, up to `MaxRuns` times. `excused` records, for a
request, that another one committed a write while it waited, that its body named
a place nobody looks up, or that the database failed.

### AdminPages

One visit to one of the four pages. The React state has the source's names;
`form` is the dialog's fields with `editingId` and, as history, which of them were
touched. `loads`, `saves`, `deletes` and `fetches` are the handlers that wait; an
answer is applied to the page as it is then. A load of floors or zones reads two
lists (`Promise.all`) in one step. The server is `Administration` as one page
sees it (`Acceptable`, `Taken`), `Elsewhere` another administrator. `excused` says
that the page could not know: a load failed or overlapped another, an answer was
lost, somebody else wrote. `crossed` says that the code of a zone was asked for
before the last one had come.

### Sessions

Per browser: the HttpOnly cookie `access`, the page's cookies `token` and `role`,
and `local` (local storage). Per tab the page it shows or is being sent to. A
login or logout is a record in `exchanges` that goes through the stages of its
handler: `LoginRead` is `findUnique` and the checks of `AuthService.login`,
`LoginBind` the update of `deviceId`, `LoginHeard` the BFF's `Set-Cookie`,
`LoginStored` what the page writes. `LogoutHeard`, `LogoutFails` and
`LogoutClears` are the logout button of the sidebar and of the profile page,
which are alike. `LoginLost` and `LogoutLost` are a connection that breaks or a tab
that is reloaded before its handler is through. Nothing disables the menu and the
links while a logout is awaited, nor the links while a login is: a tab may have
several exchanges under way and be anywhere when one ends, and then it is moved
on from there. The login button is disabled by its own form only, which is
forgotten when the page is left; the model lets a tab submit again without having
left it, which adds behaviours and takes none away.

`roleOf` is the role in the database. `SetRole` is PATCH /users/:id, which every
save of the user dialog sends; a token keeps the role it was signed with for its
day. `Asked` bounds the pages people go to by a link or an address, `Changes` who
may be given which role.
 `Proxy` is the whole decision of `proxy.ts` for one navigation,
`EndSession` its catch block, `Expire` and `Forget` the lifetimes of a day and of
a week. `torn` names the browsers in which exchanges overlapped or one broke off
after its response, `out` those whose last exchange was a whole logout, `raced`
the accounts with two first logins at a time. The role routes are reduced to
three paths that the table of `proxy.ts` tells apart.

### ScanHistory

`ReadPage` is the first query of `findAll` (the newest `Take` scans with an
account), `Lookup` the `findFirst` of one check-out, in any order
(`Promise.all`); `Minutes` is the rounding. `Upload` stores a scan of any past
moment, `RemoveUser` takes an account and its scans, `Refresh`, `OpenDrawer` and
`TotalMinutes` are the page. `known` remembers what the table held when the page
now shown was read.

### MC modules and proof modules

The MC modules hold the definitions that the .cfg files give to CONSTANTS and the
symmetry sets; the runs of `QRScanner` and `staff_badge` use the module directly.
`TaskLifecycle_proof`, `OfflineQueue_proof`, `ScanBatch_proof`,
`StaffTaskPage_proof`, `Administration_proof`, `AdminPages_proof`,
`ScanHistory_proof` and `Sessions_proof` hold the theorems; those about the
scanner stand beside those about the page whose dialog it is in.

## 3. Runs

| Run | Instance | Shows |
|---|---|---|
| `lifecycle_all` | 1 task, 2 people, 3 overlapping requests, all endpoints, clock 0..1 | `TypeOK`, `StampsBacked`, `ScanBacked`, `AnsweredScanned`, `OnlyOwnerMovesTask` |
| `lifecycle_serial` | 1 task, 4 requests one after the other, clock 0..2 | `ImplementsProtocol` |
| `queue_safety` | 2 tabs, 2 records, 2 attempts, every fault | `TypeOK`, `NoSilentLoss`, `FifoReplay`, `LeftForCause` |
| `queue_drains` | 1 tab, 2 records, 2 attempts, network and server errors, reloads | `Drains` |
| `scan_batch` | 3 requests, batches of up to 2 of 3 scans, 2 events, 2 keys | `TypeOK`, `OncePerEvent`, `AckedPersisted`, `ClaimsAccounted` |
| `qr_scanner` | the effect runs up to 3 times | `ScannerTypeOK`, `OneScanPerOpening`, `NoLateScan`, `CleanupSafe`, `CameraReleased` |
| `staff_page` | 2 tasks, 2 handlers, 1 record, 2 buttons pressed, nobody else writes | `UnconfirmedMarked`, `BusyBacked` |
| `staff_badge` | 1 task, 1 handler, 2 records, 2 buttons pressed, others put a task back to SCHEDULED | `BadgeFollows`, `RefetchAfterFlush` |
| `administration` | a building, a floor, a zone, an account; 2 overlapping requests of all endpoints, 2 codes, 2 addresses, a job handed out twice | `ReferencesHold`, `ServerErrorExplained`, `NightlyCovers`, `AuditBacked`, `ImplementsRegistry` |
| `admin_pages` | each of the four pages, 1 row, 2 texts, 4 presses | `SaveOnce`, `SpinnersEnd`, `FreshWhenQuiet`, `CodeOfZone`, `UntouchedKept` |
| `sessions` | 2 people, 2 tabs of one browser where an administrator is logged in or of two where nobody is, 2 exchanges, the administrator made staff, with `JWT_SECRET` | `OneIdentity`, `LoggedOutEverywhere`, `BoundWhereLoggedIn`, `RedirectsEnd` |
| `scan_history` | 5 scans of 2 people, pages of 3, a load and one more | `StaysSound`, `TotalInSpan` |

All runs are expected to pass. The type invariants of `StaffTaskPage`,
`Administration`, `AdminPages`, `Sessions` and `ScanHistory` are stated in the
modules and proved; none of them is listed in a run.

**Bounds.** Rows of different tasks are independent in every handler (all
statements are by primary key), so one task is enough for properties of one
task. Two overlapping requests are the smallest race; three let a third request
move the row between the two, and let a deletion separate them. Two people
distinguish owner and stranger. Two clock readings allow every order of two
stamps; the serial run has three so that durations of 0, 1 and 2 occur. Two
records have an order, two tabs a race, two attempts a last and a next-to-last.
In `scan_batch` two scans share an event under different idempotency keys, and
two share a key, so that both ways of being a duplicate meet. Three runs of the
effect are a strict-mode remount and one more opening. On the page two tasks and
two handlers let one handler end while the other's dialog or request is open;
two pressed buttons (dialogs opened, flags, refreshes) are enough for every pair
to overlap, on top of the first fetch, the fetches of handlers and flushes, and
a record left by an earlier visit, none of which are counted; each origin has
one fetch in flight at a time. The liveness run has two records so that a flush
can stop between them. Two requests of the administration are a check and the
write that spoils it, and the job is a third actor; the seed has one row of each
kind so that a deletion cascades over two levels; a run that dies and one more
are every way a stalled job is handed out again. On an administration page four
presses are two overlapping handlers with a dialog opened and saved over each.
Two exchanges are a login and a logout in either order, or two of a kind, in one
tab or two; the one change of a role is the one that takes away the exemption from
the device check. `staff_page` leaves the writes of others to the theorem
`MarkedCorrect`, which holds for any `Elsewhere`, as with them the run would take
too long; its own handlers and flush already move a status back. Three
of five scans fit on a page, so that a check-in may be beyond its end and a scan
is pushed out. The proofs drop all of these bounds.

**Deadlock** is not checked: requests, records and batches are finite in an
instance, a visit has a bounded number of pressed buttons, and a system whose
users ask for nothing more rightly stops.

**Symmetry** is used in runs without liveness properties only, over requests,
people, tabs and texts, none of which the specification orders.

**Mutants.** Every property of a passing run has a variant of a definition
(`Elapsed_Unclamped`, `Foreign_Skipped`, `Exhausted_Early` and so on, each
beside the definition it varies) with which the property fails: the slip a
maintainer could make there.

## 4. Fairness

Safety runs use `Spec` without fairness. `FairSpec` of `OfflineQueue` says that
what a tab waits for is settled in the end: promises of `fetch` and IndexedDB
resolve or reject (weak fairness of a flush's step and of the pending add). A
read of the store, an answer, a removal or an update that is tried over and over
succeeds in the end (strong fairness): without it a page that is reloaded in the middle of every
request would never finish one, which says nothing about the code. Of what is answered
nothing is assumed, nor of the connection, nor of the triggers. A device may stay
online for ever after an error, with no trigger and its records waiting
(`LeftForCause` says which): therefore `Drains` has "flushes begin again and
again" as its premise, and what it adds is that then no flush stays stuck with
`isFlushing` set and no record blocks those behind it for more than its attempts.

`FairScannerSpec` has weak fairness of `StartResolved` (a start whose
camera is on resolves) and of `StopDone` (a stop settles); that the browser
grants the camera or a code is found is not assumed. `FairSpec` of
`StaffTaskPage` has it of a fetch of the list being answered or rejected, of a
count of the store, and of a flush's end: browsers give every fetch up in the
end, and each loop of a flush is finite. `FairSpec` of `Sessions` has it of
`Proxy` for each tab: the front end's server answers every navigation. Users
are free to stop.

## 5. What the code does that a reader may not expect

Where a comment or a test says otherwise:

- **DONE from FLAGGED**: `completeTask` checks the status it read and updates by
  id; a flag in between is overwritten. `tasks.service.spec.ts:135` refuses the
  completion of a flagged task, one request after the other. `StampsBacked` holds
  all the same.
- **Lost wake-up**: a record stored during a flush finds `isFlushing` set, and the
  flush works on its snapshot, although `syncService.ts:185` lists a record queued
  while online among the triggers. It waits for the next one.
- **No next attempt**: after a network error the `online` listener is to trigger
  the next attempt (`syncService.ts:13`), but on a device that stays online no such
  event comes. `LeftForCause` counts both among the causes.
- **Somebody else's answer**: a record of the queue has no user (`db.ts:6`); it is
  sent with the session of whoever is logged in, and removed on their 400.
- **Skipped as processed**: the Redis keys of a batch outlive its failed
  transaction by a day (`scans.service.ts:20`); its retry is answered as done. And a
  `SET NX` that ioredis has sent twice meets its own key: that scan is answered as
  skipped, with a 201, and nobody writes it.
- **Device locking**: `auth.e2e-spec.ts:82-97` registers an account with a device
  and expects its first login from another one to be refused. `register` does not
  store the device, and the first login binds whichever it comes from
  (`auth.service.ts:62`).

Life cycle, queue and task page:

- PATCH complete does not write `durationSec` (`tasks.service.ts:225`), PATCH
  status does: a task that was completed by the one, flagged, restarted and
  completed by the other keeps the duration of its first round.
- After a 401 the records wait for a login, and the login page fires none of
  the triggers of `initBackgroundSync`. Two tabs write back the same `attempts`, so
  that a record may get more 5xx answers than `MAX_ATTEMPTS`.
- While a scan of one task is in flight, a dialog can be opened for another;
  when the first ends, its `finally` forgets the second's selection
  (`StaffDailyTasks.tsx:309`) and the code scanned there is ignored.
- A start that has read SCHEDULED may be written after a flag of the same task was
  answered: the list then shows FLAGGED without a mark, and the database holds
  IN_PROGRESS until the next fetch.
- `loadTasks` needs an answer to its GET before it applies the overlay, so that a
  reload while offline shows an error and the badge stays at 0. The answers of two
  fetches are not ordered, and an older failure hides a newer list.

Administration and its pages:

- `updateFloor` and `updateZone` do not look at the place they are given: a foreign
  key error, and a 500. The interceptor names POST, PATCH and DELETE: a PUT of a
  task leaves no entry.
- A nightly job that is handed out again creates a second task for the zones the
  first run had reached.
- A save that ends closes whatever dialog is open then. A floor cannot be taken
  out of its building and a zone's durations cannot be cleared, since empty fields
  are sent as `undefined`. Two administrators undo each other's changes, as every
  save sends every field. Two loads may end in the older list.
- `QrCodeDialog` can show and print the code of zone A under the name of zone B
  when B's dialog is opened before A's code has come (`crossed`), and its codes
  expire after half a minute, printed or not.

Sessions:

- A logout whose POST failed leaves `access_token`: the proxy sends the next
  visit to `/login` back to the dashboard, as the same user.
- An administrator is bound to no device. One who is made staff keeps the session,
  with the old role and unbound, until its token expires.
- Of two first logins at a time both get a token, and the later one binds. The
  device is the first 48 bytes of the user agent, so that two phones of one model
  are one device and an update of the browser locks its owner out, with no
  endpoint to undo it.
- The proxy's end of a session deletes the cookies and not local storage.

Scan history:

- Of two check-outs in a row both are paired with the same check-in, whatever
  task it was of, and counted twice; `TotalInSpan` is about who alternates. The
  drawer speaks of all movements of a person and totals those among the newest
  scans of everybody.
- `validateScan` of the QR service is called by nothing.

## 6. Proofs

All theorems hold for any sets of tasks, people, zones, rows, requests,
browsers, tabs and scans, finite or not unless the theorem says so, and any
number of runs of the scanner's effect, under the named assumptions of the modules (`RecordAssumption`,
`LifecycleAssumption`, `QueueAssumption`, `BatchAssumption`,
`ScannerAssumption`, `PageAssumption`, `PagesAssumption`,
`SessionsAssumption` and those of `DirectoryRows`, `Administration` and
`ScanHistory`), which TLC evaluates in the runs.

| Theorem | Argument |
|---|---|
| `TaskLifecycle_proof!TypeCorrect` | `TypeInv`: the types, and a request in flight has its call |
| `StampsCorrect` | `StampsInv` strengthens `StampsBacked` by what a request that passed its checks knows and nobody can undo: a complete (or status DONE) past its checks has a task that was started or overridden (`FinishersStarted`), since no handler ever clears a stamp; and without the PUT endpoint nothing is overridden (`OverriddenByPut`, which `SerialRefinement` uses) |
| `ScansCorrect`, `AnswersCorrect` | `LogInv`: a request on its way to the scan event has already stamped its task; events disappear only with the account, events lose their task only with the row |
| `OwnersCorrect` | `OwnerInv`: a request past its checks was of the owner then, and owners only change to nobody |
| `SerialRefinement` | assumes `~Concurrent` and no PUT. `SerialInv`: at most one request is in flight, so what it read is still so when it writes |
| `OfflineQueue_proof!TypeCorrect`, `LossCorrect`, `FifoCorrect` | one invariant `Inv`: in the middle of a loop the record in flight is the oldest of the rest of the snapshot, what is stored and not in the snapshot is younger than all of it, and no count exceeds the 5xx answers there were |
| `QueueCorrect` | from the same invariant, which says of a late removal too that it is of the oldest record or of one that is gone: the store of all tabs changes only like one queue, which is what `StaffTaskPage` takes it for |
| `LeftCorrect` | `LeftInv` strengthens `LeftForCause` to a device that is offline: there a record may also be one that the next `online` event takes up (`TakenUp`). Whatever takes a record out of a flush's hands without removing it puts it into `stalled`, but for a reload, which reads the store again |
| `ScanBatch_proof!TypeCorrect` | `Resting`: a handler that is over holds nothing |
| `OnceCorrect` | `ClaimInv`: a position that is held has its key, no row, and no rival in any request |
| `AckedCorrect` | inductive as it stands, given the types |
| `ClaimsCorrect` | `ClaimsInv`: what is claimed, or was found claimed by a request that has not answered yet, is written, held by a request at work, was given up with an error or a crash, or was claimed by a command that was executed twice |
| `StaffTaskPage_proof!TypeCorrect`, `BusyCorrect`, `MarkedCorrect` | one invariant `PageInv`: the types, which say of every answer that is awaited who awaits it; `BusyBacked`, since a handler that begins marks its own task and every end frees all; and `Told`: not only the rows without a mark, but the answers and lists still under way show statuses that the database has had, because every write goes into `was` and nothing leaves it. Nothing is assumed of the order of writes. That the overlay marks what the last queued action of a task shows (`OverlayRow`) needs that the last index exists: `Least` |
| `DebtCorrect`, `BadgeCorrect` | the safety that `RefetchAfterFlush` and `BadgeFollows` rest on, step by step: a removal that no fetch has followed is one of the flush under way, which will announce it; a badge that is behind a queue that changed has a count on its way |
| `ScannerTypeCorrect`, `ScanCorrect`, `LateCorrect`, `CleanupCorrect` | `ScannerInv`: every run but the mounted one is cancelled, `runningRef` means that the scanner in the ref is the mounted one and scans, and a code is under way or handed over by the mounted run only if `scannedRef` is set |
| `ReleaseCorrect`, `OutCorrect` | the safety that `CameraReleased` rests on. `CamerasOK`: a camera that is on belongs to a start that is awaited or to the mounted run, whose cleanup finds `runningRef` set; and one that is out is never turned on again |
| `DialogCorrect` | from `ScannerInv`: the scanner is the `armed` of `StaffTaskPage`, set by a mount, cleared by the one code or the unmount |
| `Administration_proof!TypeCorrect`, `ReferencesCorrect`, `ErrorsCorrect`, `NightlyCorrect`, `AuditCorrect` | one invariant `Inv`: what a waiting request found still holds or the request is excused (`Explained`), which every committed write of another keeps; the row a request may create is nobody's yet (`Fresh`); a zone the loop has passed has its task, is gone or was skipped (`Covered`) |
| `RegistryRefinement` | `holders` is the inverse of the unique column; every `Commit` is a step of the registry, every read, answer, audit entry and step of the job a stutter |
| `AdminPages_proof!TypeCorrect`, `SaveCorrect`, `SpinnersCorrect`, `CodeCorrect` | `SaveOnce`, `SpinnersEnd` and `CodeKnown` (nothing is shown in place of the code that is on its way) are inductive as they stand; that a saved row is a row needs `Numbered`: no save goes out without a text, and a row gets the number of its own press |
| `FreshCorrect`, `UntouchedCorrect` | `RowsKnown`: as long as the page could know, its list, or the answer about to replace it, differs from the table only by a write of its own it has not heard of (`Wrote`, `Deleted`), after which `OneLoad` sends exactly one load; `FormsCurrent`: so a form in the dialog or on its way to the server holds its row's values where nobody touched it, unless a save of the page is about to close it |
| `ScanHistory_proof!StaysCorrect`, `StaysDisjoint` | `IInv`: each stay found by a fetch under way is sound for the table of the moment it began, uploads only add to the table, deletions take whole accounts; disjointness follows with `MinutesMonotone` |
| `TotalCorrect` | the fold adds in an unknown order, so each stay is taken as the set of its milliseconds (`Stay`): such sets of one person do not meet (`StaysApart`), hence the sum is at most the size of their union plus the rounding (`CoverBound`), and the union lies between the first check-in and the last check-out. `FoldExists` shows that the function the fold is defined by exists |
| `Sessions_proof!TypeCorrect`, `IdentityCorrect`, `LoggedOutCorrect`, `BoundCorrect` | `IInv`: an exchange marked alone is the only one of its browser, and in a whole browser each one is (`AloneInv`); between its two halves the cookie is already its user's or gone (`CookieInv`); the copies agree unless a login is half-way (`AgreeInv`); what the service has decided for an account that did not race, by the role it then had, still holds when it is heard (`BindInv`), whatever role the account has by then |
| `RedirectCorrect` | the safety that `RedirectsEnd` rests on: `Hops`, at most 2, is a variant of the proxy's redirects. A tab on its way may be moved by something else, the end of one of its own exchanges, and of those there is a bounded number |

`NoSilentLoss`, `StampsBacked`, `OncePerEvent`, `UnconfirmedMarked` and
`FreshWhenQuiet` are not inductive alone: from an arbitrary state that satisfies
them a handler may hold anything. The strengthenings say what a handler holds,
which is where the code's awaits are.

Where a proof counts (the last queued action, the sum of a fold), induction is
replaced by a least counterexample: lemma `Least`, from the well-foundedness of
the natural numbers, gives the smallest number for which a claim fails, and the
claim is shown to hold there.

Only model-checked: the liveness properties `Drains`, `CameraReleased`,
`BadgeFollows`, `RefetchAfterFlush` and `RedirectsEnd`, as liveness under fairness
is beyond the prover. The theorems on what they rest on say that nobody is
forgotten; that the one who is to act does so in the end is fairness, and TLC's.
`Drains` has of these only `LossCorrect`, `QueueCorrect` and `LeftCorrect`. Every
other property of a run is the statement of a theorem.

## 7. What is left out, and the plan

Abstractions: an update that was applied but whose reply the backend does not
get is not told apart from one that was answered, when no scan event is owed;
notes, checklists, reasons, formatted answers and includes are left out; a token
is its owner. The response of the proxy and the cookies it deletes are one step;
a logout whose connection broke does not reach the server later; a tab on its way
to a page is not sent elsewhere by its user before the proxy has answered; `sessions` runs
with `JWT_SECRET` given, the other case is in the model and the proofs only. A
load of an administration page reads its two lists at once. Switching between
the tabs of the organizations page is a new visit.

### Not modelled

- The schema upgrade of the IndexedDB store (`db.ts:66` has no `onblocked` handler).
- The composition of queue and life cycle: a replay whose answer is lost is sent
  twice, and a direct request overtakes queued ones. The two modules meet in what
  a replay may be answered; their product was not built.
- The drift window of `validateScan`, which nothing calls.
- Search, filters and stat cards of the scans page, its export and the reports
  page; the dashboard's counts, one query each.
- Retention (one `deleteMany` by date), export jobs (nothing enqueues them), the
  websocket gateway (keeps no state), DTO validation, bootstrap, migrations,
  seeds, and the generated UI components.

### What would come next

1. `OfflineReplay`: the composition of queue and life cycle, with "each action
   takes effect at most once" as its abstract specification.
2. `QrWindow` and `Dashboard`: pure functions against reference definitions, once
   something calls the first.
