---------------------------- MODULE OfflineQueue ----------------------------
(***************************************************************************)
(* The offline queue of the web client: apiClient puts a task action that  *)
(* could not be sent into an IndexedDB store, syncService replays the      *)
(* store against the backend, oldest record first.                         *)
(*                                                                         *)
(* The store, the cookies and the local storage belong to the browser and  *)
(* are shared by its tabs.  The isFlushing guard is a variable of each     *)
(* tab's script, and so is everything a flush holds between two awaits:    *)
(* the token, the snapshot of the queue and the record it is sending.      *)
(***************************************************************************)
EXTENDS Integers

CONSTANTS
  Tabs,        \* the open tabs
  Users,       \* the people who share the device
  MaxRecords,  \* bound: how many records are ever stored
  MaxAttempts, \* MAX_ATTEMPTS of syncService
  Faults,      \* which of AllFaults the environment may inflict
  None

\* network: requests fail to get an answer; server: 5xx; storage: IndexedDB
\* requests fail; reload: a tab is reloaded; expiry: tokens expire; switch:
\* people log out and in.
AllFaults == {"network", "server", "storage", "reload", "expiry", "switch"}

ASSUME QueueAssumption ==
  /\ MaxRecords \in Nat
  /\ MaxAttempts \in Nat \ {0}
  /\ Faults \subseteq AllFaults
  /\ None \notin Users
  /\ None \notin Nat

VARIABLES
  next,     \* the key the store gives out next
  store,    \* the keys of the records in the store
  attempts, \* the attempts field of each record
  author,   \* whose action each record is
  pc,       \* where the flush of each tab stands; "idle" iff ~isFlushing
  todo,     \* the part of its snapshot a flush has not dealt with
  seen,     \* the attempts fields in its snapshot
  item,     \* the record it is sending, removing or updating
  token,    \* the bearer token it read when it began
  sentAs,   \* whom the backend takes the request in flight to come from
  adding,   \* the author of the record a tab is about to store
  online,   \* navigator.onLine
  cookie,   \* whose token the cookies hold
  stored,   \* whose token local storage holds
  expired,  \* the users whose last token is no longer accepted
  verdicts, \* history: the final answers a record's replays have got
  fails,    \* history: how many 5xx they have got, up to FailureCap
  stalled   \* history: the stored records a flush has given up on, or that
            \* a trigger left where they are, since the store was last read

queue == <<next, store, attempts, author>>
flush == <<pc, todo, seen, item, token, sentAs>>
session == <<cookie, stored, expired>>
history == <<verdicts, fails>>
vars == <<queue, flush, adding, online, session, history, stalled>>

Ids == 1..MaxRecords
OrNone(S) == S \cup {None}
FailureCap == MaxAttempts

\* A visit begins with an empty queue and somebody logged in.
Init ==
  /\ next = 1
  /\ store = {}
  /\ attempts = [i \in Ids |-> 0]
  /\ author = [i \in Ids |-> None]
  /\ pc = [b \in Tabs |-> "idle"]
  /\ todo = [b \in Tabs |-> {}]
  /\ seen = [b \in Tabs |-> [i \in Ids |-> 0]]
  /\ item = [b \in Tabs |-> None]
  /\ token = [b \in Tabs |-> None]
  /\ sentAs = [b \in Tabs |-> None]
  /\ adding = [b \in Tabs |-> None]
  /\ online \in BOOLEAN
  /\ \E u \in Users : cookie = u /\ stored = u
  /\ expired = {}
  /\ verdicts = [i \in Ids |-> {}]
  /\ fails = [i \in Ids |-> 0]
  /\ stalled = {}

----------------------------------------------------------------------------
(* Beginning and ending a flush. *)

\* The early returns of flushQueue, in the tabs whose trigger fires.  The
\* token is read from local storage.
WakeIn_Deaf(B, isOnline) == UNCHANGED flush

WakeIn(B, isOnline) ==
  LET woken == {b \in B : pc[b] = "idle" /\ isOnline /\ stored # None}
  IN  /\ pc' = [b \in Tabs |-> IF b \in woken THEN "reading" ELSE pc[b]]
      /\ token' = [b \in Tabs |-> IF b \in woken THEN stored ELSE token[b]]
      /\ UNCHANGED <<todo, seen, item, sentAs>>

\* The finally block, and what goes out of scope with the call.
Finish(b) ==
  /\ pc' = [pc EXCEPT ![b] = "idle"]
  /\ todo' = [todo EXCEPT ![b] = {}]
  /\ seen' = [seen EXCEPT ![b] = [i \in Ids |-> 0]]
  /\ item' = [item EXCEPT ![b] = None]
  /\ token' = [token EXCEPT ![b] = None]
  /\ sentAs' = [sentAs EXCEPT ![b] = None]

\* A flush ends with records left of its snapshot; one that could not read
\* the store leaves all of it.
GiveUp(b) ==
  /\ Finish(b)
  /\ stalled' = stalled \cup
                  {i \in store : pc[b] = "reading" \/ i \in todo[b]}

\* The proxy puts the cookie, if there is one, in place of the header.
Identity(b) == IF cookie # None THEN cookie ELSE token[b]

Oldest_Any(S) == S
Oldest(S) == {i \in S : \A j \in S : i <= j}

\* The loop sends the oldest record left of the snapshot, or is over.
SendNext(b, left, counts) ==
  \/ /\ left = {}
     /\ Finish(b)
  \/ \E i \in Oldest(left) :
       /\ pc' = [pc EXCEPT ![b] = "sending"]
       /\ todo' = [todo EXCEPT ![b] = left]
       /\ seen' = [seen EXCEPT ![b] = counts]
       /\ item' = [item EXCEPT ![b] = i]
       /\ sentAs' = [sentAs EXCEPT ![b] = Identity(b)]
       /\ UNCHANGED token

----------------------------------------------------------------------------
(* Queueing an action. *)

\* A user's action finds the device offline, or its fetch is rejected; the
\* request now waits for the database to be opened.
Perform(b) ==
  /\ adding[b] = None
  /\ cookie # None \/ stored # None
  /\ ~online \/ "network" \in Faults
  /\ next <= MaxRecords
  /\ adding' = [adding EXCEPT ![b] = IF cookie # None THEN cookie ELSE stored]
  /\ UNCHANGED <<queue, flush, online, session, history, stalled>>

\* store.add succeeds; the change event reaches the listeners of this tab.
AddRecord(b) ==
  /\ adding[b] # None
  /\ next <= MaxRecords
  /\ store' = store \cup {next}
  /\ author' = [author EXCEPT ![next] = adding[b]]
  /\ next' = next + 1
  /\ adding' = [adding EXCEPT ![b] = None]
  /\ WakeIn({b}, online)
  /\ stalled' = IF pc[b] # "idle" \/ (online /\ stored = None)
                THEN stalled \cup {next} ELSE stalled
  /\ UNCHANGED <<attempts, online, session, history>>

\* store.add fails and the user is told so.
AddFails(b) ==
  /\ "storage" \in Faults
  /\ adding[b] # None
  /\ adding' = [adding EXCEPT ![b] = None]
  /\ UNCHANGED <<queue, flush, online, session, history, stalled>>

----------------------------------------------------------------------------
(* The flush of one tab. *)

ReadQueue(b) ==
  /\ pc[b] = "reading"
  /\ SendNext(b, store, attempts)
  /\ stalled' = {}
  /\ UNCHANGED <<queue, adding, online, session, history>>

\* A 2xx or a 4xx other than 401 is final.  The backend refuses with a 400
\* whatever is not the caller's own, and may refuse the caller's own too.
FinalAnswer(b, v) ==
  LET i == item[b]
  IN  /\ pc[b] = "sending"
      /\ sentAs[b] \notin expired
      /\ IF sentAs[b] = author[i] THEN v \in {"ok", "rejected"}
                                  ELSE v = "foreign"
      /\ verdicts' = [verdicts EXCEPT ![i] = @ \cup {v}]
      /\ pc' = [pc EXCEPT ![b] = "removing"]
      /\ UNCHANGED <<queue, todo, seen, item, token, sentAs, adding, online,
                     session, fails, stalled>>

Unauthorized(b) ==
  /\ pc[b] = "sending"
  /\ sentAs[b] \in expired
  /\ GiveUp(b)
  /\ UNCHANGED <<queue, adding, online, session, history>>

\* const attempts = item.attempts + 1
Counted_Forgotten(n) == n
Counted(n) == n + 1

Exhausted_Early(n) == n >= MaxAttempts - 1
Exhausted_Late(n) == n > MaxAttempts
Exhausted(n) == n >= MaxAttempts

ServerError(b) ==
  LET i == item[b]
  IN  /\ "server" \in Faults
      /\ pc[b] = "sending"
      /\ fails' = [fails EXCEPT ![i] = IF @ < FailureCap THEN @ + 1 ELSE @]
      /\ pc' = [pc EXCEPT ![b] = IF Exhausted(Counted(seen[b][i]))
                                              THEN "burying"
                                              ELSE "updating"]
      /\ UNCHANGED <<queue, todo, seen, item, token, sentAs, adding, online,
                     session, verdicts, stalled>>

\* The fetch is rejected, or the status is none the code knows.
NetworkError(b) ==
  /\ "network" \in Faults \/ ~online
  /\ pc[b] = "sending"
  /\ GiveUp(b)
  /\ UNCHANGED <<queue, adding, online, session, history>>

\* The change event of the removal finds isFlushing set, in this tab.
Remove(b) ==
  /\ pc[b] = "removing"
  /\ store' = store \ {item[b]}
  /\ SendNext(b, todo[b] \ {item[b]}, seen[b])
  /\ stalled' = stalled \ {item[b]}
  /\ UNCHANGED <<next, attempts, author, adding, online, session, history>>

\* A dead letter ends the cycle.
Bury(b) ==
  /\ pc[b] = "burying"
  /\ store' = store \ {item[b]}
  /\ Finish(b)
  /\ stalled' = (stalled \cup (store \cap todo[b])) \ {item[b]}
  /\ UNCHANGED <<next, attempts, author, adding, online, session, history>>

\* The count is that of the snapshot plus one; a record that is gone stays
\* gone.
Update(b) ==
  LET i == item[b]
  IN  /\ pc[b] = "updating"
      /\ attempts' = IF i \in store
                     THEN [attempts EXCEPT ![i] = Counted(seen[b][i])]
                     ELSE attempts
      /\ GiveUp(b)
      /\ UNCHANGED <<next, store, author, adding, online, session, history>>

\* A database request of the flush is rejected: catch and finally.
StorageError(b) ==
  /\ "storage" \in Faults
  /\ pc[b] \in {"reading", "removing", "burying", "updating"}
  /\ GiveUp(b)
  /\ UNCHANGED <<queue, adding, online, session, history>>

----------------------------------------------------------------------------
(* The browser and the people. *)

GoOffline ==
  /\ online
  /\ online' = FALSE
  /\ UNCHANGED <<queue, flush, adding, session, history, stalled>>

\* Every tab gets the online event; without a token none begins a flush.
GoOnline ==
  /\ ~online
  /\ online' = TRUE
  /\ WakeIn(Tabs, TRUE)
  /\ stalled' = IF stored = None THEN store ELSE stalled
  /\ UNCHANGED <<queue, adding, session, history>>

\* The script of the tab starts anew: what it held is gone, and its mount
\* begins a flush.
Reload(b) ==
  LET starts == online /\ stored # None
  IN  /\ "reload" \in Faults
      /\ pc' = [pc EXCEPT ![b] = IF starts THEN "reading" ELSE "idle"]
      /\ token' = [token EXCEPT ![b] = IF starts THEN stored ELSE None]
      /\ todo' = [todo EXCEPT ![b] = {}]
      /\ seen' = [seen EXCEPT ![b] = [i \in Ids |-> 0]]
      /\ item' = [item EXCEPT ![b] = None]
      /\ sentAs' = [sentAs EXCEPT ![b] = None]
      /\ adding' = [adding EXCEPT ![b] = None]
      /\ stalled' = IF stored = None THEN store ELSE stalled
      /\ UNCHANGED <<queue, online, session, history>>

\* The backend stops accepting a token when its day is over.
Expire(u) ==
  /\ "expiry" \in Faults
  /\ u \in {cookie, stored}
  /\ expired' = expired \cup {u}
  /\ UNCHANGED <<queue, flush, adding, online, cookie, stored, history,
                 stalled>>

\* The middleware finds an expired cookie and deletes it; local storage,
\* which it cannot reach, keeps the token.
DropCookie ==
  /\ online
  /\ cookie \in expired
  /\ cookie' = None
  /\ UNCHANGED <<queue, flush, adding, online, stored, expired, history,
                 stalled>>

\* The login page is reached by whoever has no cookie.  It stores the
\* token in both places and moves on without reloading the page.
Login(u) ==
  /\ online
  /\ cookie = None
  /\ cookie' = u
  /\ stored' = u
  /\ expired' = expired \ {u}
  /\ UNCHANGED <<queue, flush, adding, online, history, stalled>>

\* Logging out clears local storage; the cookie the scripts cannot see goes
\* only if the request to the server gets through.
Logout ==
  /\ "switch" \in Faults
  /\ stored # None
  /\ stored' = None
  /\ \/ online /\ cookie' = None
     \/ (~online \/ "network" \in Faults) /\ UNCHANGED cookie
  /\ UNCHANGED <<queue, flush, adding, online, expired, history, stalled>>

----------------------------------------------------------------------------
FlushStep(b) ==
  \/ ReadQueue(b)
  \/ \E v \in {"ok", "rejected", "foreign"} : FinalAnswer(b, v)
  \/ Unauthorized(b) \/ ServerError(b) \/ NetworkError(b)
  \/ Remove(b) \/ Bury(b) \/ Update(b) \/ StorageError(b)

Tab(b) == FlushStep(b) \/ Perform(b) \/ AddRecord(b) \/ AddFails(b) \/ Reload(b)

Next ==
  \/ \E b \in Tabs : Tab(b)
  \/ GoOffline \/ GoOnline \/ DropCookie \/ Logout
  \/ \E u \in Users : Expire(u) \/ Login(u)

Spec == Init /\ [][Next]_vars

----------------------------------------------------------------------------
(* Fairness. *)

\* The server answers.
Answered(b) ==
  ServerError(b) \/ \E v \in {"ok", "rejected", "foreign"} : FinalAnswer(b, v)

\* A promise a flush or an action waits for is settled in the end.  What the
\* environment can cut short again and again (a database request by a
\* reload, a fetch by the network) succeeds if it is tried for ever.  Nothing
\* is assumed of the connection, of the triggers or of what is answered.
FairSpec ==
  /\ Spec
  /\ \A b \in Tabs :
       /\ WF_vars(FlushStep(b))
       /\ WF_vars(AddRecord(b) \/ AddFails(b))
       /\ SF_vars(ReadQueue(b))
       /\ SF_vars(Answered(b))
       /\ SF_vars(Remove(b))
       /\ SF_vars(Update(b))
       /\ SF_vars(Bury(b))

----------------------------------------------------------------------------
(* Properties. *)

\* No stored record has used up its attempts, and what a flush holds is
\* consistent (updatePendingScan is reached only below MAX_ATTEMPTS).
TypeOK ==
  /\ next \in 1..(MaxRecords + 1)
  /\ store \subseteq Ids
  /\ attempts \in [Ids -> 0..(MaxAttempts - 1)]
  /\ author \in [Ids -> OrNone(Users)]
  /\ pc \in [Tabs -> {"idle", "reading", "sending", "removing", "burying",
                      "updating"}]
  /\ todo \in [Tabs -> SUBSET Ids]
  /\ seen \in [Tabs -> [Ids -> 0..(MaxAttempts - 1)]]
  /\ item \in [Tabs -> OrNone(Ids)]
  /\ token \in [Tabs -> OrNone(Users)]
  /\ sentAs \in [Tabs -> OrNone(Users)]
  /\ adding \in [Tabs -> OrNone(Users)]
  /\ online \in BOOLEAN
  /\ cookie \in OrNone(Users)
  /\ stored \in OrNone(Users)
  /\ expired \subseteq Users
  /\ verdicts \in [Ids -> SUBSET {"ok", "rejected", "foreign"}]
  /\ fails \in [Ids -> 0..FailureCap]
  /\ stalled \subseteq store

\* A record is out of the store only if a replay of it got a final answer,
\* or MaxAttempts of them a 5xx: no 401, no network error, no reload, no
\* failing database request and no other tab makes a record vanish, and
\* none is buried early (the removals of flushQueue).
NoSilentLoss ==
  \A i \in Ids :
    i < next /\ i \notin store =>
      verdicts[i] # {} \/ fails[i] >= MaxAttempts

\* While a record is being sent no older record is in the store, whichever
\* tab stored it and whichever tabs are flushing (getPendingScans, and the
\* breaks of flushQueue).
FifoReplay ==
  \A b \in Tabs :
    pc[b] = "sending" => \A j \in store : item[b] <= j

\* A flush that is about to read the store, or has the record before it.
InHand(i) == \E b \in Tabs : pc[b] = "reading" \/ i \in todo[b]

\* A record that stays on a device that is online is in the hands of a flush
\* or waits for the next trigger, and only the following make it wait: a
\* flush that was broken off (no answer, a 401, a 5xx or a dead letter before
\* it, a failing database request), a flush of its own tab that was running
\* when it was queued (the first return of flushQueue, although the comment
\* of initBackgroundSync counts a new record among the triggers), or a trigger
\* without a token.  Other tabs, reloads, and the device going off and on in
\* the middle of a flush strand none.
LeftForCause == online => \A i \in store : InHand(i) \/ i \in stalled

\* If flushes begin again and again, every stored record leaves the store in
\* the end, whatever the server answers and however reloads and lost answers
\* cut the flushes short: no flush stays stuck with isFlushing set, and a
\* record that only gets 5xx blocks those behind it no longer than its
\* attempts last (MAX_ATTEMPTS).
Drains ==
  []<>(\E b \in Tabs : pc[b] = "reading") =>
    \A i \in Ids : i \in store ~> i \notin store
=============================================================================
