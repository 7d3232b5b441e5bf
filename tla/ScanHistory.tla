---------------------------- MODULE ScanHistory ----------------------------
(***************************************************************************)
(* The scan history: ScansService.findAll of the backend and the page that *)
(* shows its answer, with the drawer of one person's movements.            *)
(*                                                                         *)
(* findAll reads the newest scans and then, in a query of its own for each *)
(* check-out among them, the check-in that the stay began with.  Scans     *)
(* come in between: devices upload them late and in any order, so a scan   *)
(* may be older than those already stored.                                 *)
(***************************************************************************)
EXTENDS Integers, FiniteSets, FiniteSetsExt

CONSTANTS
  Users,
  Scans,     \* the scans that may be stored, as records of who, at and action
  Take,      \* how many the page asks for (50)
  MaxLoads,  \* bound: how often the page is loaded
  None

\* at is clientScannedAt in milliseconds.
ASSUME HistoryAssumption ==
  /\ Scans \subseteq [who : Users, at : Nat,
                      action : {"CHECK_IN", "CHECK_OUT", "AUTO"}]
  /\ Take \in Nat
  /\ MaxLoads \in Nat
  /\ None \notin Nat \cup Users

VARIABLES
  stored,    \* every scan that was ever written to scan_events
  gone,      \* the accounts that were deleted, their scans with them
  list,      \* the scans on the page, each with its durationMinutes
  known,     \* history: the table when the request that filled list was sent
  fetches,   \* the requests under way
  loads,     \* how many were sent, up to MaxLoads
  isLoading, isRefreshing, error,
  person, isDrawerOpen  \* selectedPersonnel

vars == <<stored, gone, list, known, fetches, loads, isLoading, isRefreshing,
          error, person, isDrawerOpen>>
shown == <<list, known, error>>
drawer == <<person, isDrawerOpen>>

table == {s \in stored : s.who \notin gone}

NoScans == [s \in {} |-> None]
Sent(n) == [n |-> n, known |-> table, read |-> FALSE, stays |-> NoScans,
            left |-> {}]

\* The effect that runs when the page is shown has sent the first request.
Init ==
  /\ stored \in SUBSET Scans
  /\ gone = {}
  /\ list = NoScans /\ known = {} /\ error = FALSE
  /\ fetches = {Sent(0)} /\ loads = 0
  /\ isLoading = TRUE /\ isRefreshing = FALSE
  /\ person = None /\ isDrawerOpen = FALSE

----------------------------------------------------------------------------
(* findAll. *)

\* Where the order leaves a choice the database takes any.
Newest(S, L) ==
  /\ L \subseteq S /\ IsFiniteSet(L)
  /\ Cardinality(L) <= Take
  /\ Cardinality(L) = Take \/ L = S
  /\ \A s \in L, t \in S \ L : t.at <= s.at

Outs(S) == {s \in S : s.action = "CHECK_OUT"}

FetchUnchanged ==
  UNCHANGED <<stored, gone, shown, loads, isLoading, isRefreshing, drawer>>

ReadPage(f, L) ==
  /\ ~f.read
  /\ Newest(table, L)
  /\ fetches' = (fetches \ {f}) \cup
       {[f EXCEPT !.read = TRUE, !.stays = [s \in L |-> None], !.left = Outs(L)]}
  /\ FetchUnchanged

\* Math.round(diffMs / 60000)
Minutes(ms) == (ms + 30000) \div 60000

\* i may be where the stay that ends with o began, whatever the task.
Begins(i, o) == i.who = o.who /\ i.action = "CHECK_IN" /\ i.at < o.at

\* findFirst: the last one.
LastCheckIn_First(i, S) == \A j \in S : i.at <= j.at
LastCheckIn(i, S) == \A j \in S : j.at <= i.at

CheckIns_OnPage(f, o) == {i \in DOMAIN f.stays : Begins(i, o)}
CheckIns(f, o) == {i \in table : Begins(i, o)}

Found(f, o, minutes) ==
  fetches' = (fetches \ {f}) \cup
    {[f EXCEPT !.stays[o] = minutes, !.left = @ \ {o}]}

\* The queries of the check-outs are answered in any order.
Lookup(f, o) ==
  LET ins == CheckIns(f, o)
  IN  /\ o \in f.left
      /\ \/ ins = {} /\ Found(f, o, None)
         \/ \E i \in ins : LastCheckIn(i, ins) /\ Found(f, o, Minutes(o.at - i.at))
      /\ FetchUnchanged

----------------------------------------------------------------------------
(* The page. *)

Arrived(f) == f.read /\ f.left = {}

ListArrives(f) ==
  /\ Arrived(f)
  /\ fetches' = fetches \ {f}
  /\ list' = f.stays
  /\ known' = f.known
  /\ error' = FALSE
  /\ isLoading' = FALSE
  /\ isRefreshing' = FALSE
  /\ UNCHANGED <<stored, gone, loads, drawer>>

\* An answer that is not 2xx or a connection that breaks, at any moment: the
\* message stands above the old list.
FetchFails(f) ==
  /\ fetches' = fetches \ {f}
  /\ error' = TRUE
  /\ isLoading' = FALSE
  /\ isRefreshing' = FALSE
  /\ UNCHANGED <<stored, gone, list, known, loads, drawer>>

\* The button is disabled while a request is under way.
Disabled == isLoading \/ isRefreshing

Refresh ==
  /\ ~Disabled /\ ~isDrawerOpen
  /\ loads < MaxLoads
  /\ loads' = loads + 1
  /\ isRefreshing' = TRUE
  /\ fetches' = fetches \cup {Sent(loads')}
  /\ UNCHANGED <<stored, gone, shown, isLoading, drawer>>

\* A click on a row the filters leave on the page; a placeholder has none.
OpenDrawer(s) ==
  /\ ~isLoading /\ ~isDrawerOpen
  /\ s \in DOMAIN list
  /\ person' = s.who
  /\ isDrawerOpen' = TRUE
  /\ UNCHANGED <<stored, gone, shown, fetches, loads, isLoading, isRefreshing>>

\* The drawer only slides out: selectedPersonnel stays.
CloseDrawer ==
  /\ isDrawerOpen
  /\ isDrawerOpen' = FALSE
  /\ UNCHANGED <<stored, gone, shown, fetches, loads, isLoading, isRefreshing,
                 person>>

\* What the drawer lists, adds up and exports.
PersonnelScans(u) == {s \in DOMAIN list : s.who = u}

TotalMinutes(u) ==
  MapThenSumSet(LAMBDA s : IF list[s] = None THEN 0 ELSE list[s],
                PersonnelScans(u))

----------------------------------------------------------------------------
(* What happens to the table meanwhile. *)

\* ScanBatch and TaskLifecycle write scans.
Upload(s) ==
  /\ s.who \notin gone
  /\ stored' = stored \cup {s}
  /\ UNCHANGED <<gone, shown, fetches, loads, isLoading, isRefreshing, drawer>>

\* The scans of an account are deleted with it.
RemoveUser(u) ==
  /\ gone' = gone \cup {u}
  /\ UNCHANGED <<stored, shown, fetches, loads, isLoading, isRefreshing, drawer>>

Next ==
  \/ \E f \in fetches :
       \/ \E L \in SUBSET table : ReadPage(f, L)
       \/ \E o \in f.left : Lookup(f, o)
       \/ ListArrives(f) \/ FetchFails(f)
  \/ Refresh \/ CloseDrawer
  \/ \E s \in Scans : OpenDrawer(s) \/ Upload(s)
  \/ \E u \in Users : RemoveUser(u)

Spec == Init /\ [][Next]_vars

----------------------------------------------------------------------------
(* Properties. *)

Stays == UNION {[L -> Nat \cup {None}] : L \in SUBSET Scans}

FetchSet == [n : 0..MaxLoads, known : SUBSET Scans, read : BOOLEAN,
             stays : Stays, left : SUBSET Scans]

\* Every variable has the type its comment gives it: a check-out that was not
\* looked up yet is on the page that was read.
TypeOK ==
  /\ stored \subseteq Scans /\ known \subseteq Scans /\ gone \subseteq Users
  /\ list \in Stays
  /\ fetches \subseteq FetchSet
  /\ \A f \in fetches : f.left \subseteq DOMAIN f.stays
  /\ loads \in 0..MaxLoads
  /\ isLoading \in BOOLEAN /\ isRefreshing \in BOOLEAN /\ error \in BOOLEAN
  /\ person \in Users \cup {None} /\ isDrawerOpen \in BOOLEAN

\* d is a duration that findAll may give s if the table held K when it began:
\* the time since a real check-in that no check-in of K comes after.
Sound(s, d, K) ==
  IF s.action # "CHECK_OUT" THEN d = None
  ELSE IF d = None THEN s.who \in gone \/ ~\E j \in K : Begins(j, s)
  ELSE \E i \in stored :
         /\ Begins(i, s) /\ d = Minutes(s.at - i.at)
         /\ \A j \in K : Begins(j, s) => j.at <= i.at

\* Every duration on the page is measured from a check-in of the same person
\* that is, and no later one was stored when the list was asked for, on this
\* page of the table or beyond its end, whatever is uploaded or deleted
\* between the two queries (findAll).
StaysSound == \A s \in DOMAIN list : Sound(s, list[s], known)

\* Between two check-outs of u there is a check-in.
Alternates(u) ==
  \A o, p \in Outs(PersonnelScans(u)) :
    o.at < p.at => \E i \in known : Begins(i, p) /\ o.at < i.at

\* For somebody who never leaves twice in a row the drawer counts no minute
\* twice: the total is no longer than the time from a check-in to the last
\* check-out shown, but for the half minutes that rounding adds
\* (selectedPersonnelStats over durations that findAll read one by one).
TotalInSpan ==
  isDrawerOpen /\ Alternates(person) /\ TotalMinutes(person) > 0 =>
    LET outs == Outs(PersonnelScans(person))
    IN  \E i \in stored, o \in outs :
          /\ Begins(i, o)
          /\ 60000 * TotalMinutes(person) <=
               (o.at - i.at) + 30000 * Cardinality(outs)
=============================================================================
