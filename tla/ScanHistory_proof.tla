------------------------- MODULE ScanHistory_proof -------------------------
(***************************************************************************)
(* Proofs about the scan history, for any number of people, scans and      *)
(* loads and any page size: the durations are sound and the drawer counts  *)
(* no minute twice.                                                        *)
(***************************************************************************)
EXTENDS ScanHistory, FiniteSetTheorems, WellFoundedInduction, TLAPS

\* One request at a time, while the button is disabled.
OneFetch ==
  /\ \A f, g \in fetches : f = g
  /\ fetches # {} => Disabled

\* What a request has found is sound already, and of the past.
FetchesSound ==
  \A f \in fetches :
    /\ f.known \subseteq stored
    /\ DOMAIN f.stays \subseteq stored /\ IsFiniteSet(DOMAIN f.stays)
    /\ \A s \in f.left : s.action = "CHECK_OUT"
    /\ \A s \in DOMAIN f.stays \ f.left : Sound(s, f.stays[s], f.known)

PageStored == DOMAIN list \subseteq stored /\ IsFiniteSet(DOMAIN list)

IInv == TypeOK /\ OneFetch /\ FetchesSound /\ PageStored /\ StaysSound

----------------------------------------------------------------------------
(* Helpers *)

\* Nothing that is uploaded or deleted later makes a duration unsound.
LEMMA SoundKept ==
  ASSUME NEW s, NEW d, NEW K, stored \subseteq stored', gone \subseteq gone',
         Sound(s, d, K)
  PROVE  Sound(s, d, K)'
BY DEF Sound, Begins, Minutes

\* Fields of the records of Scans.
LEMMA ScanFields ==
  ASSUME NEW s \in Scans
  PROVE  s.who \in Users /\ s.at \in Nat
BY HistoryAssumption

LEMMA MinutesNat ==
  ASSUME NEW ms \in Nat
  PROVE  Minutes(ms) \in Nat
BY DEF Minutes

LEMMA MinutesMonotone ==
  ASSUME NEW a \in Nat, NEW b \in Nat, a <= b
  PROVE  Minutes(a) <= Minutes(b)
BY DEF Minutes

----------------------------------------------------------------------------
(* A step that leaves the requests and the page alone keeps what was said  *)
(* of them.                                                                *)

LEMMA TableGrows ==
  ASSUME IInv, TypeOK', stored \subseteq stored', gone \subseteq gone',
         UNCHANGED <<fetches, list, known, isLoading, isRefreshing>>
  PROVE  IInv'
<1>1. OneFetch' BY DEF IInv, OneFetch, Disabled
<1>2. FetchesSound' BY SoundKept DEF IInv, FetchesSound
<1>3. PageStored' BY DEF IInv, PageStored
<1>4. StaysSound' BY SoundKept DEF IInv, StaysSound
<1> QED BY <1>1, <1>2, <1>3, <1>4 DEF IInv

LEMMA InitInv == Init => IInv
<1> SUFFICES ASSUME Init PROVE IInv
    OBVIOUS
<1> USE DEF Init
<1>1. NoScans \in Stays BY DEF NoScans, Stays
<1>2. Sent(0) \in FetchSet
      BY <1>1, HistoryAssumption DEF Sent, FetchSet, table
<1>3. TypeOK
  <2>1. Sent(0).left = {} BY DEF Sent
  <2>2. 0 \in 0..MaxLoads BY HistoryAssumption
  <2> QED BY <1>1, <1>2, <2>1, <2>2 DEF TypeOK
<1>4. OneFetch BY DEF OneFetch, Disabled
<1>5. FetchesSound BY FS_EmptySet DEF FetchesSound, Sent, NoScans, table
<1>6. PageStored /\ StaysSound
      BY FS_EmptySet DEF PageStored, StaysSound, NoScans
<1> QED BY <1>3, <1>4, <1>5, <1>6 DEF IInv

----------------------------------------------------------------------------
(* The steps of findAll: one request f becomes g. *)

LEMMA RequestMoves ==
  ASSUME IInv, NEW f \in fetches, NEW g \in FetchSet,
         fetches' = (fetches \ {f}) \cup {g}, FetchUnchanged,
         g.left \subseteq DOMAIN g.stays,
         g.known = f.known,
         DOMAIN g.stays \subseteq stored, IsFiniteSet(DOMAIN g.stays),
         \A s \in g.left : s.action = "CHECK_OUT",
         \A s \in DOMAIN g.stays \ g.left : Sound(s, g.stays[s], g.known)
  PROVE  IInv'
<1> USE DEF IInv
<1>0. UNCHANGED <<stored, gone, list, known, error, loads, isLoading,
                  isRefreshing, person, isDrawerOpen>>
      BY DEF FetchUnchanged, shown, drawer
<1>1. TypeOK' BY <1>0 DEF TypeOK
<1>2. OneFetch' BY <1>0 DEF OneFetch, Disabled
<1>3. FetchesSound' BY <1>0, SoundKept DEF FetchesSound
<1>4. PageStored' BY <1>0 DEF PageStored
<1>5. StaysSound' BY <1>0, SoundKept DEF StaysSound
<1> QED BY <1>1, <1>2, <1>3, <1>4, <1>5

LEMMA ReadPageInv ==
  ASSUME IInv, NEW f \in fetches, NEW L, ReadPage(f, L)
  PROVE  IInv'
<1> DEFINE stays == [s \in L |-> None]
           g == [f EXCEPT !.read = TRUE, !.stays = stays, !.left = Outs(L)]
<1>1. /\ f \in FetchSet /\ L \subseteq Scans /\ L \subseteq stored
      /\ IsFiniteSet(L)
      BY DEF IInv, TypeOK, ReadPage, Newest, table
<1>2. stays \in Stays BY <1>1 DEF Stays
<1>3. Outs(L) \subseteq L /\ \A s \in Outs(L) : s.action = "CHECK_OUT"
      BY DEF Outs
<1>4. /\ g \in FetchSet /\ g.known = f.known /\ g.stays = stays
      /\ g.left = Outs(L)
      BY <1>1, <1>2, <1>3 DEF FetchSet
<1>5. \A s \in L \ Outs(L) : Sound(s, None, f.known)
      BY DEF Sound, Outs
<1>6. fetches' = (fetches \ {f}) \cup {g} /\ FetchUnchanged BY DEF ReadPage
<1> HIDE DEF g
<1>7. DOMAIN g.stays = L /\ \A s \in L : g.stays[s] = None BY <1>4
<1> QED BY <1>1, <1>3, <1>4, <1>5, <1>6, <1>7, RequestMoves

\* What the query finds is sound when it is found.
LEMMA LookupSound ==
  ASSUME IInv, NEW f \in fetches, NEW o \in f.left
  PROVE  /\ CheckIns(f, o) = {} => Sound(o, None, f.known)
         /\ \A i \in CheckIns(f, o) :
              LastCheckIn(i, CheckIns(f, o)) =>
                /\ Minutes(o.at - i.at) \in Nat
                /\ Sound(o, Minutes(o.at - i.at), f.known)
<1>1. /\ o \in Scans /\ o.action = "CHECK_OUT" /\ f.known \subseteq stored /\ stored \subseteq Scans
      /\ CheckIns(f, o) \subseteq stored
      BY DEF IInv, TypeOK, FetchSet, FetchesSound, CheckIns, table
<1>2. \A j \in f.known : Begins(j, o) => o.who \in gone \/ j \in CheckIns(f, o)
      BY <1>1 DEF CheckIns, Begins, table
<1>3. \A i \in CheckIns(f, o) : Begins(i, o) /\ o.who \notin gone
      BY DEF CheckIns, Begins, table
<1>4. CheckIns(f, o) = {} => Sound(o, None, f.known) BY <1>1, <1>2 DEF Sound
<1>5. ASSUME NEW i \in CheckIns(f, o), LastCheckIn(i, CheckIns(f, o))
      PROVE  /\ Minutes(o.at - i.at) \in Nat
             /\ Sound(o, Minutes(o.at - i.at), f.known)
  <2>1. o.at \in Nat /\ i.at \in Nat /\ i.at < o.at
        BY <1>1, <1>3, ScanFields DEF Begins
  <2>2. Minutes(o.at - i.at) \in Nat BY <2>1, MinutesNat
  <2>3. Minutes(o.at - i.at) # None BY <2>2, HistoryAssumption
  <2>4. \A j \in f.known : Begins(j, o) => j.at <= i.at
        BY <1>2, <1>3, <1>5 DEF LastCheckIn
  <2>5. Begins(i, o) /\ i \in stored BY <1>1, <1>3
  <2> HIDE DEF Minutes
  <2>6. Sound(o, Minutes(o.at - i.at), f.known)
        BY <1>1, <2>3, <2>4, <2>5 DEF Sound
  <2> QED BY <2>2, <2>6
<1> QED BY <1>4, <1>5

LEMMA FoundInv ==
  ASSUME IInv, NEW f \in fetches, NEW o \in f.left, NEW m \in Nat \cup {None},
         Sound(o, m, f.known), Found(f, o, m), FetchUnchanged
  PROVE  IInv'
<1> DEFINE stays == [f.stays EXCEPT ![o] = m]
           g == [f EXCEPT !.stays[o] = m, !.left = @ \ {o}]
<1>1. /\ f \in FetchSet /\ f.left \subseteq DOMAIN f.stays
      /\ o \in DOMAIN f.stays /\ f.stays \in Stays
      BY DEF IInv, TypeOK, FetchSet
<1>2. stays \in Stays /\ DOMAIN stays = DOMAIN f.stays BY <1>1 DEF Stays
<1>3. /\ g \in FetchSet /\ g.known = f.known /\ g.stays = stays
      /\ g.left = f.left \ {o} /\ g.read = f.read
      BY <1>1, <1>2 DEF FetchSet
<1>4. fetches' = (fetches \ {f}) \cup {g} BY DEF Found
<1>5. stays[o] = m /\ \A s \in DOMAIN f.stays \ {o} : stays[s] = f.stays[s]
      BY <1>1
<1> HIDE DEF g, stays
<1>6. \A s \in DOMAIN g.stays \ g.left : Sound(s, g.stays[s], g.known)
      BY <1>1, <1>2, <1>3, <1>5 DEF IInv, FetchesSound
<1>7. /\ DOMAIN g.stays \subseteq stored /\ IsFiniteSet(DOMAIN g.stays)
      /\ \A s \in g.left : s.action = "CHECK_OUT"
      BY <1>2, <1>3 DEF IInv, FetchesSound
<1> QED BY <1>1, <1>2, <1>3, <1>4, <1>6, <1>7, RequestMoves

----------------------------------------------------------------------------
(* The steps of the page and of the table. *)

LEMMA ListArrivesInv ==
  ASSUME IInv, NEW f \in fetches, ListArrives(f)
  PROVE  IInv'
<1> USE DEF IInv, ListArrives, drawer
<1>0. f \in FetchSet /\ fetches' = {} BY DEF TypeOK, OneFetch
<1>1. TypeOK' BY <1>0 DEF TypeOK, FetchSet
<1>2. OneFetch' /\ FetchesSound'
      BY <1>0 DEF OneFetch, FetchesSound
<1>3. PageStored' BY DEF PageStored, FetchesSound
<1>4. StaysSound'
  <2>1. \A s \in DOMAIN f.stays : Sound(s, f.stays[s], f.known)
        BY DEF Arrived, FetchesSound
  <2> QED BY <2>1, SoundKept DEF StaysSound
<1> QED BY <1>1, <1>2, <1>3, <1>4

LEMMA FetchFailsInv ==
  ASSUME IInv, NEW f \in fetches, FetchFails(f)
  PROVE  IInv'
<1> USE DEF IInv, FetchFails, drawer
<1>0. fetches' = {} BY DEF OneFetch
<1>1. TypeOK' BY <1>0 DEF TypeOK
<1>2. OneFetch' /\ FetchesSound'
      BY <1>0 DEF OneFetch, FetchesSound
<1>3. PageStored' BY DEF PageStored
<1>4. StaysSound' BY SoundKept DEF StaysSound
<1> QED BY <1>1, <1>2, <1>3, <1>4

LEMMA RefreshInv ==
  ASSUME IInv, Refresh
  PROVE  IInv'
<1> USE DEF IInv, Refresh, shown, drawer
<1> DEFINE g == Sent(loads')
<1>0. fetches = {} /\ fetches' = {g} BY DEF OneFetch
<1>1. loads' \in 0..MaxLoads BY HistoryAssumption DEF TypeOK
<1>2. /\ NoScans \in Stays /\ DOMAIN NoScans = {} /\ table \subseteq Scans
      /\ table \subseteq stored
  <2>1. table \subseteq Scans /\ table \subseteq stored BY DEF TypeOK, table
  <2> HIDE DEF IInv, Refresh
  <2>2. NoScans \in Stays /\ DOMAIN NoScans = {} BY DEF NoScans, Stays
  <2> QED BY <2>1, <2>2
<1>3. /\ g \in FetchSet /\ g.left = {} /\ g.stays = NoScans /\ ~g.read
      /\ g.known = table
  <2> HIDE DEF IInv, Refresh
  <2> QED BY <1>1, <1>2 DEF Sent, FetchSet
<1> HIDE DEF g
<1>4. TypeOK' BY <1>0, <1>1, <1>3 DEF TypeOK
<1>5. OneFetch' BY <1>0 DEF OneFetch, Disabled
<1>6. FetchesSound' BY <1>0, <1>2, <1>3, FS_EmptySet DEF FetchesSound
<1>7. PageStored' BY DEF PageStored
<1>8. StaysSound' BY SoundKept DEF StaysSound
<1> QED BY <1>4, <1>5, <1>6, <1>7, <1>8

LEMMA NextInv == IInv /\ [Next]_vars => IInv'
<1> SUFFICES ASSUME IInv, [Next]_vars PROVE IInv'
    OBVIOUS
<1>1. ASSUME NEW f \in fetches, NEW L, ReadPage(f, L) PROVE IInv'
      BY <1>1, ReadPageInv
<1>2. ASSUME NEW f \in fetches, NEW o \in f.left, Lookup(f, o) PROVE IInv'
  <2>1. FetchUnchanged BY <1>2 DEF Lookup
  <2>2. CASE CheckIns(f, o) = {} /\ Found(f, o, None)
        BY <2>1, <2>2, LookupSound, FoundInv
  <2>3. ASSUME NEW i \in CheckIns(f, o), LastCheckIn(i, CheckIns(f, o)),
               Found(f, o, Minutes(o.at - i.at))
        PROVE  IInv'
        BY <2>1, <2>3, LookupSound, FoundInv
  <2> QED BY <1>2, <2>2, <2>3 DEF Lookup
<1>3. ASSUME NEW f \in fetches, ListArrives(f) PROVE IInv'
      BY <1>3, ListArrivesInv
<1>4. ASSUME NEW f \in fetches, FetchFails(f) PROVE IInv'
      BY <1>4, FetchFailsInv
<1>5. CASE Refresh BY <1>5, RefreshInv
<1>6. CASE CloseDrawer
  <2>1. TypeOK' BY <1>6 DEF IInv, TypeOK, CloseDrawer, shown
  <2> QED BY <1>6, <2>1, TableGrows DEF CloseDrawer, shown
<1>7. ASSUME NEW s \in Scans, OpenDrawer(s) PROVE IInv'
  <2>1. TypeOK' BY <1>7, ScanFields DEF IInv, TypeOK, OpenDrawer, shown
  <2> QED BY <1>7, <2>1, TableGrows DEF OpenDrawer, shown
<1>8. ASSUME NEW s \in Scans, Upload(s) PROVE IInv'
  <2>1. TypeOK' BY <1>8 DEF IInv, TypeOK, Upload, shown, drawer
  <2> QED BY <1>8, <2>1, TableGrows DEF Upload, shown, drawer
<1>9. ASSUME NEW u \in Users, RemoveUser(u) PROVE IInv'
  <2>1. TypeOK' BY <1>9 DEF IInv, TypeOK, RemoveUser, shown, drawer
  <2> QED BY <1>9, <2>1, TableGrows DEF RemoveUser, shown, drawer
<1>10. CASE UNCHANGED vars
  <2>1. TypeOK' BY <1>10 DEF IInv, TypeOK, vars
  <2> QED BY <1>10, <2>1, TableGrows DEF vars
<1> QED BY <1>1, <1>2, <1>3, <1>4, <1>5, <1>6, <1>7, <1>8, <1>9, <1>10 DEF Next

\* The invariant holds in every reachable state of findAll and the page.
THEOREM Invariant == Spec => []IInv
<1> QED BY InitInv, NextInv, PTL DEF Spec

----------------------------------------------------------------------------
(* What the drawer adds up.  The fold adds the durations in an order nobody*)
(* knows, so the time of each stay is taken as the set of its milliseconds: *)
(* such sets do not meet, and however many are put together they lie       *)
(* between the first check-in and the last check-out.                      *)

\* A set of numbers has a least one, which stands in for induction.
LEMMA Least ==
  ASSUME NEW S \in SUBSET Nat, S # {}
  PROVE  \E b \in S : \A d \in S : b <= d
<1> DEFINE less == {p \in Nat \X Nat : p[1] < p[2]}
<1>1. IsWellFoundedOn(less, Nat)
  BY NatLessThanWellFounded, Zenon DEF OpToRel
<1>2. \A m, n \in Nat : m < n => <<m, n>> \in less
  OBVIOUS
<1> HIDE DEF less
<1>3. PICK b \in S : \A d \in S : <<d, b>> \notin less
  BY <1>1, WFMin
<1>4. \A d \in S : ~ (d < b) /\ d \in Nat /\ b \in Nat
  BY <1>2, <1>3
<1> QED
  BY <1>4

\* What the fold adds for a scan, and the scan it takes next.
Worth(s) == IF list[s] = None THEN 0 ELSE list[s]
Any(S) == CHOOSE x \in S : TRUE

\* What the fold adds up to, set by set.
Adds(g, S) ==
  g = [s \in SUBSET S |->
         IF s = {} THEN 0 ELSE Worth(Any(s)) + g[s \ {Any(s)}]]

\* The recursive function that the fold stands for exists.
LEMMA FoldExists ==
  ASSUME NEW S, IsFiniteSet(S)
  PROVE  \E g : Adds(g, S)
<1> DEFINE Step(g, s) == IF s = {} THEN 0 ELSE Worth(Any(s)) + g[s \ {Any(s)}]
           Good(n) == \E g : \A s \in SUBSET S :
                        Cardinality(s) <= n => g[s] = Step(g, s)
           Bad == {n \in Nat : ~Good(n)}
<1>1. \A s \in SUBSET S : IsFiniteSet(s) /\ Cardinality(s) \in Nat
  BY FS_Subset, FS_CardinalityType
<1>2. ASSUME NEW s \in SUBSET S, s # {}
      PROVE  /\ s \ {Any(s)} \in SUBSET S
             /\ Cardinality(s \ {Any(s)}) = Cardinality(s) - 1
  <2>1. Any(s) \in s
    BY <1>2 DEF Any
  <2> QED
    BY <1>1, <2>1, FS_RemoveElement
<1>3. Good(0)
  <2> DEFINE g == [s \in SUBSET S |-> 0]
  <2>1. \A s \in SUBSET S : Cardinality(s) <= 0 => s = {}
    BY <1>1, FS_EmptySet
  <2>2. \A s \in SUBSET S : Cardinality(s) <= 0 => g[s] = Step(g, s)
    BY <2>1
  <2> HIDE DEF g, Step
  <2> QED
    BY <2>2
<1>4. ASSUME NEW n \in Nat, Good(n)
      PROVE  Good(n + 1)
  <2>1. PICK g : \A s \in SUBSET S : Cardinality(s) <= n => g[s] = Step(g, s)
    BY <1>4
  <2> DEFINE h == [s \in SUBSET S |->
                     IF Cardinality(s) <= n THEN g[s] ELSE Step(g, s)]
  <2>2. \A s \in SUBSET S :
          h[s] = IF Cardinality(s) <= n THEN g[s] ELSE Step(g, s)
    OBVIOUS
  <2> HIDE DEF h
  <2>3. ASSUME NEW s \in SUBSET S, Cardinality(s) <= n + 1
        PROVE  h[s] = Step(h, s)
    <3>1. h[s] = Step(g, s)
      BY <2>1, <2>2
    <3>2. CASE s = {}
      BY <3>1, <3>2
    <3>3. CASE s # {}
      <4> DEFINE r == s \ {Any(s)}
      <4>1. r \in SUBSET S /\ Cardinality(r) <= n
        <5>1. r \in SUBSET S /\ Cardinality(r) = Cardinality(s) - 1
          BY <1>2, <3>3
        <5> QED
          BY <1>1, <2>3, <5>1
      <4>2. h[r] = g[r]
        BY <2>2, <4>1
      <4> QED
        BY <3>1, <3>3, <4>2
    <3> QED
      BY <3>2, <3>3
  <2> HIDE DEF Step
  <2> QED
    BY <2>3
<1>5. Good(Cardinality(S))
  <2> SUFFICES ASSUME ~Good(Cardinality(S)) PROVE FALSE
    OBVIOUS
  <2> HIDE DEF Good
  <2>1. Bad \in SUBSET Nat /\ Bad # {}
    BY <1>1
  <2>2. PICK b \in Bad : \A d \in Bad : b <= d
    BY <2>1, Least
  <2>3. b \in Nat /\ b # 0
    BY <1>3
  <2>4. b - 1 \in Nat /\ b - 1 \notin Bad
    BY <2>2, <2>3
  <2>5. Good((b - 1) + 1)
    BY <1>4, <2>4
  <2>6. (b - 1) + 1 = b
    BY <2>3
  <2> QED
    BY <2>5, <2>6
<1>6. PICK g : \A s \in SUBSET S :
                 Cardinality(s) <= Cardinality(S) => g[s] = Step(g, s)
  BY <1>5
<1>7. \A s \in SUBSET S : Cardinality(s) <= Cardinality(S)
  BY FS_Subset
<1> DEFINE h == [s \in SUBSET S |-> g[s]]
<1>8. \A s \in SUBSET S : s # {} => h[s \ {Any(s)}] = g[s \ {Any(s)}]
  OBVIOUS
<1>9. \A s \in SUBSET S : g[s] = Step(h, s)
  BY <1>6, <1>7, <1>8
<1>10. h = [s \in SUBSET S |-> Step(h, s)]
  BY <1>9
<1> HIDE DEF h
<1> QED
  BY <1>10 DEF Adds

\* TotalMinutes is what such a function adds up for all scans of a person.
LEMMA TotalAdds ==
  ASSUME NEW u, IsFiniteSet(PersonnelScans(u))
  PROVE  \E g : /\ Adds(g, PersonnelScans(u))
                /\ TotalMinutes(u) = g[PersonnelScans(u)]
<1> DEFINE S == PersonnelScans(u)
           g == CHOOSE g : Adds(g, S)
<1>1. \E h : Adds(h, S)
  BY FoldExists
<1>2. Adds(g, S)
  BY <1>1
<1>3. TotalMinutes(u) = g[S]
  BY DEF TotalMinutes, MapThenSumSet, MapThenFoldSet, Adds, Worth, Any
<1> QED
  BY <1>2, <1>3

\* The check-in a duration is measured from.
Measured(i, o) ==
  /\ Begins(i, o) /\ list[o] = Minutes(o.at - i.at)
  /\ \A j \in known : Begins(j, o) => j.at <= i.at
Began(o) == CHOOSE i \in stored : Measured(i, o)

Stayed(S) == {o \in S : list[o] # None}
Stay(o) == (Began(o).at + 1)..o.at
Cover(S) == UNION {Stay(o) : o \in Stayed(S)}

\* A stay has as many milliseconds as lie between its two scans.
LEMMA Between ==
  ASSUME NEW a \in Nat, NEW b \in Nat, a < b
  PROVE  IsFiniteSet((a + 1)..b) /\ Cardinality((a + 1)..b) = b - a
<1> DEFINE c == a + 1
<1>1. c \in Int /\ b \in Int /\ ~(c > b) /\ b - c + 1 = b - a
  OBVIOUS
<1> HIDE DEF c
<1>2. IsFiniteSet(c..b) /\ Cardinality(c..b) = b - c + 1
  BY <1>1, FS_Interval
<1> QED
  BY <1>1, <1>2 DEF c

\* What StaysSound says of a check-out that has a duration.
LEMMA StayedOut ==
  ASSUME IInv, NEW o \in Stayed(DOMAIN list)
  PROVE  /\ o \in Scans /\ o.action = "CHECK_OUT" /\ o.at \in Nat
         /\ Began(o) \in stored /\ Began(o).at \in Nat /\ Measured(Began(o), o)
         /\ list[o] \in Nat /\ 60000 * list[o] <= o.at - Began(o).at + 30000
         /\ IsFiniteSet(Stay(o)) /\ Cardinality(Stay(o)) = o.at - Began(o).at
<1>1. o \in DOMAIN list /\ list[o] # None
  BY DEF Stayed
<1>2. o \in Scans /\ o.action = "CHECK_OUT" /\ \E i \in stored : Measured(i, o)
  BY <1>1 DEF IInv, TypeOK, PageStored, StaysSound, Sound, Measured
<1>3. Began(o) \in stored /\ Measured(Began(o), o)
  BY <1>2 DEF Began
<1>4. o.at \in Nat /\ Began(o).at \in Nat /\ Began(o).at < o.at
  BY <1>2, <1>3, ScanFields DEF IInv, TypeOK, Measured, Begins
<1>5. list[o] = Minutes(o.at - Began(o).at)
  BY <1>3 DEF Measured
<1>6. \A ms \in Nat : Minutes(ms) \in Nat /\ 60000 * Minutes(ms) <= ms + 30000
  BY DEF Minutes
<1>7. list[o] \in Nat /\ 60000 * list[o] <= o.at - Began(o).at + 30000
  BY <1>4, <1>5, <1>6
<1>8. IsFiniteSet(Stay(o)) /\ Cardinality(Stay(o)) = o.at - Began(o).at
  BY <1>4, Between DEF Stay
<1> QED
  BY <1>2, <1>3, <1>4, <1>7, <1>8

\* Two stays of somebody who never leaves twice in a row do not meet.
LEMMA StaysApart ==
  ASSUME IInv, NEW u, Alternates(u),
         NEW o \in Stayed(PersonnelScans(u)), NEW p \in Stayed(PersonnelScans(u)),
         o # p
  PROVE  Stay(o) \cap Stay(p) = {}
<1>1. ASSUME NEW x \in Stayed(PersonnelScans(u)),
             NEW y \in Stayed(PersonnelScans(u)), x.at < y.at
      PROVE  Stay(x) \cap Stay(y) = {}
  <2>1. x \in Stayed(DOMAIN list) /\ y \in Stayed(DOMAIN list)
    BY DEF Stayed, PersonnelScans
  <2>2. /\ x \in Outs(PersonnelScans(u)) /\ y \in Outs(PersonnelScans(u))
        /\ x.at \in Nat /\ y.at \in Nat /\ Began(x).at \in Nat
        /\ Began(y).at \in Nat /\ Measured(Began(y), y)
    BY <2>1, StayedOut DEF Outs, Stayed
  <2>3. PICK i \in known : Begins(i, y) /\ x.at < i.at
    BY <1>1, <2>2 DEF Alternates
  <2>4. i.at <= Began(y).at /\ i.at \in Nat
    BY <2>2, <2>3, ScanFields DEF Measured, IInv, TypeOK
  <2> QED
    BY <2>2, <2>3, <2>4 DEF Stay
<1>2. /\ o \in Scans /\ p \in Scans /\ o.action = p.action /\ o.who = p.who
      /\ o.at \in Nat /\ p.at \in Nat
  <2>1. o \in Stayed(DOMAIN list) /\ p \in Stayed(DOMAIN list)
    BY DEF Stayed, PersonnelScans
  <2>2. o.who = p.who
    BY DEF Stayed, PersonnelScans
  <2> QED
    BY <2>1, <2>2, StayedOut
<1>3. o.at # p.at
  BY <1>2, HistoryAssumption
<1> QED
  BY <1>1, <1>2, <1>3

\* The fold adds up no more than the milliseconds of the stays and what is
\* rounded up.
LEMMA CoverBound ==
  ASSUME IInv, NEW u, Alternates(u), IsFiniteSet(PersonnelScans(u)),
         NEW g, Adds(g, PersonnelScans(u))
  PROVE  LET S == PersonnelScans(u)
         IN  /\ IsFiniteSet(Cover(S)) /\ IsFiniteSet(Stayed(S)) /\ g[S] \in Nat
             /\ 60000 * g[S] <= Cardinality(Cover(S))
                                  + 30000 * Cardinality(Stayed(S))
<1> DEFINE S == PersonnelScans(u)
           Good(s) == /\ IsFiniteSet(Cover(s)) /\ IsFiniteSet(Stayed(s))
                      /\ g[s] \in Nat
                      /\ 60000 * g[s] <= Cardinality(Cover(s))
                                           + 30000 * Cardinality(Stayed(s))
           Bad == {n \in Nat : \E s \in SUBSET S : Cardinality(s) = n /\ ~Good(s)}
<1>0. \A s \in SUBSET S :
        g[s] = IF s = {} THEN 0 ELSE Worth(Any(s)) + g[s \ {Any(s)}]
  BY DEF Adds
<1>1. \A s \in SUBSET S : IsFiniteSet(s) /\ Cardinality(s) \in Nat
  BY FS_Subset, FS_CardinalityType
<1>2. Good({})
  <2>1. Stayed({}) = {} /\ Cover({}) = {}
    BY DEF Stayed, Cover
  <2>2. g[{}] = 0
    BY <1>0
  <2> QED
    BY <2>1, <2>2, FS_EmptySet
<1>3. ASSUME NEW s \in SUBSET S, s # {}, Good(s \ {Any(s)})
      PROVE  Good(s)
  <2> DEFINE o == Any(s)
             r == s \ {o}
  <2>1. o \in s /\ r \in SUBSET S /\ s = r \cup {o} /\ o \notin r
    BY <1>3 DEF Any
  <2>2. g[s] = Worth(o) + g[r]
    <3> HIDE DEF S
    <3> QED
      BY <1>0, <1>3
  <2>3. Good(r)
    BY <1>3
  <2> HIDE DEF o, r
  <2>4. CASE list[o] = None
    <3>1. Stayed(s) = Stayed(r) /\ Cover(s) = Cover(r)
      BY <2>1, <2>4 DEF Stayed, Cover
    <3>2. g[s] = g[r]
      BY <2>2, <2>3, <2>4 DEF Worth
    <3> QED
      BY <2>3, <3>1, <3>2
  <2>5. CASE list[o] # None
    <3>1. Stayed(s) = Stayed(r) \cup {o} /\ o \notin Stayed(r)
      BY <2>1, <2>5 DEF Stayed
    <3>2. Cover(s) = Cover(r) \cup Stay(o)
      BY <3>1 DEF Cover
    <3>3. o \in Stayed(S) /\ o \in Stayed(DOMAIN list)
      BY <2>1, <2>5 DEF Stayed, PersonnelScans
    <3>4. \A p \in Stayed(r) : p \in Stayed(S) /\ p # o
      BY <2>1, <3>1 DEF Stayed
    <3>5. Cover(r) \cap Stay(o) = {}
      BY <3>3, <3>4, StaysApart DEF Cover
    <3>6. /\ IsFiniteSet(Stay(o)) /\ Cardinality(Stay(o)) = o.at - Began(o).at
          /\ list[o] \in Nat /\ 60000 * list[o] <= Cardinality(Stay(o)) + 30000
      BY <3>3, StayedOut
    <3>7. /\ IsFiniteSet(Cover(s))
          /\ Cardinality(Cover(s)) = Cardinality(Cover(r)) + Cardinality(Stay(o))
      <4>1. Cardinality(Cover(r)) \in Nat /\ Cardinality(Stay(o)) \in Nat
        BY <2>3, <3>6, FS_CardinalityType
      <4>2. Cardinality(Cover(r) \cap Stay(o)) = 0
        BY <3>5, FS_EmptySet
      <4> QED
        BY <2>3, <3>2, <3>6, <4>1, <4>2, FS_Union
    <3>8. /\ IsFiniteSet(Stayed(s))
          /\ Cardinality(Stayed(s)) = Cardinality(Stayed(r)) + 1
      BY <2>3, <3>1, FS_AddElement
    <3>9. g[s] = list[o] + g[r]
      BY <2>2, <2>5 DEF Worth
    <3>10. /\ Cardinality(Cover(r)) \in Nat /\ Cardinality(Stay(o)) \in Nat
           /\ Cardinality(Stayed(r)) \in Nat /\ g[r] \in Nat
      BY <2>3, <3>6, FS_CardinalityType
    <3>11. 60000 * g[r] <= Cardinality(Cover(r)) + 30000 * Cardinality(Stayed(r))
      BY <2>3
    <3>12. /\ g[s] \in Nat
           /\ 60000 * g[s] <= Cardinality(Cover(s)) + 30000 * Cardinality(Stayed(s))
      BY <3>6, <3>7, <3>8, <3>9, <3>10, <3>11
    <3> QED
      BY <3>7, <3>8, <3>12
  <2> QED
    BY <2>4, <2>5
<1> HIDE DEF Good
<1>4. ASSUME Bad # {}
      PROVE  FALSE
  <2>1. PICK b \in Bad : \A d \in Bad : b <= d
    BY <1>4, Least
  <2>2. PICK s \in SUBSET S : Cardinality(s) = b /\ ~Good(s)
    BY <2>1
  <2>3. s # {}
    BY <1>2, <2>2
  <2> DEFINE r == s \ {Any(s)}
  <2>4. r \in SUBSET S /\ Cardinality(r) = Cardinality(s) - 1
    <3>1. Any(s) \in s
      BY <2>3 DEF Any
    <3> QED
      BY <1>1, <3>1, FS_RemoveElement
  <2>5. ~Good(r)
    BY <1>3, <2>2, <2>3
  <2> HIDE DEF r
  <2>6. Cardinality(r) \in Bad /\ Cardinality(r) < b
    BY <1>1, <2>2, <2>4, <2>5
  <2> QED
    BY <1>1, <2>1, <2>2, <2>4, <2>6
<1>5. Good(S)
  BY <1>1, <1>4
<1> QED
  BY <1>5 DEF Good

\* Among things that are numbered one comes first.
LEMMA First ==
  ASSUME NEW S, S # {}, NEW f, \A x \in S : f[x] \in Nat
  PROVE  \E x \in S : \A y \in S : f[x] <= f[y]
<1> DEFINE I == {f[x] : x \in S}
<1>1. PICK b \in I : \A d \in I : b <= d
  BY Least
<1> QED
  BY <1>1

\* In a finite set of moments one is the last.
LEMMA Last ==
  ASSUME NEW S, IsFiniteSet(S), S # {}, \A x \in S : x.at \in Nat
  PROVE  \E x \in S : \A y \in S : y.at <= x.at
<1> DEFINE Later(x) == {y \in S : x.at < y.at}
           f == [x \in S |-> Cardinality(Later(x))]
<1>1. \A x \in S : IsFiniteSet(Later(x)) /\ Cardinality(Later(x)) \in Nat
  BY FS_Subset, FS_CardinalityType
<1>2. PICK x \in S : \A y \in S : f[x] <= f[y]
  <2>1. \A y \in S : f[y] \in Nat
    BY <1>1
  <2> HIDE DEF f
  <2> QED
    BY <2>1, First
<1>3. ASSUME NEW y \in S, x.at < y.at
      PROVE  FALSE
  <2>1. Later(y) \subseteq Later(x) /\ y \in Later(x) /\ y \notin Later(y)
    BY <1>3
  <2>2. Cardinality(Later(y)) < Cardinality(Later(x))
    <3>1. Later(y) \in SUBSET Later(x) /\ Later(y) # Later(x)
      BY <2>1
    <3> HIDE DEF Later
    <3>2. /\ Cardinality(Later(y)) <= Cardinality(Later(x))
          /\ Cardinality(Later(y)) # Cardinality(Later(x))
      BY <1>1, <3>1, FS_Subset
    <3> QED
      BY <1>1, <3>2
  <2>3. f[x] = Cardinality(Later(x)) /\ f[y] = Cardinality(Later(y))
    OBVIOUS
  <2> HIDE DEF f, Later
  <2> QED
    BY <1>1, <1>2, <2>2, <2>3
<1> QED
  BY <1>3

----------------------------------------------------------------------------
(* Theorems *)

\* Every duration on the page is the time since a check-in of the same person
\* that no check-in stored when the list was asked for comes after.
THEOREM StaysCorrect == Spec => []StaysSound
<1>1. IInv => StaysSound BY DEF IInv
<1> QED BY <1>1, Invariant, PTL

\* Two stays of a person with a check-in between their ends do not overlap:
\* the later one is no longer than the time between the two check-outs.
Disjoint ==
  \A o, p \in DOMAIN list :
    /\ o.action = "CHECK_OUT" /\ p.action = "CHECK_OUT"
    /\ \E i \in known : Begins(i, p) /\ o.at < i.at
    /\ list[p] # None
    => list[p] <= Minutes(p.at - o.at)

\* Stays that alternate never overlap, however the queries of findAll and the
\* uploads fall between each other.
THEOREM StaysDisjoint == Spec => []Disjoint
<1>1. IInv => Disjoint
  <2> SUFFICES ASSUME IInv, NEW o \in DOMAIN list, NEW p \in DOMAIN list,
                      p.action = "CHECK_OUT", list[p] # None,
                      NEW i \in known, Begins(i, p), o.at < i.at
               PROVE  list[p] <= Minutes(p.at - o.at)
      BY DEF Disjoint
  <2>1. PICK j \in stored : /\ Begins(j, p) /\ list[p] = Minutes(p.at - j.at)
                            /\ i.at <= j.at
        BY DEF IInv, StaysSound, Sound
  <2>2. o \in Scans /\ p \in Scans /\ i \in Scans /\ j \in Scans
        BY <2>1 DEF IInv, TypeOK, PageStored
  <2>3. o.at \in Nat /\ p.at \in Nat /\ i.at \in Nat /\ j.at \in Nat
        BY <2>2, ScanFields
  <2>4. /\ p.at - j.at \in Nat /\ p.at - o.at \in Nat
        /\ p.at - j.at <= p.at - o.at
        BY <2>1, <2>3 DEF Begins
  <2> QED BY <2>1, <2>4, MinutesMonotone
<1> QED BY <1>1, Invariant, PTL

\* What the drawer adds up for somebody who never leaves twice in a row is no
\* longer than the time from a check-in to the last check-out shown, but for
\* the rounding (selectedPersonnelStats over the durations of findAll).
THEOREM TotalCorrect == Spec => []TotalInSpan
<1>1. IInv => TotalInSpan
  <2> SUFFICES ASSUME IInv, Alternates(person), TotalMinutes(person) > 0
               PROVE  LET outs == Outs(PersonnelScans(person))
                      IN  \E i \in stored, o \in outs :
                            /\ Begins(i, o)
                            /\ 60000 * TotalMinutes(person) <=
                                 (o.at - i.at) + 30000 * Cardinality(outs)
    BY DEF TotalInSpan
  <2> DEFINE S == PersonnelScans(person)
             outs == Outs(S)
  <2>1. IsFiniteSet(S)
    BY FS_Subset DEF IInv, PageStored, PersonnelScans
  <2>2. PICK g : Adds(g, S) /\ TotalMinutes(person) = g[S]
    BY <2>1, TotalAdds
  <2>3. /\ IsFiniteSet(Cover(S)) /\ IsFiniteSet(Stayed(S)) /\ g[S] \in Nat
        /\ 60000 * g[S] <= Cardinality(Cover(S)) + 30000 * Cardinality(Stayed(S))
    BY <2>1, <2>2, CoverBound
  <2>4. \A o \in Stayed(S) : o \in Stayed(DOMAIN list) /\ o.who = person
    BY DEF Stayed, PersonnelScans
  <2>5. \A o \in Stayed(S) : /\ o \in outs /\ o.at \in Nat
                             /\ Began(o) \in stored /\ Began(o).at \in Nat
                             /\ Begins(Began(o), o)
    BY <2>4, StayedOut DEF Stayed, Outs, Measured
  <2>6. Stayed(S) # {}
    <3>1. ASSUME Stayed(S) = {}
          PROVE  Cover(S) = {}
      BY <3>1 DEF Cover
    <3> QED
      BY <2>2, <2>3, <3>1, FS_EmptySet
  <2>7. PICK o \in Stayed(S) : \A p \in Stayed(S) : p.at <= o.at
    <3> HIDE DEF S
    <3> QED
      BY <2>3, <2>5, <2>6, Last
  <2>8. PICK q \in Stayed(S) : \A p \in Stayed(S) : Began(q).at <= Began(p).at
    <3> DEFINE f == [p \in Stayed(S) |-> Began(p).at]
    <3>1. \A p \in Stayed(S) : f[p] \in Nat
      BY <2>5
    <3>2. \A p \in Stayed(S) : f[p] = Began(p).at
      OBVIOUS
    <3> HIDE DEF f, S
    <3> QED
      BY <2>6, <3>1, <3>2, First
  <2>9. /\ Begins(Began(q), o) /\ Began(q) \in stored /\ o \in outs
        /\ Began(q).at \in Nat /\ o.at \in Nat /\ Began(q).at < o.at
    <3>1. Began(q).at <= Began(o).at /\ Began(o).at < o.at
      BY <2>5, <2>8 DEF Begins
    <3>2. q.who = o.who
      BY <2>4
    <3> QED
      BY <2>5, <3>1, <3>2 DEF Begins
  <2>10. Cardinality(Cover(S)) <= o.at - Began(q).at
    <3>1. Cover(S) \subseteq (Began(q).at + 1)..o.at
      <4>1. ASSUME NEW p \in Stayed(S), NEW x \in Stay(p)
            PROVE  x \in (Began(q).at + 1)..o.at
        BY <2>5, <2>7, <2>8, <2>9, <4>1 DEF Stay
      <4> QED
        BY <4>1 DEF Cover
    <3>2. /\ IsFiniteSet((Began(q).at + 1)..o.at)
          /\ Cardinality((Began(q).at + 1)..o.at) = o.at - Began(q).at
      BY <2>9, Between
    <3> QED
      BY <3>1, <3>2, FS_Subset
  <2>11. /\ Cardinality(Stayed(S)) <= Cardinality(outs)
         /\ Cardinality(Stayed(S)) \in Nat /\ Cardinality(outs) \in Nat
    <3>1. IsFiniteSet(outs)
      BY <2>1, FS_Subset DEF Outs
    <3>2. Stayed(S) \subseteq outs
      BY <2>5
    <3> QED
      BY <2>3, <3>1, <3>2, FS_Subset, FS_CardinalityType
  <2>12. Cardinality(Cover(S)) \in Nat
    BY <2>3, FS_CardinalityType
  <2>13. 60000 * TotalMinutes(person) <=
           (o.at - Began(q).at) + 30000 * Cardinality(outs)
    BY <2>2, <2>3, <2>9, <2>10, <2>11, <2>12
  <2> QED
    BY <2>9, <2>13
<1> QED
  BY <1>1, Invariant, PTL
=============================================================================
