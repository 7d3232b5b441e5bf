--------------------------- MODULE Sessions_proof ---------------------------
(***************************************************************************)
(* Proofs about sessions, for any number of people, browsers, tabs and     *)
(* exchanges: a browser is one user, a logout leaves nothing behind, and   *)
(* staff are logged in where their account is bound to.                    *)
(***************************************************************************)
EXTENDS Sessions, TLAPS

\* What the stage of an exchange says of the rest of it.
Placed ==
  \A x \in exchanges :
    /\ x.tab # None => x.browser = browser[x.tab]
    /\ x.stage = "heard" => x.tab # None
    /\ x.kind = "login" => /\ x.user \in Users /\ x.stage # "failed"
                           /\ x.stage # "sent" => x.role \in Roles
                           /\ x.stage = "bind" => x.role # "ADMIN"
    /\ x.kind = "logout" => /\ x.tab # None
                            /\ x.stage \in {"sent", "heard", "failed"}

\* An exchange marked alone is, and in a browser that is whole each one is.
AloneInv ==
  \A b \in Browsers :
    /\ \A x, y \in Awaited(b) : x.alone => x = y
    /\ b \notin torn => \A x \in Awaited(b) : x.alone

\* What is in the cookie once the response of an exchange has set it.
CookieInv ==
  \A x \in exchanges :
    x.alone /\ x.stage = "heard" =>
      \/ access[x.browser] = None
      \/ x.kind = "login" /\ access[x.browser] = Fresh(x.user, x.role)

Agrees(b) ==
  \E u \in Users, r \in Roles :
    /\ \A k \in {access[b], token[b], local[b]} :
         k # None => k.user = u /\ k.role = r
    /\ role[b] \in {None, r}

\* A login that was heard but not stored yet.
Heard(b) == {x \in Awaited(b) : x.kind = "login" /\ x.stage = "heard"}

\* The copies agree until a login's response comes in, and after it is stored.
AgreeInv == \A b \in Browsers \ torn : Heard(b) = {} => Agrees(b)

OutInv ==
  \A b \in out :
    Awaited(b) = {} /\ {access[b], token[b], role[b], local[b]} = {None}

\* What the service has promised to, or is about to write for, a member of
\* staff whose first logins did not race.
BindInv ==
  \A x \in exchanges :
    x.kind = "login" /\ x.role # "ADMIN" /\ x.user \notin raced =>
      /\ x.stage \in {"ok", "heard"} => deviceId[x.user] = DeviceOf[x.browser]
      /\ x.stage = "bind" => deviceId[x.user] = None /\ Binding(x.user) = {x}

IInv == TypeOK /\ Placed /\ AloneInv /\ CookieInv /\ AgreeInv /\ OutInv
          /\ BindInv /\ BoundWhereLoggedIn

----------------------------------------------------------------------------
LEMMA InitInv == Init => IInv
<1> SUFFICES ASSUME Init PROVE IInv
    OBVIOUS
<1> USE SessionsAssumption DEF Init
<1>0. PICK start \in Starts :
        LET held == start.held  roles == start.roles IN
        /\ browser = start.browser
        /\ roleOf = roles
        /\ deviceId \in [Users -> Devices \cup {None}]
        /\ \A u \in Users : deviceId[u] # None =>
             roles[u] # "ADMIN" /\ \E b \in Browsers : held[b] = u
        /\ \A b \in Browsers : held[b] # None /\ roles[held[b]] # "ADMIN"
                                => deviceId[held[b]] = DeviceOf[b]
        /\ token = [b \in Browsers |->
             IF held[b] = None THEN None ELSE Fresh(held[b], roles[held[b]])]
        /\ access = token /\ local = token
        /\ role = [b \in Browsers |->
             IF held[b] = None THEN None ELSE roles[held[b]]]
        /\ at \in [Tabs -> {Showing("/login"), Showing("/dashboard/tasks")}]
        /\ \A t \in Tabs : held[browser[t]] = None => at[t] = Showing("/login")
        /\ exchanges = {} /\ issued = 0
        /\ raced = {} /\ torn = {} /\ out = {}
      OBVIOUS
<1> DEFINE held == start.held
           roles == start.roles
<1>1. /\ held \in [Browsers -> Users \cup {None}] /\ browser \in [Tabs -> Browsers]
      /\ roles \in [Users -> Roles] /\ roleOf = roles
      BY <1>0
<1>2. \A u \in Users, r \in Roles :
        /\ Fresh(u, r) \in Tokens /\ Fresh(u, r).user = u
        /\ Fresh(u, r).role = r
      BY DEF Fresh, Tokens
<1>3. /\ token \in [Browsers -> Tokens \cup {None}]
      /\ role \in [Browsers -> Roles \cup {None}]
      BY <1>0, <1>1, <1>2
<1>4. {Showing("/login"), Showing("/dashboard/tasks")}
        \subseteq [page : Places, shown : BOOLEAN]
      BY DEF Showing, Places, Paths, Protected
<1>5. TypeOK BY <1>0, <1>1, <1>3, <1>4 DEF TypeOK
<1>6. Placed /\ AloneInv /\ CookieInv /\ OutInv /\ BindInv
      BY <1>0 DEF Placed, AloneInv, CookieInv, OutInv, BindInv, Awaited
<1>7. AgreeInv
  <2> SUFFICES ASSUME NEW b \in Browsers PROVE Agrees(b)
      BY DEF AgreeInv
  <2>1. CASE held[b] = None BY <1>0, <1>1, <2>1 DEF Agrees, Roles
  <2>2. CASE held[b] # None
    <3>1. /\ held[b] \in Users /\ roles[held[b]] \in Roles
          /\ token[b] = Fresh(held[b], roles[held[b]])
          /\ role[b] = roles[held[b]]
          BY <1>0, <1>1, <2>2
    <3>2. access[b] = token[b] /\ local[b] = token[b]
          BY <1>0
    <3>3. token[b].user = held[b] /\ token[b].role = roles[held[b]]
          BY <1>2, <3>1
    <3>4. \A k \in {access[b], token[b], local[b]} :
            k # None => k.user = held[b] /\ k.role = roles[held[b]]
          BY <3>2, <3>3
    <3> HIDE DEF Init, held, roles
    <3> QED BY ONLY <3>1, <3>4 DEF Agrees
  <2> QED BY <2>1, <2>2
<1>8. BoundWhereLoggedIn
  <2> SUFFICES ASSUME NEW b \in Browsers, access[b] # None,
                      access[b].role # "ADMIN"
               PROVE  deviceId[access[b].user] = DeviceOf[b]
      BY DEF BoundWhereLoggedIn
  <2>1. held[b] \in Users /\ access[b] = Fresh(held[b], roles[held[b]])
        BY <1>0, <1>1
  <2> QED BY <1>0, <1>1, <1>2, <2>1
<1> QED BY <1>5, <1>6, <1>7, <1>8 DEF IInv

----------------------------------------------------------------------------
(* Helpers *)

ExchangeSet ==
  [n : Exchanges, kind : {"login", "logout"}, user : Users \cup {None},
   role : Roles \cup {None}, tab : Tabs \cup {None}, browser : Browsers,
   stage : {"sent", "bind", "ok", "refused", "heard", "failed"},
   alone : BOOLEAN]

\* The exchange with another stage: everything else is as it was.
LEMMA Advanced ==
  ASSUME NEW x \in ExchangeSet,
         NEW s \in {"sent", "bind", "ok", "refused", "heard", "failed"}
  PROVE  LET y == [x EXCEPT !.stage = s]
         IN  /\ y \in ExchangeSet /\ y.stage = s /\ y.n = x.n
             /\ y.kind = x.kind /\ y.user = x.user /\ y.role = x.role
             /\ y.tab = x.tab /\ y.browser = x.browser /\ y.alone = x.alone
BY DEF ExchangeSet

\* An exchange that a step replaces by y, or takes out.
Moves(x, y) == exchanges' = (exchanges \ {x}) \cup {y}

LEMMA MoveKeeps ==
  ASSUME IInv, NEW x \in exchanges, NEW y \in ExchangeSet, Moves(x, y),
         UNCHANGED <<browser, torn, out>>,
         y.tab = x.tab, y.browser = x.browser, y.alone = x.alone
  PROVE  /\ exchanges' \subseteq ExchangeSet
         /\ AloneInv'
         /\ \A b \in Browsers : (Awaited(b) = {}) <=> (Awaited(b)' = {})
<1> USE DEF IInv, Moves
<1>1. exchanges \subseteq ExchangeSet BY DEF TypeOK, ExchangeSet
<1>4. \A b \in Browsers : x \in Awaited(b) <=> y \in Awaited(b)'
      BY DEF Awaited
<1>5. \A b \in Browsers : Awaited(b)' \ {y} = Awaited(b) \ {x, y}
      BY DEF Awaited
<1>6. AloneInv'
      BY <1>4, <1>5 DEF AloneInv
<1>7. \A b \in Browsers : (Awaited(b) = {}) <=> (Awaited(b)' = {})
      BY DEF Awaited
<1> QED BY <1>1, <1>6, <1>7

\* An exchange that is over, or that no tab awaits any more.
Ends(x, y) == exchanges' = (exchanges \ {x}) \cup y

LEMMA EndKeeps ==
  ASSUME IInv, NEW x \in exchanges, NEW Y, Ends(x, Y), Y \subseteq ExchangeSet,
         \A y \in Y : y.tab = None,
         UNCHANGED browser
  PROVE  /\ exchanges' \subseteq ExchangeSet
         /\ \A b \in Browsers : Awaited(b)' = Awaited(b) \ {x}
BY DEF IInv, TypeOK, ExchangeSet, Ends, Awaited

\* The exchanges of a browser that one of them is alone in.
LEMMA Sole ==
  ASSUME IInv, NEW x \in exchanges, x.tab # None
  PROVE  /\ x.browser \in Browsers /\ x \in Awaited(x.browser)
         /\ x.alone => Awaited(x.browser) = {x}
         /\ x.browser \notin torn => x.alone
         /\ \A b \in Browsers : x \in Awaited(b) => b = x.browser
<1>1. x.browser \in Browsers BY DEF IInv, TypeOK
<1>2. x.browser = browser[x.tab] BY DEF IInv, Placed
<1>3. x \in Awaited(x.browser) BY <1>2 DEF Awaited
<1>4. \A b \in Browsers : x \in Awaited(b) => b = x.browser BY <1>2 DEF Awaited
<1> QED BY <1>1, <1>3, <1>4 DEF IInv, AloneInv

----------------------------------------------------------------------------
(* The exchanges' own steps. *)

LEMMA LoginReadInv ==
  ASSUME IInv, NEW x \in exchanges, LoginRead(x)
  PROVE  IInv'
<1> USE DEF IInv, users, stores
<1>1. PICK right \in BOOLEAN :
        LET v == IF right THEN Verdict(x.user, DeviceOf[x.browser]) ELSE "refused"
        IN  /\ exchanges' = (exchanges \ {x}) \cup
                              {[x EXCEPT !.stage = v, !.role = roleOf[x.user]]}
            /\ raced' = IF v = "bind" /\ Binding(x.user) # {}
                        THEN raced \cup {x.user} ELSE raced
      BY DEF LoginRead
<1> DEFINE v == IF right THEN Verdict(x.user, DeviceOf[x.browser]) ELSE "refused"
           y == [x EXCEPT !.stage = v, !.role = roleOf[x.user]]
<1>2. /\ x.kind = "login" /\ x.stage = "sent" /\ x.user \in Users
      /\ UNCHANGED <<browser, roleOf, deviceId, access, token, role, local, at,
                     issued, torn, out>>
      BY DEF LoginRead, Placed
<1>3. v \in {"bind", "ok", "refused"} BY DEF Verdict
<1>4. /\ v = "ok" => \/ roleOf[x.user] = "ADMIN"
                     \/ deviceId[x.user] = DeviceOf[x.browser]
      /\ v = "bind" => roleOf[x.user] # "ADMIN" /\ deviceId[x.user] = None
      BY DEF Verdict
<1>5. x \in ExchangeSet /\ roleOf[x.user] \in Roles
      BY <1>2 DEF TypeOK, ExchangeSet
<1>6. /\ Moves(x, y) /\ raced \subseteq raced' /\ raced' \subseteq raced \cup {x.user}
      /\ v = "bind" /\ Binding(x.user) # {} => x.user \in raced'
      BY <1>1 DEF Moves
<1> HIDE DEF v
<1>7. /\ y \in ExchangeSet /\ y.stage = v /\ y.kind = x.kind /\ y.user = x.user
      /\ y.role = roleOf[x.user] /\ y.tab = x.tab
      /\ y.browser = x.browser /\ y.alone = x.alone
      BY <1>3, <1>5 DEF ExchangeSet
<1> HIDE DEF y
<1>8. /\ exchanges' \subseteq ExchangeSet /\ AloneInv'
      /\ \A b \in Browsers : (Awaited(b) = {}) <=> (Awaited(b)' = {})
      BY <1>2, <1>6, <1>7, MoveKeeps
<1>9. TypeOK' BY <1>2, <1>6, <1>8 DEF TypeOK, ExchangeSet
<1>10. Placed' BY <1>2, <1>3, <1>4, <1>5, <1>6, <1>7 DEF Placed, Moves
<1>11. CookieInv' BY <1>2, <1>3, <1>6, <1>7 DEF CookieInv, Moves
<1>12. \A b \in Browsers : Heard(b)' = Heard(b)
       BY <1>2, <1>3, <1>6, <1>7 DEF Heard, Awaited, Moves
<1>13. AgreeInv' BY <1>2, <1>12 DEF AgreeInv, Agrees
<1>14. OutInv' BY <1>2, <1>8 DEF OutInv, TypeOK
<1>15. BindInv'
  <2>1. \A u \in Users : Binding(u)' \subseteq Binding(u) \cup {y}
        BY <1>2, <1>6, <1>7 DEF Binding, Moves
  <2>2. \A u \in Users : u # x.user => Binding(u)' = Binding(u)
        BY <1>2, <1>6, <1>7 DEF Binding, Moves
  <2>3. v # "bind" => Binding(x.user)' = Binding(x.user)
        BY <1>2, <1>6, <1>7 DEF Binding, Moves
  <2>4. v = "bind" => Binding(x.user)' = Binding(x.user) \cup {y}
        BY <1>2, <1>6, <1>7 DEF Binding, Moves
  <2>5. \A z \in exchanges : z.stage = "bind" => z \in Binding(z.user)
        BY DEF Binding
  <2> SUFFICES ASSUME NEW z \in exchanges', z.kind = "login",
                      z.role # "ADMIN", z.user \notin raced'
               PROVE  /\ z.stage \in {"ok", "heard"} =>
                           deviceId'[z.user] = DeviceOf[z.browser]
                      /\ z.stage = "bind" =>
                           deviceId'[z.user] = None /\ Binding(z.user)' = {z}
      BY DEF BindInv
  <2>6. CASE z = y
    <3>1. v = "bind" => Binding(x.user)' = {y} BY <1>6, <1>7, <2>4, <2>6
    <3> QED BY <1>2, <1>3, <1>4, <1>7, <2>6, <3>1
  <2>7. CASE z \in exchanges /\ z # y
    <3>1. z.user \notin raced BY <1>6
    <3>2. z.stage = "bind" => Binding(z.user)' = Binding(z.user)
          BY <1>2, <1>6, <2>2, <2>3, <2>5, <2>7 DEF Placed
    <3> QED BY <1>2, <2>7, <3>1, <3>2 DEF BindInv
  <2> QED BY <1>6, <2>6, <2>7 DEF Moves
<1>16. BoundWhereLoggedIn' BY <1>2, <1>6 DEF BoundWhereLoggedIn
<1> QED BY <1>8, <1>9, <1>10, <1>11, <1>13, <1>14, <1>15, <1>16

LEMMA LoginBindInv ==
  ASSUME IInv, NEW x \in exchanges, LoginBind(x)
  PROVE  IInv'
<1> USE DEF IInv, users, stores, history
<1> DEFINE y == [x EXCEPT !.stage = "ok"]
<1>1. /\ x.kind = "login" /\ x.stage = "bind" /\ x.user \in Users /\ x \in ExchangeSet
      /\ UNCHANGED <<browser, roleOf, access, token, role, local, at, issued,
                     raced, torn, out>>
      /\ deviceId' = [deviceId EXCEPT ![x.user] = DeviceOf[x.browser]]
      /\ Moves(x, y)
      BY DEF LoginBind, Placed, TypeOK, ExchangeSet, Moves, Advance
<1>2. /\ y \in ExchangeSet /\ y.stage = "ok" /\ y.kind = x.kind /\ y.user = x.user
      /\ y.role = x.role /\ y.tab = x.tab /\ y.browser = x.browser
      /\ y.alone = x.alone
      BY <1>1, Advanced
<1> HIDE DEF y
<1>3. /\ exchanges' \subseteq ExchangeSet /\ AloneInv'
      /\ \A b \in Browsers : (Awaited(b) = {}) <=> (Awaited(b)' = {})
      BY <1>1, <1>2, MoveKeeps
<1>4. deviceId' \in [Users -> Devices \cup {None}]
      BY <1>1 DEF TypeOK, Devices, ExchangeSet
<1>5. /\ deviceId'[x.user] = DeviceOf[x.browser]
      /\ \A u \in Users : u # x.user => deviceId'[u] = deviceId[u]
      BY <1>1 DEF TypeOK
<1>6. TypeOK' BY <1>1, <1>3, <1>4 DEF TypeOK, ExchangeSet
<1>7. Placed' BY <1>1, <1>2 DEF Placed, Moves
<1>8. CookieInv' BY <1>1, <1>2 DEF CookieInv, Moves
<1>9. \A b \in Browsers : Heard(b)' = Heard(b)
      BY <1>1, <1>2 DEF Heard, Awaited, Moves
<1>10. AgreeInv' BY <1>1, <1>9 DEF AgreeInv, Agrees
<1>11. OutInv' BY <1>1, <1>3 DEF OutInv, TypeOK
\* Whose account is not bound yet is neither promised a device nor logged in.
<1>12. x.user \notin raced =>
         deviceId[x.user] = None /\ Binding(x.user) = {x}
       BY <1>1 DEF BindInv, Placed
<1>13. \A b \in Browsers : DeviceOf[b] # None
       BY SessionsAssumption DEF Devices
<1>14. BindInv'
  <2> SUFFICES ASSUME NEW z \in exchanges', z.kind = "login",
                      z.role # "ADMIN", z.user \notin raced'
               PROVE  /\ z.stage \in {"ok", "heard"} =>
                           deviceId'[z.user] = DeviceOf[z.browser]
                      /\ z.stage = "bind" =>
                           deviceId'[z.user] = None /\ Binding(z.user)' = {z}
      BY DEF BindInv
  <2>1. CASE z = y BY <1>2, <1>5, <2>1
  <2>2. CASE z # y /\ z.user = x.user
    <3>1. z \in exchanges /\ z # x BY <1>1, <2>2 DEF Moves
    <3>2. z.stage # "bind" BY <1>1, <1>12, <2>2, <3>1 DEF Binding
    <3>3. z.stage \notin {"ok", "heard"}
          BY <1>1, <1>12, <1>13, <2>2, <3>1 DEF BindInv, TypeOK, ExchangeSet
    <3> QED BY <3>2, <3>3
  <2>3. CASE z # y /\ z.user # x.user
    <3>1. z \in exchanges /\ z.user \in Users
          BY <1>1, <2>3 DEF Moves, Placed
    <3>2. Binding(z.user)' = Binding(z.user)
          BY <1>1, <1>2, <2>3 DEF Binding, Moves
    <3> QED BY <1>1, <1>5, <2>3, <3>1, <3>2 DEF BindInv
  <2> QED BY <2>1, <2>2, <2>3
<1>15. BoundWhereLoggedIn'
  <2> SUFFICES ASSUME NEW b \in Browsers, access[b] # None,
                      access[b].role # "ADMIN", access[b].user \notin raced
               PROVE  deviceId'[access[b].user] = DeviceOf[b]
      BY <1>1 DEF BoundWhereLoggedIn
  <2>1. access[b].user \in Users /\ deviceId[access[b].user] = DeviceOf[b]
        BY DEF TypeOK, Tokens, BoundWhereLoggedIn
  <2>2. access[b].user # x.user BY <1>12, <1>13, <2>1
  <2> QED BY <1>5, <2>1, <2>2
<1> QED BY <1>3, <1>6, <1>7, <1>8, <1>10, <1>11, <1>14, <1>15

\* A step that takes the answer of x and leaves nothing of it behind keeps what
\* is said of the other exchanges.
LEMMA OverKeeps ==
  ASSUME IInv, NEW x \in exchanges, Ends(x, {}), x.stage # "bind",
         UNCHANGED <<browser, roleOf, deviceId, access, raced>>
  PROVE  Placed' /\ CookieInv' /\ BindInv' /\ BoundWhereLoggedIn'
<1> USE DEF IInv, Ends
<1>1. \A u : Binding(u)' = Binding(u) BY DEF Binding
<1>2. Placed' /\ CookieInv' BY DEF Placed, CookieInv
<1>3. BindInv' BY <1>1 DEF BindInv
<1>4. BoundWhereLoggedIn' BY DEF BoundWhereLoggedIn
<1> QED BY <1>2, <1>3, <1>4

LEMMA LoginHeardInv ==
  ASSUME IInv, NEW x \in exchanges, LoginHeard(x)
  PROVE  IInv'
<1> USE DEF IInv, users, stores, history
<1> DEFINE y == [x EXCEPT !.stage = "heard"]
           c == x.browser
<1>1. /\ x.kind = "login" /\ x.stage = "ok" /\ x.tab # None
      /\ x.user \in Users /\ x.role \in Roles
      /\ x \in ExchangeSet /\ c \in Browsers
      /\ UNCHANGED <<browser, roleOf, deviceId, token, role, local, at, issued,
                     raced, torn, out>>
      /\ access' = [access EXCEPT ![c] = Fresh(x.user, x.role)]
      /\ Moves(x, y)
      BY DEF LoginHeard, Placed, TypeOK, ExchangeSet, Moves, Advance
<1>2. /\ y \in ExchangeSet /\ y.stage = "heard" /\ y.kind = x.kind
      /\ y.user = x.user /\ y.role = x.role /\ y.tab = x.tab
      /\ y.browser = c /\ y.alone = x.alone
      BY <1>1, Advanced
<1>3. c = browser[x.tab] BY <1>1 DEF Placed
<1> HIDE DEF y, c
<1>4. /\ exchanges' \subseteq ExchangeSet /\ AloneInv'
      /\ \A b \in Browsers : (Awaited(b) = {}) <=> (Awaited(b)' = {})
      BY <1>1, <1>2, MoveKeeps DEF c
<1>5. /\ access'[c] = Fresh(x.user, x.role) /\ access'[c].user = x.user
      /\ access'[c].role = x.role
      /\ \A b \in Browsers : b # c => access'[b] = access[b]
      /\ access' \in [Browsers -> Tokens \cup {None}]
      BY <1>1 DEF TypeOK, Fresh, Tokens
<1>6. TypeOK' BY <1>1, <1>4, <1>5 DEF TypeOK, ExchangeSet
<1>7. Placed' BY <1>1, <1>2, <1>3 DEF Placed, Moves
<1>8. y \in Awaited(c)' /\ y \in Heard(c)'
      BY <1>1, <1>2, <1>3 DEF Awaited, Heard, Moves
<1>9. CookieInv'
  <2> SUFFICES ASSUME NEW z \in exchanges', z.alone, z.stage = "heard"
               PROVE  \/ access'[z.browser] = None
                      \/ /\ z.kind = "login"
                         /\ access'[z.browser] = Fresh(z.user, z.role)
      BY DEF CookieInv
  <2>1. z.browser \in Browsers /\ z \in Awaited(z.browser)'
        BY <1>4, <1>7 DEF ExchangeSet, Awaited, Placed
  <2>2. CASE z.browser = c
        BY <1>1, <1>2, <1>4, <1>5, <1>8, <2>1, <2>2 DEF AloneInv
  <2>3. CASE z.browser # c
        BY <1>2, <1>5, <2>1, <2>3, <1>1 DEF CookieInv, Moves
  <2> QED BY <2>2, <2>3
<1>10. \A b \in Browsers : b # c => Heard(b)' = Heard(b)
       BY <1>1, <1>2, <1>3 DEF Heard, Awaited, Moves
<1>11. AgreeInv'
       BY <1>1, <1>5, <1>8, <1>10 DEF AgreeInv, Agrees
<1>12. x \in Awaited(c) BY <1>1, <1>3 DEF Awaited
<1>13. OutInv' BY <1>1, <1>4, <1>5, <1>12 DEF OutInv, TypeOK
<1>14. \A u : Binding(u)' = Binding(u) BY <1>1, <1>2 DEF Binding, Moves
<1>15. BindInv'
  <2> SUFFICES ASSUME NEW z \in exchanges', z.kind = "login",
                      z.role # "ADMIN", z.user \notin raced
               PROVE  /\ z.stage \in {"ok", "heard"} =>
                           deviceId[z.user] = DeviceOf[z.browser]
                      /\ z.stage = "bind" =>
                           deviceId[z.user] = None /\ Binding(z.user) = {z}
      BY <1>1, <1>14 DEF BindInv
  <2>1. CASE z = y BY <1>1, <1>2, <2>1 DEF BindInv, c
  <2>2. CASE z # y BY <1>1, <2>2 DEF BindInv, Moves
  <2> QED BY <2>1, <2>2
<1>16. BoundWhereLoggedIn'
  <2> SUFFICES ASSUME NEW b \in Browsers, access'[b] # None,
                      access'[b].role # "ADMIN",
                      access'[b].user \notin raced
               PROVE  deviceId[access'[b].user] = DeviceOf[b]
      BY <1>1 DEF BoundWhereLoggedIn
  <2>1. CASE b = c BY <1>1, <1>5, <2>1 DEF BindInv, c
  <2>2. CASE b # c BY <1>5, <2>2 DEF BoundWhereLoggedIn
  <2> QED BY <2>1, <2>2
<1> QED BY <1>4, <1>6, <1>7, <1>9, <1>11, <1>13, <1>15, <1>16

LEMMA LoginStoredInv ==
  ASSUME IInv, NEW x \in exchanges, LoginStored(x)
  PROVE  IInv'
<1> USE DEF IInv
<1> DEFINE c == x.browser
           k == Fresh(x.user, x.role)
<1>1. /\ x.kind = "login" /\ x.stage = "heard" /\ x.tab # None
      /\ x.user \in Users /\ x.role \in Roles /\ x.tab \in Tabs
      /\ UNCHANGED <<browser, roleOf, deviceId, access, issued, raced, out>>
      /\ Ends(x, {})
      /\ torn' = IF x.alone THEN torn \ {c} ELSE torn
      BY DEF LoginStored, Enter, Settle, users, Placed, TypeOK, ExchangeSet, Ends
<1>2. /\ token' = [token EXCEPT ![c] = k] /\ role' = [role EXCEPT ![c] = x.role]
      /\ local' = [local EXCEPT ![c] = k]
      BY DEF LoginStored
<1>3. k \in Tokens /\ k.user = x.user /\ k.role = x.role
      BY <1>1, SessionsAssumption DEF Fresh, Tokens
<1>4. at' \in [Tabs -> [page : Places, shown : BOOLEAN]]
  <2>1. PICK p \in Protected : at' = [at EXCEPT ![x.tab] = Going(p)]
        BY DEF LoginStored, Enter
  <2>2. Going(p) \in [page : Places, shown : BOOLEAN]
        BY DEF Going, Places, Paths
  <2> QED BY <1>1, <2>1, <2>2 DEF TypeOK
<1> HIDE DEF k
<1>5. /\ exchanges' \subseteq ExchangeSet
      /\ \A b \in Browsers : Awaited(b)' = Awaited(b) \ {x}
      BY <1>1, EndKeeps
<1>6. /\ c \in Browsers /\ x \in Awaited(c)
      /\ x.alone => Awaited(c) = {x}
      /\ c \notin torn => x.alone
      /\ \A b \in Browsers : x \in Awaited(b) => b = c
      BY <1>1, Sole
<1> HIDE DEF c
<1>7. /\ token' \in [Browsers -> Tokens \cup {None}]
      /\ role' \in [Browsers -> Roles \cup {None}]
      /\ local' \in [Browsers -> Tokens \cup {None}]
      /\ token'[c] = k /\ role'[c] = x.role /\ local'[c] = k
      /\ \A b \in Browsers : b # c =>
           token'[b] = token[b] /\ role'[b] = role[b] /\ local'[b] = local[b]
      BY <1>2, <1>3, <1>6 DEF TypeOK
<1>8. TypeOK' BY <1>1, <1>4, <1>5, <1>7 DEF TypeOK, ExchangeSet
<1>9. Placed' /\ CookieInv' /\ BindInv' /\ BoundWhereLoggedIn'
      BY <1>1, OverKeeps
<1>10. AloneInv' BY <1>1, <1>5, <1>6 DEF AloneInv
<1>11. AgreeInv'
  <2> SUFFICES ASSUME NEW b \in Browsers, b \notin torn', Heard(b)' = {}
               PROVE  Agrees(b)'
      BY DEF AgreeInv
  <2>1. CASE b = c
    <3>1. access[c] = None \/ access[c] = k
          BY <1>1, <1>6, <2>1 DEF CookieInv, c, k
    <3> QED BY <1>1, <1>3, <1>7, <2>1, <3>1 DEF Agrees
  <2>2. CASE b # c
    <3>1. Heard(b)' = Heard(b) /\ b \notin torn
          BY <1>1, <1>5, <1>6, <2>2 DEF Heard
    <3> QED BY <1>1, <1>7, <2>2, <3>1 DEF AgreeInv, Agrees
  <2> QED BY <2>1, <2>2
<1>12. \A b \in out : b \in Browsers /\ b # c BY <1>6 DEF OutInv, TypeOK
<1>13. OutInv' BY <1>1, <1>5, <1>7, <1>12 DEF OutInv
<1> QED BY <1>8, <1>9, <1>10, <1>11, <1>13

\* Refused, or answered to nobody.
LEMMA DroppedInv ==
  ASSUME IInv, NEW x \in exchanges, LoginRefused(x) \/ LoginUnheard(x)
  PROVE  IInv'
<1> USE DEF IInv, users, stores, history
<1>1. /\ x.stage \in {"refused", "ok"}
      /\ UNCHANGED <<browser, roleOf, deviceId, access, token, role, local, at,
                     issued, raced, torn, out>>
      /\ Ends(x, {})
      BY DEF LoginRefused, LoginUnheard, Ends
<1>2. /\ exchanges' \subseteq ExchangeSet
      /\ \A b \in Browsers : Awaited(b)' = Awaited(b) \ {x}
      BY <1>1, EndKeeps
<1>3. TypeOK' BY <1>1, <1>2 DEF TypeOK, ExchangeSet
<1>4. Placed' /\ CookieInv' /\ BindInv' /\ BoundWhereLoggedIn'
      BY <1>1, OverKeeps
<1>5. AloneInv' BY <1>1, <1>2 DEF AloneInv
<1>6. \A b \in Browsers : Heard(b)' = Heard(b) BY <1>1, <1>2 DEF Heard
<1>7. AgreeInv' BY <1>1, <1>6 DEF AgreeInv, Agrees
<1>8. OutInv' BY <1>1, <1>2 DEF OutInv, TypeOK
<1> QED BY <1>3, <1>4, <1>5, <1>7, <1>8

LEMMA LoginLostInv ==
  ASSUME IInv, NEW x \in exchanges, LoginLost(x)
  PROVE  IInv'
<1> USE DEF IInv, users, stores
<1> DEFINE c == x.browser
           y == [x EXCEPT !.tab = None]
           Y == IF x.stage = "heard" THEN {} ELSE {y}
<1>1. /\ x.kind = "login" /\ x.tab # None /\ x \in ExchangeSet
      /\ UNCHANGED <<browser, roleOf, deviceId, access, token, role, local, at,
                     issued, raced, out>>
      /\ Ends(x, Y)
      /\ torn' = IF x.stage = "heard" THEN torn \cup {c} ELSE torn
      BY DEF LoginLost, Ends, TypeOK, ExchangeSet
<1>2. /\ y \in ExchangeSet /\ y.tab = None /\ y.kind = x.kind /\ y.stage = x.stage
      /\ y.user = x.user /\ y.role = x.role /\ y.browser = x.browser
      /\ y.alone = x.alone
      BY <1>1 DEF ExchangeSet
<1> HIDE DEF y
<1>3. /\ exchanges' \subseteq ExchangeSet
      /\ \A b \in Browsers : Awaited(b)' = Awaited(b) \ {x}
  <2>1. Y \subseteq ExchangeSet /\ \A z \in Y : z.tab = None BY <1>2
  <2> HIDE DEF Y
  <2> QED BY <1>1, <2>1, EndKeeps
<1>4. /\ c \in Browsers /\ x \in Awaited(c)
      /\ \A b \in Browsers : x \in Awaited(b) => b = c
      BY <1>1, Sole
<1>5. TypeOK' BY <1>1, <1>3, <1>4 DEF TypeOK, ExchangeSet
<1>6. Placed' BY <1>1, <1>2 DEF Placed, Ends
<1>7. CookieInv' BY <1>1, <1>2 DEF CookieInv, Ends
<1>8. AloneInv' BY <1>1, <1>3 DEF AloneInv
<1>9. AgreeInv'
  <2> SUFFICES ASSUME NEW b \in Browsers, b \notin torn', Heard(b)' = {}
               PROVE  Agrees(b)'
      BY DEF AgreeInv
  <2>1. Heard(b)' = Heard(b) BY <1>1, <1>3, <1>4 DEF Heard
  <2>2. b \notin torn BY <1>1
  <2> QED BY <1>1, <2>1, <2>2 DEF AgreeInv, Agrees
<1>10. OutInv' BY <1>1, <1>3 DEF OutInv, TypeOK
<1>11. BindInv'
  <2> SUFFICES ASSUME NEW z \in exchanges', z.kind = "login",
                      z.role # "ADMIN", z.user \notin raced
               PROVE  /\ z.stage \in {"ok", "heard"} =>
                           deviceId[z.user] = DeviceOf[z.browser]
                      /\ z.stage = "bind" =>
                           deviceId[z.user] = None /\ Binding(z.user)' = {z}
      BY <1>1 DEF BindInv
  <2>1. CASE z = y /\ y \in Y
    <3>1. x.stage = "bind" => Binding(x.user) = {x}
          BY <1>1, <1>2, <2>1 DEF BindInv
    <3>2. x.stage = "bind" => Binding(x.user)' = {y}
          BY <1>1, <1>2, <2>1, <3>1 DEF Binding, Ends
    <3> QED BY <1>1, <1>2, <2>1, <3>2 DEF BindInv
  <2>2. CASE z \in exchanges /\ z # x
    <3>1. z.stage = "bind" => Binding(z.user) = {z}
          BY <2>2 DEF BindInv
    <3>2. z.stage = "bind" => x \notin Binding(z.user) BY <2>2, <3>1
    <3>3. z.stage = "bind" => ~(x.user = z.user /\ x.stage = "bind")
          BY <3>2 DEF Binding
    <3>4. z.stage = "bind" => Binding(z.user)' = Binding(z.user)
          BY <1>1, <1>2, <3>2, <3>3 DEF Binding, Ends
    <3> QED BY <2>2, <3>1, <3>4 DEF BindInv
  <2> QED BY <1>1, <2>1, <2>2 DEF Ends
<1>12. BoundWhereLoggedIn' BY <1>1 DEF BoundWhereLoggedIn
<1> QED BY <1>5, <1>6, <1>7, <1>8, <1>9, <1>10, <1>11, <1>12

LEMMA LogoutHeardInv ==
  ASSUME IInv, NEW x \in exchanges, LogoutHeard(x)
  PROVE  IInv'
<1> USE DEF IInv, users, stores, history
<1> DEFINE y == [x EXCEPT !.stage = "heard"]
           c == x.browser
<1>1. /\ x.kind = "logout" /\ x.stage = "sent" /\ x.tab # None
      /\ x \in ExchangeSet
      /\ UNCHANGED <<browser, roleOf, deviceId, token, role, local, at, issued,
                     raced, torn, out>>
      /\ access' = [access EXCEPT ![c] = None]
      /\ Moves(x, y)
      BY DEF LogoutHeard, Placed, TypeOK, ExchangeSet, Moves, Advance
<1>2. /\ y \in ExchangeSet /\ y.stage = "heard" /\ y.kind = x.kind
      /\ y.user = x.user /\ y.role = x.role /\ y.tab = x.tab
      /\ y.browser = c /\ y.alone = x.alone
      BY <1>1, Advanced
<1>3. /\ c \in Browsers /\ x \in Awaited(c) /\ c = browser[x.tab]
      BY <1>1, Sole DEF Placed
<1> HIDE DEF y, c
<1>4. /\ exchanges' \subseteq ExchangeSet /\ AloneInv'
      /\ \A b \in Browsers : (Awaited(b) = {}) <=> (Awaited(b)' = {})
      BY <1>1, <1>2, MoveKeeps DEF c
<1>5. /\ access' \in [Browsers -> Tokens \cup {None}] /\ access'[c] = None
      /\ \A b \in Browsers : b # c => access'[b] = access[b]
      BY <1>1, <1>3 DEF TypeOK
<1>6. TypeOK' BY <1>1, <1>4, <1>5 DEF TypeOK, ExchangeSet
<1>7. Placed' BY <1>1, <1>2, <1>3 DEF Placed, Moves
<1>8. CookieInv'
  <2> SUFFICES ASSUME NEW z \in exchanges', z.alone, z.stage = "heard",
                      z.browser # c
               PROVE  \/ access'[z.browser] = None
                      \/ /\ z.kind = "login"
                         /\ access'[z.browser] = Fresh(z.user, z.role)
      BY <1>5 DEF CookieInv
  <2> QED BY <1>1, <1>2, <1>4, <1>5 DEF CookieInv, Moves, ExchangeSet
<1>9. \A b \in Browsers : Heard(b)' = Heard(b)
      BY <1>1, <1>2 DEF Heard, Awaited, Moves
<1>10. AgreeInv'
  <2> SUFFICES ASSUME NEW b \in Browsers, Agrees(b) PROVE Agrees(b)'
      BY <1>1, <1>9 DEF AgreeInv
  <2> QED BY <1>1, <1>5 DEF Agrees
<1>11. OutInv' BY <1>1, <1>3, <1>4, <1>5 DEF OutInv, TypeOK
<1>12. \A u : Binding(u)' = Binding(u) BY <1>1, <1>2 DEF Binding, Moves
<1>13. BindInv' BY <1>1, <1>2, <1>12 DEF BindInv, Moves
<1>14. BoundWhereLoggedIn' BY <1>1, <1>5 DEF BoundWhereLoggedIn
<1> QED BY <1>4, <1>6, <1>7, <1>8, <1>10, <1>11, <1>13, <1>14

LEMMA LogoutFailsInv ==
  ASSUME IInv, NEW x \in exchanges, LogoutFails(x)
  PROVE  IInv'
<1> USE DEF IInv, users, stores, history
<1> DEFINE y == [x EXCEPT !.stage = "failed"]
<1>1. /\ x.kind = "logout" /\ x.stage = "sent" /\ x \in ExchangeSet
      /\ UNCHANGED <<browser, roleOf, deviceId, access, token, role, local, at,
                     issued, raced, torn, out>>
      /\ Moves(x, y)
      BY DEF LogoutFails, TypeOK, ExchangeSet, Moves, Advance
<1>2. /\ y \in ExchangeSet /\ y.stage = "failed" /\ y.kind = x.kind
      /\ y.user = x.user /\ y.role = x.role /\ y.tab = x.tab
      /\ y.browser = x.browser /\ y.alone = x.alone
      BY <1>1, Advanced
<1> HIDE DEF y
<1>3. /\ exchanges' \subseteq ExchangeSet /\ AloneInv'
      /\ \A b \in Browsers : (Awaited(b) = {}) <=> (Awaited(b)' = {})
      BY <1>1, <1>2, MoveKeeps
<1>4. TypeOK' BY <1>1, <1>3 DEF TypeOK, ExchangeSet
<1>5. Placed' BY <1>1, <1>2 DEF Placed, Moves
<1>6. CookieInv' BY <1>1, <1>2 DEF CookieInv, Moves
<1>7. \A b \in Browsers : Heard(b)' = Heard(b)
      BY <1>1, <1>2 DEF Heard, Awaited, Moves
<1>8. AgreeInv' BY <1>1, <1>7 DEF AgreeInv, Agrees
<1>9. OutInv' BY <1>1, <1>3 DEF OutInv, TypeOK
<1>10. \A u : Binding(u)' = Binding(u) BY <1>1, <1>2 DEF Binding, Moves
<1>11. BindInv' BY <1>1, <1>2, <1>10 DEF BindInv, Moves
<1>12. BoundWhereLoggedIn' BY <1>1 DEF BoundWhereLoggedIn
<1> QED BY <1>3, <1>4, <1>5, <1>6, <1>8, <1>9, <1>11, <1>12

LEMMA LogoutLostInv ==
  ASSUME IInv, NEW x \in exchanges, LogoutLost(x)
  PROVE  IInv'
<1> USE DEF IInv, users, stores
<1>1. /\ x.kind = "logout" /\ x.tab # None /\ x.stage # "bind"
      /\ UNCHANGED <<browser, roleOf, deviceId, access, token, role, local, at,
                     issued, raced, out>>
      /\ Ends(x, {})
      /\ torn' = IF x.stage = "heard" THEN torn \cup {x.browser} ELSE torn
      BY DEF LogoutLost, Placed, Ends
<1>2. /\ exchanges' \subseteq ExchangeSet
      /\ \A b \in Browsers : Awaited(b)' = Awaited(b) \ {x}
      BY <1>1, EndKeeps
<1>3. x.browser \in Browsers BY DEF TypeOK
<1>4. TypeOK' BY <1>1, <1>2, <1>3 DEF TypeOK, ExchangeSet
<1>5. Placed' /\ CookieInv' /\ BindInv' /\ BoundWhereLoggedIn'
      BY <1>1, OverKeeps
<1>6. AloneInv' BY <1>1, <1>2 DEF AloneInv
<1>7. \A b \in Browsers : Heard(b)' = Heard(b) BY <1>1, <1>2 DEF Heard
<1>8. AgreeInv' BY <1>1, <1>7 DEF AgreeInv, Agrees
<1>9. OutInv' BY <1>1, <1>2 DEF OutInv, TypeOK
<1> QED BY <1>4, <1>5, <1>6, <1>8, <1>9

LEMMA LogoutClearsInv ==
  ASSUME IInv, NEW x \in exchanges, LogoutClears(x)
  PROVE  IInv'
<1> USE DEF IInv
<1> DEFINE c == x.browser
<1>1. /\ x.kind = "logout" /\ x.stage \in {"heard", "failed"}
      /\ x.tab # None /\ x.tab \in Tabs
      /\ UNCHANGED <<browser, roleOf, deviceId, access, issued, raced>>
      /\ Ends(x, {})
      /\ torn' = IF x.alone THEN torn \ {c} ELSE torn
      /\ out' = IF x.alone /\ x.stage = "heard" THEN out \cup {c} ELSE out
      /\ at' = [at EXCEPT ![x.tab] = Going("/login")]
      BY DEF LogoutClears, Leave, Settle, users, Placed, TypeOK, ExchangeSet,
             Ends
<1>2. /\ token' = [token EXCEPT ![c] = None] /\ role' = [role EXCEPT ![c] = None]
      /\ local' = [local EXCEPT ![c] = None]
      BY DEF LogoutClears
<1>3. at' \in [Tabs -> [page : Places, shown : BOOLEAN]]
      BY <1>1 DEF TypeOK, Going, Places, Paths
<1>4. /\ exchanges' \subseteq ExchangeSet
      /\ \A b \in Browsers : Awaited(b)' = Awaited(b) \ {x}
      BY <1>1, EndKeeps
<1>5. /\ c \in Browsers /\ x \in Awaited(c)
      /\ x.alone => Awaited(c) = {x}
      /\ c \notin torn => x.alone
      /\ \A b \in Browsers : x \in Awaited(b) => b = c
      BY <1>1, Sole
<1>6. x.alone /\ x.stage = "heard" => access[c] = None
      BY <1>1 DEF CookieInv
<1> HIDE DEF c
<1>7. /\ token' \in [Browsers -> Tokens \cup {None}]
      /\ role' \in [Browsers -> Roles \cup {None}]
      /\ local' \in [Browsers -> Tokens \cup {None}]
      /\ token'[c] = None /\ role'[c] = None /\ local'[c] = None
      /\ \A b \in Browsers : b # c =>
           token'[b] = token[b] /\ role'[b] = role[b] /\ local'[b] = local[b]
      BY <1>2, <1>5 DEF TypeOK
<1>8. out' \subseteq Browsers BY <1>1, <1>5 DEF TypeOK
<1>9. TypeOK' BY <1>1, <1>3, <1>4, <1>7, <1>8 DEF TypeOK, ExchangeSet
<1>10. Placed' /\ CookieInv' /\ BindInv' /\ BoundWhereLoggedIn'
       BY <1>1, OverKeeps
<1>11. AloneInv' BY <1>1, <1>4, <1>5 DEF AloneInv
<1>12. AgreeInv'
  <2> SUFFICES ASSUME NEW b \in Browsers, b \notin torn', Heard(b)' = {}
               PROVE  Agrees(b)'
      BY DEF AgreeInv
  <2>1. CASE b = c
    <3>1. PICK u \in Users, r \in Roles :
             access[c] # None => access[c].user = u /\ access[c].role = r
          BY <1>5, SessionsAssumption DEF TypeOK, Tokens, Roles
    <3> QED BY <1>1, <1>7, <2>1, <3>1 DEF Agrees
  <2>2. CASE b # c
    <3>1. Heard(b)' = Heard(b) /\ b \notin torn
          BY <1>1, <1>4, <1>5, <2>2 DEF Heard
    <3> QED BY <1>1, <1>7, <2>2, <3>1 DEF AgreeInv, Agrees
  <2> QED BY <2>1, <2>2
<1>13. \A b \in out : b \in Browsers /\ b # c BY <1>5 DEF OutInv, TypeOK
<1>14. OutInv'
  <2>1. ASSUME NEW b \in out
        PROVE  Awaited(b)' = {} /\ {access[b], token'[b], role'[b], local'[b]} = {None}
        BY <1>4, <1>7, <1>13 DEF OutInv
  <2>2. ASSUME x.alone, x.stage = "heard"
        PROVE  Awaited(c)' = {} /\ {access[c], token'[c], role'[c], local'[c]} = {None}
        BY <1>4, <1>5, <1>6, <1>7, <2>2
  <2> QED BY <1>1, <2>1, <2>2 DEF OutInv
<1> QED BY <1>9, <1>10, <1>11, <1>12, <1>14

----------------------------------------------------------------------------
(* The two ways to begin one. *)

LEMMA BeginInv ==
  ASSUME IInv, NEW t \in Tabs,
         NEW kind \in {"login", "logout"}, NEW u \in Users \cup {None},
         kind = "login" => u \in Users,
         Begin(t, kind, u),
         UNCHANGED <<browser, roleOf, deviceId, access, token, role, local, at,
                     raced>>
  PROVE  IInv'
<1> USE DEF IInv
<1>0. PICK c \in Browsers : c = browser[t] BY DEF TypeOK
<1> DEFINE Mark(x) == [x EXCEPT !.alone = @ /\ x \notin Awaited(c)]
           new == [n |-> issued', kind |-> kind, user |-> u, role |-> None,
                   tab |-> t, browser |-> c, stage |-> "sent", alone |-> Awaited(c) = {}]
<1>1. /\ issued < MaxExchanges /\ issued' = issued + 1
      /\ exchanges' = {Mark(x) : x \in exchanges} \cup {new}
      /\ torn' = IF Awaited(c) = {} THEN torn ELSE torn \cup {c}
      /\ out' = out \ {c}
      BY <1>0 DEF Begin
<1>2. issued' \in 0..MaxExchanges /\ issued' \in Exchanges
      BY <1>1, SessionsAssumption DEF TypeOK, Exchanges
<1>3. /\ new \in ExchangeSet /\ new.kind = kind /\ new.user = u /\ new.tab = t
      /\ new.browser = c /\ new.stage = "sent"
      /\ new.alone <=> Awaited(c) = {}
      BY <1>2, SessionsAssumption DEF ExchangeSet
<1>4. \A x \in exchanges :
        /\ Mark(x) \in ExchangeSet /\ Mark(x).kind = x.kind
        /\ Mark(x).user = x.user /\ Mark(x).role = x.role /\ Mark(x).tab = x.tab
        /\ Mark(x).browser = x.browser /\ Mark(x).stage = x.stage
        /\ Mark(x).alone <=> x.alone /\ x \notin Awaited(c)
      BY DEF TypeOK, ExchangeSet
<1>5. t # None
      BY SessionsAssumption
<1>6. ASSUME NEW z \in exchanges', z # new
      PROVE  \E x \in exchanges : z = Mark(x)
      BY <1>1, <1>6
<1>7. new \in exchanges' /\ \A x \in exchanges : Mark(x) \in exchanges'
      BY <1>1
<1> HIDE DEF Mark, new
<1>8. exchanges' \subseteq ExchangeSet BY <1>3, <1>4, <1>6
<1>10. TypeOK' BY <1>1, <1>2, <1>8 DEF TypeOK, ExchangeSet
<1>11. Placed'
  <2> SUFFICES ASSUME NEW z \in exchanges'
               PROVE  /\ z.tab # None => z.browser = browser[z.tab]
                      /\ z.stage = "heard" => z.tab # None
                      /\ z.kind = "login" =>
                           /\ z.user \in Users /\ z.stage # "failed"
                           /\ z.stage # "sent" => z.role \in Roles
                           /\ z.stage = "bind" => z.role # "ADMIN"
                      /\ z.kind = "logout" => /\ z.tab # None
                                              /\ z.stage \in {"sent", "heard", "failed"}
      BY DEF Placed
  <2>1. CASE z = new BY <1>0, <1>3, <1>5, <2>1
  <2>2. CASE z # new
    <3>1. PICK x \in exchanges : z = Mark(x) BY <1>6, <2>2
    <3> QED BY <1>4, <3>1 DEF Placed
  <2> QED BY <2>1, <2>2
<1>12. CookieInv' BY <1>3, <1>4, <1>6 DEF CookieInv
<1>13. /\ \A b \in Browsers, x \in exchanges :
            Mark(x) \in Awaited(b)' <=> x \in Awaited(b)
       /\ \A b \in Browsers : new \in Awaited(b)' <=> b = c
       BY <1>0, <1>3, <1>4, <1>5, <1>7 DEF Awaited
<1>14. \A b \in Browsers : b # c =>
         \A z \in Awaited(b)' :
           \E x \in Awaited(b) : z = Mark(x) /\ x \notin Awaited(c)
       BY <1>3, <1>6, <1>13 DEF Awaited
<1>15. \A z \in Awaited(c)' : z = new \/ \E x \in Awaited(c) : z = Mark(x)
       BY <1>2, <1>3, <1>6, <1>13 DEF Awaited
<1>16. Awaited(c) \subseteq exchanges /\ \A b \in Browsers : Awaited(b) \subseteq exchanges
       BY DEF Awaited
<1>17. AloneInv'
  <2> SUFFICES ASSUME NEW b \in Browsers
               PROVE  /\ \A x, y \in Awaited(b)' : x.alone => x = y
                      /\ b \notin torn' => \A x \in Awaited(b)' : x.alone
      BY DEF AloneInv
  <2>1. CASE b = c
    <3>1. CASE Awaited(c) = {}
          BY <1>3, <1>15, <2>1, <3>1
    <3>2. CASE Awaited(c) # {}
          BY <1>1, <1>3, <1>4, <1>15, <1>16, <2>1, <3>2
    <3> QED BY <3>1, <3>2
  <2>2. CASE b # c
        BY <1>1, <1>4, <1>14, <1>16, <2>2 DEF AloneInv
  <2> QED BY <2>1, <2>2
<1>18. AgreeInv'
  <2> SUFFICES ASSUME NEW b \in Browsers, b \notin torn', Heard(b)' = {}
               PROVE  Agrees(b)'
      BY DEF AgreeInv
  <2>1. b \notin torn BY <1>1
  <2>2. Heard(b) = {} BY <1>4, <1>13, <1>16 DEF Heard
  <2> QED BY <2>1, <2>2 DEF AgreeInv, Agrees
<1>19. OutInv'
  <2> SUFFICES ASSUME NEW b \in out, b # c
               PROVE  /\ Awaited(b)' = {}
                      /\ {access[b], token[b], role[b], local[b]} = {None}
      BY <1>1 DEF OutInv
  <2>1. b \in Browsers BY DEF TypeOK
  <2> QED BY <1>14, <2>1 DEF OutInv
<1>20. BindInv'
  <2> SUFFICES ASSUME NEW z \in exchanges', z.kind = "login",
                      z.role # "ADMIN", z.user \notin raced
               PROVE  /\ z.stage \in {"ok", "heard"} =>
                           deviceId[z.user] = DeviceOf[z.browser]
                      /\ z.stage = "bind" =>
                           deviceId[z.user] = None /\ Binding(z.user)' = {z}
      BY DEF BindInv
  <2>1. CASE z = new BY <1>3, <2>1
  <2>2. CASE z # new
    <3>1. PICK x \in exchanges : z = Mark(x) BY <1>6, <2>2
    <3>2. /\ x.stage \in {"ok", "heard"} => deviceId[z.user] = DeviceOf[z.browser]
          /\ x.stage = "bind" =>
                deviceId[z.user] = None /\ Binding(z.user) = {x}
          BY <1>4, <3>1 DEF BindInv
    <3>3. \A y \in Binding(z.user)' : \E w \in Binding(z.user) : y = Mark(w)
          BY <1>3, <1>4, <1>6 DEF Binding
    <3>4. x.stage = "bind" => Binding(z.user)' = {z}
          BY <1>4, <3>1, <3>2, <3>3 DEF Binding
    <3> QED BY <1>4, <3>1, <3>2, <3>4
  <2> QED BY <2>1, <2>2
<1>21. BoundWhereLoggedIn' BY DEF BoundWhereLoggedIn
<1> QED BY <1>10, <1>11, <1>12, <1>17, <1>18, <1>19, <1>20, <1>21

----------------------------------------------------------------------------
(* Navigation, the proxy and time only take copies away or move tabs. *)

LEMMA FewerInv ==
  ASSUME IInv,
         UNCHANGED <<browser, roleOf, deviceId, exchanges, issued, raced, torn,
                     out>>,
         at' \in [Tabs -> [page : Places, shown : BOOLEAN]],
         access' \in [Browsers -> Tokens \cup {None}],
         token' \in [Browsers -> Tokens \cup {None}],
         role' \in [Browsers -> Roles \cup {None}],
         local' \in [Browsers -> Tokens \cup {None}],
         \A b \in Browsers :
           /\ access'[b] \in {None, access[b]} /\ role'[b] \in {None, role[b]}
           /\ token'[b] # None => token[b] # None /\ token'[b].user = token[b].user
                                  /\ token'[b].role = token[b].role
           /\ local'[b] # None => local[b] # None /\ local'[b].user = local[b].user
                                  /\ local'[b].role = local[b].role
  PROVE  IInv'
<1> USE DEF IInv
<1>1. TypeOK' BY DEF TypeOK
<1>2. Placed' BY DEF Placed
<1>3. \A b : Awaited(b)' = Awaited(b) BY DEF Awaited
<1>4. AloneInv' BY <1>3 DEF AloneInv
<1>5. CookieInv' BY DEF CookieInv, TypeOK
<1>6. AgreeInv'
  <2>1. \A b : Heard(b)' = Heard(b) BY <1>3 DEF Heard
  <2> SUFFICES ASSUME NEW b \in Browsers, Agrees(b) PROVE Agrees(b)'
      BY <2>1 DEF AgreeInv
  <2> QED BY DEF Agrees
<1>7. OutInv'
  <2> SUFFICES ASSUME NEW b \in out
               PROVE  {access'[b], token'[b], role'[b], local'[b]} = {None}
      BY <1>3 DEF OutInv
  <2>1. b \in Browsers BY DEF TypeOK
  <2>0. {access[b], token[b], role[b], local[b]} = {None} BY DEF OutInv
  <2> HIDE DEF IInv
  <2>2. access[b] = None /\ token[b] = None /\ role[b] = None /\ local[b] = None
        BY <2>0
  <2>3. access'[b] = None /\ role'[b] = None
        BY <2>1, <2>2
  <2>4. token'[b] = None /\ local'[b] = None
        BY <2>1, <2>2
  <2> QED BY <2>3, <2>4
<1>8. BindInv'
  <2>1. \A u : Binding(u)' = Binding(u) BY DEF Binding
  <2> QED BY <2>1 DEF BindInv
<1>9. BoundWhereLoggedIn' BY DEF BoundWhereLoggedIn
<1> QED BY <1>1, <1>2, <1>4, <1>5, <1>6, <1>7, <1>8, <1>9

LEMMA GoingPlaces ==
  ASSUME NEW t \in Tabs, NEW p \in Places, TypeOK
  PROVE  /\ [at EXCEPT ![t] = Going(p)] \in [Tabs -> [page : Places, shown : BOOLEAN]]
         /\ [at EXCEPT ![t] = Showing(p)] \in [Tabs -> [page : Places, shown : BOOLEAN]]
BY DEF TypeOK, Going, Showing

LEMMA NavigateInv ==
  ASSUME IInv, NEW t \in Tabs, NEW p \in Asked, Navigate(t, p)
  PROVE  IInv'
<1>1. /\ at' = [at EXCEPT ![t] = Going(p)] /\ p \in Places
      /\ UNCHANGED <<browser, roleOf, deviceId, access, token, role, local,
                     exchanges, issued, raced, torn, out>>
      BY SessionsAssumption DEF Navigate, users, stores, history, Places
<1>2. at' \in [Tabs -> [page : Places, shown : BOOLEAN]]
      BY <1>1, GoingPlaces DEF IInv
<1> QED BY <1>1, <1>2, FewerInv DEF IInv, TypeOK

LEMMA ProxyInv ==
  ASSUME IInv, NEW t \in Tabs, Proxy(t)
  PROVE  IInv'
<1> DEFINE b == browser[t]
           p == at[t].page
<1>1. UNCHANGED <<browser, roleOf, deviceId, exchanges, issued, raced, torn,
                  out>>
      BY DEF Proxy, users, history
<1>2. TypeOK /\ b \in Browsers /\ p \in Places BY DEF IInv, TypeOK
<1>3. {"/login", "/dashboard", "/dashboard/tasks", "/unauthorized"} \subseteq Places
      BY DEF Places, Paths, Protected
<1>4. ASSUME NEW q \in Places, Redirect(t, q) \/ Show(t, q)
      PROVE  IInv'
  <2>1. UNCHANGED <<access, token, role, local>>
        BY <1>4 DEF Redirect, Show, stores
  <2>2. at' \in [Tabs -> [page : Places, shown : BOOLEAN]]
        BY <1>2, <1>3, <1>4, GoingPlaces DEF Redirect, Show
  <2> QED BY <1>1, <2>1, <2>2, FewerInv DEF IInv, TypeOK
<1>5. ASSUME EndSession(t) PROVE IInv'
  <2>1. PICK c \in Browsers : c = browser[t] BY <1>2
  <2>2. /\ access' = [access EXCEPT ![c] = None] /\ token' = [token EXCEPT ![c] = None]
        /\ role' = [role EXCEPT ![c] = None] /\ UNCHANGED local
        /\ at' = [at EXCEPT ![t] = Going("/login")]
        BY <1>5, <2>1 DEF EndSession
  <2>3. at' \in [Tabs -> [page : Places, shown : BOOLEAN]]
        BY <1>2, <1>3, <2>2, GoingPlaces
  <2>4. /\ access' \in [Browsers -> Tokens \cup {None}]
        /\ token' \in [Browsers -> Tokens \cup {None}]
        /\ role' \in [Browsers -> Roles \cup {None}]
        /\ local' \in [Browsers -> Tokens \cup {None}]
        BY <1>2, <2>2 DEF TypeOK
  <2>5. \A e \in Browsers :
           /\ access'[e] \in {None, access[e]} /\ role'[e] \in {None, role[e]}
           /\ token'[e] # None => token[e] # None /\ token'[e].user = token[e].user
                                  /\ token'[e].role = token[e].role
           /\ local'[e] # None => local[e] # None /\ local'[e].user = local[e].user
                                  /\ local'[e].role = local[e].role
        BY <1>2, <2>2 DEF TypeOK
  <2> QED BY <1>1, <2>3, <2>4, <2>5, FewerInv
<1>6. \/ Show(t, p) \/ Redirect(t, "/login") \/ Redirect(t, "/dashboard")
      \/ EndSession(t) \/ Show(t, "/unauthorized")
      BY DEF Proxy
<1> QED BY <1>2, <1>3, <1>4, <1>5, <1>6

LEMMA ExpireInv ==
  ASSUME IInv, NEW b \in Browsers, NEW k \in {access[b], token[b], local[b]}, Expire(b, k)
  PROVE  IInv'
<1>1. /\ UNCHANGED <<browser, roleOf, deviceId, role, at, exchanges, issued,
                     raced, torn, out>>
      /\ access' = IF access[b] = k THEN [access EXCEPT ![b] = None] ELSE access
      /\ token' = [token EXCEPT ![b] = Aged(@, k)]
      /\ local' = [local EXCEPT ![b] = Aged(@, k)]
      BY DEF Expire, users, history
<1>3. TypeOK BY DEF IInv
<1>2. \A c \in Tokens \cup {None} :
        /\ Aged(c, k) \in Tokens \cup {None}
        /\ c = None => Aged(c, k) = None
        /\ c # None => /\ Aged(c, k) # None /\ Aged(c, k).user = c.user
                       /\ Aged(c, k).role = c.role
  <2>1. k \in Tokens /\ k # None /\ None \notin Tokens
        BY <1>3, SessionsAssumption DEF TypeOK, Expire
  <2> QED BY <2>1 DEF Aged, Tokens
<1>4. /\ access' \in [Browsers -> Tokens \cup {None}]
      /\ \A e \in Browsers : access'[e] \in {None, access[e]}
      BY <1>1, <1>3 DEF TypeOK
<1>5. /\ token' \in [Browsers -> Tokens \cup {None}]
      /\ \A e \in Browsers :
           token'[e] # None => token[e] # None /\ token'[e].user = token[e].user
                                  /\ token'[e].role = token[e].role
      BY <1>1, <1>2, <1>3 DEF TypeOK
<1>6. /\ local' \in [Browsers -> Tokens \cup {None}]
      /\ \A e \in Browsers :
           local'[e] # None => local[e] # None /\ local'[e].user = local[e].user
                                  /\ local'[e].role = local[e].role
      BY <1>1, <1>2, <1>3 DEF TypeOK
<1>7. /\ at' \in [Tabs -> [page : Places, shown : BOOLEAN]]
      /\ role' \in [Browsers -> Roles \cup {None}]
      /\ \A e \in Browsers : role'[e] \in {None, role[e]}
      BY <1>1, <1>3 DEF TypeOK
<1> QED BY <1>1, <1>4, <1>5, <1>6, <1>7, FewerInv

LEMMA ForgetInv ==
  ASSUME IInv, NEW b \in Browsers, Forget(b)
  PROVE  IInv'
<1>1. /\ UNCHANGED <<browser, roleOf, deviceId, access, local, at, exchanges,
                     issued, raced, torn, out>>
      /\ token' = [token EXCEPT ![b] = None]
      /\ role' = [role EXCEPT ![b] = None]
      BY DEF Forget, users, history
<1>2. TypeOK BY DEF IInv
<1>3. /\ token' \in [Browsers -> Tokens \cup {None}]
      /\ role' \in [Browsers -> Roles \cup {None}]
      /\ \A e \in Browsers : role'[e] \in {None, role[e]}
      /\ \A e \in Browsers : token'[e] \in {None, token[e]}
      BY <1>1, <1>2 DEF TypeOK
<1>4. /\ access' \in [Browsers -> Tokens \cup {None}]
      /\ local' \in [Browsers -> Tokens \cup {None}]
      /\ at' \in [Tabs -> [page : Places, shown : BOOLEAN]]
      BY <1>1, <1>2 DEF TypeOK
<1> QED BY <1>1, <1>3, <1>4, FewerInv

\* What a session or an exchange carries is the role of its own time.
LEMMA SetRoleInv ==
  ASSUME IInv, NEW c \in Changes, SetRole(c[1], c[2])
  PROVE  IInv'
<1> USE DEF IInv
<1>1. /\ UNCHANGED <<browser, deviceId, access, token, role, local, at,
                     exchanges, issued, raced, torn, out>>
      /\ roleOf' = [roleOf EXCEPT ![c[1]] = c[2]]
      BY DEF SetRole, stores, history
<1>2. c[2] \in Roles BY SessionsAssumption
<1>3. TypeOK' BY <1>1, <1>2 DEF TypeOK
<1>4. \A b : Awaited(b)' = Awaited(b) /\ Heard(b)' = Heard(b)
      BY <1>1 DEF Awaited, Heard
<1>5. \A u : Binding(u)' = Binding(u) BY <1>1 DEF Binding
<1>6. Placed' /\ CookieInv' BY <1>1 DEF Placed, CookieInv
<1>7. AloneInv' /\ OutInv' BY <1>1, <1>4 DEF AloneInv, OutInv
<1>8. AgreeInv' BY <1>1, <1>4 DEF AgreeInv, Agrees
<1>9. BindInv' /\ BoundWhereLoggedIn'
      BY <1>1, <1>5 DEF BindInv, BoundWhereLoggedIn
<1> QED BY <1>3, <1>6, <1>7, <1>8, <1>9

----------------------------------------------------------------------------
LEMMA NextInv == IInv /\ [Next]_vars => IInv'
<1> SUFFICES ASSUME IInv, [Next]_vars PROVE IInv'
    OBVIOUS
<1>1. ASSUME NEW t \in Tabs, Logout(t) PROVE IInv'
  <2>1. /\ Begin(t, "logout", None)
        /\ UNCHANGED <<browser, roleOf, deviceId, access, token, role, local,
                       at, raced>>
        BY <1>1 DEF Logout, users, stores
  <2> QED BY <2>1, BeginInv
<1>2. ASSUME NEW t \in Tabs, NEW u \in Users, SubmitLogin(t, u) PROVE IInv'
  <2>1. /\ Begin(t, "login", u)
        /\ UNCHANGED <<browser, roleOf, deviceId, access, token, role, local,
                       at, raced>>
        BY <1>2 DEF SubmitLogin, users, stores
  <2> QED BY <2>1, BeginInv
<1>3. ASSUME NEW t \in Tabs, Proxy(t) PROVE IInv'
      BY <1>3, ProxyInv
<1>4. ASSUME NEW t \in Tabs, NEW p \in Asked, Navigate(t, p) PROVE IInv'
      BY <1>4, NavigateInv
<1>5. ASSUME NEW x \in exchanges,
             \/ LoginRead(x) \/ LoginBind(x) \/ LoginHeard(x) \/ LoginStored(x)
             \/ LoginRefused(x) \/ LoginLost(x) \/ LoginUnheard(x)
      PROVE  IInv'
      BY <1>5, LoginReadInv, LoginBindInv, LoginHeardInv, LoginStoredInv,
         DroppedInv, LoginLostInv
<1>6. ASSUME NEW x \in exchanges,
             \/ LogoutHeard(x) \/ LogoutFails(x) \/ LogoutLost(x)
             \/ LogoutClears(x)
      PROVE  IInv'
      BY <1>6, LogoutHeardInv, LogoutFailsInv, LogoutLostInv, LogoutClearsInv
<1>7. ASSUME NEW b \in Browsers, Forget(b) PROVE IInv'
      BY <1>7, ForgetInv
<1>8. ASSUME NEW b \in Browsers, NEW k \in {access[b], token[b], local[b]},
             Expire(b, k)
      PROVE  IInv'
      BY <1>8, ExpireInv
<1>10. ASSUME NEW c \in Changes, SetRole(c[1], c[2]) PROVE IInv'
      BY <1>10, SetRoleInv
<1>9. ASSUME UNCHANGED vars PROVE IInv'
  <2>1. UNCHANGED <<browser, roleOf, deviceId, access, token, role, local, at,
                    exchanges, issued, raced, torn, out>>
        BY <1>9 DEF vars, users, stores, history
  <2>2. TypeOK BY DEF IInv
  <2> QED BY <2>1, <2>2, FewerInv DEF TypeOK
<1> QED BY <1>1, <1>2, <1>3, <1>4, <1>5, <1>6, <1>7, <1>8, <1>9, <1>10 DEF Next

\* In every reachable state the invariant above holds, whatever is logged in,
\* out, lost or expired in whatever tab.
THEOREM Invariant == Spec => []IInv
<1>1. IInv /\ [Next]_vars => IInv' BY NextInv
<1> QED BY InitInv, <1>1, PTL DEF Spec

\* The types of the four copies, of the rows and of the exchanges: no copy holds
\* anything but a token or nothing, and no more exchanges are begun than may be.
THEOREM TypeCorrect == Spec => []TypeOK
<1>1. IInv => TypeOK BY DEF IInv
<1> QED BY Invariant, <1>1, PTL

\* A browser at rest is one user, in all four copies that the login page, the
\* BFF and the logout button write, unless exchanges overlapped or broke off.
THEOREM IdentityCorrect == Spec => []OneIdentity
<1>1. IInv => OneIdentity
      BY DEF IInv, AgreeInv, Agrees, Heard, OneIdentity
<1> QED BY Invariant, <1>1, PTL

\* A logout that ran alone and was answered leaves nothing in the browser, until
\* somebody logs in there (handleLogout and the BFF's logout route).
THEOREM LoggedOutCorrect == Spec => []LoggedOutEverywhere
<1>1. IInv => LoggedOutEverywhere BY DEF IInv, OutInv, LoggedOutEverywhere
<1> QED BY Invariant, <1>1, PTL

\* AuthService.login lets whoever it reads as staff in only on the device that
\* the account is bound to, and the binding stays while that session lives,
\* whatever role he is given meanwhile; unless two first logins raced.
THEOREM BoundCorrect == Spec => []BoundWhereLoggedIn
<1>1. IInv => BoundWhereLoggedIn BY DEF IInv
<1> QED BY Invariant, <1>1, PTL

----------------------------------------------------------------------------
(* What RedirectsEnd rests on: a variant of the proxy's redirects.         *)

\* How many more times a tab is sent elsewhere, if the cookies stay as they
\* are but for what the proxy itself deletes.
Hops(t) ==
  LET b == browser[t] IN
  IF Bearer(b) = None THEN IF at[t].page = "/login" THEN 0 ELSE 1
  ELSE IF at[t].page = "/login" THEN 2
  ELSE IF at[t].page = "/dashboard" \/ (Secret /\ ~Bearer(b).live) THEN 1 ELSE 0

\* Whatever moves a tab that is on its way to a page brings it there or nearer,
\* or is the end of a login or logout of its own, which sends it elsewhere.
RedirectStep ==
  \A t \in Tabs :
    ~at[t].shown /\ at'[t] # at[t] =>
      \/ at'[t].shown \/ Hops(t)' < Hops(t)
      \/ \E x \in exchanges \ exchanges' : x.tab = t

\* One answer of the proxy to a tab that is on its way.
LEMMA ProxyLowers ==
  ASSUME TypeOK, NEW t \in Tabs, Proxy(t)
  PROVE  at'[t].shown \/ Hops(t)' < Hops(t)
<1> DEFINE b == browser[t]
           p == at[t].page
<1>1. /\ b \in Browsers /\ browser' = browser
      /\ \A w : [at EXCEPT ![t] = w][t] = w
      /\ \A f, q : f = [at EXCEPT ![t] = q] => f[t] = q
  BY DEF TypeOK, Proxy
<1>2. ASSUME EndSession(t)
      PROVE  at'[t] = Going("/login") /\ Bearer(b)' = None
  BY <1>1, <1>2 DEF EndSession, Bearer, TypeOK
<1>3. \A q \in Places :
        Redirect(t, q) => at'[t] = Going(q) /\ Bearer(b)' = Bearer(b)
  BY <1>1 DEF Redirect, Bearer, stores
<1>4. ASSUME NEW q, Show(t, q)
      PROVE  /\ Bearer(b)' = Bearer(b)
             /\ \/ at'[t].shown
                \/ q = "/dashboard" /\ at'[t] = Going("/dashboard/tasks")
  BY <1>1, <1>4 DEF Show, Showing, Bearer, stores
<1>5. CASE Bearer(b) = None
  <2>1. \/ p = "/login" /\ Show(t, p)
        \/ p # "/login" /\ Redirect(t, "/login")
    BY <1>5 DEF Proxy
  <2>2. CASE p = "/login" /\ Show(t, p)
    BY <1>4, <2>2
  <2>3. CASE p # "/login" /\ Redirect(t, "/login")
    <3>1. at'[t] = Going("/login") /\ Bearer(b)' = Bearer(b)
      BY <1>3, <2>3 DEF Places, Paths
    <3>2. at'[t].page = "/login"
      BY <3>1 DEF Going
    <3> QED BY <1>1, <1>5, <2>3, <3>1, <3>2 DEF Hops
  <2> QED BY <2>1, <2>2, <2>3
<1>6. CASE Bearer(b) # None /\ p = "/login"
  <2>1. Redirect(t, "/dashboard")
    BY <1>6 DEF Proxy
  <2>2. at'[t].page = "/dashboard" /\ Bearer(b)' = Bearer(b)
    BY <1>3, <2>1 DEF Going, Places, Paths, Protected
  <2> QED BY <1>1, <1>6, <2>2 DEF Hops
<1>7. CASE Bearer(b) # None /\ p # "/login" /\ Secret /\ ~Bearer(b).live
  BY <1>1, <1>2, <1>7 DEF Proxy, Hops, Going
<1>8. CASE Bearer(b) # None /\ p # "/login" /\ ~(Secret /\ ~Bearer(b).live)
  <2>1. \E q \in {p, "/unauthorized"} : Show(t, q)
    BY <1>8 DEF Proxy
  <2> QED BY <1>1, <1>4, <1>8, <2>1 DEF Hops, Going
<1> QED BY <1>5, <1>6, <1>7, <1>8

\* Nothing else moves a tab than the proxy and the answers it awaits.
LEMMA TabMoves ==
  ASSUME TypeOK, Placed, [Next]_vars, NEW t \in Tabs, ~at[t].shown,
         at'[t] # at[t]
  PROVE  Proxy(t) \/ \E x \in exchanges \ exchanges' : x.tab = t
<1>1. ASSUME NEW s \in Tabs, NEW w, at' = [at EXCEPT ![s] = w]
      PROVE  s = t
  BY <1>1 DEF TypeOK
<1>2. ASSUME NEW s \in Tabs, Proxy(s) PROVE s = t
  BY <1>1, <1>2 DEF Proxy, Show, Redirect, EndSession
<1>3. ASSUME NEW s \in Tabs, NEW p \in Asked, Navigate(s, p) PROVE FALSE
  BY <1>1, <1>3 DEF Navigate
<1>4. ASSUME NEW x \in exchanges, LoginStored(x) \/ LogoutClears(x)
      PROVE  x \notin exchanges' /\ x.tab = t
  <2>1. x.tab \in Tabs /\ x \notin exchanges'
    BY <1>4 DEF LoginStored, LogoutClears, Enter, Leave, TypeOK, Placed
  <2>2. \E w : at' = [at EXCEPT ![x.tab] = w]
    BY <1>4 DEF LoginStored, LogoutClears, Enter, Leave
  <2> QED BY <1>1, <2>1, <2>2
<1> QED
  BY <1>2, <1>3, <1>4
  DEF Next, vars, Logout, SubmitLogin, LoginRead, LoginBind, LoginHeard,
      LoginRefused, LoginLost, LoginUnheard, LogoutHeard, LogoutFails,
      LogoutLost, Forget, Expire, SetRole

\* The proxy answers a navigation at the latest with the third page it tries,
\* as long as nobody else touches the cookies and no answer of a login or
\* logout that the tab still awaits sends it elsewhere: Hops is at most 2, and
\* every other step of a tab on its way lowers it or ends the way, whatever the
\* cookies hold, with JWT_SECRET or without (the branches of proxy and the
\* effect of the dashboard).
THEOREM RedirectCorrect == Spec => [][RedirectStep]_vars
<1>1. IInv => TypeOK /\ Placed
  BY DEF IInv
<1>2. TypeOK /\ Placed /\ [Next]_vars => [RedirectStep]_vars
  BY TabMoves, ProxyLowers DEF RedirectStep
<1> QED BY Invariant, <1>1, <1>2, PTL DEF Spec
=============================================================================
