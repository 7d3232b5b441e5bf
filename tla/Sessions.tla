------------------------------ MODULE Sessions ------------------------------
(***************************************************************************)
(* Logging in and out: AuthService.login with its device binding, the BFF  *)
(* routes that set and delete the access_token cookie, the login page and  *)
(* the logout button that keep three copies of their own, and the proxy    *)
(* that decides on every navigation from whatever of these is there.       *)
(*                                                                         *)
(* The tabs of one browser share its cookies and its localStorage.  An     *)
(* exchange sets or deletes the HttpOnly cookie when the response comes    *)
(* in, and the other copies later, when the page's handler runs; another   *)
(* tab may act in between.                                                 *)
(*                                                                         *)
(* A token names its user and the role that user had when it was signed;   *)
(* it is live for a day.  An administrator may change the role meanwhile.  *)
(***************************************************************************)
EXTENDS Naturals

CONSTANTS
  Users, Browsers, Tabs,
  Starts,     \* bound: which tab is in which browser, whose session each
              \* browser holds at first, and the role of each user
  Asked,      \* bound: the pages people go to by a link or an address
  Changes,    \* bound: who may be given which role while all this goes on
  DeviceOf,   \* the deviceId the login page computes in each browser, from
              \* the first 48 bytes of the user agent: not one of its own
  Secret,       \* whether the proxy was given JWT_SECRET
  MaxExchanges, \* bound: how many logins and logouts there are
  None

Protected == {"/dashboard", "/dashboard/tasks", "/admin"}
Paths == Protected \cup {"/login"}
Places == Paths \cup {"/unauthorized"}

Roles == {"ADMIN", "SUPERVISOR", "STAFF"}
Exchanges == 1..MaxExchanges
Tokens == [user : Users, role : Roles, live : BOOLEAN]
Fresh(u, r) == [user |-> u, role |-> r, live |-> TRUE]
Devices == {DeviceOf[b] : b \in Browsers}

ASSUME SessionsAssumption ==
  /\ Starts \subseteq [browser : [Tabs -> Browsers],
                       held : [Browsers -> Users \cup {None}],
                       roles : [Users -> Roles]]
  /\ Asked \subseteq Paths /\ Changes \subseteq Users \X Roles
  /\ Users # {} /\ Secret \in BOOLEAN /\ MaxExchanges \in Nat
  /\ None \notin Users \cup Tabs \cup Tokens \cup Devices

VARIABLES
  browser,       \* the browser each tab is in: never changes
  roleOf,        \* of each user, in the database
  deviceId,      \* of each user, in the database
  access,        \* the access_token cookie of each browser
  token, role,   \* the cookies the login page writes
  local,         \* the token in localStorage
  at,            \* the page that each tab shows or is being sent to
  exchanges,     \* the logins and logouts under way
  issued,        \* how many there have been, up to MaxExchanges
  raced,         \* history: users who had two first logins at a time
  torn,          \* history: browsers where exchanges overlapped or broke off
  out            \* history: browsers whose last exchange was a whole logout

users == <<roleOf, deviceId>>
stores == <<access, token, role, local>>
history == <<raced, torn, out>>
vars == <<browser, users, stores, at, exchanges, issued, history>>

Going(p) == [page |-> p, shown |-> FALSE]
Showing(p) == [page |-> p, shown |-> TRUE]

\* A browser may hold the session of an earlier login, and a tab of it still
\* show the login page.
Init ==
  \E start \in Starts :
    LET held == start.held  roles == start.roles IN
    /\ browser = start.browser
    /\ roleOf = roles
    /\ deviceId \in [Users -> Devices \cup {None}]
    /\ \A u \in Users : deviceId[u] # None =>
         roles[u] # "ADMIN" /\ \E b \in Browsers : held[b] = u
    /\ \A b \in Browsers : held[b] # None /\ roles[held[b]] # "ADMIN"
                            => deviceId[held[b]] = DeviceOf[b]
    /\ token = [b \in Browsers |->
         IF held[b] = None THEN None ELSE Fresh(held[b], roles[held[b]])]
    /\ access = token /\ local = token
    /\ role = [b \in Browsers |->
         IF held[b] = None THEN None ELSE roles[held[b]]]
    /\ at \in [Tabs -> {Showing("/login"), Showing("/dashboard/tasks")}]
    /\ \A t \in Tabs : held[browser[t]] = None => at[t] = Showing("/login")
    /\ exchanges = {} /\ issued = 0
    /\ raced = {} /\ torn = {} /\ out = {}

----------------------------------------------------------------------------
(* Exchanges. *)

\* Those whose answer some tab of b awaits.
Awaited(b) == {x \in exchanges : x.tab # None /\ browser[x.tab] = b}

Begin(t, kind, u) ==
  LET b == browser[t] IN
  /\ issued < MaxExchanges
  /\ issued' = issued + 1
  /\ exchanges' =
       {[x EXCEPT !.alone = @ /\ x \notin Awaited(b)] : x \in exchanges} \cup
       {[n |-> issued', kind |-> kind, user |-> u, role |-> None, tab |-> t,
         browser |-> b, stage |-> "sent", alone |-> Awaited(b) = {}]}
  /\ torn' = IF Awaited(b) = {} THEN torn ELSE torn \cup {b}
  /\ out' = out \ {b}

Advance(x, stage) ==
  exchanges' = (exchanges \ {x}) \cup {[x EXCEPT !.stage = stage]}

\* An exchange that ran alone leaves the copies of its browser in order.
Settle(x) == torn' = IF x.alone THEN torn \ {x.browser} ELSE torn

----------------------------------------------------------------------------
(* handleSubmit of the login page, the BFF's login route, AuthService.login. *)

\* The button is disabled while its own form awaits an answer; a form that was
\* left and come back to is another one, and the tab may still await the first.
SubmitLogin(t, u) ==
  /\ at[t] = Showing("/login")
  /\ Begin(t, "login", u)
  /\ UNCHANGED <<browser, users, stores, at, raced>>

\* What the service does next, by the row it has read.
Verdict_AnyDevice(u, d) ==
  IF roleOf[u] # "ADMIN" /\ deviceId[u] = None THEN "bind" ELSE "ok"

Verdict(u, d) ==
  IF roleOf[u] = "ADMIN" THEN "ok"
  ELSE IF deviceId[u] = None THEN "bind"
  ELSE IF deviceId[u] = d THEN "ok" ELSE "refused"

Binding(u) == {x \in exchanges : x.user = u /\ x.stage = "bind"}

\* A wrong password is refused before the device is looked at.  The token will
\* carry the role that was read.
LoginRead(x) ==
  /\ x.kind = "login" /\ x.stage = "sent"
  /\ \E right \in BOOLEAN :
       LET v == IF right THEN Verdict(x.user, DeviceOf[x.browser])
                ELSE "refused" IN
       /\ exchanges' = (exchanges \ {x}) \cup
                         {[x EXCEPT !.stage = v, !.role = roleOf[x.user]]}
       /\ raced' = IF v = "bind" /\ Binding(x.user) # {}
                   THEN raced \cup {x.user} ELSE raced
  /\ UNCHANGED <<browser, users, stores, at, issued, torn, out>>

\* The update does not look again.
LoginBind(x) ==
  /\ x.kind = "login" /\ x.stage = "bind"
  /\ deviceId' = [deviceId EXCEPT ![x.user] = DeviceOf[x.browser]]
  /\ Advance(x, "ok")
  /\ UNCHANGED <<browser, roleOf, stores, at, issued, history>>

\* The response of the BFF sets its cookie.
LoginHeard(x) ==
  /\ x.kind = "login" /\ x.stage = "ok" /\ x.tab # None
  /\ access' = [access EXCEPT ![x.browser] = Fresh(x.user, x.role)]
  /\ Advance(x, "heard")
  /\ UNCHANGED <<browser, users, token, role, local, at, issued, history>>

\* Where the page goes then: callbackUrl, or the dashboard.
Enter(x) ==
  /\ exchanges' = exchanges \ {x}
  /\ \E p \in Protected : at' = [at EXCEPT ![x.tab] = Going(p)]
  /\ Settle(x)
  /\ UNCHANGED <<browser, users, access, issued, raced, out>>

LoginStored_KeepsLocal(x) ==
  LET b == x.browser  t == Fresh(x.user, x.role) IN
  /\ x.kind = "login" /\ x.stage = "heard"
  /\ token' = [token EXCEPT ![b] = t]
  /\ role' = [role EXCEPT ![b] = x.role]
  /\ local' = IF local[b] = None THEN [local EXCEPT ![b] = t] ELSE local
  /\ Enter(x)

LoginStored(x) ==
  LET b == x.browser  t == Fresh(x.user, x.role) IN
  /\ x.kind = "login" /\ x.stage = "heard"
  /\ token' = [token EXCEPT ![b] = t]
  /\ role' = [role EXCEPT ![b] = x.role]
  /\ local' = [local EXCEPT ![b] = t]
  /\ Enter(x)

LoginRefused(x) ==
  /\ x.kind = "login" /\ x.stage = "refused"
  /\ exchanges' = exchanges \ {x}
  /\ UNCHANGED <<browser, users, stores, at, issued, history>>

\* The connection breaks, or the tab is reloaded; the backend goes on.
LoginLost(x) ==
  /\ x.kind = "login" /\ x.tab # None
  /\ exchanges' = (exchanges \ {x}) \cup
       (IF x.stage = "heard" THEN {} ELSE {[x EXCEPT !.tab = None]})
  /\ torn' = IF x.stage = "heard" THEN torn \cup {x.browser} ELSE torn
  /\ UNCHANGED <<browser, users, stores, at, issued, raced, out>>

LoginUnheard(x) ==
  /\ x.kind = "login" /\ x.stage = "ok" /\ x.tab = None
  /\ exchanges' = exchanges \ {x}
  /\ UNCHANGED <<browser, users, stores, at, issued, history>>

----------------------------------------------------------------------------
(* handleLogout and the BFF's logout route. *)

\* Neither the menu's item nor the links are disabled while it is awaited.
Logout(t) ==
  /\ at[t] \in {Showing("/dashboard"), Showing("/dashboard/tasks")}
  /\ Begin(t, "logout", None)
  /\ UNCHANGED <<browser, users, stores, at, raced>>

LogoutHeard(x) ==
  /\ x.kind = "logout" /\ x.stage = "sent"
  /\ access' = [access EXCEPT ![x.browser] = None]
  /\ Advance(x, "heard")
  /\ UNCHANGED <<browser, users, token, role, local, at, issued, history>>

\* The page catches the error and goes on.
LogoutFails(x) ==
  /\ x.kind = "logout" /\ x.stage = "sent"
  /\ Advance(x, "failed")
  /\ UNCHANGED <<browser, users, stores, at, issued, history>>

Leave(x) ==
  /\ x.kind = "logout" /\ x.stage \in {"heard", "failed"}
  /\ exchanges' = exchanges \ {x}
  /\ at' = [at EXCEPT ![x.tab] = Going("/login")]
  /\ Settle(x)
  /\ out' = IF x.alone /\ x.stage = "heard" THEN out \cup {x.browser} ELSE out
  /\ UNCHANGED <<browser, users, access, issued, raced>>

\* The tab is reloaded, or left by typing an address, before the handler is
\* through: with the response, or without it.
LogoutLost(x) ==
  /\ x.kind = "logout"
  /\ exchanges' = exchanges \ {x}
  /\ torn' = IF x.stage = "heard" THEN torn \cup {x.browser} ELSE torn
  /\ UNCHANGED <<browser, users, stores, at, issued, raced, out>>

LogoutClears_KeepsLocal(x) ==
  /\ Leave(x)
  /\ token' = [token EXCEPT ![x.browser] = None]
  /\ role' = [role EXCEPT ![x.browser] = None]
  /\ UNCHANGED local

LogoutClears(x) ==
  /\ Leave(x)
  /\ token' = [token EXCEPT ![x.browser] = None]
  /\ role' = [role EXCEPT ![x.browser] = None]
  /\ local' = [local EXCEPT ![x.browser] = None]

----------------------------------------------------------------------------
(* Navigation, and the proxy it passes through. *)

\* The handler of a login or logout that is under way goes on behind the page.
Navigate(t, p) ==
  /\ at[t].shown
  /\ at' = [at EXCEPT ![t] = Going(p)]
  /\ UNCHANGED <<browser, users, stores, exchanges, issued, history>>

Bearer(b) == IF access[b] # None THEN access[b] ELSE token[b]

Allowed(p) == IF p = "/admin" THEN {"ADMIN"} ELSE Roles

\* The role of the token once it is verified; without JWT_SECRET the cookie's.
RoleSeen(b) == IF Secret THEN Bearer(b).role ELSE role[b]

Redirect(t, p) == at' = [at EXCEPT ![t] = Going(p)] /\ UNCHANGED stores

\* The dashboard's own effect sends staff on to their tasks.
Show(t, p) ==
  /\ at' = [at EXCEPT ![t] =
       IF p = "/dashboard" /\ role[browser[t]] = "STAFF"
       THEN Going("/dashboard/tasks") ELSE Showing(p)]
  /\ UNCHANGED stores

\* A token that does not verify ends the session.
EndSession_KeepsCookies(t) == Redirect(t, "/login")

EndSession(t) ==
  LET b == browser[t] IN
  /\ access' = [access EXCEPT ![b] = None]
  /\ token' = [token EXCEPT ![b] = None]
  /\ role' = [role EXCEPT ![b] = None]
  /\ at' = [at EXCEPT ![t] = Going("/login")]
  /\ UNCHANGED local

Proxy(t) ==
  LET b == browser[t]  p == at[t].page IN
  /\ ~at[t].shown
  /\ IF Bearer(b) = None
       THEN IF p = "/login" THEN Show(t, p) ELSE Redirect(t, "/login")
     ELSE IF p = "/login" THEN Redirect(t, "/dashboard")
     ELSE IF Secret /\ ~Bearer(b).live THEN EndSession(t)
     ELSE Show(t, IF RoleSeen(b) \in Allowed(p) THEN p ELSE "/unauthorized")
  /\ UNCHANGED <<browser, users, exchanges, issued, history>>

----------------------------------------------------------------------------
(* Time, and the administrators. *)

Aged(c, k) == IF c = k THEN [k EXCEPT !.live = FALSE] ELSE c

\* A token lives for a day, and so does the cookie set with it; no exchange
\* takes that long.
Expire(b, k) ==
  /\ k # None /\ k.live /\ Awaited(b) = {}
  /\ access' = IF access[b] = k THEN [access EXCEPT ![b] = None] ELSE access
  /\ token' = [token EXCEPT ![b] = Aged(@, k)]
  /\ local' = [local EXCEPT ![b] = Aged(@, k)]
  /\ UNCHANGED <<browser, users, role, at, exchanges, issued, history>>

\* The page's own cookies live for a week.
Forget(b) ==
  /\ token[b] # None /\ ~token[b].live
  /\ token' = [token EXCEPT ![b] = None]
  /\ role' = [role EXCEPT ![b] = None]
  /\ UNCHANGED <<browser, users, access, local, at, exchanges, issued, history>>

\* PATCH /users/:id, which every save of the user dialog sends; nobody's device
\* or token is touched.
SetRole(u, r) ==
  /\ roleOf[u] # r
  /\ roleOf' = [roleOf EXCEPT ![u] = r]
  /\ UNCHANGED <<browser, deviceId, stores, at, exchanges, issued, history>>

----------------------------------------------------------------------------
Next ==
  \/ \E t \in Tabs : \/ Logout(t) \/ Proxy(t)
                     \/ \E u \in Users : SubmitLogin(t, u)
                     \/ \E p \in Asked : Navigate(t, p)
  \/ \E x \in exchanges :
       \/ LoginRead(x) \/ LoginBind(x) \/ LoginHeard(x) \/ LoginStored(x)
       \/ LoginRefused(x) \/ LoginLost(x) \/ LoginUnheard(x)
       \/ LogoutHeard(x) \/ LogoutFails(x) \/ LogoutLost(x)
       \/ LogoutClears(x)
  \/ \E b \in Browsers :
       Forget(b) \/ \E k \in {access[b], token[b], local[b]} : Expire(b, k)
  \/ \E c \in Changes : SetRole(c[1], c[2])

Spec == Init /\ [][Next]_vars

\* The front end's server answers every navigation.
FairSpec == Spec /\ \A t \in Tabs : WF_vars(Proxy(t))

----------------------------------------------------------------------------
(* Properties *)

\* Every variable has the type its comment gives it.
TypeOK ==
  /\ roleOf \in [Users -> Roles]
  /\ deviceId \in [Users -> Devices \cup {None}]
  /\ access \in [Browsers -> Tokens \cup {None}]
  /\ token \in [Browsers -> Tokens \cup {None}]
  /\ role \in [Browsers -> Roles \cup {None}]
  /\ local \in [Browsers -> Tokens \cup {None}]
  /\ at \in [Tabs -> [page : Places, shown : BOOLEAN]]
  /\ exchanges \subseteq
       [n : Exchanges, kind : {"login", "logout"}, user : Users \cup {None},
        role : Roles \cup {None}, tab : Tabs \cup {None}, browser : Browsers,
        stage : {"sent", "bind", "ok", "refused", "heard", "failed"},
        alone : BOOLEAN]
  /\ issued \in 0..MaxExchanges
  /\ browser \in [Tabs -> Browsers]
  /\ raced \subseteq Users /\ torn \subseteq Browsers /\ out \subseteq Browsers

\* A browser is one user in one role at a time: the cookie that the BFF
\* forwards, the one that apiRequest reads, the token that the offline queue is
\* replayed with and the role that the sidebar and the dashboard go by agree,
\* through logouts that fail, tokens that expire, sessions that the proxy ends
\* and roles that an administrator changes; unless two exchanges overlapped or
\* one broke off half-way.
OneIdentity ==
  \A b \in Browsers \ torn : Awaited(b) = {} =>
    \E u \in Users, r \in Roles :
      /\ \A k \in {access[b], token[b], local[b]} :
           k # None => k.user = u /\ k.role = r
      /\ role[b] \in {None, r}

\* After a logout that the server answered nothing is left to act with, in no
\* tab and in none of the four places, until somebody logs in.
LoggedOutEverywhere ==
  \A b \in out : {access[b], token[b], role[b], local[b]} = {None}

\* Who was let in as staff is logged in only where the account is bound to, and
\* the binding does not move while he is, whatever becomes of his role; unless
\* two first logins raced, of which the later one binds and both are let in.
\* (A session begun as an administrator is bound to nothing, and goes on so for
\* its day when the role is taken away.)
BoundWhereLoggedIn ==
  \A b \in Browsers :
    access[b] # None /\ access[b].role # "ADMIN"
      /\ access[b].user \notin raced
      => deviceId[access[b].user] = DeviceOf[b]

\* The proxy's redirects end, whatever has expired and whoever logs in or out
\* in another tab: no tab is sent back and forth between the login page and
\* the dashboard.
RedirectsEnd == \A t \in Tabs : ~at[t].shown ~> at[t].shown
=============================================================================
