------------------------------- MODULE Account -------------------------------
(***************************************************************************)
(* The account of a browser: the cookies all tabs share, the routes of the *)
(* Next.js server that set and delete them, the refresh tokens of Keycloak *)
(* (each usable once: with revokeRefreshToken, one that is presented again *)
(* ends the whole login it came from), and in every tab the page, the role *)
(* the components last read, and the useAuth instances that refresh the    *)
(* tokens every twelve minutes.  An access token is named by the refresh   *)
(* token it was issued with, a login by the first token it was given.      *)
(***************************************************************************)
EXTENDS Integers, Sequences, FiniteSets

CONSTANTS Tabs,        \* the tabs of one browser
          Instances,   \* the components of a page that call useAuth
          Users,       \* the people who sign in on this machine
          Admins,      \* those with the realm role it-admin
          Opened,      \* the pages people open by hand
          MaxTokens,   \* token pairs Keycloak issues in a behaviour
          MaxLosses    \* responses the network loses, failures of Keycloak

ASSUME AccountConstants ==
  /\ Admins \subseteq Users /\ Opened \subseteq {"login", "chat", "admin"}
  /\ MaxTokens \in Nat \ {0} /\ MaxLosses \in Nat
  /\ IsFiniteSet(Tabs) /\ IsFiniteSet(Instances)

Tokens == 1 .. MaxTokens
NoToken == 0
Roles == {"none", "employee", "it-admin"}
Pages == {"login", "chat", "admin"}

VARIABLES cookies,    \* access_token, user_role and refresh_token
          issued,     \* the owner and the login of each token pair issued so far
          used,       \* the refresh tokens Keycloak has taken
          expired,    \* the refresh tokens past their eight hours
          ended,      \* the logins Keycloak ended because a token came twice
          tabs,       \* page, the page to return to, the role last read, timers
          refreshes,  \* the refresh each useAuth instance has in flight
          losses,     \* responses the network lost, failures of Keycloak
          worst,      \* the worst that befell a refresh: "overlapped" another on its way,
                      \* "dropped" (lost or abandoned) after it was asked
          signedOut   \* signed out, and no refresh on its way could bring the cookies back

accountVars ==
  <<cookies, issued, used, expired, ended, tabs, refreshes, losses, worst, signedOut>>

\* Mutant: the realm role goes into the cookie as Keycloak names it.
Mut_RoleOf(u) == IF u \in Admins THEN "it-admin" ELSE "default-roles"

RoleOf(u) == IF u \in Admins THEN "it-admin" ELSE "employee"

NoCookies == [access |-> NoToken, role |-> "none", refresh |-> NoToken]

\* login, refresh and set-token all set the three cookies in one response.
SetCookies(n, u) == [access |-> n, role |-> RoleOf(u), refresh |-> n]

LoggedIn == cookies.role # "none"

\* proxy.ts, on every navigation: the page that is served instead.
Served(page) ==
  IF page = "login" THEN "login"
  ELSE IF cookies.access = NoToken \/ ~LoggedIn THEN "login"
  ELSE IF page = "admin" /\ cookies.role # "it-admin" THEN "chat"
  ELSE page

\* A page load: what was in memory is gone, the cookies are read anew.
Loaded(page, back) ==
  [page |-> page, back |-> back, seen |-> cookies.role, timer |-> FALSE, job |-> "none"]

\* A navigation through the proxy, which remembers the page it turned away.
Arrive(page) ==
  LET to == Served(page)
  IN  Loaded(to, IF to = "login" /\ page # "login" THEN page ELSE "none")

Home(role) == IF role = "it-admin" THEN "admin" ELSE "chat"

NoRefresh == [pc |-> "none", token |-> NoToken]

\* To the hook, a refresh that failed.
Refused == [pc |-> "refused", token |-> NoToken]

AccountInit ==
  /\ cookies = NoCookies
  /\ issued = <<>>
  /\ used = {} /\ expired = {} /\ ended = {}
  /\ tabs = [b \in Tabs |-> [page |-> "login", back |-> "none", seen |-> "none",
                             timer |-> FALSE, job |-> "none"]]
  /\ refreshes = [b \in Tabs |-> [i \in Instances |-> NoRefresh]]
  /\ losses = 0 /\ worst = "none" /\ signedOut = FALSE

\* Keycloak grants a token that it has not taken, that is not expired and whose login stands.
Usable(n) == n # NoToken /\ n \notin used \cup expired /\ issued[n].login \notin ended

\* The instances of a tab whose refresh is in one of these states.
In(b, pcs) == {i \in Instances : refreshes[b][i].pc \in pcs}

OnTheWay == {"asked", "granted"}

\* Requests of a page that is left are aborted; some of their tokens still reach Keycloak,
\* one of them perhaps for the second time.
Unload(b) ==
  /\ refreshes' = [refreshes EXCEPT ![b] = [i \in Instances |-> NoRefresh]]
  /\ \E reached \in SUBSET In(b, {"asked"}) :
       LET again == {i \in reached :
                       \/ refreshes[b][i].token \in used
                       \/ \E j \in reached : j # i /\ refreshes[b][j].token = refreshes[b][i].token}
       IN  /\ used' = used \cup {refreshes[b][i].token : i \in reached}
           /\ ended' = ended \cup {issued[refreshes[b][i].token].login : i \in again}
  /\ worst' = IF In(b, OnTheWay) # {} THEN "dropped" ELSE worst

keycloakVars == <<issued, used, expired, ended>>
refreshVars == <<refreshes, losses, worst>>

----------------------------------------------------------------------------
(* Signing in                                                              *)

\* The form is disabled while a request is under way.
SubmitLogin(b) ==
  /\ tabs[b].page = "login" /\ tabs[b].job = "none"
  /\ tabs' = [tabs EXCEPT ![b].job = "login"]
  /\ UNCHANGED <<cookies, keycloakVars, refreshVars, signedOut>>

\* loginWithCredentials: Keycloak issues a pair and the route sets the cookies.
LoginGranted(b) ==
  /\ tabs[b].job = "login"
  /\ Len(issued) < MaxTokens
  /\ \E u \in Users :
       /\ issued' = Append(issued, [owner |-> u, login |-> Len(issued) + 1])
       /\ cookies' = SetCookies(Len(issued) + 1, u)
  /\ tabs' = [tabs EXCEPT ![b].job = "entered"]
  /\ signedOut' = FALSE
  /\ UNCHANGED <<used, expired, ended, refreshVars>>

LoginRefused(b) ==
  /\ tabs[b].job = "login"
  /\ tabs' = [tabs EXCEPT ![b].job = "none"]
  /\ UNCHANGED <<cookies, keycloakVars, refreshVars, signedOut>>

\* The page in the redirect parameter, else the home of the role.
Wanted(b) == IF tabs[b].back # "none" THEN tabs[b].back ELSE Home(cookies.role)

\* The page the employee came from, or the home of the role the cookie names now.
Entered(b) ==
  /\ tabs[b].job = "entered"
  /\ tabs' = [tabs EXCEPT ![b] = Arrive(Wanted(b))]
  /\ UNCHANGED <<cookies, keycloakVars, refreshVars, signedOut>>

\* The login page of a browser that is signed in sends the visitor on.
SkipLogin(b) ==
  /\ tabs[b].page = "login" /\ tabs[b].job = "none" /\ LoggedIn
  /\ tabs' = [tabs EXCEPT ![b] = Arrive(Wanted(b))]
  /\ UNCHANGED <<cookies, keycloakVars, refreshVars, signedOut>>

----------------------------------------------------------------------------
(* A page in use                                                           *)

\* The employee opens a page: a full load through the proxy.
Visit(b, page) ==
  /\ tabs[b].job = "none" /\ tabs[b].page # page
  /\ tabs' = [tabs EXCEPT ![b] = Arrive(page)]
  /\ Unload(b)
  /\ UNCHANGED <<cookies, issued, expired, losses, signedOut>>

\* A focus event, or any render, reads the role cookie again.
ReadCookies(b) ==
  /\ tabs[b].page # "login" /\ tabs[b].seen # cookies.role
  /\ tabs' = [tabs EXCEPT ![b].seen = cookies.role]
  /\ UNCHANGED <<cookies, keycloakVars, refreshVars, signedOut>>

\* The layouts send the other role to its own portal; a visitor without a role stays.
RoleRedirect(b) ==
  /\ \/ tabs[b].page = "chat" /\ tabs[b].seen = "it-admin"
     \/ tabs[b].page = "admin" /\ tabs[b].seen = "employee"
  /\ tabs' = [tabs EXCEPT ![b] =
       [@ EXCEPT !.page = Served(Home(tabs[b].seen)), !.seen = cookies.role]]
  /\ UNCHANGED <<cookies, keycloakVars, refreshVars, signedOut>>

\* A call through /api/proxy without an access token: 401, a toast and a timer.
Unauthorized(b) ==
  /\ tabs[b].page # "login" /\ cookies.access = NoToken /\ ~tabs[b].timer
  /\ tabs' = [tabs EXCEPT ![b].timer = TRUE]
  /\ UNCHANGED <<cookies, keycloakVars, refreshVars, signedOut>>

\* The timer of the 401 leaves the page, even if the cookies are back.
TimerFires(b) ==
  /\ tabs[b].timer
  /\ tabs' = [tabs EXCEPT ![b] = Loaded("login", tabs[b].page)]
  /\ Unload(b)
  /\ UNCHANGED <<cookies, issued, expired, losses, signedOut>>

----------------------------------------------------------------------------
(* The silent refresh, one interval per useAuth instance                   *)

SetRefresh(b, i, r) == refreshes' = [refreshes EXCEPT ![b][i] = r]

\* The interval runs while the component believes it is signed in.
StartRefresh(b, i) ==
  /\ tabs[b].page # "login" /\ tabs[b].seen # "none"
  /\ refreshes[b][i].pc = "none"
  /\ SetRefresh(b, i, IF cookies.refresh = NoToken THEN Refused
                      ELSE [pc |-> "asked", token |-> cookies.refresh])
  /\ worst' = IF worst = "none" /\ \E c \in Tabs : In(c, OnTheWay) # {} THEN "overlapped" ELSE worst
  /\ UNCHANGED <<cookies, keycloakVars, tabs, losses, signedOut>>

\* Keycloak takes the token it is given, once.
RefreshGranted(b, i) ==
  /\ refreshes[b][i].pc = "asked" /\ Usable(refreshes[b][i].token)
  /\ Len(issued) < MaxTokens
  /\ issued' = Append(issued, issued[refreshes[b][i].token])
  /\ used' = used \cup {refreshes[b][i].token}
  /\ SetRefresh(b, i, [pc |-> "granted", token |-> Len(issued) + 1])
  /\ UNCHANGED <<cookies, expired, ended, tabs, losses, worst, signedOut>>

\* A token that was taken before and comes again ends its login: the pair it was exchanged
\* for, and every later one, dies with it.
RefreshRefused(b, i) ==
  /\ refreshes[b][i].pc = "asked" /\ ~Usable(refreshes[b][i].token)
  /\ ended' = IF refreshes[b][i].token \in used \ expired
               THEN ended \cup {issued[refreshes[b][i].token].login} ELSE ended
  /\ SetRefresh(b, i, [refreshes[b][i] EXCEPT !.pc = "denied"])
  /\ UNCHANGED <<cookies, issued, used, expired, tabs, losses, worst, signedOut>>

\* Keycloak is in trouble: the route takes any status that is not ok for a refusal.
RefreshFails(b, i) ==
  /\ refreshes[b][i].pc = "asked" /\ losses < MaxLosses
  /\ losses' = losses + 1
  /\ SetRefresh(b, i, [refreshes[b][i] EXCEPT !.pc = "denied"])
  /\ UNCHANGED <<cookies, keycloakVars, tabs, worst, signedOut>>

\* Mutant: the rotated refresh token is dropped.
Mut_RefreshAnswered(b, i) ==
  /\ refreshes[b][i].pc = "granted"
  /\ LET n == refreshes[b][i].token IN
       cookies' = [SetCookies(n, issued[n].owner) EXCEPT !.refresh = cookies.refresh]
  /\ SetRefresh(b, i, NoRefresh)
  /\ UNCHANGED <<keycloakVars, tabs, losses, worst, signedOut>>

\* The response arrives: all three cookies change together.
RefreshAnswered(b, i) ==
  /\ refreshes[b][i].pc = "granted"
  /\ LET n == refreshes[b][i].token IN cookies' = SetCookies(n, issued[n].owner)
  /\ SetRefresh(b, i, NoRefresh)
  /\ UNCHANGED <<keycloakVars, tabs, losses, worst, signedOut>>

RefreshDenied(b, i) ==
  /\ refreshes[b][i].pc = "denied"
  /\ cookies' = NoCookies
  /\ SetRefresh(b, i, Refused)
  /\ UNCHANGED <<keycloakVars, tabs, losses, worst, signedOut>>

\* The answer is lost: to the hook that is a failed refresh.
RefreshLost(b, i) ==
  /\ losses < MaxLosses
  /\ refreshes[b][i].pc \in {"asked", "granted", "denied"}
  /\ losses' = losses + 1 /\ worst' = "dropped"
  /\ SetRefresh(b, i, Refused)
  /\ UNCHANGED <<cookies, keycloakVars, tabs, signedOut>>

----------------------------------------------------------------------------
(* Signing out                                                             *)

\* logout, from the menu or after a failed refresh: stores first, then the cookies.
Logout(b) ==
  /\ tabs[b].page # "login" /\ tabs[b].job = "none"
  /\ \/ tabs[b].page = "admin" /\ UNCHANGED refreshes
     \/ \E i \in Instances : /\ refreshes[b][i].pc = "refused"
                             /\ SetRefresh(b, i, NoRefresh)
  /\ tabs' = [tabs EXCEPT ![b].job = "logout"]
  /\ UNCHANGED <<cookies, keycloakVars, losses, worst, signedOut>>

\* A refresh on its way, of any tab, that can still bring the cookies back.
Reviving ==
  \E b \in Tabs, i \in Instances :
    \/ refreshes[b][i].pc = "granted"
    \/ refreshes[b][i].pc = "asked" /\ Usable(refreshes[b][i].token)

\* Mutant: the refresh token survives the sign-out.
Mut_LogoutServed(b) ==
  /\ tabs[b].job = "logout"
  /\ cookies' = [NoCookies EXCEPT !.refresh = cookies.refresh]
  /\ tabs' = [tabs EXCEPT ![b].job = "leaving"]
  /\ signedOut' = ~Reviving
  /\ UNCHANGED <<keycloakVars, refreshVars>>

\* DELETE /api/auth/set-token is answered; the page, with its refreshes, is still there.
LogoutServed(b) ==
  /\ tabs[b].job = "logout"
  /\ cookies' = NoCookies
  /\ tabs' = [tabs EXCEPT ![b].job = "leaving"]
  /\ signedOut' = ~Reviving
  /\ UNCHANGED <<keycloakVars, refreshVars>>

\* Then the browser goes to /login.
LogoutLeaves(b) ==
  /\ tabs[b].job = "leaving"
  /\ tabs' = [tabs EXCEPT ![b] = Loaded("login", "none")]
  /\ Unload(b)
  /\ UNCHANGED <<cookies, issued, expired, losses, signedOut>>

\* The DELETE fails: the await throws and the page stays.
LogoutLost(b) ==
  /\ tabs[b].job = "logout" /\ losses < MaxLosses
  /\ losses' = losses + 1
  /\ tabs' = [tabs EXCEPT ![b].job = "none"]
  /\ UNCHANGED <<cookies, keycloakVars, refreshes, worst, signedOut>>

----------------------------------------------------------------------------
(* Time                                                                    *)

\* Mutant: the role cookie lives as long as the refresh token.
Mut_AccessExpires ==
  /\ cookies.access # NoToken
  /\ cookies' = [cookies EXCEPT !.access = NoToken]
  /\ UNCHANGED <<keycloakVars, tabs, refreshVars, signedOut>>

\* The access token and the role share their age; the refresh token outlives them.
AccessExpires ==
  /\ cookies.access # NoToken
  /\ cookies' = [cookies EXCEPT !.access = NoToken, !.role = "none"]
  /\ UNCHANGED <<keycloakVars, tabs, refreshVars, signedOut>>

RefreshExpires ==
  /\ cookies.refresh # NoToken /\ cookies.access = NoToken
  /\ expired' = expired \cup {cookies.refresh}
  /\ cookies' = [cookies EXCEPT !.refresh = NoToken]
  /\ UNCHANGED <<issued, used, ended, tabs, refreshVars, signedOut>>

----------------------------------------------------------------------------

TabStep(b) ==
  \/ SubmitLogin(b) \/ LoginGranted(b) \/ LoginRefused(b) \/ Entered(b) \/ SkipLogin(b)
  \/ \E page \in Opened : Visit(b, page)
  \/ ReadCookies(b) \/ RoleRedirect(b) \/ Unauthorized(b) \/ TimerFires(b)
  \/ Logout(b) \/ LogoutServed(b) \/ LogoutLeaves(b) \/ LogoutLost(b)

RefreshStep(b, i) ==
  \/ StartRefresh(b, i) \/ RefreshGranted(b, i) \/ RefreshRefused(b, i)
  \/ RefreshFails(b, i) \/ RefreshAnswered(b, i) \/ RefreshDenied(b, i) \/ RefreshLost(b, i)

AccountNext ==
  \/ \E b \in Tabs : TabStep(b) \/ \E i \in Instances : RefreshStep(b, i)
  \/ AccessExpires \/ RefreshExpires

AccountSpec == AccountInit /\ [][AccountNext]_accountVars

----------------------------------------------------------------------------
(* Properties                                                              *)

AccountTypeOK ==
  /\ cookies \in [access : Tokens \cup {NoToken}, role : Roles, refresh : Tokens \cup {NoToken}]
  /\ issued \in Seq([owner : Users, login : Tokens]) /\ Len(issued) <= MaxTokens
  /\ used \subseteq 1 .. Len(issued) /\ expired \subseteq 1 .. Len(issued) /\ ended \subseteq Tokens
  /\ tabs \in [Tabs -> [page : Pages, back : Pages \cup {"none"}, seen : Roles,
                        timer : BOOLEAN, job : {"none", "login", "entered", "logout", "leaving"}]]
  /\ refreshes \in [Tabs -> [Instances -> [pc : {"none", "asked", "granted", "denied", "refused"},
                                           token : Tokens \cup {NoToken}]]]
  /\ losses \in 0 .. MaxLosses /\ worst \in {"none", "overlapped", "dropped"}
  /\ signedOut \in BOOLEAN

\* The three cookies always speak of one account: a role is there exactly with an
\* access token, it is the role of the token's owner, and the refresh token belongs to
\* the same login, whoever signed in or out and whichever answers came late.
OneAccount ==
  /\ LoggedIn <=> cookies.access # NoToken
  /\ LoggedIn => cookies.role = RoleOf(issued[cookies.access].owner)
  /\ LoggedIn /\ cookies.refresh # NoToken => issued[cookies.refresh] = issued[cookies.access]

\* Once the refreshes are through and no answer was lost or left behind, the refresh token
\* in the cookies is the newest of its login, never a spent one, however many tabs asked
\* with the same token; and if no two refreshes overlapped, Keycloak still honours it.
RefreshTokenLive ==
  cookies.refresh # NoToken /\ worst # "dropped" /\ (\A b \in Tabs : In(b, OnTheWay) = {})
    => /\ cookies.refresh \notin used \cup expired
       /\ worst = "none" => Usable(cookies.refresh)

\* Nobody but a person who signs in undoes a sign-out, in any tab, unless a refresh was on
\* its way that Keycloak granted or could still grant when the sign-out was served.
SignOutStands == signedOut => cookies = NoCookies
==============================================================================
