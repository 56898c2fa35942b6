--------------------------- MODULE AccountProofs ---------------------------
(***************************************************************************)
(* For any number of tabs, useAuth instances, people and token pairs: the  *)
(* cookies of a browser speak of one account (AccountSafety); rotation     *)
(* keeps the newest refresh token of the login, which Keycloak honours if  *)
(* no two refreshes overlapped, and a sign-out stands (RotationSafety).    *)
(***************************************************************************)
EXTENDS Account, TLAPS

CookieRec == [access : Tokens \cup {NoToken}, role : Roles, refresh : Tokens \cup {NoToken}]
TabRec == [page : Pages, back : Pages \cup {"none"}, seen : Roles,
           timer : BOOLEAN, job : {"none", "login", "entered", "logout", "leaving"}]
RefreshRec == [pc : {"none", "asked", "granted", "denied", "refused"},
               token : Tokens \cup {NoToken}]

PairRec == [owner : Users, login : Tokens]

\* What Keycloak remembers of the pairs it issued.
KeycloakOK ==
  /\ issued \in Seq(PairRec) /\ Len(issued) <= MaxTokens
  /\ used \subseteq 1 .. Len(issued) /\ expired \subseteq 1 .. Len(issued)

\* The cookies name pairs that were issued.
CookiesIssued ==
  cookies.access \in 0 .. Len(issued) /\ cookies.refresh \in 0 .. Len(issued)

\* A refresh record whose token was issued; one that asked has a token.
GoodRefresh(r, len) ==
  /\ r \in RefreshRec /\ r.token \in 0 .. len
  /\ r.pc \in {"asked", "granted", "denied"} => r.token # NoToken

RefreshesIssued ==
  \A b \in Tabs, i \in Instances : GoodRefresh(refreshes[b][i], Len(issued))

\* OneAccount is inductive only with the facts that every token in a cookie or in a
\* request was issued: an owner of a token that was not could be anybody.
AccountInv == AccountTypeOK /\ CookiesIssued /\ RefreshesIssued /\ OneAccount

----------------------------------------------------------------------------
(* What Keycloak issues                                                    *)

\* A pair is added at the end, or nothing is issued.
Issues == \/ issued' = issued
          \/ Len(issued) < MaxTokens /\ \E p \in PairRec : issued' = Append(issued, p)

\* What Issues leaves of the pairs that were issued before.
Grown == /\ issued' \in Seq(PairRec) /\ Len(issued') <= MaxTokens
         /\ Len(issued) <= Len(issued')
         /\ \A n \in 1 .. Len(issued) : issued'[n] = issued[n]

LEMMA IssuesGrow == ASSUME KeycloakOK, Issues PROVE Grown
<1> USE AccountConstants DEF KeycloakOK, Grown
<1>1. CASE issued' = issued
  BY <1>1
<1>2. CASE Len(issued) < MaxTokens /\ \E p \in PairRec : issued' = Append(issued, p)
  <2>1. PICK p \in PairRec : issued' = Append(issued, p)
    BY <1>2
  <2>2. issued' \in Seq(PairRec) /\ Len(issued') = Len(issued) + 1
    BY <2>1
  <2>3. \A n \in 1 .. Len(issued) : issued'[n] = issued[n]
    BY <2>1
  <2> QED
    BY <1>2, <2>2, <2>3
<1> QED
  BY <1>1, <1>2 DEF Issues

\* A pair that was issued has an owner and a login.
LEMMA PairFacts ==
  ASSUME issued \in Seq(PairRec), NEW n \in 1 .. Len(issued)
  PROVE  issued[n] \in PairRec /\ issued[n].login \in Tokens
<1>1. issued[n] \in PairRec
  OBVIOUS
<1> QED
  BY <1>1 DEF PairRec

\* Every step issues at most one pair.
LEMMA StepIssues == ASSUME AccountInv, [AccountNext]_accountVars PROVE Issues
<1> USE DEF Issues
<1>1. ASSUME NEW b \in Tabs, TabStep(b) PROVE Issues
  <2>1. CASE LoginGranted(b)
    <3>1. PICK u \in Users : issued' = Append(issued, [owner |-> u, login |-> Len(issued) + 1])
      BY <2>1 DEF LoginGranted
    <3>2. Len(issued) < MaxTokens /\ Len(issued) \in Nat
      BY <2>1 DEF LoginGranted, AccountInv, AccountTypeOK
    <3>3. Len(issued) + 1 \in Tokens
      BY <3>2, AccountConstants DEF Tokens
    <3>4. [owner |-> u, login |-> Len(issued) + 1] \in PairRec
      BY <3>3 DEF PairRec
    <3> QED
      BY <3>1, <3>2, <3>4
  <2>2. CASE ~LoginGranted(b)
    BY <1>1, <2>2 DEF TabStep, SubmitLogin, LoginRefused, Entered, SkipLogin, Visit, ReadCookies,
       RoleRedirect, Unauthorized, TimerFires, Logout, LogoutServed, LogoutLeaves, LogoutLost,
       keycloakVars
  <2> QED
    BY <2>1, <2>2
<1>2. ASSUME NEW b \in Tabs, NEW i \in Instances, RefreshStep(b, i) PROVE Issues
  <2>1. CASE RefreshGranted(b, i)
    <3>1. refreshes[b][i].token \in 1 .. Len(issued)
      BY <2>1 DEF RefreshGranted, AccountInv, RefreshesIssued, GoodRefresh, NoToken
    <3>2. issued[refreshes[b][i].token] \in PairRec
      BY <3>1, PairFacts DEF AccountInv, AccountTypeOK, PairRec
    <3> QED
      BY <2>1, <3>2 DEF RefreshGranted
  <2>2. CASE ~RefreshGranted(b, i)
    BY <1>2, <2>2 DEF RefreshStep, StartRefresh, RefreshRefused, RefreshFails, RefreshAnswered,
       RefreshDenied, RefreshLost, keycloakVars
  <2> QED
    BY <2>1, <2>2
<1> QED
  BY <1>1, <1>2 DEF AccountNext, AccessExpires, RefreshExpires, accountVars, keycloakVars

----------------------------------------------------------------------------
(* The cookies                                                             *)

\* The five ways in which a step treats the cookies.
CookieStep ==
  \/ cookies' = cookies
  \/ cookies' = NoCookies
  \/ \E n \in 1 .. Len(issued') : cookies' = SetCookies(n, issued'[n].owner)
  \/ cookies' = [cookies EXCEPT !.access = NoToken, !.role = "none"]
  \/ cookies.access = NoToken /\ cookies' = [cookies EXCEPT !.refresh = NoToken]

LEMMA StepCookies == ASSUME AccountInv, [AccountNext]_accountVars PROVE CookieStep
<1> USE DEF CookieStep
<1>1. ASSUME NEW b \in Tabs, TabStep(b) PROVE CookieStep
  <2>1. CASE LoginGranted(b)
    <3> DEFINE p(u) == [owner |-> u, login |-> Len(issued) + 1]
    <3>1. PICK u \in Users : /\ issued' = Append(issued, p(u))
                             /\ cookies' = SetCookies(Len(issued) + 1, u)
      BY <2>1 DEF LoginGranted
    <3>2. issued \in Seq(PairRec)
      BY DEF AccountInv, AccountTypeOK, PairRec
    <3>3. Len(issued) + 1 \in 1 .. Len(issued') /\ issued'[Len(issued) + 1] = p(u)
      BY <3>1, <3>2
    <3> QED
      BY <3>1, <3>3
  <2>2. CASE LogoutServed(b)
    BY <2>2 DEF LogoutServed
  <2>3. CASE ~LoginGranted(b) /\ ~LogoutServed(b)
    BY <1>1, <2>3 DEF TabStep, SubmitLogin, LoginRefused, Entered, SkipLogin, Visit, ReadCookies,
      RoleRedirect, Unauthorized, TimerFires, Logout, LogoutLeaves, LogoutLost
  <2> QED
    BY <2>1, <2>2, <2>3
<1>2. ASSUME NEW b \in Tabs, NEW i \in Instances, RefreshStep(b, i) PROVE CookieStep
  <2>1. CASE RefreshAnswered(b, i)
    <3>1. refreshes[b][i].token \in 1 .. Len(issued)
      BY <2>1 DEF RefreshAnswered, AccountInv, RefreshesIssued, GoodRefresh, NoToken
    <3> QED
      BY <2>1, <3>1 DEF RefreshAnswered, keycloakVars
  <2>2. CASE RefreshDenied(b, i)
    BY <2>2 DEF RefreshDenied
  <2>3. CASE ~RefreshAnswered(b, i) /\ ~RefreshDenied(b, i)
    BY <1>2, <2>3 DEF RefreshStep, StartRefresh, RefreshGranted, RefreshRefused, RefreshFails,
       RefreshLost
  <2> QED
    BY <2>1, <2>2, <2>3
<1>3. CASE AccessExpires
  BY <1>3 DEF AccessExpires
<1>4. CASE RefreshExpires
  BY <1>4 DEF RefreshExpires
<1>5. CASE UNCHANGED accountVars
  BY <1>5 DEF accountVars
<1> QED
  BY <1>1, <1>2, <1>3, <1>4, <1>5 DEF AccountNext

\* Each of the five ways keeps the cookies typed, issued and of one account.
LEMMA CookiesKept ==
  ASSUME AccountInv, Grown, CookieStep
  PROVE  cookies' \in CookieRec /\ CookiesIssued' /\ OneAccount'
<1> USE AccountConstants DEF NoToken, Tokens
<1>1. /\ cookies \in CookieRec /\ CookiesIssued /\ OneAccount
      /\ issued \in Seq(PairRec) /\ Len(issued) \in Nat /\ Len(issued') \in Nat
      /\ Len(issued) <= Len(issued') /\ Len(issued') <= MaxTokens /\ issued' \in Seq(PairRec)
      /\ \A n \in 1 .. Len(issued) : issued'[n] = issued[n]
  BY DEF AccountInv, AccountTypeOK, Grown, CookieRec, PairRec
<1>2. CASE cookies' = cookies
  BY <1>1, <1>2 DEF OneAccount, LoggedIn, CookiesIssued, CookieRec
<1>3. CASE cookies' = NoCookies
  BY <1>1, <1>3 DEF OneAccount, LoggedIn, CookiesIssued, CookieRec, NoCookies, Roles
<1>4. CASE \E n \in 1 .. Len(issued') : cookies' = SetCookies(n, issued'[n].owner)
  <2>1. PICK n \in 1 .. Len(issued') : cookies' = SetCookies(n, issued'[n].owner)
    BY <1>4
  <2>2. RoleOf(issued'[n].owner) \in {"employee", "it-admin"}
    BY DEF RoleOf
  <2>3. cookies'.access = n /\ cookies'.refresh = n /\ cookies'.role = RoleOf(issued'[n].owner)
    BY <2>1 DEF SetCookies
  <2>4. cookies' \in CookieRec
    BY <1>1, <2>1, <2>2 DEF SetCookies, CookieRec, Roles
  <2> QED
    BY <1>1, <2>2, <2>3, <2>4 DEF OneAccount, LoggedIn, CookiesIssued
<1>5. CASE cookies' = [cookies EXCEPT !.access = NoToken, !.role = "none"]
  <2>1. cookies' \in CookieRec
    BY <1>1, <1>5 DEF CookieRec, Roles
  <2>2. cookies'.access = 0 /\ cookies'.role = "none" /\ cookies'.refresh = cookies.refresh
    BY <1>1, <1>5 DEF CookieRec
  <2> QED
    BY <1>1, <2>1, <2>2 DEF OneAccount, LoggedIn, CookiesIssued
<1>6. CASE cookies.access = NoToken /\ cookies' = [cookies EXCEPT !.refresh = NoToken]
  <2>1. cookies' \in CookieRec
    BY <1>1, <1>6 DEF CookieRec
  <2>2. cookies'.access = 0 /\ cookies'.role = cookies.role /\ cookies'.refresh = 0
    BY <1>1, <1>6 DEF CookieRec
  <2> QED
    BY <1>1, <1>6, <2>1, <2>2 DEF OneAccount, LoggedIn, CookiesIssued
<1> QED
  BY <1>2, <1>3, <1>4, <1>5, <1>6 DEF CookieStep

----------------------------------------------------------------------------
(* The refreshes and the tokens Keycloak has taken                         *)

\* A good record stays good when more pairs are issued.
LEMMA GoodGrows ==
  ASSUME NEW m \in Nat, NEW n \in Nat, m <= n, NEW r, GoodRefresh(r, m)
  PROVE  GoodRefresh(r, n)
BY DEF GoodRefresh

\* One record changes, those of a tab are dropped, or none changes.
RefreshesStep ==
  \/ refreshes' = refreshes
  \/ \E b \in Tabs, i \in Instances, r \in RefreshRec :
       GoodRefresh(r, Len(issued')) /\ refreshes' = [refreshes EXCEPT ![b][i] = r]
  \/ \E b \in Tabs : refreshes' = [refreshes EXCEPT ![b] = [i \in Instances |-> NoRefresh]]

\* Every refresh that a step of an instance leaves behind is good.
LEMMA InstanceRefreshes ==
  ASSUME AccountInv, Grown, NEW b \in Tabs, NEW i \in Instances, RefreshStep(b, i)
  PROVE  RefreshesStep
<1> DEFINE r == refreshes[b][i]
<1>1. /\ GoodRefresh(r, Len(issued)) /\ CookiesIssued
      /\ Len(issued) \in Nat /\ Len(issued') \in Nat /\ Len(issued) <= Len(issued')
      /\ MaxTokens \in Nat /\ Len(issued') <= MaxTokens
  BY AccountConstants DEF AccountInv, AccountTypeOK, RefreshesIssued, Grown
<1>2. GoodRefresh(r, Len(issued'))
  BY <1>1, GoodGrows
<1>3. ASSUME NEW q, GoodRefresh(q, Len(issued')), SetRefresh(b, i, q) PROVE RefreshesStep
  BY <1>3 DEF RefreshesStep, SetRefresh, GoodRefresh
<1>4. ASSUME r.pc = "asked", SetRefresh(b, i, [r EXCEPT !.pc = "denied"]) PROVE RefreshesStep
  <2>1. GoodRefresh([r EXCEPT !.pc = "denied"], Len(issued'))
    BY <1>2, <1>4 DEF GoodRefresh, RefreshRec
  <2> QED
    BY <1>4, <2>1, <1>3
<1>5. GoodRefresh(NoRefresh, Len(issued')) /\ GoodRefresh(Refused, Len(issued'))
  BY <1>1 DEF GoodRefresh, NoRefresh, Refused, RefreshRec, NoToken
<1>6. CASE StartRefresh(b, i)
  <2> DEFINE q == IF cookies.refresh = NoToken THEN Refused
                  ELSE [pc |-> "asked", token |-> cookies.refresh]
  <2>1. GoodRefresh(q, Len(issued'))
    BY <1>1 DEF GoodRefresh, Refused, RefreshRec, CookiesIssued, NoToken, Tokens
  <2>2. SetRefresh(b, i, q)
    BY <1>6 DEF StartRefresh
  <2> QED
    BY <1>3, <2>1, <2>2
<1>7. CASE RefreshGranted(b, i)
  <2> DEFINE q == [pc |-> "granted", token |-> Len(issued) + 1]
  <2>1. issued' = Append(issued, issued[r.token]) /\ issued \in Seq(PairRec)
    BY <1>7 DEF RefreshGranted, AccountInv, AccountTypeOK, PairRec
  <2>2. r.token \in 1 .. Len(issued)
    BY <1>1, <1>7 DEF RefreshGranted, GoodRefresh, NoToken
  <2>3. Len(issued') = Len(issued) + 1
    BY <2>1, <2>2
  <2>4. GoodRefresh(q, Len(issued'))
    BY <1>1, <2>3 DEF GoodRefresh, RefreshRec, NoToken, Tokens
  <2>5. SetRefresh(b, i, q)
    BY <1>7 DEF RefreshGranted
  <2> QED
    BY <1>3, <2>4, <2>5
<1>8. CASE RefreshRefused(b, i) \/ RefreshFails(b, i)
  BY <1>4, <1>8 DEF RefreshRefused, RefreshFails
<1>9. CASE RefreshAnswered(b, i)
  BY <1>3, <1>5, <1>9 DEF RefreshAnswered
<1>10. CASE RefreshDenied(b, i)
  BY <1>3, <1>5, <1>10 DEF RefreshDenied
<1>11. CASE RefreshLost(b, i)
  BY <1>3, <1>5, <1>11 DEF RefreshLost
<1> QED
  BY <1>6, <1>7, <1>8, <1>9, <1>10, <1>11 DEF RefreshStep

LEMMA StepRefreshes == ASSUME AccountInv, Grown, [AccountNext]_accountVars PROVE RefreshesStep
<1>1. ASSUME NEW b \in Tabs, TabStep(b) PROVE RefreshesStep
  <2>1. ASSUME Unload(b) PROVE RefreshesStep
    BY <2>1 DEF Unload, RefreshesStep
  <2>2. CASE \/ (\E page \in Opened : Visit(b, page)) \/ TimerFires(b) \/ LogoutLeaves(b)
    BY <2>1, <2>2 DEF Visit, TimerFires, LogoutLeaves
  <2>3. CASE Logout(b)
    <3>1. CASE UNCHANGED refreshes
      BY <3>1 DEF RefreshesStep
    <3>2. CASE \E i \in Instances : SetRefresh(b, i, NoRefresh)
      <4>1. Len(issued') \in Nat
        BY DEF Grown
      <4>2. NoRefresh \in RefreshRec /\ GoodRefresh(NoRefresh, Len(issued'))
        BY <4>1 DEF GoodRefresh, NoRefresh, RefreshRec, NoToken
      <4> QED
        BY <3>2, <4>2 DEF SetRefresh, RefreshesStep
    <3> QED
      BY <2>3, <3>1, <3>2 DEF Logout
  <2>4. CASE \/ SubmitLogin(b) \/ LoginGranted(b) \/ LoginRefused(b) \/ Entered(b)
             \/ SkipLogin(b) \/ ReadCookies(b) \/ RoleRedirect(b) \/ Unauthorized(b)
             \/ LogoutServed(b) \/ LogoutLost(b)
    BY <2>4 DEF SubmitLogin, LoginGranted, LoginRefused, Entered, SkipLogin, ReadCookies,
      RoleRedirect, Unauthorized, LogoutServed, LogoutLost, refreshVars, RefreshesStep
  <2> QED
    BY <1>1, <2>2, <2>3, <2>4 DEF TabStep
<1>2. CASE AccessExpires \/ RefreshExpires \/ UNCHANGED accountVars
  BY <1>2 DEF AccessExpires, RefreshExpires, accountVars, refreshVars, RefreshesStep
<1> QED
  BY <1>1, <1>2, InstanceRefreshes DEF AccountNext

LEMMA RefreshesKept ==
  ASSUME AccountInv, Grown, RefreshesStep
  PROVE  refreshes' \in [Tabs -> [Instances -> RefreshRec]] /\ RefreshesIssued'
<1>1. /\ refreshes \in [Tabs -> [Instances -> RefreshRec]] /\ RefreshesIssued
      /\ Len(issued) \in Nat /\ Len(issued') \in Nat /\ Len(issued) <= Len(issued')
  BY DEF AccountInv, AccountTypeOK, Grown, RefreshRec
<1>2. \A c \in Tabs, j \in Instances : GoodRefresh(refreshes[c][j], Len(issued'))
  BY <1>1, GoodGrows DEF RefreshesIssued
<1>3. CASE refreshes' = refreshes
  BY <1>1, <1>2, <1>3 DEF RefreshesIssued
<1>4. CASE \E b \in Tabs, i \in Instances, r \in RefreshRec :
             GoodRefresh(r, Len(issued')) /\ refreshes' = [refreshes EXCEPT ![b][i] = r]
  BY <1>1, <1>2, <1>4 DEF RefreshesIssued
<1>5. CASE \E b \in Tabs : refreshes' = [refreshes EXCEPT ![b] = [i \in Instances |-> NoRefresh]]
  <2>1. NoRefresh \in RefreshRec /\ GoodRefresh(NoRefresh, Len(issued'))
    BY <1>1 DEF GoodRefresh, NoRefresh, RefreshRec, NoToken
  <2> QED
    BY <1>1, <1>2, <1>5, <2>1 DEF RefreshesIssued
<1> QED
  BY <1>3, <1>4, <1>5 DEF RefreshesStep

\* What a page that is left may have presented: tokens that were issued.
LEMMA UnloadTakes ==
  ASSUME AccountInv, NEW b \in Tabs, Unload(b)
  PROVE  /\ used \subseteq used' /\ used' \subseteq 1 .. Len(issued)
         /\ ended \subseteq ended' /\ ended' \subseteq Tokens
         /\ In(b, OnTheWay) = {} => used' = used /\ ended' = ended
<1> DEFINE token(i) == refreshes[b][i].token
<1>1. PICK reached \in SUBSET In(b, {"asked"}) :
        /\ used' = used \cup {token(i) : i \in reached}
        /\ ended' = ended \cup {issued[token(i)].login :
                      i \in {k \in reached : \/ token(k) \in used
                                             \/ \E j \in reached : j # k /\ token(j) = token(k)}}
  BY DEF Unload
<1>2. /\ issued \in Seq(PairRec) /\ used \subseteq 1 .. Len(issued) /\ ended \subseteq Tokens
      /\ RefreshesIssued
  BY DEF AccountInv, AccountTypeOK, PairRec
<1>3. \A i \in reached : i \in Instances /\ token(i) \in 1 .. Len(issued)
  BY <1>2 DEF RefreshesIssued, GoodRefresh, NoToken, In
<1>4. \A i \in reached : issued[token(i)].login \in Tokens
  BY <1>2, <1>3, PairFacts
<1>5. In(b, OnTheWay) = {} => reached = {}
  BY DEF In, OnTheWay
<1> HIDE DEF token
<1> QED
  BY <1>1, <1>2, <1>3, <1>4, <1>5

\* Keycloak takes, and lets expire, only tokens it issued, and forgets nothing.
LEMMA KeycloakKept ==
  ASSUME AccountInv, Grown, [AccountNext]_accountVars
  PROVE  /\ used' \subseteq 1 .. Len(issued') /\ expired' \subseteq 1 .. Len(issued')
         /\ ended' \subseteq Tokens
         /\ used \subseteq used' /\ expired \subseteq expired' /\ ended \subseteq ended'
<1>1. /\ used \subseteq 1 .. Len(issued) /\ expired \subseteq 1 .. Len(issued) /\ ended \subseteq Tokens
      /\ CookiesIssued /\ RefreshesIssued /\ issued \in Seq(PairRec)
      /\ Len(issued) \in Nat /\ Len(issued') \in Nat /\ Len(issued) <= Len(issued')
  BY DEF AccountInv, AccountTypeOK, Grown, PairRec
<1>2. 1 .. Len(issued) \subseteq 1 .. Len(issued')
  BY <1>1
<1>3. ASSUME NEW b \in Tabs, TabStep(b)
      PROVE  expired' = expired /\ (UNCHANGED <<used, ended>> \/ Unload(b))
  BY <1>3 DEF TabStep, SubmitLogin, LoginGranted, LoginRefused, Entered, SkipLogin, Visit,
     ReadCookies, RoleRedirect, Unauthorized, TimerFires, Logout, LogoutServed, LogoutLeaves,
     LogoutLost, keycloakVars
<1>4. CASE \E b \in Tabs : TabStep(b)
  BY <1>1, <1>2, <1>3, <1>4, UnloadTakes
<1>5. CASE \E b \in Tabs, i \in Instances : RefreshStep(b, i)
  <2>1. PICK b \in Tabs, i \in Instances : RefreshStep(b, i)
    BY <1>5
  <2> DEFINE n == refreshes[b][i].token
  <2>2. refreshes[b][i].pc = "asked" => n \in 1 .. Len(issued)
    BY <1>1 DEF RefreshesIssued, GoodRefresh, NoToken
  <2>3. n \in 1 .. Len(issued) => issued[n].login \in Tokens
    BY <1>1, PairFacts
  <2>4. CASE RefreshGranted(b, i)
    BY <1>1, <1>2, <2>2, <2>4 DEF RefreshGranted
  <2>5. CASE RefreshRefused(b, i)
    BY <1>1, <1>2, <2>2, <2>3, <2>5 DEF RefreshRefused
  <2>6. CASE ~RefreshGranted(b, i) /\ ~RefreshRefused(b, i)
    BY <1>1, <1>2, <2>1, <2>6 DEF RefreshStep, StartRefresh, RefreshFails, RefreshAnswered,
      RefreshDenied, RefreshLost, keycloakVars
  <2> QED
    BY <2>4, <2>5, <2>6
<1>6. CASE AccessExpires \/ UNCHANGED accountVars
  BY <1>1, <1>2, <1>6 DEF AccessExpires, accountVars, keycloakVars
<1>7. CASE RefreshExpires
  BY <1>1, <1>2, <1>7 DEF RefreshExpires, CookiesIssued, NoToken
<1> QED
  BY <1>4, <1>5, <1>6, <1>7 DEF AccountNext

----------------------------------------------------------------------------
(* The tabs                                                                *)

\* The proxy serves a page, whichever is asked for.
LEMMA ArriveTyped ==
  ASSUME AccountInv, NEW page \in Pages PROVE Served(page) \in Pages /\ Arrive(page) \in TabRec
<1>1. cookies.role \in Roles
  BY DEF AccountInv, AccountTypeOK
<1>2. Served(page) \in Pages
  BY DEF Served, Pages
<1> QED
  BY <1>1, <1>2 DEF Arrive, Loaded, TabRec, Pages

\* A step leaves the tabs alone or gives one of them a new record.
TabsStep ==
  \/ tabs' = tabs
  \/ \E b \in Tabs, t \in TabRec : tabs' = [tabs EXCEPT ![b] = t]

LEMMA StepTabs == ASSUME AccountInv, [AccountNext]_accountVars PROVE TabsStep
<1>1. ASSUME NEW b \in Tabs, TabStep(b) PROVE TabsStep
  <2> DEFINE t == tabs[b]
  <2>1. t \in TabRec /\ cookies.role \in Roles /\ Opened \subseteq Pages
    BY AccountConstants DEF AccountInv, AccountTypeOK, TabRec, Pages
  <2>2. Wanted(b) \in Pages
    BY <2>1 DEF Wanted, Home, TabRec, Pages
  <2>3. ASSUME NEW j \in {"none", "login", "entered", "logout", "leaving"},
               tabs' = [tabs EXCEPT ![b].job = j]
        PROVE  TabsStep
    BY <2>1, <2>3 DEF TabsStep, TabRec
  <2>4. CASE \/ SubmitLogin(b) \/ LoginGranted(b) \/ LoginRefused(b)
             \/ Logout(b) \/ LogoutServed(b) \/ LogoutLost(b)
    BY <2>3, <2>4 DEF SubmitLogin, LoginGranted, LoginRefused, Logout, LogoutServed, LogoutLost
  <2>5. CASE Entered(b) \/ SkipLogin(b)
    BY <2>2, <2>5, ArriveTyped DEF Entered, SkipLogin, TabsStep
  <2>6. CASE \E page \in Opened : Visit(b, page)
    BY <2>1, <2>6, ArriveTyped DEF Visit, TabsStep
  <2>7. CASE ReadCookies(b)
    BY <2>1, <2>7 DEF ReadCookies, TabsStep, TabRec
  <2>8. CASE RoleRedirect(b)
    <3>1. Served(Home(t.seen)) \in Pages
      BY ArriveTyped DEF Home, Pages
    <3> DEFINE q == [t EXCEPT !.page = Served(Home(t.seen)), !.seen = cookies.role]
    <3>2. q \in TabRec
      BY <2>1, <3>1 DEF TabRec
    <3>3. tabs' = [tabs EXCEPT ![b] = q]
      BY <2>8 DEF RoleRedirect
    <3> QED
      BY <3>2, <3>3 DEF TabsStep
  <2>9. CASE Unauthorized(b)
    BY <2>1, <2>9 DEF Unauthorized, TabsStep, TabRec
  <2>10. CASE TimerFires(b)
    <3>1. Loaded("login", t.page) \in TabRec
      BY <2>1 DEF Loaded, TabRec, Pages
    <3> QED
      BY <2>10, <3>1 DEF TimerFires, TabsStep
  <2>11. CASE LogoutLeaves(b)
    <3>1. Loaded("login", "none") \in TabRec
      BY <2>1 DEF Loaded, TabRec, Pages
    <3> QED
      BY <2>11, <3>1 DEF LogoutLeaves, TabsStep
  <2> QED
    BY <1>1, <2>4, <2>5, <2>6, <2>7, <2>8, <2>9, <2>10, <2>11 DEF TabStep
<1>2. ASSUME NEW b \in Tabs, NEW i \in Instances, RefreshStep(b, i) PROVE TabsStep
  BY <1>2 DEF RefreshStep, StartRefresh, RefreshGranted, RefreshRefused, RefreshFails,
     RefreshAnswered, RefreshDenied, RefreshLost, TabsStep
<1>3. CASE AccessExpires \/ RefreshExpires \/ UNCHANGED accountVars
  BY <1>3 DEF AccessExpires, RefreshExpires, accountVars, TabsStep
<1> QED
  BY <1>1, <1>2, <1>3 DEF AccountNext

Worsts == {"none", "overlapped", "dropped"}

\* The counter, the worst fate of a refresh and the sign-out keep their types.
LEMMA FlagsKept ==
  ASSUME AccountInv, [AccountNext]_accountVars
  PROVE  losses' \in 0 .. MaxLosses /\ worst' \in Worsts /\ signedOut' \in BOOLEAN
<1>1. losses \in 0 .. MaxLosses /\ worst \in Worsts /\ signedOut \in BOOLEAN /\ MaxLosses \in Nat
  BY AccountConstants DEF AccountInv, AccountTypeOK, Worsts
<1> DEFINE Counted == losses' = losses \/ (losses < MaxLosses /\ losses' = losses + 1)
           Fated == worst' = worst \/ worst' = "overlapped" \/ worst' = "dropped"
           Flagged == signedOut' = signedOut \/ signedOut' \in BOOLEAN
<1>2. ASSUME NEW b \in Tabs, TabStep(b) PROVE Counted /\ Fated /\ Flagged
  BY <1>2, Zenon DEF TabStep, SubmitLogin, LoginGranted, LoginRefused, Entered, SkipLogin, Visit,
     ReadCookies, RoleRedirect, Unauthorized, TimerFires, Logout, LogoutServed, LogoutLeaves,
     LogoutLost, refreshVars, Unload
<1>3. ASSUME NEW b \in Tabs, NEW i \in Instances, RefreshStep(b, i) PROVE Counted /\ Fated /\ Flagged
  BY <1>3, Zenon DEF RefreshStep, StartRefresh, RefreshGranted, RefreshRefused, RefreshFails,
    RefreshAnswered, RefreshDenied, RefreshLost
<1>4. ASSUME AccessExpires \/ RefreshExpires \/ UNCHANGED accountVars PROVE Counted /\ Fated /\ Flagged
  BY <1>4, Zenon DEF AccessExpires, RefreshExpires, accountVars, refreshVars
<1>5. Counted /\ Fated /\ Flagged
  BY <1>2, <1>3, <1>4, Zenon DEF AccountNext
<1>6. losses' \in 0 .. MaxLosses
  BY <1>1, <1>5, SMT
<1>7. worst' \in Worsts
  BY <1>1, <1>5 DEF Worsts
<1>8. signedOut' \in BOOLEAN
  BY <1>1, <1>5, Zenon
<1> QED
  BY <1>6, <1>7, <1>8

----------------------------------------------------------------------------

LEMMA InitInv == ASSUME AccountInit PROVE AccountInv
<1> USE AccountInit, AccountConstants DEF AccountInit, NoToken
<1>1. KeycloakOK
  BY DEF KeycloakOK
<1>2. cookies \in CookieRec /\ CookiesIssued /\ OneAccount
  BY DEF NoCookies, CookieRec, Roles, CookiesIssued, OneAccount, LoggedIn
<1>3. tabs \in [Tabs -> TabRec]
  BY DEF TabRec, Pages, Roles
<1>4. refreshes \in [Tabs -> [Instances -> RefreshRec]] /\ RefreshesIssued
  BY DEF NoRefresh, RefreshRec, RefreshesIssued, GoodRefresh
<1>5. losses \in 0 .. MaxLosses
  OBVIOUS
<1>6. worst \in Worsts /\ ended \subseteq Tokens
  BY DEF Worsts
<1>7. signedOut \in BOOLEAN
  BY Zenon
<1> QED
  BY <1>1, <1>2, <1>3, <1>4, <1>5, <1>6, <1>7
  DEF AccountInv, AccountTypeOK, KeycloakOK, PairRec, CookieRec, TabRec, RefreshRec, Worsts

LEMMA StepInv == ASSUME AccountInv, [AccountNext]_accountVars PROVE AccountInv'
<1>1. KeycloakOK /\ Issues
  BY StepIssues DEF AccountInv, AccountTypeOK, KeycloakOK, PairRec
<1>2. Grown
  BY <1>1, IssuesGrow
<1>3. cookies' \in CookieRec /\ CookiesIssued' /\ OneAccount'
  BY <1>2, StepCookies, CookiesKept
<1>4. refreshes' \in [Tabs -> [Instances -> RefreshRec]] /\ RefreshesIssued'
  BY <1>2, StepRefreshes, RefreshesKept
<1>5. /\ used' \subseteq 1 .. Len(issued') /\ expired' \subseteq 1 .. Len(issued')
      /\ ended' \subseteq Tokens
  BY <1>2, KeycloakKept
<1>6. tabs' \in [Tabs -> TabRec]
  BY StepTabs DEF TabsStep, AccountInv, AccountTypeOK, TabRec
<1> QED
  BY <1>2, <1>3, <1>4, <1>5, <1>6, FlagsKept
  DEF AccountInv, AccountTypeOK, Grown, PairRec, CookieRec, TabRec, RefreshRec, Worsts

\* The variables keep their types, and the role, the access token and the refresh
\* token in the cookies belong to one person, whatever the tabs, the refreshes, the
\* lost answers and the sign-outs do to each other.
THEOREM AccountSafety == AccountSpec => []AccountTypeOK /\ []OneAccount
<1>1. AccountInit => AccountInv
  BY InitInv
<1>2. AccountInv /\ [AccountNext]_accountVars => AccountInv'
  BY StepInv
<1>3. AccountInv => AccountTypeOK /\ OneAccount
  BY DEF AccountInv
<1> QED
  BY <1>1, <1>2, <1>3, PTL DEF AccountSpec

----------------------------------------------------------------------------
(* Rotation and sign-out                                                   *)

\* A pair on its way to the browser is nobody else's yet: it was not taken, did not
\* expire, is not in the cookies and no other request carries it.
GrantedFresh ==
  \A b \in Tabs, i \in Instances : refreshes[b][i].pc = "granted" =>
    /\ refreshes[b][i].token \notin used \cup expired
    /\ refreshes[b][i].token # cookies.refresh
    /\ \A c \in Tabs, j \in Instances :
         refreshes[c][j].pc \in {"asked", "granted"} /\ refreshes[c][j].token = refreshes[b][i].token
           => c = b /\ j = i

KeptUnexpired == cookies.refresh \notin expired

\* The cookies name a token that was taken only while its successor is on its way.
SpentIsReplaced ==
  worst # "dropped" /\ cookies.refresh \in used
    => \E b \in Tabs, i \in Instances : refreshes[b][i].pc = "granted"

\* Refreshes that never overlapped and were never dropped go one at a time, ask with tokens
\* that were not taken, and so end no login.
Apart ==
  worst = "none" =>
    /\ ended = {}
    /\ \A b \in Tabs, i \in Instances : refreshes[b][i].pc = "asked" => refreshes[b][i].token \notin used
    /\ \A b, c \in Tabs, i, j \in Instances :
         refreshes[b][i].pc \in OnTheWay /\ refreshes[c][j].pc \in OnTheWay => b = c /\ i = j

\* After a clean sign-out there is nothing the cookies could come back from.
SignOutQuiet == signedOut => cookies = NoCookies /\ ~Reviving

LiveInv == GrantedFresh /\ KeptUnexpired /\ SpentIsReplaced /\ Apart

\* What the proofs below need of AccountInv.
LEMMA RotationFacts ==
  ASSUME AccountInv
  PROVE  /\ refreshes \in [Tabs -> [Instances -> RefreshRec]] /\ cookies \in CookieRec
         /\ Len(issued) \in Nat /\ cookies.refresh \in 0 .. Len(issued)
         /\ used \subseteq 1 .. Len(issued) /\ expired \subseteq 1 .. Len(issued)
         /\ \A b \in Tabs, i \in Instances :
              /\ refreshes[b][i].token \in 0 .. Len(issued)
              /\ refreshes[b][i].pc \in {"asked", "granted"} => refreshes[b][i].token # 0
BY DEF AccountInv, AccountTypeOK, CookiesIssued, RefreshesIssued, GoodRefresh, CookieRec,
  RefreshRec, NoToken

\* A step that touches neither cookies nor requests, or only forgets the access token.
LEMMA QuietKeeps ==
  ASSUME LiveInv, cookies'.refresh = cookies.refresh,
         UNCHANGED <<used, expired, ended, refreshes, worst>>
  PROVE  LiveInv'
BY DEF LiveInv, GrantedFresh, KeptUnexpired, SpentIsReplaced, Apart

\* The cookies go, and nothing else happens.
LEMMA ClearKeeps ==
  ASSUME AccountInv, LiveInv, cookies' = NoCookies,
         UNCHANGED <<used, expired, ended, refreshes, worst>>
  PROVE  LiveInv'
<1>1. /\ cookies'.refresh = 0 /\ 0 \notin used \cup expired
      /\ \A b \in Tabs, i \in Instances : refreshes[b][i].pc = "granted" => refreshes[b][i].token # 0
  BY RotationFacts DEF NoCookies, NoToken
<1> QED
  BY <1>1 DEF LiveInv, GrantedFresh, KeptUnexpired, SpentIsReplaced, Apart

\* A page that is left: its requests are dropped and their tokens may be taken.
LEMMA UnloadKeeps ==
  ASSUME AccountInv, LiveInv, NEW b \in Tabs, Unload(b), expired' = expired,
         cookies' = cookies \/ cookies' = NoCookies
  PROVE  LiveInv'
<1> USE DEF LiveInv
<1>1. /\ refreshes \in [Tabs -> [Instances -> RefreshRec]]
      /\ used \subseteq 1 .. Len(issued) /\ expired \subseteq 1 .. Len(issued)
      /\ \A c \in Tabs, i \in Instances :
           refreshes[c][i].pc \in {"asked", "granted"} => refreshes[c][i].token # 0
  BY RotationFacts
<1>2. \A c \in Tabs, i \in Instances :
        refreshes'[c][i] = IF c = b THEN NoRefresh ELSE refreshes[c][i]
  BY <1>1 DEF Unload
<1>3. PICK reached \in SUBSET In(b, {"asked"}) :
        used' = used \cup {refreshes[b][i].token : i \in reached}
  BY DEF Unload
<1> DEFINE taken == {refreshes[b][i].token : i \in reached}
<1>4. \A n \in taken : \E i \in Instances : refreshes[b][i].pc = "asked" /\ refreshes[b][i].token = n
  BY DEF In
<1>5. used' = used \cup taken
  BY <1>3
<1>6. worst' # "dropped" => worst' = worst /\ In(b, OnTheWay) = {}
  BY DEF Unload
<1>7. In(b, OnTheWay) = {} => used' = used /\ ended' = ended
  BY UnloadTakes
<1>8. cookies'.refresh = cookies.refresh \/ cookies'.refresh = 0
  BY DEF NoCookies, NoToken
<1> HIDE DEF taken
<1>9. 0 \notin used \cup expired \cup taken
  <2>1. 0 \notin used \cup expired
    BY <1>1
  <2>2. 0 \notin taken
    BY <1>1, <1>4
  <2> QED
    BY <2>1, <2>2
<1>10. GrantedFresh'
  <2> SUFFICES ASSUME NEW c \in Tabs, NEW i \in Instances, refreshes'[c][i].pc = "granted"
               PROVE  /\ refreshes'[c][i].token \notin used' \cup expired'
                      /\ refreshes'[c][i].token # cookies'.refresh
                      /\ \A d \in Tabs, j \in Instances :
                           refreshes'[d][j].pc \in {"asked", "granted"}
                             /\ refreshes'[d][j].token = refreshes'[c][i].token => d = c /\ j = i
    BY DEF GrantedFresh
  <2>1. c # b /\ refreshes'[c][i] = refreshes[c][i]
    BY <1>2 DEF NoRefresh
  <2>2. refreshes[c][i].token \notin taken
    BY <1>4, <2>1 DEF GrantedFresh
  <2>3. refreshes[c][i].token # cookies'.refresh
    BY <1>1, <1>8, <2>1 DEF GrantedFresh
  <2>4. \A d \in Tabs, j \in Instances :
          refreshes'[d][j].pc \in {"asked", "granted"} => refreshes'[d][j] = refreshes[d][j]
    BY <1>2 DEF NoRefresh
  <2> QED
    BY <1>5, <2>1, <2>2, <2>3, <2>4 DEF GrantedFresh
<1>11. KeptUnexpired'
  BY <1>8, <1>9 DEF KeptUnexpired
<1>12. SpentIsReplaced'
  <2> SUFFICES ASSUME worst' # "dropped", cookies'.refresh \in used'
               PROVE  \E c \in Tabs, i \in Instances : refreshes'[c][i].pc = "granted"
    BY DEF SpentIsReplaced
  <2>1. worst # "dropped" /\ In(b, OnTheWay) = {} /\ used' = used
    BY <1>6, <1>7
  <2>2. cookies.refresh \in used
    BY <1>8, <1>9, <2>1
  <2>3. PICK c \in Tabs, i \in Instances : refreshes[c][i].pc = "granted"
    BY <2>1, <2>2 DEF SpentIsReplaced
  <2> QED
    BY <1>2, <2>1, <2>3 DEF In, OnTheWay
<1>13. Apart'
  <2> SUFFICES ASSUME worst' = "none" PROVE Apart'
    BY DEF Apart
  <2>1. worst = "none" /\ used' = used /\ ended' = ended
    BY <1>6, <1>7
  <2>2. \A c \in Tabs, i \in Instances :
          refreshes'[c][i].pc \in OnTheWay => refreshes'[c][i] = refreshes[c][i]
    BY <1>2 DEF NoRefresh, OnTheWay
  <2> QED
    BY <2>1, <2>2 DEF Apart, OnTheWay
<1> QED
  BY <1>10, <1>11, <1>12, <1>13

\* A request that ends or fails; a granted one only by being lost.
LEMMA SettleKeeps ==
  ASSUME AccountInv, LiveInv, NEW b \in Tabs, NEW i \in Instances,
         NEW r, r.pc \notin {"asked", "granted"}, SetRefresh(b, i, r),
         worst' = "dropped" \/ (worst' = worst /\ refreshes[b][i].pc # "granted"),
         used' = used, expired' = expired,
         ended' = ended \/ (refreshes[b][i].pc = "asked" /\ refreshes[b][i].token \in used),
         cookies' = cookies \/ cookies' = NoCookies
  PROVE  LiveInv'
<1> USE DEF LiveInv
<1>1. /\ refreshes \in [Tabs -> [Instances -> RefreshRec]]
      /\ used \subseteq 1 .. Len(issued) /\ expired \subseteq 1 .. Len(issued)
      /\ \A c \in Tabs, j \in Instances :
           refreshes[c][j].pc \in {"asked", "granted"} => refreshes[c][j].token # 0
  BY RotationFacts
<1>2. \A c \in Tabs, j \in Instances :
        refreshes'[c][j] = IF c = b /\ j = i THEN r ELSE refreshes[c][j]
  BY <1>1 DEF SetRefresh
<1>3. cookies'.refresh = cookies.refresh \/ cookies'.refresh = 0
  BY DEF NoCookies, NoToken
<1>4. 0 \notin used \cup expired
  BY <1>1
<1>5. \A c \in Tabs, j \in Instances :
        refreshes'[c][j].pc \in {"asked", "granted"} => refreshes'[c][j] = refreshes[c][j]
  BY <1>2
<1>6. GrantedFresh'
  BY <1>1, <1>3, <1>5 DEF GrantedFresh
<1>7. KeptUnexpired'
  BY <1>3, <1>4 DEF KeptUnexpired
<1>8. SpentIsReplaced'
  <2> SUFFICES ASSUME worst' # "dropped", cookies'.refresh \in used'
               PROVE  \E c \in Tabs, j \in Instances : refreshes'[c][j].pc = "granted"
    BY DEF SpentIsReplaced
  <2>1. worst # "dropped" /\ refreshes[b][i].pc # "granted"
    OBVIOUS
  <2>2. cookies.refresh \in used
    BY <1>3, <1>4
  <2>3. PICK c \in Tabs, j \in Instances : refreshes[c][j].pc = "granted"
    BY <2>1, <2>2 DEF SpentIsReplaced
  <2> QED
    BY <1>2, <2>1, <2>3
<1>9. Apart'
  <2> SUFFICES ASSUME worst' = "none" PROVE Apart'
    BY DEF Apart
  <2>1. worst = "none" /\ ended' = ended
    BY DEF Apart
  <2> QED
    BY <1>5, <2>1 DEF Apart, OnTheWay
<1> QED
  BY <1>6, <1>7, <1>8, <1>9

\* The five steps that ask, grant, deliver, sign in or expire.
LEMMA StartKeeps ==
  ASSUME AccountInv, LiveInv, NEW b \in Tabs, NEW i \in Instances, StartRefresh(b, i)
  PROVE  LiveInv'
<1> USE DEF LiveInv, StartRefresh, keycloakVars
<1> DEFINE r == IF cookies.refresh = NoToken THEN Refused
                ELSE [pc |-> "asked", token |-> cookies.refresh]
<1>1. refreshes \in [Tabs -> [Instances -> RefreshRec]]
  BY RotationFacts
<1>2. \A c \in Tabs, j \in Instances :
        refreshes'[c][j] = IF c = b /\ j = i THEN r ELSE refreshes[c][j]
  BY <1>1 DEF SetRefresh
<1>3. r.pc # "granted" /\ (r.pc = "asked" => r.token = cookies.refresh)
  BY DEF Refused
<1> HIDE DEF r
<1>4. GrantedFresh'
  BY <1>2, <1>3 DEF GrantedFresh
<1>5. KeptUnexpired'
  BY DEF KeptUnexpired
<1>6. worst' # "dropped" => worst # "dropped"
  OBVIOUS
<1>7. SpentIsReplaced'
  BY <1>2, <1>6 DEF SpentIsReplaced
<1>8. Apart'
  <2> SUFFICES ASSUME worst' = "none" PROVE Apart'
    BY DEF Apart
  <2>1. worst = "none" /\ \A c \in Tabs : In(c, OnTheWay) = {}
    OBVIOUS
  <2>2. \A c \in Tabs, j \in Instances : refreshes[c][j].pc \notin OnTheWay
    BY <2>1 DEF In
  <2>3. cookies.refresh \notin used
    BY <2>1, <2>2 DEF SpentIsReplaced, OnTheWay
  <2>4. \A c \in Tabs, j \in Instances : refreshes'[c][j].pc \in OnTheWay => c = b /\ j = i
    BY <1>2, <2>2
  <2>5. \A c \in Tabs, j \in Instances :
          refreshes'[c][j].pc = "asked" => refreshes'[c][j].token \notin used'
    BY <1>2, <1>3, <2>2, <2>3 DEF OnTheWay
  <2> QED
    BY <2>1, <2>4, <2>5 DEF Apart
<1> QED
  BY <1>4, <1>5, <1>7, <1>8

LEMMA GrantKeeps ==
  ASSUME AccountInv, LiveInv, NEW b \in Tabs, NEW i \in Instances, RefreshGranted(b, i)
  PROVE  LiveInv'
<1> USE DEF LiveInv, RefreshGranted
<1> DEFINE t == refreshes[b][i].token
           n == Len(issued) + 1
<1>1. /\ refreshes \in [Tabs -> [Instances -> RefreshRec]]
      /\ Len(issued) \in Nat /\ cookies.refresh \in 0 .. Len(issued)
      /\ used \subseteq 1 .. Len(issued) /\ expired \subseteq 1 .. Len(issued)
      /\ \A c \in Tabs, j \in Instances : refreshes[c][j].token \in 0 .. Len(issued)
  BY RotationFacts
<1>2. \A c \in Tabs, j \in Instances :
        refreshes'[c][j] = IF c = b /\ j = i THEN [pc |-> "granted", token |-> n] ELSE refreshes[c][j]
  BY <1>1 DEF SetRefresh
<1>3. n \notin used' \cup expired' /\ n # cookies'.refresh
  BY <1>1
<1>4. GrantedFresh'
  <2> SUFFICES ASSUME NEW c \in Tabs, NEW j \in Instances, refreshes'[c][j].pc = "granted"
               PROVE  /\ refreshes'[c][j].token \notin used' \cup expired'
                      /\ refreshes'[c][j].token # cookies'.refresh
                      /\ \A d \in Tabs, k \in Instances :
                           refreshes'[d][k].pc \in {"asked", "granted"}
                             /\ refreshes'[d][k].token = refreshes'[c][j].token => d = c /\ k = j
    BY DEF GrantedFresh
  <2>1. CASE c = b /\ j = i
    BY <1>1, <1>2, <1>3, <2>1
  <2>2. CASE ~(c = b /\ j = i)
    <3>1. refreshes'[c][j] = refreshes[c][j] /\ refreshes[c][j].token # n
      BY <1>1, <1>2, <2>2
    <3>2. refreshes[c][j].token # t
      BY <2>2, <3>1 DEF GrantedFresh
    <3> QED
      BY <1>2, <3>1, <3>2 DEF GrantedFresh
  <2> QED
    BY <2>1, <2>2
<1>5. KeptUnexpired'
  BY DEF KeptUnexpired
<1>6. SpentIsReplaced'
  BY <1>2 DEF SpentIsReplaced
<1>7. Apart'
  <2> SUFFICES ASSUME worst' = "none" PROVE Apart'
    BY DEF Apart
  <2>1. \A c \in Tabs, j \in Instances : refreshes[c][j].pc \in OnTheWay => c = b /\ j = i
    BY DEF Apart, OnTheWay
  <2>2. \A c \in Tabs, j \in Instances : refreshes'[c][j].pc \in OnTheWay => c = b /\ j = i
    BY <1>2, <2>1
  <2>3. \A c \in Tabs, j \in Instances : refreshes'[c][j].pc # "asked"
    BY <1>2, <2>1 DEF OnTheWay
  <2> QED
    BY <2>2, <2>3 DEF Apart
<1> QED
  BY <1>4, <1>5, <1>6, <1>7

LEMMA AnswerKeeps ==
  ASSUME AccountInv, LiveInv, NEW b \in Tabs, NEW i \in Instances, RefreshAnswered(b, i)
  PROVE  LiveInv'
<1> USE DEF LiveInv, RefreshAnswered, keycloakVars
<1>1. refreshes \in [Tabs -> [Instances -> RefreshRec]]
  BY RotationFacts
<1>2. \A c \in Tabs, j \in Instances :
        refreshes'[c][j] = IF c = b /\ j = i THEN NoRefresh ELSE refreshes[c][j]
  BY <1>1 DEF SetRefresh
<1>3. cookies'.refresh = refreshes[b][i].token
  BY DEF SetCookies
<1>4. \A c \in Tabs, j \in Instances : refreshes'[c][j].pc \in {"asked", "granted"} =>
        ~(c = b /\ j = i) /\ refreshes'[c][j] = refreshes[c][j]
  BY <1>2 DEF NoRefresh
<1>5. GrantedFresh'
  BY <1>3, <1>4 DEF GrantedFresh
<1>6. KeptUnexpired' /\ SpentIsReplaced'
  BY <1>3 DEF GrantedFresh, KeptUnexpired, SpentIsReplaced
<1>7. Apart'
  BY <1>4 DEF Apart, OnTheWay
<1> QED
  BY <1>5, <1>6, <1>7

LEMMA LoginKeeps ==
  ASSUME AccountInv, LiveInv, NEW b \in Tabs, LoginGranted(b)
  PROVE  LiveInv'
<1> USE DEF LiveInv, LoginGranted, refreshVars
<1>1. /\ Len(issued) \in Nat
      /\ used \subseteq 1 .. Len(issued) /\ expired \subseteq 1 .. Len(issued)
      /\ \A c \in Tabs, j \in Instances : refreshes[c][j].token \in 0 .. Len(issued)
  BY RotationFacts
<1>2. cookies'.refresh = Len(issued) + 1
  BY DEF SetCookies
<1>3. cookies'.refresh \notin used \cup expired
  BY <1>1, <1>2
<1>4. GrantedFresh'
  BY <1>1, <1>2 DEF GrantedFresh
<1>5. KeptUnexpired' /\ SpentIsReplaced'
  BY <1>3 DEF KeptUnexpired, SpentIsReplaced
<1>6. Apart'
  BY DEF Apart
<1> QED
  BY <1>4, <1>5, <1>6

LEMMA ExpiryKeeps == ASSUME AccountInv, LiveInv, RefreshExpires PROVE LiveInv'
<1> USE DEF LiveInv, RefreshExpires, refreshVars
<1>1. /\ cookies \in CookieRec
      /\ used \subseteq 1 .. Len(issued) /\ expired \subseteq 1 .. Len(issued)
      /\ \A c \in Tabs, j \in Instances :
           refreshes[c][j].pc \in {"asked", "granted"} => refreshes[c][j].token # 0
  BY RotationFacts
<1>2. cookies'.refresh = 0 /\ cookies.refresh # 0
  BY <1>1 DEF CookieRec, NoToken
<1>3. 0 \notin used \cup expired'
  BY <1>1, <1>2
<1>4. GrantedFresh'
  BY <1>1, <1>2 DEF GrantedFresh
<1>5. KeptUnexpired' /\ SpentIsReplaced'
  BY <1>2, <1>3 DEF KeptUnexpired, SpentIsReplaced
<1>6. Apart'
  BY DEF Apart
<1> QED
  BY <1>4, <1>5, <1>6

LEMMA LiveStep == ASSUME AccountInv, LiveInv, [AccountNext]_accountVars PROVE LiveInv'
<1>1. ASSUME NEW b \in Tabs, TabStep(b) PROVE LiveInv'
  <2>1. CASE LoginGranted(b)
    BY <2>1, LoginKeeps
  <2>2. CASE \/ (\E page \in Opened : Visit(b, page)) \/ TimerFires(b) \/ LogoutLeaves(b)
    <3>1. Unload(b) /\ expired' = expired /\ cookies' = cookies
      BY <2>2 DEF Visit, TimerFires, LogoutLeaves
    <3> QED
      BY <3>1, UnloadKeeps
  <2>3. CASE Logout(b)
    <3>1. UNCHANGED <<cookies, used, expired, ended, worst>>
      BY <2>3 DEF Logout, keycloakVars
    <3>2. CASE UNCHANGED refreshes
      BY <3>1, <3>2, QuietKeeps
    <3>3. CASE \E i \in Instances : refreshes[b][i].pc = "refused" /\ SetRefresh(b, i, NoRefresh)
      <4>1. PICK i \in Instances : refreshes[b][i].pc = "refused" /\ SetRefresh(b, i, NoRefresh)
        BY <3>3
      <4>2. NoRefresh.pc \notin {"asked", "granted"} /\ refreshes[b][i].pc # "granted"
        BY <4>1 DEF NoRefresh
      <4> QED
        BY <3>1, <4>1, <4>2, SettleKeeps
    <3> QED
      BY <2>3, <3>2, <3>3 DEF Logout
  <2>4. CASE \/ SubmitLogin(b) \/ LoginRefused(b) \/ Entered(b) \/ SkipLogin(b)
             \/ ReadCookies(b) \/ RoleRedirect(b) \/ Unauthorized(b) \/ LogoutLost(b)
    <3>1. UNCHANGED <<cookies, used, expired, ended, refreshes, worst>>
      BY <2>4 DEF SubmitLogin, LoginRefused, Entered, SkipLogin, ReadCookies, RoleRedirect,
        Unauthorized, LogoutLost, keycloakVars, refreshVars
    <3> QED
      BY <3>1, QuietKeeps
  <2>5. CASE LogoutServed(b)
    BY <2>5, ClearKeeps DEF LogoutServed, keycloakVars, refreshVars
  <2> QED
    BY <1>1, <2>1, <2>2, <2>3, <2>4, <2>5 DEF TabStep
<1>2. ASSUME NEW b \in Tabs, NEW i \in Instances, RefreshStep(b, i) PROVE LiveInv'
  <2> DEFINE r == refreshes[b][i]
  <2>1. CASE RefreshRefused(b, i)
    <3>1. /\ [r EXCEPT !.pc = "denied"].pc \notin {"asked", "granted"} /\ r.pc # "granted"
          /\ SetRefresh(b, i, [r EXCEPT !.pc = "denied"])
          /\ UNCHANGED <<cookies, used, expired, worst>>
          /\ ended' = ended \/ (r.pc = "asked" /\ r.token \in used)
      BY <2>1, RotationFacts DEF RefreshRefused, RefreshRec
    <3> QED
      BY <3>1, SettleKeeps
  <2>2. CASE RefreshDenied(b, i)
    <3>1. /\ Refused.pc \notin {"asked", "granted"} /\ r.pc # "granted"
          /\ SetRefresh(b, i, Refused)
          /\ UNCHANGED <<used, expired, ended, worst>> /\ cookies' = NoCookies
      BY <2>2 DEF RefreshDenied, keycloakVars, Refused
    <3> QED
      BY <3>1, SettleKeeps
  <2>3. CASE RefreshLost(b, i)
    <3>1. /\ Refused.pc \notin {"asked", "granted"}
          /\ SetRefresh(b, i, Refused)
          /\ UNCHANGED <<cookies, used, expired, ended>>
      BY <2>3 DEF RefreshLost, keycloakVars, Refused
    <3>2. worst' = "dropped"
      BY <2>3 DEF RefreshLost
    <3> QED
      BY <3>1, <3>2, SettleKeeps
  <2>4. CASE RefreshFails(b, i)
    <3>1. /\ [r EXCEPT !.pc = "denied"].pc \notin {"asked", "granted"} /\ r.pc # "granted"
          /\ SetRefresh(b, i, [r EXCEPT !.pc = "denied"])
          /\ UNCHANGED <<cookies, used, expired, ended, worst>>
      BY <2>4, RotationFacts DEF RefreshFails, keycloakVars, RefreshRec
    <3> QED
      BY <3>1, SettleKeeps
  <2> QED
    BY <1>2, <2>1, <2>2, <2>3, <2>4, StartKeeps, GrantKeeps, AnswerKeeps DEF RefreshStep
<1>3. CASE AccessExpires
  BY <1>3, QuietKeeps DEF AccessExpires, keycloakVars, refreshVars
<1>4. CASE UNCHANGED accountVars
  BY <1>4, QuietKeeps DEF accountVars
<1> QED
  BY <1>1, <1>2, <1>3, <1>4, ExpiryKeeps DEF AccountNext

\* What Keycloak would refuse it refuses ever after.
LEMMA RefusedStays ==
  ASSUME Grown, issued \in Seq(PairRec), NEW n \in 0 .. Len(issued), used \subseteq used',
         expired \subseteq expired', ended \subseteq ended', ~Usable(n)
  PROVE  ~Usable(n)'
<1>1. CASE n = 0
  BY <1>1 DEF Usable, NoToken
<1>2. CASE n # 0
  <2>1. n \in 1 .. Len(issued)
    BY <1>2
  <2>2. issued'[n] = issued[n]
    BY <2>1 DEF Grown
  <2> QED
    BY <1>2, <2>2 DEF Usable, NoToken
<1> QED
  BY <1>1, <1>2

\* A step after which the refreshes on their way are some of those before revives nothing.
LEMMA StaysQuiet ==
  ASSUME AccountInv, [AccountNext]_accountVars, ~Reviving,
         \A b \in Tabs, i \in Instances :
           refreshes'[b][i].pc \in OnTheWay => refreshes'[b][i] = refreshes[b][i]
  PROVE  ~Reviving'
<1>1. Grown
  BY StepIssues, IssuesGrow DEF AccountInv, AccountTypeOK, KeycloakOK, PairRec
<1>2. used \subseteq used' /\ expired \subseteq expired' /\ ended \subseteq ended'
  BY <1>1, KeycloakKept
<1>3. issued \in Seq(PairRec) /\ \A b \in Tabs, i \in Instances : refreshes[b][i].token \in 0 .. Len(issued)
  BY RotationFacts DEF AccountInv, AccountTypeOK, PairRec
<1>4. ASSUME NEW b \in Tabs, NEW i \in Instances, refreshes'[b][i].pc \in OnTheWay
      PROVE  refreshes'[b][i].pc = "asked" /\ ~Usable(refreshes[b][i].token)'
  <2>1. refreshes'[b][i] = refreshes[b][i]
    BY <1>4
  <2>2. refreshes[b][i].pc = "asked" /\ ~Usable(refreshes[b][i].token)
    BY <1>4, <2>1 DEF Reviving, OnTheWay
  <2>3. PICK n \in 0 .. Len(issued) : refreshes[b][i].token = n
    BY <1>3
  <2>4. ~Usable(n)
    BY <2>2, <2>3
  <2>5. ~Usable(n)'
    BY <1>1, <1>2, <1>3, <2>4, RefusedStays
  <2> QED
    BY <2>1, <2>2, <2>3, <2>5
<1> QED
  BY <1>4 DEF Reviving, OnTheWay

\* After a clean sign-out only a sign-in changes the cookies: nothing is left to ask with.
LEMMA QuietStep ==
  ASSUME AccountInv, SignOutQuiet, [AccountNext]_accountVars PROVE SignOutQuiet'
<1>1. refreshes \in [Tabs -> [Instances -> RefreshRec]]
  BY RotationFacts
<1>2. ASSUME NEW b \in Tabs, NEW i \in Instances, NEW r, r.pc \notin OnTheWay, SetRefresh(b, i, r)
      PROVE  \A c \in Tabs, j \in Instances :
               refreshes'[c][j].pc \in OnTheWay => refreshes'[c][j] = refreshes[c][j]
  BY <1>1, <1>2 DEF SetRefresh
<1>3. ASSUME NEW b \in Tabs, Unload(b)
      PROVE  \A c \in Tabs, j \in Instances :
               refreshes'[c][j].pc \in OnTheWay => refreshes'[c][j] = refreshes[c][j]
  BY <1>1, <1>3 DEF Unload, NoRefresh, OnTheWay
<1>4. ASSUME refreshes' = refreshes
      PROVE  \A c \in Tabs, j \in Instances :
               refreshes'[c][j].pc \in OnTheWay => refreshes'[c][j] = refreshes[c][j]
  BY <1>4
<1>5. NoRefresh.pc \notin OnTheWay /\ Refused.pc \notin OnTheWay
  BY DEF NoRefresh, Refused, OnTheWay
<1>6. ASSUME NEW b \in Tabs, TabStep(b) PROVE SignOutQuiet'
  <2>1. CASE LoginGranted(b)
    BY <2>1 DEF LoginGranted, SignOutQuiet
  <2>2. CASE LogoutServed(b)
    <3>1. refreshes' = refreshes /\ cookies' = NoCookies /\ signedOut' = ~Reviving
      BY <2>2 DEF LogoutServed, refreshVars
    <3> QED
      BY <1>4, <3>1, StaysQuiet DEF SignOutQuiet
  <2>3. CASE (\E page \in Opened : Visit(b, page)) \/ TimerFires(b) \/ LogoutLeaves(b)
    <3>1. Unload(b) /\ UNCHANGED <<cookies, signedOut>>
      BY <2>3 DEF Visit, TimerFires, LogoutLeaves
    <3> QED
      BY <1>3, <3>1, StaysQuiet DEF SignOutQuiet
  <2>4. CASE Logout(b)
    <3>1. UNCHANGED <<cookies, signedOut>>
      BY <2>4 DEF Logout
    <3>2. \/ refreshes' = refreshes \/ \E i \in Instances : SetRefresh(b, i, NoRefresh)
      BY <2>4 DEF Logout
    <3> QED
      BY <1>2, <1>4, <1>5, <3>1, <3>2, StaysQuiet DEF SignOutQuiet
  <2>5. CASE \/ SubmitLogin(b) \/ LoginRefused(b) \/ Entered(b) \/ SkipLogin(b)
             \/ ReadCookies(b) \/ RoleRedirect(b) \/ Unauthorized(b) \/ LogoutLost(b)
    <3>1. UNCHANGED <<cookies, refreshes, signedOut>>
      BY <2>5 DEF SubmitLogin, LoginRefused, Entered, SkipLogin, ReadCookies, RoleRedirect,
        Unauthorized, LogoutLost, refreshVars
    <3> QED
      BY <1>4, <3>1, StaysQuiet DEF SignOutQuiet
  <2> QED
    BY <1>6, <2>1, <2>2, <2>3, <2>4, <2>5 DEF TabStep
<1>7. ASSUME NEW b \in Tabs, NEW i \in Instances, RefreshStep(b, i) PROVE SignOutQuiet'
  <2> SUFFICES ASSUME signedOut' PROVE cookies' = NoCookies /\ ~Reviving'
    BY DEF SignOutQuiet
  <2>1. signedOut' = signedOut
    BY <1>7 DEF RefreshStep, StartRefresh, RefreshGranted, RefreshRefused, RefreshFails,
      RefreshAnswered, RefreshDenied, RefreshLost
  <2>2. cookies = NoCookies /\ ~Reviving
    BY <2>1 DEF SignOutQuiet
  <2>3. refreshes[b][i].pc # "granted" /\ ~RefreshGranted(b, i)
    BY <2>2 DEF Reviving, RefreshGranted
  <2>4. cookies' = NoCookies
    BY <1>7, <2>2, <2>3 DEF RefreshStep, StartRefresh, RefreshRefused, RefreshFails,
      RefreshAnswered, RefreshDenied, RefreshLost
  <2>5. \E r : r.pc \notin OnTheWay /\ SetRefresh(b, i, r)
    <3>1. refreshes[b][i] \in RefreshRec
      BY <1>1
    <3>2. [refreshes[b][i] EXCEPT !.pc = "denied"].pc \notin OnTheWay
      BY <3>1 DEF RefreshRec, OnTheWay
    <3>3. CASE StartRefresh(b, i)
      BY <1>5, <2>2, <3>3 DEF StartRefresh, NoCookies
    <3>4. CASE RefreshRefused(b, i) \/ RefreshFails(b, i)
      BY <3>2, <3>4 DEF RefreshRefused, RefreshFails
    <3>5. CASE RefreshDenied(b, i) \/ RefreshLost(b, i)
      BY <1>5, <3>5 DEF RefreshDenied, RefreshLost
    <3> QED
      BY <1>7, <2>3, <3>3, <3>4, <3>5 DEF RefreshStep, RefreshAnswered
  <2> QED
    BY <1>2, <2>2, <2>4, <2>5, StaysQuiet
<1>8. CASE AccessExpires
  BY <1>4, <1>8, StaysQuiet DEF AccessExpires, refreshVars, SignOutQuiet, NoCookies
<1>9. CASE RefreshExpires
  BY <1>4, <1>9, StaysQuiet DEF RefreshExpires, refreshVars, SignOutQuiet, NoCookies
<1>10. CASE UNCHANGED accountVars
  BY <1>4, <1>10, StaysQuiet DEF accountVars, SignOutQuiet
<1> QED
  BY <1>6, <1>7, <1>8, <1>9, <1>10 DEF AccountNext

\* However many tabs ask with the same token: once the refreshes are through and none was
\* lost or left behind, the refresh token in the cookies is neither spent nor expired, and
\* Keycloak honours it if no two of them overlapped.  A sign-out stands, in every tab,
\* until somebody signs in, unless a refresh on its way could still be granted.
THEOREM RotationSafety == AccountSpec => []RefreshTokenLive /\ []SignOutStands
<1> DEFINE Inv == AccountInv /\ LiveInv /\ SignOutQuiet
<1>1. AccountInit => Inv
  <2> SUFFICES ASSUME AccountInit PROVE LiveInv /\ SignOutQuiet
    BY InitInv
  <2>1. \A b \in Tabs, i \in Instances : refreshes[b][i].pc = "none"
    BY DEF AccountInit, NoRefresh
  <2>2. /\ cookies = NoCookies /\ signedOut = FALSE /\ worst = "none"
        /\ used = {} /\ expired = {} /\ ended = {}
    BY DEF AccountInit
  <2> QED
    BY <2>1, <2>2 DEF LiveInv, GrantedFresh, KeptUnexpired, SpentIsReplaced, Apart, OnTheWay,
      SignOutQuiet
<1>2. Inv /\ [AccountNext]_accountVars => Inv'
  BY StepInv, LiveStep, QuietStep
<1>3. Inv => RefreshTokenLive /\ SignOutStands
  <2> SUFFICES ASSUME Inv PROVE RefreshTokenLive
    BY DEF SignOutQuiet, SignOutStands
  <2> SUFFICES ASSUME cookies.refresh # NoToken, worst # "dropped", \A b \in Tabs : In(b, OnTheWay) = {}
               PROVE  /\ cookies.refresh \notin used \cup expired
                      /\ worst = "none" => Usable(cookies.refresh)
    BY DEF RefreshTokenLive
  <2>1. \A b \in Tabs, i \in Instances : refreshes[b][i].pc # "granted"
    BY DEF In, OnTheWay
  <2>2. cookies.refresh \notin used \cup expired
    BY <2>1 DEF LiveInv, KeptUnexpired, SpentIsReplaced
  <2>3. worst = "none" => ended = {}
    BY DEF LiveInv, Apart
  <2> QED
    BY <2>2, <2>3 DEF Usable
<1> QED
  BY <1>1, <1>2, <1>3, PTL DEF AccountSpec
=============================================================================
