----------------------------- MODULE ShellProofs -----------------------------
(***************************************************************************)
(* What the shell promises, for any sidebar and any limits.  LightStands   *)
(* holds in any state whatever, typed or not: it depends on no more than   *)
(* what each action writes to local storage.  ShellTypeOK needs to know    *)
(* what waits to be run, and what a filter returns.                        *)
(***************************************************************************)
EXTENDS Shell, WellFoundedInduction, SequenceTheorems, TLAPS

\* MountLeavesLight: a layout that mounts keeps a stored light theme, whichever
\* of the two portals it belongs to.
LEMMA MountLeavesLight ==
    ASSUME NEW page, stored = "light"
    PROVE  MountedTheme(page) = "light"
BY DEF MountedTheme

\* GotoLeavesLight: so does every navigation, within a portal or across.
LEMMA GotoLeavesLight ==
    ASSUME NEW page, stored = "light", Goto(page)
    PROVE  stored' = "light"
BY MountLeavesLight DEF Goto

\* QuietKeepTheme: the timers other than a chosen command leave it to the layouts.
LEMMA QuietKeepTheme ==
    ASSUME stored = "light",
           \/ Redirected \/ FocusPalette \/ SearchSettles \/ SearchResets
           \/ RunNavigation \/ WalkthroughDue \/ RestoredHides \/ WarningHides
    PROVE  stored' = "light"
<1>1. CASE Redirected
  BY <1>1, GotoLeavesLight DEF Redirected
<1>2. CASE RunNavigation
  BY <1>2, GotoLeavesLight DEF RunNavigation
<1>3. CASE \/ FocusPalette \/ SearchSettles \/ SearchResets
           \/ WalkthroughDue \/ RestoredHides \/ WarningHides
  BY <1>3 DEF FocusPalette, SearchSettles, SearchResets, WalkthroughDue,
     RestoredHides, WarningHides
<1> QED
  BY <1>1, <1>2, <1>3

\* GesturesKeepTheme: what the user and the network do keeps it too, but for the
\* toggles.
LEMMA GesturesKeepTheme ==
    ASSUME stored = "light",
           \/ \E page \in Pages : FollowLink(page)
           \/ Reload \/ AuthSeenAgain
           \/ PressCommandK \/ ClickBackdrop \/ MoveFocus
           \/ \E text \in Texts : TypeSearch(text)
           \/ \E command \in QuickActions \cup AdminPages : Choose(command)
           \/ PressCommandSlash \/ PressEscape
           \/ \E by \in {1, -1} : Step(by)
           \/ FinishWalkthrough \/ AskStarter
           \/ GoOffline \/ GoOnline \/ OtherTabOpens \/ OtherTabCloses
    PROVE  stored' = "light"
<1>1. CASE \E page \in Pages : FollowLink(page)
  BY <1>1, GotoLeavesLight DEF FollowLink
<1>2. CASE Reload
  BY <1>2, MountLeavesLight DEF Reload
<1>3. CASE \/ AuthSeenAgain \/ PressCommandK \/ ClickBackdrop \/ MoveFocus
           \/ PressCommandSlash \/ PressEscape \/ FinishWalkthrough \/ AskStarter
           \/ GoOffline \/ GoOnline \/ OtherTabOpens \/ OtherTabCloses
  BY <1>3 DEF AuthSeenAgain, PressCommandK, ClickBackdrop, MoveFocus,
     PressCommandSlash, PressEscape, FinishWalkthrough, AskStarter,
     GoOffline, GoOnline, OtherTabOpens, OtherTabCloses
<1>4. CASE \E text \in Texts : TypeSearch(text)
  BY <1>4 DEF TypeSearch
<1>5. CASE \E command \in QuickActions \cup AdminPages : Choose(command)
  BY <1>5 DEF Choose
<1>6. CASE \E by \in {1, -1} : Step(by)
  BY <1>6 DEF Step
<1> QED
  BY <1>1, <1>2, <1>3, <1>4, <1>5, <1>6

\* LightTheme: LightStands is a property of Shell, for any sidebar, any number of
\* other tabs and any sequence of navigations, redirects, reloads and commands: a
\* light theme that somebody chose is darkened by a toggle only.
THEOREM LightTheme == Spec => LightStands
<1>1. ASSUME [ShellNext]_shellVars, stored = "light", stored' = "dark"
      PROVE  \/ ToggleTheme \/ OtherTabStores
             \/ RunAction /\ Head(pending).command = "toggle-theme"
  <2>1. CASE ToggleTheme \/ OtherTabStores
    BY <2>1
  <2>2. CASE RunAction
    BY <1>1, <2>2 DEF RunAction
  <2>3. CASE UNCHANGED shellVars
    BY <1>1, <2>3 DEF shellVars
  <2> QED
    BY <1>1, <2>1, <2>2, <2>3, QuietKeepTheme, GesturesKeepTheme DEF ShellNext, Timers
<1> QED
  BY <1>1, PTL DEF Spec, LightStands

-----------------------------------------------------------------------------
(* The commands the palette remembers.  A filter is a recursion, and the   *)
(* induction over it needs the least number of a set; sets take the place  *)
(* of predicates.                                                          *)

Below == {p \in Nat \X Nat : p[1] < p[2]}

\* Least: a set of natural numbers that is not empty has a least member.
LEMMA Least ==
    ASSUME NEW S, S \subseteq Nat, S # {}
    PROVE  \E x \in S : \A y \in S : x <= y
<1>1. Below = OpToRel(<, Nat)
  BY DEF Below, OpToRel
<1>2. IsWellFoundedOn(Below, Nat)
  BY <1>1, NatLessThanWellFounded
<1>3. PICK x \in S : \A y \in S : <<y, x>> \notin Below
  BY <1>2, WFMin
<1>4. \A y \in S : <<y, x>> \in Nat \X Nat /\ <<y, x>>[1] = y /\ <<y, x>>[2] = x
  OBVIOUS
<1>5. \A y \in S : ~ (y < x)
  BY <1>3, <1>4, Zenon DEF Below
<1> QED
  BY <1>5

\* Climb: what holds at the start of a walk, and after a step if it held before it,
\* holds all along.
LEMMA Climb ==
    ASSUME NEW k \in Nat, NEW T, 0 \in T, \A i \in 1..k : i - 1 \in T => i \in T
    PROVE  \A i \in 0..k : i \in T
<1> DEFINE U == (0..k) \ T
<1>1. SUFFICES ASSUME U # {} PROVE FALSE
  OBVIOUS
<1>2. U \subseteq Nat /\ \A y : y \in U <=> y \in 0..k /\ y \notin T
  OBVIOUS
<1> HIDE DEF U
<1>3. PICK x \in U : \A y \in U : x <= y
  BY <1>1, <1>2, Least
<1>4. x \in 0..k /\ x \notin T /\ x # 0
  BY <1>2, <1>3
<1>5. x \in 1..k /\ x - 1 \in 0..k /\ ~ (x <= x - 1)
  BY <1>4
<1>6. x - 1 \in T
  BY <1>2, <1>3, <1>5
<1> QED
  BY <1>4, <1>5, <1>6

\* What a filter that has come to the k-th member of s does with it.
Filtered(f, s, S, k) == IF s[k] \in S THEN Append(f[k - 1], s[k]) ELSE f[k - 1]

\* f tells what a filter has kept of the first i members of s.
FilterRun(f, s, S, k) == f = [i \in 0..k |-> IF i = 0 THEN <<>> ELSE Filtered(f, s, S, i)]

\* FilterRuns: a filter can be run.
LEMMA FilterRuns ==
    ASSUME NEW s, NEW S, NEW k \in Nat
    PROVE  \E f : FilterRun(f, s, S, k)
<1> DEFINE T == {n \in 0..k : \E f : FilterRun(f, s, S, n)}
<1>1. 0 \in T
  <2>1. FilterRun([i \in 0..0 |-> <<>>], s, S, 0)
    BY DEF FilterRun
  <2>2. 0 \in 0..k
    OBVIOUS
  <2> QED
    BY <2>1, <2>2
<1>2. ASSUME NEW n \in 1..k, n - 1 \in T
      PROVE  n \in T
  <2>1. PICK f : FilterRun(f, s, S, n - 1)
    BY <1>2
  <2> DEFINE g == [i \in 0..n |-> IF i = n THEN Filtered(f, s, S, n) ELSE f[i]]
             h == [i \in 0..n |-> IF i = 0 THEN <<>> ELSE Filtered(g, s, S, i)]
  <2>2. \A i \in 0..(n - 1) : f[i] = IF i = 0 THEN <<>> ELSE Filtered(f, s, S, i)
    BY <2>1 DEF FilterRun
  <2>3. ASSUME NEW i \in 0..n
        PROVE  g[i] = IF i = 0 THEN <<>> ELSE Filtered(g, s, S, i)
    <3>1. CASE i = 0
      BY <2>2, <3>1
    <3>2. CASE i # 0
      <4>1. i \in 0..n /\ i - 1 \in 0..n /\ i - 1 # n
        BY <3>2
      <4>2. g[i - 1] = f[i - 1]
        BY <4>1
      <4>3. Filtered(g, s, S, i) = Filtered(f, s, S, i)
        BY <4>2 DEF Filtered
      <4>4. CASE i = n
        BY <3>2, <4>3, <4>4
      <4>5. CASE i # n
        <5>1. i \in 0..(n - 1)
          BY <4>5
        <5> QED
          BY <2>2, <3>2, <4>3, <4>5, <5>1
      <4> QED
        BY <4>4, <4>5
    <3> QED
      BY <3>1, <3>2
  <2>4. g = h
    <3>1. g = [i \in 0..n |-> g[i]]
      OBVIOUS
    <3> HIDE DEF g
    <3> QED
      BY <2>3, <3>1
  <2>5. FilterRun(g, s, S, n)
    BY <2>4 DEF FilterRun
  <2> HIDE DEF g, h
  <2>6. n \in 0..k
    OBVIOUS
  <2> QED
    BY <2>5, <2>6
<1>3. k \in 0..k
  OBVIOUS
<1>4. k \in T
  <2> HIDE DEF T
  <2> QED
    BY <1>1, <1>2, <1>3, Climb
<1> QED
  BY <1>4

\* No member of s is there twice.
Once(s) == \A i, j \in 1..Len(s) : s[i] = s[j] => i = j

\* q holds members of s that are in S, each of them once.
Selected(q, T, s, S, k) ==
    /\ q \in Seq(T) /\ Once(q)
    /\ \A j \in 1..Len(q) : q[j] \in S /\ \E i \in 1..k : q[j] = s[i]

\* KeepSelects: a filter of a list without repetitions repeats nothing.
LEMMA KeepSelects ==
    ASSUME NEW T, NEW s \in Seq(T), Once(s), NEW S
    PROVE  Selected(Keep(s, S), T, s, S, Len(s))
<1> DEFINE n == Len(s)
           Run(f) == f = [i \in 0..n |-> IF i = 0 THEN <<>>
                              ELSE IF s[i] \in S THEN Append(f[i - 1], s[i]) ELSE f[i - 1]]
           kept == CHOOSE f : Run(f)
           U == {i \in 0..n : Selected(kept[i], T, s, S, i)}
<1>1. n \in Nat /\ \A i \in 1..n : s[i] \in T
  OBVIOUS
<1>2. Keep(s, S) = kept[n]
  BY DEF Keep
<1>3. \E f : Run(f)
  <2>1. \E f : FilterRun(f, s, S, n)
    BY <1>1, FilterRuns
  <2> QED
    BY <2>1 DEF FilterRun, Filtered
<1>4. Run(kept)
  <2> HIDE DEF Run
  <2> QED
    BY <1>3, Zenon
<1> HIDE DEF kept, n
<1>5. kept[0] = <<>> /\ \A i \in 1..n : kept[i] = IF s[i] \in S THEN Append(kept[i - 1], s[i])
                                                               ELSE kept[i - 1]
  <2>1. 0 \in 0..n /\ \A i \in 1..n : i \in 0..n /\ i # 0
    BY <1>1
  <2> QED
    BY <1>4, <2>1
<1>6. 0 \in U
  <2>1. <<>> \in Seq(T) /\ Len(<<>>) = 0 /\ 1..0 = {} /\ 0 \in 0..n
    BY <1>1
  <2>2. Selected(<<>>, T, s, S, 0)
    BY <2>1 DEF Selected, Once
  <2> QED
    BY <1>5, <2>1, <2>2
<1>7. ASSUME NEW i \in 1..n, i - 1 \in U
      PROVE  i \in U
  <2> DEFINE q == kept[i - 1]
             m == Len(q)
             new == Append(q, s[i])
  <2>1. /\ q \in Seq(T) /\ Once(q)
        /\ \A j \in 1..m : q[j] \in S /\ \E x \in 1..(i - 1) : q[j] = s[x]
    BY <1>7 DEF Selected
  <2>2. i \in 0..n /\ i \in 1..i /\ \A x \in 1..(i - 1) : x \in 1..i /\ x \in 1..n /\ x # i
    BY <1>1
  <2>3. CASE s[i] \notin S
    <3>1. \A j \in 1..m : q[j] \in S /\ \E x \in 1..i : q[j] = s[x]
      BY <2>1, <2>2
    <3>2. Selected(q, T, s, S, i)
      BY <2>1, <3>1 DEF Selected
    <3> QED
      BY <1>5, <2>2, <2>3, <3>2
  <2>4. CASE s[i] \in S
    <3> HIDE DEF q
    <3>1. m \in Nat
      BY <2>1
    <3>2. /\ new \in Seq(T) /\ Len(new) = m + 1 /\ new[m + 1] = s[i]
          /\ \A j \in 1..m : new[j] = q[j]
      BY <1>1, <2>1
    <3> HIDE DEF new, m
    <3>3. \A j \in 1..(m + 1) : j \in 1..m \/ j = m + 1
      BY <3>1
    <3>4. \A j \in 1..m : q[j] # s[i]
      <4>1. \A x \in 1..(i - 1) : s[x] # s[i]
        BY <2>2 DEF Once, n
      <4> QED
        BY <2>1, <4>1
    <3>5. Once(new)
      <4> SUFFICES ASSUME NEW x \in 1..(m + 1), NEW y \in 1..(m + 1), new[x] = new[y]
                   PROVE  x = y
        BY <3>2 DEF Once
      <4>1. CASE x = m + 1 /\ y = m + 1
        BY <4>1
      <4>2. CASE x \in 1..m /\ y = m + 1
        BY <3>2, <3>4, <4>2
      <4>3. CASE x = m + 1 /\ y \in 1..m
        BY <3>2, <3>4, <4>3
      <4>4. CASE x \in 1..m /\ y \in 1..m
        <5>1. q[x] = q[y]
          BY <3>2, <4>4
        <5> QED
          BY <2>1, <4>4, <5>1 DEF Once, m
      <4> QED
        BY <3>3, <4>1, <4>2, <4>3, <4>4
    <3>6. \A j \in 1..(m + 1) : new[j] \in S /\ \E x \in 1..i : new[j] = s[x]
      <4> SUFFICES ASSUME NEW j \in 1..(m + 1)
                   PROVE  new[j] \in S /\ \E x \in 1..i : new[j] = s[x]
        OBVIOUS
      <4>1. CASE j = m + 1
        BY <2>2, <2>4, <3>2, <4>1
      <4>2. CASE j \in 1..m
        BY <2>1, <2>2, <3>2, <4>2
      <4> QED
        BY <3>3, <4>1, <4>2
    <3>7. Selected(new, T, s, S, i)
      BY <3>2, <3>5, <3>6 DEF Selected
    <3>8. kept[i] = new
      BY <1>5, <2>4 DEF new, q
    <3> QED
      BY <2>2, <3>7, <3>8
  <2> QED
    BY <2>3, <2>4
<1>8. n \in U
  <2> HIDE DEF U
  <2>1. n \in 0..n
    BY <1>1
  <2> QED
    BY <1>1, <1>6, <1>7, <2>1, Climb
<1> QED
  BY <1>2, <1>8 DEF n

-----------------------------------------------------------------------------
(* Types.                                                                  *)

Commands == {"new-chat", "history", "toggle-theme", "shortcuts", "restart-onboarding"}
              \cup AdminPages

Chosen == [command : Commands, path : Pages, theme : {"light", "dark"}]

PaletteStates == [open : BOOLEAN, search : Texts, debounced : Texts,
                  reset : BOOLEAN, refocus : BOOLEAN]
WalkStates == [visible : BOOLEAN, step : 0 .. LastStep, done : BOOLEAN, timer : BOOLEAN]
NetStates == [online : BOOLEAN, was : BOOLEAN, restored : BOOLEAN, timer : BOOLEAN]
WarnStates == [shown : BOOLEAN, timers : Nat, channels : Nat]

\* The commands the palette remembers: no more than its limit, each of them once.
Remembered(list) == list \in Seq(Commands) /\ Len(list) <= MaxRecent /\ Once(list)

PlaceTyped == isAdmin \in BOOLEAN /\ path \in Pages
PaletteTyped == palette \in PaletteStates /\ focus \in {"page", "palette", "chat"}
WalkTyped == walk \in WalkStates /\ starter \in BOOLEAN
NoticesTyped == net \in NetStates /\ warn \in WarnStates /\ others \in 0 .. MaxOthers
ThemeTyped == stored \in {"none", "light", "dark"}

\* What every step keeps: ShellTypeOK does not say which commands wait to be run, nor
\* where they were chosen.
ShellInv ==
    /\ PlaceTyped /\ PaletteTyped /\ WalkTyped /\ NoticesTyped /\ ThemeTyped
    /\ shortcuts \in BOOLEAN
    /\ Remembered(recent) /\ pending \in Seq(Chosen)

\* RememberKeeps: a chosen command is remembered, the oldest one may be forgotten.
LEMMA RememberKeeps ==
    ASSUME Remembered(recent), NEW command \in Commands
    PROVE  Remembered(Remember(command))
<1> DEFINE S == {recent[i] : i \in DOMAIN recent} \ {command}
           earlier == Keep(recent, S)
           all == <<command>> \o earlier
           m == IF Len(all) < MaxRecent THEN Len(all) ELSE MaxRecent
           new == SubSeq(all, 1, m)
<1>1. Remember(command) = new
  BY DEF Remember
<1>2. Selected(earlier, Commands, recent, S, Len(recent))
  BY KeepSelects DEF Remembered
<1>3. command \notin S
  OBVIOUS
<1> HIDE DEF earlier, S
<1> DEFINE n == Len(earlier)
<1>4. earlier \in Seq(Commands) /\ n \in Nat /\ Once(earlier)
  BY <1>2 DEF Selected
<1>5. \A j \in 1..n : earlier[j] # command
  BY <1>2, <1>3 DEF Selected
<1>6. /\ all \in Seq(Commands) /\ Len(all) = n + 1 /\ all[1] = command
      /\ \A j \in 1..n : all[j + 1] = earlier[j]
  BY <1>4
<1> HIDE DEF all, n
<1>7. \A j \in 1..(n + 1) : j = 1 \/ (j - 1 \in 1..n /\ (j - 1) + 1 = j)
  BY <1>4
<1>8. Once(all)
  <2> SUFFICES ASSUME NEW i \in 1..(n + 1), NEW j \in 1..(n + 1), all[i] = all[j]
               PROVE  i = j
    BY <1>6 DEF Once
  <2>1. CASE i = 1 /\ j = 1
    BY <2>1
  <2>2. CASE i = 1 /\ j # 1
    BY <1>5, <1>6, <1>7, <2>2
  <2>3. CASE i # 1 /\ j = 1
    BY <1>5, <1>6, <1>7, <2>3
  <2>4. CASE i # 1 /\ j # 1
    <3>1. i - 1 \in 1..n /\ j - 1 \in 1..n /\ (i - 1) + 1 = i /\ (j - 1) + 1 = j
      BY <1>7, <2>4
    <3>2. earlier[i - 1] = earlier[j - 1]
      BY <1>6, <3>1
    <3>3. i - 1 = j - 1
      BY <1>4, <3>1, <3>2 DEF Once, n
    <3> QED
      BY <3>1, <3>3
  <2> QED
    BY <2>1, <2>2, <2>3, <2>4
<1>9. m \in Nat /\ m <= MaxRecent /\ m <= n + 1
  BY <1>4, <1>6, ShellConstants
<1> HIDE DEF m
<1>10. new \in Seq(Commands) /\ Len(new) = m /\ \A j \in 1..m : new[j] = all[j]
  BY <1>6, <1>9
<1> HIDE DEF new
<1>11. Once(new)
  <2> SUFFICES ASSUME NEW i \in 1..m, NEW j \in 1..m, new[i] = new[j]
               PROVE  i = j
    BY <1>10 DEF Once
  <2>1. i \in 1..(n + 1) /\ j \in 1..(n + 1)
    BY <1>4, <1>9
  <2>2. all[i] = all[j]
    BY <1>10
  <2> QED
    BY <1>6, <1>8, <2>1, <2>2 DEF Once
<1> QED
  BY <1>1, <1>9, <1>10, <1>11 DEF Remembered

\* HomeIsAPage: both portals have a first page.
LEMMA HomeIsAPage == Home \in Pages
<1>1. 1 \in 1 .. Len(NavItems)
  BY ShellConstants
<1> QED
  BY <1>1 DEF Home, Pages, AdminPages, EmployeePages

\* StepsOfWalk: the walkthrough has a first step.
LEMMA StepsOfWalk == LastStep = 4 /\ 0 \in 0 .. LastStep
BY DEF LastStep, OnboardingSteps

\* Mounted: what a layout starts with.
LEMMA Mounted ==
    ASSUME WalkTyped, NoticesTyped, ThemeTyped, PlaceTyped,
           NEW page \in Pages, NEW open \in BOOLEAN, NEW visible \in BOOLEAN
    PROVE  /\ MountedPalette(open) \in PaletteStates
           /\ MountedWalk(page, visible) \in WalkStates
           /\ MountedNet \in NetStates
           /\ MountedWarn(page) \in WarnStates
           /\ MountedTheme(page) \in {"none", "light", "dark"}
<1>1. MountedPalette(open) \in PaletteStates
  BY DEF MountedPalette, PaletteStates, Texts
<1>2. MountedWalk(page, visible) \in WalkStates
  BY StepsOfWalk DEF MountedWalk, WalkStates, WalkTyped, Armed
<1>3. MountedNet \in NetStates
  BY DEF MountedNet, NetStates, NoticesTyped
<1>4. MountedWarn(page) \in WarnStates
  BY DEF MountedWarn, WarnStates, NoticesTyped
<1>5. MountedTheme(page) \in {"none", "light", "dark"}
  BY DEF MountedTheme, ThemeTyped
<1> QED
  BY <1>1, <1>2, <1>3, <1>4, <1>5

\* GotoKeeps: a navigation, within a portal or across.
LEMMA GotoKeeps ==
    ASSUME ShellInv, NEW page \in Pages, Goto(page), UNCHANGED <<isAdmin, starter, others>>
    PROVE  /\ PlaceTyped' /\ PaletteTyped' /\ WalkTyped' /\ NoticesTyped' /\ ThemeTyped'
           /\ shortcuts' \in BOOLEAN
<1>1. palette.open \in BOOLEAN /\ walk.visible \in BOOLEAN
  BY DEF ShellInv, PaletteTyped, PaletteStates, WalkTyped, WalkStates
<1>2. /\ MountedPalette(palette.open) \in PaletteStates
      /\ MountedWalk(page, walk.visible) \in WalkStates
      /\ MountedNet \in NetStates
      /\ MountedWarn(page) \in WarnStates
      /\ MountedTheme(page) \in {"none", "light", "dark"}
  BY <1>1, Mounted DEF ShellInv
<1>3. CASE PortalOf(page) = PortalOf(path)
  BY <1>3 DEF Goto, ShellInv, PlaceTyped, PaletteTyped, WalkTyped, NoticesTyped, ThemeTyped
<1>4. CASE PortalOf(page) # PortalOf(path)
  BY <1>2, <1>4 DEF Goto, ShellInv, PlaceTyped, PaletteTyped, WalkTyped, NoticesTyped,
     ThemeTyped
<1> QED
  BY <1>3, <1>4

\* InitKeeps: a tab that was just opened.
LEMMA InitKeeps == ShellInit => ShellInv
<1> SUFFICES ASSUME ShellInit PROVE ShellInv
  OBVIOUS
<1>1. PlaceTyped
  BY HomeIsAPage DEF ShellInit, PlaceTyped
<1>2. PaletteTyped
  BY DEF ShellInit, PaletteTyped, MountedPalette, PaletteStates, Texts
<1>3. WalkTyped
  <2> DEFINE due(done) == ~isAdmin /\ ~done
  <2>1. \A done \in BOOLEAN : due(done) \in BOOLEAN
    BY Zenon
  <2>2. PICK done \in BOOLEAN :
            walk = [visible |-> FALSE, step |-> 0, done |-> done, timer |-> due(done)]
    BY DEF ShellInit
  <2> HIDE DEF due
  <2> QED
    BY <2>1, <2>2, StepsOfWalk DEF ShellInit, WalkTyped, WalkStates
<1>4. NoticesTyped
  BY ShellConstants DEF ShellInit, NoticesTyped, NetStates, WarnStates
<1>5. ThemeTyped /\ shortcuts \in BOOLEAN
  BY DEF ShellInit, ThemeTyped
<1>6. Remembered(recent)
  <2>1. recent = <<>>
    BY DEF ShellInit
  <2>2. <<>> \in Seq(Commands) /\ Len(<<>>) = 0 /\ 1..0 = {} /\ 0 <= MaxRecent
    BY ShellConstants
  <2> QED
    BY <2>1, <2>2 DEF Remembered, Once
<1>7. pending \in Seq(Chosen)
  BY DEF ShellInit
<1> QED
  BY <1>1, <1>2, <1>3, <1>4, <1>5, <1>6, <1>7 DEF ShellInv

\* LayoutsKeep: links, redirects, reloads and the stores of other tabs.
LEMMA LayoutsKeep ==
    ASSUME ShellInv,
           \/ Redirected \/ \E page \in Pages : FollowLink(page)
           \/ Reload \/ AuthSeenAgain \/ ToggleTheme \/ OtherTabStores
    PROVE  ShellInv'
<1>1. CASE Redirected
  BY <1>1, GotoKeeps, HomeIsAPage DEF Redirected, ShellInv, Remembered
<1>2. CASE \E page \in Pages : FollowLink(page)
  BY <1>2, GotoKeeps DEF FollowLink, ShellInv
<1>3. CASE Reload
  <2>1. /\ MountedPalette(FALSE) \in PaletteStates
        /\ MountedWalk(path, FALSE) \in WalkStates
        /\ MountedNet \in NetStates
        /\ MountedTheme(path) \in {"none", "light", "dark"}
    BY Mounted DEF ShellInv, PlaceTyped
  <2>2. [shown |-> FALSE, timers |-> 0,
         channels |-> IF PortalOf(path) = "employee" THEN 1 ELSE 0] \in WarnStates
    BY DEF WarnStates
  <2>3. <<>> \in Seq(Chosen)
    OBVIOUS
  <2> QED
    BY <1>3, <2>1, <2>2, <2>3 DEF Reload, placeVars, ShellInv, PlaceTyped, PaletteTyped,
       WalkTyped, NoticesTyped, ThemeTyped, Remembered
<1>4. CASE AuthSeenAgain
  <2>1. [walk EXCEPT !.timer = Armed(path, walk.done)] \in WalkStates
    BY DEF ShellInv, WalkTyped, WalkStates, Armed
  <2> QED
    BY <1>4, <2>1 DEF AuthSeenAgain, placeVars, paletteVars, noticeVars, ShellInv, PlaceTyped,
       PaletteTyped, WalkTyped, NoticesTyped, ThemeTyped
<1>5. CASE ToggleTheme
  BY <1>5 DEF ToggleTheme, Flipped, placeVars, paletteVars, noticeVars, walkVars, ShellInv,
     PlaceTyped, PaletteTyped, WalkTyped, NoticesTyped, ThemeTyped
<1>6. CASE OtherTabStores
  <2>1. [walk EXCEPT !.done = TRUE] \in WalkStates
    BY DEF ShellInv, WalkTyped, WalkStates
  <2> QED
    BY <1>6, <2>1 DEF OtherTabStores, Flipped, placeVars, paletteVars, noticeVars, ShellInv,
       PlaceTyped, PaletteTyped, WalkTyped, NoticesTyped, ThemeTyped
<1> QED
  BY <1>1, <1>2, <1>3, <1>4, <1>5, <1>6

\* RowsAreCommands: what the palette lists can be chosen.
LEMMA RowsAreCommands ==
    ASSUME ShellInv
    PROVE  Rows \subseteq Commands
<1>1. QuickActions \subseteq Commands
  BY DEF QuickActions, Commands
<1>2. {NavItems[i] : i \in 1 .. NavRows} \subseteq AdminPages
  <2>1. 1 .. NavRows \subseteq 1 .. Len(NavItems)
    BY ShellConstants
  <2> QED
    BY <2>1 DEF AdminPages
<1>3. palette.debounced = "" \/ palette.debounced \in AdminPages
  BY DEF ShellInv, PaletteTyped, PaletteStates, Texts
<1> QED
  BY <1>1, <1>2, <1>3 DEF Rows, Commands

\* PaletteKeeps: the palette, and the focus.
LEMMA PaletteKeeps ==
    ASSUME ShellInv,
           \/ PressCommandK \/ ClickBackdrop \/ FocusPalette \/ MoveFocus
           \/ \E text \in Texts : TypeSearch(text)
           \/ SearchSettles \/ SearchResets
    PROVE  ShellInv'
<1>1. palette \in PaletteStates /\ "" \in Texts
  BY DEF ShellInv, PaletteTyped, Texts
<1>2. Opened(TRUE) \in PaletteStates /\ Opened(FALSE) \in PaletteStates
  BY <1>1 DEF Opened, PaletteStates
<1>3. SUFFICES PaletteTyped' /\ UNCHANGED <<placeVars, pending, recent, shortcuts, walkVars,
                                            noticeVars, stored>>
  BY <1>3 DEF placeVars, walkVars, noticeVars, ShellInv, PlaceTyped, WalkTyped,
     NoticesTyped, ThemeTyped
<1>4. CASE PressCommandK
  <2>1. palette.open \in BOOLEAN
    BY <1>1 DEF PaletteStates
  <2>2. Opened(~palette.open) \in PaletteStates
    BY <1>2, <2>1
  <2> QED
    BY <1>4, <2>2 DEF PressCommandK, ShellInv, PaletteTyped
<1>5. CASE ClickBackdrop
  BY <1>2, <1>5 DEF ClickBackdrop, PaletteTyped
<1>6. CASE FocusPalette
  BY <1>1, <1>6 DEF FocusPalette, PaletteTyped, PaletteStates
<1>7. CASE MoveFocus
  BY <1>7 DEF MoveFocus, ShellInv, PaletteTyped
<1>8. CASE \E text \in Texts : TypeSearch(text)
  BY <1>1, <1>8 DEF TypeSearch, ShellInv, PaletteTyped, PaletteStates
<1>9. CASE SearchSettles
  BY <1>1, <1>9 DEF SearchSettles, ShellInv, PaletteTyped, PaletteStates
<1>10. CASE SearchResets
  BY <1>1, <1>10 DEF SearchResets, ShellInv, PaletteTyped, PaletteStates
<1> QED
  BY <1>4, <1>5, <1>6, <1>7, <1>8, <1>9, <1>10

\* ChooseKeeps: a command is chosen.
LEMMA ChooseKeeps ==
    ASSUME ShellInv, NEW command, Choose(command)
    PROVE  ShellInv'
<1>1. command \in Commands
  BY RowsAreCommands DEF Choose
<1>2. Remembered(recent')
  BY <1>1, RememberKeeps DEF Choose, ShellInv
<1>3. palette' \in PaletteStates /\ focus' = "page"
  BY DEF Choose, Opened, ShellInv, PaletteTyped, PaletteStates
<1> DEFINE chosen == [command |-> command, path |-> path, theme |-> Theme]
<1>4. chosen \in Chosen
  BY <1>1 DEF ShellInv, PlaceTyped, Chosen, Theme
<1>5. pending' = Append(pending, chosen)
  BY DEF Choose
<1> HIDE DEF chosen
<1>6. pending' \in Seq(Chosen)
  BY <1>4, <1>5 DEF ShellInv
<1> QED
  BY <1>2, <1>3, <1>6 DEF Choose, placeVars, walkVars, noticeVars, ShellInv, PlaceTyped,
     PaletteTyped, WalkTyped, NoticesTyped, ThemeTyped, Remembered

\* NextCommand: the command whose turn it is.
LEMMA NextCommand ==
    ASSUME ShellInv, pending # <<>>
    PROVE  /\ Head(pending) \in Chosen /\ Tail(pending) \in Seq(Chosen)
           /\ Navigates(Head(pending)) => DestinationOf(Head(pending)) \in Pages
<1>1. Head(pending) \in Chosen /\ Tail(pending) \in Seq(Chosen)
  BY DEF ShellInv
<1>2. ASSUME NEW chosen \in Chosen, Navigates(chosen)
      PROVE  DestinationOf(chosen) \in Pages
  <2>1. CASE chosen.command = "new-chat"
    BY <2>1 DEF DestinationOf, Pages, EmployeePages
  <2>2. CASE chosen.command = "history"
    BY <2>2 DEF DestinationOf, Pages, EmployeePages
  <2>3. CASE chosen.command \notin {"new-chat", "history"}
    <3>1. DestinationOf(chosen) = chosen.command
      BY <2>3 DEF DestinationOf
    <3>2. chosen.command \in AdminPages
      BY <1>2, <2>3 DEF Navigates
    <3> QED
      BY <3>1, <3>2 DEF Pages
  <2> QED
    BY <2>1, <2>2, <2>3
<1> QED
  BY <1>1, <1>2

\* CommandsKeep: a chosen command runs.
LEMMA CommandsKeep ==
    ASSUME ShellInv, RunNavigation \/ RunAction
    PROVE  ShellInv'
<1>1. CASE RunNavigation
  <2>1. DestinationOf(Head(pending)) \in Pages /\ Tail(pending) \in Seq(Chosen)
    BY <1>1, NextCommand DEF RunNavigation
  <2> QED
    BY <1>1, <2>1, GotoKeeps DEF RunNavigation, ShellInv
<1>2. CASE RunAction
  <2>1. Head(pending) \in Chosen /\ Tail(pending) \in Seq(Chosen)
    BY <1>2, NextCommand DEF RunAction
  <2>2. stored' \in {"none", "light", "dark"}
    BY <1>2, <2>1 DEF RunAction, Chosen, Flipped, ShellInv, ThemeTyped
  <2>3. shortcuts' \in BOOLEAN
    <3>1. shortcuts' = (shortcuts \/ Head(pending).command = "shortcuts")
      BY <1>2 DEF RunAction
    <3> QED
      BY <3>1, Zenon
  <2>4. walk' \in WalkStates
    <3>1. walk \in WalkStates
      BY DEF ShellInv, WalkTyped
    <3>2. [walk EXCEPT !.done = FALSE, !.visible = TRUE,
                       !.step = IF walk.visible THEN walk.step ELSE 0] \in WalkStates
      BY <3>1, StepsOfWalk DEF WalkStates
    <3>3. \/ walk' = walk
          \/ walk' = [walk EXCEPT !.done = FALSE, !.visible = TRUE,
                                  !.step = IF walk.visible THEN walk.step ELSE 0]
      BY <1>2 DEF RunAction
    <3> QED
      BY <3>1, <3>2, <3>3
  <2> QED
    BY <1>2, <2>1, <2>2, <2>3, <2>4 DEF RunAction, placeVars, noticeVars, ShellInv,
       PlaceTyped, PaletteTyped, WalkTyped, NoticesTyped, ThemeTyped
<1> QED
  BY <1>1, <1>2

\* ShortcutsKeep: the overlay of shortcuts.
LEMMA ShortcutsKeep ==
    ASSUME ShellInv, PressCommandSlash \/ PressEscape
    PROVE  ShellInv'
<1>1. shortcuts' \in BOOLEAN
  BY DEF PressCommandSlash, PressEscape, ShellInv
<1> QED
  BY <1>1 DEF PressCommandSlash, PressEscape, placeVars, paletteVars, walkVars, noticeVars,
     ShellInv, PlaceTyped, PaletteTyped, WalkTyped, NoticesTyped, ThemeTyped

\* WalkKeeps: the walkthrough.
LEMMA WalkKeeps ==
    ASSUME ShellInv,
           \/ WalkthroughDue \/ \E by \in {1, -1} : Step(by)
           \/ FinishWalkthrough \/ AskStarter
    PROVE  ShellInv'
<1>1. walk \in WalkStates
  BY DEF ShellInv, WalkTyped
<1>2. SUFFICES WalkTyped' /\ UNCHANGED <<placeVars, paletteVars, shortcuts, noticeVars, stored>>
  BY <1>2 DEF placeVars, paletteVars, noticeVars, ShellInv, PlaceTyped, PaletteTyped,
     NoticesTyped, ThemeTyped
<1>3. CASE WalkthroughDue
  <2>1. [walk EXCEPT !.timer = FALSE, !.visible = TRUE,
                     !.step = IF walk.visible THEN walk.step ELSE 0] \in WalkStates
    BY <1>1, StepsOfWalk DEF WalkStates
  <2> QED
    BY <1>3, <2>1 DEF WalkthroughDue, ShellInv, WalkTyped
<1>4. CASE \E by \in {1, -1} : Step(by)
  <2>1. PICK by \in {1, -1} : Step(by)
    BY <1>4
  <2>2. [walk EXCEPT !.step = walk.step + by] \in WalkStates
    BY <1>1, <2>1 DEF WalkStates, Step
  <2> QED
    BY <2>1, <2>2 DEF Step, ShellInv, WalkTyped
<1>5. Completed \in WalkStates
  BY <1>1 DEF Completed, WalkStates
<1>6. CASE FinishWalkthrough
  BY <1>5, <1>6 DEF FinishWalkthrough, ShellInv, WalkTyped
<1>7. CASE AskStarter
  BY <1>5, <1>7 DEF AskStarter, WalkTyped
<1> QED
  BY <1>3, <1>4, <1>6, <1>7

\* NoticesKeep: the connection and the other tabs.
LEMMA NoticesKeep ==
    ASSUME ShellInv,
           \/ GoOffline \/ GoOnline \/ RestoredHides
           \/ OtherTabOpens \/ OtherTabCloses \/ WarningHides
    PROVE  ShellInv'
<1>1. net \in NetStates /\ warn \in WarnStates /\ others \in 0 .. MaxOthers
  BY DEF ShellInv, NoticesTyped
<1>2. SUFFICES NoticesTyped' /\ UNCHANGED <<placeVars, paletteVars, shortcuts, walkVars, stored>>
  BY <1>2 DEF placeVars, paletteVars, walkVars, ShellInv, PlaceTyped, PaletteTyped,
     WalkTyped, ThemeTyped
<1>3. CASE GoOffline
  BY <1>1, <1>3 DEF GoOffline, Disconnected, NoticesTyped, NetStates
<1>4. CASE GoOnline
  BY <1>1, <1>4 DEF GoOnline, NoticesTyped, NetStates
<1>5. CASE RestoredHides
  BY <1>1, <1>5 DEF RestoredHides, NoticesTyped, NetStates
<1>6. CASE OtherTabOpens
  <2>1. others' \in 0 .. MaxOthers
    BY <1>1, <1>6, ShellConstants DEF OtherTabOpens
  <2> DEFINE timers == warn.timers + warn.channels
  <2>2. timers \in Nat
    BY <1>1 DEF WarnStates
  <2>3. warn' = warn \/ warn' = [warn EXCEPT !.shown = TRUE, !.timers = timers]
    BY <1>6 DEF OtherTabOpens
  <2> HIDE DEF timers
  <2>4. warn' \in WarnStates
    BY <1>1, <2>2, <2>3 DEF WarnStates
  <2> QED
    BY <1>1, <1>6, <2>1, <2>4 DEF OtherTabOpens, NoticesTyped
<1>7. CASE OtherTabCloses
  <2>1. others' \in 0 .. MaxOthers
    BY <1>1, <1>7, ShellConstants DEF OtherTabCloses
  <2>2. [warn EXCEPT !.shown = (warn.channels = 0 /\ warn.shown)] \in WarnStates
    <3> DEFINE left == warn.channels = 0 /\ warn.shown
    <3>1. left \in BOOLEAN
      BY Zenon
    <3> HIDE DEF left
    <3>2. [warn EXCEPT !.shown = left] \in WarnStates
      BY <1>1, <3>1 DEF WarnStates
    <3> QED
      BY <3>2 DEF left
  <2>3. warn' = warn \/ warn' = [warn EXCEPT !.shown = (warn.channels = 0 /\ warn.shown)]
    BY <1>7, Zenon DEF OtherTabCloses
  <2> QED
    BY <1>1, <1>7, <2>1, <2>2, <2>3 DEF OtherTabCloses, NoticesTyped
<1>8. CASE WarningHides
  <2> DEFINE timers == warn.timers - 1
  <2>1. timers \in Nat
    BY <1>1, <1>8 DEF WarningHides, WarnStates
  <2>2. warn' = [warn EXCEPT !.shown = FALSE, !.timers = timers]
    BY <1>8 DEF WarningHides
  <2> HIDE DEF timers
  <2>3. warn' \in WarnStates
    BY <1>1, <2>1, <2>2 DEF WarnStates
  <2> QED
    BY <1>1, <1>8, <2>3 DEF WarningHides, NoticesTyped
<1> QED
  BY <1>3, <1>4, <1>5, <1>6, <1>7, <1>8

\* ShellInductive: every step keeps the types.
LEMMA ShellInductive == ShellInv /\ [ShellNext]_shellVars => ShellInv'
<1> SUFFICES ASSUME ShellInv, [ShellNext]_shellVars PROVE ShellInv'
  OBVIOUS
<1>1. CASE UNCHANGED shellVars
  BY <1>1 DEF shellVars, ShellInv, PlaceTyped, PaletteTyped, WalkTyped, NoticesTyped,
     ThemeTyped
<1> QED
  BY <1>1, LayoutsKeep, PaletteKeeps, ChooseKeeps, CommandsKeep, ShortcutsKeep, WalkKeeps,
     NoticesKeep DEF ShellNext, Timers

\* ShellTypes: every variable of the shell stays in its type, and the palette remembers
\* each command once and no more than its limit, for any sidebar and any limits
\* (uiStore.ts, useCommandPalette.ts).
THEOREM ShellTypes == Spec => []ShellTypeOK
<1>1. ShellInv => ShellTypeOK
  BY DEF ShellInv, ShellTypeOK, PlaceTyped, PaletteTyped, WalkTyped, NoticesTyped,
     ThemeTyped, PaletteStates, WalkStates, NetStates, WarnStates, Remembered, Once
<1> QED
  BY <1>1, InitKeeps, ShellInductive, PTL DEF Spec

=============================================================================
