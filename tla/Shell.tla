-------------------------------- MODULE Shell --------------------------------
(***************************************************************************)
(* What surrounds the pages of a tab: the layouts of the two portals, the  *)
(* command palette, the overlay of keyboard shortcuts, the walkthrough of  *)
(* a first visit, the theme, and the notices about the connection and the  *)
(* other tabs.  Nearly all of it hangs on timers that run while the user   *)
(* goes on: a layout that is left clears some of them and keeps others.    *)
(***************************************************************************)
EXTENDS Integers, Sequences, FiniteSets, Filters

CONSTANTS NavItems,     \* the pages of the admin sidebar, in order
          NavRows,      \* how many the palette lists before a search
          MaxRecent,    \* the commands the palette remembers
          MaxOthers,    \* other tabs of the browser
          MaxEvents     \* what the user, the network and other tabs do

ASSUME ShellConstants ==
  /\ NavItems \in Seq(STRING) /\ Len(NavItems) > 0
  /\ NavRows \in 1 .. Len(NavItems)
  /\ MaxRecent \in Nat \ {0}
  /\ MaxOthers \in Nat /\ MaxEvents \in Nat

AdminPages == {NavItems[i] : i \in 1 .. Len(NavItems)}
EmployeePages == {"/", "/history"}
Pages == AdminPages \cup EmployeePages
PortalOf(page) == IF page \in AdminPages THEN "admin" ELSE "employee"

\* A search finds one sidebar page or, "" set apart, whatever lists everything.
Texts == {""} \cup AdminPages

\* The walkthrough's steps; the last one offers starter questions.
OnboardingSteps == <<"welcome", "ask", "responses", "screenshots", "ready">>
LastStep == Len(OnboardingSteps) - 1
Starters(step) == OnboardingSteps[step + 1] = "ready"

VARIABLES isAdmin,    \* the role of the user
          path,       \* the page shown
          palette,    \* open (uiStore), search, debounced, and its two timers
          focus,      \* where the keyboard goes: the page, the palette, the chat
          pending,    \* chosen commands, 50 ms from running
          recent,     \* the commands remembered, newest first
          shortcuts,  \* whether the overlay of shortcuts is open
          walk,       \* the walkthrough: visible, step, completed, 800 ms timer
          starter,    \* a starter question is in the compose bar
          net,        \* the connection and the banner about it
          others,     \* how many other tabs show the chat
          warn,       \* the banner about them: shown, timers, channels listening
          stored,     \* the theme in local storage
          events

shellVars == <<isAdmin, path, palette, focus, pending, recent, shortcuts, walk,
               starter, net, others, warn, stored, events>>

paletteVars == <<palette, focus, pending, recent>>
noticeVars == <<net, others, warn>>
walkVars == <<walk, starter>>
placeVars == <<isAdmin, path>>

Event == events < MaxEvents /\ events' = events + 1

\* Without a stored choice the provider's default is light.
Theme == IF stored = "dark" THEN "dark" ELSE "light"
Flipped(theme) == IF theme = "dark" THEN "light" ELSE "dark"

\* Mutant: the admin layout forces the dark theme over an explicit choice.
Mut_MountedTheme(page) == IF PortalOf(page) = "admin" THEN "dark" ELSE stored

\* The admin layout asks for dark unless light was stored.
MountedTheme(page) ==
  IF PortalOf(page) = "admin" /\ stored # "light" THEN "dark" ELSE stored

\* A layout mounts: its own state is new, that of uiStore stays as it was.
MountedPalette(open) ==
  [open |-> open, search |-> "", debounced |-> "", reset |-> FALSE, refocus |-> open]

\* The walkthrough's timer starts where it may be shown and was not completed.
Armed(page, done) == PortalOf(page) = "employee" /\ ~isAdmin /\ ~done

MountedWalk(page, visible) ==
  [visible |-> visible, step |-> 0, done |-> walk.done, timer |-> Armed(page, walk.done)]

MountedNet == [online |-> net.online, was |-> ~net.online, restored |-> FALSE, timer |-> FALSE]

\* initMultiTabDetection: every mount opens a channel, and none is closed before the tab.
MountedWarn(page) ==
  [warn EXCEPT !.channels = @ + (IF PortalOf(page) = "employee" THEN 1 ELSE 0)]

Home == IF isAdmin THEN NavItems[1] ELSE "/"

ShellInit ==
  /\ isAdmin \in BOOLEAN
  /\ path = Home
  /\ palette = MountedPalette(FALSE)
  /\ focus = "page" /\ pending = <<>> /\ recent = <<>>
  /\ shortcuts = FALSE
  /\ \E done \in BOOLEAN :
       walk = [visible |-> FALSE, step |-> 0, done |-> done, timer |-> ~isAdmin /\ ~done]
  /\ starter = FALSE
  /\ net = [online |-> TRUE, was |-> FALSE, restored |-> FALSE, timer |-> FALSE]
  /\ others = 0
  /\ warn = [shown |-> FALSE, timers |-> 0, channels |-> IF isAdmin THEN 0 ELSE 1]
  /\ stored \in {"none", "light"} \cup (IF isAdmin THEN {"dark"} ELSE {})
  /\ events = 0

----------------------------------------------------------------------------
(* The layouts                                                             *)

\* router.push: within a portal the layout stays, between portals it is new.
Goto(page) ==
  /\ path' = page
  /\ IF PortalOf(page) = PortalOf(path)
     THEN UNCHANGED <<palette, focus, shortcuts, walk, net, warn, stored>>
     ELSE /\ palette' = MountedPalette(palette.open)
          /\ focus' = "page"
          /\ shortcuts' = FALSE
          /\ walk' = MountedWalk(page, walk.visible)
          /\ net' = MountedNet
          /\ warn' = MountedWarn(page)
          /\ stored' = MountedTheme(page)

\* A page outside the portal of the role is left at once.
Redirected ==
  /\ PortalOf(path) # PortalOf(Home)
  /\ Goto(Home)
  /\ UNCHANGED <<isAdmin, pending, recent, starter, others, events>>

\* A link of the sidebar, or of the session list.
FollowLink(page) ==
  /\ Event
  /\ PortalOf(page) = PortalOf(path) /\ page # path
  /\ ~palette.open /\ ~walk.visible
  /\ Goto(page)
  /\ UNCHANGED <<isAdmin, pending, recent, starter, others>>

\* A reload: everything in memory is gone, local storage stays.
Reload ==
  /\ Event
  /\ palette' = MountedPalette(FALSE)
  /\ focus' = "page" /\ pending' = <<>>
  /\ shortcuts' = FALSE
  /\ walk' = MountedWalk(path, FALSE)
  /\ starter' = FALSE
  /\ net' = MountedNet
  /\ warn' = [shown |-> FALSE, timers |-> 0,
              channels |-> IF PortalOf(path) = "employee" THEN 1 ELSE 0]
  /\ stored' = MountedTheme(path)
  /\ UNCHANGED <<placeVars, recent, others>>

\* useAuth sees the session gone and back: the effect of the walkthrough runs again.
AuthSeenAgain ==
  /\ Event
  /\ PortalOf(path) = "employee"
  /\ walk' = [walk EXCEPT !.timer = Armed(path, walk.done)]
  /\ UNCHANGED <<placeVars, paletteVars, shortcuts, starter, noticeVars, stored>>

\* The toggle of the top bars.
ToggleTheme ==
  /\ Event
  /\ stored' = Flipped(Theme)
  /\ UNCHANGED <<placeVars, paletteVars, shortcuts, walkVars, noticeVars>>

\* Another tab of the browser toggles it, or completes the walkthrough.
OtherTabStores ==
  /\ Event
  /\ others > 0
  /\ \/ stored' = Flipped(Theme) /\ UNCHANGED walk
     \/ ~walk.done /\ walk' = [walk EXCEPT !.done = TRUE] /\ UNCHANGED stored
  /\ UNCHANGED <<placeVars, paletteVars, shortcuts, starter, noticeVars>>

----------------------------------------------------------------------------
(* The command palette                                                     *)

\* Its effect: closing asks for the search to be reset, opening for the focus.
Opened(open) == [palette EXCEPT !.open = open, !.reset = ~open, !.refocus = open]

\* Cmd+K is not heard from an input, the palette's own one included.
PressCommandK ==
  /\ Event
  /\ focus = "page"
  /\ palette' = Opened(~palette.open)
  /\ UNCHANGED <<placeVars, focus, pending, recent, shortcuts, walkVars, noticeVars, stored>>

ClickBackdrop ==
  /\ Event
  /\ palette.open
  /\ palette' = Opened(FALSE) /\ focus' = "page"
  /\ UNCHANGED <<placeVars, pending, recent, shortcuts, walkVars, noticeVars, stored>>

FocusPalette ==
  /\ palette.refocus
  /\ palette' = [palette EXCEPT !.refocus = FALSE] /\ focus' = "palette"
  /\ UNCHANGED <<placeVars, pending, recent, shortcuts, walkVars, noticeVars, stored, events>>

\* A click into the compose bar, or out of whichever input has the focus.
MoveFocus ==
  /\ Event
  /\ \/ focus = "page" /\ path = "/" /\ ~palette.open /\ ~walk.visible /\ focus' = "chat"
     \/ focus # "page" /\ focus' = "page"
  /\ UNCHANGED <<placeVars, palette, pending, recent, shortcuts, walkVars, noticeVars, stored>>

TypeSearch(text) ==
  /\ Event
  /\ palette.open /\ focus = "palette" /\ text # palette.search
  /\ palette' = [palette EXCEPT !.search = text]
  /\ UNCHANGED <<placeVars, focus, pending, recent, shortcuts, walkVars, noticeVars, stored>>

\* useDebounce: 150 ms after the last change.
SearchSettles ==
  /\ palette.debounced # palette.search
  /\ palette' = [palette EXCEPT !.debounced = palette.search]
  /\ UNCHANGED <<placeVars, focus, pending, recent, shortcuts, walkVars, noticeVars, stored, events>>

\* 200 ms after closing; a palette opened before that keeps the old search.
SearchResets ==
  /\ palette.reset
  /\ palette' = [palette EXCEPT !.search = "", !.reset = FALSE]
  /\ UNCHANGED <<placeVars, focus, pending, recent, shortcuts, walkVars, noticeVars, stored, events>>

QuickActions ==
  {"new-chat", "history", "toggle-theme", "shortcuts"}
    \cup (IF PortalOf(path) = "employee" THEN {"restart-onboarding"} ELSE {})

\* The rows listed; the sessions of the list are always empty (no such endpoint).
Rows ==
  (IF palette.debounced = "" THEN QuickActions ELSE {})
    \cup (IF PortalOf(path) # "admin" THEN {}
          ELSE IF palette.debounced = "" THEN {NavItems[i] : i \in 1 .. NavRows}
          ELSE {palette.debounced})

\* Mutant: the earlier place of the command is kept.
Mut_Remember(command) ==
  LET all == <<command>> \o recent
  IN  SubSeq(all, 1, IF Len(all) < MaxRecent THEN Len(all) ELSE MaxRecent)

\* addToHistory: to the front, without its earlier place.
Remember(command) ==
  LET earlier == Keep(recent, {recent[i] : i \in DOMAIN recent} \ {command})
      all == <<command>> \o earlier
  IN  SubSeq(all, 1, IF Len(all) < MaxRecent THEN Len(all) ELSE MaxRecent)

\* runCommand: the action keeps the page and the theme of the moment it was chosen.
Choose(command) ==
  /\ Event
  /\ palette.open /\ command \in Rows
  /\ recent' = Remember(command)
  /\ palette' = Opened(FALSE) /\ focus' = "page"
  /\ pending' = Append(pending, [command |-> command, path |-> path, theme |-> Theme])
  /\ UNCHANGED <<placeVars, shortcuts, walkVars, noticeVars, stored>>

DestinationOf(chosen) ==
  CASE chosen.command = "new-chat" -> "/"
    [] chosen.command = "history" -> "/history"
    [] OTHER -> chosen.command

Navigates(chosen) ==
  \/ chosen.command = "new-chat" /\ chosen.path # "/"
  \/ chosen.command = "history"
  \/ chosen.command \in AdminPages

RunNavigation ==
  /\ pending # <<>> /\ Navigates(Head(pending))
  /\ Goto(DestinationOf(Head(pending)))
  /\ pending' = Tail(pending)
  /\ UNCHANGED <<isAdmin, recent, starter, others, events>>

\* The other commands; "new-chat" on the chat page itself does nothing at all.
RunAction ==
  /\ pending # <<>> /\ ~Navigates(Head(pending))
  /\ pending' = Tail(pending)
  /\ LET chosen == Head(pending)
     IN  /\ stored' = IF chosen.command = "toggle-theme" THEN Flipped(chosen.theme) ELSE stored
         /\ shortcuts' = (shortcuts \/ chosen.command = "shortcuts")
         /\ walk' = IF chosen.command # "restart-onboarding" THEN walk
                    ELSE [walk EXCEPT !.done = FALSE, !.visible = TRUE,
                                      !.step = IF walk.visible THEN @ ELSE 0]
  /\ UNCHANGED <<placeVars, palette, focus, recent, starter, noticeVars, events>>

----------------------------------------------------------------------------
(* The overlay of shortcuts                                                *)

\* Cmd+/ is heard everywhere.
PressCommandSlash ==
  /\ Event
  /\ shortcuts' = ~shortcuts
  /\ UNCHANGED <<placeVars, paletteVars, walkVars, noticeVars, stored>>

\* Only the overlay listens to Escape: neither the palette nor the walkthrough does.
PressEscape ==
  /\ Event
  /\ shortcuts \/ palette.open
  /\ shortcuts' = FALSE
  /\ UNCHANGED <<placeVars, paletteVars, walkVars, noticeVars, stored>>

----------------------------------------------------------------------------
(* The walkthrough                                                         *)

Walking == walk.visible /\ PortalOf(path) = "employee"

\* setOnboardingVisible(true), 800 ms after the layout found it not completed.
WalkthroughDue ==
  /\ walk.timer
  /\ walk' = [walk EXCEPT !.timer = FALSE, !.visible = TRUE,
                          !.step = IF walk.visible THEN @ ELSE 0]
  /\ UNCHANGED <<placeVars, paletteVars, shortcuts, starter, noticeVars, stored, events>>

Step(by) ==
  /\ Event
  /\ Walking /\ walk.step + by \in 0 .. LastStep
  /\ walk' = [walk EXCEPT !.step = @ + by]
  /\ UNCHANGED <<placeVars, paletteVars, shortcuts, starter, noticeVars, stored>>

\* handleOnboardingComplete: the 800 ms timer, if one runs, is not cleared.
Completed == [walk EXCEPT !.done = TRUE, !.visible = FALSE]

\* "Skip for now" on every step, "Start using AEGIS" on the last.
FinishWalkthrough ==
  /\ Event
  /\ Walking
  /\ walk' = Completed
  /\ UNCHANGED <<placeVars, paletteVars, shortcuts, starter, noticeVars, stored>>

\* The starter questions stand on the last step only.
AskStarter ==
  /\ Event
  /\ Walking /\ Starters(walk.step)
  /\ walk' = Completed /\ starter' = TRUE
  /\ UNCHANGED <<placeVars, paletteVars, shortcuts, noticeVars, stored>>

----------------------------------------------------------------------------
(* The notices                                                             *)

\* Mutant: the banner forgets, while offline, that it was.
Mut_Disconnected == [net EXCEPT !.online = FALSE, !.timer = FALSE]

\* Going offline clears the timer of the banner but not what it would hide.
Disconnected == [net EXCEPT !.online = FALSE, !.was = TRUE, !.timer = FALSE]

GoOffline ==
  /\ Event
  /\ net.online
  /\ net' = Disconnected
  /\ UNCHANGED <<placeVars, paletteVars, shortcuts, walkVars, others, warn, stored>>

GoOnline ==
  /\ Event
  /\ ~net.online
  /\ net' = IF net.was THEN [online |-> TRUE, was |-> FALSE, restored |-> TRUE, timer |-> TRUE]
            ELSE [net EXCEPT !.online = TRUE]
  /\ UNCHANGED <<placeVars, paletteVars, shortcuts, walkVars, others, warn, stored>>

\* "Connection restored" goes after three seconds.
RestoredHides ==
  /\ net.timer
  /\ net' = [net EXCEPT !.restored = FALSE, !.timer = FALSE]
  /\ UNCHANGED <<placeVars, paletteVars, shortcuts, walkVars, others, warn, stored, events>>

\* Another tab posts tab-active: every channel of this tab hears it.
OtherTabOpens ==
  /\ Event
  /\ others < MaxOthers /\ others' = others + 1
  /\ warn' = IF warn.channels = 0 THEN warn
             ELSE [warn EXCEPT !.shown = TRUE, !.timers = @ + warn.channels]
  /\ UNCHANGED <<placeVars, paletteVars, shortcuts, walkVars, net, stored>>

\* tab-inactive as it unloads; a tab that is killed posts nothing.
OtherTabCloses ==
  /\ Event
  /\ others > 0 /\ others' = others - 1
  /\ \/ warn' = [warn EXCEPT !.shown = (warn.channels = 0 /\ @)]
     \/ UNCHANGED warn
  /\ UNCHANGED <<placeVars, paletteVars, shortcuts, walkVars, net, stored>>

\* Ten seconds after a message, whichever message the warning is about by now.
WarningHides ==
  /\ warn.timers > 0
  /\ warn' = [warn EXCEPT !.shown = FALSE, !.timers = @ - 1]
  /\ UNCHANGED <<placeVars, paletteVars, shortcuts, walkVars, net, others, stored, events>>

----------------------------------------------------------------------------

Timers ==
  \/ Redirected \/ FocusPalette \/ SearchSettles \/ SearchResets
  \/ RunNavigation \/ RunAction \/ WalkthroughDue \/ RestoredHides \/ WarningHides

ShellNext ==
  \/ Timers
  \/ \E page \in Pages : FollowLink(page)
  \/ Reload \/ AuthSeenAgain \/ ToggleTheme \/ OtherTabStores
  \/ PressCommandK \/ ClickBackdrop \/ MoveFocus
  \/ \E text \in Texts : TypeSearch(text)
  \/ \E command \in QuickActions \cup AdminPages : Choose(command)
  \/ PressCommandSlash \/ PressEscape
  \/ \E by \in {1, -1} : Step(by)
  \/ FinishWalkthrough \/ AskStarter
  \/ GoOffline \/ GoOnline \/ OtherTabOpens \/ OtherTabCloses

\* The browser fires a timer that nobody clears.
ShellFairness == WF_shellVars(RestoredHides) /\ WF_shellVars(WarningHides)

Spec == ShellInit /\ [][ShellNext]_shellVars /\ ShellFairness

\* Every variable stays in its type; the palette remembers each command once,
\* at most MaxRecent of them (addToHistory).
ShellTypeOK ==
  /\ isAdmin \in BOOLEAN /\ path \in Pages
  /\ palette \in [open : BOOLEAN, search : Texts, debounced : Texts,
                  reset : BOOLEAN, refocus : BOOLEAN]
  /\ focus \in {"page", "palette", "chat"}
  /\ Len(recent) <= MaxRecent
  /\ \A i, j \in 1 .. Len(recent) : recent[i] = recent[j] => i = j
  /\ shortcuts \in BOOLEAN /\ starter \in BOOLEAN
  /\ walk \in [visible : BOOLEAN, step : 0 .. LastStep, done : BOOLEAN, timer : BOOLEAN]
  /\ net \in [online : BOOLEAN, was : BOOLEAN, restored : BOOLEAN, timer : BOOLEAN]
  /\ warn \in [shown : BOOLEAN, timers : Nat, channels : Nat]
  /\ others \in 0 .. MaxOthers
  /\ stored \in {"none", "light", "dark"}

\* An explicit light theme survives every navigation, redirect and reload: only
\* a toggle darkens it, here or in another tab (AdminLayout's effect on mount).
LightStands ==
  [][stored = "light" /\ stored' = "dark" =>
       \/ ToggleTheme \/ OtherTabStores
       \/ RunAction /\ Head(pending).command = "toggle-theme"]_shellVars

\* Notices end: a restored connection is announced for a while only, and so is
\* another tab, whatever else happens (OfflineBanner, initMultiTabDetection).
NoticesEnd ==
  /\ (net.online /\ net.restored) ~> ~(net.online /\ net.restored)
  /\ warn.shown ~> ~warn.shown
==============================================================================
