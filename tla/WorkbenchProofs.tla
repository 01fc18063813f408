-------------------------- MODULE WorkbenchProofs --------------------------
(***************************************************************************)
(* What the TUI promises, for any number of worktrees, sessions and        *)
(* messages in flight.  Of its screens and its layout file: SyncKeeps says *)
(* that whatever a handler has left, sync mends it; the handlers without a *)
(* sync change too little to need one.  Of its panes: every operation on a *)
(* Workbench keeps it right (RightBench, OneEach), and so does a reply, of *)
(* whatever age, by PaneInv.  Of its reloads: Reconcile follows the tab it *)
(* had, past one lost tab (FocusReconciled).                               *)
(***************************************************************************)
EXTENDS Workbench, Panes, TLAPS, FiniteSetTheorems, SequenceTheorems, WellFoundedInduction

Fields == {"tabs", "active", "zoom", "known"}
Shaped(b) == DOMAIN b = Trees /\ \A w \in Trees : DOMAIN b[w] = Fields

\* One attach under way, and only where attaching says so.
InFlight(scr, att, fl) ==
  \A s \in Sessions : fl[s] \in {0, 1} /\ (fl[s] = 1 => s \in att /\ s \notin scr)

FileInv == Shaped(bench) /\ Shaped(file) /\ LayoutOnFile
FlightInv == DOMAIN flights = Sessions /\ InFlight(screens, attaching, flights)
ShownInv == NoneHidden /\ NothingForgotten

-----------------------------------------------------------------------------
(***************************************************************************)
(* The layout file.                                                        *)
(***************************************************************************)
LEMMA InitFile == Init => FileInv
BY DEF Init, FileInv, Shaped, NoBench, Fields, LayoutOnFile

\* A handler that saves leaves the file as it leaves the screen.
LEMMA SavedFile ==
  ASSUME Shaped(bench'), Save
  PROVE  FileInv'
BY DEF FileInv, Shaped, LayoutOnFile, Save

\* No operation on a Workbench adds a field to it or takes one away.
LEMMA ShapesStay ==
  ASSUME NEW b, DOMAIN b = Fields, NEW ss, NEW s, NEW t
  PROVE  /\ DOMAIN Reconcile(b, ss) = Fields /\ DOMAIN Show(b, s) = Fields
         /\ DOMAIN Place(b, s) = Fields /\ DOMAIN Split(b) = Fields
         /\ DOMAIN CloseTab(b) = Fields /\ DOMAIN ClosePane(b) = Fields
         /\ DOMAIN WithTab(b, t) = Fields
<1>1. \A c, u : DOMAIN c = Fields => DOMAIN WithTab(c, u) = Fields
  BY DEF WithTab
<1>2. DOMAIN Reconcile(b, ss) = Fields
  BY DEF Reconcile
<1>3. DOMAIN Show(b, s) = Fields
  BY DEF Show
<1>4. DOMAIN Place(b, s) = Fields
  BY <1>1 DEF Place
<1>5. DOMAIN Split(b) = Fields
  BY <1>1 DEF Split
<1>6. DOMAIN CloseTab(b) = Fields
  BY DEF CloseTab
<1>7. DOMAIN ClosePane(b) = Fields
  BY <1>1, <1>6 DEF ClosePane
<1> QED
  BY <1>1, <1>2, <1>3, <1>4, <1>5, <1>6, <1>7

\* A click on a pane moves the focus, and nothing that the file keeps.
LEMMA ShowKeepsLayout ==
  ASSUME NEW b, DOMAIN b = Fields, NEW s
  PROVE  Layout(Show(b, s)) = Layout(b) /\ Show(b, s).known = b.known
<1> DEFINE at == {i \in DOMAIN b.tabs : s \in Range(b.tabs[i].leaves)}
<1>1. CASE at = {}
  BY <1>1 DEF Show
<1>2. CASE at # {}
  <2>1. Show(b, s) = [b EXCEPT !.active = Min(at),
                               !.tabs[Min(at)] = [leaves |-> @.leaves, focus |-> s]]
    BY <1>2 DEF Show
  <2> DEFINE m == Min(at)
             tabs == [b.tabs EXCEPT ![m] = [leaves |-> @.leaves, focus |-> s]]
  <2> HIDE DEF at, m
  <2>2. Show(b, s).tabs = tabs /\ Show(b, s).known = b.known
    BY <2>1 DEF Fields, m
  <2>3. DOMAIN tabs = DOMAIN b.tabs /\ \A i \in DOMAIN b.tabs : tabs[i].leaves = b.tabs[i].leaves
    OBVIOUS
  <2> HIDE DEF tabs
  <2> QED
    BY <2>2, <2>3 DEF Layout
<1> QED
  BY <1>1, <1>2

LEMMA LaidShape ==
  ASSUME FileInv, NEW b, NEW w, w \in Trees => DOMAIN b = Fields, bench' = [bench EXCEPT ![w] = b]
  PROVE  Shaped(bench')
BY DEF FileInv, Shaped

LEMMA NextFile == FileInv /\ [Next]_vars => FileInv'
<1> SUFFICES ASSUME FileInv, [Next]_vars PROVE FileInv'
  OBVIOUS
<1>1. Shaped(bench) /\ Shaped(file)
  BY DEF FileInv
<1>2. ASSUME UNCHANGED bench, UNCHANGED file PROVE FileInv'
  BY <1>2 DEF FileInv, Shaped, LayoutOnFile, Layout
<1>3. ASSUME UNCHANGED bench, Save PROVE FileInv'
  BY <1>1, <1>3, SavedFile DEF Shaped
<1>4. ASSUME NEW b, NEW w, w \in Trees => DOMAIN b = Fields,
             bench' = [bench EXCEPT ![w] = b], Save
      PROVE  FileInv'
  BY <1>4, LaidShape, SavedFile
<1>5. \A w \in Trees : DOMAIN bench[w] = Fields
  BY <1>1 DEF Shaped
<1>6. ASSUME NEW b, wt \in Trees => DOMAIN b = Fields, Lay(b), Sync PROVE FileInv'
  BY <1>4, <1>6 DEF Lay, Sync, SyncOver
<1>7. ASSUME NEW k \in Cmds, TabsMsg(k) PROVE FileInv'
  <2> DEFINE c == cmd[k]
  <2>1. CASE Stale(c)
    BY <1>2, <1>7, <2>1 DEF TabsMsg
  <2>2. CASE ~Stale(c)
    <3>1. bench' = [bench EXCEPT ![c.wt] = Taken(c)] /\ Save
      BY <1>7, <2>2 DEF TabsMsg, SyncOver
    <3>2. c.wt \in Trees => DOMAIN Placed(c) = Fields
      BY <1>5, ShapesStay DEF Placed
    <3>3. c.wt \in Trees => DOMAIN Taken(c) = Fields
      <4> HIDE DEF c
      <4>1. ASSUME c.wt \in Trees PROVE DOMAIN Reconcile(Placed(c), c.got) = Fields
        BY <3>2, <4>1, ShapesStay
      <4> QED
        BY <4>1, ShapesStay DEF Taken
    <3> QED
      BY <1>4, <3>1, <3>3
  <2> QED
    BY <2>1, <2>2
<1>8. ASSUME NEW s \in Sessions, ScreenArrives(s) PROVE FileInv'
  BY <1>2, <1>3, <1>8 DEF ScreenArrives, SyncOver
<1>9. ASSUME Server PROVE FileInv'
  BY <1>2, <1>9 DEF Server, OtherCreates, SessionEnds, ListSessions, CreateSession, RequestFails
<1>10. ASSUME Message PROVE FileInv'
  <2>1. ASSUME NEW k \in Cmds, OpenMsg(k) PROVE FileInv'
    BY <1>3, <2>1 DEF OpenMsg, SyncOver
  <2>2. ASSUME NEW k \in Cmds, NEW s \in Sessions, ClosedMsg(s, k) PROVE FileInv'
    BY <1>2, <2>2 DEF ClosedMsg
  <2>3. ASSUME NEW s \in Sessions, ScreenFails(s) PROVE FileInv'
    BY <1>2, <2>3 DEF ScreenFails
  <2> QED
    BY <1>7, <1>8, <1>10, <2>1, <2>2, <2>3 DEF Message
<1>11. ASSUME NEW s, Click(s) PROVE FileInv'
  <2> DEFINE b == Show(bench[wt], s)
  <2>1. bench' = [bench EXCEPT ![wt] = b] /\ UNCHANGED file
    BY <1>11 DEF Click, Lay
  <2>2. wt \in Trees => /\ DOMAIN b = Fields /\ Layout(b) = Layout(bench[wt])
                        /\ b.known = bench[wt].known
    BY <1>5, ShapesStay, ShowKeepsLayout
  <2> HIDE DEF b
  <2>3. Shaped(bench') /\ Shaped(file')
    BY <1>1, <2>1, <2>2, LaidShape
  <2>4. \A w \in Trees : Layout(bench'[w]) = Layout(bench[w]) /\ bench'[w].known = bench[w].known
    BY <1>1, <2>1, <2>2 DEF Shaped
  <2> QED
    BY <2>1, <2>3, <2>4 DEF FileInv, LayoutOnFile
<1>12. ASSUME User PROVE FileInv'
  <2>1. ASSUME NEW k \in Cmds, NEW w \in Trees, PressOpen(w, k) \/ NewTab(w, k) PROVE FileInv'
    BY <1>2, <2>1 DEF PressOpen, NewTab
  <2>2. ASSUME NEW k \in Cmds, PickNew(k) PROVE FileInv'
    BY <1>2, <2>2 DEF PickNew
  <2>3. ASSUME NEW s \in Sessions, PickHidden(s) PROVE FileInv'
    BY <1>5, <1>6, <2>3, ShapesStay DEF PickHidden
  <2>4. ASSUME NEW s \in Sessions, Move(s) PROVE FileInv'
    <3> DEFINE b == [bench[wt] EXCEPT !.zoom = FALSE]
               t == [Current(bench[wt]) EXCEPT !.focus = s]
    <3>1. wt \in Trees => DOMAIN b = Fields
      BY <1>5
    <3>2. Lay(WithTab(b, t)) /\ Sync
      BY <2>4 DEF Move
    <3> HIDE DEF b, t
    <3>3. wt \in Trees => DOMAIN WithTab(b, t) = Fields
      BY <3>1, ShapesStay
    <3> QED
      BY <1>6, <3>2, <3>3
  <2>5. ASSUME NEW i, SelectTab(i) PROVE FileInv'
    <3> DEFINE b == [bench[wt] EXCEPT !.active = i, !.zoom = FALSE]
    <3>1. wt \in Trees => DOMAIN b = Fields
      BY <1>5
    <3> QED
      BY <1>6, <2>5, <3>1 DEF SelectTab
  <2>6. ASSUME SplitPane \/ CloseFocused \/ CloseActive PROVE FileInv'
    BY <1>5, <1>6, <2>6, ShapesStay DEF SplitPane, CloseFocused, CloseActive
  <2>7. ASSUME ToggleZoom PROVE FileInv'
    <3> DEFINE b == [bench[wt] EXCEPT !.zoom = ~@]
    <3>1. wt \in Trees => DOMAIN b = Fields
      BY <1>5
    <3> QED
      BY <1>6, <2>7, <3>1 DEF ToggleZoom
  <2>8. ASSUME Reattach \/ Resized PROVE FileInv'
    BY <1>3, <2>8 DEF Reattach, Resized, Sync, SyncOver
  <2>9. ASSUME NEW f, GoTo(f) PROVE FileInv'
    BY <1>2, <2>9 DEF GoTo
  <2> QED
    BY <1>11, <1>12, <2>1, <2>2, <2>3, <2>4, <2>5, <2>6, <2>7, <2>8, <2>9 DEF User
<1>13. ASSUME Restart PROVE FileInv'
  BY <1>1, <1>13 DEF Restart, FileInv, Shaped, LayoutOnFile
<1>14. CASE UNCHANGED vars
  BY <1>2, <1>14 DEF vars
<1> QED
  BY <1>9, <1>10, <1>12, <1>13, <1>14 DEF Next

-----------------------------------------------------------------------------
(***************************************************************************)
(* Attaches and screens.                                                   *)
(***************************************************************************)
\* What sync leaves: one attach per session, no screen without a pane and
\* none forgotten, whatever the handler did before.
LEMMA SyncKeeps ==
  ASSUME NEW scr, NEW att, NEW fl, InFlight(scr, att, fl), SyncOver(scr, att, fl)
  PROVE  FlightInv' /\ ShownInv'
<1> DEFINE vis == OnScreen'
           new == {s \in vis : s \in Range(listed') /\ s \notin detached' \cup scr \cup att}
<1>1. /\ screens' = scr \cap vis /\ attaching' = att \cup new
      /\ flights' = [s \in Sessions |-> fl[s] + (IF s \in new THEN 1 ELSE 0)]
  BY DEF SyncOver
<1>2. \A s \in new : s \in vis /\ s \notin scr /\ s \notin att
  OBVIOUS
<1>3. \A s \in vis : s \in Range(listed') => s \in new \cup detached' \cup scr \cup att
  OBVIOUS
<1>4. ShownInv'
  BY <1>1, <1>3 DEF ShownInv, NoneHidden, NothingForgotten
<1> HIDE DEF vis, new
<1>5. ASSUME NEW s \in Sessions
      PROVE  flights'[s] \in {0, 1} /\ (flights'[s] = 1 => s \in attaching' /\ s \notin screens')
  <2>1. fl[s] \in {0, 1} /\ (fl[s] = 1 => s \in att /\ s \notin scr)
    BY DEF InFlight
  <2>2. CASE s \in new
    <3>1. fl[s] = 0 /\ flights'[s] = 1
      BY <1>1, <1>2, <2>1, <2>2
    <3> QED
      BY <1>1, <1>2, <2>2, <3>1
  <2>3. CASE s \notin new
    <3>1. flights'[s] = fl[s]
      BY <1>1, <2>1, <2>3
    <3> QED
      BY <1>1, <2>1, <2>3, <3>1
  <2> QED
    BY <2>2, <2>3
<1>6. FlightInv'
  BY <1>1, <1>5 DEF FlightInv, InFlight
<1> QED
  BY <1>4, <1>6

LEMMA InitShown == Init => FlightInv /\ ShownInv
BY DEF Init, FlightInv, InFlight, ShownInv, NoneHidden, NothingForgotten, OnScreen, Ready

\* An attach that is over frees its session.
LEMMA LandedFrees ==
  ASSUME FlightInv, NEW s \in Sessions, flights[s] > 0, NEW scr,
         \A t \in Sessions : t \in scr => t \in screens \cup {s}
  PROVE  InFlight(scr, attaching \ {s}, Landed(s))
<1> SUFFICES ASSUME NEW t \in Sessions
             PROVE  /\ Landed(s)[t] \in {0, 1}
                    /\ Landed(s)[t] = 1 => t \in attaching \ {s} /\ t \notin scr
  BY DEF InFlight
<1>1. flights[t] \in {0, 1} /\ (flights[t] = 1 => t \in attaching /\ t \notin screens)
  BY DEF FlightInv, InFlight
<1>2. flights[s] = 1
  BY DEF FlightInv, InFlight
<1>3. CASE t = s
  BY <1>2, <1>3 DEF Landed, FlightInv
<1>4. CASE t # s
  BY <1>1, <1>4 DEF Landed, FlightInv
<1> QED
  BY <1>3, <1>4

LEMMA NextFlight == FlightInv /\ [Next]_vars => FlightInv'
<1> SUFFICES ASSUME FlightInv, [Next]_vars PROVE FlightInv'
  OBVIOUS
<1>1. InFlight(screens, attaching, flights) /\ DOMAIN flights = Sessions
  BY DEF FlightInv
<1>2. ASSUME UNCHANGED attach PROVE FlightInv'
  BY <1>2 DEF attach, FlightInv, InFlight
<1>3. ASSUME Sync PROVE FlightInv'
  BY <1>1, <1>3, SyncKeeps DEF Sync
<1>4. ASSUME NEW scr, scr \subseteq screens PROVE InFlight(scr, attaching, flights)
  BY <1>1, <1>4 DEF InFlight
<1>5. ASSUME NEW w, SyncOver(ScreensAfterSwitch(w), attaching, flights) PROVE FlightInv'
  <2>1. ScreensAfterSwitch(w) \subseteq screens
    BY DEF ScreensAfterSwitch
  <2>2. InFlight(ScreensAfterSwitch(w), attaching, flights)
    BY <1>4, <2>1
  <2> QED
    BY <1>5, <2>2, SyncKeeps
<1>6. ASSUME NEW k \in Cmds, TabsMsg(k) PROVE FlightInv'
  BY <1>2, <1>3, <1>5, <1>6 DEF TabsMsg, Sync
<1>7. ASSUME NEW s \in Sessions, ScreenFails(s) PROVE FlightInv'
  <2>1. InFlight(screens, attaching \ {s}, Landed(s))
    BY <1>7, LandedFrees DEF ScreenFails
  <2> QED
    BY <1>1, <1>7, <2>1 DEF ScreenFails, FlightInv, Landed, InFlight
<1>8. ASSUME NEW s \in Sessions, ScreenArrives(s) PROVE FlightInv'
  <2>1. InFlight(screens, attaching \ {s}, Landed(s))
    BY <1>8, LandedFrees DEF ScreenArrives
  <2>2. InFlight(screens \cup {s}, attaching \ {s}, Landed(s))
    BY <1>8, LandedFrees DEF ScreenArrives
  <2>3. CASE s \notin OnScreen \/ s \in screens
    BY <1>1, <1>8, <2>1, <2>3 DEF ScreenArrives, FlightInv, Landed, InFlight
  <2>4. CASE ~(s \notin OnScreen \/ s \in screens)
    <3>1. SyncOver(screens \cup {s}, attaching \ {s}, Landed(s))
      BY <1>8, <2>4 DEF ScreenArrives
    <3> QED
      BY <2>2, <3>1, SyncKeeps
  <2> QED
    BY <2>3, <2>4
<1>9. ASSUME Server PROVE FlightInv'
  BY <1>2, <1>9 DEF Server, OtherCreates, SessionEnds, ListSessions, CreateSession, RequestFails
<1>10. ASSUME Message PROVE FlightInv'
  <2>1. ASSUME NEW k \in Cmds, OpenMsg(k) PROVE FlightInv'
    BY <1>5, <2>1 DEF OpenMsg
  <2>2. ASSUME NEW k \in Cmds, NEW s \in Sessions, ClosedMsg(s, k) PROVE FlightInv'
    BY <1>1, <2>2 DEF ClosedMsg, FlightInv, InFlight
  <2> QED
    BY <1>6, <1>7, <1>8, <1>10, <2>1, <2>2 DEF Message
<1>11. ASSUME User PROVE FlightInv'
  <2>1. ASSUME NEW k \in Cmds, NEW w \in Trees, PressOpen(w, k) \/ NewTab(w, k) PROVE FlightInv'
    BY <1>2, <2>1 DEF PressOpen, NewTab
  <2>2. ASSUME NEW k \in Cmds, PickNew(k) PROVE FlightInv'
    BY <1>2, <2>2 DEF PickNew
  <2>3. ASSUME NEW s, PickHidden(s) \/ Move(s) \/ SelectTab(s) PROVE FlightInv'
    BY <1>3, <2>3 DEF PickHidden, Move, SelectTab
  <2>4. ASSUME NEW s, Click(s) PROVE FlightInv'
    BY <1>2, <2>4 DEF Click
  <2>5. ASSUME \/ SplitPane \/ CloseFocused \/ CloseActive \/ ToggleZoom
               \/ Reattach \/ Resized
        PROVE  FlightInv'
    BY <1>3, <2>5 DEF SplitPane, CloseFocused, CloseActive, ToggleZoom, Reattach, Resized
  <2>6. ASSUME NEW f, GoTo(f) PROVE FlightInv'
    BY <1>2, <2>6 DEF GoTo
  <2> QED
    BY <1>11, <2>1, <2>2, <2>3, <2>4, <2>5, <2>6 DEF User
<1>12. ASSUME Restart PROVE FlightInv'
  BY <1>12 DEF Restart, FlightInv, InFlight
<1>13. CASE UNCHANGED vars
  BY <1>2, <1>13 DEF vars
<1> QED
  BY <1>9, <1>10, <1>11, <1>12, <1>13 DEF Next

\* Nothing hides a screen or forgets a pane but a click: the one change of the
\* layout that no sync follows.
NoClicks == \A m \in Mixes : "click" \notin m

LEMMA NextShown ==
  FlightInv /\ ShownInv /\ "click" \notin ops /\ [Next]_vars => ShownInv'
<1> SUFFICES ASSUME FlightInv, ShownInv, "click" \notin ops, [Next]_vars PROVE ShownInv'
  OBVIOUS
<1>1. InFlight(screens, attaching, flights) /\ NoneHidden /\ NothingForgotten
  BY DEF FlightInv, ShownInv
<1>2. ASSUME UNCHANGED wt, UNCHANGED bench, UNCHANGED listed
      PROVE  OnScreen' = OnScreen /\ Range(listed') = Range(listed)
  BY <1>2 DEF OnScreen, Ready
<1>3. ASSUME UNCHANGED wt, UNCHANGED bench, UNCHANGED listed, UNCHANGED attach PROVE ShownInv'
  BY <1>1, <1>2, <1>3 DEF attach, ShownInv, NoneHidden, NothingForgotten
<1>4. ASSUME Sync PROVE ShownInv'
  BY <1>1, <1>4, SyncKeeps DEF Sync
<1>5. ASSUME NEW scr, scr \subseteq screens PROVE InFlight(scr, attaching, flights)
  BY <1>1, <1>5 DEF InFlight
<1>6. ASSUME NEW w, SyncOver(ScreensAfterSwitch(w), attaching, flights) PROVE ShownInv'
  <2>1. ScreensAfterSwitch(w) \subseteq screens
    BY DEF ScreensAfterSwitch
  <2>2. InFlight(ScreensAfterSwitch(w), attaching, flights)
    BY <1>5, <2>1
  <2> QED
    BY <1>6, <2>2, SyncKeeps
<1>7. ASSUME NEW k \in Cmds, TabsMsg(k) PROVE ShownInv'
  BY <1>3, <1>4, <1>6, <1>7 DEF TabsMsg, Sync
<1>8. ASSUME NEW s \in Sessions, ScreenFails(s) PROVE ShownInv'
  <2>1. /\ UNCHANGED wt /\ UNCHANGED bench /\ UNCHANGED listed /\ UNCHANGED screens
        /\ attaching' = attaching \ {s} /\ detached' = detached \cup {s}
    BY <1>8 DEF ScreenFails
  <2> QED
    BY <1>1, <1>2, <2>1 DEF ShownInv, NoneHidden, NothingForgotten
<1>9. ASSUME NEW s \in Sessions, ScreenArrives(s) PROVE ShownInv'
  <2>1. CASE s \notin OnScreen \/ s \in screens
    <3>1. /\ UNCHANGED wt /\ UNCHANGED bench /\ UNCHANGED listed /\ UNCHANGED screens
          /\ attaching' = attaching \ {s} /\ UNCHANGED detached
      BY <1>9, <2>1 DEF ScreenArrives
    <3> QED
      BY <1>1, <1>2, <2>1, <3>1 DEF ShownInv, NoneHidden, NothingForgotten
  <2>2. CASE ~(s \notin OnScreen \/ s \in screens)
    <3>1. SyncOver(screens \cup {s}, attaching \ {s}, Landed(s))
      BY <1>9, <2>2 DEF ScreenArrives
    <3>2. InFlight(screens \cup {s}, attaching \ {s}, Landed(s))
      BY <1>9, LandedFrees DEF ScreenArrives
    <3> QED
      BY <3>1, <3>2, SyncKeeps
  <2> QED
    BY <2>1, <2>2
<1>10. ASSUME Server PROVE ShownInv'
  BY <1>3, <1>10 DEF Server, OtherCreates, SessionEnds, ListSessions, CreateSession, RequestFails
<1>11. ASSUME Message PROVE ShownInv'
  <2>1. ASSUME NEW k \in Cmds, OpenMsg(k) PROVE ShownInv'
    BY <1>6, <2>1 DEF OpenMsg
  <2>2. ASSUME NEW k \in Cmds, NEW s \in Sessions, ClosedMsg(s, k) PROVE ShownInv'
    <3>1. /\ UNCHANGED wt /\ UNCHANGED bench /\ UNCHANGED listed /\ UNCHANGED attaching
          /\ screens' = screens \ {s} /\ detached' = detached \cup {s}
      BY <2>2 DEF ClosedMsg
    <3> QED
      BY <1>1, <1>2, <3>1 DEF ShownInv, NoneHidden, NothingForgotten
  <2> QED
    BY <1>7, <1>8, <1>9, <1>11, <2>1, <2>2 DEF Message
<1>12. ASSUME User PROVE ShownInv'
  <2>1. ASSUME NEW k \in Cmds, NEW w \in Trees, PressOpen(w, k) \/ NewTab(w, k) PROVE ShownInv'
    BY <1>3, <2>1 DEF PressOpen, NewTab
  <2>2. ASSUME NEW k \in Cmds, PickNew(k) PROVE ShownInv'
    BY <1>3, <2>2 DEF PickNew
  <2>3. ASSUME NEW s, PickHidden(s) \/ Move(s) \/ SelectTab(s) PROVE ShownInv'
    BY <1>4, <2>3 DEF PickHidden, Move, SelectTab
  <2>4. \A s : ~Click(s)
    BY DEF Click, Act
  <2>5. ASSUME \/ SplitPane \/ CloseFocused \/ CloseActive \/ ToggleZoom
               \/ Reattach \/ Resized
        PROVE  ShownInv'
    BY <1>4, <2>5 DEF SplitPane, CloseFocused, CloseActive, ToggleZoom, Reattach, Resized
  <2>6. ASSUME NEW f, GoTo(f) PROVE ShownInv'
    BY <1>3, <2>6 DEF GoTo
  <2> QED
    BY <1>12, <2>1, <2>2, <2>3, <2>4, <2>5, <2>6 DEF User
<1>13. ASSUME Restart PROVE ShownInv'
  BY <1>13 DEF Restart, ShownInv, NoneHidden, NothingForgotten, OnScreen, Ready
<1>14. CASE UNCHANGED vars
  BY <1>3, <1>14 DEF vars
<1> QED
  BY <1>10, <1>11, <1>12, <1>13, <1>14 DEF Next

\* The run's mix is chosen once.
LEMMA NextOps == [Next]_vars => UNCHANGED ops
<1> SUFFICES ASSUME [Next]_vars PROVE UNCHANGED ops
  OBVIOUS
<1>1. Server => UNCHANGED ops
  BY DEF Server, OtherCreates, SessionEnds, ListSessions, CreateSession, RequestFails, marks
<1>2. Message => UNCHANGED ops
  BY DEF Message, OpenMsg, TabsMsg, ClosedMsg, ScreenFails, ScreenArrives, marks
<1>3. User => UNCHANGED ops
  BY DEF User, PressOpen, NewTab, PickNew, PickHidden, Move, Click, SelectTab, SplitPane,
         CloseFocused, CloseActive, ToggleZoom, Reattach, Resized, GoTo, Lay, marks
<1>4. Restart => UNCHANGED ops
  BY DEF Restart, marks
<1>5. UNCHANGED vars => UNCHANGED ops
  BY DEF vars, marks
<1> QED
  BY <1>1, <1>2, <1>3, <1>4, <1>5 DEF Next

LEMMA FlightAttach == FlightInv => OneAttach
BY DEF FlightInv, InFlight, OneAttach

-----------------------------------------------------------------------------
\* Whatever the user does, clicks included: the layout file has the panes and
\* the hidden sessions of the screen after every step, a crash's next start
\* included (Root.save, layoutfile.Save), and a session has one attach of
\* this TUI at most, under way or live (Root.sync's r.attaching and
\* r.screens).
THEOREM LayoutsSaved == Spec => [](LayoutOnFile /\ OneAttach)
<1>1. Init => FileInv /\ FlightInv
  BY InitFile, InitShown
<1>2. FileInv /\ FlightInv /\ [Next]_vars => FileInv' /\ FlightInv'
  BY NextFile, NextFlight
<1>3. FileInv /\ FlightInv => LayoutOnFile /\ OneAttach
  BY FlightAttach DEF FileInv
<1> QED
  BY <1>1, <1>2, <1>3, PTL DEF Spec

\* Root.sync keeps up with the panes on screen, whatever arrives in whatever
\* order, as long as the panes are changed from the keyboard: a click can
\* show another tab without a sync.
THEOREM SyncsKeepUp ==
  ASSUME NoClicks
  PROVE  Spec => []SyncSound
<1> DEFINE Inv == FileInv /\ FlightInv /\ ShownInv /\ "click" \notin ops
<1>1. Init => Inv
  BY InitFile, InitShown DEF Init, NoClicks
<1>2. Inv /\ [Next]_vars => Inv'
  BY NextFile, NextFlight, NextShown, NextOps
<1>3. Inv => SyncSound
  BY FlightAttach DEF FileInv, ShownInv, SyncSound
<1> QED
  BY <1>1, <1>2, <1>3, PTL DEF Spec

-----------------------------------------------------------------------------
(***************************************************************************)
(* Induction up to a number, for filters and for Reconcile's loop.         *)
(***************************************************************************)
Below == {p \in Nat \X Nat : p[1] < p[2]}

\* A set of numbers has a smallest one.
LEMMA Least ==
  ASSUME NEW S \in SUBSET Nat, S # {}
  PROVE  \E p \in S : \A q \in S : p <= q
<1>1. IsWellFoundedOn(Below, Nat)
  BY NatLessThanWellFounded DEF OpToRel, Below
<1>2. PICK p \in S : \A q \in S : <<q, p>> \notin Below
  BY <1>1, WFMin
<1>3. ASSUME NEW q \in S, q < p PROVE FALSE
  <2>1. <<q, p>> \in Nat \X Nat /\ <<q, p>>[1] = q /\ <<q, p>>[2] = p
    OBVIOUS
  <2>2. <<q, p>>[1] < <<q, p>>[2]
    BY <1>3, <2>1
  <2>3. <<q, p>> \in Below
    BY <2>1, <2>2, Zenon DEF Below
  <2> QED
    BY <1>2, <2>3
<1> QED
  BY <1>3

\* Induction from 0 to n.
LEMMA Upwards ==
  ASSUME NEW n \in Nat, NEW S, 0 \in S, \A m \in 0 .. n : m \in S /\ m < n => m + 1 \in S
  PROVE  \A m \in 0 .. n : m \in S
<1> DEFINE Out == {m \in 0 .. n : m \notin S}
<1> SUFFICES ASSUME Out # {} PROVE FALSE
  OBVIOUS
<1>1. Out \in SUBSET Nat
  OBVIOUS
<1>2. PICK p \in Out : \A q \in Out : p <= q
  BY <1>1, Least
<1>3. p # 0 /\ p - 1 \in 0 .. n /\ p - 1 < n /\ (p - 1) + 1 = p
  BY <1>2
<1>4. p - 1 \in S
  BY <1>2, <1>3
<1> QED
  BY <1>2, <1>3, <1>4

\* Filtering is defined for every sequence, step by step.
LEMMA Stepwise ==
  ASSUME NEW T, NEW s \in Seq(T), NEW S
  PROVE  /\ KeptUpto(s, S)[0] = <<>>
         /\ \A n \in 1 .. Len(s) : KeptUpto(s, S)[n] =
              IF s[n] \in S THEN Append(KeptUpto(s, S)[n - 1], s[n]) ELSE KeptUpto(s, S)[n - 1]
<1> DEFINE Def(F, m) == F = [n \in 0 .. m |->
             IF n = 0 THEN <<>>
             ELSE IF s[n] \in S THEN Append(F[n - 1], s[n]) ELSE F[n - 1]]
           Known == {m \in 0 .. Len(s) : \E F : Def(F, m)}
<1>1. Len(s) \in Nat
  BY LenProperties
<1>2. 0 \in Known
  <2> DEFINE F == [n \in 0 .. 0 |-> <<>>]
  <2>1. F = [n \in 0 .. 0 |->
             IF n = 0 THEN <<>>
             ELSE IF s[n] \in S THEN Append(F[n - 1], s[n]) ELSE F[n - 1]]
    OBVIOUS
  <2> HIDE DEF F
  <2> QED
    BY <1>1, <2>1
<1>3. ASSUME NEW m \in 0 .. Len(s), m \in Known, m < Len(s)
      PROVE  m + 1 \in Known
  <2>1. PICK F : Def(F, m)
    BY <1>3
  <2> DEFINE last == IF s[m + 1] \in S THEN Append(F[m], s[m + 1]) ELSE F[m]
             G == [n \in 0 .. m + 1 |-> IF n = m + 1 THEN last ELSE F[n]]
  <2>2. ASSUME NEW n \in 0 .. m + 1
        PROVE  G[n] = IF n = 0 THEN <<>>
                      ELSE IF s[n] \in S THEN Append(G[n - 1], s[n]) ELSE G[n - 1]
    <3>1. CASE n = m + 1
      <4>1. G[m + 1] = last /\ G[(m + 1) - 1] = F[m] /\ (m + 1) - 1 = m /\ m + 1 # 0
        BY <1>3
      <4> HIDE DEF G
      <4> QED
        BY <3>1, <4>1
    <3>2. CASE n \in 0 .. m
      <4>1. G[n] = F[n] /\ (n # 0 => G[n - 1] = F[n - 1])
        BY <1>3, <3>2
      <4>2. F[n] = IF n = 0 THEN <<>>
                   ELSE IF s[n] \in S THEN Append(F[n - 1], s[n]) ELSE F[n - 1]
        BY <2>1, <3>2
      <4> HIDE DEF G
      <4> QED
        BY <4>1, <4>2
    <3> QED
      BY <1>3, <3>1, <3>2
  <2>3. Def(G, m + 1)
    <3>1. G = [n \in 0 .. m + 1 |-> G[n]]
      OBVIOUS
    <3> HIDE DEF G
    <3> QED
      BY <2>2, <3>1
  <2>4. m + 1 \in 0 .. Len(s)
    BY <1>1, <1>3
  <2> HIDE DEF G, Def
  <2> QED
    BY <2>3, <2>4
<1>4. Len(s) \in Known
  <2> HIDE DEF Known
  <2>1. \A m \in 0 .. Len(s) : m \in Known
    BY <1>1, <1>2, <1>3, Upwards
  <2> QED
    BY <1>1, <2>1
<1>5. Def(KeptUpto(s, S), Len(s))
  <2>1. \E F : Def(F, Len(s))
    BY <1>4
  <2> QED
    BY <2>1 DEF KeptUpto
<1> HIDE DEF Known
<1> DEFINE K == KeptUpto(s, S)
<1>6. K = [n \in 0 .. Len(s) |->
             IF n = 0 THEN <<>> ELSE IF s[n] \in S THEN Append(K[n - 1], s[n]) ELSE K[n - 1]]
  BY <1>5
<1> HIDE DEF K
<1>7. ASSUME NEW n \in 0 .. Len(s)
      PROVE  K[n] = IF n = 0 THEN <<>>
                    ELSE IF s[n] \in S THEN Append(K[n - 1], s[n]) ELSE K[n - 1]
  BY <1>6, Zenon
<1>8. 0 \in 0 .. Len(s) /\ \A n \in 1 .. Len(s) : n \in 0 .. Len(s) /\ n # 0
  BY <1>1
<1>9. K[0] = <<>>
  BY <1>7, <1>8
<1>10. ASSUME NEW n \in 1 .. Len(s)
      PROVE  K[n] = IF s[n] \in S THEN Append(K[n - 1], s[n]) ELSE K[n - 1]
  BY <1>7, <1>8
<1> QED
  BY <1>9, <1>10 DEF K

\* What is left of s is part of s, in its order, and all of it that is in S.
Embeds(r, s, n, S, h) ==
  /\ h \in [1 .. Len(r) -> 1 .. n]
  /\ \A i \in 1 .. Len(r) : r[i] = s[h[i]] /\ r[i] \in S
  /\ \A i, j \in 1 .. Len(r) : i < j => h[i] < h[j]
  /\ \A m \in 1 .. n : s[m] \in S => \E i \in 1 .. Len(r) : h[i] = m

LEMMA OnlyEmbeds ==
  ASSUME NEW T, NEW s \in Seq(T), NEW S
  PROVE  Only(s, S) \in Seq(T) /\ \E h : Embeds(Only(s, S), s, Len(s), S, h)
<1> DEFINE K == KeptUpto(s, S)
           Good == {n \in 0 .. Len(s) : K[n] \in Seq(T) /\ \E h : Embeds(K[n], s, n, S, h)}
<1>1. Len(s) \in Nat /\ \A n \in 1 .. Len(s) : s[n] \in T
  BY LenProperties, ElementOfSeq
<1>2. /\ K[0] = <<>>
      /\ \A n \in 1 .. Len(s) : K[n] = IF s[n] \in S THEN Append(K[n - 1], s[n]) ELSE K[n - 1]
  BY Stepwise
<1> HIDE DEF K
<1>3. 0 \in Good
  <2>1. K[0] \in Seq(T) /\ Len(K[0]) = 0
    BY <1>2, EmptySeq
  <2>2. Embeds(K[0], s, 0, S, [i \in 1 .. 0 |-> 0])
    BY <2>1 DEF Embeds
  <2> QED
    BY <1>1, <2>1, <2>2
<1>4. ASSUME NEW m \in 0 .. Len(s), m \in Good, m < Len(s)
      PROVE  m + 1 \in Good
  <2>1. m \in Nat /\ m + 1 \in 1 .. Len(s) /\ (m + 1) - 1 = m /\ m + 1 \in 0 .. Len(s)
    BY <1>1, <1>4
  <2>2. PICK h : Embeds(K[m], s, m, S, h)
    BY <1>4
  <2>3. K[m] \in Seq(T) /\ Len(K[m]) \in Nat
    BY <1>4, LenProperties
  <2>4. CASE s[m + 1] \in S
    <3>1. K[m + 1] = Append(K[m], s[m + 1])
      BY <1>2, <2>1, <2>4
    <3>2. PICK r : r = K[m + 1]
      OBVIOUS
    <3>3. PICK l \in Nat : l = Len(K[m])
      BY <2>3
    <3>4. /\ r \in Seq(T) /\ Len(r) = l + 1
          /\ \A i \in 1 .. l : r[i] = K[m][i]
          /\ r[l + 1] = s[m + 1]
      BY <1>1, <2>1, <2>3, <3>1, <3>2, <3>3, AppendProperties
    <3> DEFINE g == [i \in 1 .. l + 1 |-> IF i = l + 1 THEN m + 1 ELSE h[i]]
    <3>5. /\ h \in [1 .. l -> 1 .. m]
          /\ \A i \in 1 .. l : K[m][i] = s[h[i]] /\ K[m][i] \in S
          /\ \A i, j \in 1 .. l : i < j => h[i] < h[j]
          /\ \A n \in 1 .. m : s[n] \in S => \E i \in 1 .. l : h[i] = n
      BY <2>2, <3>3 DEF Embeds
    <3>6. g[l + 1] = m + 1 /\ \A i \in 1 .. l : g[i] = h[i] /\ h[i] \in 1 .. m
      BY <3>5
    <3>7. g \in [1 .. l + 1 -> 1 .. m + 1]
      BY <2>1, <3>5
    <3> HIDE DEF g
    <3>8. \A i \in 1 .. l + 1 : i = l + 1 \/ i \in 1 .. l
      OBVIOUS
    <3>9. \A i \in 1 .. l + 1 : r[i] = s[g[i]] /\ r[i] \in S
      BY <2>4, <3>4, <3>5, <3>6, <3>8
    <3>10. ASSUME NEW i \in 1 .. l + 1, NEW j \in 1 .. l + 1, i < j PROVE g[i] < g[j]
      <4>1. i \in 1 .. l /\ (j = l + 1 \/ j \in 1 .. l)
        BY <3>10
      <4> QED
        BY <2>1, <3>5, <3>6, <3>10, <4>1
    <3>11. ASSUME NEW n \in 1 .. m + 1, s[n] \in S PROVE \E i \in 1 .. l + 1 : g[i] = n
      <4>1. CASE n = m + 1
        BY <3>6, <4>1
      <4>2. CASE n \in 1 .. m
        <5>1. PICK i \in 1 .. l : h[i] = n
          BY <3>5, <3>11, <4>2
        <5> QED
          BY <3>6, <5>1
      <4> QED
        BY <2>1, <4>1, <4>2
    <3>12. Embeds(r, s, m + 1, S, g)
      BY <3>4, <3>7, <3>9, <3>10, <3>11 DEF Embeds
    <3> QED
      BY <2>1, <3>2, <3>4, <3>12
  <2>5. CASE s[m + 1] \notin S
    <3>1. K[m + 1] = K[m]
      BY <1>2, <2>1, <2>5
    <3>2. \A n \in 1 .. m + 1 : n = m + 1 \/ n \in 1 .. m
      BY <2>1
    <3>3. Embeds(K[m], s, m + 1, S, h)
      BY <2>1, <2>2, <2>5, <3>2 DEF Embeds
    <3> QED
      BY <2>1, <2>3, <3>1, <3>3
  <2> QED
    BY <2>4, <2>5
<1>5. \A n \in 0 .. Len(s) : n \in Good
  <2> HIDE DEF Good
  <2> QED
    BY <1>1, <1>3, <1>4, Upwards
<1>6. Len(s) \in Good
  <2> HIDE DEF Good
  <2> QED
    BY <1>1, <1>5
<1> QED
  BY <1>6 DEF Only, K

\* Reconcile's loop, turn by turn.
LEMMA LoopTurns ==
  ASSUME NEW b, NEW T, b.tabs \in Seq(T), b.active \in Int, NEW live
  PROVE  /\ ActiveUpto(b, live)[0] = b.active
         /\ \A n \in 1 .. Len(b.tabs) : ActiveUpto(b, live)[n] =
              ActiveUpto(b, live)[n - 1] -
                (IF LeavesLeft(b.tabs[n], live) = <<>> /\ n < ActiveUpto(b, live)[n - 1]
                 THEN 1 ELSE 0)
         /\ ActiveAfter(b, live) \in Int
<1> DEFINE Turn(n, x) == x - (IF LeavesLeft(b.tabs[n], live) = <<>> /\ n < x THEN 1 ELSE 0)
           Def(F, m) == F = [n \in 0 .. m |-> IF n = 0 THEN b.active ELSE Turn(n, F[n - 1])]
           Known == {m \in 0 .. Len(b.tabs) : \E F : Def(F, m)}
<1>1. Len(b.tabs) \in Nat
  BY LenProperties
<1>2. 0 \in Known
  <2> DEFINE F == [n \in 0 .. 0 |-> b.active]
  <2>1. F = [n \in 0 .. 0 |-> IF n = 0 THEN b.active ELSE Turn(n, F[n - 1])]
    OBVIOUS
  <2> HIDE DEF F, Turn
  <2> QED
    BY <1>1, <2>1
<1> HIDE DEF Turn
<1>3. ASSUME NEW m \in 0 .. Len(b.tabs), m \in Known, m < Len(b.tabs)
      PROVE  m + 1 \in Known
  <2>1. PICK F : Def(F, m)
    BY <1>3
  <2> DEFINE G == [n \in 0 .. m + 1 |-> IF n = m + 1 THEN Turn(m + 1, F[m]) ELSE F[n]]
  <2>2. ASSUME NEW n \in 0 .. m + 1
        PROVE  G[n] = IF n = 0 THEN b.active ELSE Turn(n, G[n - 1])
    <3>1. CASE n = m + 1
      <4>1. /\ G[m + 1] = Turn(m + 1, F[m]) /\ G[(m + 1) - 1] = F[m]
            /\ (m + 1) - 1 = m /\ m + 1 # 0
        BY <1>3
      <4> HIDE DEF G
      <4> QED
        BY <3>1, <4>1
    <3>2. CASE n \in 0 .. m
      <4>1. G[n] = F[n] /\ (n # 0 => G[n - 1] = F[n - 1])
        BY <1>3, <3>2
      <4>2. F[n] = IF n = 0 THEN b.active ELSE Turn(n, F[n - 1])
        BY <2>1, <3>2
      <4> HIDE DEF G
      <4> QED
        BY <4>1, <4>2
    <3> QED
      BY <1>3, <3>1, <3>2
  <2>3. Def(G, m + 1)
    <3>1. G = [n \in 0 .. m + 1 |-> G[n]]
      OBVIOUS
    <3> HIDE DEF G
    <3> QED
      BY <2>2, <3>1
  <2>4. m + 1 \in 0 .. Len(b.tabs)
    BY <1>1, <1>3
  <2> HIDE DEF G, Def
  <2> QED
    BY <2>3, <2>4
<1>4. Len(b.tabs) \in Known
  <2> HIDE DEF Known
  <2>1. \A m \in 0 .. Len(b.tabs) : m \in Known
    BY <1>1, <1>2, <1>3, Upwards
  <2> QED
    BY <1>1, <2>1
<1>5. Def(ActiveUpto(b, live), Len(b.tabs))
  <2>1. \E F : Def(F, Len(b.tabs))
    BY <1>4
  <2> QED
    BY <2>1 DEF ActiveUpto, Turn
<1> HIDE DEF Known
<1> DEFINE A == ActiveUpto(b, live)
<1>6. A = [n \in 0 .. Len(b.tabs) |-> IF n = 0 THEN b.active ELSE Turn(n, A[n - 1])]
  BY <1>5
<1> HIDE DEF A
<1>7. ASSUME NEW n \in 0 .. Len(b.tabs)
      PROVE  A[n] = IF n = 0 THEN b.active ELSE Turn(n, A[n - 1])
  BY <1>6, Zenon
<1>8. 0 \in 0 .. Len(b.tabs) /\ \A n \in 1 .. Len(b.tabs) : n \in 0 .. Len(b.tabs) /\ n # 0
  BY <1>1
<1>9. A[0] = b.active
  BY <1>7, <1>8
<1>10. \A n \in 1 .. Len(b.tabs) : A[n] = Turn(n, A[n - 1])
  BY <1>7, <1>8
<1> DEFINE Whole == {n \in 0 .. Len(b.tabs) : A[n] \in Int}
<1>11. \A n \in 0 .. Len(b.tabs) : n \in Whole
  <2>1. 0 \in Whole
    BY <1>8, <1>9
  <2>2. ASSUME NEW m \in 0 .. Len(b.tabs), m \in Whole, m < Len(b.tabs)
        PROVE  m + 1 \in Whole
    <3>1. m + 1 \in 1 .. Len(b.tabs) /\ (m + 1) - 1 = m
      BY <1>1, <2>2
    <3>2. A[m + 1] = Turn(m + 1, A[m]) /\ A[m] \in Int
      BY <1>10, <2>2, <3>1
    <3> QED
      BY <1>8, <3>1, <3>2 DEF Turn
  <2> HIDE DEF Whole
  <2> QED
    BY <1>1, <2>1, <2>2, Upwards
<1>12. ActiveAfter(b, live) \in Int
  BY <1>1, <1>11 DEF ActiveAfter, A
<1> QED
  BY <1>9, <1>10, <1>12 DEF A, Turn

-----------------------------------------------------------------------------
(***************************************************************************)
(* The operations of a Workbench keep it right: every tab has panes and    *)
(* its focus among them, the active one is there, what is shown is known.  *)
(***************************************************************************)
RightTab(t) == t \in Tab /\ t.focus \in Range(t.leaves)
RightBench(b) ==
  /\ b \in Bench
  /\ \A i \in DOMAIN b.tabs : RightTab(b.tabs[i])
  /\ b.tabs # <<>> => b.active \in DOMAIN b.tabs
  /\ PanesOf(b) \subseteq {Empty} \cup b.known

\* No two panes have one session, but for those of e, and no tab two empty panes.
OneEach(tabs, e) ==
  \A i, j \in DOMAIN tabs : \A m \in DOMAIN tabs[i].leaves, n \in DOMAIN tabs[j].leaves :
    tabs[i].leaves[m] = tabs[j].leaves[n] =>
      \/ i = j /\ m = n
      \/ tabs[i].leaves[m] \in e
      \/ tabs[i].leaves[m] = Empty /\ i # j

Distinct(s) == \A i, j \in DOMAIN s : s[i] = s[j] => i = j

\* r has elements of s, each position once.
Picks(r, s, h) ==
  h \in [DOMAIN r -> DOMAIN s] /\ Distinct(h) /\ \A i \in DOMAIN r : r[i] = s[h[i]]

\* Panes taken over from other tabs, each once and tab by tab.
LEMMA TakenOver ==
  ASSUME NEW old, NEW tabs, NEW e, OneEach(old, e),
         NEW f \in [DOMAIN tabs -> DOMAIN old], Distinct(f),
         NEW g, \A i \in DOMAIN tabs : Picks(tabs[i].leaves, old[f[i]].leaves, g[i])
  PROVE  OneEach(tabs, e)
<1> SUFFICES ASSUME NEW i \in DOMAIN tabs, NEW j \in DOMAIN tabs,
                    NEW m \in DOMAIN tabs[i].leaves, NEW n \in DOMAIN tabs[j].leaves,
                    tabs[i].leaves[m] = tabs[j].leaves[n]
             PROVE  \/ i = j /\ m = n
                    \/ tabs[i].leaves[m] \in e
                    \/ tabs[i].leaves[m] = Empty /\ i # j
  BY DEF OneEach
<1>1. /\ f[i] \in DOMAIN old /\ f[j] \in DOMAIN old
      /\ g[i][m] \in DOMAIN old[f[i]].leaves /\ g[j][n] \in DOMAIN old[f[j]].leaves
      /\ tabs[i].leaves[m] = old[f[i]].leaves[g[i][m]]
      /\ tabs[j].leaves[n] = old[f[j]].leaves[g[j][n]]
  BY DEF Picks
<1>2. \/ f[i] = f[j] /\ g[i][m] = g[j][n]
      \/ tabs[i].leaves[m] \in e
      \/ tabs[i].leaves[m] = Empty /\ f[i] # f[j]
  <2>1. \A p, q \in DOMAIN old : \A x \in DOMAIN old[p].leaves, y \in DOMAIN old[q].leaves :
          old[p].leaves[x] = old[q].leaves[y] =>
            \/ p = q /\ x = y
            \/ old[p].leaves[x] \in e
            \/ old[p].leaves[x] = Empty /\ p # q
    BY Zenon DEF OneEach
  <2>2. \A x \in DOMAIN old[f[i]].leaves, y \in DOMAIN old[f[j]].leaves :
          old[f[i]].leaves[x] = old[f[j]].leaves[y] =>
            \/ f[i] = f[j] /\ x = y
            \/ old[f[i]].leaves[x] \in e
            \/ old[f[i]].leaves[x] = Empty /\ f[i] # f[j]
    BY <1>1, <2>1, Zenon
  <2>3. old[f[i]].leaves[g[i][m]] = old[f[j]].leaves[g[j][n]]
    BY <1>1
  <2> QED
    BY <1>1, <2>2, <2>3, Zenon
<1>3. f[i] = f[j] => i = j
  BY DEF Distinct
<1>4. i = j /\ g[i][m] = g[j][n] => m = n
  <2>1. ASSUME i = j, g[i][m] = g[j][n] PROVE m = n
    <3>1. m \in DOMAIN g[i] /\ n \in DOMAIN g[i] /\ Distinct(g[i]) /\ g[i][m] = g[i][n]
      BY <2>1 DEF Picks
    <3> QED
      BY <3>1 DEF Distinct
  <2> QED
    BY <2>1
<1> QED
  BY <1>2, <1>3, <1>4

\* A filter keeps just what is in S, and keeps elements apart.
LEMMA OnlyRange ==
  ASSUME NEW T, NEW s \in Seq(T), NEW S
  PROVE  /\ Only(s, S) \in Seq(T) /\ Range(Only(s, S)) = Range(s) \cap S
         /\ Distinct(s) => Distinct(Only(s, S))
<1>1. PICK r : r = Only(s, S)
  OBVIOUS
<1>2. r \in Seq(T) /\ \E h : Embeds(r, s, Len(s), S, h)
  BY <1>1, OnlyEmbeds
<1>3. PICK h : Embeds(r, s, Len(s), S, h)
  BY <1>2
<1>4. /\ DOMAIN r = 1 .. Len(r) /\ Len(r) \in Nat /\ DOMAIN s = 1 .. Len(s) /\ Len(s) \in Nat
  BY <1>2, LenProperties
<1>5. /\ \A i \in DOMAIN r : h[i] \in DOMAIN s /\ r[i] = s[h[i]] /\ r[i] \in S
      /\ \A i, j \in DOMAIN r : i < j => h[i] < h[j]
      /\ \A m \in DOMAIN s : s[m] \in S => \E i \in DOMAIN r : h[i] = m
  BY <1>3, <1>4 DEF Embeds
<1>6. Range(r) \subseteq Range(s) \cap S
  BY <1>5 DEF Range
<1>7. Range(s) \cap S \subseteq Range(r)
  BY <1>5 DEF Range
<1>8. ASSUME Distinct(s), NEW i \in DOMAIN r, NEW j \in DOMAIN r, r[i] = r[j] PROVE i = j
  <2>1. h[i] = h[j] /\ h[i] \in Nat /\ h[j] \in Nat
    BY <1>4, <1>5, <1>8 DEF Distinct
  <2>2. i \in Nat /\ j \in Nat
    BY <1>4
  <2> QED
    BY <1>5, <2>1, <2>2
<1> QED
  BY <1>1, <1>2, <1>6, <1>7, <1>8 DEF Distinct

\* What is in a pane of one sequence and left in the other.
LEMMA OnlyFrom ==
  ASSUME NEW T, NEW s \in Seq(T), NEW S
  PROVE  \E h : Picks(Only(s, S), s, h)
<1>1. PICK r : r = Only(s, S)
  OBVIOUS
<1>2. r \in Seq(T) /\ \E h : Embeds(r, s, Len(s), S, h)
  BY <1>1, OnlyEmbeds
<1>3. PICK h : Embeds(r, s, Len(s), S, h)
  BY <1>2
<1>4. /\ DOMAIN r = 1 .. Len(r) /\ Len(r) \in Nat /\ DOMAIN s = 1 .. Len(s) /\ Len(s) \in Nat
  BY <1>2, LenProperties
<1>5. /\ h \in [DOMAIN r -> DOMAIN s]
      /\ \A i \in DOMAIN r : r[i] = s[h[i]] /\ h[i] \in Nat
      /\ \A i, j \in DOMAIN r : i < j => h[i] < h[j]
  BY <1>3, <1>4 DEF Embeds
<1>6. Distinct(h)
  BY <1>4, <1>5 DEF Distinct
<1>7. Picks(r, s, h)
  BY <1>5, <1>6 DEF Picks
<1> QED
  BY <1>1, <1>7

LEMMA NonEmpty ==
  ASSUME NEW T, NEW s \in Seq(T), s # <<>>
  PROVE  Head(s) \in Range(s) /\ Head(s) = s[1] /\ 1 \in DOMAIN s /\ Len(s) >= 1
<1>1. Len(s) \in Nat \ {0} /\ DOMAIN s = 1 .. Len(s)
  BY EmptySeq, LenProperties
<1>2. Head(s) = s[1]
  OBVIOUS
<1> QED
  BY <1>1, <1>2 DEF Range

\* A tab that has lost panes focuses one it has left.
LEMMA RemainingRight ==
  ASSUME NEW t, RightTab(t), NEW live \in SUBSET Sessions, LeavesLeft(t, live) # <<>>
  PROVE  /\ RightTab(Remaining(t, live))
         /\ Remaining(t, live).leaves = LeavesLeft(t, live)
         /\ Range(LeavesLeft(t, live)) \subseteq Range(t.leaves) \cap ({Empty} \cup live)
<1>1. t.leaves \in Seq(Pane) /\ t.focus \in Pane
  BY DEF RightTab, Tab
<1>2. /\ LeavesLeft(t, live) \in Seq(Pane)
      /\ Range(LeavesLeft(t, live)) = Range(t.leaves) \cap ({Empty} \cup live)
  BY <1>1, OnlyRange DEF LeavesLeft
<1>3. PICK left : left = LeavesLeft(t, live)
  OBVIOUS
<1>4. Head(left) \in Range(left) /\ Head(left) \in Pane
  BY <1>2, <1>3, NonEmpty, HeadTailProperties
<1>5. Remaining(t, live) = [leaves |-> left,
                            focus |-> IF t.focus \in Range(left) THEN t.focus ELSE Head(left)]
  BY <1>3 DEF Remaining
<1> QED
  BY <1>1, <1>2, <1>3, <1>4, <1>5 DEF RightTab, Tab

LEMMA EmptyIsNone == Empty \notin Sessions /\ Pane = {Empty} \cup Sessions
BY DEF Empty, Sessions, Pane

LEMMA EmptyTabRight == RightTab(EmptyTab) /\ Range(EmptyTab.leaves) = {Empty} /\ Len(EmptyTab.leaves) = 1
<1>1. EmptyTab.leaves = <<Empty>> /\ EmptyTab.focus = Empty /\ Empty \in Pane
  BY DEF EmptyTab, Pane
<1>2. Range(<<Empty>>) = {Empty} /\ <<Empty>> \in Seq(Pane) /\ Len(<<Empty>>) = 1
  BY <1>1 DEF Range
<1> QED
  BY <1>1, <1>2 DEF RightTab, Tab, EmptyTab

\* What Reconcile makes the tabs of: the old ones that keep a pane, and one
\* for each new session.
Staying(b, live) == Only(b.tabs, {t \in Range(b.tabs) : LeavesLeft(t, live) # <<>>})
OldTabs(b, live) ==
  [i \in DOMAIN Staying(b, live) |-> Remaining(Staying(b, live)[i], live)]
NewTabs(new) == [i \in DOMAIN new |-> [leaves |-> <<new[i]>>, focus |-> new[i]]]

\* The tabs that keep a pane are right, and their panes were there before.
LEMMA OldTabsRight ==
  ASSUME NEW b, RightBench(b), NEW e, OneEach(b.tabs, e), NEW live \in SUBSET Sessions,
         NEW A, A = OldTabs(b, live)
  PROVE  /\ A \in Seq(Tab) /\ OneEach(A, e)
         /\ \A i \in DOMAIN A : /\ RightTab(A[i])
                                /\ Range(A[i].leaves) \subseteq PanesOf(b) \cap ({Empty} \cup live)
<1>1. PICK S : S = {t \in Range(b.tabs) : LeavesLeft(t, live) # <<>>}
  OBVIOUS
<1>2. PICK kept : kept = Only(b.tabs, S)
  OBVIOUS
<1>3. A = [i \in DOMAIN kept |-> Remaining(kept[i], live)]
  BY <1>1, <1>2 DEF OldTabs, Staying
<1>4. b.tabs \in Seq(Tab) /\ \A i \in DOMAIN b.tabs : RightTab(b.tabs[i])
  BY DEF RightBench, Bench
<1>5. kept \in Seq(Tab) /\ Range(kept) = Range(b.tabs) \cap S
  BY <1>2, <1>4, OnlyRange
<1>6. PICK h : Picks(kept, b.tabs, h)
  BY <1>2, <1>4, OnlyFrom
<1>7. /\ h \in [DOMAIN kept -> DOMAIN b.tabs] /\ Distinct(h)
      /\ \A i \in DOMAIN kept : kept[i] = b.tabs[h[i]]
  BY <1>6 DEF Picks
<1>8. Len(kept) \in Nat /\ DOMAIN kept = 1 .. Len(kept)
  BY <1>5, LenProperties
<1>9. ASSUME NEW i \in DOMAIN kept
      PROVE  RightTab(kept[i]) /\ LeavesLeft(kept[i], live) # <<>>
  <2>1. kept[i] \in S
    BY <1>5 DEF Range
  <2> QED
    BY <1>1, <1>4, <1>7, <2>1
<1>10. ASSUME NEW i \in DOMAIN A
      PROVE  /\ RightTab(A[i]) /\ A[i].leaves = LeavesLeft(kept[i], live)
             /\ Range(A[i].leaves) \subseteq Range(kept[i].leaves) \cap ({Empty} \cup live)
  <2>1. i \in DOMAIN kept /\ A[i] = Remaining(kept[i], live)
    BY <1>3
  <2> QED
    BY <1>9, <2>1, RemainingRight
<1>11. A \in Seq(Tab)
  <2>1. PICK n \in Nat : n = Len(kept)
    BY <1>8
  <2>2. A \in [1 .. n -> Tab]
    BY <1>3, <1>8, <1>10, <2>1 DEF RightTab
  <2>3. A \in UNION {[1 .. k -> Tab] : k \in Nat}
    BY <2>1, <2>2, Zenon
  <2> QED
    BY <2>3, SeqDef, Zenon
<1>12. ASSUME NEW i \in DOMAIN A
      PROVE  Range(A[i].leaves) \subseteq PanesOf(b)
  <2>1. i \in DOMAIN kept /\ h[i] \in DOMAIN b.tabs /\ kept[i] = b.tabs[h[i]]
    BY <1>3, <1>7
  <2>2. Range(A[i].leaves) \subseteq Range(b.tabs[h[i]].leaves)
    BY <1>10, <2>1
  <2>3. Range(b.tabs[h[i]].leaves) \subseteq PanesOf(b)
    BY <2>1, Zenon DEF PanesOf
  <2> QED
    BY <2>2, <2>3
<1>13. OneEach(A, e)
  <2> DEFINE g == [i \in DOMAIN A |-> CHOOSE x : Picks(A[i].leaves, kept[i].leaves, x)]
  <2>1. ASSUME NEW i \in DOMAIN A
        PROVE  Picks(A[i].leaves, kept[i].leaves, g[i])
    <3>1. kept[i].leaves \in Seq(Pane)
      BY <1>3, <1>9 DEF RightTab, Tab
    <3>2. \E x : Picks(Only(kept[i].leaves, {Empty} \cup live), kept[i].leaves, x)
      BY <3>1, OnlyFrom
    <3>3. A[i].leaves = Only(kept[i].leaves, {Empty} \cup live)
      BY <1>10 DEF LeavesLeft
    <3>4. \E x : Picks(A[i].leaves, kept[i].leaves, x)
      BY <3>2, <3>3
    <3> QED
      BY <3>4
  <2> HIDE DEF g
  <2>2. DOMAIN A = DOMAIN kept
    BY <1>3
  <2>3. \A i \in DOMAIN A : kept[i] = b.tabs[h[i]]
    BY <1>7, <2>2
  <2>4. \A i \in DOMAIN A : Picks(A[i].leaves, b.tabs[h[i]].leaves, g[i])
    BY <2>1, <2>3
  <2>5. h \in [DOMAIN A -> DOMAIN b.tabs]
    BY <1>7, <2>2
  <2> QED
    BY <1>7, <2>4, <2>5, TakenOver
<1> QED
  BY <1>10, <1>11, <1>12, <1>13

OneLeaf(t, s) ==
  RightTab(t) /\ Range(t.leaves) = {s} /\ DOMAIN t.leaves = {1} /\ t.leaves[1] = s

LEMMA NewTabsRight ==
  ASSUME NEW live, live \in SUBSET Sessions, NEW new, new \in Seq(live),
         NEW B, B = NewTabs(new)
  PROVE  /\ B \in Seq(Tab) /\ Len(B) = Len(new) /\ DOMAIN B = DOMAIN new
         /\ \A i \in DOMAIN B : OneLeaf(B[i], new[i])
<1>1. B = [i \in DOMAIN new |-> [leaves |-> <<new[i]>>, focus |-> new[i]]]
  BY DEF NewTabs
<1>2. Len(new) \in Nat /\ DOMAIN new = 1 .. Len(new)
  BY LenProperties
<1>3. ASSUME NEW i \in DOMAIN B
      PROVE  OneLeaf(B[i], new[i])
  <2>1. new[i] \in Pane
    BY <1>1, <1>2, ElementOfSeq, EmptyIsNone
  <2>2. <<new[i]>> \in Seq(Pane) /\ DOMAIN <<new[i]>> = {1} /\ <<new[i]>>[1] = new[i]
    BY <2>1
  <2>3. B[i] = [leaves |-> <<new[i]>>, focus |-> new[i]]
    BY <1>1
  <2> QED
    BY <2>1, <2>2, <2>3 DEF OneLeaf, RightTab, Tab, Range
<1>4. B \in [1 .. Len(new) -> Tab] /\ DOMAIN B = DOMAIN new
  BY <1>1, <1>2, <1>3 DEF OneLeaf, RightTab
<1>5. B \in Seq(Tab)
  BY <1>2, <1>4, SeqDef
<1>6. Len(B) = Len(new)
  BY <1>2, <1>4, <1>5, LenProperties
<1> QED
  BY <1>3, <1>4, <1>5, <1>6

\* What Reconcile may give a bench b for tabs, of the sessions of live and new.
TabsOf(tabs, b, e, live, new) ==
  /\ tabs \in Seq(Tab) /\ tabs # <<>> /\ OneEach(tabs, e)
  /\ \A i \in DOMAIN tabs :
       /\ RightTab(tabs[i])
       /\ Range(tabs[i].leaves) \subseteq {Empty} \cup live
       /\ Range(tabs[i].leaves) \subseteq {Empty} \cup Range(new) \cup PanesOf(b)
  /\ \A s \in Range(new) : \E i \in DOMAIN tabs : s \in Range(tabs[i].leaves)

\* Reconcile's tabs: old panes once, new sessions once, no session in both.
LEMMA TabsRight ==
  ASSUME NEW b, RightBench(b), NEW e, OneEach(b.tabs, e), NEW live \in SUBSET Sessions,
         NEW new \in Seq(live), Distinct(new), Range(new) \cap b.known = {},
         NEW tabs, tabs = Tabs(b, live, new)
  PROVE  TabsOf(tabs, b, e, live, new)
<1>1. PICK A : A = OldTabs(b, live)
  OBVIOUS
<1>2. PICK B : B = NewTabs(new)
  OBVIOUS
<1>3. tabs = IF A \o B = <<>> THEN <<EmptyTab>> ELSE A \o B
  BY <1>1, <1>2 DEF Tabs, OldTabs, Staying, NewTabs
<1>4. /\ A \in Seq(Tab) /\ OneEach(A, e)
      /\ \A i \in DOMAIN A : /\ RightTab(A[i])
                             /\ Range(A[i].leaves) \subseteq PanesOf(b) \cap ({Empty} \cup live)
  BY <1>1, OldTabsRight
<1>5. new \in Seq(live) /\ live \in SUBSET Sessions
  OBVIOUS
<1>6. /\ B \in Seq(Tab) /\ Len(B) = Len(new) /\ DOMAIN B = DOMAIN new
      /\ \A i \in DOMAIN B : OneLeaf(B[i], new[i])
  BY <1>2, <1>5, NewTabsRight
<1>7. Len(A) \in Nat /\ DOMAIN A = 1 .. Len(A)
  BY <1>4, LenProperties
<1>8. Len(B) \in Nat /\ DOMAIN B = 1 .. Len(B)
  BY <1>6, LenProperties
<1>9. PICK a \in Nat : a = Len(A)
  BY <1>7
<1>10. PICK n \in Nat : n = Len(B)
  BY <1>8
<1>11. a = Len(A) /\ n = Len(B) /\ DOMAIN A = 1 .. a /\ DOMAIN B = 1 .. n
  BY <1>7, <1>8, <1>9, <1>10
<1>12. PICK all : all = A \o B
  OBVIOUS
<1>13. /\ all \in Seq(Tab) /\ Len(all) = a + n /\ DOMAIN all = 1 .. a + n
       /\ \A i \in 1 .. a : all[i] = A[i]
       /\ \A i \in 1 .. a + n : i \notin 1 .. a => all[i] = B[i - a]
  <2>1. A \in Seq(Tab)
    BY <1>4
  <2>2. B \in Seq(Tab)
    BY <1>6
  <2>3. /\ A \o B \in Seq(Tab) /\ Len(A \o B) = Len(A) + Len(B)
        /\ \A i \in 1 .. Len(A) + Len(B) :
             (A \o B)[i] = IF i <= Len(A) THEN A[i] ELSE B[i - Len(A)]
    BY <2>1, <2>2, ConcatProperties
  <2>4. /\ all \in Seq(Tab) /\ Len(all) = a + n
        /\ \A i \in 1 .. a + n : all[i] = IF i <= a THEN A[i] ELSE B[i - a]
    BY <1>11, <1>12, <2>3
  <2>5. DOMAIN all = 1 .. a + n
    BY <2>4, LenProperties
  <2>6. \A i \in 1 .. a : i \in 1 .. a + n /\ i <= a
    OBVIOUS
  <2>7. \A i \in 1 .. a + n : i \notin 1 .. a => ~(i <= a)
    OBVIOUS
  <2> QED
    BY <2>4, <2>5, <2>6, <2>7
<1>14. \A i \in DOMAIN all : i \in 1 .. a \/ (i \notin 1 .. a /\ i - a \in 1 .. n)
  BY <1>11, <1>13
<1>15. \A i \in 1 .. n : new[i] \in Range(new) /\ new[i] \in live /\ new[i] # Empty
  <2>1. \A i \in 1 .. n : new[i] \in live
    BY <1>6, <1>11, ElementOfSeq, LenProperties
  <2> QED
    BY <1>6, <1>11, <2>1, EmptyIsNone DEF Range
<1>16. ASSUME NEW i \in DOMAIN all
       PROVE  /\ RightTab(all[i])
              /\ Range(all[i].leaves) \subseteq {Empty} \cup live
              /\ Range(all[i].leaves) \subseteq {Empty} \cup Range(new) \cup PanesOf(b)
  <2>1. CASE i \in 1 .. a
    BY <1>4, <1>11, <1>13, <2>1
  <2>2. CASE i \notin 1 .. a /\ i - a \in 1 .. n
    <3>1. i - a \in DOMAIN B /\ i - a \in 1 .. n /\ all[i] = B[i - a]
      BY <1>11, <1>13, <2>2
    <3>2. RightTab(all[i]) /\ Range(all[i].leaves) = {new[i - a]}
      BY <1>6, <3>1 DEF OneLeaf
    <3>3. new[i - a] \in Range(new) /\ new[i - a] \in live
      BY <1>15, <3>1
    <3> QED
      BY <3>2, <3>3
  <2> QED
    BY <1>14, <2>1, <2>2
<1>17. ASSUME NEW s \in Range(new)
       PROVE  \E i \in DOMAIN all : s \in Range(all[i].leaves)
  <2>1. PICK i \in 1 .. n : s = new[i]
    BY <1>6, <1>11 DEF Range
  <2>2. a + i \in DOMAIN all /\ a + i \notin 1 .. a /\ (a + i) - a = i
    BY <1>11, <1>13
  <2>3. all[a + i] = B[i]
    BY <1>13, <2>2
  <2> QED
    BY <1>6, <1>11, <2>1, <2>2, <2>3 DEF OneLeaf
<1>18. OneEach(all, e)
  <2>1. SUFFICES ASSUME NEW i \in DOMAIN all, NEW j \in DOMAIN all,
                        NEW m \in DOMAIN all[i].leaves, NEW k \in DOMAIN all[j].leaves,
                        all[i].leaves[m] = all[j].leaves[k]
                 PROVE  \/ i = j /\ m = k
                        \/ all[i].leaves[m] \in e
                        \/ all[i].leaves[m] = Empty /\ i # j
    BY DEF OneEach
  <2>2. \A p \in 1 .. a : \A x \in DOMAIN A[p].leaves :
          A[p].leaves[x] \in Range(A[p].leaves) /\ A[p].leaves[x] \in {Empty} \cup b.known
    BY <1>4, <1>11 DEF RightBench, Range
  <2>3. CASE i \in 1 .. a /\ j \in 1 .. a
    <3>1. all[i] = A[i] /\ all[j] = A[j] /\ i \in DOMAIN A /\ j \in DOMAIN A
      BY <1>11, <1>13, <2>3
    <3> QED
      BY <1>4, <2>1, <3>1 DEF OneEach
  <2>4. CASE i \in 1 .. a /\ j \notin 1 .. a
    <3>1. all[j] = B[j - a] /\ j - a \in 1 .. n
      BY <1>13, <1>14, <2>4
    <3>2. all[j].leaves[k] = new[j - a]
      BY <1>6, <1>11, <3>1 DEF OneLeaf
    <3>3. all[i].leaves[m] \in {Empty} \cup b.known
      BY <1>13, <2>2, <2>4
    <3> QED
      BY <1>15, <2>1, <3>1, <3>2, <3>3
  <2>5. CASE i \notin 1 .. a /\ j \in 1 .. a
    <3>1. all[i] = B[i - a] /\ i - a \in 1 .. n
      BY <1>13, <1>14, <2>5
    <3>2. all[i].leaves[m] = new[i - a]
      BY <1>6, <1>11, <3>1 DEF OneLeaf
    <3>3. all[j].leaves[k] \in {Empty} \cup b.known
      BY <1>13, <2>2, <2>5
    <3> QED
      BY <1>15, <2>1, <3>1, <3>2, <3>3
  <2>6. CASE i \notin 1 .. a /\ j \notin 1 .. a
    <3>1. all[i] = B[i - a] /\ i - a \in 1 .. n /\ all[j] = B[j - a] /\ j - a \in 1 .. n
      BY <1>13, <1>14, <2>6
    <3>2. m = 1 /\ k = 1 /\ all[i].leaves[m] = new[i - a] /\ all[j].leaves[k] = new[j - a]
      BY <1>6, <1>11, <3>1 DEF OneLeaf
    <3>3. i - a = j - a
      BY <1>6, <1>11, <2>1, <3>1, <3>2 DEF Distinct
    <3>4. i \in Int /\ j \in Int
      BY <1>13
    <3> QED
      BY <3>2, <3>3, <3>4
  <2> QED
    BY <2>3, <2>4, <2>5, <2>6
<1>19. CASE all = <<>>
  <2>1. tabs = <<EmptyTab>> /\ DOMAIN tabs = {1} /\ tabs[1] = EmptyTab
    BY <1>3, <1>12, <1>19
  <2>2. DOMAIN all = {}
    BY <1>19
  <2>3. Range(new) = {}
    BY <1>17, <2>2
  <2>4. tabs \in Seq(Tab) /\ tabs # <<>>
    BY <2>1, EmptyTabRight DEF RightTab
  <2>5. OneEach(tabs, e)
    <3>1. DOMAIN EmptyTab.leaves = {1}
      BY DEF EmptyTab
    <3> QED
      BY <2>1, <3>1 DEF OneEach
  <2> QED
    BY <2>1, <2>3, <2>4, <2>5, EmptyTabRight DEF TabsOf
<1>20. CASE all # <<>>
  <2>1. tabs = all
    BY <1>3, <1>12, <1>20
  <2>2. all \in Seq(Tab)
    BY <1>13
  <2>3. \A i \in DOMAIN all :
          /\ RightTab(all[i])
          /\ Range(all[i].leaves) \subseteq {Empty} \cup live
          /\ Range(all[i].leaves) \subseteq {Empty} \cup Range(new) \cup PanesOf(b)
    BY <1>16
  <2>4. \A s \in Range(new) : \E i \in DOMAIN all : s \in Range(all[i].leaves)
    BY <1>17
  <2> QED
    BY <1>18, <1>20, <2>1, <2>2, <2>3, <2>4, Zenon DEF TabsOf
<1> QED
  BY <1>19, <1>20

\* The clamp at the end of Reconcile.
LEMMA WithinIs ==
  ASSUME NEW n \in Int, NEW high \in Nat, high >= 1
  PROVE  Within(n, 1, high) \in 1 .. high
BY DEF Within

\* Reconcile makes a bench right again, and shows what is listed.
LEMMA ReconcileRight ==
  ASSUME NEW b, RightBench(b), NEW e, OneEach(b.tabs, e), NEW ss \in Seq(Sessions), Distinct(ss),
         NEW r, r = Reconcile(b, ss)
  PROVE  /\ RightBench(r) /\ OneEach(r.tabs, e) /\ r.tabs # <<>> /\ r.known = Range(ss)
         /\ PanesOf(r) \subseteq {Empty} \cup (Range(ss) \ b.known) \cup PanesOf(b)
         /\ Range(ss) \ b.known \subseteq PanesOf(r)
<1>1. PICK live : live = Range(ss)
  OBVIOUS
<1>2. PICK new : new = Without(ss, b.known)
  OBVIOUS
<1>3. PICK tabs : tabs = Tabs(b, live, new)
  OBVIOUS
<1>4. live \in SUBSET Sessions /\ ss \in Seq(live)
  BY <1>1, RangeOfSeq, SeqOfRange
<1>5. /\ new \in Seq(live) /\ Range(new) = live \ b.known /\ Distinct(new)
  BY <1>1, <1>2, <1>4, OnlyRange DEF Without
<1>6. Range(new) \cap b.known = {}
  BY <1>5
<1>7. /\ tabs \in Seq(Tab) /\ tabs # <<>> /\ OneEach(tabs, e)
      /\ \A i \in DOMAIN tabs :
           /\ RightTab(tabs[i])
           /\ Range(tabs[i].leaves) \subseteq {Empty} \cup live
           /\ Range(tabs[i].leaves) \subseteq {Empty} \cup Range(new) \cup PanesOf(b)
      /\ \A s \in Range(new) : \E i \in DOMAIN tabs : s \in Range(tabs[i].leaves)
  <2>1. TabsOf(tabs, b, e, live, new)
    BY <1>3, <1>4, <1>5, <1>6, TabsRight
  <2> QED
    BY <2>1, Zenon DEF TabsOf
<1>8. /\ b.tabs \in Seq(Tab) /\ b.active \in Int
      /\ b = [tabs |-> b.tabs, active |-> b.active, zoom |-> b.zoom, known |-> b.known]
      /\ b.zoom \in BOOLEAN
  BY DEF RightBench, Bench
<1>9. ActiveAfter(b, live) \in Int
  BY <1>8, LoopTurns
<1>10. Len(tabs) \in Nat /\ Len(tabs) >= 1 /\ DOMAIN tabs = 1 .. Len(tabs)
  BY <1>7, NonEmpty, LenProperties
<1>11. PICK active : active = Within(ActiveAfter(b, live), 1, Len(tabs))
  OBVIOUS
<1>12. active \in DOMAIN tabs /\ active \in Nat
  BY <1>9, <1>10, <1>11, WithinIs
<1>13. r = [b EXCEPT !.tabs = tabs, !.known = live, !.active = active]
  BY <1>1, <1>2, <1>3, <1>11 DEF Reconcile
<1>14. r = [tabs |-> tabs, active |-> active, zoom |-> b.zoom, known |-> live]
  BY <1>8, <1>13
<1>15. r \in Bench
  BY <1>4, <1>7, <1>8, <1>12, <1>14 DEF Bench
<1>16. PanesOf(r) \subseteq {Empty} \cup live
  BY <1>7, <1>14 DEF PanesOf
<1>17. PanesOf(r) \subseteq {Empty} \cup Range(new) \cup PanesOf(b)
  BY <1>7, <1>14 DEF PanesOf
<1>18. Range(new) \subseteq PanesOf(r)
  BY <1>7, <1>14 DEF PanesOf
<1>19. RightBench(r)
  BY <1>7, <1>12, <1>14, <1>15, <1>16 DEF RightBench
<1> QED
  BY <1>1, <1>5, <1>7, <1>14, <1>17, <1>18, <1>19

-----------------------------------------------------------------------------
(***************************************************************************)
(* The user's operations, each of which changes one tab or takes one away. *)
(***************************************************************************)
Apart(s, e) == \A i, j \in DOMAIN s : s[i] = s[j] => i = j \/ s[i] \in e

LEMMA TabApart ==
  ASSUME NEW tabs, NEW e, OneEach(tabs, e), NEW a \in DOMAIN tabs
  PROVE  Apart(tabs[a].leaves, e)
<1>1. \A m, n \in DOMAIN tabs[a].leaves :
        tabs[a].leaves[m] = tabs[a].leaves[n] =>
          \/ a = a /\ m = n
          \/ tabs[a].leaves[m] \in e
          \/ tabs[a].leaves[m] = Empty /\ a # a
  BY Zenon DEF OneEach
<1> QED
  BY <1>1 DEF Apart

LEMMA PicksApart ==
  ASSUME NEW r, NEW s, NEW h, Picks(r, s, h), NEW e, Apart(s, e)
  PROVE  Apart(r, e) /\ Range(r) \subseteq Range(s)
<1>1. /\ \A i \in DOMAIN r : h[i] \in DOMAIN s /\ r[i] = s[h[i]]
      /\ \A i, j \in DOMAIN r : h[i] = h[j] => i = j
  BY DEF Picks, Distinct
<1> QED
  BY <1>1 DEF Apart, Range

\* The panes that a changed tab may have: its own, an empty one, what is
\* nowhere else, what is excused.
Fits(t, tabs, a, e) ==
  /\ Apart(t.leaves, e)
  /\ \A x \in Range(t.leaves) :
       \/ x \in Range(tabs[a].leaves) \cup {Empty} \cup e
       \/ \A j \in DOMAIN tabs : x \notin Range(tabs[j].leaves)

\* A changed tab that fits leaves every session in one place.
LEMMA FitsOneEach ==
  ASSUME NEW tabs, NEW e, OneEach(tabs, e), NEW a \in DOMAIN tabs, NEW t, Fits(t, tabs, a, e),
         NEW new, new = [tabs EXCEPT ![a] = t]
  PROVE  OneEach(new, e)
<1>1. DOMAIN new = DOMAIN tabs /\ new[a] = t /\ \A i \in DOMAIN tabs : i # a => new[i] = tabs[i]
  OBVIOUS
<1>2. ASSUME NEW j \in DOMAIN tabs, j # a, NEW m \in DOMAIN t.leaves, NEW n \in DOMAIN tabs[j].leaves,
             t.leaves[m] = tabs[j].leaves[n]
      PROVE  t.leaves[m] \in e \/ t.leaves[m] = Empty
  <2>1. t.leaves[m] \in Range(t.leaves) /\ t.leaves[m] \in Range(tabs[j].leaves)
    BY <1>2 DEF Range
  <2>2. t.leaves[m] \in Range(tabs[a].leaves) \cup {Empty} \cup e
    BY <2>1 DEF Fits
  <2>3. ASSUME t.leaves[m] \in Range(tabs[a].leaves) PROVE t.leaves[m] \in e \/ t.leaves[m] = Empty
    <3>1. PICK x \in DOMAIN tabs[a].leaves : t.leaves[m] = tabs[a].leaves[x]
      BY <2>3 DEF Range
    <3>2. tabs[a].leaves[x] = tabs[j].leaves[n]
      BY <1>2, <3>1
    <3>3. \A p, q \in DOMAIN tabs : \A y \in DOMAIN tabs[p].leaves, z \in DOMAIN tabs[q].leaves :
            tabs[p].leaves[y] = tabs[q].leaves[z] =>
              \/ p = q /\ y = z
              \/ tabs[p].leaves[y] \in e
              \/ tabs[p].leaves[y] = Empty /\ p # q
      BY Zenon DEF OneEach
    <3>4. \/ a = j /\ x = n
          \/ tabs[a].leaves[x] \in e
          \/ tabs[a].leaves[x] = Empty /\ a # j
      BY <3>2, <3>3, ZenonT(40)
    <3> QED
      BY <1>2, <3>1, <3>4
  <2> QED
    BY <2>2, <2>3
<1>3. SUFFICES ASSUME NEW i \in DOMAIN new, NEW j \in DOMAIN new,
                      NEW m \in DOMAIN new[i].leaves, NEW n \in DOMAIN new[j].leaves,
                      new[i].leaves[m] = new[j].leaves[n]
               PROVE  \/ i = j /\ m = n
                      \/ new[i].leaves[m] \in e
                      \/ new[i].leaves[m] = Empty /\ i # j
  BY DEF OneEach
<1>4. CASE i = a /\ j = a
  BY <1>1, <1>3, <1>4 DEF Fits, Apart
<1>5. CASE i = a /\ j # a
  BY <1>1, <1>2, <1>3, <1>5
<1>6. CASE i # a /\ j = a
  BY <1>1, <1>2, <1>3, <1>6
<1>7. CASE i # a /\ j # a
  <2>1. new[i] = tabs[i] /\ new[j] = tabs[j] /\ i \in DOMAIN tabs /\ j \in DOMAIN tabs
    BY <1>1, <1>7
  <2>2. \A p, q \in DOMAIN tabs : \A y \in DOMAIN tabs[p].leaves, z \in DOMAIN tabs[q].leaves :
          tabs[p].leaves[y] = tabs[q].leaves[z] =>
            \/ p = q /\ y = z
            \/ tabs[p].leaves[y] \in e
            \/ tabs[p].leaves[y] = Empty /\ p # q
    BY Zenon DEF OneEach
  <2>3. /\ m \in DOMAIN tabs[i].leaves /\ n \in DOMAIN tabs[j].leaves
        /\ tabs[i].leaves[m] = tabs[j].leaves[n]
    BY <1>3, <2>1
  <2>4. \/ i = j /\ m = n
        \/ tabs[i].leaves[m] \in e
        \/ tabs[i].leaves[m] = Empty /\ i # j
    <3>1. \A y \in DOMAIN tabs[i].leaves, z \in DOMAIN tabs[j].leaves :
            tabs[i].leaves[y] = tabs[j].leaves[z] =>
              \/ i = j /\ y = z
              \/ tabs[i].leaves[y] \in e
              \/ tabs[i].leaves[y] = Empty /\ i # j
      BY <2>1, <2>2, Zenon
    <3> QED
      BY <2>3, <3>1, Zenon
  <2> QED
    BY <2>1, <2>4
<1> QED
  BY <1>4, <1>5, <1>6, <1>7

\* What an operation makes of b: right again, with the panes of S at most.
Remade(r, b, e, S) ==
  /\ RightBench(r) /\ OneEach(r.tabs, e) /\ (b.tabs # <<>> => r.tabs # <<>>)
  /\ PanesOf(r) \subseteq S

\* A bench with one tab changed.
LEMMA Retab ==
  ASSUME NEW b, RightBench(b), NEW e, OneEach(b.tabs, e), NEW a \in DOMAIN b.tabs,
         NEW t, RightTab(t), Fits(t, b.tabs, a, e),
         NEW known \in SUBSET Sessions, b.known \subseteq known,
         Range(t.leaves) \subseteq {Empty} \cup known, NEW zoom \in BOOLEAN,
         NEW c \in DOMAIN b.tabs,
         NEW r, r = [tabs |-> [b.tabs EXCEPT ![a] = t], active |-> c,
                     zoom |-> zoom, known |-> known]
  PROVE  Remade(r, b, e, PanesOf(b) \cup Range(t.leaves))
<1>1. PICK tabs : tabs = [b.tabs EXCEPT ![a] = t]
  OBVIOUS
<1>2. b.tabs \in Seq(Tab) /\ \A i \in DOMAIN b.tabs : RightTab(b.tabs[i])
  BY DEF RightBench, Bench
<1>3. /\ DOMAIN tabs = DOMAIN b.tabs /\ tabs[a] = t
      /\ \A i \in DOMAIN b.tabs : i # a => tabs[i] = b.tabs[i]
  BY <1>1
<1>4. tabs \in Seq(Tab)
  <2>1. a \in 1 .. Len(b.tabs) /\ t \in Tab
    BY <1>2, LenProperties DEF RightTab
  <2> QED
    BY <1>1, <1>2, <2>1, ExceptSeq
<1>5. OneEach(tabs, e)
  BY <1>1, FitsOneEach
<1>6. \A i \in DOMAIN tabs : RightTab(tabs[i])
  BY <1>2, <1>3
<1>7. r.tabs = tabs /\ r.active = c /\ r.zoom = zoom /\ r.known = known
  BY <1>1
<1>8. DOMAIN b.tabs \subseteq Nat
  <2>1. Len(b.tabs) \in Nat /\ DOMAIN b.tabs = 1 .. Len(b.tabs)
    BY <1>2, LenProperties
  <2> QED
    BY <2>1
<1>9. r \in Bench
  BY <1>1, <1>4, <1>8 DEF Bench
<1>10. PanesOf(r) \subseteq PanesOf(b) \cup Range(t.leaves)
  BY <1>3, <1>7 DEF PanesOf
<1>11. PanesOf(r) \subseteq {Empty} \cup known
  BY <1>10 DEF RightBench
<1>12. RightBench(r)
  BY <1>3, <1>6, <1>7, <1>9, <1>11 DEF RightBench
<1>13. tabs # <<>>
  <2>1. DOMAIN tabs # {}
    BY <1>3
  <2> QED
    BY <2>1
<1> QED
  BY <1>5, <1>7, <1>10, <1>12, <1>13 DEF Remade

\* The tab shown, when there is one.
LEMMA CurrentRight ==
  ASSUME NEW b, RightBench(b), b.tabs # <<>>
  PROVE  /\ b.active \in DOMAIN b.tabs /\ Current(b) = b.tabs[b.active] /\ RightTab(Current(b))
         /\ Range(Current(b).leaves) \subseteq PanesOf(b)
         /\ b = [tabs |-> b.tabs, active |-> b.active, zoom |-> b.zoom, known |-> b.known]
         /\ b.known \in SUBSET Sessions /\ b.zoom \in BOOLEAN
<1>1. b.active \in DOMAIN b.tabs /\ Current(b) = b.tabs[b.active]
  BY DEF RightBench, Current
<1>2. Range(b.tabs[b.active].leaves) \subseteq PanesOf(b)
  BY <1>1, Zenon DEF PanesOf
<1>3. b \in Bench
  BY DEF RightBench
<1> QED
  BY <1>1, <1>2, <1>3 DEF RightBench, Bench

\* The same panes, with another focus or in another order, fit.
LEMMA SameLeavesFit ==
  ASSUME NEW tabs, NEW e, OneEach(tabs, e), NEW a \in DOMAIN tabs,
         NEW t, t.leaves = tabs[a].leaves
  PROVE  Fits(t, tabs, a, e)
<1>1. Apart(tabs[a].leaves, e)
  BY TabApart
<1> QED
  BY <1>1 DEF Fits

LEMMA LeastIs ==
  ASSUME NEW S \in SUBSET Nat, S # {}
  PROVE  Min(S) \in S
<1>1. \E p \in S : \A q \in S : p <= q
  BY Least
<1> QED
  BY <1>1 DEF Min

\* Show and Move: another focus, the panes as they are.
LEMMA ShowRight ==
  ASSUME NEW b, RightBench(b), NEW e, OneEach(b.tabs, e), NEW s \in Pane,
         NEW r, r = Show(b, s)
  PROVE  Remade(r, b, e, PanesOf(b)) /\ r.known = b.known
<1>1. PICK at : at = {i \in DOMAIN b.tabs : s \in Range(b.tabs[i].leaves)}
  OBVIOUS
<1>2. CASE at = {}
  <2>1. r = b
    BY <1>1, <1>2 DEF Show
  <2> QED
    BY <2>1 DEF Remade
<1>3. CASE at # {}
  <2>1. b.tabs \in Seq(Tab)
    BY DEF RightBench, Bench
  <2>2. DOMAIN b.tabs \subseteq Nat
    <3>1. Len(b.tabs) \in Nat /\ DOMAIN b.tabs = 1 .. Len(b.tabs)
      BY <2>1, LenProperties
    <3> QED
      BY <3>1
  <2>3. PICK a : a = Min(at)
    OBVIOUS
  <2>4. a \in at
    BY <1>1, <1>3, <2>2, <2>3, LeastIs
  <2>5. a \in DOMAIN b.tabs /\ s \in Range(b.tabs[a].leaves) /\ b.tabs # <<>>
    BY <1>1, <2>4
  <2>6. PICK t : t = [leaves |-> b.tabs[a].leaves, focus |-> s]
    OBVIOUS
  <2>7. RightTab(b.tabs[a])
    BY <2>5 DEF RightBench
  <2>8. RightTab(t) /\ t.leaves = b.tabs[a].leaves
    BY <2>5, <2>6, <2>7 DEF RightTab, Tab
  <2>9. Fits(t, b.tabs, a, e)
    BY <2>5, <2>8, SameLeavesFit
  <2>10. /\ b = [tabs |-> b.tabs, active |-> b.active, zoom |-> b.zoom, known |-> b.known]
         /\ b.known \in SUBSET Sessions /\ b.zoom \in BOOLEAN
    BY <2>5, CurrentRight
  <2>11. r = [b EXCEPT !.active = a, !.tabs[a] = [leaves |-> @.leaves, focus |-> s]]
    BY <1>1, <1>3, <2>3 DEF Show
  <2>12. r = [tabs |-> [b.tabs EXCEPT ![a] = t], active |-> a, zoom |-> b.zoom, known |-> b.known]
    BY <2>6, <2>10, <2>11
  <2>13. Range(t.leaves) \subseteq PanesOf(b)
    BY <2>5, <2>8, Zenon DEF PanesOf
  <2>14. Range(t.leaves) \subseteq {Empty} \cup b.known
    BY <2>13 DEF RightBench
  <2>15. Remade(r, b, e, PanesOf(b) \cup Range(t.leaves))
    BY <2>5, <2>8, <2>9, <2>10, <2>12, <2>14, Retab
  <2> QED
    BY <2>12, <2>13, <2>15 DEF Remade
<1> QED
  BY <1>2, <1>3

\* A change of the tab shown.
Changes(b, e, t, known) ==
  /\ RightBench(b) /\ OneEach(b.tabs, e) /\ b.tabs # <<>>
  /\ RightTab(t) /\ Fits(t, b.tabs, b.active, e)
  /\ known \in SUBSET Sessions /\ b.known \subseteq known
  /\ Range(t.leaves) \subseteq {Empty} \cup known
Changed(b, t, zoom, known) ==
  [tabs |-> [b.tabs EXCEPT ![b.active] = t], active |-> b.active, zoom |-> zoom, known |-> known]

LEMMA ChangedRight ==
  ASSUME NEW b, NEW e, NEW t, NEW known, Changes(b, e, t, known), NEW zoom \in BOOLEAN
  PROVE  /\ Remade(Changed(b, t, zoom, known), b, e, PanesOf(b) \cup Range(t.leaves))
         /\ Changed(b, t, zoom, known).known = known
<1>1. PICK r : r = Changed(b, t, zoom, known)
  OBVIOUS
<1>2. /\ RightBench(b) /\ OneEach(b.tabs, e) /\ b.tabs # <<>>
      /\ RightTab(t) /\ Fits(t, b.tabs, b.active, e)
      /\ known \in SUBSET Sessions /\ b.known \subseteq known
      /\ Range(t.leaves) \subseteq {Empty} \cup known
  BY Zenon DEF Changes
<1>3. b.active \in DOMAIN b.tabs
  BY <1>2, CurrentRight
<1>4. r = [tabs |-> [b.tabs EXCEPT ![b.active] = t], active |-> b.active,
           zoom |-> zoom, known |-> known]
  BY <1>1 DEF Changed
<1>5. Remade(r, b, e, PanesOf(b) \cup Range(t.leaves))
  BY <1>2, <1>3, <1>4, Retab
<1> QED
  BY <1>1, <1>4, <1>5

\* Move.
LEMMA MoveRight ==
  ASSUME NEW b, RightBench(b), NEW e, OneEach(b.tabs, e), b.tabs # <<>>,
         NEW s \in Range(Current(b).leaves),
         NEW r, r = WithTab([b EXCEPT !.zoom = FALSE], [Current(b) EXCEPT !.focus = s])
  PROVE  Remade(r, b, e, PanesOf(b)) /\ r.known = b.known
<1>1. /\ b.active \in DOMAIN b.tabs /\ Current(b) = b.tabs[b.active] /\ RightTab(Current(b))
      /\ Range(Current(b).leaves) \subseteq PanesOf(b)
      /\ b = [tabs |-> b.tabs, active |-> b.active, zoom |-> b.zoom, known |-> b.known]
      /\ b.known \in SUBSET Sessions
  BY CurrentRight
<1>2. PICK t : t = [Current(b) EXCEPT !.focus = s]
  OBVIOUS
<1>3. RightTab(t) /\ t.leaves = Current(b).leaves
  <2>1. Current(b).leaves \in Seq(Pane) /\ s \in Pane
    BY <1>1 DEF RightTab, Tab, Range
  <2> QED
    BY <1>1, <1>2, <2>1 DEF RightTab, Tab
<1>4. Fits(t, b.tabs, b.active, e)
  BY <1>1, <1>3, SameLeavesFit
<1>5. Range(t.leaves) \subseteq {Empty} \cup b.known /\ Range(t.leaves) \subseteq PanesOf(b)
  BY <1>1, <1>3 DEF RightBench
<1>6. Changes(b, e, t, b.known)
  BY <1>1, <1>3, <1>4, <1>5 DEF Changes
<1>7. r = Changed(b, t, FALSE, b.known)
  BY <1>1, <1>2 DEF Changed, WithTab
<1>8. PICK z \in BOOLEAN : z = FALSE
  OBVIOUS
<1>9. Remade(r, b, e, PanesOf(b) \cup Range(t.leaves)) /\ r.known = b.known
  <2>1. r = Changed(b, t, z, b.known)
    BY <1>7, <1>8
  <2>2. /\ Remade(Changed(b, t, z, b.known), b, e, PanesOf(b) \cup Range(t.leaves))
        /\ Changed(b, t, z, b.known).known = b.known
    BY <1>6, ChangedRight
  <2> QED
    BY <2>1, <2>2
<1> QED
  BY <1>5, <1>9 DEF Remade

Unzoomed(b, t, known) == Changed(b, t, FALSE, known)

\* A change that also ends the zoom, as most do.
LEMMA UnzoomedRight ==
  ASSUME NEW b, NEW e, NEW t, NEW known, Changes(b, e, t, known)
  PROVE  /\ Remade(Unzoomed(b, t, known), b, e, PanesOf(b) \cup Range(t.leaves))
         /\ Unzoomed(b, t, known).known = known
<1>1. PICK z \in BOOLEAN : z = FALSE
  OBVIOUS
<1>2. Unzoomed(b, t, known) = Changed(b, t, z, known)
  BY <1>1 DEF Unzoomed
<1>3. /\ Remade(Changed(b, t, z, known), b, e, PanesOf(b) \cup Range(t.leaves))
      /\ Changed(b, t, z, known).known = known
  BY ChangedRight
<1> QED
  BY <1>2, <1>3

\* Place: into the empty pane, or into a tab of its own.
LEMMA PlaceRight ==
  ASSUME NEW b, RightBench(b), NEW e \in SUBSET Sessions, OneEach(b.tabs, e),
         NEW s \in Sessions, s \notin PanesOf(b) \/ s \in e,
         NEW r, r = Place(b, s)
  PROVE  /\ Remade(r, b, e, PanesOf(b) \cup {s})
         /\ b.known \subseteq r.known /\ r.known \subseteq b.known \cup {s}
<1>1. CASE Current(b).focus # Empty
  <2>1. r = b
    BY <1>1 DEF Place
  <2> QED
    BY <2>1 DEF Remade
<1>2. CASE Current(b).focus = Empty /\ b.tabs = <<>>
  <2>1. b \in Bench
    BY DEF RightBench
  <2>2. /\ b = [tabs |-> <<>>, active |-> b.active, zoom |-> b.zoom, known |-> b.known]
        /\ b.active \in Nat /\ b.zoom \in BOOLEAN /\ b.known \in SUBSET Sessions
    BY <1>2, <2>1 DEF Bench
  <2>3. r = [tabs |-> <<>>, active |-> b.active, zoom |-> b.zoom, known |-> b.known \cup {s}]
    <3>1. PICK c : c = [b EXCEPT !.known = @ \cup {s}]
      OBVIOUS
    <3>2. c = [tabs |-> b.tabs, active |-> b.active, zoom |-> b.zoom, known |-> b.known \cup {s}]
      <4>1. b \in Bench
        BY <2>1
      <4> QED
        BY <3>1, <4>1 DEF Bench
    <3>3. PICK t : r = WithTab(c, t)
      BY <1>2, <3>1 DEF Place
    <3>4. r = [tabs |-> [b.tabs EXCEPT ![b.active] = t], active |-> b.active,
               zoom |-> b.zoom, known |-> b.known \cup {s}]
      BY <3>2, <3>3 DEF WithTab
    <3>5. [b.tabs EXCEPT ![b.active] = t] = <<>>
      <4>1. PICK f : f = [b.tabs EXCEPT ![b.active] = t]
        OBVIOUS
      <4>2. DOMAIN b.tabs = {} /\ f = [i \in DOMAIN b.tabs |-> f[i]]
        BY <1>2, <4>1
      <4>3. b.tabs \in [{} -> {}] /\ f \in [{} -> {}]
        <5>1. b.tabs = [i \in DOMAIN b.tabs |-> b.tabs[i]]
          BY <1>2
        <5> QED
          BY <4>2, <5>1
      <4> QED
        BY <1>2, <4>1, <4>3
    <3> QED
      BY <3>4, <3>5
  <2>4. r \in Bench
    BY <2>2, <2>3 DEF Bench
  <2>5. PanesOf(r) = {}
    BY <2>3 DEF PanesOf
  <2> QED
    <3>1. r.tabs = b.tabs /\ r.active = b.active /\ r.known = b.known \cup {s} /\ b.tabs = <<>>
      BY <1>2, <2>3
    <3>2. RightBench(r)
      BY <2>4, <2>5, <3>1 DEF RightBench
    <3> QED
      BY <2>5, <3>1, <3>2 DEF Remade
<1>3. CASE Current(b).focus = Empty /\ b.tabs # <<>>
  <2>1. /\ b.active \in DOMAIN b.tabs /\ Current(b) = b.tabs[b.active] /\ RightTab(Current(b))
        /\ Range(Current(b).leaves) \subseteq PanesOf(b)
        /\ b = [tabs |-> b.tabs, active |-> b.active, zoom |-> b.zoom, known |-> b.known]
        /\ b.known \in SUBSET Sessions /\ b.zoom \in BOOLEAN
    BY <1>3, CurrentRight
  <2>2. PICK l : l = Current(b).leaves
    OBVIOUS
  <2>3. PICK new : new = [i \in DOMAIN l |-> IF l[i] = Empty THEN s ELSE l[i]]
    OBVIOUS
  <2>4. PICK t : t = [leaves |-> new, focus |-> s]
    OBVIOUS
  <2>5. l \in Seq(Pane) /\ Len(l) \in Nat /\ DOMAIN l = 1 .. Len(l) /\ Empty \in Range(l)
    BY <1>3, <2>1, <2>2, LenProperties DEF RightTab, Tab
  <2>6. s \in Pane /\ s # Empty /\ Empty \notin e
    BY EmptyIsNone
  <2>7. new \in Seq(Pane)
    <3>1. \A i \in 1 .. Len(l) : l[i] \in Pane
      BY <2>5, ElementOfSeq
    <3>2. PICK n \in Nat : n = Len(l)
      BY <2>5
    <3>3. new \in [1 .. n -> Pane]
      BY <2>3, <2>5, <2>6, <3>1, <3>2
    <3>4. new \in UNION {[1 .. k -> Pane] : k \in Nat}
      BY <3>2, <3>3, Zenon
    <3> QED
      BY <3>4, SeqDef, Zenon
  <2>8. DOMAIN new = DOMAIN l /\ \A i \in DOMAIN l : new[i] = IF l[i] = Empty THEN s ELSE l[i]
    BY <2>3
  <2>9. RightTab(t)
    <3>1. PICK i \in DOMAIN l : l[i] = Empty
      BY <2>5 DEF Range
    <3>2. s \in Range(new)
      BY <2>8, <3>1 DEF Range
    <3> QED
      BY <2>4, <2>6, <2>7, <3>2 DEF RightTab, Tab
  <2>10. \A x \in Range(new) : x = s \/ x \in Range(l)
    BY <2>8 DEF Range
  <2>11. Apart(l, e)
    BY <2>1, <2>2, TabApart
  <2>12. ASSUME NEW i \in DOMAIN new, NEW j \in DOMAIN new, new[i] = new[j]
         PROVE  i = j \/ new[i] \in e
    <3>1. l[i] = l[j] => i = j \/ l[i] \in e
      BY <2>8, <2>11 DEF Apart
    <3>2. CASE l[i] = l[j]
      BY <2>6, <2>8, <3>1, <3>2
    <3>3. ASSUME s \in Range(l) PROVE s \in e
      BY <2>1, <2>2, <3>3
    <3>4. CASE l[i] # l[j]
      <4>1. s \in Range(l) /\ new[i] = s
        BY <2>8, <2>12, <3>4 DEF Range
      <4> QED
        BY <3>3, <4>1
    <3> QED
      BY <3>2, <3>4
  <2>13. Fits(t, b.tabs, b.active, e)
    <3>1. ASSUME s \notin PanesOf(b), NEW j \in DOMAIN b.tabs PROVE s \notin Range(b.tabs[j].leaves)
      BY <3>1 DEF PanesOf
    <3>2. t.leaves = new /\ Range(l) = Range(b.tabs[b.active].leaves)
      BY <2>1, <2>2, <2>4
    <3> QED
      BY <2>10, <2>12, <3>1, <3>2 DEF Fits, Apart
  <2>14. PICK known : known = b.known \cup {s}
    OBVIOUS
  <2>15. Range(t.leaves) \subseteq {Empty} \cup known /\ Range(t.leaves) \subseteq PanesOf(b) \cup {s}
    BY <2>1, <2>2, <2>4, <2>10, <2>14 DEF RightBench
  <2>16. Changes(b, e, t, known)
    BY <1>3, <2>1, <2>9, <2>13, <2>14, <2>15 DEF Changes
  <2>17. r = Changed(b, t, b.zoom, known)
    BY <1>3, <2>1, <2>2, <2>3, <2>4, <2>14 DEF Changed, WithTab, Place
  <2>18. Remade(r, b, e, PanesOf(b) \cup Range(t.leaves)) /\ r.known = known
    BY <2>1, <2>16, <2>17, ChangedRight
  <2> QED
    BY <2>14, <2>15, <2>18 DEF Remade
<1> QED
  BY <1>1, <1>2, <1>3

\* SplitAround adds one empty pane after the focused one.
LEMMA Inserted ==
  ASSUME NEW T, NEW s \in Seq(T), NEW i \in 1 .. Len(s) + 1, NEW x \in T,
         NEW r, r = InsertAt(s, i, x)
  PROVE  /\ r \in Seq(T) /\ DOMAIN r = 1 .. Len(s) + 1
         /\ \A j \in 1 .. Len(s) + 1 :
              r[j] = IF j < i THEN s[j] ELSE IF j = i THEN x ELSE s[j - 1]
<1>1. Len(s) \in Nat /\ \A j \in 1 .. Len(s) : s[j] \in T
  BY LenProperties, ElementOfSeq
<1>2. PICK p : p = SubSeq(s, 1, i - 1)
  OBVIOUS
<1>3. PICK q : q = SubSeq(s, i, Len(s))
  OBVIOUS
<1>4. p \in Seq(T) /\ Len(p) = i - 1 /\ \A j \in 1 .. i - 1 : p[j] = s[j]
  <2>1. /\ SubSeq(s, 1, i - 1) \in Seq(T)
        /\ Len(SubSeq(s, 1, i - 1)) = IF 1 <= i - 1 THEN (i - 1) - 1 + 1 ELSE 0
        /\ \A j \in 1 .. (i - 1) - 1 + 1 : SubSeq(s, 1, i - 1)[j] = s[1 + j - 1]
    BY <1>1, SubSeqProperties
  <2> QED
    BY <1>1, <1>2, <2>1
<1>5. q \in Seq(T) /\ Len(q) = Len(s) - i + 1 /\ \A j \in 1 .. Len(s) - i + 1 : q[j] = s[i + j - 1]
  <2>1. /\ SubSeq(s, i, Len(s)) \in Seq(T)
        /\ Len(SubSeq(s, i, Len(s))) = IF i <= Len(s) THEN Len(s) - i + 1 ELSE 0
        /\ \A j \in 1 .. Len(s) - i + 1 : SubSeq(s, i, Len(s))[j] = s[i + j - 1]
    BY <1>1, SubSeqProperties
  <2> QED
    BY <1>1, <1>3, <2>1
<1>6. <<x>> \in Seq(T) /\ Len(<<x>>) = 1 /\ <<x>>[1] = x
  OBVIOUS
<1>7. PICK y : y = <<x>>
  OBVIOUS
<1>8. PICK u : u = p \o y
  OBVIOUS
<1>9. /\ u \in Seq(T) /\ Len(u) = i
      /\ \A j \in 1 .. i : u[j] = IF j <= i - 1 THEN p[j] ELSE y[j - (i - 1)]
  <2>1. /\ p \o y \in Seq(T) /\ Len(p \o y) = Len(p) + Len(y)
        /\ \A j \in 1 .. Len(p) + Len(y) :
             (p \o y)[j] = IF j <= Len(p) THEN p[j] ELSE y[j - Len(p)]
    BY <1>4, <1>6, <1>7, ConcatProperties
  <2> QED
    BY <1>1, <1>4, <1>6, <1>7, <1>8, <2>1
<1>10. /\ r \in Seq(T) /\ Len(r) = Len(s) + 1
      /\ \A j \in 1 .. Len(s) + 1 : r[j] = IF j <= i THEN u[j] ELSE q[j - i]
  <2>1. /\ u \o q \in Seq(T) /\ Len(u \o q) = Len(u) + Len(q)
        /\ \A j \in 1 .. Len(u) + Len(q) :
             (u \o q)[j] = IF j <= Len(u) THEN u[j] ELSE q[j - Len(u)]
    BY <1>5, <1>9, ConcatProperties
  <2>2. r = u \o q
    BY <1>2, <1>3, <1>7, <1>8 DEF InsertAt
  <2> QED
    BY <1>1, <1>5, <1>9, <2>1, <2>2
<1>11. ASSUME NEW j \in 1 .. Len(s) + 1
       PROVE  r[j] = IF j < i THEN s[j] ELSE IF j = i THEN x ELSE s[j - 1]
  <2>1. CASE j < i
    BY <1>1, <1>4, <1>9, <1>10, <2>1, SMTT(30)
  <2>2. CASE j = i
    <3>1. r[j] = u[i] /\ u[i] = y[i - (i - 1)] /\ i - (i - 1) = 1
      BY <1>1, <1>9, <1>10, <2>2
    <3> QED
      BY <1>6, <1>7, <2>2, <3>1
  <2>3. CASE j > i
    <3>1. j - i \in 1 .. Len(s) - i + 1 /\ i + (j - i) - 1 = j - 1
      BY <1>1, <2>3
    <3>2. r[j] = q[j - i] /\ q[j - i] = s[i + (j - i) - 1]
      BY <1>1, <1>5, <1>10, <2>3, <3>1
    <3> QED
      BY <2>3, <3>1, <3>2
  <2> QED
    BY <1>1, <2>1, <2>2, <2>3
<1> QED
  BY <1>1, <1>10, <1>11, LenProperties

\* A bench with one tab taken away.
LEMMA Removed ==
  ASSUME NEW T, NEW s \in Seq(T), NEW i \in 1 .. Len(s),
         NEW r, r = RemoveAt(s, i)
  PROVE  r \in Seq(T) /\ \E h : Picks(r, s, h)
<1>1. Len(s) \in Nat /\ (\A j \in 1 .. Len(s) : s[j] \in T) /\ DOMAIN s = 1 .. Len(s)
  BY LenProperties, ElementOfSeq
<1>2. PICK p : p = SubSeq(s, 1, i - 1)
  OBVIOUS
<1>3. PICK q : q = SubSeq(s, i + 1, Len(s))
  OBVIOUS
<1>4. p \in Seq(T) /\ Len(p) = i - 1 /\ \A j \in 1 .. i - 1 : p[j] = s[j]
  <2>1. /\ SubSeq(s, 1, i - 1) \in Seq(T)
        /\ Len(SubSeq(s, 1, i - 1)) = IF 1 <= i - 1 THEN (i - 1) - 1 + 1 ELSE 0
        /\ \A j \in 1 .. (i - 1) - 1 + 1 : SubSeq(s, 1, i - 1)[j] = s[1 + j - 1]
    BY <1>1, SubSeqProperties
  <2> QED
    BY <1>1, <1>2, <2>1
<1>5. q \in Seq(T) /\ Len(q) = Len(s) - i /\ \A j \in 1 .. Len(s) - i : q[j] = s[i + j]
  <2>1. i + 1 \in Int /\ Len(s) \in Int /\ \A j \in i + 1 .. Len(s) : s[j] \in T
    BY <1>1
  <2>2. /\ SubSeq(s, i + 1, Len(s)) \in Seq(T)
        /\ Len(SubSeq(s, i + 1, Len(s))) = IF i + 1 <= Len(s) THEN Len(s) - (i + 1) + 1 ELSE 0
        /\ \A j \in 1 .. Len(s) - (i + 1) + 1 : SubSeq(s, i + 1, Len(s))[j] = s[(i + 1) + j - 1]
    BY <2>1, SubSeqProperties
  <2>3. Len(s) \in Nat /\ i \in Nat /\ i <= Len(s)
    BY <1>1
  <2>4. PICK m \in Nat : m = Len(s) - i
    BY <2>3
  <2>5. Len(s) - (i + 1) + 1 = m /\ (i + 1 <= Len(s) <=> m >= 1)
    BY <2>3, <2>4
  <2>6. q \in Seq(T) /\ Len(q) = m
    <3>1. q \in Seq(T) /\ Len(q) = IF m >= 1 THEN m ELSE 0
      BY <1>3, <2>2, <2>5
    <3> QED
      BY <2>4, <3>1
  <2>7. ASSUME NEW j \in 1 .. m PROVE q[j] = s[i + j]
    <3>1. (i + 1) + j - 1 = i + j
      BY <2>3, <2>4
    <3>2. q[j] = s[(i + 1) + j - 1]
      BY <1>3, <2>2, <2>5
    <3> QED
      BY <3>1, <3>2
  <2> QED
    BY <2>4, <2>6, <2>7
<1>6. /\ r \in Seq(T) /\ Len(r) = Len(s) - 1
      /\ \A j \in 1 .. Len(s) - 1 : r[j] = IF j <= i - 1 THEN p[j] ELSE q[j - (i - 1)]
  <2>1. /\ p \o q \in Seq(T) /\ Len(p \o q) = Len(p) + Len(q)
        /\ \A j \in 1 .. Len(p) + Len(q) :
             (p \o q)[j] = IF j <= Len(p) THEN p[j] ELSE q[j - Len(p)]
    BY <1>4, <1>5, ConcatProperties
  <2>2. r = p \o q
    BY <1>2, <1>3 DEF RemoveAt
  <2>3. Len(p) + Len(q) = Len(s) - 1
    BY <1>1, <1>4, <1>5
  <2> QED
    BY <1>4, <2>1, <2>2, <2>3
<1>7. DOMAIN r = 1 .. Len(s) - 1
  BY <1>6, LenProperties
<1>8. PICK h : h = [j \in 1 .. Len(s) - 1 |-> IF j < i THEN j ELSE j + 1]
  OBVIOUS
<1>9. h \in [DOMAIN r -> DOMAIN s]
  BY <1>1, <1>7, <1>8
<1>10. Distinct(h)
  BY <1>1, <1>8 DEF Distinct
<1>11. ASSUME NEW j \in DOMAIN r PROVE r[j] = s[h[j]]
  <2>1. CASE j < i
    BY <1>1, <1>4, <1>6, <1>7, <1>8, <2>1
  <2>2. CASE j >= i
    <3>1. j - (i - 1) \in 1 .. Len(s) - i /\ i + (j - (i - 1)) = j + 1 /\ h[j] = j + 1
      BY <1>1, <1>7, <1>8, <2>2
    <3>2. r[j] = q[j - (i - 1)] /\ q[j - (i - 1)] = s[i + (j - (i - 1))]
      BY <1>1, <1>5, <1>6, <1>7, <2>2, <3>1
    <3> QED
      BY <3>1, <3>2
  <2> QED
    BY <1>1, <1>7, <2>1, <2>2
<1>12. Picks(r, s, h)
  BY <1>9, <1>10, <1>11 DEF Picks
<1> QED
  BY <1>6, <1>12

\* SplitPane.
LEMMA SplitRight ==
  ASSUME NEW b, RightBench(b), NEW e \in SUBSET Sessions, OneEach(b.tabs, e), b.tabs # <<>>,
         NEW r, r = Split(b)
  PROVE  Remade(r, b, e, PanesOf(b) \cup {Empty}) /\ r.known = b.known
<1>1. /\ b.active \in DOMAIN b.tabs /\ Current(b) = b.tabs[b.active] /\ RightTab(Current(b))
      /\ Range(Current(b).leaves) \subseteq PanesOf(b)
      /\ b = [tabs |-> b.tabs, active |-> b.active, zoom |-> b.zoom, known |-> b.known]
      /\ b.known \in SUBSET Sessions
  BY CurrentRight
<1>2. PICK l : l = Current(b).leaves
  OBVIOUS
<1>3. CASE Empty \in Range(l)
  <2>1. r = b
    BY <1>2, <1>3 DEF Split
  <2> QED
    BY <2>1 DEF Remade
<1>4. CASE Empty \notin Range(l)
  <2>1. l \in Seq(Pane) /\ Len(l) \in Nat /\ DOMAIN l = 1 .. Len(l)
    BY <1>1, <1>2, LenProperties DEF RightTab, Tab
  <2>2. PICK at : at = CHOOSE i \in DOMAIN l : l[i] = Current(b).focus
    OBVIOUS
  <2>3. at \in DOMAIN l
    <3>1. \E i \in DOMAIN l : l[i] = Current(b).focus
      BY <1>1, <1>2 DEF RightTab, Range
    <3> QED
      BY <2>2, <3>1
  <2>4. PICK new : new = InsertAt(l, at + 1, Empty)
    OBVIOUS
  <2>5. Empty \in Pane /\ at + 1 \in 1 .. Len(l) + 1
    BY <2>1, <2>3, EmptyIsNone
  <2>6. /\ new \in Seq(Pane) /\ DOMAIN new = 1 .. Len(l) + 1
        /\ \A j \in 1 .. Len(l) + 1 :
             new[j] = IF j < at + 1 THEN l[j] ELSE IF j = at + 1 THEN Empty ELSE l[j - 1]
    BY <2>1, <2>4, <2>5, Inserted
  <2>7. /\ \A j \in DOMAIN new : j < at + 1 => j \in DOMAIN l /\ new[j] = l[j]
        /\ \A j \in DOMAIN new : j > at + 1 => j - 1 \in DOMAIN l /\ new[j] = l[j - 1]
        /\ at + 1 \in DOMAIN new /\ new[at + 1] = Empty
    BY <2>1, <2>3, <2>6
  <2>8. \A j \in DOMAIN new : j < at + 1 \/ j > at + 1 \/ j = at + 1
    BY <2>1, <2>3, <2>6
  <2>9. Range(new) \subseteq Range(l) \cup {Empty} /\ Empty \in Range(new)
    BY <2>7, <2>8 DEF Range
  <2>10. Apart(l, e)
    BY <1>1, <1>2, TabApart
  <2>11. ASSUME NEW i \in DOMAIN new, NEW j \in DOMAIN new, new[i] = new[j]
         PROVE  i = j \/ new[i] \in e
    <3>1. \A m \in DOMAIN l : l[m] # Empty
      BY <1>4 DEF Range
    <3>2. CASE i = at + 1
      BY <2>7, <2>8, <2>11, <3>1, <3>2
    <3>3. CASE j = at + 1
      BY <2>7, <2>8, <2>11, <3>1, <3>3
    <3>4. i \in Int /\ j \in Int /\ at \in Int
      BY <2>1, <2>3, <2>6
    <3>5. CASE i # at + 1 /\ j # at + 1
      <4>1. PICK m \in DOMAIN l : new[i] = l[m] /\ m = IF i < at + 1 THEN i ELSE i - 1
        BY <2>7, <2>8, <3>5
      <4>2. PICK n \in DOMAIN l : new[j] = l[n] /\ n = IF j < at + 1 THEN j ELSE j - 1
        BY <2>7, <2>8, <3>5
      <4>3. m = n \/ l[m] \in e
        BY <2>10, <2>11, <4>1, <4>2 DEF Apart
      <4>4. m = n => i = j
        BY <2>8, <3>4, <3>5, <4>1, <4>2
      <4> QED
        BY <4>1, <4>3, <4>4
    <3> QED
      BY <3>2, <3>3, <3>5
  <2>12. PICK t : t = [leaves |-> new, focus |-> Empty]
    OBVIOUS
  <2>13. RightTab(t)
    BY <2>5, <2>6, <2>9, <2>12 DEF RightTab, Tab
  <2>14. Fits(t, b.tabs, b.active, e)
    <3>1. t.leaves = new /\ Range(l) = Range(b.tabs[b.active].leaves)
      BY <1>1, <1>2, <2>12
    <3> QED
      BY <2>9, <2>11, <3>1 DEF Fits, Apart
  <2>15. Range(t.leaves) \subseteq PanesOf(b) \cup {Empty}
    BY <1>1, <1>2, <2>9, <2>12
  <2>16. Changes(b, e, t, b.known)
    BY <1>1, <2>13, <2>14, <2>15 DEF Changes, RightBench
  <2>17. r = Unzoomed(b, t, b.known)
    BY <1>1, <1>2, <1>4, <2>2, <2>4, <2>12 DEF Unzoomed, Changed, WithTab, Split
  <2>18. Remade(r, b, e, PanesOf(b) \cup Range(t.leaves)) /\ r.known = b.known
    BY <2>16, <2>17, UnzoomedRight
  <2> QED
    BY <2>15, <2>18 DEF Remade
<1> QED
  BY <1>3, <1>4

\* CloseTab: the empty tab follows the last one.
LEMMA ClosedTabRight ==
  ASSUME NEW b, RightBench(b), NEW e, OneEach(b.tabs, e), b.tabs # <<>>,
         NEW r, r = CloseTab(b)
  PROVE  Remade(r, b, e, PanesOf(b) \cup {Empty}) /\ r.known = b.known
<1>1. /\ b.active \in DOMAIN b.tabs
      /\ b = [tabs |-> b.tabs, active |-> b.active, zoom |-> b.zoom, known |-> b.known]
      /\ b.known \in SUBSET Sessions
  BY CurrentRight
<1>2. b.tabs \in Seq(Tab) /\ \A i \in DOMAIN b.tabs : RightTab(b.tabs[i])
  BY DEF RightBench, Bench
<1>3. PICK tabs : tabs = RemoveAt(b.tabs, b.active)
  OBVIOUS
<1>4. PICK left : left = IF tabs = <<>> THEN <<EmptyTab>> ELSE tabs
  OBVIOUS
<1>5. b.active \in 1 .. Len(b.tabs)
  BY <1>1, <1>2, LenProperties
<1>6. tabs \in Seq(Tab) /\ \E h : Picks(tabs, b.tabs, h)
  BY <1>2, <1>3, <1>5, Removed
<1>7. PICK f : Picks(tabs, b.tabs, f)
  BY <1>6
<1>8. /\ f \in [DOMAIN tabs -> DOMAIN b.tabs] /\ Distinct(f)
      /\ \A i \in DOMAIN tabs : f[i] \in DOMAIN b.tabs /\ tabs[i] = b.tabs[f[i]]
  BY <1>7 DEF Picks
<1>9. OneEach(tabs, e)
  <2> DEFINE g == [i \in DOMAIN tabs |-> [m \in DOMAIN tabs[i].leaves |-> m]]
  <2>1. ASSUME NEW i \in DOMAIN tabs PROVE Picks(tabs[i].leaves, b.tabs[f[i]].leaves, g[i])
    <3>1. tabs[i].leaves = b.tabs[f[i]].leaves
      BY <1>8
    <3>2. PICK l : l = tabs[i].leaves
      OBVIOUS
    <3>3. g[i] = [m \in DOMAIN l |-> m]
      BY <3>2
    <3>4. Picks(l, l, [m \in DOMAIN l |-> m])
      BY DEF Picks, Distinct
    <3> QED
      BY <3>1, <3>2, <3>3, <3>4
  <2> HIDE DEF g
  <2> QED
    BY <1>8, <2>1, TakenOver
<1>10. ASSUME NEW i \in DOMAIN tabs
       PROVE  RightTab(tabs[i]) /\ Range(tabs[i].leaves) \subseteq PanesOf(b)
  <2>1. f[i] \in DOMAIN b.tabs /\ tabs[i] = b.tabs[f[i]]
    BY <1>8
  <2>2. Range(b.tabs[f[i]].leaves) \subseteq PanesOf(b)
    BY <2>1, Zenon DEF PanesOf
  <2> QED
    BY <1>2, <2>1, <2>2
<1>11. /\ left \in Seq(Tab) /\ left # <<>> /\ OneEach(left, e)
       /\ \A i \in DOMAIN left :
            RightTab(left[i]) /\ Range(left[i].leaves) \subseteq PanesOf(b) \cup {Empty}
  <2>1. CASE tabs = <<>>
    <3>1. left = <<EmptyTab>> /\ DOMAIN left = {1} /\ left[1] = EmptyTab
      BY <1>4, <2>1
    <3>2. left \in Seq(Tab) /\ left # <<>>
      BY <3>1, EmptyTabRight DEF RightTab
    <3>3. DOMAIN EmptyTab.leaves = {1}
      BY DEF EmptyTab
    <3>4. OneEach(left, e)
      BY <3>1, <3>3 DEF OneEach
    <3> QED
      BY <3>1, <3>2, <3>4, EmptyTabRight
  <2>2. CASE tabs # <<>>
    <3>1. left = tabs
      BY <1>4, <2>2
    <3> QED
      BY <1>6, <1>9, <1>10, <2>2, <3>1
  <2> QED
    BY <2>1, <2>2
<1>12. Len(left) \in Nat /\ Len(left) >= 1 /\ DOMAIN left = 1 .. Len(left)
  BY <1>11, NonEmpty, LenProperties
<1>13. b.active \in Int
  BY DEF RightBench, Bench
<1>14. PICK active : active = Within(b.active, 1, Len(left))
  OBVIOUS
<1>15. active \in DOMAIN left /\ active \in Nat
  <2>1. Within(b.active, 1, Len(left)) \in 1 .. Len(left)
    BY <1>12, <1>13, WithinIs
  <2> QED
    BY <1>12, <1>14, <2>1
<1>16. r = [b EXCEPT !.zoom = FALSE, !.tabs = left, !.active = active]
  <2>1. r = [b EXCEPT !.zoom = FALSE, !.tabs = left, !.active = Within(@, 1, Len(left))]
    BY <1>3, <1>4 DEF CloseTab
  <2> QED
    BY <1>1, <1>14, <2>1
<1>17. r = [tabs |-> left, active |-> active, zoom |-> FALSE, known |-> b.known]
  BY <1>1, <1>16
<1>18. r \in Bench
  BY <1>1, <1>11, <1>15, <1>17 DEF Bench
<1>19. r.tabs = left /\ r.active = active /\ r.known = b.known
  BY <1>17
<1>20. PanesOf(r) \subseteq PanesOf(b) \cup {Empty}
  <2>1. \A i \in DOMAIN left : Range(left[i].leaves) \subseteq PanesOf(b) \cup {Empty}
    BY <1>11
  <2>2. PanesOf(r) = UNION {Range(left[i].leaves) : i \in DOMAIN left}
    BY <1>19 DEF PanesOf
  <2> QED
    BY <2>1, <2>2
<1>21. RightBench(r)
  <2>1. PanesOf(r) \subseteq {Empty} \cup b.known
    BY <1>20 DEF RightBench
  <2>2. \A i \in DOMAIN left : RightTab(left[i])
    BY <1>11
  <2> QED
    BY <1>15, <1>18, <1>19, <2>1, <2>2 DEF RightBench
<1>22. left # <<>> /\ OneEach(left, e)
  BY <1>11
<1> QED
  BY <1>19, <1>20, <1>21, <1>22 DEF Remade

\* ClosePane: the tab goes with its last pane.
LEMMA ClosedPaneRight ==
  ASSUME NEW b, RightBench(b), NEW e, OneEach(b.tabs, e), b.tabs # <<>>,
         NEW r, r = ClosePane(b)
  PROVE  Remade(r, b, e, PanesOf(b) \cup {Empty}) /\ r.known = b.known
<1>1. /\ b.active \in DOMAIN b.tabs /\ Current(b) = b.tabs[b.active] /\ RightTab(Current(b))
      /\ Range(Current(b).leaves) \subseteq PanesOf(b)
      /\ b = [tabs |-> b.tabs, active |-> b.active, zoom |-> b.zoom, known |-> b.known]
      /\ b.known \in SUBSET Sessions
  BY CurrentRight
<1>2. PICK l : l = Current(b).leaves
  OBVIOUS
<1>3. PICK left : left = Without(l, {Current(b).focus})
  OBVIOUS
<1>4. l \in Seq(Pane)
  BY <1>1, <1>2 DEF RightTab, Tab
<1>5. left \in Seq(Pane) /\ \E h : Picks(left, l, h)
  BY <1>3, <1>4, OnlyRange, OnlyFrom DEF Without
<1>6. CASE left = <<>>
  <2>1. r = CloseTab(b)
    BY <1>2, <1>3, <1>6 DEF ClosePane
  <2> QED
    BY <2>1, ClosedTabRight
<1>7. CASE left # <<>>
  <2>1. PICK h : Picks(left, l, h)
    BY <1>5
  <2>2. Apart(l, e)
    BY <1>1, <1>2, TabApart
  <2>3. Apart(left, e) /\ Range(left) \subseteq Range(l)
    BY <2>1, <2>2, PicksApart
  <2>4. PICK t : t = [leaves |-> left, focus |-> Head(left)]
    OBVIOUS
  <2>5. Head(left) \in Range(left) /\ Head(left) \in Pane
    BY <1>5, <1>7, NonEmpty, HeadTailProperties
  <2>6. RightTab(t)
    BY <1>5, <2>4, <2>5 DEF RightTab, Tab
  <2>7. Fits(t, b.tabs, b.active, e)
    <3>1. t.leaves = left /\ Range(l) = Range(b.tabs[b.active].leaves)
      BY <1>1, <1>2, <2>4
    <3> QED
      BY <2>3, <3>1 DEF Fits
  <2>8. Range(t.leaves) \subseteq PanesOf(b)
    BY <1>1, <1>2, <2>3, <2>4
  <2>9. Changes(b, e, t, b.known)
    BY <1>1, <2>6, <2>7, <2>8 DEF Changes, RightBench
  <2>10. r = Unzoomed(b, t, b.known)
    BY <1>1, <1>2, <1>3, <1>7, <2>4 DEF Unzoomed, Changed, WithTab, ClosePane
  <2>11. Remade(r, b, e, PanesOf(b) \cup Range(t.leaves)) /\ r.known = b.known
    BY <2>9, <2>10, UnzoomedRight
  <2> QED
    BY <2>8, <2>11 DEF Remade
<1> QED
  BY <1>6, <1>7

\* ToggleZoom.
LEMMA ZoomedRight ==
  ASSUME NEW b, RightBench(b), NEW e, OneEach(b.tabs, e),
         NEW r, r = [b EXCEPT !.zoom = ~@]
  PROVE  Remade(r, b, e, PanesOf(b)) /\ r.known = b.known
<1>1. b \in Bench
  BY DEF RightBench
<1>2. /\ r \in Bench /\ r.tabs = b.tabs /\ r.active = b.active /\ r.known = b.known
  BY <1>1 DEF Bench
<1>3. PanesOf(r) = PanesOf(b)
  BY <1>2 DEF PanesOf
<1> QED
  BY <1>2, <1>3 DEF Remade, RightBench

\* SelectTab.
LEMMA SelectedRight ==
  ASSUME NEW b, RightBench(b), NEW e, OneEach(b.tabs, e), NEW i \in DOMAIN b.tabs,
         NEW r, r = [b EXCEPT !.active = i, !.zoom = FALSE]
  PROVE  Remade(r, b, e, PanesOf(b)) /\ r.known = b.known
<1>1. b \in Bench
  BY DEF RightBench
<1>2. i \in Nat
  <2>1. Len(b.tabs) \in Nat /\ DOMAIN b.tabs = 1 .. Len(b.tabs)
    BY <1>1, LenProperties DEF Bench
  <2> QED
    BY <2>1
<1>3. /\ r \in Bench /\ r.tabs = b.tabs /\ r.active = i /\ r.known = b.known
  BY <1>1, <1>2 DEF Bench
<1>4. PanesOf(r) = PanesOf(b)
  BY <1>3 DEF PanesOf
<1> QED
  BY <1>3, <1>4 DEF Remade, RightBench

-----------------------------------------------------------------------------
(***************************************************************************)
(* The invariant: what the server has made, what requests carry, what the  *)
(* benches and the layout file hold, and what a session in a pane before   *)
(* its reply has to do with early.                                         *)
(***************************************************************************)
Request(c, m) ==
  /\ DOMAIN c = {"kind", "wt", "at", "got", "created"}
  /\ c.got \in Seq(1 .. m) /\ Distinct(c.got) /\ c.created \in 0 .. m
  /\ c.at # "idle" => c.wt \in Trees
  /\ c.created # 0 => c.kind \in {"new", "into"}
  /\ c.kind \in {"new", "into"} /\ c.at \in {"list", "reply"} => c.created # 0

ServerInv ==
  /\ made \in 0 .. MaxSessions /\ DOMAIN alive = Trees
  /\ \A w \in Trees : alive[w] \in Seq(1 .. made) /\ Distinct(alive[w])

CmdInv ==
  /\ DOMAIN cmd = Cmds /\ \A k \in Cmds : Request(cmd[k], made)
  /\ \A k, l \in Cmds : cmd[k].created = cmd[l].created => cmd[k].created = 0 \/ k = l

BenchesRight(bs, e, m) ==
  /\ DOMAIN bs = Trees
  /\ \A w \in Trees : /\ RightBench(bs[w]) /\ OneEach(bs[w].tabs, e)
                      /\ bs[w].known \subseteq 1 .. m

BenchInv ==
  /\ early \in SUBSET Sessions
  /\ BenchesRight(bench, early, made) /\ BenchesRight(file, early, made)

\* What is listed has had its pane; a pane given before the reply is in early.
KnownInv ==
  /\ wt \in Trees => Range(listed) \subseteq bench[wt].known
  /\ \A k \in Cmds : LET c == cmd[k] IN
       c.kind = "into" /\ c.wt \in Trees /\ c.created \in bench[c.wt].known => c.created \in early

ViewInv ==
  /\ wt \in Trees \cup {NoTree} /\ focus \in {"sidebar", "terminal"}
  /\ focus = "terminal" => wt # NoTree
  /\ Range(listed) \subseteq Sessions
  /\ screens \subseteq Sessions /\ attaching \subseteq Sessions /\ detached \subseteq Sessions
  /\ wt = NoTree => screens = {}

PaneInv == ServerInv /\ CmdInv /\ BenchInv /\ KnownInv /\ ViewInv

\* More may be excused.
LEMMA OneEachMore ==
  ASSUME NEW tabs, NEW e, OneEach(tabs, e), NEW f, e \subseteq f
  PROVE  OneEach(tabs, f)
<1> SUFFICES ASSUME NEW i \in DOMAIN tabs, NEW j \in DOMAIN tabs,
                    NEW m \in DOMAIN tabs[i].leaves, NEW n \in DOMAIN tabs[j].leaves,
                    tabs[i].leaves[m] = tabs[j].leaves[n]
             PROVE  \/ i = j /\ m = n
                    \/ tabs[i].leaves[m] \in f
                    \/ tabs[i].leaves[m] = Empty /\ i # j
  BY DEF OneEach
<1>1. \A x \in DOMAIN tabs[i].leaves, y \in DOMAIN tabs[j].leaves :
        tabs[i].leaves[x] = tabs[j].leaves[y] =>
          \/ i = j /\ x = y
          \/ tabs[i].leaves[x] \in e
          \/ tabs[i].leaves[x] = Empty /\ i # j
  <2>1. \A p, q \in DOMAIN tabs : \A x \in DOMAIN tabs[p].leaves, y \in DOMAIN tabs[q].leaves :
          tabs[p].leaves[x] = tabs[q].leaves[y] =>
            \/ p = q /\ x = y
            \/ tabs[p].leaves[x] \in e
            \/ tabs[p].leaves[x] = Empty /\ p # q
    BY Zenon DEF OneEach
  <2> QED
    BY <2>1, Zenon
<1>2. \/ i = j /\ m = n
      \/ tabs[i].leaves[m] \in e
      \/ tabs[i].leaves[m] = Empty /\ i # j
  BY <1>1, Zenon
<1> QED
  BY <1>2

\* What the layout file keeps of a bench has the same panes.
LEMMA LayoutPanes ==
  ASSUME NEW a, NEW b, Layout(a) = Layout(b)
  PROVE  PanesOf(a) = PanesOf(b)
<1>1. \A c : DOMAIN Layout(c) = DOMAIN c.tabs /\ \A i \in DOMAIN c.tabs : Layout(c)[i] = c.tabs[i].leaves
  BY DEF Layout
<1>2. DOMAIN a.tabs = DOMAIN b.tabs /\ \A i \in DOMAIN a.tabs : a.tabs[i].leaves = b.tabs[i].leaves
  BY <1>1
<1> QED
  BY <1>2 DEF PanesOf

\* What a reply makes of a bench b, given s for a pane that was asked for.
Given(p, b, s, e) ==
  \/ p = b
  \/ p = Place(b, s) /\ s \in Sessions /\ (s \in b.known => s \in e)

\* Place after a reply: the session asked for has its pane.
LEMMA GivenRight ==
  ASSUME NEW b, RightBench(b), NEW e \in SUBSET Sessions, OneEach(b.tabs, e), NEW s,
         NEW p, Given(p, b, s, e)
  PROVE  /\ RightBench(p) /\ OneEach(p.tabs, e) /\ PanesOf(p) \subseteq PanesOf(b) \cup {s}
         /\ b.known \subseteq p.known /\ p.known \subseteq b.known \cup {s}
<1>1. CASE p = b
  BY <1>1
<1>2. CASE p # b
  <2>1. p = Place(b, s) /\ s \in Sessions /\ (s \notin PanesOf(b) \/ s \in e)
    BY <1>2, EmptyIsNone DEF Given, RightBench
  <2>2. Remade(p, b, e, PanesOf(b) \cup {s}) /\ b.known \subseteq p.known /\ p.known \subseteq b.known \cup {s}
    BY <2>1, PlaceRight
  <2> QED
    BY <2>2 DEF Remade
<1> QED
  BY <1>1, <1>2

\* A bench once a reply is taken: right, and with no pane from elsewhere.
Answered(r, b, s, e, got) ==
  /\ RightBench(r) /\ OneEach(r.tabs, e) /\ r.known = Range(got)
  /\ Range(got) \ (b.known \cup {s}) \subseteq PanesOf(r)
  /\ PanesOf(r) \subseteq {Empty} \cup PanesOf(b) \cup (Range(got) \ b.known) \cup {s}

\* TabsMsg, on the bench of its worktree.
LEMMA ReplyRight ==
  ASSUME NEW b, RightBench(b), NEW e \in SUBSET Sessions, OneEach(b.tabs, e), NEW s \in Pane,
         NEW p, Given(p, b, s, e), NEW got \in Seq(Sessions), Distinct(got),
         NEW q, q = Reconcile(p, got), NEW r, r = q \/ r = Show(q, s)
  PROVE  Answered(r, b, s, e, got)
<1>1. /\ RightBench(p) /\ OneEach(p.tabs, e) /\ PanesOf(p) \subseteq PanesOf(b) \cup {s}
      /\ b.known \subseteq p.known /\ p.known \subseteq b.known \cup {s}
  BY GivenRight
<1>2. /\ RightBench(q) /\ OneEach(q.tabs, e) /\ q.known = Range(got)
      /\ PanesOf(q) \subseteq {Empty} \cup (Range(got) \ p.known) \cup PanesOf(p)
      /\ Range(got) \ p.known \subseteq PanesOf(q)
  BY <1>1, ReconcileRight
<1>3. /\ Range(got) \ (b.known \cup {s}) \subseteq PanesOf(q)
      /\ PanesOf(q) \subseteq {Empty} \cup PanesOf(b) \cup (Range(got) \ b.known) \cup {s}
  BY <1>1, <1>2
<1>4. CASE r = q
  BY <1>2, <1>3, <1>4 DEF Answered
<1>5. CASE r # q
  <2>1. r = Show(q, s)
    BY <1>5
  <2>2. Remade(r, q, e, PanesOf(q)) /\ r.known = q.known
    BY <1>2, <2>1, ShowRight
  <2>3. DOMAIN q = Fields
    BY <1>2 DEF RightBench, Bench, Fields
  <2>4. PanesOf(r) = PanesOf(q)
    BY <2>1, <2>3, ShowKeepsLayout, LayoutPanes
  <2> QED
    BY <1>2, <1>3, <2>2, <2>4 DEF Answered, Remade
<1> QED
  BY <1>4, <1>5

-----------------------------------------------------------------------------
\* The invariant holds at the start.
LEMMA InitPanes == Init => PaneInv
<1> SUFFICES ASSUME Init PROVE PaneInv
  OBVIOUS
<1>1. RightBench(NoBench) /\ OneEach(NoBench.tabs, {}) /\ NoBench.known = {}
  <2>1. NoBench.tabs = <<>> /\ NoBench.active = 1 /\ NoBench.zoom = FALSE /\ NoBench.known = {}
    BY DEF NoBench
  <2>2. NoBench \in Bench
    BY DEF NoBench, Bench
  <2>3. DOMAIN NoBench.tabs = {}
    BY <2>1
  <2>4. PanesOf(NoBench) = {}
    BY <2>3 DEF PanesOf
  <2>5. OneEach(NoBench.tabs, {})
    BY <2>3 DEF OneEach
  <2> QED
    BY <2>1, <2>2, <2>3, <2>4, <2>5 DEF RightBench
<1>2. Distinct(<<>>) /\ \A m \in Nat : <<>> \in Seq(1 .. m)
  BY DEF Distinct
<1>3. Range(<<>>) = {}
  BY DEF Range
<1>4. ServerInv
  BY <1>2, BoundsAssumption DEF Init, ServerInv
<1>5. Request(Idle, 0)
  <2>1. <<>> \in Seq(1 .. 0)
    BY <1>2
  <2>2. /\ Idle.kind = "idle" /\ Idle.at = "idle" /\ Idle.got = <<>> /\ Idle.created = 0
        /\ DOMAIN Idle = {"kind", "wt", "at", "got", "created"}
    BY DEF Idle
  <2> QED
    BY <1>2, <2>1, <2>2 DEF Request
<1>6. CmdInv
  BY <1>5 DEF Init, CmdInv, Idle
<1>7. BenchInv
  BY <1>1 DEF Init, BenchInv, BenchesRight
<1>8. KnownInv
  BY <1>3, BoundsAssumption DEF Init, KnownInv, Idle
<1>9. ViewInv
  BY <1>3 DEF Init, ViewInv
<1> QED
  BY <1>4, <1>6, <1>7, <1>8, <1>9 DEF PaneInv

\* A session is made: no list had it.
LEMMA CreateKeeps ==
  ASSUME ServerInv, NEW w \in Trees, Create(w)
  PROVE  ServerInv' /\ made' = made + 1 /\ made \in Nat
<1>1. made \in Nat /\ made' = made + 1 /\ made' \in 0 .. MaxSessions /\ MaxSessions \in Nat
  BY BoundsAssumption DEF ServerInv, Create
<1>2. ASSUME NEW v \in Trees PROVE alive[v] \in Seq(1 .. made') /\ Distinct(alive[v])
                                   /\ \A i \in 1 .. Len(alive[v]) : alive[v][i] \in 1 .. made
  <2>1. alive[v] \in Seq(1 .. made) /\ 1 .. made \subseteq 1 .. made'
    BY <1>1 DEF ServerInv
  <2> QED
    BY <2>1, SeqMonotonic, ElementOfSeq DEF ServerInv
<1>3. PICK s : s = Append(alive[w], made')
  OBVIOUS
<1>4. alive' = [alive EXCEPT ![w] = s]
  BY <1>3 DEF Create
<1>5. s \in Seq(1 .. made') /\ Distinct(s)
  <2>1. PICK a : a = alive[w]
    OBVIOUS
  <2>2. made' \in 1 .. made' /\ a \in Seq(1 .. made')
    BY <1>1, <1>2, <2>1
  <2>3. /\ s \in Seq(1 .. made') /\ Len(s) = Len(a) + 1
        /\ (\A i \in 1 .. Len(a) : s[i] = a[i]) /\ s[Len(a) + 1] = made'
    BY <1>3, <2>1, <2>2, AppendProperties
  <2>4. PICK n \in Nat : n = Len(a)
    BY <2>2, LenProperties
  <2>5. DOMAIN s = 1 .. n + 1 /\ DOMAIN a = 1 .. n
    BY <2>2, <2>3, <2>4, LenProperties
  <2>6. \A i \in 1 .. n : s[i] = a[i] /\ s[i] \in 1 .. made
    BY <1>2, <2>1, <2>3, <2>4
  <2>7. \A i, j \in 1 .. n : a[i] = a[j] => i = j
    BY <1>2, <2>1, <2>5 DEF Distinct
  <2>8. \A i \in 1 .. n + 1 : i \in 1 .. n \/ (i = n + 1 /\ s[i] = made + 1)
    BY <1>1, <2>3, <2>4
  <2>9. Distinct(s)
    BY <1>1, <2>5, <2>6, <2>7, <2>8 DEF Distinct
  <2> QED
    BY <2>3, <2>9
<1>6. DOMAIN alive' = Trees /\ \A v \in Trees : alive'[v] \in Seq(1 .. made') /\ Distinct(alive'[v])
  BY <1>2, <1>4, <1>5 DEF ServerInv
<1> QED
  BY <1>1, <1>6 DEF ServerInv

\* A session ends.
LEMMA EndKeeps ==
  ASSUME ServerInv, NEW w \in Trees, NEW s, SessionEnds(w, s)
  PROVE  ServerInv'
<1>1. PICK r : r = Without(alive[w], {s})
  OBVIOUS
<1>2. alive' = [alive EXCEPT ![w] = r] /\ made' = made
  BY <1>1 DEF SessionEnds
<1>3. alive[w] \in Seq(1 .. made) /\ Distinct(alive[w])
  BY DEF ServerInv
<1>4. r \in Seq(1 .. made) /\ Distinct(r)
  BY <1>1, <1>3, OnlyRange DEF Without
<1> QED
  BY <1>2, <1>4 DEF ServerInv

\* The server, in every step.
LEMMA NextServer ==
  ServerInv /\ CmdInv /\ [Next]_vars =>
    ServerInv' /\ made \in Nat /\ made' \in Nat /\ made <= made'
<1> SUFFICES ASSUME ServerInv, CmdInv, [Next]_vars
             PROVE  ServerInv' /\ made \in Nat /\ made' \in Nat /\ made <= made'
  OBVIOUS
<1>1. made \in Nat
  BY DEF ServerInv
<1>2. ASSUME UNCHANGED made, ServerInv'
      PROVE  ServerInv' /\ made \in Nat /\ made' \in Nat /\ made <= made'
  BY <1>1, <1>2
<1>3. ASSUME UNCHANGED server PROVE ServerInv' /\ UNCHANGED made
  BY <1>3 DEF server, ServerInv
<1>4. ASSUME NEW w \in Trees, Create(w)
      PROVE  ServerInv' /\ made \in Nat /\ made' \in Nat /\ made <= made'
  BY <1>4, CreateKeeps
<1>5. ASSUME NEW k \in Cmds, CreateSession(k) PROVE cmd[k].wt \in Trees /\ Create(cmd[k].wt)
  BY <1>5 DEF CreateSession, CmdInv, Request
<1>6. ASSUME NEW w \in Trees, NEW s, SessionEnds(w, s) PROVE ServerInv' /\ UNCHANGED made
  BY <1>6, EndKeeps DEF SessionEnds
<1>7. CASE Server
  BY <1>2, <1>3, <1>4, <1>5, <1>6, <1>7 DEF Server, OtherCreates, ListSessions, RequestFails
<1>8. Message => UNCHANGED server
  BY DEF Message, OpenMsg, TabsMsg, ClosedMsg, ScreenFails, ScreenArrives
<1>9. User => UNCHANGED server
  BY DEF User, PressOpen, NewTab, PickNew, PickHidden, Move, Click, SelectTab, SplitPane,
         CloseFocused, CloseActive, ToggleZoom, Reattach, Resized, GoTo, Lay
<1>10. Restart => UNCHANGED server
  BY DEF Restart
<1>11. UNCHANGED vars => UNCHANGED server
  BY DEF vars
<1> QED
  BY <1>2, <1>3, <1>7, <1>8, <1>9, <1>10, <1>11 DEF Next

-----------------------------------------------------------------------------
\* A request stays one as the server makes more.
LEMMA RequestLater ==
  ASSUME NEW m \in Nat, NEW n \in Nat, m <= n, NEW c, Request(c, m)
  PROVE  Request(c, n)
<1>1. 1 .. m \subseteq 1 .. n /\ 0 .. m \subseteq 0 .. n
  OBVIOUS
<1>2. c.got \in Seq(1 .. m)
  BY DEF Request
<1>3. c.got \in Seq(1 .. n)
  BY <1>1, <1>2, SeqMonotonic
<1> QED
  BY <1>1, <1>3 DEF Request

LEMMA IdleRequest ==
  ASSUME NEW m \in Nat
  PROVE  Request(Idle, m) /\ Idle.created = 0
<1>1. <<>> \in Seq(1 .. m) /\ Distinct(<<>>)
  BY DEF Distinct
<1>2. /\ Idle.kind = "idle" /\ Idle.at = "idle" /\ Idle.got = <<>> /\ Idle.created = 0
      /\ DOMAIN Idle = {"kind", "wt", "at", "got", "created"}
  BY DEF Idle
<1> QED
  BY <1>1, <1>2 DEF Request

LEMMA SentRequest ==
  ASSUME NEW m \in Nat, NEW kind, NEW w \in Trees, NEW at,
         kind \in {"new", "into"} => at \notin {"list", "reply"},
         NEW c, c = [Idle EXCEPT !.kind = kind, !.wt = w, !.at = at]
  PROVE  Request(c, m) /\ c.created = 0
<1>1. <<>> \in Seq(1 .. m) /\ Distinct(<<>>)
  BY DEF Distinct
<1>2. /\ c.kind = kind /\ c.wt = w /\ c.at = at /\ c.got = <<>> /\ c.created = 0
      /\ DOMAIN c = {"kind", "wt", "at", "got", "created"}
  BY DEF Idle
<1>3. 0 \in 0 .. m /\ c.wt \in Trees
  BY <1>2
<1>4. c.got \in Seq(1 .. m) /\ Distinct(c.got)
  BY <1>1, <1>2
<1>5. ~(c.kind \in {"new", "into"} /\ c.at \in {"list", "reply"})
  BY <1>2
<1> QED
  BY <1>2, <1>3, <1>4, <1>5 DEF Request

\* One slot changes, and no session is claimed twice.
LEMMA SlotKeeps ==
  ASSUME CmdInv, made \in Nat, made' \in Nat, made <= made', NEW k \in Cmds,
         NEW c, Request(c, made'), c.created \in {0, cmd[k].created} \/ c.created > made,
         cmd' = [cmd EXCEPT ![k] = c]
  PROVE  CmdInv'
<1>1. DOMAIN cmd' = Cmds /\ cmd'[k] = c /\ \A l \in Cmds : l # k => cmd'[l] = cmd[l]
  BY DEF CmdInv
<1>2. \A l \in Cmds : Request(cmd[l], made') /\ cmd[l].created \in 0 .. made
  BY RequestLater DEF CmdInv, Request
<1>3. \A l \in Cmds : Request(cmd'[l], made')
  BY <1>1, <1>2
<1>4. \A l \in Cmds : l # k /\ c.created = cmd[l].created => c.created = 0
  BY <1>2 DEF CmdInv
<1>5. \A l, m \in Cmds : cmd'[l].created = cmd'[m].created => cmd'[l].created = 0 \/ l = m
  BY <1>1, <1>4 DEF CmdInv
<1> QED
  BY <1>1, <1>3, <1>5 DEF CmdInv

\* A request is sent.
LEMMA SendKeeps ==
  ASSUME CmdInv, made \in Nat, UNCHANGED made, NEW k \in Cmds, NEW kind, NEW w \in Trees, NEW at,
         kind \in {"new", "into"} => at \notin {"list", "reply"}, Send(k, kind, w, at)
  PROVE  CmdInv'
<1>1. PICK c : c = [Idle EXCEPT !.kind = kind, !.wt = w, !.at = at]
  OBVIOUS
<1>2. Request(c, made) /\ c.created = 0
  BY <1>1, SentRequest
<1>3. cmd' = [cmd EXCEPT ![k] = c]
  BY <1>1 DEF Send
<1>4. made' \in Nat /\ made <= made' /\ Request(c, made')
  BY <1>2
<1> QED
  BY <1>2, <1>3, <1>4, SlotKeeps

\* A list is answered.
LEMMA ListKeeps ==
  ASSUME ServerInv, CmdInv, NEW k \in Cmds, ListSessions(k)
  PROVE  CmdInv'
<1>1. PICK c : c = cmd[k]
  OBVIOUS
<1>2. PICK ss : ss = alive[c.wt]
  OBVIOUS
<1>3. Request(c, made) /\ c.at = "list" /\ made \in Nat /\ UNCHANGED made
  BY <1>1 DEF ListSessions, CmdInv, ServerInv, server
<1>4. ss \in Seq(1 .. made) /\ Distinct(ss)
  BY <1>2, <1>3 DEF Request, ServerInv
<1>5. PICK got : got = IF c.kind \in {"new", "into"} /\ c.created \notin Range(ss)
                       THEN Append(ss, c.created) ELSE ss
  OBVIOUS
<1>6. PICK at : at = IF ss = <<>> /\ ~(c.kind \in {"new", "into"}) THEN "create" ELSE "reply"
  OBVIOUS
<1>7. PICK d : d = [c EXCEPT !.at = at, !.got = got]
  OBVIOUS
<1>8. cmd' = [cmd EXCEPT ![k] = d]
  BY <1>1, <1>2, <1>5, <1>6, <1>7 DEF ListSessions, CmdInv
<1>9. got \in Seq(1 .. made) /\ Distinct(got)
  <2>1. CASE ~(c.kind \in {"new", "into"} /\ c.created \notin Range(ss))
    BY <1>4, <1>5, <2>1
  <2>2. CASE c.kind \in {"new", "into"} /\ c.created \notin Range(ss)
    <3>1. c.created \in 1 .. made
      BY <1>3, <2>2 DEF Request
    <3>2. /\ got \in Seq(1 .. made) /\ Len(got) = Len(ss) + 1
          /\ (\A i \in 1 .. Len(ss) : got[i] = ss[i]) /\ got[Len(ss) + 1] = c.created
      BY <1>4, <1>5, <2>2, <3>1, AppendProperties
    <3>3. PICK n \in Nat : n = Len(ss)
      BY <1>4, LenProperties
    <3>4. DOMAIN got = 1 .. n + 1 /\ DOMAIN ss = 1 .. n
      BY <1>4, <3>2, <3>3, LenProperties
    <3>5. \A i \in 1 .. n : got[i] = ss[i] /\ ss[i] # c.created
      BY <2>2, <3>2, <3>3, <3>4 DEF Range
    <3>6. \A i, j \in 1 .. n : ss[i] = ss[j] => i = j
      BY <1>4, <3>4 DEF Distinct
    <3>7. \A i \in 1 .. n + 1 : i \in 1 .. n \/ (i = n + 1 /\ got[i] = c.created)
      BY <3>2, <3>3
    <3>8. Distinct(got)
      BY <3>4, <3>5, <3>6, <3>7 DEF Distinct
    <3> QED
      BY <3>2, <3>8
  <2> QED
    BY <2>1, <2>2
<1>10. /\ d.kind = c.kind /\ d.wt = c.wt /\ d.at = at /\ d.got = got /\ d.created = c.created
       /\ DOMAIN d = {"kind", "wt", "at", "got", "created"}
  BY <1>3, <1>7 DEF Request
<1>11. Request(d, made)
  BY <1>3, <1>9, <1>10 DEF Request
<1>12. /\ made' \in Nat /\ made <= made' /\ Request(d, made')
       /\ d.created \in {0, cmd[k].created}
  BY <1>1, <1>3, <1>10, <1>11
<1> QED
  BY <1>3, <1>8, <1>12, SlotKeeps

\* A session is made for the slot that asked for it.
LEMMA CreatedKeeps ==
  ASSUME ServerInv, CmdInv, NEW k \in Cmds, CreateSession(k)
  PROVE  CmdInv' /\ (cmd'[k].created = 0 \/ cmd'[k].created = made')
<1>1. PICK c : c = cmd[k]
  OBVIOUS
<1>2. Request(c, made) /\ c.at = "create" /\ c.wt \in Trees
  BY <1>1 DEF CreateSession, CmdInv, Request
<1>3. made \in Nat /\ made' = made + 1
  BY <1>1, <1>2, CreateKeeps DEF CreateSession
<1>4. PICK d : d = IF c.kind \in {"new", "into"} THEN [c EXCEPT !.at = "list", !.created = made']
                   ELSE [c EXCEPT !.at = "reply", !.got = <<made'>>]
  OBVIOUS
<1>5. cmd' = [cmd EXCEPT ![k] = d]
  BY <1>1, <1>4 DEF CreateSession
<1>6. Request(c, made')
  BY <1>2, <1>3, RequestLater
<1>7. /\ Request(d, made')
      /\ d.created \in {0, cmd[k].created} \/ d.created > made
      /\ d.created = 0 \/ d.created = made'
  <2>1. CASE c.kind \in {"new", "into"}
    <3>1. /\ d.kind = c.kind /\ d.wt = c.wt /\ d.at = "list" /\ d.got = c.got /\ d.created = made'
          /\ DOMAIN d = {"kind", "wt", "at", "got", "created"}
      BY <1>4, <1>6, <2>1 DEF Request
    <3>2. made' # 0 /\ made' > made /\ made' \in 0 .. made'
      BY <1>3
    <3>3. Request(d, made')
      BY <1>2, <1>6, <2>1, <3>1, <3>2 DEF Request
    <3> QED
      BY <3>1, <3>2, <3>3
  <2>2. CASE c.kind \notin {"new", "into"}
    <3>1. /\ d.kind = c.kind /\ d.wt = c.wt /\ d.at = "reply" /\ d.got = <<made'>>
          /\ d.created = c.created /\ DOMAIN d = {"kind", "wt", "at", "got", "created"}
      BY <1>4, <1>6, <2>2 DEF Request
    <3>2. c.created = 0
      BY <1>2, <2>2 DEF Request
    <3>3. <<made'>> \in Seq(1 .. made') /\ Distinct(<<made'>>)
      BY <1>3 DEF Distinct
    <3>4. Request(d, made')
      BY <1>2, <1>6, <2>2, <3>1, <3>2, <3>3 DEF Request
    <3> QED
      BY <3>1, <3>2, <3>4
  <2> QED
    BY <2>1, <2>2
<1>8. made' \in Nat /\ made <= made'
  BY <1>3
<1>9. CmdInv'
  BY <1>3, <1>5, <1>7, <1>8, SlotKeeps
<1>10. cmd'[k] = d
  BY <1>5 DEF CmdInv
<1> QED
  BY <1>7, <1>9, <1>10

\* A slot is emptied.
LEMMA IdleKeeps ==
  ASSUME ServerInv, CmdInv, UNCHANGED made, NEW k \in Cmds, cmd' = [cmd EXCEPT ![k] = Idle]
  PROVE  CmdInv'
<1>1. made \in Nat /\ made' \in Nat /\ made <= made'
  BY DEF ServerInv
<1>2. Request(Idle, made') /\ Idle.created \in {0, cmd[k].created}
  BY <1>1, IdleRequest
<1> QED
  BY <1>1, <1>2, SlotKeeps

\* The slots, in every step.
LEMMA NextCmd ==
  ServerInv /\ CmdInv /\ ViewInv /\ [Next]_vars => CmdInv'
<1> SUFFICES ASSUME ServerInv, CmdInv, ViewInv, [Next]_vars PROVE CmdInv'
  OBVIOUS
<1>1. made \in Nat /\ made' \in Nat /\ made <= made'
  BY NextServer
<1>2. ASSUME UNCHANGED cmd PROVE CmdInv'
  <2>1. \A k \in Cmds : Request(cmd[k], made')
    BY <1>1, RequestLater DEF CmdInv
  <2> QED
    BY <1>2, <2>1 DEF CmdInv
<1>3. ASSUME UNCHANGED made, NEW k \in Cmds, NEW kind, NEW w \in Trees, NEW at,
             kind \in {"new", "into"} => at \notin {"list", "reply"}, Send(k, kind, w, at)
      PROVE  CmdInv'
  BY <1>1, <1>3, SendKeeps
<1>4. CASE Server
  <2>1. ASSUME NEW k \in Cmds, RequestFails(k) PROVE CmdInv'
    BY <2>1, IdleKeeps DEF RequestFails, server
  <2>2. ASSUME NEW k \in Cmds, CreateSession(k) PROVE CmdInv'
    BY <2>2, CreatedKeeps
  <2>3. ASSUME NEW k \in Cmds, ListSessions(k) PROVE CmdInv'
    BY <2>3, ListKeeps
  <2>4. ASSUME NEW w \in Trees, OtherCreates(w) PROVE CmdInv'
    BY <1>2, <2>4 DEF OtherCreates
  <2>5. ASSUME NEW w \in Trees, NEW s, SessionEnds(w, s) PROVE CmdInv'
    BY <1>2, <2>5 DEF SessionEnds
  <2> QED
    BY <1>4, <2>1, <2>2, <2>3, <2>4, <2>5 DEF Server
<1>5. CASE Message
  <2>1. ASSUME NEW k \in Cmds, OpenMsg(k) PROVE CmdInv'
    <3>1. PICK w : w = cmd[k].wt
      OBVIOUS
    <3>2. w \in Trees
      BY <2>1, <3>1 DEF OpenMsg, CmdInv, Request
    <3>3. PICK c : c = [Idle EXCEPT !.kind = "load", !.wt = w, !.at = "list"]
      OBVIOUS
    <3>4. cmd' = [cmd EXCEPT ![k] = c]
      BY <2>1, <3>1, <3>3 DEF OpenMsg
    <3>5. PICK kind, at : kind = "load" /\ at = "list"
      OBVIOUS
    <3>6. c = [Idle EXCEPT !.kind = kind, !.wt = w, !.at = at] /\ kind \notin {"new", "into"}
      BY <3>3, <3>5
    <3>7. Request(c, made') /\ c.created = 0
      <4>1. PICK m \in Nat : m = made'
        BY <1>1
      <4>2. kind \in {"new", "into"} => at \notin {"list", "reply"}
        BY <3>6
      <4>3. Request(c, m) /\ c.created = 0
        BY <3>2, <3>6, <4>2, SentRequest
      <4> QED
        BY <4>1, <4>3
    <3> QED
      BY <1>1, <3>4, <3>7, SlotKeeps
  <2>2. ASSUME NEW k \in Cmds, TabsMsg(k) PROVE CmdInv'
    BY <2>2, IdleKeeps DEF TabsMsg, server
  <2>3. ASSUME NEW s \in Sessions, NEW k \in Cmds, ClosedMsg(s, k) PROVE CmdInv'
    <3>1. wt \in Trees /\ UNCHANGED made
      BY <2>3 DEF ClosedMsg, ViewInv, server
    <3>2. Send(k, "quiet", wt, "list")
      BY <2>3 DEF ClosedMsg
    <3> QED
      BY <1>3, <3>1, <3>2
  <2>4. ASSUME NEW s \in Sessions, ScreenFails(s) \/ ScreenArrives(s) PROVE CmdInv'
    BY <1>2, <2>4 DEF ScreenFails, ScreenArrives
  <2> QED
    BY <1>5, <2>1, <2>2, <2>3, <2>4 DEF Message
<1>6. CASE User
  <2>1. ASSUME NEW k \in Cmds, NEW w \in Trees, PressOpen(w, k) PROVE CmdInv'
    <3>1. UNCHANGED made /\ (UNCHANGED cmd \/ Send(k, "open", w, "message"))
      BY <2>1 DEF PressOpen, server
    <3> QED
      BY <1>2, <1>3, <3>1
  <2>2. ASSUME NEW k \in Cmds, NEW w \in Trees, NewTab(w, k) PROVE CmdInv'
    <3>1. UNCHANGED made /\ Send(k, "new", w, "create")
      BY <2>2 DEF NewTab, server
    <3> QED
      BY <1>3, <3>1
  <2>3. ASSUME NEW k \in Cmds, PickNew(k) PROVE CmdInv'
    <3>1. wt \in Trees /\ UNCHANGED made /\ Send(k, "into", wt, "create")
      BY <2>3 DEF PickNew, AtChoice, Ready, ViewInv, server
    <3> QED
      BY <1>3, <3>1
  <2>4. ASSUME \/ \E s : PickHidden(s) \/ Move(s) \/ SelectTab(s) \/ Click(s) \/ GoTo(s)
               \/ SplitPane \/ CloseFocused \/ CloseActive \/ ToggleZoom \/ Reattach \/ Resized
        PROVE  CmdInv'
    BY <1>2, <2>4 DEF PickHidden, Move, SelectTab, Click, GoTo, SplitPane, CloseFocused,
      CloseActive, ToggleZoom, Reattach, Resized, Lay
  <2> QED
    BY <1>6, <2>1, <2>2, <2>3, <2>4 DEF User
<1>7. CASE Restart
  BY <1>1, <1>7, IdleRequest DEF Restart, CmdInv
<1>8. CASE UNCHANGED vars
  BY <1>2, <1>8 DEF vars
<1> QED
  BY <1>4, <1>5, <1>6, <1>7, <1>8 DEF Next

-----------------------------------------------------------------------------
\* Benches stay right as more is made and more is excused.
LEMMA BenchesLater ==
  ASSUME NEW bs, NEW e, NEW f, NEW m \in Nat, NEW n \in Nat, BenchesRight(bs, e, m),
         e \subseteq f, m <= n
  PROVE  BenchesRight(bs, f, n)
<1>1. 1 .. m \subseteq 1 .. n
  OBVIOUS
<1>2. ASSUME NEW w \in Trees PROVE OneEach(bs[w].tabs, f)
  BY OneEachMore DEF BenchesRight
<1> QED
  BY <1>1, <1>2 DEF BenchesRight

\* What a handler leaves of the benches, when it leaves them.
LEMMA BenchesStay ==
  ASSUME BenchInv, made \in Nat, made' \in Nat, made <= made',
         UNCHANGED bench, UNCHANGED early, UNCHANGED file \/ Save
  PROVE  BenchInv'
<1>1. BenchesRight(bench, early, made') /\ BenchesRight(file, early, made')
  BY BenchesLater DEF BenchInv
<1>2. BenchesRight(bench', early', made') /\ (file' = file \/ file' = bench')
  BY <1>1 DEF Save
<1> QED
  BY <1>1, <1>2 DEF BenchInv

\* No slot claims another session, but one just made.
Claims(k) ==
  \/ cmd'[k].created \notin 1 .. made
  \/ cmd'[k].created = cmd[k].created /\ cmd'[k].kind = cmd[k].kind /\ cmd'[k].wt = cmd[k].wt

\* KnownInv, when the benches know no more and no slot claims more.
LEMMA KnownStay ==
  ASSUME BenchInv, KnownInv, UNCHANGED bench, UNCHANGED early,
         UNCHANGED <<wt, listed>> \/ listed' = <<>>,
         \A k \in Cmds : Claims(k)
  PROVE  KnownInv'
<1>1. \A w \in Trees : bench'[w].known = bench[w].known /\ bench[w].known \subseteq 1 .. made
  BY DEF BenchInv, BenchesRight
<1>2. wt' \in Trees => Range(listed') \subseteq bench'[wt'].known
  <2>1. CASE UNCHANGED <<wt, listed>>
    BY <1>1, <2>1 DEF KnownInv
  <2>2. CASE listed' = <<>>
    BY <2>2 DEF Range
  <2> QED
    BY <2>1, <2>2
<1>3. ASSUME NEW k \in Cmds, cmd'[k].kind = "into", cmd'[k].wt \in Trees,
             cmd'[k].created \in bench'[cmd'[k].wt].known
      PROVE  cmd'[k].created \in early'
  <2>1. cmd'[k].created \in 1 .. made /\ cmd'[k].created \in bench[cmd'[k].wt].known
    BY <1>1, <1>3
  <2>2. cmd'[k].created = cmd[k].created /\ cmd'[k].kind = cmd[k].kind /\ cmd'[k].wt = cmd[k].wt
    BY <2>1 DEF Claims
  <2> QED
    BY <1>3, <2>1, <2>2 DEF KnownInv
<1> QED
  BY <1>2, <1>3 DEF KnownInv

LEMMA SameClaims ==
  ASSUME UNCHANGED cmd
  PROVE  \A k \in Cmds : Claims(k)
BY DEF Claims

LEMMA SlotClaims ==
  ASSUME CmdInv, NEW k \in Cmds, NEW c, c.created = 0, cmd' = [cmd EXCEPT ![k] = c]
  PROVE  \A l \in Cmds : Claims(l)
<1>1. cmd'[k] = c /\ \A l \in Cmds : l # k => cmd'[l] = cmd[l]
  BY DEF CmdInv
<1> QED
  BY <1>1 DEF Claims

LEMMA SendClaims ==
  ASSUME CmdInv, NEW k \in Cmds, NEW kind, NEW w, NEW at, Send(k, kind, w, at)
  PROVE  \A l \in Cmds : Claims(l)
<1>1. PICK c : c = [Idle EXCEPT !.kind = kind, !.wt = w, !.at = at]
  OBVIOUS
<1>2. c.created = 0
  BY <1>1 DEF Idle
<1>3. cmd' = [cmd EXCEPT ![k] = c]
  BY <1>1 DEF Send
<1> QED
  BY <1>2, <1>3, SlotClaims

\* The user lays the tabs shown anew: the same sessions are known.
LEMMA LayKeeps ==
  ASSUME BenchInv, KnownInv, CmdInv, NEW r, Lay(r), wt \in Trees,
         RightBench(r), OneEach(r.tabs, early), r.known = bench[wt].known,
         UNCHANGED file \/ Save
  PROVE  BenchInv' /\ KnownInv'
<1>1. /\ bench' = [bench EXCEPT ![wt] = r] /\ UNCHANGED <<wt, listed, cmd, early, made>>
  BY DEF Lay, server, marks
<1>2. DOMAIN bench = Trees /\ \A w \in Trees : bench'[w] = IF w = wt THEN r ELSE bench[w]
  BY <1>1 DEF BenchInv, BenchesRight
<1>3. \A w \in Trees : bench'[w].known = bench[w].known
  BY <1>2
<1>4. \A w \in Trees : /\ RightBench(bench'[w]) /\ OneEach(bench'[w].tabs, early)
                       /\ bench'[w].known \subseteq 1 .. made
  BY <1>2, <1>3 DEF BenchInv, BenchesRight
<1>5. DOMAIN bench' = Trees
  BY <1>1, <1>2
<1>6. BenchesRight(bench', early', made')
  BY <1>1, <1>4, <1>5 DEF BenchesRight
<1>7. BenchesRight(file, early', made')
  BY <1>1 DEF BenchInv
<1>8. file' = file \/ file' = bench'
  BY DEF Save
<1>9. BenchInv'
  BY <1>1, <1>6, <1>7, <1>8 DEF BenchInv
<1>10. KnownInv'
  BY <1>1, <1>3 DEF KnownInv
<1> QED
  BY <1>9, <1>10

\* Of LayKeeps, for an operation on the bench shown.
LEMMA RemadeLays ==
  ASSUME BenchInv, KnownInv, CmdInv, NEW r, Lay(r), wt \in Trees, NEW S,
         Remade(r, bench[wt], early, S), r.known = bench[wt].known, UNCHANGED file \/ Save
  PROVE  BenchInv' /\ KnownInv'
<1>1. RightBench(r) /\ OneEach(r.tabs, early)
  BY DEF Remade
<1> QED
  BY <1>1, LayKeeps

-----------------------------------------------------------------------------
\* What a reply makes of the bench of its worktree.
LEMMA ReplyIs ==
  ASSUME PaneInv, NEW k \in Cmds, cmd[k].at = "reply",
         NEW c, c = cmd[k], NEW b, b = bench[c.wt]
  PROVE  /\ Request(c, made) /\ c.wt \in Trees /\ c.got \in Seq(Sessions) /\ RightBench(b)
         /\ Answered(Taken(c), b, c.created, early, c.got)
<1>1. PICK s : s = c.created
  OBVIOUS
<1>2. PICK r : r = Taken(c)
  OBVIOUS
<1>3. /\ ServerInv /\ CmdInv /\ BenchInv /\ KnownInv
      /\ c.at = "reply" /\ Request(c, made) /\ c.wt \in Trees
  BY DEF PaneInv, CmdInv, Request
<1>4. made \in Nat /\ 1 .. made \subseteq Sessions /\ 0 .. made \subseteq Pane
  BY <1>3, BoundsAssumption DEF ServerInv, Sessions, Pane, Empty
<1>5. /\ c.got \in Seq(1 .. made) /\ Distinct(c.got) /\ s \in 0 .. made
      /\ (c.kind \in {"new", "into"} => s # 0)
  BY <1>1, <1>3 DEF Request
<1>6. c.got \in Seq(Sessions) /\ s \in Pane
  BY <1>4, <1>5, SeqMonotonic
<1>7. RightBench(b) /\ OneEach(b.tabs, early) /\ early \in SUBSET Sessions
  BY <1>3 DEF BenchInv, BenchesRight
<1>8. PICK p : p = Placed(c)
  OBVIOUS
<1>9. Given(p, b, s, early)
  <2>1. CASE c.kind = "into"
    <3>1. s \in Sessions
      BY <1>4, <1>5, <2>1
    <3>2. s \in b.known => s \in early
      BY <1>1, <1>3, <2>1 DEF KnownInv
    <3>3. p = Place(b, s)
      BY <1>1, <1>8, <2>1 DEF Placed
    <3> QED
      BY <3>1, <3>2, <3>3 DEF Given
  <2>2. CASE c.kind # "into"
    BY <1>8, <2>2 DEF Placed, Given
  <2> QED
    BY <2>1, <2>2
<1>10. PICK q : q = Reconcile(p, c.got)
  OBVIOUS
<1>11. r = q \/ r = Show(q, s)
  BY <1>1, <1>2, <1>8, <1>10 DEF Taken
<1>12. PICK got \in Seq(Sessions) : got = c.got
  BY <1>6
<1>13. Distinct(got) /\ q = Reconcile(p, got)
  BY <1>5, <1>10, <1>12
<1>14. Answered(r, b, s, early, got)
  BY <1>6, <1>7, <1>9, <1>11, <1>13, ReplyRight
<1> QED
  BY <1>1, <1>2, <1>3, <1>6, <1>7, <1>12, <1>14

\* A reply that is taken.
LEMMA ReplyTaken ==
  ASSUME PaneInv, NEW k \in Cmds, TabsMsg(k), ~Stale(cmd[k])
  PROVE  BenchInv' /\ KnownInv'
<1>1. PICK c : c = cmd[k]
  OBVIOUS
<1>2. PICK b : b = bench[c.wt]
  OBVIOUS
<1>3. PICK s : s = c.created
  OBVIOUS
<1>4. PICK r : r = Taken(c)
  OBVIOUS
<1>5. /\ ServerInv /\ CmdInv /\ BenchInv /\ KnownInv
      /\ c.at = "reply" /\ Request(c, made) /\ c.wt \in Trees
  BY <1>1 DEF PaneInv, TabsMsg, CmdInv, Request
<1>6. PICK new : new = {x \in PanesOf(bench'[c.wt]) \ (PanesOf(bench[c.wt]) \cup {Empty}) :
                          \E l \in Cmds \ {k} : cmd[l].kind = "into" /\ cmd[l].created = x}
  OBVIOUS
<1>7. /\ cmd' = [cmd EXCEPT ![k] = Idle] /\ wt' = c.wt /\ listed' = c.got
      /\ bench' = [bench EXCEPT ![c.wt] = r] /\ Save /\ early' = early \cup new
      /\ made' = made
  BY <1>1, <1>4, <1>6 DEF TabsMsg, SyncOver, server
<1>8. made \in Nat /\ 1 .. made \subseteq Sessions /\ 0 .. made \subseteq Pane
  BY <1>5, BoundsAssumption DEF ServerInv, Sessions, Pane, Empty
<1>9. /\ c.got \in Seq(1 .. made) /\ Distinct(c.got) /\ s \in 0 .. made
  BY <1>3, <1>5 DEF Request
<1>10. Range(c.got) \subseteq 1 .. made
  BY <1>9, RangeOfSeq
<1>11. /\ RightBench(b) /\ early \in SUBSET Sessions /\ b.known \subseteq 1 .. made
  BY <1>2, <1>5 DEF BenchInv, BenchesRight
<1>12. /\ RightBench(r) /\ OneEach(r.tabs, early) /\ r.known = Range(c.got)
       /\ Range(c.got) \ (b.known \cup {s}) \subseteq PanesOf(r)
       /\ PanesOf(r) \subseteq {Empty} \cup PanesOf(b) \cup (Range(c.got) \ b.known) \cup {s}
  BY <1>1, <1>2, <1>3, <1>4, <1>5, ReplyIs DEF Answered
<1>13. DOMAIN bench = Trees /\ \A w \in Trees : bench'[w] = IF w = c.wt THEN r ELSE bench[w]
  BY <1>5, <1>7 DEF BenchInv, BenchesRight
<1>14. bench'[c.wt] = r
  BY <1>5, <1>13
<1>15. new \subseteq Sessions
  <2>1. PanesOf(r) \subseteq {Empty} \cup r.known
    BY <1>12 DEF RightBench
  <2> QED
    BY <1>6, <1>8, <1>10, <1>12, <1>14, <2>1
<1>16. early' \in SUBSET Sessions /\ early \subseteq early'
  BY <1>7, <1>11, <1>15
<1>17. BenchesRight(bench', early', made')
  <2>1. \A w \in Trees : OneEach(bench[w].tabs, early) /\ RightBench(bench[w])
                         /\ bench[w].known \subseteq 1 .. made
    BY <1>5 DEF BenchInv, BenchesRight
  <2>2. \A w \in Trees : OneEach(bench[w].tabs, early')
    BY <1>16, <2>1, OneEachMore
  <2>3. OneEach(r.tabs, early')
    BY <1>12, <1>16, OneEachMore
  <2>4. DOMAIN bench' = Trees
    BY <1>7, <1>13
  <2>5. \A w \in Trees : /\ RightBench(bench'[w]) /\ OneEach(bench'[w].tabs, early')
                         /\ bench'[w].known \subseteq 1 .. made'
    BY <1>7, <1>10, <1>12, <1>13, <2>1, <2>2, <2>3
  <2> QED
    BY <2>4, <2>5 DEF BenchesRight
<1>18. BenchInv'
  BY <1>7, <1>16, <1>17 DEF BenchInv, Save
<1>19. ASSUME NEW l \in Cmds, cmd'[l].kind = "into", cmd'[l].wt \in Trees,
              cmd'[l].created \in bench'[cmd'[l].wt].known
       PROVE  cmd'[l].created \in early'
  <2>1. cmd'[k] = Idle /\ \A m \in Cmds : m # k => cmd'[m] = cmd[m]
    BY <1>5, <1>7 DEF CmdInv
  <2>2. l # k
    BY <1>19, <2>1 DEF Idle
  <2>3. cmd'[l] = cmd[l]
    BY <2>1, <2>2
  <2>4. PICK x : x = cmd[l].created
    OBVIOUS
  <2>5. CASE cmd[l].wt # c.wt
    <3>1. x \in bench[cmd[l].wt].known
      BY <1>13, <1>19, <2>3, <2>4, <2>5
    <3>2. x \in early
      BY <1>5, <1>19, <2>3, <2>4, <3>1 DEF KnownInv
    <3> QED
      BY <1>16, <2>3, <2>4, <3>2
  <2>6. CASE cmd[l].wt = c.wt /\ x \in b.known
    <3>1. x \in early
      BY <1>2, <1>5, <1>19, <2>3, <2>4, <2>6 DEF KnownInv
    <3> QED
      BY <1>16, <2>3, <2>4, <3>1
  <2>7. CASE cmd[l].wt = c.wt /\ x \notin b.known
    <3>1. x \in Range(c.got) /\ x # 0
      BY <1>10, <1>12, <1>14, <1>19, <2>3, <2>4, <2>7
    <3>2. x # s
      BY <1>1, <1>3, <1>5, <2>2, <2>4, <3>1 DEF CmdInv
    <3>3. x \in PanesOf(r) /\ x \notin PanesOf(b) /\ x # Empty
      BY <1>11, <1>12, <2>7, <3>1, <3>2 DEF RightBench, Empty
    <3>4. x \in new
      BY <1>2, <1>6, <1>14, <1>19, <2>2, <2>3, <2>4, <3>3
    <3> QED
      BY <1>7, <2>3, <2>4, <3>4
  <2> QED
    BY <2>5, <2>6, <2>7
<1>20. wt' \in Trees => Range(listed') \subseteq bench'[wt'].known
  BY <1>7, <1>12, <1>14
<1>21. KnownInv'
  BY <1>19, <1>20 DEF KnownInv
<1> QED
  BY <1>18, <1>21

\* The benches and the file, in every step.
LEMMA NextBench ==
  PaneInv /\ [Next]_vars => BenchInv' /\ KnownInv'
<1> SUFFICES ASSUME PaneInv, [Next]_vars PROVE BenchInv' /\ KnownInv'
  OBVIOUS
<1>1. ServerInv /\ CmdInv /\ BenchInv /\ KnownInv /\ ViewInv
  BY DEF PaneInv
<1>2. made \in Nat /\ made' \in Nat /\ made <= made'
  BY <1>1, NextServer
<1>3. ASSUME UNCHANGED bench, UNCHANGED early, UNCHANGED file \/ Save,
             UNCHANGED <<wt, listed>> \/ listed' = <<>>, \A k \in Cmds : Claims(k)
      PROVE  BenchInv' /\ KnownInv'
  BY <1>1, <1>2, <1>3, BenchesStay, KnownStay
<1>4. early \in SUBSET Sessions
  BY <1>1 DEF BenchInv
<1>5. CASE Server
  <2>1. ASSUME NEW k \in Cmds, RequestFails(k) PROVE BenchInv' /\ KnownInv'
    <3>1. \A l \in Cmds : Claims(l)
      BY <1>1, <2>1, SlotClaims DEF RequestFails, Idle
    <3> QED
      BY <1>3, <2>1, <3>1 DEF RequestFails, marks
  <2>2. ASSUME NEW k \in Cmds, CreateSession(k) PROVE BenchInv' /\ KnownInv'
    <3>1. cmd'[k].created \notin 1 .. made
      <4>1. cmd'[k].created = 0 \/ cmd'[k].created = made'
        BY <1>1, <2>2, CreatedKeeps
      <4>2. made' = made + 1
        BY <2>2 DEF CreateSession, Create
      <4> QED
        BY <1>2, <4>1, <4>2
    <3>2. \A l \in Cmds : l # k => cmd'[l] = cmd[l]
      BY <1>1, <2>2 DEF CreateSession, CmdInv
    <3>3. \A l \in Cmds : Claims(l)
      BY <3>1, <3>2 DEF Claims
    <3> QED
      BY <1>3, <2>2, <3>3 DEF CreateSession, marks
  <2>3. ASSUME NEW k \in Cmds, ListSessions(k) PROVE BenchInv' /\ KnownInv'
    <3>1. DOMAIN cmd[k] = {"kind", "wt", "at", "got", "created"} /\ DOMAIN cmd = Cmds
      BY <1>1 DEF CmdInv, Request
    <3>2. PICK at, got : cmd' = [cmd EXCEPT ![k].at = at, ![k].got = got]
      BY <2>3 DEF ListSessions
    <3>3. /\ \A l \in Cmds : l # k => cmd'[l] = cmd[l]
          /\ cmd'[k].created = cmd[k].created /\ cmd'[k].kind = cmd[k].kind /\ cmd'[k].wt = cmd[k].wt
      BY <3>1, <3>2
    <3>4. \A l \in Cmds : Claims(l)
      BY <3>3 DEF Claims
    <3> QED
      BY <1>3, <2>3, <3>4 DEF ListSessions, marks
  <2>4. ASSUME NEW w \in Trees, OtherCreates(w) \/ \E s : SessionEnds(w, s)
        PROVE  BenchInv' /\ KnownInv'
    BY <1>3, <2>4, SameClaims DEF OtherCreates, SessionEnds, marks
  <2> QED
    BY <1>5, <2>1, <2>2, <2>3, <2>4 DEF Server
<1>6. CASE Message
  <2>1. ASSUME NEW k \in Cmds, OpenMsg(k) PROVE BenchInv' /\ KnownInv'
    <3>1. PICK c : c = [Idle EXCEPT !.kind = "load", !.wt = cmd[k].wt, !.at = "list"]
      OBVIOUS
    <3>2. c.created = 0 /\ cmd' = [cmd EXCEPT ![k] = c]
      BY <2>1, <3>1 DEF OpenMsg, Idle
    <3>3. \A l \in Cmds : Claims(l)
      BY <1>1, <3>2, SlotClaims
    <3> QED
      BY <1>3, <2>1, <3>3 DEF OpenMsg, SyncOver, marks
  <2>2. ASSUME NEW k \in Cmds, TabsMsg(k) PROVE BenchInv' /\ KnownInv'
    <3>1. CASE Stale(cmd[k])
      <4>1. \A l \in Cmds : Claims(l)
        BY <1>1, <2>2, SlotClaims DEF TabsMsg, Idle
      <4> QED
        BY <1>3, <2>2, <3>1, <4>1 DEF TabsMsg
    <3>2. CASE ~Stale(cmd[k])
      BY <2>2, <3>2, ReplyTaken
    <3> QED
      BY <3>1, <3>2
  <2>3. ASSUME NEW s \in Sessions, NEW k \in Cmds, ClosedMsg(s, k) PROVE BenchInv' /\ KnownInv'
    <3>1. \A l \in Cmds : Claims(l)
      BY <1>1, <2>3, SendClaims DEF ClosedMsg
    <3> QED
      BY <1>3, <2>3, <3>1 DEF ClosedMsg, marks
  <2>4. ASSUME NEW s \in Sessions, ScreenFails(s) PROVE BenchInv' /\ KnownInv'
    BY <1>3, <2>4, SameClaims DEF ScreenFails, marks
  <2>5. ASSUME NEW s \in Sessions, ScreenArrives(s) PROVE BenchInv' /\ KnownInv'
    BY <1>3, <2>5, SameClaims DEF ScreenArrives, SyncOver, marks
  <2> QED
    BY <1>6, <2>1, <2>2, <2>3, <2>4, <2>5 DEF Message
<1>7. CASE User
  <2>1. ASSUME NEW k \in Cmds, NEW w \in Trees, PressOpen(w, k) \/ NewTab(w, k)
        PROVE  BenchInv' /\ KnownInv'
    <3>1. \A l \in Cmds : Claims(l)
      BY <1>1, <2>1, SendClaims, SameClaims DEF PressOpen, NewTab
    <3> QED
      BY <1>3, <2>1, <3>1 DEF PressOpen, NewTab, marks
  <2>2. ASSUME NEW k \in Cmds, PickNew(k) PROVE BenchInv' /\ KnownInv'
    <3>1. \A l \in Cmds : Claims(l)
      BY <1>1, <2>2, SendClaims DEF PickNew
    <3> QED
      BY <1>3, <2>2, <3>1 DEF PickNew, marks
  <2>3. ASSUME NEW s \in Sessions, PickHidden(s) PROVE BenchInv' /\ KnownInv'
    <3>1. PICK b : b = bench[wt]
      OBVIOUS
    <3>2. PICK r : r = Place(b, s)
      OBVIOUS
    <3>3. /\ wt \in Trees /\ Lay(r) /\ Save /\ s \in Range(listed) /\ s \notin PanesOf(b)
      BY <1>1, <2>3, <3>1, <3>2 DEF PickHidden, Lay, Ready, ViewInv, Hidden, Sync, SyncOver
    <3>4. RightBench(b) /\ OneEach(b.tabs, early) /\ s \in b.known
      BY <1>1, <3>1, <3>3 DEF BenchInv, BenchesRight, KnownInv
    <3>5. /\ Remade(r, b, early, PanesOf(b) \cup {s})
          /\ b.known \subseteq r.known /\ r.known \subseteq b.known \cup {s}
      BY <1>4, <3>2, <3>3, <3>4, PlaceRight
    <3>6. r.known = b.known
      BY <3>4, <3>5
    <3> QED
      BY <1>1, <3>1, <3>3, <3>5, <3>6, RemadeLays
  <2>4. ASSUME NEW s \in Sessions, Move(s) PROVE BenchInv' /\ KnownInv'
    <3>1. PICK b : b = bench[wt]
      OBVIOUS
    <3>2. PICK r : r = WithTab([b EXCEPT !.zoom = FALSE], [Current(b) EXCEPT !.focus = s])
      OBVIOUS
    <3>3. /\ wt \in Trees /\ Lay(r) /\ Save /\ b.tabs # <<>> /\ s \in Range(Current(b).leaves)
      BY <1>1, <2>4, <3>1, <3>2 DEF Move, Lay, Ready, ViewInv, Sync, SyncOver
    <3>4. RightBench(b) /\ OneEach(b.tabs, early)
      BY <1>1, <3>1, <3>3 DEF BenchInv, BenchesRight
    <3>5. Remade(r, b, early, PanesOf(b)) /\ r.known = b.known
      BY <3>2, <3>3, <3>4, MoveRight
    <3> QED
      BY <1>1, <3>1, <3>3, <3>5, RemadeLays
  <2>5. ASSUME NEW i, SelectTab(i) PROVE BenchInv' /\ KnownInv'
    <3>1. PICK b : b = bench[wt]
      OBVIOUS
    <3>2. PICK r : r = [b EXCEPT !.active = i, !.zoom = FALSE]
      OBVIOUS
    <3>3. wt \in Trees /\ Lay(r) /\ Save /\ i \in DOMAIN b.tabs
      BY <1>1, <2>5, <3>1, <3>2 DEF SelectTab, Lay, Ready, ViewInv, Sync, SyncOver
    <3>4. RightBench(b) /\ OneEach(b.tabs, early)
      BY <1>1, <3>1, <3>3 DEF BenchInv, BenchesRight
    <3>5. Remade(r, b, early, PanesOf(b)) /\ r.known = b.known
      BY <3>2, <3>3, <3>4, SelectedRight
    <3> QED
      BY <1>1, <3>1, <3>3, <3>5, RemadeLays
  <2>6. ASSUME SplitPane \/ CloseFocused \/ CloseActive \/ ToggleZoom PROVE BenchInv' /\ KnownInv'
    <3>1. PICK b : b = bench[wt]
      OBVIOUS
    <3>2. PICK r : Lay(r) /\ (r = Split(b) \/ r = ClosePane(b) \/ r = CloseTab(b)
                              \/ r = [b EXCEPT !.zoom = ~@])
      BY <2>6, <3>1 DEF SplitPane, CloseFocused, CloseActive, ToggleZoom
    <3>3. wt \in Trees /\ Save /\ b.tabs # <<>>
      BY <1>1, <2>6, <3>1, <3>2 DEF SplitPane, CloseFocused, CloseActive, ToggleZoom, Lay, Ready,
        ViewInv, Sync, SyncOver
    <3>4. RightBench(b) /\ OneEach(b.tabs, early)
      BY <1>1, <3>1, <3>3 DEF BenchInv, BenchesRight
    <3>5. CASE r = Split(b)
      <4>1. Remade(r, b, early, PanesOf(b) \cup {Empty}) /\ r.known = b.known
        BY <1>4, <3>3, <3>4, <3>5, SplitRight
      <4> QED
        BY <1>1, <3>1, <3>2, <3>3, <4>1, RemadeLays
    <3>6. CASE r = ClosePane(b)
      <4>1. Remade(r, b, early, PanesOf(b) \cup {Empty}) /\ r.known = b.known
        BY <3>3, <3>4, <3>6, ClosedPaneRight
      <4> QED
        BY <1>1, <3>1, <3>2, <3>3, <4>1, RemadeLays
    <3>7. CASE r = CloseTab(b)
      <4>1. Remade(r, b, early, PanesOf(b) \cup {Empty}) /\ r.known = b.known
        BY <3>3, <3>4, <3>7, ClosedTabRight
      <4> QED
        BY <1>1, <3>1, <3>2, <3>3, <4>1, RemadeLays
    <3>8. CASE r = [b EXCEPT !.zoom = ~@]
      <4>1. Remade(r, b, early, PanesOf(b)) /\ r.known = b.known
        BY <3>4, <3>8, ZoomedRight
      <4> QED
        BY <1>1, <3>1, <3>2, <3>3, <4>1, RemadeLays
    <3> QED
      BY <3>2, <3>5, <3>6, <3>7, <3>8
  <2>7. ASSUME NEW s \in Pane, Click(s) PROVE BenchInv' /\ KnownInv'
    <3>1. PICK b : b = bench[wt]
      OBVIOUS
    <3>2. PICK r : r = Show(b, s)
      OBVIOUS
    <3>3. wt \in Trees /\ Lay(r) /\ UNCHANGED file
      BY <1>1, <2>7, <3>1, <3>2 DEF Click, Lay, Ready, ViewInv
    <3>4. RightBench(b) /\ OneEach(b.tabs, early)
      BY <1>1, <3>1, <3>3 DEF BenchInv, BenchesRight
    <3>5. Remade(r, b, early, PanesOf(b)) /\ r.known = b.known
      BY <3>2, <3>4, ShowRight
    <3> QED
      BY <1>1, <3>1, <3>3, <3>5, RemadeLays
  <2>8. ASSUME Reattach \/ Resized PROVE BenchInv' /\ KnownInv'
    BY <1>3, <2>8, SameClaims DEF Reattach, Resized, Sync, SyncOver, marks
  <2>9. ASSUME NEW f, GoTo(f) PROVE BenchInv' /\ KnownInv'
    BY <1>3, <2>9, SameClaims DEF GoTo, marks
  <2> QED
    BY <1>7, <2>1, <2>2, <2>3, <2>4, <2>5, <2>6, <2>7, <2>8, <2>9 DEF User
<1>8. CASE Restart
  <2>1. /\ bench' = file /\ file' = file /\ early' = early /\ made' = made /\ wt' = NoTree
        /\ \A k \in Cmds : cmd'[k].kind = "idle"
    BY <1>8 DEF Restart, server, marks, Idle
  <2>2. BenchInv'
    BY <1>1, <2>1 DEF BenchInv
  <2>3. KnownInv'
    BY <2>1, BoundsAssumption DEF KnownInv
  <2> QED
    BY <2>2, <2>3
<1>9. CASE UNCHANGED vars
  BY <1>3, <1>9, SameClaims DEF vars, marks
<1> QED
  BY <1>5, <1>6, <1>7, <1>8, <1>9 DEF Next

\* Sync takes its screens from what is listed.
LEMMA SyncView ==
  ASSUME NEW scr \in SUBSET Sessions, NEW att \in SUBSET Sessions, NEW fl,
         SyncOver(scr, att, fl), Range(listed') \subseteq Sessions
  PROVE  /\ screens' \subseteq Sessions /\ attaching' \subseteq Sessions
         /\ (wt' = NoTree => screens' = {})
<1>1. PICK vis : vis = OnScreen'
  OBVIOUS
<1>2. /\ screens' = scr \cap vis
      /\ attaching' = att \cup {s \in vis : s \in Range(listed') /\ s \notin detached' \cup scr \cup att}
  BY <1>1 DEF SyncOver
<1>3. wt' = NoTree => vis = {}
  BY <1>1 DEF OnScreen, Ready
<1> QED
  BY <1>2, <1>3

\* What is shown, in every step.
LEMMA NextView ==
  PaneInv /\ [Next]_vars => ViewInv'
<1> SUFFICES ASSUME PaneInv, [Next]_vars PROVE ViewInv'
  OBVIOUS
<1>1. ServerInv /\ CmdInv /\ BenchInv /\ ViewInv
  BY DEF PaneInv
<1>2. ASSUME UNCHANGED <<wt, listed, screens, attaching, detached, focus>> PROVE ViewInv'
  BY <1>1, <1>2 DEF ViewInv
<1>3. /\ wt \in Trees \cup {NoTree} /\ focus \in {"sidebar", "terminal"}
      /\ focus = "terminal" => wt # NoTree
      /\ Range(listed) \subseteq Sessions
      /\ screens \in SUBSET Sessions /\ attaching \in SUBSET Sessions /\ detached \subseteq Sessions
      /\ wt = NoTree => screens = {}
  BY <1>1 DEF ViewInv
<1>4. ASSUME UNCHANGED <<wt, listed>>, Sync, detached' \subseteq Sessions,
             focus' = focus \/ \E f \in {"sidebar", "terminal"} : SetFocus(f)
      PROVE  ViewInv'
  <2>1. Range(listed') \subseteq Sessions /\ wt' = wt
    BY <1>3, <1>4
  <2>2. /\ screens' \subseteq Sessions /\ attaching' \subseteq Sessions
        /\ (wt' = NoTree => screens' = {})
    BY <1>3, <1>4, <2>1, SyncView DEF Sync
  <2>3. focus' \in {"sidebar", "terminal"} /\ (focus' = "terminal" => wt' # NoTree)
    BY <1>3, <1>4, <2>1 DEF SetFocus
  <2> QED
    BY <1>3, <1>4, <2>1, <2>2, <2>3 DEF ViewInv
<1>5. CASE Server
  BY <1>2, <1>5 DEF Server, OtherCreates, SessionEnds, ListSessions, CreateSession, RequestFails, attach
<1>6. CASE Message
  <2>1. \A w : ScreensAfterSwitch(w) \in SUBSET Sessions
    BY <1>3 DEF ScreensAfterSwitch
  <2>2. ASSUME NEW k \in Cmds, OpenMsg(k) PROVE ViewInv'
    <3>1. wt' \in Trees /\ wt' # NoTree
      BY <1>1, <2>2, BoundsAssumption DEF OpenMsg, CmdInv, Request
    <3>2. Range(listed') \subseteq Sessions
      BY <2>2 DEF OpenMsg, Range
    <3>3. PICK w : w = cmd[k].wt
      OBVIOUS
    <3>4. SyncOver(ScreensAfterSwitch(w), attaching, flights)
      BY <2>2, <3>3 DEF OpenMsg
    <3>5. screens' \subseteq Sessions /\ attaching' \subseteq Sessions
      BY <1>3, <2>1, <3>2, <3>4, SyncView
    <3> QED
      BY <1>3, <2>2, <3>1, <3>2, <3>5 DEF OpenMsg, ViewInv
  <2>3. ASSUME NEW k \in Cmds, TabsMsg(k) PROVE ViewInv'
    <3>1. CASE Stale(cmd[k])
      BY <1>2, <2>3, <3>1 DEF TabsMsg, attach
    <3>2. CASE ~Stale(cmd[k])
      <4>1. PICK c : c = cmd[k]
        OBVIOUS
      <4>2. /\ wt' = c.wt /\ listed' = c.got /\ c.wt \in Trees /\ c.got \in Seq(1 .. made)
            /\ UNCHANGED detached /\ (focus' = focus \/ focus' = "terminal")
        BY <1>1, <2>3, <3>2, <4>1 DEF TabsMsg, CmdInv, Request
      <4>3. 1 .. made \subseteq Sessions
        BY <1>1, BoundsAssumption DEF ServerInv, Sessions
      <4>4. Range(listed') \subseteq Sessions
        BY <4>2, <4>3, RangeOfSeq
      <4>5. PICK scr : scr = IF c.wt = wt THEN screens ELSE ScreensAfterSwitch(c.wt)
        OBVIOUS
      <4>6. SyncOver(scr, attaching, flights) /\ scr \in SUBSET Sessions
        BY <1>3, <2>1, <2>3, <3>2, <4>1, <4>5 DEF TabsMsg
      <4>7. screens' \subseteq Sessions /\ attaching' \subseteq Sessions
        BY <1>3, <4>4, <4>6, SyncView
      <4>8. wt' # NoTree
        BY <4>2, BoundsAssumption
      <4> QED
        BY <1>3, <4>2, <4>4, <4>7, <4>8 DEF ViewInv
    <3> QED
      BY <3>1, <3>2
  <2>4. ASSUME NEW s \in Sessions, NEW k \in Cmds, ClosedMsg(s, k) PROVE ViewInv'
    BY <1>3, <2>4 DEF ClosedMsg, ViewInv
  <2>5. ASSUME NEW s \in Sessions, ScreenFails(s) PROVE ViewInv'
    BY <1>3, <2>5 DEF ScreenFails, ViewInv
  <2>6. ASSUME NEW s \in Sessions, ScreenArrives(s) PROVE ViewInv'
    <3>1. CASE s \notin OnScreen \/ s \in screens
      BY <1>3, <2>6, <3>1 DEF ScreenArrives, ViewInv
    <3>2. CASE ~(s \notin OnScreen \/ s \in screens)
      <4>1. /\ UNCHANGED <<wt, listed, detached, focus>>
            /\ SyncOver(screens \cup {s}, attaching \ {s}, Landed(s))
        BY <2>6, <3>2 DEF ScreenArrives
      <4>2. screens \cup {s} \in SUBSET Sessions /\ attaching \ {s} \in SUBSET Sessions
            /\ Range(listed') \subseteq Sessions
        BY <1>3, <4>1
      <4>3. /\ screens' \subseteq Sessions /\ attaching' \subseteq Sessions
            /\ (wt' = NoTree => screens' = {})
        BY <4>1, <4>2, SyncView
      <4> QED
        BY <1>3, <4>1, <4>3 DEF ViewInv
    <3> QED
      BY <3>1, <3>2
  <2> QED
    BY <1>6, <2>2, <2>3, <2>4, <2>5, <2>6 DEF Message
<1>7. CASE User
  <2>1. ASSUME NEW k \in Cmds, NEW w \in Trees, PressOpen(w, k) \/ NewTab(w, k) PROVE ViewInv'
    BY <1>3, <2>1 DEF PressOpen, NewTab, SetFocus, ViewInv, attach
  <2>2. ASSUME NEW k \in Cmds, PickNew(k) PROVE ViewInv'
    BY <1>2, <2>2 DEF PickNew, attach
  <2>3. ASSUME \/ \E s : PickHidden(s) \/ Move(s) \/ SelectTab(s)
               \/ SplitPane \/ CloseFocused \/ CloseActive \/ ToggleZoom \/ Reattach \/ Resized
        PROVE  ViewInv'
    BY <1>3, <1>4, <2>3 DEF PickHidden, Move, SelectTab, SplitPane, CloseFocused, CloseActive,
      ToggleZoom, Reattach, Resized, Lay, KeepDetached
  <2>4. ASSUME NEW s, Click(s) PROVE ViewInv'
    BY <1>3, <2>4 DEF Click, Lay, SetFocus, ViewInv, attach
  <2>5. ASSUME NEW f \in {"sidebar", "terminal"}, GoTo(f) PROVE ViewInv'
    BY <1>3, <2>5 DEF GoTo, SetFocus, ViewInv, attach
  <2> QED
    BY <1>7, <2>1, <2>2, <2>3, <2>4, <2>5 DEF User
<1>8. CASE Restart
  <2>1. Range(listed') = {}
    BY <1>8 DEF Restart, Range
  <2> QED
    BY <1>8, <2>1 DEF Restart, ViewInv
<1>9. CASE UNCHANGED vars
  BY <1>2, <1>9 DEF vars, attach
<1> QED
  BY <1>5, <1>6, <1>7, <1>8, <1>9 DEF Next

LEMMA NextPanes == PaneInv /\ [Next]_vars => PaneInv'
<1> SUFFICES ASSUME PaneInv, [Next]_vars PROVE PaneInv'
  OBVIOUS
<1>1. ServerInv /\ CmdInv /\ ViewInv
  BY DEF PaneInv
<1>2. ServerInv' /\ CmdInv'
  BY <1>1, NextServer, NextCmd
<1>3. BenchInv' /\ KnownInv' /\ ViewInv'
  BY NextBench, NextView
<1> QED
  BY <1>2, <1>3 DEF PaneInv

LEMMA PanesAreSound == PaneInv => PanesSound
<1> SUFFICES ASSUME PaneInv PROVE PanesSound
  OBVIOUS
<1>1. /\ early \in SUBSET Sessions /\ ViewInv
      /\ \A w \in Trees : RightBench(bench[w]) /\ OneEach(bench[w].tabs, early)
  BY DEF PaneInv, BenchInv, BenchesRight
<1>2. ASSUME NEW w \in Trees, NEW i \in DOMAIN bench[w].tabs
      PROVE  /\ Range(bench[w].tabs[i].leaves) \subseteq Pane
             /\ bench[w].tabs[i].focus \in Range(bench[w].tabs[i].leaves)
  <2>1. PICK t : t = bench[w].tabs[i]
    OBVIOUS
  <2>2. RightTab(t)
    BY <1>1, <2>1 DEF RightBench
  <2>3. t.leaves \in Seq(Pane) /\ t.focus \in Range(t.leaves)
    BY <2>2 DEF RightTab, Tab
  <2> QED
    BY <2>1, <2>3, RangeOfSeq
<1>3. \A w \in Trees : /\ bench[w].zoom \in BOOLEAN /\ bench[w].known \subseteq Sessions
                       /\ bench[w].tabs # <<>> => bench[w].active \in DOMAIN bench[w].tabs
  BY <1>1 DEF RightBench, Bench
<1>4. TypeOK
  BY <1>1, <1>2, <1>3 DEF TypeOK, ViewInv
<1>5. OnePlace
  BY <1>1 DEF OnePlace, OneEach
<1> QED
  BY <1>4, <1>5 DEF PanesSound

\* Whatever messages arrive and in whatever order, no session is in two panes of
\* a worktree's layout but one whose pane came before its own reply, every tab has
\* its focus among its panes and the tab shown exists: PanesSound, of Reconcile,
\* Place and the keys of internal/tui/workbench.
THEOREM PanesStaySound == Spec => []PanesSound
<1>1. Init => PaneInv
  BY InitPanes
<1>2. PaneInv /\ [Next]_vars => PaneInv'
  BY NextPanes
<1>3. PaneInv => PanesSound
  BY PanesAreSound
<1> QED
  BY <1>1, <1>2, <1>3, PTL DEF Spec

-----------------------------------------------------------------------------
(***************************************************************************)
(* What a reload does to the focused pane: Reconcile's loop takes one from *)
(* the active index for a tab lost before it, and so does the filter.      *)
(***************************************************************************)
Less(gone, m) == IF \E g \in gone : g <= m THEN 1 ELSE 0

Turns(A, a, lost, n) ==
  /\ A[0] = a
  /\ \A m \in 1 .. n : A[m] = A[m - 1] - (IF m \in lost /\ m < A[m - 1] THEN 1 ELSE 0)

\* With one tab lost before the active one, every turn is right.
LEMMA LoopFollows ==
  ASSUME NEW n \in Nat, NEW a \in 1 .. n, NEW lost, a \notin lost,
         NEW gone, gone = lost \cap 1 .. a - 1, \A g, h \in gone : g = h,
         NEW A, Turns(A, a, lost, n)
  PROVE  A[n] = a - Less(gone, n)
<1> DEFINE Good == {m \in 0 .. n : A[m] = a - Less(gone, m)}
<1>1. Less(gone, 0) = 0
  BY DEF Less
<1>2. 0 \in Good
  BY <1>1 DEF Turns
<1>3. ASSUME NEW m \in 0 .. n, m \in Good, m < n PROVE m + 1 \in Good
  <2>1. /\ m + 1 \in 1 .. n /\ (m + 1) - 1 = m /\ m + 1 \in 0 .. n
        /\ A[m] = a - Less(gone, m)
    BY <1>3
  <2>2. A[m + 1] = A[m] - (IF m + 1 \in lost /\ m + 1 < A[m] THEN 1 ELSE 0)
    BY <2>1 DEF Turns
  <2>3. CASE m + 1 \in gone
    <3>1. m + 1 \in lost /\ m + 1 < a
      BY <2>3
    <3>2. Less(gone, m) = 0 /\ Less(gone, m + 1) = 1
      BY <2>3 DEF Less
    <3>3. A[m + 1] = a - 1
      BY <2>1, <2>2, <3>1, <3>2
    <3> QED
      BY <2>1, <3>2, <3>3
  <2>4. CASE m + 1 \notin gone
    <3>1. Less(gone, m) \in {0, 1} /\ Less(gone, m + 1) = Less(gone, m)
      BY <2>4 DEF Less
    <3>2. ~(m + 1 \in lost /\ m + 1 < a)
      BY <2>4
    <3>3. ~(m + 1 \in lost /\ m + 1 < A[m])
      BY <2>1, <3>1, <3>2
    <3>4. A[m + 1] = A[m]
      BY <2>1, <2>2, <3>1, <3>3
    <3> QED
      BY <2>1, <3>1, <3>4
  <2> QED
    BY <2>3, <2>4
<1>4. \A m \in 0 .. n : m \in Good
  <2> HIDE DEF Good
  <2> QED
    BY <1>2, <1>3, Upwards
<1> QED
  BY <1>4

\* The filter keeps the element at a, one place down for one lost before it.
LEMMA KeptAt ==
  ASSUME NEW T, NEW s \in Seq(T), NEW S, NEW a \in DOMAIN s, s[a] \in S,
         NEW gone, gone = {i \in 1 .. a - 1 : s[i] \notin S}, \A g, h \in gone : g = h,
         NEW p, p = a - Less(gone, Len(s))
  PROVE  p \in DOMAIN Only(s, S) /\ Only(s, S)[p] = s[a]
<1> DEFINE K == KeptUpto(s, S)
<1>1. PICK n \in Nat : n = Len(s) /\ DOMAIN s = 1 .. n
  BY LenProperties
<1>2. \A m \in 1 .. n : s[m] \in T
  BY <1>1, ElementOfSeq
<1>3. K[0] = <<>> /\ \A m \in 1 .. n : K[m] = IF s[m] \in S THEN Append(K[m - 1], s[m]) ELSE K[m - 1]
  BY <1>1, Stepwise
<1>4. a \in 1 .. n /\ p \in 1 .. a
  <2>1. gone = {} \/ \E g \in gone : g \in 1 .. a - 1 /\ g <= n
    BY <1>1
  <2> QED
    BY <1>1, <2>1 DEF Less
<1> HIDE DEF K
<1> DEFINE Good == {m \in 0 .. n : /\ K[m] \in Seq(T)
                                   /\ m < a => Len(K[m]) = m - Less(gone, m)
                                   /\ m >= a => Len(K[m]) >= p /\ K[m][p] = s[a]}
<1>5. 0 \in Good
  <2>1. K[0] \in Seq(T) /\ Len(K[0]) = 0 /\ Less(gone, 0) = 0
    BY <1>3 DEF Less
  <2> QED
    BY <1>4, <2>1
<1>6. ASSUME NEW m \in 0 .. n, m \in Good, m < n PROVE m + 1 \in Good
  <2>1. m + 1 \in 1 .. n /\ (m + 1) - 1 = m /\ m + 1 \in 0 .. n /\ m \in Nat
    BY <1>6
  <2>2. PICK o \in Seq(T) : o = K[m]
    BY <1>6
  <2>3. PICK l \in Nat : l = Len(o)
    BY <2>2, LenProperties
  <2>4. PICK x \in T : x = s[m + 1]
    BY <1>2, <2>1
  <2>5. PICK q : q = K[m + 1]
    OBVIOUS
  <2>6. q = IF x \in S THEN Append(o, x) ELSE o
    BY <1>3, <2>1, <2>2, <2>4, <2>5
  <2>7. /\ m < a => l = m - Less(gone, m)
        /\ m >= a => l >= p /\ o[p] = s[a]
    BY <1>6, <2>2, <2>3
  <2>8. /\ Append(o, x) \in Seq(T) /\ Len(Append(o, x)) = l + 1
        /\ \A i \in 1 .. l : Append(o, x)[i] = o[i]
        /\ Append(o, x)[l + 1] = x
    BY <2>2, <2>3, <2>4, AppendProperties
  <2>9. q \in Seq(T)
    BY <2>2, <2>6, <2>8
  <2>10. CASE m >= a
    <3>1. p \in 1 .. l
      BY <1>4, <2>7, <2>10
    <3>2. Len(q) >= p /\ q[p] = s[a]
      BY <1>4, <2>3, <2>6, <2>7, <2>8, <2>10, <3>1
    <3> QED
      BY <1>4, <2>1, <2>5, <2>9, <2>10, <3>2
  <2>11. CASE m < a /\ m + 1 = a
    <3>1. Less(gone, m) = Less(gone, Len(s))
      BY <1>1, <1>4, <2>1, <2>11 DEF Less
    <3>2. l + 1 = p
      BY <1>4, <2>1, <2>7, <2>11, <3>1 DEF Less
    <3>3. q = Append(o, x) /\ x = s[a]
      BY <2>4, <2>6, <2>11
    <3>4. Len(q) = p /\ q[p] = s[a]
      BY <2>8, <3>2, <3>3
    <3>5. ~(m + 1 < a) /\ p \in Nat
      BY <1>4, <2>1, <2>11
    <3>6. Len(K[m + 1]) >= p /\ K[m + 1][p] = s[a] /\ K[m + 1] \in Seq(T)
      BY <2>5, <2>9, <3>4, <3>5
    <3> QED
      BY <2>1, <3>5, <3>6
  <2>12. CASE m + 1 < a
    <3>1. m + 1 \in gone <=> x \notin S
      BY <1>4, <2>1, <2>4, <2>12
    <3>2. m < a /\ l = m - Less(gone, m)
      BY <1>4, <2>1, <2>7, <2>12
    <3>3. CASE x \notin S
      <4>1. Less(gone, m) = 0 /\ Less(gone, m + 1) = 1
        BY <2>1, <3>1, <3>3 DEF Less
      <4>2. q = o /\ l = m
        BY <2>1, <2>6, <3>2, <3>3, <4>1
      <4>3. Len(q) = (m + 1) - 1
        BY <2>1, <2>3, <4>2
      <4> QED
        BY <2>1, <2>5, <2>9, <2>12, <4>1, <4>3
    <3>4. CASE x \in S
      <4>1. Less(gone, m) \in {0, 1} /\ Less(gone, m + 1) = Less(gone, m)
        BY <2>1, <3>1, <3>4 DEF Less
      <4>2. Len(q) = (m + 1) - Less(gone, m + 1)
        BY <2>1, <2>6, <2>8, <3>2, <3>4, <4>1
      <4> QED
        BY <2>1, <2>5, <2>9, <2>12, <4>2
    <3> QED
      BY <3>3, <3>4
  <2> QED
    BY <1>4, <2>1, <2>10, <2>11, <2>12
<1>7. \A m \in 0 .. n : m \in Good
  <2> HIDE DEF Good
  <2> QED
    BY <1>5, <1>6, Upwards
<1>8. K[n] \in Seq(T) /\ Len(K[n]) >= p /\ K[n][p] = s[a]
  BY <1>4, <1>7
<1>9. Only(s, S) = K[n]
  BY <1>1 DEF Only, K
<1>10. p \in DOMAIN K[n]
  BY <1>4, <1>8, LenProperties
<1> QED
  BY <1>8, <1>9, <1>10

\* A list that takes one tab at most before the active one, and not the focused
\* session, leaves that focused.
LEMMA FocusReconciled ==
  ASSUME NEW b, RightBench(b), b.tabs # <<>>, NEW ss \in Seq(Sessions), Distinct(ss),
         \A g, h \in Gone(b, ss) : g = h,
         NEW f, f = Current(b).focus, f = Empty \/ f \in Range(ss),
         NEW r, r = Reconcile(b, ss)
  PROVE  Current(r).focus = f
<1>1. PICK live : live = Range(ss)
  OBVIOUS
<1>2. PICK new : new = Without(ss, b.known)
  OBVIOUS
<1>3. PICK tabs : tabs = Tabs(b, live, new)
  OBVIOUS
<1>4. PICK S : S = {t \in Range(b.tabs) : LeavesLeft(t, live) # <<>>}
  OBVIOUS
<1>5. PICK kept : kept = Only(b.tabs, S)
  OBVIOUS
<1>6. PICK a : a = b.active
  OBVIOUS
<1>7. /\ b.tabs \in Seq(Tab) /\ a \in DOMAIN b.tabs /\ b.active \in Int
      /\ \A i \in DOMAIN b.tabs : RightTab(b.tabs[i])
      /\ b = [tabs |-> b.tabs, active |-> b.active, zoom |-> b.zoom, known |-> b.known]
  BY <1>6 DEF RightBench, Bench
<1>8. PICK n \in Nat : n = Len(b.tabs) /\ DOMAIN b.tabs = 1 .. n
  BY <1>7, LenProperties
<1>9. PICK t : t = b.tabs[a]
  OBVIOUS
<1>10. t.focus = f /\ RightTab(t) /\ t \in Range(b.tabs)
  BY <1>6, <1>7, <1>9 DEF Current, Range
<1>11. live \in SUBSET Sessions /\ ss \in Seq(live)
  BY <1>1, RangeOfSeq, SeqOfRange
<1>12. f \in Range(LeavesLeft(t, live))
  <2>1. t.leaves \in Seq(Pane) /\ f \in Range(t.leaves) /\ f \in {Empty} \cup live
    BY <1>1, <1>10 DEF RightTab, Tab
  <2> QED
    BY <2>1, OnlyRange DEF LeavesLeft
<1>13. LeavesLeft(t, live) # <<>>
  BY <1>12 DEF Range
<1>14. \A i \in 1 .. n : b.tabs[i] \in S <=> LeavesLeft(b.tabs[i], live) # <<>>
  BY <1>4, <1>8 DEF Range
<1>15. PICK gone : gone = Gone(b, ss)
  OBVIOUS
<1>16. a \in 1 .. n /\ gone = {i \in 1 .. a - 1 : b.tabs[i] \notin S} /\ \A g, h \in gone : g = h
  <2>1. \A i \in 1 .. a - 1 : i \in 1 .. n
    BY <1>7, <1>8
  <2>2. gone = {i \in 1 .. a - 1 : LeavesLeft(b.tabs[i], live) = <<>>}
    BY <1>1, <1>6, <1>15 DEF Gone
  <2> QED
    BY <1>7, <1>8, <1>14, <1>15, <2>1, <2>2
<1>17. PICK p : p = a - Less(gone, n)
  OBVIOUS
<1>18. p \in DOMAIN kept /\ kept[p] = t
  <2>1. b.tabs[a] \in S
    BY <1>9, <1>13, <1>14, <1>16
  <2>2. p = a - Less(gone, Len(b.tabs))
    BY <1>8, <1>17
  <2>3. p \in DOMAIN Only(b.tabs, S) /\ Only(b.tabs, S)[p] = b.tabs[a]
    BY <1>7, <1>16, <2>1, <2>2, KeptAt
  <2> QED
    BY <1>5, <1>9, <2>3
<1>19. ActiveAfter(b, live) = p
  <2>1. PICK A : A = ActiveUpto(b, live)
    OBVIOUS
  <2>2. PICK lost : lost = {i \in 1 .. n : LeavesLeft(b.tabs[i], live) = <<>>}
    OBVIOUS
  <2>3. a \notin lost /\ gone = lost \cap 1 .. a - 1
    BY <1>9, <1>13, <1>14, <1>16, <2>2
  <2>4. /\ A[0] = a
        /\ \A m \in 1 .. n : A[m] = A[m - 1] -
             (IF LeavesLeft(b.tabs[m], live) = <<>> /\ m < A[m - 1] THEN 1 ELSE 0)
    BY <1>6, <1>7, <1>8, <2>1, LoopTurns
  <2>5. Turns(A, a, lost, n)
    BY <2>2, <2>4 DEF Turns
  <2>6. a \in 1 .. n /\ \A g, h \in gone : g = h
    BY <1>16
  <2>7. A[n] = a - Less(gone, n)
    BY <2>3, <2>5, <2>6, LoopFollows
  <2> QED
    BY <1>8, <1>17, <2>1, <2>7 DEF ActiveAfter
<1>20. kept \in Seq(Tab)
  BY <1>5, <1>7, OnlyRange
<1>21. PICK A : A = OldTabs(b, live)
  OBVIOUS
<1>22. PICK B : B = NewTabs(new)
  OBVIOUS
<1>23. A = [i \in DOMAIN kept |-> Remaining(kept[i], live)]
  BY <1>4, <1>5, <1>21 DEF OldTabs, Staying
<1>24. A \in Seq(Tab)
  <2>1. OneEach(b.tabs, Pane)
    <3>1. \A i \in DOMAIN b.tabs : \A m \in DOMAIN b.tabs[i].leaves : b.tabs[i].leaves[m] \in Pane
      BY <1>7, ElementOfSeq, LenProperties DEF RightTab, Tab
    <3> QED
      BY <3>1 DEF OneEach
  <2> QED
    BY <1>11, <1>21, <2>1, OldTabsRight
<1>25. B \in Seq(Tab)
  BY <1>2, <1>11, <1>22, NewTabsRight, OnlyRange DEF Without
<1>26. PICK all : all = A \o B
  OBVIOUS
<1>27. /\ p \in DOMAIN A /\ A[p] = Remaining(t, live)
  BY <1>18, <1>23
<1>28. /\ all \in Seq(Tab) /\ p \in 1 .. Len(all) /\ all[p] = A[p]
  <2>1. /\ A \o B \in Seq(Tab) /\ Len(A \o B) = Len(A) + Len(B)
        /\ \A i \in 1 .. Len(A) + Len(B) :
             (A \o B)[i] = IF i <= Len(A) THEN A[i] ELSE B[i - Len(A)]
    BY <1>24, <1>25, ConcatProperties
  <2>2. Len(A) \in Nat /\ Len(B) \in Nat /\ p \in 1 .. Len(A)
    BY <1>24, <1>25, <1>27, LenProperties
  <2>3. p \in 1 .. Len(A) + Len(B) /\ p <= Len(A)
    BY <2>2
  <2> QED
    BY <1>26, <2>1, <2>3
<1>29. tabs = all
  <2>1. tabs = IF A \o B = <<>> THEN <<EmptyTab>> ELSE A \o B
    BY <1>3, <1>21, <1>22 DEF Tabs, OldTabs, Staying, NewTabs
  <2>2. all # <<>>
    BY <1>28, EmptySeq
  <2> QED
    BY <1>26, <2>1, <2>2
<1>30. Within(p, 1, Len(tabs)) = p
  <2>1. Len(all) \in Nat
    BY <1>28, LenProperties
  <2> QED
    BY <1>28, <1>29, <2>1 DEF Within
<1>31. r.tabs = tabs /\ r.active = p
  <2>1. r = [b EXCEPT !.tabs = tabs, !.known = live, !.active = p]
    BY <1>1, <1>2, <1>3, <1>19, <1>30 DEF Reconcile
  <2> QED
    BY <1>7, <2>1
<1>32. r.tabs # <<>>
  BY <1>28, <1>29, <1>31, EmptySeq
<1>33. Current(r) = Remaining(t, live)
  BY <1>27, <1>28, <1>29, <1>31, <1>32 DEF Current
<1> QED
  BY <1>10, <1>12, <1>33 DEF Remaining

\* One at most, as TLC counts it.
LEMMA OneGone ==
  ASSUME NEW b, NEW ss, b.active \in Nat, Cardinality(Gone(b, ss)) <= 1
  PROVE  \A g, h \in Gone(b, ss) : g = h
<1>1. PICK gone : gone = Gone(b, ss)
  OBVIOUS
<1>2. PICK n \in Int : n = b.active - 1
  OBVIOUS
<1>3. IsFiniteSet(gone)
  <2>1. gone \subseteq 1 .. n
    BY <1>1, <1>2 DEF Gone
  <2>2. IsFiniteSet(1 .. n)
    BY FS_Interval
  <2> QED
    BY <2>1, <2>2, FS_Subset
<1>4. ASSUME NEW g \in gone, NEW h \in gone PROVE g = h
  <2>1. Cardinality({g, h}) <= Cardinality(gone)
    BY <1>3, <1>4, FS_Subset
  <2>2. ASSUME g # h PROVE Cardinality({g, h}) = 2
    <3>1. IsFiniteSet({g}) /\ Cardinality({g}) = 1 /\ h \notin {g} /\ {g, h} = {g} \cup {h}
      BY <2>2, FS_Singleton
    <3>2. Cardinality({g} \cup {h}) = Cardinality({g}) + 1
      BY <3>1, FS_AddElement
    <3> QED
      BY <3>1, <3>2
  <2>3. Cardinality(gone) <= 1 /\ Cardinality(gone) \in Nat
    BY <1>1, <1>3, FS_CardinalityType
  <2>4. Cardinality({g, h}) \in Nat
    BY <1>3, <1>4, FS_Subset, FS_CardinalityType
  <2> QED
    BY <2>1, <2>2, <2>3, <2>4
<1> QED
  BY <1>1, <1>4

-----------------------------------------------------------------------------
(***************************************************************************)
(* A list that arrives undoes nothing the user has done.                   *)
(***************************************************************************)
\* A session counts as closed for as long as its worktree knows it and shows it in
\* no pane.
ClosedInv ==
  DOMAIN closed = Trees /\ \A w \in Trees : closed[w] \subseteq bench[w].known \ PanesOf(bench[w])

LEMMA InitClosed == Init => ClosedInv
BY DEF Init, ClosedInv

\* No change of the user's makes a worktree forget a session.
LEMMA KnownKept ==
  ASSUME NEW b, DOMAIN b = Fields
  PROVE  /\ \A s : b.known \subseteq Place(b, s).known
         /\ \A s : Show(b, s).known = b.known
         /\ \A t : WithTab([b EXCEPT !.zoom = FALSE], t).known = b.known
         /\ \A i : [b EXCEPT !.active = i, !.zoom = FALSE].known = b.known
         /\ [b EXCEPT !.zoom = ~@].known = b.known
         /\ Split(b).known = b.known /\ CloseTab(b).known = b.known /\ ClosePane(b).known = b.known
<1>1. \A s : b.known \subseteq Place(b, s).known
  BY DEF Place, WithTab, Fields
<1>2. \A s : Show(b, s).known = b.known
  BY DEF Show, Fields
<1>3. \A t : WithTab([b EXCEPT !.zoom = FALSE], t).known = b.known
  BY DEF WithTab, Fields
<1>4. /\ \A i : [b EXCEPT !.active = i, !.zoom = FALSE].known = b.known
      /\ [b EXCEPT !.zoom = ~@].known = b.known
  BY DEF Fields
<1>5. Split(b).known = b.known
  BY <1>3 DEF Split
<1>6. CloseTab(b).known = b.known
  BY DEF CloseTab, Fields
<1>7. ClosePane(b).known = b.known
  BY <1>3, <1>6 DEF ClosePane
<1> QED
  BY <1>1, <1>2, <1>3, <1>4, <1>5, <1>6, <1>7

\* The user's changes: what lost its pane is closed, what got one is not.
LEMMA LayCloses ==
  ASSUME PaneInv, ClosedInv, NEW r, Lay(r), wt \in Trees, bench[wt].known \subseteq r.known
  PROVE  ClosedInv'
<1>1. PICK b : b = bench[wt]
  OBVIOUS
<1>2. DOMAIN bench = Trees /\ PanesOf(b) \subseteq {Empty} \cup b.known
  BY <1>1 DEF PaneInv, BenchInv, BenchesRight, RightBench
<1>3. /\ bench' = [bench EXCEPT ![wt] = r]
      /\ closed' = [closed EXCEPT ![wt] = (@ \cup PanesOf(b)) \ (PanesOf(r) \cup {Empty})]
  BY <1>1 DEF Lay
<1>4. bench'[wt] = r /\ closed'[wt] = (closed[wt] \cup PanesOf(b)) \ (PanesOf(r) \cup {Empty})
  BY <1>2, <1>3 DEF ClosedInv
<1>5. closed'[wt] \subseteq r.known \ PanesOf(r)
  BY <1>1, <1>2, <1>4 DEF ClosedInv
<1>6. \A w \in Trees \ {wt} : bench'[w] = bench[w] /\ closed'[w] = closed[w]
  BY <1>2, <1>3 DEF ClosedInv
<1>7. DOMAIN closed' = Trees
  BY <1>3 DEF ClosedInv
<1>8. ASSUME NEW w \in Trees PROVE closed'[w] \subseteq bench'[w].known \ PanesOf(bench'[w])
  <2>1. CASE w = wt
    BY <1>4, <1>5, <2>1
  <2>2. CASE w # wt
    BY <1>6, <2>2 DEF ClosedInv
  <2> QED
    BY <2>1, <2>2
<1> QED
  BY <1>7, <1>8 DEF ClosedInv

\* A list that is taken in: what it lacks is closed no more.
LEMMA ReplyCloses ==
  ASSUME PaneInv, ClosedInv, NEW k \in Cmds, TabsMsg(k), ~Stale(cmd[k])
  PROVE  ClosedInv'
<1>1. PICK c : c = cmd[k]
  OBVIOUS
<1>2. PICK r : r = Taken(c)
  OBVIOUS
<1>3. c.wt \in Trees /\ r.known = Range(c.got)
  BY <1>1, <1>2, ReplyIs DEF Answered, TabsMsg
<1>4. DOMAIN bench = Trees
  BY DEF PaneInv, BenchInv, BenchesRight
<1>5. /\ bench' = [bench EXCEPT ![c.wt] = r]
      /\ closed' = [closed EXCEPT ![c.wt] = (@ \cap Range(c.got)) \ PanesOf(bench'[c.wt])]
  BY <1>1, <1>2 DEF TabsMsg
<1>6. bench'[c.wt] = r /\ closed'[c.wt] = (closed[c.wt] \cap Range(c.got)) \ PanesOf(bench'[c.wt])
  BY <1>3, <1>4, <1>5 DEF ClosedInv
<1>7. \A w \in Trees \ {c.wt} : bench'[w] = bench[w] /\ closed'[w] = closed[w]
  BY <1>3, <1>4, <1>5 DEF ClosedInv
<1>8. DOMAIN closed' = Trees
  BY <1>5 DEF ClosedInv
<1>9. ASSUME NEW w \in Trees PROVE closed'[w] \subseteq bench'[w].known \ PanesOf(bench'[w])
  <2>1. CASE w = c.wt
    BY <1>3, <1>6, <2>1
  <2>2. CASE w # c.wt
    BY <1>7, <2>2 DEF ClosedInv
  <2> QED
    BY <2>1, <2>2
<1> QED
  BY <1>8, <1>9 DEF ClosedInv

LEMMA NextClosed ==
  PaneInv /\ FileInv /\ ClosedInv /\ [Next]_vars => ClosedInv'
<1> SUFFICES ASSUME PaneInv, FileInv, ClosedInv, [Next]_vars PROVE ClosedInv'
  OBVIOUS
<1>1. ASSUME UNCHANGED <<bench, closed>> PROVE ClosedInv'
  BY <1>1 DEF ClosedInv
<1>2. wt \in Trees \cup {NoTree} /\ \A w \in Trees : DOMAIN bench[w] = Fields
  BY DEF PaneInv, ViewInv, FileInv, Shaped
<1>3. Ready => wt \in Trees
  BY <1>2 DEF Ready
<1>4. CASE Server
  BY <1>1, <1>4 DEF Server, OtherCreates, SessionEnds, ListSessions, CreateSession, RequestFails, marks
<1>5. CASE Message
  <2>1. ASSUME NEW k \in Cmds, TabsMsg(k) PROVE ClosedInv'
    <3>1. CASE Stale(cmd[k])
      BY <1>1, <2>1, <3>1 DEF TabsMsg
    <3>2. CASE ~Stale(cmd[k])
      BY <2>1, <3>2, ReplyCloses
    <3> QED
      BY <3>1, <3>2
  <2>2. ASSUME NEW s \in Sessions, ScreenArrives(s) PROVE ClosedInv'
    BY <1>1, <2>2 DEF ScreenArrives, marks
  <2> QED
    BY <1>1, <1>5, <2>1, <2>2 DEF Message, OpenMsg, ClosedMsg, ScreenFails, marks
<1>6. CASE User
  <2>1. ASSUME NEW s \in Sessions, PickHidden(s) PROVE ClosedInv'
    BY <1>2, <1>3, <2>1, KnownKept, LayCloses DEF PickHidden, Lay
  <2>2. ASSUME NEW s \in Sessions, Move(s) PROVE ClosedInv'
    <3>1. PICK t : t = [Current(bench[wt]) EXCEPT !.focus = s]
      OBVIOUS
    <3>2. Lay(WithTab([bench[wt] EXCEPT !.zoom = FALSE], t)) /\ wt \in Trees
      BY <1>3, <2>2, <3>1 DEF Move
    <3>3. WithTab([bench[wt] EXCEPT !.zoom = FALSE], t).known = bench[wt].known
      BY <1>2, <3>2, KnownKept
    <3> QED
      BY <3>2, <3>3, LayCloses
  <2>3. ASSUME NEW s \in Pane, Click(s) PROVE ClosedInv'
    <3>1. Lay(Show(bench[wt], s)) /\ wt \in Trees
      BY <1>3, <2>3 DEF Click, Lay
    <3>2. Show(bench[wt], s).known = bench[wt].known
      BY <1>2, <3>1, KnownKept
    <3> QED
      BY <3>1, <3>2, LayCloses
  <2>4. ASSUME NEW i, SelectTab(i) PROVE ClosedInv'
    <3>1. PICK r : r = [bench[wt] EXCEPT !.active = i, !.zoom = FALSE]
      OBVIOUS
    <3>2. Lay(r) /\ wt \in Trees
      BY <1>3, <2>4, <3>1 DEF SelectTab
    <3>3. r.known = bench[wt].known
      BY <1>2, <3>1, <3>2, KnownKept
    <3> QED
      BY <3>2, <3>3, LayCloses
  <2>5. ASSUME SplitPane \/ CloseFocused \/ CloseActive \/ ToggleZoom PROVE ClosedInv'
    <3>1. PICK b : b = bench[wt]
      OBVIOUS
    <3>2. PICK r : Lay(r) /\ (r = Split(b) \/ r = ClosePane(b) \/ r = CloseTab(b)
                              \/ r = [b EXCEPT !.zoom = ~@])
      BY <2>5, <3>1 DEF SplitPane, CloseFocused, CloseActive, ToggleZoom
    <3>3. wt \in Trees /\ DOMAIN b = Fields
      BY <1>2, <1>3, <3>1, <3>2 DEF Lay
    <3>4. r.known = b.known
      BY <3>2, <3>3, KnownKept
    <3> QED
      BY <3>1, <3>2, <3>3, <3>4, LayCloses
  <2>6. ASSUME Reattach \/ Resized PROVE ClosedInv'
    BY <1>1, <2>6 DEF Reattach, Resized, marks
  <2>7. ASSUME NEW k \in Cmds, NEW w \in Trees, PressOpen(w, k) \/ NewTab(w, k) PROVE ClosedInv'
    BY <1>1, <2>7 DEF PressOpen, NewTab, marks
  <2>8. ASSUME NEW k \in Cmds, PickNew(k) PROVE ClosedInv'
    BY <1>1, <2>8 DEF PickNew, marks
  <2>9. ASSUME NEW f, GoTo(f) PROVE ClosedInv'
    BY <1>1, <2>9 DEF GoTo, marks
  <2> QED
    BY <1>6, <2>1, <2>2, <2>3, <2>4, <2>5, <2>6, <2>7, <2>8, <2>9 DEF User
<1>7. CASE Restart
  <2>1. bench' = file /\ UNCHANGED closed
    BY <1>7 DEF Restart, marks
  <2>2. ASSUME NEW w \in Trees
        PROVE  file[w].known = bench[w].known /\ PanesOf(file[w]) = PanesOf(bench[w])
    BY LayoutPanes DEF FileInv, LayoutOnFile
  <2> QED
    BY <2>1, <2>2 DEF ClosedInv
<1>8. CASE UNCHANGED vars
  BY <1>1, <1>8 DEF vars, marks
<1> QED
  BY <1>4, <1>5, <1>6, <1>7, <1>8 DEF Next

\* A closed session gets a pane from the user, its own reply, or not at all.
LEMMA ClosedStays ==
  PaneInv /\ FileInv /\ ClosedInv /\ [Next]_vars => ClosedStaysClosed
<1> SUFFICES ASSUME PaneInv, FileInv, ClosedInv, [Next]_vars,
                    NEW w \in Trees, NEW s \in Sessions,
                    s \in closed[w], s \in PanesOf(bench'[w])
             PROVE  acts' = acts + 1 \/ \E k \in Cmds : cmd[k].created = s /\ cmd'[k] = Idle
  BY Zenon DEF ClosedStaysClosed
<1>0. s \in bench[w].known \ PanesOf(bench[w])
  BY DEF ClosedInv
<1>1. ~UNCHANGED bench
  BY <1>0
<1>2. CASE Server
  BY <1>1, <1>2 DEF Server, OtherCreates, SessionEnds, ListSessions, CreateSession, RequestFails
<1>3. CASE Message
  <2>1. PICK k \in Cmds : TabsMsg(k)
    BY <1>1, <1>3 DEF Message, OpenMsg, ClosedMsg, ScreenFails, ScreenArrives
  <2>2. ~Stale(cmd[k])
    BY <1>1, <2>1 DEF TabsMsg
  <2>3. PICK c : c = cmd[k]
    OBVIOUS
  <2>4. PICK b : b = bench[c.wt]
    OBVIOUS
  <2>5. PICK r : r = Taken(c)
    OBVIOUS
  <2>6. /\ cmd[k].at = "reply" /\ cmd' = [cmd EXCEPT ![k] = Idle]
        /\ bench' = [bench EXCEPT ![c.wt] = r]
    BY <2>1, <2>2, <2>3, <2>5 DEF TabsMsg
  <2>7. Answered(r, b, c.created, early, c.got)
    BY <2>3, <2>4, <2>5, <2>6, ReplyIs
  <2>8. DOMAIN bench = Trees /\ DOMAIN cmd = Cmds
    BY DEF PaneInv, BenchInv, BenchesRight, CmdInv
  <2>9. w = c.wt /\ bench'[w] = r
    BY <1>0, <2>6, <2>8
  <2>10. PanesOf(r) \subseteq {Empty} \cup PanesOf(b) \cup (Range(c.got) \ b.known) \cup {c.created}
    BY <2>7 DEF Answered
  <2>11. s = c.created
    BY <1>0, <2>4, <2>9, <2>10, EmptyIsNone
  <2>12. cmd'[k] = Idle
    BY <2>6, <2>8
  <2> QED
    BY <2>3, <2>11, <2>12
<1>4. CASE User
  BY <1>1, <1>4 DEF User, PressOpen, NewTab, PickNew, PickHidden, Move, Click, SelectTab, SplitPane,
    CloseFocused, CloseActive, ToggleZoom, Reattach, Resized, GoTo, Act
<1>5. CASE Restart
  <2>1. bench' = file /\ Layout(file[w]) = Layout(bench[w])
    BY <1>5 DEF Restart, FileInv, LayoutOnFile
  <2> QED
    BY <1>0, <2>1, LayoutPanes
<1> QED
  BY <1>1, <1>2, <1>3, <1>4, <1>5 DEF Next, vars

\* A reply is over when it is handled.
LEMMA ReplyHandled ==
  ASSUME PaneInv, [Next]_vars, NEW k \in Cmds, cmd[k].at = "reply", cmd'[k].at = "idle",
         wt \in Trees, wt' = wt
  PROVE  TabsMsg(k)
<1>1. DOMAIN cmd = Cmds /\ Idle.at = "idle" /\ \A l \in Cmds : DOMAIN cmd[l] = {"kind", "wt", "at", "got", "created"}
  BY DEF PaneInv, CmdInv, Request, Idle
<1>2. cmd'[k] # cmd[k]
  OBVIOUS
<1>3. \A l \in Cmds : cmd[l] = Idle => l # k
  BY <1>1
<1>4. ASSUME NEW l \in Cmds, l # k, NEW d, cmd' = [cmd EXCEPT ![l] = d] PROVE FALSE
  BY <1>1, <1>2, <1>4
<1>5. CASE Server
  <2>1. ASSUME NEW l \in Cmds, ListSessions(l) PROVE FALSE
    <3>1. l # k
      BY <2>1 DEF ListSessions
    <3>2. PICK at, got : cmd' = [cmd EXCEPT ![l].at = at, ![l].got = got]
      BY <2>1 DEF ListSessions
    <3> QED
      BY <1>1, <1>2, <3>1, <3>2
  <2>2. ASSUME NEW l \in Cmds, CreateSession(l) PROVE FALSE
    BY <1>4, <2>2 DEF CreateSession
  <2>3. ASSUME NEW l \in Cmds, RequestFails(l) PROVE FALSE
    BY <1>4, <2>3 DEF RequestFails
  <2> QED
    BY <1>2, <1>5, <2>1, <2>2, <2>3 DEF Server, OtherCreates, SessionEnds
<1>6. CASE Message
  <2>1. ASSUME NEW l \in Cmds, OpenMsg(l) PROVE FALSE
    BY <1>4, <2>1 DEF OpenMsg
  <2>2. ASSUME NEW l \in Cmds, NEW s, ClosedMsg(s, l) PROVE FALSE
    BY <1>3, <1>4, <2>2 DEF ClosedMsg, Send
  <2>3. ASSUME NEW l \in Cmds, TabsMsg(l) PROVE l = k
    BY <1>4, <2>3 DEF TabsMsg
  <2> QED
    BY <1>2, <1>6, <2>1, <2>2, <2>3 DEF Message, ScreenFails, ScreenArrives
<1>7. CASE User
  <2>1. ASSUME NEW l \in Cmds, NEW kind, NEW w, NEW at, Send(l, kind, w, at) PROVE FALSE
    BY <1>3, <1>4, <2>1 DEF Send
  <2> QED
    BY <1>2, <1>7, <2>1 DEF User, PressOpen, NewTab, PickNew, PickHidden, Move, Click, SelectTab,
      SplitPane, CloseFocused, CloseActive, ToggleZoom, Reattach, Resized, GoTo, Lay
<1>8. CASE Restart
  BY <1>8, BoundsAssumption DEF Restart
<1>9. CASE UNCHANGED vars
  BY <1>2, <1>9 DEF vars
<1> QED
  BY <1>5, <1>6, <1>7, <1>8, <1>9 DEF Next

\* A reload leaves the focused pane focused, but for two tabs lost before it.
LEMMA FocusKept == PaneInv /\ [Next]_vars => FocusStays
<1> SUFFICES ASSUME PaneInv, [Next]_vars, NEW k \in Cmds, Ready,
                    Cardinality(Gone(bench[wt], cmd[k].got)) <= 1,
                    cmd[k].at = "reply", cmd[k].created = 0, cmd[k].wt = wt,
                    cmd'[k].at = "idle", wt' = wt,
                    \/ Current(bench[wt]).focus = Empty
                    \/ Current(bench[wt]).focus \in Range(cmd[k].got)
             PROVE  /\ Current(bench'[wt]).focus = Current(bench[wt]).focus
                    /\ cmd[k].kind = "quiet" => focus' = focus
  BY Zenon DEF FocusStays, ReloadKeeps
<1>1. PICK c : c = cmd[k]
  OBVIOUS
<1>2. PICK b : b = bench[wt]
  OBVIOUS
<1>3. PICK r : r = Reconcile(b, c.got)
  OBVIOUS
<1>4. PICK f : f = Current(b).focus
  OBVIOUS
<1>5. wt \in Trees /\ b.tabs # <<>>
  BY <1>2 DEF PaneInv, ViewInv, Ready
<1>6. TabsMsg(k)
  BY <1>5, ReplyHandled
<1>7. Request(c, made) /\ c.got \in Seq(Sessions) /\ RightBench(b) /\ Distinct(c.got)
  BY <1>1, <1>2, ReplyIs DEF Request
<1>8. c.kind # "into" /\ ~Stale(c)
  BY <1>1, <1>7 DEF Request, Stale
<1>9. Taken(c) = r
  BY <1>1, <1>2, <1>3, <1>8 DEF Taken, Placed
<1>10. /\ bench' = [bench EXCEPT ![wt] = r]
       /\ focus' = IF c.kind = "quiet" THEN focus ELSE "terminal"
  BY <1>1, <1>6, <1>8, <1>9 DEF TabsMsg
<1>11. bench'[wt] = r
  BY <1>5, <1>10 DEF PaneInv, BenchInv, BenchesRight
<1>12. \A g, h \in Gone(b, c.got) : g = h
  <2>1. b.active \in Nat
    BY <1>7 DEF RightBench, Bench
  <2> QED
    BY <1>1, <1>2, <2>1, OneGone
<1>13. PICK got \in Seq(Sessions) : got = c.got
  BY <1>7
<1>14. f = Empty \/ f \in Range(got)
  BY <1>1, <1>2, <1>4, <1>13
<1>15. Current(r).focus = f
  BY <1>3, <1>4, <1>5, <1>7, <1>12, <1>13, <1>14, FocusReconciled
<1> QED
  BY <1>1, <1>2, <1>4, <1>10, <1>11, <1>15

\* A session whose pane was closed stays hidden over every restart and every list that
\* has it, however late, until the user shows it or the request that made it is
\* answered (a list without it makes Reconcile forget it, and ends this); and a reload
\* nobody asked for leaves the focused pane focused while its session is there, as long
\* as one tab at most before it vanishes: Workbench.Reconcile.
THEOREM ReloadsUndoNothing == Spec => ReloadsHarmless
<1> DEFINE IInv == PaneInv /\ FileInv /\ ClosedInv
<1>1. Init => IInv
  BY InitPanes, InitFile, InitClosed
<1>2. IInv /\ [Next]_vars => IInv'
  BY NextPanes, NextFile, NextClosed
<1>3. IInv /\ [Next]_vars => [ClosedStaysClosed /\ FocusStays]_vars
  BY ClosedStays, FocusKept
<1> QED
  BY <1>1, <1>2, <1>3, PTL DEF Spec, ReloadsHarmless

-----------------------------------------------------------------------------
(***************************************************************************)
(* The split tree of a tab (Panes).  PanesInv says that the tree is a tree *)
(* and that its leaves, in the order of their paths, are the list of the   *)
(* panes.  Everything drawn follows from it where there is room: places    *)
(* nest and part at the first turn that differs, so they tile the area;    *)
(* across every divider the corner panes are neighbors, so no set of panes *)
(* is closed under the arrows; and what a divider's move gives or takes,   *)
(* the panes below it gain or lose.                                        *)
(***************************************************************************)

\* The turns of a path, and the path of its first n turns.
Paths == Seq(BOOLEAN)
Up(p, n) == SubSeq(p, 1, n)

\* t is a tree of depth at most n: a node other than the root has a split above
\* it, a split has a node on either side.
Splitting ==
  {n \in [leaf : {FALSE}, dir : Splits, num : Nat, den : Nat \ {0}] :
     n.den <= 10 * n.num /\ 10 * n.num <= 9 * n.den}
Ending == [leaf : {TRUE}, session : Contents]
Grown(t, n) ==
  /\ t = [p \in DOMAIN t |-> t[p]]
  /\ Root \in DOMAIN t
  /\ \A p \in DOMAIN t :
       /\ p \in Paths /\ Len(p) <= n
       /\ t[p] \in Splitting \cup Ending
       /\ p # Root => Front(p) \in DOMAIN t /\ ~t[Front(p)].leaf
       /\ ~t[p].leaf => \A b \in BOOLEAN : Append(p, b) \in DOMAIN t
IsTree(t) == \E n \in Nat : Grown(t, n)

\* One turn more, one turn less.
LEMMA LongerPath ==
  ASSUME NEW p \in Paths, NEW b \in BOOLEAN
  PROVE  /\ Append(p, b) \in Paths /\ Len(Append(p, b)) = Len(p) + 1
         /\ Append(p, b) # Root /\ Last(Append(p, b)) = b
         /\ Front(Append(p, b)) = p
         /\ \A i \in 1..Len(p) : Append(p, b)[i] = p[i]
<1>1. Len(p) \in Nat  BY LenProperties DEF Paths
<1>2. /\ Append(p, b) \in Paths /\ Len(Append(p, b)) = Len(p) + 1
      /\ \A i \in 1..Len(p) : Append(p, b)[i] = p[i]
      /\ Append(p, b)[Len(p) + 1] = b
  BY AppendProperties DEF Paths
<1>3. Append(p, b) # Root /\ Last(Append(p, b)) = b
  BY <1>1, <1>2 DEF Root, Last
<1>4. PICK q : q = Append(p, b)  OBVIOUS
<1>5. q \in Seq(BOOLEAN) /\ Len(q) = Len(p) + 1 /\ \A i \in 1..Len(p) : q[i] = p[i] /\ q[i] \in BOOLEAN
  BY <1>2, <1>4, LenProperties, ElementOfSeq DEF Paths
<1>6. Front(q) = p
  <2>1. PICK m : m = Len(q) - 1  OBVIOUS
  <2>2. m = Len(p) /\ m \in Int /\ m \in Nat  BY <1>1, <1>5, <2>1
  <2>3. \A i \in 1..m : q[i] \in BOOLEAN  BY <1>5, <2>2
  <2>4. /\ SubSeq(q, 1, m) \in Seq(BOOLEAN)
        /\ Len(SubSeq(q, 1, m)) = IF 1 <= m THEN m - 1 + 1 ELSE 0
        /\ \A i \in 1..m - 1 + 1 : SubSeq(q, 1, m)[i] = q[1 + i - 1]
    BY <2>2, <2>3, SubSeqProperties
  <2>5. Len(SubSeq(q, 1, m)) = Len(p)  BY <2>2, <2>4
  <2>6. \A i \in 1..Len(p) : SubSeq(q, 1, m)[i] = p[i]  BY <1>5, <2>2, <2>4
  <2>7. SubSeq(q, 1, m) = p  BY <2>4, <2>5, <2>6, SeqEqual DEF Paths
  <2> QED  BY <2>1, <2>7 DEF Front
<1> QED  BY <1>2, <1>3, <1>4, <1>6

\* The first n turns of a path are a path of n turns.
LEMMA UpIs ==
  ASSUME NEW p \in Paths, NEW n \in 0..Len(p)
  PROVE  /\ Up(p, n) \in Paths /\ Len(Up(p, n)) = n
         /\ \A i \in 1..n : Up(p, n)[i] = p[i]
<1>1. Len(p) \in Nat /\ n \in Int /\ n \in Nat /\ n <= Len(p)  BY LenProperties DEF Paths
<1>2. \A i \in 1..n : p[i] \in BOOLEAN  BY <1>1, ElementOfSeq DEF Paths
<1>3. /\ SubSeq(p, 1, n) \in Seq(BOOLEAN)
      /\ Len(SubSeq(p, 1, n)) = IF 1 <= n THEN n - 1 + 1 ELSE 0
      /\ \A i \in 1..n - 1 + 1 : SubSeq(p, 1, n)[i] = p[1 + i - 1]
  BY <1>1, <1>2, SubSeqProperties
<1> QED  BY <1>1, <1>3 DEF Paths, Up

\* No turns lead to the root, all of them to the node.
LEMMA UpWhole ==
  ASSUME NEW p \in Paths
  PROVE  Len(p) \in Nat /\ Up(p, 0) = Root /\ Up(p, Len(p)) = p
<1>1. Len(p) \in Nat  BY LenProperties DEF Paths
<1>2. Up(p, 0) \in Paths /\ Len(Up(p, 0)) = 0  BY <1>1, UpIs
<1>3. Up(p, 0) = Root  BY <1>2, EmptySeq DEF Root, Paths
<1>4. Len(p) \in 0..Len(p)  BY <1>1
<1>5. /\ Up(p, Len(p)) \in Paths /\ Len(Up(p, Len(p))) = Len(p)
      /\ \A i \in 1..Len(p) : Up(p, Len(p))[i] = p[i]
  BY <1>4, UpIs
<1>6. Up(p, Len(p)) = p  BY <1>5, SeqEqual DEF Paths
<1> QED  BY <1>1, <1>3, <1>6

\* Paths with the same turns are the same.
LEMMA SamePath ==
  ASSUME NEW p \in Paths, NEW q \in Paths, Len(p) = Len(q), \A i \in 1..Len(p) : p[i] = q[i]
  PROVE  p = q
BY SeqEqual DEF Paths

\* One turn more down a path.
LEMMA UpNext ==
  ASSUME NEW p \in Paths, NEW n \in 0..Len(p) - 1
  PROVE  p[n + 1] \in BOOLEAN /\ Up(p, n + 1) = Append(Up(p, n), p[n + 1])
<1>1. Len(p) \in Nat  BY LenProperties DEF Paths
<1>2. n \in 0..Len(p) /\ n + 1 \in 0..Len(p) /\ n + 1 \in 1..Len(p) /\ n \in Nat  BY <1>1
<1>3. p[n + 1] \in BOOLEAN  BY <1>2, ElementOfSeq DEF Paths
<1>4. PICK u : u = Up(p, n)  OBVIOUS
<1>5. PICK v : v = Up(p, n + 1)  OBVIOUS
<1>6. u \in Paths /\ Len(u) = n /\ \A i \in 1..n : u[i] = p[i]  BY <1>2, <1>4, UpIs
<1>7. v \in Paths /\ Len(v) = n + 1 /\ \A i \in 1..n + 1 : v[i] = p[i]  BY <1>2, <1>5, UpIs
<1>8. PICK b : b = p[n + 1]  OBVIOUS
<1>9. PICK w : w = Append(u, b)  OBVIOUS
<1>10. /\ w \in Paths /\ Len(w) = n + 1 /\ (\A i \in 1..n : w[i] = u[i]) /\ w[n + 1] = b
  BY <1>3, <1>6, <1>8, <1>9, AppendProperties DEF Paths
<1>11. \A i \in 1..n + 1 : v[i] = w[i]
  <2> SUFFICES ASSUME NEW i \in 1..n + 1 PROVE v[i] = w[i]  OBVIOUS
  <2>1. CASE i = n + 1  BY <1>7, <1>8, <1>10, <2>1
  <2>2. CASE i # n + 1
    <3>1. i \in 1..n  BY <1>2, <2>2
    <3> QED  BY <1>6, <1>7, <1>10, <3>1
  <2> QED  BY <2>1, <2>2
<1>12. v = w  BY <1>7, <1>10, <1>11, SamePath
<1> QED  BY <1>3, <1>4, <1>5, <1>8, <1>9, <1>12

\* A path that is not empty is the one a turn above it and its last turn.
LEMMA PathEnd ==
  ASSUME NEW p \in Paths, p # Root
  PROVE  /\ Len(p) \in Nat \ {0} /\ Front(p) \in Paths /\ Len(Front(p)) = Len(p) - 1
         /\ Last(p) \in BOOLEAN /\ p = Append(Front(p), Last(p))
         /\ Front(p) = Up(p, Len(p) - 1)
<1>1. Len(p) \in Nat \ {0}  BY EmptySeq DEF Root, Paths
<1>2. PICK n : n = Len(p) - 1  OBVIOUS
<1>3. n \in 0..Len(p) - 1 /\ n \in 0..Len(p) /\ n + 1 = Len(p)  BY <1>1, <1>2
<1>4. Up(p, n) \in Paths /\ Len(Up(p, n)) = n  BY <1>3, UpIs
<1>5. p[n + 1] \in BOOLEAN /\ Up(p, n + 1) = Append(Up(p, n), p[n + 1])  BY <1>3, UpNext
<1>6. Up(p, n + 1) = p  BY <1>3, UpWhole
<1> QED  BY <1>1, <1>2, <1>3, <1>4, <1>5, <1>6 DEF Front, Last, Up

\* The nodes above a node are splits of the tree.
LEMMA Ancestors ==
  ASSUME NEW t, IsTree(t), NEW p \in DOMAIN t
  PROVE  /\ p \in Paths /\ Len(p) \in Nat
         /\ \A n \in 0..Len(p) : Up(p, n) \in DOMAIN t /\ (n < Len(p) => ~t[Up(p, n)].leaf)
<1>1. PICK N \in Nat : Grown(t, N)  BY DEF IsTree
<1>2. p \in Paths /\ Len(p) \in Nat  BY <1>1, LenProperties DEF Grown, Paths
<1> DEFINE Good == {m \in 0..Len(p) : Up(p, Len(p) - m) \in DOMAIN t
                                        /\ (m > 0 => ~t[Up(p, Len(p) - m)].leaf)}
<1>3. 0 \in Good
  <2>1. Up(p, Len(p) - 0) = p  BY <1>2, UpWhole
  <2> QED  BY <1>2, <2>1
<1>4. ASSUME NEW m \in 0..Len(p), m \in Good, m < Len(p) PROVE m + 1 \in Good
  <2>1. PICK k : k = Len(p) - (m + 1)  OBVIOUS
  <2>2. k \in 0..Len(p) - 1 /\ k + 1 = Len(p) - m /\ k \in 0..Len(p) /\ k + 1 \in 0..Len(p)
    BY <1>2, <1>4, <2>1
  <2>3. PICK u : u = Up(p, k + 1)  OBVIOUS
  <2>4. u \in DOMAIN t  BY <1>4, <2>2, <2>3
  <2>5. u \in Paths /\ Len(u) = k + 1  BY <1>2, <2>2, <2>3, UpIs
  <2>6. u # Root
    BY <2>2, <2>5, EmptySeq DEF Root
  <2>7. Front(u) \in DOMAIN t /\ ~t[Front(u)].leaf  BY <1>1, <2>4, <2>6 DEF Grown
  <2>8. PICK v : v = Up(p, k)  OBVIOUS
  <2>9. v \in Paths  BY <1>2, <2>2, <2>8, UpIs
  <2>10. p[k + 1] \in BOOLEAN /\ u = Append(v, p[k + 1])  BY <1>2, <2>2, <2>3, <2>8, UpNext
  <2>11. Front(u) = v  BY <2>9, <2>10, LongerPath
  <2>12. m + 1 \in 0..Len(p)  BY <1>2, <1>4
  <2> QED  BY <2>1, <2>7, <2>8, <2>11, <2>12
<1> HIDE DEF Good
<1>5. \A m \in 0..Len(p) : m \in Good  BY <1>2, <1>3, <1>4, Upwards
<1>6. ASSUME NEW n \in 0..Len(p)
      PROVE  Up(p, n) \in DOMAIN t /\ (n < Len(p) => ~t[Up(p, n)].leaf)
  <2>1. PICK m : m = Len(p) - n  OBVIOUS
  <2>2. m \in 0..Len(p) /\ Len(p) - m = n /\ (n < Len(p) => m > 0)  BY <1>2, <1>6, <2>1
  <2>3. m \in Good  BY <1>5, <2>2
  <2> QED  BY <2>2, <2>3 DEF Good
<1> QED  BY <1>2, <1>6

\* The walk over the tree reaches every node: its places are defined.
LEMMA PlacesWalk ==
  ASSUME NEW t, IsTree(t), NEW r
  PROVE  Places(t, r) = [p \in DOMAIN t |->
           IF p = Root THEN r
           ELSE Halves(t[Front(p)], Places(t, r)[Front(p)])[IF Last(p) THEN 2 ELSE 1]]
<1>1. PICK N \in Nat : Grown(t, N)  BY DEF IsTree
<1> DEFINE D(n) == {p \in DOMAIN t : Len(p) <= n}
           E(F, p) == IF p = Root THEN r ELSE Halves(t[Front(p)], F[Front(p)])[IF Last(p) THEN 2 ELSE 1]
           Def(F, n) == F = [p \in D(n) |-> E(F, p)]
           Known == {n \in 0..N : \E F : Def(F, n)}
<1>2. \A p \in DOMAIN t : p \in Paths /\ Len(p) \in Nat /\ Len(p) <= N
  BY <1>1, LenProperties DEF Grown, Paths
<1>3. \A p \in DOMAIN t : p # Root => Front(p) \in DOMAIN t /\ Len(Front(p)) = Len(p) - 1
  BY <1>1, <1>2, PathEnd DEF Grown
<1>4. 0 \in Known
  <2> DEFINE F == [p \in D(0) |-> r]
  <2>1. ASSUME NEW p \in D(0) PROVE p = Root
    BY <1>2, EmptySeq DEF Root, Paths
  <2>2. F = [p \in D(0) |-> E(F, p)]  BY <2>1
  <2>3. Def(F, 0)  BY <2>2
  <2>4. 0 \in 0..N  OBVIOUS
  <2> HIDE DEF F, Def
  <2> QED  BY <2>3, <2>4
<1>5. ASSUME NEW n \in 0..N, n \in Known, n < N PROVE n + 1 \in Known
  <2>1. PICK F : Def(F, n)  BY <1>5
  <2> DEFINE G == [p \in D(n + 1) |-> E(F, p)]
  <2>2. ASSUME NEW p \in D(n) PROVE p \in D(n + 1) /\ F[p] = G[p]
    <3>1. p \in D(n + 1)  BY <1>2, <2>2
    <3>2. F[p] = E(F, p)  BY <2>1, <2>2
    <3> QED  BY <3>1, <3>2
  <2>3. ASSUME NEW p \in D(n + 1), p # Root PROVE Front(p) \in D(n)
    <3>1. p \in DOMAIN t /\ Len(p) <= n + 1  BY <2>3
    <3>2. Front(p) \in DOMAIN t /\ Len(Front(p)) = Len(p) - 1  BY <1>3, <2>3, <3>1
    <3>3. Len(p) \in Nat  BY <1>2, <3>1
    <3>4. Len(Front(p)) <= n  BY <3>1, <3>2, <3>3
    <3> QED  BY <3>2, <3>4
  <2>4. ASSUME NEW p \in D(n + 1) PROVE E(F, p) = E(G, p)
    <3>1. CASE p = Root  BY <3>1
    <3>2. CASE p # Root
      <4>1. F[Front(p)] = G[Front(p)]  BY <2>2, <2>3, <3>2
      <4> QED  BY <3>2, <4>1
    <3> QED  BY <3>1, <3>2
  <2>5. G = [p \in D(n + 1) |-> E(G, p)]  BY <2>4
  <2>6. Def(G, n + 1)  BY <2>5
  <2>7. n + 1 \in 0..N  BY <1>1, <1>5
  <2> HIDE DEF G, Def
  <2> QED  BY <2>6, <2>7
<1>6. N \in Known
  <2> HIDE DEF Known
  <2>1. \A m \in 0..N : m \in Known  BY <1>1, <1>4, <1>5, Upwards
  <2> QED  BY <1>1, <2>1
<1>7. D(N) = DOMAIN t  BY <1>2
<1>8. \E F : F = [p \in DOMAIN t |-> E(F, p)]
  BY <1>6, <1>7
<1> QED  BY <1>8 DEF Places

\* A rectangle of whole cells, at least one of them.
Whole(r) ==
  /\ r = [x |-> r.x, y |-> r.y, w |-> r.w, h |-> r.h]
  /\ r.x \in Int /\ r.y \in Int /\ r.w \in Int /\ r.h \in Int /\ r.w >= 1 /\ r.h >= 1

\* Room for both sides of the split n.
Fits2(n, r) == IF n.dir = "right" THEN r.w >= 3 ELSE r.h >= 2
Half(n, r, b) == Halves(n, r)[IF b THEN 2 ELSE 1]

\* A Rect and its fields.
LEMMA RectIs ==
  ASSUME NEW a, NEW x, NEW y, NEW w, NEW h, a = Rect(x, y, w, h)
  PROVE  /\ a = [x |-> a.x, y |-> a.y, w |-> a.w, h |-> a.h]
         /\ a.x = x /\ a.y = y /\ a.w = w /\ a.h = h
BY DEF Rect

\* A share is a number of cells.
LEMMA ShareIsWhole ==
  ASSUME NEW n \in Splitting, NEW k \in Int
  PROVE  Share(n, k) \in Int
<1>1. n.num \in Nat /\ n.den \in Nat /\ n.den # 0  BY DEF Splitting
<1>2. PICK d : d = 2 * n.den  OBVIOUS
<1>3. d \in Nat /\ d > 0  BY <1>1, <1>2
<1>4. PICK m : m = 2 * k * n.num + n.den  OBVIOUS
<1>5. k * n.num \in Int  BY <1>1
<1>6. m \in Int  BY <1>1, <1>4, <1>5
<1>7. m \div d \in Int  BY <1>3, <1>6
<1> QED  BY <1>2, <1>4, <1>7 DEF Share

\* Where a split draws its line: after how many cells the second half may begin.
LEMMA Cut ==
  ASSUME NEW n \in Splitting, NEW r, Whole(r), Fits2(n, r)
  PROVE  \E k \in Int :
           \/ /\ n.dir = "right" /\ 1 <= k /\ k <= r.w - 2
              /\ Half(n, r, FALSE) = Rect(r.x, r.y, k, r.h)
              /\ Half(n, r, TRUE) = Rect(r.x + k + 1, r.y, r.w - k - 1, r.h)
           \/ /\ n.dir = "down" /\ 1 <= k /\ k <= r.h - 1
              /\ Half(n, r, FALSE) = Rect(r.x, r.y, r.w, k)
              /\ Half(n, r, TRUE) = Rect(r.x, r.y + k, r.w, r.h - k)
<1>1. n.dir = "right" \/ n.dir = "down"  BY DEF Splitting, Splits
<1>2. r.w \in Int /\ r.h \in Int /\ r.w - 1 \in Int  BY DEF Whole
<1>3. CASE n.dir = "right"
  <2>1. PICK s \in Int : s = Share(n, r.w - 1)  BY <1>2, ShareIsWhole
  <2>2. PICK k : k = Lesser(Larger(s, 1), r.w - 2)  OBVIOUS
  <2>3. r.w >= 3  BY <1>3 DEF Fits2
  <2>4. k \in Int /\ 1 <= k /\ k <= r.w - 2  BY <1>2, <2>1, <2>2, <2>3 DEF Lesser, Larger
  <2>5. Halves(n, r) = <<Rect(r.x, r.y, k, r.h), Rect(r.x + k + 1, r.y, r.w - k - 1, r.h)>>
    BY <1>3, <2>1, <2>2 DEF Halves
  <2> QED  BY <1>3, <2>4, <2>5 DEF Half
<1>4. CASE n.dir = "down"
  <2>1. PICK s \in Int : s = Share(n, r.h)  BY <1>2, ShareIsWhole
  <2>2. PICK k : k = Lesser(Larger(s, 1), r.h - 1)  OBVIOUS
  <2>3. r.h >= 2  BY <1>4 DEF Fits2
  <2>4. k \in Int /\ 1 <= k /\ k <= r.h - 1  BY <1>2, <2>1, <2>2, <2>3 DEF Lesser, Larger
  <2>5. Halves(n, r) = <<Rect(r.x, r.y, r.w, k), Rect(r.x, r.y + k, r.w, r.h - k)>>
    BY <1>4, <2>1, <2>2 DEF Halves
  <2> QED  BY <1>4, <2>4, <2>5 DEF Half
<1> QED  BY <1>1, <1>3, <1>4

\* The halves lie in the whole, apart, and leave out at most a column.
LEMMA HalvesFit ==
  ASSUME NEW n \in Splitting, NEW r, Whole(r), Fits2(n, r)
  PROVE  /\ \A b \in BOOLEAN : Whole(Half(n, r, b))
         /\ \A c \in Int \X Int :
              /\ \A b \in BOOLEAN : Covers(Half(n, r, b), c) => Covers(r, c)
              /\ ~(Covers(Half(n, r, FALSE), c) /\ Covers(Half(n, r, TRUE), c))
<1>1. PICK k \in Int :
           \/ /\ n.dir = "right" /\ 1 <= k /\ k <= r.w - 2
              /\ Half(n, r, FALSE) = Rect(r.x, r.y, k, r.h)
              /\ Half(n, r, TRUE) = Rect(r.x + k + 1, r.y, r.w - k - 1, r.h)
           \/ /\ n.dir = "down" /\ 1 <= k /\ k <= r.h - 1
              /\ Half(n, r, FALSE) = Rect(r.x, r.y, r.w, k)
              /\ Half(n, r, TRUE) = Rect(r.x, r.y + k, r.w, r.h - k)
  BY Cut
<1>2. PICK a : a = Half(n, r, FALSE)  OBVIOUS
<1>3. PICK z : z = Half(n, r, TRUE)  OBVIOUS
<1>4. r.x \in Int /\ r.y \in Int /\ r.w \in Int /\ r.h \in Int /\ r.w >= 1 /\ r.h >= 1  BY DEF Whole
<1>5. /\ a = [x |-> a.x, y |-> a.y, w |-> a.w, h |-> a.h]
      /\ z = [x |-> z.x, y |-> z.y, w |-> z.w, h |-> z.h]
      /\ a.x = r.x /\ a.y = r.y
      /\ \/ a.w = k /\ a.h = r.h /\ z.x = r.x + k + 1 /\ z.y = r.y /\ z.w = r.w - k - 1 /\ z.h = r.h
              /\ 1 <= k /\ k <= r.w - 2
         \/ a.w = r.w /\ a.h = k /\ z.x = r.x /\ z.y = r.y + k /\ z.w = r.w /\ z.h = r.h - k
              /\ 1 <= k /\ k <= r.h - 1
  <2>1. CASE /\ n.dir = "right" /\ 1 <= k /\ k <= r.w - 2
             /\ Half(n, r, FALSE) = Rect(r.x, r.y, k, r.h)
             /\ Half(n, r, TRUE) = Rect(r.x + k + 1, r.y, r.w - k - 1, r.h)
    <3>1. /\ a = [x |-> a.x, y |-> a.y, w |-> a.w, h |-> a.h]
          /\ a.x = r.x /\ a.y = r.y /\ a.w = k /\ a.h = r.h
      <4>1. a = Rect(r.x, r.y, k, r.h)  BY <1>2, <2>1
      <4> QED  BY <4>1 DEF Rect
    <3>2. /\ z = [x |-> z.x, y |-> z.y, w |-> z.w, h |-> z.h]
          /\ z.x = r.x + k + 1 /\ z.y = r.y /\ z.w = r.w - k - 1 /\ z.h = r.h
      <4>1. z = Rect(r.x + k + 1, r.y, r.w - k - 1, r.h)  BY <1>3, <2>1
      <4> QED  BY <4>1 DEF Rect
    <3> QED  BY <2>1, <3>1, <3>2
  <2>2. CASE /\ n.dir = "down" /\ 1 <= k /\ k <= r.h - 1
             /\ Half(n, r, FALSE) = Rect(r.x, r.y, r.w, k)
             /\ Half(n, r, TRUE) = Rect(r.x, r.y + k, r.w, r.h - k)
    <3>1. /\ a = [x |-> a.x, y |-> a.y, w |-> a.w, h |-> a.h]
          /\ a.x = r.x /\ a.y = r.y /\ a.w = r.w /\ a.h = k
      <4>1. a = Rect(r.x, r.y, r.w, k)  BY <1>2, <2>2
      <4> QED  BY <4>1 DEF Rect
    <3>2. /\ z = [x |-> z.x, y |-> z.y, w |-> z.w, h |-> z.h]
          /\ z.x = r.x /\ z.y = r.y + k /\ z.w = r.w /\ z.h = r.h - k
      <4>1. z = Rect(r.x, r.y + k, r.w, r.h - k)  BY <1>3, <2>2
      <4> QED  BY <4>1 DEF Rect
    <3> QED  BY <2>2, <3>1, <3>2
  <2> QED  BY <1>1, <2>1, <2>2
<1>6. Whole(a) /\ Whole(z)  BY <1>4, <1>5 DEF Whole
<1>7. ASSUME NEW c \in Int \X Int
      PROVE  /\ Covers(a, c) => Covers(r, c)
             /\ Covers(z, c) => Covers(r, c)
             /\ ~(Covers(a, c) /\ Covers(z, c))
  <2>1. c[1] \in Int /\ c[2] \in Int  OBVIOUS
  <2> QED  BY <1>4, <1>5, <2>1 DEF Covers
<1> QED  BY <1>2, <1>3, <1>6, <1>7

\* A cell is in one half, or on the line between them; the line of a split to the
\* right is in neither, and the search for dividers turns into the right half.
LEMMA LineBetween ==
  ASSUME NEW n \in Splitting, NEW r, Whole(r), Fits2(n, r), NEW c \in Int \X Int
  PROVE  /\ n.dir = "right" /\ HasDivider(n, r, c[1], c[2])
              => Covers(r, c) /\ \A b \in BOOLEAN : ~Covers(Half(n, r, b), c)
         /\ Covers(r, c) /\ ~HasDivider(n, r, c[1], c[2])
              => Covers(Half(n, r, c[1] >= Half(n, r, TRUE).x /\ c[2] >= Half(n, r, TRUE).y), c)
<1>1. PICK k \in Int :
           \/ /\ n.dir = "right" /\ 1 <= k /\ k <= r.w - 2
              /\ Half(n, r, FALSE) = Rect(r.x, r.y, k, r.h)
              /\ Half(n, r, TRUE) = Rect(r.x + k + 1, r.y, r.w - k - 1, r.h)
           \/ /\ n.dir = "down" /\ 1 <= k /\ k <= r.h - 1
              /\ Half(n, r, FALSE) = Rect(r.x, r.y, r.w, k)
              /\ Half(n, r, TRUE) = Rect(r.x, r.y + k, r.w, r.h - k)
  BY Cut
<1>2. PICK a : a = Half(n, r, FALSE)  OBVIOUS
<1>3. PICK z : z = Half(n, r, TRUE)  OBVIOUS
<1>4. r.x \in Int /\ r.y \in Int /\ r.w \in Int /\ r.h \in Int /\ r.w >= 1 /\ r.h >= 1  BY DEF Whole
<1>5. Halves(n, r)[1] = a /\ Halves(n, r)[2] = z  BY <1>2, <1>3 DEF Half
<1>6. PICK x \in Int : x = c[1]  OBVIOUS
<1>7. PICK y \in Int : y = c[2]  OBVIOUS
<1>8. PICK turn \in BOOLEAN : turn = (x >= z.x /\ y >= z.y)  OBVIOUS
<1>9. PICK h : h = Half(n, r, turn)  OBVIOUS
<1>10. (turn => h = z) /\ (~turn => h = a)  BY <1>2, <1>3, <1>8, <1>9
<1>11. HasDivider(n, r, x, y) <=>
         \/ n.dir = "right" /\ x = a.x + a.w /\ y \in r.y..(r.y + r.h - 1)
         \/ n.dir = "down" /\ y = z.y /\ x \in r.x..(r.x + r.w - 1)
  BY <1>5 DEF HasDivider
<1>12. CASE /\ n.dir = "right" /\ 1 <= k /\ k <= r.w - 2
            /\ a = Rect(r.x, r.y, k, r.h)
            /\ z = Rect(r.x + k + 1, r.y, r.w - k - 1, r.h)
  <2>1. /\ a.x = r.x /\ a.y = r.y /\ a.w = k /\ a.h = r.h
        /\ z.x = r.x + k + 1 /\ z.y = r.y /\ z.w = r.w - k - 1 /\ z.h = r.h
    BY <1>12 DEF Rect
  <2>2. HasDivider(n, r, x, y) <=> x = r.x + k /\ y \in r.y..(r.y + r.h - 1)
    BY <1>11, <1>12, <2>1
  <2>3. HasDivider(n, r, x, y) => Covers(r, c) /\ ~Covers(a, c) /\ ~Covers(z, c)
    BY <1>4, <1>6, <1>7, <1>12, <2>1, <2>2 DEF Covers
  <2>4. Covers(r, c) /\ ~HasDivider(n, r, x, y) => Covers(h, c)
    <3> SUFFICES ASSUME Covers(r, c), ~HasDivider(n, r, x, y) PROVE Covers(h, c)  OBVIOUS
    <3>1. x \in r.x..(r.x + r.w - 1) /\ y \in r.y..(r.y + r.h - 1)
      BY <1>6, <1>7 DEF Covers
    <3>2. x # r.x + k  BY <2>2, <3>1
    <3>3. CASE turn
      <4>1. x >= z.x /\ h = z  BY <1>8, <1>10, <3>3
      <4>2. x \in z.x..(z.x + z.w - 1) /\ y \in z.y..(z.y + z.h - 1)
        BY <1>4, <2>1, <3>1, <4>1
      <4> QED  BY <1>6, <1>7, <4>1, <4>2 DEF Covers
    <3>4. CASE ~turn
      <4>1. h = a  BY <1>10, <3>4
      <4>2. ~(x >= z.x /\ y >= z.y)  BY <1>8, <3>4
      <4>3. y >= z.y  BY <1>4, <2>1, <3>1
      <4>4. x < z.x  BY <1>4, <2>1, <4>2, <4>3
      <4>5. x \in a.x..(a.x + a.w - 1) /\ y \in a.y..(a.y + a.h - 1)
        BY <1>4, <2>1, <3>1, <3>2, <4>4
      <4> QED  BY <1>6, <1>7, <4>1, <4>5 DEF Covers
    <3> QED  BY <3>3, <3>4
  <2> QED  BY <1>2, <1>3, <1>6, <1>7, <1>8, <1>9, <2>3, <2>4
<1>13. CASE /\ n.dir = "down" /\ 1 <= k /\ k <= r.h - 1
            /\ a = Rect(r.x, r.y, r.w, k)
            /\ z = Rect(r.x, r.y + k, r.w, r.h - k)
  <2>1. /\ a.x = r.x /\ a.y = r.y /\ a.w = r.w /\ a.h = k
        /\ z.x = r.x /\ z.y = r.y + k /\ z.w = r.w /\ z.h = r.h - k
    BY <1>13 DEF Rect
  <2>2. HasDivider(n, r, x, y) <=> y = r.y + k /\ x \in r.x..(r.x + r.w - 1)
    BY <1>11, <1>13, <2>1
  <2>4. Covers(r, c) /\ ~HasDivider(n, r, x, y) => Covers(h, c)
    <3> SUFFICES ASSUME Covers(r, c), ~HasDivider(n, r, x, y) PROVE Covers(h, c)  OBVIOUS
    <3>1. x \in r.x..(r.x + r.w - 1) /\ y \in r.y..(r.y + r.h - 1)
      BY <1>6, <1>7 DEF Covers
    <3>2. x >= z.x  BY <1>4, <2>1, <3>1
    <3>3. CASE turn
      <4>1. y >= z.y /\ h = z  BY <1>8, <1>10, <3>3
      <4>2. x \in z.x..(z.x + z.w - 1) /\ y \in z.y..(z.y + z.h - 1)
        BY <1>4, <2>1, <3>1, <4>1
      <4> QED  BY <1>6, <1>7, <4>1, <4>2 DEF Covers
    <3>4. CASE ~turn
      <4>1. h = a  BY <1>10, <3>4
      <4>2. ~(x >= z.x /\ y >= z.y)  BY <1>8, <3>4
      <4>3. y < z.y  BY <1>4, <2>1, <3>2, <4>2
      <4>5. x \in a.x..(a.x + a.w - 1) /\ y \in a.y..(a.y + a.h - 1)
        BY <1>4, <2>1, <3>1, <4>3
      <4> QED  BY <1>6, <1>7, <4>1, <4>5 DEF Covers
    <3> QED  BY <3>3, <3>4
  <2> QED  BY <1>6, <1>7, <1>8, <1>9, <1>2, <1>3, <1>13, <2>4
<1> QED  BY <1>1, <1>2, <1>3, <1>12, <1>13

\* There is room for the tree t in r.
RoomFor(t, r) ==
  /\ Whole(r)
  /\ \A p \in DOMAIN t \ LeafPaths(t) : Fits2(t[p], Places(t, r)[p])

\* The root is drawn in the whole, the sides of a split in its halves.
LEMMA PlaceIs ==
  ASSUME NEW t, IsTree(t), NEW r
  PROVE  /\ Root \in DOMAIN t /\ Places(t, r)[Root] = r
         /\ \A p \in DOMAIN t : ~t[p].leaf =>
              /\ t[p] \in Splitting
              /\ \A b \in BOOLEAN : /\ Append(p, b) \in DOMAIN t
                                    /\ Places(t, r)[Append(p, b)] = Half(t[p], Places(t, r)[p], b)
<1>1. PICK N \in Nat : Grown(t, N)  BY DEF IsTree
<1>2. Root \in DOMAIN t /\ \A p \in DOMAIN t : p \in Paths  BY <1>1 DEF Grown
<1> DEFINE P == Places(t, r)
<1>3. P = [p \in DOMAIN t |->
           IF p = Root THEN r ELSE Halves(t[Front(p)], P[Front(p)])[IF Last(p) THEN 2 ELSE 1]]
  BY PlacesWalk
<1> HIDE DEF P
<1>4. \A p \in DOMAIN t : P[p] =
           IF p = Root THEN r ELSE Halves(t[Front(p)], P[Front(p)])[IF Last(p) THEN 2 ELSE 1]
  BY <1>3, Zenon
<1>5. P[Root] = r  BY <1>2, <1>4
<1>6. ASSUME NEW p \in DOMAIN t, ~t[p].leaf
      PROVE  /\ t[p] \in Splitting
             /\ \A b \in BOOLEAN : Append(p, b) \in DOMAIN t /\ P[Append(p, b)] = Half(t[p], P[p], b)
  <2>1. t[p] \in Splitting
    <3>1. t[p] \in Splitting \cup Ending  BY <1>1 DEF Grown
    <3> QED  BY <1>6, <3>1 DEF Ending
  <2>2. ASSUME NEW b \in BOOLEAN
        PROVE  Append(p, b) \in DOMAIN t /\ P[Append(p, b)] = Half(t[p], P[p], b)
    <3>1. Append(p, b) \in DOMAIN t  BY <1>1, <1>6 DEF Grown
    <3>2. PICK q : q = Append(p, b)  OBVIOUS
    <3>3. q # Root /\ Last(q) = b /\ Front(q) = p  BY <1>2, <1>6, <3>2, LongerPath
    <3>4. P[q] = Halves(t[p], P[p])[IF b THEN 2 ELSE 1]  BY <1>4, <3>1, <3>2, <3>3
    <3> QED  BY <3>1, <3>2, <3>4 DEF Half
  <2> QED  BY <2>1, <2>2
<1> QED  BY <1>2, <1>5, <1>6 DEF P

\* Down along a path, a node's place lies in the places of the nodes above.
LEMMA PlaceBelow ==
  ASSUME NEW t, IsTree(t), NEW r, RoomFor(t, r), NEW p \in DOMAIN t, NEW n \in 0..Len(p) - 1
  PROVE  /\ Whole(Places(t, r)[Up(p, n)]) => Whole(Places(t, r)[Up(p, n + 1)])
         /\ Whole(Places(t, r)[Up(p, n)]) => \A c \in Int \X Int :
              Covers(Places(t, r)[Up(p, n + 1)], c) => Covers(Places(t, r)[Up(p, n)], c)
<1>1. p \in Paths /\ Len(p) \in Nat /\ n \in 0..Len(p) /\ n < Len(p)  BY Ancestors
<1>2. Up(p, n) \in DOMAIN t /\ ~t[Up(p, n)].leaf  BY <1>1, Ancestors
<1>3. PICK u : u = Up(p, n)  OBVIOUS
<1>4. PICK b : b = p[n + 1]  OBVIOUS
<1>5. b \in BOOLEAN /\ Up(p, n + 1) = Append(u, b)  BY <1>1, <1>3, <1>4, UpNext
<1>6. PICK s : s = Places(t, r)[u]  OBVIOUS
<1>7. t[u] \in Splitting /\ Places(t, r)[Append(u, b)] = Half(t[u], s, b)
  BY <1>2, <1>3, <1>5, <1>6, PlaceIs
<1>8. Fits2(t[u], s)  BY <1>2, <1>3, <1>6 DEF RoomFor, LeafPaths
<1>9. PICK m : m = t[u]  OBVIOUS
<1>10. ASSUME Whole(s)
       PROVE  Whole(Half(m, s, b)) /\ \A c \in Int \X Int : Covers(Half(m, s, b), c) => Covers(s, c)
  BY <1>5, <1>7, <1>8, <1>9, <1>10, HalvesFit
<1> QED  BY <1>3, <1>5, <1>6, <1>7, <1>9, <1>10

\* With room for the tree, every ancestor's place is whole cells and not empty.
LEMMA PlacesWhole ==
  ASSUME NEW t, IsTree(t), NEW r, RoomFor(t, r), NEW p \in DOMAIN t
  PROVE  \A n \in 0..Len(p) : Whole(Places(t, r)[Up(p, n)])
<1>1. p \in Paths /\ Len(p) \in Nat  BY Ancestors
<1> DEFINE Good == {n \in 0..Len(p) : Whole(Places(t, r)[Up(p, n)])}
<1>2. 0 \in Good
  <2>1. Up(p, 0) = Root  BY <1>1, UpWhole
  <2>2. Places(t, r)[Root] = r  BY PlaceIs
  <2> QED  BY <1>1, <2>1, <2>2 DEF RoomFor
<1>3. ASSUME NEW n \in 0..Len(p), n \in Good, n < Len(p) PROVE n + 1 \in Good
  <2>1. n \in 0..Len(p) - 1 /\ n + 1 \in 0..Len(p)  BY <1>1, <1>3
  <2> QED  BY <1>3, <2>1, PlaceBelow
<1> HIDE DEF Good
<1>4. \A n \in 0..Len(p) : n \in Good  BY <1>1, <1>2, <1>3, Upwards
<1> QED  BY <1>4 DEF Good

\* And so is every node's.
LEMMA PlaceWhole ==
  ASSUME NEW t, IsTree(t), NEW r, RoomFor(t, r), NEW p \in DOMAIN t
  PROVE  Whole(Places(t, r)[p])
<1>1. p \in Paths /\ Len(p) \in Nat /\ Up(p, Len(p)) = p  BY Ancestors, UpWhole
<1>2. Len(p) \in 0..Len(p)  BY <1>1
<1> QED  BY <1>1, <1>2, PlacesWhole

\* A cell of a node is a cell of its ancestors.
LEMMA Nested ==
  ASSUME NEW t, IsTree(t), NEW r, RoomFor(t, r), NEW p \in DOMAIN t,
         NEW c \in Int \X Int, Covers(Places(t, r)[p], c)
  PROVE  \A n \in 0..Len(p) : Covers(Places(t, r)[Up(p, n)], c)
<1>1. p \in Paths /\ Len(p) \in Nat /\ Up(p, Len(p)) = p  BY Ancestors, UpWhole
<1> DEFINE Good == {m \in 0..Len(p) : Covers(Places(t, r)[Up(p, Len(p) - m)], c)}
<1>2. 0 \in Good
  <2>1. Len(p) - 0 = Len(p) /\ 0 \in 0..Len(p)  BY <1>1
  <2> QED  BY <1>1, <2>1
<1>3. ASSUME NEW m \in 0..Len(p), m \in Good, m < Len(p) PROVE m + 1 \in Good
  <2>1. PICK n : n = Len(p) - (m + 1)  OBVIOUS
  <2>2. n \in 0..Len(p) - 1 /\ n \in 0..Len(p) /\ n + 1 = Len(p) - m /\ m + 1 \in 0..Len(p)
    BY <1>1, <1>3, <2>1
  <2>3. Whole(Places(t, r)[Up(p, n)])  BY <2>2, PlacesWhole
  <2>4. Covers(Places(t, r)[Up(p, n + 1)], c)  BY <1>3, <2>2
  <2>5. Covers(Places(t, r)[Up(p, n)], c)  BY <2>2, <2>3, <2>4, PlaceBelow
  <2> QED  BY <2>1, <2>2, <2>5
<1> HIDE DEF Good
<1>4. \A m \in 0..Len(p) : m \in Good  BY <1>1, <1>2, <1>3, Upwards
<1>5. ASSUME NEW n \in 0..Len(p) PROVE Covers(Places(t, r)[Up(p, n)], c)
  <2>1. PICK m : m = Len(p) - n  OBVIOUS
  <2>2. m \in 0..Len(p) /\ Len(p) - m = n  BY <1>1, <2>1
  <2>3. m \in Good  BY <1>4, <2>2
  <2> QED  BY <2>2, <2>3 DEF Good
<1> QED  BY <1>5

\* Where two paths part for the first time.
Parting(p, q, i) ==
  /\ i \in 1..Len(p) /\ i \in 1..Len(q) /\ p[i] # q[i]
  /\ \A j \in 1..i - 1 : p[j] = q[j]

\* Two paths part at a turn, or one goes on where the other ends.
LEMMA Diverge ==
  ASSUME NEW p \in Paths, NEW q \in Paths, p # q
  PROVE  \/ \E i \in Nat : Parting(p, q, i)
         \/ Len(p) < Len(q) /\ Up(q, Len(p)) = p
         \/ Len(q) < Len(p) /\ Up(p, Len(q)) = q
<1>1. Len(p) \in Nat /\ Len(q) \in Nat  BY LenProperties DEF Paths
<1> DEFINE Diff == {i \in 1..Len(p) : i <= Len(q) /\ p[i] # q[i]}
<1>2. CASE Diff # {}
  <2>1. Diff \in SUBSET Nat  BY <1>1
  <2>2. PICK i \in Diff : \A j \in Diff : i <= j  BY <1>2, <2>1, Least
  <2>3. i \in Nat /\ i \in 1..Len(p) /\ i \in 1..Len(q) /\ p[i] # q[i]  BY <1>1
  <2>4. ASSUME NEW j \in 1..i - 1 PROVE p[j] = q[j]
    <3>1. j \in 1..Len(p) /\ j <= Len(q) /\ ~(i <= j)  BY <1>1, <2>3
    <3> QED  BY <2>2, <3>1
  <2> QED  BY <2>3, <2>4 DEF Parting
<1>3. CASE Diff = {}
  <2>1. \A i \in 1..Len(p) : i <= Len(q) => p[i] = q[i]  BY <1>3
  <2>2. CASE Len(p) = Len(q)
    <3>1. p = q  BY <1>1, <2>1, <2>2, SamePath
    <3> QED  BY <3>1
  <2>3. CASE Len(p) < Len(q)
    <3>1. PICK u : u = Up(q, Len(p))  OBVIOUS
    <3>2. Len(p) \in 0..Len(q)  BY <1>1, <2>3
    <3>3. u \in Paths /\ Len(u) = Len(p) /\ \A i \in 1..Len(p) : u[i] = q[i]  BY <3>1, <3>2, UpIs
    <3>4. \A i \in 1..Len(p) : u[i] = p[i]  BY <1>1, <2>1, <2>3, <3>3
    <3>5. u = p  BY <3>3, <3>4, SamePath
    <3> QED  BY <2>3, <3>1, <3>5
  <2>4. CASE Len(q) < Len(p)
    <3>1. PICK u : u = Up(p, Len(q))  OBVIOUS
    <3>2. Len(q) \in 0..Len(p)  BY <1>1, <2>4
    <3>3. u \in Paths /\ Len(u) = Len(q) /\ \A i \in 1..Len(q) : u[i] = p[i]  BY <3>1, <3>2, UpIs
    <3>4. \A i \in 1..Len(q) : u[i] = q[i]  BY <1>1, <2>1, <2>4, <3>3
    <3>5. u = q  BY <3>3, <3>4, SamePath
    <3> QED  BY <2>4, <3>1, <3>5
  <2> QED  BY <1>1, <2>2, <2>3, <2>4
<1> QED  BY <1>2, <1>3

\* Nodes below different sides of a split share no cell.
LEMMA ApartBelow ==
  ASSUME NEW t, IsTree(t), NEW r, RoomFor(t, r), NEW p \in DOMAIN t, NEW q \in DOMAIN t,
         NEW i \in Nat, Parting(p, q, i), NEW c \in Int \X Int,
         Covers(Places(t, r)[p], c), Covers(Places(t, r)[q], c)
  PROVE  FALSE
<1>1. p \in Paths /\ Len(p) \in Nat /\ q \in Paths /\ Len(q) \in Nat  BY Ancestors
<1>2. PICK n : n = i - 1  OBVIOUS
<1>3. /\ n \in 0..Len(p) - 1 /\ n \in 0..Len(q) - 1 /\ n \in 0..Len(p) /\ n \in 0..Len(q)
      /\ n + 1 = i /\ n < Len(p) /\ i \in 0..Len(p) /\ i \in 0..Len(q)
  BY <1>1, <1>2 DEF Parting
<1>4. PICK u : u = Up(p, n)  OBVIOUS
<1>5. u \in Paths /\ Len(u) = n /\ \A j \in 1..n : u[j] = p[j]  BY <1>1, <1>3, <1>4, UpIs
<1>6. Up(q, n) = u
  <2>1. PICK v : v = Up(q, n)  OBVIOUS
  <2>2. v \in Paths /\ Len(v) = n /\ \A j \in 1..n : v[j] = q[j]  BY <1>1, <1>3, <2>1, UpIs
  <2>3. \A j \in 1..n : p[j] = q[j]  BY <1>2 DEF Parting
  <2>4. \A j \in 1..n : v[j] = u[j]  BY <1>5, <2>2, <2>3
  <2>5. v = u  BY <1>5, <2>2, <2>4, SamePath
  <2> QED  BY <2>1, <2>5
<1>7. u \in DOMAIN t /\ ~t[u].leaf  BY <1>3, <1>4, Ancestors
<1>8. PICK a : a = p[i]  OBVIOUS
<1>9. PICK b : b = q[i]  OBVIOUS
<1>10. a \in BOOLEAN /\ Up(p, i) = Append(u, a)  BY <1>1, <1>3, <1>4, <1>8, UpNext
<1>11. b \in BOOLEAN /\ Up(q, i) = Append(u, b)  BY <1>1, <1>3, <1>6, <1>9, UpNext
<1>12. Covers(Places(t, r)[Append(u, a)], c)  BY <1>3, <1>10, Nested
<1>13. Covers(Places(t, r)[Append(u, b)], c)  BY <1>3, <1>11, Nested
<1>14. PICK s : s = Places(t, r)[u]  OBVIOUS
<1>15. PICK m : m = t[u]  OBVIOUS
<1>16. m \in Splitting /\ Whole(s) /\ Fits2(m, s)
  BY <1>7, <1>14, <1>15, PlaceIs, PlaceWhole DEF RoomFor, LeafPaths
<1>17. Covers(Half(m, s, a), c) /\ Covers(Half(m, s, b), c)
  BY <1>7, <1>10, <1>11, <1>12, <1>13, <1>14, <1>15, PlaceIs
<1>18. ~(Covers(Half(m, s, FALSE), c) /\ Covers(Half(m, s, TRUE), c))  BY <1>16, HalvesFit
<1>19. a # b  BY <1>8, <1>9 DEF Parting
<1>20. (a = FALSE /\ b = TRUE) \/ (a = TRUE /\ b = FALSE)  BY <1>10, <1>11, <1>19
<1>21. CASE a = FALSE /\ b = TRUE  BY <1>17, <1>18, <1>21
<1>22. CASE a = TRUE /\ b = FALSE  BY <1>17, <1>18, <1>22
<1> QED  BY <1>20, <1>21, <1>22

\* A leaf has no node below it.
LEMMA LeafEnds ==
  ASSUME NEW t, IsTree(t), NEW p \in LeafPaths(t), NEW q \in DOMAIN t
  PROVE  ~(Len(p) < Len(q) /\ Up(q, Len(p)) = p)
<1>1. p \in DOMAIN t /\ t[p].leaf  BY DEF LeafPaths
<1>2. Len(p) \in Nat /\ Len(q) \in Nat  BY <1>1, Ancestors
<1>3. ASSUME Len(p) < Len(q), Up(q, Len(p)) = p PROVE FALSE
  <2>1. Len(p) \in 0..Len(q)  BY <1>2, <1>3
  <2>2. ~t[Up(q, Len(p))].leaf  BY <1>3, <2>1, Ancestors
  <2> QED  BY <1>1, <1>3, <2>2
<1> QED  BY <1>3

\* No cell is in two leaves.
LEMMA LeavesApart ==
  ASSUME NEW t, IsTree(t), NEW r, RoomFor(t, r), NEW p \in LeafPaths(t), NEW q \in LeafPaths(t),
         NEW c \in Int \X Int, Covers(Places(t, r)[p], c), Covers(Places(t, r)[q], c)
  PROVE  p = q
<1> SUFFICES ASSUME p # q PROVE FALSE  OBVIOUS
<1>1. p \in DOMAIN t /\ q \in DOMAIN t  BY DEF LeafPaths
<1>2. p \in Paths /\ q \in Paths  BY <1>1, Ancestors
<1>3. \/ \E i \in Nat : Parting(p, q, i)
      \/ Len(p) < Len(q) /\ Up(q, Len(p)) = p
      \/ Len(q) < Len(p) /\ Up(p, Len(q)) = q
  BY <1>2, Diverge
<1>4. \A i \in Nat : ~Parting(p, q, i)  BY <1>1, ApartBelow
<1> QED  BY <1>1, <1>3, <1>4, LeafEnds

\* The column of a split to the right is in no leaf.
LEMMA LineFree ==
  ASSUME NEW t, IsTree(t), NEW r, RoomFor(t, r), NEW p \in DOMAIN t, ~t[p].leaf,
         NEW c \in Int \X Int, t[p].dir = "right",
         HasDivider(t[p], Places(t, r)[p], c[1], c[2]), NEW q \in LeafPaths(t)
  PROVE  ~Covers(Places(t, r)[q], c)
<1> SUFFICES ASSUME Covers(Places(t, r)[q], c) PROVE FALSE  OBVIOUS
<1>1. q \in DOMAIN t /\ t[q].leaf  BY DEF LeafPaths
<1>2. p \in Paths /\ q \in Paths /\ Len(p) \in Nat /\ Len(q) \in Nat /\ p # q  BY <1>1, Ancestors
<1>3. PICK s : s = Places(t, r)[p]  OBVIOUS
<1>4. PICK m : m = t[p]  OBVIOUS
<1>5. m \in Splitting /\ Whole(s) /\ Fits2(m, s)
  BY <1>3, <1>4, PlaceIs, PlaceWhole DEF RoomFor, LeafPaths
<1>6. Covers(s, c) /\ \A b \in BOOLEAN : ~Covers(Half(m, s, b), c)
  BY <1>3, <1>4, <1>5, LineBetween
<1>7. \A i \in Nat : ~Parting(p, q, i)  BY <1>1, <1>3, <1>6, ApartBelow
<1>8. ~(Len(q) < Len(p) /\ Up(p, Len(q)) = q)  BY LeafEnds
<1>9. Len(p) < Len(q) /\ Up(q, Len(p)) = p  BY <1>2, <1>7, <1>8, Diverge
<1>10. PICK n : n = Len(p)  OBVIOUS
<1>11. n \in 0..Len(q) - 1 /\ n + 1 \in 0..Len(q)  BY <1>2, <1>9, <1>10
<1>12. PICK b : b = q[n + 1]  OBVIOUS
<1>13. b \in BOOLEAN /\ Up(q, n + 1) = Append(p, b)  BY <1>2, <1>9, <1>10, <1>11, <1>12, UpNext
<1>14. Covers(Places(t, r)[Append(p, b)], c)  BY <1>1, <1>11, <1>13, Nested
<1>15. Covers(Half(m, s, b), c)  BY <1>3, <1>4, <1>13, <1>14, PlaceIs
<1> QED  BY <1>6, <1>13, <1>15

\* No session is in two leaves.
OneLeafEach(t) == \A p, q \in LeafPaths(t) : t[p].session = t[q].session => p = q

\* With one leaf to a session, a leaf is its session's path.
LEMMA PathOfLeaf ==
  ASSUME NEW t, OneLeafEach(t), NEW p \in LeafPaths(t)
  PROVE  t[p].session \in Shown(t) /\ PathOf(t, t[p].session) = p
<1>1. PICK s : s = t[p].session  OBVIOUS
<1>2. PICK q : q = PathOf(t, s)  OBVIOUS
<1>3. \E u \in LeafPaths(t) : t[u].session = s  BY <1>1
<1>4. q \in LeafPaths(t) /\ t[q].session = s  BY <1>2, <1>3 DEF PathOf
<1>5. q = p  BY <1>1, <1>4 DEF OneLeafEach
<1>6. s \in Shown(t)  BY <1>1 DEF Shown
<1> QED  BY <1>1, <1>2, <1>5, <1>6

\* A session that is shown has a leaf.
LEMMA PathOfShown ==
  ASSUME NEW t, NEW s \in Shown(t)
  PROVE  PathOf(t, s) \in LeafPaths(t) /\ t[PathOf(t, s)].session = s /\ PathOf(t, s) \in DOMAIN t
<1>1. \E u \in LeafPaths(t) : t[u].session = s  BY DEF Shown
<1>2. PICK q : q = PathOf(t, s)  OBVIOUS
<1>3. q \in LeafPaths(t) /\ t[q].session = s  BY <1>1, <1>2 DEF PathOf
<1> QED  BY <1>2, <1>3 DEF LeafPaths

\* The side the search for a divider at c turns to.
Turn(t, r, c, u) ==
  c[1] >= Half(t[u], Places(t, r)[u], TRUE).x /\ c[2] >= Half(t[u], Places(t, r)[u], TRUE).y

\* The search for a divider turns at every node as the point lies.
LEMMA PassedIs ==
  ASSUME NEW t, IsTree(t), NEW r, NEW c, NEW p
  PROVE  p \in Passed(t, r, c[1], c[2]) <=>
           p \in DOMAIN t /\ \A i \in 1..Len(p) : p[i] = Turn(t, r, c, Up(p, i - 1))
<1>1. p \in DOMAIN t => DOMAIN p = 1..Len(p)
  <2> SUFFICES ASSUME p \in DOMAIN t PROVE DOMAIN p = 1..Len(p)  OBVIOUS
  <2>1. p \in Paths  BY Ancestors
  <2> QED  BY <2>1, LenProperties DEF Paths
<1> QED  BY <1>1 DEF Passed, Turn, Half, Up

\* The search goes on below a split it has passed.
LEMMA PassedNext ==
  ASSUME NEW t, IsTree(t), NEW r, NEW c, NEW p \in Passed(t, r, c[1], c[2]), ~t[p].leaf,
         NEW b \in BOOLEAN, b = Turn(t, r, c, p)
  PROVE  Append(p, b) \in Passed(t, r, c[1], c[2])
<1>1. p \in DOMAIN t /\ \A i \in 1..Len(p) : p[i] = Turn(t, r, c, Up(p, i - 1))  BY PassedIs
<1>2. p \in Paths /\ Len(p) \in Nat  BY <1>1, Ancestors
<1>3. PICK q : q = Append(p, b)  OBVIOUS
<1>4. q \in DOMAIN t  BY <1>1, <1>3, PlaceIs
<1>5. q \in Paths /\ Len(q) = Len(p) + 1 /\ Last(q) = b /\ \A i \in 1..Len(p) : q[i] = p[i]
  BY <1>2, <1>3, LongerPath
<1>6. q[Len(p) + 1] = b  BY <1>5 DEF Last
<1>7. ASSUME NEW i \in 0..Len(p) PROVE Up(q, i) = Up(p, i)
  <2>1. i \in 0..Len(q) /\ i \in Nat /\ i <= Len(p)  BY <1>2, <1>5
  <2>2. PICK u : u = Up(p, i)  OBVIOUS
  <2>3. PICK v : v = Up(q, i)  OBVIOUS
  <2>4. u \in Paths /\ Len(u) = i /\ \A j \in 1..i : u[j] = p[j]  BY <1>2, <2>2, UpIs
  <2>5. v \in Paths /\ Len(v) = i /\ \A j \in 1..i : v[j] = q[j]  BY <1>5, <2>1, <2>3, UpIs
  <2>6. \A j \in 1..i : v[j] = u[j]  BY <1>2, <1>5, <2>1, <2>4, <2>5
  <2>7. u = v  BY <2>4, <2>5, <2>6, SamePath
  <2> QED  BY <2>2, <2>3, <2>7
<1>8. ASSUME NEW i \in 1..Len(q) PROVE q[i] = Turn(t, r, c, Up(q, i - 1))
  <2>1. i - 1 \in 0..Len(p)  BY <1>2, <1>5
  <2>2. Up(q, i - 1) = Up(p, i - 1)  BY <1>7, <2>1
  <2>3. CASE i = Len(p) + 1
    <3>1. i - 1 = Len(p)  BY <1>2, <2>3
    <3>2. Up(p, i - 1) = p  BY <1>2, <3>1, UpWhole
    <3> QED  BY <1>6, <2>2, <2>3, <3>2
  <2>4. CASE i # Len(p) + 1
    <3>1. i \in 1..Len(p)  BY <1>2, <1>5, <2>4
    <3>2. q[i] = p[i] /\ p[i] = Turn(t, r, c, Up(p, i - 1))  BY <1>1, <1>5, <3>1
    <3> QED  BY <2>2, <3>2
  <2> QED  BY <2>3, <2>4
<1> QED  BY <1>3, <1>4, <1>8, PassedIs

\* A cell that no leaf has is found to be on a divider.
LEMMA CellFound ==
  ASSUME NEW t, IsTree(t), NEW r, RoomFor(t, r), NEW c \in Int \X Int, Covers(r, c),
         \A p \in LeafPaths(t) : ~Covers(Places(t, r)[p], c)
  PROVE  DividersAt(t, r, c[1], c[2]) # {}
<1>1. PICK N \in Nat : Grown(t, N)  BY DEF IsTree
<1>2. \A p \in DOMAIN t : p \in Paths /\ Len(p) \in Nat /\ Len(p) <= N
  BY <1>1, LenProperties DEF Grown, Paths
<1> DEFINE In == {p \in Passed(t, r, c[1], c[2]) : Covers(Places(t, r)[p], c)}
           Left == {N - Len(p) : p \in In}
           Hits == {p \in Passed(t, r, c[1], c[2]) :
                      ~t[p].leaf /\ HasDivider(t[p], Places(t, r)[p], c[1], c[2])}
           Depths == {Len(p) : p \in Hits}
<1>3. Passed(t, r, c[1], c[2]) \subseteq DOMAIN t  BY DEF Passed
<1>4. Root \in In
  <2>1. Root \in DOMAIN t /\ Places(t, r)[Root] = r  BY PlaceIs
  <2>2. Len(Root) = 0  BY EmptySeq DEF Root
  <2>3. \A i \in 1..Len(Root) : Root[i] = Turn(t, r, c, Up(Root, i - 1))  BY <2>2
  <2>4. Root \in Passed(t, r, c[1], c[2])  BY <2>1, <2>3, PassedIs
  <2> QED  BY <2>1, <2>4
<1>5. PICK p \in In : \A q \in In : Len(q) <= Len(p)
  <2>1. Left \in SUBSET Nat /\ Left # {}  BY <1>2, <1>3, <1>4
  <2>2. PICK m \in Left : \A k \in Left : m <= k
    <3> HIDE DEF Left
    <3> QED  BY <2>1, Least
  <2>3. PICK p \in In : m = N - Len(p)  BY <2>2
  <2>4. ASSUME NEW q \in In PROVE Len(q) <= Len(p)
    <3>1. N - Len(p) <= N - Len(q)  BY <2>2, <2>3
    <3>2. Len(p) \in Nat /\ Len(q) \in Nat  BY <1>2, <1>3
    <3> QED  BY <3>1, <3>2
  <2> QED  BY <2>4
<1>6. p \in DOMAIN t /\ p \in Passed(t, r, c[1], c[2]) /\ Covers(Places(t, r)[p], c)  BY <1>3
<1>7. ~t[p].leaf  BY <1>6 DEF LeafPaths
<1>8. PICK s : s = Places(t, r)[p]  OBVIOUS
<1>9. PICK n : n = t[p]  OBVIOUS
<1>10. n \in Splitting /\ Whole(s) /\ Fits2(n, s)
  BY <1>6, <1>7, <1>8, <1>9, PlaceIs, PlaceWhole DEF RoomFor, LeafPaths
<1>11. HasDivider(n, s, c[1], c[2])
  <2> SUFFICES ASSUME ~HasDivider(n, s, c[1], c[2]) PROVE FALSE  OBVIOUS
  <2>1. PICK b \in BOOLEAN : b = Turn(t, r, c, p)  BY DEF Turn
  <2>2. b = (c[1] >= Half(n, s, TRUE).x /\ c[2] >= Half(n, s, TRUE).y)  BY <1>8, <1>9, <2>1 DEF Turn
  <2>3. Covers(Half(n, s, b), c)
    <3>1. Covers(s, c)  BY <1>6, <1>8
    <3> QED  BY <1>10, <2>2, <3>1, LineBetween
  <2>4. PICK q : q = Append(p, b)  OBVIOUS
  <2>5. q \in Passed(t, r, c[1], c[2])  BY <1>6, <1>7, <2>1, <2>4, PassedNext
  <2>6. Places(t, r)[q] = Half(n, s, b)  BY <1>6, <1>7, <1>8, <1>9, <2>4, PlaceIs
  <2>7. q \in In  BY <2>3, <2>5, <2>6
  <2>8. Len(q) = Len(p) + 1 /\ Len(p) \in Nat  BY <1>2, <1>6, <2>4, LongerPath
  <2> QED  BY <1>5, <2>7, <2>8
<1>12. p \in Hits  BY <1>6, <1>7, <1>8, <1>9, <1>11
<1>13. PICK h \in Hits : \A q \in Hits : Len(h) <= Len(q)
  <2>1. Depths \in SUBSET Nat /\ Depths # {}  BY <1>2, <1>3, <1>12
  <2>2. PICK m \in Depths : \A k \in Depths : m <= k
    <3> HIDE DEF Depths
    <3> QED  BY <2>1, Least
  <2> QED  BY <2>2
<1> QED  BY <1>13 DEF DividersAt

\* The leaves and the dividers tile the area.
LEMMA LeavesTile ==
  ASSUME NEW t, IsTree(t), OneLeafEach(t), NEW r, RoomFor(t, r)
  PROVE  /\ \A s \in Shown(t) : Whole(Rects(t, r)[s])
         /\ \A c \in Int \X Int : \A s, u \in Shown(t) :
              Covers(Rects(t, r)[s], c) /\ Covers(Rects(t, r)[u], c) => s = u
         /\ \A c \in Int \X Int :
              /\ Covers(r, c) /\ (\A s \in Shown(t) : ~Covers(Rects(t, r)[s], c))
                   => DividersAt(t, r, c[1], c[2]) # {}
              /\ \A p \in DividersAt(t, r, c[1], c[2]) : t[p].dir = "right" =>
                   \A s \in Shown(t) : ~Covers(Rects(t, r)[s], c)
<1>1. \A s \in Shown(t) : Rects(t, r)[s] = Places(t, r)[PathOf(t, s)]  BY DEF Rects
<1>2. ASSUME NEW s \in Shown(t) PROVE Whole(Rects(t, r)[s])
  BY <1>1, PathOfShown, PlaceWhole
<1>3. ASSUME NEW c \in Int \X Int, NEW s \in Shown(t), NEW u \in Shown(t),
             Covers(Rects(t, r)[s], c), Covers(Rects(t, r)[u], c)
      PROVE  s = u
  <2>1. PathOf(t, s) = PathOf(t, u)  BY <1>1, <1>3, PathOfShown, LeavesApart
  <2> QED  BY <2>1, PathOfShown
<1>4. ASSUME NEW c \in Int \X Int, Covers(r, c), \A s \in Shown(t) : ~Covers(Rects(t, r)[s], c)
      PROVE  DividersAt(t, r, c[1], c[2]) # {}
  <2>1. ASSUME NEW p \in LeafPaths(t) PROVE ~Covers(Places(t, r)[p], c)
    <3>1. t[p].session \in Shown(t) /\ PathOf(t, t[p].session) = p  BY PathOfLeaf
    <3> QED  BY <1>1, <1>4, <3>1
  <2> QED  BY <1>4, <2>1, CellFound
<1>5. ASSUME NEW c \in Int \X Int, NEW p \in DividersAt(t, r, c[1], c[2]), t[p].dir = "right",
             NEW s \in Shown(t)
      PROVE  ~Covers(Rects(t, r)[s], c)
  <2>1. p \in DOMAIN t /\ ~t[p].leaf /\ HasDivider(t[p], Places(t, r)[p], c[1], c[2])
    BY DEF DividersAt, Passed
  <2>2. PathOf(t, s) \in LeafPaths(t)  BY PathOfShown
  <2> QED  BY <1>1, <1>5, <2>1, <2>2, LineFree
<1> QED  BY <1>2, <1>3, <1>4, <1>5

\* The rectangle e lies in r.
Within2(e, r) == e.x >= r.x /\ e.y >= r.y /\ e.x + e.w <= r.x + r.w /\ e.y + e.h <= r.y + r.h

\* A place whose cells are all in another lies within it.
LEMMA CornersWithin ==
  ASSUME NEW e, Whole(e), NEW r, Whole(r), \A c \in Int \X Int : Covers(e, c) => Covers(r, c)
  PROVE  Within2(e, r)
<1>1. /\ e.x \in Int /\ e.y \in Int /\ e.w \in Int /\ e.h \in Int /\ e.w >= 1 /\ e.h >= 1
      /\ r.x \in Int /\ r.y \in Int /\ r.w \in Int /\ r.h \in Int
  BY DEF Whole
<1>2. PICK c \in Int \X Int : c = <<e.x, e.y>>  BY <1>1
<1>3. PICK d \in Int \X Int : d = <<e.x + e.w - 1, e.y + e.h - 1>>
  <2>1. e.x + e.w - 1 \in Int /\ e.y + e.h - 1 \in Int  BY <1>1
  <2> QED  BY <2>1
<1>4. Covers(e, c) /\ Covers(e, d)  BY <1>1, <1>2, <1>3 DEF Covers
<1>5. Covers(r, c) /\ Covers(r, d)  BY <1>4
<1> QED  BY <1>1, <1>2, <1>3, <1>5 DEF Covers, Within2

\* A node's place lies within its ancestors'.
LEMMA PlacesWithin ==
  ASSUME NEW t, IsTree(t), NEW r, RoomFor(t, r), NEW p \in DOMAIN t, NEW n \in 0..Len(p)
  PROVE  /\ Whole(Places(t, r)[p]) /\ Whole(Places(t, r)[Up(p, n)])
         /\ Within2(Places(t, r)[p], Places(t, r)[Up(p, n)])
<1>1. Whole(Places(t, r)[p]) /\ Whole(Places(t, r)[Up(p, n)])  BY PlaceWhole, PlacesWhole
<1>2. \A c \in Int \X Int : Covers(Places(t, r)[p], c) => Covers(Places(t, r)[Up(p, n)], c)
  BY Nested
<1> QED  BY <1>1, <1>2, CornersWithin

\* A pane lies within the area.
LEMMA RectsWithin ==
  ASSUME NEW t, IsTree(t), NEW r, RoomFor(t, r), NEW s \in Shown(t)
  PROVE  Whole(Rects(t, r)[s]) /\ Within2(Rects(t, r)[s], r)
<1>1. PICK p : p = PathOf(t, s)  OBVIOUS
<1>2. p \in DOMAIN t /\ Rects(t, r)[s] = Places(t, r)[p]  BY <1>1, PathOfShown DEF Rects
<1>3. p \in Paths /\ Len(p) \in Nat  BY <1>2, Ancestors
<1>4. 0 \in 0..Len(p) /\ Up(p, 0) = Root  BY <1>3, UpWhole
<1>5. Places(t, r)[Root] = r  BY PlaceIs
<1> QED  BY <1>2, <1>4, <1>5, PlacesWithin

\* Distances and shared edges are whole numbers, an edge no longer than the pane's
\* sides.
LEMMA MeasuresWhole ==
  ASSUME NEW f, Whole(f), NEW e, Whole(e), NEW d \in Dirs
  PROVE  /\ Distance(f, e, d) \in Int /\ Shared(f, e, d) \in Int
         /\ Shared(f, e, d) <= f.w + f.h
<1>1. /\ e.x \in Int /\ e.y \in Int /\ e.w \in Int /\ e.h \in Int
      /\ f.x \in Int /\ f.y \in Int /\ f.w \in Int /\ f.h \in Int /\ f.w >= 1 /\ f.h >= 1
  BY DEF Whole
<1>2. d = "left" \/ d = "right" \/ d = "up" \/ d = "down"  BY DEF Dirs
<1>3. Distance(f, e, d) \in Int  BY <1>1, <1>2 DEF Distance
<1>4. Shared(f, e, d) \in Int /\ Shared(f, e, d) <= f.w + f.h
  <2>1. CASE d \in {"left", "right"}
    <3>1. Shared(f, e, d) = Overlap(f.y, f.h, e.y, e.h)  BY <2>1 DEF Shared
    <3> QED  BY <1>1, <3>1 DEF Overlap, Lesser, Larger
  <2>2. CASE d \notin {"left", "right"}
    <3>1. Shared(f, e, d) = Overlap(f.x, f.w, e.x, e.w)  BY <2>2 DEF Shared
    <3> QED  BY <1>1, <3>1 DEF Overlap, Lesser, Larger
  <2> QED  BY <2>1, <2>2
<1> QED  BY <1>3, <1>4

\* Of two panes one is nearer: Neighbor's order has no ties.
LEMMA OnlyNeighbor ==
  ASSUME NEW t, IsTree(t), OneLeafEach(t), NEW r, RoomFor(t, r), NEW s \in Shown(t),
         NEW d \in Dirs, NEW u \in Nearest(Rects(t, r), s, d), NEW v \in Nearest(Rects(t, r), s, d)
  PROVE  u = v
<1>1. DOMAIN Rects(t, r) = Shown(t)  BY DEF Rects
<1>2. u \in Shown(t) /\ v \in Shown(t)  BY <1>1 DEF Nearest, Candidates
<1>3. PICK f : f = Rects(t, r)[s]  OBVIOUS
<1>4. PICK a : a = Rects(t, r)[u]  OBVIOUS
<1>5. PICK b : b = Rects(t, r)[v]  OBVIOUS
<1>6. Whole(f) /\ Whole(a) /\ Whole(b)  BY <1>2, <1>3, <1>4, <1>5, RectsWithin
<1>7. ~Nearer(f, a, b, d) /\ ~Nearer(f, b, a, d)  BY <1>3, <1>4, <1>5 DEF Nearest
<1>8. PICK n : n = Distance(f, a, d)  OBVIOUS
<1>9. PICK m : m = Distance(f, b, d)  OBVIOUS
<1>10. PICK o : o = Shared(f, a, d)  OBVIOUS
<1>11. PICK q : q = Shared(f, b, d)  OBVIOUS
<1>12. n \in Int /\ m \in Int /\ o \in Int /\ q \in Int
  BY <1>6, <1>8, <1>9, <1>10, <1>11, MeasuresWhole
<1>13. /\ a.x \in Int /\ a.y \in Int /\ a.w \in Int /\ a.h \in Int /\ a.w >= 1 /\ a.h >= 1
       /\ b.x \in Int /\ b.y \in Int /\ b.w \in Int /\ b.h \in Int /\ b.w >= 1 /\ b.h >= 1
  BY <1>6 DEF Whole
<1>14. /\ ~(n < m \/ (n = m /\ o > q) \/ (n = m /\ o = q /\ (a.y < b.y \/ (a.y = b.y /\ a.x < b.x))))
       /\ ~(m < n \/ (m = n /\ q > o) \/ (m = n /\ q = o /\ (b.y < a.y \/ (b.y = a.y /\ b.x < a.x))))
  BY <1>7, <1>8, <1>9, <1>10, <1>11 DEF Nearer
<1>15. a.x = b.x /\ a.y = b.y  BY <1>12, <1>13, <1>14
<1>16. PICK c \in Int \X Int : c = <<a.x, a.y>>  BY <1>13
<1>17. Covers(a, c) /\ Covers(b, c)  BY <1>13, <1>15, <1>16 DEF Covers
<1> QED  BY <1>2, <1>4, <1>5, <1>17, LeavesTile

\* Of what has a number, something has the least.
LEMMA ArgLeast ==
  ASSUME NEW S, S # {}, NEW f, \A s \in S : f[s] \in Nat
  PROVE  \E s \in S : \A u \in S : f[s] <= f[u]
<1> DEFINE V == {f[s] : s \in S}
<1>1. V \in SUBSET Nat /\ V # {}  OBVIOUS
<1>2. PICK m \in V : \A k \in V : m <= k
  <2> HIDE DEF V
  <2> QED  BY <1>1, Least
<1> QED  BY <1>2

\* If there are candidates, there is a nearest one.
LEMMA SomeNeighbor ==
  ASSUME NEW t, IsTree(t), NEW r, RoomFor(t, r), NEW s \in Shown(t), NEW d \in Dirs,
         Candidates(Rects(t, r), s, d) # {}
  PROVE  Nearest(Rects(t, r), s, d) # {}
<1> DEFINE R == Rects(t, r)
           near == Candidates(R, s, d)
<1>1. DOMAIN R = Shown(t)  BY DEF Rects
<1>2. near \subseteq Shown(t)  BY <1>1 DEF Candidates
<1>3. PICK f : f = R[s]  OBVIOUS
<1>4. Whole(f) /\ Whole(r)  BY <1>3, RectsWithin DEF RoomFor
<1>5. /\ f.w \in Int /\ f.h \in Int /\ r.x \in Int /\ r.y \in Int
  BY <1>4 DEF Whole
<1> HIDE DEF R, near
<1>6. ASSUME NEW u \in near
      PROVE  /\ Distance(f, R[u], d) \in Nat
             /\ f.w + f.h - Shared(f, R[u], d) \in Nat /\ Shared(f, R[u], d) \in Int
             /\ R[u].y - r.y \in Nat /\ R[u].x - r.x \in Nat
             /\ R[u].y \in Int /\ R[u].x \in Int
  <2>1. PICK e : e = R[u]  OBVIOUS
  <2>2. Whole(e) /\ Within2(e, r)  BY <1>2, <1>6, <2>1, RectsWithin DEF R
  <2>3. Distance(f, e, d) >= 0  BY <1>3, <1>6, <2>1 DEF near, Candidates
  <2>4. /\ Distance(f, e, d) \in Int /\ Shared(f, e, d) \in Int
        /\ Shared(f, e, d) <= f.w + f.h
    BY <1>4, <2>2, MeasuresWhole
  <2>5. e.x \in Int /\ e.y \in Int /\ e.x >= r.x /\ e.y >= r.y  BY <2>2 DEF Whole, Within2
  <2>6. e.y - r.y \in Nat /\ e.x - r.x \in Nat  BY <1>5, <2>5
  <2>7. PICK o : o = Shared(f, e, d)  OBVIOUS
  <2>8. f.w + f.h - o \in Nat  BY <1>5, <2>4, <2>7
  <2>9. Distance(f, e, d) \in Nat  BY <2>3, <2>4
  <2> QED  BY <2>1, <2>4, <2>5, <2>6, <2>7, <2>8, <2>9
<1> DEFINE dist == [u \in near |-> Distance(f, R[u], d)]
           miss == [u \in near |-> f.w + f.h - Shared(f, R[u], d)]
           down == [u \in near |-> R[u].y - r.y]
           over == [u \in near |-> R[u].x - r.x]
<1>7. /\ \A u \in near : dist[u] \in Nat /\ miss[u] \in Nat /\ down[u] \in Nat /\ over[u] \in Nat
  BY <1>6
<1>8. near # {}  BY DEF near, R
<1>9. \A u \in near : /\ dist[u] = Distance(f, R[u], d) /\ miss[u] = f.w + f.h - Shared(f, R[u], d)
                      /\ down[u] = R[u].y - r.y /\ over[u] = R[u].x - r.x
  OBVIOUS
<1> HIDE DEF dist, miss, down, over
<1>10. PICK s1 \in near : \A u \in near : dist[s1] <= dist[u]  BY <1>7, <1>8, ArgLeast
<1>11. PICK S1 : S1 = {u \in near : dist[u] = dist[s1]}  OBVIOUS
<1>12. S1 # {} /\ \A u \in S1 : miss[u] \in Nat  BY <1>7, <1>10, <1>11
<1>13. PICK s2 \in S1 : \A u \in S1 : miss[s2] <= miss[u]  BY <1>12, ArgLeast
<1>14. PICK S2 : S2 = {u \in S1 : miss[u] = miss[s2]}  OBVIOUS
<1>15. S2 # {} /\ \A u \in S2 : down[u] \in Nat  BY <1>7, <1>11, <1>13, <1>14
<1>16. PICK s3 \in S2 : \A u \in S2 : down[s3] <= down[u]  BY <1>15, ArgLeast
<1>17. PICK S3 : S3 = {u \in S2 : down[u] = down[s3]}  OBVIOUS
<1>18. S3 # {} /\ \A u \in S3 : over[u] \in Nat  BY <1>7, <1>11, <1>14, <1>16, <1>17
<1>19. PICK s4 \in S3 : \A u \in S3 : over[s4] <= over[u]  BY <1>18, ArgLeast
<1>20. s4 \in near  BY <1>11, <1>14, <1>17
<1>21. ASSUME NEW u \in near PROVE ~Nearer(f, R[u], R[s4], d)
  <2>1. PICK n : n = Distance(f, R[u], d)  OBVIOUS
  <2>2. PICK m : m = Distance(f, R[s4], d)  OBVIOUS
  <2>3. PICK o : o = Shared(f, R[u], d)  OBVIOUS
  <2>4. PICK q : q = Shared(f, R[s4], d)  OBVIOUS
  <2>5. n = dist[u] /\ m = dist[s4] /\ n \in Nat /\ m \in Nat  BY <1>6, <1>9, <1>20, <2>1, <2>2
  <2>6. m <= n  BY <1>10, <1>11, <1>14, <1>17, <2>5
  <2>7. o \in Int /\ q \in Int  BY <1>6, <1>20, <2>3, <2>4
  <2>8. n = m => o <= q
    <3> SUFFICES ASSUME n = m PROVE o <= q  OBVIOUS
    <3>1. u \in S1  BY <1>10, <1>11, <1>14, <1>17, <2>5
    <3>2. miss[s4] <= miss[u]  BY <1>13, <1>14, <1>17, <3>1
    <3>3. miss[u] = f.w + f.h - o /\ miss[s4] = f.w + f.h - q  BY <1>9, <1>20, <2>3, <2>4
    <3> QED  BY <1>5, <2>7, <3>2, <3>3
  <2>9. n = m /\ o = q => u \in S2
    <3> SUFFICES ASSUME n = m, o = q PROVE u \in S2  OBVIOUS
    <3>1. u \in S1  BY <1>10, <1>11, <1>14, <1>17, <2>5
    <3>2. miss[u] = miss[s4]  BY <1>9, <1>20, <2>3, <2>4
    <3> QED  BY <1>14, <1>17, <3>1, <3>2
  <2>10. PICK a : a = R[u]  OBVIOUS
  <2>11. PICK b : b = R[s4]  OBVIOUS
  <2>12. a.x \in Int /\ a.y \in Int /\ b.x \in Int /\ b.y \in Int  BY <1>6, <1>20, <2>10, <2>11
  <2>13. /\ down[u] = a.y - r.y /\ down[s4] = b.y - r.y
         /\ over[u] = a.x - r.x /\ over[s4] = b.x - r.x
    BY <1>9, <1>20, <2>10, <2>11
  <2>14. u \in S2 => b.y <= a.y
    <3> SUFFICES ASSUME u \in S2 PROVE b.y <= a.y  OBVIOUS
    <3>1. down[s4] <= down[u]  BY <1>16, <1>17
    <3> QED  BY <1>5, <2>12, <2>13, <3>1
  <2>15. u \in S2 /\ a.y = b.y => b.x <= a.x
    <3> SUFFICES ASSUME u \in S2, a.y = b.y PROVE b.x <= a.x  OBVIOUS
    <3>1. down[u] = down[s4]  BY <2>13
    <3>2. u \in S3  BY <1>17, <3>1
    <3>3. over[s4] <= over[u]  BY <1>19, <3>2
    <3> QED  BY <1>5, <2>12, <2>13, <3>3
  <2>16. ~(n < m \/ (n = m /\ o > q) \/ (n = m /\ o = q /\ (a.y < b.y \/ (a.y = b.y /\ a.x < b.x))))
    BY <2>5, <2>6, <2>7, <2>8, <2>9, <2>12, <2>14, <2>15
  <2> QED  BY <2>1, <2>2, <2>3, <2>4, <2>10, <2>11, <2>16 DEF Nearer
<1>22. s4 \in Nearest(R, s, d)  BY <1>3, <1>20, <1>21 DEF Nearest, near
<1> QED  BY <1>22 DEF R

\* q is p or a node below it.
Under(q, p) == Len(p) <= Len(q) /\ Up(q, Len(p)) = p

\* A node is under itself and under the root.
LEMMA UnderSelf ==
  ASSUME NEW t, IsTree(t), NEW p \in DOMAIN t
  PROVE  Under(p, p) /\ Under(p, Root)
<1>1. p \in Paths /\ Len(p) \in Nat  BY Ancestors
<1>2. Len(Root) = 0  BY EmptySeq DEF Root
<1> QED  BY <1>1, <1>2, UpWhole DEF Under

\* Paths under p have the first turns of p.
LEMMA UnderIs ==
  ASSUME NEW q \in Paths, NEW p \in Paths
  PROVE  Under(q, p) <=> Len(p) <= Len(q) /\ \A i \in 1..Len(p) : q[i] = p[i]
<1>1. Len(p) \in Nat /\ Len(q) \in Nat  BY LenProperties DEF Paths
<1>2. CASE Len(p) <= Len(q)
  <2>1. PICK u : u = Up(q, Len(p))  OBVIOUS
  <2>2. Len(p) \in 0..Len(q)  BY <1>1, <1>2
  <2>3. u \in Paths /\ Len(u) = Len(p) /\ \A i \in 1..Len(p) : u[i] = q[i]  BY <2>1, <2>2, UpIs
  <2>4. u = p <=> \A i \in 1..Len(p) : q[i] = p[i]
    <3>1. ASSUME \A i \in 1..Len(p) : q[i] = p[i] PROVE u = p
      <4>1. \A i \in 1..Len(u) : u[i] = p[i]  BY <2>3, <3>1
      <4> QED  BY <2>3, <4>1, SamePath
    <3> QED  BY <2>3, <3>1
  <2> QED  BY <1>2, <2>1, <2>4 DEF Under
<1>3. CASE ~(Len(p) <= Len(q))  BY <1>3 DEF Under
<1> QED  BY <1>2, <1>3

\* What is under a split is the split or under one of its sides.
LEMMA UnderSides ==
  ASSUME NEW t, IsTree(t), NEW p \in DOMAIN t, ~t[p].leaf, NEW q \in DOMAIN t
  PROVE  /\ \A b \in BOOLEAN : Under(q, Append(p, b)) => Under(q, p)
         /\ Under(q, p) /\ t[q].leaf => \E b \in BOOLEAN : Under(q, Append(p, b))
<1>1. p \in Paths /\ q \in Paths /\ Len(p) \in Nat /\ Len(q) \in Nat  BY Ancestors
<1>2. ASSUME NEW b \in BOOLEAN, Under(q, Append(p, b)) PROVE Under(q, p)
  <2>1. PICK v : v = Append(p, b)  OBVIOUS
  <2>2. v \in Paths /\ Len(v) = Len(p) + 1 /\ \A i \in 1..Len(p) : v[i] = p[i]
    BY <1>1, <2>1, LongerPath
  <2>3. Len(v) <= Len(q) /\ \A i \in 1..Len(v) : q[i] = v[i]  BY <1>1, <1>2, <2>1, <2>2, UnderIs
  <2>4. Len(p) <= Len(q) /\ \A i \in 1..Len(p) : q[i] = p[i]  BY <1>1, <2>2, <2>3
  <2> QED  BY <1>1, <2>4, UnderIs
<1>3. ASSUME Under(q, p), t[q].leaf PROVE \E b \in BOOLEAN : Under(q, Append(p, b))
  <2>1. PICK n : n = Len(p)  OBVIOUS
  <2>2. Up(q, n) = p /\ n <= Len(q)  BY <1>3, <2>1 DEF Under
  <2>3. n # Len(q)
    <3> SUFFICES ASSUME n = Len(q) PROVE FALSE  OBVIOUS
    <3>1. p = q  BY <1>1, <2>2, UpWhole
    <3> QED  BY <1>3, <3>1
  <2>4. n \in 0..Len(q) - 1 /\ n + 1 <= Len(q)  BY <1>1, <2>1, <2>2, <2>3
  <2>5. PICK b : b = q[n + 1]  OBVIOUS
  <2>6. b \in BOOLEAN /\ Up(q, n + 1) = Append(p, b)  BY <1>1, <2>2, <2>4, <2>5, UpNext
  <2>7. Len(Append(p, b)) = n + 1  BY <1>1, <2>1, <2>6, LongerPath
  <2> QED  BY <2>4, <2>6, <2>7 DEF Under
<1> QED  BY <1>2, <1>3

\* A leaf that shares a cell with a node's place is under the node.
LEMMA CellUnder ==
  ASSUME NEW t, IsTree(t), NEW r, RoomFor(t, r), NEW q \in LeafPaths(t), NEW v \in DOMAIN t,
         NEW c \in Int \X Int, Covers(Places(t, r)[q], c), Covers(Places(t, r)[v], c)
  PROVE  Under(q, v)
<1>1. q \in DOMAIN t /\ t[q].leaf  BY DEF LeafPaths
<1>2. q \in Paths /\ v \in Paths /\ Len(q) \in Nat /\ Len(v) \in Nat  BY <1>1, Ancestors
<1>3. CASE q = v  BY <1>3, UnderSelf
<1>4. CASE q # v
  <2>1. \A i \in Nat : ~Parting(q, v, i)  BY <1>1, ApartBelow
  <2>2. ~(Len(q) < Len(v) /\ Up(v, Len(q)) = q)  BY LeafEnds
  <2>3. Len(v) < Len(q) /\ Up(q, Len(v)) = v  BY <1>2, <1>4, <2>1, <2>2, Diverge
  <2> QED  BY <1>2, <2>3 DEF Under
<1> QED  BY <1>3, <1>4

\* Corners of a rectangle: a cell of it that the halves inherit.
Corner(k, r) ==
  CASE k = "top left" -> <<r.x, r.y>>
    [] k = "top right" -> <<r.x + r.w - 1, r.y>>
    [] k = "bottom left" -> <<r.x, r.y + r.h - 1>>
Corners == {"top left", "top right", "bottom left"}

\* n divides r into a and z.
CutAt(n, r, a, z) ==
  \E m \in Int :
    /\ a.x = r.x /\ a.y = r.y
    /\ \/ /\ n.dir = "right" /\ a.w = m /\ a.h = r.h /\ 1 <= m /\ m <= r.w - 2
          /\ z.x = r.x + m + 1 /\ z.y = r.y /\ z.w = r.w - m - 1 /\ z.h = r.h
       \/ /\ n.dir = "down" /\ a.w = r.w /\ a.h = m /\ 1 <= m /\ m <= r.h - 1
          /\ z.x = r.x /\ z.y = r.y + m /\ z.w = r.w /\ z.h = r.h - m

\* The fields of a split's halves, side by side.
LEMMA RightFields ==
  ASSUME NEW r, NEW m, NEW a, NEW z,
         a = Rect(r.x, r.y, m, r.h), z = Rect(r.x + m + 1, r.y, r.w - m - 1, r.h)
  PROVE  /\ a.x = r.x /\ a.y = r.y /\ a.w = m /\ a.h = r.h
         /\ z.x = r.x + m + 1 /\ z.y = r.y /\ z.w = r.w - m - 1 /\ z.h = r.h
BY DEF Rect

\* The fields of a split's halves, one above the other.
LEMMA DownFields ==
  ASSUME NEW r, NEW m, NEW a, NEW z,
         a = Rect(r.x, r.y, r.w, m), z = Rect(r.x, r.y + m, r.w, r.h - m)
  PROVE  /\ a.x = r.x /\ a.y = r.y /\ a.w = r.w /\ a.h = m
         /\ z.x = r.x /\ z.y = r.y + m /\ z.w = r.w /\ z.h = r.h - m
BY DEF Rect

\* A split with room is cut inside its place.
LEMMA CutIs ==
  ASSUME NEW n \in Splitting, NEW r, Whole(r), Fits2(n, r)
  PROVE  CutAt(n, r, Half(n, r, FALSE), Half(n, r, TRUE))
<1>1. PICK m \in Int :
           \/ /\ n.dir = "right" /\ 1 <= m /\ m <= r.w - 2
              /\ Half(n, r, FALSE) = Rect(r.x, r.y, m, r.h)
              /\ Half(n, r, TRUE) = Rect(r.x + m + 1, r.y, r.w - m - 1, r.h)
           \/ /\ n.dir = "down" /\ 1 <= m /\ m <= r.h - 1
              /\ Half(n, r, FALSE) = Rect(r.x, r.y, r.w, m)
              /\ Half(n, r, TRUE) = Rect(r.x, r.y + m, r.w, r.h - m)
  BY Cut
<1>2. CASE /\ n.dir = "right" /\ 1 <= m /\ m <= r.w - 2
           /\ Half(n, r, FALSE) = Rect(r.x, r.y, m, r.h)
           /\ Half(n, r, TRUE) = Rect(r.x + m + 1, r.y, r.w - m - 1, r.h)
  <2>1. PICK a : a = Rect(r.x, r.y, m, r.h)  OBVIOUS
  <2>2. PICK z : z = Rect(r.x + m + 1, r.y, r.w - m - 1, r.h)  OBVIOUS
  <2>3. /\ a.x = r.x /\ a.y = r.y /\ a.w = m /\ a.h = r.h
        /\ z.x = r.x + m + 1 /\ z.y = r.y /\ z.w = r.w - m - 1 /\ z.h = r.h
    BY <2>1, <2>2, RightFields
  <2>4. CutAt(n, r, a, z)  BY <1>2, <2>3 DEF CutAt
  <2> QED  BY <1>2, <2>1, <2>2, <2>4
<1>3. CASE /\ n.dir = "down" /\ 1 <= m /\ m <= r.h - 1
           /\ Half(n, r, FALSE) = Rect(r.x, r.y, r.w, m)
           /\ Half(n, r, TRUE) = Rect(r.x, r.y + m, r.w, r.h - m)
  <2>1. PICK a : a = Rect(r.x, r.y, r.w, m)  OBVIOUS
  <2>2. PICK z : z = Rect(r.x, r.y + m, r.w, r.h - m)  OBVIOUS
  <2>3. /\ a.x = r.x /\ a.y = r.y /\ a.w = r.w /\ a.h = m
        /\ z.x = r.x /\ z.y = r.y + m /\ z.w = r.w /\ z.h = r.h - m
    BY <2>1, <2>2, DownFields
  <2>4. CutAt(n, r, a, z)  BY <1>3, <2>3 DEF CutAt
  <2> QED  BY <1>3, <2>1, <2>2, <2>4
<1> QED  BY <1>1, <1>2, <1>3

\* Each of these corners is a corner of one half.
LEMMA HalfCorner ==
  ASSUME NEW n \in Splitting, NEW r, Whole(r), Fits2(n, r), NEW k \in Corners
  PROVE  \E b \in BOOLEAN : Corner(k, Half(n, r, b)) = Corner(k, r)
<1>2. PICK a : a = Half(n, r, FALSE)  OBVIOUS
<1>3. PICK z : z = Half(n, r, TRUE)  OBVIOUS
<1>4. r.x \in Int /\ r.y \in Int /\ r.w \in Int /\ r.h \in Int  BY DEF Whole
<1>5. PICK m \in Int :
           /\ a.x = r.x /\ a.y = r.y
           /\ \/ /\ n.dir = "right" /\ a.w = m /\ a.h = r.h /\ 1 <= m /\ m <= r.w - 2
                 /\ z.x = r.x + m + 1 /\ z.y = r.y /\ z.w = r.w - m - 1 /\ z.h = r.h
              \/ /\ n.dir = "down" /\ a.w = r.w /\ a.h = m /\ 1 <= m /\ m <= r.h - 1
                 /\ z.x = r.x /\ z.y = r.y + m /\ z.w = r.w /\ z.h = r.h - m
  <2>1. CutAt(n, r, a, z)  BY <1>2, <1>3, CutIs
  <2> QED  BY <2>1 DEF CutAt
<1>6. CASE k = "top left"
  <2>1. Corner(k, a) = Corner(k, r)  BY <1>4, <1>5, <1>6 DEF Corner
  <2> QED  BY <1>2, <2>1
<1>7. CASE k = "top right"
  <2>1. Corner(k, r) = <<r.x + r.w - 1, r.y>> /\ Corner(k, a) = <<a.x + a.w - 1, a.y>>
        /\ Corner(k, z) = <<z.x + z.w - 1, z.y>>
    BY <1>7 DEF Corner
  <2>2. (a.x + a.w - 1 = r.x + r.w - 1 /\ a.y = r.y) \/ (z.x + z.w - 1 = r.x + r.w - 1 /\ z.y = r.y)
    BY <1>4, <1>5
  <2>3. Corner(k, a) = Corner(k, r) \/ Corner(k, z) = Corner(k, r)  BY <2>1, <2>2
  <2> QED  BY <1>2, <1>3, <2>3
<1>8. CASE k = "bottom left"
  <2>1. Corner(k, r) = <<r.x, r.y + r.h - 1>> /\ Corner(k, a) = <<a.x, a.y + a.h - 1>>
        /\ Corner(k, z) = <<z.x, z.y + z.h - 1>>
    BY <1>8 DEF Corner
  <2>2. (a.x = r.x /\ a.y + a.h - 1 = r.y + r.h - 1) \/ (z.x = r.x /\ z.y + z.h - 1 = r.y + r.h - 1)
    BY <1>4, <1>5
  <2>3. Corner(k, a) = Corner(k, r) \/ Corner(k, z) = Corner(k, r)  BY <2>1, <2>2
  <2> QED  BY <1>2, <1>3, <2>3
<1> QED  BY <1>6, <1>7, <1>8 DEF Corners

\* Some leaf under a node has the node's corner.
LEMMA CornerLeaf ==
  ASSUME NEW t, IsTree(t), NEW r, RoomFor(t, r), NEW p \in DOMAIN t, NEW k \in Corners
  PROVE  \E q \in LeafPaths(t) :
           Under(q, p) /\ Corner(k, Places(t, r)[q]) = Corner(k, Places(t, r)[p])
<1>1. PICK N \in Nat : Grown(t, N)  BY DEF IsTree
<1>2. \A q \in DOMAIN t : q \in Paths /\ Len(q) \in Nat /\ Len(q) <= N
  BY <1>1, LenProperties DEF Grown, Paths
<1> DEFINE In == {q \in DOMAIN t :
                    Under(q, p) /\ Corner(k, Places(t, r)[q]) = Corner(k, Places(t, r)[p])}
           left == [q \in In |-> N - Len(q)]
<1>3. In # {}  BY UnderSelf
<1>4. \A q \in In : left[q] \in Nat /\ left[q] = N - Len(q)  BY <1>2
<1>5. PICK q \in In : \A u \in In : left[q] <= left[u]
  <2> HIDE DEF In, left
  <2> QED  BY <1>3, <1>4, ArgLeast
<1>6. q \in DOMAIN t /\ Under(q, p)  OBVIOUS
<1>7. t[q].leaf
  <2> SUFFICES ASSUME ~t[q].leaf PROVE FALSE  OBVIOUS
  <2>1. PICK s : s = Places(t, r)[q]  OBVIOUS
  <2>2. PICK n : n = t[q]  OBVIOUS
  <2>3. n \in Splitting /\ Whole(s) /\ Fits2(n, s)
    BY <1>6, <2>1, <2>2, PlaceIs, PlaceWhole DEF RoomFor, LeafPaths
  <2>4. PICK b \in BOOLEAN : Corner(k, Half(n, s, b)) = Corner(k, s)  BY <2>3, HalfCorner
  <2>5. PICK u : u = Append(q, b)  OBVIOUS
  <2>6. u \in DOMAIN t /\ Places(t, r)[u] = Half(n, s, b)  BY <1>6, <2>1, <2>2, <2>5, PlaceIs
  <2>7. Under(u, p)
    <3>1. u \in Paths /\ q \in Paths /\ p \in Paths /\ Len(p) \in Nat /\ Len(q) \in Nat
      BY <1>2, <1>6, <2>6
    <3>2. Len(u) = Len(q) + 1 /\ \A i \in 1..Len(q) : u[i] = q[i]  BY <2>5, <3>1, LongerPath
    <3>3. Len(p) <= Len(q) /\ \A i \in 1..Len(p) : q[i] = p[i]  BY <1>6, <3>1, UnderIs
    <3>4. Len(p) <= Len(u) /\ \A i \in 1..Len(p) : u[i] = p[i]  BY <3>1, <3>2, <3>3
    <3> QED  BY <3>1, <3>4, UnderIs
  <2>8. u \in In  BY <2>1, <2>4, <2>6, <2>7
  <2>9. Len(u) = Len(q) + 1 /\ Len(q) \in Nat  BY <1>2, <1>6, <2>5, LongerPath
  <2>10. left[q] <= left[u] /\ left[q] = N - Len(q) /\ left[u] = N - Len(u)  BY <1>4, <1>5, <2>8
  <2> QED  BY <2>9, <2>10
<1> QED  BY <1>6, <1>7 DEF LeafPaths

\* Two ranges of cells overlap where they share a cell.
LEMMA SharedPoint ==
  ASSUME NEW a \in Int, NEW la \in Int, NEW b \in Int, NEW lb \in Int, la >= 1, lb >= 1
  PROVE  Overlap(a, la, b, lb) > 0 <=>
           \E v \in Int : a <= v /\ v < a + la /\ b <= v /\ v < b + lb
<1>1. CASE a < b
  <2>1. Larger(a, b) = b  BY <1>1 DEF Larger
  <2>2. Overlap(a, la, b, lb) > 0 <=> b < a + la  BY <1>1, <2>1 DEF Overlap, Lesser
  <2> QED  BY <1>1, <2>2
<1>2. CASE ~(a < b)
  <2>1. Larger(a, b) = a  BY <1>2 DEF Larger
  <2>2. Overlap(a, la, b, lb) > 0 <=> a < b + lb  BY <1>2, <2>1 DEF Overlap, Lesser
  <2> QED  BY <1>2, <2>2
<1> QED  BY <1>1, <1>2

\* f and e share a row, or a column.
ShareRow(f, e) == \E v \in Int : f.y <= v /\ v < f.y + f.h /\ e.y <= v /\ v < e.y + e.h
ShareColumn(f, e) == \E v \in Int : f.x <= v /\ v < f.x + f.w /\ e.x <= v /\ v < e.x + e.w

\* What Neighbor's measures mean: the gap between two panes, and a row or column of
\* both.
LEMMA Measures ==
  ASSUME NEW f, Whole(f), NEW e, Whole(e)
  PROVE  /\ Distance(f, e, "left") = f.x - (e.x + e.w) /\ Distance(f, e, "right") = e.x - (f.x + f.w)
         /\ Distance(f, e, "up") = f.y - (e.y + e.h) /\ Distance(f, e, "down") = e.y - (f.y + f.h)
         /\ (Shared(f, e, "left") > 0 <=> ShareRow(f, e)) /\ (Shared(f, e, "right") > 0 <=> ShareRow(f, e))
         /\ (Shared(f, e, "up") > 0 <=> ShareColumn(f, e)) /\ (Shared(f, e, "down") > 0 <=> ShareColumn(f, e))
<1>1. /\ e.x \in Int /\ e.y \in Int /\ e.w \in Int /\ e.h \in Int /\ e.w >= 1 /\ e.h >= 1
      /\ f.x \in Int /\ f.y \in Int /\ f.w \in Int /\ f.h \in Int /\ f.w >= 1 /\ f.h >= 1
  BY DEF Whole
<1>2. /\ Distance(f, e, "left") = f.x - (e.x + e.w) /\ Distance(f, e, "right") = e.x - (f.x + f.w)
      /\ Distance(f, e, "up") = f.y - (e.y + e.h) /\ Distance(f, e, "down") = e.y - (f.y + f.h)
  BY DEF Distance
<1>3. /\ Shared(f, e, "left") = Overlap(f.y, f.h, e.y, e.h)
      /\ Shared(f, e, "right") = Overlap(f.y, f.h, e.y, e.h)
      /\ Shared(f, e, "up") = Overlap(f.x, f.w, e.x, e.w)
      /\ Shared(f, e, "down") = Overlap(f.x, f.w, e.x, e.w)
  BY DEF Shared
<1>4. Overlap(f.y, f.h, e.y, e.h) > 0 <=> ShareRow(f, e)  BY <1>1, SharedPoint DEF ShareRow
<1>5. Overlap(f.x, f.w, e.x, e.w) > 0 <=> ShareColumn(f, e)  BY <1>1, SharedPoint DEF ShareColumn
<1> QED  BY <1>2, <1>3, <1>4, <1>5

\* Over the line between a and b, that lie side by side: f ends at the line, g
\* begins after it; what is as near to one of them as the other is on the line or
\* in the other's side.
BySide(a, b) == b.x = a.x + a.w + 1 /\ b.y = a.y /\ b.h = a.h

\* Panes at the two sides of a column: they are neighbors across it, and whatever is as
\* near as that lies on the far side.
LEMMA OverColumn ==
  ASSUME NEW a, Whole(a), NEW b, Whole(b), BySide(a, b),
         NEW f, Whole(f), Within2(f, a), f.x + f.w = a.x + a.w, f.y = a.y,
         NEW g, Whole(g), Within2(g, b), g.x = b.x, g.y = b.y
  PROVE  /\ Distance(f, g, "right") = 1 /\ Shared(f, g, "right") > 0
         /\ Distance(g, f, "left") = 1 /\ Shared(g, f, "left") > 0
         /\ \A e : Whole(e) /\ Distance(f, e, "right") \in 0..1 /\ Shared(f, e, "right") > 0 =>
              \E y \in a.y..(a.y + a.h - 1) :
                \/ Covers(e, <<a.x + a.w, y>>)
                \/ Covers(e, <<b.x, y>>) /\ Covers(b, <<b.x, y>>)
         /\ \A e : Whole(e) /\ Distance(g, e, "left") \in 0..1 /\ Shared(g, e, "left") > 0 =>
              \E y \in a.y..(a.y + a.h - 1) :
                \/ Covers(e, <<a.x + a.w, y>>)
                \/ Covers(e, <<a.x + a.w - 1, y>>) /\ Covers(a, <<a.x + a.w - 1, y>>)
<1>1. /\ a.x \in Int /\ a.y \in Int /\ a.w \in Int /\ a.h \in Int /\ a.w >= 1 /\ a.h >= 1
      /\ b.x \in Int /\ b.y \in Int /\ b.w \in Int /\ b.h \in Int /\ b.w >= 1 /\ b.h >= 1
      /\ f.x \in Int /\ f.y \in Int /\ f.w \in Int /\ f.h \in Int /\ f.w >= 1 /\ f.h >= 1
      /\ g.x \in Int /\ g.y \in Int /\ g.w \in Int /\ g.h \in Int /\ g.w >= 1 /\ g.h >= 1
  BY DEF Whole
<1>2. b.x = a.x + a.w + 1 /\ b.y = a.y /\ b.h = a.h  BY DEF BySide
<1>3. f.y + f.h <= a.y + a.h /\ g.y + g.h <= b.y + b.h  BY DEF Within2
<1>4. ShareRow(f, g) /\ ShareRow(g, f)
  <2>1. f.y <= a.y /\ a.y < f.y + f.h /\ g.y <= a.y /\ a.y < g.y + g.h  BY <1>1, <1>2
  <2> QED  BY <1>1, <2>1 DEF ShareRow
<1>5. Distance(f, g, "right") = 1 /\ Distance(g, f, "left") = 1  BY <1>1, <1>2, Measures
<1>6. Shared(f, g, "right") > 0 /\ Shared(g, f, "left") > 0  BY <1>4, Measures
<1>7. ASSUME NEW e, Whole(e), Distance(f, e, "right") \in 0..1, Shared(f, e, "right") > 0
      PROVE  \E y \in a.y..(a.y + a.h - 1) :
                \/ Covers(e, <<a.x + a.w, y>>)
                \/ Covers(e, <<b.x, y>>) /\ Covers(b, <<b.x, y>>)
  <2>1. e.x \in Int /\ e.y \in Int /\ e.w \in Int /\ e.h \in Int /\ e.w >= 1 /\ e.h >= 1
    BY <1>7 DEF Whole
  <2>2. e.x = a.x + a.w \/ e.x = b.x
    <3>1. Distance(f, e, "right") = e.x - (f.x + f.w)  BY <1>7, Measures
    <3>2. e.x - (f.x + f.w) \in 0..1  BY <1>7, <3>1
    <3> QED  BY <1>1, <1>2, <2>1, <3>2
  <2>3. PICK y \in Int : f.y <= y /\ y < f.y + f.h /\ e.y <= y /\ y < e.y + e.h
    <3>1. ShareRow(f, e)  BY <1>7, Measures
    <3> QED  BY <3>1 DEF ShareRow
  <2>4. y \in a.y..(a.y + a.h - 1) /\ y \in b.y..(b.y + b.h - 1) /\ y \in e.y..(e.y + e.h - 1)
    BY <1>1, <1>2, <1>3, <2>1, <2>3
  <2>5. Covers(e, <<e.x, y>>)
    <3>1. e.x \in e.x..(e.x + e.w - 1)  BY <2>1
    <3> QED  BY <2>4, <3>1 DEF Covers
  <2>6. Covers(b, <<b.x, y>>)
    <3>1. b.x \in b.x..(b.x + b.w - 1)  BY <1>1
    <3> QED  BY <2>4, <3>1 DEF Covers
  <2> QED  BY <2>2, <2>4, <2>5, <2>6
<1>8. ASSUME NEW e, Whole(e), Distance(g, e, "left") \in 0..1, Shared(g, e, "left") > 0
      PROVE  \E y \in a.y..(a.y + a.h - 1) :
                \/ Covers(e, <<a.x + a.w, y>>)
                \/ Covers(e, <<a.x + a.w - 1, y>>) /\ Covers(a, <<a.x + a.w - 1, y>>)
  <2>1. e.x \in Int /\ e.y \in Int /\ e.w \in Int /\ e.h \in Int /\ e.w >= 1 /\ e.h >= 1
    BY <1>8 DEF Whole
  <2>2. e.x + e.w - 1 = a.x + a.w \/ e.x + e.w - 1 = a.x + a.w - 1
    <3>1. Distance(g, e, "left") = g.x - (e.x + e.w)  BY <1>8, Measures
    <3>2. g.x - (e.x + e.w) \in 0..1  BY <1>8, <3>1
    <3> QED  BY <1>1, <1>2, <2>1, <3>2
  <2>3. PICK y \in Int : g.y <= y /\ y < g.y + g.h /\ e.y <= y /\ y < e.y + e.h
    <3>1. ShareRow(g, e)  BY <1>8, Measures
    <3> QED  BY <3>1 DEF ShareRow
  <2>4. y \in a.y..(a.y + a.h - 1) /\ y \in e.y..(e.y + e.h - 1)
    BY <1>1, <1>2, <1>3, <2>1, <2>3
  <2>5. Covers(e, <<e.x + e.w - 1, y>>)
    <3>1. e.x + e.w - 1 \in e.x..(e.x + e.w - 1)  BY <2>1
    <3> QED  BY <2>4, <3>1 DEF Covers
  <2>6. Covers(a, <<a.x + a.w - 1, y>>)
    <3>1. a.x + a.w - 1 \in a.x..(a.x + a.w - 1)  BY <1>1
    <3> QED  BY <2>4, <3>1 DEF Covers
  <2> QED  BY <2>2, <2>4, <2>5, <2>6
<1> QED  BY <1>5, <1>6, <1>7, <1>8

\* The same where b lies under a, without a line between them.
Stacked(a, b) == b.y = a.y + a.h /\ b.x = a.x /\ b.w = a.w

\* Panes above and below an edge: they are neighbors across it, and whatever is as near
\* as that lies on the far side.
LEMMA OverEdge ==
  ASSUME NEW a, Whole(a), NEW b, Whole(b), Stacked(a, b),
         NEW f, Whole(f), Within2(f, a), f.y + f.h = a.y + a.h, f.x = a.x,
         NEW g, Whole(g), Within2(g, b), g.x = b.x, g.y = b.y
  PROVE  /\ Distance(f, g, "down") = 0 /\ Shared(f, g, "down") > 0
         /\ Distance(g, f, "up") = 0 /\ Shared(g, f, "up") > 0
         /\ \A e : Whole(e) /\ Distance(f, e, "down") = 0 /\ Shared(f, e, "down") > 0 =>
              \E x \in Int : Covers(e, <<x, b.y>>) /\ Covers(b, <<x, b.y>>)
         /\ \A e : Whole(e) /\ Distance(g, e, "up") = 0 /\ Shared(g, e, "up") > 0 =>
              \E x \in Int : Covers(e, <<x, b.y - 1>>) /\ Covers(a, <<x, b.y - 1>>)
<1>1. /\ a.x \in Int /\ a.y \in Int /\ a.w \in Int /\ a.h \in Int /\ a.w >= 1 /\ a.h >= 1
      /\ b.x \in Int /\ b.y \in Int /\ b.w \in Int /\ b.h \in Int /\ b.w >= 1 /\ b.h >= 1
      /\ f.x \in Int /\ f.y \in Int /\ f.w \in Int /\ f.h \in Int /\ f.w >= 1 /\ f.h >= 1
      /\ g.x \in Int /\ g.y \in Int /\ g.w \in Int /\ g.h \in Int /\ g.w >= 1 /\ g.h >= 1
  BY DEF Whole
<1>2. b.y = a.y + a.h /\ b.x = a.x /\ b.w = a.w  BY DEF Stacked
<1>3. f.x + f.w <= a.x + a.w /\ g.x + g.w <= b.x + b.w  BY DEF Within2
<1>4. ShareColumn(f, g) /\ ShareColumn(g, f)
  <2>1. f.x <= a.x /\ a.x < f.x + f.w /\ g.x <= a.x /\ a.x < g.x + g.w  BY <1>1, <1>2
  <2> QED  BY <1>1, <2>1 DEF ShareColumn
<1>5. Distance(f, g, "down") = 0 /\ Distance(g, f, "up") = 0  BY <1>1, <1>2, Measures
<1>6. Shared(f, g, "down") > 0 /\ Shared(g, f, "up") > 0  BY <1>4, Measures
<1>7. ASSUME NEW e, Whole(e), Distance(f, e, "down") = 0, Shared(f, e, "down") > 0
      PROVE  \E x \in Int : Covers(e, <<x, b.y>>) /\ Covers(b, <<x, b.y>>)
  <2>1. e.x \in Int /\ e.y \in Int /\ e.w \in Int /\ e.h \in Int /\ e.w >= 1 /\ e.h >= 1
    BY <1>7 DEF Whole
  <2>2. e.y = b.y
    <3>1. e.y - (f.y + f.h) = 0  BY <1>7, Measures
    <3> QED  BY <1>1, <1>2, <2>1, <3>1
  <2>3. PICK x \in Int : f.x <= x /\ x < f.x + f.w /\ e.x <= x /\ x < e.x + e.w
    <3>1. ShareColumn(f, e)  BY <1>7, Measures
    <3> QED  BY <3>1 DEF ShareColumn
  <2>4. /\ x \in b.x..(b.x + b.w - 1) /\ x \in e.x..(e.x + e.w - 1)
        /\ b.y \in e.y..(e.y + e.h - 1) /\ b.y \in b.y..(b.y + b.h - 1)
    BY <1>1, <1>2, <1>3, <2>1, <2>2, <2>3
  <2> QED  BY <2>4 DEF Covers
<1>8. ASSUME NEW e, Whole(e), Distance(g, e, "up") = 0, Shared(g, e, "up") > 0
      PROVE  \E x \in Int : Covers(e, <<x, b.y - 1>>) /\ Covers(a, <<x, b.y - 1>>)
  <2>1. e.x \in Int /\ e.y \in Int /\ e.w \in Int /\ e.h \in Int /\ e.w >= 1 /\ e.h >= 1
    BY <1>8 DEF Whole
  <2>2. e.y + e.h = b.y
    <3>1. g.y - (e.y + e.h) = 0  BY <1>8, Measures
    <3> QED  BY <1>1, <1>2, <2>1, <3>1
  <2>3. PICK x \in Int : g.x <= x /\ x < g.x + g.w /\ e.x <= x /\ x < e.x + e.w
    <3>1. ShareColumn(g, e)  BY <1>8, Measures
    <3> QED  BY <3>1 DEF ShareColumn
  <2>4. /\ x \in a.x..(a.x + a.w - 1) /\ x \in e.x..(e.x + e.w - 1)
        /\ b.y - 1 \in e.y..(e.y + e.h - 1) /\ b.y - 1 \in a.y..(a.y + a.h - 1)
    BY <1>1, <1>2, <1>3, <2>1, <2>2, <2>3
  <2> QED  BY <2>4 DEF Covers
<1> QED  BY <1>5, <1>6, <1>7, <1>8

\* A leaf by its path and by its session.
LEMMA LeafRect ==
  ASSUME NEW t, OneLeafEach(t), NEW r, NEW q \in LeafPaths(t), NEW s, s = t[q].session
  PROVE  s \in Shown(t) /\ PathOf(t, s) = q /\ Rects(t, r)[s] = Places(t, r)[q]
<1>1. s \in Shown(t) /\ PathOf(t, s) = q  BY PathOfLeaf
<1>2. Rects(t, r)[s] = Places(t, r)[PathOf(t, s)]  BY <1>1 DEF Rects
<1> QED  BY <1>1, <1>2

\* A pane is drawn in its leaf's place.
LEMMA RectPlace ==
  ASSUME NEW t, NEW r, NEW s \in Shown(t)
  PROVE  Rects(t, r)[s] = Places(t, r)[PathOf(t, s)]
BY DEF Rects

\* From s toward d there is g, at a distance of k, and what is not further lies under v:
\* the move leads under v.
LEMMA LeadsUnder ==
  ASSUME NEW t, IsTree(t), NEW r, RoomFor(t, r), NEW s \in Shown(t), NEW g \in Shown(t),
         NEW d \in Dirs, NEW v, NEW k \in Nat, s # g,
         Distance(Rects(t, r)[s], Rects(t, r)[g], d) = k, Shared(Rects(t, r)[s], Rects(t, r)[g], d) > 0,
         \A u \in Shown(t) : /\ Distance(Rects(t, r)[s], Rects(t, r)[u], d) \in 0..k
                             /\ Shared(Rects(t, r)[s], Rects(t, r)[u], d) > 0
                             => Under(PathOf(t, u), v)
  PROVE  /\ Nearest(Rects(t, r), s, d) # {}
         /\ \A u \in Nearest(Rects(t, r), s, d) : Under(PathOf(t, u), v)
<1>1. DOMAIN Rects(t, r) = Shown(t)  BY DEF Rects
<1>2. g \in Candidates(Rects(t, r), s, d)  BY <1>1 DEF Candidates
<1>3. Nearest(Rects(t, r), s, d) # {}  BY <1>2, SomeNeighbor
<1>4. ASSUME NEW u \in Nearest(Rects(t, r), s, d)
      PROVE  Under(PathOf(t, u), v)
  <2>1. u \in Candidates(Rects(t, r), s, d) /\ ~Nearer(Rects(t, r)[s], Rects(t, r)[g], Rects(t, r)[u], d)
    BY <1>2, <1>4 DEF Nearest
  <2>2. /\ u \in Shown(t) /\ Distance(Rects(t, r)[s], Rects(t, r)[u], d) >= 0
        /\ Shared(Rects(t, r)[s], Rects(t, r)[u], d) > 0
    BY <1>1, <2>1 DEF Candidates
  <2>3. ~(k < Distance(Rects(t, r)[s], Rects(t, r)[u], d))  BY <2>1 DEF Nearer
  <2>4. Whole(Rects(t, r)[s]) /\ Whole(Rects(t, r)[u])  BY <2>2, RectsWithin
  <2>5. Distance(Rects(t, r)[s], Rects(t, r)[u], d) \in Int  BY <2>4, MeasuresWhole
  <2>6. Distance(Rects(t, r)[s], Rects(t, r)[u], d) \in 0..k  BY <2>2, <2>3, <2>5
  <2> QED  BY <2>2, <2>6
<1> QED  BY <1>3, <1>4

\* A leaf in a corner of the place v.
LEMMA LeafIn ==
  ASSUME NEW t, IsTree(t), OneLeafEach(t), NEW r, RoomFor(t, r), NEW v \in DOMAIN t, NEW k \in Corners
  PROVE  \E s \in Shown(t) :
           /\ Under(PathOf(t, s), v) /\ Whole(Rects(t, r)[s])
           /\ Within2(Rects(t, r)[s], Places(t, r)[v])
           /\ Corner(k, Rects(t, r)[s]) = Corner(k, Places(t, r)[v])
<1>1. PICK q \in LeafPaths(t) : Under(q, v) /\ Corner(k, Places(t, r)[q]) = Corner(k, Places(t, r)[v])
  BY CornerLeaf
<1>2. PICK s : s = t[q].session  OBVIOUS
<1>3. s \in Shown(t) /\ PathOf(t, s) = q /\ Rects(t, r)[s] = Places(t, r)[q]  BY <1>2, LeafRect
<1>4. q \in DOMAIN t /\ v \in Paths /\ q \in Paths  BY Ancestors DEF LeafPaths
<1>5. PICK n : n = Len(v)  OBVIOUS
<1>6. n \in 0..Len(q) /\ Up(q, n) = v
  <2>1. Len(v) \in Nat /\ Len(q) \in Nat  BY <1>4
  <2> QED  BY <1>1, <1>5, <2>1 DEF Under
<1>7. Whole(Places(t, r)[q]) /\ Within2(Places(t, r)[q], Places(t, r)[Up(q, n)])  BY <1>4, <1>6, PlacesWithin
<1> QED  BY <1>1, <1>3, <1>6, <1>7

\* A pane with a cell of a node's place is under that node.
LEMMA CellRectUnder ==
  ASSUME NEW t, IsTree(t), NEW r, RoomFor(t, r), NEW u \in Shown(t), NEW v \in DOMAIN t,
         NEW c \in Int \X Int, Covers(Rects(t, r)[u], c), Covers(Places(t, r)[v], c)
  PROVE  Under(PathOf(t, u), v)
<1>1. Rects(t, r)[u] = Places(t, r)[PathOf(t, u)]  BY RectPlace
<1>2. PathOf(t, u) \in LeafPaths(t)  BY PathOfShown
<1>3. PICK q : q = PathOf(t, u)  OBVIOUS
<1> QED  BY <1>1, <1>2, <1>3, CellUnder

\* The halves of the inner node p.
LEMMA SidesOf ==
  ASSUME NEW t, IsTree(t), NEW r, RoomFor(t, r), NEW p \in DOMAIN t, ~t[p].leaf
  PROVE  /\ t[p] \in Splitting /\ Whole(Places(t, r)[p])
         /\ Append(p, FALSE) \in DOMAIN t /\ Append(p, TRUE) \in DOMAIN t
         /\ Places(t, r)[Append(p, FALSE)] = Half(t[p], Places(t, r)[p], FALSE)
         /\ Places(t, r)[Append(p, TRUE)] = Half(t[p], Places(t, r)[p], TRUE)
         /\ Whole(Places(t, r)[Append(p, FALSE)]) /\ Whole(Places(t, r)[Append(p, TRUE)])
         /\ CutAt(t[p], Places(t, r)[p], Places(t, r)[Append(p, FALSE)], Places(t, r)[Append(p, TRUE)])
<1>1. /\ t[p] \in Splitting
      /\ \A b \in BOOLEAN : /\ Append(p, b) \in DOMAIN t
                            /\ Places(t, r)[Append(p, b)] = Half(t[p], Places(t, r)[p], b)
  BY PlaceIs
<1>2. Fits2(t[p], Places(t, r)[p])  BY DEF RoomFor, LeafPaths
<1>3. Whole(Places(t, r)[p])  BY PlaceWhole
<1>4. PICK a \in DOMAIN t : a = Append(p, FALSE) /\ Places(t, r)[a] = Half(t[p], Places(t, r)[p], FALSE)  BY <1>1
<1>5. PICK z \in DOMAIN t : z = Append(p, TRUE) /\ Places(t, r)[z] = Half(t[p], Places(t, r)[p], TRUE)  BY <1>1
<1>6. Whole(Places(t, r)[a]) /\ Whole(Places(t, r)[z])  BY PlaceWhole
<1>7. CutAt(t[p], Places(t, r)[p], Half(t[p], Places(t, r)[p], FALSE), Half(t[p], Places(t, r)[p], TRUE))
  BY <1>1, <1>2, <1>3, CutIs
<1> QED  BY <1>1, <1>3, <1>4, <1>5, <1>6, <1>7

\* No path is on both sides of a split.
LEMMA SidesApart ==
  ASSUME NEW q \in Paths, NEW p \in Paths, Under(q, Append(p, FALSE)), Under(q, Append(p, TRUE))
  PROVE  FALSE
<1>1. PICK a \in Paths : a = Append(p, FALSE) /\ Len(a) = Len(p) + 1 /\ Last(a) = FALSE  BY LongerPath
<1>2. PICK z \in Paths : z = Append(p, TRUE) /\ Len(z) = Len(p) + 1 /\ Last(z) = TRUE  BY LongerPath
<1>3. a = z  BY <1>1, <1>2 DEF Under
<1> QED  BY <1>1, <1>2, <1>3

\* The corners by name.
LEMMA CornerIs ==
  ASSUME NEW r
  PROVE  /\ Corner("top left", r) = <<r.x, r.y>>
         /\ Corner("top right", r) = <<r.x + r.w - 1, r.y>>
         /\ Corner("bottom left", r) = <<r.x, r.y + r.h - 1>>
         /\ Corners = {"top left", "top right", "bottom left"}
<1>1. Corner("top left", r) = <<r.x, r.y>>  BY DEF Corner
<1>2. Corner("top right", r) = <<r.x + r.w - 1, r.y>>  BY DEF Corner
<1>3. Corner("bottom left", r) = <<r.x, r.y + r.h - 1>>  BY DEF Corner
<1> QED  BY <1>1, <1>2, <1>3 DEF Corners

\* Equal points have equal coordinates.
LEMMA SameCorner ==
  ASSUME NEW a, NEW b, NEW c, NEW d, <<a, b>> = <<c, d>>
  PROVE  a = c /\ b = d
<1>1. <<a, b>>[1] = <<c, d>>[1] /\ <<a, b>>[2] = <<c, d>>[2]  OBVIOUS
<1> QED  BY <1>1

\* Under every node a pane has its top left corner.
LEMMA TopLeftLeaf ==
  ASSUME NEW t, IsTree(t), OneLeafEach(t), NEW r, RoomFor(t, r), NEW v \in DOMAIN t
  PROVE  \E s \in Shown(t) :
           /\ Under(PathOf(t, s), v) /\ Whole(Rects(t, r)[s])
           /\ Within2(Rects(t, r)[s], Places(t, r)[v])
           /\ Rects(t, r)[s].x = Places(t, r)[v].x /\ Rects(t, r)[s].y = Places(t, r)[v].y
<1>1. PICK k \in Corners : k = "top left"  BY CornerIs
<1>2. PICK s \in Shown(t) :
           /\ Under(PathOf(t, s), v) /\ Whole(Rects(t, r)[s])
           /\ Within2(Rects(t, r)[s], Places(t, r)[v])
           /\ Corner(k, Rects(t, r)[s]) = Corner(k, Places(t, r)[v])
  BY LeafIn
<1>3. PICK a : a = Rects(t, r)[s]  OBVIOUS
<1>4. PICK e : e = Places(t, r)[v]  OBVIOUS
<1>5. Corner("top left", a) = Corner("top left", e)  BY <1>1, <1>2, <1>3, <1>4
<1>6. /\ Corner("top left", a) = <<a.x, a.y>>
      /\ Corner("top left", e) = <<e.x, e.y>>
  BY CornerIs
<1>7. a.x = e.x /\ a.y = e.y
  <2>1. <<a.x, a.y>> = <<e.x, e.y>>  BY <1>5, <1>6
  <2> QED  BY <2>1, SameCorner, Zenon
<1>8. /\ a.x \in Int /\ a.y \in Int /\ a.w \in Int /\ a.h \in Int
      /\ e.x \in Int /\ e.y \in Int /\ e.w \in Int /\ e.h \in Int
  BY <1>2, <1>3, <1>4, PlaceWhole DEF Whole
<1>9. a.x = e.x /\ a.y = e.y  BY <1>7, <1>8
<1> QED  BY <1>2, <1>3, <1>4, <1>9

\* Under every node a pane has its top right corner.
LEMMA TopRightLeaf ==
  ASSUME NEW t, IsTree(t), OneLeafEach(t), NEW r, RoomFor(t, r), NEW v \in DOMAIN t
  PROVE  \E s \in Shown(t) :
           /\ Under(PathOf(t, s), v) /\ Whole(Rects(t, r)[s])
           /\ Within2(Rects(t, r)[s], Places(t, r)[v])
           /\ Rects(t, r)[s].x + Rects(t, r)[s].w = Places(t, r)[v].x + Places(t, r)[v].w
           /\ Rects(t, r)[s].y = Places(t, r)[v].y
<1>1. PICK k \in Corners : k = "top right"  BY CornerIs
<1>2. PICK s \in Shown(t) :
           /\ Under(PathOf(t, s), v) /\ Whole(Rects(t, r)[s])
           /\ Within2(Rects(t, r)[s], Places(t, r)[v])
           /\ Corner(k, Rects(t, r)[s]) = Corner(k, Places(t, r)[v])
  BY LeafIn
<1>3. PICK a : a = Rects(t, r)[s]  OBVIOUS
<1>4. PICK e : e = Places(t, r)[v]  OBVIOUS
<1>5. Corner("top right", a) = Corner("top right", e)  BY <1>1, <1>2, <1>3, <1>4
<1>6. /\ Corner("top right", a) = <<a.x + a.w - 1, a.y>>
      /\ Corner("top right", e) = <<e.x + e.w - 1, e.y>>
  BY CornerIs
<1>7. a.x + a.w - 1 = e.x + e.w - 1 /\ a.y = e.y
  <2>1. <<a.x + a.w - 1, a.y>> = <<e.x + e.w - 1, e.y>>  BY <1>5, <1>6
  <2> QED  BY <2>1, SameCorner, Zenon
<1>8. /\ a.x \in Int /\ a.y \in Int /\ a.w \in Int /\ a.h \in Int
      /\ e.x \in Int /\ e.y \in Int /\ e.w \in Int /\ e.h \in Int
  BY <1>2, <1>3, <1>4, PlaceWhole DEF Whole
<1>9. a.x + a.w = e.x + e.w /\ a.y = e.y  BY <1>7, <1>8
<1> QED  BY <1>2, <1>3, <1>4, <1>9

\* Under every node a pane has its bottom left corner.
LEMMA BottomLeftLeaf ==
  ASSUME NEW t, IsTree(t), OneLeafEach(t), NEW r, RoomFor(t, r), NEW v \in DOMAIN t
  PROVE  \E s \in Shown(t) :
           /\ Under(PathOf(t, s), v) /\ Whole(Rects(t, r)[s])
           /\ Within2(Rects(t, r)[s], Places(t, r)[v])
           /\ Rects(t, r)[s].y + Rects(t, r)[s].h = Places(t, r)[v].y + Places(t, r)[v].h
           /\ Rects(t, r)[s].x = Places(t, r)[v].x
<1>1. PICK k \in Corners : k = "bottom left"  BY CornerIs
<1>2. PICK s \in Shown(t) :
           /\ Under(PathOf(t, s), v) /\ Whole(Rects(t, r)[s])
           /\ Within2(Rects(t, r)[s], Places(t, r)[v])
           /\ Corner(k, Rects(t, r)[s]) = Corner(k, Places(t, r)[v])
  BY LeafIn
<1>3. PICK a : a = Rects(t, r)[s]  OBVIOUS
<1>4. PICK e : e = Places(t, r)[v]  OBVIOUS
<1>5. Corner("bottom left", a) = Corner("bottom left", e)  BY <1>1, <1>2, <1>3, <1>4
<1>6. /\ Corner("bottom left", a) = <<a.x, a.y + a.h - 1>>
      /\ Corner("bottom left", e) = <<e.x, e.y + e.h - 1>>
  BY CornerIs
<1>7. a.x = e.x /\ a.y + a.h - 1 = e.y + e.h - 1
  <2>1. <<a.x, a.y + a.h - 1>> = <<e.x, e.y + e.h - 1>>  BY <1>5, <1>6
  <2> QED  BY <2>1, SameCorner, Zenon
<1>8. /\ a.x \in Int /\ a.y \in Int /\ a.w \in Int /\ a.h \in Int
      /\ e.x \in Int /\ e.y \in Int /\ e.w \in Int /\ e.h \in Int
  BY <1>2, <1>3, <1>4, PlaceWhole DEF Whole
<1>9. a.y + a.h = e.y + e.h /\ a.x = e.x
  <2>1. a.x = e.x /\ a.y + a.h - 1 = e.y + e.h - 1  BY <1>7
  <2>2. a.y + a.h = e.y + e.h  BY <1>8, <2>1
  <2> QED  BY <2>1, <2>2
<1> QED  BY <1>2, <1>3, <1>4, <1>9

\* The arrows cross a divider that is a column, both ways.
LEMMA CrossColumn ==
  ASSUME NEW t, IsTree(t), OneLeafEach(t), NEW r, RoomFor(t, r), NEW p \in DOMAIN t, ~t[p].leaf,
         t[p].dir = "right", NEW b \in BOOLEAN
  PROVE  \E s \in Shown(t), d \in Dirs :
           /\ Under(PathOf(t, s), Append(p, b)) /\ Nearest(Rects(t, r), s, d) # {}
           /\ \A u \in Nearest(Rects(t, r), s, d) : Under(PathOf(t, u), Append(p, ~b))
<1>1. PICK pa \in DOMAIN t : pa = Append(p, FALSE)  BY SidesOf
<1>2. PICK pz \in DOMAIN t : pz = Append(p, TRUE)  BY SidesOf
<1>3. PICK R : R = Rects(t, r)  OBVIOUS
<1>4. PICK e : e = Places(t, r)[p]  OBVIOUS
<1>5. PICK a : a = Places(t, r)[pa]  OBVIOUS
<1>6. PICK z : z = Places(t, r)[pz]  OBVIOUS
<1>7. /\ t[p] \in Splitting /\ Whole(e) /\ Whole(a) /\ Whole(z) /\ CutAt(t[p], e, a, z)
      /\ a = Half(t[p], e, FALSE)
  <2>1. t[p] \in Splitting /\ Whole(Places(t, r)[p])  BY SidesOf
  <2>2. \A d \in BOOLEAN : Places(t, r)[Append(p, d)] = Half(t[p], Places(t, r)[p], d)
    BY PlaceIs
  <2>3. Whole(Places(t, r)[Append(p, FALSE)]) /\ Whole(Places(t, r)[Append(p, TRUE)])  BY SidesOf
  <2>4. CutAt(t[p], Places(t, r)[p], Places(t, r)[Append(p, FALSE)], Places(t, r)[Append(p, TRUE)])
    BY SidesOf
  <2> QED  BY <1>1, <1>2, <1>4, <1>5, <1>6, <2>1, <2>2, <2>3, <2>4
<1>8. /\ e.x \in Int /\ e.y \in Int /\ e.w \in Int /\ e.h \in Int
      /\ a.x \in Int /\ a.y \in Int /\ a.w \in Int /\ a.h \in Int
      /\ z.x \in Int /\ z.y \in Int /\ z.w \in Int /\ z.h \in Int
  BY <1>7 DEF Whole
<1>9. a.y = e.y /\ a.h = e.h /\ z.x = a.x + a.w + 1 /\ z.y = a.y /\ z.h = a.h
  BY <1>7, <1>8 DEF CutAt
<1>10. BySide(a, z)  BY <1>9 DEF BySide
<1>11. PICK s \in Shown(t) : /\ Under(PathOf(t, s), pa) /\ Whole(R[s]) /\ Within2(R[s], a)
                             /\ R[s].x + R[s].w = a.x + a.w /\ R[s].y = a.y
  BY <1>3, <1>5, TopRightLeaf
<1>12. PICK g \in Shown(t) : /\ Under(PathOf(t, g), pz) /\ Whole(R[g]) /\ Within2(R[g], z)
                             /\ R[g].x = z.x /\ R[g].y = z.y
  BY <1>3, <1>6, TopLeftLeaf
<1>13. R[s].x + R[s].w = a.x + a.w /\ R[s].y = a.y  BY <1>11
<1>14. R[g].x = z.x /\ R[g].y = z.y  BY <1>12
<1>15. PICK f : f = R[s]  OBVIOUS
<1>16. PICK h : h = R[g]  OBVIOUS
<1>17. /\ Distance(f, h, "right") = 1 /\ Shared(f, h, "right") > 0
       /\ Distance(h, f, "left") = 1 /\ Shared(h, f, "left") > 0
       /\ \A o : Whole(o) /\ Distance(f, o, "right") \in 0..1 /\ Shared(f, o, "right") > 0 =>
            \E y \in a.y..(a.y + a.h - 1) :
              \/ Covers(o, <<a.x + a.w, y>>)
              \/ Covers(o, <<z.x, y>>) /\ Covers(z, <<z.x, y>>)
       /\ \A o : Whole(o) /\ Distance(h, o, "left") \in 0..1 /\ Shared(h, o, "left") > 0 =>
            \E y \in a.y..(a.y + a.h - 1) :
              \/ Covers(o, <<a.x + a.w, y>>)
              \/ Covers(o, <<a.x + a.w - 1, y>>) /\ Covers(a, <<a.x + a.w - 1, y>>)
  BY <1>7, <1>10, <1>11, <1>12, <1>13, <1>14, <1>15, <1>16, OverColumn, ZenonT(60)
<1>18. s # g
  <2>1. PathOf(t, s) \in LeafPaths(t) /\ PathOf(t, s) \in DOMAIN t  BY PathOfShown
  <2>2. PathOf(t, s) \in Paths /\ p \in Paths  BY <2>1, Ancestors
  <2> QED  BY <1>1, <1>2, <1>11, <1>12, <2>2, SidesApart
<1>19. \A u \in Shown(t) : Whole(R[u])  BY <1>3, RectsWithin
<1>20. ASSUME NEW u \in Shown(t), NEW y \in a.y..(a.y + a.h - 1)
       PROVE  ~Covers(R[u], <<a.x + a.w, y>>)
  <2>1. PICK c \in Int \X Int : c = <<a.x + a.w, y>>
    <3>1. <<a.x + a.w, y>> \in Int \X Int  BY <1>8
    <3> QED  BY <3>1
  <2>2. c[1] = a.x + a.w /\ c[2] = y  BY <2>1
  <2>3. y \in e.y..(e.y + e.h - 1)  BY <1>9
  <2>4. HasDivider(t[p], e, c[1], c[2])
    <3>1. Halves(t[p], e)[1] = a  BY <1>7 DEF Half
    <3> QED  BY <2>2, <2>3, <3>1 DEF HasDivider
  <2>5. PICK q : q = PathOf(t, u)  OBVIOUS
  <2>6. q \in LeafPaths(t) /\ R[u] = Places(t, r)[q]  BY <1>3, <2>5, PathOfShown, RectPlace
  <2> QED  BY <1>4, <2>1, <2>4, <2>6, LineFree
<1>21. CASE b = FALSE
  <2>1. ASSUME NEW u \in Shown(t), Distance(f, R[u], "right") \in 0..1, Shared(f, R[u], "right") > 0
        PROVE  Under(PathOf(t, u), pz)
    <3>1. PICK y \in a.y..(a.y + a.h - 1) : \/ Covers(R[u], <<a.x + a.w, y>>)
                                            \/ Covers(R[u], <<z.x, y>>) /\ Covers(z, <<z.x, y>>)
      BY <1>17, <1>19, <2>1
    <3>2. Covers(R[u], <<z.x, y>>) /\ Covers(z, <<z.x, y>>)  BY <1>20, <3>1
    <3>3. PICK c \in Int \X Int : c = <<z.x, y>>
      <4>1. <<z.x, y>> \in Int \X Int  BY <1>8
      <4> QED  BY <4>1
    <3> QED  BY <1>3, <1>6, <3>2, <3>3, CellRectUnder
  <2>2. PICK k \in Nat : k = 1  OBVIOUS
  <2>3. PICK d \in Dirs : d = "right"  BY DEF Dirs
  <2>4. /\ Distance(R[s], R[g], d) = k /\ Shared(R[s], R[g], d) > 0
        /\ \A u \in Shown(t) : Distance(R[s], R[u], d) \in 0..k /\ Shared(R[s], R[u], d) > 0
                               => Under(PathOf(t, u), pz)
    BY <1>15, <1>16, <1>17, <2>1, <2>2, <2>3
  <2>5. /\ Nearest(R, s, d) # {}
        /\ \A u \in Nearest(R, s, d) : Under(PathOf(t, u), pz)
    BY <1>3, <1>18, <2>4, LeadsUnder
  <2> QED  BY <1>1, <1>2, <1>3, <1>11, <1>21, <2>5
<1>22. CASE b = TRUE
  <2>1. ASSUME NEW u \in Shown(t), Distance(h, R[u], "left") \in 0..1, Shared(h, R[u], "left") > 0
        PROVE  Under(PathOf(t, u), pa)
    <3>1. PICK y \in a.y..(a.y + a.h - 1) : \/ Covers(R[u], <<a.x + a.w, y>>)
                                            \/ Covers(R[u], <<a.x + a.w - 1, y>>) /\ Covers(a, <<a.x + a.w - 1, y>>)
      BY <1>17, <1>19, <2>1
    <3>2. Covers(R[u], <<a.x + a.w - 1, y>>) /\ Covers(a, <<a.x + a.w - 1, y>>)  BY <1>20, <3>1
    <3>3. PICK c \in Int \X Int : c = <<a.x + a.w - 1, y>>
      <4>1. <<a.x + a.w - 1, y>> \in Int \X Int  BY <1>8
      <4> QED  BY <4>1
    <3> QED  BY <1>3, <1>5, <3>2, <3>3, CellRectUnder
  <2>2. PICK k \in Nat : k = 1  OBVIOUS
  <2>3. PICK d \in Dirs : d = "left"  BY DEF Dirs
  <2>4. /\ Distance(R[g], R[s], d) = k /\ Shared(R[g], R[s], d) > 0
        /\ \A u \in Shown(t) : Distance(R[g], R[u], d) \in 0..k /\ Shared(R[g], R[u], d) > 0
                               => Under(PathOf(t, u), pa)
    BY <1>15, <1>16, <1>17, <2>1, <2>2, <2>3
  <2>5. /\ Nearest(R, g, d) # {}
        /\ \A u \in Nearest(R, g, d) : Under(PathOf(t, u), pa)
    BY <1>3, <1>18, <2>4, LeadsUnder
  <2> QED  BY <1>1, <1>2, <1>3, <1>12, <1>22, <2>5
<1> QED  BY <1>21, <1>22

\* The same for a divider that is a row.
LEMMA CrossEdge ==
  ASSUME NEW t, IsTree(t), OneLeafEach(t), NEW r, RoomFor(t, r), NEW p \in DOMAIN t, ~t[p].leaf,
         t[p].dir # "right", NEW b \in BOOLEAN
  PROVE  \E s \in Shown(t), d \in Dirs :
           /\ Under(PathOf(t, s), Append(p, b)) /\ Nearest(Rects(t, r), s, d) # {}
           /\ \A u \in Nearest(Rects(t, r), s, d) : Under(PathOf(t, u), Append(p, ~b))
<1>1. PICK pa \in DOMAIN t : pa = Append(p, FALSE)  BY SidesOf
<1>2. PICK pz \in DOMAIN t : pz = Append(p, TRUE)  BY SidesOf
<1>3. PICK R : R = Rects(t, r)  OBVIOUS
<1>4. PICK e : e = Places(t, r)[p]  OBVIOUS
<1>5. PICK a : a = Places(t, r)[pa]  OBVIOUS
<1>6. PICK z : z = Places(t, r)[pz]  OBVIOUS
<1>7. Whole(e) /\ Whole(a) /\ Whole(z) /\ CutAt(t[p], e, a, z)
  BY <1>1, <1>2, <1>4, <1>5, <1>6, SidesOf
<1>8. /\ e.x \in Int /\ e.y \in Int /\ e.w \in Int /\ e.h \in Int
      /\ a.x \in Int /\ a.y \in Int /\ a.w \in Int /\ a.h \in Int
      /\ z.x \in Int /\ z.y \in Int /\ z.w \in Int /\ z.h \in Int
  BY <1>7 DEF Whole
<1>9. z.y = a.y + a.h /\ z.x = a.x /\ z.w = a.w  BY <1>7, <1>8 DEF CutAt
<1>10. Stacked(a, z)  BY <1>9 DEF Stacked
<1>11. PICK s \in Shown(t) : /\ Under(PathOf(t, s), pa) /\ Whole(R[s]) /\ Within2(R[s], a)
                             /\ R[s].y + R[s].h = a.y + a.h /\ R[s].x = a.x
  BY <1>3, <1>5, BottomLeftLeaf
<1>12. PICK g \in Shown(t) : /\ Under(PathOf(t, g), pz) /\ Whole(R[g]) /\ Within2(R[g], z)
                             /\ R[g].x = z.x /\ R[g].y = z.y
  BY <1>3, <1>6, TopLeftLeaf
<1>13. R[s].y + R[s].h = a.y + a.h /\ R[s].x = a.x  BY <1>11
<1>14. R[g].x = z.x /\ R[g].y = z.y  BY <1>12
<1>15. PICK f : f = R[s]  OBVIOUS
<1>16. PICK h : h = R[g]  OBVIOUS
<1>17. /\ Distance(f, h, "down") = 0 /\ Shared(f, h, "down") > 0
       /\ Distance(h, f, "up") = 0 /\ Shared(h, f, "up") > 0
       /\ \A o : Whole(o) /\ Distance(f, o, "down") = 0 /\ Shared(f, o, "down") > 0 =>
            \E x \in Int : Covers(o, <<x, z.y>>) /\ Covers(z, <<x, z.y>>)
       /\ \A o : Whole(o) /\ Distance(h, o, "up") = 0 /\ Shared(h, o, "up") > 0 =>
            \E x \in Int : Covers(o, <<x, z.y - 1>>) /\ Covers(a, <<x, z.y - 1>>)
  BY <1>7, <1>10, <1>11, <1>12, <1>13, <1>14, <1>15, <1>16, OverEdge
<1>18. s # g
  <2>1. PathOf(t, s) \in LeafPaths(t) /\ PathOf(t, s) \in DOMAIN t  BY PathOfShown
  <2>2. PathOf(t, s) \in Paths /\ p \in Paths  BY <2>1, Ancestors
  <2> QED  BY <1>1, <1>2, <1>11, <1>12, <2>2, SidesApart
<1>19. \A u \in Shown(t) : Whole(R[u])  BY <1>3, RectsWithin
<1>20. PICK k \in Nat : k = 0  OBVIOUS
<1>21. \A i : i \in 0..k <=> i = 0  BY <1>20
<1>22. CASE b = FALSE
  <2>1. ASSUME NEW u \in Shown(t), Distance(f, R[u], "down") = 0, Shared(f, R[u], "down") > 0
        PROVE  Under(PathOf(t, u), pz)
    <3>1. PICK x \in Int : Covers(R[u], <<x, z.y>>) /\ Covers(z, <<x, z.y>>)  BY <1>17, <1>19, <2>1
    <3>2. PICK c \in Int \X Int : c = <<x, z.y>>
      <4>1. <<x, z.y>> \in Int \X Int  BY <1>8
      <4> QED  BY <4>1
    <3> QED  BY <1>3, <1>6, <3>1, <3>2, CellRectUnder
  <2>2. PICK d \in Dirs : d = "down"  BY DEF Dirs
  <2>3. /\ Distance(R[s], R[g], d) = k /\ Shared(R[s], R[g], d) > 0
        /\ \A u \in Shown(t) : Distance(R[s], R[u], d) \in 0..k /\ Shared(R[s], R[u], d) > 0
                               => Under(PathOf(t, u), pz)
    BY <1>15, <1>16, <1>17, <1>20, <1>21, <2>1, <2>2
  <2>4. /\ Nearest(R, s, d) # {}
        /\ \A u \in Nearest(R, s, d) : Under(PathOf(t, u), pz)
    BY <1>3, <1>18, <2>3, LeadsUnder
  <2> QED  BY <1>1, <1>2, <1>3, <1>11, <1>22, <2>4
<1>23. CASE b = TRUE
  <2>1. ASSUME NEW u \in Shown(t), Distance(h, R[u], "up") = 0, Shared(h, R[u], "up") > 0
        PROVE  Under(PathOf(t, u), pa)
    <3>1. PICK x \in Int : Covers(R[u], <<x, z.y - 1>>) /\ Covers(a, <<x, z.y - 1>>)  BY <1>17, <1>19, <2>1
    <3>2. PICK c \in Int \X Int : c = <<x, z.y - 1>>
      <4>1. <<x, z.y - 1>> \in Int \X Int  BY <1>8
      <4> QED  BY <4>1
    <3> QED  BY <1>3, <1>5, <3>1, <3>2, CellRectUnder
  <2>2. PICK d \in Dirs : d = "up"  BY DEF Dirs
  <2>3. /\ Distance(R[g], R[s], d) = k /\ Shared(R[g], R[s], d) > 0
        /\ \A u \in Shown(t) : Distance(R[g], R[u], d) \in 0..k /\ Shared(R[g], R[u], d) > 0
                               => Under(PathOf(t, u), pa)
    BY <1>15, <1>16, <1>17, <1>20, <1>21, <2>1, <2>2
  <2>4. /\ Nearest(R, g, d) # {}
        /\ \A u \in Nearest(R, g, d) : Under(PathOf(t, u), pa)
    BY <1>3, <1>18, <2>3, LeadsUnder
  <2> QED  BY <1>1, <1>2, <1>3, <1>12, <1>23, <2>4
<1> QED  BY <1>22, <1>23

\* From either side of a split some pane's arrow leads to the other side, and there
\* alone.
LEMMA Crossing ==
  ASSUME NEW t, IsTree(t), OneLeafEach(t), NEW r, RoomFor(t, r), NEW p \in DOMAIN t, ~t[p].leaf,
         NEW b \in BOOLEAN
  PROVE  \E s \in Shown(t), d \in Dirs :
           /\ Under(PathOf(t, s), Append(p, b)) /\ Nearest(Rects(t, r), s, d) # {}
           /\ \A u \in Nearest(Rects(t, r), s, d) : Under(PathOf(t, u), Append(p, ~b))
<1>1. CASE t[p].dir = "right"  BY <1>1, CrossColumn
<1>2. CASE t[p].dir # "right"  BY <1>2, CrossEdge
<1> QED  BY <1>1, <1>2

\* Under p, X has all the panes or none.
AllUnder(t, X, p) ==
  \A s, u \in Shown(t) : s \in X /\ Under(PathOf(t, s), p) /\ Under(PathOf(t, u), p) => u \in X

\* A leaf has one pane: if any of its panes is in X, all are.
LEMMA AllUnderLeaf ==
  ASSUME NEW t, IsTree(t), NEW X, NEW p \in LeafPaths(t)
  PROVE  AllUnder(t, X, p)
<1>1. ASSUME NEW s \in Shown(t), Under(PathOf(t, s), p) PROVE PathOf(t, s) = p
  <2>1. PICK q \in LeafPaths(t) : q = PathOf(t, s)  BY PathOfShown
  <2>2. q \in DOMAIN t /\ p \in DOMAIN t  BY DEF LeafPaths
  <2>3. q \in Paths /\ Len(q) \in Nat /\ Len(p) \in Nat  BY <2>2, Ancestors
  <2>4. Len(p) <= Len(q) /\ Up(q, Len(p)) = p  BY <1>1, <2>1 DEF Under
  <2>5. ~(Len(p) < Len(q))  BY <2>2, <2>4, LeafEnds
  <2>6. Len(p) = Len(q)  BY <2>3, <2>4, <2>5
  <2> QED  BY <2>1, <2>3, <2>4, <2>6, UpWhole
<1>2. \A s \in Shown(t) : t[PathOf(t, s)].session = s  BY PathOfShown
<1>3. \A s, u \in Shown(t) : Under(PathOf(t, s), p) /\ Under(PathOf(t, u), p) => s = u
  BY <1>1, <1>2
<1> QED  BY <1>3 DEF AllUnder

\* If the arrows never leave X and X has all or none of each side of a split, it has
\* all or none of the split.
LEMMA AllUnderSplit ==
  ASSUME NEW t, IsTree(t), OneLeafEach(t), NEW r, RoomFor(t, r), NEW X,
         \A s \in X, d \in Dirs : Nearest(Rects(t, r), s, d) \subseteq X,
         NEW p \in DOMAIN t, ~t[p].leaf,
         \A b \in BOOLEAN : AllUnder(t, X, Append(p, b))
  PROVE  AllUnder(t, X, p)
<1> SUFFICES ASSUME NEW s \in Shown(t), NEW u \in Shown(t), s \in X,
                    Under(PathOf(t, s), p), Under(PathOf(t, u), p)
             PROVE  u \in X
  BY DEF AllUnder
<1>1. ASSUME NEW v \in Shown(t), Under(PathOf(t, v), p)
      PROVE  \E b \in BOOLEAN : Under(PathOf(t, v), Append(p, b))
  <2>1. PICK q \in LeafPaths(t) : q = PathOf(t, v)  BY PathOfShown
  <2>2. q \in DOMAIN t /\ t[q].leaf  BY DEF LeafPaths
  <2> QED  BY <1>1, <2>1, <2>2, UnderSides
<1>2. PICK b \in BOOLEAN : Under(PathOf(t, s), Append(p, b))  BY <1>1
<1>3. PICK n \in BOOLEAN : n = ~b  OBVIOUS
<1>4. PICK v \in Shown(t), d \in Dirs :
         /\ Under(PathOf(t, v), Append(p, b)) /\ Nearest(Rects(t, r), v, d) # {}
         /\ \A w \in Nearest(Rects(t, r), v, d) : Under(PathOf(t, w), Append(p, n))
  BY <1>3, Crossing
<1>5. v \in X  BY <1>2, <1>4 DEF AllUnder
<1>6. PICK w \in Nearest(Rects(t, r), v, d) : w \in X  BY <1>4, <1>5
<1>7. w \in Shown(t)
  <2>1. DOMAIN Rects(t, r) = Shown(t)  BY DEF Rects
  <2> QED  BY <2>1 DEF Nearest, Candidates
<1>8. PICK m \in BOOLEAN : Under(PathOf(t, u), Append(p, m))  BY <1>1
<1>9. CASE m = b  BY <1>2, <1>8, <1>9 DEF AllUnder
<1>10. CASE m = n
  <2>1. Under(PathOf(t, w), Append(p, n)) /\ Under(PathOf(t, u), Append(p, n))  BY <1>4, <1>8, <1>10
  <2>2. AllUnder(t, X, Append(p, n))  OBVIOUS
  <2> QED  BY <1>6, <1>7, <2>1, <2>2 DEF AllUnder
<1> QED  BY <1>3, <1>9, <1>10

\* A set of panes that the arrows never leave is empty or has them all.
LEMMA Linked ==
  ASSUME NEW t, IsTree(t), OneLeafEach(t), NEW r, RoomFor(t, r), NEW X, X \subseteq Shown(t), X # {},
         \A s \in X, d \in Dirs : Nearest(Rects(t, r), s, d) \subseteq X
  PROVE  X = Shown(t)
<1>1. PICK n \in Nat : Grown(t, n)  BY DEF IsTree
<1>2. \A p \in DOMAIN t : p \in Paths /\ Len(p) <= n  BY <1>1 DEF Grown
<1> DEFINE bad == {p \in DOMAIN t : ~AllUnder(t, X, p)}
           f == [p \in bad |-> n - Len(p)]
<1>3. bad = {}
  <2> SUFFICES ASSUME bad # {} PROVE FALSE  OBVIOUS
  <2>1. \A p \in bad : f[p] = n - Len(p) /\ f[p] \in Nat /\ Len(p) \in Nat
    <3>1. \A p \in DOMAIN t : Len(p) \in Nat /\ Len(p) <= n  BY <1>2, UpWhole
    <3>2. \A p \in DOMAIN t : n - Len(p) \in Nat  BY <3>1
    <3> QED  BY <3>1, <3>2
  <2> HIDE DEF f
  <2>2. PICK p \in bad : \A q \in bad : f[p] <= f[q]  BY <2>1, ArgLeast
  <2>3. p \in DOMAIN t /\ ~AllUnder(t, X, p)  OBVIOUS
  <2>4. ~t[p].leaf  BY <2>3, AllUnderLeaf DEF LeafPaths
  <2>5. ASSUME NEW b \in BOOLEAN PROVE AllUnder(t, X, Append(p, b))
    <3>1. PICK q \in DOMAIN t : q = Append(p, b)  BY <2>3, <2>4, PlaceIs
    <3>2. Len(q) = Len(p) + 1  BY <1>2, <2>3, <3>1, LongerPath
    <3>3. ASSUME q \in bad PROVE FALSE
      <4>1. f[p] <= f[q] /\ f[p] = n - Len(p) /\ f[q] = n - Len(q) /\ Len(p) \in Nat  BY <2>1, <2>2, <3>3
      <4> QED  BY <3>2, <4>1
    <3> QED  BY <3>1, <3>3
  <2> QED  BY <2>3, <2>4, <2>5, AllUnderSplit
<1>4. AllUnder(t, X, Root)  BY <1>3, PlaceIs
<1>5. \A s \in Shown(t) : Under(PathOf(t, s), Root)  BY PathOfShown, UnderSelf
<1> QED  BY <1>4, <1>5 DEF AllUnder

\* Before, in terms of the turns.
LEMMA BeforeIs ==
  ASSUME NEW p \in Paths, NEW q \in Paths
  PROVE  Before(p, q) <=> \E i \in Nat : /\ i \in 1..Len(p) /\ i \in 1..Len(q) /\ ~p[i] /\ q[i]
                                         /\ \A j \in 1..i - 1 : p[j] = q[j]
<1>1. DOMAIN p = 1..Len(p) /\ DOMAIN q = 1..Len(q) /\ Len(p) \in Nat  BY LenProperties DEF Paths
<1>2. \A i : i \in DOMAIN p => i \in Nat  BY <1>1
<1> QED  BY <1>1, <1>2 DEF Before

\* No path comes before itself.
LEMMA NotBeforeItself ==
  ASSUME NEW p \in Paths
  PROVE  ~Before(p, p)
BY BeforeIs

\* A path that goes on stays where it was in the order.
LEMMA BeforeOn ==
  ASSUME NEW p \in Paths, NEW q \in Paths, NEW b \in BOOLEAN
  PROVE  /\ Before(p, q) => Before(Append(p, b), q) /\ Before(p, Append(q, b))
         /\ Before(Append(p, FALSE), Append(p, TRUE))
<1>1. ASSUME NEW u \in Paths, NEW c \in BOOLEAN
      PROVE  /\ Append(u, c) \in Paths /\ Len(Append(u, c)) = Len(u) + 1 /\ Len(u) \in Nat
             /\ Append(u, c)[Len(u) + 1] = c /\ \A i \in 1..Len(u) : Append(u, c)[i] = u[i]
  <2>1. /\ Append(u, c) \in Paths /\ Len(Append(u, c)) = Len(u) + 1 /\ Last(Append(u, c)) = c
        /\ \A i \in 1..Len(u) : Append(u, c)[i] = u[i]
    BY LongerPath
  <2>2. Append(u, c)[Len(Append(u, c))] = c  BY <2>1 DEF Last
  <2> QED  BY <2>1, <2>2, UpWhole
<1>2. ASSUME Before(p, q) PROVE Before(Append(p, b), q) /\ Before(p, Append(q, b))
  <2>1. PICK i \in Nat : /\ i \in 1..Len(p) /\ i \in 1..Len(q) /\ ~p[i] /\ q[i]
                         /\ \A j \in 1..i - 1 : p[j] = q[j]
    BY <1>2, BeforeIs
  <2>2. PICK a : a = Append(p, b)  OBVIOUS
  <2>3. PICK z : z = Append(q, b)  OBVIOUS
  <2>4. /\ a \in Paths /\ Len(a) = Len(p) + 1 /\ Len(p) \in Nat /\ \A j \in 1..Len(p) : a[j] = p[j]
        /\ z \in Paths /\ Len(z) = Len(q) + 1 /\ Len(q) \in Nat /\ \A j \in 1..Len(q) : z[j] = q[j]
    BY <1>1, <2>2, <2>3
  <2>5. /\ i \in 1..Len(a) /\ i \in 1..Len(z) /\ a[i] = p[i] /\ z[i] = q[i]
        /\ \A j \in 1..i - 1 : a[j] = p[j] /\ z[j] = q[j]
    <3>1. i \in 1..Len(a) /\ i \in 1..Len(z)  BY <2>1, <2>4
    <3>2. a[i] = p[i] /\ z[i] = q[i]  BY <2>1, <2>4
    <3>3. \A j \in 1..i - 1 : j \in 1..Len(p) /\ j \in 1..Len(q)  BY <2>1, <2>4
    <3> QED  BY <2>4, <3>1, <3>2, <3>3
  <2>6. Before(a, q)
    <3>1. ~a[i] /\ \A j \in 1..i - 1 : a[j] = q[j]  BY <2>1, <2>5
    <3> QED  BY <2>1, <2>4, <2>5, <3>1, BeforeIs, SMTT(30)
  <2>7. Before(p, z)
    <3>1. z[i] /\ \A j \in 1..i - 1 : p[j] = z[j]  BY <2>1, <2>5
    <3> QED  BY <2>1, <2>4, <2>5, <3>1, BeforeIs
  <2> QED  BY <2>2, <2>3, <2>6, <2>7
<1>3. Before(Append(p, FALSE), Append(p, TRUE))
  <2>1. PICK a : a = Append(p, FALSE)  OBVIOUS
  <2>2. PICK z : z = Append(p, TRUE)  OBVIOUS
  <2>3. PICK i : i = Len(p) + 1  OBVIOUS
  <2>4. /\ a \in Paths /\ Len(a) = i /\ Len(p) \in Nat /\ a[i] = FALSE /\ \A j \in 1..Len(p) : a[j] = p[j]
        /\ z \in Paths /\ Len(z) = i /\ z[i] = TRUE /\ \A j \in 1..Len(p) : z[j] = p[j]
    BY <1>1, <2>1, <2>2, <2>3
  <2>5. i \in Nat /\ i \in 1..i /\ i - 1 = Len(p)  BY <2>3, <2>4
  <2>6. Before(a, z)  BY <2>4, <2>5, BeforeIs
  <2> QED  BY <2>1, <2>2, <2>6
<1> QED  BY <1>2, <1>3

\* h gives the leaves of t in the order of the list l.
Ordered(t, l, h) ==
  /\ h \in [1..Len(l) -> LeafPaths(t)]
  /\ \A p \in LeafPaths(t) : \E i \in 1..Len(l) : h[i] = p
  /\ \A i \in 1..Len(l) : t[h[i]].session = l[i]
  /\ \A i, j \in 1..Len(l) : i < j => Before(h[i], h[j])

\* A list in the order of the leaves is what Leaves returns, and has one leaf for each
\* session.
LEMMA OrderedLists ==
  ASSUME NEW t, NEW l \in Seq(Contents), IsInjective(l), NEW h, Ordered(t, l, h)
  PROVE  /\ OneLeafEach(t) /\ ListsLeaves(t, l)
         /\ \A i \in 1..Len(l) : PathOf(t, l[i]) = h[i] /\ h[i] \in LeafPaths(t)
<1>1. DOMAIN l = 1..Len(l)  BY LenProperties
<1>2. \A p \in LeafPaths(t) : \E i \in 1..Len(l) : h[i] = p /\ t[p].session = l[i]  BY DEF Ordered
<1>3. \A i, j \in 1..Len(l) : l[i] = l[j] => i = j  BY <1>1 DEF IsInjective
<1>4. OneLeafEach(t)  BY <1>2, <1>3 DEF OneLeafEach
<1>5. ASSUME NEW i \in 1..Len(l) PROVE PathOf(t, l[i]) = h[i] /\ h[i] \in LeafPaths(t) /\ l[i] \in Shown(t)
  <2>1. h[i] \in LeafPaths(t) /\ t[h[i]].session = l[i]  BY DEF Ordered
  <2> QED  BY <1>4, <2>1, PathOfLeaf
<1>6. Range(l) = Shown(t)
  <2>1. \A s \in Range(l) : s \in Shown(t)  BY <1>1, <1>5 DEF Range
  <2>2. \A s \in Shown(t) : s \in Range(l)  BY <1>1, <1>2 DEF Range, Shown
  <2> QED  BY <2>1, <2>2
<1>7. \A i, j \in DOMAIN l : i < j => Before(PathOf(t, l[i]), PathOf(t, l[j]))
  BY <1>1, <1>5 DEF Ordered
<1> QED  BY <1>4, <1>5, <1>6, <1>7 DEF ListsLeaves

\* What the tree and the list keep together.
PanesAgree(t, l) == IsTree(t) /\ l \in Seq(Contents) /\ IsInjective(l) /\ \E h : Ordered(t, l, h)

\* A node below a leaf there is not.
LEMMA LeafIsBottom ==
  ASSUME NEW t, IsTree(t), NEW p \in LeafPaths(t), NEW b \in BOOLEAN
  PROVE  Append(p, b) \notin DOMAIN t /\ p # Append(p, b) /\ p \in DOMAIN t /\ p \in Paths
<1>1. p \in DOMAIN t /\ p \in Paths  BY Ancestors DEF LeafPaths
<1>2. PICK q : q = Append(p, b)  OBVIOUS
<1>3. q \in Paths /\ Len(q) = Len(p) + 1 /\ Len(p) \in Nat /\ \A i \in 1..Len(p) : q[i] = p[i]
  BY <1>1, <1>2, LongerPath, UpWhole
<1>4. Under(q, p)
  <2>1. Len(p) <= Len(q)  BY <1>3
  <2> QED  BY <1>1, <1>3, <2>1, UnderIs
<1>5. Len(p) < Len(q)  BY <1>3
<1>6. q \notin DOMAIN t  BY <1>4, <1>5, LeafEnds DEF Under
<1> QED  BY <1>1, <1>2, <1>6

\* u is t where the leaf p is split, with a and z under it.
SplitInto(t, p, dir, s, a, z, u) ==
  a = Append(p, FALSE) /\ z = Append(p, TRUE) /\ u = SplitAt(t, p, dir, s)

\* The nodes that SplitAt leaves.
LEMMA SplitNodes ==
  ASSUME NEW t, IsTree(t), NEW p \in LeafPaths(t), NEW dir, NEW s,
         NEW a, NEW z, NEW u, SplitInto(t, p, dir, s, a, z, u)
  PROVE  /\ u = [q \in DOMAIN t \cup {a, z} |-> u[q]]
         /\ u[p] = Node(dir, 1, 2) /\ u[a] = t[p] /\ u[z] = Leaf(s)
         /\ \A q \in DOMAIN t : q # p => u[q] = t[q]
         /\ p \in DOMAIN t /\ p \in Paths /\ p # a /\ p # z /\ a # z /\ a \notin DOMAIN t /\ z \notin DOMAIN t
<1>0. a = Append(p, FALSE) /\ z = Append(p, TRUE) /\ u = SplitAt(t, p, dir, s)  BY DEF SplitInto
<1>1. /\ p \in DOMAIN t /\ p \in Paths /\ p # a /\ p # z /\ a \notin DOMAIN t /\ z \notin DOMAIN t
  BY <1>0, LeafIsBottom
<1>2. a # z
  <2>1. Last(a) = FALSE /\ Last(z) = TRUE  BY <1>0, <1>1, LongerPath
  <2> QED  BY <2>1
<1>3. u = [q \in DOMAIN t \cup {a, z} |->
             CASE q = p -> Node(dir, 1, 2) [] q = a -> t[p] [] q = z -> Leaf(s) [] OTHER -> t[q]]
  BY <1>0 DEF SplitAt
<1>4. \A q \in DOMAIN t \cup {a, z} :
        u[q] = CASE q = p -> Node(dir, 1, 2) [] q = a -> t[p] [] q = z -> Leaf(s) [] OTHER -> t[q]
  BY <1>3
<1>5. DOMAIN u = DOMAIN t \cup {a, z} /\ u = [q \in DOMAIN u |-> u[q]]  BY <1>3
<1>6. u[p] = Node(dir, 1, 2)  BY <1>1, <1>4
<1>7. u[a] = t[p]
  <2>1. a \in DOMAIN t \cup {a, z} /\ a # p /\ a # z  BY <1>1, <1>2
  <2> QED  BY ONLY <1>4, <2>1
<1>8. u[z] = Leaf(s)  BY <1>1, <1>2, <1>4
<1>9. \A q \in DOMAIN t : q # p => u[q] = t[q]  BY <1>1, <1>4
<1> QED  BY <1>1, <1>2, <1>5, <1>6, <1>7, <1>8, <1>9

\* Splitting a leaf of a tree gives a tree with one more leaf.
LEMMA SplitTree ==
  ASSUME NEW t, IsTree(t), NEW p \in LeafPaths(t), NEW dir \in Splits, NEW s \in Contents,
         NEW a, NEW z, NEW u, SplitInto(t, p, dir, s, a, z, u)
  PROVE  IsTree(u) /\ LeafPaths(u) = (LeafPaths(t) \ {p}) \cup {a, z}
<1>0. a = Append(p, FALSE) /\ z = Append(p, TRUE)  BY DEF SplitInto
<1>1. PICK n \in Nat : Grown(t, n)  BY DEF IsTree
<1>2. /\ u = [q \in DOMAIN t \cup {a, z} |-> u[q]]
      /\ u[p] = Node(dir, 1, 2) /\ u[a] = t[p] /\ u[z] = Leaf(s)
      /\ \A q \in DOMAIN t : q # p => u[q] = t[q]
      /\ p \in DOMAIN t /\ p \in Paths /\ p # a /\ p # z /\ a # z /\ a \notin DOMAIN t /\ z \notin DOMAIN t
  BY SplitNodes
<1>3. DOMAIN u = DOMAIN t \cup {a, z}  BY <1>2
<1>4. u[p].leaf = FALSE /\ u[z].leaf = TRUE
  <2>1. Node(dir, 1, 2).leaf = FALSE /\ Leaf(s).leaf = TRUE  BY DEF Node, Leaf
  <2> QED  BY <1>2, <2>1
<1>5. t[p].leaf /\ u[a].leaf  BY <1>2 DEF LeafPaths
<1>6. LeafPaths(u) = (LeafPaths(t) \ {p}) \cup {a, z}
  <2>1. ASSUME NEW q \in DOMAIN u PROVE u[q].leaf <=> q \in (LeafPaths(t) \ {p}) \cup {a, z}
    <3>1. CASE q = p  BY <1>2, <1>4, <3>1
    <3>2. CASE q = a  BY <1>5, <3>2
    <3>3. CASE q = z  BY <1>4, <3>3
    <3>4. CASE q \in DOMAIN t /\ q # p
      <4>1. u[q] = t[q] /\ q # a /\ q # z  BY <1>2, <3>4
      <4> QED  BY <3>4, <4>1 DEF LeafPaths
    <3> QED  BY <1>3, <3>1, <3>2, <3>3, <3>4
  <2>2. \A q \in (LeafPaths(t) \ {p}) \cup {a, z} : q \in DOMAIN u  BY <1>3 DEF LeafPaths
  <2> QED  BY <2>1, <2>2 DEF LeafPaths
<1>7. Node(dir, 1, 2) \in Splitting
  <2>1. [leaf |-> FALSE, dir |-> dir, num |-> 1, den |-> 2] \in [leaf : {FALSE}, dir : Splits, num : Nat, den : Nat \ {0}]
    OBVIOUS
  <2> QED  BY <2>1 DEF Node, Splitting
<1>8. Leaf(s) \in Ending  BY DEF Leaf, Ending
<1>9. \A q \in DOMAIN u : u[q] \in Splitting \cup Ending
  <2>1. \A q \in DOMAIN t : t[q] \in Splitting \cup Ending  BY <1>1 DEF Grown
  <2> QED  BY <1>2, <1>3, <1>7, <1>8, <2>1
<1>10. /\ a \in Paths /\ Len(a) = Len(p) + 1 /\ Front(a) = p
       /\ z \in Paths /\ Len(z) = Len(p) + 1 /\ Front(z) = p
  BY <1>0, <1>2, LongerPath
<1>11. \A q \in DOMAIN t : q \in Paths /\ Len(q) \in Nat /\ Len(q) <= n  BY <1>1, UpWhole DEF Grown
<1>12. \A q \in DOMAIN u : q \in Paths /\ Len(q) <= n + 1
  <2>1. \A q \in DOMAIN t : Len(q) <= n + 1  BY <1>11
  <2>2. Len(a) <= n + 1 /\ Len(z) <= n + 1  BY <1>2, <1>10, <1>11
  <2> QED  BY <1>3, <1>10, <1>11, <2>1, <2>2
<1>13. ASSUME NEW q \in DOMAIN u, q # Root PROVE Front(q) \in DOMAIN u /\ ~u[Front(q)].leaf
  <2>1. CASE q \in {a, z}  BY <1>2, <1>3, <1>4, <1>10, <2>1
  <2>2. CASE q \in DOMAIN t
    <3>1. Front(q) \in DOMAIN t /\ ~t[Front(q)].leaf  BY <1>1, <1>13, <2>2 DEF Grown
    <3>2. Front(q) # p  BY <1>5, <3>1
    <3> QED  BY <1>2, <1>3, <3>1, <3>2
  <2> QED  BY <1>3, <2>1, <2>2
<1>14. ASSUME NEW q \in DOMAIN u, ~u[q].leaf, NEW b \in BOOLEAN PROVE Append(q, b) \in DOMAIN u
  <2>1. CASE q = p
    <3>1. Append(q, b) \in {a, z}  BY <1>0, <2>1
    <3> QED  BY <1>3, <3>1
  <2>2. CASE q # p
    <3>1. q # a /\ q # z  BY <1>4, <1>5, <1>14
    <3>2. q \in DOMAIN t /\ ~t[q].leaf  BY <1>2, <1>3, <1>14, <2>2, <3>1
    <3> QED  BY <1>1, <1>3, <3>2 DEF Grown
  <2> QED  BY <2>1, <2>2
<1>15. Root \in DOMAIN u  BY <1>1, <1>3 DEF Grown
<1>16. u = [q \in DOMAIN u |-> u[q]]  BY <1>2, <1>3
<1>17. Grown(u, n + 1)  BY <1>9, <1>12, <1>13, <1>14, <1>15, <1>16 DEF Grown
<1> QED  BY <1>6, <1>17 DEF IsTree

\* Splitting a pane splits its place in the list.
LEMMA SplitAgrees ==
  ASSUME NEW t, NEW l, PanesAgree(t, l), NEW i \in 1..Len(l),
         NEW dir \in Splits, NEW s \in Contents, s \notin Range(l)
  PROVE  PanesAgree(SplitAt(t, PathOf(t, l[i]), dir, s), InsertAt(l, i + 1, s))
<1>1. IsTree(t) /\ l \in Seq(Contents) /\ IsInjective(l)  BY DEF PanesAgree
<1>2. PICK h : Ordered(t, l, h)  BY DEF PanesAgree
<1>3. DOMAIN l = 1..Len(l) /\ Len(l) \in Nat  BY <1>1, LenProperties
<1>40. PathOf(t, l[i]) = h[i] /\ h[i] \in LeafPaths(t)  BY <1>1, <1>2, OrderedLists
<1>4. PICK p \in LeafPaths(t) : p = h[i]  BY <1>40
<1>5. PICK a : a = Append(p, FALSE)  OBVIOUS
<1>6. PICK z : z = Append(p, TRUE)  OBVIOUS
<1>7. PICK u : u = SplitAt(t, p, dir, s)  OBVIOUS
<1>70. SplitInto(t, p, dir, s, a, z, u)  BY <1>5, <1>6, <1>7 DEF SplitInto
<1>8. /\ u[a] = t[p] /\ u[z] = Leaf(s) /\ \A q \in DOMAIN t : q # p => u[q] = t[q]
      /\ p \in Paths
  <2>1. p \in LeafPaths(t)  OBVIOUS
  <2> QED  BY ONLY <1>1, <1>70, <2>1, SplitNodes
<1>9. IsTree(u) /\ LeafPaths(u) = (LeafPaths(t) \ {p}) \cup {a, z}
  BY <1>1, <1>4, <1>70, SplitTree
<1>10. PICK m : m = InsertAt(l, i + 1, s)  OBVIOUS
<1>11. PICK k \in 1..Len(l) + 1 : k = i + 1  BY <1>3
<1>12. /\ m \in Seq(Contents) /\ DOMAIN m = 1..Len(l) + 1
       /\ \A j \in 1..Len(l) + 1 : m[j] = IF j < k THEN l[j] ELSE IF j = k THEN s ELSE l[j - 1]
  <2>1. m = InsertAt(l, k, s)  BY <1>10, <1>11
  <2>2. l \in Seq(Contents) /\ k \in 1..Len(l) + 1 /\ s \in Contents  BY <1>1
  <2> QED  BY ONLY <2>1, <2>2, Inserted, SMTT(30)
<1>13. Len(m) = Len(l) + 1
  <2>1. DOMAIN m = 1..Len(m) /\ Len(m) \in Nat  BY <1>12, LenProperties
  <2> QED  BY <1>3, <1>12, <2>1
<1>14. \A j \in 1..Len(l) : l[j] # s  BY <1>3 DEF Range
<1>15. \A j, w \in 1..Len(l) : l[j] = l[w] => j = w  BY <1>1, <1>3 DEF IsInjective
<1>16. IsInjective(m)
  <2>1. ASSUME NEW j \in 1..Len(l) + 1, NEW w \in 1..Len(l) + 1, m[j] = m[w], j < w
        PROVE  FALSE
    <3>1. CASE j < k /\ w < k
      <4>1. j \in 1..Len(l) /\ w \in 1..Len(l) /\ j # w /\ m[j] = l[j] /\ m[w] = l[w]  BY <1>3, <1>11, <1>12, <2>1, <3>1
      <4> QED  BY <1>15, <2>1, <4>1
    <3>2. CASE j < k /\ w = k
      <4>1. j \in 1..Len(l) /\ m[j] = l[j] /\ m[w] = s  BY <1>3, <1>11, <1>12, <3>2
      <4> QED  BY <1>14, <2>1, <4>1
    <3>3. CASE j < k /\ w > k
      <4>1. j \in 1..Len(l) /\ w - 1 \in 1..Len(l) /\ j # w - 1 /\ m[j] = l[j] /\ m[w] = l[w - 1]  BY <1>3, <1>11, <1>12, <3>3
      <4> QED  BY <1>15, <2>1, <4>1
    <3>4. CASE j = k /\ w > k
      <4>1. w - 1 \in 1..Len(l) /\ m[j] = s /\ m[w] = l[w - 1]  BY <1>3, <1>11, <1>12, <3>4
      <4> QED  BY <1>14, <2>1, <4>1
    <3>5. CASE j > k /\ w > k
      <4>1. j - 1 \in 1..Len(l) /\ w - 1 \in 1..Len(l) /\ j - 1 # w - 1 /\ m[j] = l[j - 1] /\ m[w] = l[w - 1]
        BY <1>3, <1>11, <1>12, <2>1, <3>5
      <4> QED  BY <1>15, <2>1, <4>1
    <3> QED  BY <1>3, <1>11, <2>1, <3>1, <3>2, <3>3, <3>4, <3>5
  <2>2. ASSUME NEW j \in 1..Len(l) + 1, NEW w \in 1..Len(l) + 1, m[j] = m[w] PROVE j = w
    <3>1. ~(j < w) /\ ~(w < j)  BY <2>1, <2>2
    <3> QED  BY <1>3, <3>1
  <2> QED  BY <1>12, <2>2 DEF IsInjective
<1> DEFINE g == [j \in 1..Len(m) |-> IF j < i THEN h[j] ELSE IF j = i THEN a ELSE IF j = k THEN z ELSE h[j - 1]]
<1>17. \A j \in 1..Len(l) + 1 :
         g[j] = IF j < i THEN h[j] ELSE IF j = i THEN a ELSE IF j = k THEN z ELSE h[j - 1]
  BY <1>13
<1>18. DOMAIN g = 1..Len(m) /\ g = [j \in 1..Len(m) |-> g[j]]  OBVIOUS
<1> HIDE DEF g
<1>19. /\ \A j \in 1..Len(l) : h[j] \in LeafPaths(t) /\ t[h[j]].session = l[j]
       /\ \A q \in LeafPaths(t) : \E j \in 1..Len(l) : h[j] = q
       /\ \A j, w \in 1..Len(l) : j < w => Before(h[j], h[w])
  BY <1>2 DEF Ordered
<1>20. \A j \in 1..Len(l) : j # i => h[j] # p /\ h[j] \in LeafPaths(u) /\ u[h[j]].session = l[j]
  <2> SUFFICES ASSUME NEW j \in 1..Len(l), j # i
               PROVE  h[j] # p /\ h[j] \in LeafPaths(u) /\ u[h[j]].session = l[j]
    OBVIOUS
  <2>1. h[j] # p  BY <1>4, <1>15, <1>19
  <2>2. h[j] \in DOMAIN t  BY <1>19 DEF LeafPaths
  <2> QED  BY <1>8, <1>9, <1>19, <2>1, <2>2
<1>21. u[a].session = l[i] /\ u[z].session = s  BY <1>4, <1>8, <1>19 DEF Leaf
<1>22. \A j \in 1..Len(l) + 1 : \/ j < i /\ j \in 1..Len(l) /\ g[j] = h[j] /\ m[j] = l[j]
                                \/ j = i /\ g[j] = a /\ m[j] = l[i]
                                \/ j = k /\ g[j] = z /\ m[j] = s
                                \/ j > k /\ j - 1 \in 1..Len(l) /\ j - 1 # i /\ g[j] = h[j - 1] /\ m[j] = l[j - 1]
  BY <1>3, <1>11, <1>12, <1>17
<1>23. \A j \in 1..Len(m) : g[j] \in LeafPaths(u) /\ u[g[j]].session = m[j]
  BY <1>9, <1>13, <1>20, <1>21, <1>22, SMTT(30)
<1>24. ASSUME NEW q \in LeafPaths(u) PROVE \E j \in 1..Len(m) : g[j] = q
  <2>1. i \in 1..Len(m) /\ k \in 1..Len(m) /\ g[i] = a /\ g[k] = z  BY <1>3, <1>11, <1>13, <1>17
  <2>2. CASE q \in LeafPaths(t) /\ q # p
    <3>1. PICK j \in 1..Len(l) : h[j] = q  BY <1>19, <2>2
    <3>2. j # i  BY <1>4, <2>2, <3>1
    <3>3. CASE j < i
      <4>1. j \in 1..Len(m) /\ g[j] = h[j]  BY <1>3, <1>13, <1>17, <3>3
      <4> QED  BY <3>1, <4>1
    <3>4. CASE j > i
      <4>1. j + 1 \in 1..Len(m) /\ ~(j + 1 < i) /\ j + 1 # i /\ j + 1 # k /\ j + 1 - 1 = j
        BY <1>3, <1>11, <1>13, <3>4
      <4>2. g[j + 1] = h[j]  BY <1>13, <1>17, <4>1
      <4> QED  BY <3>1, <4>1, <4>2
    <3> QED  BY <3>2, <3>3, <3>4
  <2> QED  BY <1>9, <2>1, <2>2
<1>25. ASSUME NEW j \in 1..Len(m), NEW w \in 1..Len(m), j < w PROVE Before(g[j], g[w])
  <2>1. \A x \in 1..Len(l) : h[x] \in Paths  BY <1>1, <1>19, Ancestors DEF LeafPaths
  <2>2. \A x \in 1..Len(l) : /\ x < i => Before(h[x], a) /\ Before(h[x], z)
                             /\ i < x => Before(a, h[x]) /\ Before(z, h[x])
    <3> SUFFICES ASSUME NEW x \in 1..Len(l)
                 PROVE  /\ x < i => Before(h[x], a) /\ Before(h[x], z)
                        /\ i < x => Before(a, h[x]) /\ Before(z, h[x])
      OBVIOUS
    <3>1. x < i => Before(h[x], p)  BY <1>4, <1>19
    <3>2. i < x => Before(p, h[x])  BY <1>4, <1>19
    <3>3. PICK q \in Paths : q = h[x]  BY <2>1
    <3> QED  BY <1>5, <1>6, <1>8, <3>1, <3>2, <3>3, BeforeOn
  <2>3. Before(a, z)  BY <1>5, <1>6, <1>8, BeforeOn
  <2>4. j \in 1..Len(l) + 1 /\ w \in 1..Len(l) + 1  BY <1>13
  <2>5. CASE j < i /\ w < i
    <3>1. j \in 1..Len(l) /\ w \in 1..Len(l) /\ g[j] = h[j] /\ g[w] = h[w]  BY <1>3, <1>17, <2>4, <2>5
    <3> QED  BY <1>19, <1>25, <3>1
  <2>6. CASE j < i /\ w \in {i, k}
    <3>1. j \in 1..Len(l) /\ g[j] = h[j]  BY <1>3, <1>17, <2>4, <2>6
    <3>2. g[w] \in {a, z}  BY <1>3, <1>11, <1>17, <2>4, <2>6
    <3>3. Before(h[j], a) /\ Before(h[j], z)  BY <2>2, <2>6, <3>1
    <3> QED  BY <3>1, <3>2, <3>3
  <2>8. CASE j < i /\ w > k
    <3>1. j \in 1..Len(l) /\ w - 1 \in 1..Len(l) /\ j < w - 1  BY <1>3, <1>11, <2>4, <2>8
    <3>2. g[j] = h[j] /\ g[w] = h[w - 1]  BY <1>3, <1>11, <1>22, <2>4, <2>8
    <3> QED  BY <1>19, <3>1, <3>2
  <2>9. CASE j = i /\ w = k  BY <1>3, <1>11, <1>22, <2>3, <2>4, <2>9
  <2>10. CASE j \in {i, k} /\ w > k
    <3>1. w - 1 \in 1..Len(l) /\ i < w - 1  BY <1>3, <1>11, <2>4, <2>10
    <3>2. g[j] \in {a, z} /\ g[w] = h[w - 1]  BY <1>3, <1>11, <1>17, <2>4, <2>10
    <3> QED  BY <2>2, <3>1, <3>2
  <2>11. CASE j > k /\ w > k
    <3>1. j - 1 \in 1..Len(l) /\ w - 1 \in 1..Len(l) /\ j - 1 < w - 1  BY <1>3, <1>11, <1>25, <2>4, <2>11
    <3>2. g[j] = h[j - 1] /\ g[w] = h[w - 1]  BY <1>3, <1>11, <1>22, <2>4, <2>11
    <3> QED  BY <1>19, <3>1, <3>2
  <2> QED  BY <1>3, <1>11, <1>25, <2>4, <2>5, <2>6, <2>8, <2>9, <2>10, <2>11
<1>26. Ordered(u, m, g)
  <2>1. g \in [1..Len(m) -> LeafPaths(u)]  BY <1>18, <1>23
  <2> QED  BY <1>23, <1>24, <1>25, <2>1 DEF Ordered
<1> QED  BY <1>4, <1>40, <1>7, <1>9, <1>10, <1>12, <1>16, <1>26 DEF PanesAgree

NodeChanged(t, p, n, u) == u = [t EXCEPT ![p] = n]

\* A node that changes in its place, and stays a leaf or a split.
LEMMA NodeChanges ==
  ASSUME NEW t, IsTree(t), NEW p \in DOMAIN t, NEW n \in Splitting \cup Ending, n.leaf = t[p].leaf,
         NEW u, NodeChanged(t, p, n, u)
  PROVE  /\ IsTree(u) /\ LeafPaths(u) = LeafPaths(t) /\ DOMAIN u = DOMAIN t
         /\ u[p] = n /\ \A q \in DOMAIN t : q # p => u[q] = t[q]
<1>1. PICK N \in Nat : Grown(t, N)  BY DEF IsTree
<1>2. /\ DOMAIN u = DOMAIN t /\ u = [q \in DOMAIN u |-> u[q]]
      /\ u[p] = n /\ \A q \in DOMAIN t : q # p => u[q] = t[q]
  BY DEF NodeChanged
<1>3. \A q \in DOMAIN t : u[q].leaf = t[q].leaf  BY <1>2
<1>4. LeafPaths(u) = LeafPaths(t)  BY <1>2, <1>3 DEF LeafPaths
<1>5. \A q \in DOMAIN u : u[q] \in Splitting \cup Ending
  <2>1. \A q \in DOMAIN t : t[q] \in Splitting \cup Ending  BY <1>1 DEF Grown
  <2> QED  BY <1>2, <2>1
<1>6. Grown(u, N)  BY <1>1, <1>2, <1>3, <1>5 DEF Grown
<1> QED  BY <1>2, <1>4, <1>6 DEF IsTree

\* Replacing a pane's session keeps the tree and the list in agreement.
LEMMA ReplaceAgrees ==
  ASSUME NEW t, NEW l, PanesAgree(t, l), NEW i \in 1..Len(l), NEW s \in Contents, s \notin Range(l)
  PROVE  PanesAgree(ReplaceSession(t, PathOf(t, l[i]), s), ReplaceAll(l, l[i], s))
<1>1. IsTree(t) /\ l \in Seq(Contents) /\ IsInjective(l)  BY DEF PanesAgree
<1>2. PICK h : Ordered(t, l, h)  BY DEF PanesAgree
<1>3. DOMAIN l = 1..Len(l) /\ Len(l) \in Nat /\ \A j \in 1..Len(l) : l[j] \in Contents
  BY <1>1, LenProperties, ElementOfSeq
<1>4. PathOf(t, l[i]) = h[i] /\ h[i] \in LeafPaths(t)  BY <1>1, <1>2, OrderedLists
<1>5. PICK p \in LeafPaths(t) : p = h[i]  BY <1>4
<1>6. PICK n : n = Leaf(s)  OBVIOUS
<1>7. PICK u : u = [t EXCEPT ![p] = n]  OBVIOUS
<1>8. n \in Ending /\ n.leaf = TRUE /\ n.session = s  BY <1>6 DEF Leaf, Ending
<1>9. p \in DOMAIN t /\ t[p].leaf  BY DEF LeafPaths
<1>10. t[p] \in Ending
  <2>1. t[p] \in Splitting \cup Ending
    <3>1. PICK N \in Nat : Grown(t, N)  BY <1>1 DEF IsTree
    <3> QED  BY <1>9, <3>1 DEF Grown
  <2>2. t[p] \notin Splitting  BY <1>9 DEF Splitting
  <2> QED  BY <2>1, <2>2
<1>11. n.leaf = t[p].leaf  BY <1>8, <1>10 DEF Ending
<1>12. /\ IsTree(u) /\ LeafPaths(u) = LeafPaths(t) /\ DOMAIN u = DOMAIN t
       /\ u[p] = n /\ \A q \in DOMAIN t : q # p => u[q] = t[q]
  <2>1. n \in Splitting \cup Ending  BY <1>8
  <2>2. NodeChanged(t, p, n, u)  BY <1>7 DEF NodeChanged
  <2>3. p \in DOMAIN t  BY <1>9
  <2> QED  BY ONLY <1>1, <1>11, <2>1, <2>2, <2>3, NodeChanges
<1>13. PICK m : m = ReplaceAll(l, l[i], s)  OBVIOUS
<1>14. m = [j \in 1..Len(l) |-> IF l[j] = l[i] THEN s ELSE l[j]]  BY <1>13 DEF ReplaceAll
<1>15. \A j, w \in 1..Len(l) : l[j] = l[w] => j = w  BY <1>1, <1>3 DEF IsInjective
<1>16. \A j \in 1..Len(l) : m[j] = IF j = i THEN s ELSE l[j]  BY <1>14, <1>15
<1>17. \A j \in 1..Len(l) : l[j] # s  BY <1>3 DEF Range
<1>18. m \in Seq(Contents) /\ Len(m) = Len(l)
  <2>1. m \in [1..Len(l) -> Contents]  BY <1>3, <1>14
  <2>2. \A j \in 1..Len(l) : m[j] \in Contents  BY <1>3, <1>16
  <2>3. m \in Seq(Contents)  BY <1>3, <2>1, SeqDef
  <2>4. DOMAIN m = 1..Len(m) /\ Len(m) \in Nat  BY <2>3, LenProperties
  <2>5. DOMAIN m = 1..Len(l)  BY <1>14
  <2>6. PICK a \in Nat : a = Len(m)  BY <2>4
  <2>7. PICK b \in Nat : b = Len(l)  BY <1>3
  <2>8. 1..a = 1..b  BY <2>4, <2>5, <2>6, <2>7
  <2>9. a = b  BY ONLY <2>8
  <2> QED  BY <2>3, <2>6, <2>7, <2>9
<1>19. IsInjective(m)
  <2>1. DOMAIN m = 1..Len(l)  BY <1>14
  <2>2. \A j, w \in 1..Len(l) : m[j] = m[w] => j = w  BY <1>15, <1>16, <1>17
  <2> QED  BY <2>1, <2>2 DEF IsInjective
<1>20. Ordered(u, m, h)
  <2>1. /\ h \in [1..Len(l) -> LeafPaths(t)]
        /\ \A j \in 1..Len(l) : h[j] \in LeafPaths(t) /\ t[h[j]].session = l[j]
        /\ \A q \in LeafPaths(t) : \E j \in 1..Len(l) : h[j] = q
        /\ \A j, w \in 1..Len(l) : j < w => Before(h[j], h[w])
    BY <1>2 DEF Ordered
  <2>2. \A j \in 1..Len(l) : u[h[j]].session = m[j]
    <3> SUFFICES ASSUME NEW j \in 1..Len(l) PROVE u[h[j]].session = m[j]  OBVIOUS
    <3>1. CASE j = i  BY <1>5, <1>8, <1>12, <1>16, <3>1
    <3>2. CASE j # i
      <4>1. h[j] # p  BY <1>5, <1>15, <2>1, <3>2
      <4>2. h[j] \in DOMAIN t  BY <2>1 DEF LeafPaths
      <4> QED  BY <1>12, <1>16, <2>1, <3>2, <4>1, <4>2
    <3> QED  BY <3>1, <3>2
  <2> QED  BY <1>12, <1>18, <2>1, <2>2 DEF Ordered
<1>21. u = ReplaceSession(t, PathOf(t, l[i]), s)  BY <1>4, <1>5, <1>6, <1>7 DEF ReplaceSession
<1> QED  BY <1>12, <1>13, <1>18, <1>19, <1>20, <1>21 DEF PanesAgree

Rated(n, a, b, m) == m = [n EXCEPT !.num = a, !.den = b]

\* A ratio is kept between 10% and 90%.
LEMMA ClampedIs ==
  ASSUME NEW n \in Splitting, NEW num \in Int, NEW den \in Nat \ {0}
  PROVE  /\ Clamped(n, num, den) \in Splitting /\ Clamped(n, num, den).dir = n.dir
         /\ den <= 10 * num /\ 10 * num <= 9 * den =>
              Clamped(n, num, den).num = num /\ Clamped(n, num, den).den = den
<1>1. /\ n = [leaf |-> FALSE, dir |-> n.dir, num |-> n.num, den |-> n.den] /\ n.dir \in Splits
  BY DEF Splitting
<1>2. ASSUME NEW a \in Nat, NEW b \in Nat \ {0}, b <= 10 * a, 10 * a <= 9 * b,
             NEW m, Rated(n, a, b, m)
      PROVE  m \in Splitting /\ m.dir = n.dir /\ m.num = a /\ m.den = b
  <2>1. m = [leaf |-> FALSE, dir |-> n.dir, num |-> a, den |-> b]
    <3>1. DOMAIN n = {"leaf", "dir", "num", "den"} /\ n.leaf = FALSE  BY <1>1
    <3>2. m = [n EXCEPT !.num = a, !.den = b]  BY <1>2 DEF Rated
    <3>3. DOMAIN m = {"leaf", "dir", "num", "den"} /\ m = [f \in DOMAIN m |-> m[f]]  BY <3>1, <3>2
    <3>4. m.leaf = FALSE /\ m.dir = n.dir /\ m.num = a /\ m.den = b  BY <3>1, <3>2
    <3> QED  BY <3>3, <3>4
  <2>2. m \in [leaf : {FALSE}, dir : Splits, num : Nat, den : Nat \ {0}]  BY <1>1, <2>1
  <2>3. m.dir = n.dir /\ m.num = a /\ m.den = b  BY <2>1
  <2> QED  BY <1>2, <2>2, <2>3 DEF Splitting
<1>3. CASE 10 * num < den
  <2>1. Clamped(n, num, den) = [n EXCEPT !.num = 1, !.den = 10]  BY <1>3 DEF Clamped
  <2>2. PICK m : m = [n EXCEPT !.num = 1, !.den = 10]  OBVIOUS
  <2>20. Rated(n, 1, 10, m)  BY <2>2 DEF Rated
  <2>3. m \in Splitting /\ m.dir = n.dir  BY <1>2, <2>20
  <2> QED  BY <1>3, <2>1, <2>2, <2>3
<1>4. CASE ~(10 * num < den) /\ 10 * num > 9 * den
  <2>1. Clamped(n, num, den) = [n EXCEPT !.num = 9, !.den = 10]  BY <1>4 DEF Clamped
  <2>2. PICK m : m = [n EXCEPT !.num = 9, !.den = 10]  OBVIOUS
  <2>20. Rated(n, 9, 10, m)  BY <2>2 DEF Rated
  <2>3. m \in Splitting /\ m.dir = n.dir  BY <1>2, <2>20
  <2> QED  BY <1>4, <2>1, <2>2, <2>3
<1>5. CASE ~(10 * num < den) /\ ~(10 * num > 9 * den)
  <2>1. Clamped(n, num, den) = [n EXCEPT !.num = num, !.den = den]  BY <1>5 DEF Clamped
  <2>2. num \in Nat /\ den <= 10 * num /\ 10 * num <= 9 * den  BY <1>5
  <2>3. PICK m : m = [n EXCEPT !.num = num, !.den = den]  OBVIOUS
  <2>20. Rated(n, num, den, m)  BY <2>3 DEF Rated
  <2>4. m \in Splitting /\ m.dir = n.dir /\ m.num = num /\ m.den = den  BY <1>2, <2>2, <2>20
  <2> QED  BY <2>1, <2>3, <2>4
<1> QED  BY <1>3, <1>4, <1>5

\* Changing a ratio keeps the tree and the list in agreement.
LEMMA RatioAgrees ==
  ASSUME NEW t, NEW l, PanesAgree(t, l), NEW p \in DOMAIN t, ~t[p].leaf,
         NEW num \in Int, NEW den \in Nat \ {0}
  PROVE  PanesAgree(WithRatio(t, p, num, den), l)
<1>1. IsTree(t) /\ l \in Seq(Contents) /\ IsInjective(l)  BY DEF PanesAgree
<1>2. PICK h : Ordered(t, l, h)  BY DEF PanesAgree
<1>3. t[p] \in Splitting  BY <1>1, PlaceIs
<1>4. PICK n : n = Clamped(t[p], num, den)  OBVIOUS
<1>5. n \in Splitting  BY <1>3, <1>4, ClampedIs
<1>6. n.leaf = t[p].leaf  BY <1>3, <1>5 DEF Splitting
<1>7. PICK u : u = [t EXCEPT ![p] = n]  OBVIOUS
<1>8. u = WithRatio(t, p, num, den)  BY <1>4, <1>7 DEF WithRatio
<1>9. /\ IsTree(u) /\ LeafPaths(u) = LeafPaths(t) /\ DOMAIN u = DOMAIN t
      /\ u[p] = n /\ \A q \in DOMAIN t : q # p => u[q] = t[q]
  <2>1. n \in Splitting \cup Ending  BY <1>5
  <2>2. NodeChanged(t, p, n, u)  BY <1>7 DEF NodeChanged
  <2>3. p \in DOMAIN t  OBVIOUS
  <2> QED  BY ONLY <1>1, <1>6, <2>1, <2>2, <2>3, NodeChanges
<1>10. Ordered(u, l, h)
  <2>1. \A q \in LeafPaths(t) : u[q] = t[q]  BY <1>9 DEF LeafPaths
  <2>2. /\ h \in [1..Len(l) -> LeafPaths(t)]
        /\ \A j \in 1..Len(l) : h[j] \in LeafPaths(t) /\ t[h[j]].session = l[j]
        /\ \A q \in LeafPaths(t) : \E j \in 1..Len(l) : h[j] = q
        /\ \A j, w \in 1..Len(l) : j < w => Before(h[j], h[w])
    BY <1>2 DEF Ordered
  <2> QED  BY <1>9, <2>1, <2>2 DEF Ordered
<1> QED  BY <1>1, <1>8, <1>9, <1>10 DEF PanesAgree

\* The indices of a sequence with an element less.
LEMMA Dropped ==
  ASSUME NEW T, NEW s \in Seq(T), NEW i \in 1 .. Len(s),
         NEW r, r = RemoveAt(s, i)
  PROVE  /\ r \in Seq(T) /\ Len(r) = Len(s) - 1
         /\ \A j \in 1..Len(s) - 1 : r[j] = IF j < i THEN s[j] ELSE s[j + 1]
<1>1. Len(s) \in Nat /\ (\A j \in 1 .. Len(s) : s[j] \in T) /\ DOMAIN s = 1 .. Len(s)
  BY LenProperties, ElementOfSeq
<1>2. PICK p : p = SubSeq(s, 1, i - 1)  OBVIOUS
<1>3. PICK q : q = SubSeq(s, i + 1, Len(s))  OBVIOUS
<1>4. p \in Seq(T) /\ Len(p) = i - 1 /\ \A j \in 1 .. i - 1 : p[j] = s[j]
  <2>1. /\ SubSeq(s, 1, i - 1) \in Seq(T)
        /\ Len(SubSeq(s, 1, i - 1)) = IF 1 <= i - 1 THEN (i - 1) - 1 + 1 ELSE 0
        /\ \A j \in 1 .. (i - 1) - 1 + 1 : SubSeq(s, 1, i - 1)[j] = s[1 + j - 1]
    BY <1>1, SubSeqProperties
  <2> QED  BY <1>1, <1>2, <2>1
<1>5. q \in Seq(T) /\ Len(q) = Len(s) - i /\ \A j \in 1 .. Len(s) - i : q[j] = s[i + j]
  <2>1. i + 1 \in Int /\ Len(s) \in Int /\ \A j \in i + 1 .. Len(s) : s[j] \in T  BY <1>1
  <2>2. /\ SubSeq(s, i + 1, Len(s)) \in Seq(T)
        /\ Len(SubSeq(s, i + 1, Len(s))) = IF i + 1 <= Len(s) THEN Len(s) - (i + 1) + 1 ELSE 0
        /\ \A j \in 1 .. Len(s) - (i + 1) + 1 : SubSeq(s, i + 1, Len(s))[j] = s[(i + 1) + j - 1]
    BY <2>1, SubSeqProperties
  <2>3. Len(s) \in Nat /\ i \in Nat /\ i <= Len(s)  BY <1>1
  <2>4. PICK m \in Nat : m = Len(s) - i  BY <2>3
  <2>5. Len(s) - (i + 1) + 1 = m /\ (i + 1 <= Len(s) <=> m >= 1)  BY <2>3, <2>4
  <2>6. q \in Seq(T) /\ Len(q) = m
    <3>1. q \in Seq(T) /\ Len(q) = IF m >= 1 THEN m ELSE 0  BY <1>3, <2>2, <2>5
    <3> QED  BY <2>4, <3>1
  <2>7. ASSUME NEW j \in 1 .. m PROVE q[j] = s[i + j]
    <3>1. (i + 1) + j - 1 = i + j  BY <2>3, <2>4
    <3>2. q[j] = s[(i + 1) + j - 1]  BY <1>3, <2>2, <2>5
    <3> QED  BY <3>1, <3>2
  <2> QED  BY <2>4, <2>6, <2>7
<1>6. /\ r \in Seq(T) /\ Len(r) = Len(s) - 1
      /\ \A j \in 1 .. Len(s) - 1 : r[j] = IF j <= i - 1 THEN p[j] ELSE q[j - (i - 1)]
  <2>1. /\ p \o q \in Seq(T) /\ Len(p \o q) = Len(p) + Len(q)
        /\ \A j \in 1 .. Len(p) + Len(q) :
             (p \o q)[j] = IF j <= Len(p) THEN p[j] ELSE q[j - Len(p)]
    BY <1>4, <1>5, ConcatProperties
  <2>2. r = p \o q  BY <1>2, <1>3 DEF RemoveAt
  <2>3. Len(p) + Len(q) = Len(s) - 1  BY <1>1, <1>4, <1>5
  <2> QED  BY <1>4, <2>1, <2>2, <2>3
<1>7. ASSUME NEW j \in 1..Len(s) - 1 PROVE r[j] = IF j < i THEN s[j] ELSE s[j + 1]
  <2>1. CASE j < i  BY <1>1, <1>4, <1>6, <2>1
  <2>2. CASE j >= i
    <3>1. j - (i - 1) \in 1 .. Len(s) - i /\ i + (j - (i - 1)) = j + 1  BY <1>1, <2>2
    <3>2. r[j] = q[j - (i - 1)] /\ q[j - (i - 1)] = s[i + (j - (i - 1))]  BY <1>1, <1>5, <1>6, <2>2, <3>1
    <3> QED  BY <1>1, <2>2, <3>1, <3>2
  <2> QED  BY <1>1, <2>1, <2>2
<1> QED  BY <1>6, <1>7

\* The library's prefix and the paths' Under.
LEMMA PrefixIs ==
  ASSUME NEW p \in Paths, NEW q \in Paths
  PROVE  IsPrefix(p, q) <=> Under(q, p)
<1>1. SubSeq(p, 1, Len(p)) = p  BY UpWhole DEF Up
<1> QED  BY <1>1 DEF IsPrefix, Under, Up

\* r is q without its turn k.
Skips(q, r, k) ==
  /\ k \in 1..Len(q) /\ Len(r) = Len(q) - 1
  /\ \A i \in 1..k - 1 : r[i] = q[i]
  /\ \A i \in k..Len(r) : r[i] = q[i + 1]

\* The sibling's path.
LEMMA SiblingIs ==
  ASSUME NEW p \in Paths, p # Root
  PROVE  /\ Front(p) \in Paths /\ Sibling(p) \in Paths /\ Len(p) \in Nat \ {0}
         /\ Len(Front(p)) = Len(p) - 1 /\ Len(Sibling(p)) = Len(p)
         /\ \A i \in 1..Len(p) - 1 : Sibling(p)[i] = Front(p)[i] /\ Front(p)[i] = p[i]
         /\ Sibling(p) = Append(Front(p), ~Last(p)) /\ p = Append(Front(p), Last(p)) /\ Last(p) \in BOOLEAN
<1>1. PICK f \in Paths : f = Front(p)  BY PathEnd
<1>2. PICK b \in BOOLEAN : b = Last(p)  BY PathEnd
<1>3. PICK c \in BOOLEAN : c = ~b  OBVIOUS
<1>4. Len(p) \in Nat \ {0} /\ Len(f) = Len(p) - 1 /\ p = Append(f, b)  BY <1>1, <1>2, PathEnd
<1>5. PICK s : s = Append(f, c)  OBVIOUS
<1>6. s \in Paths /\ Len(s) = Len(f) + 1 /\ \A i \in 1..Len(f) : s[i] = f[i]  BY <1>5, LongerPath
<1>7. \A i \in 1..Len(f) : p[i] = f[i]  BY <1>4, LongerPath
<1>8. s = Sibling(p)  BY <1>1, <1>2, <1>3, <1>5 DEF Sibling
<1>9. Len(s) = Len(p) /\ \A i \in 1..Len(p) - 1 : s[i] = f[i] /\ p[i] = f[i]  BY <1>4, <1>6, <1>7
<1>10. s = Append(Front(p), ~Last(p))  BY <1>1, <1>2, <1>3, <1>5
<1> QED  BY <1>1, <1>2, <1>4, <1>6, <1>8, <1>9, <1>10

\* A path below the sibling, without the turn to it.
LEMMA LiftedIs ==
  ASSUME NEW p \in Paths, p # Root, NEW q \in Paths, Under(q, Sibling(p))
  PROVE  Lifted(p, q) \in Paths /\ Skips(q, Lifted(p, q), Len(p)) /\ Under(Lifted(p, q), Front(p))
<1>1. PICK f \in Paths : f = Front(p)  BY SiblingIs
<1>2. PICK s \in Paths : s = Sibling(p)  BY SiblingIs
<1>3. PICK k \in Nat \ {0} : k = Len(p)  BY SiblingIs
<1>4. Len(f) = k - 1 /\ Len(s) = k /\ \A i \in 1..k - 1 : s[i] = f[i]  BY <1>1, <1>2, <1>3, SiblingIs
<1>5. PICK n \in Nat : n = Len(q)  BY UpWhole
<1>6. k <= n /\ \A i \in 1..k : q[i] = s[i]  BY <1>2, <1>4, <1>5, UnderIs
<1>7. PICK e : e = SubSeq(q, k + 1, n)  OBVIOUS
<1>8. e \in Paths /\ Len(e) = n - k /\ \A j \in 1..n - k : e[j] = q[k + j]
  <2>1. k + 1 \in Int /\ n \in Int /\ \A j \in k + 1..n : q[j] \in BOOLEAN
    <3>1. \A j \in 1..n : q[j] \in BOOLEAN  BY <1>5, ElementOfSeq DEF Paths
    <3> QED  BY <3>1
  <2>2. /\ SubSeq(q, k + 1, n) \in Seq(BOOLEAN)
        /\ Len(SubSeq(q, k + 1, n)) = IF k + 1 <= n THEN n - (k + 1) + 1 ELSE 0
        /\ \A j \in 1..n - (k + 1) + 1 : SubSeq(q, k + 1, n)[j] = q[(k + 1) + j - 1]
    BY <2>1, SubSeqProperties
  <2>3. n - (k + 1) + 1 = n - k /\ Len(e) = n - k  BY <1>6, <1>7, <2>2
  <2>4. ASSUME NEW j \in 1..n - k PROVE e[j] = q[k + j]
    <3>1. (k + 1) + j - 1 = k + j  OBVIOUS
    <3>2. e[j] = q[(k + 1) + j - 1]  BY <1>7, <2>2, <2>3
    <3> QED  BY <3>1, <3>2
  <2> QED  BY <1>7, <2>2, <2>3, <2>4 DEF Paths
<1>9. PICK r : r = Lifted(p, q)  OBVIOUS
<1>10. r = f \o e  BY <1>1, <1>3, <1>5, <1>7, <1>9 DEF Lifted
<1>11. /\ r \in Paths /\ Len(r) = Len(f) + Len(e)
       /\ \A i \in 1..Len(f) + Len(e) : r[i] = IF i <= Len(f) THEN f[i] ELSE e[i - Len(f)]
  BY <1>8, <1>10, ConcatProperties DEF Paths
<1>12. Len(r) = n - 1  BY <1>4, <1>8, <1>11
<1>13. \A i \in 1..k - 1 : r[i] = f[i] /\ r[i] = q[i]
  <2> SUFFICES ASSUME NEW i \in 1..k - 1 PROVE r[i] = f[i] /\ r[i] = q[i]  OBVIOUS
  <2>1. i \in 1..Len(f) + Len(e) /\ i <= Len(f) /\ i \in 1..k  BY <1>4, <1>6, <1>8
  <2> QED  BY <1>4, <1>6, <1>11, <2>1
<1>14. \A i \in k..Len(r) : r[i] = q[i + 1]
  <2> SUFFICES ASSUME NEW i \in k..Len(r) PROVE r[i] = q[i + 1]  OBVIOUS
  <2>1. i \in 1..Len(f) + Len(e) /\ ~(i <= Len(f)) /\ i - Len(f) \in 1..n - k /\ k + (i - Len(f)) = i + 1
    BY <1>4, <1>6, <1>8, <1>12
  <2> QED  BY <1>8, <1>11, <2>1
<1>15. Skips(q, r, k)  BY <1>5, <1>6, <1>12, <1>13, <1>14 DEF Skips
<1>16. Under(r, f)
  <2>1. Len(f) <= Len(r) /\ \A i \in 1..Len(f) : r[i] = f[i]  BY <1>4, <1>6, <1>12, <1>13
  <2> QED  BY <1>11, <2>1, UnderIs
<1> QED  BY <1>1, <1>3, <1>9, <1>11, <1>15, <1>16

\* Lowering undoes lifting.
LEMMA LoweredIs ==
  ASSUME NEW p \in Paths, p # Root, NEW q \in Paths
  PROVE  /\ Under(q, Sibling(p)) => Lowered(p, Lifted(p, q)) = q
         /\ ~Under(q, Front(p)) => Lowered(p, q) = q
<1>1. PICK f \in Paths : f = Front(p)  BY SiblingIs
<1>2. PICK s \in Paths : s = Sibling(p)  BY SiblingIs
<1>3. PICK k \in Nat \ {0} : k = Len(p)  BY SiblingIs
<1>4. ASSUME Under(q, s) PROVE Lowered(p, Lifted(p, q)) = q
  <2>1. PICK r \in Paths : r = Lifted(p, q)  BY <1>2, <1>4, LiftedIs
  <2>2. Skips(q, r, k) /\ Under(r, f)  BY <1>1, <1>2, <1>3, <1>4, <2>1, LiftedIs
  <2>3. PICK n \in Nat : n = Len(q)  BY UpWhole
  <2>4. /\ k <= n /\ Len(r) = n - 1 /\ (\A i \in 1..k - 1 : r[i] = q[i])
        /\ \A i \in k..n - 1 : r[i] = q[i + 1]
    BY <2>2, <2>3 DEF Skips
  <2>5. Len(s) = k /\ \A i \in 1..k : q[i] = s[i]
    <3>1. Len(s) = k  BY <1>2, <1>3, SiblingIs
    <3> QED  BY <1>4, <3>1, UnderIs
  <2>6. PICK m \in Nat : m = n - 1  BY <2>4
  <2>7. PICK e : e = SubSeq(r, k, m)  OBVIOUS
  <2>8. e \in Paths /\ Len(e) = n - k /\ \A j \in 1..n - k : e[j] = r[k + j - 1]
    <3>1. k \in Int /\ m \in Int /\ \A j \in k..m : r[j] \in BOOLEAN
      <4>1. \A j \in 1..m : r[j] \in BOOLEAN  BY <2>4, <2>6, ElementOfSeq DEF Paths
      <4> QED  BY <4>1
    <3>2. /\ SubSeq(r, k, m) \in Seq(BOOLEAN)
          /\ Len(SubSeq(r, k, m)) = IF k <= m THEN m - k + 1 ELSE 0
          /\ \A j \in 1..m - k + 1 : SubSeq(r, k, m)[j] = r[k + j - 1]
      BY <3>1, SubSeqProperties
    <3>3. m - k + 1 = n - k  BY <2>6
    <3> QED  BY <2>4, <2>6, <2>7, <3>2, <3>3 DEF Paths
  <2>9. PICK x : x = Lowered(p, r)  OBVIOUS
  <2>10. x = s \o e
    <3>1. IsPrefix(f, r)  BY <2>2, PrefixIs
    <3> QED  BY <1>1, <1>2, <1>3, <2>4, <2>6, <2>7, <2>9, <3>1 DEF Lowered
  <2>11. /\ x \in Paths /\ Len(x) = Len(s) + Len(e)
         /\ \A i \in 1..Len(s) + Len(e) : x[i] = IF i <= Len(s) THEN s[i] ELSE e[i - Len(s)]
    BY <2>8, <2>10, ConcatProperties DEF Paths
  <2>12. Len(x) = n  BY <2>4, <2>5, <2>8, <2>11
  <2>13. ASSUME NEW i \in 1..n PROVE x[i] = q[i]
    <3>1. CASE i <= k
      <4>1. i \in 1..k /\ i \in 1..Len(s) + Len(e)  BY <2>5, <2>8, <2>4, <3>1
      <4> QED  BY <2>5, <2>11, <3>1, <4>1
    <3>2. CASE i > k
      <4>1. /\ i \in 1..Len(s) + Len(e) /\ ~(i <= Len(s)) /\ i - k \in 1..n - k
            /\ k + (i - k) - 1 = i - 1 /\ i - 1 \in k..n - 1 /\ (i - 1) + 1 = i
        BY <2>5, <2>8, <2>4, <3>2
      <4>2. x[i] = e[i - k]  BY <2>5, <2>11, <4>1
      <4>3. e[i - k] = r[k + (i - k) - 1]  BY <2>8, <4>1
      <4>4. r[i - 1] = q[(i - 1) + 1]  BY <2>4, <4>1
      <4> QED  BY <4>1, <4>2, <4>3, <4>4
    <3> QED  BY <3>1, <3>2
  <2>14. x = q  BY <2>3, <2>11, <2>12, <2>13, SamePath
  <2> QED  BY <2>1, <2>9, <2>14
<1>5. ASSUME ~Under(q, f) PROVE Lowered(p, q) = q
  <2>1. ~IsPrefix(f, q)  BY <1>5, PrefixIs
  <2> QED  BY <1>1, <2>1 DEF Lowered
<1> QED  BY <1>1, <1>2, <1>4, <1>5

\* The turns of a path that goes on.
LEMMA AppendIs ==
  ASSUME NEW p \in Paths, NEW b \in BOOLEAN
  PROVE  /\ Append(p, b) \in Paths /\ Len(Append(p, b)) = Len(p) + 1 /\ Len(p) \in Nat
         /\ Append(p, b)[Len(p) + 1] = b /\ \A i \in 1..Len(p) : Append(p, b)[i] = p[i]
<1>1. /\ Append(p, b) \in Paths /\ Len(Append(p, b)) = Len(p) + 1 /\ Last(Append(p, b)) = b
      /\ \A i \in 1..Len(p) : Append(p, b)[i] = p[i]
  BY LongerPath
<1>2. Append(p, b)[Len(Append(p, b))] = b  BY <1>1 DEF Last
<1> QED  BY <1>1, <1>2, UpWhole

\* What is under a node when a path goes on.
LEMMA UnderOn ==
  ASSUME NEW q \in Paths, NEW v \in Paths, NEW b \in BOOLEAN
  PROVE  /\ Under(q, v) => Under(Append(q, b), v)
         /\ Under(Append(q, b), v) => Under(q, v) \/ Append(q, b) = v
<1>1. PICK a \in Paths : a = Append(q, b)  BY AppendIs
<1>2. Len(a) = Len(q) + 1 /\ Len(q) \in Nat /\ \A i \in 1..Len(q) : a[i] = q[i]  BY <1>1, AppendIs
<1>3. Len(v) \in Nat  BY UpWhole
<1>4. ASSUME Under(q, v) PROVE Under(a, v)
  <2>1. Len(v) <= Len(q) /\ \A i \in 1..Len(v) : q[i] = v[i]  BY <1>4, UnderIs
  <2>2. Len(v) <= Len(a)  BY <1>2, <1>3, <2>1
  <2>3. \A i \in 1..Len(v) : a[i] = v[i]
    <3> SUFFICES ASSUME NEW i \in 1..Len(v) PROVE a[i] = v[i]  OBVIOUS
    <3>1. i \in 1..Len(q)  BY <1>2, <1>3, <2>1
    <3> QED  BY <1>2, <2>1, <3>1
  <2> QED  BY <2>2, <2>3, UnderIs
<1>5. ASSUME Under(a, v), ~Under(q, v) PROVE a = v
  <2>1. Len(v) <= Len(a) /\ \A i \in 1..Len(v) : a[i] = v[i]  BY <1>5, UnderIs
  <2>2. Len(v) <= Len(q) => \A i \in 1..Len(v) : q[i] = v[i]
    <3> SUFFICES ASSUME Len(v) <= Len(q), NEW i \in 1..Len(v) PROVE q[i] = v[i]  OBVIOUS
    <3>1. i \in 1..Len(q)  BY <1>2, <1>3
    <3> QED  BY <1>2, <2>1, <3>1
  <2>3. ~(Len(v) <= Len(q))  BY <1>5, <2>2, UnderIs
  <2>4. Len(v) = Len(a)  BY <1>2, <1>3, <2>1, <2>3
  <2> QED  BY <2>1, <2>4, SamePath
<1> QED  BY <1>1, <1>4, <1>5

\* Paths that skip a turn go on alike.
LEMMA SkipOn ==
  ASSUME NEW q \in Paths, NEW b \in BOOLEAN, NEW a \in Paths, a = Append(q, b),
         NEW x \in Paths, NEW y \in Paths, NEW k \in Nat \ {0}, Skips(q, x, k), Skips(a, y, k)
  PROVE  y = Append(x, b)
<1>1. PICK z \in Paths : z = Append(x, b)  BY AppendIs
<1>2. Len(a) = Len(q) + 1 /\ Len(q) \in Nat /\ a[Len(q) + 1] = b /\ \A i \in 1..Len(q) : a[i] = q[i]  BY AppendIs
<1>3. Len(z) = Len(x) + 1 /\ Len(x) \in Nat /\ z[Len(x) + 1] = b /\ \A i \in 1..Len(x) : z[i] = x[i]  BY <1>1, AppendIs
<1>4. /\ k <= Len(q) /\ Len(x) = Len(q) - 1 /\ (\A i \in 1..k - 1 : x[i] = q[i])
      /\ \A i \in k..Len(x) : x[i] = q[i + 1]
  BY DEF Skips
<1>5. /\ Len(y) = Len(a) - 1 /\ (\A i \in 1..k - 1 : y[i] = a[i])
      /\ \A i \in k..Len(y) : y[i] = a[i + 1]
  BY DEF Skips
<1>6. Len(y) = Len(z) /\ Len(y) = Len(q)  BY <1>2, <1>3, <1>4, <1>5
<1>7. ASSUME NEW i \in 1..Len(y) PROVE y[i] = z[i]
  <2>1. CASE i < k
    <3>1. i \in 1..k - 1 /\ i \in 1..Len(q) /\ i \in 1..Len(x)  BY <1>2, <1>4, <1>6, <2>1
    <3> QED  BY <1>2, <1>3, <1>4, <1>5, <3>1
  <2>2. CASE i >= k /\ i < Len(q)
    <3>1. i \in k..Len(x) /\ i \in 1..Len(x) /\ i \in k..Len(y) /\ i + 1 \in 1..Len(q)  BY <1>2, <1>4, <1>6, <2>2
    <3> QED  BY <1>2, <1>3, <1>4, <1>5, <3>1
  <2>3. CASE i = Len(q)
    <3>1. i \in k..Len(y) /\ i = Len(x) + 1  BY <1>2, <1>4, <1>6, <2>3
    <3> QED  BY <1>2, <1>3, <1>5, <2>3, <3>1
  <2> QED  BY <1>2, <1>6, <2>1, <2>2, <2>3
<1>8. y = z  BY <1>6, <1>7, SamePath
<1> QED  BY <1>1, <1>8

\* The sibling takes the parent's place.
LEMMA SiblingLifted ==
  ASSUME NEW p \in Paths, p # Root, NEW x \in Paths, Skips(Sibling(p), x, Len(p))
  PROVE  x = Front(p)
<1>1. PICK f \in Paths : f = Front(p)  BY SiblingIs
<1>2. PICK s \in Paths : s = Sibling(p)  BY SiblingIs
<1>3. PICK k \in Nat \ {0} : k = Len(p)  BY SiblingIs
<1>4. Len(f) = k - 1 /\ Len(s) = k /\ \A i \in 1..k - 1 : s[i] = f[i]  BY <1>1, <1>2, <1>3, SiblingIs
<1>5. Len(x) = Len(s) - 1 /\ \A i \in 1..k - 1 : x[i] = s[i]  BY <1>2, <1>3 DEF Skips
<1>6. Len(x) = Len(f) /\ \A i \in 1..Len(x) : x[i] = f[i]  BY <1>4, <1>5
<1> QED  BY <1>1, <1>6, SamePath

\* What is under the sibling is under the parent, and p is not under its sibling.
LEMMA UnderParent ==
  ASSUME NEW p \in Paths, p # Root
  PROVE  /\ \A q \in Paths : Under(q, Sibling(p)) => Under(q, Front(p))
         /\ Under(Sibling(p), Sibling(p)) /\ Under(p, Front(p)) /\ ~Under(p, Sibling(p))
<1>1. PICK f \in Paths : f = Front(p)  BY SiblingIs
<1>2. PICK s \in Paths : s = Sibling(p)  BY SiblingIs
<1>3. PICK k \in Nat \ {0} : k = Len(p)  BY SiblingIs
<1>4. /\ Len(f) = k - 1 /\ Len(s) = k /\ \A i \in 1..k - 1 : s[i] = f[i] /\ f[i] = p[i]
      /\ s = Append(f, ~Last(p)) /\ p = Append(f, Last(p)) /\ Last(p) \in BOOLEAN
  BY <1>1, <1>2, <1>3, SiblingIs
<1>5. ASSUME NEW q \in Paths, Under(q, s) PROVE Under(q, f)
  <2>1. k <= Len(q) /\ Len(q) \in Nat /\ \A i \in 1..k : q[i] = s[i]  BY <1>4, <1>5, UnderIs, UpWhole
  <2>2. Len(f) <= Len(q) /\ \A i \in 1..Len(f) : q[i] = f[i]  BY <1>4, <2>1
  <2> QED  BY <2>2, UnderIs
<1>6. Under(s, s)  BY <1>4, UnderIs
<1>7. Under(p, f)
  <2>1. Len(f) <= Len(p) /\ \A i \in 1..Len(f) : p[i] = f[i]  BY <1>3, <1>4
  <2> QED  BY <2>1, UnderIs
<1>8. ~Under(p, s)
  <2> SUFFICES ASSUME Under(p, s) PROVE FALSE  OBVIOUS
  <2>1. s = p  BY <1>3, <1>4, UpWhole DEF Under
  <2>2. PICK b \in BOOLEAN : b = Last(p)  BY <1>4
  <2>3. PICK c \in BOOLEAN : c = ~b  OBVIOUS
  <2>4. Append(f, b) = Append(f, c)  BY <1>4, <2>1, <2>2, <2>3
  <2>5. Last(Append(f, b)) = b /\ Last(Append(f, c)) = c  BY LongerPath
  <2> QED  BY <2>3, <2>4, <2>5
<1> QED  BY <1>1, <1>2, <1>5, <1>6, <1>7, <1>8

\* The nodes that stay when p goes, and where they are then.
Kept(t, p) == {q \in DOMAIN t : Under(q, Front(p)) => Under(q, Sibling(p))}
Raised(p, q) == IF Under(q, Sibling(p)) THEN Lifted(p, q) ELSE q

\* Where CloseAt puts a node that is kept, and from where it takes it.
LEMMA RaisedIs ==
  ASSUME NEW p \in Paths, p # Root, NEW q \in Paths, Under(q, Front(p)) => Under(q, Sibling(p))
  PROVE  /\ Raised(p, q) \in Paths /\ Lowered(p, Raised(p, q)) = q
         /\ Under(q, Sibling(p)) => Raised(p, q) = Lifted(p, q) /\ Skips(q, Raised(p, q), Len(p))
         /\ ~Under(q, Sibling(p)) => Raised(p, q) = q /\ ~Under(q, Front(p))
<1>1. CASE Under(q, Sibling(p))
  <2>1. Raised(p, q) = Lifted(p, q)  BY <1>1 DEF Raised
  <2>2. Lifted(p, q) \in Paths /\ Skips(q, Lifted(p, q), Len(p))  BY <1>1, LiftedIs
  <2>3. Lowered(p, Lifted(p, q)) = q  BY <1>1, LoweredIs
  <2> QED  BY <1>1, <2>1, <2>2, <2>3
<1>2. CASE ~Under(q, Sibling(p))
  <2>1. Raised(p, q) = q /\ ~Under(q, Front(p))  BY <1>2 DEF Raised
  <2>2. Lowered(p, q) = q  BY <2>1, LoweredIs
  <2> QED  BY <1>2, <2>1, <2>2
<1> QED  BY <1>1, <1>2

\* The nodes of a tree after a close.
LEMMA CloseNodes ==
  ASSUME NEW t, IsTree(t), NEW p \in DOMAIN t, p # Root, NEW u, u = CloseAt(t, p)
  PROVE  /\ u = [x \in DOMAIN u |-> u[x]] /\ DOMAIN u = {Raised(p, q) : q \in Kept(t, p)}
         /\ \A q \in Kept(t, p) : u[Raised(p, q)] = t[q]
<1>1. p \in Paths /\ \A q \in DOMAIN t : q \in Paths  BY Ancestors
<1>2. Front(p) \in Paths /\ Sibling(p) \in Paths  BY <1>1, SiblingIs
<1>3. \A q \in DOMAIN t : (IsPrefix(Front(p), q) <=> Under(q, Front(p)))
                          /\ (IsPrefix(Sibling(p), q) <=> Under(q, Sibling(p)))
  BY <1>1, <1>2, PrefixIs
<1> DEFINE D == {q \in DOMAIN t : ~IsPrefix(Front(p), q)}
                  \cup {Lifted(p, q) : q \in {q \in DOMAIN t : IsPrefix(Sibling(p), q)}}
<1>4. u = [q \in D |-> t[Lowered(p, q)]]  BY DEF CloseAt
<1>5. D = {Raised(p, q) : q \in Kept(t, p)}
  <2>1. ASSUME NEW x \in D PROVE \E q \in Kept(t, p) : x = Raised(p, q)
    <3>1. CASE x \in {q \in DOMAIN t : ~IsPrefix(Front(p), q)}
      <4>1. x \in DOMAIN t /\ ~Under(x, Front(p))  BY <1>3, <3>1
      <4>2. ~Under(x, Sibling(p))  BY <1>1, <4>1, UnderParent
      <4> QED  BY <4>1, <4>2 DEF Kept, Raised
    <3>2. CASE x \in {Lifted(p, q) : q \in {q \in DOMAIN t : IsPrefix(Sibling(p), q)}}
      <4>1. PICK q \in DOMAIN t : IsPrefix(Sibling(p), q) /\ x = Lifted(p, q)  BY <3>2
      <4>2. Under(q, Sibling(p))  BY <1>3, <4>1
      <4> QED  BY <4>1, <4>2 DEF Kept, Raised
    <3> QED  BY <3>1, <3>2
  <2>2. ASSUME NEW q \in Kept(t, p) PROVE Raised(p, q) \in D
    <3>1. q \in DOMAIN t /\ (Under(q, Front(p)) => Under(q, Sibling(p)))  BY DEF Kept
    <3>2. CASE Under(q, Sibling(p))
      <4>1. IsPrefix(Sibling(p), q) /\ Raised(p, q) = Lifted(p, q)  BY <1>3, <3>1, <3>2 DEF Raised
      <4> QED  BY <3>1, <4>1
    <3>3. CASE ~Under(q, Sibling(p))
      <4>1. ~IsPrefix(Front(p), q) /\ Raised(p, q) = q  BY <1>3, <3>1, <3>3 DEF Raised
      <4> QED  BY <3>1, <4>1
    <3> QED  BY <3>2, <3>3
  <2> QED  BY <2>1, <2>2
<1>6. DOMAIN u = D /\ u = [x \in DOMAIN u |-> u[x]] /\ \A x \in D : u[x] = t[Lowered(p, x)]  BY <1>4
<1> HIDE DEF D
<1>7. ASSUME NEW q \in Kept(t, p) PROVE u[Raised(p, q)] = t[q]
  <2>1. q \in Paths /\ (Under(q, Front(p)) => Under(q, Sibling(p)))  BY <1>1 DEF Kept
  <2>2. Lowered(p, Raised(p, q)) = q  BY <1>1, <2>1, RaisedIs
  <2>3. Raised(p, q) \in D  BY <1>5
  <2> QED  BY <1>6, <2>2, <2>3
<1> QED  BY <1>5, <1>6, <1>7

\* The order of the leaves that stay.
LEMMA RaisedBefore ==
  ASSUME NEW p \in Paths, p # Root, NEW q \in Paths, NEW v \in Paths,
         Under(q, Front(p)) => Under(q, Sibling(p)), Under(v, Front(p)) => Under(v, Sibling(p)),
         Before(q, v)
  PROVE  Before(Raised(p, q), Raised(p, v))
<1>1. PICK f \in Paths : f = Front(p)  BY SiblingIs
<1>2. PICK s \in Paths : s = Sibling(p)  BY SiblingIs
<1>3. PICK k \in Nat \ {0} : k = Len(p)  BY SiblingIs
<1>4. Len(f) = k - 1 /\ Len(s) = k  BY <1>1, <1>2, <1>3, SiblingIs
<1>5. PICK x \in Paths : x = Raised(p, q)  BY RaisedIs
<1>6. PICK y \in Paths : y = Raised(p, v)  BY RaisedIs
<1>7. /\ Under(q, s) => Skips(q, x, k) /\ Under(q, f)
      /\ ~Under(q, s) => x = q /\ ~Under(q, f)
  BY <1>1, <1>2, <1>3, <1>5, RaisedIs, UnderParent
<1>8. /\ Under(v, s) => Skips(v, y, k) /\ Under(v, f)
      /\ ~Under(v, s) => y = v /\ ~Under(v, f)
  BY <1>1, <1>2, <1>3, <1>6, RaisedIs, UnderParent
<1>9. PICK i \in Nat : /\ i \in 1..Len(q) /\ i \in 1..Len(v) /\ ~q[i] /\ v[i]
                       /\ \A j \in 1..i - 1 : q[j] = v[j]
  BY BeforeIs
<1>10. Len(q) \in Nat /\ Len(v) \in Nat /\ Len(x) \in Nat /\ Len(y) \in Nat  BY UpWhole
<1>11. ASSUME NEW a \in Paths, NEW z \in Paths, Skips(a, z, k), i < k
       PROVE  i \in 1..Len(z) /\ \A j \in 1..i : z[j] = a[j]
  <2>1. k <= Len(a) /\ Len(z) = Len(a) - 1 /\ \A j \in 1..k - 1 : z[j] = a[j]  BY <1>11 DEF Skips
  <2>2. i \in 1..Len(z)  BY <1>9, <1>11, <2>1, UpWhole
  <2> QED  BY <1>11, <2>1, <2>2
<1>12. CASE i < k
  <2>1. i \in 1..Len(x) /\ \A j \in 1..i : x[j] = q[j]
    <3>1. CASE Under(q, s)  BY <1>7, <1>11, <1>12, <3>1
    <3>2. CASE ~Under(q, s)  BY <1>7, <1>9, <3>2
    <3> QED  BY <3>1, <3>2
  <2>2. i \in 1..Len(y) /\ \A j \in 1..i : y[j] = v[j]
    <3>1. CASE Under(v, s)  BY <1>8, <1>11, <1>12, <3>1
    <3>2. CASE ~Under(v, s)  BY <1>8, <1>9, <3>2
    <3> QED  BY <3>1, <3>2
  <2>3. ~x[i] /\ y[i] /\ \A j \in 1..i - 1 : x[j] = y[j]
    <3>1. i \in 1..i /\ \A j \in 1..i - 1 : j \in 1..i  BY <1>9
    <3> QED  BY <1>9, <2>1, <2>2, <3>1
  <2>4. Before(x, y)  BY <1>9, <2>1, <2>2, <2>3, BeforeIs
  <2> QED  BY <1>5, <1>6, <2>4
<1>13. CASE i >= k
  <2>1. Under(q, f) <=> Under(v, f)
    <3>1. Len(f) <= Len(q) /\ Len(f) <= Len(v)  BY <1>4, <1>9, <1>10, <1>13
    <3>2. \A j \in 1..Len(f) : q[j] = v[j]
      <4>1. \A j \in 1..Len(f) : j \in 1..i - 1  BY <1>4, <1>13
      <4> QED  BY <1>9, <4>1
    <3> QED  BY <3>1, <3>2, UnderIs
  <2>2. CASE ~Under(q, s)
    <3>1. x = q /\ y = v  BY <1>7, <1>8, <2>1, <2>2
    <3> QED  BY <1>5, <1>6, <3>1
  <2>3. CASE Under(q, s)
    <3>1. Under(v, s)  BY <1>7, <1>8, <2>1, <2>3
    <3>2. (\A j \in 1..k : q[j] = s[j]) /\ (\A j \in 1..k : v[j] = s[j])  BY <1>4, <2>3, <3>1, UnderIs
    <3>3. i # k
      <4>1. k \in 1..k  OBVIOUS
      <4>2. q[k] = v[k]  BY <3>2, <4>1
      <4> QED  BY <1>9, <4>2
    <3>4. /\ Len(x) = Len(q) - 1 /\ (\A j \in 1..k - 1 : x[j] = q[j]) /\ (\A j \in k..Len(x) : x[j] = q[j + 1])
          /\ Len(y) = Len(v) - 1 /\ (\A j \in 1..k - 1 : y[j] = v[j]) /\ (\A j \in k..Len(y) : y[j] = v[j + 1])
      BY <1>7, <1>8, <2>3, <3>1 DEF Skips
    <3>5. PICK m \in Nat : m + 1 = i  BY <1>9
    <3>6. /\ m \in k..Len(x) /\ m \in k..Len(y) /\ m \in 1..Len(x) /\ m \in 1..Len(y)
          /\ m + 1 = i
      BY <1>9, <1>10, <1>13, <3>3, <3>4, <3>5
    <3>7. x[m] = q[i] /\ y[m] = v[i]  BY <3>4, <3>6
    <3>8. ASSUME NEW j \in 1..m - 1 PROVE x[j] = y[j]
      <4>1. CASE j < k
        <5>1. j \in 1..k - 1 /\ j \in 1..i - 1  BY <3>5, <4>1
        <5> QED  BY <1>9, <3>4, <5>1
      <4>2. CASE j >= k
        <5>1. j \in k..Len(x) /\ j \in k..Len(y) /\ j + 1 \in 1..i - 1  BY <1>10, <3>5, <3>6, <4>2
        <5> QED  BY <1>9, <3>4, <5>1
      <4> QED  BY <4>1, <4>2
    <3>9. Before(x, y)  BY <1>9, <3>6, <3>7, <3>8, BeforeIs
    <3> QED  BY <1>5, <1>6, <3>9
  <2> QED  BY <2>2, <2>3
<1> QED  BY <1>9, <1>12, <1>13

\* Closing a leaf of a tree gives a tree with the other leaves.
LEMMA CloseTree ==
  ASSUME NEW t, IsTree(t), NEW p \in LeafPaths(t), p # Root, NEW u, u = CloseAt(t, p)
  PROVE  /\ IsTree(u) /\ LeafPaths(t) \ {p} = {q \in Kept(t, p) : t[q].leaf}
         /\ LeafPaths(u) = {Raised(p, q) : q \in LeafPaths(t) \ {p}}
         /\ \A q \in LeafPaths(t) \ {p} : u[Raised(p, q)] = t[q]
<1>1. PICK n \in Nat : Grown(t, n)  BY DEF IsTree
<1>2. p \in DOMAIN t /\ t[p].leaf  BY DEF LeafPaths
<1>3. p \in Paths /\ \A q \in DOMAIN t : q \in Paths /\ Len(q) \in Nat /\ Len(q) <= n
  BY <1>1, <1>2, Ancestors DEF Grown
<1>4. /\ u = [x \in DOMAIN u |-> u[x]] /\ DOMAIN u = {Raised(p, q) : q \in Kept(t, p)}
      /\ \A q \in Kept(t, p) : u[Raised(p, q)] = t[q]
  BY <1>2, CloseNodes, SMTT(30)
<1>5. PICK f \in Paths : f = Front(p)  BY <1>3, SiblingIs
<1>6. PICK s \in Paths : s = Sibling(p)  BY <1>3, SiblingIs
<1>7. PICK k \in Nat \ {0} : k = Len(p)  BY <1>3, SiblingIs
<1>8. Len(f) = k - 1 /\ Len(s) = k /\ s = Append(f, ~Last(p)) /\ p = Append(f, Last(p)) /\ Last(p) \in BOOLEAN
  BY <1>3, <1>5, <1>6, <1>7, SiblingIs
<1>9. f \in DOMAIN t /\ ~t[f].leaf /\ s \in DOMAIN t
  <2>1. f \in DOMAIN t /\ ~t[f].leaf  BY <1>1, <1>2, <1>5 DEF Grown
  <2>2. PICK c \in BOOLEAN : c = ~Last(p)  OBVIOUS
  <2>3. Append(f, c) \in DOMAIN t  BY <1>1, <2>1 DEF Grown
  <2> QED  BY <1>8, <2>1, <2>2, <2>3
<1>10. /\ \A q \in Paths : Under(q, s) => Under(q, f)
       /\ Under(s, s) /\ Under(p, f) /\ ~Under(p, s)
  BY <1>3, <1>5, <1>6, UnderParent
<1>11. ASSUME NEW q \in DOMAIN t
       PROVE  q \in Kept(t, p) <=> (Under(q, f) => Under(q, s))
  BY <1>5, <1>6 DEF Kept
<1>12. ASSUME NEW q \in Kept(t, p)
       PROVE  /\ q \in DOMAIN t /\ Raised(p, q) \in Paths
              /\ Raised(p, q) \in DOMAIN u /\ u[Raised(p, q)] = t[q]
              /\ Under(q, s) => Skips(q, Raised(p, q), k)
              /\ ~Under(q, s) => Raised(p, q) = q /\ ~Under(q, f)
  <2>1. q \in DOMAIN t /\ q \in Paths /\ (Under(q, Front(p)) => Under(q, Sibling(p)))  BY <1>3 DEF Kept
  <2>2. /\ Raised(p, q) \in Paths
        /\ Under(q, Sibling(p)) => Skips(q, Raised(p, q), Len(p))
        /\ ~Under(q, Sibling(p)) => Raised(p, q) = q /\ ~Under(q, Front(p))
    BY <1>3, <2>1, RaisedIs
  <2> QED  BY <1>4, <1>5, <1>6, <1>7, <2>1, <2>2
<1>13. LeafPaths(t) \ {p} = {q \in Kept(t, p) : t[q].leaf}
  <2>1. ASSUME NEW q \in LeafPaths(t), q # p PROVE q \in Kept(t, p)
    <3>1. q \in DOMAIN t /\ t[q].leaf  BY DEF LeafPaths
    <3>2. ASSUME Under(q, f) PROVE Under(q, s)
      <4>1. PICK b \in BOOLEAN : Under(q, Append(f, b))  BY <1>9, <3>1, <3>2, UnderSides
      <4>2. CASE b = Last(p)
        <5>1. Under(q, p)  BY <1>8, <4>1, <4>2
        <5>2. Len(p) <= Len(q) /\ Up(q, Len(p)) = p  BY <5>1 DEF Under
        <5>3. ~(Len(p) < Len(q))  BY <3>1, <5>2, LeafEnds
        <5>4. Len(p) = Len(q)  BY <1>3, <1>7, <3>1, <5>2, <5>3
        <5>5. Up(q, Len(q)) = q  BY <1>3, <3>1, UpWhole
        <5> QED  BY <2>1, <5>2, <5>4, <5>5
      <4>3. CASE b # Last(p)
        <5>1. b = ~Last(p)  BY <1>8, <4>3
        <5> QED  BY <1>8, <4>1, <5>1
      <4> QED  BY <4>2, <4>3
    <3> QED  BY <1>11, <3>1, <3>2
  <2>2. p \notin Kept(t, p)  BY <1>2, <1>10, <1>11
  <2>3. \A q \in Kept(t, p) : q \in DOMAIN t  BY <1>12
  <2> QED  BY <2>1, <2>2, <2>3 DEF LeafPaths
<1>14. \A q \in LeafPaths(t) \ {p} : u[Raised(p, q)] = t[q]  BY <1>4, <1>13
<1>15. LeafPaths(u) = {Raised(p, q) : q \in LeafPaths(t) \ {p}}
  <2>1. ASSUME NEW x \in LeafPaths(u) PROVE \E q \in LeafPaths(t) \ {p} : x = Raised(p, q)
    <3>1. x \in DOMAIN u /\ u[x].leaf  BY DEF LeafPaths
    <3>2. PICK q \in Kept(t, p) : x = Raised(p, q)  BY <1>4, <3>1
    <3>3. t[q].leaf  BY <1>12, <3>1, <3>2
    <3> QED  BY <1>13, <3>2, <3>3
  <2>2. ASSUME NEW q \in LeafPaths(t) \ {p} PROVE Raised(p, q) \in LeafPaths(u)
    <3>1. q \in Kept(t, p) /\ t[q].leaf  BY <1>13
    <3> QED  BY <1>12, <3>1 DEF LeafPaths
  <2> QED  BY <2>1, <2>2
<1>16. \A x \in DOMAIN u : x \in Paths /\ Len(x) <= n /\ u[x] \in Splitting \cup Ending
  <2> SUFFICES ASSUME NEW x \in DOMAIN u PROVE x \in Paths /\ Len(x) <= n /\ u[x] \in Splitting \cup Ending
    OBVIOUS
  <2>1. PICK q \in Kept(t, p) : x = Raised(p, q)  BY <1>4
  <2>2. x \in Paths /\ u[x] = t[q] /\ q \in DOMAIN t  BY <1>12, <2>1
  <2>3. t[q] \in Splitting \cup Ending  BY <1>1, <2>2 DEF Grown
  <2>4. Len(x) = Len(q) \/ Len(x) = Len(q) - 1
    <3>1. CASE Under(q, s)  BY <1>12, <2>1, <3>1 DEF Skips
    <3>2. CASE ~Under(q, s)  BY <1>12, <2>1, <3>2
    <3> QED  BY <3>1, <3>2
  <2>5. Len(x) <= n  BY <1>3, <2>2, <2>4
  <2> QED  BY <2>2, <2>3, <2>5
<1>17. s \in Kept(t, p) /\ Raised(p, s) = f
  <2>1. s \in Kept(t, p)  BY <1>9, <1>10, <1>11
  <2>2. Raised(p, s) \in Paths /\ Skips(s, Raised(p, s), k)  BY <1>10, <1>12, <2>1
  <2> QED  BY <1>3, <1>5, <1>6, <1>7, <2>1, <2>2, SiblingLifted
<1>18. ASSUME NEW x \in DOMAIN u, ~u[x].leaf, NEW b \in BOOLEAN PROVE Append(x, b) \in DOMAIN u
  <2>1. PICK q \in Kept(t, p) : x = Raised(p, q)  BY <1>4
  <2>2. x \in Paths /\ u[x] = t[q] /\ q \in DOMAIN t /\ q \in Paths  BY <1>3, <1>12, <2>1
  <2>3. PICK a \in DOMAIN t : a = Append(q, b)  BY <1>1, <1>18, <2>2 DEF Grown
  <2>4. a \in Paths  BY <1>3
  <2>5. CASE Under(q, s)
    <3>1. Under(a, s)  BY <2>2, <2>3, <2>5, UnderOn
    <3>2. a \in Kept(t, p)  BY <1>11, <3>1
    <3>3. PICK y \in Paths : y = Raised(p, a)  BY <1>12, <3>2
    <3>4. Skips(q, x, k) /\ Skips(a, y, k) /\ y \in DOMAIN u  BY <1>12, <2>1, <2>5, <3>1, <3>2, <3>3
    <3>5. y = Append(x, b)  BY <2>2, <2>3, <2>4, <3>3, <3>4, SkipOn
    <3> QED  BY <3>4, <3>5
  <2>6. CASE ~Under(q, s)
    <3>1. x = q /\ ~Under(q, f)  BY <1>12, <2>1, <2>6
    <3>2. CASE Under(a, f)
      <4>1. a = f  BY <2>2, <2>3, <3>1, <3>2, UnderOn
      <4> QED  BY <1>12, <1>17, <2>3, <3>1, <4>1
    <3>3. CASE ~Under(a, f)
      <4>1. a \in Kept(t, p) /\ ~Under(a, s)  BY <1>10, <1>11, <2>4, <3>3
      <4> QED  BY <1>12, <2>3, <3>1, <4>1
    <3> QED  BY <3>2, <3>3
  <2> QED  BY <2>5, <2>6
<1>19. ASSUME NEW g \in DOMAIN t, ~Under(g, f) PROVE g \in DOMAIN u /\ u[g] = t[g]
  <2>1. g \in Kept(t, p) /\ ~Under(g, s)  BY <1>3, <1>10, <1>11, <1>19
  <2> QED  BY <1>12, <2>1
<1>20. ASSUME NEW x \in DOMAIN u, x # Root PROVE Front(x) \in DOMAIN u /\ ~u[Front(x)].leaf
  <2>1. PICK q \in Kept(t, p) : x = Raised(p, q)  BY <1>4
  <2>2. x \in Paths /\ u[x] = t[q] /\ q \in DOMAIN t /\ q \in Paths  BY <1>3, <1>12, <2>1
  <2>3. CASE q = s
    <3>1. x = f  BY <1>17, <2>1, <2>3
    <3>2. PICK g \in DOMAIN t : g = Front(f) /\ ~t[g].leaf  BY <1>1, <1>9, <1>20, <3>1 DEF Grown
    <3>3. ~Under(g, f)
      <4>1. Len(g) = Len(f) - 1 /\ Len(f) \in Nat \ {0}  BY <1>20, <3>1, <3>2, PathEnd
      <4>2. ~(Len(f) <= Len(g))  BY <4>1
      <4> QED  BY <4>2 DEF Under
    <3> QED  BY <1>19, <3>1, <3>2, <3>3
  <2>4. CASE q # s
    <3>1. q # Root
      <4> SUFFICES ASSUME q = Root PROVE FALSE  OBVIOUS
      <4>1. Len(q) = 0  BY UpWhole DEF Root
      <4>2. ~Under(q, s)
        <5>1. ~(Len(s) <= Len(q))  BY <1>8, <4>1
        <5> QED  BY <5>1 DEF Under
      <4> QED  BY <1>12, <1>20, <2>1, <4>2
    <3>2. PICK g \in DOMAIN t : g = Front(q) /\ ~t[g].leaf  BY <1>1, <2>2, <3>1 DEF Grown
    <3>3. PICK b \in BOOLEAN : b = Last(q)  BY <2>2, <3>1, PathEnd
    <3>4. q = Append(g, b) /\ g \in Paths  BY <2>2, <3>1, <3>2, <3>3, PathEnd
    <3>5. CASE Under(q, s)
      <4>1. Under(g, s)  BY <2>4, <3>4, <3>5, UnderOn
      <4>2. g \in Kept(t, p)  BY <1>11, <4>1
      <4>3. PICK y \in Paths : y = Raised(p, g)  BY <1>12, <4>2
      <4>4. Skips(g, y, k) /\ Skips(q, x, k) /\ y \in DOMAIN u /\ u[y] = t[g]
        BY <1>12, <2>1, <3>5, <4>1, <4>2, <4>3
      <4>5. x = Append(y, b)  BY <2>2, <3>4, <4>3, <4>4, SkipOn
      <4>6. Front(x) = y  BY <4>3, <4>5, LongerPath
      <4> QED  BY <3>2, <4>4, <4>6
    <3>6. CASE ~Under(q, s)
      <4>1. x = q /\ ~Under(q, f)  BY <1>12, <2>1, <3>6
      <4>2. ~Under(g, f)  BY <3>4, <4>1, UnderOn
      <4> QED  BY <1>19, <3>2, <4>1, <4>2
    <3> QED  BY <3>5, <3>6
  <2> QED  BY <2>3, <2>4
<1>21. Root \in DOMAIN u
  <2>1. CASE f = Root  BY <1>12, <1>17, <2>1
  <2>2. CASE f # Root
    <3>1. Root \in DOMAIN t  BY <1>1 DEF Grown
    <3>2. Len(f) \in Nat \ {0}  BY <2>2, PathEnd
    <3>3. Len(Root) = 0  BY DEF Root
    <3>4. ~(Len(f) <= Len(Root))  BY <3>2, <3>3
    <3>5. ~Under(Root, f)  BY <3>4 DEF Under
    <3> QED  BY <1>19, <3>1, <3>5
  <2> QED  BY <2>1, <2>2
<1>22. Grown(u, n)  BY <1>4, <1>16, <1>18, <1>20, <1>21 DEF Grown
<1> QED  BY <1>13, <1>14, <1>15, <1>22 DEF IsTree

\* Closing a pane drops it from the list.
LEMMA CloseAgrees ==
  ASSUME NEW t, NEW l, PanesAgree(t, l), NEW i \in 1..Len(l), Len(l) > 1
  PROVE  PanesAgree(CloseAt(t, PathOf(t, l[i])), RemoveAt(l, i))
<1>1. IsTree(t) /\ l \in Seq(Contents) /\ IsInjective(l)  BY DEF PanesAgree
<1>2. PICK h : Ordered(t, l, h)  BY DEF PanesAgree
<1>3. PICK n \in Nat : n = Len(l)  BY <1>1, LenProperties
<1>4. DOMAIN l = 1..n /\ n > 1 /\ i \in 1..n  BY <1>1, <1>3, LenProperties
<1>5. PathOf(t, l[i]) = h[i] /\ h[i] \in LeafPaths(t)  BY <1>1, <1>2, OrderedLists
<1>6. PICK p \in LeafPaths(t) : p = h[i]  BY <1>5
<1>7. /\ \A j \in 1..n : h[j] \in LeafPaths(t) /\ t[h[j]].session = l[j]
      /\ \A q \in LeafPaths(t) : \E j \in 1..n : h[j] = q
      /\ \A j, w \in 1..n : j < w => Before(h[j], h[w])
  BY <1>2, <1>3 DEF Ordered
<1>8. p \in DOMAIN t /\ p \in Paths /\ \A q \in LeafPaths(t) : q \in Paths  BY <1>1, Ancestors DEF LeafPaths
<1>9. p # Root
  <2>1. ASSUME NEW q \in Paths, Before(p, q) \/ Before(q, p) PROVE p # Root
    <3>1. \E j \in Nat : j \in 1..Len(p)  BY <1>8, <2>1, BeforeIs
    <3>2. ~\E j \in Nat : j \in 1..0  OBVIOUS
    <3> QED  BY <3>1, <3>2, UpWhole DEF Root
  <2>2. PICK j \in 1..n : j < i \/ i < j
    <3>1. CASE i = 1
      <4>1. 2 \in 1..n /\ i < 2  BY <1>4, <3>1
      <4> QED  BY <4>1
    <3>2. CASE i # 1
      <4>1. 1 \in 1..n /\ 1 < i  BY <1>4, <3>2
      <4> QED  BY <4>1
    <3> QED  BY <3>1, <3>2
  <2>3. Before(p, h[j]) \/ Before(h[j], p)  BY <1>4, <1>6, <1>7, <2>2
  <2>4. h[j] \in Paths  BY <1>7, <1>8
  <2> QED  BY <2>1, <2>3, <2>4
<1>10. PICK u : u = CloseAt(t, p)  OBVIOUS
<1>11. /\ IsTree(u) /\ LeafPaths(t) \ {p} = {q \in Kept(t, p) : t[q].leaf}
       /\ LeafPaths(u) = {Raised(p, q) : q \in LeafPaths(t) \ {p}}
       /\ \A q \in LeafPaths(t) \ {p} : u[Raised(p, q)] = t[q]
  BY <1>1, <1>9, <1>10, CloseTree
<1>12. PICK m : m = RemoveAt(l, i)  OBVIOUS
<1> DEFINE idx == [j \in 1..n - 1 |-> IF j < i THEN j ELSE j + 1]
           g == [j \in 1..n - 1 |-> Raised(p, h[idx[j]])]
<1>13. /\ \A j \in 1..n - 1 : idx[j] \in 1..n /\ idx[j] # i
       /\ \A j, w \in 1..n - 1 : j < w => idx[j] < idx[w]
       /\ \A x \in 1..n : x # i => \E j \in 1..n - 1 : idx[j] = x
  <2>1. \A j \in 1..n - 1 : idx[j] = IF j < i THEN j ELSE j + 1  OBVIOUS
  <2> HIDE DEF idx
  <2>2. \A j \in 1..n - 1 : idx[j] \in 1..n /\ idx[j] # i  BY <1>4, <2>1
  <2>3. \A j, w \in 1..n - 1 : j < w => idx[j] < idx[w]  BY <1>4, <2>1
  <2>4. ASSUME NEW x \in 1..n, x # i PROVE \E j \in 1..n - 1 : idx[j] = x
    <3>1. CASE x < i
      <4>1. x \in 1..n - 1 /\ idx[x] = x  BY <1>4, <2>1, <3>1
      <4> QED  BY <4>1
    <3>2. CASE x > i
      <4>1. x - 1 \in 1..n - 1 /\ ~(x - 1 < i) /\ x - 1 + 1 = x  BY <1>4, <3>2
      <4>2. idx[x - 1] = x  BY <2>1, <4>1
      <4> QED  BY <4>1, <4>2
    <3> QED  BY <1>4, <2>4, <3>1, <3>2
  <2> QED  BY <2>2, <2>3, <2>4
<1>14. m \in Seq(Contents) /\ Len(m) = n - 1 /\ \A j \in 1..n - 1 : m[j] = l[idx[j]]
  <2>1. /\ m \in Seq(Contents) /\ Len(m) = n - 1
        /\ \A j \in 1..n - 1 : m[j] = IF j < i THEN l[j] ELSE l[j + 1]
    BY <1>1, <1>3, <1>12, Dropped
  <2> QED  BY <2>1
<1>15. /\ DOMAIN g = 1..n - 1 /\ g = [j \in 1..n - 1 |-> g[j]]
       /\ \A j \in 1..n - 1 : g[j] = Raised(p, h[idx[j]])
  OBVIOUS
<1> HIDE DEF g, idx
<1>16. \A j, w \in 1..n : l[j] = l[w] => j = w  BY <1>1, <1>4 DEF IsInjective
<1>17. IsInjective(m)
  <2>1. DOMAIN m = 1..n - 1  BY <1>14, LenProperties
  <2>2. ASSUME NEW j \in 1..n - 1, NEW w \in 1..n - 1, m[j] = m[w] PROVE j = w
    <3>1. l[idx[j]] = l[idx[w]] /\ idx[j] \in 1..n /\ idx[w] \in 1..n  BY <1>13, <1>14, <2>2
    <3>2. idx[j] = idx[w]  BY <1>16, <3>1
    <3>3. ~(j < w) /\ ~(w < j)  BY <1>13, <3>1, <3>2
    <3> QED  BY <3>3
  <2> QED  BY <2>1, <2>2 DEF IsInjective
<1>18. \A j \in 1..n : j # i => h[j] \in LeafPaths(t) \ {p}
  <2> SUFFICES ASSUME NEW j \in 1..n, j # i PROVE h[j] # p  BY <1>7
  <2>1. t[h[j]].session = l[j] /\ t[p].session = l[i]  BY <1>4, <1>6, <1>7
  <2> QED  BY <1>4, <1>16, <2>1
<1>19. \A j \in 1..n - 1 : g[j] \in LeafPaths(u) /\ u[g[j]].session = m[j]
  <2> SUFFICES ASSUME NEW j \in 1..n - 1 PROVE g[j] \in LeafPaths(u) /\ u[g[j]].session = m[j]
    OBVIOUS
  <2>1. PICK q \in LeafPaths(t) \ {p} : q = h[idx[j]]  BY <1>13, <1>18
  <2>2. g[j] = Raised(p, q) /\ u[Raised(p, q)] = t[q]  BY <1>11, <1>15, <2>1
  <2>3. t[q].session = l[idx[j]]  BY <1>7, <1>13, <2>1
  <2> QED  BY <1>11, <1>14, <2>2, <2>3
<1>20. ASSUME NEW x \in LeafPaths(u) PROVE \E j \in 1..n - 1 : g[j] = x
  <2>1. PICK q \in LeafPaths(t) \ {p} : x = Raised(p, q)  BY <1>11
  <2>2. PICK w \in 1..n : h[w] = q  BY <1>7
  <2>3. w # i  BY <1>6, <2>1, <2>2
  <2>4. PICK j \in 1..n - 1 : idx[j] = w  BY <1>13, <2>3
  <2> QED  BY <1>15, <2>1, <2>2, <2>4
<1>21. ASSUME NEW j \in 1..n - 1, NEW w \in 1..n - 1, j < w PROVE Before(g[j], g[w])
  <2>1. PICK q \in LeafPaths(t) \ {p} : q = h[idx[j]]  BY <1>13, <1>18
  <2>2. PICK v \in LeafPaths(t) \ {p} : v = h[idx[w]]  BY <1>13, <1>18
  <2>3. Before(q, v)  BY <1>7, <1>13, <1>21, <2>1, <2>2
  <2>4. q \in Kept(t, p) /\ v \in Kept(t, p) /\ q \in Paths /\ v \in Paths  BY <1>8, <1>11
  <2>5. (Under(q, Front(p)) => Under(q, Sibling(p))) /\ (Under(v, Front(p)) => Under(v, Sibling(p)))
    BY <2>4 DEF Kept
  <2>6. Before(Raised(p, q), Raised(p, v))  BY <1>8, <1>9, <2>3, <2>4, <2>5, RaisedBefore
  <2> QED  BY <1>15, <2>1, <2>2, <2>6
<1>22. Ordered(u, m, g)
  <2>1. g \in [1..n - 1 -> LeafPaths(u)]  BY <1>15, <1>19
  <2> QED  BY <1>14, <1>19, <1>20, <1>21, <2>1 DEF Ordered
<1> QED  BY <1>5, <1>6, <1>10, <1>11, <1>12, <1>14, <1>17, <1>22 DEF PanesAgree

\* Measures without the room for them.
IntRect(r) == r.x \in Int /\ r.y \in Int /\ r.w \in Int /\ r.h \in Int

\* Halves have whole numbers, room or not.
LEMMA HalfIsInt ==
  ASSUME NEW n \in Splitting, NEW r, IntRect(r), NEW b \in BOOLEAN
  PROVE  IntRect(Half(n, r, b))
<1>1. r.x \in Int /\ r.y \in Int /\ r.w \in Int /\ r.h \in Int  BY DEF IntRect
<1>2. PICK w : w = Lesser(Larger(Share(n, r.w - 1), 1), r.w - 2)  OBVIOUS
<1>3. PICK h : h = Lesser(Larger(Share(n, r.h), 1), r.h - 1)  OBVIOUS
<1>4. w \in Int /\ h \in Int
  <2>1. PICK a \in Int : a = Share(n, r.w - 1)  BY <1>1, ShareIsWhole
  <2>2. PICK c \in Int : c = Share(n, r.h)  BY <1>1, ShareIsWhole
  <2>3. Larger(a, 1) \in Int /\ Larger(c, 1) \in Int  BY DEF Larger
  <2>4. r.w - 2 \in Int /\ r.h - 1 \in Int  BY <1>1
  <2> QED  BY <1>2, <1>3, <2>1, <2>2, <2>3, <2>4 DEF Lesser
<1>5. ASSUME NEW x \in Int, NEW y \in Int, NEW c \in Int, NEW d \in Int PROVE IntRect(Rect(x, y, c, d))
  BY DEF Rect, IntRect
<1>6. CASE n.dir = "right"
  <2>1. Halves(n, r) = <<Rect(r.x, r.y, w, r.h), Rect(r.x + w + 1, r.y, r.w - w - 1, r.h)>>  BY <1>2, <1>6 DEF Halves
  <2>2. r.x + w + 1 \in Int /\ r.w - w - 1 \in Int  BY <1>1, <1>4
  <2>3. IntRect(Rect(r.x, r.y, w, r.h)) /\ IntRect(Rect(r.x + w + 1, r.y, r.w - w - 1, r.h))
    BY <1>1, <1>4, <1>5, <2>2
  <2> QED  BY <2>1, <2>3 DEF Half
<1>7. CASE n.dir # "right"
  <2>1. Halves(n, r) = <<Rect(r.x, r.y, r.w, h), Rect(r.x, r.y + h, r.w, r.h - h)>>  BY <1>3, <1>7 DEF Halves
  <2>2. r.y + h \in Int /\ r.h - h \in Int  BY <1>1, <1>4
  <2>3. IntRect(Rect(r.x, r.y, r.w, h)) /\ IntRect(Rect(r.x, r.y + h, r.w, r.h - h))
    BY <1>1, <1>4, <1>5, <2>2
  <2> QED  BY <2>1, <2>3 DEF Half
<1> QED  BY <1>6, <1>7

\* And so have all places.
LEMMA PlaceIsInt ==
  ASSUME NEW t, IsTree(t), NEW r, IntRect(r), NEW p \in DOMAIN t
  PROVE  IntRect(Places(t, r)[p])
<1>1. p \in Paths /\ Len(p) \in Nat /\ \A n \in 0..Len(p) : Up(p, n) \in DOMAIN t /\ (n < Len(p) => ~t[Up(p, n)].leaf)
  BY Ancestors
<1> DEFINE Good == {n \in 0..Len(p) : IntRect(Places(t, r)[Up(p, n)])}
<1>2. 0 \in Good
  <2>1. Up(p, 0) = Root  BY <1>1, UpWhole
  <2>2. Places(t, r)[Root] = r  BY PlaceIs
  <2> QED  BY <1>1, <2>1, <2>2
<1>3. \A n \in 0..Len(p) : n \in Good /\ n < Len(p) => n + 1 \in Good
  <2> SUFFICES ASSUME NEW n \in 0..Len(p), n \in Good, n < Len(p) PROVE n + 1 \in Good
    OBVIOUS
  <2>1. n \in 0..Len(p) - 1 /\ n + 1 \in 0..Len(p)  BY <1>1
  <2>2. PICK u \in DOMAIN t : u = Up(p, n) /\ ~t[u].leaf  BY <1>1
  <2>3. PICK b \in BOOLEAN : b = p[n + 1]  BY <1>1, <2>1, UpNext
  <2>4. Up(p, n + 1) = Append(u, b)  BY <1>1, <2>1, <2>2, <2>3, UpNext
  <2>5. t[u] \in Splitting /\ Places(t, r)[Append(u, b)] = Half(t[u], Places(t, r)[u], b)  BY <2>2, PlaceIs
  <2>6. IntRect(Places(t, r)[u])  BY <2>2
  <2>7. IntRect(Half(t[u], Places(t, r)[u], b))  BY <2>5, <2>6, HalfIsInt
  <2> QED  BY <2>1, <2>4, <2>5, <2>7
<1> HIDE DEF Good
<1>40. PICK N \in Nat : N = Len(p)  BY <1>1
<1>41. \A n \in 0..N : n \in Good  BY <1>2, <1>3, <1>40, Upwards
<1>4. Len(p) \in Good  BY <1>40, <1>41
<1>5. IntRect(Places(t, r)[Up(p, Len(p))])  BY <1>4 DEF Good
<1> QED  BY <1>1, <1>5, UpWhole

\* The tree is a tree, it agrees with the list, and the area starts at the origin.
PanesInv ==
  /\ PanesAgree(tree, panes)
  /\ \E w, h \in Int : area = Rect(0, 0, w, h)

\* The first pane's tree is a tree, and agrees with its list.
LEMMA PanesStart == PanesInit => PanesInv
<1> SUFFICES ASSUME PanesInit PROVE PanesInv  OBVIOUS
<1>1. PICK s \in Contents : tree = [p \in {Root} |-> Leaf(s)] /\ panes = <<s>>  BY DEF PanesInit
<1>2. PICK a \in Areas : area = Rect(0, 0, a[1], a[2])  BY DEF PanesInit
<1>3. \E w, h \in Int : area = Rect(0, 0, w, h)
  <2>1. a[1] \in Int /\ a[2] \in Int  BY PanesAssumption
  <2> QED  BY <1>2, <2>1
<1>4. DOMAIN tree = {Root} /\ tree[Root] = Leaf(s) /\ tree = [p \in DOMAIN tree |-> tree[p]]
  BY <1>1
<1>5. Leaf(s) \in Ending /\ Leaf(s).leaf = TRUE /\ Leaf(s).session = s  BY DEF Leaf, Ending
<1>6. IsTree(tree)
  <2>1. Root \in Paths /\ Len(Root) = 0  BY DEF Root, Paths
  <2>2. Grown(tree, 0)  BY <1>4, <1>5, <2>1 DEF Grown
  <2> QED  BY <2>2 DEF IsTree
<1>7. panes \in Seq(Contents) /\ Len(panes) = 1 /\ panes[1] = s /\ DOMAIN panes = 1..1  BY <1>1
<1>8. IsInjective(panes)
  <2>1. \A i \in DOMAIN panes : i = 1  BY <1>7
  <2> QED  BY <2>1 DEF IsInjective
<1>9. LeafPaths(tree) = {Root}  BY <1>4, <1>5 DEF LeafPaths
<1>10. PICK h : h = [i \in 1..1 |-> Root]  OBVIOUS
<1>11. Ordered(tree, panes, h)
  <2>1. h \in [1..1 -> LeafPaths(tree)] /\ \A i \in 1..1 : i = 1 /\ h[i] = Root  BY <1>9, <1>10
  <2>2. \A p \in LeafPaths(tree) : \E i \in 1..1 : h[i] = p
    <3>1. 1 \in 1..1  OBVIOUS
    <3> QED  BY <1>9, <2>1, <3>1
  <2>3. \A i \in 1..1 : tree[h[i]].session = panes[i]  BY <1>4, <1>5, <1>7, <2>1
  <2>4. \A i, j \in 1..1 : i < j => Before(h[i], h[j])  OBVIOUS
  <2> QED  BY <1>7, <2>1, <2>2, <2>3, <2>4 DEF Ordered
<1> QED  BY <1>3, <1>6, <1>7, <1>8, <1>11 DEF PanesInv, PanesAgree

\* A session in the list has its index there.
LEMMA IndexIs ==
  ASSUME NEW l \in Seq(Contents), NEW s \in Range(l)
  PROVE  IndexOf(l, s) \in 1..Len(l) /\ l[IndexOf(l, s)] = s
<1>1. DOMAIN l = 1..Len(l)  BY LenProperties
<1>2. \E i \in DOMAIN l : l[i] = s  BY DEF Range
<1> QED  BY <1>1, <1>2 DEF IndexOf

\* What the search finds is a split.
LEMMA DividerIsSplit ==
  ASSUME NEW t, NEW r, NEW x, NEW y, NEW p \in DividersAt(t, r, x, y)
  PROVE  p \in DOMAIN t /\ ~t[p].leaf
BY DEF DividersAt, Passed

\* A number of cells, and at least one.
LEMMA LargerIs ==
  ASSUME NEW n \in Int
  PROVE  Larger(n, 1) \in Nat \ {0} /\ (n >= 1 => Larger(n, 1) = n)
BY DEF Larger

\* A drag keeps the tree and the list in agreement.
LEMMA DragAgrees ==
  ASSUME NEW t, NEW l, PanesAgree(t, l), NEW r, IntRect(r), NEW p \in DOMAIN t, ~t[p].leaf,
         NEW x \in Int, NEW y \in Int
  PROVE  PanesAgree(DragTo(t, p, r, x, y), l)
<1>1. IsTree(t)  BY DEF PanesAgree
<1>2. PICK n : n = t[p]  OBVIOUS
<1>3. PICK e : e = Places(t, r)[p]  OBVIOUS
<1>4. e.x \in Int /\ e.y \in Int /\ e.w \in Int /\ e.h \in Int  BY <1>1, <1>3, PlaceIsInt DEF IntRect
<1>5. PICK a \in Int : a = Along(n, e, x, y)
  <2>1. Along(n, e, x, y) \in Int  BY <1>4 DEF Along
  <2> QED  BY <2>1
<1>6. PICK z \in Int : z = Size(n, e)
  <2>1. Size(n, e) \in Int  BY <1>4 DEF Size
  <2> QED  BY <2>1
<1>7. PICK d \in Nat \ {0} : d = Larger(z, 1)  BY LargerIs
<1>8. PanesAgree(WithRatio(t, p, a, d), l)  BY RatioAgrees
<1> QED  BY <1>2, <1>3, <1>5, <1>6, <1>7, <1>8 DEF DragTo

\* A set of depths has a deepest.
LEMMA DeepestIs ==
  ASSUME NEW n \in Nat, NEW S, S \subseteq 0..n, S # {}
  PROVE  Deepest(S) \in S /\ \A j \in S : j <= Deepest(S)
<1>1. \E i \in S : \A j \in S : j <= i
  <2> DEFINE f == [i \in S |-> n - i]
  <2>1. \A i \in S : f[i] = n - i /\ f[i] \in Nat  OBVIOUS
  <2> HIDE DEF f
  <2>2. PICK i \in S : \A j \in S : f[i] <= f[j]  BY <2>1, ArgLeast
  <2>3. \A j \in S : j <= i
    <3> SUFFICES ASSUME NEW j \in S PROVE j <= i  OBVIOUS
    <3>1. n - i <= n - j  BY <2>1, <2>2
    <3> QED  BY <3>1
  <2> QED  BY <2>3
<1> QED  BY <1>1 DEF Deepest

\* The divider a resize moves.
Moves(t, p, d) == IF Growing(t, p, d) # {} THEN Growing(t, p, d) ELSE Dividing(t, p, d)

\* The divider a resize moves is a split above the pane.
LEMMA MovesIs ==
  ASSUME NEW t, IsTree(t), NEW p \in DOMAIN t, NEW d, Moves(t, p, d) # {}
  PROVE  /\ Deepest(Moves(t, p, d)) \in Moves(t, p, d) /\ Deepest(Moves(t, p, d)) \in 0..Len(p) - 1
         /\ Up(p, Deepest(Moves(t, p, d))) \in DOMAIN t /\ ~t[Up(p, Deepest(Moves(t, p, d)))].leaf
         /\ \A j \in Moves(t, p, d) : j <= Deepest(Moves(t, p, d))
<1>1. p \in Paths /\ Len(p) \in Nat /\ \A n \in 0..Len(p) : Up(p, n) \in DOMAIN t /\ (n < Len(p) => ~t[Up(p, n)].leaf)
  BY Ancestors
<1>2. PICK S : S = Moves(t, p, d)  OBVIOUS
<1>3. S \subseteq 0..Len(p) - 1  BY <1>2 DEF Moves, Growing, Dividing
<1>4. PICK n \in Nat : n = Len(p) - 1
  <2>1. 0..Len(p) - 1 # {}  BY <1>2, <1>3
  <2> QED  BY <1>1, <2>1
<1>5. Deepest(S) \in S /\ \A j \in S : j <= Deepest(S)  BY <1>2, <1>3, <1>4, DeepestIs
<1>6. PICK i \in 0..Len(p) - 1 : i = Deepest(S)  BY <1>3, <1>5
<1>7. Up(p, i) \in DOMAIN t /\ ~t[Up(p, i)].leaf  BY <1>1
<1> QED  BY <1>2, <1>5, <1>6, <1>7

\* A product of positive numbers is positive.
LEMMA PositiveProduct ==
  ASSUME NEW a \in Nat \ {0}, NEW b \in Nat \ {0}
  PROVE  a * b \in Nat \ {0}
OBVIOUS

\* A resize keeps the tree and the list in agreement.
LEMMA ResizeAgrees ==
  ASSUME NEW t, NEW l, PanesAgree(t, l), NEW r, IntRect(r), NEW s \in Shown(t), NEW d, NEW n \in Int
  PROVE  PanesAgree(Resize(t, s, d, n, r), l)
<1>1. IsTree(t)  BY DEF PanesAgree
<1>2. PICK p \in DOMAIN t : p = PathOf(t, s)  BY PathOfShown
<1>3. PICK on : on = Moves(t, p, d)  OBVIOUS
<1>4. PICK v : v = Up(p, Deepest(on))  OBVIOUS
<1>5. PICK e : e = Places(t, r)[v]  OBVIOUS
<1>6. PICK delta \in Int : delta = IF Forward(d) THEN n ELSE -n  OBVIOUS
<1>7. Resize(t, s, d, n, r) =
        IF on = {} THEN t
        ELSE WithRatio(t, v, t[v].num * Larger(Size(t[v], e), 1) + delta * t[v].den, t[v].den * Larger(Size(t[v], e), 1))
  BY <1>2, <1>3, <1>4, <1>5, <1>6 DEF Resize, Moves, Up
<1>8. CASE on = {}  BY <1>7, <1>8
<1>9. CASE on # {}
  <2>1. v \in DOMAIN t /\ ~t[v].leaf  BY <1>1, <1>3, <1>4, <1>9, MovesIs
  <2>2. t[v] \in Splitting  BY <1>1, <2>1, PlaceIs
  <2>3. PICK a \in Nat : a = t[v].num  BY <2>2 DEF Splitting
  <2>4. PICK b \in Nat \ {0} : b = t[v].den  BY <2>2 DEF Splitting
  <2>5. PICK z \in Nat \ {0} : z = Larger(Size(t[v], e), 1)
    <3>1. IntRect(e)  BY <1>1, <1>5, <2>1, PlaceIsInt
    <3>2. Size(t[v], e) \in Int  BY <3>1 DEF IntRect, Size
    <3> QED  BY <3>2, LargerIs
  <2>6. PICK x \in Int : x = a * z + delta * b
    <3>1. a * z + delta * b \in Int  OBVIOUS
    <3> QED  BY <3>1
  <2>7. PICK y \in Nat \ {0} : y = b * z  BY PositiveProduct
  <2>8. PanesAgree(WithRatio(t, v, x, y), l)  BY <2>1, RatioAgrees
  <2> QED  BY <1>7, <1>9, <2>3, <2>4, <2>5, <2>6, <2>7, <2>8
<1> QED  BY <1>8, <1>9

\* The area has whole numbers.
LEMMA AreaIsInt == PanesInv => IntRect(area)
BY DEF PanesInv, Rect, IntRect

\* The panes are the leaves.
LEMMA PanesAreShown ==
  ASSUME PanesInv
  PROVE  /\ IsTree(tree) /\ OneLeafEach(tree) /\ panes \in Seq(Contents) /\ IsInjective(panes)
         /\ ListsLeaves(tree, panes) /\ Range(panes) = Shown(tree)
<1>1. PanesAgree(tree, panes)  BY DEF PanesInv
<1>2. IsTree(tree) /\ panes \in Seq(Contents) /\ IsInjective(panes)  BY <1>1 DEF PanesAgree
<1>3. PICK h : Ordered(tree, panes, h)  BY <1>1 DEF PanesAgree
<1>4. OneLeafEach(tree) /\ ListsLeaves(tree, panes)  BY <1>2, <1>3, OrderedLists
<1> QED  BY <1>2, <1>4 DEF ListsLeaves

\* A cell of the area is a point in it.
LEMMA CellsAreWhole ==
  ASSUME PanesInv, NEW c \in Cells
  PROVE  c \in Int \X Int /\ c[1] \in Int /\ c[2] \in Int /\ Covers(area, c)
<1>1. PICK w \in Int, h \in Int : area = Rect(0, 0, w, h)  BY DEF PanesInv
<1>2. area.x = 0 /\ area.y = 0 /\ area.w = w /\ area.h = h  BY <1>1 DEF Rect
<1>3. c \in (0..(w - 1)) \X (0..(h - 1))  BY <1>2 DEF Cells
<1>4. c[1] \in 0..(w - 1) /\ c[2] \in 0..(h - 1) /\ c = <<c[1], c[2]>>  BY <1>3
<1>5. c[1] \in Int /\ c[2] \in Int  BY <1>4
<1>6. c \in Int \X Int  BY <1>4, <1>5
<1>7. Covers(area, c)  BY <1>2, <1>4 DEF Covers
<1> QED  BY <1>5, <1>6, <1>7

\* Every operation on a tab's tree keeps the invariant.
LEMMA PanesStep == PanesInv /\ [PanesNext]_paneVars => PanesInv'
<1> SUFFICES ASSUME PanesInv, [PanesNext]_paneVars PROVE PanesInv'  OBVIOUS
<1>1. PanesAgree(tree, panes) /\ \E w, h \in Int : area = Rect(0, 0, w, h)  BY DEF PanesInv
<1>2. IsTree(tree) /\ panes \in Seq(Contents) /\ Range(panes) = Shown(tree)  BY PanesAreShown
<1>3. IntRect(area)  BY AreaIsInt
<1>4. ASSUME PanesAgree(tree', panes'), UNCHANGED area PROVE PanesInv'
  BY <1>1, <1>4 DEF PanesInv
<1>5. ASSUME NEW t \in Contents, NEW s \in Contents, NEW dir \in Splits, SplitLeaf(t, dir, s)
      PROVE  PanesInv'
  <2>1. /\ t \in Range(panes) /\ s \notin Range(panes)
        /\ tree' = SplitAt(tree, PathOf(tree, t), dir, s)
        /\ panes' = InsertAt(panes, IndexOf(panes, t) + 1, s) /\ UNCHANGED area
    BY <1>5 DEF SplitLeaf
  <2>2. PICK i \in 1..Len(panes) : i = IndexOf(panes, t) /\ panes[i] = t  BY <1>2, <2>1, IndexIs
  <2>3. PanesAgree(SplitAt(tree, PathOf(tree, panes[i]), dir, s), InsertAt(panes, i + 1, s))
    BY <1>1, <2>1, SplitAgrees
  <2> QED  BY <1>4, <2>1, <2>2, <2>3
<1>6. ASSUME NEW t \in Contents, CloseLeaf(t) PROVE PanesInv'
  <2>1. /\ t \in Range(panes) /\ Len(panes) > 1
        /\ tree' = CloseAt(tree, PathOf(tree, t))
        /\ panes' = RemoveAt(panes, IndexOf(panes, t)) /\ UNCHANGED area
    BY <1>6 DEF CloseLeaf
  <2>2. PICK i \in 1..Len(panes) : i = IndexOf(panes, t) /\ panes[i] = t  BY <1>2, <2>1, IndexIs
  <2>3. PanesAgree(CloseAt(tree, PathOf(tree, panes[i])), RemoveAt(panes, i))
    BY <1>1, <2>1, CloseAgrees
  <2> QED  BY <1>4, <2>1, <2>2, <2>3
<1>7. ASSUME NEW t \in Contents, NEW s \in Contents, ReplaceLeaf(t, s) PROVE PanesInv'
  <2>1. /\ t \in Range(panes) /\ s \notin Range(panes)
        /\ tree' = ReplaceSession(tree, PathOf(tree, t), s)
        /\ panes' = ReplaceAll(panes, t, s) /\ UNCHANGED area
    BY <1>7 DEF ReplaceLeaf
  <2>2. PICK i \in 1..Len(panes) : i = IndexOf(panes, t) /\ panes[i] = t  BY <1>2, <2>1, IndexIs
  <2>3. PanesAgree(ReplaceSession(tree, PathOf(tree, panes[i]), s), ReplaceAll(panes, panes[i], s))
    BY <1>1, <2>1, ReplaceAgrees
  <2> QED  BY <1>4, <2>1, <2>2, <2>3
<1>8. ASSUME NEW path \in Dividers, NEW to \in Cells, DragDivider(path, to) PROVE PanesInv'
  <2>1. tree' = DragTo(tree, path, area, to[1], to[2]) /\ UNCHANGED <<area, panes>>
    BY <1>8 DEF DragDivider
  <2>2. PICK c \in Cells : path \in DividersAt(tree, area, c[1], c[2])  BY DEF Dividers
  <2>3. path \in DOMAIN tree /\ ~tree[path].leaf  BY <2>2, DividerIsSplit
  <2>4. to[1] \in Int /\ to[2] \in Int  BY CellsAreWhole
  <2>5. PanesAgree(DragTo(tree, path, area, to[1], to[2]), panes)  BY <1>1, <1>3, <2>3, <2>4, DragAgrees
  <2> QED  BY <1>4, <2>1, <2>5
<1>9. ASSUME NEW s \in Contents, NEW d \in Dirs, NEW n \in Steps, ResizeLeaf(s, d, n)
      PROVE  PanesInv'
  <2>1. s \in Range(panes) /\ tree' = Resize(tree, s, d, n, area) /\ UNCHANGED <<area, panes>>
    BY <1>9 DEF ResizeLeaf
  <2>2. s \in Shown(tree)  BY <1>2, <2>1
  <2>3. n \in Int  BY DEF Steps
  <2>4. PanesAgree(Resize(tree, s, d, n, area), panes)  BY <1>1, <1>3, <2>2, <2>3, ResizeAgrees
  <2> QED  BY <1>4, <2>1, <2>4
<1>10. ASSUME NEW a \in Areas, ResizeWindow(a) PROVE PanesInv'
  <2>1. area' = Rect(0, 0, a[1], a[2]) /\ UNCHANGED <<tree, panes>>  BY <1>10 DEF ResizeWindow
  <2>2. a[1] \in Int /\ a[2] \in Int  BY PanesAssumption
  <2> QED  BY <1>1, <2>1, <2>2 DEF PanesInv
<1>11. CASE UNCHANGED paneVars  BY <1>1, <1>11 DEF paneVars, PanesInv
<1> QED  BY <1>5, <1>6, <1>7, <1>8, <1>9, <1>10, <1>11 DEF PanesNext

\* The tree is always a tree and agrees with the list.
LEMMA PanesKeep == PanesSpec => []PanesInv
<1>1. PanesInit => PanesInv  BY PanesStart
<1>2. PanesInv /\ [PanesNext]_paneVars => PanesInv'  BY PanesStep
<1> QED  BY <1>1, <1>2, PTL DEF PanesSpec

\* Roomy says there is room for the tree.
LEMMA RoomIs ==
  ASSUME PanesInv, Roomy
  PROVE  RoomFor(tree, area)
<1>1. PICK w \in Int, h \in Int : area = Rect(0, 0, w, h)  BY DEF PanesInv
<1>2. area = [x |-> area.x, y |-> area.y, w |-> area.w, h |-> area.h]  BY <1>1 DEF Rect
<1>3. area.x = 0 /\ area.y = 0 /\ area.w = w /\ area.h = h  BY <1>1 DEF Rect
<1>4. area.w >= 1 /\ area.h >= 1  BY DEF Roomy
<1>5. Whole(area)  BY <1>2, <1>3, <1>4 DEF Whole
<1>6. \A p \in DOMAIN tree \ LeafPaths(tree) : Fits2(tree[p], Places(tree, area)[p])  BY DEF Roomy, Fits2
<1> QED  BY <1>5, <1>6 DEF RoomFor

\* A tree that agrees with its list tiles the area.
LEMMA InvTiles == PanesInv => TreeTiles
<1> SUFFICES ASSUME PanesInv PROVE TreeTiles  OBVIOUS
<1>1. /\ IsTree(tree) /\ OneLeafEach(tree) /\ IsInjective(panes) /\ ListsLeaves(tree, panes)
  BY PanesAreShown
<1>2. LeavesInOrder  BY <1>1 DEF LeavesInOrder, OneLeafEach
<1>3. Tiled
  <2> SUFFICES ASSUME Roomy
               PROVE  LET rects == Rects(tree, area) IN
                      /\ \A s \in DOMAIN rects : rects[s].w >= 1 /\ rects[s].h >= 1
                      /\ \A c \in Cells :
                           LET over == {s \in DOMAIN rects : Covers(rects[s], c)}
                               divs == DividersAt(tree, area, c[1], c[2])
                           IN /\ \A s, u \in over : s = u
                              /\ over = {} => divs # {}
                              /\ \A p \in divs : tree[p].dir = "right" => over = {}
    BY DEF Tiled
  <2>1. RoomFor(tree, area)  BY RoomIs
  <2>2. /\ \A s \in Shown(tree) : Whole(Rects(tree, area)[s])
        /\ \A c \in Int \X Int : \A s, u \in Shown(tree) :
             Covers(Rects(tree, area)[s], c) /\ Covers(Rects(tree, area)[u], c) => s = u
        /\ \A c \in Int \X Int :
             /\ Covers(area, c) /\ (\A s \in Shown(tree) : ~Covers(Rects(tree, area)[s], c))
                  => DividersAt(tree, area, c[1], c[2]) # {}
             /\ \A p \in DividersAt(tree, area, c[1], c[2]) : tree[p].dir = "right" =>
                  \A s \in Shown(tree) : ~Covers(Rects(tree, area)[s], c)
    BY <1>1, <2>1, LeavesTile
  <2>3. DOMAIN Rects(tree, area) = Shown(tree)  BY DEF Rects
  <2>4. \A s \in Shown(tree) : Rects(tree, area)[s].w >= 1 /\ Rects(tree, area)[s].h >= 1
    BY <2>2 DEF Whole
  <2>5. \A c \in Cells : c \in Int \X Int /\ Covers(area, c)  BY CellsAreWhole
  <2> QED  BY <2>2, <2>3, <2>4, <2>5
<1> QED  BY <1>2, <1>3 DEF TreeTiles

\* Whose measures are whole numbers have an order.
LEMMA NearerOrders ==
  ASSUME NEW f, NEW a, NEW b, NEW c, NEW d \in Dirs, Whole(f), Whole(a), Whole(b), Whole(c)
  PROVE  /\ Nearer(f, a, b, d) => ~Nearer(f, b, a, d)
         /\ Nearer(f, a, b, d) /\ Nearer(f, b, c, d) => Nearer(f, a, c, d)
<1>1. PICK n : n = <<Distance(f, a, d), Distance(f, b, d), Distance(f, c, d)>>  OBVIOUS
<1>2. PICK o : o = <<Shared(f, a, d), Shared(f, b, d), Shared(f, c, d)>>  OBVIOUS
<1>3. /\ n[1] \in Int /\ n[2] \in Int /\ n[3] \in Int
      /\ o[1] \in Int /\ o[2] \in Int /\ o[3] \in Int
  BY <1>1, <1>2, MeasuresWhole
<1>4. /\ a.x \in Int /\ a.y \in Int /\ b.x \in Int /\ b.y \in Int /\ c.x \in Int /\ c.y \in Int
  BY DEF Whole
<1>5. Nearer(f, a, b, d) <=>
        (n[1] < n[2] \/ (n[1] = n[2] /\ o[1] > o[2])
         \/ (n[1] = n[2] /\ o[1] = o[2] /\ (a.y < b.y \/ (a.y = b.y /\ a.x < b.x))))
  BY <1>1, <1>2 DEF Nearer
<1>6. Nearer(f, b, a, d) <=>
        (n[2] < n[1] \/ (n[2] = n[1] /\ o[2] > o[1])
         \/ (n[2] = n[1] /\ o[2] = o[1] /\ (b.y < a.y \/ (b.y = a.y /\ b.x < a.x))))
  BY <1>1, <1>2 DEF Nearer
<1>7. Nearer(f, b, c, d) <=>
        (n[2] < n[3] \/ (n[2] = n[3] /\ o[2] > o[3])
         \/ (n[2] = n[3] /\ o[2] = o[3] /\ (b.y < c.y \/ (b.y = c.y /\ b.x < c.x))))
  BY <1>1, <1>2 DEF Nearer
<1>8. Nearer(f, a, c, d) <=>
        (n[1] < n[3] \/ (n[1] = n[3] /\ o[1] > o[3])
         \/ (n[1] = n[3] /\ o[1] = o[3] /\ (a.y < c.y \/ (a.y = c.y /\ a.x < c.x))))
  BY <1>1, <1>2 DEF Nearer
<1>9. Nearer(f, a, b, d) => ~Nearer(f, b, a, d)  BY <1>3, <1>4, <1>5, <1>6
<1>10. Nearer(f, a, b, d) /\ Nearer(f, b, c, d) => Nearer(f, a, c, d)
  BY <1>3, <1>4, <1>5, <1>7, <1>8
<1> QED  BY <1>9, <1>10

\* What Neighbor may return is what is nearest, unless that is the empty pane.
LEMMA NeighborIsNearest ==
  ASSUME NEW t, IsTree(t), OneLeafEach(t), NEW r, RoomFor(t, r), NEW s \in Shown(t),
         NEW d \in Dirs, Blank \notin Nearest(Rects(t, r), s, d)
  PROVE  Neighbors(Rects(t, r), s, d) \subseteq Nearest(Rects(t, r), s, d)
<1> DEFINE R == Rects(t, r)
           near == Candidates(R, s, d)
           Ahead(u, v) == Nearer(R[s], R[u], R[v], d)
<1>1. near \subseteq Shown(t)
  <2>1. DOMAIN R = Shown(t)  BY DEF Rects
  <2> QED  BY <2>1 DEF Candidates
<1>2. \A u \in Shown(t) : Whole(R[u])  BY RectsWithin
<1>3. \A u, v, w \in near : (Ahead(u, v) => ~Ahead(v, u)) /\ (Ahead(u, v) /\ Ahead(v, w) => Ahead(u, w))
  BY <1>1, <1>2, NearerOrders
<1>4. \A v : v \in Nearest(R, s, d) <=> v \in near /\ \A u \in near : ~Ahead(u, v)  BY DEF Nearest
<1>5. \A v : v \in Neighbors(R, s, d) <=>
               /\ v \in near /\ v # Blank
               /\ \A u \in near : u # Blank /\ Ahead(u, v) => Blank \in near /\ Ahead(Blank, u)
  BY DEF Neighbors
<1> HIDE DEF R, near, Ahead
<1>6. ASSUME NEW v \in Neighbors(R, s, d) PROVE v \in Nearest(R, s, d)
  <2>1. CASE Blank \notin near  BY <1>4, <1>5, <1>6, <2>1
  <2>2. CASE Blank \in near
    <3>1. Blank \notin Nearest(R, s, d)  BY DEF R
    <3>2. PICK n \in near : Ahead(n, Blank)  BY <1>4, <2>2, <3>1
    <3>3. n # Blank /\ ~Ahead(Blank, n)  BY <1>3, <2>2, <3>2
    <3>4. v \in near /\ ~Ahead(n, v)  BY <1>5, <1>6, <3>3
    <3>5. ASSUME NEW u \in near, Ahead(u, v) PROVE FALSE
      <4>1. CASE u = Blank  BY <1>3, <2>2, <3>2, <3>4, <3>5, <4>1
      <4>2. CASE u # Blank
        <5>1. Ahead(Blank, u)  BY <1>5, <1>6, <3>5, <4>2
        <5>2. Ahead(n, u)  BY <1>3, <2>2, <3>2, <5>1
        <5> QED  BY <1>3, <3>4, <3>5, <5>2
      <4> QED  BY <4>1, <4>2
    <3> QED  BY <1>4, <3>4, <3>5
  <2> QED  BY <2>1, <2>2
<1> QED  BY <1>6 DEF R

\* With no empty pane among the candidates, it is just that.
LEMMA NoBlankNearest ==
  ASSUME NEW rects, NEW s, NEW d, Blank \notin Candidates(rects, s, d)
  PROVE  Neighbors(rects, s, d) = Nearest(rects, s, d)
BY DEF Neighbors, Nearest

\* The panes of a tree can be walked with the arrows.
LEMMA InvNavigable == PanesInv => Navigable
<1> SUFFICES ASSUME PanesInv PROVE Navigable  OBVIOUS
<1>1. IsTree(tree) /\ OneLeafEach(tree) /\ Range(panes) = Shown(tree)  BY PanesAreShown
<1>2. OneNeighbor
  <2> SUFFICES ASSUME Roomy, NEW s \in Range(panes), NEW d \in Dirs,
                      Blank \notin Nearest(Rects(tree, area), s, d),
                      NEW u \in Neighbors(Rects(tree, area), s, d), NEW v \in Neighbors(Rects(tree, area), s, d)
               PROVE  u = v
    BY DEF OneNeighbor
  <2>1. RoomFor(tree, area)  BY RoomIs
  <2>2. s \in Shown(tree)  BY <1>1
  <2>3. u \in Nearest(Rects(tree, area), s, d) /\ v \in Nearest(Rects(tree, area), s, d)
    BY <1>1, <2>1, <2>2, NeighborIsNearest
  <2> QED  BY <1>1, <2>1, <2>2, <2>3, OnlyNeighbor
<1>3. ASSUME Roomy, NEW S \in SUBSET Range(panes), S # {},
             \A s \in S, d \in Dirs : Neighbors(Rects(tree, area), s, d) \subseteq S,
             \A s \in S, d \in Dirs : Blank \notin Candidates(Rects(tree, area), s, d)
      PROVE  S = Range(panes)
  <2>1. RoomFor(tree, area)  BY <1>3, RoomIs
  <2>2. S \subseteq Shown(tree)  BY <1>1
  <2>3. \A s \in S, d \in Dirs : Nearest(Rects(tree, area), s, d) \subseteq S
    BY <1>3, NoBlankNearest
  <2>4. S = Shown(tree)  BY <1>1, <1>3, <2>1, <2>2, <2>3, Linked
  <2> QED  BY <1>1, <2>4
<1>4. \A s, d : /\ Blank \notin Range(panes) => Blank \notin Candidates(Rects(tree, area), s, d)
                /\ Blank \notin Candidates(Rects(tree, area), Blank, d)
  <2>1. DOMAIN Rects(tree, area) = Range(panes)  BY <1>1 DEF Rects
  <2> QED  BY <2>1 DEF Candidates
<1>5. AllReachable
  <2> DEFINE Closed(S) == \A s \in S, d \in Dirs : Neighbors(Rects(tree, area), s, d) \subseteq S
  <2>1. ASSUME Roomy, Blank \notin Range(panes), NEW S \in SUBSET Range(panes), S # {}, Closed(S)
        PROVE  S = Range(panes)
    BY <1>3, <1>4, <2>1
  <2>2. ASSUME Roomy, Blank \in Range(panes), Closed({Blank})
        PROVE  Range(panes) = {Blank}
    <3>1. PICK S \in SUBSET Range(panes) : S = {Blank}  BY <2>2
    <3>2. \A s \in S, d \in Dirs : Blank \notin Candidates(Rects(tree, area), s, d)  BY <1>4, <3>1
    <3>3. S # {} /\ Closed(S)  BY <2>2, <3>1
    <3>4. S = Range(panes)  BY <1>3, <2>2, <3>2, <3>3
    <3> QED  BY <3>1, <3>4
  <2> QED  BY <2>1, <2>2 DEF AllReachable
<1> QED  BY <1>2, <1>5 DEF Navigable

\* The leaves of the tree are the panes in reading order whatever was split, closed,
\* replaced, dragged and resized, and where there is room the panes and the columns
\* between them cover every cell of the area once.
THEOREM PanesTile == PanesSpec => []TreeTiles
<1>1. PanesInv => TreeTiles  BY InvTiles
<1> QED  BY <1>1, PanesKeep, PTL

\* Where there is room an arrow leads to one pane at most, whatever order the map of
\* the rectangles is read in, unless the nearest pane is the empty one; the arrows
\* lead from every pane to every other where no pane is empty, and out of the empty
\* pane where one is.
THEOREM PanesAreNavigable == PanesSpec => []Navigable
<1>1. PanesInv => Navigable  BY InvNavigable
<1> QED  BY <1>1, PanesKeep, PTL

\* Division with remainder.
LEMMA DivIs ==
  ASSUME NEW a \in Int, NEW b \in Nat \ {0}
  PROVE  \E q \in Int : q = a \div b /\ b * q <= a /\ a < b * q + b
<1>1. b \in Int /\ b > 0  OBVIOUS
<1>2. a = b * (a \div b) + (a % b) /\ 0 <= a % b /\ a % b < b /\ a \div b \in Int  BY <1>1
<1>3. PICK q \in Int : q = a \div b  BY <1>2
<1>4. PICK m : m = a % b  OBVIOUS
<1>5. PICK p : p = b * q  OBVIOUS
<1>6. m \in Int /\ p \in Int  BY <1>3, <1>4, <1>5
<1>7. a = p + m /\ 0 <= m /\ m < b  BY <1>2, <1>3, <1>4, <1>5
<1>8. p <= a /\ a < p + b  BY <1>6, <1>7
<1> QED  BY <1>3, <1>5, <1>8

\* Multiplying by a number that is not negative keeps the order.
LEMMA TimesMore ==
  ASSUME NEW a \in Int, NEW b \in Int, NEW c \in Nat
  PROVE  a <= b => c * a <= c * b
<1>1. ASSUME a <= b PROVE c * a <= c * b
  <2>1. PICK e \in Nat : b = a + e
    <3>1. b - a \in Nat /\ b = a + (b - a)  BY <1>1
    <3> QED  BY <3>1
  <2>2. c * b = c * a + c * e  BY <2>1
  <2>3. c * e \in Nat  BY <2>1
  <2>4. c * a \in Int  OBVIOUS
  <2> QED  BY <2>2, <2>3, <2>4
<1> QED  BY <1>1

\* Dividing by a positive number keeps the strict order.
LEMMA TimesLess ==
  ASSUME NEW a \in Int, NEW b \in Int, NEW c \in Nat \ {0}
  PROVE  c * a < c * b => a < b
<1>1. ASSUME c * a < c * b, ~(a < b) PROVE FALSE
  <2>1. c * b <= c * a  BY <1>1, TimesMore
  <2>2. c * a \in Int /\ c * b \in Int  OBVIOUS
  <2> QED  BY <1>1, <2>1, <2>2
<1> QED  BY <1>1

\* A quotient is the largest whole number whose multiple fits.
LEMMA DivAbove ==
  ASSUME NEW a \in Int, NEW b \in Nat \ {0}, NEW q \in Int
  PROVE  /\ a \div b \in Int
         /\ b * q <= a => q <= a \div b
         /\ a < b * q + b => a \div b <= q
<1>1. PICK d \in Int : d = a \div b /\ b * d <= a /\ a < b * d + b  BY DivIs
<1>2. ASSUME b * q <= a PROVE q <= d
  <2>1. b * q < b * (d + 1)
    <3>1. b * (d + 1) = b * d + b /\ b * d \in Int /\ b * q \in Int  OBVIOUS
    <3> QED  BY <1>1, <1>2, <3>1
  <2>2. q < d + 1  BY <2>1, TimesLess
  <2> QED  BY <2>2
<1>3. ASSUME a < b * q + b PROVE d <= q
  <2>1. b * d < b * (q + 1)
    <3>1. b * (q + 1) = b * q + b /\ b * d \in Int /\ b * q \in Int  OBVIOUS
    <3> QED  BY <1>1, <1>3, <3>1
  <2>2. d < q + 1  BY <2>1, TimesLess
  <2> QED  BY <2>2
<1> QED  BY <1>1, <1>2, <1>3

\* A share grows with the cells there are, by no more than they.
LEMMA ShareSteps ==
  ASSUME NEW n \in Splitting, NEW k \in Int, NEW j \in Int, k <= j
  PROVE  /\ Share(n, k) \in Int /\ Share(n, j) \in Int
         /\ Share(n, k) <= Share(n, j) /\ Share(n, j) <= Share(n, k) + (j - k)
<1>1. PICK a \in Nat, b \in Nat \ {0} : a = n.num /\ b = n.den /\ 10 * a <= 9 * b  BY DEF Splitting
<1>2. a <= b  BY <1>1
<1>3. PICK B \in Nat \ {0} : B = 2 * b  OBVIOUS
<1>4. PICK x \in Int : x = 2 * k * a + b  OBVIOUS
<1>5. PICK y \in Int : y = 2 * j * a + b  OBVIOUS
<1>6. Share(n, k) = x \div B /\ Share(n, j) = y \div B  BY <1>1, <1>3, <1>4, <1>5 DEF Share
<1>7. PICK e \in Nat : j = k + e
  <2>1. j - k \in Nat /\ j = k + (j - k)  OBVIOUS
  <2> QED  BY <2>1
<1>8. y = x + 2 * e * a
  <2>1. 2 * (k + e) * a = 2 * k * a + 2 * e * a  OBVIOUS
  <2> QED  BY <1>4, <1>5, <1>7, <2>1
<1>9. PICK s \in Int : s = x \div B /\ B * s <= x /\ x < B * s + B  BY DivIs
<1>10. PICK u \in Int : u = y \div B /\ B * u <= y /\ y < B * u + B  BY DivIs
<1>11. e * a <= e * b  BY <1>2, TimesMore
<1>12. PICK ea \in Nat : ea = e * a  OBVIOUS
<1>13. PICK eb \in Nat : eb = e * b  OBVIOUS
<1>14. y = x + 2 * ea /\ ea <= eb /\ B * e = 2 * eb  BY <1>3, <1>8, <1>11, <1>12, <1>13
<1>15. s <= u
  <2>1. PICK p \in Int : p = B * s  OBVIOUS
  <2>2. p <= x  BY <1>9, <2>1
  <2>3. p <= y  BY <1>14, <2>2
  <2>4. B * s <= y  BY <2>1, <2>3
  <2> QED  BY <1>10, <2>4, DivAbove
<1>16. u <= s + e
  <2>1. B * (s + e) = B * s + B * e  OBVIOUS
  <2>2. PICK p \in Int : p = B * s  OBVIOUS
  <2>3. x < p + B  BY <1>9, <2>2
  <2>4. y < p + 2 * eb + B  BY <1>14, <2>3
  <2>5. y < B * (s + e) + B  BY <1>14, <2>1, <2>2, <2>4
  <2>6. s + e \in Int  OBVIOUS
  <2> QED  BY <1>10, <2>5, <2>6, DivAbove
<1> QED  BY <1>6, <1>7, <1>9, <1>10, <1>15, <1>16

\* A share grows with the ratio.
LEMMA ShareRatio ==
  ASSUME NEW n \in Splitting, NEW m \in Splitting, NEW k \in Nat, n.num * m.den <= m.num * n.den
  PROVE  Share(n, k) \in Int /\ Share(m, k) \in Int /\ Share(n, k) <= Share(m, k)
<1>1. PICK a \in Nat, b \in Nat \ {0} : a = n.num /\ b = n.den  BY DEF Splitting
<1>2. PICK c \in Nat, d \in Nat \ {0} : c = m.num /\ d = m.den  BY DEF Splitting
<1>3. a * d <= c * b  BY <1>1, <1>2
<1>4. PICK x \in Int : x = 2 * k * a + b  OBVIOUS
<1>5. PICK y \in Int : y = 2 * k * c + d  OBVIOUS
<1>6. Share(n, k) = x \div (2 * b) /\ Share(m, k) = y \div (2 * d)  BY <1>1, <1>2, <1>4, <1>5 DEF Share
<1>7. 2 * b \in Nat \ {0} /\ 2 * d \in Nat \ {0}  OBVIOUS
<1>8. PICK s \in Int : s = x \div (2 * b) /\ (2 * b) * s <= x  BY <1>7, DivIs
<1>9. (2 * d) * s <= y
  <2> SUFFICES ASSUME ~((2 * d) * s <= y) PROVE FALSE  OBVIOUS
  <2>1. y < (2 * d) * s
    <3>1. (2 * d) * s \in Int  OBVIOUS
    <3> QED  BY <3>1
  <2>2. b * (y + 1) <= b * ((2 * d) * s)
    <3>1. y + 1 <= (2 * d) * s /\ (2 * d) * s \in Int  BY <2>1
    <3> QED  BY <3>1, TimesMore
  <2>3. d * ((2 * b) * s) <= d * x
    <3>1. (2 * b) * s \in Int  OBVIOUS
    <3> QED  BY <1>8, <3>1, TimesMore
  <2>4. d * ((2 * b) * s) = b * ((2 * d) * s)  OBVIOUS
  <2>5. PICK ad \in Nat : ad = a * d  OBVIOUS
  <2>6. PICK cb \in Nat : cb = c * b  OBVIOUS
  <2>7. PICK bd \in Nat : bd = b * d  OBVIOUS
  <2>8. d * x = 2 * (k * ad) + bd  BY <1>4, <2>5, <2>7
  <2>9. b * (y + 1) = 2 * (k * cb) + bd + b  BY <1>5, <2>6, <2>7
  <2>10. k * ad <= k * cb  BY <1>3, <2>5, <2>6, TimesMore
  <2>11. PICK ka \in Nat : ka = k * ad  OBVIOUS
  <2>12. PICK kc \in Nat : kc = k * cb  OBVIOUS
  <2>13. PICK z \in Int : z = d * ((2 * b) * s)  OBVIOUS
  <2>14. z <= 2 * ka + bd  BY <2>3, <2>8, <2>11, <2>13
  <2>15. 2 * kc + bd + b <= z  BY <2>2, <2>4, <2>9, <2>12, <2>13
  <2>16. ka <= kc  BY <2>10, <2>11, <2>12
  <2> QED  BY <2>14, <2>15, <2>16
<1>10. s <= y \div (2 * d) /\ y \div (2 * d) \in Int  BY <1>7, <1>9, DivAbove
<1> QED  BY <1>6, <1>8, <1>10

\* Trees that differ in the node v alone.
SameBut(t, v, u) == DOMAIN u = DOMAIN t /\ \A q \in DOMAIN t : q # v => u[q] = t[q]

\* A node's place does not depend on the node.
LEMMA PlaceKept ==
  ASSUME NEW t, IsTree(t), NEW v \in DOMAIN t, NEW u, IsTree(u), SameBut(t, v, u), NEW r
  PROVE  Places(u, r)[v] = Places(t, r)[v]
<1>1. v \in Paths /\ Len(v) \in Nat /\ \A n \in 0..Len(v) : Up(v, n) \in DOMAIN t /\ (n < Len(v) => ~t[Up(v, n)].leaf)
  BY Ancestors
<1>2. DOMAIN u = DOMAIN t /\ \A q \in DOMAIN t : q # v => u[q] = t[q]  BY DEF SameBut
<1> DEFINE Good == {n \in 0..Len(v) : Places(u, r)[Up(v, n)] = Places(t, r)[Up(v, n)]}
<1>3. 0 \in Good
  <2>1. Up(v, 0) = Root  BY <1>1, UpWhole
  <2>2. Places(t, r)[Root] = r /\ Places(u, r)[Root] = r  BY PlaceIs
  <2> QED  BY <1>1, <2>1, <2>2
<1>4. \A n \in 0..Len(v) : n \in Good /\ n < Len(v) => n + 1 \in Good
  <2> SUFFICES ASSUME NEW n \in 0..Len(v), n \in Good, n < Len(v) PROVE n + 1 \in Good
    OBVIOUS
  <2>1. n \in 0..Len(v) - 1 /\ n + 1 \in 0..Len(v)  BY <1>1
  <2>2. PICK w \in DOMAIN t : w = Up(v, n) /\ ~t[w].leaf  BY <1>1
  <2>3. w # v
    <3>1. Len(w) = n  BY <1>1, <2>2, UpIs
    <3> QED  BY <1>1, <2>1, <3>1
  <2>4. u[w] = t[w] /\ w \in DOMAIN u  BY <1>2, <2>2, <2>3
  <2>5. PICK b \in BOOLEAN : b = v[n + 1]  BY <1>1, <2>1, UpNext
  <2>6. Up(v, n + 1) = Append(w, b)  BY <1>1, <2>1, <2>2, <2>5, UpNext
  <2>7. Places(t, r)[Append(w, b)] = Half(t[w], Places(t, r)[w], b)  BY <2>2, PlaceIs
  <2>8. ~u[w].leaf  BY <2>2, <2>4
  <2>9. Places(u, r)[Append(w, b)] = Half(u[w], Places(u, r)[w], b)  BY <2>4, <2>8, PlaceIs
  <2>10. Places(u, r)[w] = Places(t, r)[w]  BY <2>2
  <2> QED  BY <2>1, <2>4, <2>6, <2>7, <2>9, <2>10
<1> HIDE DEF Good
<1>5. PICK N \in Nat : N = Len(v)  BY <1>1
<1>6. \A n \in 0..N : n \in Good  BY <1>3, <1>4, <1>5, Upwards
<1>7. Len(v) \in Good  BY <1>5, <1>6
<1>8. Places(u, r)[Up(v, Len(v))] = Places(t, r)[Up(v, Len(v))]  BY <1>7 DEF Good
<1> QED  BY <1>1, <1>8, UpWhole

\* A ratio whose denominator is the cells there are is met to the cell.
LEMMA ShareExact ==
  ASSUME NEW n, NEW a \in Int, NEW k \in Nat \ {0}, n.num = a, n.den = k
  PROVE  Share(n, k) = a
<1>1. PICK x \in Int : x = 2 * k * a + k  OBVIOUS
<1>2. PICK B \in Nat \ {0} : B = 2 * k  OBVIOUS
<1>3. Share(n, k) = x \div B  BY <1>1, <1>2 DEF Share
<1>4. PICK p \in Int : p = B * a  OBVIOUS
<1>5. x = p + k /\ B = 2 * k
  <2>1. 2 * k * a = (2 * k) * a  OBVIOUS
  <2> QED  BY <1>1, <1>2, <1>4, <2>1
<1>6. p <= x /\ x < p + B  BY <1>5
<1>7. a <= x \div B /\ x \div B <= a /\ x \div B \in Int  BY <1>4, <1>6, DivAbove
<1> QED  BY <1>3, <1>7

\* How far r reaches along an axis.
Extent(x, r) == IF x = "right" THEN r.w ELSE r.h

\* A share between the limits is what First gets.
LEMMA FirstExtent ==
  ASSUME NEW n \in Splitting, NEW r, IntRect(r), NEW at \in Int,
         Share(n, Size(n, r)) = at, 1 <= at, at <= Size(n, r) - 1
  PROVE  at = Extent(n.dir, Half(n, r, FALSE))
<1>1. r.w \in Int /\ r.h \in Int  BY DEF IntRect
<1>2. CASE n.dir = "right"
  <2>1. Size(n, r) = r.w - 1  BY <1>2 DEF Size
  <2>2. at <= r.w - 2 /\ 1 <= at  BY <1>1, <2>1
  <2>3. Lesser(Larger(at, 1), r.w - 2) = at  BY <1>1, <2>2 DEF Lesser, Larger
  <2>4. Halves(n, r)[1].w = at  BY <1>2, <2>1, <2>3 DEF Halves, Rect
  <2> QED  BY <1>2, <2>4 DEF Extent, Half
<1>3. CASE n.dir # "right"
  <2>1. Size(n, r) = r.h  BY <1>3 DEF Size
  <2>2. at <= r.h - 1 /\ 1 <= at  BY <1>1, <2>1
  <2>3. Lesser(Larger(at, 1), r.h - 1) = at  BY <1>1, <2>2 DEF Lesser, Larger
  <2>4. Halves(n, r)[1].h = at  BY <1>3, <2>1, <2>3 DEF Halves, Rect
  <2> QED  BY <1>3, <2>4 DEF Extent, Half
<1> QED  BY <1>2, <1>3

\* u is t after a drag of the divider p to a cell between the limits.
Dragged(t, p, r, x, y, u, at, size) ==
  /\ u = DragTo(t, p, r, x, y)
  /\ at = Along(t[p], Places(t, r)[p], x, y) /\ size = Size(t[p], Places(t, r)[p])
  /\ 10 * at >= size /\ 10 * at <= 9 * size /\ at >= 1 /\ at <= size - 1

\* A divider dragged to a cell between the limits is at that cell.
LEMMA DragIsMet ==
  ASSUME NEW t, IsTree(t), NEW r, RoomFor(t, r), NEW p \in DOMAIN t, ~t[p].leaf,
         NEW x \in Int, NEW y \in Int, NEW u, NEW at, NEW size, Dragged(t, p, r, x, y, u, at, size)
  PROVE  at = Extent(t[p].dir, Half(u[p], Places(u, r)[p], FALSE))
<1>0. /\ u = DragTo(t, p, r, x, y)
      /\ at = Along(t[p], Places(t, r)[p], x, y) /\ size = Size(t[p], Places(t, r)[p])
      /\ 10 * at >= size /\ 10 * at <= 9 * size /\ at >= 1 /\ at <= size - 1
  BY DEF Dragged
<1>1. PICK n \in Splitting : n = t[p]  BY PlaceIs
<1>2. PICK e : e = Places(t, r)[p]  OBVIOUS
<1>3. Whole(e) /\ Fits2(n, e)
  <2>1. Whole(e)  BY <1>2, PlaceWhole
  <2>2. p \in DOMAIN t \ LeafPaths(t)  BY DEF LeafPaths
  <2> QED  BY <1>1, <1>2, <2>1, <2>2 DEF RoomFor
<1>4. e.x \in Int /\ e.y \in Int /\ e.w \in Int /\ e.h \in Int  BY <1>3 DEF Whole
<1>5. PICK a \in Int : a = at
  <2>1. Along(n, e, x, y) \in Int  BY <1>4 DEF Along
  <2> QED  BY <1>0, <1>1, <1>2, <2>1
<1>6. PICK k \in Nat \ {0} : k = size
  <2>1. Size(n, e) \in Nat \ {0}
    <3>1. CASE n.dir = "right"  BY <1>3, <1>4, <3>1 DEF Size, Fits2
    <3>2. CASE n.dir # "right"  BY <1>3, <1>4, <3>2 DEF Size, Fits2
    <3> QED  BY <3>1, <3>2
  <2> QED  BY <1>0, <1>1, <1>2, <2>1
<1>7. k <= 10 * a /\ 10 * a <= 9 * k /\ a >= 1 /\ a <= k - 1  BY <1>0, <1>5, <1>6
<1>8. Larger(k, 1) = k
  <2>1. k \in Int /\ k >= 1  OBVIOUS
  <2> QED  BY <2>1, LargerIs
<1>9. PICK m : m = Clamped(n, a, k)  OBVIOUS
<1>10. m \in Splitting /\ m.dir = n.dir /\ m.num = a /\ m.den = k  BY <1>7, <1>9, ClampedIs
<1>11. u = [t EXCEPT ![p] = m]
  <2>1. u = WithRatio(t, p, a, k)  BY <1>0, <1>1, <1>2, <1>5, <1>6, <1>8 DEF DragTo
  <2> QED  BY <1>1, <1>9, <2>1 DEF WithRatio
<1>12. /\ IsTree(u) /\ DOMAIN u = DOMAIN t /\ u[p] = m /\ \A q \in DOMAIN t : q # p => u[q] = t[q]
  <2>1. m \in Splitting \cup Ending  BY <1>10
  <2>2. m.leaf = t[p].leaf  BY <1>1, <1>10 DEF Splitting
  <2>3. NodeChanged(t, p, m, u)  BY <1>11 DEF NodeChanged
  <2>4. IsTree(t) /\ p \in DOMAIN t  OBVIOUS
  <2> QED  BY ONLY <2>1, <2>2, <2>3, <2>4, NodeChanges
<1>13. Places(u, r)[p] = e
  <2>1. SameBut(t, p, u)  BY <1>12 DEF SameBut
  <2> QED  BY <1>2, <1>12, <2>1, PlaceKept
<1>14. Size(m, e) = k  BY <1>0, <1>1, <1>2, <1>6, <1>10 DEF Size
<1>15. Share(m, Size(m, e)) = a  BY <1>10, <1>14, ShareExact
<1>16. IntRect(e)  BY <1>4 DEF IntRect
<1>17. 1 <= a /\ a <= Size(m, e) - 1  BY <1>7, <1>14
<1>18. a = Extent(m.dir, Half(m, e, FALSE))  BY <1>10, <1>15, <1>16, <1>17, FirstExtent
<1> QED  BY <1>1, <1>5, <1>10, <1>12, <1>13, <1>18

\* Keeping a cell for each side keeps the order, and no step grows.
LEMMA LargerSteps ==
  ASSUME NEW a \in Int, NEW b \in Int, NEW e \in Nat, NEW c \in Int, NEW s \in Int, NEW u \in Int,
         b = a + e, s <= u, u <= s + e
  PROVE  /\ Lesser(Larger(s, 1), a - c) \in Int /\ Lesser(Larger(u, 1), b - c) \in Int
         /\ Lesser(Larger(s, 1), a - c) <= Lesser(Larger(u, 1), b - c)
         /\ Lesser(Larger(u, 1), b - c) <= Lesser(Larger(s, 1), a - c) + e
<1>1. PICK p \in Int : p = Larger(s, 1)  BY DEF Larger
<1>2. PICK q \in Int : q = Larger(u, 1)  BY DEF Larger
<1>3. p <= q /\ q <= p + e  BY <1>1, <1>2 DEF Larger
<1>4. PICK f \in Int : f = a - c  OBVIOUS
<1>5. PICK g \in Int : g = b - c  OBVIOUS
<1>6. g = f + e  BY <1>4, <1>5
<1>7. PICK v \in Int : v = Lesser(p, f)  BY DEF Lesser
<1>8. PICK w \in Int : w = Lesser(q, g)  BY DEF Lesser
<1>9. v <= w /\ w <= v + e  BY <1>3, <1>6, <1>7, <1>8 DEF Lesser
<1> QED  BY <1>1, <1>2, <1>4, <1>5, <1>7, <1>8, <1>9

\* First's columns or rows.
Cutting(n, r) ==
  IF n.dir = "right" THEN Lesser(Larger(Share(n, r.w - 1), 1), r.w - 2)
                     ELSE Lesser(Larger(Share(n, r.h), 1), r.h - 1)

\* What a half reaches along an axis.
LEMMA HalfExtent ==
  ASSUME NEW n \in Splitting, NEW r, IntRect(r), NEW x \in Splits, NEW b \in BOOLEAN
  PROVE  /\ Cutting(n, r) \in Int /\ Extent(x, r) \in Int
         /\ x # n.dir => Extent(x, Half(n, r, b)) = Extent(x, r)
         /\ x = n.dir /\ ~b => Extent(x, Half(n, r, b)) = Cutting(n, r)
         /\ x = n.dir /\ x = "right" /\ b => Extent(x, Half(n, r, b)) = r.w - Cutting(n, r) - 1
         /\ x = n.dir /\ x = "down" /\ b => Extent(x, Half(n, r, b)) = r.h - Cutting(n, r)
<1>1. r.x \in Int /\ r.y \in Int /\ r.w \in Int /\ r.h \in Int  BY DEF IntRect
<1>2. PICK k : k = Cutting(n, r)  OBVIOUS
<1>3. k \in Int
  <2>1. PICK a \in Int : a = Share(n, r.w - 1)  BY <1>1, ShareIsWhole
  <2>2. PICK c \in Int : c = Share(n, r.h)  BY <1>1, ShareIsWhole
  <2>3. PICK f \in Int : f = Larger(a, 1)  BY DEF Larger
  <2>4. PICK g \in Int : g = Larger(c, 1)  BY DEF Larger
  <2>5. Lesser(f, r.w - 2) \in Int /\ Lesser(g, r.h - 1) \in Int
    <3>1. r.w - 2 \in Int /\ r.h - 1 \in Int  BY <1>1
    <3> QED  BY <3>1 DEF Lesser
  <2> QED  BY <1>2, <2>1, <2>2, <2>3, <2>4, <2>5 DEF Cutting
<1>4. n.dir \in {"right", "down"} /\ x \in {"right", "down"}  BY DEF Splitting, Splits
<1>5. PICK e : e = Half(n, r, b)  OBVIOUS
<1>6. CASE n.dir = "right"
  <2>1. Halves(n, r) = <<Rect(r.x, r.y, k, r.h), Rect(r.x + k + 1, r.y, r.w - k - 1, r.h)>>
    BY <1>2, <1>6 DEF Halves, Cutting
  <2>2. /\ ~b => e.w = k /\ e.h = r.h
        /\ b => e.w = r.w - k - 1 /\ e.h = r.h
    BY <1>5, <2>1 DEF Half, Rect
  <2>3. Extent("right", e) = e.w /\ Extent("down", e) = e.h /\ Extent("right", r) = r.w /\ Extent("down", r) = r.h
    BY DEF Extent
  <2> QED  BY <1>1, <1>2, <1>3, <1>4, <1>5, <1>6, <2>2, <2>3
<1>7. CASE n.dir = "down"
  <2>1. Halves(n, r) = <<Rect(r.x, r.y, r.w, k), Rect(r.x, r.y + k, r.w, r.h - k)>>
    BY <1>2, <1>7 DEF Halves, Cutting
  <2>2. /\ ~b => e.w = r.w /\ e.h = k
        /\ b => e.w = r.w /\ e.h = r.h - k
    BY <1>5, <2>1 DEF Half, Rect
  <2>3. Extent("right", e) = e.w /\ Extent("down", e) = e.h /\ Extent("right", r) = r.w /\ Extent("down", r) = r.h
    BY DEF Extent
  <2> QED  BY <1>1, <1>2, <1>3, <1>4, <1>5, <1>7, <2>2, <2>3
<1> QED  BY <1>4, <1>6, <1>7

\* A larger place has no smaller half.
LEMMA HalfSteps ==
  ASSUME NEW n \in Splitting, NEW f, IntRect(f), NEW g, IntRect(g), NEW x \in Splits, NEW b \in BOOLEAN,
         Extent(x, f) <= Extent(x, g)
  PROVE  Extent(x, Half(n, f, b)) <= Extent(x, Half(n, g, b))
<1>1. f.w \in Int /\ f.h \in Int /\ g.w \in Int /\ g.h \in Int  BY DEF IntRect
<1>2. CASE x # n.dir
  <2>1. Extent(x, Half(n, f, b)) = Extent(x, f) /\ Extent(x, Half(n, g, b)) = Extent(x, g)
    BY <1>2, HalfExtent
  <2> QED  BY <2>1
<1>3. CASE x = n.dir /\ x = "right"
  <2>1. PICK e \in Nat : g.w = f.w + e
    <3>1. f.w <= g.w  BY <1>3 DEF Extent
    <3>2. g.w - f.w \in Nat /\ g.w = f.w + (g.w - f.w)  BY <1>1, <3>1
    <3> QED  BY <3>2
  <2>2. PICK s \in Int, u \in Int : s = Share(n, f.w - 1) /\ u = Share(n, g.w - 1) /\ s <= u /\ u <= s + e
    <3>1. PICK k \in Int : k = f.w - 1  BY <1>1
    <3>2. PICK j \in Int : j = g.w - 1  BY <1>1
    <3>3. k <= j /\ j - k = e  BY <1>1, <2>1, <3>1, <3>2
    <3> QED  BY <3>1, <3>2, <3>3, ShareSteps
  <2>3. PICK c \in Int : c = Cutting(n, f)  BY HalfExtent
  <2>4. PICK d \in Int : d = Cutting(n, g)  BY HalfExtent
  <2>5. c = Lesser(Larger(s, 1), f.w - 2) /\ d = Lesser(Larger(u, 1), g.w - 2)
    BY <1>3, <2>2, <2>3, <2>4 DEF Cutting
  <2>6. c <= d /\ d <= c + e
    <3>1. PICK z \in Int : z = 2  OBVIOUS
    <3> QED  BY <1>1, <2>1, <2>2, <2>5, <3>1, LargerSteps
  <2>7. CASE ~b
    <3>1. Extent(x, Half(n, f, b)) = c /\ Extent(x, Half(n, g, b)) = d  BY <1>3, <2>3, <2>4, <2>7, HalfExtent
    <3> QED  BY <2>6, <3>1
  <2>8. CASE b
    <3>1. Extent(x, Half(n, f, b)) = f.w - c - 1 /\ Extent(x, Half(n, g, b)) = g.w - d - 1
      BY <1>3, <2>3, <2>4, <2>8, HalfExtent
    <3>2. f.w - c - 1 <= g.w - d - 1  BY <1>1, <2>1, <2>6
    <3> QED  BY <3>1, <3>2
  <2> QED  BY <2>7, <2>8
<1>4. CASE x = n.dir /\ x = "down"
  <2>1. PICK e \in Nat : g.h = f.h + e
    <3>1. f.h <= g.h  BY <1>4 DEF Extent
    <3>2. g.h - f.h \in Nat /\ g.h = f.h + (g.h - f.h)  BY <1>1, <3>1
    <3> QED  BY <3>2
  <2>2. PICK s \in Int, u \in Int : s = Share(n, f.h) /\ u = Share(n, g.h) /\ s <= u /\ u <= s + e
    <3>1. PICK k \in Int : k = f.h  BY <1>1
    <3>2. PICK j \in Int : j = g.h  BY <1>1
    <3>3. k <= j /\ j - k = e  BY <1>1, <2>1, <3>1, <3>2
    <3> QED  BY <3>1, <3>2, <3>3, ShareSteps
  <2>3. PICK c \in Int : c = Cutting(n, f)  BY HalfExtent
  <2>4. PICK d \in Int : d = Cutting(n, g)  BY HalfExtent
  <2>5. c = Lesser(Larger(s, 1), f.h - 1) /\ d = Lesser(Larger(u, 1), g.h - 1)
    BY <1>4, <2>2, <2>3, <2>4 DEF Cutting
  <2>6. c <= d /\ d <= c + e
    <3>1. PICK z \in Int : z = 1  OBVIOUS
    <3> QED  BY <1>1, <2>1, <2>2, <2>5, <3>1, LargerSteps
  <2>7. CASE ~b
    <3>1. Extent(x, Half(n, f, b)) = c /\ Extent(x, Half(n, g, b)) = d  BY <1>4, <2>3, <2>4, <2>7, HalfExtent
    <3> QED  BY <2>6, <3>1
  <2>8. CASE b
    <3>1. Extent(x, Half(n, f, b)) = f.h - c /\ Extent(x, Half(n, g, b)) = g.h - d
      BY <1>4, <2>3, <2>4, <2>8, HalfExtent
    <3>2. f.h - c <= g.h - d  BY <1>1, <2>1, <2>6
    <3> QED  BY <3>1, <3>2
  <2> QED  BY <2>7, <2>8
<1> QED  BY <1>2, <1>3, <1>4 DEF Splits

\* A larger ratio gives First more, and Second less.
LEMMA HalfGrows ==
  ASSUME NEW n \in Splitting, NEW m \in Splitting, m.dir = n.dir, NEW r, IntRect(r), Size(n, r) \in Nat,
         n.num * m.den <= m.num * n.den
  PROVE  /\ Extent(n.dir, Half(n, r, FALSE)) <= Extent(n.dir, Half(m, r, FALSE))
         /\ Extent(n.dir, Half(m, r, TRUE)) <= Extent(n.dir, Half(n, r, TRUE))
<1>1. r.w \in Int /\ r.h \in Int  BY DEF IntRect
<1>2. PICK k \in Nat : k = Size(n, r)  OBVIOUS
<1>3. PICK s \in Int, u \in Int : s = Share(n, k) /\ u = Share(m, k) /\ s <= u  BY ShareRatio
<1>4. PICK p \in Int : p = Larger(s, 1)  BY DEF Larger
<1>5. PICK q \in Int : q = Larger(u, 1)  BY DEF Larger
<1>6. p <= q  BY <1>3, <1>4, <1>5 DEF Larger
<1>7. PICK c \in Int : c = Cutting(n, r)  BY HalfExtent DEF Splits
<1>8. PICK d \in Int : d = Cutting(m, r)  BY HalfExtent DEF Splits
<1>9. c <= d
  <2>1. CASE n.dir = "right"
    <3>1. k = r.w - 1  BY <1>2, <2>1 DEF Size
    <3>2. c = Lesser(p, r.w - 2) /\ d = Lesser(q, r.w - 2)
      BY <1>3, <1>4, <1>5, <1>7, <1>8, <2>1, <3>1 DEF Cutting
    <3> QED  BY <1>1, <1>6, <3>2 DEF Lesser
  <2>2. CASE n.dir # "right"
    <3>1. k = r.h  BY <1>2, <2>2 DEF Size
    <3>2. c = Lesser(p, r.h - 1) /\ d = Lesser(q, r.h - 1)
      BY <1>3, <1>4, <1>5, <1>7, <1>8, <2>2, <3>1 DEF Cutting
    <3> QED  BY <1>1, <1>6, <3>2 DEF Lesser
  <2> QED  BY <2>1, <2>2
<1>10. n.dir \in Splits /\ (n.dir = "right" \/ n.dir = "down")  BY DEF Splitting, Splits
<1>11. Extent(n.dir, Half(n, r, FALSE)) = c /\ Extent(n.dir, Half(m, r, FALSE)) = d
  BY <1>7, <1>8, <1>10, HalfExtent
<1>12. Extent(n.dir, Half(m, r, TRUE)) <= Extent(n.dir, Half(n, r, TRUE))
  <2>1. CASE n.dir = "right"
    <3>1. Extent(n.dir, Half(n, r, TRUE)) = r.w - c - 1 /\ Extent(n.dir, Half(m, r, TRUE)) = r.w - d - 1
      BY <1>7, <1>8, <1>10, <2>1, HalfExtent
    <3>2. r.w - d - 1 <= r.w - c - 1  BY <1>1, <1>9
    <3> QED  BY <3>1, <3>2
  <2>2. CASE n.dir = "down"
    <3>1. Extent(n.dir, Half(n, r, TRUE)) = r.h - c /\ Extent(n.dir, Half(m, r, TRUE)) = r.h - d
      BY <1>7, <1>8, <1>10, <2>2, HalfExtent
    <3>2. r.h - d <= r.h - c  BY <1>1, <1>9
    <3> QED  BY <3>1, <3>2
  <2> QED  BY <1>10, <2>1, <2>2
<1> QED  BY <1>9, <1>11, <1>12

\* What a split's half gains or loses, the nodes below it gain or lose.
LEMMA ExtentBelow ==
  ASSUME NEW t, IsTree(t), NEW v, NEW u, IsTree(u), SameBut(t, v, u), NEW r, IntRect(r),
         NEW p \in DOMAIN t, NEW i \in 0..Len(p) - 1, v = Up(p, i), NEW x \in Splits,
         Extent(x, Places(t, r)[Up(p, i + 1)]) <= Extent(x, Places(u, r)[Up(p, i + 1)])
  PROVE  Extent(x, Places(t, r)[p]) <= Extent(x, Places(u, r)[p])
<1>1. p \in Paths /\ Len(p) \in Nat /\ \A n \in 0..Len(p) : Up(p, n) \in DOMAIN t /\ (n < Len(p) => ~t[Up(p, n)].leaf)
  BY Ancestors
<1>2. DOMAIN u = DOMAIN t /\ \A q \in DOMAIN t : q # v => u[q] = t[q]  BY DEF SameBut
<1>3. PICK N \in Nat : N = Len(p) - 1 - i
  <2>1. Len(p) - 1 - i \in Nat  BY <1>1
  <2> QED  BY <2>1
<1>4. i \in Nat /\ N + i + 1 = Len(p)  BY <1>1, <1>3
<1> DEFINE Good == {m \in 0..N : Extent(x, Places(t, r)[Up(p, i + 1 + m)]) <= Extent(x, Places(u, r)[Up(p, i + 1 + m)])}
<1>5. 0 \in Good
  <2>1. i + 1 + 0 = i + 1 /\ 0 \in 0..N  BY <1>3, <1>4
  <2> QED  BY <2>1
<1>6. \A m \in 0..N : m \in Good /\ m < N => m + 1 \in Good
  <2> SUFFICES ASSUME NEW m \in 0..N, m \in Good, m < N PROVE m + 1 \in Good
    OBVIOUS
  <2>1. PICK k \in Nat : k = i + 1 + m  BY <1>4
  <2>2. k \in 0..Len(p) - 1 /\ k + 1 \in 0..Len(p) /\ k # i /\ m + 1 \in 0..N /\ i + 1 + (m + 1) = k + 1
    BY <1>3, <1>4, <2>1
  <2>3. PICK w \in DOMAIN t : w = Up(p, k) /\ ~t[w].leaf  BY <1>1, <2>2
  <2>4. w # v
    <3>1. Len(w) = k  BY <1>1, <2>2, <2>3, UpIs
    <3>2. Len(v) = i  BY <1>1, UpIs
    <3> QED  BY <2>2, <3>1, <3>2
  <2>5. u[w] = t[w] /\ w \in DOMAIN u  BY <1>2, <2>3, <2>4
  <2>6. PICK b \in BOOLEAN : b = p[k + 1]  BY <1>1, <2>2, UpNext
  <2>7. Up(p, k + 1) = Append(w, b)  BY <1>1, <2>2, <2>3, <2>6, UpNext
  <2>8. PICK f : f = Places(t, r)[w]  OBVIOUS
  <2>9. PICK g : g = Places(u, r)[w]  OBVIOUS
  <2>10. t[w] \in Splitting /\ Places(t, r)[Append(w, b)] = Half(t[w], f, b)  BY <2>3, <2>8, PlaceIs
  <2>11. ~u[w].leaf  BY <2>3, <2>5
  <2>12. Places(u, r)[Append(w, b)] = Half(t[w], g, b)  BY <2>5, <2>9, <2>11, PlaceIs
  <2>13. IntRect(f) /\ IntRect(g)  BY <2>3, <2>5, <2>8, <2>9, PlaceIsInt
  <2>14. Extent(x, f) <= Extent(x, g)  BY <2>1, <2>3, <2>8, <2>9
  <2>15. Extent(x, Half(t[w], f, b)) <= Extent(x, Half(t[w], g, b))  BY <2>10, <2>13, <2>14, HalfSteps
  <2>16. Extent(x, Places(t, r)[Up(p, k + 1)]) <= Extent(x, Places(u, r)[Up(p, k + 1)])
    BY <2>7, <2>10, <2>12, <2>15
  <2> QED  BY <2>2, <2>16
<1> HIDE DEF Good
<1>7. \A m \in 0..N : m \in Good  BY <1>5, <1>6, Upwards
<1>8. N \in Good  BY <1>7
<1>9. Extent(x, Places(t, r)[Up(p, i + 1 + N)]) <= Extent(x, Places(u, r)[Up(p, i + 1 + N)])
  BY <1>8 DEF Good
<1>10. i + 1 + N = Len(p)  BY <1>3, <1>4
<1> QED  BY <1>1, <1>9, <1>10, UpWhole

\* Fractions compared by their cross products.
LEMMA Crosswise ==
  ASSUME NEW a \in Nat, NEW b \in Nat \ {0}, NEW z \in Nat \ {0}, NEW e \in Int
  PROVE  /\ a * (b * z) \in Int /\ (a * z + e * b) * b \in Int
         /\ 0 <= e => a * (b * z) <= (a * z + e * b) * b
         /\ e <= 0 => (a * z + e * b) * b <= a * (b * z)
<1>1. PICK q \in Nat : q = b * b  OBVIOUS
<1>2. PICK y \in Int : y = a * (b * z)  OBVIOUS
<1>3. (a * z + e * b) * b = y + e * q  BY <1>1, <1>2
<1>4. PICK w \in Int : w = q * e  OBVIOUS
<1>5. w = e * q /\ q * 0 = 0  BY <1>4
<1>6. 0 <= e => 0 <= w  BY <1>4, <1>5, TimesMore
<1>7. e <= 0 => w <= 0  BY <1>4, <1>5, TimesMore
<1> QED  BY <1>2, <1>3, <1>5, <1>6, <1>7

\* m is n with e of its z cells more for First.
Nudged(n, z, e, m) == m = Clamped(n, n.num * z + e * n.den, n.den * z)

\* Cells added to a ratio, or taken from it, do not make it less, or more, whatever
\* the limits.
LEMMA ClampedGrows ==
  ASSUME NEW n \in Splitting, NEW z \in Nat \ {0}, NEW e \in Int,
         NEW m, Nudged(n, z, e, m)
  PROVE  /\ m \in Splitting /\ m.dir = n.dir
         /\ 0 <= e => n.num * m.den <= m.num * n.den
         /\ e <= 0 => m.num * n.den <= n.num * m.den
<1> PICK a \in Nat, b \in Nat \ {0} : a = n.num /\ b = n.den  BY DEF Splitting
<1>1. b <= 10 * a /\ 10 * a <= 9 * b  BY DEF Splitting
<1>2. PICK x \in Int : x = a * z + e * b
  <2>1. a * z + e * b \in Int  OBVIOUS
  <2> QED  BY <2>1
<1>3. PICK y \in Nat \ {0} : y = b * z  BY PositiveProduct
<1>4. m = Clamped(n, x, y)  BY <1>2, <1>3 DEF Nudged
<1>5. m \in Splitting /\ m.dir = n.dir  BY <1>4, ClampedIs
<1>6. /\ n.leaf = FALSE /\ DOMAIN n = {"leaf", "dir", "num", "den"}  BY DEF Splitting
<1>7. PICK az \in Int : az = a * z  OBVIOUS
<1>8. PICK eb \in Int : eb = e * b  OBVIOUS
<1>9. x = az + eb  BY <1>2, <1>7, <1>8
<1>10. y <= 10 * az /\ 10 * az <= 9 * y
  <2>1. z * b <= z * (10 * a) /\ z * (10 * a) <= z * (9 * b)
    <3>1. 10 * a \in Int /\ 9 * b \in Int  OBVIOUS
    <3> QED  BY <1>1, <3>1, TimesMore
  <2>2. z * b = y /\ z * (10 * a) = 10 * az /\ z * (9 * b) = 9 * y  BY <1>3, <1>7
  <2> QED  BY <2>1, <2>2
<1>11. (0 <= e => 0 <= eb) /\ (e <= 0 => eb <= 0)
  <2>1. b * e = eb /\ b * 0 = 0  BY <1>8
  <2> QED  BY <2>1, TimesMore
<1>12. CASE 10 * x < y
  <2>1. m = [n EXCEPT !.num = 1, !.den = 10]  BY <1>4, <1>12 DEF Clamped
  <2>2. m.num = 1 /\ m.den = 10  BY <1>6, <2>1
  <2>3. ~(0 <= e)  BY <1>9, <1>10, <1>11, <1>12
  <2>4. 1 * b <= a * 10  BY <1>1
  <2> QED  BY <1>5, <2>2, <2>3, <2>4
<1>13. CASE ~(10 * x < y) /\ 10 * x > 9 * y
  <2>1. m = [n EXCEPT !.num = 9, !.den = 10]  BY <1>4, <1>13 DEF Clamped
  <2>2. m.num = 9 /\ m.den = 10  BY <1>6, <2>1
  <2>3. ~(e <= 0)  BY <1>9, <1>10, <1>11, <1>13
  <2>4. a * 10 <= 9 * b  BY <1>1
  <2> QED  BY <1>5, <2>2, <2>3, <2>4
<1>14. CASE ~(10 * x < y) /\ ~(10 * x > 9 * y)
  <2>1. m.num = x /\ m.den = y
    <3>1. y <= 10 * x /\ 10 * x <= 9 * y  BY <1>14
    <3> QED  BY <1>4, <3>1, ClampedIs
  <2>2. /\ 0 <= e => a * y <= x * b
        /\ e <= 0 => x * b <= a * y
    BY <1>2, <1>3, Crosswise
  <2> QED  BY <1>5, <2>1, <2>2
<1> QED  BY <1>12, <1>13, <1>14

\* A split's halves when its ratio is changed by e cells.
LEMMA MovedHalf ==
  ASSUME NEW n \in Splitting, NEW m \in Splitting, m.dir = n.dir, NEW r, IntRect(r), Size(n, r) \in Nat,
         NEW e \in Int, 0 <= e => n.num * m.den <= m.num * n.den, e <= 0 => m.num * n.den <= n.num * m.den,
         NEW b \in BOOLEAN
  PROVE  /\ (0 <= e /\ ~b) \/ (e <= 0 /\ b) => Extent(n.dir, Half(n, r, b)) <= Extent(n.dir, Half(m, r, b))
         /\ (0 <= e /\ b) \/ (e <= 0 /\ ~b) => Extent(n.dir, Half(m, r, b)) <= Extent(n.dir, Half(n, r, b))
<1>1. Size(m, r) = Size(n, r)  BY DEF Size
<1>2. CASE b = FALSE
  <2>1. 0 <= e => Extent(n.dir, Half(n, r, FALSE)) <= Extent(n.dir, Half(m, r, FALSE))  BY HalfGrows
  <2>2. e <= 0 => Extent(n.dir, Half(m, r, FALSE)) <= Extent(n.dir, Half(n, r, FALSE))
    BY <1>1, HalfGrows
  <2> QED  BY <1>2, <2>1, <2>2
<1>3. CASE b = TRUE
  <2>1. 0 <= e => Extent(n.dir, Half(m, r, TRUE)) <= Extent(n.dir, Half(n, r, TRUE))  BY HalfGrows
  <2>2. e <= 0 => Extent(n.dir, Half(n, r, TRUE)) <= Extent(n.dir, Half(m, r, TRUE))
    BY <1>1, HalfGrows
  <2> QED  BY <1>3, <2>1, <2>2
<1> QED  BY <1>2, <1>3

\* The leaves, their paths and their sessions after a change of a split's ratio.
LEMMA RatioChange ==
  ASSUME NEW t, IsTree(t), OneLeafEach(t), NEW v \in DOMAIN t, ~t[v].leaf,
         NEW m \in Splitting, NEW u, NodeChanged(t, v, m, u), NEW s \in Shown(t)
  PROVE  /\ IsTree(u) /\ SameBut(t, v, u) /\ SameBut(u, v, t) /\ u[v] = m
         /\ PathOf(t, s) \in LeafPaths(t) /\ s \in Shown(u) /\ PathOf(u, s) = PathOf(t, s)
<1>1. t[v] \in Splitting  BY PlaceIs
<1>2. /\ IsTree(u) /\ LeafPaths(u) = LeafPaths(t) /\ DOMAIN u = DOMAIN t
      /\ u[v] = m /\ \A q \in DOMAIN t : q # v => u[q] = t[q]
  <2>1. m \in Splitting \cup Ending  OBVIOUS
  <2>2. m.leaf = t[v].leaf  BY <1>1 DEF Splitting
  <2>3. IsTree(t) /\ v \in DOMAIN t /\ NodeChanged(t, v, m, u)  OBVIOUS
  <2> QED  BY ONLY <2>1, <2>2, <2>3, NodeChanges
<1>3. SameBut(t, v, u) /\ SameBut(u, v, t)  BY <1>2 DEF SameBut
<1>4. \A q \in LeafPaths(t) : q \in DOMAIN t /\ u[q] = t[q]  BY <1>2 DEF LeafPaths
<1>5. OneLeafEach(u)  BY <1>2, <1>4 DEF OneLeafEach
<1>6. PICK p \in LeafPaths(t) : p = PathOf(t, s) /\ t[p].session = s  BY PathOfShown
<1>7. p \in LeafPaths(u) /\ s = u[p].session  BY <1>2, <1>4, <1>6
<1>8. s \in Shown(u) /\ PathOf(u, s) = p  BY <1>5, <1>7, PathOfLeaf
<1> QED  BY <1>2, <1>3, <1>6, <1>8

\* Toward d is away from the pane on its far side.
Cells2(d, n) == IF Forward(d) THEN n ELSE -n

\* What a resize does to the pane it is for.
LEMMA ResizeIsMet ==
  ASSUME NEW t, IsTree(t), OneLeafEach(t), NEW r, RoomFor(t, r), NEW s \in Shown(t), NEW d \in Dirs,
         NEW k \in Nat, NEW u, u = Resize(t, s, d, k, r)
  PROVE  /\ Extent(Axis(d), Rects(t, r)[s]) \in Int /\ Extent(Axis(d), Rects(u, r)[s]) \in Int
         /\ Growing(t, PathOf(t, s), d) # {} =>
              Extent(Axis(d), Rects(t, r)[s]) <= Extent(Axis(d), Rects(u, r)[s])
         /\ Growing(t, PathOf(t, s), d) = {} =>
              Extent(Axis(d), Rects(u, r)[s]) <= Extent(Axis(d), Rects(t, r)[s])
<1>1. PICK p \in DOMAIN t : p = PathOf(t, s)  BY PathOfShown
<1>2. PICK on : on = Moves(t, p, d)  OBVIOUS
<1>3. PICK i : i = Deepest(on)  OBVIOUS
<1>4. PICK v : v = Up(p, i)  OBVIOUS
<1>5. PICK f : f = Places(t, r)[v]  OBVIOUS
<1>6. PICK e \in Int : e = Cells2(d, k)  BY DEF Cells2
<1>7. PICK x \in Splits : x = Axis(d)  BY DEF Axis, Splits
<1>8. IntRect(r)  BY DEF RoomFor, Whole, IntRect
<1>9. ASSUME NEW w, IsTree(w), s \in Shown(w)
      PROVE  Extent(x, Rects(w, r)[s]) \in Int
  <2>1. PICK q \in DOMAIN w : q = PathOf(w, s)  BY <1>9, PathOfShown
  <2>2. IntRect(Places(w, r)[q])  BY <1>8, <1>9, PlaceIsInt
  <2>3. Rects(w, r)[s] = Places(w, r)[q]  BY <1>9, <2>1, RectPlace
  <2> QED  BY <2>2, <2>3 DEF Extent, IntRect
<1>10. Resize(t, s, d, k, r) =
        IF on = {} THEN t
        ELSE WithRatio(t, v, t[v].num * Larger(Size(t[v], f), 1) + e * t[v].den, t[v].den * Larger(Size(t[v], f), 1))
  BY <1>1, <1>2, <1>3, <1>4, <1>5, <1>6 DEF Resize, Moves, Up, Cells2
<1>11. CASE on = {}
  <2>1. u = t  BY <1>10, <1>11
  <2>2. PICK a \in Int : a = Extent(x, Rects(t, r)[s])  BY <1>9
  <2>3. a <= a  OBVIOUS
  <2> QED  BY <1>7, <2>1, <2>2, <2>3
<1>12. CASE on # {}
  <2>1. /\ i \in on /\ i \in 0..Len(p) - 1 /\ v \in DOMAIN t /\ ~t[v].leaf
    BY <1>2, <1>3, <1>4, <1>12, MovesIs
  <2>2. PICK n \in Splitting : n = t[v]  BY <2>1, PlaceIs
  <2>3. n.dir = x /\ (Growing(t, p, d) # {} => (~p[i + 1]) = Forward(d))
    BY <1>2, <1>4, <1>7, <2>1, <2>2 DEF Moves, Growing, Dividing, Up
  <2>4. Growing(t, p, d) = {} => (~p[i + 1]) # Forward(d)
    BY <1>2, <2>1 DEF Moves, Growing
  <2>5. p \in Paths /\ Len(p) \in Nat  BY Ancestors
  <2>6. PICK b \in BOOLEAN : b = p[i + 1] /\ Up(p, i + 1) = Append(v, b)  BY <1>4, <2>1, <2>5, UpNext
  <2>7. Whole(f) /\ Fits2(n, f)
    <3>1. v \in DOMAIN t \ LeafPaths(t)  BY <2>1 DEF LeafPaths
    <3>2. Fits2(n, f)  BY <1>5, <2>2, <3>1 DEF RoomFor
    <3> QED  BY <1>5, <2>1, <3>2, PlaceWhole
  <2>8. IntRect(f)  BY <2>7 DEF Whole, IntRect
  <2>9. Size(n, f) \in Nat
    <3>1. f.w \in Int /\ f.h \in Int  BY <2>7 DEF Whole
    <3>2. CASE n.dir = "right"  BY <2>7, <3>1, <3>2 DEF Size, Fits2
    <3>3. CASE n.dir # "right"  BY <2>7, <3>1, <3>3 DEF Size, Fits2
    <3> QED  BY <3>2, <3>3
  <2>10. PICK z \in Nat \ {0} : z = Larger(Size(n, f), 1)
    <3>1. Size(n, f) \in Int  BY <2>9
    <3> QED  BY <3>1, LargerIs
  <2>11. PICK a \in Nat : a = n.num  BY DEF Splitting
  <2>12. PICK c \in Nat \ {0} : c = n.den  BY DEF Splitting
  <2>13. PICK m : m = Clamped(n, a * z + e * c, c * z)  OBVIOUS
  <2>14. /\ m \in Splitting /\ m.dir = n.dir
         /\ 0 <= e => n.num * m.den <= m.num * n.den
         /\ e <= 0 => m.num * n.den <= n.num * m.den
    <3>1. Nudged(n, z, e, m)  BY <2>11, <2>12, <2>13 DEF Nudged
    <3> QED  BY <3>1, ClampedGrows
  <2>15. NodeChanged(t, v, m, u)
    <3>1. u = WithRatio(t, v, a * z + e * c, c * z)  BY <1>10, <1>12, <2>2, <2>10, <2>11, <2>12
    <3> QED  BY <2>2, <2>13, <3>1 DEF WithRatio, NodeChanged
  <2>16. /\ IsTree(u) /\ SameBut(t, v, u) /\ SameBut(u, v, t) /\ u[v] = m
         /\ s \in Shown(u) /\ PathOf(u, s) = p
    BY <1>1, <2>1, <2>14, <2>15, RatioChange
  <2>17. Places(u, r)[v] = f  BY <1>5, <2>1, <2>16, PlaceKept
  <2>18. DOMAIN u = DOMAIN t  BY <2>16 DEF SameBut
  <2>19. Places(t, r)[Append(v, b)] = Half(n, f, b)  BY <1>5, <2>1, <2>2, PlaceIs
  <2>20. Places(u, r)[Append(v, b)] = Half(m, f, b)
    <3>1. ~u[v].leaf  BY <2>14, <2>16 DEF Splitting
    <3>2. v \in DOMAIN u  BY <2>1, <2>18
    <3> QED  BY <2>16, <2>17, <3>1, <3>2, PlaceIs
  <2>21. Rects(t, r)[s] = Places(t, r)[p] /\ Rects(u, r)[s] = Places(u, r)[p]
    BY <1>1, <2>16, RectPlace
  <2>22. /\ (0 <= e /\ ~b) \/ (e <= 0 /\ b) => Extent(x, Half(n, f, b)) <= Extent(x, Half(m, f, b))
         /\ (0 <= e /\ b) \/ (e <= 0 /\ ~b) => Extent(x, Half(m, f, b)) <= Extent(x, Half(n, f, b))
    BY <2>3, <2>8, <2>9, <2>14, MovedHalf
  <2>23. (Forward(d) => 0 <= e) /\ (~Forward(d) => e <= 0)  BY <1>6 DEF Cells2
  <2>24. ASSUME Growing(t, p, d) # {} PROVE Extent(x, Rects(t, r)[s]) <= Extent(x, Rects(u, r)[s])
    <3>1. (~b) = Forward(d)  BY <2>3, <2>6, <2>24
    <3>2. (0 <= e /\ ~b) \/ (e <= 0 /\ b)  BY <2>23, <3>1
    <3>3. Extent(x, Places(t, r)[Up(p, i + 1)]) <= Extent(x, Places(u, r)[Up(p, i + 1)])
      BY <2>6, <2>19, <2>20, <2>22, <3>2
    <3>4. Extent(x, Places(t, r)[p]) <= Extent(x, Places(u, r)[p])
      BY <1>4, <1>8, <2>1, <2>16, <3>3, ExtentBelow
    <3> QED  BY <2>21, <3>4
  <2>25. ASSUME Growing(t, p, d) = {} PROVE Extent(x, Rects(u, r)[s]) <= Extent(x, Rects(t, r)[s])
    <3>1. (~b) # Forward(d)  BY <2>4, <2>6, <2>25
    <3>2. (0 <= e /\ b) \/ (e <= 0 /\ ~b)  BY <2>23, <3>1 DEF Forward
    <3>3. Extent(x, Places(u, r)[Up(p, i + 1)]) <= Extent(x, Places(t, r)[Up(p, i + 1)])
      BY <2>6, <2>19, <2>20, <2>22, <3>2
    <3>4. Extent(x, Places(u, r)[p]) <= Extent(x, Places(t, r)[p])
      BY <1>4, <1>8, <2>1, <2>16, <2>18, <3>3, ExtentBelow
    <3> QED  BY <2>21, <3>4
  <2>26. Extent(x, Rects(t, r)[s]) \in Int /\ Extent(x, Rects(u, r)[s]) \in Int  BY <1>9, <2>16
  <2> QED  BY <1>1, <1>7, <2>24, <2>25, <2>26
<1> QED  BY <1>11, <1>12

\* A drag and a resize from a state of the invariant do what the user asked.
LEMMA StepFollows ==
  ASSUME PanesInv
  PROVE  DragFollows /\ ResizeGrows
<1>1. IsTree(tree) /\ OneLeafEach(tree) /\ Range(panes) = Shown(tree)  BY PanesAreShown
<1>2. DragFollows
  <2> SUFFICES ASSUME NEW path \in Dividers, NEW to \in Cells, DragDivider(path, to), Roomy
               PROVE  LET n == tree[path]
                          r == Places(tree, area)[path]
                          at == Along(n, r, to[1], to[2])
                          size == Size(n, r)
                          half == Halves(tree'[path], Places(tree', area)[path])[1]
                      IN (10 * at >= size /\ 10 * at <= 9 * size /\ at >= 1 /\ at <= size - 1) =>
                           at = IF n.dir = "right" THEN half.w ELSE half.h
    BY DEF DragFollows
  <2>1. tree' = DragTo(tree, path, area, to[1], to[2])  BY DEF DragDivider
  <2>2. PICK c \in Cells : path \in DividersAt(tree, area, c[1], c[2])  BY DEF Dividers
  <2>3. path \in DOMAIN tree /\ ~tree[path].leaf  BY <2>2, DividerIsSplit
  <2>4. to[1] \in Int /\ to[2] \in Int  BY CellsAreWhole
  <2>5. RoomFor(tree, area)  BY RoomIs
  <2>6. PICK at : at = Along(tree[path], Places(tree, area)[path], to[1], to[2])  OBVIOUS
  <2>7. PICK size : size = Size(tree[path], Places(tree, area)[path])  OBVIOUS
  <2>8. (10 * at >= size /\ 10 * at <= 9 * size /\ at >= 1 /\ at <= size - 1) =>
          at = Extent(tree[path].dir, Half(tree'[path], Places(tree', area)[path], FALSE))
    <3> SUFFICES ASSUME 10 * at >= size, 10 * at <= 9 * size, at >= 1, at <= size - 1
                 PROVE  at = Extent(tree[path].dir, Half(tree'[path], Places(tree', area)[path], FALSE))
      OBVIOUS
    <3>1. PICK x \in Int : x = to[1]  BY <2>4
    <3>2. PICK y \in Int : y = to[2]  BY <2>4
    <3>3. PICK u : u = tree'  OBVIOUS
    <3>4. u = DragTo(tree, path, area, x, y)  BY <2>1, <3>1, <3>2, <3>3
    <3>5. Dragged(tree, path, area, x, y, u, at, size)  BY <2>6, <2>7, <3>1, <3>2, <3>4 DEF Dragged
    <3>6. at = Extent(tree[path].dir, Half(u[path], Places(u, area)[path], FALSE))
      BY <1>1, <2>3, <2>5, <3>5, DragIsMet
    <3> QED  BY <3>3, <3>6
  <2> QED  BY <2>6, <2>7, <2>8 DEF Extent, Half
<1>3. ResizeGrows
  <2> SUFFICES ASSUME NEW s \in Range(panes), NEW d \in Dirs, NEW n \in Steps,
                      ResizeLeaf(s, d, n), Roomy
               PROVE  LET old == Rects(tree, area)[s]
                          new == Rects(tree', area)[s]
                          grows == IF Axis(d) = "right" THEN new.w - old.w ELSE new.h - old.h
                      IN IF Growing(tree, PathOf(tree, s), d) # {} THEN grows >= 0 ELSE grows <= 0
    BY DEF ResizeGrows
  <2>1. RoomFor(tree, area)  BY RoomIs
  <2>2. tree' = Resize(tree, s, d, n, area)  BY DEF ResizeLeaf
  <2>3. n \in Nat  BY DEF Steps
  <2>4. PICK old : old = Rects(tree, area)[s]  OBVIOUS
  <2>5. PICK new : new = Rects(tree', area)[s]  OBVIOUS
  <2>6. /\ Extent(Axis(d), old) \in Int /\ Extent(Axis(d), new) \in Int
        /\ Growing(tree, PathOf(tree, s), d) # {} => Extent(Axis(d), old) <= Extent(Axis(d), new)
        /\ Growing(tree, PathOf(tree, s), d) = {} => Extent(Axis(d), new) <= Extent(Axis(d), old)
    BY <1>1, <2>1, <2>2, <2>3, <2>4, <2>5, ResizeIsMet
  <2>7. CASE Axis(d) = "right"
    <3>1. Extent(Axis(d), old) = old.w /\ Extent(Axis(d), new) = new.w  BY <2>7 DEF Extent
    <3>2. /\ old.w <= new.w => new.w - old.w >= 0
          /\ new.w <= old.w => new.w - old.w <= 0
      BY <2>6, <3>1
    <3> QED  BY <2>4, <2>5, <2>6, <2>7, <3>1, <3>2
  <2>8. CASE Axis(d) # "right"
    <3>1. Extent(Axis(d), old) = old.h /\ Extent(Axis(d), new) = new.h  BY <2>8 DEF Extent
    <3>2. /\ old.h <= new.h => new.h - old.h >= 0
          /\ new.h <= old.h => new.h - old.h <= 0
      BY <2>6, <3>1
    <3> QED  BY <2>4, <2>5, <2>6, <2>8, <3>1, <3>2
  <2> QED  BY <2>7, <2>8
<1> QED  BY <1>2, <1>3

\* Where there is room a divider dragged between the limits is at the mouse, and a
\* resize toward a side never makes the pane smaller when a divider on that side
\* moves, nor larger when there is none, however deep the pane is.
THEOREM PanesFollow == PanesSpec => DividersFollow
<1>1. PanesInv => DragFollows /\ ResizeGrows  BY StepFollows
<1> QED  BY <1>1, PanesKeep, PTL DEF DividersFollow
=============================================================================
