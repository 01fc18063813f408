----------------------------- MODULE Workbench -----------------------------
(***************************************************************************)
(* The terminal half of the TUI: each worktree's tabs and panes (package   *)
(* domain's Workbench) and the Root model that keeps them in step with the *)
(* server's sessions while its requests are answered late and out of       *)
(* order.  A tab's split tree is the list of its leaves, as Panes justifies *)
(* (LeavesInOrder); where panes lie on the screen is Panes' business.      *)
(***************************************************************************)
EXTENDS Integers, Sequences, FiniteSets, SequencesExt, FiniteSetsExt

CONSTANTS
  Trees,        \* worktrees
  NoTree,
  Cmds,         \* bound: requests and messages in flight
  MaxSessions,  \* bound: sessions ever created
  MaxActs,      \* bound: the user's changes of the layout
  MaxDrops,     \* bound: attaches that end though the session goes on
  Mixes         \* sets of what the environment and the user do: a run has one

ASSUME BoundsAssumption ==
  /\ MaxSessions \in Nat /\ MaxActs \in Nat /\ MaxDrops \in Nat
  /\ NoTree \notin Trees

VARIABLES
  alive,      \* per worktree: the server's sessions in order of creation
  made,       \* number of sessions created
  wt,         \* worktree whose tabs are shown
  bench,      \* per worktree: its Workbench (r.bench is bench[wt])
  listed,     \* r.sessions
  screens,    \* sessions with a live screen
  attaching,  \* r.attaching
  flights,    \* per session: attaches under way
  detached,   \* sessions not to be attached until the user asks
  focus,
  cmd,        \* per slot: a request or message under way
  file,       \* the layout file
  early,      \* history: sessions given a tab before their own reply came
  closed,     \* history: per worktree, sessions whose pane the user has closed, as
              \* long as every list taken in since has had them
  acts, drops,
  ops         \* the run's member of Mixes

server == <<alive, made>>
attach == <<screens, attaching, flights, detached>>
bounds == <<acts, drops>>
marks == <<early, closed, ops>>
vars == <<server, wt, bench, listed, attach, focus, cmd, file, marks, bounds>>

Sessions == 1 .. MaxSessions
Empty == 0  \* the pane that waits for a choice
Pane == {Empty} \cup Sessions
Tab == [leaves : Seq(Pane), focus : Pane]
Bench == [tabs : Seq(Tab), active : Nat, zoom : BOOLEAN, known : SUBSET Sessions]

EmptyTab == [leaves |-> <<Empty>>, focus |-> Empty]
NoBench == [tabs |-> <<>>, active |-> 1, zoom |-> FALSE, known |-> {}]
Idle == [kind |-> "idle", wt |-> NoTree, at |-> "idle", got |-> <<>>, created |-> 0]

\* What is in S of a sequence, by its first n elements: SelectSeq, in a form that
\* can be reasoned about.
KeptUpto(s, S) ==
  LET Kept[n \in 0 .. Len(s)] ==
        IF n = 0 THEN <<>>
        ELSE IF s[n] \in S THEN Append(Kept[n - 1], s[n]) ELSE Kept[n - 1]
  IN Kept
Only(s, S) == KeptUpto(s, S)[Len(s)]
Without(s, S) == Only(s, Range(s) \ S)
-----------------------------------------------------------------------------
(***************************************************************************)
(* domain.Workbench.                                                       *)
(***************************************************************************)
Current(w) == IF w.tabs = <<>> THEN EmptyTab ELSE w.tabs[w.active]
WithTab(w, t) == [w EXCEPT !.tabs[w.active] = t]
PanesOf(w) == UNION {Range(w.tabs[i].leaves) : i \in DOMAIN w.tabs}
Hidden(w, ss) == Range(ss) \ PanesOf(w)
Visible(w) == IF w.zoom THEN {Current(w).focus} ELSE Range(Current(w).leaves)

LeavesLeft(t, live) == Only(t.leaves, {Empty} \cup live)
\* What is left of a tab when only live has sessions.
Remaining(t, live) ==
  LET left == LeavesLeft(t, live) IN
  [leaves |-> left, focus |-> IF t.focus \in Range(left) THEN t.focus ELSE Head(left)]

\* The loop over the tabs moves Active as it meets the ones that vanish: it
\* compares old positions with an index already moved.
ActiveUpto(w, live) ==
  LET Moved[n \in 0 .. Len(w.tabs)] ==
        IF n = 0 THEN w.active
        ELSE Moved[n - 1] - (IF LeavesLeft(w.tabs[n], live) = <<>> /\ n < Moved[n - 1]
                             THEN 1 ELSE 0)
  IN Moved
ActiveAfter(w, live) == ActiveUpto(w, live)[Len(w.tabs)]

Within(n, low, high) == IF n < low THEN low ELSE IF n > high THEN high ELSE n
Tabs(w, live, new) ==
  LET kept == Only(w.tabs, {t \in Range(w.tabs) : LeavesLeft(t, live) # <<>>})
      all == [i \in DOMAIN kept |-> Remaining(kept[i], live)]
               \o [i \in DOMAIN new |-> [leaves |-> <<new[i]>>, focus |-> new[i]]]
  IN IF all = <<>> THEN <<EmptyTab>> ELSE all

ReconcileShown(w, ss) ==  \* mutant: what has no pane gets a tab
  LET live == Range(ss)
      new == Without(ss, PanesOf(w))
      tabs == Tabs(w, live, new)
  IN [w EXCEPT !.tabs = tabs, !.known = live,
               !.active = Within(ActiveAfter(w, live), 1, Len(tabs))]

Reconcile(w, ss) ==
  LET live == Range(ss)
      new == Without(ss, w.known)
      tabs == Tabs(w, live, new)
  IN [w EXCEPT !.tabs = tabs, !.known = live,
               !.active = Within(ActiveAfter(w, live), 1, Len(tabs))]

Show(w, s) ==
  LET at == {i \in DOMAIN w.tabs : s \in Range(w.tabs[i].leaves)} IN
  IF at = {} THEN w
  ELSE [w EXCEPT !.active = Min(at), !.tabs[Min(at)] = [leaves |-> @.leaves, focus |-> s]]

PlaceUnknown(w, s) ==  \* mutant: the session still counts as new
  LET t == Current(w) IN
  IF t.focus # Empty THEN w
  ELSE WithTab(w, [leaves |-> [i \in DOMAIN t.leaves |-> IF t.leaves[i] = Empty THEN s ELSE t.leaves[i]],
                   focus |-> s])

Place(w, s) ==
  LET t == Current(w) IN
  IF t.focus # Empty THEN w
  ELSE WithTab([w EXCEPT !.known = @ \cup {s}],
               [leaves |-> [i \in DOMAIN t.leaves |-> IF t.leaves[i] = Empty THEN s ELSE t.leaves[i]],
                focus |-> s])

Split(w) ==
  LET t == Current(w)
      at == CHOOSE i \in DOMAIN t.leaves : t.leaves[i] = t.focus
  IN IF Empty \in Range(t.leaves) THEN w
     ELSE WithTab([w EXCEPT !.zoom = FALSE],
                  [leaves |-> InsertAt(t.leaves, at + 1, Empty), focus |-> Empty])

CloseTab(w) ==
  LET tabs == RemoveAt(w.tabs, w.active)
      left == IF tabs = <<>> THEN <<EmptyTab>> ELSE tabs
  IN [w EXCEPT !.zoom = FALSE, !.tabs = left, !.active = Within(@, 1, Len(left))]

ClosePane(w) ==
  LET left == Without(Current(w).leaves, {Current(w).focus}) IN
  IF left = <<>> THEN CloseTab(w)
  ELSE WithTab([w EXCEPT !.zoom = FALSE], [leaves |-> left, focus |-> Head(left)])
-----------------------------------------------------------------------------
(***************************************************************************)
(* Root: what every handler ends with.                                     *)
(***************************************************************************)
Init ==
  /\ alive = [w \in Trees |-> <<>>] /\ made = 0
  /\ wt = NoTree /\ listed = <<>> /\ focus = "sidebar"
  /\ bench = [w \in Trees |-> NoBench] /\ file = bench
  /\ screens = {} /\ attaching = {} /\ detached = {}
  /\ flights = [s \in Sessions |-> 0]
  /\ cmd = [k \in Cmds |-> Idle]
  /\ early = {} /\ closed = [w \in Trees |-> {}] /\ acts = 0 /\ drops = 0
  /\ ops \in Mixes

Ready == wt # NoTree /\ bench[wt].tabs # <<>>
OnScreen == IF Ready THEN Visible(bench[wt]) ELSE {}

SaveBefore == file' = bench  \* mutant: as it was before the change

\* save: every worktree's layout, the ones never loaded left out.
Save == file' = bench'

\* sync, over the screens and attaches that the handler has left: the
\* hidden screens close, what is visible and has none is attached.
SyncOver(scr, att, fl) ==
  LET vis == OnScreen'
      new == {s \in vis : s \in Range(listed') /\ s \notin detached' \cup scr \cup att}
  IN /\ Save
     /\ screens' = scr \cap vis
     /\ attaching' = att \cup new
     /\ flights' = [s \in Sessions |-> fl[s] + (IF s \in new THEN 1 ELSE 0)]
Sync == SyncOver(screens, attaching, flights)

SetFocus(f) == focus' = IF f = "terminal" /\ wt' = NoTree THEN focus ELSE f

\* A request goes out, or a message to Root itself, in a free slot.
Send(k, kind, w, at) ==
  /\ cmd[k] = Idle
  /\ cmd' = [cmd EXCEPT ![k] = [Idle EXCEPT !.kind = kind, !.wt = w, !.at = at]]
-----------------------------------------------------------------------------
(***************************************************************************)
(* The server, as the TUI's requests and everybody else use it.            *)
(***************************************************************************)
Create(w) ==
  /\ made < MaxSessions
  /\ made' = made + 1
  /\ alive' = [alive EXCEPT ![w] = Append(@, made')]

OtherCreates(w) ==
  /\ "create" \in ops
  /\ Create(w)
  /\ UNCHANGED <<wt, bench, listed, attach, focus, cmd, file, marks, bounds>>

SessionEnds(w, s) ==
  /\ "end" \in ops
  /\ s \in Range(alive[w])
  /\ alive' = [alive EXCEPT ![w] = Without(@, {s})]
  /\ UNCHANGED <<made, wt, bench, listed, attach, focus, cmd, file, marks, bounds>>

\* Terminals.Tabs creates a shell for a worktree that has no session.
\* Terminals.Add lists after it has created, and adds what it created
\* should the list lack it.
ListSessions(k) ==
  LET c == cmd[k]
      ss == alive[c.wt]
      adds == c.kind \in {"new", "into"}
  IN /\ c.at = "list"
     /\ cmd' = [cmd EXCEPT
          ![k].at = IF ss = <<>> /\ ~adds THEN "create" ELSE "reply",
          ![k].got = IF adds /\ c.created \notin Range(ss) THEN Append(ss, c.created) ELSE ss]
     /\ UNCHANGED <<server, wt, bench, listed, attach, focus, file, marks, bounds>>

CreateSession(k) ==
  LET c == cmd[k] IN
  /\ c.at = "create"
  /\ Create(c.wt)
  /\ cmd' = [cmd EXCEPT ![k] =
       IF c.kind \in {"new", "into"} THEN [c EXCEPT !.at = "list", !.created = made']
       ELSE [c EXCEPT !.at = "reply", !.got = <<made'>>]]
  /\ UNCHANGED <<wt, bench, listed, attach, focus, file, marks, bounds>>

\* An error, before or after the session was created, only shows in the
\* status bar.
RequestFails(k) ==
  /\ cmd[k].at \in {"create", "list"}
  /\ cmd' = [cmd EXCEPT ![k] = Idle]
  /\ UNCHANGED <<server, wt, bench, listed, attach, focus, file, marks, bounds>>
-----------------------------------------------------------------------------
(***************************************************************************)
(* Root.Update: messages.                                                  *)
(***************************************************************************)
\* Another worktree's screens are closed by the sync in switchTo; those the
\* opened one shows are kept.
ScreensAfterSwitch(w) ==
  screens \cap (IF bench[w].tabs = <<>> THEN {} ELSE Visible(bench[w]))

OpenMsg(k) ==
  LET w == cmd[k].wt IN
  /\ cmd[k].at = "message"
  /\ wt' = w /\ listed' = <<>> /\ UNCHANGED <<bench, detached>>
  /\ SyncOver(ScreensAfterSwitch(w), attaching, flights)
  /\ cmd' = [cmd EXCEPT ![k] = [Idle EXCEPT !.kind = "load", !.wt = w, !.at = "list"]]
  /\ UNCHANGED <<server, focus, marks, bounds>>

\* The reply of a load is stale once another worktree is shown.
Stale(c) == c.wt # wt /\ c.created = 0

Placed(c) == IF c.kind = "into" THEN Place(bench[c.wt], c.created) ELSE bench[c.wt]
Taken(c) ==
  LET w == Reconcile(Placed(c), c.got) IN
  IF c.created = 0 THEN w ELSE Show(w, c.created)

TabsMsg(k) ==
  LET c == cmd[k] IN
  /\ c.at = "reply"
  /\ cmd' = [cmd EXCEPT ![k] = Idle]
  /\ IF Stale(c)
     THEN UNCHANGED <<wt, bench, listed, attach, focus, file, early, closed>>
     ELSE /\ wt' = c.wt /\ listed' = c.got
          /\ bench' = [bench EXCEPT ![c.wt] = Taken(c)]
          /\ UNCHANGED detached
          /\ focus' = IF c.kind = "quiet" THEN focus ELSE "terminal"
          /\ SyncOver(IF c.wt = wt THEN screens ELSE ScreensAfterSwitch(c.wt),
                      attaching, flights)
          /\ early' = early \cup
               {s \in PanesOf(bench'[c.wt]) \ (PanesOf(bench[c.wt]) \cup {Empty}) :
                  \E l \in Cmds \ {k} : cmd[l].kind = "into" /\ cmd[l].created = s}
          /\ closed' = [closed EXCEPT ![c.wt] =
               (@ \cap Range(c.got)) \ PanesOf(bench'[c.wt])]
  /\ UNCHANGED <<server, bounds, ops>>

Running(s) == \E w \in Trees : s \in Range(alive[w])
\* An attach fails, or its output ends, with the session or by accident.
Drop(s) ==
  IF Running(s) THEN "drop" \in ops /\ drops < MaxDrops /\ drops' = drops + 1
  ELSE UNCHANGED drops

Landed(s) == [flights EXCEPT ![s] = @ - 1]

ScreenFails(s) ==
  /\ flights[s] > 0
  /\ Drop(s)
  /\ flights' = Landed(s) /\ attaching' = attaching \ {s}
  /\ detached' = detached \cup {s}
  /\ UNCHANGED <<server, wt, bench, listed, screens, focus, cmd, file, marks, acts>>

\* A screen whose pane went away while attaching is closed again.
ScreenArrives(s) ==
  /\ flights[s] > 0
  /\ IF s \notin OnScreen \/ s \in screens
     THEN /\ flights' = Landed(s) /\ attaching' = attaching \ {s}
          /\ UNCHANGED <<screens, detached, wt, bench, listed, file>>
     ELSE /\ UNCHANGED <<wt, bench, listed, detached>>
          /\ SyncOver(screens \cup {s}, attaching \ {s}, Landed(s))
  /\ UNCHANGED <<server, focus, cmd, marks, bounds>>

\* The output of a screen has ended: what the session list says is read anew.
ClosedMsg(s, k) ==
  /\ s \in screens
  /\ Drop(s)
  /\ screens' = screens \ {s}
  /\ detached' = detached \cup {s}
  /\ Send(k, "quiet", wt, "list")
  /\ UNCHANGED <<server, wt, bench, listed, attaching, flights, focus, file, marks, acts>>
-----------------------------------------------------------------------------
(***************************************************************************)
(* Root.do and Root.onMouse: the user.                                     *)
(***************************************************************************)
Act(op) == op \in ops /\ acts < MaxActs /\ acts' = acts + 1

\* Every change of the layout ends with a sync.
Lay(w) ==
  /\ Ready
  /\ bench' = [bench EXCEPT ![wt] = w]
  /\ closed' = [closed EXCEPT ![wt] =
       (@ \cup PanesOf(bench[wt])) \ (PanesOf(w) \cup {Empty})]
  /\ UNCHANGED <<server, wt, listed, cmd, early, ops, drops>>
KeepDetached == UNCHANGED detached

\* enter on a worktree of the sidebar; on the one shown, it goes there.
PressOpen(w, k) ==
  /\ "open" \in ops
  /\ UNCHANGED <<server, wt, bench, listed, attach, file, marks, bounds>>
  /\ \/ w = wt /\ SetFocus("terminal") /\ UNCHANGED cmd
     \/ w # wt /\ Send(k, "open", w, "message") /\ UNCHANGED focus

\* c or t: in the worktree shown, or the one selected in the sidebar.
NewTab(w, k) ==
  /\ "new" \in ops
  /\ focus = "terminal" => w = wt
  /\ Send(k, "new", w, "create")
  /\ UNCHANGED <<server, wt, bench, listed, attach, focus, file, marks, bounds>>

AtChoice == Ready /\ focus = "terminal" /\ Current(bench[wt]).focus = Empty

PickNew(k) ==
  /\ "into" \in ops
  /\ AtChoice
  /\ Send(k, "into", wt, "create")
  /\ UNCHANGED <<server, wt, bench, listed, attach, focus, file, marks, bounds>>

PickHidden(s) ==
  /\ Act("pick")
  /\ AtChoice /\ s \in Hidden(bench[wt], listed)
  /\ Lay(Place(bench[wt], s))
  /\ detached' = detached \ {s}
  /\ UNCHANGED focus
  /\ Sync

SplitPane ==
  /\ Act("split")
  /\ Lay(Split(bench[wt])) /\ KeepDetached
  /\ SetFocus("terminal")
  /\ Sync

CloseFocused ==
  /\ Act("close")
  /\ Lay(ClosePane(bench[wt])) /\ KeepDetached
  /\ SetFocus("terminal")
  /\ Sync

CloseActive ==
  /\ Act("close")
  /\ Lay(CloseTab(bench[wt])) /\ KeepDetached
  /\ SetFocus("terminal")
  /\ Sync

ToggleZoom ==
  /\ Act("zoom")
  /\ Lay([bench[wt] EXCEPT !.zoom = ~@]) /\ KeepDetached
  /\ SetFocus("terminal")
  /\ Sync

SelectTab(i) ==
  /\ Act("select")
  /\ Ready /\ i \in DOMAIN bench[wt].tabs
  /\ Lay([bench[wt] EXCEPT !.active = i, !.zoom = FALSE]) /\ KeepDetached
  /\ SetFocus("terminal")
  /\ Sync

\* Which pane is next to the focused one, Panes says; never the empty one.
Move(s) ==
  /\ Act("select")
  /\ focus = "terminal" /\ Ready
  /\ s \in Range(Current(bench[wt]).leaves) \ {Current(bench[wt]).focus, Empty}
  /\ Lay(WithTab([bench[wt] EXCEPT !.zoom = FALSE],
                 [Current(bench[wt]) EXCEPT !.focus = s])) /\ KeepDetached
  /\ UNCHANGED focus
  /\ Sync

\* A click does not sync, so the file keeps the focus of before.
Click(s) ==
  /\ Act("click")
  /\ s \in OnScreen
  /\ Lay(Show(bench[wt], s))
  /\ SetFocus("terminal")
  /\ UNCHANGED <<attach, file>>

Reattach ==
  /\ Ready /\ focus = "terminal"
  /\ Current(bench[wt]).focus \in detached
  /\ detached' = detached \ {Current(bench[wt]).focus}
  /\ UNCHANGED <<server, wt, bench, listed, focus, cmd, marks, bounds>>
  /\ Sync

GoTo(f) ==
  /\ "select" \in ops
  /\ UNCHANGED <<server, wt, bench, listed, attach, cmd, file, marks, bounds>>
  /\ SetFocus(f)

\* A resize of the window, of a pane, or the end of a drag.
Resized ==
  /\ UNCHANGED <<server, wt, bench, listed, detached, focus, cmd, marks, bounds>>
  /\ Sync

\* The TUI quits, or dies, and is started again with the layouts of its file.
Restart ==
  /\ "restart" \in ops
  /\ wt' = NoTree /\ listed' = <<>> /\ focus' = "sidebar"
  /\ bench' = file
  /\ screens' = {} /\ attaching' = {} /\ detached' = {}
  /\ flights' = [s \in Sessions |-> 0]
  /\ cmd' = [k \in Cmds |-> Idle]
  /\ UNCHANGED <<server, file, marks, bounds>>

User ==
  \/ \E k \in Cmds, w \in Trees : PressOpen(w, k) \/ NewTab(w, k)
  \/ \E k \in Cmds : PickNew(k)
  \/ \E s \in Sessions : PickHidden(s) \/ Move(s)
  \/ \E s \in Pane : Click(s)
  \/ \E i \in 1 .. MaxSessions + MaxActs : SelectTab(i)
  \/ SplitPane \/ CloseFocused \/ CloseActive \/ ToggleZoom
  \/ Reattach \/ Resized
  \/ \E f \in {"sidebar", "terminal"} : GoTo(f)

Server ==
  \/ \E w \in Trees : OtherCreates(w) \/ \E s \in Sessions : SessionEnds(w, s)
  \/ \E k \in Cmds : ListSessions(k) \/ CreateSession(k) \/ RequestFails(k)

Message ==
  \/ \E k \in Cmds : OpenMsg(k) \/ TabsMsg(k) \/ \E s \in Sessions : ClosedMsg(s, k)
  \/ \E s \in Sessions : ScreenFails(s) \/ ScreenArrives(s)

Next == Server \/ Message \/ User \/ Restart

Spec == Init /\ [][Next]_vars
-----------------------------------------------------------------------------
(***************************************************************************)
(* Properties.                                                             *)
(***************************************************************************)
\* Every tab has panes, its focus is one of them, and the active tab exists:
\* what the code indexes without looking.
TypeOK ==
  /\ wt \in Trees \cup {NoTree} /\ focus \in {"sidebar", "terminal"}
  /\ focus = "terminal" => wt # NoTree
  /\ screens \subseteq Sessions /\ attaching \subseteq Sessions /\ detached \subseteq Sessions
  /\ \A w \in Trees : LET b == bench[w] IN
       /\ b.zoom \in BOOLEAN /\ b.known \subseteq Sessions
       /\ b.tabs # <<>> => b.active \in DOMAIN b.tabs
       /\ \A i \in DOMAIN b.tabs : /\ Range(b.tabs[i].leaves) \subseteq Pane
                                   /\ b.tabs[i].focus \in Range(b.tabs[i].leaves)

\* A session lives in one pane at most (DESIGN.md: in exactly one tab), and a
\* tab has one empty pane at most: panes are drawn and attached by session.
\* Not so the session made for a pane that a reload has shown in a tab of its
\* own before the reply came.
OnePlace ==
  \A w \in Trees : \A i, j \in DOMAIN bench[w].tabs :
    \A m \in DOMAIN bench[w].tabs[i].leaves, n \in DOMAIN bench[w].tabs[j].leaves :
      LET s == bench[w].tabs[i].leaves[m] IN
      s = bench[w].tabs[j].leaves[n] =>
        (i = j /\ m = n) \/ s \in early \/ (s = Empty /\ i # j)

\* A pane on screen is live, being attached, or says why not: no message that
\* comes late leaves it blank for ever.
NothingForgotten ==
  \A s \in OnScreen \cap Range(listed) : s \in screens \cup attaching \cup detached

\* A session has one attach of this TUI at most, under way or live: a second
\* one would answer every query twice.
OneAttach ==
  \A s \in Sessions : flights[s] + (IF s \in screens THEN 1 ELSE 0) <= 1

\* No screen outlives its pane.
NoneHidden == screens \subseteq OnScreen

\* The panes of the layout file are those of the screen, whenever the TUI
\* dies; only the focus may be older.
Layout(b) == [i \in DOMAIN b.tabs |-> b.tabs[i].leaves]
LayoutOnFile ==
  \A w \in Trees : Layout(file[w]) = Layout(bench[w]) /\ file[w].known = bench[w].known

\* A session whose pane was closed stays hidden ("whether it's hidden because its
\* pane was closed is the user's choice"): no restart and no list that has it, however
\* late, gives it a pane, but the user's choice or the reply to the request that
\* created it.  A list without it, as one older than the session, ends this: Reconcile
\* forgets that it knew the session, and the next list that has it opens it in a tab.
ClosedStaysClosed ==
  \A w \in Trees, s \in Sessions :
       s \in closed[w] \cap PanesOf(bench'[w])
       => \/ acts' = acts + 1
          \/ \E k \in Cmds : cmd[k].created = s /\ cmd'[k] = Idle

\* A list that the user did not ask a new session with leaves the focused
\* pane focused while its session is there ("quiet reloads leave focus where
\* it is"), as long as it takes no more than one tab before the active one.
Gone(b, ss) ==
  {i \in 1 .. b.active - 1 : LeavesLeft(b.tabs[i], Range(ss)) = <<>>}
ReloadKeeps(k) ==
  LET c == cmd[k]
      f == Current(bench[wt]).focus
  IN /\ c.at = "reply" /\ c.created = 0 /\ c.wt = wt
     /\ cmd'[k].at = "idle" /\ wt' = wt /\ Ready
     /\ f = Empty \/ f \in Range(c.got)
     => /\ Current(bench'[wt]).focus = f
        /\ c.kind = "quiet" => focus' = focus
FocusStays ==
  \A k \in Cmds : Ready /\ Cardinality(Gone(bench[wt], cmd[k].got)) <= 1 => ReloadKeeps(k)

\* Each pane has its one session.
PanesSound == TypeOK /\ OnePlace

\* What Root.sync is for: the attaches and the layout file keep up with the
\* panes on screen, whatever arrives in whatever order.
SyncSound == OneAttach /\ NoneHidden /\ NothingForgotten /\ LayoutOnFile

\* A list that arrives late undoes nothing the user has done, as long as it has the
\* sessions that he has closed the panes of.
ReloadsHarmless == [][ClosedStaysClosed /\ FocusStays]_vars
=============================================================================
