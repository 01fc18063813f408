------------------------------ MODULE FileWatch ------------------------------
(***************************************************************************)
(* How the editor's tabs learn that a file changed on disk: package files' *)
(* Watcher and Manager, /ws/files and the PUT that saves a file, for one   *)
(* worktree.                                                               *)
(***************************************************************************)
EXTENDS Naturals, Sequences, FiniteSets, SequencesExt

CONSTANTS
  Tabs, Paths,
  Saves,        \* PUT requests being served
  Cap,          \* room in a watcher's events channel
  MaxWatchers, MaxWrites   \* bounds


VARIABLES
  entry,     \* the Manager's entry: the watcher (0: none) and its refs
  made,      \* how many watchers were made
  watcher,   \* the watchers, the closed ones too
  tab,       \* the watcher each tab's handler holds; 0: no socket
  save,      \* a PUT between its mark and its write
  writes,
  up,        \* the server runs
  owed,      \* ghost: changed paths that no tab's handler has taken since
  foreign    \* ghost: paths each watcher saw changed by others, or saved unmarked

vars == <<entry, made, watcher, tab, save, writes, up, owed, foreign>>

Ids == 1..MaxWatchers
None == [w |-> 0, refs |-> 0]
Fresh == [open |-> TRUE, loop |-> TRUE, raw |-> <<>>, recent |-> {}, timers |-> {},
          fired |-> [p \in Paths |-> 0], chan |-> <<>>]
Unmade == [Fresh EXCEPT !.open = FALSE, !.loop = FALSE]
NoSave == [at |-> "idle"]

Init ==
  /\ entry = None /\ made = 0
  /\ watcher = [i \in Ids |-> Unmade]
  /\ tab = [t \in Tabs |-> 0] /\ save = [k \in Saves |-> NoSave]
  /\ writes = 0 /\ up = TRUE
  /\ owed = {} /\ foreign = [i \in Ids |-> {}]

-----------------------------------------------------------------------------
(* The Manager: both operations hold its lock throughout.                  *)

Subscribe(t) ==
  /\ up /\ tab[t] = 0
  /\ IF entry.w # 0
       THEN /\ entry' = [entry EXCEPT !.refs = @ + 1]
            /\ UNCHANGED <<made, watcher>>
       ELSE /\ made < MaxWatchers /\ made' = made + 1
            /\ watcher' = [watcher EXCEPT ![made + 1] = Fresh]
            /\ entry' = [w |-> made + 1, refs |-> 1]
  /\ tab' = [tab EXCEPT ![t] = entry'.w]
  /\ UNCHANGED <<save, writes, up, owed, foreign>>

Close(i) == [watcher EXCEPT ![i].open = FALSE]

UnsubscribeClosing(t) ==  \* mutant: whoever leaves closes the watcher
  /\ up /\ tab[t] # 0
  /\ entry' = None /\ watcher' = Close(entry.w) /\ owed' = {}
  /\ tab' = [tab EXCEPT ![t] = 0]
  /\ UNCHANGED <<made, save, writes, up, foreign>>
\* The tab's socket ends.  Close does not stop the timers.
Unsubscribe(t) ==
  /\ up /\ tab[t] # 0
  /\ IF entry.refs > 1
       THEN entry' = [entry EXCEPT !.refs = @ - 1] /\ UNCHANGED <<watcher, owed>>
       ELSE entry' = None /\ watcher' = Close(entry.w) /\ owed' = {}
  /\ tab' = [tab EXCEPT ![t] = 0]
  /\ UNCHANGED <<made, save, writes, up, foreign>>

-----------------------------------------------------------------------------
(* Writes to the worktree's files.                                         *)

\* fsnotify queues a write for the watcher that is open.
Seen(p, own) ==
  watcher' = [i \in Ids |-> IF watcher[i].open THEN [watcher[i] EXCEPT !.raw = Append(@, <<p, own>>)]
                            ELSE watcher[i]]

\* An agent, git or another editor writes a file.
WriteOutside(p) ==
  /\ writes < MaxWrites /\ writes' = writes + 1
  /\ Seen(p, FALSE)
  /\ foreign' = [i \in Ids |-> IF watcher[i].open THEN foreign[i] \cup {p} ELSE foreign[i]]
  /\ UNCHANGED <<entry, made, tab, save, up, owed>>

MarkOwnWrite(i, p) == [watcher EXCEPT ![i].recent = @ \cup {p}]
\* handlePutFileContent marks before it writes: no watcher, no mark.
Mark(k, p) ==
  /\ up /\ save[k] = NoSave /\ writes < MaxWrites
  /\ writes' = writes + 1
  /\ save' = [save EXCEPT ![k] = [at |-> "marked", p |-> p, w |-> entry.w]]
  /\ IF entry.w = 0 THEN UNCHANGED watcher
     ELSE watcher' = MarkOwnWrite(entry.w, p)
  /\ UNCHANGED <<entry, made, tab, up, owed, foreign>>

\* A watcher made since the mark does not know the write for the server's own.
WriteSaved(k) ==
  LET p == save[k].p IN
  /\ up /\ save[k].at = "marked"
  /\ Seen(p, TRUE)
  /\ foreign' = [i \in Ids |-> IF watcher[i].open /\ i # save[k].w THEN foreign[i] \cup {p}
                               ELSE foreign[i]]
  /\ save' = [save EXCEPT ![k] = NoSave]
  /\ UNCHANGED <<entry, made, tab, writes, up, owed>>

\* WriteFile fails: the path escapes, is not there or is a directory.
SaveFails(k) ==
  /\ up /\ save[k].at = "marked" /\ save' = [save EXCEPT ![k] = NoSave]
  /\ UNCHANGED <<entry, made, watcher, tab, writes, up, owed, foreign>>

-----------------------------------------------------------------------------
(* A Watcher.                                                              *)

\* handleRawEvent; the loop may still take an event of a closed watcher.
RawEvent(i) ==
  LET w == watcher[i]
      p == Head(w.raw)[1]
      quiet == p \in w.recent
  IN /\ up /\ w.loop /\ w.raw # <<>>
     /\ watcher' = [watcher EXCEPT ![i].raw = Tail(@),
                                   ![i].timers = IF quiet THEN @ ELSE @ \cup {p}]
     /\ owed' = IF quiet \/ ~w.open THEN owed ELSE owed \cup {p}
     /\ UNCHANGED <<entry, made, tab, save, writes, up, foreign>>

\* The own-write window of p passes.  It is long enough for a save that has marked
\* to be written and for what fsnotify tells of it to be read.
WindowEnds(i, p) ==
  /\ up /\ p \in watcher[i].recent
  /\ <<p, TRUE>> \notin ToSet(watcher[i].raw)
  /\ \A k \in Saves : save[k] # NoSave => save[k].p # p
  /\ watcher' = [watcher EXCEPT ![i].recent = @ \ {p}]
  /\ UNCHANGED <<entry, made, tab, save, writes, up, owed, foreign>>

TimerFires(i, p) ==
  /\ up /\ p \in watcher[i].timers
  /\ watcher' = [watcher EXCEPT ![i].timers = @ \ {p}, ![i].fired[p] = @ + 1]
  /\ UNCHANGED <<entry, made, tab, save, writes, up, owed, foreign>>

\* The timer's select, while the events channel is open and has room.
ReportOrDrop(i, p) ==  \* mutant: a full channel loses the event
  /\ up /\ watcher[i].fired[p] > 0 /\ watcher[i].loop
  /\ watcher' = [watcher EXCEPT ![i].fired[p] = @ - 1,
                                ![i].chan = IF Len(@) < Cap THEN Append(@, p) ELSE @]
  /\ UNCHANGED <<entry, made, tab, save, writes, up, owed, foreign>>
Report(i, p) ==
  /\ up /\ watcher[i].fired[p] > 0 /\ watcher[i].loop /\ Len(watcher[i].chan) < Cap
  /\ watcher' = [watcher EXCEPT ![i].fired[p] = @ - 1, ![i].chan = Append(@, p)]
  /\ UNCHANGED <<entry, made, tab, save, writes, up, owed, foreign>>

\* Its other case: the watcher is closed.
GiveUp(i, p) ==
  /\ up /\ watcher[i].fired[p] > 0 /\ ~watcher[i].open
  /\ watcher' = [watcher EXCEPT ![i].fired[p] = @ - 1]
  /\ UNCHANGED <<entry, made, tab, save, writes, up, owed, foreign>>

\* Once the loop has closed the channel, select may as well choose to send on it:
\* the server panics, and nothing of all this is left.
SendOnClosed(i, p) ==
  /\ up /\ watcher[i].fired[p] > 0 /\ ~watcher[i].loop
  /\ up' = FALSE
  /\ entry' = None /\ watcher' = [j \in Ids |-> Unmade]
  /\ tab' = [t \in Tabs |-> 0] /\ save' = [k \in Saves |-> NoSave]
  /\ owed' = {} /\ foreign' = [j \in Ids |-> {}]
  /\ UNCHANGED <<made, writes>>

LoopEnds(i) ==
  /\ up /\ watcher[i].loop /\ ~watcher[i].open
  /\ watcher' = [watcher EXCEPT ![i].loop = FALSE]
  /\ UNCHANGED <<entry, made, tab, save, writes, up, owed, foreign>>

\* One of the handlers that wait for an event gets it, and tells its tab alone.
Hand(t) ==
  LET i == tab[t] IN
  /\ up /\ i # 0 /\ watcher[i].chan # <<>>
  /\ watcher' = [watcher EXCEPT ![i].chan = Tail(@)]
  /\ owed' = owed \ {Head(watcher[i].chan)}
  /\ UNCHANGED <<entry, made, tab, save, writes, up, foreign>>

\* The write to the tab fails: its handler has the event and returns.  The other
\* tabs are not told.
HandFails(t) ==
  LET i == tab[t]
      taken == [watcher EXCEPT ![i].chan = Tail(@)]
  IN /\ up /\ i # 0 /\ watcher[i].chan # <<>>
     /\ IF entry.refs > 1
          THEN /\ entry' = [entry EXCEPT !.refs = @ - 1] /\ watcher' = taken
               /\ owed' = owed \ {Head(watcher[i].chan)}
          ELSE /\ entry' = None /\ watcher' = [taken EXCEPT ![entry.w].open = FALSE]
               /\ owed' = {}
     /\ tab' = [tab EXCEPT ![t] = 0]
     /\ UNCHANGED <<made, save, writes, up, foreign>>
Takes(t) == Hand(t) \/ HandFails(t)

Restart ==
  /\ ~up /\ up' = TRUE
  /\ UNCHANGED <<entry, made, watcher, tab, save, writes, owed, foreign>>

Runs(i) == RawEvent(i) \/ \E p \in Paths : TimerFires(i, p) \/ Report(i, p)
WatcherStep(i) ==
  Runs(i) \/ LoopEnds(i) \/ \E p \in Paths : GiveUp(i, p) \/ SendOnClosed(i, p)
Next ==
  \/ \E t \in Tabs : Subscribe(t) \/ Unsubscribe(t) \/ Takes(t)
  \/ \E p \in Paths : WriteOutside(p)
  \/ \E k \in Saves : WriteSaved(k) \/ SaveFails(k) \/ \E p \in Paths : Mark(k, p)
  \/ \E i \in Ids : WatcherStep(i) \/ \E p \in Paths : WindowEnds(i, p)
  \/ Restart

Spec == Init /\ [][Next]_vars

-----------------------------------------------------------------------------
(* Properties.                                                             *)

TypeOK ==
  /\ entry \in [w : 0..MaxWatchers, refs : 0..Cardinality(Tabs)] /\ made \in 0..MaxWatchers
  /\ watcher \in [Ids -> [open : BOOLEAN, loop : BOOLEAN, raw : Seq(Paths \X BOOLEAN),
                          recent : SUBSET Paths, timers : SUBSET Paths,
                          fired : [Paths -> 0..MaxWrites], chan : Seq(Paths)]]
  /\ \A i \in Ids : Len(watcher[i].chan) <= Cap
  /\ tab \in [Tabs -> 0..MaxWatchers]
  /\ save \in [Saves -> {NoSave} \cup [at : {"marked"}, p : Paths, w : 0..MaxWatchers]]
  /\ writes \in 0..MaxWrites /\ up \in BOOLEAN
  /\ owed \subseteq Paths /\ foreign \in [Ids -> SUBSET Paths]

\* However tabs come and go, all that are there share the one watcher that is open,
\* and it is closed exactly when none is left.
OneWatcher ==
  up => /\ entry.refs = Cardinality({t \in Tabs : tab[t] # 0})
        /\ \A t \in Tabs : tab[t] # 0 => tab[t] = entry.w /\ watcher[entry.w].loop
        /\ \A i \in Ids : watcher[i].open <=> i = entry.w

\* No tab is told of a change that only a save of the server made, if the watcher
\* was there when the save marked it.
OwnSaveUntold ==
  \A i \in Ids, p \in Paths :
    p \in watcher[i].timers \/ watcher[i].fired[p] > 0 \/ p \in ToSet(watcher[i].chan)
      => p \in foreign[i]

\* A change by others that no own-write window hides is taken by some tab's handler,
\* for as long as a tab is there: a full channel and a slow tab delay it and do not
\* lose it.  What the handler has taken is told or, if the write to its tab fails,
\* told to nobody (HandFails), though other tabs are there.
ChangeIsTaken == \A p \in Paths : p \in owed ~> p \notin owed

\* A watcher is there for exactly the tabs that use it, and tells them nothing they
\* have done themselves.
WatcherSound == TypeOK /\ OneWatcher /\ OwnSaveUntold
=============================================================================
