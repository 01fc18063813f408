------------------------------ MODULE Terminals ------------------------------
(***************************************************************************)
(* The terminal manager of internal/term on the ptyd backend, with the API *)
(* handlers that use it: terminal rows in the store, the sessions of the   *)
(* PTY daemon behind them, the logs the daemon keeps for them, and the     *)
(* worktrees they belong to.                                               *)
(*                                                                         *)
(* No lock covers a handler.  It reads rows and lists of sessions, then    *)
(* works through them one call of the daemon and one SQL statement at a    *)
(* time, and any other handler may run in between: a step here is one such *)
(* call or statement.                                                      *)
(*                                                                         *)
(* The daemon is what PtydDaemon shows it to be, seen from its socket: a   *)
(* session stays listed after it was hung up or its shell has ended (it is *)
(* "ending"), until its run goroutine has deleted it.                      *)
(***************************************************************************)
EXTENDS Naturals, FiniteSets

CONSTANTS
  Trees,   \* worktrees
  Tabs,    \* terminal ids, each used for one terminal
  Calls,   \* requests and background jobs of the server at the same time
  Ops,     \* which of them, and which failures, occur
  Nil      \* no worktree, no tab, no operation

Operations == {"create", "close", "archive", "unarchive", "remove", "open",
               "restart", "prune", "reap", "reconcile"}
Failures == {"dies", "ptydcrash", "crash", "reboot", "fails", "unsaved"}

ASSUME TerminalsAssumption ==
  /\ Ops \subseteq Operations \cup Failures
  /\ Nil \notin Trees \cup Tabs \cup Operations

VARIABLES
  tree,      \* worktrees.status, "gone" without a row
  dir,       \* the worktree's checkout is on disk
  tab,       \* terminal_sessions: the worktree of each tab, Nil without a row
  made,      \* terminal ids handed out
  shell,     \* the daemon's session of each tab
  fate,      \* why it ends: by itself, suspended or killed
  saved,     \* its log is on disk
  closing,   \* the daemon has been told to shut down
  server,    \* "boot": Reconcile, before the server listens; then "up"
  call       \* the requests and jobs in progress

daemon == <<shell, fate, saved, closing>>
store == <<tree, tab>>
vars == <<store, dir, made, daemon, server, call>>

IdleCall == [op |-> Nil, pc |-> "idle", w |-> Nil, t |-> Nil, todo |-> {}]

CallStates == {"idle", "addrow", "list", "rows", "loop", "kill", "drop",
               "restore", "alive", "saved", "shutdown", "wait", "status", "row"}

TypeOK ==
  /\ tree \in [Trees -> {"active", "archived", "gone"}]
  /\ dir \in [Trees -> BOOLEAN]
  /\ tab \in [Tabs -> Trees \cup {Nil}]
  /\ made \in SUBSET Tabs
  /\ shell \in [Tabs -> {"none", "live", "ending"}]
  /\ fate \in [Tabs -> {"own", "keep", "discard"}]
  /\ saved \in [Tabs -> BOOLEAN]
  /\ closing \in BOOLEAN
  /\ server \in {"boot", "up"}
  /\ call \in [Calls -> [op : Operations \cup {Nil}, pc : CallStates,
                         w : Trees \cup {Nil}, t : Tabs \cup {Nil},
                         todo : SUBSET Tabs]]

\* A server that runs, with some terminals open.
Init ==
  /\ tree = [w \in Trees |-> "active"]
  /\ dir = [w \in Trees |-> TRUE]
  /\ tab \in [Tabs -> Trees \cup {Nil}]
  /\ made = {t \in Tabs : tab[t] # Nil}
  /\ shell = [t \in Tabs |-> IF tab[t] # Nil THEN "live" ELSE "none"]
  /\ fate = [t \in Tabs |-> "own"]
  /\ saved = [t \in Tabs |-> FALSE]
  /\ closing = FALSE
  /\ server = "up"
  /\ call = [c \in Calls |-> IdleCall]

Listed(t) == shell[t] # "none"      \* Client.List, Client.Get: Alive
RowsOf(w) == {t \in Tabs : tab[t] = w}
-----------------------------------------------------------------------------
(***************************************************************************)
(* The daemon and the shells.                                              *)
(***************************************************************************)
Dies(t) ==          \* the shell exits or dies
  /\ "dies" \in Ops /\ shell[t] = "live"
  /\ shell' = [shell EXCEPT ![t] = "ending"]
  /\ fate' = [fate EXCEPT ![t] = "own"]
  /\ UNCHANGED <<store, dir, made, saved, closing, server, call>>

Gone(t) ==          \* run has finished: the log goes with the session, or not
  /\ shell[t] = "ending"
  /\ shell' = [shell EXCEPT ![t] = "none"]
  /\ \/ fate[t] # "keep" /\ saved' = [saved EXCEPT ![t] = FALSE]
     \/ fate[t] # "discard" /\ UNCHANGED saved
  /\ UNCHANGED <<store, dir, made, fate, closing, server, call>>

Tick(t) ==          \* the daemon's save
  /\ Listed(t) /\ ~saved[t]
  /\ saved' = [saved EXCEPT ![t] = TRUE]
  /\ UNCHANGED <<store, dir, made, shell, fate, closing, server, call>>

DaemonGone ==
  /\ \/ "ptydcrash" \in Ops
     \/ closing
  /\ shell' = [t \in Tabs |-> "none"]
  /\ closing' = FALSE
  /\ UNCHANGED <<store, dir, made, fate, saved, server, call>>

HangupLogOnly(t) ==
  /\ saved' = [saved EXCEPT ![t] = FALSE]
  /\ UNCHANGED <<shell, fate>>

\* Client.Kill.  A session whose run has read its flags already ends as it
\* would have anyhow.
Hangup(t) ==
  \/ /\ ~Listed(t)
     /\ saved' = [saved EXCEPT ![t] = FALSE]
     /\ UNCHANGED <<shell, fate>>
  \/ /\ Listed(t)
     /\ shell' = [shell EXCEPT ![t] = "ending"]
     /\ fate' = [fate EXCEPT ![t] = "discard"]
     /\ UNCHANGED saved
  \/ /\ shell[t] = "ending"
     /\ UNCHANGED <<shell, fate, saved>>

\* The daemon's last save of some logs: those whose writing fails.  Nobody is told;
\* a log of an earlier save stays.
Unwritten(logs) == IF "unsaved" \in Ops THEN SUBSET logs ELSE {{}}

\* Client.Suspend.
Suspend(t) ==
  \/ /\ Listed(t)
     /\ shell' = [shell EXCEPT ![t] = "ending"]
     /\ fate' = [fate EXCEPT ![t] = IF @ = "discard" /\ ~(shell[t] = "live")
                                    THEN "discard" ELSE "keep"]
     /\ \E lost \in Unwritten({t}) : saved' = [saved EXCEPT ![t] = @ \/ t \notin lost]
  \/ /\ shell[t] # "live"
     /\ UNCHANGED <<shell, fate, saved>>

\* Client.Create and Client.Restore.
Spawn(t) ==
  /\ ~Listed(t)
  /\ shell' = [shell EXCEPT ![t] = "live"]
  /\ UNCHANGED <<fate, saved, closing>>
-----------------------------------------------------------------------------
(***************************************************************************)
(* Requests and jobs: how they begin.                                      *)
(***************************************************************************)
Begin(c, op, new) ==
  /\ op \in Ops /\ server = "up" /\ call[c].pc = "idle"
  /\ call' = [call EXCEPT ![c] = new]

OnTree(op, w) == [IdleCall EXCEPT !.op = op, !.pc = "list", !.w = w]
OnTab(op, pc, w, t) == [IdleCall EXCEPT !.op = op, !.pc = pc, !.w = w, !.t = t]
OnSessions(op, pc) ==
  [IdleCall EXCEPT !.op = op, !.pc = pc, !.todo = {t \in Tabs : Listed(t)}]

Create(c, w, t) ==     \* handleCreateTerminal: the session comes first
  /\ tree[w] # "gone" /\ dir[w] /\ t \notin made
  /\ Begin(c, "create", OnTab("create", "addrow", w, t))
  /\ made' = made \cup {t}
  /\ Spawn(t)
  /\ UNCHANGED <<store, dir, server>>

Close(c, t) ==         \* handleDeleteTerminal
  /\ tab[t] # Nil
  /\ Begin(c, "close", OnTab("close", "kill", tab[t], t))
  /\ UNCHANGED <<store, dir, made, daemon, server>>

Open(c, t) ==          \* handleTerminalWS
  /\ tab[t] # Nil
  /\ Begin(c, "open", OnTab("open", "alive", tab[t], t))
  /\ UNCHANGED <<store, dir, made, daemon, server>>

Archive(c, w) ==       \* handleArchiveWorktree
  /\ tree[w] # "gone"
  /\ Begin(c, "archive", OnTree("archive", w))
  /\ UNCHANGED <<store, dir, made, daemon, server>>

Unarchive(c, w) ==     \* handleUnarchiveWorktree
  /\ tree[w] # "gone"
  /\ Begin(c, "unarchive", OnTree("unarchive", w))
  /\ UNCHANGED <<store, dir, made, daemon, server>>

Remove(c, w) ==        \* hardRemoveWorktree: git goes first
  /\ tree[w] # "gone"
  /\ Begin(c, "remove", OnTree("remove", w))
  /\ dir' = [dir EXCEPT ![w] = FALSE]
  /\ UNCHANGED <<store, made, daemon, server>>

Restart(c) ==          \* RestartPtyd
  /\ Begin(c, "restart", OnSessions("restart", "shutdown"))
  /\ UNCHANGED <<store, dir, made, daemon, server>>

Prune(c) ==            \* KillOrphans
  /\ Begin(c, "prune", OnSessions("prune", "rows"))
  /\ UNCHANGED <<store, dir, made, daemon, server>>

Reap(c) ==             \* ReapIdle: FindIdle, from the sessions and the rows
  /\ \E idle \in SUBSET {t \in Tabs : Listed(t) /\ tab[t] # Nil} :
       Begin(c, "reap", [IdleCall EXCEPT !.op = "reap", !.pc = "loop", !.todo = idle])
  /\ UNCHANGED <<store, dir, made, daemon, server>>

Reconcile(c) ==        \* at startup, alone
  /\ server = "boot" /\ \A d \in Calls : call[d].pc = "idle"
  /\ call' = [call EXCEPT ![c] = OnSessions("reconcile", "rows")]
  /\ UNCHANGED <<store, dir, made, daemon, server>>
-----------------------------------------------------------------------------
(***************************************************************************)
(* Requests and jobs: what they do.                                        *)
(***************************************************************************)
At(c, pc) == call[c].pc = pc
Goto(c, pc) == call' = [call EXCEPT ![c] = [@ EXCEPT !.pc = pc]]
Finish(c) == call' = [call EXCEPT ![c] = IdleCall]
Next1(c) ==      \* to the next tab of the loop
  call' = [call EXCEPT ![c] = [@ EXCEPT !.pc = "loop", !.t = Nil]]

AddRow(c) ==     \* AddTerminalSession fails on the foreign key
  /\ At(c, "addrow")
  /\ IF tree[call[c].w] # "gone"
     THEN tab' = [tab EXCEPT ![call[c].t] = call[c].w] /\ Finish(c)
     ELSE Goto(c, "kill") /\ UNCHANGED tab
  /\ UNCHANGED <<tree, dir, made, daemon, server>>

List(c) ==       \* ListTerminalSessions
  /\ At(c, "list")
  /\ call' = [call EXCEPT ![c] =
       [@ EXCEPT !.pc = "loop", !.todo = RowsOf(call[c].w)]]
  /\ UNCHANGED <<store, dir, made, daemon, server>>

\* Activity protects a session from being pruned, its creation being one.
Young(t) == \E c \in Calls : call[c].op = "create" /\ call[c].t = t

RowsSparingNone(c) ==
  /\ At(c, "rows")
  /\ LET known == {t \in Tabs : tab[t] # Nil} IN
     call' = [call EXCEPT ![c] = [call[c] EXCEPT !.pc = "loop",
       !.todo = IF call[c].op = "reconcile" THEN known \ @ ELSE @ \ known]]
  /\ UNCHANGED <<store, dir, made, daemon, server>>

Rows(c) ==       \* ListAllTerminalSessions, after the sessions were listed
  /\ At(c, "rows")
  /\ LET known == {t \in Tabs : tab[t] # Nil}
         spared == known \cup {t \in Tabs : Young(t)} IN
     call' = [call EXCEPT ![c] = [call[c] EXCEPT !.pc = "loop",
       !.todo = IF call[c].op = "reconcile" THEN known \ @ ELSE @ \ spared]]
  /\ UNCHANGED <<store, dir, made, daemon, server>>

\* RestartPtyd's Shutdown: sessions whose run has finished with the flags and
\* the log are not touched by it any more.
Shutdown(c) ==
  /\ At(c, "shutdown")
  /\ closing' = TRUE
  /\ \E late \in SUBSET {t \in Tabs : shell[t] = "ending"} :
       LET saves == {t \in Tabs : Listed(t)} \ late IN
       /\ \E lost \in Unwritten(saves) :
            saved' = [t \in Tabs |-> saved[t] \/ t \in saves \ lost]
       /\ fate' = [t \in Tabs |->
            IF t \in saves /\ (shell[t] = "live" \/ fate[t] # "discard")
            THEN "keep" ELSE fate[t]]
  /\ shell' = [t \in Tabs |-> IF Listed(t) THEN "ending" ELSE "none"]
  /\ Goto(c, "wait")
  /\ UNCHANGED <<store, dir, made, server>>

Wait(c) ==       \* until the socket does not answer any more, or five seconds
  /\ At(c, "wait")
  /\ \/ ~closing /\ Goto(c, "loop")
     \/ closing /\ "fails" \in Ops /\ Finish(c)
  /\ UNCHANGED <<store, dir, made, daemon, server>>

SkipNoneArchived(c, t) ==
  \/ call[c].op = "unarchive" /\ Listed(t)
  \/ call[c].op = "reap" /\ tab[t] = Nil

\* One tab of the loop needs nothing, or needs something of the daemon.
Skip(c, t) ==
  \/ call[c].op = "unarchive" /\ Listed(t)
  \/ call[c].op = "reap" /\ tab[t] = Nil
  \/ call[c].op = "reconcile" /\ tree[tab[t]] = "archived"

WorkDroppingAll(c, t) ==
  CASE call[c].op = "unarchive" -> "restore"
    [] call[c].op = "restart" /\ tab[t] # Nil -> "restore"
    [] OTHER -> "kill"

Work(c, t) ==
  CASE call[c].op = "unarchive" -> "restore"
    [] call[c].op = "restart" /\ tab[t] # Nil -> "restore"
    [] call[c].op = "reconcile" /\ saved[t] -> "restore"
    [] OTHER -> "kill"

SuspendTab(c, t) ==
  /\ At(c, "loop") /\ call[c].op = "archive" /\ t \in call[c].todo
  /\ \/ /\ Suspend(t)
        /\ call' = [call EXCEPT ![c] = [call[c] EXCEPT !.todo = @ \ {t}]]
     \/ /\ "fails" \in Ops      \* only logged: the status changes all the same
        /\ Goto(c, "status")
        /\ UNCHANGED <<shell, fate, saved>>
  /\ UNCHANGED <<store, dir, made, closing, server>>

PickTab(c, t) ==
  /\ At(c, "loop") /\ call[c].op # "archive" /\ t \in call[c].todo
  /\ call' = [call EXCEPT ![c] =
       IF Skip(c, t) THEN [call[c] EXCEPT !.todo = @ \ {t}]
       ELSE [call[c] EXCEPT !.todo = @ \ {t}, !.pc = Work(c, t), !.t = t,
                            !.w = IF call[c].op \in {"restart", "reconcile"}
                                  THEN tab[t] ELSE @]]
  /\ UNCHANGED <<store, dir, made, daemon, server>>

Alive(c) ==      \* handleTerminalWS finds the session gone, or attaches
  /\ At(c, "alive")
  /\ IF Listed(call[c].t) THEN Finish(c) ELSE Goto(c, "saved")
  /\ UNCHANGED <<store, dir, made, daemon, server>>

HasSaved(c) ==
  /\ At(c, "saved")
  /\ IF saved[call[c].t] THEN Goto(c, "restore") ELSE Finish(c)
  /\ UNCHANGED <<store, dir, made, daemon, server>>

RestoreFailed(c) ==
  CASE call[c].op = "unarchive" -> Goto(c, "status")
    [] call[c].op = "reconcile" -> Goto(c, "kill")
    [] OTHER -> Finish(c)

CanRestore(c) ==
  ~Listed(call[c].t) /\ tree[call[c].w] # "gone" /\ dir[call[c].w]

Restore(c) ==    \* Manager.Restore: a new shell under the same id
  /\ At(c, "restore")
  /\ \/ /\ CanRestore(c)
        /\ Spawn(call[c].t)
        /\ IF call[c].op = "open" THEN Finish(c) ELSE Next1(c)
     \/ /\ ~CanRestore(c) \/ closing \/ "fails" \in Ops
        /\ RestoreFailed(c)
        /\ UNCHANGED daemon
  /\ UNCHANGED <<store, dir, made, server>>

Kill(c) ==       \* its error is ignored by every caller
  /\ At(c, "kill")
  /\ Hangup(call[c].t)
  /\ CASE call[c].op = "create" -> Finish(c)
       [] call[c].op \in {"prune", "restart"} -> Next1(c)
       [] OTHER -> Goto(c, "drop")
  /\ UNCHANGED <<store, dir, made, closing, server>>

Drop(c) ==       \* RemoveTerminalSession
  /\ At(c, "drop")
  /\ tab' = [tab EXCEPT ![call[c].t] = Nil]
  /\ IF call[c].op = "close" THEN Finish(c) ELSE Next1(c)
  /\ UNCHANGED <<tree, dir, made, daemon, server>>

LoopEnd(c) ==
  /\ At(c, "loop") /\ call[c].todo = {}
  /\ CASE call[c].op \in {"archive", "unarchive"} -> Goto(c, "status")
       [] call[c].op = "remove" -> Goto(c, "row")
       [] OTHER -> Finish(c)
  /\ server' = "up"      \* Reconcile returns, the server listens
  /\ UNCHANGED <<store, dir, made, daemon>>

SetStatus(c) ==  \* SetWorktreeStatus
  /\ At(c, "status")
  /\ LET w == call[c].w
         status == IF call[c].op = "archive" THEN "archived" ELSE "active" IN
     tree' = [tree EXCEPT ![w] = IF @ = "gone" THEN "gone" ELSE status]
  /\ Finish(c)
  /\ UNCHANGED <<tab, dir, made, daemon, server>>

RemoveRow(c) ==  \* RemoveWorktree; the terminal rows go by cascade
  /\ At(c, "row")
  /\ tree' = [tree EXCEPT ![call[c].w] = "gone"]
  /\ tab' = [t \in Tabs |-> IF tab[t] = call[c].w THEN Nil ELSE tab[t]]
  /\ Finish(c)
  /\ UNCHANGED <<dir, made, daemon, server>>
-----------------------------------------------------------------------------
Quiet == \A c \in Calls : call[c].pc = "idle"

ServerGone ==        \* stopped while quiet, or killed
  /\ \/ "crash" \in Ops
     \/ "reboot" \in Ops /\ server = "up" /\ Quiet
  /\ server' = "boot"
  /\ call' = [c \in Calls |-> IdleCall]
  /\ UNCHANGED <<store, dir, made, daemon>>

TabStep(t) == Dies(t) \/ Gone(t) \/ Tick(t)

Request(c) ==
  \/ \E w \in Trees, t \in Tabs : Create(c, w, t)
  \/ \E t \in Tabs : Close(c, t) \/ Open(c, t)
  \/ \E w \in Trees : Archive(c, w) \/ Unarchive(c, w) \/ Remove(c, w)
  \/ Restart(c) \/ Prune(c) \/ Reap(c)

Progress(c) ==
  \/ AddRow(c) \/ List(c) \/ Rows(c) \/ Shutdown(c) \/ Wait(c)
  \/ Alive(c) \/ HasSaved(c) \/ Restore(c) \/ Kill(c) \/ Drop(c)
  \/ \E t \in Tabs : SuspendTab(c, t) \/ PickTab(c, t)
  \/ LoopEnd(c) \/ SetStatus(c) \/ RemoveRow(c)

Next ==
  \/ \E t \in Tabs : TabStep(t)
  \/ \E c \in Calls : Request(c) \/ Reconcile(c) \/ Progress(c)
  \/ DaemonGone \/ ServerGone

Spec == Init /\ [][Next]_vars
-----------------------------------------------------------------------------
(***************************************************************************)
(* Safety.                                                                 *)
(***************************************************************************)

\* Every live shell can be reached: it has a tab, or a request still in
\* progress is about to give it one or to end it.  A close, a reap and a
\* removal kill the session before its row goes, so that whatever stops the
\* server in between leaves a row, never a shell nobody knows of.
NoStrayShell ==
  \A t \in Tabs : shell[t] = "live" =>
    \/ tab[t] # Nil
    \/ \E c \in Calls : call[c].t = t /\ call[c].pc \in {"addrow", "kill"}

\* A log on disk that an archive or a daemon restart has put aside.
Aside(t) == fate[t] = "keep" /\ shell[t] # "live" /\ saved[t]

\* The step by which a request kills the tab's session and deletes its log: one
\* that closes the tab, Reconcile, or RestartPtyd that has read no row for it.
Killed(t) ==
  \E c \in Calls : /\ call[c].t = t /\ At(c, "kill") /\ ~At(c, "kill")'
                   /\ \/ call[c].op \in {"close", "remove", "reap", "reconcile"}
                      \/ call[c].op = "restart" /\ call[c].w = Nil

\* A tab that is put aside has its log, where no write of a log fails, and keeps it
\* until it is restored or the user has it closed: stops of the server in the middle of an archive, crashes of
\* the daemon, prunes and restarts leave it alone or restore it.  Reconcile deletes
\* it after a restore that failed and never without trying ("drops a saved log
\* that failed to restore"); a restart takes a session it has read no row for as
\* an orphan.
SuspendedTabKept ==
  [][\A t \in Tabs :
       /\ tab[t] # Nil /\ fate[t] # "keep" /\ fate'[t] = "keep" /\ "unsaved" \notin Ops
            => Aside(t)'
       /\ tab[t] # Nil /\ Aside(t) =>
            \/ Aside(t)' \/ shell'[t] = "live" \/ tab'[t] = Nil
            \/ Killed(t)
       /\ tab[t] # Nil /\ Aside(t) =>
            \A c \in Calls : call[c].op = "reconcile" /\ At(c, "loop") /\ call'[c].t = t
                               => At(c, "restore")']_vars

\* Pruning orphans never ends the session of a tab, though tabs are created
\* between its listing of the sessions and its reading of the rows.
PruneSparesTabs ==
  [][\A c \in Calls : call[c].op = "prune" /\ At(c, "kill") /\ ~At(c, "kill")'
       => tab[call[c].t] = Nil]_vars
-----------------------------------------------------------------------------
(***************************************************************************)
(* Liveness.  A session that was hung up or whose shell has died leaves    *)
(* the daemon (PtydDaemon: KilledSessionEnds), and a shutdown ends it; the *)
(* server's goroutines get their turn.                                     *)
(***************************************************************************)
LiveSpec ==
  /\ Spec
  /\ \A t \in Tabs : WF_vars(Gone(t))
  /\ \A c \in Calls : WF_vars(Progress(c)) /\ WF_vars(Reconcile(c))
  /\ WF_vars(closing /\ DaemonGone)

\* Archiving a worktree ends its shells, also those a close is working on, and
\* as long as nobody opens one of its tabs no restart of the server brings one
\* back.
ArchivedShellsEnd ==
  \A w \in Trees :
    tree[w] = "archived" ~> \A t \in RowsOf(w) : shell[t] = "none"
=============================================================================
