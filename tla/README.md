# worktree-studio: TLA+ models and proofs

worktree-studio keeps git worktrees, with terminals in them, behind a local HTTP
server. This directory holds TLA+ modules that model its concurrent and
failure-prone parts, the TLC configurations that check them, and the theorems
that TLAPS proves about them for every size of system.

    tlc -config PtydDaemon_safe.cfg MCPtydDaemon      # any run of PROJECT.json
    tlapm PtydDaemonProofs.tla                        # the proofs

Contents: 1 the system; 2 the plan; 3 the modules and the code; 4 the runs;
5 fairness; 6 the proofs; 7 what is not modelled; 8 divergences found;
9 behaviours the models have and no property forbids.

## 1. The system

### Components

| component | code (`src/`) | state | operations |
|---|---|---|---|
| PTY daemon | `internal/ptyd/server.go`, `scrollback.go` | the map of sessions, each session's flags and scrollback, logs on disk | create, restore, write, resize, attach, list, kill (plain or with keep), shutdown; a save every 15 s |
| PTY client | `internal/ptyd/client.go` | none | the calls above; starts the daemon when none answers |
| Terminal manager | `internal/term` | none of its own: rows in the store against sessions in the daemon | create, close, suspend, restore, reconcile, restart the daemon, prune orphans, reap idle ones |
| Worktree API | `internal/api/api.go`, `archive*.go`, `pin.go`, `worktree_*.go` | none of its own: rows in the store against checkouts in git | create with rollback, import, remove, archive, unarchive, pin, the retention sweep |
| Terminal API | `internal/api/terminals.go` | none | create, delete, open over a websocket and relay |
| Tasks | `internal/api/tasks.go`, `internal/store/tasks.go` | tasks and statuses | label a worktree, settle a task's status, edit statuses |
| Store | `internal/store` | SQLite, one connection | open, migrate and seed; single statements; rows of terminals go with their worktree's by cascade |
| Trackers | `internal/attention`, `internal/openfile` | pending badges, subscribers' channels | set, clear, broadcast, snapshot |
| Files | `internal/files` | watchers with reference counts, recent own writes | subscribe, report, save |
| Spotlight | `internal/spotlight` | which worktree is mirrored | start, sync, stop |
| git | `internal/gitops` | checkouts, branches | calls of the git command |
| Hooks | `internal/githook`, `internal/claudehook` | the post-checkout script, Claude Code's settings and hook scripts | install, refresh, remove |
| Commands | `cmd/worktree-studio` | the server's start, the daemon's lock and socket | serve, ptyd, wts |
| Terminal UI | `src/tui` | tabs and panes per worktree, attachments, the layout file | open, create, split, close, move, resize, reload |
| Web front end | `src/web` | presentation | |

### How they interact

The API's handlers run concurrently, one goroutine per request, and hold no lock
across their steps. A handler reads rows of the store and then changes three
things that fail separately and that no transaction spans: the store, git and the
PTY daemon, which is a process of its own and outlives the server. Background
jobs of the server do the same at the same time: `Reconcile` at startup, before
the server listens; the sweep at startup and every six hours; the idle reaper
every hour. Inside the daemon, `Server.mu` protects the map and `session.mu` one
session; handlers, the tick, a shutdown and each session's `run` goroutine take
and release them in turn.

### What is hard about it, and what makes each part correct

- **PTY daemon.** Handlers keep pointers of sessions that end and are replaced
  meanwhile, `run` decides from flags that others raise whether a log is deleted,
  `run` deletes from the map by id after it has let go of the session. Correct:
  the map and the goroutines agree; a stale save never overwrites a newer log and
  never brings a deleted one back; what a suspend or a shutdown has saved is
  there for the restore, whatever crashes; killed sessions end, output reaches
  the disk.
- **Terminal manager.** Sessions and rows are made and deleted in two steps, with
  a crash possible in between, and jobs compare lists of both that were taken at
  different times. Correct: no shell without a tab; no tab loses its session to a
  prune; what was put aside stays; shells of archived worktrees end and stay
  ended.
- **Worktree API.** git and the store are changed one after the other, each step
  can fail, requests on one worktree overlap, a second removal works from a row
  that is gone. Correct: the rollback's promises are true; no checkout is
  forgotten; a removal takes only its own worktree's checkout; expired worktrees
  go in the end.
- **Tasks.** A status is settled by several statements, from a stale copy, while
  worktrees are relabelled and statuses deleted. Correct: nothing refers to a row
  that is gone; new keys differ; a task is in step with its worktrees once the
  requests about it are done.
- **Trackers.** State and broadcast under separate locks; channels that drop;
  connections that break. Correct: who connects is brought up to date; nothing old
  is opened.
- **Files.** A watcher is shared by tabs that come and go; the server's own writes
  come back as events. Correct: one watcher exactly while it is used; no tab is told
  of its own save; a foreign change is taken by a tab's handler, which tells it.
- **Attach.** Replay and live output must join without gap or overlap, a slow
  client must not hold up the shell, and what an emulator answers to queries of the
  past must not be typed.
- **Daemon start.** Several clients start it, the flock decides, the old process
  may still hold it. Correct: one daemon owns the socket, and every start that is
  not disturbed ends with a daemon.
- **Hooks.** Files that others edit too, no locks. Correct: what is not ours
  survives; an install takes, once.
- **Database.** It is migrated and seeded statement by statement by servers that
  can be killed. Correct: whatever a start leaves, the next can use.
- **Terminal UI.** Its requests are answered late and out of order. Correct: no
  session twice, none attached twice, no pane forgotten, what the user closed stays
  closed as long as the lists have it, lists leave the focus; the panes tile the screen.

`PROJECT.json` lists every hazard at its line with the properties that guard it,
or why none does.

## 2. The plan

In order of importance. All of the first list exists.

1. `PtydDaemon`, `PtydPromise` (the promise to a restore, with a history
   variable), `PtydDaemonProofs`.
2. `Terminals` over what `PtydDaemon` shows of a session, `TerminalsProofs`.
3. `Worktrees`, `WorktreesProofs`.
4. `TerminalView`, what a stream promises, and `PtydAttach`, which implements it,
   `PtydAttachProofs`.
5. `PtydStart`, with its proofs in `StartProofs`.
6. `Tasks`, `TasksInStep` (a history variable for interference), `TasksProofs`.
7. `Workbench` over `Panes`: the terminal UI; `WorkbenchProofs`.
8. `Trackers`, `FileWatch`, `ClaudeHooks`, `GitHook`, `Catalog`, with `ServicesProofs`
   for the first three and `StartProofs` for the last two.

What is left: Spotlight; the emulator's and the shell's sizes; the web front end's
polling; `SessionStore`, the daemon as its clients see it, which `PtydDaemon` would
implement and whose actions `Terminals` would use. The safety properties the runs check
are all proved; what is left there is liveness, which is for TLC.

## 3. The modules and the code

### PtydDaemon (`internal/ptyd/server.go`, `client.go`)

A step is one critical section of `Server.mu` or `session.mu`. State: `sessions`
is `Server.sessions`; `sid`, `buf`, `dirty`, `keep`, `discard` are a session's
fields; `run` is where its `run` goroutine stands, `sawStop` that goroutine's
copy of `Server.stopping`; `proc` is the shell; `killing` says that `kill` has
sent SIGHUP and a SIGKILL is due; `tick` is what the current `saveAll` has left;
`conn` is one record per client call, with the session pointer the handler
looked up; `log` is the directory of logs; `phase` and `stopping` are the
daemon's process. Output is numbered chunks, a scrollback is the set of those it
holds, its bound (`Newest`) the newest `MaxScrollback` of them.

| actions | code |
|---|---|
| `CreateRequest` | `create`, whole, under `Server.mu` |
| `Output` | `broadcast`, as far as the scrollback goes |
| `RunReadStopping`, `RunMarkExited`, `RunDelete` | the three sections in which `run` ends a session |
| `ProcEnd`, `SigKill` | the process; the goroutine that `kill` starts |
| `TickStart`, `TickSave` | `saveAll`, one `save` at a time |
| `Lookup`, `Flag`, `SaveKept`, `HangUp`, `Unlink` | the handler of kill, plain or with keep |
| `KillNobody`, `Return`, `Wipe` | `Client.Kill`'s own end: without a daemon it deletes the log itself |
| `Shutdown`, `Snapshot`, `ShutdownSave`, `CloseListener`, `Exit` | `shutdown`, and the process's exit |
| `Crash`, `Start` | the process is killed at any point; a client starts the next |

`PtydPromise` adds `owed`: per id the scrollback that the last successful save of
a suspend or of a shutdown has promised to the restore.

### Terminals (`internal/term`, `internal/api/terminals.go` and the handlers above it)

A step is one call of the daemon or one SQL statement. `tree` and `tab` are the
rows of worktrees and of terminals, `dir` the checkout on disk; `shell`, `fate`
and `saved` are the daemon as `PtydDaemon` shows it from its socket: a session
stays listed ("ending") after it was hung up or its shell died, then goes, with
its log or without. Where `PtydDaemon` leaves more than one outcome (a hang-up
that comes too late to change what `run` does), the action here allows each of
them. `call` is one record per request or job: what it does (`op`), where it
stands, its tab and worktree, and the tabs of its list it has still to visit.

| actions | code |
|---|---|
| `Create`, `AddRow`, `Kill` | `handleCreateTerminal`: session, row, and the kill when the row fails |
| `Close`, `Kill`, `Drop` | `handleDeleteTerminal`, `CloseSession` |
| `Open`, `Alive`, `HasSaved`, `Restore` | `handleTerminalWS` |
| `Archive`, `List`, `SuspendTab`, `SetStatus` | `handleArchiveWorktree`, `SuspendWorktree` |
| `Unarchive`, `List`, `PickTab`, `Restore`, `SetStatus` | `handleUnarchiveWorktree`, `RestoreWorktree` |
| `Remove`, `List`, `PickTab`, `Kill`, `Drop`, `RemoveRow` | `hardRemoveWorktree` |
| `Restart`, `Shutdown`, `Wait`, `PickTab`, `Restore`, `Kill` | `RestartPtyd` |
| `Prune`, `Rows`, `PickTab`, `Kill` | `FindOrphans`, `KillOrphans` |
| `Reap`, `PickTab`, `Kill`, `Drop` | `ReapIdle` |
| `Reconcile`, `Rows`, `PickTab`, `Restore`, `Kill`, `Drop` | `Reconcile` |
| `Dies`, `Gone`, `Tick`, `DaemonGone`, `ServerGone` | shells, daemon and server ending |

A prune spares sessions that were active lately (`Young`): the session of a
create still in progress is one, since the orphans' default age is days.

`SuspendedTabKept` is about steps: a tab is put aside when its log is on disk because
a suspend or a shutdown of the daemon has saved it (`Aside`), and `Killed` is the step
by which a request that may do so deletes that log. With the failure `"unsaved"` the
daemon's write of a log may fail in a suspend or a shutdown (`Unwritten`): `save` keeps
the error to itself (`server.go:232`), so the shell is hung up all the same and only the
log of an earlier save is left. `Wait` can also give up, as `Client.Shutdown` does after
its attempts; then the restart restores nothing.

### Worktrees (`internal/api`, `internal/gitops`, `internal/store`)

A step is one call of git or one SQL statement. `checkout` and `branch` are git,
per path (a path stands for its branch, `createWorktree` gives both the same
slug); `row`, `path`, `pinned` and `expired` are the table of worktrees; `told`
is what the last create that had to roll back answered; `call` is one record per
request with the path and id it read, one of them being the sweep.

| actions | code |
|---|---|
| `Create`, `GitAdd`, `Insert`, `UndoCheckout`, `UndoBranch` | `createWorktree` with its rollback and its two answers |
| `Import`, `Insert` | `handleImportWorktree` |
| `Delete`, `GitRemove`, `CloseTerminals`, `RemoveRow` | `handleDeleteWorktree`, `hardRemoveWorktree` |
| `Sweep`, `SweepRow`, `SweepEnd` | `SweepExpiredArchivedWorktrees`, by way of the same removal |
| `Archive`, `Unarchive`, `SetStatus`, `Pin` | `archive.go`, `pin.go`, `CanArchiveWorktree` |
| `Edit`, `Vanish`, `Age` | files change, a folder is deleted by hand, the retention passes |

A git call has the outcomes `internal/gitops` gives it: a removal of a folder
that is gone succeeds, even when the `git worktree prune` it then runs fails, and
git still knows the checkout ("missing"); a `git worktree add` that fails has left
nothing, the branch, or branch and checkout (`told` is "left"), which `createWorktree`
does not undo.

### PtydAttach and TerminalView (`internal/ptyd`, `tui/infra/ptyterm`, `api/terminals.go`)

A step is one critical section of the session's lock, one frame written to or read
from a connection, or one message through a channel. Output is a tape of tokens known
by their positions: what tells properties apart is where an escape sequence or a rune
begins, which token is a query, and nothing else. `srv` is the daemon's handler of a
client with its channel, `wire` and `conn` the connection, `scr` the client: an
emulator, or the relay to a browser (`Web`). `from` is what a replay holds.

| actions | code |
|---|---|
| `ShellWrites`, `Broadcast`, `ShellExits`, `DaemonDies` | the shell; `broadcast`, with its dropping of slow clients; the end of `run` |
| `Serve`, `SendReplay`, `Forward`, `Finish` | `attach`: replay and subscription in one section, then frames |
| `Dial`, `Close`, `RelayEnds` | `Client.Attach`; a pane closed; a browser gone |
| `ShowReplay`, `EndReplay`, `ShowLive`, `TakeReply`, `StreamEnds` | `pump` and the reply reader of `ptyterm.go`; for a browser the relay and `Terminal.tsx` |

`TerminalView` is the abstract specification: a view shows the output from some point
on, each byte once and in order, until it leaves, falls behind or the shell ends, and
is told of the end after all output unless it fell behind. `PtydAttach!View` is the
refinement mapping.

### PtydStart (`ptyd/server.go`, `ptyd/client.go`, `cmd/.../ptyd.go`)

A step is one system call: the flock, the unlink, bind and listen, a dial that
succeeds or not. `life` is each process, `lock` the flock's holder, `path` whose
socket the socket file is, `caller` each client in `create`, `start`, `Shutdown` or
`RestartPtyd`. `calm` is a history variable: no daemon was ending when the client
began to start one, and none has stopped or died since.

| actions | code |
|---|---|
| `Lock`, `Clean`, `Listen`, `Serve` | `ListenAndServe`, in its order |
| `Stop`, `Close`, `Exit`, `Die` | `shutdown` up to the exit; the process is killed |
| `Ask`, `Spawn`, `Poll`, `GiveUp`, `Again` | `Client.create`, `Client.start` with its fifty attempts |
| `Restart`, `Wait`, `StillRunning`, `Restore` | `Client.Shutdown` and what `RestartPtyd` does after it |

### Tasks and TasksInStep (`internal/api/tasks.go`, `internal/store/tasks.go`)

A step is one statement, but for the reads of a settle, which are one. `label` is the
task of each worktree's row, `status` and `place` the rows of tasks and statuses; `call`
is one record per request with the worktree's row as it read it, and what it has still
to settle. `TasksInStep` adds `disturbed`: the tasks which requests in opposite
directions have touched at once.

| actions | code |
|---|---|
| `Request` (`Create`, `OnTree`, `SetTask`) | the handlers up to the row they read |
| `PickKey`, `InsertLocal`, `Ensure`, `ReadFirst`, `SetLabel`, `SetRow` | `assignTask`, `CreateLocalTask`, the changes of the worktree's row |
| `NextTask`, `SettleRead`, `SettleMove` | `SettleTaskStatus` for each task in turn |
| `EditTask`, `AddStatus`, `Reorder`, `DeleteStatus`, `CountStatuses`, `DropStatus` | the task board's requests |

### Workbench and Panes (`src/tui`)

`Workbench` has the user's keys and the messages of `Root.Update` as actions; a
command in flight is a slot of `cmd` with what its reply holds (`got`), so replies
are late and out of order by nature. `bench` is `domain.Workbench` per worktree,
`screens`, `attaching`, `detached` and `focus` are fields of `Root`, `file` is the
layout file. A tab's tree is the list of its leaves: that the tree's operations do to
its leaves what list operations do is `LeavesInOrder` of `Panes`, which has the tree,
with ratios as fractions and areas in cells, and the geometry.

In `Panes` a tree is the function from the paths of its nodes (`Path` of the code: false
leads to `First`, true to `Second`) to the nodes, not a record in a record: an operation
that the code writes as a walk from the root down is then said node by node, which is
what a proof can use. `SplitAt` adds two nodes below a leaf, `CloseAt` drops one turn
from the paths below the sibling of the leaf that goes (`Lifted`), `Places` is the one
walk left, a recursive function on the paths. `DividersAt` is the first split on the way
down to a cell that has its divider there. A press and where the mouse then is are one
step, `DragDivider`: what the code does when the tree changes between them is told in
section 9.

In `Workbench` a loop that keeps some
elements of a slice is `Only`, a recursive function over the positions: `SelectSeq` would
do for TLC, but its definition is out of the prover's reach. There are two history
variables. `early` has sessions that a reload has given a tab while the request that made
them for a pane was still waiting for its reply. `closed` has, per worktree, the sessions
whose pane the user has closed, as long as `Reconcile` knows them: what a list lacks, it
forgets.

`Neighbors` of `Panes` is the set of what `Neighbor` may return in the different orders of
Go's map. The id of the empty pane, "", is also that function's mark for "none found yet",
so the empty pane (`Blank`) is never the answer and what was found before it is forgotten;
`Nearest` is what it would be without that. `ResizeLeaf` has both of `Root`'s steps, 2 and
8 cells.

| actions | code |
|---|---|
| `SplitLeaf`, `CloseLeaf`, `ReplaceLeaf` | `Pane.Split`, `Close`, `Replace` |
| `DragDivider`, `ResizeLeaf`, `ResizeWindow` | `Workbench.Drag`, `Resize`; a new window size |
| `ListSessions`, `CreateSession`, `RequestFails`, `TabsMsg` | `loadTabs` and its reply, with `Reconcile`, `Place` |
| `OpenMsg`, `ClosedMsg`, `ScreenArrives`, `ScreenFails` | the other messages of `Root.Update` |
| `User` | the keys: open, new tab, into pane, split, close, zoom, select, move, click, reattach |
| `OtherCreates`, `SessionEnds`, `Restart` | the server's sessions; the TUI is restarted |

### Trackers, FileWatch (`internal/attention`, `openfile`, `files`)

A step is what one lock covers or one send or receive. In `Trackers` a behaviour
follows one of the two fan-outs (`stream`). `chan` is a subscriber's channel, `wire`
the connection; `raced`, `missed` and `since` are history variables. In `FileWatch`,
`entry` is the manager's watcher with its count, `watcher` all that were made, with
their raw events, timers (`timers`, and `fired` for those waiting to send), the own
writes marked (`recent`) and the channel; `owed` and `foreign` are history variables. A
tab's handler takes an event from the channel and tells its tab (`Hand`), or fails to and
ends, with the event (`HandFails`).

### ClaudeHooks, GitHook, Catalog (`internal/claudehook`, `githook`, `store`)

`ClaudeHooks` has a request in its steps: write the script, read, back up, truncate
and fill the settings; and everybody else's edits, restores of a backup, and crashes.
`GitHook` has the script as a sequence of lines, and requests that can write over a
newer text (`Stale`). `Catalog` is `store.Open` table by table and column by column,
then main's start up to serving, for servers that are killed in between and a second
one on the same database; the registration of a repository is the same three steps it
is in the handler.

## 4. The runs

Every cfg bounds its constants; the other bounds, in the modules, are the constants
named `Max...` (output, posts, writes, calls, edits, crashes, starts, sessions), and
`MCBound` of `MCTasks`. Session objects, daemon processes, tab ids and row ids are
used once, as in the code, where a new random id is made each time; so small sets of
them also bound the behaviours. Most runs allow the system to stop: shells need never
end, and once the ids are used up and the failures have happened nothing is left
to do, hence `CHECK_DEADLOCK FALSE`. `workbench` and `panes` check deadlock: there is
always a key to press.

| run | instance | shows |
|---|---|---|
| `ptyd_daemon` | 1 id, 2 session objects, 2 calls, 1 chunk; create, restore, plain kill, shutdown, crash | `MapExact`, `LiveLogCurrent`, `OnlyLiveSessionsSave` |
| `ptyd_keep` | the same with keep in place of kill, 2 chunks against a scrollback of 1, failing writes | `PromiseKept` |
| `ptyd_live` | 1 id, 2 sessions, 1 call, fair | `KilledSessionEnds`, `ClosedLogGoes`, `OutputIsSaved` |
| `stream` | an emulator and a browser that may stall, a channel and a connection of 1, 3 tokens against a scrollback of 2; fair | `ViewKept` (the refinement of `TerminalView`), `CleanReplay`, `StreamsSound`, `StreamsMove` |
| `terminals_close` | 1 worktree, 2 tabs, 2 calls; every way to close a tab, the server stopped anywhere; fair | `NoStrayShell`, `ArchivedShellsEnd` |
| `terminals_keep` | 1 worktree, 2 tabs, 2 calls; create, open, archive, unarchive, restart, prune; server and daemon crash anywhere, calls fail | `SuspendedTabKept`, `PruneSparesTabs` |
| `worktrees_life` | 2 paths (one made by create, one to import), 2 rows, 2 requests and the sweep; every operation but pin, every failure | `CheckoutsKnown`, `SafeToRetry`, `OwnCheckoutOnly` |
| `worktrees_sweep` | the same paths and rows, 1 request and the sweep; create, import, archive, pin and every failure, fair | `ExpiredGo` |
| `tasks` | 2 worktrees, 1 local and 1 external task, 2 statuses, 2 requests; within `MCBound` | `ReferencesWhole`, `NewTasksDistinct`, `InStep` |
| `panes` | every tree of up to 4 panes, 3 sessions and the empty one, in areas of 9x3 and 5x5 cells, one drag or one resize by 2 or 8 | `TreeTiles`, `Navigable`, `DividersFollow` |
| `workbench` | 2 worktrees, 2 sessions, 2 messages in flight, 2 keys that change the layout, 1 lost screen, 6 mixes of operations | `PanesSound`, `SyncSound`, `ReloadsHarmless` |
| `services` | one part per behaviour, see below | the properties of `Trackers`, `FileWatch`, `ClaudeHooks`, `GitHook`, `Catalog` and `PtydStart` |

`services` is one run for six parts that share no state: the initial state chooses
one, and the others stand still. Its instances: `Trackers` with 2 worktrees, 2
requests, a client, channels of 1, 3 changes, 1 break; `FileWatch` with 2 tabs, 2
paths, a save, 2 watchers, a channel of 1, 2 writes; `ClaudeHooks` with 2 requests at
once, 3 in all, an edit, a crash, a foreign command; `GitHook` with 2 requests at
once, 4 in all, 2 edits, 2 lines; `Catalog` with 2 servers, 2 starts, databases of
three ages, 2 registrations; `PtydStart` with 3 processes and 2 clients.

Why these bounds are enough to meet the hazards:

- The daemon's races are between a stale pointer and the successor of its
  session under the same id: that takes one id and two session objects. Different
  ids meet only in the loops of the tick and of the shutdown, which treat them
  independently. Two calls let a kill overlap a kill or a shutdown; the tick, the
  `run` goroutines and the client-side wipe come on top of them.
- With one chunk a log is empty, exact or stale. `ptyd_keep` needs two and a
  scrollback of one, so that newer output pushes older out of a saved log.
- A stream's cases are a token before, in and after the replay, a full channel, a full
  connection and a cut scrollback: three tokens, buffers of one, a scrollback of two.
  Clients meet only through the shell they might stall: two of them.
- The terminals' races are between two handlers over one tab, or between a loop
  over tabs and a handler of one of them: two calls, two tabs. Nothing relates
  two worktrees but the lists of all sessions and rows, in which tabs of two
  worktrees behave as two of one.
- The worktrees' races are a request with a stale row against a new row at the
  same path: one created path, two rows, two requests and the sweep. The second
  path is one that other tools made and imports register.
- A task's races are two requests on two worktrees of one task, or on one worktree
  that goes from one task to another; deleted statuses matter with one of either,
  which is what `MCBound` leaves. With one task and one worktree everything may happen;
  with two tasks or two worktrees the list of statuses is not edited; with two tasks
  and two worktrees nothing is removed either and one relabelling runs at a time, next
  to any other request. One worktree at most is ever removed.
- The TUI's are a reply that is late by one list and a key in between: two messages,
  two sessions. A start of a daemon takes the one that ends, the one that loses the
  lock and the one that wins it: three. A database is left by one start and used by
  the next, or by two at once.

The environments differ because some properties are not meant for all requests together.
`NoStrayShell` is checked where tabs are only closed; `create` and the restores may be
added as long as `KeptApart` holds, which is proved (section 6), and leave shells
without a row where it does not (section 9), for which the code has no protection but
the orphan prune. `PromiseKept` and `SuspendedTabKept` speak of what nobody has asked to
delete. `ArchivedShellsEnd` excludes restores by the user. `ptyd_daemon` and `ptyd_keep`
share shutdown and crash, `ptyd_keep` alone has writes that fail; keep and plain kill
are together in `ptyd_live`. What the proofs cover holds with all operations and
failures at once, but for the environments section 6 names.

What the properties say, in short:

- `MapExact`: an id maps to the one session of that id whose `run` has not
  finished, so that `RunDelete`, which deletes by id, never hits another.
- `LiveLogCurrent`: a session that is not dirty has its exact scrollback on disk,
  or its log was deleted under it.
- `OnlyLiveSessionsSave`: a deleted log does not come back through a save in
  progress.
- `PromiseKept`: section 3's history, never broken.
- `SuspendedTabKept`: what is put aside has its log, and loses it only by being
  restored, by a request that closes the tab, by `Reconcile` after a restore that has
  failed and never without trying, or by a restart that read no row for the session.
  That it has its log to begin with is said where no write of a log fails.
- `NoStrayShell`: a live shell has a row or a request about to deal with it, also
  after a stop of the server between any two steps, since kills come before
  deletions of rows.
- `PruneSparesTabs`: a prune never ends the session of a tab.
- `CheckoutsKnown`, `SafeToRetry`: no failure leaves a checkout nobody knows, but for one
  that `git worktree add` has made before it failed; the answer "safe to retry" is true.
- `OwnCheckoutOnly`: a removal that works on a row read long ago does not take a
  newer worktree's checkout.
- `ExpiredGo`, `ArchivedShellsEnd`, `KilledSessionEnds`, `ClosedLogGoes`,
  `OutputIsSaved`: what has to happen in the end.
- `ViewKept`, `CleanReplay`: no byte lost, doubled or out of order between replay and
  live stream; no replay that begins inside an escape sequence or a rune when it
  could have begun elsewhere.
- `StreamsSound`, `StreamsMove`: a client types answers only to queries it has shown
  live (`RepliesAreLive`), and answers those (`QueryAnswered`); the shell's output is
  taken whatever clients do (`OutputNeverStalls`), and seen by those that read
  (`OutputIsSeen`).
- `Reachable`: who listens holds the lock and owns the socket file. `StartSucceeds`:
  a client's start fails only if a daemon was ending or died meanwhile.
  `RestoresOnNew`: a restart restores nothing into the daemon it has stopped.
- `ReferencesWhole`: a label has its task, a task its status (`LabelHasTask`,
  `StatusKept`). `NewTasksDistinct`: of two creations with one key only one goes on.
  `InStep`: a task that only requests in one direction have touched is in step.
- `BadgesSound`, `OpensFresh`, `ToldInTheEnd`: what a connected client shows, or is
  about to show, is what the server holds (`BadgesCurrent`), and so in the end
  (`BadgesSettle`); it opens each file once, in order, none of the past; a changed
  file's event is taken by a tab's handler (`ChangeIsTaken`), which tells it unless the
  write to its tab fails.
- `WatcherSound`: one watcher exactly while tabs use it (`OneWatcher`), no tab told
  of its own save (`OwnSaveUntold`).
- `NothingLost`, `HooksSound`: others' hooks are in the file or in a backup; an
  install takes, once, and no registered script is missing (`InstallsTake`,
  `OneEntry`, `ScriptThere`). `ScriptSound`: the user's lines, one block, and an
  install that an uninstall undoes (`LinesKept`, `OneBlock`, `RoundTrip`).
- `StartsRecover`, `RootsThere`: after any sequence of starts that were cut off, a
  server that serves has its whole schema and no archived row without a date
  (`Upgraded`), has a status and none the user deleted (`StatusesKept`), and only a
  server with company fails (`LoneStartSucceeds`); a path is registered once
  (`RepoOnce`), and every repository has its root worktree.
- `PanesSound`: a session has one pane (`OnePlace`). `SyncSound`: it has one attachment
  and none behind the screen (`OneAttach`, `NoneHidden`), a pane on screen is live, on
  its way or says why not (`NothingForgotten`), and the file has the layout of the
  screen (`LayoutOnFile`). `ReloadsHarmless`: what the user has closed stays closed over
  restarts and lists, however late, unless a list lacked it meanwhile
  (`ClosedStaysClosed`); a list leaves the focus (`FocusStays`).
- `TreeTiles`, `Navigable`, `DividersFollow`: panes and dividers cover the area once;
  arrows have one destination, unless the nearest pane is empty (`OneNeighbor`), and lead
  from every pane to every other where none is empty, and out of the empty one
  (`AllReachable`); dividers follow.

Several of them are conjunctions of named parts and begin with the module's `TypeOK`.
Each property of a run has a mutant in `PROJECT.json`: a plausible error
in one mapped definition under which the same run finds the property violated.

## 5. Fairness

- `PtydDaemon!LiveSpec`: weak fairness of each goroutine of the daemon (`run`,
  the handlers, the tick, the SIGKILL timer) and of its exit once it is closing.
  The Go scheduler runs every ready goroutine and no lock is held across a
  blocking call. SIGKILL cannot be ignored. Nothing is assumed of shells, which
  may ignore SIGHUP, never end and never print; nothing of clients.
- `PtydAttach!Fairness`: the same for `broadcast` and the daemon's handlers, and for
  clients that do not stall. A client in `Stalling` need never read. Nobody has to
  print, attach, exit or leave.
- `Terminals!LiveSpec`: the same for the server's goroutines (`Progress`,
  `Reconcile`), that a session hung up leaves the daemon (`Gone`; this is
  `KilledSessionEnds`, checked on `PtydDaemon`) and that a daemon told to shut
  down exits. Crashes, requests and shells have none.
- `Worktrees!LiveSpec`: weak fairness of requests and of the sweep's loop and
  ticker; strong fairness of the success of each step of the sweep's removal,
  which says that none fails for ever. Without it the code guarantees nothing: a
  checkout git refuses to remove stays, and the sweep tries again each time.
  No user's request is assumed to come.
- `MCServices!ServicesSpec`: a connection's handler runs on (`Relay`), a client that
  is not `sleepy` reads; a watcher's goroutines and timers run on (`Runs`), and a
  websocket's handler takes what it is sent (`Takes`), and tells it or fails to: nothing
  says that a write to a tab ever succeeds.

## 6. The proofs

Eight modules prove theorems for every value of the constants: any numbers of ids,
sessions, tabs, worktrees, paths, clients, calls, any sets of operations and failures.
The theorems stand under the assumption its module makes of its constants
(`DaemonAssumption`, `TerminalsAssumption`, `WorktreesAssumption`, `AttachAssumption`,
`TasksAssumption`, `BoundsAssumption`, `PanesAssumption`: bounds are numbers, model
values differ, requests are of the kinds there are), and under the hypotheses in the
table's last column.

| theorem | states | if |
|---|---|---|
| `PtydDaemonProofs!TypeCorrect` | `Spec => []TypeOK` | |
| `PtydDaemonProofs!SessionsExact` | `Spec => []MapExact` | |
| `PtydDaemonProofs!LogsCurrent` | `Spec => []LiveLogCurrent` | |
| `PtydDaemonProofs!NoResurrection` | `Spec => OnlyLiveSessionsSave` | |
| `PtydDaemonProofs!PromisesStand` | `PSpec => []PromiseKept` | `"kill" \notin Ops` |
| `PtydAttachProofs!AttachKeepsView` | `Spec => ViewKept`, the refinement of `TerminalView` | |
| `PtydAttachProofs!StreamsStaySound` | `Spec => []StreamsSound` | |
| `PtydAttachProofs!ReplaysStartClean` | `Spec => CleanReplay` | `Tidy` |
| `StartProofs!TypeCorrect` | `Spec => []TypeOK`, of `PtydStart` | |
| `StartProofs!OneDaemon` | `Spec => []Reachable` | |
| `StartProofs!PeacefulStartSucceeds` | `Spec => []StartSucceeds` | |
| `StartProofs!RestartWaits` | `Spec => []RestoresOnNew` | |
| `StartProofs!StartsAlwaysRecover` | `ServicesSpec => []StartsRecover` | `CatalogBounds` |
| `StartProofs!RootsAlwaysThere` | `ServicesSpec => RootsThere` | `CatalogBounds` |
| `StartProofs!ScriptStaysSound` | `ServicesSpec => []ScriptSound` | `GitBounds` |
| `TerminalsProofs!TypeCorrect` | `Spec => []TypeOK` | |
| `TerminalsProofs!PrunesSpareTabs` | `Spec => PruneSparesTabs` | |
| `TerminalsProofs!KeepsSuspendedTabs` | `Spec => SuspendedTabKept` | |
| `TerminalsProofs!StraysTakeTwo` | `Spec => []NoStrayShell` | `KeptApart` |
| `TerminalsProofs!ArchivedStayAtRest` | `Spec => []ArchivedAtRest`, the safety half of `ArchivedShellsEnd` | `NothingStarts` |
| `WorktreesProofs!TypeCorrect` | `Spec => []TypeOK` | |
| `WorktreesProofs!RetryIsSafe` | `Spec => []SafeToRetry` | |
| `WorktreesProofs!NothingForgotten` | `Spec => []CheckoutsKnown` | |
| `WorktreesProofs!RemovalsTakeTheirOwn` | `Spec => OwnCheckoutOnly` | |
| `TasksProofs!ReferencesStayWhole` | `Spec => []ReferencesWhole` | |
| `TasksProofs!NewTasksStayDistinct` | `Spec => []NewTasksDistinct` | |
| `TasksProofs!TasksStayInStep` | `PSpec => []InStep` | |
| `TasksProofs!PromiseKeepsReferences` | the same of `PSpec`, which `tasks` runs | |
| `WorkbenchProofs!LayoutsSaved` | `Spec => [](LayoutOnFile /\ OneAttach)` | |
| `WorkbenchProofs!SyncsKeepUp` | `Spec => []SyncSound` | `NoClicks` |
| `WorkbenchProofs!PanesStaySound` | `Spec => []PanesSound` | |
| `WorkbenchProofs!ReloadsUndoNothing` | `Spec => ReloadsHarmless` | |
| `WorkbenchProofs!PanesTile` | `PanesSpec => []TreeTiles` | |
| `WorkbenchProofs!PanesAreNavigable` | `PanesSpec => []Navigable` | |
| `WorkbenchProofs!PanesFollow` | `PanesSpec => DividersFollow` | |
| `ServicesProofs!WatchersStaySound` | `ServicesSpec => []WatcherSound` | `FileBounds` |
| `ServicesProofs!HooksOfOthersStay` | `ServicesSpec => []NothingLost` | `OthersDiffer` |
| `ServicesProofs!HooksInstallOnce` | `ServicesSpec => []HooksSound` | `OthersDiffer` |
| `ServicesProofs!BadgesStayCurrent` | `ServicesSpec => []BadgesSound` | `TrackBounds` |
| `ServicesProofs!OpensStayFresh` | `ServicesSpec => OpensFresh` | `TrackBounds` |

`FileBounds`, `CatalogBounds` and `TrackBounds` only say that bounds are numbers and
that tabs, saves and paths are finitely many: they are hypotheses since the constants
belong to the composition. `OthersDiffer`: other programs' commands in Claude Code's
settings are not ours, which is how `install.go` tells them. `GitBounds`: a line of the
user's is none of the block's and not the shell's line, which is how `githook.go` finds
the block. `Tidy`: output does not begin inside an escape sequence or a rune and has no
newline in one, which is what `cleanStart` takes for granted. `"kill" \notin Ops`: a
plain kill is the request to delete what was promised. `KeptApart` and `NothingStarts`
are explained below, `NoClicks` in section 8.

**PtydDaemon.** `IInv` adds two facts to the types, `MapExact` and `LiveLogCurrent`.
`HandlersHoldSessions`: a handler past its lookup has a session, so what it writes is a
session's flag. `DirtyIsPresent`: only a session of the present daemon is dirty; with
`Save`'s check of `exited` a save then writes the log of a session that is `Live`, hence
mapped (by `MapExact`), hence the only live one of its id, and so never its successor's.

`PromisesStand` needs more, `PInv`. `CallsKnow`: a suspend that saves has raised its
session's flag, a shutdown has set `stopping`, so `run`, which reads both, leaves the
log (`Secured`). `NothingDiscarded`: without plain kills no session is to be discarded.
`CleanSaved`: a live session that is not dirty has been saved, so a save that is skipped
loses nothing. `OwedKept`: the log of an owed id, and the scrollback of its live
session, hold what is owed but for what newer output has pushed out. The step that takes
an argument is the push itself (`KeptOn`): the newest `MaxScrollback` of old and new
chunks hold the newest of what was promised, which is about cardinalities of what lies
above a chunk.

**PtydAttach.** Every token has a number, its place on the tape, and a client's tokens
lie in a row: shown, held by the emulator, on the wire, in the replay still to be sent,
in the channel. `IInv` says of each client that these pieces follow one another without
gap from the start of its replay on to what was broadcast last (`Placed`, with `Before`
and `Handles` for the handler's stages), where a client that was dropped, or whose shell
has ended, stops (`WireAt`, `HandlerAt`, `ScreenAt`), and that the replies under way are
to queries shown live (`Replies`). Each action moves the boundary between two pieces,
and the refinement's step is the one the first piece makes. `ReplaysStartClean` does not
need it: `cleanStart` starts after the first newline of its window, or at its first
escape sequence, neither of which is inside anything if the tape is `Tidy`.

**PtydStart.** `OneHolder`: a process past the flock holds it and nobody else does, the
one that listens owns the socket file, and between the unlink and the bind there is
none, so `Listen` cannot fail. `AskedEnds`: the daemon a restart waits for is stopping
and stays so; when nothing answers it is deaf. `PeacefulStart`: while a client polls
undisturbed, some daemon is on its way or serving; so the client cannot find nobody on
the way and give up, which is `StartSucceeds`. The loser of the flock is the case that
needs `OneHolder`: whoever holds it is such a daemon, since none is ending.

**Terminals.** A prune holds orphans only (`Holds`): sessions whose tab had neither a
row nor a creation in progress when it read the rows. That they stay orphans until it
kills them needs that ids are used once, that is, `MadeFirst`: whatever a session, a row
or a request carries has been handed out before, so a later creation, which takes a new
id, cannot turn one into a tab. `KeepsSuspendedTabs` adds which steps each operation
goes through (`Runs`) and that the tab of a creation has no row and no second creation
(`Fresh`): the kill after a failed insert then hits nothing that is put aside, nor does
a prune's, and what is left are the kills that `Killed` names.

`StraysTakeTwo` says which requests may overlap without leaving a live shell that has
no row: all of them, with any failures and stops of the server, but for two kinds of
pairs. `KeptApart` excludes these: a creation beside a removal or a crash of the
server, and a restore (open, unarchive, daemon restart) beside a close or a reap. The
hypothesis cannot be weaker: with such a pair alone in `Ops` TLC finds the stray
shell (`create` with `remove` or `crash`, `unarchive` or `restart` with `close`
or `reap` as they are, `open` with `close` or `reap` once a shell may die by itself).
What carries the proof is `SInv`: a live shell has a row or its creation is in
progress (`Reached`), and what requests in progress know (`Known`). A tab that is to be
restored has the row the request has read, unless the checkout is gone, and then the
restore fails; that is why a removal, which deletes the checkout first, gets on with
restores, and a close does not. A tab whose row is to be dropped is not alive. What a
removed worktree has alive is still on the removal's list. `Reconcile`, which restores
and drops, is alone (`Alone`).

`ArchivedStayAtRest` adds to it, where nothing starts shells but `Reconcile` and no
suspension fails (`NothingStarts`), that an archive has on its list whatever of its
worktree is alive (`Rests`), so that no shell is live when the status is set, and that
`Reconcile` starts none afterwards.

**Worktrees.** The argument behind `CheckoutsKnown` and `OwnCheckoutOnly` is about
branches, which neither of them mentions. A removal deletes the checkout and leaves the
branch; `git worktree add -b` refuses an existing branch; so once a row of a created
path was used, no create ever makes a checkout there again (`RowsRight`), and a stale
removal of the row finds nothing. `IInv` says so and adds what the requests in progress
hold: a row id is held by one request (`IdHeld`), a create that has added its checkout
is alone at its path, which has no row yet (`PathTaken`), a request on a row has its
path, and once past git that path has no folder (`RowFits`). UNIQUE of the path column
is `PathsUnique`. A `git worktree add` that has failed half way leaves the branch at
least where it leaves a checkout, so its path counts as used too. The assumption that
imports are of worktrees outside `Managed` is used in `PathTaken`: see section 9 for
what happens without it.

**Tasks.** A request works with what it has read statements ago, so `IInv` cannot say
that its data is right. What carries the proof is where the store looks again: the
insert that refuses a taken key, and the foreign key of a task's status, which refuses a
task with a status that is gone and the deletion of one in use. A worktree's label has
no foreign key; it is right because tasks are never deleted. `RequestsRight` says what a
request may then rely on: past a successful insert the key is its own and has a task,
which stays (`Grown`). A first and a last status exist wherever one is asked for, as the
code looks for an empty list first (`FirstAndLast`, by the least place and then the
least id).

For `InStep` the invariant `HInv` adds what holds of tasks and requests that are not
`disturbed`: a request that is alone on its worktree finds the row as it read it
(`Current`); a task is in tune with its worktrees or some request still has it to settle
(`Due`); and one that is about to move it moves it the way its worktrees ask for
(`Suits`). The last part is where requests meet: one changes the worktrees while another
is between its read and its write. Then both concern the task and pull at it from two
sides (`Way`), which is the `Clash` that disturbs it; so of each step only what it does
to its own task and list has to be followed (`Kept`), and `TaskKept` does the rest.

**Workbench.** Most handlers of `Root.Update` end with `sync`. `SyncKeeps` says that it
mends whatever they have left: from any panes, screens and attaches of which only none
is attached twice, one `sync` makes the attaches and the screens those of the panes
shown and saves the layout. So the invariant (`FileInv`, `FlightInv`, `ShownInv`) has to
be followed only through the handlers that end without one, an attach that lands or
fails, a focus, a click, a change of the server, and these touch one of them at most.

`PanesSound` is about what a Workbench's operations do to sequences. Each has a lemma
that a right bench (`RightBench`: tabs have panes with the focus among them, what has a
pane is known; `OneEach`: no session twice) stays right, and what its panes come from:
`Remade` for the operations that change a tab, `Answered` for a reply. They rest on two
facts proved by induction from the library's well-foundedness of the numbers
(`Upwards`): a filter keeps what it keeps once and in order (`OnlyEmbeds`), and
`Reconcile`'s loop has a value at every turn (`LoopTurns`). The invariant `PaneInv` adds
what makes every reply harmless, whatever its age: a list has no session twice and no
session of the future (`Request`); two requests never hold the same new session
(`CmdInv`); what is listed is known, and a pane's session that is known before its
reply is in `early` (`KnownInv`); and the layout file is as right as the screen, for
the restart (`BenchInv`). Without `KnownInv` the step that answers a request into a pane
could put a second pane beside the first unnoticed.

For `ReloadsHarmless`, `ClosedInv` says that what is closed is known and in no pane of its
worktree, on screen and so after a restart; a list then opens tabs only for what is not
known. `FocusReconciled` follows the active tab through both loops of
`Reconcile`: with one tab lost before it, the index (`LoopFollows`) and the tab's place
among those kept (`KeptAt`) fall by one each; with two they may not, which is section 8's
divergence and the reason for the bound in `FocusStays`.

**Panes.** The invariant `PanesInv` is small: the tree is a tree (`IsTree`: a node has a
split above it, a split has both its sides, ratios are between a tenth and nine tenths),
some order of its leaves by their paths has their sessions as the list has them
(`Ordered`), and the area has whole numbers. That a close keeps it is the long step:
paths below the sibling lose a turn, and the order of two paths survives that
(`RaisedBefore`). The three properties follow from the invariant alone.

- `TreeTiles`: where there is room, a split's halves are two whole places within its own
  that share no cell, with the divider's column between them (`Cut`, `HalvesFit`,
  `LineBetween`). So places nest (`Nested`), and two leaves, whose paths part at a first
  turn, have no cell in common (`LeavesApart`). The search for the divider turns as the
  cell lies, so for a cell of no pane it cannot end at a leaf: it has found a divider
  (`CellFound`, by the longest path it passes).
- `Navigable`: two nearest candidates with equal distance, edge and corner would overlap
  (`OnlyNeighbor`). For the arrows, take the panes in the corners at the two ends of a
  divider: each has the other as a neighbor, and whatever else is as near shares a cell
  with the far side's first row or column, so it lies under the far side (`CrossColumn`,
  `CrossEdge`). Hence a set the arrows never leave has all or none of each split's
  panes: of a deepest split with some and not all, both sides would be pure, and one
  arrow leaves the full one (`Linked`).
- `DividersFollow`: a share is monotone in the ratio, and in the cells there are, of
  which it takes no more than are added (`ShareRatio`, `ShareSteps`, about `\div`). So a
  half is monotone in its place, and what the moved divider gives its side reaches the
  pane at the bottom, perhaps rounded to nothing but never reversed (`ExtentBelow`).

Induction over trees is not needed anywhere: along a path it is induction on its length
(`Upwards`), and where the whole tree matters a longest or deepest node is picked.

**Services.** One `Spec` composes the six parts, of which one moves; a part's invariant
is kept by the others' steps since they leave its variables alone.

- `FileWatch`: `Shared`, all tabs hold the manager's one watcher, the only one that is
  open, and its count is their number (the cardinality of a set that changes by one
  element); `Covered`, the window of a save between its mark and its write is open;
  `Sane`, what a watcher has heard is foreign or within the window of an own write, and
  what it is about to tell is foreign; `Counted`, no more reports are on their way than
  there were writes.
- `ClaudeHooks`: `CallOk` has what a request read and is about to write; it may be old,
  but while nobody interferes it is what the file says. `Obeys`: the file has what the
  last undisturbed install or removal was to leave. `FileOk`: in the file and in every
  backup, a script of ours is in one group of an event at most and exists. `BackedUp`:
  while a request is about to overwrite the file, others' hooks are in a backup, but for
  those that came after it was made.
- `Catalog`: `Progress` says, per stage of a start, which part of the schema and of the
  defaults is there; `Lone`, what a server that started alone has found on its way;
  `Apart`, that nobody is up beside one that is alone; `DataOk` and `AsksOk`, that the
  rows of statuses, repositories and roots belong together. What a start relies on only
  grows (`Grow`), so one server's progress outlives the other's steps and every crash.
- `GitHook`: a script begins with the shell's line and, unless a marker was torn out,
  has no marker or one whole block (`Whole`), which is then what `splitOnMarkers` finds
  (`JoinedBlock`, `BlockJoined`). So an install and an uninstall, also of an old text,
  are joins of pieces without markers, and a join has the user's lines of its parts
  (`UsersConcat`, by induction along the text). A request whose text is of the newest
  read has the user's lines (`GitCallOk`); edits by hand are followed line by line
  (`Inserted`, `Removed`).
- `Trackers`: `ChannelOk`, about every subscriber, connected or about to be: the last
  message in its channel that speaks of a worktree says what the tracker holds, unless a
  change of it is still to be told, had raced, or found the channel full. This holds
  before the snapshot is sent, and the snapshot goes in front of the channel, which is
  why a client that reads all of it ends right (`Current`). `Orderly`: the one change of
  a worktree that is still to be told is its last. For files to open, the numbers in a
  connection and its channel ascend and come after the client's connecting (`OpensOk`).

The proofs of steps go action by action. Most actions change one request's record:
`EndEffect` and `GotoEffect` say what that leaves alone, `CalmStep` that a step that
makes no checkout, branch or row keeps the invariant.

**Only model-checked:** every liveness property, since liveness under fairness, and
`ENABLED`, are not within the prover's reach. That the pairs `KeptApart` excludes do
leave stray shells is TLC's too: no theorem says that a behaviour exists.

## 7. What is not modelled

- In `PtydDaemon`: attach and write, which `PtydAttach` has; resize and list;
  starting and the flock, which `PtydStart` has (here `Start` follows the end of the
  process at once, exactly one). Failing writes leave the old log whole, as the
  code's write to a temporary file and rename does.
- In `PtydAttach`: sizes, activity times, one chunk of several tokens or a token over
  several chunks; what an emulator draws. A browser does not resize.
- In `PtydStart`: a signal that comes between `signal.Notify` and the moment `Serve`
  has stored the listener, after which the daemon serves on with `stopping` set;
  timeouts fire only when no daemon is on its way, which five seconds are meant to be
  enough for; the fallback for daemons without the shutdown request.
- In `Terminals`: the tmux backend; the typing of `claude --resume` into restored
  shells; the activity times by which the reaper and the prune choose, which are a
  free choice and `Young`. Reconcile's reads and deletions are as many steps as
  the others'. The check that a worktree exists and the creation of the
  daemon's session are one step of `Create`.
- In `Worktrees`: crashes of the server; terminals (a step that succeeds or
  fails); the choice of a name (any managed path may be
  chosen, also a taken one, which git refuses). An import's check that its path
  has no row and the insertion are one step, as the UNIQUE column would make them.
  Branches are not deleted by hand while a removal is in progress: this is what
  `OwnCheckoutOnly` rests on besides git, see section 6.
- In `Tasks`: titles, names, colours and links; the refreshing of external tasks.
- In `Trackers` and `FileWatch`: files that are created and deleted, new directories,
  several worktrees; a timer that is reset at the moment it fires, which tells a
  change twice; what the editor does with a report.
- In `ClaudeHooks` and `GitHook`: what the hooks do when they run; permissions; the
  backup of the git hook.
- In `Catalog`: the order of columns' values; a repository's settings; other servers
  than two.
- In `Workbench`: drawing, dialogs, the sidebar but for the worktree it chooses, the
  mouse but for clicks on panes and dividers (`Panes`), failures of the layout file.
- SQL statements are atomic: the store has one connection. git calls are atomic:
  git locks its own files, and no handler acts on half of a call.
- Without a module: **Spotlight**, a sequence of git commands under one lock whose
  hazards are in what git does to files; the **tmux backend**, which tmux keeps the
  state of; the **audit log, gh, skill asset**, without state to speak of; **settings,
  layouts, status, logs**, single rows; the **web front end**, presentation but for
  `Terminal.tsx`, whose part is in `PtydAttach`. `PROJECT.json` has them all.

## 8. Where code and words differ

None of these is a run: each was found by a counterexample of a model, which the
properties now except by name or by environment.

- `docs/ptyd.md:37`: a kill "deletes the saved log unless `keep`". A plain kill that
  reaches a session whose `run` has already marked it exited raises a flag nobody
  reads (`server.go:342`); if the shell had died of a signal, its log stays.
- `docs/ptyd.md:104`: "unarchive restores them all". A tab whose hung-up shell is
  still listed is skipped as alive (`term/ptyd.go:171`), and its shell goes a moment
  later.
- `api.go:787`: the comment on `hardRemoveWorktree` says why terminals are closed
  before the row goes. A terminal created meanwhile, between its session and its row,
  escapes the list, and the cascade deletes its row (`api.go:819`).
- `worktree_rules.go:36`: the sweep need not look at pins, because a pinned worktree
  cannot be archived. It can (`pin.go:32`), and the sweep removes it.
- `layout.go:115`: `Neighbor` breaks ties by place, "so ties don't depend on map order".
  The loop takes `best == ""` for "none found yet" (`layout.go:141`), which is also the id
  of a tab's empty pane. Arrows never lead to the empty pane, and when it is among the
  candidates what was found before it is forgotten: with panes A, empty, B in a row, right
  from A leads to B or nowhere, as the map's order has it.
- `layout.go:155`: a session that is alive and shown nowhere is hidden by "the user's
  choice", which is kept. `Reconcile` also drops from what it knows whatever a list
  lacks (`layout.go:188`). A list taken before a session was created, and answered after
  its pane was closed, makes it forgotten, and the next list opens it as a tab
  (`layout.go:213`).
- `root.go:28`: quiet reloads leave the focus where it is. `Reconcile` compares
  indices of the old list with an index it has already moved (`layout.go:203`): when
  two tabs before the active one vanish at once, another tab gets the focus.
- `DESIGN.md`: each session lives in exactly one tab. One that is created into a pane,
  and that a reload has listed before the reply came, is in two (`early`).
- `files/manager.go:5` shares one watcher between tabs so that a change is pushed "to
  every tab watching that worktree". They share its one channel too, so a change
  reaches one of several tabs.
- `client.go:310`: "the daemon drops the connection (ExitCode stays -1)". A client that
  has been dropped for lagging gets an exit frame after all, if the shell exits while
  the handler drains what is left.
- `server.go:71`, "attached clients right now", and `docs/ptyd.md:48`, "Closing the
  connection detaches"; `idle.go:31` relies on it. The handler of a client that
  has gone notices at its next output (`server.go:566`), so on a quiet terminal the
  count stays up, and the reaper spares the terminal.
- `install.go:327`: an uninstall leaves what others registered. It removes the whole
  group, with what others have put into it; only the backup keeps that.

- `root.go:534`, "click focuses (sidebar row, tab, pane)". A click on a tab's empty pane
  calls `Show` with the empty id, which takes the first tab that has an empty pane
  (`layout.go:227`): with one in an earlier tab the TUI jumps there, and since a click
  is followed by no sync, the screens of the tab it leaves stay attached and those it
  shows are not attached until the next one. Splits and clicks together reach it; hence
  `NoClicks` in section 6, and no split or close in the mix with clicks in `workbench`.

## 9. Behaviours no property forbids

Met while modelling; the code makes no claim against them, or none precise enough
to check.

- Terminals. The reaper closes what was idle when it looked, also if a client has
  attached since. A tab opened while it is being closed gets a new shell after its row
  has gone, and so does one that an unarchive or a daemon restart is restoring; a
  terminal created after a removal has listed its worktree's loses its row to the
  cascade; a server that dies between a terminal's session and its row leaves such a
  shell too. The orphan prune finds them, days later. Nothing else leaves one
  (`StraysTakeTwo`). `RestartPtyd`: a session created between its list and the shutdown
  is not restored; a session of a create that has still to insert its row counts as an
  orphan, and its log is deleted. `Reconcile` drops the log and the row of a tab whose
  restore fails, whatever the reason: a daemon that is just closing is enough. A suspend
  or a shutdown whose write of a log fails says nothing (`server.go:232`): the shell
  ends with an older log, or none.
- Daemon. A shutdown does not save or hang up a session created after its snapshot. A
  shell that ignores SIGHUP outlives the daemon, since the SIGKILL dies with it.
  Between the closing of the listener and the end of the process the lock is held: a
  daemon started then loses it, its client gives up after five seconds, and a restart
  can fail so. `Shutdown` reports "still running" when another client has started the
  next daemon meanwhile.
- Streams. A browser is not told when the daemon drops it or dies; its relay waits for
  the browser. Two clients that show a live query both answer it. `wts attach` tells
  replies of a replay by a window of 250 ms. The TUI's reader of replies (`ptyterm.go`)
  ends when a write to the daemon fails; a query in output that is still buffered then
  blocks the emulator with the screen's lock held.
- Worktrees. A `git worktree add` that fails after it has made the branch, or branch and
  checkout (as when a post-checkout hook fails), is reported and not undone
  (`api.go:518`): every retry with the name fails. The sweep removes, with force, a
  worktree that has been unarchived since it read its list. An import of the very
  worktree that a create has added and not yet inserted makes the create's insert fail
  and roll the imported worktree back. An import works from a listing of git's, which
  may be stale when the row is inserted. A server that dies between `git worktree add`
  and the insert leaves a checkout without a row; discovery offers it for import.
  `docs/architecture.md` describes a removal in another order than `hardRemoveWorktree`
  has.
- Tasks. Settles that overlap in opposite directions can leave the task of an active
  worktree at the last status. Two relabellings of one worktree can strand the task in
  the middle. Two deletions can leave no status at all. A refresh can overwrite a
  title set meanwhile.
- Database. A start that dies between two default statuses leaves an incomplete list
  for good; one that has counted none adds back a status the user deletes meanwhile. A
  second server's statement can meet the first one's and fail with SQLITE_BUSY: it
  exits. Of two that race to add a column one exits. A repository registered at a path
  that is another one's worktree never gets a root worktree. Its settings are saved by
  two statements: two savings at once mix.
- Badges and files. Two changes of one badge at once may be broadcast in the opposite
  order, and a full channel drops one: the badge is wrong until the next event or
  connection. A foreign change within two seconds of an own save is hidden; a save
  marked before there is a watcher is told as foreign; the timer's `select` is ready
  for a send on the channel that the ending loop has closed (`watch.go:118`, `168`),
  and such a send panics: the last tab that leaves within 300 ms of a change can take
  the server down (`SendOnClosed`); a handler whose write fails
  loses the event it has taken, though other tabs are connected (`files.go:204`).
- Hooks. Two installs at once, or an install and an edit, lose one of the two, which a
  backup keeps. A crash between truncating and writing leaves a file that does not
  parse, and every later install fails; a file that says `null` makes it panic. A git
  hook with a begin marker alone loses what follows at the next refresh; with an end
  marker alone it gets another block each time, and cannot be uninstalled.
- Terminal UI. A list that was taken before a session was created drops its pane, or
  brings an ended one back as a tab. Two loads of an empty worktree create a shell each.
  After a failed load the worktree counts as on screen and is not loaded again. Sessions
  made elsewhere appear at the next load only. Zoom stays when its tab has vanished. A
  drag keeps the path of its press (`root.go:548`) whatever lists, ends of sessions and
  keys do to the tree or to the choice of the tab until the button is released: the
  motion moves another divider, or none where the path now ends at a leaf; where the
  path goes on below a leaf, `Pane.node` (`layout.go:328`) walks into nil and the TUI
  panics. Nothing limits splits on a small screen, where panes get no room, or negative
  sizes, which become large ones when a terminal is resized to them.
