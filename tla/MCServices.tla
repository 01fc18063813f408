----------------------------- MODULE MCServices -----------------------------
(***************************************************************************)
(* One instance of four services, of the database's opening and of the PTY *)
(* daemon's start, which share no state here: a behaviour exercises one.   *)
(***************************************************************************)
EXTENDS PtydStart, Naturals, TLC

CONSTANTS
  Worktrees, Requests, Clients, Buffer, Room, MaxPosts, MaxDrops,
  Tabs, Paths, Saves, Cap, MaxWatchers, MaxWrites,
  Calls, Others, MaxCalls, MaxEdits, MaxCrashes,
  Lines, MaxGitCalls, MaxGitEdits,
  Servers, Rows, Held, Asks, Ages, Unwanted, MaxStarts, MaxAsks,
  w1, w2, r1, r2, a, b, p1, p2, k1, k2, u, x, y

VARIABLES
  part,
  stream, sleepy, pending, req, link, chan, wire, shown, posts, drops, raced, missed, since,
  entry, made, watcher, tab, save, writes, up, owed, foreign,
  file, scripts, backups, call, calls, edits, crashes, theirs, late, should,
  script, gitCall, gitCalls, gitEdits, torn, mine,
  schema, bare, statuses, repos, roots, server, ask, starts, asks, deleted

T == INSTANCE Trackers
F == INSTANCE FileWatch
C == INSTANCE ClaudeHooks
G == INSTANCE GitHook WITH call <- gitCall, calls <- gitCalls, edits <- gitEdits,
                           MaxCalls <- MaxGitCalls, MaxEdits <- MaxGitEdits
S == INSTANCE Catalog

tvars == <<stream, sleepy, pending, req, link, chan, wire, shown, posts, drops, raced, missed, since>>
fvars == <<entry, made, watcher, tab, save, writes, up, owed, foreign>>
cvars == <<file, scripts, backups, call, calls, edits, crashes, theirs, late, should>>
gvars == <<script, gitCall, gitCalls, gitEdits, torn, mine>>
svars == <<schema, bare, statuses, repos, roots, server, ask, starts, asks, deleted>>
allvars == <<part, tvars, fvars, cvars, gvars, svars, vars>>

ServicesInit ==
  /\ part \in {"trackers", "files", "claude", "git", "catalog", "ptyd"}
  /\ T!Init /\ F!Init /\ C!Init /\ G!Init /\ S!Init /\ Init
  \* what the service at hand does not use has one initial state
  /\ part # "trackers" => stream = "open" /\ sleepy = {}
  /\ part # "git" => script = <<>>
  /\ part # "catalog" => schema = {} /\ bare = {} /\ repos = <<>>

ServicesNext ==
  \/ part = "trackers" /\ T!Next /\ UNCHANGED <<part, fvars, cvars, gvars, svars, vars>>
  \/ part = "files" /\ F!Next /\ UNCHANGED <<part, tvars, cvars, gvars, svars, vars>>
  \/ part = "claude" /\ C!Next /\ UNCHANGED <<part, tvars, fvars, gvars, svars, vars>>
  \/ part = "git" /\ G!Next /\ UNCHANGED <<part, tvars, fvars, cvars, svars, vars>>
  \/ part = "catalog" /\ S!Next /\ UNCHANGED <<part, tvars, fvars, cvars, gvars, vars>>
  \/ part = "ptyd" /\ Next /\ UNCHANGED <<part, tvars, fvars, cvars, gvars, svars>>

\* Handlers and the goroutines of a watcher run on; clients dial until they are
\* connected; a sleepy one need not read, and nobody need write or leave.
ServicesSpec ==
  /\ ServicesInit /\ [][ServicesNext]_allvars
  /\ \A c \in Clients :
       /\ WF_tvars(part = "trackers" /\ T!Relay(c))
       /\ WF_tvars(part = "trackers" /\ c \notin sleepy /\ T!Read(c))
  /\ WF_fvars(part = "files" /\ \E i \in F!Ids : F!Runs(i))
  /\ WF_fvars(part = "files" /\ \E t \in Tabs : F!Takes(t))

\* The properties of the parts, by name; the daemon's start brings its own.
BadgesSound == T!BadgesSound
OpensFresh == T!OpensFresh
WatcherSound == F!WatcherSound
NothingLost == C!NothingLost
HooksSound == C!HooksSound
ScriptSound == G!ScriptSound
StartsRecover == S!StartsRecover
RootsThere == S!RootsThere

\* Badges reach those who listen; changed files, a handler of those who do.
ToldInTheEnd == T!BadgesSettle /\ F!ChangeIsTaken
=============================================================================
