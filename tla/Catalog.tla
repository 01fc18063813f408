------------------------------- MODULE Catalog -------------------------------
(***************************************************************************)
(* The database a server opens when it starts, and the repositories        *)
(* registered in it: store.Open and its migrations, one statement of       *)
(* SQLite at a time, the backfill of main's start, and handleAddRepo.  A   *)
(* server may be killed between two statements, and a second one may start *)
(* on the same database: it listens on the next free port.  A statement    *)
(* then fails when it meets the other server's.                            *)
(***************************************************************************)
EXTENDS Naturals, Sequences, FiniteSets, SequencesExt

CONSTANTS
  Servers,
  Rows,       \* worktrees archived before archived_at was there
  Paths,      \* git checkouts a repository may be registered at
  Held,       \* those of them that are a worktree of another repository
  Asks,       \* requests being served
  Ages,       \* how far the database's last server had migrated it
  Unwanted,   \* default statuses the user may delete
  MaxStarts, MaxAsks   \* bounds

VARIABLES
  schema,     \* the tables and columns there are
  bare,       \* archived rows with no archived_at
  statuses,   \* task_statuses, by position
  repos,      \* repos, by age: the path of each
  roots,      \* those with their root worktree's row
  server,     \* each server's progress through its start
  ask,        \* each request to register a repository
  starts, asks,
  deleted     \* ghost: the statuses the user has deleted

vars == <<schema, bare, statuses, repos, roots, server, ask, starts, asks, deleted>>
database == <<schema, bare, statuses, repos, roots>>

\* What Open does, in its order: tables, columns, and two steps on the rows.
Opening == <<"tables", "status", "source", "created_at", "base_branch", "archived_at", "stamp",
             "source_branch", "pinned", "external_worktrees_root", "task_tables", "task_source",
             "task_key", "seed", "backend", "task_sources", "claude_session_id">>
Tables == {"tables", "task_tables", "task_sources"}
Schema == Range(Opening) \ {"stamp", "seed"}
Columns == Schema \ Tables

Defaults == <<"In progress", "In review", "Done">>

Down == [at |-> "down", n |-> 0, todo |-> {}, alone |-> FALSE]
Idle == [at |-> "idle"]
Up(s) == server[s].at \notin {"down", "failed"}
Company(s) == \E t \in Servers \ {s} : Up(t)

-----------------------------------------------------------------------------
Init ==
  /\ \E age \in Ages :
       /\ schema = {Opening[n] : n \in 1..age} \cap Schema
       /\ bare \in (IF age > 1 THEN SUBSET Rows ELSE {{}})
       /\ statuses \in (IF "seed" \in {Opening[n] : n \in 1..age} THEN {Defaults} ELSE {<<>>})
       /\ repos \in (IF age > 0 THEN {SetToSeq(Paths), <<>>} ELSE {<<>>})
  /\ roots = {}
  /\ server = [s \in Servers |-> Down]
  /\ ask = [r \in Asks |-> Idle]
  /\ starts = 0 /\ asks = 0 /\ deleted = {}

Start(s) ==
  /\ ~Up(s) /\ starts < MaxStarts /\ starts' = starts + 1
  /\ server' = [t \in Servers |->
                 IF t = s THEN [Down EXCEPT !.at = "open", !.n = 1, !.alone = ~Company(s)]
                 ELSE [server[t] EXCEPT !.alone = @ /\ server[t].at \in {"serving", "failed"}]]
  /\ UNCHANGED <<database, ask, asks, deleted>>

Doing(s, at) == server[s].at = at
Step(s) == Opening[server[s].n]
To(s, at) == server' = [server EXCEPT ![s].at = at]
\* The next step of Open; after the last one main lists the repositories.
Past(sv, k) ==
  IF sv.n + k > Len(Opening) THEN [sv EXCEPT !.at = "list", !.n = 0]
  ELSE [sv EXCEPT !.at = "open", !.n = @ + k]
Advance(s) == server' = [server EXCEPT ![s] = Past(@, 1)]

\* CREATE TABLE IF NOT EXISTS.
Create(s) ==
  /\ Doing(s, "open") /\ Step(s) \in Tables
  /\ schema' = schema \cup {Step(s)}
  /\ Advance(s) /\ UNCHANGED <<bare, statuses, repos, roots, ask, starts, asks, deleted>>

CheckReturning(s) ==  \* mutant: archived_at's migration returns when the column is there
  /\ Doing(s, "open") /\ Step(s) \in Columns
  /\ IF Step(s) \notin schema THEN To(s, "alter")
     ELSE server' = [server EXCEPT ![s] = Past(@, IF Step(s) = "archived_at" THEN 2 ELSE 1)]
  /\ UNCHANGED <<database, ask, starts, asks, deleted>>
\* hasColumn, and ALTER TABLE if it has not.
Check(s) ==
  /\ Doing(s, "open") /\ Step(s) \in Columns
  /\ IF Step(s) \in schema THEN Advance(s) ELSE To(s, "alter")
  /\ UNCHANGED <<database, ask, starts, asks, deleted>>

Alter(s) ==
  /\ Doing(s, "alter")
  /\ IF Step(s) \in schema   \* another server's: duplicate column name
     THEN To(s, "failed") /\ UNCHANGED schema
     ELSE schema' = schema \cup {Step(s)} /\ Advance(s)
  /\ UNCHANGED <<bare, statuses, repos, roots, ask, starts, asks, deleted>>

Stamp(s) ==
  /\ Doing(s, "open") /\ Step(s) = "stamp"
  /\ bare' = {}
  /\ Advance(s) /\ UNCHANGED <<schema, statuses, repos, roots, ask, starts, asks, deleted>>

Count(s) ==
  /\ Doing(s, "open") /\ Step(s) = "seed"
  /\ IF statuses # <<>> THEN Advance(s)
     ELSE server' = [server EXCEPT ![s].at = "seed", ![s].todo = DOMAIN Defaults]
  /\ UNCHANGED <<database, ask, starts, asks, deleted>>

\* The default statuses, one INSERT each; a name is there once.
Seed(s) ==
  LET i == CHOOSE k \in server[s].todo : \A l \in server[s].todo : k <= l
      left == server[s].todo \ {i} IN
  /\ Doing(s, "seed")
  /\ IF Defaults[i] \in Range(statuses)
     THEN To(s, "failed") /\ UNCHANGED statuses
     ELSE /\ statuses' = Append(statuses, Defaults[i])
          /\ server' = [server EXCEPT ![s] =
               IF left = {} THEN [Past(@, 1) EXCEPT !.todo = {}] ELSE [@ EXCEPT !.todo = left]]
  /\ UNCHANGED <<schema, bare, repos, roots, ask, starts, asks, deleted>>

\* main's backfill: every repository gets the row of its root.
List(s) ==
  /\ Doing(s, "list")
  /\ server' = [server EXCEPT ![s].at = "backfill", ![s].todo = DOMAIN repos]
  /\ UNCHANGED <<database, ask, starts, asks, deleted>>

\* AddWorktree: a path is one worktree's.
EnsureRoot(i) ==
  roots' = IF repos[i] \in Held \/ \E j \in roots : repos[j] = repos[i] THEN roots ELSE roots \cup {i}

BackfillUntilRefused(s, i) ==  \* mutant: the first row refused ends the backfill
  /\ Doing(s, "backfill") /\ i \in server[s].todo
  /\ EnsureRoot(i)
  /\ server' = [server EXCEPT ![s].todo = IF repos[i] \in Held THEN {} ELSE @ \ {i}]
  /\ UNCHANGED <<schema, bare, statuses, repos, ask, starts, asks, deleted>>
Backfill(s, i) ==
  /\ Doing(s, "backfill") /\ i \in server[s].todo
  /\ EnsureRoot(i)
  /\ server' = [server EXCEPT ![s].todo = @ \ {i}]
  /\ UNCHANGED <<schema, bare, statuses, repos, ask, starts, asks, deleted>>

Serve(s) ==
  /\ Doing(s, "backfill") /\ server[s].todo = {} /\ To(s, "serving")
  /\ UNCHANGED <<database, ask, starts, asks, deleted>>

\* A statement meets the other server's: Open fails, the backfill goes on without it.
Busy(s) ==
  /\ Company(s)
  /\ \/ Doing(s, "open") \/ Doing(s, "alter") \/ Doing(s, "seed")
     \/ Doing(s, "list") \/ Doing(s, "backfill")
  /\ \/ ~Doing(s, "list") /\ ~Doing(s, "backfill") /\ To(s, "failed")
     \/ Doing(s, "list") /\ server' = [server EXCEPT ![s].at = "backfill"]
     \/ \E i \in server[s].todo : Doing(s, "backfill") /\ server' = [server EXCEPT ![s].todo = @ \ {i}]
  /\ UNCHANGED <<database, ask, starts, asks, deleted>>

\* A server is killed, and what it was serving with it.
Crash(s) ==
  /\ Up(s)
  /\ server' = [server EXCEPT ![s] = Down]
  /\ ask' = [r \in Asks |-> IF ask[r] # Idle /\ ask[r].s = s THEN Idle ELSE ask[r]]
  /\ UNCHANGED <<database, starts, asks, deleted>>

-----------------------------------------------------------------------------
Registered(p) == p \in Range(repos)

\* handleAddRepo: a path that is not registered, ...
AskAdd(r, s, p) ==
  /\ Doing(s, "serving") /\ ask[r] = Idle /\ asks < MaxAsks /\ asks' = asks + 1
  /\ ~Registered(p)
  /\ ask' = [ask EXCEPT ![r] = [at |-> "add", s |-> s, path |-> p]]
  /\ UNCHANGED <<database, server, starts, deleted>>

\* ... the repository's row, ...
AddRepo(r) ==
  /\ ask[r].at = "add"
  /\ IF Registered(ask[r].path) THEN UNCHANGED repos /\ ask' = [ask EXCEPT ![r] = Idle]
     ELSE /\ repos' = Append(repos, ask[r].path)
          /\ ask' = [ask EXCEPT ![r] = [at |-> "root", s |-> @.s, id |-> Len(repos) + 1]]
  /\ UNCHANGED <<schema, bare, statuses, roots, server, starts, asks, deleted>>

\* ... and its root's.
AddRoot(r) ==
  /\ ask[r].at = "root" /\ EnsureRoot(ask[r].id)
  /\ ask' = [ask EXCEPT ![r] = Idle]
  /\ UNCHANGED <<schema, bare, statuses, repos, server, starts, asks, deleted>>

AskBusy(r) ==
  /\ ask[r] # Idle /\ Company(ask[r].s)
  /\ ask' = [ask EXCEPT ![r] = Idle]
  /\ UNCHANGED <<database, server, starts, asks, deleted>>

\* The user deletes a status; the last one stays.  (A start that has counted
\* none already goes on to add all three.)
DeleteStatus(s, i) ==
  /\ Doing(s, "serving") /\ statuses[i] \in Unwanted /\ Len(statuses) > 1
  /\ statuses' = RemoveAt(statuses, i)
  /\ deleted' = IF \E t \in Servers : Doing(t, "seed") THEN deleted ELSE deleted \cup {statuses[i]}
  /\ UNCHANGED <<schema, bare, repos, roots, server, ask, starts, asks>>

Next ==
  \/ \E s \in Servers :
       \/ Start(s) \/ Create(s) \/ Check(s) \/ Alter(s) \/ Stamp(s) \/ Count(s) \/ Seed(s)
       \/ List(s) \/ Serve(s) \/ Busy(s) \/ Crash(s)
       \/ \E i \in DOMAIN repos : Backfill(s, i)
       \/ \E r \in Asks, p \in Paths : AskAdd(r, s, p)
       \/ \E i \in DOMAIN statuses : DeleteStatus(s, i)
  \/ \E r \in Asks : AddRepo(r) \/ AddRoot(r) \/ AskBusy(r)

-----------------------------------------------------------------------------
TypeOK ==
  /\ schema \subseteq Schema /\ bare \subseteq Rows
  /\ statuses \in Seq(Range(Defaults)) /\ deleted \subseteq Range(Defaults)
  /\ repos \in Seq(Paths) /\ roots \subseteq DOMAIN repos
  /\ server \in [Servers -> [at : {"down", "failed", "open", "alter", "seed", "list", "backfill", "serving"},
                             n : 0..Len(Opening), todo : SUBSET (1..(Len(repos) + Len(Defaults))),
                             alone : BOOLEAN]]
  /\ \A r \in Asks : ask[r] \in
       {Idle} \cup [at : {"add"}, s : Servers, path : Paths] \cup [at : {"root"}, s : Servers, id : DOMAIN repos]
  /\ starts \in 0..MaxStarts /\ asks \in 0..MaxAsks

\* However often and wherever earlier starts were cut off, a server that serves
\* has the whole schema, and no archived worktree lacks the time the retention
\* sweep counts from.
Upgraded ==
  (\E s \in Servers : server[s].at = "serving") => schema = Schema /\ bare = {}

\* A server that serves has a status to give a task, and a status the user
\* deleted is not brought back by a later start.
StatusesKept ==
  /\ (\E s \in Servers : server[s].at = "serving") => statuses # <<>>
  /\ Range(statuses) \cap deleted = {}

\* A database that was left at any point of an earlier start can be opened: only
\* a server that had company can fail to.
LoneStartSucceeds == \A s \in Servers : server[s].at = "failed" => ~server[s].alone

\* Requests of one server or of two register a path once.
RepoOnce == IsInjective(repos)

\* A server that started alone serves only once every repository has its root
\* worktree, also one whose registration was cut off before it; a root that is
\* another repository's worktree has none.
RootsThere ==
  [][\A s \in Servers : server[s].at = "backfill" /\ server'[s].at = "serving" /\ server[s].alone
       => \A i \in DOMAIN repos : i \in roots \/ repos[i] \in Held]_vars

\* What a start leaves behind, wherever it ends, the next can use.
StartsRecover == TypeOK /\ Upgraded /\ StatusesKept /\ LoneStartSucceeds /\ RepoOnce
=============================================================================
