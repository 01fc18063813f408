----------------------------- MODULE ClaudeHooks -----------------------------
(***************************************************************************)
(* Installing the server's hooks into ~/.claude/settings.json, a file that *)
(* the user, Claude Code and other tools edit too: package claudehook's    *)
(* install.go and the settings page's requests.  Nothing locks the file.   *)
(***************************************************************************)
EXTENDS Naturals, Sequences, FiniteSets, SequencesExt, FiniteSetsExt

CONSTANTS
  Calls,       \* install and uninstall requests being served
  Others,      \* commands of other hooks
  MaxCalls, MaxEdits, MaxCrashes   \* bounds

VARIABLES
  file,      \* settings.json: whether it parses, and the groups of each event
  scripts,   \* the hooks whose script file is there
  backups,   \* what the files under backups/ hold
  call,
  calls, edits, crashes,
  theirs,    \* ghost: the others' hooks as their owners left them
  late,      \* ghost: those that were put while a backup was already taken
  should     \* ghost: whether a hook is to be installed: "in", "out" or "open"

vars == <<file, scripts, backups, call, calls, edits, crashes, theirs, late, should>>
bounds == <<calls, edits, crashes>>

Events == {"SessionStart", "Notification"}
Ids == {"session-tracking", "session-context"}
EventsOf(id) == IF id = "session-tracking" THEN Events ELSE {"SessionStart"}
Commands == Ids \cup Others  \* a hook of ours is its script's path

Idle == [at |-> "idle"]
NoHooks == [e \in Events |-> <<>>]
Truncated == [ok |-> FALSE, hooks |-> NoHooks]

Init ==
  /\ file = [ok |-> TRUE, hooks |-> NoHooks]
  /\ scripts = {} /\ backups = {} /\ call = [k \in Calls |-> Idle]
  /\ calls = 0 /\ edits = 0 /\ crashes = 0
  /\ theirs = {} /\ late = {} /\ should = [id \in Ids |-> "open"]

-----------------------------------------------------------------------------
(* What a call makes of the settings it read.  A group is a set of commands. *)

OurEntry(hooks, e, id) == {i \in DOMAIN hooks[e] : id \in hooks[e][i]}
Installed(hooks, id) == \A e \in EventsOf(id) : OurEntry(hooks, e, id) # {}

InstallAgain(hooks, id) ==  \* mutant: an event that has our entry gets another
  [e \in Events |-> IF e \in EventsOf(id) THEN Append(hooks[e], {id}) ELSE hooks[e]]
Install(hooks, id) ==
  [e \in Events |-> IF e \in EventsOf(id) /\ OurEntry(hooks, e, id) = {}
                    THEN Append(hooks[e], {id}) ELSE hooks[e]]

\* The whole group goes, with what others put into it.
Uninstall(hooks, id) ==
  [e \in Events |-> IF e \in EventsOf(id) /\ OurEntry(hooks, e, id) # {}
                    THEN RemoveAt(hooks[e], Min(OurEntry(hooks, e, id))) ELSE hooks[e]]

Result(c) == IF c.op = "install" THEN Install(c.got, c.id) ELSE Uninstall(c.got, c.id)

-----------------------------------------------------------------------------
(* The requests.                                                           *)

To(k, at) == call' = [call EXCEPT ![k] = [@ EXCEPT !.at = at]]

\* The two statuses a call may change, and what it leaves when nobody interferes.
Aim(c) == IF c.op = "install" THEN "in" ELSE "out"
Done(c) ==
  should' = [id \in Ids |-> IF ~c.alone THEN "open" ELSE IF id = c.id THEN Aim(c) ELSE should[id]]

Request(k, op, id) ==
  /\ call[k] = Idle /\ calls < MaxCalls /\ calls' = calls + 1
  /\ call' = [call EXCEPT ![k] = [at |-> IF op = "install" THEN "script" ELSE "read", op |-> op,
                                  id |-> id, got |-> NoHooks, alone |-> TRUE]]
  /\ UNCHANGED <<file, scripts, backups, edits, crashes, theirs, late, should>>

WriteScript(k) ==
  /\ call[k].at = "script" /\ To(k, "read")
  /\ scripts' = scripts \cup {call[k].id}
  /\ UNCHANGED <<file, backups, bounds, theirs, late, should>>

\* readSettings: what does not parse is not touched; what needs no change neither.
Read(k) ==
  LET c == [call[k] EXCEPT !.got = file.hooks, !.alone = TRUE] IN
  /\ c.at = "read"
  /\ IF ~file.ok
       THEN call' = [call EXCEPT ![k] = Idle] /\ UNCHANGED should
     ELSE IF Result(c) = c.got
       THEN call' = [call EXCEPT ![k] = Idle] /\ Done(c)
     ELSE call' = [call EXCEPT ![k] = [c EXCEPT !.at = "backup"]] /\ UNCHANGED should
  /\ UNCHANGED <<file, scripts, backups, bounds, theirs, late>>

BackUpRead(k) ==  \* mutant: what was read is backed up, not what is overwritten
  /\ call[k].at = "backup" /\ To(k, "truncate")
  /\ backups' = backups \cup {[ok |-> TRUE, hooks |-> call[k].got]}
  /\ UNCHANGED <<file, scripts, bounds, theirs, late, should>>
BackUp(k) ==
  /\ call[k].at = "backup" /\ To(k, "truncate")
  /\ backups' = backups \cup {file}
  /\ UNCHANGED <<file, scripts, bounds, theirs, late, should>>

\* os.WriteFile truncates and then writes.
Interfere(k) == [j \in Calls |-> IF j # k /\ call[j] # Idle THEN [call[j] EXCEPT !.alone = FALSE]
                                 ELSE call[j]]
Truncate(k) ==
  /\ call[k].at = "truncate"
  /\ file' = Truncated
  /\ call' = [Interfere(k) EXCEPT ![k].at = "fill"]
  /\ UNCHANGED <<scripts, backups, bounds, theirs, late, should>>
Fill(k) ==
  /\ call[k].at = "fill"
  /\ file' = [ok |-> TRUE, hooks |-> Result(call[k])]
  /\ call' = [Interfere(k) EXCEPT ![k] = Idle]
  /\ Done(call[k])
  /\ UNCHANGED <<scripts, backups, bounds, theirs, late>>

Crash ==
  /\ crashes < MaxCrashes /\ crashes' = crashes + 1
  /\ call' = [k \in Calls |-> Idle]
  /\ should' = [id \in Ids |-> IF \E k \in Calls : call[k] # Idle THEN "open" ELSE should[id]]
  /\ UNCHANGED <<file, scripts, backups, calls, edits, theirs, late>>

-----------------------------------------------------------------------------
(* The others, who edit a file that parses.                                *)

TheirsIn(hooks) ==
  {x \in Events \X Others : \E i \in DOMAIN hooks[x[1]] : x[2] \in hooks[x[1]][i]}

EditTo(hooks) ==
  /\ file.ok /\ edits < MaxEdits /\ edits' = edits + 1
  /\ file' = [file EXCEPT !.hooks = hooks]
  /\ theirs' = theirs \cup TheirsIn(hooks)
  /\ late' = IF \E k \in Calls : call[k].at \in {"truncate", "fill"}
             THEN late \cup TheirsIn(hooks) ELSE late
  /\ call' = [k \in Calls |-> IF call[k] = Idle THEN Idle ELSE [call[k] EXCEPT !.alone = FALSE]]
  /\ should' = [id \in Ids |-> IF Installed(hooks, id) = Installed(file.hooks, id) THEN should[id]
                               ELSE "open"]
  /\ UNCHANGED <<scripts, backups, calls, crashes>>

AddGroup(e, c) == EditTo([file.hooks EXCEPT ![e] = Append(@, {c})])
AddToGroup(e, i, c) == i \in DOMAIN file.hooks[e] /\ EditTo([file.hooks EXCEPT ![e][i] = @ \cup {c}])
\* One of our entries goes by hand.
DropEntry(e, id) ==
  /\ OurEntry(file.hooks, e, id) # {}
  /\ EditTo([file.hooks EXCEPT ![e][Min(OurEntry(file.hooks, e, id))] = @ \ {id}])

\* The user puts a backup in the place of a file that does not parse.
Restore(b) ==
  /\ ~file.ok /\ b.ok /\ \A k \in Calls : call[k] = Idle
  /\ file' = b /\ should' = [id \in Ids |-> "open"]
  /\ UNCHANGED <<scripts, backups, call, bounds, theirs, late>>

CallStep(k) ==
  \/ \E op \in {"install", "uninstall"}, id \in Ids : Request(k, op, id)
  \/ WriteScript(k) \/ Read(k) \/ BackUp(k) \/ Truncate(k) \/ Fill(k)
Edit ==
  \E e \in Events :
    \/ \E c \in Others : AddGroup(e, c) \/ \E i \in 1..MaxCalls : AddToGroup(e, i, c)
    \/ \E id \in Ids : DropEntry(e, id)
Next ==
  \/ \E k \in Calls : CallStep(k)
  \/ Edit \/ Crash
  \/ \E b \in backups : Restore(b)

Spec == Init /\ [][Next]_vars

-----------------------------------------------------------------------------
(* Properties.                                                             *)

Hooks == [Events -> Seq(SUBSET Commands)]
TypeOK ==
  /\ file \in [ok : BOOLEAN, hooks : Hooks] /\ scripts \subseteq Ids
  /\ \A b \in backups : b \in [ok : BOOLEAN, hooks : Hooks]
  /\ \A k \in Calls :
       \/ call[k] = Idle
       \/ call[k] \in [at : {"script", "read", "backup", "truncate", "fill"}, alone : BOOLEAN,
                       op : {"install", "uninstall"}, id : Ids, got : Hooks]
  /\ theirs \subseteq Events \X Others /\ late \subseteq theirs
  /\ should \in [Ids -> {"in", "out", "open"}]

\* What others registered is in the file or in a backup, whatever calls overlap with
\* each other and with edits, whatever shares a group with ours, and wherever the
\* server crashes; all but what comes between a call's backup and its write.
NothingLost ==
  \A x \in theirs \ late :
    x \in TheirsIn(file.hooks) \/ \E b \in backups : x \in TheirsIn(b.hooks)

\* A request nobody interferes with does what it answers, heals half an install, and
\* leaves the other hook as it was.
InstallsTake ==
  file.ok => \A id \in Ids : /\ should[id] = "in" => Installed(file.hooks, id)
                             /\ should[id] = "out" => \A e \in Events : OurEntry(file.hooks, e, id) = {}

\* However often and however concurrently it is installed, an event runs a script once.
OneEntry == \A e \in Events, id \in Ids : Cardinality(OurEntry(file.hooks, e, id)) <= 1

\* Claude Code is never told to run a script that is not there.
ScriptThere == \A e \in Events, id \in Ids : OurEntry(file.hooks, e, id) # {} => id \in scripts

\* A request does all of what it answers, and does it once.
HooksSound == TypeOK /\ InstallsTake /\ OneEntry /\ ScriptThere
=============================================================================
