----------------------------- MODULE PtydDaemon -----------------------------
(***************************************************************************)
(* The PTY daemon of internal/ptyd: the life of its sessions and of the    *)
(* scrollback logs it keeps on disk for them.                              *)
(*                                                                         *)
(* A session object is born in create, is served by its run goroutine and  *)
(* ends when its process has ended.  Client calls (kill, kill with Keep,   *)
(* shutdown), the 15 s save tick, the processes themselves and the death   *)
(* of the daemon interleave with it: every point at which the Go code      *)
(* releases Server.mu or session.mu is a step boundary here.  One step is  *)
(* one critical section.                                                   *)
(*                                                                         *)
(* Output is abstracted to numbered chunks: a scrollback is the set of the *)
(* chunks it holds, their order being that of their numbers.               *)
(***************************************************************************)
EXTENDS Naturals, FiniteSets

CONSTANTS
  Ids,            \* terminal ids: the keys of Server.sessions, the log names
  Sess,           \* session objects, each created at most once
  Conns,          \* client calls in progress at the same time
  Ops,            \* which requests and failures the environment may issue
  MaxOut,         \* bound: chunks of output produced in a behaviour
  MaxScrollback,  \* chunks a scrollback keeps
  DiskMayFail,    \* whether writing a log can fail
  Nil,            \* no session, no id
  NoLog           \* no saved log

Operations == {"create", "restore", "kill", "keep", "shutdown", "crash"}

ASSUME DaemonAssumption ==
  /\ Ops \subseteq Operations
  /\ MaxOut \in Nat
  /\ MaxScrollback \in Nat \ {0}
  /\ DiskMayFail \in BOOLEAN
  /\ Nil \notin Sess \cup Ids \cup Operations
  /\ \A S \in SUBSET (1..MaxOut) : S # NoLog

VARIABLES
  phase,     \* "up": serving; "closing": listener closed; "down": no process
  stopping,  \* Server.stopping
  sessions,  \* Server.sessions
  sid,       \* the id each session object was created under
  proc,      \* the state of each session's process
  run,       \* where each session's run goroutine is
  sawStop,   \* run's local copy of stopping
  buf,       \* session.buf
  dirty, keep, discard,   \* the session's flags of those names
  killing,   \* session.kill has run: SIGHUP sent, a SIGKILL is due in 2 s
  tick,      \* sessions the current saveAll has still to save
  conn,      \* the client calls
  log,       \* the saved logs on disk
  out        \* chunks of output so far

flags == <<dirty, keep, discard>>
daemon == <<phase, stopping>>
vars == <<daemon, sessions, sid, proc, run, sawStop, buf, flags, killing,
          tick, conn, log, out>>

Chunks == SUBSET (1..MaxOut)

\* The run goroutine: pumping output, past its read of stopping, past its
\* exited section, past its delete from the map; "lost" is a session whose
\* daemon went away.
RunStates == {"none", "pump", "mark", "delete", "done", "lost"}

Served(s) == run[s] \in {"pump", "mark", "delete"}
Exited(s) == run[s] \in {"delete", "done"}      \* session.exited
Live(s)   == run[s] \in {"pump", "mark"}        \* created, not yet exited
LogOf(s)  == IF sid[s] = Nil THEN NoLog ELSE log[sid[s]]

IdleConn == [pc |-> "idle", op |-> Nil, id |-> Nil, s |-> Nil, todo |-> {}]
ConnStates == {"idle", "flag", "save", "hangup", "unlink", "replied", "wipe",
               "snapshot", "loop"}
Calls == [pc : ConnStates, op : {"kill", "keep", "shutdown", Nil},
          id : Ids \cup {Nil}, s : Sess \cup {Nil}, todo : SUBSET Sess]

TypeOK ==
  /\ phase \in {"up", "closing", "down"}
  /\ stopping \in BOOLEAN
  /\ sessions \in [Ids -> Sess \cup {Nil}]
  /\ sid \in [Sess -> Ids \cup {Nil}]
  /\ proc \in [Sess -> {"none", "running", "exited", "signaled"}]
  /\ run \in [Sess -> RunStates]
  /\ sawStop \in [Sess -> BOOLEAN]
  /\ buf \in [Sess -> Chunks]
  /\ dirty \in [Sess -> BOOLEAN]
  /\ keep \in [Sess -> BOOLEAN]
  /\ discard \in [Sess -> BOOLEAN]
  /\ killing \in [Sess -> BOOLEAN]
  /\ tick \in SUBSET Sess
  /\ conn \in [Conns -> Calls]
  /\ log \in [Ids -> {NoLog} \cup Chunks]
  /\ out \in 0..MaxOut

Init ==
  /\ phase = "up" /\ stopping = FALSE
  /\ sessions = [i \in Ids |-> Nil]
  /\ sid = [s \in Sess |-> Nil]
  /\ proc = [s \in Sess |-> "none"]
  /\ run = [s \in Sess |-> "none"]
  /\ sawStop = [s \in Sess |-> FALSE]
  /\ buf = [s \in Sess |-> {}]
  /\ dirty = [s \in Sess |-> FALSE]
  /\ keep = [s \in Sess |-> FALSE]
  /\ discard = [s \in Sess |-> FALSE]
  /\ killing = [s \in Sess |-> FALSE]
  /\ tick = {}
  /\ conn = [c \in Conns |-> IdleConn]
  /\ log = [i \in Ids |-> NoLog]
  /\ out = 0
-----------------------------------------------------------------------------
(***************************************************************************)
(* Scrollback: the newest MaxScrollback chunks of what was written to it.  *)
(***************************************************************************)
Newest(S) == {n \in S : Cardinality({m \in S : m > n}) < MaxScrollback}

(***************************************************************************)
(* create.  The whole of it runs under Server.mu.  A plain create comes    *)
(* with a freshly made id, only a restore reuses one.                      *)
(***************************************************************************)
CreateReplacing(s, i, restore) ==
  /\ run[s] = "none" /\ phase # "down"
  /\ sessions' = [sessions EXCEPT ![i] = s]
  /\ sid' = [sid EXCEPT ![s] = i]
  /\ proc' = [proc EXCEPT ![s] = "running"]
  /\ run' = [run EXCEPT ![s] = "pump"]
  /\ buf' = [buf EXCEPT ![s] = IF restore /\ log[i] # NoLog THEN Newest(log[i])
                                                           ELSE {}]
  /\ dirty' = [dirty EXCEPT ![s] = TRUE]

Create(s, i, restore) ==
  /\ run[s] = "none" /\ phase # "down"
  /\ sessions[i] = Nil
  /\ sessions' = [sessions EXCEPT ![i] = s]
  /\ sid' = [sid EXCEPT ![s] = i]
  /\ proc' = [proc EXCEPT ![s] = "running"]
  /\ run' = [run EXCEPT ![s] = "pump"]
  /\ buf' = [buf EXCEPT ![s] = IF restore /\ log[i] # NoLog THEN Newest(log[i])
                                                           ELSE {}]
  /\ dirty' = [dirty EXCEPT ![s] = TRUE]

CreateRequest(s, i) ==
  /\ \/ "create" \in Ops /\ (\A t \in Sess : sid[t] # i) /\ Create(s, i, FALSE)
     \/ "restore" \in Ops /\ (\E t \in Sess : sid[t] = i) /\ Create(s, i, TRUE)
  /\ UNCHANGED <<daemon, sawStop, keep, discard, killing, tick, conn, log, out>>
-----------------------------------------------------------------------------
(***************************************************************************)
(* The session's process and its run goroutine.                            *)
(***************************************************************************)
Output(s) ==    \* broadcast: the reader copies a chunk into the scrollback
  /\ run[s] = "pump" /\ out < MaxOut
  /\ out' = out + 1
  /\ buf' = [buf EXCEPT ![s] = Newest(@ \cup {out + 1})]
  /\ dirty' = [dirty EXCEPT ![s] = TRUE]
  /\ UNCHANGED <<daemon, sessions, sid, proc, run, sawStop, keep, discard,
                 killing, tick, conn, log>>

\* The process ends by itself (or handles a SIGHUP by exiting), or dies of a
\* signal: the SIGHUP of kill, of a closed pty, or somebody else's.
ProcEnd(s, how) ==
  /\ proc[s] = "running"
  /\ proc' = [proc EXCEPT ![s] = how]
  /\ UNCHANGED <<daemon, sessions, sid, run, sawStop, buf, flags, killing,
                 tick, conn, log, out>>

SigKillOnceExited(s) ==
  /\ killing[s] /\ Exited(s)
  /\ ProcEnd(s, "signaled")

\* The SIGKILL that kill() arms for a process that ignores SIGHUP.
SigKill(s) ==
  /\ killing[s] /\ ~Exited(s)
  /\ ProcEnd(s, "signaled")

RunReadStopping(s) ==   \* Wait returned, the reader has drained and stopped
  /\ run[s] = "pump" /\ proc[s] # "running"
  /\ run' = [run EXCEPT ![s] = "mark"]
  /\ sawStop' = [sawStop EXCEPT ![s] = stopping]
  /\ UNCHANGED <<daemon, sessions, sid, proc, buf, flags, killing, tick, conn,
                 log, out>>

EndsIgnoringKeep(s) == discard[s] \/ (~sawStop[s] /\ proc[s] = "exited")
EndsIgnoringDiscard(s) == ~sawStop[s] /\ ~keep[s] /\ proc[s] = "exited"

\* Ended for good: its saved scrollback goes too.
EndedForGood(s) == discard[s] \/ (~sawStop[s] /\ ~keep[s] /\ proc[s] = "exited")

RunMarkExited(s) ==
  /\ run[s] = "mark"
  /\ run' = [run EXCEPT ![s] = "delete"]
  /\ log' = IF EndedForGood(s) THEN [log EXCEPT ![sid[s]] = NoLog] ELSE log
  /\ sawStop' = [sawStop EXCEPT ![s] = FALSE]
  /\ killing' = [killing EXCEPT ![s] = FALSE]    \* it will find s exited
  /\ UNCHANGED <<daemon, sessions, sid, proc, buf, flags, tick, conn, out>>

RunDelete(s) ==
  /\ run[s] = "delete"
  /\ run' = [run EXCEPT ![s] = "done"]
  /\ sessions' = [sessions EXCEPT ![sid[s]] = Nil]
  /\ UNCHANGED <<daemon, sid, proc, sawStop, buf, flags, killing, tick, conn,
                 log, out>>
-----------------------------------------------------------------------------
(***************************************************************************)
(* save, under session.mu; the write may fail, then the flag stays.        *)
(***************************************************************************)
SaveEvenExited(s) ==
  IF dirty[s]
  THEN /\ log' = [log EXCEPT ![sid[s]] = buf[s]]
       /\ dirty' = [dirty EXCEPT ![s] = FALSE]
  ELSE UNCHANGED <<log, dirty>>

SaveForgetsFlag(s) ==
  IF dirty[s] /\ ~Exited(s)
  THEN /\ dirty' = [dirty EXCEPT ![s] = FALSE]
       /\ \/ log' = [log EXCEPT ![sid[s]] = buf[s]]
          \/ log' = log
  ELSE UNCHANGED <<log, dirty>>

Save(s) ==
  IF dirty[s] /\ ~Exited(s)
  THEN \/ /\ log' = [log EXCEPT ![sid[s]] = buf[s]]
          /\ dirty' = [dirty EXCEPT ![s] = FALSE]
       \/ DiskMayFail /\ UNCHANGED <<log, dirty>>
  ELSE UNCHANGED <<log, dirty>>

MappedSessions == {s \in Sess : \E i \in Ids : sessions[i] = s}

TickStart ==
  /\ phase # "down" /\ tick = {} /\ MappedSessions # {}
  /\ tick' = MappedSessions
  /\ UNCHANGED <<daemon, sessions, sid, proc, run, sawStop, buf, flags,
                 killing, conn, log, out>>

TickSave(s) ==
  /\ s \in tick
  /\ Save(s)
  /\ tick' = tick \ {s}
  /\ UNCHANGED <<daemon, sessions, sid, proc, run, sawStop, buf, keep, discard,
                 killing, conn, out>>
-----------------------------------------------------------------------------
(***************************************************************************)
(* Client.Kill and Client.Suspend with the handler that serves them.  The  *)
(* handler keeps the pointer it looked up: by the time it raises the flag  *)
(* the session may have exited, or have been replaced under the same id.   *)
(***************************************************************************)
Goto(c, pc) == conn' = [conn EXCEPT ![c] = [@ EXCEPT !.pc = pc]]

Call(op, i, pc, s) == [pc |-> pc, op |-> op, id |-> i, s |-> s, todo |-> {}]

Lookup(c, op, i) ==    \* the request arrives, get(id)
  /\ op \in Ops /\ conn[c].pc = "idle" /\ phase = "up"
  /\ \/ sessions[i] # Nil
        /\ conn' = [conn EXCEPT ![c] = Call(op, i, "flag", sessions[i])]
     \/ sessions[i] = Nil /\ op = "kill"
        /\ conn' = [conn EXCEPT ![c] = Call(op, i, "unlink", Nil)]
  /\ UNCHANGED <<daemon, sessions, sid, proc, run, sawStop, buf, flags,
                 killing, tick, log, out>>

KillNobody(c, i) ==    \* no daemon answers a Kill
  /\ "kill" \in Ops /\ conn[c].pc = "idle" /\ phase # "up"
  /\ conn' = [conn EXCEPT ![c] = Call("kill", i, "replied", Nil)]
  /\ UNCHANGED <<daemon, sessions, sid, proc, run, sawStop, buf, flags,
                 killing, tick, log, out>>

Flag(c) ==
  /\ conn[c].pc = "flag"
  /\ \/ /\ conn[c].op = "keep"
        /\ keep' = [keep EXCEPT ![conn[c].s] = TRUE]
        /\ Goto(c, "save")
        /\ UNCHANGED discard
     \/ /\ conn[c].op = "kill"
        /\ discard' = [discard EXCEPT ![conn[c].s] = TRUE]
        /\ Goto(c, "hangup")
        /\ UNCHANGED keep
  /\ UNCHANGED <<daemon, sessions, sid, proc, run, sawStop, buf, dirty,
                 killing, tick, log, out>>

SaveKept(c) ==
  /\ conn[c].pc = "save"
  /\ Save(conn[c].s)
  /\ Goto(c, "hangup")
  /\ UNCHANGED <<daemon, sessions, sid, proc, run, sawStop, buf, keep, discard,
                 killing, tick, out>>

\* session.kill, the last thing a kill request does before it replies; in
\* shutdown the loop over the sessions goes on.
AfterHangUp(call) ==
  CASE call.op = "shutdown" ->
         [call EXCEPT !.pc = "loop", !.todo = @ \ {call.s}, !.s = Nil]
    [] call.op = "kill" -> [call EXCEPT !.pc = "replied", !.s = Nil]
    [] OTHER -> IdleConn

HangUp(c) ==
  /\ conn[c].pc = "hangup"
  /\ killing' = [killing EXCEPT ![conn[c].s] = ~Exited(conn[c].s)]
  /\ conn' = [conn EXCEPT ![c] = AfterHangUp(@)]
  /\ UNCHANGED <<daemon, sessions, sid, proc, run, sawStop, buf, flags, tick,
                 log, out>>

Unlink(c) ==    \* plain kill of an id that has no session: a saved log goes
  /\ conn[c].pc = "unlink"
  /\ log' = [log EXCEPT ![conn[c].id] = NoLog]
  /\ Goto(c, "replied")
  /\ UNCHANGED <<daemon, sessions, sid, proc, run, sawStop, buf, flags,
                 killing, tick, out>>

Return(c) ==    \* back in the client; Kill checks that the daemon still runs
  /\ conn[c].pc = "replied"
  /\ conn' = [conn EXCEPT ![c] = IF phase = "up"
                                 THEN IdleConn ELSE [@ EXCEPT !.pc = "wipe"]]
  /\ UNCHANGED <<daemon, sessions, sid, proc, run, sawStop, buf, flags,
                 killing, tick, log, out>>

Wipe(c) ==      \* it does not: Kill deletes the log itself
  /\ conn[c].pc = "wipe"
  /\ log' = [log EXCEPT ![conn[c].id] = NoLog]
  /\ conn' = [conn EXCEPT ![c] = IdleConn]
  /\ UNCHANGED <<daemon, sessions, sid, proc, run, sawStop, buf, flags,
                 killing, tick, out>>
-----------------------------------------------------------------------------
(***************************************************************************)
(* shutdown: the op, or the goroutine waiting for SIGTERM and SIGINT.      *)
(***************************************************************************)
Shutdown(c) ==
  /\ "shutdown" \in Ops /\ conn[c].pc = "idle" /\ phase = "up"
  /\ stopping' = TRUE
  /\ conn' = [conn EXCEPT ![c] = [IdleConn EXCEPT !.pc = "snapshot",
                                                  !.op = "shutdown"]]
  /\ UNCHANGED <<phase, sessions, sid, proc, run, sawStop, buf, flags, killing,
                 tick, log, out>>

Snapshot(c) ==
  /\ conn[c].pc = "snapshot"
  /\ conn' = [conn EXCEPT ![c] =
       [@ EXCEPT !.pc = "loop", !.todo = MappedSessions]]
  /\ UNCHANGED <<daemon, sessions, sid, proc, run, sawStop, buf, flags,
                 killing, tick, log, out>>

ShutdownSave(c, s) ==
  /\ conn[c].pc = "loop" /\ s \in conn[c].todo
  /\ Save(s)
  /\ conn' = [conn EXCEPT ![c] = [@ EXCEPT !.pc = "hangup", !.s = s]]
  /\ UNCHANGED <<daemon, sessions, sid, proc, run, sawStop, buf, keep, discard,
                 killing, tick, out>>

CloseListener(c) ==
  /\ conn[c].pc = "loop" /\ conn[c].todo = {}
  /\ phase' = "closing"
  /\ conn' = [conn EXCEPT ![c] = IdleConn]
  /\ UNCHANGED <<stopping, sessions, sid, proc, run, sawStop, buf, flags,
                 killing, tick, log, out>>

\* A call whose connection breaks: Kill still has to check for the daemon.
BrokenCall(call) ==
  CASE call.pc = "wipe" -> call
    [] call.pc # "wipe" /\ call.op = "kill" ->
         [call EXCEPT !.pc = "replied", !.s = Nil]
    [] OTHER -> IdleConn

\* The process is gone, with its memory and every goroutine: calls in progress
\* break, no SIGKILL will come any more.
DaemonGone ==
  /\ phase' = "down" /\ stopping' = FALSE
  /\ sessions' = [i \in Ids |-> Nil]
  /\ run' = [s \in Sess |-> IF Served(s) THEN "lost" ELSE run[s]]
  /\ buf' = [s \in Sess |-> {}]
  /\ dirty' = [s \in Sess |-> FALSE]
  /\ keep' = [s \in Sess |-> FALSE]
  /\ discard' = [s \in Sess |-> FALSE]
  /\ sawStop' = [s \in Sess |-> FALSE]
  /\ killing' = [s \in Sess |-> FALSE]
  /\ tick' = {}
  /\ conn' = [c \in Conns |-> BrokenCall(conn[c])]
  /\ UNCHANGED <<sid, proc, log, out>>

Exit == phase = "closing" /\ DaemonGone    \* Serve has returned nil

Crash == "crash" \in Ops /\ phase # "down" /\ DaemonGone

Start ==    \* some client's Create has spawned the next daemon
  /\ phase = "down"
  /\ phase' = "up"
  /\ UNCHANGED <<stopping, sessions, sid, proc, run, sawStop, buf, flags,
                 killing, tick, conn, log, out>>
-----------------------------------------------------------------------------
SessionStep(s) ==
  \/ \E i \in Ids : CreateRequest(s, i)
  \/ Output(s)
  \/ \E how \in {"exited", "signaled"} : ProcEnd(s, how)
  \/ SigKill(s)
  \/ RunReadStopping(s) \/ RunMarkExited(s) \/ RunDelete(s)
  \/ TickSave(s)

CallStep(c) ==
  \/ \E i \in Ids, op \in {"kill", "keep"} : Lookup(c, op, i)
  \/ \E i \in Ids : KillNobody(c, i)
  \/ Flag(c) \/ SaveKept(c) \/ HangUp(c) \/ Unlink(c) \/ Return(c) \/ Wipe(c)
  \/ Shutdown(c) \/ Snapshot(c) \/ CloseListener(c)
  \/ \E s \in Sess : ShutdownSave(c, s)

Next ==
  \/ \E s \in Sess : SessionStep(s)
  \/ \E c \in Conns : CallStep(c)
  \/ TickStart \/ Exit \/ Crash \/ Start

Spec == Init /\ [][Next]_vars
-----------------------------------------------------------------------------
(***************************************************************************)
(* Safety.                                                                 *)
(***************************************************************************)

\* The map and the run goroutines agree: an id maps to the one session object
\* of that id whose run has not finished.  RunDelete deletes by id, not by
\* object, and create only looks at the map: were the two ever apart, a
\* finished session would take a live one out of the map, and its shell could
\* not be listed, attached or killed any more.
MapExact ==
  /\ \A i \in Ids : sessions[i] # Nil =>
       sid[sessions[i]] = i /\ Served(sessions[i])
  /\ \A s \in Sess : Served(s) => sid[s] # Nil /\ sessions[sid[s]] = s

\* The dirty flag is right: a live session that is not dirty has its exact
\* scrollback on disk, unless its log was deleted under it.  Handlers and the
\* tick save sessions they looked up earlier, which may have been replaced
\* under their id since: such a save must never overwrite the successor's log.
LiveLogCurrent ==
  \A s \in Sess : Live(s) /\ ~dirty[s] => LogOf(s) \in {buf[s], NoLog}

\* A log only ever appears for an id whose present session is live: the log
\* that run deletes for a closed terminal does not come back through a save
\* still in progress (a tick, a shutdown, a second kill).
OnlyLiveSessionsSave ==
  [][\A i \in Ids : log[i] = NoLog /\ log'[i] # NoLog =>
       sessions[i] # Nil /\ Live(sessions[i])]_vars
-----------------------------------------------------------------------------
(***************************************************************************)
(* Liveness.  The goroutines the daemon runs get their turn as long as its *)
(* process lives, and an armed SIGKILL cannot be ignored.  Nothing is      *)
(* assumed of the shells, which may ignore SIGHUP and never end.           *)
(***************************************************************************)
SessionFairness ==
  \A s \in Sess : /\ WF_vars(SigKill(s))
                  /\ WF_vars(RunReadStopping(s))
                  /\ WF_vars(RunMarkExited(s))
                  /\ WF_vars(RunDelete(s))
                  /\ WF_vars(TickSave(s))

CallFairness ==
  \A c \in Conns :
    WF_vars(Flag(c) \/ SaveKept(c) \/ HangUp(c) \/ Unlink(c) \/ Return(c)
            \/ Wipe(c) \/ Snapshot(c) \/ CloseListener(c)
            \/ \E s \in Sess : ShutdownSave(c, s))

LiveSpec == Spec /\ SessionFairness /\ CallFairness /\ WF_vars(TickStart)
                 /\ WF_vars(Exit)

\* A session that was killed leaves the map, even if its process ignores
\* SIGHUP, so that its id can be restored; unless the daemon goes first.
KilledSessionEnds ==
  \A s \in Sess : killing[s] ~> ~Served(s)

\* A plain kill of a live session is followed by a moment without a log: what
\* the ticks save meanwhile does not outlive the session.
ClosedLogGoes ==
  \A s \in Sess : discard[s] /\ Live(s) ~> phase = "down" \/ LogOf(s) = NoLog

\* Output of a live session reaches the disk while the daemon lives.
OutputIsSaved ==
  \A s \in Sess : Live(s) /\ dirty[s] ~> ~Live(s) \/ LogOf(s) = buf[s]
=============================================================================
