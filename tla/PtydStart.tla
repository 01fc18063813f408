------------------------------ MODULE PtydStart ------------------------------
(***************************************************************************)
(* One PTY daemon per socket: clients that start one when nothing answers, *)
(* restarts, and daemons that lock, bind, stop and die (ListenAndServe,    *)
(* Client.start and Client.Shutdown).  Each daemon is one process, started *)
(* once.                                                                   *)
(***************************************************************************)
CONSTANTS
  Daemons,    \* the processes that are ever started
  Callers     \* clients

VARIABLES
  life,     \* each daemon process
  lock,     \* who has the flock on the lock file; {}: nobody
  path,     \* whose socket the socket file is; {}: there is none
  caller,   \* each client: what it is doing
  asked,    \* the daemon a restart has asked to stop
  calm      \* ghost: no daemon has been stopping or died since the client began to start one

vars == <<life, lock, path, caller, asked, calm>>

Listening == {"bound", "serving", "stopping"}
Alive == Listening \cup {"new", "locked", "clean", "closed"}

\* Running: somebody accepts on the socket file.
Running == \E d \in path : life[d] \in Listening
Ending == \E d \in Daemons : life[d] \in {"stopping", "closed"}

Starting == {"spawn", "polling"}
Disturb == calm' = [c \in Callers |-> calm[c] /\ caller[c] \notin Starting]

-----------------------------------------------------------------------------
Init ==
  /\ life = [d \in Daemons |-> "unborn"]
  /\ lock = {} /\ path = {}
  /\ caller = [c \in Callers |-> "idle"]
  /\ asked = [c \in Callers |-> {}]
  /\ calm = [c \in Callers |-> TRUE]

To(d, l) == life' = [life EXCEPT ![d] = l]

LockLate(d) ==  \* mutant: the stale socket goes before the lock is taken
  /\ life[d] = "new"
  /\ path' = {}
  /\ IF lock = {} THEN lock' = {d} /\ To(d, "locked") ELSE To(d, "gone") /\ UNCHANGED lock
  /\ UNCHANGED <<caller, asked, calm>>
\* The loser of the flock leaves: ErrAlreadyRunning.
Lock(d) ==
  /\ life[d] = "new"
  /\ IF lock = {} THEN lock' = {d} /\ To(d, "locked") ELSE To(d, "gone") /\ UNCHANGED lock
  /\ UNCHANGED <<path, caller, asked, calm>>

CleanNothing(d) ==  \* mutant: a stale socket stays
  /\ life[d] = "locked" /\ To(d, "clean")
  /\ UNCHANGED <<lock, path, caller, asked, calm>>
\* The socket file a daemon that died has left goes.
Clean(d) ==
  /\ life[d] = "locked" /\ path' = {} /\ To(d, "clean")
  /\ UNCHANGED <<lock, caller, asked, calm>>

\* Listen fails where a socket file is.
Listen(d) ==
  /\ life[d] = "clean"
  /\ IF path = {} THEN path' = {d} /\ To(d, "bound") /\ UNCHANGED lock
     ELSE To(d, "gone") /\ lock' = {} /\ UNCHANGED path
  /\ UNCHANGED <<caller, asked, calm>>

Serve(d) ==
  /\ life[d] = "bound" /\ To(d, "serving")
  /\ UNCHANGED <<lock, path, caller, asked, calm>>

\* A SIGTERM, or the shutdown request: sessions are saved and hung up.
Stop(d) ==
  /\ life[d] = "serving" /\ To(d, "stopping")
  /\ Disturb /\ UNCHANGED <<lock, path, caller, asked>>

\* Closing the listener unlinks the socket file; the flock goes with the process.
Close(d) ==
  /\ life[d] = "stopping" /\ To(d, "closed") /\ path' = {}
  /\ UNCHANGED <<lock, caller, asked, calm>>

Exit(d) ==
  /\ life[d] = "closed" /\ To(d, "gone") /\ lock' = {}
  /\ UNCHANGED <<path, caller, asked, calm>>

\* The process is killed; its socket file stays.
Die(d) ==
  /\ life[d] \in Alive /\ To(d, "gone")
  /\ lock' = lock \ {d}
  /\ Disturb /\ UNCHANGED <<path, caller, asked>>

-----------------------------------------------------------------------------
At(c, at) == caller[c] = at
Goto(c, at) == caller' = [caller EXCEPT ![c] = at]

\* A create finds a daemon, or sets out to start one.
Ask(c) ==
  /\ At(c, "idle") /\ Goto(c, IF Running THEN "served" ELSE "spawn")
  /\ calm' = [calm EXCEPT ![c] = ~Ending]
  /\ UNCHANGED <<life, lock, path, asked>>

Spawn(c, d) ==
  /\ At(c, "spawn") /\ life[d] = "unborn" /\ To(d, "new") /\ Goto(c, "polling")
  /\ UNCHANGED <<lock, path, asked, calm>>

\* The socket is tried fifty times in five seconds, time enough for a daemon that
\* is on its way, ...
Poll(c) ==
  /\ At(c, "polling") /\ Running /\ Goto(c, "served")
  /\ UNCHANGED <<life, lock, path, asked, calm>>

\* ... and no longer.
GiveUp(c) ==
  /\ At(c, "polling") /\ ~Running
  /\ \A d \in Daemons : life[d] \notin {"new", "locked", "clean"}
  /\ Goto(c, "failed")
  /\ UNCHANGED <<life, lock, path, asked, calm>>

Again(c) ==
  /\ caller[c] \in {"served", "failed"} /\ Goto(c, "idle")
  /\ UNCHANGED <<life, lock, path, asked, calm>>

\* Client.Shutdown, of a restart: the daemon answers, and goes on to stop ...
Restart(c) ==
  /\ At(c, "idle")
  /\ \E d \in path : life[d] \in {"serving", "stopping"} /\ To(d, "stopping")
  /\ Goto(c, "waiting") /\ asked' = [asked EXCEPT ![c] = path]
  /\ Disturb /\ UNCHANGED <<lock, path>>

WaitNot(c) ==  \* mutant: the answer is enough
  /\ At(c, "waiting") /\ Goto(c, "restore")
  /\ UNCHANGED <<life, lock, path, asked, calm>>
\* ... until nothing answers.  Then the tabs' shells are created anew.
Wait(c) ==
  /\ At(c, "waiting") /\ ~Running /\ Goto(c, "restore")
  /\ UNCHANGED <<life, lock, path, asked, calm>>

Restore(c) ==
  /\ At(c, "restore") /\ Goto(c, IF Running THEN "served" ELSE "spawn")
  /\ asked' = [asked EXCEPT ![c] = {}]
  /\ calm' = [calm EXCEPT ![c] = ~Ending]
  /\ UNCHANGED <<life, lock, path>>

\* A daemon that goes on answering fails the restart.
StillRunning(c) ==
  /\ At(c, "waiting") /\ \E d \in path : life[d] \in Listening \ {"stopping"}
  /\ Goto(c, "idle")
  /\ asked' = [asked EXCEPT ![c] = {}]
  /\ UNCHANGED <<life, lock, path, calm>>

DaemonStep(d) == Lock(d) \/ Clean(d) \/ Listen(d) \/ Serve(d) \/ Close(d) \/ Exit(d)
CallerStep(c) ==
  Poll(c) \/ GiveUp(c) \/ Wait(c) \/ Restore(c) \/ StillRunning(c) \/ \E d \in Daemons : Spawn(c, d)
Next ==
  \/ \E d \in Daemons : DaemonStep(d) \/ Stop(d) \/ Die(d)
  \/ \E c \in Callers : CallerStep(c) \/ Ask(c) \/ Again(c) \/ Restart(c)
Spec == Init /\ [][Next]_vars

-----------------------------------------------------------------------------
TypeOK ==
  /\ life \in [Daemons -> Alive \cup {"unborn", "gone"}]
  /\ lock \subseteq Daemons /\ path \subseteq Daemons
  /\ caller \in [Callers -> {"idle", "spawn", "polling", "served", "failed", "waiting", "restore"}]
  /\ asked \in [Callers -> SUBSET Daemons] /\ calm \in [Callers -> BOOLEAN]

\* However many clients start one at once, only one daemon listens, and nobody
\* has taken its socket file from under it.
Reachable ==
  \A d \in Daemons : life[d] \in Listening => path = {d} /\ lock = {d}

\* A client that starts a daemon while none is ending or dies gets one, its own
\* or the one that won: also after a crash has left a socket file behind.
StartSucceeds == \A c \in Callers : caller[c] = "failed" => ~calm[c]

\* A restart restores its tabs only when the old daemon does not answer any more.
RestoresOnNew ==
  \A c \in Callers : caller[c] = "restore" => \A d \in asked[c] : life[d] \in {"closed", "gone"}
=============================================================================
