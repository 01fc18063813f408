-------------------------- MODULE PtydDaemonProofs --------------------------
(***************************************************************************)
(* Proofs about PtydDaemon, for any sets of ids, sessions and calls, any   *)
(* bounds, and whichever requests and failures the environment issues; and *)
(* about the promise of PtydPromise, where nobody closes a terminal.       *)
(***************************************************************************)
EXTENDS PtydPromise, TLAPS, FiniteSetTheorems, WellFoundedInduction

\* A handler that has looked up a session holds one.
HandlersHoldSessions ==
  \A c \in Conns : conn[c].pc \in {"flag", "save", "hangup"} => conn[c].s \in Sess

\* Only a session of the present daemon has anything to save.
DirtyIsPresent == \A s \in Sess : dirty[s] => run[s] \notin {"none", "lost"}

IInv == TypeOK /\ HandlersHoldSessions /\ DirtyIsPresent /\ MapExact
               /\ LiveLogCurrent

LEMMA NewestSubset == ASSUME NEW S PROVE Newest(S) \subseteq S
  BY DEF Newest

\* The updates of a call's record keep it one.
LEMMA CallTypes ==
  /\ IdleConn \in Calls
  /\ \A call \in Calls :
       /\ AfterHangUp(call) \in Calls
       /\ BrokenCall(call) \in Calls
       /\ \A pc \in ConnStates : [call EXCEPT !.pc = pc] \in Calls
  /\ \A op \in {"kill", "keep"}, i \in Ids, pc \in ConnStates, s \in Sess \cup {Nil} :
       Call(op, i, pc, s) \in Calls
<1>1. IdleConn \in Calls
  BY DEF IdleConn, Calls, ConnStates
<1>2. ASSUME NEW call \in Calls, NEW pc \in ConnStates
      PROVE [call EXCEPT !.pc = pc] \in Calls
  BY DEF Calls
<1>3. ASSUME NEW call \in Calls PROVE AfterHangUp(call) \in Calls
  BY <1>1 DEF AfterHangUp, Calls, ConnStates
<1>4. ASSUME NEW call \in Calls PROVE BrokenCall(call) \in Calls
  BY <1>1 DEF BrokenCall, Calls, ConnStates
<1>5. ASSUME NEW op \in {"kill", "keep"}, NEW i \in Ids, NEW pc \in ConnStates,
             NEW s \in Sess \cup {Nil}
      PROVE Call(op, i, pc, s) \in Calls
  BY DEF Call, Calls
<1> QED BY <1>1, <1>2, <1>3, <1>4, <1>5

\* The initial states satisfy the inductive invariant.
LEMMA InitIInv == Init => IInv
<1> SUFFICES ASSUME Init PROVE IInv
  OBVIOUS
<1> USE DEF Init
<1>1. TypeOK
  <2>1. 0 \in 0..MaxOut /\ {} \in Chunks
    BY DaemonAssumption DEF Chunks
  <2> QED BY <2>1, CallTypes DEF TypeOK, RunStates
<1>2. HandlersHoldSessions
  BY DEF HandlersHoldSessions, IdleConn
<1>3. DirtyIsPresent /\ MapExact /\ LiveLogCurrent
  BY DEF DirtyIsPresent, MapExact, LiveLogCurrent, Served, Live
<1> QED BY <1>1, <1>2, <1>3 DEF IInv

\* Every step keeps the variables in their types.
LEMMA TypeStep ==
  ASSUME TypeOK, HandlersHoldSessions, [Next]_vars
  PROVE  TypeOK'
<1>0. ASSUME NEW s \in Sess, Save(s)
      PROVE /\ log' \in [Ids -> {NoLog} \cup Chunks]
            /\ dirty' \in [Sess -> BOOLEAN]
  <2>1. [log EXCEPT ![sid[s]] = buf[s]] \in [Ids -> {NoLog} \cup Chunks]
    BY DEF TypeOK
  <2>2. [dirty EXCEPT ![s] = FALSE] \in [Sess -> BOOLEAN]
    BY DEF TypeOK
  <2> QED BY <1>0, <2>1, <2>2 DEF Save, TypeOK
<1>1. ASSUME NEW s \in Sess, NEW i \in Ids, CreateRequest(s, i)
      PROVE TypeOK'
  <2>1. log[i] # NoLog => Newest(log[i]) \in Chunks
    BY NewestSubset DEF Chunks, TypeOK
  <2>2. PICK restore \in BOOLEAN : Create(s, i, restore)
    BY <1>1 DEF CreateRequest
  <2>3. buf' \in [Sess -> Chunks]
    BY <2>1, <2>2 DEF Create, Chunks, TypeOK
  <2>4. UNCHANGED <<daemon, sawStop, keep, discard, killing, tick, conn, log, out>>
    BY <1>1 DEF CreateRequest
  <2> QED BY <2>2, <2>3, <2>4 DEF Create, daemon, RunStates, TypeOK
<1>2. ASSUME NEW s \in Sess, Output(s) PROVE TypeOK'
  <2>1. out + 1 \in 1..MaxOut
    BY <1>2, DaemonAssumption DEF Output, TypeOK
  <2>2. Newest(buf[s] \cup {out + 1}) \in Chunks
    BY <2>1, NewestSubset DEF Chunks, TypeOK
  <2> QED BY <1>2, <2>1, <2>2 DEF Output, flags, daemon, TypeOK
<1>3. ASSUME NEW s \in Sess, NEW how \in {"exited", "signaled"}, ProcEnd(s, how)
      PROVE TypeOK'
  BY <1>3 DEF ProcEnd, flags, daemon, TypeOK
<1>4. ASSUME NEW s \in Sess, SigKill(s) PROVE TypeOK'
  BY <1>4, <1>3 DEF SigKill, TypeOK
<1>5. ASSUME NEW s \in Sess, RunReadStopping(s) PROVE TypeOK'
  BY <1>5 DEF RunReadStopping, flags, daemon, RunStates, TypeOK
<1>6. ASSUME NEW s \in Sess, RunMarkExited(s) PROVE TypeOK'
  BY <1>6 DEF RunMarkExited, flags, daemon, RunStates, TypeOK
<1>7. ASSUME NEW s \in Sess, RunDelete(s) PROVE TypeOK'
  BY <1>7 DEF RunDelete, flags, daemon, RunStates, TypeOK
<1>8. ASSUME NEW s \in Sess, TickSave(s) PROVE TypeOK'
  BY <1>8, <1>0 DEF TickSave, daemon, TypeOK
<1>9. ASSUME NEW c \in Conns, NEW i \in Ids, NEW op \in {"kill", "keep"},
             Lookup(c, op, i)
      PROVE TypeOK'
  <2>1. {"flag", "unlink"} \subseteq ConnStates /\ sessions[i] \in Sess \cup {Nil}
    BY DEF ConnStates, TypeOK
  <2>2. conn' \in [Conns -> Calls]
    BY <1>9, <2>1, CallTypes DEF Lookup, TypeOK
  <2> QED BY <1>9, <2>2 DEF Lookup, flags, daemon, TypeOK
<1>10. ASSUME NEW c \in Conns, NEW i \in Ids, KillNobody(c, i) PROVE TypeOK'
  <2>1. Call("kill", i, "replied", Nil) \in Calls
    BY CallTypes DEF ConnStates
  <2> QED BY <1>10, <2>1 DEF KillNobody, flags, daemon, TypeOK
<1>11. ASSUME NEW c \in Conns, Flag(c) PROVE TypeOK'
  <2>1. PICK pc \in {"save", "hangup"} : Goto(c, pc)
    BY <1>11 DEF Flag
  <2>2. conn' \in [Conns -> Calls]
    BY <2>1, CallTypes DEF Goto, ConnStates, TypeOK
  <2> QED BY <1>11, <2>2 DEF Flag, daemon, TypeOK
<1>12. ASSUME NEW c \in Conns, SaveKept(c) PROVE TypeOK'
  <2>1. conn' \in [Conns -> Calls]
    BY <1>12, CallTypes DEF SaveKept, Goto, ConnStates, TypeOK
  <2> QED BY <1>12, <1>0, <2>1 DEF SaveKept, daemon, HandlersHoldSessions, TypeOK
<1>13. ASSUME NEW c \in Conns, HangUp(c) PROVE TypeOK'
  <2>1. conn' \in [Conns -> Calls]
    BY <1>13, CallTypes DEF HangUp, TypeOK
  <2> QED BY <1>13, <2>1 DEF HangUp, Exited, flags, daemon, TypeOK
<1>14. ASSUME NEW c \in Conns, Unlink(c) PROVE TypeOK'
  <2>1. conn' \in [Conns -> Calls]
    BY <1>14, CallTypes DEF Unlink, Goto, ConnStates, TypeOK
  <2> QED BY <1>14, <2>1 DEF Unlink, flags, daemon, TypeOK
<1>15. ASSUME NEW c \in Conns, Return(c) PROVE TypeOK'
  <2>1. conn' \in [Conns -> Calls]
    BY <1>15, CallTypes DEF Return, ConnStates, TypeOK
  <2> QED BY <1>15, <2>1 DEF Return, flags, daemon, TypeOK
<1>16. ASSUME NEW c \in Conns, Wipe(c) PROVE TypeOK'
  BY <1>16, CallTypes DEF Wipe, flags, daemon, TypeOK
<1>17. ASSUME NEW c \in Conns, Shutdown(c) PROVE TypeOK'
  <2>1. [IdleConn EXCEPT !.pc = "snapshot", !.op = "shutdown"] \in Calls
    BY DEF IdleConn, Calls, ConnStates
  <2> QED BY <1>17, <2>1 DEF Shutdown, flags, TypeOK
<1>18. ASSUME NEW c \in Conns, Snapshot(c) PROVE TypeOK'
  <2>1. conn[c] \in Calls /\ MappedSessions \in SUBSET Sess
    BY DEF TypeOK, MappedSessions
  <2>2. [conn[c] EXCEPT !.pc = "loop", !.todo = MappedSessions] \in Calls
    BY <2>1 DEF Calls, ConnStates
  <2> QED BY <1>18, <2>2 DEF Snapshot, flags, daemon, TypeOK
<1>19. ASSUME NEW c \in Conns, CloseListener(c) PROVE TypeOK'
  BY <1>19, CallTypes DEF CloseListener, flags, TypeOK
<1>20. ASSUME NEW c \in Conns, NEW s \in Sess, ShutdownSave(c, s) PROVE TypeOK'
  <2>1. conn[c] \in Calls
    BY DEF TypeOK
  <2>2. [conn[c] EXCEPT !.pc = "hangup", !.s = s] \in Calls
    BY <2>1 DEF Calls, ConnStates
  <2> QED BY <1>20, <1>0, <2>2 DEF ShutdownSave, daemon, TypeOK
<1>21. CASE TickStart
  BY <1>21 DEF TickStart, MappedSessions, flags, daemon, TypeOK
<1>22. ASSUME DaemonGone PROVE TypeOK'
  BY <1>22, CallTypes DEF DaemonGone, Served, RunStates, Chunks, TypeOK
<1>23. CASE Start
  BY <1>23 DEF Start, flags, TypeOK
<1>24. CASE UNCHANGED vars
  BY <1>24 DEF vars, flags, daemon, TypeOK
<1> QED
  BY <1>1, <1>2, <1>3, <1>4, <1>5, <1>6, <1>7, <1>8, <1>9, <1>10, <1>11, <1>12,
     <1>13, <1>14, <1>15, <1>16, <1>17, <1>18, <1>19, <1>20, <1>21, <1>22,
     <1>23, <1>24
  DEF Next, SessionStep, CallStep, Exit, Crash

-----------------------------------------------------------------------------
\* What a step can do to the sessions and their logs, whichever action it is.
LEMMA StepEffects ==
  ASSUME TypeOK, HandlersHoldSessions, [Next]_vars
  PROVE  \/ \E s \in Sess, i \in Ids : CreateRequest(s, i)
         \/ \E s \in Sess : \/ Output(s) \/ RunReadStopping(s)
                            \/ RunMarkExited(s) \/ RunDelete(s)
         \/ \E s \in Sess : Save(s) /\ UNCHANGED <<sessions, sid, run, buf>>
         \/ \E i \in Ids \cup {Nil} : /\ log' = [log EXCEPT ![i] = NoLog]
                                      /\ UNCHANGED <<sessions, sid, run, buf, dirty>>
         \/ DaemonGone
         \/ UNCHANGED <<sessions, sid, run, buf, dirty, log>>
<1>1. ASSUME NEW s \in Sess, SessionStep(s)
      PROVE \/ \E i \in Ids : CreateRequest(s, i)
            \/ Output(s) \/ RunReadStopping(s) \/ RunMarkExited(s) \/ RunDelete(s)
            \/ Save(s) /\ UNCHANGED <<sessions, sid, run, buf>>
            \/ UNCHANGED <<sessions, sid, run, buf, dirty, log>>
  BY <1>1 DEF SessionStep, ProcEnd, SigKill, TickSave, flags
<1>2. ASSUME NEW c \in Conns, CallStep(c)
      PROVE \/ \E s \in Sess : Save(s) /\ UNCHANGED <<sessions, sid, run, buf>>
            \/ \E i \in Ids \cup {Nil} : /\ log' = [log EXCEPT ![i] = NoLog]
                                         /\ UNCHANGED <<sessions, sid, run, buf, dirty>>
            \/ UNCHANGED <<sessions, sid, run, buf, dirty, log>>
  <2>1. CASE SaveKept(c)
    BY <2>1 DEF SaveKept, HandlersHoldSessions
  <2>2. CASE Unlink(c) \/ Wipe(c)
    <3>1. conn[c] \in Calls
      BY DEF TypeOK
    <3>2. conn[c].id \in Ids \cup {Nil}
      BY <3>1 DEF Calls
    <3> QED BY <2>2, <3>2 DEF Unlink, Wipe, flags
  <2>3. CASE \E s \in Sess : ShutdownSave(c, s)
    BY <2>3 DEF ShutdownSave
  <2>4. CASE \/ \E i \in Ids, op \in {"kill", "keep"} : Lookup(c, op, i)
             \/ \E i \in Ids : KillNobody(c, i)
             \/ Flag(c) \/ HangUp(c) \/ Return(c)
             \/ Shutdown(c) \/ Snapshot(c) \/ CloseListener(c)
    BY <2>4 DEF Lookup, KillNobody, Flag, HangUp, Return, Shutdown, Snapshot,
       CloseListener, flags
  <2> QED BY <1>2, <2>1, <2>2, <2>3, <2>4 DEF CallStep
<1>3. CASE TickStart \/ Start \/ UNCHANGED vars
  BY <1>3 DEF TickStart, Start, vars, flags
<1> QED BY <1>1, <1>2, <1>3 DEF Next, Exit, Crash

\* Steps preserve that what is dirty is a session of the present daemon.
LEMMA DirtyStep ==
  ASSUME TypeOK, HandlersHoldSessions, DirtyIsPresent, [Next]_vars
  PROVE  DirtyIsPresent'
<1>1. ASSUME NEW s \in Sess, NEW i \in Ids, CreateRequest(s, i)
      PROVE DirtyIsPresent'
  BY <1>1 DEF CreateRequest, Create, DirtyIsPresent, TypeOK
<1>2. ASSUME NEW s \in Sess, Output(s) PROVE DirtyIsPresent'
  BY <1>2 DEF Output, DirtyIsPresent, TypeOK
<1>3. ASSUME NEW s \in Sess,
             RunReadStopping(s) \/ RunMarkExited(s) \/ RunDelete(s)
      PROVE DirtyIsPresent'
  BY <1>3 DEF RunReadStopping, RunMarkExited, RunDelete, flags, DirtyIsPresent,
     TypeOK
<1>4. ASSUME NEW s \in Sess, Save(s), UNCHANGED run PROVE DirtyIsPresent'
  BY <1>4 DEF Save, DirtyIsPresent, TypeOK
<1>5. CASE DaemonGone
  BY <1>5 DEF DaemonGone, DirtyIsPresent
<1>6. CASE UNCHANGED <<run, dirty>>
  BY <1>6 DEF DirtyIsPresent
<1> QED BY StepEffects, <1>1, <1>2, <1>3, <1>4, <1>5, <1>6

\* Steps preserve that handlers past their lookup hold a session.
LEMMA HandlerStep ==
  ASSUME TypeOK, HandlersHoldSessions, [Next]_vars
  PROVE  HandlersHoldSessions'
<1> USE DEF HandlersHoldSessions
<1>1. ASSUME NEW s \in Sess, SessionStep(s) PROVE UNCHANGED conn
  BY <1>1 DEF SessionStep, CreateRequest, Output, ProcEnd, SigKill,
     RunReadStopping, RunMarkExited, RunDelete, TickSave
<1>2. ASSUME NEW c \in Conns, CallStep(c)
      PROVE HandlersHoldSessions'
  <2> DEFINE Holds(call) == call.pc \in {"flag", "save", "hangup"} => call.s \in Sess
  <2>0. conn[c] \in Calls /\ conn \in [Conns -> Calls]
    BY DEF TypeOK
  <2> SUFFICES \E call : conn' = [conn EXCEPT ![c] = call] /\ Holds(call)
    BY <2>0
  <2>1. ASSUME NEW i \in Ids, NEW op \in {"kill", "keep"}, Lookup(c, op, i)
        PROVE \E call : conn' = [conn EXCEPT ![c] = call] /\ Holds(call)
    <3>1. /\ sessions[i] # Nil => Holds(Call(op, i, "flag", sessions[i]))
          /\ Holds(Call(op, i, "unlink", Nil))
      BY DEF Call, TypeOK
    <3>2. CASE /\ sessions[i] # Nil
               /\ conn' = [conn EXCEPT ![c] = Call(op, i, "flag", sessions[i])]
      BY <3>1, <3>2
    <3>3. CASE conn' = [conn EXCEPT ![c] = Call(op, i, "unlink", Nil)]
      BY <3>1, <3>3
    <3> QED BY <2>1, <3>2, <3>3 DEF Lookup
  <2>2. ASSUME NEW i \in Ids, KillNobody(c, i)
        PROVE \E call : conn' = [conn EXCEPT ![c] = call] /\ Holds(call)
    <3>1. Holds(Call("kill", i, "replied", Nil))
      BY DEF Call
    <3> QED BY <2>2, <3>1 DEF KillNobody
  <2>3. CASE Flag(c) \/ SaveKept(c) \/ Unlink(c)
    <3>1. PICK pc \in {"save", "hangup", "replied"} : Goto(c, pc)
      BY <2>3 DEF Flag, SaveKept, Unlink
    <3>2. pc = "replied" \/ conn[c].s \in Sess
      BY <2>3, <3>1, <2>0 DEF Flag, SaveKept, Unlink, Goto, Calls
    <3>3. Holds([conn[c] EXCEPT !.pc = pc])
      BY <3>2, <2>0 DEF Calls
    <3> QED BY <3>1, <3>3 DEF Goto
  <2>4. CASE HangUp(c)
    <3>1. Holds(AfterHangUp(conn[c]))
      BY <2>0 DEF AfterHangUp, IdleConn, Calls
    <3> QED BY <2>4, <3>1 DEF HangUp
  <2>5. CASE Return(c) \/ Wipe(c) \/ CloseListener(c)
    <3>1. Holds(IdleConn) /\ Holds([conn[c] EXCEPT !.pc = "wipe"])
      BY <2>0 DEF IdleConn, Calls
    <3>2. CASE phase = "up" /\ Return(c)
      BY <3>1, <3>2 DEF Return
    <3>3. CASE phase # "up" /\ Return(c)
      BY <3>1, <3>3 DEF Return
    <3>4. CASE Wipe(c)
      BY <3>1, <3>4 DEF Wipe
    <3>5. CASE CloseListener(c)
      BY <3>1, <3>5 DEF CloseListener
    <3> QED BY <2>5, <3>2, <3>3, <3>4, <3>5
  <2>6. CASE Shutdown(c)
    <3>1. Holds([IdleConn EXCEPT !.pc = "snapshot", !.op = "shutdown"])
      BY DEF IdleConn
    <3> QED BY <2>6, <3>1 DEF Shutdown
  <2>7. CASE Snapshot(c)
    <3>1. Holds([conn[c] EXCEPT !.pc = "loop", !.todo = MappedSessions])
      BY <2>0 DEF Calls
    <3> QED BY <2>7, <3>1 DEF Snapshot
  <2>8. ASSUME NEW s \in Sess, ShutdownSave(c, s)
        PROVE \E call : conn' = [conn EXCEPT ![c] = call] /\ Holds(call)
    <3>1. Holds([conn[c] EXCEPT !.pc = "hangup", !.s = s])
      BY <2>0 DEF Calls
    <3> QED BY <2>8, <3>1 DEF ShutdownSave
  <2> QED BY <1>2, <2>1, <2>2, <2>3, <2>4, <2>5, <2>6, <2>7, <2>8 DEF CallStep
<1>3. CASE DaemonGone
  <2>1. ASSUME NEW call \in Calls PROVE BrokenCall(call).pc \notin {"flag", "save", "hangup"}
    BY DEF BrokenCall, IdleConn, Calls
  <2> QED BY <1>3, <2>1 DEF DaemonGone, TypeOK
<1>4. CASE TickStart \/ Start \/ UNCHANGED vars
  BY <1>4 DEF TickStart, Start, vars
<1> QED BY <1>1, <1>2, <1>3, <1>4 DEF Next, Exit, Crash
-----------------------------------------------------------------------------
\* Steps keep the map exact.
LEMMA MapStep ==
  ASSUME TypeOK, HandlersHoldSessions, MapExact, [Next]_vars
  PROVE  MapExact'
<1> USE DEF MapExact, Served
<1>1. ASSUME NEW s \in Sess, NEW i \in Ids, CreateRequest(s, i)
      PROVE MapExact'
  BY <1>1, DaemonAssumption DEF CreateRequest, Create, TypeOK
<1>2. ASSUME NEW s \in Sess, Output(s) PROVE MapExact'
  BY <1>2 DEF Output
<1>3. ASSUME NEW s \in Sess, RunReadStopping(s) \/ RunMarkExited(s)
      PROVE MapExact'
  BY <1>3 DEF RunReadStopping, RunMarkExited, TypeOK
<1>4. ASSUME NEW s \in Sess, RunDelete(s) PROVE MapExact'
  BY <1>4 DEF RunDelete, TypeOK
<1>5. CASE DaemonGone
  BY <1>5 DEF DaemonGone, TypeOK
<1>6. CASE UNCHANGED <<sessions, sid, run>>
  BY <1>6
<1> QED BY StepEffects, <1>1, <1>2, <1>3, <1>4, <1>5, <1>6

\* Steps keep the logs of clean live sessions current.
LEMMA LogStep ==
  ASSUME TypeOK, HandlersHoldSessions, DirtyIsPresent, MapExact, LiveLogCurrent,
         [Next]_vars
  PROVE  LiveLogCurrent'
<1> USE DEF LiveLogCurrent, LogOf, Live
<1>1. ASSUME NEW s \in Sess, NEW i \in Ids, CreateRequest(s, i)
      PROVE LiveLogCurrent'
  BY <1>1 DEF CreateRequest, Create, TypeOK
<1>2. ASSUME NEW s \in Sess, Output(s) PROVE LiveLogCurrent'
  BY <1>2 DEF Output, TypeOK
<1>3. ASSUME NEW s \in Sess,
             RunReadStopping(s) \/ RunMarkExited(s) \/ RunDelete(s)
      PROVE LiveLogCurrent'
  BY <1>3 DEF RunReadStopping, RunMarkExited, RunDelete, flags, TypeOK
<1>4. ASSUME NEW s \in Sess, Save(s), UNCHANGED <<sessions, sid, run, buf>>
      PROVE LiveLogCurrent'
  <2>1. CASE UNCHANGED <<log, dirty>>
    BY <1>4, <2>1
  <2>2. CASE /\ dirty[s] /\ ~Exited(s)
             /\ log' = [log EXCEPT ![sid[s]] = buf[s]]
             /\ dirty' = [dirty EXCEPT ![s] = FALSE]
    <3>1. Served(s)
      BY <2>2 DEF DirtyIsPresent, Exited, Served, TypeOK, RunStates
    <3>2. \A t \in Sess : Live(t) /\ sid[t] = sid[s] => t = s
      BY <3>1 DEF MapExact, Served
    <3> QED BY <1>4, <2>2, <3>1, <3>2 DEF TypeOK, MapExact
  <2> QED BY <1>4, <2>1, <2>2 DEF Save
<1>5. ASSUME NEW i \in Ids \cup {Nil}, log' = [log EXCEPT ![i] = NoLog],
             UNCHANGED <<sessions, sid, run, buf, dirty>>
      PROVE LiveLogCurrent'
  BY <1>5 DEF TypeOK
<1>6. CASE DaemonGone
  BY <1>6 DEF DaemonGone, Served, TypeOK
<1>7. CASE UNCHANGED <<sessions, sid, run, buf, dirty, log>>
  BY <1>7
<1> QED BY StepEffects, <1>1, <1>2, <1>3, <1>4, <1>5, <1>6, <1>7
-----------------------------------------------------------------------------
\* The invariant that carries the proofs: none of its parts is preserved
\* without the ones named in the lemmas above.
THEOREM Invariance == Spec => []IInv
<1>1. IInv /\ [Next]_vars => IInv'
  BY TypeStep, HandlerStep, DirtyStep, MapStep, LogStep DEF IInv
<1> QED BY InitIInv, <1>1, PTL DEF Spec

\* Type correctness of the daemon's state.
THEOREM TypeCorrect == Spec => []TypeOK
<1>1. IInv => TypeOK
  BY DEF IInv
<1> QED BY Invariance, <1>1, PTL

\* Server.sessions holds exactly the session objects whose run has not
\* finished, each under its own id: at most one per id.
THEOREM SessionsExact == Spec => []MapExact
<1>1. IInv => MapExact
  BY DEF IInv
<1> QED BY Invariance, <1>1, PTL

\* A clean live session's log, if it is there, is its scrollback: no stale
\* handler or tick overwrites the log of a restored session.
THEOREM LogsCurrent == Spec => []LiveLogCurrent
<1>1. IInv => LiveLogCurrent
  BY DEF IInv
<1> QED BY Invariance, <1>1, PTL

\* No log comes back once its session has exited: only the live session that
\* the id maps to can make one appear.
THEOREM NoResurrection == Spec => OnlyLiveSessionsSave
<1> DEFINE Appears == \A i \in Ids : log[i] = NoLog /\ log'[i] # NoLog =>
                        sessions[i] # Nil /\ Live(sessions[i])
<1>1. IInv /\ [Next]_vars => [Appears]_vars
  <2> SUFFICES ASSUME IInv, [Next]_vars PROVE Appears
    OBVIOUS
  <2> USE DEF IInv
  <2>1. ASSUME NEW s \in Sess, Save(s) PROVE Appears
    <3>1. CASE UNCHANGED log
      BY <3>1
    <3>2. CASE dirty[s] /\ ~Exited(s) /\ log' = [log EXCEPT ![sid[s]] = buf[s]]
      <4>1. Served(s) /\ Live(s)
        BY <3>2 DEF DirtyIsPresent, Exited, Served, Live, TypeOK, RunStates
      <4> QED BY <3>2, <4>1, DaemonAssumption DEF MapExact, TypeOK
    <3> QED BY <2>1, <3>1, <3>2 DEF Save
  <2>2. ASSUME NEW s \in Sess, RunMarkExited(s) PROVE Appears
    BY <2>2 DEF RunMarkExited, TypeOK
  <2>3. ASSUME NEW i \in Ids \cup {Nil}, log' = [log EXCEPT ![i] = NoLog]
        PROVE Appears
    BY <2>3 DEF TypeOK
  <2>4. CASE UNCHANGED log
    BY <2>4
  <2> QED BY StepEffects, <2>1, <2>2, <2>3, <2>4
      DEF CreateRequest, Output, RunReadStopping, RunDelete, DaemonGone
<1> QED BY Invariance, <1>1, PTL DEF Spec, OnlyLiveSessionsSave

-----------------------------------------------------------------------------
(***************************************************************************)
(* The scrollback: what Newest keeps.                                      *)
(***************************************************************************)
Below == {ss \in Nat \X Nat : ss[1] < ss[2]}

LEMMA BelowWellFounded == IsWellFoundedOn(Below, Nat)
BY NatLessThanWellFounded DEF OpToRel, Below

\* A chunk set that holds anything holds a newest chunk.
LEMMA Largest ==
  ASSUME NEW S \in Chunks, S # {}
  PROVE  \E p \in S : \A q \in S : q <= p
<1>0. MaxOut \in Nat /\ \A q \in S : q \in 1..MaxOut  BY DaemonAssumption DEF Chunks
<1> DEFINE T == {MaxOut - q : q \in S}
<1>1. T \in SUBSET Nat /\ T # {}
  <2>1. ASSUME NEW q \in S  PROVE MaxOut - q \in Nat  BY <1>0
  <2>2. PICK q \in S : TRUE  OBVIOUS
  <2>3. MaxOut - q \in T  BY <2>2
  <2> QED BY <2>1, <2>3
<1>2. PICK r \in T : \A q \in T : <<q, r>> \notin Below  BY <1>1, BelowWellFounded, WFMin
<1>3. PICK p \in S : r = MaxOut - p  BY <1>2
<1>4. ASSUME NEW q \in S  PROVE q <= p
  <2>1. MaxOut - q \in Nat /\ r \in Nat /\ <<MaxOut - q, r>> \notin Below  BY <1>1, <1>2
  <2>2. ASSUME p < q  PROVE FALSE
    <3> DEFINE z == <<MaxOut - q, r>>
    <3>1. z \in Nat \X Nat /\ z[1] = MaxOut - q /\ z[2] = r  BY <2>1
    <3>2. z[1] < z[2]  BY <1>0, <1>3, <2>2, <3>1
    <3>3. z \in Below  BY <3>1, <3>2, Zenon DEF Below
    <3> QED BY <3>3, <2>1
  <2>3. p \in Nat /\ q \in Nat  BY <1>0
  <2> QED BY <2>2, <2>3
<1> QED BY <1>4

Above(S, x) == {m \in S : m > x}

\* A set of chunks has no more newer ones than a set that includes it.
LEMMA AboveCount ==
  ASSUME NEW S \in Chunks, NEW T \in SUBSET S, NEW x
  PROVE  /\ Cardinality(Above(T, x)) \in Nat /\ Cardinality(Above(S, x)) \in Nat
         /\ Cardinality(Above(T, x)) <= Cardinality(Above(S, x))
<1>1. IsFiniteSet(1..MaxOut)  BY DaemonAssumption, FS_Interval
<1>2. Above(S, x) \subseteq 1..MaxOut  BY DEF Above, Chunks
<1>3. IsFiniteSet(Above(S, x))  BY <1>1, <1>2, FS_Subset
<1>4. Above(T, x) \subseteq Above(S, x)  BY DEF Above
<1>5. IsFiniteSet(Above(T, x)) /\ Cardinality(Above(T, x)) <= Cardinality(Above(S, x))
  BY <1>3, <1>4, FS_Subset
<1> QED BY <1>3, <1>5, FS_CardinalityType

\* If the scrollback of S has room above x, it has dropped nothing above x.
LEMMA NothingDropped ==
  ASSUME NEW S \in Chunks, NEW x \in Nat,
         Cardinality(Above(Newest(S), x)) < MaxScrollback
  PROVE  Above(Newest(S), x) = Above(S, x)
<1> DEFINE D == {m \in S : m \notin Newest(S)}
<1>0. Newest(S) \in SUBSET S /\ Newest(S) \in Chunks /\ D \in Chunks  BY NewestSubset DEF Chunks
<1>1. SUFFICES ASSUME NEW y \in D, y > x  PROVE FALSE
  BY <1>0 DEF Above
<1>2. PICK d \in D : \A q \in D : q <= d  BY <1>0, Largest
<1>3. \A m \in Above(S, d) : m \in Above(Newest(S), x)
  <2> TAKE m \in Above(S, d)
  <2>1. m \in S /\ m > d  BY DEF Above
  <2>2. m \in Nat /\ d \in Nat /\ y \in Nat  BY <2>1, <1>0, DaemonAssumption DEF Chunks
  <2>3. m \notin D  BY <1>2, <2>1, <2>2
  <2>4. m \in Newest(S)  BY <2>1, <2>3
  <2>5. m > x  BY <1>1, <1>2, <2>1, <2>2
  <2> QED BY <2>4, <2>5 DEF Above
<1>4. Above(S, d) \in SUBSET Above(Newest(S), x)  BY <1>3
<1>5. IsFiniteSet(Above(Newest(S), x))
  <2>1. Above(Newest(S), x) \subseteq 1..MaxOut  BY <1>0 DEF Above, Chunks
  <2>2. IsFiniteSet(1..MaxOut)  BY DaemonAssumption, FS_Interval
  <2> QED BY <2>1, <2>2, FS_Subset
<1>6. Cardinality(Above(S, d)) <= Cardinality(Above(Newest(S), x))  BY <1>4, <1>5, FS_Subset
<1>7. ~(Cardinality(Above(S, d)) < MaxScrollback)
  <2>1. d \in S /\ d \notin Newest(S)  BY <1>2
  <2> QED BY <2>1 DEF Newest, Above
<1>8. Cardinality(Above(S, d)) \in Nat /\ Cardinality(Above(Newest(S), x)) \in Nat
  BY <1>0, AboveCount
<1> QED BY <1>6, <1>7, <1>8, DaemonAssumption

\* What was promised, as far as the scrollback l still reaches.
Kept(o, l) == Newest(o \cup l) \subseteq l

\* New output in the scrollback drops no promised chunk before its turn.
LEMMA KeptOn ==
  ASSUME NEW o \in Chunks, NEW b \in Chunks, NEW n \in Chunks, Kept(o, b)
  PROVE  Kept(o, Newest(b \cup n))
<1> DEFINE N == Newest(b \cup n)
<1>0. /\ b \cup n \in Chunks /\ o \cup b \in Chunks
      /\ N \in SUBSET (b \cup n) /\ N \in Chunks /\ o \cup N \in Chunks
  BY NewestSubset DEF Chunks
<1>1. SUFFICES ASSUME NEW x \in Newest(o \cup N)  PROVE x \in N
  BY DEF Kept
<1>2. x \in o \cup N /\ Cardinality(Above(o \cup N, x)) < MaxScrollback  BY DEF Newest, Above
<1>3. x \in Nat  BY <1>0, <1>2, DaemonAssumption DEF Chunks
<1>4. Cardinality(Above(N, x)) < MaxScrollback
  <2>1. N \in SUBSET (o \cup N)  OBVIOUS
  <2>2. /\ Cardinality(Above(N, x)) \in Nat /\ Cardinality(Above(o \cup N, x)) \in Nat
        /\ Cardinality(Above(N, x)) <= Cardinality(Above(o \cup N, x))
    BY <1>0, <2>1, AboveCount
  <2> QED BY <1>2, <2>2, DaemonAssumption
<1>5. Above(N, x) = Above(b \cup n, x)  BY <1>0, <1>3, <1>4, NothingDropped
<1>6. CASE x \in o
  <2>1. \A m \in Above(o \cup b, x) : m \in Above(o \cup N, x)  BY <1>5 DEF Above
  <2>2. Above(Above(o \cup b, x), x) = Above(o \cup b, x)  BY DEF Above
  <2>3. Above(o \cup b, x) \in SUBSET (o \cup N)  BY <2>1 DEF Above
  <2>4. Cardinality(Above(o \cup b, x)) <= Cardinality(Above(o \cup N, x))
    BY <1>0, <2>2, <2>3, AboveCount
  <2>5. Cardinality(Above(o \cup b, x)) < MaxScrollback
    <3>1. Cardinality(Above(o \cup b, x)) \in Nat /\ Cardinality(Above(o \cup N, x)) \in Nat
      BY <1>0, AboveCount
    <3> QED BY <1>2, <2>4, <3>1, DaemonAssumption
  <2>6. x \in Newest(o \cup b)  BY <1>6, <2>5 DEF Newest, Above
  <2>7. x \in b  BY <2>6 DEF Kept
  <2> QED BY <1>4, <1>5, <2>7 DEF Newest, Above
<1> QED BY <1>2, <1>6

\* A scrollback that is all of what was promised keeps it.
LEMMA KeptItself == ASSUME NEW b  PROVE Kept(b, b)
BY NewestSubset DEF Kept

-----------------------------------------------------------------------------
(***************************************************************************)
(* What a Suspend or a shutdown has promised to a Restore, in environments *)
(* that do not close terminals.                                            *)
(***************************************************************************)

\* What a call knows: the session it saves for a Suspend is flagged, a shutdown
\* has set stopping.  None is a plain kill.
Knows(call, k, stop) ==
  /\ call.op # "kill" /\ call.pc \notin {"unlink", "replied", "wipe"}
  /\ call.pc = "save" => k[call.s]
  /\ call.op = "shutdown" \/ call.pc \in {"snapshot", "loop"} => stop

CallsKnow == \A c \in Conns : Knows(conn[c], keep, stopping)
NothingDiscarded == \A s \in Sess : ~discard[s]

\* A clean live session has its log.
CleanSaved == \A s \in Sess : Live(s) /\ ~dirty[s] => LogOf(s) = buf[s]

\* The end of a live session will leave the log.
Secured(s) == \/ keep[s]
              \/ run[s] = "pump" /\ stopping
              \/ run[s] = "mark" /\ sawStop[s]

Owes(i, o) ==
  /\ log[i] # NoLog /\ Kept(o, log[i])
  /\ \A s \in Sess : Live(s) /\ sid[s] = i => Secured(s) /\ Kept(o, buf[s])

OwedTyped == owed \in [Ids -> {NoLog} \cup Chunks]
OwedKept == \A i \in Ids : owed[i] # NoLog => Owes(i, owed[i])

Calm == IInv /\ CallsKnow /\ NothingDiscarded /\ CleanSaved
PInv == Calm /\ OwedTyped /\ OwedKept

LEMMA CallsKnowOne ==
  ASSUME IInv, CallsKnow, NEW c \in Conns, NEW call, conn' = [conn EXCEPT ![c] = call],
         Knows(call, keep', stopping'),
         \A s \in Sess : keep[s] => keep'[s], stopping => stopping'
  PROVE  CallsKnow'
<1>1. conn \in [Conns -> Calls] /\ HandlersHoldSessions  BY DEF IInv, TypeOK
<1>2. ASSUME NEW d \in Conns  PROVE Knows(conn'[d], keep', stopping')
  <2>1. CASE d = c  BY <1>1, <2>1
  <2>2. CASE d # c
    <3>1. conn'[d] = conn[d] /\ Knows(conn[d], keep, stopping)  BY <1>1, <2>2 DEF CallsKnow
    <3>2. conn[d].pc = "save" => conn[d].s \in Sess  BY <1>1 DEF HandlersHoldSessions
    <3> QED BY <3>1, <3>2 DEF Knows
  <2> QED BY <2>1, <2>2
<1> QED BY <1>2 DEF CallsKnow

\* What a step of an environment without plain kills can do to the sessions.
LEMMA CalmEffects ==
  ASSUME "kill" \notin Ops, IInv, CallsKnow, NothingDiscarded, [Next]_vars
  PROVE  /\ CallsKnow' /\ NothingDiscarded'
         /\ \/ \E s \in Sess, i \in Ids : CreateRequest(s, i)
            \/ \E s \in Sess : \/ Output(s) \/ RunReadStopping(s)
                               \/ RunMarkExited(s) \/ RunDelete(s)
            \/ \E s \in Sess : /\ Save(s)
                               /\ UNCHANGED <<sessions, sid, run, buf, sawStop, keep, stopping>>
            \/ DaemonGone
            \/ /\ UNCHANGED <<sessions, sid, run, buf, dirty, log, sawStop>>
               /\ \A s \in Sess : keep[s] => keep'[s]
               /\ stopping => stopping'
<1>. Nil \notin {"kill", "keep", "shutdown"}  BY DaemonAssumption DEF Operations
<1>0. TypeOK /\ HandlersHoldSessions /\ conn \in [Conns -> Calls]
      /\ keep \in [Sess -> BOOLEAN] /\ discard \in [Sess -> BOOLEAN]
  BY DEF IInv, TypeOK
<1> DEFINE Saves == \E s \in Sess :
             Save(s) /\ UNCHANGED <<sessions, sid, run, buf, sawStop, keep, stopping>>
           Rests == /\ UNCHANGED <<sessions, sid, run, buf, dirty, log, sawStop>>
                    /\ \A s \in Sess : keep[s] => keep'[s]
                    /\ stopping => stopping'
<1>1. ASSUME NEW s \in Sess, SessionStep(s)
      PROVE /\ UNCHANGED <<conn, keep, discard, stopping>>
            /\ \/ \E i \in Ids : CreateRequest(s, i)
               \/ Output(s) \/ RunReadStopping(s) \/ RunMarkExited(s) \/ RunDelete(s)
               \/ Saves \/ Rests
  <2>1. CASE \E i \in Ids : CreateRequest(s, i)  BY <2>1 DEF CreateRequest, daemon
  <2>2. CASE Output(s) \/ RunReadStopping(s) \/ RunMarkExited(s) \/ RunDelete(s)
    BY <2>2 DEF Output, RunReadStopping, RunMarkExited, RunDelete, flags, daemon
  <2>3. CASE SigKill(s) \/ \E how \in {"exited", "signaled"} : ProcEnd(s, how)
    BY <2>3 DEF ProcEnd, SigKill, flags, daemon
  <2>4. CASE TickSave(s)  BY <2>4 DEF TickSave, daemon
  <2> QED BY <1>1, <2>1, <2>2, <2>3, <2>4 DEF SessionStep
<1>2. ASSUME UNCHANGED <<conn, keep, discard, stopping>>  PROVE CallsKnow' /\ NothingDiscarded'
  BY <1>2 DEF CallsKnow, NothingDiscarded
<1>3. ASSUME NEW c \in Conns, CallStep(c)
      PROVE CallsKnow' /\ NothingDiscarded' /\ (Saves \/ Rests)
  <2> DEFINE call == conn[c]
  <2>0. call \in Calls /\ Knows(call, keep, stopping)
        /\ (call.pc \in {"flag", "save", "hangup"} => call.s \in Sess)
    BY <1>0 DEF CallsKnow, HandlersHoldSessions
  <2> DEFINE Takes(rec) == conn' = [conn EXCEPT ![c] = rec] /\ Knows(rec, keep', stopping')
  <2>1. ASSUME NEW rec, Takes(rec), \A s \in Sess : keep[s] => keep'[s], stopping => stopping'
        PROVE  CallsKnow'
    BY <2>1, CallsKnowOne
  <2> HIDE DEF Takes
  <2>2. ASSUME NEW i \in Ids, NEW op \in {"kill", "keep"}, Lookup(c, op, i)
        PROVE  CallsKnow' /\ NothingDiscarded' /\ Rests
    <3>1. op = "keep"  BY <2>2 DEF Lookup
    <3>2. Takes(Call("keep", i, "flag", sessions[i]))  BY <2>2, <3>1 DEF Lookup, Call, Knows, Takes
    <3>3. Rests /\ UNCHANGED <<keep, discard, stopping>>  BY <2>2 DEF Lookup, flags, daemon
    <3> QED BY <2>1, <3>2, <3>3 DEF NothingDiscarded
  <2>3. ASSUME NEW i \in Ids  PROVE ~KillNobody(c, i)  BY DEF KillNobody
  <2>4. CASE Flag(c)
    <3>1. call.op = "keep" /\ call.s \in Sess  BY <2>0, <2>4 DEF Flag, Knows
    <3>2. keep' = [keep EXCEPT ![call.s] = TRUE] /\ Goto(c, "save")
      BY <2>4, <3>1 DEF Flag
    <3>3. Rests /\ UNCHANGED <<discard, stopping>>  BY <1>0, <2>4, <3>1, <3>2 DEF Flag, daemon
    <3>4. Knows([call EXCEPT !.pc = "save"], keep', stopping')
      BY <1>0, <2>0, <3>1, <3>2, <3>3 DEF Knows, Calls
    <3>5. Takes([call EXCEPT !.pc = "save"])  BY <3>2, <3>4 DEF Goto, Takes
    <3> QED BY <2>1, <3>3, <3>5 DEF NothingDiscarded
  <2>5. CASE SaveKept(c)
    <3>1. UNCHANGED <<keep, discard, stopping>> /\ Saves  BY <2>0, <2>5 DEF SaveKept, daemon
    <3>2. Knows([call EXCEPT !.pc = "hangup"], keep', stopping')
      BY <2>0, <3>1 DEF Knows, Calls
    <3>3. Takes([call EXCEPT !.pc = "hangup"])  BY <2>5, <3>2 DEF SaveKept, Goto, Takes
    <3> QED BY <2>1, <3>1, <3>3 DEF NothingDiscarded
  <2>6. CASE HangUp(c)
    <3>1. UNCHANGED <<keep, discard, stopping>> /\ Rests  BY <2>6 DEF HangUp, flags, daemon
    <3>2. Knows(AfterHangUp(call), keep', stopping')
      BY <2>0, <3>1 DEF Knows, Calls, AfterHangUp, IdleConn
    <3>3. Takes(AfterHangUp(call))  BY <2>6, <3>2 DEF HangUp, Takes
    <3> QED BY <2>1, <3>1, <3>3 DEF NothingDiscarded
  <2>7. ~Unlink(c) /\ ~Return(c) /\ ~Wipe(c)  BY <2>0 DEF Unlink, Return, Wipe, Knows
  <2>8. CASE Shutdown(c)
    <3>1. UNCHANGED <<keep, discard>> /\ Rests /\ stopping' = TRUE  BY <2>8 DEF Shutdown, flags
    <3>2. Takes([IdleConn EXCEPT !.pc = "snapshot", !.op = "shutdown"])
      BY <2>8, <3>1 DEF Shutdown, Knows, IdleConn, Takes
    <3> QED BY <2>1, <3>1, <3>2 DEF NothingDiscarded
  <2>9. CASE Snapshot(c)
    <3>1. UNCHANGED <<keep, discard, stopping>> /\ Rests  BY <2>9 DEF Snapshot, flags, daemon
    <3>2. Knows([call EXCEPT !.pc = "loop", !.todo = MappedSessions], keep', stopping')
      BY <2>0, <2>9, <3>1 DEF Knows, Calls, Snapshot
    <3>3. Takes([call EXCEPT !.pc = "loop", !.todo = MappedSessions])
      BY <2>9, <3>2 DEF Snapshot, Takes
    <3> QED BY <2>1, <3>1, <3>3 DEF NothingDiscarded
  <2>10. CASE CloseListener(c)
    <3>1. UNCHANGED <<keep, discard, stopping>> /\ Rests  BY <2>10 DEF CloseListener, flags
    <3>2. Takes(IdleConn)  BY <2>10 DEF CloseListener, Knows, IdleConn, Takes
    <3> QED BY <2>1, <3>1, <3>2 DEF NothingDiscarded
  <2>11. ASSUME NEW s \in Sess, ShutdownSave(c, s)
         PROVE  CallsKnow' /\ NothingDiscarded' /\ Saves
    <3>1. UNCHANGED <<keep, discard, stopping>> /\ Saves  BY <2>11 DEF ShutdownSave, daemon
    <3>2. Knows([call EXCEPT !.pc = "hangup", !.s = s], keep', stopping')
      BY <2>0, <2>11, <3>1 DEF Knows, Calls, ShutdownSave
    <3>3. Takes([call EXCEPT !.pc = "hangup", !.s = s])  BY <2>11, <3>2 DEF ShutdownSave, Takes
    <3> QED BY <2>1, <3>1, <3>3 DEF NothingDiscarded
  <2> QED BY <1>3, <2>2, <2>3, <2>4, <2>5, <2>6, <2>7, <2>8, <2>9, <2>10, <2>11 DEF CallStep
<1>4. ASSUME DaemonGone  PROVE CallsKnow' /\ NothingDiscarded'
  <2>1. NothingDiscarded'  BY <1>4 DEF DaemonGone, NothingDiscarded
  <2>2. ASSUME NEW c \in Conns  PROVE Knows(conn'[c], keep', stopping')
    <3>1. conn'[c] = BrokenCall(conn[c]) /\ Knows(conn[c], keep, stopping) /\ conn[c] \in Calls
      BY <1>0, <1>4 DEF DaemonGone, CallsKnow
    <3>2. conn'[c] = IdleConn  BY <3>1 DEF BrokenCall, Knows
    <3> QED BY <3>2 DEF Knows, IdleConn
  <2> QED BY <2>1, <2>2 DEF CallsKnow
<1>5. CASE TickStart \/ Start \/ UNCHANGED vars
  <2>1. UNCHANGED <<conn, keep, discard, stopping>> /\ Rests
    BY <1>5 DEF TickStart, Start, vars, flags, daemon
  <2> QED BY <1>2, <2>1
<1> QED BY <1>1, <1>2, <1>3, <1>4, <1>5 DEF Next, Exit, Crash

\* The steps keep the logs of clean live sessions.
LEMMA CleanStep ==
  ASSUME "kill" \notin Ops, Calm, [Next]_vars
  PROVE  Calm'
<1>0. IInv /\ CallsKnow /\ NothingDiscarded /\ CleanSaved /\ TypeOK /\ MapExact
      /\ DirtyIsPresent /\ HandlersHoldSessions
  BY DEF Calm, IInv
<1>1. IInv'  BY <1>0, TypeStep, HandlerStep, DirtyStep, MapStep, LogStep DEF IInv
<1>2. CallsKnow' /\ NothingDiscarded'  BY <1>0, CalmEffects
<1> USE DEF CleanSaved, LogOf, Live
<1>3. ASSUME NEW s \in Sess, NEW i \in Ids, CreateRequest(s, i)  PROVE CleanSaved'
  BY <1>0, <1>3 DEF CreateRequest, Create, TypeOK
<1>4. ASSUME NEW s \in Sess, Output(s)  PROVE CleanSaved'
  BY <1>0, <1>4 DEF Output, TypeOK
<1>5. ASSUME NEW s \in Sess, RunReadStopping(s) \/ RunDelete(s)  PROVE CleanSaved'
  BY <1>0, <1>5 DEF RunReadStopping, RunDelete, flags, TypeOK
<1>6. ASSUME NEW s \in Sess, RunMarkExited(s)  PROVE CleanSaved'
  <2>1. sid[s] \in Ids /\ \A t \in Sess : Live(t) /\ sid[t] = sid[s] => t = s
    BY <1>0, <1>6, DaemonAssumption DEF MapExact, Served, RunMarkExited, TypeOK
  <2>2. \A t \in Sess : t # s => run'[t] = run[t]  BY <1>0, <1>6 DEF RunMarkExited, TypeOK
  <2>3. run'[s] = "delete"  BY <1>0, <1>6 DEF RunMarkExited, TypeOK
  <2>4. \A t \in Sess : Live(t) /\ t # s /\ sid[t] # Nil => log'[sid[t]] = log[sid[t]]
    BY <1>0, <1>6, <2>1 DEF RunMarkExited, TypeOK
  <2> QED BY <1>0, <1>6, <2>2, <2>3, <2>4 DEF RunMarkExited, flags
<1>7. ASSUME NEW s \in Sess, Save(s), UNCHANGED <<sessions, sid, run, buf>>
      PROVE CleanSaved'
  <2>1. CASE UNCHANGED <<log, dirty>>  BY <1>0, <1>7, <2>1
  <2>2. CASE /\ dirty[s] /\ ~Exited(s)
             /\ log' = [log EXCEPT ![sid[s]] = buf[s]]
             /\ dirty' = [dirty EXCEPT ![s] = FALSE]
    <3>1. Served(s)
      BY <1>0, <2>2 DEF DirtyIsPresent, Exited, Served, TypeOK, RunStates
    <3>2. \A t \in Sess : Live(t) /\ sid[t] = sid[s] => t = s
      BY <1>0, <3>1 DEF MapExact, Served
    <3> QED BY <1>0, <1>7, <2>2, <3>1, <3>2 DEF TypeOK, MapExact
  <2> QED BY <1>7, <2>1, <2>2 DEF Save
<1>8. ASSUME DaemonGone  PROVE CleanSaved'
  BY <1>0, <1>8 DEF DaemonGone, Served, TypeOK
<1>9. ASSUME UNCHANGED <<sessions, sid, run, buf, dirty, log>>  PROVE CleanSaved'
  BY <1>0, <1>9
<1>10. CleanSaved'
  BY <1>0, CalmEffects, <1>3, <1>4, <1>5, <1>6, <1>7, <1>8, <1>9
<1> QED BY <1>1, <1>2, <1>10 DEF Calm

\* A step that makes a promise saves; the session's end will leave its log.
LEMMA PromiseStep ==
  ASSUME IInv, CallsKnow, [Next]_vars, NEW s \in Sess, Promised(s)
  PROVE  /\ UNCHANGED <<sid, run, buf, sawStop>>
         /\ Secured(s)'
<1>0. TypeOK /\ HandlersHoldSessions /\ conn \in [Conns -> Calls]  BY DEF IInv, TypeOK
<1>1. PICK c \in Conns :
        /\ conn'[c].pc = "hangup"
        /\ \/ conn[c].pc = "save" /\ conn[c].s = s
           \/ conn[c].pc = "loop" /\ conn'[c].s = s /\ run[s] = "pump"
  BY DEF Promised, SavedNow
<1>2. conn'[c] # conn[c]  BY <1>1
<1>3. ASSUME NEW t \in Sess  PROVE ~SessionStep(t)
  BY <1>2 DEF SessionStep, CreateRequest, Output, ProcEnd, SigKill,
     RunReadStopping, RunMarkExited, RunDelete, TickSave
<1>4. ~TickStart /\ ~Start /\ ~UNCHANGED vars  BY <1>2 DEF TickStart, Start, vars
<1>5. ~DaemonGone
  <2>1. BrokenCall(conn[c]).pc # "hangup"  BY <1>0, <1>1 DEF BrokenCall, IdleConn, Calls
  <2> QED BY <1>1, <2>1 DEF DaemonGone
<1>6. PICK d \in Conns : CallStep(d)  BY <1>3, <1>4, <1>5 DEF Next, Exit, Crash
<1>7. SaveKept(d) \/ \E t \in Sess : ShutdownSave(d, t)
  <2>1. \A e \in Conns : \A rec : conn' = [conn EXCEPT ![e] = rec] => e = c /\ rec.pc = "hangup"
    BY <1>0, <1>1, <1>2
  <2>2. ASSUME NEW i \in Ids, NEW op \in {"kill", "keep"}  PROVE ~Lookup(d, op, i)
    BY <2>1 DEF Lookup, Call
  <2>3. ASSUME NEW i \in Ids  PROVE ~KillNobody(d, i)  BY <2>1 DEF KillNobody, Call
  <2>4. ~Flag(d)
    <3>1. Flag(d) => d = c /\ conn[d].pc = "flag"  BY <2>1 DEF Flag, Goto
    <3> QED BY <3>1, <1>1
  <2>5. ~HangUp(d)
    <3>1. HangUp(d) => d = c /\ conn[d].pc = "hangup"  BY <2>1 DEF HangUp
    <3> QED BY <3>1, <1>1
  <2>6. ~Unlink(d) /\ ~Return(d) /\ ~Wipe(d)
    <3>1. Unlink(d) => d = c /\ conn[d].pc = "unlink"  BY <2>1 DEF Unlink, Goto
    <3>2. Return(d) => d = c /\ conn[d].pc = "replied"  BY <2>1 DEF Return
    <3>3. Wipe(d) => d = c /\ conn[d].pc = "wipe"  BY <2>1 DEF Wipe
    <3> QED BY <3>1, <3>2, <3>3, <1>1
  <2>7. ~Shutdown(d)
    <3>1. Shutdown(d) => d = c /\ conn[d].pc = "idle"  BY <2>1 DEF Shutdown
    <3> QED BY <3>1, <1>1
  <2>8. ~Snapshot(d) /\ ~CloseListener(d)
    <3>1. Snapshot(d) => d = c /\ conn[d].pc = "snapshot"  BY <2>1 DEF Snapshot
    <3>2. ~CloseListener(d)  BY <2>1 DEF CloseListener, IdleConn
    <3> QED BY <3>1, <3>2, <1>1
  <2> QED BY <1>6, <2>2, <2>3, <2>4, <2>5, <2>6, <2>7, <2>8 DEF CallStep
<1>8. UNCHANGED <<sid, run, buf, sawStop, keep, stopping>>
  BY <1>7 DEF SaveKept, ShutdownSave, daemon
<1>9. Secured(s)'
  <2>1. CASE conn[c].pc = "save" /\ conn[c].s = s
    <3>1. keep[s]  BY <2>1 DEF CallsKnow, Knows
    <3> QED BY <3>1, <1>8 DEF Secured
  <2>2. CASE conn[c].pc = "loop" /\ run[s] = "pump"
    <3>1. stopping  BY <2>2 DEF CallsKnow, Knows
    <3> QED BY <2>2, <3>1, <1>8 DEF Secured
  <2> QED BY <1>1, <2>1, <2>2
<1> QED BY <1>8, <1>9

\* A promise made by a step is kept by it.
LEMMA NewPromise ==
  ASSUME "kill" \notin Ops, Calm, [Next]_vars, NEW s \in Sess, Promised(s),
         NEW i \in Ids, i = sid[s], NEW o, o = buf[s]
  PROVE  o \in Chunks /\ Owes(i, o)'
<1>0. /\ IInv /\ CallsKnow /\ TypeOK /\ MapExact
      /\ Calm' /\ CleanSaved' /\ MapExact'
  BY CleanStep DEF Calm, IInv
<1>1. UNCHANGED <<sid, run, buf, sawStop>> /\ Secured(s)'  BY <1>0, PromiseStep
<1>2. Live(s) /\ ~dirty'[s]  BY DEF Promised
<1>3. i # Nil /\ buf[s] \in Chunks /\ buf[s] # NoLog
  BY <1>0, DaemonAssumption DEF TypeOK, Chunks
<1>4. log'[i] = o
  <2>1. Live(s)'  BY <1>1, <1>2 DEF Live
  <2> QED BY <1>0, <1>1, <1>2, <1>3, <2>1 DEF CleanSaved, LogOf
<1>5. \A t \in Sess : Live(t)' /\ sid'[t] = i => t = s
  BY <1>0, <1>1, <1>2, <1>3 DEF MapExact, Live, Served
<1>6. Kept(o, o)  BY KeptItself
<1> QED BY <1>1, <1>3, <1>4, <1>5, <1>6 DEF Owes

\* A promise stays kept through every other step, unless a Restore redeems it.
LEMMA OldPromise ==
  ASSUME "kill" \notin Ops, Calm, [Next]_vars, NEW i \in Ids, NEW o \in Chunks, Owes(i, o),
         ~Redeemed(i)
  PROVE  Owes(i, o)'
<1>0. /\ IInv /\ CallsKnow /\ NothingDiscarded /\ TypeOK /\ MapExact /\ DirtyIsPresent
      /\ CleanSaved
  BY DEF Calm, IInv
<1> USE DEF Owes
<1>1. ASSUME NEW s \in Sess, NEW j \in Ids, CreateRequest(s, j)  PROVE Owes(i, o)'
  <2>1. j # i
    <3>1. run[s] = "none" /\ sid'[s] = j  BY <1>0, <1>1 DEF CreateRequest, Create, TypeOK
    <3> QED BY <3>1 DEF Redeemed
  <2>2. \A t \in Sess : t # s => run'[t] = run[t] /\ sid'[t] = sid[t] /\ buf'[t] = buf[t]
    BY <1>0, <1>1 DEF CreateRequest, Create, TypeOK
  <2>3. sid'[s] = j  BY <1>0, <1>1 DEF CreateRequest, Create, TypeOK
  <2>4. UNCHANGED <<log, keep, stopping, sawStop>>  BY <1>1 DEF CreateRequest, daemon
  <2> QED BY <2>1, <2>2, <2>3, <2>4 DEF Live, Secured
<1>2. ASSUME NEW s \in Sess, Output(s)  PROVE Owes(i, o)'
  <2>1. UNCHANGED <<log, keep, stopping, sawStop, run, sid>>  BY <1>2 DEF Output, daemon
  <2>2. \A t \in Sess : t # s => buf'[t] = buf[t]  BY <1>0, <1>2 DEF Output, TypeOK
  <2>3. Kept(o, buf[s]) => Kept(o, buf'[s])
    <3>1. buf'[s] = Newest(buf[s] \cup {out + 1})  BY <1>0, <1>2 DEF Output, TypeOK
    <3>2. {out + 1} \in Chunks /\ buf[s] \in Chunks
      BY <1>0, <1>2, DaemonAssumption DEF Output, TypeOK, Chunks
    <3> QED BY <3>1, <3>2, KeptOn
  <2> QED BY <2>1, <2>2, <2>3 DEF Live, Secured
<1>3. ASSUME NEW s \in Sess, RunReadStopping(s)  PROVE Owes(i, o)'
  <2>1. UNCHANGED <<log, keep, stopping, buf, sid>>  BY <1>3 DEF RunReadStopping, daemon, flags
  <2>2. /\ \A t \in Sess : t # s => run'[t] = run[t] /\ sawStop'[t] = sawStop[t]
        /\ run[s] = "pump" /\ run'[s] = "mark" /\ sawStop'[s] = stopping
    BY <1>0, <1>3 DEF RunReadStopping, TypeOK
  <2> QED BY <2>1, <2>2 DEF Live, Secured
<1>4. ASSUME NEW s \in Sess, RunMarkExited(s)  PROVE Owes(i, o)'
  <2>1. UNCHANGED <<keep, stopping, buf, sid>>  BY <1>4 DEF RunMarkExited, daemon, flags
  <2>2. /\ \A t \in Sess : t # s => run'[t] = run[t] /\ sawStop'[t] = sawStop[t]
        /\ run[s] = "mark" /\ run'[s] = "delete"
    BY <1>0, <1>4 DEF RunMarkExited, TypeOK
  <2>3. log'[i] = log[i]
    <3>1. CASE sid[s] = i
      <4>1. Secured(s)  BY <2>2, <3>1 DEF Live
      <4>2. ~EndedForGood(s)  BY <1>0, <2>2, <4>1 DEF EndedForGood, Secured, NothingDiscarded
      <4> QED BY <1>4, <4>2 DEF RunMarkExited
    <3>2. CASE sid[s] # i  BY <1>0, <1>4, <3>2 DEF RunMarkExited, TypeOK
    <3> QED BY <3>1, <3>2
  <2> QED BY <2>1, <2>2, <2>3 DEF Live, Secured
<1>5. ASSUME NEW s \in Sess, RunDelete(s)  PROVE Owes(i, o)'
  <2>1. UNCHANGED <<log, keep, stopping, sawStop, buf, sid>>  BY <1>5 DEF RunDelete, daemon, flags
  <2>2. \A t \in Sess : Live(t)' => run'[t] = run[t]  BY <1>0, <1>5 DEF RunDelete, TypeOK, Live
  <2> QED BY <2>1, <2>2 DEF Live, Secured
<1>6. ASSUME NEW s \in Sess, Save(s),
             UNCHANGED <<sessions, sid, run, buf, sawStop, keep, stopping>>
      PROVE  Owes(i, o)'
  <2>1. CASE UNCHANGED log  BY <1>6, <2>1 DEF Live, Secured
  <2>2. CASE dirty[s] /\ ~Exited(s) /\ log' = [log EXCEPT ![sid[s]] = buf[s]]
    <3>1. Live(s)  BY <1>0, <2>2 DEF DirtyIsPresent, Exited, Live, TypeOK, RunStates
    <3>2. log'[i] = log[i] \/ (sid[s] = i /\ log'[i] = buf[s])  BY <1>0, <2>2 DEF TypeOK
    <3>3. buf[s] # NoLog  BY <1>0, DaemonAssumption DEF TypeOK, Chunks
    <3>4. log'[i] # NoLog /\ Kept(o, log'[i])  BY <3>1, <3>2, <3>3
    <3> QED BY <1>6, <3>4 DEF Live, Secured
  <2> QED BY <1>6, <2>1, <2>2 DEF Save
<1>7. ASSUME DaemonGone  PROVE Owes(i, o)'
  <2>1. \A s \in Sess : ~Live(s)'  BY <1>0, <1>7 DEF DaemonGone, Live, Served, TypeOK
  <2> QED BY <1>7, <2>1 DEF DaemonGone
<1>8. ASSUME UNCHANGED <<sessions, sid, run, buf, dirty, log, sawStop>>,
             \A s \in Sess : keep[s] => keep'[s], stopping => stopping'
      PROVE  Owes(i, o)'
  BY <1>8 DEF Live, Secured
<1> QED BY <1>0, CalmEffects, <1>1, <1>2, <1>3, <1>4, <1>5, <1>6, <1>7, <1>8

\* The steps keep what has been promised.
LEMMA PromisesStep ==
  ASSUME "kill" \notin Ops, PInv, [PNext]_pvars
  PROVE  PInv'
<1>0. Calm /\ OwedTyped /\ OwedKept  BY DEF PInv
<1>1. CASE PNext
  <2>0. [Next]_vars  BY <1>1 DEF PNext
  <2>1. Calm'  BY <1>0, <2>0, CleanStep
  <2> DEFINE Mine(i) == \E s \in Sess : sid[s] = i /\ Promised(s)
  <2>2. ASSUME NEW i \in Ids
        PROVE  /\ owed'[i] \in {NoLog} \cup Chunks
               /\ \A o \in Chunks : owed'[i] = o => Owes(i, o)'
    <3>1. CASE Mine(i)
      <4>1. PICK s \in Sess : sid[s] = i /\ Promised(s) /\ owed'[i] = buf[s]
        BY <1>1, <3>1, Zenon DEF PNext
      <4>2. PICK o : o = buf[s]  OBVIOUS
      <4>3. o \in Chunks /\ Owes(i, o)'  BY <1>0, <2>0, <4>1, <4>2, NewPromise
      <4> QED BY <4>1, <4>2, <4>3
    <3>2. CASE ~Mine(i) /\ Redeemed(i)
      <4>1. owed'[i] = NoLog /\ NoLog \notin Chunks
        BY <1>1, <3>2, DaemonAssumption DEF PNext, Chunks
      <4> QED BY <4>1
    <3>3. CASE ~Mine(i) /\ ~Redeemed(i)
      <4>1. owed'[i] = owed[i] /\ owed[i] \in {NoLog} \cup Chunks
        BY <1>0, <1>1, <3>3 DEF PNext, OwedTyped
      <4>2. CASE owed[i] # NoLog
        <5>1. Owes(i, owed[i]) /\ owed[i] \in Chunks  BY <1>0, <4>1, <4>2 DEF OwedKept
        <5>2. PICK o \in Chunks : o = owed[i]  BY <5>1
        <5>3. Owes(i, o)'  BY <1>0, <2>0, <3>3, <5>1, <5>2, OldPromise
        <5> QED BY <4>1, <5>2, <5>3
      <4>3. NoLog \notin Chunks  BY DaemonAssumption DEF Chunks
      <4> QED BY <4>1, <4>2, <4>3
    <3> QED BY <3>1, <3>2, <3>3
  <2>3. OwedTyped'  BY <1>1, <2>2 DEF PNext, OwedTyped
  <2>4. OwedKept'
    <3>1. ASSUME NEW i \in Ids, owed'[i] # NoLog, NEW o, o = owed'[i]  PROVE Owes(i, o)'
      BY <2>2, <3>1
    <3> QED BY <3>1 DEF OwedKept, Owes
  <2> QED BY <2>1, <2>3, <2>4 DEF PInv
<1>2. CASE UNCHANGED pvars
  BY <1>0, <1>2 DEF PInv, pvars, vars, daemon, flags, Calm, IInv, TypeOK, HandlersHoldSessions,
     DirtyIsPresent, MapExact, LiveLogCurrent, CallsKnow, Knows, NothingDiscarded, CleanSaved,
     OwedTyped, OwedKept, Owes, Live, Served, LogOf, Secured
<1> QED BY <1>1, <1>2

\* What Suspend and shutdown have put on disk for a Restore stays there as long
\* as nobody closes the terminal (server.go, kill with Keep and shutdown).
THEOREM PromisesStand ==
  ASSUME "kill" \notin Ops  PROVE PSpec => []PromiseKept
<1>1. PInit => PInv
  <2> SUFFICES ASSUME PInit  PROVE PInv  OBVIOUS
  <2>1. IInv  BY InitIInv DEF PInit
  <2>2. Nil # "kill" /\ Nil # "shutdown"  BY DaemonAssumption DEF Operations
  <2>3. CallsKnow /\ NothingDiscarded /\ CleanSaved
    BY <2>2 DEF PInit, Init, CallsKnow, Knows, IdleConn, NothingDiscarded, CleanSaved, Live
  <2>4. OwedTyped /\ OwedKept  BY DEF PInit, OwedTyped, OwedKept
  <2> QED BY <2>1, <2>3, <2>4 DEF PInv, Calm
<1>2. PInv /\ [PNext]_pvars => PInv'  BY PromisesStep
<1>3. PInv => PromiseKept  BY DEF PInv, OwedKept, Owes, Kept, PromiseKept
<1> QED BY <1>1, <1>2, <1>3, PTL DEF PSpec
=============================================================================
