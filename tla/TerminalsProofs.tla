--------------------------- MODULE TerminalsProofs ---------------------------
(***************************************************************************)
(* Proofs about Terminals, for any sets of worktrees, tabs and requests.   *)
(***************************************************************************)
EXTENDS Terminals, TLAPS

Requests == [op : Operations \cup {Nil}, pc : CallStates, w : Trees \cup {Nil},
             t : Tabs \cup {Nil}, todo : SUBSET Tabs]

\* The tabs without a row whose creation is not in progress either.
Orphans == {t \in Tabs : tab[t] = Nil /\ ~Young(t)}

\* What a request may hold: tabs that were made; only a creation inserts rows; a
\* prune that has read the rows holds orphans.
Holds(r) ==
  /\ r.t # Nil => r.t \in made
  /\ r.todo \subseteq made
  /\ r.pc = "list" => r.w # Nil
  /\ r.pc = "addrow" => r.op = "create"
  /\ r.op = "create" => r.pc \in {"addrow", "kill"}
  /\ r.op = "prune" => r.pc \in {"rows", "loop", "kill"}
  /\ r.op = "prune" /\ r.pc # "rows" => r.todo \subseteq Orphans
  /\ r.op = "prune" /\ r.pc = "kill" => r.t \in Orphans

\* An id is handed out before anything carries it.
MadeFirst == \A t \in Tabs : tab[t] # Nil \/ shell[t] # "none" => t \in made

IInv == TypeOK /\ MadeFirst /\ \A c \in Calls : Holds(call[c])
-----------------------------------------------------------------------------
(***************************************************************************)
(* Types.                                                                  *)
(***************************************************************************)

\* The updates of a request's record keep it one.
LEMMA RequestTypes ==
  /\ IdleCall \in Requests
  /\ \A r \in Requests, pc \in CallStates :
       /\ [r EXCEPT !.pc = pc] \in Requests
       /\ [r EXCEPT !.pc = pc, !.t = Nil] \in Requests
       /\ \A todo \in SUBSET Tabs : [r EXCEPT !.pc = pc, !.todo = todo] \in Requests
<1>1. IdleCall \in Requests
  BY DEF IdleCall, Requests, CallStates
<1>2. ASSUME NEW r \in Requests, NEW pc \in CallStates, NEW todo \in SUBSET Tabs
      PROVE  /\ [r EXCEPT !.pc = pc] \in Requests
             /\ [r EXCEPT !.pc = pc, !.t = Nil] \in Requests
             /\ [r EXCEPT !.pc = pc, !.todo = todo] \in Requests
  BY DEF Requests
<1> QED BY <1>1, <1>2

\* So do those of the loop over the tabs.
LEMMA LoopTypes ==
  ASSUME NEW r \in Requests, NEW t \in Tabs
  PROVE  /\ [r EXCEPT !.todo = @ \ {t}] \in Requests
         /\ \A pc \in CallStates, w \in Trees \cup {Nil} :
              [r EXCEPT !.todo = @ \ {t}, !.pc = pc, !.t = t, !.w = w] \in Requests
BY DEF Requests

\* The records that requests on tabs begin with.
LEMMA NewRequestTypes ==
  ASSUME NEW op \in Operations, NEW pc \in CallStates, NEW w \in Trees \cup {Nil},
         NEW t \in Tabs
  PROVE  OnTab(op, pc, w, t) \in Requests
BY DEF OnTab, IdleCall, Requests, CallStates

\* Changing one request to another keeps the requests in their type.
LEMMA OneRequest ==
  ASSUME TypeOK, NEW c \in Calls, NEW r \in Requests, call' = [call EXCEPT ![c] = r]
  PROVE  /\ call' \in [Calls -> Requests]
         /\ call'[c] = r
         /\ \A d \in Calls : d # c => call'[d] = call[d]
BY DEF TypeOK, Requests

\* One tab less to do.
LEMMA DroppedTypes ==
  ASSUME TypeOK, NEW c \in Calls, NEW t \in Tabs,
         call' = [call EXCEPT ![c] = [call[c] EXCEPT !.todo = @ \ {t}]]
  PROVE  call' \in [Calls -> Requests]
<1> DEFINE r == [call[c] EXCEPT !.todo = @ \ {t}]
<1>1. r \in Requests
  BY LoopTypes DEF TypeOK, Requests
<1>2. call' = [call EXCEPT ![c] = r]
  OBVIOUS
<1> HIDE DEF r
<1> QED BY <1>1, <1>2, OneRequest

\* What the ways to leave a step do to the requests.
LEMMA MoveTypes ==
  ASSUME TypeOK, NEW c \in Calls,
         \/ Finish(c)
         \/ Next1(c)
         \/ \E pc \in CallStates : Goto(c, pc)
  PROVE  call' \in [Calls -> Requests]
<1>1. call[c] \in Requests
  BY DEF TypeOK, Requests
<1>2. CASE Finish(c)
  BY <1>2, RequestTypes, OneRequest DEF Finish
<1>3. CASE Next1(c)
  <2>1. [call[c] EXCEPT !.pc = "loop", !.t = Nil] \in Requests
    BY <1>1, RequestTypes DEF CallStates
  <2> QED BY <1>3, <2>1, OneRequest DEF Next1
<1>4. ASSUME NEW pc \in CallStates, Goto(c, pc) PROVE call' \in [Calls -> Requests]
  <2>1. [call[c] EXCEPT !.pc = pc] \in Requests
    BY <1>1, RequestTypes
  <2> QED BY <1>4, <2>1, OneRequest DEF Goto
<1> QED BY <1>2, <1>3, <1>4

\* Hanging up and starting sessions keep the types.
LEMMA HangupTypes ==
  ASSUME TypeOK, NEW t \in Tabs \cup {Nil},
         \/ Hangup(t) /\ UNCHANGED closing
         \/ Spawn(t)
  PROVE  /\ shell' \in [Tabs -> {"none", "live", "ending"}]
         /\ fate' \in [Tabs -> {"own", "keep", "discard"}]
         /\ saved' \in [Tabs -> BOOLEAN]
         /\ closing' \in BOOLEAN
<1>1. CASE Hangup(t) /\ UNCHANGED closing
  BY <1>1 DEF Hangup, TypeOK
<1>2. CASE Spawn(t)
  BY <1>2 DEF Spawn, TypeOK
<1> QED BY <1>1, <1>2

\* So does suspending them.
LEMMA SuspendTypes ==
  ASSUME TypeOK, NEW t \in Tabs, Suspend(t)
  PROVE  /\ shell' \in [Tabs -> {"none", "live", "ending"}]
         /\ fate' \in [Tabs -> {"own", "keep", "discard"}]
         /\ saved' \in [Tabs -> BOOLEAN]
<1>1. CASE UNCHANGED <<shell, fate, saved>>
  BY <1>1 DEF TypeOK
<1>2. CASE shell' = [shell EXCEPT ![t] = "ending"]
  <2> DEFINE new == IF fate[t] = "discard" /\ ~(shell[t] = "live")
                    THEN "discard" ELSE "keep"
  <2>1. new \in {"keep", "discard"}
    OBVIOUS
  <2>2. CASE /\ fate' = [fate EXCEPT ![t] = new]
             /\ \E lost \in Unwritten({t}) : saved' = [saved EXCEPT ![t] = @ \/ t \notin lost]
    <3> HIDE DEF new
    <3> QED BY <1>2, <2>1, <2>2 DEF TypeOK
  <2> QED BY <1>1, <2>2 DEF Suspend
<1> QED BY <1>1, <1>2 DEF Suspend

\* The daemon and the shells.
LEMMA DaemonTypeOK ==
  ASSUME TypeOK, (\E t \in Tabs : TabStep(t)) \/ DaemonGone \/ ServerGone
  PROVE  TypeOK'
<1> USE DEF store, daemon
<1>1. ASSUME NEW t \in Tabs, Dies(t) PROVE TypeOK'
  BY <1>1 DEF Dies, TypeOK
<1>2. ASSUME NEW t \in Tabs, Gone(t) PROVE TypeOK'
  BY <1>2 DEF Gone, TypeOK
<1>3. ASSUME NEW t \in Tabs, Tick(t) PROVE TypeOK'
  BY <1>3 DEF Tick, TypeOK
<1>4. CASE DaemonGone
  BY <1>4 DEF DaemonGone, TypeOK
<1>5. CASE ServerGone
  BY <1>5, RequestTypes DEF ServerGone, TypeOK, Requests
<1> QED BY <1>1, <1>2, <1>3, <1>4, <1>5 DEF TabStep

\* Requests and jobs that begin.
LEMMA RequestTypeOK ==
  ASSUME TypeOK, NEW c \in Calls, Request(c) \/ Reconcile(c)
  PROVE  TypeOK'
<1> USE DEF store, daemon
<1>1. ASSUME NEW w \in Trees, NEW t \in Tabs, Create(c, w, t) PROVE TypeOK'
  <2>1. OnTab("create", "addrow", w, t) \in Requests
    BY NewRequestTypes DEF Operations, CallStates
  <2>2. call' \in [Calls -> Requests]
    BY <1>1, <2>1, OneRequest DEF Create, Begin
  <2> QED BY <1>1, <2>2, HangupTypes DEF Create, TypeOK, Requests
<1>2. ASSUME NEW t \in Tabs, Close(c, t) \/ Open(c, t) PROVE TypeOK'
  <2>1. tab[t] \in Trees \cup {Nil}
    BY DEF TypeOK
  <2>2. /\ OnTab("close", "kill", tab[t], t) \in Requests
        /\ OnTab("open", "alive", tab[t], t) \in Requests
    BY <2>1, NewRequestTypes DEF Operations, CallStates
  <2>3. call' \in [Calls -> Requests]
    BY <1>2, <2>2, OneRequest DEF Close, Open, Begin
  <2> QED BY <1>2, <2>3 DEF Close, Open, TypeOK, Requests
<1>3. ASSUME NEW w \in Trees, Archive(c, w) \/ Unarchive(c, w) \/ Remove(c, w)
      PROVE  TypeOK'
  <2>1. \A op \in {"archive", "unarchive", "remove"} : OnTree(op, w) \in Requests
    BY DEF OnTree, IdleCall, Requests, Operations, CallStates
  <2>2. call' \in [Calls -> Requests]
    BY <1>3, <2>1, OneRequest DEF Archive, Unarchive, Remove, Begin
  <2> QED BY <1>3, <2>2 DEF Archive, Unarchive, Remove, TypeOK, Requests
<1>4. CASE Restart(c) \/ Prune(c) \/ Reconcile(c)
  <2>1. /\ OnSessions("restart", "shutdown") \in Requests
        /\ OnSessions("prune", "rows") \in Requests
        /\ OnSessions("reconcile", "rows") \in Requests
    BY DEF OnSessions, IdleCall, Requests, Operations, CallStates
  <2>2. call' \in [Calls -> Requests]
    BY <1>4, <2>1, OneRequest DEF Restart, Prune, Reconcile, Begin
  <2> QED BY <1>4, <2>2 DEF Restart, Prune, Reconcile, TypeOK, Requests
<1>5. CASE Reap(c)
  <2>1. PICK idle \in SUBSET Tabs :
          Begin(c, "reap", [IdleCall EXCEPT !.op = "reap", !.pc = "loop", !.todo = idle])
    BY <1>5 DEF Reap
  <2>2. [IdleCall EXCEPT !.op = "reap", !.pc = "loop", !.todo = idle] \in Requests
    BY DEF IdleCall, Requests, Operations, CallStates
  <2>3. call' \in [Calls -> Requests]
    BY <2>1, <2>2, OneRequest DEF Begin
  <2> QED BY <1>5, <2>3 DEF Reap, TypeOK, Requests
<1> QED BY <1>1, <1>2, <1>3, <1>4, <1>5 DEF Request

\* The steps of requests in progress that go through tabs.
LEMMA LoopTypeOK ==
  ASSUME TypeOK, NEW c \in Calls,
         \/ List(c) \/ Rows(c) \/ LoopEnd(c)
         \/ \E t \in Tabs : SuspendTab(c, t) \/ PickTab(c, t)
  PROVE  TypeOK'
<1> USE DEF store, daemon
<1>0. call[c] \in Requests
  BY DEF TypeOK, Requests
<1>1. CASE List(c)
  <2>1. RowsOf(call[c].w) \in SUBSET Tabs
    BY DEF RowsOf
  <2>2. [call[c] EXCEPT !.pc = "loop", !.todo = RowsOf(call[c].w)] \in Requests
    BY <1>0, <2>1, RequestTypes DEF CallStates
  <2>3. call' \in [Calls -> Requests]
    BY <1>1, <2>2, OneRequest DEF List
  <2> QED BY <1>1, <2>3 DEF List, TypeOK, Requests
<1>2. CASE Rows(c)
  <2>1. PICK todo \in SUBSET Tabs :
          call' = [call EXCEPT ![c] = [@ EXCEPT !.pc = "loop", !.todo = todo]]
    <3> DEFINE known == {t \in Tabs : tab[t] # Nil}
               spared == known \cup {t \in Tabs : Young(t)}
    <3>1. call[c].todo \in SUBSET Tabs
      BY <1>0 DEF Requests
    <3>2. CASE call[c].op = "reconcile"
      <4>1. known \ call[c].todo \in SUBSET Tabs
        OBVIOUS
      <4> QED BY <1>2, <3>2, <4>1 DEF Rows
    <3>3. CASE call[c].op # "reconcile"
      <4>1. call[c].todo \ spared \in SUBSET Tabs
        BY <3>1
      <4> QED BY <1>2, <3>3, <4>1 DEF Rows
    <3> QED BY <3>2, <3>3
  <2>2. [call[c] EXCEPT !.pc = "loop", !.todo = todo] \in Requests
    BY <1>0, RequestTypes DEF CallStates
  <2>3. call' \in [Calls -> Requests]
    BY <2>1, <2>2, OneRequest
  <2> QED BY <1>2, <2>3 DEF Rows, TypeOK, Requests
<1>3. CASE LoopEnd(c)
  <2>1. call' \in [Calls -> Requests]
    BY <1>3, MoveTypes DEF LoopEnd, CallStates
  <2> QED BY <1>3, <2>1 DEF LoopEnd, TypeOK, Requests
<1>4. ASSUME NEW t \in Tabs, SuspendTab(c, t) PROVE TypeOK'
  <2>1. CASE Goto(c, "status") /\ UNCHANGED <<shell, fate, saved>>
    <3>1. call' \in [Calls -> Requests]
      BY <2>1, MoveTypes DEF CallStates
    <3> QED BY <1>4, <2>1, <3>1 DEF SuspendTab, TypeOK, Requests
  <2>2. CASE Suspend(t) /\ call' = [call EXCEPT ![c] = [call[c] EXCEPT !.todo = @ \ {t}]]
    <3>1. call' \in [Calls -> Requests]
      BY <2>2, DroppedTypes
    <3> QED BY <1>4, <2>2, <3>1, SuspendTypes DEF SuspendTab, TypeOK, Requests
  <2> QED BY <1>4, <2>1, <2>2 DEF SuspendTab
<1>5. ASSUME NEW t \in Tabs, PickTab(c, t) PROVE TypeOK'
  <2>1. CASE call' = [call EXCEPT ![c] = [call[c] EXCEPT !.todo = @ \ {t}]]
    <3>1. call' \in [Calls -> Requests]
      BY <2>1, DroppedTypes
    <3> QED BY <1>5, <3>1 DEF PickTab, TypeOK, Requests
  <2>2. CASE \E w \in Trees \cup {Nil} : call' = [call EXCEPT ![c] =
               [call[c] EXCEPT !.todo = @ \ {t}, !.pc = Work(c, t), !.t = t, !.w = w]]
    <3>1. PICK w \in Trees \cup {Nil} : call' = [call EXCEPT ![c] =
            [call[c] EXCEPT !.todo = @ \ {t}, !.pc = Work(c, t), !.t = t, !.w = w]]
      BY <2>2
    <3>2. Work(c, t) \in CallStates
      BY DEF Work, CallStates
    <3> DEFINE r == [call[c] EXCEPT !.todo = @ \ {t}, !.pc = Work(c, t), !.t = t,
                                    !.w = w]
    <3>3. r \in Requests
      BY <1>0, <3>2, LoopTypes
    <3>4. call' = [call EXCEPT ![c] = r]
      BY <3>1
    <3> HIDE DEF r
    <3>5. call' \in [Calls -> Requests]
      BY <3>3, <3>4, OneRequest
    <3> QED BY <1>5, <3>5 DEF PickTab, TypeOK, Requests
  <2>3. tab[t] \in Trees \cup {Nil} /\ call[c].w \in Trees \cup {Nil}
    BY <1>0 DEF TypeOK, Requests
  <2> QED BY <1>5, <2>1, <2>2, <2>3 DEF PickTab
<1> QED BY <1>1, <1>2, <1>3, <1>4, <1>5

\* The other steps of requests in progress.
LEMMA ProgressTypeOK ==
  ASSUME TypeOK, NEW c \in Calls, Progress(c)
  PROVE  TypeOK'
<1> USE DEF store, daemon
<1>0. call[c] \in Requests /\ call[c].t \in Tabs \cup {Nil} /\ call[c].w \in Trees \cup {Nil}
  BY DEF TypeOK, Requests
<1>1. CASE AddRow(c)
  <2>1. call' \in [Calls -> Requests]
    BY <1>1, MoveTypes DEF AddRow, CallStates
  <2> QED BY <1>0, <1>1, <2>1 DEF AddRow, TypeOK, Requests
<1>2. CASE Shutdown(c)
  <2>1. call' \in [Calls -> Requests]
    BY <1>2, MoveTypes DEF Shutdown, CallStates
  <2>2. closing' \in BOOLEAN /\ shell' \in [Tabs -> {"none", "live", "ending"}]
    BY <1>2 DEF Shutdown, TypeOK
  <2>3. saved' \in [Tabs -> BOOLEAN] /\ fate' \in [Tabs -> {"own", "keep", "discard"}]
    <3> DEFINE saves(late) == {t \in Tabs : Listed(t)} \ late
    <3>1. PICK late \in SUBSET {t \in Tabs : shell[t] = "ending"} :
            /\ \E lost \in Unwritten(saves(late)) :
                 saved' = [t \in Tabs |-> saved[t] \/ t \in saves(late) \ lost]
            /\ fate' = [t \in Tabs |->
                 IF t \in saves(late) /\ (shell[t] = "live" \/ fate[t] # "discard")
                 THEN "keep" ELSE fate[t]]
      BY <1>2 DEF Shutdown
    <3> HIDE DEF saves
    <3>2. \A t \in Tabs : saved[t] \in BOOLEAN /\ fate[t] \in {"own", "keep", "discard"}
      BY DEF TypeOK
    <3>3. saved' \in [Tabs -> BOOLEAN]
      BY <3>1, ZenonT(30)
    <3>4. fate' \in [Tabs -> {"own", "keep", "discard"}]
      BY <3>1, <3>2
    <3> QED BY <3>3, <3>4
  <2> QED BY <1>2, <2>1, <2>2, <2>3 DEF Shutdown, TypeOK, Requests
<1>3. CASE Wait(c)
  <2>1. call' \in [Calls -> Requests]
    BY <1>3, MoveTypes DEF Wait, CallStates
  <2> QED BY <1>3, <2>1 DEF Wait, TypeOK, Requests
<1>4. CASE Alive(c)
  <2>1. call' \in [Calls -> Requests]
    BY <1>4, MoveTypes DEF Alive, CallStates
  <2> QED BY <1>4, <2>1 DEF Alive, TypeOK, Requests
<1>5. CASE HasSaved(c)
  <2>1. call' \in [Calls -> Requests]
    BY <1>5, MoveTypes DEF HasSaved, CallStates
  <2> QED BY <1>5, <2>1 DEF HasSaved, TypeOK, Requests
<1>6. CASE Restore(c)
  <2>1. call' \in [Calls -> Requests]
    BY <1>6, MoveTypes DEF Restore, RestoreFailed, CallStates
  <2>2. CASE UNCHANGED daemon
    BY <1>6, <2>1, <2>2 DEF Restore, TypeOK, Requests
  <2>3. CASE Spawn(call[c].t)
    BY <1>0, <1>6, <2>1, <2>3, HangupTypes DEF Restore, TypeOK, Requests
  <2> QED BY <1>6, <2>2, <2>3 DEF Restore
<1>7. CASE Kill(c)
  <2>1. call' \in [Calls -> Requests]
    BY <1>7, MoveTypes DEF Kill, CallStates
  <2> QED BY <1>0, <1>7, <2>1, HangupTypes DEF Kill, TypeOK, Requests
<1>8. CASE Drop(c)
  <2>1. call' \in [Calls -> Requests]
    BY <1>8, MoveTypes DEF Drop
  <2> QED BY <1>8, <2>1 DEF Drop, TypeOK, Requests
<1>9. CASE SetStatus(c)
  <2>1. call' \in [Calls -> Requests]
    BY <1>9, MoveTypes DEF SetStatus
  <2> DEFINE w == call[c].w
             status == IF call[c].op = "archive" THEN "archived" ELSE "active"
             new == IF tree[w] = "gone" THEN "gone" ELSE status
  <2>2. tree' = [tree EXCEPT ![w] = new]
    BY <1>9 DEF SetStatus
  <2>3. new \in {"active", "archived", "gone"}
    OBVIOUS
  <2> HIDE DEF new
  <2> QED BY <1>9, <2>1, <2>2, <2>3 DEF SetStatus, TypeOK, Requests
<1>10. CASE RemoveRow(c)
  <2>1. call' \in [Calls -> Requests]
    BY <1>10, MoveTypes DEF RemoveRow
  <2> QED BY <1>10, <2>1 DEF RemoveRow, TypeOK, Requests
<1> QED BY <1>1, <1>2, <1>3, <1>4, <1>5, <1>6, <1>7, <1>8, <1>9, <1>10, LoopTypeOK
        DEF Progress

\* A server that runs is in the types.
LEMMA InitTypeOK == Init => TypeOK
<1> SUFFICES ASSUME Init PROVE TypeOK
  OBVIOUS
<1>1. call \in [Calls -> Requests]
  BY RequestTypes DEF Init
<1>2. shell \in [Tabs -> {"none", "live", "ending"}]
  BY DEF Init
<1> QED BY <1>1, <1>2 DEF Init, TypeOK, Requests

\* Every step keeps the variables in their types.
LEMMA StepTypeOK == TypeOK /\ [Next]_vars => TypeOK'
<1>1. ASSUME TypeOK, UNCHANGED vars PROVE TypeOK'
  BY <1>1 DEF TypeOK, vars, store, daemon
<1> QED BY <1>1, DaemonTypeOK, RequestTypeOK, ProgressTypeOK DEF Next

\* Every variable has its type in every state.
THEOREM TypeCorrect == Spec => []TypeOK
BY InitTypeOK, StepTypeOK, PTL DEF Spec
-----------------------------------------------------------------------------
(***************************************************************************)
(* Pruning spares tabs.  A prune lists sessions before rows, so a tab may  *)
(* get its row in between: its creation is in progress then, and the prune *)
(* spares it.  After the prune has read the rows none of the tabs it holds *)
(* can get one, because only a creation inserts rows and it takes a new id.*)
(***************************************************************************)

\* What a step leaves of the orphans: nobody inserts a row but for a tab whose
\* creation is in progress, and no creation begins for an id that was made.
Leaves == (Orphans \cap made) \subseteq Orphans' /\ made \subseteq made'

\* A request that a step leaves alone still holds what it may hold.
LEMMA HoldsKept ==
  ASSUME Leaves, NEW r \in Requests, Holds(r)
  PROVE  Holds(r)'
<1>1. Nil \notin Orphans
  BY TerminalsAssumption DEF Orphans
<1> QED BY <1>1 DEF Leaves, Holds

\* A step that inserts no row and at which no creation begins leaves the orphans.
LEMMA CalmLeaves ==
  ASSUME TypeOK, NEW c \in Calls, NEW r \in Requests,
         call' = [call EXCEPT ![c] = r],
         r.op = "create" => call[c].op = "create" /\ r.t = call[c].t,
         \A t \in Tabs : tab[t] = Nil => tab'[t] = Nil,
         made' = made
  PROVE  Leaves
<1>1. \A d \in Calls : call'[d].op = "create" =>
         call[d].op = "create" /\ call'[d].t = call[d].t
  BY OneRequest
<1> QED BY <1>1 DEF Leaves, Orphans, Young

\* A step changes one request at most; if it leaves the orphans and the request
\* holds what it may, the invariant is kept.
LEMMA KeepsInv ==
  ASSUME IInv, TypeOK', Leaves, MadeFirst', NEW c \in Calls, NEW r \in Requests,
         call' = [call EXCEPT ![c] = r], Holds(r)'
  PROVE  IInv'
<1>1. ASSUME NEW d \in Calls PROVE Holds(call[d])'
  <2>1. CASE d = c
    BY <2>1, OneRequest DEF IInv
  <2>2. CASE d # c
    <3>1. call[d] \in Requests /\ Holds(call[d]) /\ call'[d] = call[d]
      BY <2>2, OneRequest DEF IInv, TypeOK, Requests
    <3> DEFINE s == call[d]
    <3>2. \A q \in Requests : Holds(q) => Holds(q)'
      BY HoldsKept
    <3> QED BY <3>1, <3>2 DEF Holds
  <2> QED BY <2>1, <2>2
<1> QED BY <1>1 DEF IInv

\* So it does if no row is inserted and no creation begins.
LEMMA CalmKeeps ==
  ASSUME IInv, TypeOK', MadeFirst', made' = made, NEW c \in Calls, NEW r \in Requests,
         \A t \in Tabs : tab[t] = Nil => tab'[t] = Nil,
         call' = [call EXCEPT ![c] = r],
         r.op = "create" => call[c].op = "create" /\ r.t = call[c].t,
         Holds(r)
  PROVE  IInv'
<1>1. Leaves
  BY CalmLeaves DEF IInv
<1> QED BY <1>1, HoldsKept, KeepsInv

\* The ways to leave a step are updates of the request's record that hold no
\* more than it did.
LEMMA MoveKeeps ==
  ASSUME IInv, TypeOK', MadeFirst', made' = made, NEW c \in Calls,
         \A t \in Tabs : tab[t] = Nil => tab'[t] = Nil,
         \/ Finish(c)
         \/ Next1(c) /\ call[c].pc # "rows" /\ call[c].op # "create"
         \/ \E pc \in CallStates \ {"addrow", "list"} :
              /\ Goto(c, pc) /\ call[c].op # "prune"
              /\ call[c].op = "create" => pc = "kill"
  PROVE  IInv'
<1>0. call[c] \in Requests /\ Holds(call[c]) /\ Nil \notin {"create", "prune"}
  BY TerminalsAssumption DEF IInv, TypeOK, Requests, Operations
<1>1. CASE Finish(c)
  <2>1. PICK r \in Requests : r = IdleCall
    BY RequestTypes
  <2>2. Holds(r) /\ r.op # "create"
    BY <1>0, <2>1 DEF IdleCall, Holds
  <2> QED BY <1>1, <2>1, <2>2, CalmKeeps DEF Finish
<1>2. CASE Next1(c) /\ call[c].pc # "rows" /\ call[c].op # "create"
  <2>1. [call[c] EXCEPT !.pc = "loop", !.t = Nil] \in Requests
    BY <1>0, RequestTypes DEF CallStates
  <2>2. PICK r \in Requests : r = [call[c] EXCEPT !.pc = "loop", !.t = Nil]
    BY <2>1
  <2>3. r.op = call[c].op /\ r.t = Nil /\ r.todo = call[c].todo /\ r.pc = "loop"
    BY <1>0, <2>2 DEF Requests
  <2>4. Holds(r)
    BY <1>0, <1>2, <2>3 DEF Holds
  <2>5. call' = [call EXCEPT ![c] = r]
    BY <1>2, <2>2 DEF Next1
  <2> QED BY <1>2, <2>3, <2>4, <2>5, CalmKeeps
<1>3. ASSUME NEW pc \in CallStates \ {"addrow", "list"}, Goto(c, pc), call[c].op # "prune",
             call[c].op = "create" => pc = "kill"
      PROVE  IInv'
  <2>1. [call[c] EXCEPT !.pc = pc] \in Requests
    BY <1>0, RequestTypes
  <2>2. PICK r \in Requests : r = [call[c] EXCEPT !.pc = pc]
    BY <2>1
  <2>3. r.op = call[c].op /\ r.t = call[c].t /\ r.todo = call[c].todo /\ r.pc = pc
    BY <1>0, <2>2 DEF Requests
  <2>4. Holds(r)
    BY <1>0, <1>3, <2>3 DEF Holds
  <2>5. call' = [call EXCEPT ![c] = r]
    BY <1>3, <2>2 DEF Goto
  <2> QED BY <1>3, <2>3, <2>4, <2>5, CalmKeeps
<1> QED BY <1>1, <1>2, <1>3

\* Steps that leave the requests alone.
LEMMA QuietKeeps ==
  ASSUME IInv, TypeOK', MadeFirst', UNCHANGED <<tab, made, call>>
  PROVE  IInv'
<1>1. Orphans' = Orphans
  BY DEF Orphans, Young
<1> QED BY <1>1 DEF IInv, Holds

\* An id is handed out before it has a row or a session, in every step.
LEMMA StepMadeFirst == IInv /\ [Next]_vars => MadeFirst'
<1> SUFFICES ASSUME IInv, [Next]_vars PROVE MadeFirst'
  OBVIOUS
<1>0. TypeOK /\ MadeFirst /\ \A c \in Calls : call[c] \in Requests /\ Holds(call[c])
  BY DEF IInv, TypeOK, Requests
<1>1. ASSUME NEW t \in Tabs, TabStep(t) PROVE MadeFirst'
  BY <1>0, <1>1 DEF TabStep, Dies, Gone, Tick, MadeFirst, TypeOK, store, daemon
<1>2. ASSUME NEW c \in Calls, NEW w \in Trees, NEW t \in Tabs, Create(c, w, t)
      PROVE  MadeFirst'
  BY <1>0, <1>2 DEF Create, Spawn, MadeFirst, TypeOK, store
<1>3. ASSUME NEW c \in Calls, Restore(c) PROVE MadeFirst'
  <2>1. CASE UNCHANGED daemon
    BY <1>0, <1>3, <2>1 DEF Restore, MadeFirst, store, daemon
  <2>2. CASE Spawn(call[c].t)
    <3>1. call[c].t # Nil => call[c].t \in made
      BY <1>0 DEF Holds
    <3> QED BY <1>0, <1>3, <2>2, <3>1, TerminalsAssumption
            DEF Restore, Spawn, MadeFirst, TypeOK, store
  <2> QED BY <1>3, <2>1, <2>2 DEF Restore
<1>4. ASSUME NEW c \in Calls, AddRow(c) PROVE MadeFirst'
  <2>1. call[c].t # Nil => call[c].t \in made
    BY <1>0 DEF Holds
  <2> QED BY <1>0, <1>4, <2>1, TerminalsAssumption
          DEF AddRow, MadeFirst, TypeOK, store, daemon
<1>5. ASSUME NEW c \in Calls, Kill(c) PROVE MadeFirst'
  BY <1>0, <1>5 DEF Kill, Hangup, Listed, MadeFirst, TypeOK, store
<1>6. ASSUME NEW c \in Calls, NEW t \in Tabs, SuspendTab(c, t) PROVE MadeFirst'
  <2>1. \A u \in Tabs : shell'[u] # "none" => shell[u] # "none" \/ u = t
    BY <1>0, <1>6 DEF SuspendTab, Suspend, TypeOK
  <2>2. shell' = shell \/ shell[t] # "none"
    BY <1>6 DEF SuspendTab, Suspend, Listed
  <2> QED BY <1>0, <1>6, <2>1, <2>2 DEF SuspendTab, MadeFirst, store
<1>7. ASSUME NEW c \in Calls, Shutdown(c) PROVE MadeFirst'
  BY <1>0, <1>7 DEF Shutdown, Listed, MadeFirst, store
<1>8. ASSUME NEW c \in Calls, Drop(c) \/ RemoveRow(c) PROVE MadeFirst'
  BY <1>0, <1>8 DEF Drop, RemoveRow, MadeFirst, TypeOK, store, daemon
<1>9. CASE DaemonGone
  BY <1>0, <1>9 DEF DaemonGone, MadeFirst, store
<1>10. CASE UNCHANGED <<tab, shell, made>>
  BY <1>0, <1>10 DEF MadeFirst
<1>11. ASSUME NEW c \in Calls, Request(c) \/ Reconcile(c)
       PROVE  MadeFirst'
  <2>1. CASE \E w \in Trees, t \in Tabs : Create(c, w, t)
    BY <1>2, <2>1
  <2>2. CASE ~\E w \in Trees, t \in Tabs : Create(c, w, t)
    <3>1. UNCHANGED <<tab, shell, made>>
      BY <1>11, <2>2 DEF Request, Reconcile, Close, Open, Archive, Unarchive, Remove,
                         Restart, Prune, Reap, store, daemon
    <3> QED BY <1>10, <3>1
  <2> QED BY <2>1, <2>2
<1>12. ASSUME NEW c \in Calls, Progress(c) PROVE MadeFirst'
  <2>1. CASE \/ List(c) \/ Rows(c) \/ Wait(c) \/ Alive(c) \/ HasSaved(c) \/ LoopEnd(c)
             \/ SetStatus(c) \/ \E t \in Tabs : PickTab(c, t)
    <3>1. UNCHANGED <<tab, shell, made>>
      BY <2>1 DEF List, Rows, Wait, Alive, HasSaved, LoopEnd, SetStatus, PickTab,
                  store, daemon
    <3> QED BY <1>10, <3>1
  <2> QED BY <1>3, <1>4, <1>5, <1>6, <1>7, <1>8, <1>12, <2>1 DEF Progress
<1>13. CASE ServerGone \/ UNCHANGED vars
  BY <1>10, <1>13 DEF ServerGone, vars, store, daemon
<1> QED BY <1>1, <1>9, <1>11, <1>12, <1>13 DEF Next

\* Requests and jobs begin with tabs that were made, a creation with a new one.
LEMMA RequestKeeps ==
  ASSUME IInv, TypeOK', MadeFirst', NEW c \in Calls, Request(c) \/ Reconcile(c)
  PROVE  IInv'
<1> USE DEF store
<1>0. /\ TypeOK /\ MadeFirst
      /\ IdleCall.todo = {} /\ IdleCall.t = Nil /\ Nil \notin {"create", "prune"}
  BY TerminalsAssumption DEF IInv, IdleCall, Operations
<1>1. ASSUME NEW w \in Trees, NEW t \in Tabs, Create(c, w, t) PROVE IInv'
  <2>1. PICK r \in Requests : r = OnTab("create", "addrow", w, t)
    BY NewRequestTypes DEF Operations, CallStates
  <2>2. r.op = "create" /\ r.pc = "addrow" /\ r.t = t /\ r.todo = {}
    BY <2>1 DEF OnTab, IdleCall
  <2>3. call' = [call EXCEPT ![c] = r] /\ tab' = tab /\ t \notin made /\ made' = made \cup {t}
    BY <1>1, <2>1 DEF Create, Begin
  <2>4. \A d \in Calls : call'[d].op = "create" =>
           call'[d].t = t \/ (call[d].op = "create" /\ call'[d].t = call[d].t)
    BY <1>0, <2>2, <2>3, OneRequest
  <2>5. Leaves
    BY <2>3, <2>4 DEF Leaves, Orphans, Young
  <2>6. Holds(r)'
    BY <2>2, <2>3 DEF Holds
  <2> QED BY <2>3, <2>5, <2>6, KeepsInv
<1>2. ASSUME NEW t \in Tabs, Close(c, t) \/ Open(c, t) PROVE IInv'
  <2>1. PICK op \in {"close", "open"}, pc \in {"kill", "alive"} :
          call' = [call EXCEPT ![c] = OnTab(op, pc, tab[t], t)]
    BY <1>2 DEF Close, Open, Begin
  <2>2. tab[t] \in Trees \cup {Nil} /\ t \in made
    BY <1>0, <1>2 DEF TypeOK, MadeFirst, Close, Open
  <2>3. PICK r \in Requests : r = OnTab(op, pc, tab[t], t)
    BY <2>2, NewRequestTypes DEF Operations, CallStates
  <2>4. r.op = op /\ r.pc = pc /\ r.t = t /\ r.todo = {}
    BY <2>3 DEF OnTab, IdleCall
  <2>5. Holds(r)
    BY <2>2, <2>4 DEF Holds
  <2> QED BY <1>2, <2>1, <2>3, <2>4, <2>5, CalmKeeps DEF Close, Open
<1>3. ASSUME NEW w \in Trees, Archive(c, w) \/ Unarchive(c, w) \/ Remove(c, w)
      PROVE  IInv'
  <2>1. PICK op \in {"archive", "unarchive", "remove"} :
          call' = [call EXCEPT ![c] = OnTree(op, w)]
    BY <1>3 DEF Archive, Unarchive, Remove, Begin
  <2>2. PICK r \in Requests : r = OnTree(op, w)
    BY DEF OnTree, IdleCall, Requests, Operations, CallStates
  <2>3. r.op = op /\ r.pc = "list" /\ r.w = w /\ r.t = Nil /\ r.todo = {}
    BY <2>2 DEF OnTree, IdleCall
  <2>4. Holds(r)
    BY <2>3, TerminalsAssumption DEF Holds
  <2> QED BY <1>3, <2>1, <2>2, <2>3, <2>4, CalmKeeps DEF Archive, Unarchive, Remove
<1>4. CASE Restart(c) \/ Prune(c) \/ Reconcile(c)
  <2>1. PICK op \in {"restart", "prune", "reconcile"}, pc \in {"shutdown", "rows"} :
          /\ call' = [call EXCEPT ![c] = OnSessions(op, pc)]
          /\ op = "prune" => pc = "rows"
    BY <1>4 DEF Restart, Prune, Reconcile, Begin
  <2>2. PICK r \in Requests : r = OnSessions(op, pc)
    BY DEF OnSessions, IdleCall, Requests, Operations, CallStates
  <2>3. r.op = op /\ r.pc = pc /\ r.t = Nil /\ r.todo \subseteq made
    BY <1>0, <2>2 DEF OnSessions, IdleCall, MadeFirst, Listed
  <2>4. Holds(r)
    BY <2>1, <2>3 DEF Holds
  <2> QED BY <1>4, <2>1, <2>2, <2>3, <2>4, CalmKeeps DEF Restart, Prune, Reconcile
<1>5. CASE Reap(c)
  <2>1. PICK idle \in SUBSET {t \in Tabs : Listed(t) /\ tab[t] # Nil} :
          call' = [call EXCEPT ![c] =
                     [IdleCall EXCEPT !.op = "reap", !.pc = "loop", !.todo = idle]]
    BY <1>5 DEF Reap, Begin
  <2>2. PICK r \in Requests :
          r = [IdleCall EXCEPT !.op = "reap", !.pc = "loop", !.todo = idle]
    BY DEF IdleCall, Requests, Operations, CallStates
  <2>3. r.op = "reap" /\ r.pc = "loop" /\ r.t = Nil /\ r.todo \subseteq made
    BY <1>0, <2>2 DEF IdleCall, MadeFirst, Listed
  <2>4. Holds(r)
    BY <2>3 DEF Holds
  <2> QED BY <1>5, <2>1, <2>2, <2>3, <2>4, CalmKeeps DEF Reap
<1> QED BY <1>1, <1>2, <1>3, <1>4, <1>5 DEF Request

\* The steps of the loops over tabs.
LEMMA LoopKeeps ==
  ASSUME IInv, TypeOK', MadeFirst', NEW c \in Calls,
         \/ List(c) \/ Rows(c)
         \/ \E t \in Tabs : SuspendTab(c, t) \/ PickTab(c, t)
  PROVE  IInv'
<1> USE DEF store
<1>0. /\ TypeOK /\ MadeFirst /\ call[c] \in Requests /\ Holds(call[c])
      /\ call[c].todo \in SUBSET Tabs
  BY DEF IInv, TypeOK, Requests
<1>1. CASE List(c)
  <2>1. RowsOf(call[c].w) \in SUBSET Tabs
    BY DEF RowsOf
  <2>2. PICK r \in Requests :
          r = [call[c] EXCEPT !.pc = "loop", !.todo = RowsOf(call[c].w)]
    BY <1>0, <2>1, RequestTypes DEF CallStates
  <2>3. r.op = call[c].op /\ r.pc = "loop" /\ r.t = call[c].t /\ r.todo = RowsOf(call[c].w)
    BY <1>0, <2>2 DEF Requests
  <2>4. call[c].op \notin {"prune", "create"} /\ call[c].w # Nil
    BY <1>0, <1>1 DEF List, At, Holds
  <2>5. RowsOf(call[c].w) \subseteq made
    BY <1>0, <2>4 DEF RowsOf, MadeFirst
  <2>6. Holds(r)
    BY <1>0, <2>3, <2>4, <2>5 DEF Holds
  <2> QED BY <1>1, <2>2, <2>3, <2>4, <2>6, CalmKeeps DEF List
<1>2. CASE Rows(c)
  <2> DEFINE known == {t \in Tabs : tab[t] # Nil}
             spared == known \cup {t \in Tabs : Young(t)}
  <2>1. call[c].op # "create"
    BY <1>0, <1>2 DEF Rows, At, Holds
  <2>2. ASSUME NEW todo \in SUBSET Tabs, todo \subseteq made,
               call[c].op = "prune" => todo \subseteq Orphans,
               call' = [call EXCEPT ![c] = [call[c] EXCEPT !.pc = "loop", !.todo = todo]]
        PROVE  IInv'
    <3>1. PICK r \in Requests : r = [call[c] EXCEPT !.pc = "loop", !.todo = todo]
      BY <1>0, RequestTypes DEF CallStates
    <3>2. r.op = call[c].op /\ r.pc = "loop" /\ r.t = call[c].t /\ r.todo = todo
      BY <1>0, <3>1 DEF Requests
    <3>3. Holds(r)
      BY <1>0, <2>1, <2>2, <3>2 DEF Holds
    <3> QED BY <1>2, <2>1, <2>2, <3>1, <3>2, <3>3, CalmKeeps DEF Rows
  <2>3. CASE call[c].op = "reconcile"
    <3>1. PICK todo \in SUBSET Tabs : todo = known \ call[c].todo
      OBVIOUS
    <3>2. call' = [call EXCEPT ![c] = [call[c] EXCEPT !.pc = "loop", !.todo = todo]]
      BY <1>2, <2>3, <3>1 DEF Rows
    <3>3. todo \subseteq made
      BY <1>0, <3>1 DEF MadeFirst
    <3> QED BY <2>2, <2>3, <3>2, <3>3
  <2>4. CASE call[c].op # "reconcile"
    <3>1. PICK todo \in SUBSET Tabs : todo = call[c].todo \ spared
      BY <1>0
    <3>2. call' = [call EXCEPT ![c] = [call[c] EXCEPT !.pc = "loop", !.todo = todo]]
      BY <1>2, <2>4, <3>1 DEF Rows
    <3>3. todo \subseteq made /\ todo \subseteq Orphans
      BY <1>0, <3>1 DEF Holds, Orphans
    <3> QED BY <2>2, <3>2, <3>3
  <2> QED BY <2>3, <2>4
<1>3. ASSUME NEW t \in Tabs,
             call' = [call EXCEPT ![c] = [call[c] EXCEPT !.todo = @ \ {t}]],
             UNCHANGED <<tab, made>>
      PROVE  IInv'
  <2>1. PICK r \in Requests : r = [call[c] EXCEPT !.todo = @ \ {t}]
    BY <1>0, LoopTypes
  <2>2. r.op = call[c].op /\ r.pc = call[c].pc /\ r.t = call[c].t
        /\ r.w = call[c].w /\ r.todo \subseteq call[c].todo
    BY <1>0, <2>1 DEF Requests
  <2>3. Holds(r)
    BY <1>0, <2>2 DEF Holds
  <2>4. call' = [call EXCEPT ![c] = r]
    BY <1>3, <2>1
  <2> QED BY <1>0, <1>3, <2>2, <2>3, <2>4, CalmKeeps
<1>4. ASSUME NEW t \in Tabs, SuspendTab(c, t) PROVE IInv'
  <2>1. CASE Goto(c, "status")
    BY <1>4, <2>1, MoveKeeps DEF SuspendTab, CallStates
  <2> QED BY <1>3, <1>4, <2>1 DEF SuspendTab
<1>5. ASSUME NEW t \in Tabs, PickTab(c, t) PROVE IInv'
  <2>1. CASE call' = [call EXCEPT ![c] = [call[c] EXCEPT !.todo = @ \ {t}]]
    BY <1>3, <1>5, <2>1 DEF PickTab
  <2>2. CASE \E w \in Trees \cup {Nil} : call' = [call EXCEPT ![c] =
               [call[c] EXCEPT !.todo = @ \ {t}, !.pc = Work(c, t), !.t = t, !.w = w]]
    <3>1. PICK w \in Trees \cup {Nil} : call' = [call EXCEPT ![c] =
            [call[c] EXCEPT !.todo = @ \ {t}, !.pc = Work(c, t), !.t = t, !.w = w]]
      BY <2>2
    <3>2. Work(c, t) \in {"restore", "kill"} /\ (call[c].op = "prune" => Work(c, t) = "kill")
      BY DEF Work
    <3>3. PICK r \in Requests :
            r = [call[c] EXCEPT !.todo = @ \ {t}, !.pc = Work(c, t), !.t = t, !.w = w]
      BY <1>0, <3>2, LoopTypes DEF CallStates
    <3>4. r.op = call[c].op /\ r.pc = Work(c, t) /\ r.t = t
          /\ r.todo \subseteq call[c].todo
      BY <1>0, <3>3 DEF Requests
    <3>5. t \in call[c].todo /\ call[c].pc = "loop"
      BY <1>5 DEF PickTab, At
    <3>6. Holds(r) /\ r.op # "create"
      BY <1>0, <3>2, <3>4, <3>5 DEF Holds
    <3>7. call' = [call EXCEPT ![c] = r]
      BY <3>1, <3>3
    <3> QED BY <1>5, <3>4, <3>6, <3>7, CalmKeeps DEF PickTab
  <2>3. tab[t] \in Trees \cup {Nil} /\ call[c].w \in Trees \cup {Nil}
    BY <1>0 DEF TypeOK, Requests
  <2> QED BY <1>5, <2>1, <2>2, <2>3 DEF PickTab
<1> QED BY <1>1, <1>2, <1>4, <1>5

\* The other steps of requests in progress.
LEMMA ProgressKeeps ==
  ASSUME IInv, TypeOK', MadeFirst', NEW c \in Calls, Progress(c)
  PROVE  IInv'
<1> USE DEF store
<1>0. TypeOK /\ call[c] \in Requests /\ Holds(call[c])
  BY DEF IInv, TypeOK, Requests
<1>1. CASE AddRow(c)
  <2>1. call[c].op = "create"
    BY <1>0, <1>1 DEF AddRow, At, Holds
  <2>2. CASE Finish(c) /\ tab' = [tab EXCEPT ![call[c].t] = call[c].w]
    <3>1. PICK r \in Requests : r = IdleCall
      BY RequestTypes
    <3>2. r.op = Nil /\ call' = [call EXCEPT ![c] = r] /\ Nil # "create"
      BY <2>2, <3>1, TerminalsAssumption DEF Finish, IdleCall, Operations
    <3>3. \A d \in Calls : call'[d].op = "create" => call'[d] = call[d]
      BY <1>0, <3>2, OneRequest
    <3>4. \A t \in Orphans : tab'[t] = tab[t]
      BY <1>0, <2>1, <2>2 DEF Orphans, Young, TypeOK
    <3>5. Leaves
      BY <1>1, <3>3, <3>4 DEF AddRow, Leaves, Orphans, Young
    <3>6. Holds(r)
      BY <3>1, TerminalsAssumption DEF IdleCall, Holds, Operations
    <3> QED BY <3>2, <3>5, <3>6, HoldsKept, KeepsInv
  <2>3. CASE Goto(c, "kill") /\ tab' = tab
    BY <1>1, <2>1, <2>3, MoveKeeps DEF AddRow, CallStates
  <2> QED BY <1>1, <2>2, <2>3 DEF AddRow
<1>2. CASE Shutdown(c) \/ Wait(c) \/ Alive(c) \/ HasSaved(c)
  <2>1. call[c].op \notin {"prune", "create"}
    BY <1>0, <1>2 DEF Shutdown, Wait, Alive, HasSaved, At, Holds
  <2> QED BY <1>2, <2>1, MoveKeeps DEF Shutdown, Wait, Alive, HasSaved, CallStates
<1>3. CASE Restore(c)
  <2>1. call[c].op \notin {"prune", "create"} /\ call[c].pc = "restore"
    BY <1>0, <1>3 DEF Restore, At, Holds
  <2> QED BY <1>3, <2>1, MoveKeeps DEF Restore, RestoreFailed, CallStates
<1>4. CASE Kill(c)
  <2>1. call[c].pc = "kill" /\ made' = made /\ tab' = tab
    BY <1>4 DEF Kill, At
  <2>2. CASE call[c].op = "create"
    BY <1>4, <2>1, <2>2, MoveKeeps DEF Kill
  <2>3. CASE call[c].op \in {"prune", "restart"}
    BY <1>4, <2>1, <2>3, MoveKeeps DEF Kill
  <2>4. CASE call[c].op \notin {"create", "prune", "restart"}
    BY <1>4, <2>1, <2>4, MoveKeeps DEF Kill, CallStates
  <2> QED BY <2>2, <2>3, <2>4
<1>5. CASE Drop(c)
  <2>1. call[c].op \notin {"prune", "create"} /\ call[c].pc = "drop"
    BY <1>0, <1>5 DEF Drop, At, Holds
  <2>2. made' = made /\ \A t \in Tabs : tab[t] = Nil => tab'[t] = Nil
    BY <1>0, <1>5 DEF Drop, TypeOK
  <2> QED BY <1>5, <2>1, <2>2, MoveKeeps DEF Drop
<1>6. CASE LoopEnd(c)
  <2>1. made' = made /\ tab' = tab
    BY <1>6 DEF LoopEnd
  <2> QED BY <1>6, <2>1, MoveKeeps DEF LoopEnd, CallStates
<1>7. CASE SetStatus(c)
  BY <1>7, MoveKeeps DEF SetStatus
<1>8. CASE RemoveRow(c)
  <2>1. made' = made /\ \A t \in Tabs : tab[t] = Nil => tab'[t] = Nil
    BY <1>8 DEF RemoveRow
  <2> QED BY <1>8, <2>1, MoveKeeps DEF RemoveRow
<1> QED BY <1>1, <1>2, <1>3, <1>4, <1>5, <1>6, <1>7, <1>8, LoopKeeps DEF Progress

\* The invariant holds at first and is kept by every step.
LEMMA Inductive ==
  /\ Init => IInv
  /\ IInv /\ [Next]_vars => IInv'
<1>1. ASSUME Init PROVE IInv
  <2>1. \A c \in Calls : Holds(call[c])
    BY <1>1, TerminalsAssumption DEF Init, IdleCall, Holds, Operations
  <2> QED BY <1>1, <2>1, InitTypeOK DEF Init, IInv, MadeFirst
<1>2. ASSUME IInv, [Next]_vars PROVE IInv'
  <2>1. TypeOK' /\ MadeFirst'
    BY <1>2, StepTypeOK, StepMadeFirst DEF IInv
  <2>2. ASSUME NEW t \in Tabs, TabStep(t) PROVE IInv'
    BY <1>2, <2>1, <2>2, QuietKeeps DEF TabStep, Dies, Gone, Tick, store
  <2>3. CASE DaemonGone \/ UNCHANGED vars
    BY <1>2, <2>1, <2>3, QuietKeeps DEF DaemonGone, vars, store
  <2>4. CASE ServerGone
    <3>1. \A c \in Calls : Holds(call[c])'
      BY <2>4, TerminalsAssumption DEF ServerGone, IdleCall, Holds, Operations
    <3> QED BY <2>1, <3>1 DEF IInv
  <2> QED BY <1>2, <2>1, <2>2, <2>3, <2>4, RequestKeeps, ProgressKeeps DEF Next
<1> QED BY <1>1, <1>2

\* A prune never kills the session of a tab.
THEOREM PrunesSpareTabs == Spec => PruneSparesTabs
<1>1. ASSUME IInv
      PROVE  \A c \in Calls : call[c].op = "prune" /\ At(c, "kill") => tab[call[c].t] = Nil
  BY <1>1 DEF IInv, Holds, At, Orphans
<1>2. IInv => [\A c \in Calls : call[c].op = "prune" /\ At(c, "kill") /\ ~At(c, "kill")'
                 => tab[call[c].t] = Nil]_vars
  BY <1>1
<1> QED BY <1>2, Inductive, PTL DEF Spec, PruneSparesTabs
-----------------------------------------------------------------------------
(***************************************************************************)
(* What is put aside is kept, whichever requests and failures occur.       *)
(***************************************************************************)

\* The steps each operation goes through; between two tabs it holds none.
Runs(r) ==
  /\ r.op = Nil => r.pc = "idle"
  /\ r.op = "create" => r.pc \in {"addrow", "kill"}
  /\ r.op = "close" => r.pc \in {"kill", "drop"}
  /\ r.op = "archive" => r.pc \in {"list", "loop", "status"}
  /\ r.op = "unarchive" => r.pc \in {"list", "loop", "restore", "status"}
  /\ r.op = "remove" => r.pc \in {"list", "loop", "kill", "drop", "row"}
  /\ r.op = "open" => r.pc \in {"alive", "saved", "restore"}
  /\ r.op = "restart" => r.pc \in {"shutdown", "wait", "loop", "restore", "kill"}
  /\ r.op = "prune" => r.pc \in {"rows", "loop", "kill"}
  /\ r.op = "reap" => r.pc \in {"loop", "kill", "drop"}
  /\ r.op = "reconcile" => r.pc \in {"rows", "loop", "restore", "kill", "drop"}
  /\ r.pc \in {"list", "rows", "loop", "shutdown", "wait"} => r.t = Nil
  /\ r.op = "restart" /\ r.pc = "kill" => r.w = Nil

AllRun == \A c \in Calls : Runs(call[c])

\* A step changes one request.
LEMMA OneRuns ==
  ASSUME TypeOK, AllRun, NEW c \in Calls, NEW r \in Requests,
         call' = [call EXCEPT ![c] = r], Runs(r)
  PROVE  AllRun'
BY OneRequest DEF AllRun, Runs

\* The ways to leave a step.
LEMMA MoveRuns ==
  ASSUME TypeOK, AllRun, NEW c \in Calls,
         \/ Finish(c)
         \/ Next1(c) /\ call[c].op \in {"unarchive", "remove", "restart", "prune", "reap",
                                         "reconcile"}
         \/ \E pc \in CallStates : Goto(c, pc) /\ Runs([call[c] EXCEPT !.pc = pc])
  PROVE  AllRun'
<1>0. call[c] \in Requests /\ Runs(call[c]) /\ Nil \notin Operations
  BY TerminalsAssumption DEF TypeOK, Requests, AllRun
<1>1. CASE Finish(c)
  <2>1. IdleCall \in Requests /\ Runs(IdleCall)
    BY <1>0, RequestTypes DEF Runs, IdleCall, Operations
  <2> QED BY <1>1, <2>1, OneRuns DEF Finish
<1>2. CASE /\ Next1(c)
           /\ call[c].op \in {"unarchive", "remove", "restart", "prune", "reap", "reconcile"}
  <2>1. PICK r \in Requests : r = [call[c] EXCEPT !.pc = "loop", !.t = Nil]
    BY <1>0, RequestTypes DEF CallStates
  <2>2. r.op = call[c].op /\ r.pc = "loop" /\ r.t = Nil
    BY <1>0, <2>1 DEF Requests
  <2>3. Runs(r)
    BY <1>0, <1>2, <2>2 DEF Runs, Operations
  <2> QED BY <1>2, <2>1, <2>3, OneRuns DEF Next1
<1>3. ASSUME NEW pc \in CallStates, Goto(c, pc), Runs([call[c] EXCEPT !.pc = pc])
      PROVE  AllRun'
  <2>1. [call[c] EXCEPT !.pc = pc] \in Requests
    BY <1>0, RequestTypes
  <2> QED BY <1>3, <2>1, OneRuns DEF Goto
<1> QED BY <1>1, <1>2, <1>3

\* Going on to another step of the operation.
LEMMA GotoRuns ==
  ASSUME TypeOK, AllRun, NEW c \in Calls, NEW pc \in CallStates, Goto(c, pc),
         \A r \in Requests :
           r.op = call[c].op /\ r.pc = pc /\ r.t = call[c].t /\ r.w = call[c].w => Runs(r)
  PROVE  AllRun'
<1>1. call[c] \in Requests
  BY DEF TypeOK, Requests
<1>2. PICK r \in Requests : r = [call[c] EXCEPT !.pc = pc]
  BY <1>1, RequestTypes
<1>3. r.op = call[c].op /\ r.pc = pc /\ r.t = call[c].t /\ r.w = call[c].w
  BY <1>1, <1>2 DEF Requests
<1> QED BY <1>2, <1>3, OneRuns DEF Goto

\* Read the other way: whose step it is.
LEMMA StepOps ==
  ASSUME NEW r \in Requests, Runs(r)
  PROVE  /\ r.pc = "addrow" => r.op = "create"
         /\ r.pc \in {"shutdown", "wait"} => r.op = "restart"
         /\ r.pc \in {"alive", "saved"} => r.op = "open"
         /\ r.pc = "restore" => r.op \in {"unarchive", "open", "restart", "reconcile"}
         /\ r.pc = "kill" => r.op \in {"create", "close", "remove", "restart", "prune",
                                       "reap", "reconcile"}
         /\ r.pc = "drop" => r.op \in {"close", "remove", "reap", "reconcile"}
         /\ r.pc = "loop" => r.op \in {"archive", "unarchive", "remove", "restart",
                                       "prune", "reap", "reconcile"}
BY DEF Requests, Runs, Operations

\* Every step leaves each request at a step of its operation.
LEMMA StepRuns ==
  ASSUME TypeOK, AllRun, [Next]_vars
  PROVE  AllRun'
<1>0. /\ \A c \in Calls : call[c] \in Requests /\ Runs(call[c])
      /\ Nil \notin Operations
  BY TerminalsAssumption DEF TypeOK, Requests, AllRun
<1>1. ASSUME NEW c \in Calls, Request(c) \/ Reconcile(c) PROVE AllRun'
  <2>1. ASSUME NEW w \in Trees, NEW t \in Tabs, Create(c, w, t) PROVE AllRun'
    <3>1. PICK r \in Requests : r = OnTab("create", "addrow", w, t)
      BY NewRequestTypes DEF Operations, CallStates
    <3>2. Runs(r)
      BY <1>0, <3>1 DEF OnTab, IdleCall, Runs, Operations
    <3> QED BY <2>1, <3>1, <3>2, OneRuns DEF Create, Begin
  <2>2. ASSUME NEW t \in Tabs, Close(c, t) \/ Open(c, t) PROVE AllRun'
    <3>1. tab[t] \in Trees \cup {Nil}
      BY DEF TypeOK
    <3>2. /\ OnTab("close", "kill", tab[t], t) \in Requests
          /\ OnTab("open", "alive", tab[t], t) \in Requests
      BY <3>1, NewRequestTypes DEF Operations, CallStates
    <3>3. /\ Runs(OnTab("close", "kill", tab[t], t))
          /\ Runs(OnTab("open", "alive", tab[t], t))
      BY <1>0 DEF OnTab, IdleCall, Runs, Operations
    <3> QED BY <2>2, <3>2, <3>3, OneRuns DEF Close, Open, Begin
  <2>3. ASSUME NEW w \in Trees, Archive(c, w) \/ Unarchive(c, w) \/ Remove(c, w)
        PROVE  AllRun'
    <3>1. \A op \in {"archive", "unarchive", "remove"} :
            OnTree(op, w) \in Requests /\ Runs(OnTree(op, w))
      BY <1>0, ZenonT(60) DEF OnTree, IdleCall, Requests, Operations, CallStates, Runs
    <3> QED BY <2>3, <3>1, OneRuns DEF Archive, Unarchive, Remove, Begin
  <2>4. CASE Restart(c) \/ Prune(c) \/ Reconcile(c)
    <3>1. /\ OnSessions("restart", "shutdown") \in Requests
          /\ OnSessions("prune", "rows") \in Requests
          /\ OnSessions("reconcile", "rows") \in Requests
      BY DEF OnSessions, IdleCall, Requests, Operations, CallStates
    <3>2. /\ Runs(OnSessions("restart", "shutdown"))
          /\ Runs(OnSessions("prune", "rows"))
          /\ Runs(OnSessions("reconcile", "rows"))
      BY <1>0 DEF OnSessions, IdleCall, Runs, Operations
    <3> QED BY <2>4, <3>1, <3>2, OneRuns DEF Restart, Prune, Reconcile, Begin
  <2>5. CASE Reap(c)
    <3>1. PICK idle \in SUBSET Tabs :
            call' = [call EXCEPT ![c] =
                       [IdleCall EXCEPT !.op = "reap", !.pc = "loop", !.todo = idle]]
      BY <2>5 DEF Reap, Begin
    <3>2. PICK r \in Requests :
            r = [IdleCall EXCEPT !.op = "reap", !.pc = "loop", !.todo = idle]
      BY DEF IdleCall, Requests, Operations, CallStates
    <3>3. Runs(r)
      BY <1>0, <3>2 DEF IdleCall, Runs, Operations
    <3> QED BY <3>1, <3>2, <3>3, OneRuns
  <2> QED BY <1>1, <2>1, <2>2, <2>3, <2>4, <2>5 DEF Request
<1>2. ASSUME NEW c \in Calls, AddRow(c) PROVE AllRun'
  <2>1. call[c].op = "create"
    BY <1>0, <1>2, StepOps DEF AddRow, At
  <2>2. \A r \in Requests : r.op = call[c].op /\ r.pc = "kill" => Runs(r)
    BY <1>0, <2>1 DEF Runs
  <2>3. CASE Finish(c)
    BY <2>3, MoveRuns
  <2>4. CASE Goto(c, "kill")
    BY <2>2, <2>4, GotoRuns DEF CallStates
  <2> QED BY <1>2, <2>3, <2>4 DEF AddRow
<1>3. ASSUME NEW c \in Calls, NEW todo \in SUBSET Tabs, At(c, "list") \/ At(c, "rows"),
             call' = [call EXCEPT ![c] = [call[c] EXCEPT !.pc = "loop", !.todo = todo]]
      PROVE  AllRun'
  <2>1. PICK r \in Requests : r = [call[c] EXCEPT !.pc = "loop", !.todo = todo]
    BY <1>0, RequestTypes DEF CallStates
  <2>2. r.op = call[c].op /\ r.pc = "loop" /\ r.t = call[c].t
    BY <1>0, <2>1 DEF Requests
  <2>3. Runs(r)
    BY <1>0, <1>3, <2>2 DEF Runs, At
  <2> QED BY <1>3, <2>1, <2>3, OneRuns
<1>4. ASSUME NEW c \in Calls, List(c) \/ Rows(c) PROVE AllRun'
  <2>1. CASE List(c)
    <3>1. RowsOf(call[c].w) \in SUBSET Tabs
      BY DEF RowsOf
    <3> QED BY <1>3, <2>1, <3>1 DEF List
  <2>2. CASE Rows(c)
    <3> DEFINE known == {t \in Tabs : tab[t] # Nil}
               spared == known \cup {t \in Tabs : Young(t)}
    <3>1. known \ call[c].todo \in SUBSET Tabs /\ call[c].todo \ spared \in SUBSET Tabs
      BY <1>0 DEF Requests
    <3>2. CASE call[c].op = "reconcile"
      BY <1>3, <2>2, <3>1, <3>2 DEF Rows
    <3>3. CASE call[c].op # "reconcile"
      BY <1>3, <2>2, <3>1, <3>3 DEF Rows
    <3> QED BY <3>2, <3>3
  <2> QED BY <1>4, <2>1, <2>2
<1>5. ASSUME NEW c \in Calls, Shutdown(c) \/ Wait(c) PROVE AllRun'
  <2>1. call[c].op = "restart" /\ call[c].t = Nil
    BY <1>0, <1>5, StepOps DEF Shutdown, Wait, At, Runs
  <2>2. \A r \in Requests :
          r.op = call[c].op /\ r.pc \in {"wait", "loop"} /\ r.t = call[c].t => Runs(r)
    BY <1>0, <2>1 DEF Runs
  <2>3. Goto(c, "wait") \/ Goto(c, "loop") \/ Finish(c)
    BY <1>5 DEF Shutdown, Wait
  <2> QED BY <2>2, <2>3, MoveRuns, GotoRuns DEF CallStates
<1>6. ASSUME NEW c \in Calls, Alive(c) \/ HasSaved(c) PROVE AllRun'
  <2>1. call[c].op = "open"
    BY <1>0, <1>6, StepOps DEF Alive, HasSaved, At
  <2>2. \A r \in Requests :
          r.op = call[c].op /\ r.pc \in {"saved", "restore"} => Runs(r)
    BY <1>0, <2>1 DEF Runs
  <2>3. Goto(c, "saved") \/ Goto(c, "restore") \/ Finish(c)
    BY <1>6 DEF Alive, HasSaved
  <2> QED BY <2>2, <2>3, MoveRuns, GotoRuns DEF CallStates
<1>7. ASSUME NEW c \in Calls, Restore(c) PROVE AllRun'
  <2>1. call[c].op \in {"unarchive", "open", "restart", "reconcile"}
    BY <1>0, <1>7, StepOps DEF Restore, At
  <2>2. CASE Finish(c)
    BY <2>2, MoveRuns
  <2>3. CASE Next1(c) /\ call[c].op # "open"
    BY <2>1, <2>3, MoveRuns
  <2>4. CASE Goto(c, "status") /\ call[c].op = "unarchive"
    <3>1. \A r \in Requests : r.op = call[c].op /\ r.pc = "status" => Runs(r)
      BY <1>0, <2>4 DEF Runs
    <3> QED BY <2>4, <3>1, GotoRuns DEF CallStates
  <2>5. CASE Goto(c, "kill") /\ call[c].op = "reconcile"
    <3>1. \A r \in Requests : r.op = call[c].op /\ r.pc = "kill" => Runs(r)
      BY <1>0, <2>5 DEF Runs
    <3> QED BY <2>5, <3>1, GotoRuns DEF CallStates
  <2> QED BY <1>7, <2>2, <2>3, <2>4, <2>5 DEF Restore, RestoreFailed
<1>8. ASSUME NEW c \in Calls, Kill(c) PROVE AllRun'
  <2>1. call[c].op \in {"create", "close", "remove", "restart", "prune", "reap",
                        "reconcile"}
    BY <1>0, <1>8, StepOps DEF Kill, At
  <2>2. CASE Finish(c)
    BY <2>2, MoveRuns
  <2>3. CASE Next1(c) /\ call[c].op \in {"prune", "restart"}
    BY <2>3, MoveRuns
  <2>4. CASE Goto(c, "drop") /\ call[c].op \in {"close", "remove", "reap", "reconcile"}
    <3>1. \A r \in Requests : r.op = call[c].op /\ r.pc = "drop" => Runs(r)
      BY <1>0, <2>4 DEF Runs
    <3> QED BY <2>4, <3>1, GotoRuns DEF CallStates
  <2> QED BY <1>8, <2>1, <2>2, <2>3, <2>4 DEF Kill
<1>9. ASSUME NEW c \in Calls, Drop(c) PROVE AllRun'
  <2>1. call[c].op \in {"close", "remove", "reap", "reconcile"}
    BY <1>0, <1>9, StepOps DEF Drop, At
  <2>2. CASE Finish(c)
    BY <2>2, MoveRuns
  <2>3. CASE Next1(c) /\ call[c].op # "close"
    BY <2>1, <2>3, MoveRuns
  <2> QED BY <1>9, <2>2, <2>3 DEF Drop
<1>10. ASSUME NEW c \in Calls, NEW t \in Tabs,
              call' = [call EXCEPT ![c] = [call[c] EXCEPT !.todo = @ \ {t}]]
       PROVE  AllRun'
  <2>1. PICK r \in Requests : r = [call[c] EXCEPT !.todo = @ \ {t}]
    BY <1>0 DEF Requests
  <2>2. r.op = call[c].op /\ r.pc = call[c].pc /\ r.t = call[c].t /\ r.w = call[c].w
    BY <1>0, <2>1 DEF Requests
  <2>3. Runs(r)
    BY <1>0, <2>2 DEF Runs
  <2> QED BY <1>10, <2>1, <2>3, OneRuns
<1>11. ASSUME NEW c \in Calls, NEW t \in Tabs, SuspendTab(c, t) PROVE AllRun'
  <2>1. At(c, "loop") /\ call[c].op = "archive"
    BY <1>11 DEF SuspendTab
  <2>2. CASE Goto(c, "status")
    <3>1. \A r \in Requests : r.op = call[c].op /\ r.pc = "status" => Runs(r)
      BY <1>0, <2>1 DEF Runs
    <3> QED BY <2>2, <3>1, GotoRuns DEF CallStates
  <2>3. CASE call' = [call EXCEPT ![c] = [call[c] EXCEPT !.todo = @ \ {t}]]
    BY <1>10, <2>3
  <2> QED BY <1>11, <2>2, <2>3 DEF SuspendTab
<1>12. ASSUME NEW c \in Calls, NEW t \in Tabs, PickTab(c, t) PROVE AllRun'
  <2>1. /\ At(c, "loop") /\ call[c].op # "archive" /\ tab[t] \in Trees \cup {Nil}
        /\ call[c].op \in {"unarchive", "remove", "restart", "prune", "reap", "reconcile"}
    BY <1>0, <1>12, StepOps DEF PickTab, At, TypeOK
  <2>2. CASE Skip(c, t)
    BY <1>10, <1>12, <2>2 DEF PickTab
  <2>3. CASE ~Skip(c, t)
    <3>1. PICK w \in Trees \cup {Nil} :
            /\ w = IF call[c].op \in {"restart", "reconcile"} THEN tab[t] ELSE call[c].w
            /\ call' = [call EXCEPT ![c] = [call[c] EXCEPT
                 !.todo = @ \ {t}, !.pc = Work(c, t), !.t = t, !.w = w]]
      BY <1>0, <1>12, <2>1, <2>3 DEF PickTab, Requests
    <3>2. Work(c, t) \in CallStates
      BY DEF Work, CallStates
    <3>3. PICK r \in Requests : r = [call[c] EXCEPT
            !.todo = @ \ {t}, !.pc = Work(c, t), !.t = t, !.w = w]
      BY <1>0, <3>2, LoopTypes
    <3>4. r.op = call[c].op /\ r.pc = Work(c, t) /\ r.w = w
      BY <1>0, <3>3 DEF Requests
    <3>5. /\ Work(c, t) \in {"restore", "kill"}
          /\ call[c].op = "unarchive" => Work(c, t) = "restore"
          /\ call[c].op \in {"remove", "prune", "reap"} => Work(c, t) = "kill"
          /\ call[c].op = "restart" /\ Work(c, t) = "kill" => tab[t] = Nil
      BY DEF Work
    <3>6. Runs(r)
      BY <1>0, <2>1, <3>1, <3>4, <3>5 DEF Runs
    <3> QED BY <3>1, <3>3, <3>6, OneRuns
  <2> QED BY <2>2, <2>3
<1>13. ASSUME NEW c \in Calls, LoopEnd(c) PROVE AllRun'
  <2>1. CASE Finish(c)
    BY <2>1, MoveRuns
  <2>2. CASE Goto(c, "status") /\ call[c].op \in {"archive", "unarchive"}
    <3>1. \A r \in Requests : r.op = call[c].op /\ r.pc = "status" => Runs(r)
      BY <1>0, <2>2 DEF Runs
    <3> QED BY <2>2, <3>1, GotoRuns DEF CallStates
  <2>3. CASE Goto(c, "row") /\ call[c].op = "remove"
    <3>1. \A r \in Requests : r.op = call[c].op /\ r.pc = "row" => Runs(r)
      BY <1>0, <2>3 DEF Runs
    <3> QED BY <2>3, <3>1, GotoRuns DEF CallStates
  <2> QED BY <1>13, <2>1, <2>2, <2>3 DEF LoopEnd
<1>14. ASSUME NEW c \in Calls, SetStatus(c) \/ RemoveRow(c) PROVE AllRun'
  BY <1>14, MoveRuns DEF SetStatus, RemoveRow
<1>15. CASE ServerGone
  <2>1. Runs(IdleCall)
    BY <1>0 DEF Runs, IdleCall, Operations
  <2> QED BY <1>15, <2>1 DEF ServerGone, AllRun
<1>16. CASE UNCHANGED call
  BY <1>16 DEF AllRun, Runs
<1>17. (\E t \in Tabs : TabStep(t)) \/ DaemonGone \/ UNCHANGED vars => UNCHANGED call
  BY DEF TabStep, Dies, Gone, Tick, DaemonGone, vars
<1> QED BY <1>1, <1>2, <1>4, <1>5, <1>6, <1>7, <1>8, <1>9, <1>11, <1>12, <1>13, <1>14,
           <1>15, <1>16, <1>17 DEF Next, Progress

\* The tab of a creation has no row, and no other creation has it.
Fresh ==
  \A c \in Calls : call[c].op = "create" /\ call[c].t # Nil =>
    /\ tab[call[c].t] = Nil
    /\ \A d \in Calls : call[d].op = "create" /\ call[d].t = call[c].t => d = c

\* A step is one request's; it begins a creation or leaves that of the request.
LEMMA OneStep ==
  ASSUME TypeOK, AllRun, NEW c \in Calls, Request(c) \/ Reconcile(c) \/ Progress(c)
  PROVE  /\ \A d \in Calls : d # c => call'[d] = call[d]
         /\ \/ call'[c].op = "create" => /\ call[c].op = "create"
                                        /\ call'[c].t = call[c].t
            \/ \E w \in Trees, t \in Tabs : Create(c, w, t)
<1>0. /\ call \in [Calls -> Requests] /\ call[c] \in Requests /\ Runs(call[c])
      /\ Nil # "create"
  BY TerminalsAssumption DEF TypeOK, Requests, AllRun, Operations
<1> DEFINE Goal == /\ \A d \in Calls : d # c => call'[d] = call[d]
                   /\ call'[c].op = "create" => /\ call[c].op = "create"
                                               /\ call'[c].t = call[c].t
<1>1. ASSUME NEW r, call' = [call EXCEPT ![c] = r],
             r.op = "create" => call[c].op = "create" /\ r.t = call[c].t
      PROVE  Goal
  BY <1>0, <1>1
<1>2. ASSUME NEW r, call' = [call EXCEPT ![c] = r]
      PROVE  \A d \in Calls : d # c => call'[d] = call[d]
  BY <1>0, <1>2
<1> HIDE DEF Goal
<1>3. ASSUME NEW pc, Goto(c, pc) PROVE Goal
  <2>1. /\ [call[c] EXCEPT !.pc = pc].op = call[c].op
        /\ [call[c] EXCEPT !.pc = pc].t = call[c].t
    BY <1>0 DEF Requests
  <2> QED BY <1>1, <1>3, <2>1 DEF Goto
<1>4. CASE Finish(c)
  <2>1. IdleCall.op # "create"
    BY <1>0 DEF IdleCall
  <2> QED BY <1>1, <1>4, <2>1 DEF Finish
<1>5. CASE Next1(c) /\ call[c].op # "create"
  <2>1. [call[c] EXCEPT !.pc = "loop", !.t = Nil].op = call[c].op
    BY <1>0 DEF Requests
  <2> QED BY <1>1, <1>5, <2>1 DEF Next1
<1>6. CASE Request(c) \/ Reconcile(c)
  <2>1. ASSUME NEW w \in Trees, NEW t \in Tabs, Create(c, w, t)
        PROVE  \A d \in Calls : d # c => call'[d] = call[d]
    BY <1>2, <2>1 DEF Create, Begin
  <2>2. ASSUME NEW t \in Tabs, Close(c, t) \/ Open(c, t) PROVE Goal
    <3>1. /\ OnTab("close", "kill", tab[t], t).op # "create"
          /\ OnTab("open", "alive", tab[t], t).op # "create"
      BY DEF OnTab, IdleCall
    <3> QED BY <1>1, <2>2, <3>1 DEF Close, Open, Begin
  <2>3. ASSUME NEW w \in Trees, Archive(c, w) \/ Unarchive(c, w) \/ Remove(c, w)
        PROVE  Goal
    <3>1. \A op \in {"archive", "unarchive", "remove"} : OnTree(op, w).op # "create"
      BY DEF OnTree, IdleCall
    <3> QED BY <1>1, <2>3, <3>1 DEF Archive, Unarchive, Remove, Begin
  <2>4. CASE Restart(c) \/ Prune(c) \/ Reconcile(c)
    <3>1. /\ OnSessions("restart", "shutdown").op # "create"
          /\ OnSessions("prune", "rows").op # "create"
          /\ OnSessions("reconcile", "rows").op # "create"
      BY DEF OnSessions, IdleCall
    <3>2. PICK r \in {OnSessions("restart", "shutdown"), OnSessions("prune", "rows"),
                      OnSessions("reconcile", "rows")} :
            call' = [call EXCEPT ![c] = r]
      BY <2>4 DEF Restart, Prune, Reconcile, Begin
    <3> QED BY <1>1, <3>1, <3>2
  <2>5. CASE Reap(c)
    <3>1. PICK idle \in SUBSET Tabs :
            call' = [call EXCEPT ![c] =
                       [IdleCall EXCEPT !.op = "reap", !.pc = "loop", !.todo = idle]]
      BY <2>5 DEF Reap, Begin
    <3>2. [IdleCall EXCEPT !.op = "reap", !.pc = "loop", !.todo = idle].op # "create"
      BY DEF IdleCall
    <3> QED BY <1>1, <3>1, <3>2
  <2> QED BY <1>6, <2>1, <2>2, <2>3, <2>4, <2>5 DEF Request, Goal
<1>7. CASE AddRow(c) \/ Shutdown(c) \/ Wait(c) \/ Alive(c) \/ HasSaved(c) \/ Kill(c)
             \/ Drop(c) \/ LoopEnd(c) \/ SetStatus(c) \/ RemoveRow(c) \/ Restore(c)
  <2>1. call[c].pc \in {"restore", "drop"} => call[c].op # "create"
    BY <1>0, StepOps
  <2>2. \/ Finish(c)
        \/ \E pc \in CallStates : Goto(c, pc)
        \/ Next1(c) /\ call[c].op # "create"
    <3>1. CASE AddRow(c) \/ Shutdown(c) \/ Wait(c) \/ Alive(c) \/ HasSaved(c)
      BY <3>1 DEF AddRow, Shutdown, Wait, Alive, HasSaved, CallStates
    <3>2. CASE Kill(c)
      BY <3>2 DEF Kill, CallStates
    <3>3. CASE Drop(c) \/ SetStatus(c) \/ RemoveRow(c)
      BY <2>1, <3>3 DEF Drop, SetStatus, RemoveRow, At
    <3>4. CASE LoopEnd(c)
      BY <3>4 DEF LoopEnd, CallStates
    <3>5. CASE Restore(c)
      BY <2>1, <3>5 DEF Restore, RestoreFailed, At, CallStates
    <3> QED BY <1>7, <3>1, <3>2, <3>3, <3>4, <3>5
  <2> QED BY <1>3, <1>4, <1>5, <2>2 DEF Goal
<1>8. CASE List(c) \/ Rows(c)
  <2>1. PICK todo : call' = [call EXCEPT ![c] =
                               [call[c] EXCEPT !.pc = "loop", !.todo = todo]]
    BY <1>8 DEF List, Rows
  <2>2. [call[c] EXCEPT !.pc = "loop", !.todo = todo].op = call[c].op
    BY <1>0 DEF Requests
  <2>3. call[c].op # "create"
    BY <1>0, <1>8 DEF List, Rows, At, Runs
  <2> QED BY <1>1, <2>1, <2>2, <2>3
<1>9. ASSUME NEW t \in Tabs, SuspendTab(c, t) \/ PickTab(c, t) PROVE Goal
  <2>1. call[c].op # "create"
    BY <1>0, <1>9 DEF SuspendTab, PickTab, At, Runs
  <2>2. ASSUME call' = [call EXCEPT ![c] = [call[c] EXCEPT !.todo = @ \ {t}]] PROVE Goal
    <3>1. [call[c] EXCEPT !.todo = @ \ {t}].op = call[c].op
      BY <1>0 DEF Requests
    <3> QED BY <1>1, <2>1, <2>2, <3>1
  <2>3. ASSUME NEW pc, NEW w,
               call' = [call EXCEPT ![c] = [call[c] EXCEPT
                 !.todo = @ \ {t}, !.pc = pc, !.t = t, !.w = w]]
        PROVE  Goal
    <3>1. [call[c] EXCEPT !.todo = @ \ {t}, !.pc = pc, !.t = t, !.w = w].op = call[c].op
      BY <1>0 DEF Requests
    <3> QED BY <1>1, <2>1, <2>3, <3>1
  <2>4. CASE PickTab(c, t) /\ ~Skip(c, t)
    <3>1. PICK w : call' = [call EXCEPT ![c] = [call[c] EXCEPT
                              !.todo = @ \ {t}, !.pc = Work(c, t), !.t = t, !.w = w]]
      BY <2>4 DEF PickTab
    <3> QED BY <2>3, <3>1
  <2> QED BY <1>3, <1>9, <2>2, <2>4 DEF SuspendTab, PickTab
<1> QED BY <1>6, <1>7, <1>8, <1>9 DEF Progress, Goal

\* Only a creation inserts rows.
LEMMA RowsOnlyGo ==
  ASSUME TypeOK, NEW c \in Calls, Request(c) \/ Reconcile(c) \/ Progress(c), ~AddRow(c)
  PROVE  \A t \in Tabs : tab[t] = Nil => tab'[t] = Nil
<1>1. CASE Request(c) \/ Reconcile(c)
  <2>1. tab' = tab
    BY <1>1 DEF Request, Create, Close, Open, Archive, Unarchive, Remove, Restart, Prune,
                Reap, Reconcile, store
  <2> QED BY <2>1
<1>2. CASE Drop(c) \/ RemoveRow(c)
  BY <1>2 DEF Drop, RemoveRow, TypeOK
<1>3. CASE \/ List(c) \/ Rows(c) \/ Shutdown(c) \/ Wait(c) \/ Alive(c) \/ HasSaved(c)
           \/ Restore(c) \/ Kill(c) \/ LoopEnd(c) \/ SetStatus(c)
           \/ \E t \in Tabs : SuspendTab(c, t) \/ PickTab(c, t)
  <2>1. tab' = tab
    BY <1>3 DEF List, Rows, Shutdown, Wait, Alive, HasSaved, Restore, Kill, LoopEnd,
                SetStatus, SuspendTab, PickTab, store
  <2> QED BY <2>1
<1> QED BY <1>1, <1>2, <1>3 DEF Progress

LEMMA StepFresh ==
  ASSUME IInv, AllRun, Fresh, [Next]_vars
  PROVE  Fresh'
<1>0. /\ TypeOK /\ call \in [Calls -> Requests] /\ Nil # "create" /\ Nil \notin Tabs
      /\ \A d \in Calls : call[d].t \in Tabs \cup {Nil}
  BY TerminalsAssumption DEF IInv, TypeOK, Requests, Operations
<1>1. ASSUME NEW c \in Calls, NEW w \in Trees, NEW t \in Tabs, Create(c, w, t)
      PROVE  Fresh'
  <2>1. t \notin made /\ tab' = tab
        /\ call' = [call EXCEPT ![c] = OnTab("create", "addrow", w, t)]
    BY <1>1 DEF Create, Begin, store
  <2>2. tab[t] = Nil /\ \A d \in Calls : call[d].t # t
    BY <1>0, <2>1 DEF IInv, MadeFirst, Holds
  <2>3. OnTab("create", "addrow", w, t).t = t
    BY DEF OnTab, IdleCall
  <2>4. call'[c].t = t /\ \A d \in Calls : d # c => call'[d] = call[d]
    BY <1>0, <2>1, <2>3
  <2> QED BY <2>1, <2>2, <2>4 DEF Fresh
<1>2. ASSUME NEW c \in Calls, Request(c) \/ Reconcile(c) \/ Progress(c)
      PROVE  Fresh'
  <2>1. /\ \A d \in Calls : d # c => call'[d] = call[d]
        /\ \/ call'[c].op = "create" => /\ call[c].op = "create"
                                       /\ call'[c].t = call[c].t
           \/ \E w \in Trees, t \in Tabs : Create(c, w, t)
    BY <1>0, <1>2, OneStep
  <2>2. CASE call'[c].op = "create" => call[c].op = "create" /\ call'[c].t = call[c].t
    <3>1. \A d \in Calls : call'[d].op = "create" => /\ call[d].op = "create"
                                                   /\ call'[d].t = call[d].t
      BY <2>1, <2>2
    <3>2. CASE ~AddRow(c)
      <4>1. \A t \in Tabs : tab[t] = Nil => tab'[t] = Nil
        BY <1>0, <1>2, <3>2, RowsOnlyGo
      <4> QED BY <1>0, <3>1, <4>1 DEF Fresh
    <3>3. CASE AddRow(c) /\ UNCHANGED tab
      BY <3>1, <3>3 DEF Fresh
    <3>4. CASE AddRow(c) /\ tab' = [tab EXCEPT ![call[c].t] = call[c].w] /\ Finish(c)
      <4>1. call[c].op = "create"
        BY <3>4 DEF AddRow, At, IInv, Holds
      <4>2. call'[c].op # "create"
        BY <1>0, <3>4 DEF Finish, IdleCall
      <4>3. \A t \in Tabs : t # call[c].t => tab'[t] = tab[t]
        BY <1>0, <3>4 DEF TypeOK
      <4>4. \A d \in Calls : call'[d].op = "create" /\ call[d].t # Nil =>
              d # c /\ call[d].t # call[c].t
        BY <3>1, <4>1, <4>2 DEF Fresh
      <4> QED BY <1>0, <3>1, <4>3, <4>4 DEF Fresh
    <3> QED BY <3>2, <3>3, <3>4 DEF AddRow
  <2> QED BY <1>1, <2>1, <2>2
<1>3. CASE ServerGone
  BY <1>0, <1>3 DEF ServerGone, Fresh, IdleCall
<1>4. CASE (\E t \in Tabs : TabStep(t)) \/ DaemonGone \/ UNCHANGED vars
  <2>1. UNCHANGED <<call, tab>>
    BY <1>4 DEF TabStep, Dies, Gone, Tick, DaemonGone, vars, store
  <2> QED BY <2>1 DEF Fresh
<1> QED BY <1>2, <1>3, <1>4 DEF Next
-----------------------------------------------------------------------------
\* A tab that is put aside stays so, unless it is restored or killed.
KeptAside(t) ==
  tab[t] # Nil /\ Aside(t) => Aside(t)' \/ shell'[t] = "live" \/ Killed(t)

\* Whatever is suspended is saved, unless writes fail.
SavedAside(t) ==
  fate[t] # "keep" /\ fate'[t] = "keep" /\ "unsaved" \notin Ops => Aside(t)'

\* Hanging up a session keeps the log of every other, and suspends none.
LEMMA HangupOne ==
  ASSUME TypeOK, NEW u \in Tabs \cup {Nil}, Hangup(u), NEW t \in Tabs
  PROVE  SavedAside(t) /\ (t # u => (Aside(t) => Aside(t)'))
BY DEF TypeOK, Hangup, SavedAside, Aside

\* A new session takes its own tab's place.
LEMMA SpawnOne ==
  ASSUME TypeOK, NEW u \in Tabs \cup {Nil}, Spawn(u), NEW t \in Tabs
  PROVE  SavedAside(t) /\ KeptAside(t)
BY DEF TypeOK, Spawn, SavedAside, KeptAside, Aside

\* Suspending saves.
LEMMA SuspendOne ==
  ASSUME TypeOK, NEW u \in Tabs, Suspend(u), NEW t \in Tabs
  PROVE  SavedAside(t) /\ KeptAside(t)
<1>1. CASE UNCHANGED <<shell, fate, saved>>
  BY <1>1 DEF SavedAside, KeptAside, Aside
<1>2. CASE t # u
  <2>1. fate'[t] = fate[t] /\ shell'[t] = shell[t] /\ saved'[t] = saved[t]
    BY <1>2 DEF Suspend, TypeOK
  <2> QED BY <2>1 DEF SavedAside, KeptAside, Aside
<1>3. CASE t = u /\ ~UNCHANGED <<shell, fate, saved>>
  <2>1. /\ shell'[t] = "ending" /\ (fate[t] = "keep" => fate'[t] = "keep")
        /\ saved[t] => saved'[t]
        /\ "unsaved" \notin Ops => saved'[t]
    BY <1>3 DEF Suspend, Unwritten, TypeOK
  <2> QED BY <2>1 DEF SavedAside, KeptAside, Aside
<1> QED BY <1>1, <1>2, <1>3

\* The daemon's own steps.
LEMMA DaemonKeepsAside ==
  ASSUME TypeOK, NEW t \in Tabs,
         (\E u \in Tabs : TabStep(u)) \/ DaemonGone \/ ServerGone \/ UNCHANGED vars
  PROVE  SavedAside(t) /\ KeptAside(t)
<1>1. ASSUME NEW u \in Tabs, Dies(u) PROVE SavedAside(t) /\ KeptAside(t)
  BY <1>1 DEF Dies, TypeOK, SavedAside, KeptAside, Aside
<1>2. ASSUME NEW u \in Tabs, Gone(u) PROVE SavedAside(t) /\ KeptAside(t)
  BY <1>2 DEF Gone, TypeOK, SavedAside, KeptAside, Aside
<1>3. ASSUME NEW u \in Tabs, Tick(u) PROVE SavedAside(t) /\ KeptAside(t)
  BY <1>3 DEF Tick, TypeOK, SavedAside, KeptAside, Aside
<1>4. CASE DaemonGone \/ ServerGone \/ UNCHANGED vars
  BY <1>4 DEF DaemonGone, ServerGone, vars, daemon, SavedAside, KeptAside, Aside
<1> QED BY <1>1, <1>2, <1>3, <1>4 DEF TabStep

\* A request kills what is not put aside, or closes the tab, or has to: Killed.
LEMMA KillKeepsAside ==
  ASSUME IInv, AllRun, Fresh, NEW c \in Calls, Kill(c), NEW t \in Tabs
  PROVE  SavedAside(t) /\ KeptAside(t)
<1>0. /\ TypeOK /\ call[c] \in Requests /\ Runs(call[c]) /\ Holds(call[c])
      /\ call[c].t \in Tabs \cup {Nil} /\ Nil \notin Tabs
      /\ call \in [Calls -> Requests]
  BY TerminalsAssumption DEF IInv, TypeOK, Requests, AllRun
<1>1. At(c, "kill") /\ Hangup(call[c].t)
  BY DEF Kill
<1>2. SavedAside(t) /\ (t # call[c].t => (Aside(t) => Aside(t)'))
  BY <1>0, <1>1, HangupOne
<1>3. ASSUME t = call[c].t, tab[t] # Nil PROVE Killed(t)
  <2>1. call[c].op # "create"
    BY <1>0, <1>3 DEF Fresh
  <2>2. call[c].op # "prune"
    BY <1>0, <1>1, <1>3 DEF Holds, Orphans, At
  <2>3. \/ call[c].op \in {"close", "remove", "reap", "reconcile"} /\ Goto(c, "drop")
        \/ call[c].op = "restart" /\ call[c].w = Nil /\ Next1(c)
    BY <1>0, <1>1, <2>1, <2>2, StepOps DEF Kill, At, Runs
  <2>4. ~At(c, "kill")'
    <3>1. CASE Goto(c, "drop")
      <4>1. [call[c] EXCEPT !.pc = "drop"].pc = "drop"
        BY <1>0 DEF Requests
      <4>2. call'[c].pc = "drop"
        BY <1>0, <3>1, <4>1 DEF Goto
      <4> QED BY <4>2 DEF At
    <3>2. CASE Next1(c)
      <4>1. [call[c] EXCEPT !.pc = "loop", !.t = Nil].pc = "loop"
        BY <1>0 DEF Requests
      <4>2. call'[c].pc = "loop"
        BY <1>0, <3>2, <4>1 DEF Next1
      <4> QED BY <4>2 DEF At
    <3> QED BY <2>3, <3>1, <3>2
  <2> QED BY <1>1, <1>3, <2>3, <2>4 DEF Killed
<1> QED BY <1>2, <1>3 DEF KeptAside

\* A shutdown of the daemon puts everything aside that it still reaches.
LEMMA ShutdownKeepsAside ==
  ASSUME TypeOK, NEW c \in Calls, Shutdown(c), NEW t \in Tabs
  PROVE  SavedAside(t) /\ KeptAside(t)
<1> DEFINE Late == {u \in Tabs : shell[u] = "ending"}
           Reach(late) == {u \in Tabs : Listed(u)} \ late
<1>a. PICK late \in SUBSET Late :
        /\ \E lost \in Unwritten(Reach(late)) :
             saved' = [u \in Tabs |-> saved[u] \/ u \in Reach(late) \ lost]
        /\ fate' = [u \in Tabs |->
             IF u \in Reach(late) /\ (shell[u] = "live" \/ fate[u] # "discard")
             THEN "keep" ELSE fate[u]]
  BY DEF Shutdown
<1>b. PICK saves \in SUBSET Tabs : saves = Reach(late)
  OBVIOUS
<1> HIDE DEF Reach, Late
<1>c. PICK lost \in Unwritten(saves) : saved' = [u \in Tabs |-> saved[u] \/ u \in saves \ lost]
  BY <1>a, <1>b
<1>1. /\ "unsaved" \notin Ops => lost = {}
      /\ saved' = [u \in Tabs |-> saved[u] \/ u \in saves \ lost]
      /\ fate' = [u \in Tabs |->
           IF u \in saves /\ (shell[u] = "live" \/ fate[u] # "discard")
           THEN "keep" ELSE fate[u]]
  BY <1>a, <1>b, <1>c DEF Unwritten
<1>2. shell'[t] # "live"
  BY DEF Shutdown
<1>3. /\ saved'[t] = (saved[t] \/ t \in saves \ lost)
      /\ fate'[t] = IF t \in saves /\ (shell[t] = "live" \/ fate[t] # "discard")
                    THEN "keep" ELSE fate[t]
  BY <1>1
<1>4. CASE t \in saves
  BY <1>1, <1>2, <1>3, <1>4 DEF SavedAside, KeptAside, Aside
<1>5. CASE t \notin saves
  BY <1>2, <1>3, <1>5 DEF SavedAside, KeptAside, Aside
<1> QED BY <1>4, <1>5

\* Every step of a request.
LEMMA StepKeepsAside ==
  ASSUME IInv, AllRun, Fresh, NEW c \in Calls, Request(c) \/ Reconcile(c) \/ Progress(c),
         NEW t \in Tabs
  PROVE  SavedAside(t) /\ KeptAside(t)
<1>0. TypeOK /\ call[c].t \in Tabs \cup {Nil}
  BY DEF IInv, TypeOK
<1>1. ASSUME UNCHANGED daemon PROVE SavedAside(t) /\ KeptAside(t)
  BY <1>1 DEF daemon, SavedAside, KeptAside, Aside
<1>2. CASE Request(c) \/ Reconcile(c)
  <2>1. ASSUME NEW w \in Trees, NEW u \in Tabs, Create(c, w, u)
        PROVE  SavedAside(t) /\ KeptAside(t)
    BY <1>0, <2>1, SpawnOne DEF Create
  <2>2. CASE ~\E w \in Trees, u \in Tabs : Create(c, w, u)
    <3>1. UNCHANGED daemon
      BY <1>2, <2>2 DEF Request, Close, Open, Archive, Unarchive, Remove, Restart, Prune,
                        Reap, Reconcile
    <3> QED BY <1>1, <3>1
  <2> QED BY <2>1, <2>2
<1>3. CASE Shutdown(c)
  BY <1>0, <1>3, ShutdownKeepsAside
<1>4. CASE Kill(c)
  BY <1>4, KillKeepsAside
<1>5. CASE Restore(c)
  BY <1>0, <1>1, <1>5, SpawnOne DEF Restore
<1>6. ASSUME NEW u \in Tabs, SuspendTab(c, u) PROVE SavedAside(t) /\ KeptAside(t)
  <2>1. CASE Suspend(u)
    BY <1>0, <2>1, SuspendOne
  <2>2. CASE UNCHANGED <<shell, fate, saved>>
    BY <2>2 DEF SavedAside, KeptAside, Aside
  <2> QED BY <1>6, <2>1, <2>2 DEF SuspendTab
<1>7. CASE \/ AddRow(c) \/ List(c) \/ Rows(c) \/ Wait(c) \/ Alive(c) \/ HasSaved(c)
           \/ Drop(c) \/ LoopEnd(c) \/ SetStatus(c) \/ RemoveRow(c)
           \/ \E u \in Tabs : PickTab(c, u)
  <2>1. UNCHANGED daemon
    BY <1>7 DEF AddRow, List, Rows, Wait, Alive, HasSaved, Drop, LoopEnd, SetStatus,
                RemoveRow, PickTab
  <2> QED BY <1>1, <2>1
<1> QED BY <1>2, <1>3, <1>4, <1>5, <1>6, <1>7 DEF Progress

\* Reconcile takes up a tab with a log by restoring it.
LEMMA ReconcileTries ==
  ASSUME TypeOK, AllRun, [Next]_vars, NEW t \in Tabs, Aside(t), NEW c \in Calls,
         call[c].op = "reconcile", At(c, "loop"), call'[c].t = t
  PROVE  At(c, "restore")'
<1>0. /\ call \in [Calls -> Requests] /\ call[c] \in Requests /\ Nil \notin Tabs
      /\ call[c].t = Nil /\ IdleCall.t = Nil
  BY TerminalsAssumption DEF TypeOK, Requests, AllRun, Runs, At, IdleCall
<1>1. call'[c] # call[c]
  BY <1>0
<1>2. ~ServerGone
  BY <1>0 DEF ServerGone
<1>3. UNCHANGED vars \/ (\E u \in Tabs : TabStep(u)) \/ DaemonGone => UNCHANGED call
  BY DEF TabStep, Dies, Gone, Tick, DaemonGone, vars
<1>4. PICK d \in Calls : Request(d) \/ Reconcile(d) \/ Progress(d)
  BY <1>1, <1>2, <1>3 DEF Next
<1>5. d = c
  BY <1>1, <1>4, OneStep
<1>6. Progress(c)
  BY <1>4, <1>5 DEF Request, Create, Close, Open, Archive, Unarchive, Remove, Restart,
                    Prune, Reap, Reconcile, Begin, At
<1>7. ~LoopEnd(c)
  <2>1. LoopEnd(c) => Finish(c)
    BY DEF LoopEnd
  <2>2. Finish(c) => call'[c].t = Nil
    BY <1>0 DEF Finish
  <2> QED BY <1>0, <2>1, <2>2
<1>8. PICK u \in Tabs : PickTab(c, u)
  <2>1. ~ \E u \in Tabs : SuspendTab(c, u)
    BY DEF SuspendTab
  <2> QED BY <1>6, <1>7, <2>1
          DEF Progress, AddRow, List, Rows, Shutdown, Wait, Alive, HasSaved, Restore, Kill,
              Drop, SetStatus, RemoveRow, At
<1>9. ~Skip(c, u)
  <2>1. [call[c] EXCEPT !.todo = @ \ {u}].t = Nil
    BY <1>0 DEF Requests
  <2>2. Skip(c, u) => call' = [call EXCEPT ![c] = [call[c] EXCEPT !.todo = @ \ {u}]]
    BY <1>8 DEF PickTab
  <2> QED BY <1>0, <2>1, <2>2
<1>10. PICK w : call' = [call EXCEPT ![c] =
         [call[c] EXCEPT !.todo = @ \ {u}, !.pc = Work(c, u), !.t = u, !.w = w]]
  BY <1>8, <1>9 DEF PickTab
<1>11. /\ [call[c] EXCEPT !.todo = @ \ {u}, !.pc = Work(c, u), !.t = u, !.w = w].t = u
       /\ [call[c] EXCEPT !.todo = @ \ {u}, !.pc = Work(c, u), !.t = u, !.w = w].pc
            = Work(c, u)
  BY <1>0 DEF Requests
<1>12. u = t /\ call'[c].pc = Work(c, t)
  BY <1>0, <1>10, <1>11
<1>13. Work(c, t) = "restore"
  BY DEF Work, Aside
<1> QED BY <1>12, <1>13 DEF At

\* What an archive or a daemon restart has put aside stays on disk until it is
\* restored or closed, whichever operations and failures occur (Terminals:
\* SuspendedTabKept).
THEOREM KeepsSuspendedTabs == Spec => SuspendedTabKept
<1> DEFINE KInv == IInv /\ AllRun /\ Fresh
           Kept == \A t \in Tabs :
             /\ tab[t] # Nil /\ fate[t] # "keep" /\ fate'[t] = "keep" /\ "unsaved" \notin Ops
                  => Aside(t)'
             /\ tab[t] # Nil /\ Aside(t) =>
                  \/ Aside(t)' \/ shell'[t] = "live" \/ tab'[t] = Nil
                  \/ Killed(t)
             /\ tab[t] # Nil /\ Aside(t) =>
                  \A c \in Calls : call[c].op = "reconcile" /\ At(c, "loop")
                                    /\ call'[c].t = t => At(c, "restore")'
<1>1. Init => KInv
  <2>1. ASSUME Init PROVE AllRun /\ Fresh
    <3>1. Runs(IdleCall) /\ IdleCall.op # "create"
      BY TerminalsAssumption DEF Runs, IdleCall, Operations
    <3> QED BY <2>1, <3>1 DEF Init, AllRun, Fresh
  <2> QED BY <2>1, Inductive
<1>2. KInv /\ [Next]_vars => KInv'
  BY Inductive, StepRuns, StepFresh DEF IInv
<1>3. KInv /\ [Next]_vars => Kept
  <2> SUFFICES ASSUME KInv, [Next]_vars, NEW t \in Tabs
               PROVE  /\ SavedAside(t) /\ KeptAside(t)
                      /\ Aside(t) => \A c \in Calls :
                           call[c].op = "reconcile" /\ At(c, "loop") /\ call'[c].t = t
                             => At(c, "restore")'
    BY DEF SavedAside, KeptAside
  <2>1. TypeOK
    BY DEF IInv
  <2>2. SavedAside(t) /\ KeptAside(t)
    BY <2>1, StepKeepsAside, DaemonKeepsAside DEF Next
  <2> QED BY <2>1, <2>2, ReconcileTries
<1> QED BY <1>1, <1>2, <1>3, PTL DEF Spec, SuspendedTabKept
-----------------------------------------------------------------------------
(***************************************************************************)
(* No stray shells: a live shell without a row takes two requests, one that *)
(* starts shells and one that drops rows, or a creation and a crash of the *)
(* server.  Every such pair leaves one (create with remove or crash; open, *)
(* unarchive or restart with close or reap); without these pairs none is   *)
(* left, whatever else overlaps and wherever the server is stopped.        *)
(***************************************************************************)

\* Nobody starts a shell while somebody else may drop its row: no creation beside a
\* removal of its worktree or a crash of the server, no restore beside a close or a
\* reap.
KeptApart ==
  /\ "create" \in Ops => Ops \cap {"remove", "crash"} = {}
  /\ Ops \cap {"close", "reap"} # {} => Ops \cap {"open", "unarchive", "restart"} = {}

\* Every live shell has a row, or the request that creates it is still in progress.
Reached ==
  \A t \in Tabs : shell[t] = "live" =>
    tab[t] # Nil \/ \E c \in Calls : call[c].op = "create" /\ call[c].t = t

\* Reconcile runs alone, before the server listens.
Alone ==
  \A c \in Calls : call[c].op = "reconcile" =>
    server = "boot" /\ \A d \in Calls \ {c} : call[d].pc = "idle"

\* A request is one of those that occur.
Asked(r) ==
  /\ r.op \in Ops \cup {Nil, "reconcile"}
  /\ r.op \in {"create", "archive", "unarchive", "remove"} => r.w \in Trees

\* What is restored has a row, unless the checkout is gone and the restore will fail;
\* what is dropped is not alive; a removal has taken the checkout away, and what its
\* worktree has alive it has killed or has still to kill.
Known(r) ==
  /\ r.pc \in {"alive", "saved", "restore"} /\ r.t \in Tabs =>
       r.w \in Trees /\ (tab[r.t] = r.w \/ ~dir[r.w])
  /\ r.op = "unarchive" => \A t \in r.todo : tab[t] = r.w \/ ~dir[r.w]
  /\ r.op = "reconcile" /\ r.pc # "rows" =>
       r.t \notin r.todo /\ \A t \in r.todo : tab[t] # Nil
  /\ r.pc = "drop" /\ r.t \in Tabs => shell[r.t] # "live"
  /\ r.pc = "row" => r.todo = {}
  /\ r.op = "remove" =>
       /\ ~dir[r.w]
       /\ \A t \in Tabs : t \in r.todo \/ t = r.t => tab[t] \in {r.w, Nil}
       /\ r.pc # "list" =>
            \A t \in Tabs : shell[t] = "live" /\ tab[t] = r.w =>
                              t \in r.todo \/ (r.pc = "kill" /\ t = r.t)

SInv == /\ IInv /\ AllRun /\ Fresh /\ Alone /\ Reached
        /\ \A c \in Calls : Asked(call[c]) /\ Known(call[c])

\* The requests that start a shell under an id there is.
Restorers == {"open", "unarchive", "restart"}

\* What a request knows stays so while others act: their steps bring no checkout
\* back, drop no row it is about to restore, and start no shell it is about to drop.
LEMMA KnownKept ==
  ASSUME TypeOK, TypeOK', NEW r \in Requests, Runs(r), Asked(r), Known(r),
         r.t # Nil => r.t \in made,
         \A w \in Trees : dir'[w] => dir[w],
         \A t \in Tabs :
           \/ tab'[t] = tab[t]
           \/ tab[t] = Nil /\ r.op # "remove"
           \/ /\ tab'[t] = Nil /\ r.op # "reconcile"
              /\ r.op \in Restorers /\ tab[t] \in Trees => ~dir[tab[t]],
         \A t \in Tabs : shell'[t] = "live" =>
           \/ shell[t] = "live"
           \/ t \notin made /\ tab[t] = Nil /\ tab'[t] = Nil
           \/ /\ r.op \notin {"close", "reap", "reconcile"}
              /\ tab'[t] = tab[t] /\ tab[t] \in Trees /\ dir[tab[t]]
  PROVE  Known(r)'
<1>0. /\ Nil \notin Trees /\ Nil \notin Tabs /\ r.todo \subseteq Tabs
      /\ r.t \in Tabs \cup {Nil} /\ Nil \notin Operations
      /\ r.op \in {"unarchive", "remove"} => r.w \in Trees
      /\ \A t \in Tabs : tab[t] \in Trees \cup {Nil} /\ tab'[t] \in Trees \cup {Nil}
  BY TerminalsAssumption DEF Requests, TypeOK, Asked
<1>1. r.pc \in {"alive", "saved", "restore"} /\ r.t \in Tabs =>
        r.w \in Trees /\ (tab'[r.t] = r.w \/ ~dir'[r.w])
  <2> SUFFICES ASSUME r.pc \in {"alive", "saved", "restore"}, r.t \in Tabs
               PROVE  r.w \in Trees /\ (tab'[r.t] = r.w \/ ~dir'[r.w])
    OBVIOUS
  <2>1. r.op \in {"unarchive", "open", "restart", "reconcile"}
    BY StepOps
  <2>2. r.w \in Trees /\ (tab[r.t] = r.w \/ ~dir[r.w])
    BY DEF Known
  <2> QED BY <1>0, <2>1, <2>2 DEF Restorers
<1>2. r.op = "unarchive" => \A t \in r.todo : tab'[t] = r.w \/ ~dir'[r.w]
  <2> SUFFICES ASSUME r.op = "unarchive", NEW t \in r.todo
               PROVE  tab'[t] = r.w \/ ~dir'[r.w]
    OBVIOUS
  <2>1. r.w \in Trees /\ (tab[t] = r.w \/ ~dir[r.w]) /\ t \in Tabs
    BY <1>0 DEF Known
  <2> QED BY <1>0, <2>1 DEF Restorers
<1>3. r.op = "reconcile" /\ r.pc # "rows" =>
        r.t \notin r.todo /\ \A t \in r.todo : tab'[t] # Nil
  BY <1>0 DEF Known
<1>4. r.pc = "drop" /\ r.t \in Tabs => shell'[r.t] # "live"
  <2> SUFFICES ASSUME r.pc = "drop", r.t \in Tabs, shell'[r.t] = "live" PROVE FALSE
    OBVIOUS
  <2>1. shell[r.t] # "live" /\ r.t \in made
    BY <1>0 DEF Known
  <2>2. r.op \in {"close", "remove", "reap", "reconcile"}
    BY StepOps
  <2>3. r.op = "remove" /\ tab[r.t] \in Trees /\ dir[tab[r.t]]
    BY <2>1, <2>2
  <2>4. ~dir[r.w] /\ tab[r.t] \in {r.w, Nil}
    BY <2>3 DEF Known
  <2> QED BY <1>0, <2>3, <2>4
<1>5. ASSUME r.op = "remove"
      PROVE  /\ ~dir'[r.w]
             /\ \A t \in Tabs : t \in r.todo \/ t = r.t => tab'[t] \in {r.w, Nil}
             /\ r.pc # "list" =>
                  \A t \in Tabs : shell'[t] = "live" /\ tab'[t] = r.w =>
                                    t \in r.todo \/ (r.pc = "kill" /\ t = r.t)
  <2>1. /\ r.w \in Trees /\ ~dir[r.w]
        /\ \A t \in Tabs : t \in r.todo \/ t = r.t => tab[t] \in {r.w, Nil}
        /\ r.pc # "list" =>
             \A t \in Tabs : shell[t] = "live" /\ tab[t] = r.w =>
                               t \in r.todo \/ (r.pc = "kill" /\ t = r.t)
    BY <1>0, <1>5 DEF Known
  <2>2. \A t \in Tabs : tab'[t] = tab[t] \/ tab'[t] = Nil
    BY <1>5
  <2>3. ASSUME NEW t \in Tabs, shell'[t] = "live", tab'[t] = r.w
        PROVE  shell[t] = "live" /\ tab[t] = r.w
    BY <1>0, <2>1, <2>2, <2>3
  <2> QED BY <2>1, <2>2, <2>3
<1>6. r.pc = "row" => r.todo = {}
  BY DEF Known
<1> QED BY <1>1, <1>2, <1>3, <1>4, <1>5, <1>6 DEF Known

\* An idle request knows nothing.
LEMMA IdleKnows ==
  /\ Known(IdleCall) /\ Asked(IdleCall)
  /\ Known(IdleCall)'
  /\ \A r \in Requests : Runs(r) /\ r.pc = "idle" => r.op = Nil
BY TerminalsAssumption DEF Known, Asked, IdleCall, Operations, Requests, Runs

\* Only a reconcile works at boot, and nothing else with it.
LEMMA StepAlone ==
  ASSUME SInv, [Next]_vars
  PROVE  Alone'
<1>0. /\ TypeOK /\ AllRun /\ Nil # "reconcile" /\ call \in [Calls -> Requests]
      /\ \A c \in Calls : call[c] \in Requests /\ Runs(call[c])
      /\ \A c \in Calls : call[c].pc = "idle" => call[c].op = Nil
  BY TerminalsAssumption, IdleKnows DEF SInv, IInv, TypeOK, Requests, AllRun, Operations
<1>1. ASSUME NEW c \in Calls, Request(c) PROVE Alone'
  <2>1. server = "up" /\ server' = server
    BY <1>1 DEF Request, Create, Close, Open, Archive, Unarchive, Remove, Restart, Prune,
                Reap, Begin, daemon, store
  <2>2. \A d \in Calls : call[d].op # "reconcile"
    BY <2>1 DEF SInv, Alone
  <2>3. call'[c].op # "reconcile"
    <3>1. \A w \in Trees, t \in Tabs : OnTab("create", "addrow", w, t).op # "reconcile"
      BY DEF OnTab, IdleCall
    <3>2. \A t \in Tabs : /\ OnTab("close", "kill", tab[t], t).op # "reconcile"
                          /\ OnTab("open", "alive", tab[t], t).op # "reconcile"
      BY DEF OnTab, IdleCall
    <3>3. \A w \in Trees, op \in {"archive", "unarchive", "remove"} :
            OnTree(op, w).op # "reconcile"
      BY DEF OnTree, IdleCall
    <3>4. /\ OnSessions("restart", "shutdown").op # "reconcile"
          /\ OnSessions("prune", "rows").op # "reconcile"
      BY DEF OnSessions, IdleCall
    <3>5. \A idle \in SUBSET Tabs :
            [IdleCall EXCEPT !.op = "reap", !.pc = "loop", !.todo = idle].op # "reconcile"
      BY DEF IdleCall
    <3>6. PICK r : call' = [call EXCEPT ![c] = r] /\ r.op # "reconcile"
      <4>1. CASE \E w \in Trees, t \in Tabs : Create(c, w, t)
        BY <3>1, <4>1 DEF Create, Begin
      <4>2. CASE \E t \in Tabs : Close(c, t) \/ Open(c, t)
        BY <3>2, <4>2 DEF Close, Open, Begin
      <4>3. CASE \E w \in Trees : Archive(c, w) \/ Unarchive(c, w) \/ Remove(c, w)
        BY <3>3, <4>3 DEF Archive, Unarchive, Remove, Begin
      <4>4. CASE Restart(c) \/ Prune(c)
        BY <3>4, <4>4 DEF Restart, Prune, Begin
      <4>5. CASE Reap(c)
        BY <3>5, <4>5 DEF Reap, Begin
      <4> QED BY <1>1, <4>1, <4>2, <4>3, <4>4, <4>5 DEF Request
    <3> QED BY <1>0, <3>6
  <2>4. \A d \in Calls : d # c => call'[d] = call[d]
    BY <1>0, <1>1, OneStep
  <2> QED BY <2>2, <2>3, <2>4 DEF Alone
<1>2. ASSUME NEW c \in Calls, Reconcile(c) PROVE Alone'
  <2>1. server' = "boot" /\ \A d \in Calls : call[d].pc = "idle" /\ call[d].op = Nil
    BY <1>0, <1>2 DEF Reconcile
  <2>2. \A d \in Calls : d # c => call'[d] = call[d]
    BY <1>0, <1>2, OneStep
  <2> QED BY <1>0, <2>1, <2>2 DEF Alone
<1>3. ASSUME NEW c \in Calls, Progress(c) PROVE Alone'
  <2>1. \A d \in Calls : d # c => call'[d] = call[d]
    BY <1>0, <1>3, OneStep
  <2>2. call[c].pc # "idle"
    BY <1>3 DEF Progress, AddRow, List, Rows, Shutdown, Wait, Alive, HasSaved, Restore,
                Kill, Drop, SuspendTab, PickTab, LoopEnd, SetStatus, RemoveRow, At
  <2>3. \A d \in Calls : d # c => call[d].op # "reconcile"
    BY <2>2 DEF SInv, Alone
  <2>4. call'[c].op = "reconcile" => call[c].op = "reconcile" /\ server' = server
    <3>1. Finish(c) => call'[c].op # "reconcile"
      BY <1>0 DEF Finish, IdleCall
    <3>2. ASSUME NEW pc, Goto(c, pc) PROVE call'[c].op = call[c].op
      <4>1. [call[c] EXCEPT !.pc = pc].op = call[c].op
        BY <1>0 DEF Requests
      <4> QED BY <1>0, <3>2, <4>1 DEF Goto
    <3>3. Next1(c) => call'[c].op = call[c].op
      <4>1. [call[c] EXCEPT !.pc = "loop", !.t = Nil].op = call[c].op
        BY <1>0 DEF Requests
      <4> QED BY <1>0, <4>1 DEF Next1
    <3>4. \A todo : [call[c] EXCEPT !.pc = "loop", !.todo = todo].op = call[c].op
      BY <1>0 DEF Requests
    <3>5. \A t : [call[c] EXCEPT !.todo = @ \ {t}].op = call[c].op
      BY <1>0 DEF Requests
    <3>6. \A t, pc, w :
            [call[c] EXCEPT !.todo = @ \ {t}, !.pc = pc, !.t = t, !.w = w].op = call[c].op
      BY <1>0 DEF Requests
    <3>7. CASE LoopEnd(c)
      BY <3>1, <3>2, <3>7, <1>0 DEF LoopEnd
    <3>8. CASE List(c) \/ Rows(c)
      <4>1. PICK todo : call' = [call EXCEPT ![c] =
                                   [call[c] EXCEPT !.pc = "loop", !.todo = todo]]
        BY <3>8 DEF List, Rows
      <4> QED BY <1>0, <3>4, <3>8, <4>1 DEF List, Rows
    <3>9. ASSUME NEW t \in Tabs, SuspendTab(c, t) \/ PickTab(c, t)
          PROVE  call'[c].op = call[c].op /\ server' = server
      <4>1. CASE SuspendTab(c, t)
        BY <1>0, <3>2, <3>5, <4>1 DEF SuspendTab
      <4>2. CASE PickTab(c, t)
        <5>1. CASE Skip(c, t)
          BY <1>0, <3>5, <4>2, <5>1 DEF PickTab
        <5>2. CASE ~Skip(c, t)
          <6>1. PICK w : call' = [call EXCEPT ![c] = [call[c] EXCEPT
                                    !.todo = @ \ {t}, !.pc = Work(c, t), !.t = t, !.w = w]]
            BY <4>2, <5>2 DEF PickTab
          <6> QED BY <1>0, <3>6, <4>2, <6>1 DEF PickTab
        <5> QED BY <5>1, <5>2
      <4> QED BY <3>9, <4>1, <4>2
    <3>10. CASE AddRow(c) \/ Shutdown(c) \/ Wait(c) \/ Alive(c) \/ HasSaved(c)
      BY <3>1, <3>2, <3>10 DEF AddRow, Shutdown, Wait, Alive, HasSaved
    <3>11. CASE Restore(c) \/ Kill(c) \/ Drop(c) \/ SetStatus(c) \/ RemoveRow(c)
      BY <3>1, <3>2, <3>3, <3>11
         DEF Restore, RestoreFailed, Kill, Drop, SetStatus, RemoveRow
    <3> QED BY <1>3, <3>7, <3>8, <3>9, <3>10, <3>11 DEF Progress
  <2> QED BY <2>1, <2>3, <2>4 DEF SInv, Alone
<1>4. CASE ServerGone
  BY <1>0, <1>4 DEF ServerGone, Alone, IdleCall
<1>5. CASE (\E t \in Tabs : TabStep(t)) \/ DaemonGone \/ UNCHANGED vars
  <2>1. UNCHANGED <<call, server>>
    BY <1>5 DEF TabStep, Dies, Gone, Tick, DaemonGone, vars
  <2> QED BY <2>1 DEF SInv, Alone
<1> QED BY <1>1, <1>2, <1>3, <1>4, <1>5 DEF Next

\* A step of one request leaves what the others know.
LEMMA OthersKnow ==
  ASSUME SInv, TypeOK', KeptApart, NEW c \in Calls,
         Request(c) \/ Reconcile(c) \/ Progress(c), NEW d \in Calls, d # c
  PROVE  (Asked(call[d]) /\ Known(call[d]))'
<1> USE DEF store, daemon
<1>0. /\ TypeOK /\ Nil \notin Tabs /\ Nil \notin Operations /\ Nil \notin Trees
      /\ call[c] \in Requests /\ Runs(call[c]) /\ Asked(call[c]) /\ Known(call[c])
      /\ call[c].t \in Tabs \cup {Nil} /\ tab \in [Tabs -> Trees \cup {Nil}]
  BY TerminalsAssumption DEF SInv, IInv, TypeOK, Requests, AllRun
<1>1. call'[d] = call[d]
  BY <1>0, OneStep DEF SInv
<1>2. PICK r \in Requests : r = call[d]
  BY DEF SInv, IInv, TypeOK, Requests
<1>3. Runs(r) /\ Asked(r) /\ Known(r) /\ (r.t # Nil => r.t \in made)
  BY <1>2 DEF SInv, AllRun, IInv, Holds
<1>4. r.op \in Ops \cup {Nil, "reconcile"}
  BY <1>3 DEF Asked
\* One of two is not a reconcile; a request of its own is idle then.
<1>5. call[c].op = "reconcile" => r.op = Nil
  BY <1>2, <1>3, IdleKnows DEF SInv, Alone
<1>6. \A w \in Trees : dir'[w] => dir[w]
  <2>1. CASE \E w \in Trees : Remove(c, w)
    BY <1>0, <2>1 DEF Remove, TypeOK
  <2>2. CASE ~\E w \in Trees : Remove(c, w)
    <3>1. dir' = dir
      BY <2>2 DEF Request, Create, Close, Open, Archive, Unarchive, Restart, Prune, Reap,
         Reconcile, Progress, AddRow, List, Rows, Shutdown, Wait, Alive, HasSaved, Restore,
         Kill, Drop, SuspendTab, PickTab, LoopEnd, SetStatus, RemoveRow
    <3> QED BY <3>1
  <2> QED BY <2>1, <2>2
<1> DEFINE Rowed == \A t \in Tabs :
             \/ tab'[t] = tab[t]
             \/ tab[t] = Nil /\ r.op # "remove"
             \/ /\ tab'[t] = Nil /\ r.op # "reconcile"
                /\ r.op \in Restorers /\ tab[t] \in Trees => ~dir[tab[t]]
           Started == \A t \in Tabs : shell'[t] = "live" =>
             \/ shell[t] = "live"
             \/ t \notin made /\ tab[t] = Nil /\ tab'[t] = Nil
             \/ /\ r.op \notin {"close", "reap", "reconcile"}
                /\ tab'[t] = tab[t] /\ tab[t] \in Trees /\ dir[tab[t]]
<1>7. ASSUME tab' = tab, \A t \in Tabs : shell'[t] = "live" => shell[t] = "live"
      PROVE  Rowed /\ Started
  BY <1>7
<1>8. Rowed /\ Started
  <2>1. CASE \E w \in Trees, t \in Tabs : Create(c, w, t)
    <3>1. PICK w \in Trees, t \in Tabs : Create(c, w, t)
      BY <2>1
    <3>2. /\ t \notin made /\ tab' = tab
          /\ shell' = [shell EXCEPT ![t] = "live"]
      BY <3>1 DEF Create, Spawn
    <3>3. tab[t] = Nil
      BY <3>2 DEF SInv, IInv, MadeFirst
    <3> QED BY <1>0, <3>2, <3>3 DEF TypeOK
  <2>2. CASE (Request(c) \/ Reconcile(c)) /\ ~\E w \in Trees, t \in Tabs : Create(c, w, t)
    <3>1. tab' = tab /\ shell' = shell
      BY <2>2 DEF Request, Close, Open, Archive, Unarchive, Remove, Restart, Prune, Reap,
                  Reconcile
    <3> QED BY <1>7, <3>1
  <2>3. CASE AddRow(c)
    <3>1. call[c].op = "create" /\ shell' = shell /\ Nil # "create"
      BY <1>0, <2>3, StepOps DEF AddRow, At, Operations
    <3>2. "create" \in Ops
      BY <1>0, <3>1 DEF Asked
    <3>3. r.op # "remove" /\ Nil # "remove"
      BY <1>0, <1>4, <3>2 DEF KeptApart, Operations
    <3>4. \A t \in Tabs : t # call[c].t => tab'[t] = tab[t]
      BY <1>0, <2>3 DEF AddRow
    <3>5. call[c].t \in Tabs => tab[call[c].t] = Nil
      BY <1>0, <3>1 DEF SInv, Fresh
    <3> QED BY <3>1, <3>3, <3>4, <3>5
  <2>4. CASE Restore(c)
    <3>1. CASE UNCHANGED daemon
      BY <1>7, <2>4, <3>1 DEF Restore
    <3>2. CASE CanRestore(c) /\ Spawn(call[c].t)
      <4>1. /\ tab' = tab /\ dir[call[c].w] /\ call[c].pc = "restore"
            /\ shell' = [shell EXCEPT ![call[c].t] = "live"]
        BY <2>4, <3>2 DEF Restore, CanRestore, Spawn, At
      <4>2. CASE call[c].t \in Tabs
        <5>1. call[c].w \in Trees /\ tab[call[c].t] = call[c].w
          BY <1>0, <4>1, <4>2 DEF Known
        <5>2. call[c].op \in {"unarchive", "open", "restart", "reconcile"}
          BY <1>0, <4>1, StepOps
        <5>3. r.op \notin {"close", "reap", "reconcile"}
          <6>1. CASE call[c].op = "reconcile"
            BY <1>0, <1>5, <6>1 DEF Operations
          <6>2. CASE call[c].op # "reconcile"
            <7>1. call[c].op \in Ops
              BY <1>0, <5>2, <6>2 DEF Asked, Operations
            <7>2. "close" \notin Ops /\ "reap" \notin Ops
              BY <5>2, <6>2, <7>1 DEF KeptApart
            <7>3. r.op # "reconcile"
              BY <1>2, <4>1, <1>0 DEF SInv, Alone
            <7> QED BY <1>0, <1>4, <7>2, <7>3 DEF Operations
          <6> QED BY <6>1, <6>2
        <5>4. \A t \in Tabs : t # call[c].t => shell'[t] = shell[t]
          BY <1>0, <4>1 DEF TypeOK
        <5> QED BY <4>1, <5>1, <5>3, <5>4
      <4>3. CASE call[c].t \notin Tabs
        <5>1. shell' = shell
          BY <1>0, <4>1, <4>3 DEF TypeOK
        <5> QED BY <1>7, <4>1, <5>1
      <4> QED BY <4>2, <4>3
    <3> QED BY <2>4, <3>1, <3>2 DEF Restore
  <2>5. CASE Drop(c)
    <3>1. /\ shell' = shell /\ tab' = [tab EXCEPT ![call[c].t] = Nil]
          /\ call[c].pc = "drop"
      BY <2>5 DEF Drop, At
    <3>2. call[c].op \in {"close", "remove", "reap", "reconcile"}
      BY <1>0, <3>1, StepOps
    <3>3. r.op # "reconcile"
      BY <1>2, <3>1, <1>0 DEF SInv, Alone
    <3>4. ASSUME r.op \in Restorers, call[c].t \in Tabs, tab[call[c].t] \in Trees
          PROVE  ~dir[tab[call[c].t]]
      <4>1. r.op \in Ops /\ call[c].op # "reconcile" /\ r.op # Nil
        BY <1>0, <1>4, <1>5, <3>4 DEF Restorers, Operations
      <4>2. call[c].op \in Ops
        BY <1>0, <3>2, <4>1 DEF Asked, Operations
      <4>3. call[c].op = "remove"
        BY <3>2, <3>4, <4>1, <4>2 DEF KeptApart, Restorers
      <4> QED BY <1>0, <3>4, <4>3 DEF Known
    <3>5. \A t \in Tabs : tab'[t] = IF t = call[c].t THEN Nil ELSE tab[t]
      BY <1>0, <3>1
    <3> QED BY <3>1, <3>3, <3>4, <3>5
  <2>6. CASE RemoveRow(c)
    <3>1. /\ shell' = shell /\ call[c].pc = "row"
          /\ tab' = [t \in Tabs |-> IF tab[t] = call[c].w THEN Nil ELSE tab[t]]
      BY <2>6 DEF RemoveRow, At
    <3>2. call[c].op = "remove"
      BY <1>0, <3>1 DEF Runs, Requests, Operations
    <3>3. r.op # "reconcile"
      BY <1>2, <3>1, <1>0 DEF SInv, Alone
    <3>4. ~dir[call[c].w]
      BY <1>0, <3>2 DEF Known
    <3> QED BY <3>1, <3>3, <3>4
  <2>7. CASE Kill(c)
    BY <1>0, <1>7, <2>7 DEF Kill, Hangup, TypeOK
  <2>8. ASSUME NEW t \in Tabs, SuspendTab(c, t) PROVE Rowed /\ Started
    BY <1>0, <1>7, <2>8 DEF SuspendTab, Suspend, TypeOK
  <2>9. CASE Shutdown(c)
    BY <1>7, <2>9 DEF Shutdown
  <2>10. CASE \/ List(c) \/ Rows(c) \/ Wait(c) \/ Alive(c) \/ HasSaved(c) \/ LoopEnd(c)
              \/ SetStatus(c) \/ \E t \in Tabs : PickTab(c, t)
    <3>1. tab' = tab /\ shell' = shell
      BY <2>10 DEF List, Rows, Wait, Alive, HasSaved, LoopEnd, SetStatus, PickTab
    <3> QED BY <1>7, <3>1
  <2> QED BY <2>1, <2>2, <2>3, <2>4, <2>5, <2>6, <2>7, <2>8, <2>9, <2>10 DEF Progress
<1>9. Known(r)'
  <2> HIDE DEF store, daemon
  <2> QED BY <1>0, <1>3, <1>6, <1>8, KnownKept
<1> QED BY <1>1, <1>2, <1>3, <1>9 DEF Known, Asked

\* A request that begins knows what it has read.
LEMMA BeginnersKnow ==
  ASSUME SInv, TypeOK', NEW c \in Calls, Request(c) \/ Reconcile(c)
  PROVE  (Asked(call[c]) /\ Known(call[c]))'
<1> USE DEF store, daemon
<1>0. /\ TypeOK /\ call \in [Calls -> Requests] /\ tab \in [Tabs -> Trees \cup {Nil}]
      /\ Nil \notin Tabs /\ Nil \notin Trees /\ Nil \notin Operations
  BY TerminalsAssumption DEF SInv, IInv, TypeOK, Requests
<1>1. ASSUME NEW r \in Requests, call' = [call EXCEPT ![c] = r], Asked(r), Known(r)'
      PROVE  (Asked(call[c]) /\ Known(call[c]))'
  <2>1. call'[c] = r
    BY <1>0, <1>1
  <2> QED BY <1>1, <2>1 DEF Asked, Known
<1>2. ASSUME NEW w \in Trees, NEW t \in Tabs, Create(c, w, t)
      PROVE  (Asked(call[c]) /\ Known(call[c]))'
  <2>1. PICK r \in Requests : r = OnTab("create", "addrow", w, t)
    BY NewRequestTypes DEF Operations, CallStates
  <2>2. r.op = "create" /\ r.pc = "addrow" /\ r.w = w
    BY <2>1 DEF OnTab, IdleCall
  <2>3. Asked(r) /\ Known(r)'
    BY <1>2, <2>2 DEF Asked, Known, Create, Begin
  <2> QED BY <1>1, <1>2, <2>1, <2>3 DEF Create, Begin
<1>3. ASSUME NEW t \in Tabs, Close(c, t) \/ Open(c, t)
      PROVE  (Asked(call[c]) /\ Known(call[c]))'
  <2>1. tab[t] \in Trees /\ tab' = tab
    BY <1>0, <1>3 DEF Close, Open
  <2>2. CASE Close(c, t)
    <3>1. PICK r \in Requests : r = OnTab("close", "kill", tab[t], t)
      BY <2>1, NewRequestTypes DEF Operations, CallStates
    <3>2. r.op = "close" /\ r.pc = "kill"
      BY <3>1 DEF OnTab, IdleCall
    <3>3. Asked(r) /\ Known(r)'
      BY <2>2, <3>2 DEF Asked, Known, Close, Begin
    <3> QED BY <1>1, <2>2, <3>1, <3>3 DEF Close, Begin
  <2>3. CASE Open(c, t)
    <3>1. PICK r \in Requests : r = OnTab("open", "alive", tab[t], t)
      BY <2>1, NewRequestTypes DEF Operations, CallStates
    <3>2. r.op = "open" /\ r.pc = "alive" /\ r.w = tab[t] /\ r.t = t
      BY <3>1 DEF OnTab, IdleCall
    <3>3. Asked(r) /\ Known(r)'
      BY <2>1, <2>3, <3>2 DEF Asked, Known, Open, Begin
    <3> QED BY <1>1, <2>3, <3>1, <3>3 DEF Open, Begin
  <2> QED BY <1>3, <2>2, <2>3
<1>4. ASSUME NEW w \in Trees, Archive(c, w) \/ Unarchive(c, w) \/ Remove(c, w)
      PROVE  (Asked(call[c]) /\ Known(call[c]))'
  <2>1. PICK op \in {"archive", "unarchive", "remove"} :
          /\ op \in Ops /\ call' = [call EXCEPT ![c] = OnTree(op, w)]
          /\ op = "remove" => dir' = [dir EXCEPT ![w] = FALSE]
    BY <1>4 DEF Archive, Unarchive, Remove, Begin
  <2>2. OnTree(op, w) \in Requests
    BY DEF OnTree, IdleCall, Requests, Operations, CallStates
  <2>3. PICK r \in Requests : r = OnTree(op, w)
    BY <2>2
  <2>4. r.op = op /\ r.pc = "list" /\ r.w = w /\ r.t = Nil /\ r.todo = {}
    BY <2>3 DEF OnTree, IdleCall
  <2>5. op = "remove" => ~dir'[w]
    BY <1>0, <2>1 DEF TypeOK
  <2>6. Asked(r) /\ Known(r)'
    BY <1>0, <2>1, <2>4, <2>5 DEF Asked, Known
  <2> QED BY <1>1, <2>1, <2>3, <2>6
<1>5. CASE Restart(c) \/ Prune(c) \/ Reconcile(c)
  <2>1. PICK op \in {"restart", "prune", "reconcile"}, pc \in {"shutdown", "rows"} :
          /\ op \in Ops \cup {"reconcile"} /\ (op = "reconcile" => pc = "rows")
          /\ call' = [call EXCEPT ![c] = OnSessions(op, pc)]
    BY <1>5 DEF Restart, Prune, Reconcile, Begin
  <2>2. OnSessions(op, pc) \in Requests
    BY DEF OnSessions, IdleCall, Requests, Operations, CallStates
  <2>3. PICK r \in Requests : r = OnSessions(op, pc)
    BY <2>2
  <2>4. r.op = op /\ r.pc = pc
    BY <2>3 DEF OnSessions, IdleCall
  <2>5. Asked(r) /\ Known(r)'
    BY <2>1, <2>4 DEF Asked, Known
  <2> QED BY <1>1, <2>1, <2>3, <2>5
<1>6. CASE Reap(c)
  <2>1. PICK idle \in SUBSET Tabs :
          call' = [call EXCEPT ![c] =
                     [IdleCall EXCEPT !.op = "reap", !.pc = "loop", !.todo = idle]]
    BY <1>6 DEF Reap, Begin
  <2>2. [IdleCall EXCEPT !.op = "reap", !.pc = "loop", !.todo = idle] \in Requests
    BY DEF IdleCall, Requests, Operations, CallStates
  <2>3. PICK r \in Requests :
          r = [IdleCall EXCEPT !.op = "reap", !.pc = "loop", !.todo = idle]
    BY <2>2
  <2>4. r.op = "reap" /\ r.pc = "loop" /\ "reap" \in Ops
    BY <1>6, <2>3 DEF IdleCall, Reap, Begin
  <2>5. Asked(r) /\ Known(r)'
    BY <2>4 DEF Asked, Known
  <2> QED BY <1>1, <2>1, <2>3, <2>5
<1> QED BY <1>2, <1>3, <1>4, <1>5, <1>6 DEF Request

\* A request that goes on knows what it has done and read.
LEMMA ProgressKnows ==
  ASSUME SInv, TypeOK', NEW c \in Calls, Progress(c)
  PROVE  (Asked(call[c]) /\ Known(call[c]))'
<1> USE DEF store, daemon
<1>0. /\ TypeOK /\ call \in [Calls -> Requests] /\ tab \in [Tabs -> Trees \cup {Nil}]
      /\ call[c] \in Requests /\ Runs(call[c]) /\ Asked(call[c]) /\ Known(call[c])
      /\ Nil \notin Tabs /\ Nil \notin Trees /\ Nil \notin Operations
      /\ call[c].t \in Tabs \cup {Nil} /\ call[c].todo \in SUBSET Tabs
  BY TerminalsAssumption DEF SInv, IInv, TypeOK, Requests, AllRun
<1>1. ASSUME NEW r \in Requests, call' = [call EXCEPT ![c] = r], Asked(r), Known(r)'
      PROVE  (Asked(call[c]) /\ Known(call[c]))'
  <2>1. call'[c] = r
    BY <1>0, <1>1
  <2> QED BY <1>1, <2>1 DEF Asked, Known
<1>a. ASSUME NEW r \in Requests, r.op = call[c].op, r.w = call[c].w PROVE Asked(r)
  BY <1>0, <1>a DEF Asked
<1>2. CASE Finish(c)
  <2>1. PICK r \in Requests : r = IdleCall
    BY RequestTypes
  <2>2. Asked(r) /\ Known(r)'
    BY <2>1, TerminalsAssumption DEF Asked, Known, IdleCall, Operations
  <2> QED BY <1>1, <1>2, <2>1, <2>2 DEF Finish
<1>3. ASSUME NEW pc \in CallStates, Goto(c, pc)
      PROVE  \E r \in Requests :
               /\ call' = [call EXCEPT ![c] = r] /\ Asked(r)
               /\ r.op = call[c].op /\ r.pc = pc /\ r.w = call[c].w
               /\ r.t = call[c].t /\ r.todo = call[c].todo
  <2>1. PICK r \in Requests : r = [call[c] EXCEPT !.pc = pc]
    BY <1>0, RequestTypes
  <2>2. /\ r.op = call[c].op /\ r.pc = pc /\ r.w = call[c].w
        /\ r.t = call[c].t /\ r.todo = call[c].todo
    BY <1>0, <2>1 DEF Requests
  <2> QED BY <1>3, <1>a, <2>1, <2>2 DEF Goto
<1>4. ASSUME Next1(c)
      PROVE  \E r \in Requests :
               /\ call' = [call EXCEPT ![c] = r] /\ Asked(r)
               /\ r.op = call[c].op /\ r.pc = "loop" /\ r.w = call[c].w
               /\ r.t = Nil /\ r.todo = call[c].todo
  <2>1. PICK r \in Requests : r = [call[c] EXCEPT !.pc = "loop", !.t = Nil]
    BY <1>0, RequestTypes DEF CallStates
  <2>2. /\ r.op = call[c].op /\ r.pc = "loop" /\ r.w = call[c].w
        /\ r.t = Nil /\ r.todo = call[c].todo
    BY <1>0, <2>1 DEF Requests
  <2> QED BY <1>4, <1>a, <2>1, <2>2 DEF Next1
<1>5. CASE AddRow(c)
  <2>1. call[c].op = "create"
    BY <1>0, <1>5, StepOps DEF AddRow, At
  <2>2. CASE Goto(c, "kill")
    <3>1. PICK r \in Requests :
            /\ call' = [call EXCEPT ![c] = r] /\ Asked(r)
            /\ r.op = call[c].op /\ r.pc = "kill" /\ r.w = call[c].w
            /\ r.t = call[c].t /\ r.todo = call[c].todo
      BY <1>3, <2>2 DEF CallStates
    <3>2. Known(r)'
      BY <2>1, <3>1 DEF Known
    <3> QED BY <1>1, <3>1, <3>2
  <2> QED BY <1>2, <1>5, <2>2 DEF AddRow
<1>6. CASE List(c)
  <2>1. /\ call[c].pc = "list" /\ call[c].t = Nil
        /\ UNCHANGED <<tab, shell, dir>>
    BY <1>0, <1>6 DEF List, At, Runs
  <2>2. RowsOf(call[c].w) \in SUBSET Tabs
    BY DEF RowsOf
  <2>3. PICK r \in Requests :
          r = [call[c] EXCEPT !.pc = "loop", !.todo = RowsOf(call[c].w)]
    BY <1>0, <2>2, RequestTypes DEF CallStates
  <2>4. /\ r.op = call[c].op /\ r.pc = "loop" /\ r.w = call[c].w /\ r.t = Nil
        /\ r.todo = {t \in Tabs : tab[t] = r.w}
    BY <1>0, <2>1, <2>3 DEF Requests, RowsOf
  <2>5. call[c].op # "reconcile"
    BY <1>0, <2>1 DEF Runs
  <2>6. r.op = "remove" => ~dir[r.w]
    BY <1>0, <2>4 DEF Known
  <2>7. Known(r)'
    BY <1>0, <2>1, <2>4, <2>5, <2>6 DEF Known
  <2> QED BY <1>1, <1>6, <1>a, <2>3, <2>4, <2>7 DEF List
<1>7. CASE Rows(c)
  <2>1. PICK todo \in SUBSET Tabs :
          /\ call' = [call EXCEPT ![c] = [call[c] EXCEPT !.pc = "loop", !.todo = todo]]
          /\ call[c].op = "reconcile" => \A t \in todo : tab[t] # Nil
    <3> DEFINE known == {t \in Tabs : tab[t] # Nil}
               spared == known \cup {t \in Tabs : Young(t)}
    <3>1. CASE call[c].op = "reconcile"
      <4>1. known \ call[c].todo \in SUBSET Tabs
        OBVIOUS
      <4> QED BY <1>7, <3>1, <4>1 DEF Rows
    <3>2. CASE call[c].op # "reconcile"
      <4>1. call[c].todo \ spared \in SUBSET Tabs
        BY <1>0
      <4> QED BY <1>7, <3>2, <4>1 DEF Rows
    <3> QED BY <3>1, <3>2
  <2>2. call[c].t = Nil /\ call[c].op \in {"prune", "reconcile"} /\ tab' = tab
    BY <1>0, <1>7 DEF Rows, At, Runs, Requests, Operations
  <2>3. PICK r \in Requests : r = [call[c] EXCEPT !.pc = "loop", !.todo = todo]
    BY <1>0, RequestTypes DEF CallStates
  <2>4. /\ r.op = call[c].op /\ r.pc = "loop" /\ r.w = call[c].w /\ r.t = Nil
        /\ r.todo = todo
    BY <1>0, <2>2, <2>3 DEF Requests
  <2>5. Known(r)'
    BY <1>0, <2>1, <2>2, <2>4 DEF Known
  <2> QED BY <1>1, <1>a, <2>1, <2>3, <2>4, <2>5
<1>8. CASE Shutdown(c) \/ Wait(c)
  <2>1. call[c].op = "restart"
    BY <1>0, <1>8, StepOps DEF Shutdown, Wait, At
  <2>2. ASSUME NEW pc \in {"wait", "loop"}, Goto(c, pc)
        PROVE  (Asked(call[c]) /\ Known(call[c]))'
    <3>1. PICK r \in Requests :
            call' = [call EXCEPT ![c] = r] /\ Asked(r) /\ r.op = call[c].op /\ r.pc = pc
      BY <1>3, <2>2 DEF CallStates
    <3>2. Known(r)'
      BY <2>1, <3>1 DEF Known
    <3> QED BY <1>1, <3>1, <3>2
  <2>3. Goto(c, "wait") \/ Goto(c, "loop") \/ Finish(c)
    BY <1>8 DEF Shutdown, Wait
  <2> QED BY <1>2, <2>2, <2>3
<1>9. CASE Alive(c) \/ HasSaved(c)
  <2>1. /\ call[c].op = "open" /\ call[c].pc \in {"alive", "saved"}
        /\ UNCHANGED <<tab, dir>>
    BY <1>0, <1>9, StepOps DEF Alive, HasSaved, At
  <2>2. ASSUME NEW pc \in {"saved", "restore"}, Goto(c, pc)
        PROVE  (Asked(call[c]) /\ Known(call[c]))'
    <3>1. PICK r \in Requests :
            /\ call' = [call EXCEPT ![c] = r] /\ Asked(r) /\ r.op = call[c].op /\ r.pc = pc
            /\ r.w = call[c].w /\ r.t = call[c].t
      BY <1>3, <2>2 DEF CallStates
    <3>2. Known(r)'
      BY <1>0, <2>1, <3>1 DEF Known
    <3> QED BY <1>1, <3>1, <3>2
  <2> QED BY <1>2, <1>9, <2>2 DEF Alive, HasSaved
<1>10. CASE Restore(c)
  <2>1. /\ call[c].op \in {"unarchive", "open", "restart", "reconcile"}
        /\ call[c].pc = "restore" /\ UNCHANGED <<tab, dir>>
    BY <1>0, <1>10, StepOps DEF Restore, At
  <2>2. CASE Goto(c, "status") /\ call[c].op = "unarchive"
    <3>1. PICK r \in Requests :
            /\ call' = [call EXCEPT ![c] = r] /\ Asked(r)
            /\ r.op = call[c].op /\ r.pc = "status" /\ r.w = call[c].w
            /\ r.t = call[c].t /\ r.todo = call[c].todo
      BY <1>3, <2>2 DEF CallStates
    <3>2. Known(r)'
      BY <1>0, <2>1, <2>2, <3>1 DEF Known
    <3> QED BY <1>1, <3>1, <3>2
  <2>3. CASE Goto(c, "kill") /\ call[c].op = "reconcile"
    <3>1. PICK r \in Requests :
            /\ call' = [call EXCEPT ![c] = r] /\ Asked(r)
            /\ r.op = call[c].op /\ r.pc = "kill" /\ r.w = call[c].w
            /\ r.t = call[c].t /\ r.todo = call[c].todo
      BY <1>3, <2>3 DEF CallStates
    <3>2. Known(r)'
      BY <1>0, <2>1, <2>3, <3>1 DEF Known
    <3> QED BY <1>1, <3>1, <3>2
  <2>4. CASE Next1(c)
    <3>1. PICK r \in Requests :
            /\ call' = [call EXCEPT ![c] = r] /\ Asked(r)
            /\ r.op = call[c].op /\ r.pc = "loop" /\ r.w = call[c].w
            /\ r.t = Nil /\ r.todo = call[c].todo
      BY <1>4, <2>4
    <3>2. Known(r)'
      BY <1>0, <2>1, <3>1 DEF Known
    <3> QED BY <1>1, <3>1, <3>2
  <2> QED BY <1>2, <1>10, <2>1, <2>2, <2>3, <2>4 DEF Restore, RestoreFailed
<1>11. CASE Kill(c)
  <2>1. /\ call[c].pc = "kill" /\ UNCHANGED <<tab, dir>> /\ Hangup(call[c].t)
    BY <1>11 DEF Kill, At
  <2>2. \A t \in Tabs : shell'[t] = "live" => shell[t] = "live" /\ t # call[c].t
    BY <1>0, <2>1 DEF Hangup, Listed, TypeOK
  <2>3. CASE Goto(c, "drop") /\ call[c].op \notin {"create", "prune", "restart"}
    <3>1. call[c].op \in {"close", "remove", "reap", "reconcile"}
      BY <1>0, <2>1, <2>3, StepOps
    <3>2. PICK r \in Requests :
            /\ call' = [call EXCEPT ![c] = r] /\ Asked(r)
            /\ r.op = call[c].op /\ r.pc = "drop" /\ r.w = call[c].w
            /\ r.t = call[c].t /\ r.todo = call[c].todo
      BY <1>3, <2>3 DEF CallStates
    <3>3. Known(r)'
      BY <1>0, <2>1, <2>2, <3>1, <3>2 DEF Known
    <3> QED BY <1>1, <3>2, <3>3
  <2>4. CASE Next1(c) /\ call[c].op \in {"prune", "restart"}
    <3>1. PICK r \in Requests :
            /\ call' = [call EXCEPT ![c] = r] /\ Asked(r)
            /\ r.op = call[c].op /\ r.pc = "loop" /\ r.w = call[c].w
            /\ r.t = Nil /\ r.todo = call[c].todo
      BY <1>4, <2>4
    <3>2. Known(r)'
      BY <2>4, <3>1 DEF Known
    <3> QED BY <1>1, <3>1, <3>2
  <2> QED BY <1>2, <1>11, <2>3, <2>4 DEF Kill
<1>12. CASE Drop(c)
  <2>1. /\ call[c].pc = "drop" /\ UNCHANGED <<shell, dir>>
        /\ \A t \in Tabs : tab'[t] = IF t = call[c].t THEN Nil ELSE tab[t]
    BY <1>0, <1>12 DEF Drop, At
  <2>2. CASE Next1(c) /\ call[c].op # "close"
    <3>1. call[c].op \in {"remove", "reap", "reconcile"}
      BY <1>0, <2>1, <2>2, StepOps
    <3>2. PICK r \in Requests :
            /\ call' = [call EXCEPT ![c] = r] /\ Asked(r)
            /\ r.op = call[c].op /\ r.pc = "loop" /\ r.w = call[c].w
            /\ r.t = Nil /\ r.todo = call[c].todo
      BY <1>4, <2>2
    <3>3. Known(r)'
      BY <1>0, <2>1, <3>1, <3>2 DEF Known
    <3> QED BY <1>1, <3>2, <3>3
  <2> QED BY <1>2, <1>12, <2>2 DEF Drop
<1>13. ASSUME NEW t \in Tabs, SuspendTab(c, t) PROVE (Asked(call[c]) /\ Known(call[c]))'
  <2>1. call[c].op = "archive" /\ call[c].pc = "loop"
    BY <1>13 DEF SuspendTab, At
  <2>2. CASE Goto(c, "status")
    <3>1. PICK r \in Requests :
            /\ call' = [call EXCEPT ![c] = r] /\ Asked(r)
            /\ r.op = call[c].op /\ r.pc = "status" /\ r.w = call[c].w
            /\ r.t = call[c].t /\ r.todo = call[c].todo
      BY <1>3, <2>2 DEF CallStates
    <3>2. Known(r)'
      BY <2>1, <3>1 DEF Known
    <3> QED BY <1>1, <3>1, <3>2
  <2>3. CASE call' = [call EXCEPT ![c] = [call[c] EXCEPT !.todo = @ \ {t}]]
    <3>1. PICK r \in Requests : r = [call[c] EXCEPT !.todo = @ \ {t}]
      BY <1>0, LoopTypes
    <3>2. r.op = call[c].op /\ r.w = call[c].w /\ r.pc = "loop"
      BY <1>0, <2>1, <3>1 DEF Requests
    <3>3. Known(r)'
      BY <2>1, <3>2 DEF Known
    <3>4. call' = [call EXCEPT ![c] = r]
      BY <2>3, <3>1
    <3> QED BY <1>1, <1>a, <3>2, <3>3, <3>4
  <2> QED BY <1>13, <2>2, <2>3 DEF SuspendTab
<1>14. ASSUME NEW t \in Tabs, PickTab(c, t) PROVE (Asked(call[c]) /\ Known(call[c]))'
  <2>1. /\ call[c].pc = "loop" /\ t \in call[c].todo /\ UNCHANGED <<tab, shell, dir>>
        /\ call[c].t = Nil
        /\ call[c].op \in {"unarchive", "remove", "restart", "prune", "reap", "reconcile"}
    BY <1>0, <1>14, StepOps DEF PickTab, At, Runs
  <2>2. CASE Skip(c, t)
    <3>1. PICK r \in Requests : r = [call[c] EXCEPT !.todo = @ \ {t}]
      BY <1>0, LoopTypes
    <3>2. /\ r.op = call[c].op /\ r.w = call[c].w /\ r.pc = "loop" /\ r.t = Nil
          /\ r.todo = call[c].todo \ {t}
      BY <1>0, <2>1, <3>1 DEF Requests
    <3>3. call[c].op # "remove"
      BY <2>2 DEF Skip
    <3>4. Known(r)'
      BY <1>0, <2>1, <3>2, <3>3 DEF Known
    <3>5. call' = [call EXCEPT ![c] = r]
      BY <1>14, <2>2, <3>1 DEF PickTab
    <3> QED BY <1>1, <1>a, <3>2, <3>4, <3>5
  <2>3. CASE ~Skip(c, t)
    <3>1. PICK w \in Trees \cup {Nil} :
            /\ call' = [call EXCEPT ![c] =
                 [call[c] EXCEPT !.todo = @ \ {t}, !.pc = Work(c, t), !.t = t, !.w = w]]
            /\ w = IF call[c].op \in {"restart", "reconcile"} THEN tab[t] ELSE call[c].w
      <4>1. tab[t] \in Trees \cup {Nil} /\ call[c].w \in Trees \cup {Nil}
        BY <1>0 DEF Requests
      <4> QED BY <1>14, <2>3, <4>1 DEF PickTab
    <3>2. /\ Work(c, t) \in {"restore", "kill"}
          /\ Work(c, t) = "restore" => \/ call[c].op \in {"unarchive", "reconcile"}
                                       \/ call[c].op = "restart" /\ tab[t] # Nil
      BY <2>1 DEF Work
    <3>3. PICK r \in Requests :
            r = [call[c] EXCEPT !.todo = @ \ {t}, !.pc = Work(c, t), !.t = t, !.w = w]
      BY <1>0, <3>2, LoopTypes DEF CallStates
    <3>4. /\ r.op = call[c].op /\ r.pc = Work(c, t) /\ r.t = t /\ r.w = w
          /\ r.todo = call[c].todo \ {t}
      BY <1>0, <3>3 DEF Requests
    <3>5. Asked(r)
      BY <1>0, <3>1, <3>4 DEF Asked
    <3>6. ASSUME r.pc = "restore" PROVE r.w \in Trees /\ (tab[t] = r.w \/ ~dir[r.w])
      BY <1>0, <2>1, <3>1, <3>2, <3>4, <3>6 DEF Known, Asked
    <3>7. r.op = "unarchive" => \A u \in r.todo : tab[u] = r.w \/ ~dir[r.w]
      BY <1>0, <3>1, <3>4 DEF Known
    <3>8. r.op = "reconcile" => r.t \notin r.todo /\ \A u \in r.todo : tab[u] # Nil
      BY <1>0, <2>1, <3>4 DEF Known
    <3>9. ASSUME r.op = "remove"
          PROVE  /\ ~dir[r.w]
                 /\ \A u \in Tabs : u \in r.todo \/ u = t => tab[u] \in {r.w, Nil}
                 /\ \A u \in Tabs : shell[u] = "live" /\ tab[u] = r.w =>
                                      u \in r.todo \/ u = t
                 /\ r.pc = "kill"
      <4>1. r.w = call[c].w
        BY <3>1, <3>4, <3>9
      <4> QED BY <1>0, <2>1, <3>2, <3>4, <3>9, <4>1 DEF Known
    <3>10. Known(r)'
      BY <1>0, <2>1, <3>2, <3>4, <3>6, <3>7, <3>8, <3>9 DEF Known
    <3>11. call' = [call EXCEPT ![c] = r]
      BY <3>1, <3>3
    <3> QED BY <1>1, <3>5, <3>10, <3>11
  <2> QED BY <2>2, <2>3
<1>15. CASE LoopEnd(c)
  <2>1. /\ call[c].pc = "loop" /\ call[c].todo = {} /\ UNCHANGED <<tab, shell, dir>>
    BY <1>15 DEF LoopEnd, At
  <2>2. CASE Goto(c, "status") /\ call[c].op \in {"archive", "unarchive"}
    <3>1. PICK r \in Requests :
            /\ call' = [call EXCEPT ![c] = r] /\ Asked(r)
            /\ r.op = call[c].op /\ r.pc = "status" /\ r.w = call[c].w
            /\ r.t = call[c].t /\ r.todo = call[c].todo
      BY <1>3, <2>2 DEF CallStates
    <3>2. Known(r)'
      BY <2>1, <2>2, <3>1 DEF Known
    <3> QED BY <1>1, <3>1, <3>2
  <2>3. CASE Goto(c, "row") /\ call[c].op = "remove"
    <3>1. PICK r \in Requests :
            /\ call' = [call EXCEPT ![c] = r] /\ Asked(r)
            /\ r.op = call[c].op /\ r.pc = "row" /\ r.w = call[c].w
            /\ r.t = call[c].t /\ r.todo = call[c].todo
      BY <1>3, <2>3 DEF CallStates
    <3>2. Known(r)'
      BY <1>0, <2>1, <2>3, <3>1 DEF Known
    <3> QED BY <1>1, <3>1, <3>2
  <2> QED BY <1>2, <1>15, <2>2, <2>3 DEF LoopEnd
<1>16. CASE SetStatus(c) \/ RemoveRow(c)
  BY <1>2, <1>16 DEF SetStatus, RemoveRow
<1> QED BY <1>5, <1>6, <1>7, <1>8, <1>9, <1>10, <1>11, <1>12, <1>13, <1>14, <1>15, <1>16
        DEF Progress

\* A step of a request leaves no live shell without a row, nor a new one.
LEMMA StepReached ==
  ASSUME SInv, NEW c \in Calls, Request(c) \/ Reconcile(c) \/ Progress(c)
  PROVE  Reached'
<1> USE DEF store, daemon
<1>0. /\ TypeOK /\ call \in [Calls -> Requests] /\ tab \in [Tabs -> Trees \cup {Nil}]
      /\ call[c] \in Requests /\ Runs(call[c]) /\ Asked(call[c]) /\ Known(call[c])
      /\ Nil \notin Tabs /\ Nil \notin Trees /\ Nil \notin Operations /\ Nil # "create"
      /\ call[c].t \in Tabs \cup {Nil} /\ call[c].op \in Operations \cup {Nil}
  BY TerminalsAssumption DEF SInv, IInv, TypeOK, Requests, AllRun, Operations
<1>1. \A d \in Calls : d # c => call'[d] = call[d]
  BY <1>0, OneStep DEF SInv
<1>2. ASSUME call[c].op # "create", NEW t \in Tabs,
             shell'[t] = "live" => shell[t] = "live",
             tab'[t] = tab[t] \/ shell[t] # "live"
      PROVE  shell'[t] = "live" =>
               tab'[t] # Nil \/ \E d \in Calls : call'[d].op = "create" /\ call'[d].t = t
  BY <1>1, <1>2 DEF SInv, Reached
<1>3. ASSUME NEW w \in Trees, NEW t \in Tabs, Create(c, w, t) PROVE Reached'
  <2>1. /\ shell' = [shell EXCEPT ![t] = "live"] /\ tab' = tab
        /\ call' = [call EXCEPT ![c] = OnTab("create", "addrow", w, t)]
        /\ call[c].pc = "idle"
    BY <1>3 DEF Create, Begin, Spawn
  <2>2. call[c].op = Nil
    BY <1>0, <2>1, IdleKnows
  <2>3. call'[c].op = "create" /\ call'[c].t = t
    <3>1. /\ OnTab("create", "addrow", w, t).op = "create"
          /\ OnTab("create", "addrow", w, t).t = t
      BY DEF OnTab, IdleCall
    <3> QED BY <1>0, <2>1, <3>1
  <2>4. \A u \in Tabs : u # t => shell'[u] = shell[u]
    BY <1>0, <2>1 DEF TypeOK
  <2>5. ASSUME NEW u \in Tabs, shell'[u] = "live"
        PROVE  tab'[u] # Nil \/ \E d \in Calls : call'[d].op = "create" /\ call'[d].t = u
    <3>1. CASE u = t
      BY <2>3, <3>1
    <3>2. CASE u # t
      BY <1>0, <1>2, <2>1, <2>2, <2>4, <2>5, <3>2
    <3> QED BY <3>1, <3>2
  <2> QED BY <2>5 DEF Reached
<1>4. CASE AddRow(c)
  <2>1. call[c].op = "create" /\ shell' = shell /\ call[c].w \in Trees
    BY <1>0, <1>4, StepOps DEF AddRow, At, Asked
  <2>2. CASE Goto(c, "kill") /\ tab' = tab
    <3>1. /\ [call[c] EXCEPT !.pc = "kill"].op = call[c].op
          /\ [call[c] EXCEPT !.pc = "kill"].t = call[c].t
      BY <1>0 DEF Requests
    <3>2. \A d \in Calls : call'[d].op = call[d].op /\ call'[d].t = call[d].t
      BY <1>0, <1>1, <2>2, <3>1 DEF Goto
    <3> QED BY <2>1, <2>2, <3>2 DEF SInv, Reached
  <2>3. CASE tab' = [tab EXCEPT ![call[c].t] = call[c].w]
    <3>1. \A t \in Tabs : tab'[t] = IF t = call[c].t THEN call[c].w ELSE tab[t]
      BY <1>0, <2>3
    <3>2. ASSUME NEW t \in Tabs, shell[t] = "live", tab'[t] = Nil
          PROVE  \E d \in Calls : call'[d].op = "create" /\ call'[d].t = t
      <4>1. t # call[c].t /\ tab[t] = Nil
        BY <1>0, <2>1, <3>1, <3>2
      <4>2. PICK d \in Calls : call[d].op = "create" /\ call[d].t = t
        BY <3>2, <4>1 DEF SInv, Reached
      <4>3. call'[d] = call[d]
        BY <1>1, <4>1, <4>2
      <4> QED BY <4>2, <4>3
    <3> QED BY <2>1, <3>2 DEF Reached
  <2> QED BY <1>4, <2>2, <2>3 DEF AddRow
<1>5. CASE Kill(c)
  <2>1. /\ call[c].pc = "kill" /\ tab' = tab
        /\ \A t \in Tabs : shell'[t] = "live" => shell[t] = "live" /\ t # call[c].t
    BY <1>0, <1>5 DEF Kill, At, Hangup, Listed, TypeOK
  <2>2. ASSUME NEW t \in Tabs, shell'[t] = "live", tab'[t] = Nil
        PROVE  \E d \in Calls : call'[d].op = "create" /\ call'[d].t = t
    <3>1. PICK d \in Calls : call[d].op = "create" /\ call[d].t = t
      BY <2>1, <2>2 DEF SInv, Reached
    <3>2. call'[d] = call[d]
      BY <1>1, <2>1, <2>2, <3>1
    <3> QED BY <3>1, <3>2
  <2> QED BY <2>2 DEF Reached
<1>6. CASE Restore(c)
  <2>1. call[c].op # "create" /\ tab' = tab /\ call[c].pc = "restore"
    BY <1>0, <1>6, StepOps DEF Restore, At
  <2>2. CASE CanRestore(c) /\ Spawn(call[c].t)
    <3>1. shell' = [shell EXCEPT ![call[c].t] = "live"] /\ dir[call[c].w]
      BY <2>2 DEF CanRestore, Spawn
    <3>2. call[c].t \in Tabs => tab[call[c].t] # Nil
      BY <1>0, <2>1, <3>1 DEF Known
    <3>3. \A t \in Tabs : t # call[c].t => shell'[t] = shell[t]
      BY <1>0, <3>1 DEF TypeOK
    <3> QED BY <1>2, <2>1, <3>2, <3>3 DEF Reached
  <2>3. CASE UNCHANGED daemon
    BY <1>2, <2>1, <2>3 DEF Reached
  <2> QED BY <1>6, <2>2, <2>3 DEF Restore
<1>7. CASE Drop(c)
  <2>1. /\ shell' = shell /\ call[c].pc = "drop"
        /\ \A t \in Tabs : t # call[c].t => tab'[t] = tab[t]
    BY <1>0, <1>7 DEF Drop, At
  <2>2. call[c].op # "create" /\ (call[c].t \in Tabs => shell[call[c].t] # "live")
    BY <1>0, <2>1, StepOps DEF Known
  <2> QED BY <1>2, <2>1, <2>2 DEF Reached
<1>8. CASE RemoveRow(c)
  <2>1. /\ shell' = shell /\ call[c].pc = "row"
        /\ \A t \in Tabs : tab[t] # call[c].w => tab'[t] = tab[t]
    BY <1>0, <1>8 DEF RemoveRow, At
  <2>2. call[c].op = "remove"
    BY <1>0, <2>1 DEF Runs, Operations
  <2>3. call[c].todo = {}
    BY <1>0, <2>1 DEF Known
  <2>4. \A t \in Tabs : shell[t] = "live" => tab[t] # call[c].w
    BY <1>0, <2>1, <2>2, <2>3 DEF Known
  <2> QED BY <1>2, <2>1, <2>2, <2>4 DEF Reached
<1>9. ASSUME NEW u \in Tabs, SuspendTab(c, u) PROVE Reached'
  <2>1. /\ tab' = tab /\ call[c].op # "create"
        /\ \A t \in Tabs : shell'[t] = "live" => shell[t] = "live"
    BY <1>0, <1>9 DEF SuspendTab, Suspend, TypeOK
  <2> QED BY <1>2, <2>1 DEF Reached
<1>10. CASE Shutdown(c)
  <2>1. call[c].op # "create" /\ tab' = tab /\ \A t \in Tabs : shell'[t] # "live"
    BY <1>0, <1>10, StepOps DEF Shutdown, At
  <2> QED BY <2>1 DEF Reached
<1>11. CASE \/ (Request(c) \/ Reconcile(c)) /\ ~\E w \in Trees, t \in Tabs : Create(c, w, t)
            \/ List(c) \/ Rows(c) \/ Wait(c) \/ Alive(c) \/ HasSaved(c)
            \/ LoopEnd(c) \/ SetStatus(c) \/ \E t \in Tabs : PickTab(c, t)
  <2>1. tab' = tab /\ shell' = shell
    BY <1>11 DEF Request, Close, Open, Archive, Unarchive, Remove, Restart, Prune, Reap,
                 Reconcile, List, Rows, Wait, Alive, HasSaved, LoopEnd, SetStatus, PickTab
  <2>2. call[c].op # "create"
    <3>1. call[c].pc \notin {"addrow", "kill"}
      BY <1>11 DEF Request, Close, Open, Archive, Unarchive, Remove, Restart, Prune, Reap,
                   Reconcile, List, Rows, Wait, Alive, HasSaved, LoopEnd, SetStatus,
                   PickTab, At, Begin
    <3> QED BY <1>0, <3>1 DEF Runs
  <2> QED BY <1>2, <2>1, <2>2 DEF Reached
<1> QED BY <1>3, <1>4, <1>5, <1>6, <1>7, <1>8, <1>9, <1>10, <1>11 DEF Progress

\* The daemon's steps, and stops of the server, which end no creation: there is none
\* while the server is quiet, and none is asked for where it may be killed.
LEMMA RestKeepsSound ==
  ASSUME SInv, TypeOK', KeptApart,
         (\E t \in Tabs : TabStep(t)) \/ DaemonGone \/ ServerGone \/ UNCHANGED vars
  PROVE  Reached' /\ \A c \in Calls : (Asked(call[c]) /\ Known(call[c]))'
<1>0. /\ TypeOK /\ \A c \in Calls : call[c] \in Requests /\ Runs(call[c])
      /\ \A c \in Calls : Asked(call[c]) /\ Known(call[c])
      /\ \A c \in Calls : call[c].t # Nil => call[c].t \in made
      /\ Nil # "create"
  BY TerminalsAssumption DEF SInv, IInv, Holds, TypeOK, Requests, AllRun, Operations
<1>1. /\ tab' = tab /\ dir' = dir
      /\ \A t \in Tabs : shell'[t] = "live" => shell[t] = "live"
  BY <1>0 DEF TabStep, Dies, Gone, Tick, DaemonGone, ServerGone, vars, store, daemon, TypeOK
<1>2. CASE UNCHANGED call
  <2>1. ASSUME NEW c \in Calls PROVE (Asked(call[c]) /\ Known(call[c]))'
    <3>1. PICK r \in Requests : r = call[c]
      BY <1>0
    <3>2. Runs(r) /\ Asked(r) /\ Known(r) /\ (r.t # Nil => r.t \in made)
      BY <1>0, <3>1
    <3>3. Known(r)'
      BY <1>0, <1>1, <3>2, KnownKept
    <3> QED BY <1>2, <3>1, <3>2, <3>3 DEF Asked, Known
  <2>2. Reached'
    BY <1>1, <1>2 DEF SInv, Reached
  <2> QED BY <2>1, <2>2
<1>3. CASE ServerGone
  <2>1. \A c \in Calls : call'[c] = IdleCall
    BY <1>3 DEF ServerGone
  <2>2. \A c \in Calls : (Asked(call[c]) /\ Known(call[c]))'
    BY <2>1, TerminalsAssumption DEF Asked, Known, IdleCall, Operations
  <2>3. \A c \in Calls : call[c].op # "create"
    <3>1. CASE "crash" \in Ops
      BY <1>0, <3>1 DEF KeptApart, Asked
    <3>2. CASE Quiet
      BY <1>0, <3>2, IdleKnows DEF Quiet
    <3> QED BY <1>3, <3>1, <3>2 DEF ServerGone
  <2>4. Reached'
    BY <1>1, <2>3 DEF SInv, Reached
  <2> QED BY <2>2, <2>4
<1> QED BY <1>2, <1>3 DEF TabStep, Dies, Gone, Tick, DaemonGone, vars

\* All of it is an invariant.
LEMMA SoundInductive ==
  ASSUME KeptApart
  PROVE  /\ Init => SInv
         /\ SInv /\ [Next]_vars => SInv'
<1>1. ASSUME Init PROVE SInv
  <2>1. IInv
    BY <1>1, Inductive
  <2>2. AllRun /\ Fresh /\ Alone
    <3>1. Runs(IdleCall) /\ IdleCall.op = Nil /\ Nil \notin {"create", "reconcile"}
      BY TerminalsAssumption DEF Runs, IdleCall, Operations
    <3> QED BY <1>1, <3>1 DEF Init, AllRun, Fresh, Alone
  <2>3. Reached
    BY <1>1 DEF Init, Reached
  <2>4. \A c \in Calls : Asked(call[c]) /\ Known(call[c])
    BY <1>1, IdleKnows DEF Init
  <2> QED BY <2>1, <2>2, <2>3, <2>4 DEF SInv
<1>2. ASSUME SInv, [Next]_vars PROVE SInv'
  <2>1. IInv' /\ AllRun' /\ Fresh'
    BY <1>2, Inductive, StepRuns, StepFresh DEF SInv, IInv
  <2>2. TypeOK'
    BY <2>1 DEF IInv
  <2>3. Alone'
    BY <1>2, StepAlone
  <2>4. CASE \E c \in Calls : Request(c) \/ Reconcile(c) \/ Progress(c)
    <3>1. PICK c \in Calls : Request(c) \/ Reconcile(c) \/ Progress(c)
      BY <2>4
    <3>2. Reached'
      BY <1>2, <3>1, StepReached
    <3>3. (Asked(call[c]) /\ Known(call[c]))'
      BY <1>2, <2>2, <3>1, BeginnersKnow, ProgressKnows
    <3>4. \A d \in Calls : d # c => (Asked(call[d]) /\ Known(call[d]))'
      BY <1>2, <2>2, <3>1, OthersKnow
    <3> QED BY <2>1, <2>3, <3>2, <3>3, <3>4 DEF SInv
  <2>5. CASE (\E t \in Tabs : TabStep(t)) \/ DaemonGone \/ ServerGone \/ UNCHANGED vars
    <3>1. Reached' /\ \A c \in Calls : (Asked(call[c]) /\ Known(call[c]))'
      BY <1>2, <2>2, <2>5, RestKeepsSound
    <3> QED BY <2>1, <2>3, <3>1 DEF SInv
  <2> QED BY <1>2, <2>4, <2>5 DEF Next
<1> QED BY <1>1, <1>2

\* No live shell is left without a row by anything that closes tabs, by an archive, a
\* restart, a stop of the server or a failure, if no creation overlaps a removal or
\* a crash of the server and no restore a close or a reap (Terminals: NoStrayShell).
THEOREM StraysTakeTwo ==
  ASSUME KeptApart
  PROVE  Spec => []NoStrayShell
<1>1. SInv => NoStrayShell
  <2>1. SInv => \A c \in Calls : call[c].op = "create" => call[c].pc \in {"addrow", "kill"}
    BY DEF SInv, AllRun, Runs
  <2> QED BY <2>1 DEF SInv, Reached, NoStrayShell
<1> QED BY <1>1, SoundInductive, PTL DEF Spec
-----------------------------------------------------------------------------
(***************************************************************************)
(* Archived worktrees have no live shells.                                 *)
(***************************************************************************)

\* Nothing but Reconcile starts a shell, and no suspension fails.
NothingStarts == Ops \cap {"create", "open", "unarchive", "restart", "fails"} = {}

\* An archived worktree has no live shells.
ArchivedAtRest ==
  \A w \in Trees : tree[w] = "archived" => \A t \in RowsOf(w) : shell[t] # "live"

\* An archive has suspended what its worktree has alive or has still to suspend it;
\* Reconcile restores nothing that is archived.
Rests(r) ==
  /\ r.op = "archive" /\ r.pc # "list" =>
       \A t \in Tabs : shell[t] = "live" /\ tab[t] = r.w => t \in r.todo
  /\ r.pc = "status" => r.todo = {}
  /\ r.pc = "restore" => tree[r.w] # "archived"

RInv == SInv /\ ArchivedAtRest /\ \A c \in Calls : Rests(call[c])

\* A step that starts no shell, inserts no row and archives nothing.
Calms ==
  /\ \A t \in Tabs : /\ shell'[t] = "live" => shell[t] = "live"
                     /\ tab'[t] \in {tab[t], Nil}
  /\ \A w \in Trees : tree'[w] = "archived" => tree[w] = "archived"

\* The operations there are then.
LEMMA RestOps ==
  ASSUME NothingStarts, NEW r \in Requests, Runs(r), Asked(r)
  PROVE  /\ r.op \notin {"create", "open", "unarchive", "restart"}
         /\ r.pc = "restore" => r.op = "reconcile"
         /\ r.pc = "status" => r.op = "archive"
         /\ r.op = "archive" => r.w \in Trees
<1>1. r.op \notin {"create", "open", "unarchive", "restart"}
  BY TerminalsAssumption DEF NothingStarts, Asked, Operations
<1>2. r.op \in Operations \cup {Nil}
  BY DEF Requests
<1> QED BY <1>1, <1>2 DEF Runs, Asked, Operations

\* A calm step leaves archived worktrees at rest, and the requests that are not
\* restoring.
LEMMA CalmRests ==
  ASSUME RInv, Calms, \A t \in Tabs : tab[t] \in Trees \cup {Nil}
  PROVE  /\ ArchivedAtRest'
         /\ \A r \in Requests :
              Rests(r) /\ r.op = "archive" /\ r.pc # "list" /\ r.w \in Trees =>
                \A t \in Tabs : shell'[t] = "live" /\ tab'[t] = r.w => t \in r.todo
<1>0. Nil \notin Trees
  BY TerminalsAssumption
<1>1. ArchivedAtRest'
  <2>1. ASSUME NEW w \in Trees, tree'[w] = "archived", NEW t \in Tabs, tab'[t] = w
        PROVE  shell'[t] # "live"
    <3>1. tree[w] = "archived" /\ tab[t] = w
      BY <1>0, <2>1 DEF Calms
    <3> QED BY <3>1 DEF RInv, ArchivedAtRest, RowsOf, Calms
  <2> QED BY <2>1 DEF ArchivedAtRest, RowsOf
<1> QED BY <1>0, <1>1 DEF Calms, Rests

\* A calm step of one request.
LEMMA CalmStep ==
  ASSUME RInv, SInv', NothingStarts, Calms, NEW c \in Calls,
         Request(c) \/ Reconcile(c) \/ Progress(c), Rests(call[c])'
  PROVE  RInv'
<1>0. /\ TypeOK /\ Nil \notin Operations
      /\ \A t \in Tabs : tab[t] \in Trees \cup {Nil}
      /\ \A d \in Calls : call[d] \in Requests /\ Runs(call[d]) /\ Asked(call[d])
  BY TerminalsAssumption DEF RInv, SInv, IInv, TypeOK, Requests, AllRun
<1>1. \A d \in Calls : d # c => call'[d] = call[d]
  BY <1>0, OneStep DEF RInv, SInv
<1>2. ASSUME NEW d \in Calls, d # c PROVE Rests(call[d])'
  <2>1. PICK r \in Requests : r = call[d]
    BY <1>0
  <2>2. r.op = "reconcile" => call[c].pc = "idle" /\ server = "boot"
    BY <1>2, <2>1 DEF RInv, SInv, Alone
  <2>3. CASE r.pc = "restore"
    <3>1. r.op = "reconcile"
      BY <1>0, <2>1, <2>3, RestOps
    <3>2. Reconcile(c)
      BY <2>2, <3>1 DEF Request, Create, Close, Open, Archive, Unarchive, Remove, Restart,
         Prune, Reap, Begin, Progress, AddRow, List, Rows, Shutdown, Wait, Alive, HasSaved,
         Restore, Kill, Drop, SuspendTab, PickTab, LoopEnd, SetStatus, RemoveRow, At
    <3> QED BY <2>1, <2>3, <3>2 DEF Reconcile
  <2>4. CASE r.pc # "restore"
    <3>1. Rests(r) /\ (r.op = "archive" => r.w \in Trees)
      BY <1>0, <2>1, RestOps DEF RInv
    <3>2. r.op = "archive" /\ r.pc # "list" =>
            \A t \in Tabs : shell'[t] = "live" /\ tab'[t] = r.w => t \in r.todo
      BY <1>0, <3>1, CalmRests
    <3>3. Rests(r)'
      BY <2>4, <3>1, <3>2 DEF Rests
    <3> QED BY <1>1, <1>2, <2>1, <3>3 DEF Rests
  <2> QED BY <2>3, <2>4
<1> QED BY <1>0, <1>2, CalmRests DEF RInv

\* Requests and jobs begin with nothing to be at rest.
LEMMA BeginRests ==
  ASSUME RInv, SInv', NothingStarts, NEW c \in Calls, Request(c) \/ Reconcile(c)
  PROVE  RInv'
<1> USE DEF store, daemon
<1>0. /\ TypeOK /\ \A t \in Tabs : tab[t] \in Trees \cup {Nil}
      /\ call \in [Calls -> Requests]
  BY DEF RInv, SInv, IInv, TypeOK, Requests
<1>1. /\ \A w \in Trees, t \in Tabs : ~Create(c, w, t)
      /\ \A t \in Tabs : ~Open(c, t)
      /\ \A w \in Trees : ~Unarchive(c, w)
      /\ ~Restart(c)
  BY DEF NothingStarts, Create, Open, Unarchive, Restart, Begin
<1>2. Calms
  <2>1. UNCHANGED <<tab, shell, tree>>
    BY <1>1 DEF Request, Reconcile, Close, Archive, Remove, Prune, Reap
  <2> QED BY <2>1 DEF Calms
<1>3. PICK r : /\ call' = [call EXCEPT ![c] = r] /\ r.pc \notin {"status", "restore"}
               /\ r.op = "archive" => r.pc = "list"
  <2>1. CASE \E t \in Tabs : Close(c, t)
    <3>1. PICK t \in Tabs : call' = [call EXCEPT ![c] = OnTab("close", "kill", tab[t], t)]
      BY <2>1 DEF Close, Begin
    <3>2. /\ OnTab("close", "kill", tab[t], t).op = "close"
          /\ OnTab("close", "kill", tab[t], t).pc = "kill"
      BY DEF OnTab, IdleCall
    <3> QED BY <3>1, <3>2
  <2>2. CASE \E w \in Trees : Archive(c, w) \/ Remove(c, w)
    <3>1. PICK op \in {"archive", "remove"}, w \in Trees :
            call' = [call EXCEPT ![c] = OnTree(op, w)]
      BY <2>2 DEF Archive, Remove, Begin
    <3>2. OnTree(op, w).pc = "list"
      BY DEF OnTree, IdleCall
    <3> QED BY <3>1, <3>2
  <2>3. CASE Prune(c) \/ Reconcile(c)
    <3>1. PICK op \in {"prune", "reconcile"} :
            call' = [call EXCEPT ![c] = OnSessions(op, "rows")]
      BY <2>3 DEF Prune, Reconcile, Begin
    <3>2. OnSessions(op, "rows").pc = "rows" /\ OnSessions(op, "rows").op = op
      BY DEF OnSessions, IdleCall
    <3> QED BY <3>1, <3>2
  <2>4. CASE Reap(c)
    <3>1. PICK idle : call' = [call EXCEPT ![c] =
                         [IdleCall EXCEPT !.op = "reap", !.pc = "loop", !.todo = idle]]
      BY <2>4 DEF Reap, Begin
    <3>2. /\ [IdleCall EXCEPT !.op = "reap", !.pc = "loop", !.todo = idle].op = "reap"
          /\ [IdleCall EXCEPT !.op = "reap", !.pc = "loop", !.todo = idle].pc = "loop"
      BY DEF IdleCall
    <3> QED BY <3>1, <3>2
  <2> QED BY <1>1, <2>1, <2>2, <2>3, <2>4 DEF Request
<1>4. call'[c] = r
  BY <1>0, <1>3
<1>5. Rests(call[c])'
  BY <1>3, <1>4 DEF Rests
<1> QED BY <1>2, <1>5, CalmStep

\* Requests in progress.
LEMMA ProgressRests ==
  ASSUME RInv, SInv', NothingStarts, NEW c \in Calls, Progress(c)
  PROVE  RInv'
<1> USE DEF store, daemon
<1>0. /\ TypeOK /\ \A t \in Tabs : tab[t] \in Trees \cup {Nil}
      /\ call \in [Calls -> Requests] /\ tab \in [Tabs -> Trees \cup {Nil}]
      /\ call[c] \in Requests /\ Runs(call[c]) /\ Asked(call[c]) /\ Known(call[c])
      /\ Rests(call[c]) /\ call[c].t \in Tabs \cup {Nil}
      /\ Nil \notin Operations /\ Nil \notin Trees /\ Nil \notin Tabs
  BY TerminalsAssumption DEF RInv, SInv, IInv, TypeOK, Requests, AllRun
<1>1. /\ call[c].op \notin {"create", "open", "unarchive", "restart"}
      /\ call[c].pc = "restore" => call[c].op = "reconcile"
      /\ call[c].pc = "status" => call[c].op = "archive"
      /\ call[c].op = "archive" => call[c].w \in Trees
  BY <1>0, RestOps
<1>2. ASSUME tree' = tree, tab' = tab, \A t \in Tabs : shell'[t] = "live" => shell[t] = "live"
      PROVE  Calms
  BY <1>2 DEF Calms
<1>3. ASSUME Finish(c), Calms PROVE RInv'
  <2>1. call'[c] = IdleCall
    BY <1>0, <1>3 DEF Finish
  <2>2. Rests(call[c])'
    BY <1>0, <2>1 DEF Rests, IdleCall, Operations
  <2> QED BY <1>3, <2>2, CalmStep
<1>4. ASSUME NEW pc \in CallStates, Goto(c, pc), Calms, call[c].op # "archive",
             pc \notin {"status", "restore"}
      PROVE  RInv'
  <2>1. /\ [call[c] EXCEPT !.pc = pc].op = call[c].op
        /\ [call[c] EXCEPT !.pc = pc].pc = pc
    BY <1>0 DEF Requests
  <2>2. call'[c].op = call[c].op /\ call'[c].pc = pc
    BY <1>0, <1>4, <2>1 DEF Goto
  <2>3. Rests(call[c])'
    BY <1>4, <2>2 DEF Rests
  <2> QED BY <1>4, <2>3, CalmStep
<1>5. ASSUME Next1(c), Calms, call[c].op # "archive" PROVE RInv'
  <2>1. /\ [call[c] EXCEPT !.pc = "loop", !.t = Nil].op = call[c].op
        /\ [call[c] EXCEPT !.pc = "loop", !.t = Nil].pc = "loop"
    BY <1>0 DEF Requests
  <2>2. call'[c].op = call[c].op /\ call'[c].pc = "loop"
    BY <1>0, <1>5, <2>1 DEF Next1
  <2>3. Rests(call[c])'
    BY <1>5, <2>2 DEF Rests
  <2> QED BY <1>5, <2>3, CalmStep
<1>6. ~(AddRow(c) \/ Shutdown(c) \/ Wait(c) \/ Alive(c) \/ HasSaved(c))
  BY <1>0, <1>1, StepOps DEF AddRow, Shutdown, Wait, Alive, HasSaved, At
\* An archive reads the rows it is to suspend.
<1>7. CASE List(c)
  <2>1. call[c].pc = "list" /\ UNCHANGED <<tab, shell, tree>>
    BY <1>7 DEF List, At
  <2>2. RowsOf(call[c].w) \in SUBSET Tabs
    BY DEF RowsOf
  <2>3. PICK r \in Requests :
          r = [call[c] EXCEPT !.pc = "loop", !.todo = RowsOf(call[c].w)]
    BY <1>0, <2>2, RequestTypes DEF CallStates
  <2>4. r.pc = "loop" /\ r.w = call[c].w /\ r.todo = {t \in Tabs : tab[t] = r.w}
    BY <1>0, <2>3 DEF Requests, RowsOf
  <2>5. call'[c] = r
    BY <1>0, <1>7, <2>3 DEF List
  <2>6. Rests(call[c])'
    BY <2>1, <2>4, <2>5 DEF Rests
  <2> QED BY <1>2, <2>1, <2>6, CalmStep
<1>8. CASE Rows(c)
  <2>1. call[c].pc = "rows" /\ UNCHANGED <<tab, shell, tree>>
    BY <1>8 DEF Rows, At
  <2>2. PICK todo : call' = [call EXCEPT ![c] =
                               [call[c] EXCEPT !.pc = "loop", !.todo = todo]]
    BY <1>8 DEF Rows
  <2>3. call'[c].pc = "loop" /\ call'[c].op = call[c].op
    <3>1. /\ [call[c] EXCEPT !.pc = "loop", !.todo = todo].op = call[c].op
          /\ [call[c] EXCEPT !.pc = "loop", !.todo = todo].pc = "loop"
      BY <1>0 DEF Requests
    <3> QED BY <1>0, <2>2, <3>1
  <2>4. call[c].op # "archive"
    BY <1>0, <2>1 DEF Runs
  <2>5. Rests(call[c])'
    BY <2>3, <2>4 DEF Rests
  <2> QED BY <1>2, <2>1, <2>5, CalmStep
\* Reconcile restores what has a row of a worktree that is not archived, alone.
<1>9. CASE Restore(c)
  <2>1. /\ call[c].op = "reconcile" /\ call[c].pc = "restore"
        /\ UNCHANGED <<tab, tree, dir>> /\ tree[call[c].w] # "archived"
    BY <1>0, <1>1, <1>9 DEF Restore, At, Rests
  <2>2. CASE UNCHANGED daemon
    <3>1. Calms
      BY <1>2, <2>1, <2>2
    <3>2. Goto(c, "kill") \/ Next1(c)
      BY <1>9, <2>1 DEF Restore, RestoreFailed
    <3> QED BY <1>4, <1>5, <2>1, <3>1, <3>2 DEF CallStates
  <2>3. CASE CanRestore(c) /\ Spawn(call[c].t)
    <3>1. /\ shell' = [shell EXCEPT ![call[c].t] = "live"] /\ dir[call[c].w]
      BY <2>3 DEF CanRestore, Spawn
    <3>2. call[c].t \in Tabs => tab[call[c].t] = call[c].w
      BY <1>0, <2>1, <3>1 DEF Known
    <3>3. \A t \in Tabs : t # call[c].t => shell'[t] = shell[t]
      BY <1>0, <3>1 DEF TypeOK
    <3>4. ArchivedAtRest'
      BY <2>1, <3>2, <3>3 DEF RInv, ArchivedAtRest, RowsOf
    <3>5. call'[c].op = "reconcile" /\ call'[c].pc \in {"loop", "kill"}
      <4>1. CASE Next1(c)
        <5>1. /\ [call[c] EXCEPT !.pc = "loop", !.t = Nil].op = "reconcile"
              /\ [call[c] EXCEPT !.pc = "loop", !.t = Nil].pc = "loop"
          BY <1>0, <2>1 DEF Requests
        <5> QED BY <1>0, <4>1, <5>1 DEF Next1
      <4>2. CASE Goto(c, "kill")
        <5>1. /\ [call[c] EXCEPT !.pc = "kill"].op = "reconcile"
              /\ [call[c] EXCEPT !.pc = "kill"].pc = "kill"
          BY <1>0, <2>1 DEF Requests
        <5> QED BY <1>0, <4>2, <5>1 DEF Goto
      <4> QED BY <1>9, <2>1, <4>1, <4>2 DEF Restore, RestoreFailed
    <3>6. \A d \in Calls : d # c => call'[d] = call[d] /\ call[d].pc = "idle"
                                    /\ call[d].op = Nil
      <4>1. \A d \in Calls : d # c => call[d].pc = "idle"
        BY <2>1 DEF RInv, SInv, Alone
      <4>2. \A d \in Calls : call[d].pc = "idle" => call[d].op = Nil
        BY <1>0, IdleKnows DEF RInv, SInv, AllRun
      <4>3. \A d \in Calls : d # c => call'[d] = call[d]
        BY <1>0, OneStep DEF RInv, SInv
      <4> QED BY <4>1, <4>2, <4>3
    <3>7. ASSUME NEW d \in Calls PROVE Rests(call[d])'
      <4>1. CASE d = c
        BY <3>5, <4>1 DEF Rests
      <4>2. CASE d # c
        BY <1>0, <3>6, <4>2 DEF Rests, Operations
      <4> QED BY <4>1, <4>2
    <3> QED BY <3>4, <3>7 DEF RInv
  <2> QED BY <1>9, <2>2, <2>3 DEF Restore
<1>10. CASE Kill(c)
  <2>1. call[c].pc = "kill" /\ call[c].op # "archive"
    BY <1>0, <1>10 DEF Kill, At, Runs
  <2>2. Calms
    BY <1>0, <1>2, <1>10 DEF Kill, Hangup, TypeOK
  <2> QED BY <1>3, <1>4, <1>5, <1>10, <2>1, <2>2 DEF Kill, CallStates
<1>11. CASE Drop(c)
  <2>1. /\ call[c].pc = "drop" /\ UNCHANGED <<shell, tree>>
        /\ tab' = [tab EXCEPT ![call[c].t] = Nil]
    BY <1>11 DEF Drop, At
  <2>2. Calms /\ call[c].op # "archive"
    BY <1>0, <2>1 DEF Calms, Runs
  <2> QED BY <1>3, <1>5, <1>11, <2>2 DEF Drop
\* One tab less to suspend, which is not alive any more.
<1>12. ASSUME NEW t \in Tabs, SuspendTab(c, t) PROVE RInv'
  <2>1. /\ call[c].op = "archive" /\ call[c].pc = "loop" /\ Suspend(t)
        /\ call' = [call EXCEPT ![c] = [call[c] EXCEPT !.todo = @ \ {t}]]
        /\ UNCHANGED <<tab, tree>>
    BY <1>12 DEF SuspendTab, At, NothingStarts
  <2>2. \A u \in Tabs : shell'[u] = "live" => shell[u] = "live" /\ u # t
    BY <1>0, <2>1 DEF Suspend, TypeOK
  <2>3. PICK r \in Requests : r = [call[c] EXCEPT !.todo = @ \ {t}]
    BY <1>0, LoopTypes
  <2>4. r.op = "archive" /\ r.pc = "loop" /\ r.w = call[c].w /\ r.todo = call[c].todo \ {t}
    BY <1>0, <2>1, <2>3 DEF Requests
  <2>5. call'[c] = r
    BY <1>0, <2>1, <2>3
  <2>6. Rests(call[c])'
    BY <1>0, <2>1, <2>2, <2>4, <2>5 DEF Rests
  <2> QED BY <1>2, <2>1, <2>2, <2>6, CalmStep DEF Progress
<1>13. ASSUME NEW t \in Tabs, PickTab(c, t) PROVE RInv'
  <2>1. /\ call[c].op # "archive" /\ call[c].pc = "loop" /\ t \in call[c].todo
        /\ UNCHANGED <<tab, tree, shell>>
    BY <1>13 DEF PickTab, At
  <2>2. CASE Skip(c, t)
    <3>1. /\ [call[c] EXCEPT !.todo = @ \ {t}].op = call[c].op
          /\ [call[c] EXCEPT !.todo = @ \ {t}].pc = "loop"
      BY <1>0, <2>1 DEF Requests
    <3>2. call'[c] = [call[c] EXCEPT !.todo = @ \ {t}]
      BY <1>0, <1>13, <2>2 DEF PickTab
    <3>3. Rests(call[c])'
      BY <2>1, <3>1, <3>2 DEF Rests
    <3> QED BY <1>2, <1>13, <2>1, <3>3, CalmStep DEF Progress
  <2>3. CASE ~Skip(c, t)
    <3>1. PICK w : /\ call' = [call EXCEPT ![c] = [call[c] EXCEPT
                        !.todo = @ \ {t}, !.pc = Work(c, t), !.t = t, !.w = w]]
                   /\ call[c].op = "reconcile" => w = tab[t]
      BY <1>13, <2>3 DEF PickTab
    <3>2. /\ Work(c, t) \in {"restore", "kill"}
          /\ Work(c, t) = "restore" => call[c].op = "reconcile"
      BY <1>1 DEF Work
    <3>3. LET r == [call[c] EXCEPT !.todo = @ \ {t}, !.pc = Work(c, t), !.t = t, !.w = w]
          IN  r.op = call[c].op /\ r.pc = Work(c, t) /\ r.w = w
      BY <1>0 DEF Requests
    <3>4. call'[c].op = call[c].op /\ call'[c].pc = Work(c, t) /\ call'[c].w = w
      BY <1>0, <3>1, <3>3
    <3>5. call[c].op = "reconcile" => tree[tab[t]] # "archived"
      BY <2>3 DEF Skip
    <3>6. Rests(call[c])'
      BY <2>1, <3>1, <3>2, <3>4, <3>5 DEF Rests
    <3> QED BY <1>2, <1>13, <2>1, <3>6, CalmStep DEF Progress
  <2> QED BY <2>2, <2>3
\* An archive that has suspended everything.
<1>14. CASE LoopEnd(c)
  <2>1. call[c].pc = "loop" /\ call[c].todo = {} /\ UNCHANGED <<tab, tree, shell>>
    BY <1>14 DEF LoopEnd, At
  <2>2. Calms
    BY <1>2, <2>1
  <2>3. CASE Goto(c, "status") /\ call[c].op = "archive"
    <3>1. PICK r \in Requests : r = [call[c] EXCEPT !.pc = "status"]
      BY <1>0, RequestTypes DEF CallStates
    <3>2. /\ r.op = "archive" /\ r.pc = "status" /\ r.w = call[c].w
          /\ r.todo = call[c].todo
      BY <1>0, <2>3, <3>1 DEF Requests
    <3>3. call'[c] = r
      BY <1>0, <2>3, <3>1 DEF Goto
    <3>4. Rests(call[c])'
      BY <1>0, <2>1, <2>3, <3>2, <3>3 DEF Rests
    <3> QED BY <2>2, <3>4, CalmStep
  <2>4. CASE Goto(c, "row") /\ call[c].op = "remove"
    BY <1>4, <2>2, <2>4 DEF CallStates
  <2> QED BY <1>1, <1>3, <1>14, <2>2, <2>3, <2>4 DEF LoopEnd
\* The archive has left nothing alive.
<1>15. CASE SetStatus(c)
  <2>1. /\ call[c].pc = "status" /\ UNCHANGED <<tab, shell>> /\ Finish(c)
        /\ call[c].op = "archive" /\ call[c].todo = {} /\ call[c].w \in Trees
    BY <1>0, <1>1, <1>15 DEF SetStatus, At, Rests
  <2>2. \A w \in Trees : w # call[c].w => tree'[w] = tree[w]
    BY <1>15 DEF SetStatus, RInv, SInv, IInv, TypeOK
  <2>3. \A t \in Tabs : tab[t] = call[c].w => shell[t] # "live"
    BY <1>0, <2>1 DEF Rests
  <2>4. ArchivedAtRest'
    BY <2>1, <2>2, <2>3 DEF RInv, ArchivedAtRest, RowsOf
  <2>5. /\ call'[c] = IdleCall
        /\ \A d \in Calls : d # c => call'[d] = call[d]
    BY <1>0, <2>1, OneStep DEF RInv, SInv, Finish
  <2>6. ASSUME NEW d \in Calls, d # c PROVE Rests(call[d])'
    <3>1. call[d].op # "reconcile"
      BY <2>1, <2>6 DEF RInv, SInv, Alone
    <3>2. call[d].pc # "restore"
      BY <3>1, RestOps DEF RInv, SInv, IInv, TypeOK, Requests, AllRun
    <3> QED BY <2>1, <2>5, <2>6, <3>2 DEF RInv, Rests
  <2>7. Rests(call[c])'
    BY <1>0, <2>5 DEF Rests, IdleCall, Operations
  <2> QED BY <2>4, <2>6, <2>7 DEF RInv
<1>16. CASE RemoveRow(c)
  <2>1. Calms
    <3>1. shell' = shell /\ tree' = [tree EXCEPT ![call[c].w] = "gone"]
          /\ tab' = [t \in Tabs |-> IF tab[t] = call[c].w THEN Nil ELSE tab[t]]
      BY <1>16 DEF RemoveRow
    <3> QED BY <1>0, <3>1 DEF Calms, TypeOK
  <2> QED BY <1>3, <1>16, <2>1 DEF RemoveRow
<1> QED BY <1>6, <1>7, <1>8, <1>9, <1>10, <1>11, <1>12, <1>13, <1>14, <1>15, <1>16
        DEF Progress

\* Archived worktrees stay at rest: while nothing is opened, no other request, no
\* failure and no restart of the server starts a shell of theirs (Terminals: the
\* safety half of ArchivedShellsEnd).
THEOREM ArchivedStayAtRest ==
  ASSUME NothingStarts
  PROVE  Spec => []ArchivedAtRest
<1>0. KeptApart
  BY DEF NothingStarts, KeptApart
<1>1. ASSUME Init PROVE RInv
  <2>1. SInv
    BY <1>0, <1>1, SoundInductive
  <2>2. ArchivedAtRest /\ \A c \in Calls : Rests(call[c])
    BY <1>1, TerminalsAssumption DEF Init, ArchivedAtRest, Rests, IdleCall, Operations
  <2> QED BY <2>1, <2>2 DEF RInv
<1>2. ASSUME RInv, [Next]_vars PROVE RInv'
  <2>1. SInv'
    BY <1>0, <1>2, SoundInductive DEF RInv
  <2>2. CASE \E c \in Calls : Request(c) \/ Reconcile(c) \/ Progress(c)
    BY <1>2, <2>1, <2>2, BeginRests, ProgressRests
  <2>3. CASE (\E t \in Tabs : TabStep(t)) \/ DaemonGone \/ ServerGone \/ UNCHANGED vars
    <3>1. /\ UNCHANGED <<tab, tree>>
          /\ \A t \in Tabs : shell'[t] = "live" => shell[t] = "live"
      BY <1>2, <2>3 DEF TabStep, Dies, Gone, Tick, DaemonGone, ServerGone, vars, store,
                        daemon, RInv, SInv, IInv, TypeOK
    <3>2. ArchivedAtRest'
      BY <1>2, <3>1 DEF RInv, ArchivedAtRest, RowsOf
    <3>3. \A c \in Calls : call'[c] = call[c] \/ call'[c] = IdleCall
      BY <2>3 DEF TabStep, Dies, Gone, Tick, DaemonGone, ServerGone, vars
    <3>4. ASSUME NEW c \in Calls PROVE Rests(call[c])'
      <4>1. CASE call'[c] = IdleCall
        BY <4>1, TerminalsAssumption DEF Rests, IdleCall, Operations
      <4>2. CASE call'[c] = call[c]
        BY <1>2, <3>1, <4>2 DEF RInv, Rests
      <4> QED BY <3>3, <4>1, <4>2
    <3> QED BY <2>1, <3>2, <3>4 DEF RInv
  <2> QED BY <1>2, <2>2, <2>3 DEF Next
<1> QED BY <1>1, <1>2, PTL DEF Spec, RInv
=============================================================================
