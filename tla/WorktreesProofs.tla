--------------------------- MODULE WorktreesProofs ---------------------------
(***************************************************************************)
(* Proofs about Worktrees, for any sets of paths, row ids and requests and *)
(* whichever requests, failures and outside changes occur.                 *)
(***************************************************************************)
EXTENDS Worktrees, TLAPS

Used(i) == row[i] # "unused"
Making(c) == call[c].op = "create" /\ call[c].pc \in {"insert", "undo", "unbranch"}
Holding(c) == call[c].pc \in {"add", "insert", "undo", "unbranch"}
OnARow(c) == call[c].pc \in {"git", "close", "row", "status"}

\* Who runs which request, and where its path comes from.
CallFits(c) ==
  /\ c = Sweeper => call[c].op \in {Nil, "sweep"}
  /\ call[c].op = "create" => call[c].p \in Managed
  /\ call[c].op = "import" => call[c].p \in Importable
  /\ call[c].pc \in {"add", "undo", "unbranch"} => call[c].op = "create"
  /\ call[c].pc = "insert" => call[c].op \in {"create", "import"}

\* A new row's id is held by one request only.
IdHeld(c) ==
  Holding(c) =>
    /\ call[c].i \in Ids /\ ~Used(call[c].i)
    /\ \A d \in Calls : call[d].i = call[c].i => d = c

\* A request on a row has the row's path, also when the row is gone.  A checkout
\* it has removed does not come back.
RowFits(c) ==
  /\ OnARow(c) => call[c].i \in Ids /\ Used(call[c].i) /\ call[c].p = path[call[c].i]
  /\ \A i \in call[c].todo : Used(i)
  /\ call[c].pc \in {"close", "row"} => ~Folder(call[c].p)

\* A path that a create has taken has no row yet and is not taken twice.
PathTaken(c) ==
  Making(c) =>
    /\ branch[call[c].p]
    /\ \A i \in Ids : Used(i) => path[i] # call[c].p
    /\ \A d \in Calls : Making(d) /\ call[d].p = call[c].p => d = c

CallsRight ==
  \A c \in Calls : CallFits(c) /\ IdHeld(c) /\ RowFits(c) /\ PathTaken(c)

\* The branch of a created worktree outlives its row, its checkout does not.
RowsRight ==
  \A i \in Ids :
    /\ Used(i) => path[i] \in Paths /\ (path[i] \in Managed => branch[path[i]])
    /\ row[i] = "removed" => ~Folder(path[i])

PathsUnique == \A i, j \in Ids : Present(i) /\ Present(j) /\ path[i] = path[j] => i = j

Right == CallsRight /\ RowsRight /\ PathsUnique

IInv == TypeOK /\ Right
-----------------------------------------------------------------------------
\* The updates of a request's record keep it one.
LEMMA RequestTypes ==
  /\ IdleCall \in Requests
  /\ \A r \in Requests :
       /\ \A pc \in CallStates : [r EXCEPT !.pc = pc] \in Requests
       /\ [r EXCEPT !.pc = "unbranch", !.ok = FALSE] \in Requests
       /\ [r EXCEPT !.pc = "loop", !.i = Nil, !.p = Nil] \in Requests
BY ZenonT(60) DEF IdleCall, Requests, CallStates

\* The records of requests on rows.
LEMMA OnRowTypes ==
  ASSUME TypeOK, NEW op \in Operations, NEW pc \in CallStates, NEW i \in Ids
  PROVE  /\ OnRow(op, pc, i) \in Requests
         /\ \A force \in BOOLEAN, todo \in SUBSET Ids :
              /\ [OnRow(op, pc, i) EXCEPT !.force = force] \in Requests
              /\ [OnRow(op, pc, i) EXCEPT !.force = force, !.todo = todo] \in Requests
BY DEF OnRow, TypeOK, IdleCall, Requests

\* What a step does to the requests: one of them changes, into a request.
LEMMA EndTypes ==
  ASSUME TypeOK, NEW c \in Calls, End(c)
  PROVE  call' \in [Calls -> Requests]
<1>1. call[c] \in Requests
  BY DEF TypeOK
<1> QED BY <1>1, RequestTypes DEF End, TypeOK

\* Likewise a step within a request.
LEMMA GotoTypes ==
  ASSUME TypeOK, NEW c \in Calls, NEW pc \in CallStates, Goto(c, pc)
  PROVE  call' \in [Calls -> Requests]
<1>1. call[c] \in Requests
  BY DEF TypeOK
<1> QED BY <1>1, RequestTypes DEF Goto, TypeOK

\* Every step keeps the variables in their types.
LEMMA StepTypeOK == TypeOK /\ [Next]_vars => TypeOK'
<1> SUFFICES ASSUME TypeOK, [Next]_vars PROVE TypeOK'
  OBVIOUS
<1> USE DEF git, store
<1>1. ASSUME NEW c \in Calls, NEW p \in Paths, NEW i \in Ids, Create(c, p, i)
      PROVE  TypeOK'
  <2>1. [IdleCall EXCEPT !.op = "create", !.pc = "add", !.p = p, !.i = i] \in Requests
    BY DEF IdleCall, Requests, CallStates, Operations
  <2> QED BY <1>1, <2>1 DEF Create, Begin, TypeOK
<1>2. ASSUME NEW c \in Calls, NEW p \in Paths, NEW i \in Ids, Import(c, p, i)
      PROVE  TypeOK'
  <2>1. [IdleCall EXCEPT !.op = "import", !.pc = "insert", !.p = p, !.i = i] \in Requests
    BY DEF IdleCall, Requests, CallStates, Operations
  <2> QED BY <1>2, <2>1 DEF Import, Begin, TypeOK
<1>3. ASSUME NEW c \in Calls, NEW i \in Ids, NEW force \in BOOLEAN,
             Delete(c, i, force)
      PROVE  TypeOK'
  <2>1. [OnRow("delete", "git", i) EXCEPT !.force = force] \in Requests
    BY OnRowTypes DEF Operations, CallStates
  <2> QED BY <1>3, <2>1 DEF Delete, Begin, TypeOK
<1>4. ASSUME NEW c \in Calls, NEW i \in Ids, Archive(c, i) \/ Unarchive(c, i)
      PROVE  TypeOK'
  <2>1. /\ OnRow("archive", "status", i) \in Requests
        /\ OnRow("unarchive", "status", i) \in Requests
    BY OnRowTypes DEF Operations, CallStates
  <2> QED BY <1>4, <2>1 DEF Archive, Unarchive, Begin, TypeOK
<1>5. ASSUME NEW c \in Calls, GitAdd(c) PROVE TypeOK'
  <2>1. call' \in [Calls -> Requests]
    BY <1>5, EndTypes, GotoTypes DEF GitAdd, CallStates
  <2>2. call[c].p \in Paths \cup {Nil}
    BY DEF TypeOK, Requests
  <2> QED BY <1>5, <2>1, <2>2 DEF GitAdd, TypeOK
<1>6. ASSUME NEW c \in Calls, Insert(c) PROVE TypeOK'
  <2>1. call' \in [Calls -> Requests]
    BY <1>6, EndTypes, GotoTypes DEF Insert, CallStates
  <2>2. call[c].p \in Paths \cup {Nil}
    BY DEF TypeOK, Requests
  <2> QED BY <1>6, <2>1, <2>2 DEF Insert, TypeOK
<1>7. ASSUME NEW c \in Calls, UndoCheckout(c) PROVE TypeOK'
  <2>1. [call[c] EXCEPT !.pc = "unbranch", !.ok = FALSE] \in Requests
    BY RequestTypes DEF TypeOK
  <2>2. call' \in [Calls -> Requests]
    BY <1>7, <2>1, GotoTypes DEF UndoCheckout, CallStates, TypeOK
  <2> QED BY <1>7, <2>2 DEF UndoCheckout, PruneFails, TypeOK
<1>8. ASSUME NEW c \in Calls, UndoBranch(c) PROVE TypeOK'
  <2>1. call' \in [Calls -> Requests]
    BY <1>8, EndTypes DEF UndoBranch
  <2> QED BY <1>8, <2>1 DEF UndoBranch, Says, TypeOK
<1>9. ASSUME NEW c \in Calls, GitRemove(c) PROVE TypeOK'
  <2>1. call' \in [Calls -> Requests]
    BY <1>9, EndTypes, GotoTypes DEF GitRemove, CallStates
  <2> QED BY <1>9, <2>1 DEF GitRemove, PruneFails, TypeOK
<1>10. ASSUME NEW c \in Calls, CloseTerminals(c) PROVE TypeOK'
  <2>1. call' \in [Calls -> Requests]
    BY <1>10, EndTypes, GotoTypes DEF CloseTerminals, CallStates
  <2> QED BY <1>10, <2>1 DEF CloseTerminals, TypeOK
<1>11. ASSUME NEW c \in Calls, RemoveRow(c) PROVE TypeOK'
  <2>1. call' \in [Calls -> Requests]
    BY <1>11, EndTypes DEF RemoveRow
  <2> QED BY <1>11, <2>1 DEF RemoveRow, TypeOK
<1>12. ASSUME NEW c \in Calls, SetStatus(c) PROVE TypeOK'
  <2>1. call' \in [Calls -> Requests]
    BY <1>12, EndTypes DEF SetStatus
  <2>2. NewStatus(c) \in {"active", "archived"}
    BY DEF NewStatus
  <2>3. /\ row' \in [Ids -> {"unused", "active", "archived", "removed"}]
        /\ expired' \in [Ids -> BOOLEAN]
    <3> DEFINE i == call[c].i
    <3>1. CASE row' = [row EXCEPT ![i] = IF Present(i) THEN NewStatus(c) ELSE @]
               /\ expired' = [expired EXCEPT ![i] = FALSE]
      <4>1. CASE Present(i)
        BY <2>2, <3>1, <4>1 DEF TypeOK
      <4>2. CASE ~Present(i)
        BY <3>1, <4>2 DEF TypeOK
      <4> QED BY <4>1, <4>2
    <3>2. CASE UNCHANGED <<row, expired>>
      BY <3>2 DEF TypeOK
    <3> QED BY <1>12, <3>1, <3>2 DEF SetStatus
  <2> QED BY <1>12, <2>1, <2>3 DEF SetStatus, TypeOK
<1>13. CASE Sweep \/ SweepEnd
  <2>1. [IdleCall EXCEPT !.op = "sweep", !.pc = "loop",
           !.todo = {i \in Ids : row[i] = "archived" /\ expired[i]}] \in Requests
    BY DEF IdleCall, Requests, CallStates, Operations
  <2> QED BY <1>13, <2>1, RequestTypes DEF Sweep, SweepEnd, TypeOK
<1>14. ASSUME NEW i \in Ids, SweepRow(i) PROVE TypeOK'
  <2>1. call[Sweeper].todo \ {i} \in SUBSET Ids
    BY WorktreesAssumption DEF TypeOK, Requests
  <2>2. [OnRow("sweep", "git", i) EXCEPT !.force = TRUE,
           !.todo = call[Sweeper].todo \ {i}] \in Requests
    BY <2>1, OnRowTypes DEF Operations, CallStates
  <2> QED BY <1>14, <2>2 DEF SweepRow, TypeOK
<1>15. CASE Outside
  BY <1>15 DEF Outside, Edit, Vanish, Age, Pin, TypeOK
<1>16. CASE UNCHANGED vars
  BY <1>16 DEF vars, TypeOK
<1> QED
  BY <1>1, <1>2, <1>3, <1>4, <1>5, <1>6, <1>7, <1>8, <1>9, <1>10, <1>11, <1>12,
     <1>13, <1>14, <1>15, <1>16 DEF Next, Request, Progress
-----------------------------------------------------------------------------
\* The initial states satisfy the invariant.
LEMMA InitIInv == Init => IInv
<1> SUFFICES ASSUME Init PROVE IInv
  OBVIOUS
<1> USE DEF Init
<1>1. TypeOK
  BY RequestTypes DEF TypeOK
<1>2. ASSUME NEW c \in Calls
      PROVE  CallFits(c) /\ IdHeld(c) /\ RowFits(c) /\ PathTaken(c)
  <2>1. /\ call[c].op = Nil /\ call[c].pc = "idle" /\ call[c].todo = {}
        /\ Nil # "create" /\ Nil # "import"
    BY WorktreesAssumption DEF IdleCall, Operations
  <2> QED BY <2>1 DEF CallFits, IdHeld, RowFits, PathTaken, Holding, OnARow, Making
<1>3. RowsRight /\ PathsUnique
  BY DEF RowsRight, PathsUnique, Used, Present
<1> QED BY <1>1, <1>2, <1>3 DEF IInv, Right, CallsRight

\* What the end of a request does to its record.
LEMMA EndEffect ==
  ASSUME TypeOK, NEW c \in Calls, End(c)
  PROVE  /\ \A d \in Calls : d # c => call'[d] = call[d]
         /\ call'[c].pc \in {"idle", "loop"}
         /\ call'[c].i = Nil /\ call'[c].p = Nil
         /\ call'[c].todo \subseteq call[c].todo
         /\ call'[c].op = Nil \/ (c = Sweeper /\ call'[c].op = call[c].op)
<1>1. call[c] \in Requests
  BY DEF TypeOK
<1>2. CASE c = Sweeper
  BY <1>1, <1>2 DEF End, TypeOK, Requests
<1>3. CASE c # Sweeper
  BY <1>3 DEF End, TypeOK, IdleCall
<1> QED BY <1>2, <1>3

\* Likewise of a step within it.
LEMMA GotoEffect ==
  ASSUME TypeOK, NEW c \in Calls, NEW pc, Goto(c, pc)
  PROVE  /\ \A d \in Calls : d # c => call'[d] = call[d]
         /\ call'[c].pc = pc
         /\ call'[c].i = call[c].i /\ call'[c].p = call[c].p
         /\ call'[c].todo = call[c].todo /\ call'[c].op = call[c].op
<1>1. call[c] \in Requests
  BY DEF TypeOK
<1> QED BY <1>1 DEF Goto, TypeOK, Requests

\* A step of one request that takes no path, makes no row and brings no folder
\* back leaves everything right if it leaves that request right.
Calm(c) ==
  /\ \A i \in Ids :
       /\ Used(i)' <=> Used(i)
       /\ Present(i)' => Present(i)
       /\ row'[i] = "removed" => row[i] = "removed" \/ ~Folder(path[i])'
  /\ path' = path /\ branch' = branch
  /\ \A p \in Paths : Folder(p)' => Folder(p)
  /\ \A d \in Calls : d # c => call'[d] = call[d]
  /\ \/ call'[c].i \in {call[c].i, Nil}
     \/ call'[c].i \in Ids /\ Used(call'[c].i)
     \/ call'[c].i \in Ids /\ Fresh(call'[c].i)
  /\ Making(c)' => Making(c) /\ call'[c].p = call[c].p
  /\ CallFits(c)' /\ RowFits(c)'
  /\ Holding(c)' => (Holding(c) /\ call'[c].i = call[c].i)
                    \/ (call'[c].i \in Ids /\ Fresh(call'[c].i))

\* Calm steps keep everything right.
LEMMA CalmStep ==
  ASSUME IInv, NEW c \in Calls, Calm(c)
  PROVE  Right'
<1> USE DEF IInv, Right, Calm
<1>1. ASSUME NEW d \in Calls PROVE CallFits(d)'
  BY <1>1 DEF CallsRight, CallFits
<1>2. ASSUME NEW d \in Calls PROVE IdHeld(d)'
  <2>1. CASE d = c
    BY <2>1 DEF CallsRight, IdHeld, Holding, Used, Fresh
  <2>2. CASE d # c
    BY <2>2, WorktreesAssumption DEF CallsRight, IdHeld, Holding, Used, Fresh
  <2> QED BY <2>1, <2>2
<1>3. ASSUME NEW d \in Calls PROVE RowFits(d)'
  <2>1. CASE d # c
    <3>1. call'[d] = call[d] /\ RowFits(d)
      BY <1>3, <2>1 DEF CallsRight
    <3>2. call[d].todo \subseteq Ids
      BY <1>3 DEF TypeOK, Requests
    <3>3. OnARow(d) => call[d].p \in Paths
      BY <3>1 DEF RowFits, RowsRight
    <3> QED BY <3>1, <3>2, <3>3 DEF RowFits, OnARow, Used
  <2> QED BY <2>1
<1>4. ASSUME NEW d \in Calls PROVE PathTaken(d)'
  <2>1. SUFFICES ASSUME Making(d)' PROVE PathTaken(d)'
    BY DEF PathTaken
  <2>2. Making(d) /\ call'[d].p = call[d].p /\ PathTaken(d)
    BY <1>4, <2>1 DEF CallsRight, Making
  <2>3. ASSUME NEW e \in Calls, Making(e)' PROVE Making(e) /\ call'[e].p = call[e].p
    BY <2>3 DEF Making
  <2> QED BY <2>2, <2>3 DEF PathTaken
<1>5. RowsRight' /\ PathsUnique'
  BY DEF RowsRight, PathsUnique, Used
<1> QED BY <1>1, <1>2, <1>3, <1>4, <1>5 DEF CallsRight

\* A request that begins, given its new record.
LEMMA BeginEffect ==
  ASSUME TypeOK, NEW c \in Calls, NEW op, NEW new, Begin(c, op, new)
  PROVE  /\ \A d \in Calls : d # c => call'[d] = call[d]
         /\ call'[c] = new /\ c # Sweeper /\ call[c].pc = "idle"
BY DEF Begin, TypeOK, At

\* The record of a request on a row.
LEMMA OnRowEffect ==
  ASSUME NEW op, NEW pc, NEW i
  PROVE  /\ OnRow(op, pc, i).op = op /\ OnRow(op, pc, i).pc = pc
         /\ OnRow(op, pc, i).i = i /\ OnRow(op, pc, i).p = path[i]
         /\ OnRow(op, pc, i).todo = {}
BY DEF OnRow, IdleCall

\* Steps that end a request without touching rows or branches.
LEMMA EndStep ==
  ASSUME IInv, NEW c \in Calls, End(c),
         \A i \in Ids : row'[i] = row[i], path' = path, branch' = branch,
         \A p \in Paths : Folder(p)' => Folder(p)
  PROVE  Right'
<1>1. /\ Nil \notin {"create", "import", "sweep"}
  BY WorktreesAssumption DEF Operations
<1>2. CallFits(c) /\ RowFits(c)
  BY DEF IInv, Right, CallsRight
<1>3. call[c].todo \subseteq Ids
  BY DEF IInv, TypeOK, Requests
<1>4. TypeOK
  BY DEF IInv
<1>5. CallFits(c)' /\ RowFits(c)' /\ ~Holding(c)' /\ ~Making(c)'
  BY <1>1, <1>2, <1>3, <1>4, EndEffect DEF CallFits, RowFits, Holding, OnARow, Making, Used
<1>6. Calm(c)
  BY <1>4, <1>5, EndEffect DEF Calm, Used, Present
<1> QED BY <1>6, CalmStep

\* Steps within a request on a row that touch neither rows nor branches.
LEMMA GotoStep ==
  ASSUME IInv, NEW c \in Calls, NEW pc, Goto(c, pc),
         \A i \in Ids : row'[i] = row[i], path' = path, branch' = branch,
         \A p \in Paths : Folder(p)' => Folder(p),
         \/ pc \in {"undo", "unbranch"} /\ Making(c)
         \/ /\ pc \in {"close", "row"} /\ OnARow(c)
            /\ checkout'[call[c].p] \notin {"clean", "dirty"}
  PROVE  Right'
<1>1. CallFits(c) /\ RowFits(c) /\ TypeOK
  BY DEF IInv, Right, CallsRight
<1>2. call[c].todo \subseteq Ids
  BY DEF IInv, TypeOK, Requests
<1>3. CallFits(c)' /\ RowFits(c)'
  BY <1>1, <1>2, GotoEffect DEF CallFits, RowFits, Making, OnARow, Used, Folder
<1>4. Calm(c)
  BY <1>1, <1>3, GotoEffect DEF Calm, Used, Present, Holding, Making, OnARow
<1> QED BY <1>4, CalmStep

-----------------------------------------------------------------------------
\* git worktree add takes a path that has no branch, so no row and no other
\* create: only then may a folder appear.
LEMMA GitAddRight ==
  ASSUME IInv, NEW c \in Calls, GitAdd(c)
  PROVE  Right'
<1> USE DEF IInv, git, store
<1> DEFINE p == call[c].p
<1>1. CASE End(c) /\ UNCHANGED <<git, told>>
  BY <1>1, EndStep DEF GitAdd, Folder
<1>2. CASE /\ checkout[p] = "none" /\ ~branch[p]
           /\ checkout' \in {checkout, [checkout EXCEPT ![p] = "clean"]}
           /\ branch' = [branch EXCEPT ![p] = TRUE]
           /\ Goto(c, "insert") \/ End(c)
  <2>1. /\ CallFits(c) /\ IdHeld(c) /\ RowFits(c) /\ call[c].pc = "add"
        /\ UNCHANGED <<row, path>>
    BY DEF GitAdd, At, Right, CallsRight
  <2>2. call[c].op = "create" /\ p \in Managed /\ p \in Paths
    BY <2>1, WorktreesAssumption DEF CallFits
  <2>3. \A i \in Ids : Used(i) => path[i] # p
    BY <1>2, <2>2 DEF Right, RowsRight
  <2>4. \A d \in Calls : Making(d) => call[d].p # p
    BY <1>2 DEF Right, CallsRight, PathTaken
  <2>5. /\ branch'[p] /\ \A q \in Paths : branch[q] => branch'[q]
        /\ \A q \in Paths : q # p => (Folder(q)' => Folder(q))
    <3>1. \A q \in Paths : q # p => checkout'[q] = checkout[q]
      <4>1. CASE checkout' = checkout  BY <4>1
      <4>2. CASE checkout' = [checkout EXCEPT ![p] = "clean"]  BY <4>2 DEF TypeOK
      <4> QED BY <1>2, <4>1, <4>2
    <3>2. branch'[p] /\ \A q \in Paths : branch[q] => branch'[q]
      BY <1>2, <2>2 DEF TypeOK
    <3> QED BY <3>1, <3>2 DEF Folder
  <2>6. /\ \A d \in Calls : d # c => call'[d] = call[d]
        /\ \/ /\ call'[c].pc = "insert" /\ call'[c].i = call[c].i /\ call'[c].p = p
              /\ call'[c].op = "create"
           \/ /\ call'[c].pc = "idle" /\ call'[c].i = Nil /\ call'[c].op = Nil
        /\ call'[c].todo \subseteq call[c].todo
    <3>1. CASE Goto(c, "insert")
      BY <2>2, <3>1, GotoEffect
    <3>2. CASE End(c)
      <4>1. c # Sweeper
        BY <2>1, <2>2, WorktreesAssumption DEF CallFits, Operations
      <4>2. call'[c] = IdleCall
        BY <3>2, <4>1 DEF End, TypeOK
      <4> QED BY <3>2, <4>2, EndEffect DEF IdleCall
    <3> QED BY <1>2, <3>1, <3>2
  <2>a. Nil \notin Ids /\ Nil \notin Operations
    BY WorktreesAssumption
  <2>7. ASSUME NEW d \in Calls PROVE CallFits(d)'
    BY <2>1, <2>2, <2>6, <2>a DEF CallFits, Operations, Right, CallsRight
  <2>8. ASSUME NEW d \in Calls PROVE IdHeld(d)'
    BY <2>1, <2>6, <2>a DEF IdHeld, Holding, Used, Right, CallsRight
  <2>9. ASSUME NEW d \in Calls PROVE RowFits(d)'
    <3>1. RowFits(d) /\ call[d].todo \subseteq Ids
      BY DEF Right, CallsRight, TypeOK, Requests
    <3>2. OnARow(d) => call[d].p \in Paths
      BY <3>1 DEF RowFits, Right, RowsRight
    <3> QED BY <2>1, <2>3, <2>5, <2>6, <3>1, <3>2 DEF RowFits, OnARow, Used
  <2>10. ASSUME NEW d \in Calls PROVE PathTaken(d)'
    <3>1. CASE d = c
      BY <2>1, <2>3, <2>4, <2>5, <2>6, <3>1, <2>a DEF PathTaken, Making, Used, Operations
    <3>2. CASE d # c
      <4>1. PathTaken(d) /\ call'[d] = call[d]
        BY <2>6, <3>2 DEF Right, CallsRight
      <4>2. SUFFICES ASSUME Making(d)' PROVE PathTaken(d)'
        BY DEF PathTaken
      <4>3. Making(d) /\ call[d].p \in Paths /\ call[d].p # p
        BY <2>4, <4>1, <4>2, WorktreesAssumption DEF Making, CallFits, Right, CallsRight
      <4> QED BY <2>1, <2>5, <2>6, <4>1, <4>3, <2>a DEF PathTaken, Making, Used, Operations
    <3> QED BY <3>1, <3>2
  <2>11. RowsRight'
    BY <2>1, <2>2, <2>3, <2>5 DEF Right, RowsRight, Used
  <2>12. PathsUnique'
    BY <2>1 DEF Right, PathsUnique, Present
  <2> QED BY <2>7, <2>8, <2>9, <2>10, <2>11, <2>12 DEF Right, CallsRight
<1> QED BY <1>1, <1>2 DEF GitAdd

\* A row is inserted for a path without one; only its own create has taken it.
LEMMA InsertRight ==
  ASSUME IInv, NEW c \in Calls, Insert(c)
  PROVE  Right'
<1> USE DEF IInv, git, store
<1> DEFINE p == call[c].p
           i == call[c].i
<1>1. /\ CallFits(c) /\ IdHeld(c) /\ RowFits(c) /\ PathTaken(c) /\ call[c].pc = "insert"
      /\ UNCHANGED <<checkout, branch>>
  BY DEF Insert, At, Right, CallsRight
<1>2. i \in Ids /\ ~Used(i) /\ \A d \in Calls : call[d].i = i => d = c
  BY <1>1 DEF IdHeld, Holding
<1>3. CASE End(c) /\ UNCHANGED <<row, path>>
  BY <1>1, <1>3, EndStep DEF Folder
<1>4. CASE call[c].op = "create" /\ Goto(c, "undo") /\ UNCHANGED <<row, path>>
  BY <1>1, <1>4, GotoStep DEF Folder, Making
<1>5. CASE /\ ~Registered(p)
           /\ row' = [row EXCEPT ![i] = "active"]
           /\ path' = [path EXCEPT ![i] = p]
           /\ End(c)
  <2>1. /\ \A d \in Calls : d # c => call'[d] = call[d]
        /\ call'[c].pc \in {"idle", "loop"} /\ call'[c].i = Nil /\ call'[c].p = Nil
        /\ call'[c].todo \subseteq call[c].todo
        /\ call'[c].op = Nil \/ (c = Sweeper /\ call'[c].op = call[c].op)
    BY <1>5, EndEffect
  <2>2. /\ row'[i] = "active" /\ path'[i] = p
        /\ \A j \in Ids : j # i => row'[j] = row[j] /\ path'[j] = path[j]
    BY <1>2, <1>5 DEF TypeOK
  <2>3. call[c].op \in {"create", "import"} /\ p \in Paths
        /\ (p \in Managed <=> call[c].op = "create")
    BY <1>1, WorktreesAssumption DEF CallFits
  <2>4. p \in Managed => branch[p]
    BY <1>1, <2>3 DEF PathTaken, Making
  <2>5. \A d \in Calls : d # c /\ Making(d) => call[d].p # p
    <3>1. CASE p \in Managed
      BY <1>1, <2>3, <3>1 DEF PathTaken, Making
    <3>2. CASE p \notin Managed
      BY <3>2 DEF Right, CallsRight, CallFits, Making
    <3> QED BY <3>1, <3>2
  <2>6. \A j \in Ids : Used(j) => Used(j)'
    BY <1>2, <2>2 DEF Used
  <2>7. Nil \notin {"create", "import", "sweep"}
    BY WorktreesAssumption DEF Operations
  <2>8. ASSUME NEW d \in Calls PROVE CallFits(d)'
    BY <1>1, <2>1, <2>3, <2>7 DEF CallFits, Right, CallsRight
  <2>9. ASSUME NEW d \in Calls PROVE IdHeld(d)'
    <3>1. CASE d = c
      BY <2>1, <3>1 DEF IdHeld, Holding
    <3>2. CASE d # c
      <4>1. IdHeld(d) /\ call[d].i # i
        BY <1>2, <3>2 DEF Right, CallsRight
      <4> QED BY <2>1, <2>2, <3>2, <4>1, WorktreesAssumption DEF IdHeld, Holding, Used
    <3> QED BY <3>1, <3>2
  <2>10. ASSUME NEW d \in Calls PROVE RowFits(d)'
    <3>1. RowFits(d) /\ call[d].todo \subseteq Ids
      BY DEF Right, CallsRight, TypeOK, Requests
    <3>2. CASE d = c
      BY <2>1, <2>6, <3>1, <3>2 DEF RowFits, OnARow
    <3>3. CASE d # c
      BY <1>1, <1>2, <2>1, <2>2, <2>6, <3>1, <3>3 DEF RowFits, OnARow, Folder
    <3> QED BY <3>2, <3>3
  <2>11. ASSUME NEW d \in Calls PROVE PathTaken(d)'
    <3>1. SUFFICES ASSUME Making(d)' PROVE PathTaken(d)'
      BY DEF PathTaken
    <3>2. d # c /\ call'[d] = call[d] /\ Making(d) /\ PathTaken(d)
      BY <2>1, <3>1 DEF Making, Right, CallsRight
    <3>3. ASSUME NEW j \in Ids, Used(j)' PROVE path'[j] # call[d].p
      BY <2>2, <2>5, <3>2, <3>3 DEF PathTaken, Used
    <3>4. ASSUME NEW e \in Calls, Making(e)' PROVE Making(e) /\ call'[e].p = call[e].p
      BY <2>1, <3>4 DEF Making
    <3> QED BY <1>1, <3>2, <3>3, <3>4 DEF PathTaken
  <2>12. RowsRight'
    BY <1>1, <2>2, <2>3, <2>4 DEF Right, RowsRight, Used, Folder
  <2>13. PathsUnique'
    <3>1. \A j \in Ids : Present(j) => path[j] # p
      BY <1>5 DEF Registered
    <3> QED BY <2>2, <3>1 DEF Right, PathsUnique, Present
  <2> QED BY <2>8, <2>9, <2>10, <2>11, <2>12, <2>13 DEF Right, CallsRight
<1> QED BY <1>3, <1>4, <1>5 DEF Insert

\* The branch that a rollback deletes is nobody else's.
LEMMA UndoBranchRight ==
  ASSUME IInv, NEW c \in Calls, UndoBranch(c)
  PROVE  Right'
<1> USE DEF IInv, git, store
<1> DEFINE p == call[c].p
<1>1. /\ CallFits(c) /\ PathTaken(c) /\ call[c].pc = "unbranch" /\ End(c)
      /\ UNCHANGED <<checkout, row, path>>
  BY DEF UndoBranch, At, Right, CallsRight
<1>2. CASE UNCHANGED branch
  BY <1>1, <1>2, EndStep DEF Folder
<1>3. CASE branch' = [branch EXCEPT ![p] = FALSE]
  <2>1. Making(c)
    BY <1>1 DEF CallFits, Making
  <2>2. /\ \A i \in Ids : Used(i) => path[i] # p
        /\ \A d \in Calls : Making(d) /\ call[d].p = p => d = c
    BY <1>1, <2>1 DEF PathTaken
  <2>3. \A q \in Paths : q # p => branch'[q] = branch[q]
    BY <1>3 DEF TypeOK
  <2>4. /\ \A d \in Calls : d # c => call'[d] = call[d]
        /\ call'[c].pc \in {"idle", "loop"} /\ call'[c].i = Nil /\ call'[c].p = Nil
        /\ call'[c].todo \subseteq call[c].todo
        /\ call'[c].op = Nil \/ (c = Sweeper /\ call'[c].op = call[c].op)
    BY <1>1, EndEffect
  <2>5. Nil \notin {"create", "import", "sweep"}
    BY WorktreesAssumption DEF Operations
  <2>6. ASSUME NEW d \in Calls PROVE CallFits(d)'
    BY <1>1, <2>4, <2>5 DEF CallFits, Right, CallsRight
  <2>7. ASSUME NEW d \in Calls PROVE IdHeld(d)'
    BY <1>1, <2>4, WorktreesAssumption DEF IdHeld, Holding, Used, Right, CallsRight
  <2>8. ASSUME NEW d \in Calls PROVE RowFits(d)'
    <3>1. RowFits(d) /\ call[d].todo \subseteq Ids
      BY DEF Right, CallsRight, TypeOK, Requests
    <3> QED BY <1>1, <2>4, <3>1 DEF RowFits, OnARow, Used, Folder
  <2>9. ASSUME NEW d \in Calls PROVE PathTaken(d)'
    <3>1. SUFFICES ASSUME Making(d)' PROVE PathTaken(d)'
      BY DEF PathTaken
    <3>2. d # c /\ call'[d] = call[d] /\ Making(d) /\ PathTaken(d)
      BY <2>4, <3>1 DEF Making, Right, CallsRight
    <3>3. call[d].p # p /\ call[d].p \in Paths
      BY <2>2, <3>2, WorktreesAssumption DEF Making, CallFits, Right, CallsRight
    <3>4. ASSUME NEW e \in Calls, Making(e)' PROVE Making(e) /\ call'[e].p = call[e].p
      BY <2>4, <3>4 DEF Making
    <3> QED BY <1>1, <2>3, <3>2, <3>3, <3>4 DEF PathTaken, Used
  <2>10. RowsRight' /\ PathsUnique'
    BY <1>1, <2>2, <2>3 DEF Right, RowsRight, PathsUnique, Used, Present, Folder
  <2> QED BY <2>6, <2>7, <2>8, <2>9, <2>10 DEF Right, CallsRight
<1> QED BY <1>2, <1>3 DEF UndoBranch

-----------------------------------------------------------------------------
\* A request begins on a new id, or on a row that is there.
LEMMA BeginRight ==
  ASSUME IInv, NEW c \in Calls, NEW op, NEW new, Begin(c, op, new),
         UNCHANGED <<git, store>>, op \in Operations \ {"sweep"},
         new.op = op, new.todo = {}, new.i \in Ids,
         \/ /\ Fresh(new.i)
            /\ \/ op = "create" /\ new.pc = "add" /\ new.p \in Managed
               \/ op = "import" /\ new.pc = "insert" /\ new.p \in Importable
         \/ /\ Present(new.i) /\ new.pc \in {"git", "status"}
            /\ new.p = path[new.i] /\ op \notin {"create", "import"}
  PROVE  Right'
<1>1. /\ TypeOK /\ UNCHANGED <<checkout, branch, row, path>>
  BY DEF IInv, git, store
<1>2. /\ \A d \in Calls : d # c => call'[d] = call[d]
      /\ call'[c] = new /\ c # Sweeper
  BY <1>1, BeginEffect
<1>3. CallFits(c)' /\ RowFits(c)'
  BY <1>1, <1>2 DEF CallFits, RowFits, OnARow, Used, Present
<1>4. Calm(c)
  BY <1>1, <1>2, <1>3 DEF Calm, Used, Present, Fresh, Holding, Making, Folder
<1> QED BY <1>4, CalmStep

\* The rollback's first half: folders only go.
LEMMA UndoCheckoutRight ==
  ASSUME IInv, NEW c \in Calls, UndoCheckout(c)
  PROVE  Right'
<1>1. /\ TypeOK /\ UNCHANGED <<branch, row, path>> /\ call[c].pc = "undo"
      /\ CallFits(c) /\ RowFits(c) /\ call[c] \in Requests
  BY DEF IInv, UndoCheckout, At, store, Right, CallsRight, TypeOK
<1>2. \A p \in Paths : Folder(p)' => Folder(p)
  BY <1>1 DEF UndoCheckout, PruneFails, Folder, TypeOK
<1>3. /\ \A d \in Calls : d # c => call'[d] = call[d]
      /\ call'[c].pc = "unbranch" /\ call'[c].i = call[c].i
      /\ call'[c].p = call[c].p /\ call'[c].todo = call[c].todo
      /\ call'[c].op = call[c].op
  <2>1. CASE Goto(c, "unbranch")
    BY <1>1, <2>1, GotoEffect
  <2>2. CASE call' = [call EXCEPT ![c] = [@ EXCEPT !.pc = "unbranch", !.ok = FALSE]]
    BY <1>1, <2>2 DEF TypeOK, Requests
  <2> QED BY <2>1, <2>2 DEF UndoCheckout
<1>4. call[c].todo \subseteq Ids
  BY <1>1 DEF Requests
<1>5. CallFits(c)' /\ RowFits(c)'
  BY <1>1, <1>3, <1>4 DEF CallFits, RowFits, OnARow, Used
<1>6. Calm(c)
  BY <1>1, <1>2, <1>3, <1>5 DEF Calm, Used, Present, Holding, Making, CallFits
<1> QED BY <1>6, CalmStep

\* A removal removes the folder of its row's path, or ends.
LEMMA GitRemoveRight ==
  ASSUME IInv, NEW c \in Calls, GitRemove(c)
  PROVE  Right'
<1>1. /\ TypeOK /\ UNCHANGED <<branch, row, path>> /\ call[c].pc = "git"
      /\ OnARow(c) /\ call[c].p \in Paths
  BY DEF IInv, GitRemove, At, store, Right, CallsRight, RowsRight, RowFits, OnARow, Used
<1>2. \A p \in Paths : Folder(p)' => Folder(p)
  BY <1>1 DEF GitRemove, PruneFails, Folder, TypeOK
<1>3. CASE End(c)
  BY <1>1, <1>2, <1>3, EndStep
<1>4. CASE Goto(c, "close") /\ checkout'[call[c].p] \notin {"clean", "dirty"}
  BY <1>1, <1>2, <1>4, GotoStep
<1> QED BY <1>1, <1>3, <1>4 DEF GitRemove, PruneFails, Folder, TypeOK

\* A row goes after its folder.
LEMMA RemoveRowRight ==
  ASSUME IInv, NEW c \in Calls, RemoveRow(c)
  PROVE  Right'
<1> DEFINE i == call[c].i
<1>1. /\ TypeOK /\ UNCHANGED <<checkout, branch, path>> /\ End(c)
      /\ CallFits(c) /\ RowFits(c) /\ call[c].pc = "row" /\ call[c].todo \subseteq Ids
  BY DEF IInv, RemoveRow, At, git, Right, CallsRight, TypeOK, Requests
<1>2. i \in Ids /\ Used(i) /\ ~Folder(path[i])
  BY <1>1 DEF RowFits, OnARow
<1>3. row' = row \/ row' = [row EXCEPT ![i] = "removed"]
  BY DEF RemoveRow
<1>4. \A j \in Ids : /\ Used(j)' <=> Used(j)
                     /\ Present(j)' => Present(j)
                     /\ row'[j] = "removed" => row[j] = "removed" \/ ~Folder(path[j])'
  BY <1>1, <1>2, <1>3 DEF TypeOK, Used, Present, Folder
<1>5. Nil \notin {"create", "import", "sweep"}
  BY WorktreesAssumption DEF Operations
<1>6. /\ \A d \in Calls : d # c => call'[d] = call[d]
      /\ call'[c].pc \in {"idle", "loop"}
      /\ call'[c].i = Nil
      /\ call'[c].todo \subseteq call[c].todo
      /\ call'[c].op = Nil \/ (c = Sweeper /\ call'[c].op = call[c].op)
  BY <1>1, EndEffect
<1>7. CallFits(c)' /\ RowFits(c)' /\ ~Holding(c)' /\ ~Making(c)'
  <2>1. CallFits(c)'
    BY <1>1, <1>4, <1>5, <1>6 DEF CallFits
  <2>2. ~Holding(c)' /\ ~Making(c)' /\ ~OnARow(c)'
    BY <1>6 DEF Holding, Making, OnARow
  <2>3. \A j \in call'[c].todo : Used(j)'
    BY <1>1, <1>4, <1>5, <1>6 DEF RowFits, Used
  <2> QED BY <2>1, <2>2, <2>3, <1>6 DEF RowFits
<1>8. Calm(c)
  BY <1>1, <1>4, <1>7, <1>6 DEF Calm, Used, Present, Folder
<1> QED BY <1>8, CalmStep

\* Archiving and unarchiving change the status of a row that is there.
LEMMA SetStatusRight ==
  ASSUME IInv, NEW c \in Calls, SetStatus(c)
  PROVE  Right'
<1> DEFINE i == call[c].i
<1>1. /\ TypeOK /\ UNCHANGED <<checkout, branch, path>> /\ End(c)
      /\ CallFits(c) /\ RowFits(c) /\ call[c].todo \subseteq Ids
  BY DEF IInv, SetStatus, At, git, Right, CallsRight, TypeOK, Requests
<1>2. \A j \in Ids : /\ Used(j)' <=> Used(j)
                     /\ Present(j)' => Present(j)
                     /\ row'[j] = "removed" => row[j] = "removed"
  <2>1. CASE row' = row
    BY <2>1 DEF Used, Present
  <2>2. CASE row' = [row EXCEPT ![i] = IF Present(i) THEN NewStatus(c) ELSE @]
    <3>1. NewStatus(c) \in {"active", "archived"}
      BY DEF NewStatus
    <3>2. ASSUME NEW j \in Ids
          PROVE  row'[j] = row[j] \/ (Present(j) /\ row'[j] = NewStatus(c))
      BY <1>1, <2>2 DEF TypeOK
    <3> QED BY <3>1, <3>2 DEF Used, Present
  <2> QED BY <2>1, <2>2 DEF SetStatus
<1>3. Nil \notin {"create", "import", "sweep"}
  BY WorktreesAssumption DEF Operations
<1>4. /\ \A d \in Calls : d # c => call'[d] = call[d]
      /\ call'[c].pc \in {"idle", "loop"}
      /\ call'[c].i = Nil
      /\ call'[c].todo \subseteq call[c].todo
      /\ call'[c].op = Nil \/ (c = Sweeper /\ call'[c].op = call[c].op)
  BY <1>1, EndEffect
<1>5. CallFits(c)' /\ RowFits(c)' /\ ~Holding(c)' /\ ~Making(c)'
  <2>1. CallFits(c)'
    BY <1>1, <1>2, <1>3, <1>4 DEF CallFits
  <2>2. ~Holding(c)' /\ ~Making(c)' /\ ~OnARow(c)'
    BY <1>4 DEF Holding, Making, OnARow
  <2>3. \A j \in call'[c].todo : Used(j)'
    BY <1>1, <1>2, <1>3, <1>4 DEF RowFits, Used
  <2> QED BY <2>1, <2>2, <2>3, <1>4 DEF RowFits
<1>6. Calm(c)
  BY <1>1, <1>2, <1>5, <1>4 DEF Calm, Used, Present, Folder
<1> QED BY <1>6, CalmStep

\* The sweep remembers rows by what they were when it listed them.
LEMMA SweepRight ==
  ASSUME IInv, Sweep \/ SweepEnd \/ \E i \in Ids : SweepRow(i)
  PROVE  Right'
<1>1. /\ TypeOK /\ UNCHANGED <<checkout, branch, row, path>> /\ Sweeper \in Calls
      /\ CallFits(Sweeper) /\ RowFits(Sweeper) /\ call[Sweeper].todo \subseteq Ids
  BY WorktreesAssumption
     DEF IInv, Sweep, SweepEnd, SweepRow, git, store, Right, CallsRight, TypeOK, Requests
<1>2. Nil \notin {"create", "import", "sweep"}
  BY WorktreesAssumption DEF Operations
<1>3. /\ \A d \in Calls : d # Sweeper => call'[d] = call[d]
      /\ call'[Sweeper].op \in {Nil, "sweep"}
      /\ call'[Sweeper].pc \in {"idle", "loop", "git"}
      /\ \A i \in call'[Sweeper].todo : i \in Ids /\ Used(i)
      /\ \/ call'[Sweeper].i = Nil /\ call'[Sweeper].pc # "git"
         \/ /\ call'[Sweeper].i \in Ids /\ Used(call'[Sweeper].i)
            /\ call'[Sweeper].p = path[call'[Sweeper].i]
  <2>1. CASE Sweep
    BY <1>1, <2>1 DEF Sweep, IdleCall, TypeOK, Used
  <2>2. CASE SweepEnd
    BY <1>1, <2>2 DEF SweepEnd, IdleCall, TypeOK
  <2>3. ASSUME NEW i \in Ids, SweepRow(i)
        PROVE  /\ \A d \in Calls : d # Sweeper => call'[d] = call[d]
               /\ call'[Sweeper].op = "sweep" /\ call'[Sweeper].pc = "git"
               /\ call'[Sweeper].i = i /\ call'[Sweeper].p = path[i] /\ Used(i)
               /\ call'[Sweeper].todo = call[Sweeper].todo \ {i}
    BY <1>1, <2>3 DEF SweepRow, OnRow, IdleCall, TypeOK, RowFits
  <2> QED BY <1>1, <2>1, <2>2, <2>3 DEF RowFits
<1>4. CallFits(Sweeper)' /\ RowFits(Sweeper)'
  BY <1>1, <1>2, <1>3 DEF CallFits, RowFits, OnARow, Used
<1>5. Calm(Sweeper)
  BY <1>1, <1>2, <1>3, <1>4 DEF Calm, Used, Present, Holding, Making, Folder
<1> QED BY <1>1, <1>5, CalmStep

\* Editing, deleting folders by hand, pins and time.
LEMMA OutsideRight ==
  ASSUME IInv, Outside \/ UNCHANGED vars
  PROVE  Right'
<1>1. TypeOK /\ UNCHANGED <<branch, row, path, call>> /\ Sweeper \in Calls
  BY WorktreesAssumption
     DEF IInv, Outside, Edit, Vanish, Age, Pin, vars, git, store
<1>2. \A p \in Paths : Folder(p)' => Folder(p)
  BY <1>1 DEF Outside, Edit, Vanish, Age, Pin, vars, git, Folder, TypeOK
<1>3. CallFits(Sweeper) /\ RowFits(Sweeper) /\ call[Sweeper].todo \subseteq Ids
  BY <1>1 DEF IInv, Right, CallsRight, TypeOK, Requests
<1>4. CallFits(Sweeper)' /\ RowFits(Sweeper)'
  <2>1. OnARow(Sweeper) => call[Sweeper].p \in Paths
    BY <1>3 DEF IInv, Right, RowsRight, RowFits
  <2> QED BY <1>1, <1>2, <1>3, <2>1 DEF CallFits, RowFits, OnARow, Used
<1>5. Calm(Sweeper)
  BY <1>1, <1>2, <1>4 DEF Calm, Used, Present, Holding, Making
<1> QED BY <1>1, <1>5, CalmStep

\* Every step keeps the invariant.
LEMMA StepIInv == IInv /\ [Next]_vars => IInv'
<1> SUFFICES ASSUME IInv, [Next]_vars PROVE IInv'
  OBVIOUS
<1>1. TypeOK'
  BY StepTypeOK DEF IInv
<1>2. ASSUME NEW c \in Calls, Request(c) PROVE Right'
  <2>1. ASSUME NEW p \in Paths, NEW i \in Ids, Create(c, p, i) PROVE Right'
    <3> DEFINE new == [IdleCall EXCEPT !.op = "create", !.pc = "add", !.p = p, !.i = i]
    <3>1. new.op = "create" /\ new.pc = "add" /\ new.p = p /\ new.i = i /\ new.todo = {}
      BY DEF IdleCall
    <3> QED BY <2>1, <3>1, BeginRight DEF Create, Operations
  <2>2. ASSUME NEW p \in Paths, NEW i \in Ids, Import(c, p, i) PROVE Right'
    <3> DEFINE new == [IdleCall EXCEPT !.op = "import", !.pc = "insert", !.p = p, !.i = i]
    <3>1. new.op = "import" /\ new.pc = "insert" /\ new.p = p /\ new.i = i /\ new.todo = {}
      BY DEF IdleCall
    <3> QED BY <2>2, <3>1, BeginRight DEF Import, Operations
  <2>3. ASSUME NEW i \in Ids, NEW force \in BOOLEAN, Delete(c, i, force) PROVE Right'
    <3> DEFINE new == [OnRow("delete", "git", i) EXCEPT !.force = force]
    <3>1. /\ new.op = "delete" /\ new.pc = "git" /\ new.i = i
          /\ new.p = path[i] /\ new.todo = {}
      BY DEF OnRow, IdleCall
    <3> QED BY <2>3, <3>1, BeginRight DEF Delete, Operations
  <2>4. ASSUME NEW i \in Ids, Archive(c, i) \/ Unarchive(c, i) PROVE Right'
    BY <2>4, OnRowEffect, BeginRight DEF Archive, Unarchive, Operations
  <2> QED BY <1>2, <2>1, <2>2, <2>3, <2>4 DEF Request
<1>3. ASSUME NEW c \in Calls, Progress(c) PROVE Right'
  <2>1. CASE CloseTerminals(c)
    <3>1. /\ call[c].pc = "close" /\ UNCHANGED <<checkout, branch, row, path>>
          /\ OnARow(c)
      BY <2>1 DEF CloseTerminals, At, git, store, OnARow
    <3>2. \A p \in Paths : Folder(p)' => Folder(p)
      BY <3>1 DEF Folder
    <3>3. checkout'[call[c].p] \notin {"clean", "dirty"}
      BY <3>1 DEF IInv, Right, CallsRight, RowFits, Folder
    <3> QED BY <2>1, <3>1, <3>2, <3>3, EndStep, GotoStep DEF CloseTerminals
  <2> QED BY <1>3, <2>1, GitAddRight, InsertRight, UndoCheckoutRight, UndoBranchRight,
             GitRemoveRight, RemoveRowRight, SetStatusRight DEF Progress
<1> QED BY <1>1, <1>2, <1>3, SweepRight, OutsideRight DEF Next, IInv

\* The invariant holds in every reachable state.
THEOREM Invariance == Spec => []IInv
BY InitIInv, StepIInv, PTL DEF Spec

\* The store's rows, git's checkouts and the requests keep their types.
THEOREM TypeCorrect == Spec => []TypeOK
BY Invariance, PTL DEF IInv

-----------------------------------------------------------------------------
\* Which steps touch git or the answers of failed creates at all.
LEMMA GitSteps ==
  ASSUME [Next]_vars
  PROVE  \/ \E c \in Calls : GitAdd(c) \/ UndoCheckout(c) \/ UndoBranch(c) \/ GitRemove(c)
         \/ \E p \in Paths : Edit(p) \/ Vanish(p)
         \/ UNCHANGED <<checkout, branch, told>>
<1> USE DEF git, store
<1>1. ASSUME NEW c \in Calls, Request(c) PROVE UNCHANGED <<checkout, branch, told>>
  BY <1>1 DEF Request, Create, Import, Delete, Archive, Unarchive
<1>2. ASSUME NEW c \in Calls, Insert(c) \/ CloseTerminals(c) \/ RemoveRow(c) \/ SetStatus(c)
      PROVE  UNCHANGED <<checkout, branch, told>>
  BY <1>2 DEF Insert, CloseTerminals, RemoveRow, SetStatus
<1>3. CASE Sweep \/ SweepEnd \/ \E i \in Ids : SweepRow(i)
  BY <1>3 DEF Sweep, SweepEnd, SweepRow
<1>4. CASE Outside
  BY <1>4 DEF Outside, Age, Pin
<1>5. CASE UNCHANGED vars
  BY <1>5 DEF vars
<1> QED BY <1>1, <1>2, <1>3, <1>4, <1>5 DEF Next, Progress

\* Nothing that is safe to retry becomes unsafe unless a create takes it.
LEMMA StepSafeToRetry ==
  IInv /\ SafeToRetry /\ [Next]_vars => SafeToRetry'
<1> SUFFICES ASSUME IInv, SafeToRetry, [Next]_vars, NEW p \in Paths, told'[p] = "safe"
             PROVE  checkout'[p] = "none" /\ ~branch'[p]
  BY DEF SafeToRetry
<1> USE DEF IInv, git, store
<1>1. ASSUME NEW c \in Calls, GitAdd(c) PROVE checkout'[p] = "none" /\ ~branch'[p]
  BY <1>1 DEF GitAdd, TypeOK, SafeToRetry
<1>2. ASSUME NEW c \in Calls, UndoCheckout(c) PROVE checkout'[p] = "none" /\ ~branch'[p]
  BY <1>2 DEF UndoCheckout, PruneFails, TypeOK, SafeToRetry
<1>3. ASSUME NEW c \in Calls, UndoBranch(c) PROVE checkout'[p] = "none" /\ ~branch'[p]
  BY <1>3 DEF UndoBranch, TypeOK, SafeToRetry
<1>4. ASSUME NEW c \in Calls, GitRemove(c) PROVE checkout'[p] = "none" /\ ~branch'[p]
  BY <1>4 DEF GitRemove, PruneFails, TypeOK, SafeToRetry
<1>5. ASSUME NEW q \in Paths, Edit(q) \/ Vanish(q)
      PROVE  checkout'[p] = "none" /\ ~branch'[p]
  BY <1>5 DEF Edit, Vanish, Folder, TypeOK, SafeToRetry
<1>6. CASE UNCHANGED <<checkout, branch, told>>
  BY <1>6 DEF SafeToRetry
<1> QED BY GitSteps, <1>1, <1>2, <1>3, <1>4, <1>5, <1>6

\* When createWorktree answers that the worktree "was rolled back, safe to
\* retry", git has neither the checkout nor the branch.
THEOREM RetryIsSafe == Spec => []SafeToRetry
<1>1. Init => SafeToRetry
  BY DEF Init, SafeToRetry
<1> QED BY <1>1, StepSafeToRetry, Invariance, PTL DEF Spec

-----------------------------------------------------------------------------
Makes(c, p) == call[c].p = p /\ call[c].pc \in {"insert", "undo", "unbranch"}
Known(p) == Registered(p) \/ (\E c \in Calls : Makes(c, p)) \/ told[p] \in {"manual", "left"}

\* A path stays known if its row stays and the request that made its checkout
\* does not forget it.
LEMMA StaysKnown ==
  ASSUME NEW p \in Managed, Known(p), NEW c \in Calls,
         \A i \in Ids : Present(i) /\ path[i] = p => Present(i)' /\ path'[i] = p,
         told[p] \in {"manual", "left"} => told'[p] \in {"manual", "left"},
         \A d \in Calls : d # c => call'[d] = call[d],
         Makes(c, p) => Makes(c, p)' \/ Known(p)'
  PROVE  Known(p)'
<1>1. CASE Registered(p)
  BY <1>1 DEF Known, Registered, Present
<1>2. ASSUME NEW d \in Calls, Makes(d, p) PROVE Known(p)'
  BY <1>2 DEF Known, Makes
<1>3. CASE told[p] \in {"manual", "left"}
  BY <1>3 DEF Known
<1> QED BY <1>1, <1>2, <1>3 DEF Known

\* Every step keeps the checkouts known.
LEMMA StepCheckoutsKnown ==
  IInv /\ CheckoutsKnown /\ [Next]_vars => CheckoutsKnown'
<1> SUFFICES ASSUME IInv, CheckoutsKnown, [Next]_vars, NEW p \in Managed, Folder(p)'
             PROVE  Known(p)'
  BY DEF CheckoutsKnown, Known, Makes
<1> USE DEF IInv, git, store
<1>path. p \in Paths
  BY WorktreesAssumption
<1>known. Folder(p) => Known(p)
  BY DEF CheckoutsKnown, Known, Makes
<1>1. ASSUME NEW c \in Calls, Request(c) PROVE Known(p)'
  <2>1. /\ Folder(p) /\ UNCHANGED <<row, path, told>> /\ call[c].pc = "idle"
        /\ \A d \in Calls : d # c => call'[d] = call[d]
    BY <1>1 DEF Request, Create, Import, Delete, Archive, Unarchive, Begin, At,
                Folder, TypeOK
  <2> QED BY <1>known, <2>1, StaysKnown DEF Makes, Present
<1>2. ASSUME NEW c \in Calls, GitAdd(c) PROVE Known(p)'
  <2>1. /\ UNCHANGED <<row, path>> /\ call[c].pc = "add" /\ call[c].p \in Paths
    BY <1>2, WorktreesAssumption DEF GitAdd, At, Right, CallsRight, CallFits
  <2>2. CASE End(c) /\ UNCHANGED <<git, told>>
    BY <1>known, <2>1, <2>2, EndEffect, StaysKnown DEF Makes, Present, Folder
  <2>3. CASE /\ checkout' = [checkout EXCEPT ![call[c].p] = "clean"]
             /\ told' = [told EXCEPT ![call[c].p] = "nothing"]
             /\ Goto(c, "insert")
    <3>1. CASE p = call[c].p
      BY <2>3, <3>1, GotoEffect DEF Known, Makes
    <3>2. CASE p # call[c].p
      <4>1. Folder(p) /\ told'[p] = told[p]
        BY <1>path, <2>1, <2>3, <3>2 DEF Folder, TypeOK
      <4> QED BY <1>known, <2>1, <2>3, <3>2, <4>1, GotoEffect, StaysKnown DEF Makes, Present
    <3> QED BY <3>1, <3>2
  <2>4. CASE /\ checkout' \in {checkout, [checkout EXCEPT ![call[c].p] = "clean"]}
             /\ checkout' = checkout => checkout[call[c].p] = "none"
             /\ told' = [told EXCEPT ![call[c].p] = IF checkout' = checkout THEN "nothing" ELSE "left"]
             /\ End(c)
    <3>1. CASE p = call[c].p
      <4>1. checkout' # checkout
        BY <1>path, <2>4, <3>1 DEF Folder
      <4> QED BY <1>path, <2>4, <3>1, <4>1 DEF Known, TypeOK
    <3>2. CASE p # call[c].p
      <4>1. Folder(p) /\ told'[p] = told[p]
        BY <1>path, <2>1, <2>4, <3>2 DEF Folder, TypeOK
      <4> QED BY <1>known, <2>1, <2>4, <3>2, <4>1, EndEffect, StaysKnown DEF Makes, Present
    <3> QED BY <3>1, <3>2
  <2>5. ASSUME checkout[call[c].p] = "none", checkout' = [checkout EXCEPT ![call[c].p] = "clean"]
        PROVE  checkout' # checkout
    BY <2>1, <2>5 DEF TypeOK
  <2> QED BY <1>2, <2>1, <2>2, <2>3, <2>4, <2>5 DEF GitAdd
<1>3. ASSUME NEW c \in Calls, Insert(c) PROVE Known(p)'
  <2>1. /\ Folder(p) /\ UNCHANGED told /\ call[c].pc = "insert" /\ CallFits(c) /\ IdHeld(c)
    BY <1>3 DEF Insert, At, Folder, Right, CallsRight
  <2>2. call[c].i \in Ids /\ ~Present(call[c].i)
    BY <2>1 DEF IdHeld, Holding, Used, Present
  <2>3. CASE /\ row' = [row EXCEPT ![call[c].i] = "active"]
             /\ path' = [path EXCEPT ![call[c].i] = call[c].p]
             /\ End(c)
    <3>1. \A i \in Ids : Present(i) /\ path[i] = p => Present(i)' /\ path'[i] = p
      BY <2>2, <2>3 DEF Present, TypeOK
    <3>2. Makes(c, p) => Registered(p)'
      BY <2>2, <2>3 DEF Makes, Registered, Present, TypeOK
    <3> QED BY <1>known, <2>1, <2>3, <3>1, <3>2, EndEffect, StaysKnown DEF Known
  <2>4. CASE call[c].op = "create" /\ Goto(c, "undo") /\ UNCHANGED <<row, path>>
    BY <1>known, <2>1, <2>4, GotoEffect, StaysKnown DEF Makes, Present
  <2>5. CASE call[c].op # "create" /\ End(c) /\ UNCHANGED <<row, path>>
    <3>1. ~Makes(c, p)
      BY <2>1, <2>5, WorktreesAssumption DEF Makes, CallFits
    <3> QED BY <1>known, <2>1, <2>5, <3>1, EndEffect, StaysKnown DEF Present
  <2> QED BY <1>3, <2>3, <2>4, <2>5 DEF Insert
<1>4. ASSUME NEW c \in Calls, UndoCheckout(c) PROVE Known(p)'
  <2>1. /\ UNCHANGED <<row, path, told>> /\ call[c].pc = "undo" /\ call[c] \in Requests
    BY <1>4 DEF UndoCheckout, At, TypeOK
  <2>2. Folder(p)
    BY <1>4, <1>path DEF UndoCheckout, PruneFails, Folder, TypeOK
  <2>3. /\ \A d \in Calls : d # c => call'[d] = call[d]
        /\ call'[c].pc = "unbranch" /\ call'[c].p = call[c].p
    <3>1. CASE Goto(c, "unbranch")
      BY <3>1, GotoEffect
    <3>2. CASE call' = [call EXCEPT ![c] = [@ EXCEPT !.pc = "unbranch", !.ok = FALSE]]
      BY <2>1, <3>2 DEF TypeOK, Requests
    <3> QED BY <1>4, <3>1, <3>2 DEF UndoCheckout
  <2> QED BY <1>known, <2>1, <2>2, <2>3, StaysKnown DEF Makes, Present
<1>5. ASSUME NEW c \in Calls, UndoBranch(c) PROVE Known(p)'
  <2>1. /\ Folder(p) /\ UNCHANGED <<checkout, row, path>> /\ call[c].pc = "unbranch" /\ End(c)
        /\ call[c].p \in Paths
    BY <1>5, WorktreesAssumption DEF UndoBranch, At, Folder, Right, CallsRight, CallFits
  <2>2. CASE p = call[c].p
    <3>1. told'[p] = "manual"
      BY <1>5, <1>path, <2>1, <2>2 DEF UndoBranch, Folder, TypeOK
    <3> QED BY <3>1 DEF Known
  <2>3. CASE p # call[c].p
    <3>1. told'[p] = told[p]
      BY <1>5, <1>path, <2>3 DEF UndoBranch, TypeOK
    <3> QED BY <1>known, <2>1, <2>3, <3>1, EndEffect, StaysKnown DEF Makes, Present
  <2> QED BY <2>2, <2>3
<1>6. ASSUME NEW c \in Calls, GitRemove(c) PROVE Known(p)'
  <2>1. UNCHANGED <<row, path, told>> /\ call[c].pc = "git"
    BY <1>6 DEF GitRemove, At
  <2>2. Folder(p)
    BY <1>6, <1>path DEF GitRemove, PruneFails, Folder, TypeOK
  <2>3. \A d \in Calls : d # c => call'[d] = call[d]
    BY <1>6, EndEffect, GotoEffect DEF GitRemove
  <2> QED BY <1>known, <2>1, <2>2, <2>3, StaysKnown DEF Makes, Present
<1>7. ASSUME NEW c \in Calls, CloseTerminals(c) PROVE Known(p)'
  <2>1. /\ Folder(p) /\ UNCHANGED <<row, path, told>> /\ call[c].pc = "close"
        /\ \A d \in Calls : d # c => call'[d] = call[d]
    BY <1>7, EndEffect, GotoEffect DEF CloseTerminals, At, Folder
  <2> QED BY <1>known, <2>1, StaysKnown DEF Makes, Present
<1>8. ASSUME NEW c \in Calls, RemoveRow(c) PROVE Known(p)'
  <2>1. /\ Folder(p) /\ UNCHANGED <<path, told>> /\ call[c].pc = "row" /\ End(c)
        /\ RowFits(c)
    BY <1>8 DEF RemoveRow, At, Folder, Right, CallsRight
  <2>2. call[c].i \in Ids /\ path[call[c].i] # p
    BY <2>1 DEF RowFits, OnARow
  <2>3. \A i \in Ids : path[i] = p => row'[i] = row[i]
    BY <1>8, <2>2 DEF RemoveRow, TypeOK
  <2> QED BY <1>known, <2>1, <2>3, EndEffect, StaysKnown DEF Makes, Present
<1>9. ASSUME NEW c \in Calls, SetStatus(c) PROVE Known(p)'
  <2>1. /\ Folder(p) /\ UNCHANGED <<path, told>> /\ call[c].pc = "status" /\ End(c)
    BY <1>9 DEF SetStatus, At, Folder
  <2>2. ASSUME NEW i \in Ids, Present(i) PROVE Present(i)'
    <3>1. NewStatus(c) \in {"active", "archived"}
      BY DEF NewStatus
    <3>2. row'[i] = row[i] \/ row'[i] = NewStatus(c)
      BY <1>9, <2>2 DEF SetStatus, TypeOK
    <3> QED BY <2>2, <3>1, <3>2 DEF Present
  <2> QED BY <1>known, <2>1, <2>2, EndEffect, StaysKnown DEF Makes
<1>10. CASE Sweep \/ SweepEnd \/ \E i \in Ids : SweepRow(i)
  <2>1. /\ Folder(p) /\ UNCHANGED <<row, path, told>> /\ Sweeper \in Calls
        /\ call[Sweeper].pc \in {"idle", "loop"}
        /\ \A d \in Calls : d # Sweeper => call'[d] = call[d]
    BY <1>10, WorktreesAssumption DEF Sweep, SweepEnd, SweepRow, At, Folder, TypeOK
  <2> QED BY <1>known, <2>1, StaysKnown DEF Makes, Present
<1>11. CASE Outside \/ UNCHANGED vars
  <2>1. UNCHANGED <<row, path, told, call>> /\ Sweeper \in Calls
    BY <1>11, WorktreesAssumption DEF Outside, Edit, Vanish, Age, Pin, vars
  <2>2. Folder(p)
    BY <1>11, <1>path DEF Outside, Edit, Vanish, Age, Pin, vars, Folder, TypeOK
  <2> QED BY <1>known, <2>1, <2>2, StaysKnown DEF Makes, Present
<1> QED BY <1>1, <1>2, <1>3, <1>4, <1>5, <1>6, <1>7, <1>8, <1>9, <1>10, <1>11
        DEF Next, Progress

\* The server never forgets a checkout it has made, whichever of its calls of
\* git and of the store fail and in whatever order requests interleave.
THEOREM NothingForgotten == Spec => []CheckoutsKnown
<1>1. Init => CheckoutsKnown
  BY WorktreesAssumption DEF Init, CheckoutsKnown, Folder
<1> QED BY <1>1, StepCheckoutsKnown, Invariance, PTL DEF Spec

-----------------------------------------------------------------------------
\* A removal takes the checkout of its own row only, although it works on a
\* path that it read before.
THEOREM RemovalsTakeTheirOwn == Spec => OwnCheckoutOnly
<1> DEFINE Own ==
      \A i \in Ids :
        LET p == path[i] IN
        Present(i) /\ Folder(p) /\ checkout'[p] = "none" =>
          \E c \in Calls : call[c].i = i /\ At(c, "git") /\ At(c, "close")'
<1>1. IInv /\ [Next]_vars => [Own]_vars
  <2> SUFFICES ASSUME IInv, [Next]_vars, NEW i \in Ids, Present(i), Folder(path[i]),
                      checkout'[path[i]] = "none"
               PROVE  \E c \in Calls : call[c].i = i /\ At(c, "git") /\ At(c, "close")'
    OBVIOUS
  <2> USE DEF IInv
  <2>1. path[i] \in Paths /\ Used(i)
    BY DEF Used, Present, Right, RowsRight
  <2>2. ASSUME NEW c \in Calls, GitAdd(c) PROVE FALSE
    BY <2>1, <2>2 DEF GitAdd, Folder, TypeOK, git
  <2>3. ASSUME NEW c \in Calls, UndoCheckout(c) PROVE FALSE
    <3>1. Making(c) /\ PathTaken(c)
      BY <2>3 DEF UndoCheckout, At, Making, Right, CallsRight, CallFits
    <3>2. path[i] # call[c].p
      BY <2>1, <3>1 DEF PathTaken
    <3> QED BY <2>1, <2>3, <3>2 DEF UndoCheckout, PruneFails, Folder, TypeOK
  <2>4. ASSUME NEW c \in Calls, GitRemove(c)
        PROVE  call[c].i = i /\ At(c, "git") /\ At(c, "close")'
    <3>1. path[i] = call[c].p
      BY <2>1, <2>4 DEF GitRemove, PruneFails, Folder, TypeOK
    <3>2. /\ call[c].pc = "git" /\ call[c].i \in Ids /\ Used(call[c].i)
          /\ path[call[c].i] = call[c].p
      BY <2>4 DEF GitRemove, At, Right, CallsRight, RowFits, OnARow
    <3>3. Present(call[c].i)
      BY <3>1, <3>2 DEF Present, Used, TypeOK, Right, RowsRight
    <3>4. call[c].i = i
      BY <3>1, <3>2, <3>3 DEF Right, PathsUnique
    <3>5. Goto(c, "close")
      BY <2>1, <2>4, <3>1 DEF GitRemove, Folder
    <3> QED BY <3>2, <3>4, <3>5, GotoEffect DEF At
  <2>5. ASSUME NEW q \in Paths, Edit(q) \/ Vanish(q) PROVE FALSE
    BY <2>1, <2>5 DEF Edit, Vanish, Folder, TypeOK
  <2>6. CASE UNCHANGED <<checkout, branch, told>>
    BY <2>6 DEF Folder
  <2>7. CASE \E c \in Calls : UndoBranch(c)
    BY <2>7 DEF UndoBranch, Folder
  <2> QED BY GitSteps, <2>2, <2>3, <2>4, <2>5, <2>6, <2>7
<1> QED BY Invariance, <1>1, PTL DEF Spec, OwnCheckoutOnly
=============================================================================
