-------------------------------- MODULE Tasks --------------------------------
(***************************************************************************)
(* Tasks as labels on worktrees, their user-defined statuses, and the      *)
(* settling of a task's status after its worktrees change: internal/api's  *)
(* tasks.go and internal/store's.                                          *)
(*                                                                         *)
(* A request reads its worktree first and keeps what it read.  Every later *)
(* read or write of the store is a statement of its own, with statements   *)
(* of other requests in between; a step here is one statement, but for the *)
(* reads of a settle.  Titles, names and links are left out.               *)
(***************************************************************************)
EXTENDS Naturals, FiniteSets, Sequences

CONSTANTS
  Trees,      \* worktrees, each created once
  External,   \* keys of tasks of other sources
  MaxLocal,   \* bound: local tasks, numbered from 1
  MaxStatus,  \* bound: ids of statuses, and their positions
  Calls,      \* requests at the same time
  Ops,        \* which requests occur
  Nil         \* no worktree, no task, no status

Operations == {"create", "label", "archive", "unarchive", "remove",
               "addstatus", "reorder", "delstatus", "edit"}
Local == 1..MaxLocal
Tasks == Local \cup External
Statuses == 1..MaxStatus

ASSUME TasksAssumption ==
  /\ MaxLocal \in Nat /\ MaxStatus \in Nat \ {0, 1}
  /\ Ops \subseteq Operations
  /\ Nil \notin Trees \cup Tasks \cup Nat /\ Nil \notin Operations
  /\ External \cap Local = {}

VARIABLES
  tree,    \* worktrees.status; "none" before, "gone" after there is a row
  label,   \* worktrees.task_source and task_key
  place,   \* task_statuses.position of each status id, Nil without a row
  status,  \* tasks.status_id, Nil without a row
  call     \* the requests in progress

rows == <<tree, label>>
vars == <<rows, place, status, call>>

IdleCall == [op |-> Nil, pc |-> "idle", w |-> Nil, new |-> FALSE, k |-> Nil,
             old |-> Nil, todo |-> <<>>, s |-> Nil]
CallStates == {"idle", "row", "first", "key", "insert", "ensure", "label",
               "settle", "move", "total", "delete"}
Requests ==
  [op : Operations \cup {Nil}, pc : CallStates, w : Trees \cup {Nil},
   new : BOOLEAN, k : Tasks \cup {Nil}, old : Tasks \cup {Nil},
   todo : UNION {[1..n -> Tasks] : n \in 0..2},
   s : Statuses \cup {Nil}]

TypeOK ==
  /\ tree \in [Trees -> {"none", "active", "archived", "gone"}]
  /\ label \in [Trees -> Tasks \cup {Nil}]
  /\ place \in [Statuses -> (0..MaxStatus) \cup {Nil}]
  /\ status \in [Tasks -> Statuses \cup {Nil}]
  /\ call \in [Calls -> Requests]

\* Two of the statuses a new store has; some worktrees have been made.
Init ==
  /\ tree \in [Trees -> {"none", "active"}]
  /\ label = [w \in Trees |-> Nil]
  /\ place = [s \in Statuses |-> IF s <= 2 THEN s - 1 ELSE Nil]
  /\ status = [t \in Tasks |-> Nil]
  /\ call = [c \in Calls |-> IdleCall]

Present == {s \in Statuses : place[s] # Nil}
Before(s, r) == place[s] < place[r] \/ (place[s] = place[r] /\ s < r)
First == CHOOSE s \in Present : \A r \in Present \ {s} : Before(s, r)
Last  == CHOOSE s \in Present : \A r \in Present \ {s} : Before(r, s)
Row(w) == tree[w] \in {"active", "archived"}
ActiveOn(t) == \E w \in Trees : label[w] = t /\ tree[w] = "active"
-----------------------------------------------------------------------------
At(c, pc) == call[c].pc = pc
Goto(c, pc) == call' = [call EXCEPT ![c] = [@ EXCEPT !.pc = pc]]
Finish(c) == call' = [call EXCEPT ![c] = IdleCall]
Begin(c, op, new) ==
  /\ op \in Ops /\ At(c, "idle")
  /\ call' = [call EXCEPT ![c] = new]

\* Settle these tasks, one after the other; there is nothing to do for no task.
Named(t) == IF t = Nil THEN <<>> ELSE <<t>>
Settle(c, todo) ==
  call' = [call EXCEPT ![c] = IF todo = <<>> THEN IdleCall ELSE
    [IdleCall EXCEPT !.op = call[c].op, !.pc = "settle", !.k = call[c].k, !.todo = todo]]
-----------------------------------------------------------------------------
(***************************************************************************)
(* Requests that carry a task reference: a label set or cleared, a         *)
(* worktree created with one.                                              *)
(***************************************************************************)
Steps(ref) == IF ref = "clear" THEN "label" ELSE "first"

\* A reference the request may bring.  A local key must have a task already.
Ref(ref, k) ==
  \/ ref \in {"clear", "new"} /\ k = Nil
  \/ ref = "key" /\ k \in External
  \/ ref = "key" /\ k \in Local /\ status[k] # Nil

SetTask(c, w, ref, k) ==      \* handleSetWorktreeTask, of the row just read
  /\ Row(w) /\ Ref(ref, k)
  /\ Begin(c, "label", [IdleCall EXCEPT !.op = "label", !.pc = Steps(ref), !.w = w,
                          !.new = (ref = "new"), !.k = k, !.old = label[w]])
  /\ UNCHANGED <<rows, place, status>>

Create(c, w, ref, k) ==       \* createWorktree up to the row it adds
  /\ tree[w] = "none" /\ ref # "clear" /\ Ref(ref, k)
  /\ Begin(c, "create", [IdleCall EXCEPT !.op = "label", !.pc = Steps(ref), !.w = w,
                           !.new = (ref = "new"), !.k = k])
  /\ tree' = [tree EXCEPT ![w] = "active"]
  /\ UNCHANGED <<label, place, status>>

LocalUsed == {k \in Local : status[k] # Nil}
NextKey == 1 + Cardinality(LocalUsed)     \* keys are sequential: MAX + 1

\* CreateLocalTask and EnsureTask first read the status the task will have.
ReadFirst(c) ==
  /\ At(c, "first")
  /\ IF Present = {} THEN Finish(c)
     ELSE call' = [call EXCEPT ![c] =
            [@ EXCEPT !.pc = IF call[c].new THEN "key" ELSE "ensure", !.s = First]]
  /\ UNCHANGED <<rows, place, status>>

PickKey(c) ==                 \* CreateLocalTask's number
  /\ At(c, "key") /\ NextKey \in Local
  /\ call' = [call EXCEPT ![c] = [@ EXCEPT !.pc = "insert", !.k = NextKey]]
  /\ UNCHANGED <<rows, place, status>>

InsertLocalAnyway(c) ==
  /\ At(c, "insert")
  /\ LET k == call[c].k IN
     IF place[call[c].s] # Nil
     THEN /\ status' = [status EXCEPT ![k] = call[c].s]
          /\ Goto(c, "label")
     ELSE Finish(c) /\ UNCHANGED status
  /\ UNCHANGED <<rows, place>>

\* CreateLocalTask's insert: the key may be taken, the status deleted.
InsertLocal(c) ==
  /\ At(c, "insert")
  /\ LET k == call[c].k IN
     IF status[k] = Nil /\ place[call[c].s] # Nil
     THEN /\ status' = [status EXCEPT ![k] = call[c].s]
          /\ Goto(c, "label")
     ELSE Finish(c) /\ UNCHANGED status
  /\ UNCHANGED <<rows, place>>

\* EnsureTask's insert does nothing to a task that is there; for one that is
\* not, the status may have been deleted.
Ensure(c) ==
  /\ At(c, "ensure")
  /\ LET k == call[c].k IN
     IF status[k] # Nil \/ place[call[c].s] # Nil
     THEN /\ status' = [status EXCEPT ![k] = IF @ = Nil THEN call[c].s ELSE @]
          /\ Goto(c, "label")
     ELSE Finish(c) /\ UNCHANGED status
  /\ UNCHANGED <<rows, place>>

SetLabelNewOnly(c) ==
  /\ At(c, "label")
  /\ LET w == call[c].w
         k == call[c].k IN
     IF Row(w)
     THEN label' = [label EXCEPT ![w] = k] /\ Settle(c, Named(k))
     ELSE Finish(c) /\ UNCHANGED label
  /\ UNCHANGED <<tree, place, status>>

\* SetWorktreeTask; then the old task is settled if it is another, and the new.
SetLabel(c) ==
  /\ At(c, "label")
  /\ LET w == call[c].w
         k == call[c].k
         old == call[c].old IN
     IF Row(w)
     THEN /\ label' = [label EXCEPT ![w] = k]
          /\ Settle(c, IF old = k THEN Named(k) ELSE Named(old) \o Named(k))
     ELSE Finish(c) /\ UNCHANGED label
  /\ UNCHANGED <<tree, place, status>>
-----------------------------------------------------------------------------
(***************************************************************************)
(* Archive, unarchive and removal end with settling the task of the row    *)
(* they read.  Terminals and git come in between (Terminals, Worktrees).   *)
(***************************************************************************)
OnTree(c, op, w) ==
  /\ Row(w)
  /\ Begin(c, op, [IdleCall EXCEPT !.op = op, !.pc = "row", !.w = w, !.k = label[w]])
  /\ UNCHANGED <<rows, place, status>>

Archive(c, w)   == OnTree(c, "archive", w)
Unarchive(c, w) == OnTree(c, "unarchive", w)
Remove(c, w)    == OnTree(c, "remove", w)

SetRow(c) ==
  /\ At(c, "row")
  /\ LET w == call[c].w
         new == CASE call[c].op = "archive" -> "archived"
                  [] call[c].op = "unarchive" -> "active"
                  [] OTHER -> "gone" IN
     /\ tree' = [tree EXCEPT ![w] = IF @ = "gone" THEN "gone" ELSE new]
     /\ label' = [label EXCEPT ![w] = IF new = "gone" THEN Nil ELSE @]
  /\ Settle(c, Named(call[c].k))
  /\ UNCHANGED <<place, status>>
-----------------------------------------------------------------------------
(***************************************************************************)
(* SettleTaskStatus.                                                       *)
(***************************************************************************)
Settling(c) == Head(call[c].todo)
NextTask(c) == Settle(c, Tail(call[c].todo))

\* Where a task with status s is to go, if anywhere else.
Target(t, s) ==
  CASE ~ActiveOn(t) /\ s # Last -> Last
    [] ActiveOn(t) /\ s = Last /\ First # Last -> First
    [] OTHER -> Nil

\* The task, the first and the last status and the number of active worktrees:
\* whatever of it is out of date by the end is so when the write comes.
SettleRead(c) ==
  /\ At(c, "settle")
  /\ LET t == Settling(c)
         to == IF status[t] = Nil \/ Present = {} THEN Nil ELSE Target(t, status[t]) IN
     IF to = Nil THEN NextTask(c)
     ELSE call' = [call EXCEPT ![c] = [@ EXCEPT !.pc = "move", !.s = to]]
  /\ UNCHANGED <<rows, place, status>>

SettleMove(c) ==              \* UpdateTask, refused for a status that has gone
  /\ At(c, "move")
  /\ status' = IF place[call[c].s] # Nil
               THEN [status EXCEPT ![Settling(c)] = call[c].s] ELSE status
  /\ NextTask(c)
  /\ UNCHANGED <<rows, place>>
-----------------------------------------------------------------------------
(***************************************************************************)
(* The user's edits of tasks and of the list of statuses.                  *)
(***************************************************************************)
\* handleUpdateTask.  Its check that the status exists and the update are one
\* step: the foreign key decides all the same.
EditTask(t, s) ==
  /\ "edit" \in Ops /\ status[t] # Nil /\ s \in Present \ {status[t]}
  /\ status' = [status EXCEPT ![t] = s]
  /\ UNCHANGED <<rows, place, call>>

MaxOf(S) == CHOOSE n \in S : \A m \in S : m <= n

AddStatus ==                  \* the id is a rowid: the highest in use, plus one
  /\ "addstatus" \in Ops
  /\ LET id == IF Present = {} THEN 1 ELSE 1 + MaxOf(Present)
         pos == IF Present = {} THEN 0 ELSE 1 + MaxOf({place[s] : s \in Present}) IN
     /\ id <= MaxStatus /\ pos <= MaxStatus
     /\ place' = [place EXCEPT ![id] = pos]
  /\ UNCHANGED <<rows, status, call>>

\* One transaction; the clients send every status they have listed.
Reorder(order) ==
  /\ "reorder" \in Ops
  /\ place' = [s \in Statuses |-> IF s \in Present THEN order[s] - 1 ELSE Nil]
  /\ UNCHANGED <<rows, status, call>>

DeleteStatus(c, s) ==         \* no task has it
  /\ s \in Present /\ \A t \in Tasks : status[t] # s
  /\ Begin(c, "delstatus",
       [IdleCall EXCEPT !.op = "delstatus", !.pc = "total", !.s = s])
  /\ UNCHANGED <<rows, place, status>>

CountStatuses(c) ==           \* it is not the last one
  /\ At(c, "total")
  /\ IF Cardinality(Present) <= 1 THEN Finish(c) ELSE Goto(c, "delete")
  /\ UNCHANGED <<rows, place, status>>

DropStatusUnchecked(c) ==
  /\ At(c, "delete")
  /\ place' = [place EXCEPT ![call[c].s] = Nil]
  /\ Finish(c)
  /\ UNCHANGED <<rows, status>>

DropStatus(c) ==              \* refused by the foreign key
  /\ At(c, "delete")
  /\ place' = IF \E t \in Tasks : status[t] = call[c].s
              THEN place ELSE [place EXCEPT ![call[c].s] = Nil]
  /\ Finish(c)
  /\ UNCHANGED <<rows, status>>
-----------------------------------------------------------------------------
Request(c) ==
  \/ \E w \in Trees, ref \in {"clear", "new", "key"}, k \in Tasks \cup {Nil} :
       SetTask(c, w, ref, k) \/ Create(c, w, ref, k)
  \/ \E w \in Trees : Archive(c, w) \/ Unarchive(c, w) \/ Remove(c, w)
  \/ \E s \in Statuses : DeleteStatus(c, s)

Progress(c) ==
  \/ ReadFirst(c) \/ PickKey(c) \/ InsertLocal(c) \/ Ensure(c)
  \/ SetLabel(c) \/ SetRow(c)
  \/ SettleRead(c) \/ SettleMove(c)
  \/ CountStatuses(c) \/ DropStatus(c)

Orders == {f \in [Present -> 1..Cardinality(Present)] :
             \A s, r \in Present : f[s] = f[r] => s = r}

Edit ==
  \/ \E t \in Tasks, s \in Statuses : EditTask(t, s)
  \/ AddStatus
  \/ \E order \in Orders : Reorder(order)

Next == Edit \/ \E c \in Calls : Request(c) \/ Progress(c)

Spec == Init /\ [][Next]_vars
-----------------------------------------------------------------------------
(***************************************************************************)
(* Safety.                                                                 *)
(***************************************************************************)

\* No task is left with a status that was deleted, although the deletion looks
\* for users of the status in one statement and deletes in another, and tasks
\* are created with, and moved to, statuses read earlier.
StatusKept == \A t \in Tasks : status[t] # Nil => place[status[t]] # Nil

\* A label always has its task: rows are made first, and none is ever deleted.
LabelHasTask == \A w \in Trees : label[w] # Nil => status[label[w]] # Nil

\* Two requests that create local tasks at the same time compute the same key;
\* they never both go on with it, or one worktree would carry the other's task.
NewTasksDistinct ==
  \A c, d \in Calls :
    /\ c # d /\ call[c].new /\ call[d].new /\ At(c, "label") /\ At(d, "label")
    => call[c].k # call[d].k

\* No worktree names a task, and no task a status, that is not there.
ReferencesWhole == TypeOK /\ StatusKept /\ LabelHasTask
=============================================================================
