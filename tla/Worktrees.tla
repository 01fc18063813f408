------------------------------ MODULE Worktrees ------------------------------
(***************************************************************************)
(* The life of worktrees in internal/api: their rows in the store, their   *)
(* git checkouts and the branches made for them.                           *)
(*                                                                         *)
(* git and the store are changed one after the other, by requests that     *)
(* hold no lock and may fail between any two of their steps.  A request    *)
(* keeps the row it read first; what it does later it does to that row's   *)
(* path and id, whatever has become of them.  A step here is one call of   *)
(* git or one SQL statement.                                               *)
(*                                                                         *)
(* A path stands for its branch as well: create gives both the same slug.  *)
(***************************************************************************)
EXTENDS Naturals, FiniteSets

CONSTANTS
  Paths,       \* where worktrees are or may be created
  Managed,     \* those under WorktreeRoot, which create may choose
  Importable,  \* those that somebody imports, or that discovery finds
  Ids,         \* row ids, each used once
  Calls,       \* requests at the same time, and the sweep's goroutine
  Sweeper,     \* that one
  Ops,         \* which requests, failures and outside changes occur
  Nil          \* no path, no row, no operation

Operations == {"create", "import", "delete", "archive", "unarchive", "pin", "sweep"}
Failures == {"fails", "vanish"}

\* Imports are of other tools' worktrees: not of one that a create has made and
\* has still to insert, though the code would let a very quick user do that.
ASSUME WorktreesAssumption ==
  /\ Managed \subseteq Paths /\ Importable \subseteq Paths \ Managed
  /\ Sweeper \in Calls
  /\ Ops \subseteq Operations \cup Failures
  /\ Nil \notin Paths \cup Ids \cup Operations

VARIABLES
  checkout,  \* of each path; "missing": git knows one, the folder is gone
  branch,    \* the branch of that path's name exists
  row,       \* worktrees.status of each row id
  path,      \* worktrees.path, and of a removed row what requests remember
  pinned,    \* worktrees.pinned
  expired,   \* worktrees.archived_at is set and before the cutoff
  told,      \* of each path: what the last create that had to roll back said,
             \* that it is safe to retry or that it needs a cleanup by hand; or
             \* that it rolled back nothing of what a failed git left behind
  call       \* the requests in progress, and the sweep

git == <<checkout, branch>>
store == <<row, path, pinned, expired>>
vars == <<git, store, told, call>>

IdleCall == [op |-> Nil, pc |-> "idle", p |-> Nil, i |-> Nil, force |-> FALSE,
             ok |-> TRUE, todo |-> {}]
CallStates == {"idle", "add", "insert", "undo", "unbranch", "git", "close",
               "row", "status", "loop"}
Requests == [op : Operations \cup {Nil}, pc : CallStates, p : Paths \cup {Nil},
             i : Ids \cup {Nil}, force : BOOLEAN, ok : BOOLEAN, todo : SUBSET Ids]

TypeOK ==
  /\ checkout \in [Paths -> {"none", "clean", "dirty", "missing"}]
  /\ branch \in [Paths -> BOOLEAN]
  /\ row \in [Ids -> {"unused", "active", "archived", "removed"}]
  /\ path \in [Ids -> Paths \cup {Nil}]
  /\ pinned \in [Ids -> BOOLEAN]
  /\ expired \in [Ids -> BOOLEAN]
  /\ told \in [Paths -> {"nothing", "safe", "manual", "left"}]
  /\ call \in [Calls -> Requests]

\* Worktrees made by other tools lie outside WorktreeRoot.
Init ==
  /\ checkout = [p \in Paths |-> IF p \in Managed THEN "none" ELSE "clean"]
  /\ branch = [p \in Paths |-> p \notin Managed]
  /\ row = [i \in Ids |-> "unused"]
  /\ path = [i \in Ids |-> Nil]
  /\ pinned = [i \in Ids |-> FALSE]
  /\ expired = [i \in Ids |-> FALSE]
  /\ told = [p \in Paths |-> "nothing"]
  /\ call = [c \in Calls |-> IdleCall]

Present(i) == row[i] \in {"active", "archived"}
Registered(p) == \E i \in Ids : Present(i) /\ path[i] = p     \* path is UNIQUE
Folder(p) == checkout[p] \in {"clean", "dirty"}
Fresh(i) == row[i] = "unused" /\ \A c \in Calls : call[c].i # i    \* newID
-----------------------------------------------------------------------------
At(c, pc) == call[c].pc = pc
Goto(c, pc) == call' = [call EXCEPT ![c] = [@ EXCEPT !.pc = pc]]
Begin(c, op, new) ==
  /\ op \in Ops /\ c # Sweeper /\ At(c, "idle")
  /\ call' = [call EXCEPT ![c] = new]
OnRow(op, pc, i) == [IdleCall EXCEPT !.op = op, !.pc = pc, !.i = i, !.p = path[i]]

\* A request ends; the sweep, whatever became of this row, goes on.
End(c) ==
  call' = [call EXCEPT ![c] =
    IF c = Sweeper
    THEN [@ EXCEPT !.pc = "loop", !.i = Nil, !.p = Nil] ELSE IdleCall]
Fails == "fails" \in Ops
-----------------------------------------------------------------------------
(***************************************************************************)
(* createWorktree, with its rollback, and the imports, which register what *)
(* `git worktree list` showed them.                                        *)
(***************************************************************************)
Create(c, p, i) ==
  /\ p \in Managed /\ Fresh(i)
  /\ Begin(c, "create",
       [IdleCall EXCEPT !.op = "create", !.pc = "add", !.p = p, !.i = i])
  /\ UNCHANGED <<git, store, told>>

Import(c, p, i) ==
  /\ p \in Importable /\ checkout[p] # "none" /\ Fresh(i)
  /\ Begin(c, "import",
       [IdleCall EXCEPT !.op = "import", !.pc = "insert", !.p = p, !.i = i])
  /\ UNCHANGED <<git, store, told>>

\* git worktree add -b: the branch and the path must be new.  A failure may
\* come when git has made the branch, or all of it (a post-checkout hook's).
GitAdd(c) ==
  /\ At(c, "add")
  /\ LET p == call[c].p
         new == checkout[p] = "none" /\ ~branch[p] IN
     \/ /\ new
        /\ checkout' = [checkout EXCEPT ![p] = "clean"]
        /\ branch' = [branch EXCEPT ![p] = TRUE]
        /\ told' = [told EXCEPT ![p] = "nothing"]
        /\ Goto(c, "insert")
     \/ /\ ~new \/ Fails
        /\ End(c)
        /\ UNCHANGED <<git, told>>
     \/ /\ new /\ Fails
        /\ branch' = [branch EXCEPT ![p] = TRUE]
        /\ \/ told' = [told EXCEPT ![p] = "nothing"] /\ UNCHANGED checkout
           \/ /\ told' = [told EXCEPT ![p] = "left"]
              /\ checkout' = [checkout EXCEPT ![p] = "clean"]
        /\ End(c)
  /\ UNCHANGED store

InsertOrLeave(c) ==
  /\ At(c, "insert")
  /\ LET p == call[c].p
         i == call[c].i IN
     \/ /\ ~Registered(p)
        /\ row' = [row EXCEPT ![i] = "active"]
        /\ path' = [path EXCEPT ![i] = p]
        /\ End(c)
     \/ /\ Registered(p) \/ Fails
        /\ End(c)
        /\ UNCHANGED <<row, path>>
  /\ UNCHANGED <<git, pinned, expired, told>>

Insert(c) ==       \* AddWorktree
  /\ At(c, "insert")
  /\ LET p == call[c].p
         i == call[c].i IN
     \/ /\ ~Registered(p)
        /\ row' = [row EXCEPT ![i] = "active"]
        /\ path' = [path EXCEPT ![i] = p]
        /\ End(c)
     \/ /\ Registered(p) \/ Fails
        /\ IF call[c].op = "create" THEN Goto(c, "undo") ELSE End(c)
        /\ UNCHANGED <<row, path>>
  /\ UNCHANGED <<git, pinned, expired, told>>

\* What gitops.RemoveWorktree does for a folder that is gone already, and calls
\* a success whether or not `git worktree prune` works.
PruneFails(p) == Fails /\ checkout[p] = "missing" /\ UNCHANGED checkout

UndoCheckout(c) == \* the rollback: git worktree remove --force
  /\ At(c, "undo")
  /\ \/ /\ checkout' = [checkout EXCEPT ![call[c].p] = "none"]
        /\ Goto(c, "unbranch")
     \/ /\ Fails /\ Folder(call[c].p)
        /\ call' = [call EXCEPT ![c] = [@ EXCEPT !.pc = "unbranch", !.ok = FALSE]]
        /\ UNCHANGED checkout
     \/ PruneFails(call[c].p) /\ Goto(c, "unbranch")
  /\ UNCHANGED <<branch, store, told>>

Says(c) == IF call[c].ok THEN "safe" ELSE "manual"

UndoBranchOnly(c) ==
  /\ At(c, "unbranch")
  /\ told' = [told EXCEPT ![call[c].p] = Says(c)]
  /\ End(c)
  /\ UNCHANGED <<git, store>>

UndoBranch(c) ==   \* git branch -D refuses while a checkout has the branch
  /\ At(c, "unbranch")
  /\ LET p == call[c].p IN
     \/ /\ checkout[p] = "none" /\ branch[p]
        /\ branch' = [branch EXCEPT ![p] = FALSE]
        /\ told' = [told EXCEPT ![p] = Says(c)]
     \/ /\ checkout[p] # "none" \/ ~branch[p] \/ Fails
        /\ told' = [told EXCEPT ![p] = "manual"]
        /\ UNCHANGED branch
  /\ End(c)
  /\ UNCHANGED <<checkout, store>>
-----------------------------------------------------------------------------
(***************************************************************************)
(* hardRemoveWorktree, for a user's delete and for the sweep.              *)
(***************************************************************************)
Delete(c, i, force) ==
  /\ Present(i)
  /\ Begin(c, "delete", [OnRow("delete", "git", i) EXCEPT !.force = force])
  /\ UNCHANGED <<git, store, told>>

Sweep ==           \* at startup and every six hours
  /\ "sweep" \in Ops /\ At(Sweeper, "idle")
  /\ call' = [call EXCEPT ![Sweeper] = [IdleCall EXCEPT !.op = "sweep", !.pc = "loop",
       !.todo = {i \in Ids : row[i] = "archived" /\ expired[i]}]]
  /\ UNCHANGED <<git, store, told>>

SweepRow(i) ==
  /\ At(Sweeper, "loop") /\ i \in call[Sweeper].todo
  /\ call' = [call EXCEPT ![Sweeper] = [OnRow("sweep", "git", i) EXCEPT
       !.force = TRUE, !.todo = call[Sweeper].todo \ {i}]]
  /\ UNCHANGED <<git, store, told>>

SweepEnd ==
  /\ At(Sweeper, "loop") /\ call[Sweeper].todo = {}
  /\ call' = [call EXCEPT ![Sweeper] = IdleCall]
  /\ UNCHANGED <<git, store, told>>

GitRemoveStuck(c) ==
  /\ At(c, "git")
  /\ LET p == call[c].p IN
     \/ /\ checkout[p] = "clean" \/ (checkout[p] = "dirty" /\ call[c].force)
        /\ checkout' = [checkout EXCEPT ![p] = "none"]
        /\ Goto(c, "close")
     \/ /\ \/ ~Folder(p)
           \/ checkout[p] = "dirty" /\ ~call[c].force
           \/ Fails
        /\ End(c)
        /\ UNCHANGED checkout
  /\ UNCHANGED <<branch, store, told>>

GitRemoveBranchToo(c) ==
  /\ At(c, "git")
  /\ LET p == call[c].p IN
     \/ /\ checkout[p] = "dirty" => call[c].force
        /\ checkout' = [checkout EXCEPT ![p] = "none"]
        /\ branch' = [branch EXCEPT ![p] = FALSE]
        /\ Goto(c, "close")
     \/ /\ (checkout[p] = "dirty" /\ ~call[c].force) \/ Fails
        /\ End(c)
        /\ UNCHANGED git
  /\ UNCHANGED <<store, told>>

\* gitops.RemoveWorktree: a folder that is gone counts as removed; a dirty one
\* needs force.
GitRemove(c) ==
  /\ At(c, "git")
  /\ LET p == call[c].p IN
     \/ /\ checkout[p] = "dirty" => call[c].force
        /\ checkout' = [checkout EXCEPT ![p] = "none"]
        /\ Goto(c, "close")
     \/ /\ (checkout[p] = "dirty" /\ ~call[c].force) \/ (Fails /\ Folder(p))
        /\ End(c)
        /\ UNCHANGED checkout
     \/ PruneFails(p) /\ Goto(c, "close")
  /\ UNCHANGED <<branch, store, told>>

CloseTerminals(c) ==     \* see Terminals
  /\ At(c, "close")
  /\ \/ Goto(c, "row")
     \/ Fails /\ End(c)
  /\ UNCHANGED <<git, store, told>>

RemoveRow(c) ==          \* no error when it is gone already
  /\ At(c, "row")
  /\ LET i == call[c].i IN
     \/ /\ row' = [row EXCEPT ![i] = "removed"]
        /\ pinned' = [pinned EXCEPT ![i] = FALSE]
        /\ expired' = [expired EXCEPT ![i] = FALSE]
     \/ Fails /\ UNCHANGED <<row, pinned, expired>>
  /\ End(c)
  /\ UNCHANGED <<git, path, told>>
-----------------------------------------------------------------------------
(***************************************************************************)
(* Archive, unarchive, pin.                                                *)
(***************************************************************************)
Archive(c, i) ==         \* CanArchiveWorktree looks at the row just read
  /\ Present(i) /\ ~pinned[i]
  /\ Begin(c, "archive", OnRow("archive", "status", i))
  /\ UNCHANGED <<git, store, told>>

Unarchive(c, i) ==
  /\ Present(i)
  /\ Begin(c, "unarchive", OnRow("unarchive", "status", i))
  /\ UNCHANGED <<git, store, told>>

NewStatus(c) == IF call[c].op = "archive" THEN "archived" ELSE "active"

SetStatus(c) ==          \* stamps archived_at anew, or clears it
  /\ At(c, "status")
  /\ LET i == call[c].i IN
     \/ /\ row' = [row EXCEPT ![i] = IF Present(i) THEN NewStatus(c) ELSE @]
        /\ expired' = [expired EXCEPT ![i] = FALSE]
     \/ Fails /\ UNCHANGED <<row, expired>>
  /\ End(c)
  /\ UNCHANGED <<git, path, pinned, told>>

Pin(i, pin) ==           \* whatever the status
  /\ "pin" \in Ops /\ Present(i)
  /\ pinned' = [pinned EXCEPT ![i] = pin]
  /\ UNCHANGED <<git, row, path, expired, told, call>>
-----------------------------------------------------------------------------
(***************************************************************************)
(* What happens outside.  Nobody deletes branches by hand: a stale removal *)
(* could otherwise meet a new checkout at its path (OwnCheckoutOnly).      *)
(***************************************************************************)
Edit(p) ==               \* files are changed, or committed
  /\ Folder(p)
  /\ checkout' = [checkout EXCEPT ![p] = IF @ = "clean" THEN "dirty" ELSE "clean"]
  /\ UNCHANGED <<branch, store, told, call>>

Vanish(p) ==             \* the folder is deleted by hand
  /\ "vanish" \in Ops /\ Folder(p)
  /\ checkout' = [checkout EXCEPT ![p] = "missing"]
  /\ UNCHANGED <<branch, store, told, call>>

Age(i) ==                \* ArchivedWorktreeRetention passes
  /\ "sweep" \in Ops /\ row[i] = "archived" /\ ~expired[i]
  /\ expired' = [expired EXCEPT ![i] = TRUE]
  /\ UNCHANGED <<git, row, path, pinned, told, call>>
-----------------------------------------------------------------------------
Request(c) ==
  \/ \E p \in Paths, i \in Ids : Create(c, p, i) \/ Import(c, p, i)
  \/ \E i \in Ids, force \in BOOLEAN : Delete(c, i, force)
  \/ \E i \in Ids : Archive(c, i) \/ Unarchive(c, i)

Progress(c) ==
  \/ GitAdd(c) \/ Insert(c) \/ UndoCheckout(c) \/ UndoBranch(c)
  \/ GitRemove(c) \/ CloseTerminals(c) \/ RemoveRow(c) \/ SetStatus(c)

Outside ==
  \/ \E p \in Paths : Edit(p) \/ Vanish(p)
  \/ \E i \in Ids : Age(i) \/ \E pin \in BOOLEAN : Pin(i, pin)

Next ==
  \/ \E c \in Calls : Request(c) \/ Progress(c)
  \/ Sweep \/ SweepEnd \/ \E i \in Ids : SweepRow(i)
  \/ Outside

Spec == Init /\ [][Next]_vars
-----------------------------------------------------------------------------
(***************************************************************************)
(* Safety.                                                                 *)
(***************************************************************************)

\* Every checkout the server has made is known to it: it has a row, a create
\* has still to insert one or to undo it, or the user was asked to clean up.
\* A removal and a create take opposite orders of git and store for this.
\* Except: one that git made before it failed, which create does not undo.
CheckoutsKnown ==
  \A p \in Managed : Folder(p) =>
    \/ Registered(p)
    \/ \E c \in Calls : call[c].p = p /\ call[c].pc \in {"insert", "undo", "unbranch"}
    \/ told[p] \in {"manual", "left"}

\* "the git worktree was rolled back, safe to retry": neither checkout nor
\* branch is left, so that `git worktree add -b` will not refuse the retry.
SafeToRetry == \A p \in Paths : told[p] = "safe" => checkout[p] = "none" /\ ~branch[p]

\* No removal takes another worktree's checkout.  Removals work on the path
\* they read; a second one of the same row (a double click, the sweep) comes
\* when the row is long gone.  It finds no new worktree at that path, because
\* the branch stays and git refuses to create a second one of that name.
OwnCheckoutOnly ==
  [][\A i \in Ids :
       LET p == path[i] IN
       Present(i) /\ Folder(p) /\ checkout'[p] = "none" =>
         \E c \in Calls : call[c].i = i /\ At(c, "git") /\ At(c, "close")']_vars
-----------------------------------------------------------------------------
(***************************************************************************)
(* Liveness.  Requests and the sweep get their turn, the sweep's ticker    *)
(* does not stop, and none of a removal's steps fails for ever.            *)
(***************************************************************************)
SweepSucceeds(i) ==
  /\ SF_vars(call[Sweeper].i = i /\ GitRemove(Sweeper) /\ At(Sweeper, "close")')
  /\ SF_vars(call[Sweeper].i = i /\ CloseTerminals(Sweeper) /\ At(Sweeper, "row")')
  /\ SF_vars(call[Sweeper].i = i /\ RemoveRow(Sweeper) /\ row'[i] = "removed")

LiveSpec ==
  /\ Spec
  /\ \A c \in Calls : WF_vars(Progress(c))
  /\ WF_vars(Sweep) /\ WF_vars(SweepEnd) /\ WF_vars(\E i \in Ids : SweepRow(i))
  /\ \A i \in Ids : SweepSucceeds(i)

\* An archived worktree goes when its time is over, unless it is unarchived or
\* archived anew: also one whose folder was deleted by hand, or whose removal
\* failed half way the last time.
ExpiredGo == \A i \in Ids : row[i] = "archived" /\ expired[i] ~>
                            ~(row[i] = "archived" /\ expired[i])
=============================================================================
