------------------------------- MODULE MCTasks -------------------------------
EXTENDS TasksInStep, TLC

CONSTANTS w1, w2, c1, c2, j

MCTrees == {w1, w2}
MCExternal == {j}
MCCalls == {c1, c2}
MCSymmetry == Permutations(MCTrees) \cup Permutations(MCCalls)

\* Bounds: one worktree is removed at most.  With two tasks and two worktrees
\* nothing is removed, the list of statuses is not edited, and there is one
\* relabelling at a time; with one task and one worktree everything happens.
MCBound ==
  LET small == (\E t \in Tasks : status[t] = Nil) /\ (\E w \in Trees : tree[w] = "none")
      large == (\A t \in Tasks : status[t] # Nil) /\ (\A w \in Trees : tree[w] # "none")
  IN
  /\ \E w \in Trees : tree[w] # "gone"
  /\ \/ small
     \/ place[1] = 0 /\ place[2] = 1 /\ \A c \in Calls : call[c].op # "delstatus"
  /\ large => /\ \A w \in Trees : tree[w] # "gone"
              /\ \E c \in Calls : call[c].op # "label"
=============================================================================
