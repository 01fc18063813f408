----------------------------- MODULE TasksInStep -----------------------------
(***************************************************************************)
(* "Keeps a task's status in step with its worktrees", as the comment of   *)
(* SettleTaskStatus says: what a settle promises, with a history variable  *)
(* for the interference under which the code promises nothing.             *)
(***************************************************************************)
EXTENDS Tasks

VARIABLE disturbed  \* tasks that may be out of step until they are settled again,
                    \* and requests in progress that shared their worktree

pvars == <<vars, disturbed>>

\* The task a request brings, takes away, is about to settle, or may strand.
Concerns(c, t) ==
  \/ t \in {call[c].k, call[c].old} \cup {call[c].todo[i] : i \in DOMAIN call[c].todo}
  \/ call[c].w # Nil /\ label[call[c].w] = t

\* Which way a request moves t: towards more active worktrees, or towards fewer;
\* at its end, away from the last status or to it.
Way(c, t) ==
  IF At(c, "move") THEN IF call[c].s = Last THEN "down" ELSE "up"
  ELSE IF call[c].op \in {"archive", "remove"} \/ call[c].k # t THEN "down"
  ELSE IF \/ call[c].op = "unarchive" \/ ActiveOn(t)
          \/ call[c].w # Nil /\ tree[call[c].w] = "active"
       THEN "up" ELSE "none"

\* Two requests at once on one worktree.
Shares(c) ==
  \E d \in Calls \ {c} : /\ ~At(c, "idle") /\ ~At(d, "idle")
                         /\ call[c].w # Nil /\ call[c].w = call[d].w

\* Two requests for one task, unless both raise it or both take from it.
Clash(t) ==
  \E c, d \in Calls :
    /\ c # d /\ Concerns(c, t) /\ Concerns(d, t)
    /\ Way(c, t) # Way(d, t) \/ Way(c, t) = "none"

\* A settle that reads t now, with nothing else in progress for it, puts it in
\* step again.
Resettled(t) ==
  \E c \in Calls : /\ At(c, "settle") /\ Settling(c) = t /\ call'[c] # call[c]
                   /\ \A d \in Calls \ {c} : ~Concerns(d, t)

Disturb ==
  LET shared == {c \in Calls : Shares(c)' \/ (c \in disturbed /\ ~At(c, "idle")')}
      tasks == {t \in Tasks :
        \/ t \in disturbed /\ ~Resettled(t)
        \/ status'[t] # status[t] /\ call' = call
        \/ place' # place
        \/ Clash(t)'
        \/ \E c \in Calls : /\ c \in shared \cup disturbed
                            /\ Concerns(c, t) \/ Concerns(c, t)'}
  IN disturbed' = tasks \cup shared

PInit == Init /\ disturbed = {}
PNext == Next /\ Disturb
PSpec == PInit /\ [][PNext]_pvars
-----------------------------------------------------------------------------
\* Once nothing is in progress for a task, it is at the last status if no active
\* worktree carries it and not there if one does: archives, removals and
\* relabellings of its worktrees may overlap, so may everything that raises it.
InStep ==
  \A t \in Tasks \ disturbed :
    (status[t] # Nil /\ \A c \in Calls : ~Concerns(c, t)) =>
      IF ActiveOn(t) THEN First # Last => status[t] # Last ELSE status[t] = Last
=============================================================================
