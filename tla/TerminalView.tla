---------------------------- MODULE TerminalView ----------------------------
(***************************************************************************)
(* What attaching to a terminal promises, whatever carries it: a client    *)
(* sees the shell's output from some point on, every byte once and in      *)
(* order, until it leaves, falls too far behind or the shell ends; and it  *)
(* is told of the end only after all the output, unless it fell behind.    *)
(***************************************************************************)
EXTENDS Naturals, Sequences

CONSTANTS Views, Nil

VARIABLES
  printed,  \* how much the shell has put out
  shell,    \* "running", "exited", or "lost" with its daemon
  from,     \* what each view starts after; Nil: not attached
  seen,     \* what each view has shown
  behind,   \* views given up as too slow
  end       \* how a view ended: "no", "told" (the shell's exit), "cut", "left"

vars == <<printed, shell, from, seen, behind, end>>

Init ==
  /\ printed = 0 /\ shell = "running"
  /\ from = [v \in Views |-> Nil] /\ seen = [v \in Views |-> <<>>]
  /\ behind = {} /\ end = [v \in Views |-> "no"]

Emit ==
  /\ shell = "running" /\ printed' = printed + 1
  /\ behind' \in SUBSET Views /\ behind \subseteq behind'
  /\ UNCHANGED <<shell, from, seen, end>>

ShellEnds ==
  /\ shell = "running" /\ shell' \in {"exited", "lost"}
  /\ UNCHANGED <<printed, from, seen, behind, end>>

Open(v) ==
  /\ shell = "running" /\ from[v] = Nil
  /\ from' \in {[from EXCEPT ![v] = n] : n \in 0..printed}
  /\ UNCHANGED <<printed, shell, seen, behind, end>>

Show(v) ==
  LET next == from[v] + Len(seen[v]) + 1
  IN /\ from[v] # Nil /\ end[v] = "no" /\ next <= printed
     /\ seen' = [seen EXCEPT ![v] = Append(@, next)]
     /\ UNCHANGED <<printed, shell, from, behind, end>>

Tell(v) ==
  /\ from[v] # Nil /\ end[v] = "no" /\ shell = "exited"
  /\ v \in behind \/ from[v] + Len(seen[v]) = printed
  /\ end' = [end EXCEPT ![v] = "told"]
  /\ UNCHANGED <<printed, shell, from, seen, behind>>

Cut(v) ==
  /\ from[v] # Nil /\ end[v] = "no" /\ (v \in behind \/ shell = "lost")
  /\ end' = [end EXCEPT ![v] = "cut"]
  /\ UNCHANGED <<printed, shell, from, seen, behind>>

Leave(v) ==
  /\ from[v] # Nil /\ end[v] = "no"
  /\ end' = [end EXCEPT ![v] = "left"]
  /\ UNCHANGED <<printed, shell, from, seen, behind>>

Next == Emit \/ ShellEnds \/ \E v \in Views : Open(v) \/ Show(v) \/ Tell(v) \/ Cut(v) \/ Leave(v)

Spec == Init /\ [][Next]_vars
=============================================================================
