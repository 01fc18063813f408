---------------------------- MODULE MCWorkbench ----------------------------
(***************************************************************************)
(* Instances of Workbench for TLC.  Each mix has what one kind of race     *)
(* takes; all of them together would be out of reach.                      *)
(***************************************************************************)
EXTENDS Workbench, TLC

CONSTANTS k1, k2, w1, w2

LayoutMixes == {
  {"open", "create", "into", "pick", "split", "close", "restart"},
  {"open", "into", "pick", "close", "drop"},
  {"open", "new", "zoom", "select", "click", "restart"},
  {"open", "into", "split", "end"},
  {"open", "split", "select"},
  {"open", "create", "select", "end"}}

Symmetric == Permutations(Cmds) \cup Permutations(Trees)
=============================================================================
