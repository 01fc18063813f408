----------------------------- MODULE MCWorktrees -----------------------------
(***************************************************************************)
(* Instances of Worktrees for TLC.  LifeOps leaves out pins, which matter  *)
(* to archiving only; SweepOps leaves out what ends an expiry otherwise,   *)
(* for the liveness of the sweep.                                          *)
(***************************************************************************)
EXTENDS Worktrees, TLC

CONSTANTS own, ext, i1, i2, sw, c1, c2

LifeOps == (Operations \ {"pin"}) \cup Failures
SweepOps == {"create", "import", "archive", "pin", "sweep"} \cup Failures

Symmetric == Permutations({i1, i2}) \cup Permutations({c1, c2})
=============================================================================
