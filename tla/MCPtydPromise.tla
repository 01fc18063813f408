---------------------------- MODULE MCPtydPromise ----------------------------
(***************************************************************************)
(* Instances of PtydPromise for TLC: nobody closes a terminal.             *)
(***************************************************************************)
EXTENDS PtydPromise, TLC

CONSTANTS a, b, s1, s2, s3, c1, c2

KeepOps == {"create", "restore", "keep", "shutdown", "crash"}

\* Calls and session objects are interchangeable.
Interchangeable == Permutations(Sess) \cup Permutations(Conns)
=============================================================================
