---------------------------- MODULE MCPtydDaemon ----------------------------
(***************************************************************************)
(* Instances of PtydDaemon for TLC.                                        *)
(***************************************************************************)
EXTENDS PtydDaemon, TLC

CONSTANTS a, b, s1, s2, s3, c1, c2

DaemonOps == {"create", "restore", "kill", "shutdown", "crash"}
LiveOps == {"create", "restore", "kill", "keep"}

\* Calls and session objects are interchangeable.
Interchangeable == Permutations(Sess) \cup Permutations(Conns)
=============================================================================
