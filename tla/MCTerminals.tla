----------------------------- MODULE MCTerminals -----------------------------
(***************************************************************************)
(* Instances of Terminals for TLC.                                         *)
(***************************************************************************)
EXTENDS Terminals, TLC

CONSTANTS w1, t1, t2, c1, c2

\* Tabs are closed in every way, the server may be stopped anywhere and the daemon may
\* fail to write a log; nothing is restored but by the server's Reconcile.
CloseOps == {"close", "archive", "remove", "reap", "crash", "unsaved"}

\* Everything that puts tabs aside or restores them, or might lose what was put
\* aside; closing a tab ends the promise and is left out.
KeepOps == {"create", "open", "archive", "unarchive", "restart", "prune", "dies",
            "ptydcrash", "crash", "reboot", "fails"}

Interchangeable == Permutations(Tabs) \cup Permutations(Calls)
=============================================================================
