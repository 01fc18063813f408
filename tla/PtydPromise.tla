----------------------------- MODULE PtydPromise -----------------------------
(***************************************************************************)
(* PtydDaemon with a history variable: the scrollback that a Suspend or a  *)
(* shutdown has put on disk for the Restore to come.  Archive/unarchive    *)
(* and the daemon upgrade of docs/ptyd.md rest on it.  It is meant for     *)
(* environments in which nobody closes a terminal ("kill" \notin Ops).     *)
(***************************************************************************)
EXTENDS PtydDaemon

VARIABLE owed    \* per id: the promised scrollback; NoLog when nothing is

pvars == <<vars, owed>>

\* This step is the save of s in a Suspend, or in a shutdown that caught the
\* session running: one whose run is past its read of stopping has ended by
\* itself before the shutdown, and its log goes with it.
SavedNow(s) ==
  \E c \in Conns : /\ conn'[c].pc = "hangup"
                   /\ \/ conn[c].pc = "save" /\ conn[c].s = s
                      \/ conn[c].pc = "loop" /\ conn'[c].s = s /\ run[s] = "pump"

\* The write succeeded, now or before: a failed one leaves the dirty flag.
Promised(s) == SavedNow(s) /\ Live(s) /\ ~dirty'[s]

\* The Restore that creates the id's next session redeems the promise.
Redeemed(i) == \E s \in Sess : run[s] = "none" /\ sid'[s] = i

PInit == Init /\ owed = [i \in Ids |-> NoLog]

PNext ==
  /\ Next
  /\ owed' = [i \in Ids |->
       IF \E s \in Sess : sid[s] = i /\ Promised(s)
       THEN buf[CHOOSE s \in Sess : sid[s] = i /\ Promised(s)]
       ELSE IF Redeemed(i) THEN NoLog ELSE owed[i]]

PSpec == PInit /\ [][PNext]_pvars
-----------------------------------------------------------------------------
\* What has been promised is there for the Restore: neither the end of the
\* shell, nor the end or a crash of the daemon, nor a later save loses a chunk
\* of it, but those the scrollback itself dropped for newer ones.
PromiseKept ==
  \A i \in Ids : owed[i] # NoLog =>
    log[i] # NoLog /\ Newest(owed[i] \cup log[i]) \subseteq log[i]
=============================================================================
