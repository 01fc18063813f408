------------------------------- MODULE GitHook -------------------------------
(***************************************************************************)
(* The block a repository's shared post-checkout hook gets: package        *)
(* githook and its requests.  The script is a sequence of lines; it is the *)
(* user's, who edits it too.  (The copy that is made of a script before it *)
(* gets its first block plays no part.)                                    *)
(***************************************************************************)
EXTENDS Naturals, Sequences, FiniteSets, SequencesExt, FiniteSetsExt

CONSTANTS
  Lines,      \* the user's lines
  Calls,      \* install and uninstall requests being served
  MaxCalls, MaxEdits   \* bounds

VARIABLES
  script,   \* post-checkout's lines; none: no file
  call,     \* a call between its read and its write
  calls, edits,
  torn,     \* ghost: the user has removed one marker and left the other
  mine      \* ghost: the user's lines, by the user's edits alone

vars == <<script, call, calls, edits, torn, mine>>

Idle == [at |-> "idle"]
Block == <<"begin", "report", "end">>
Ours == {"#!/bin/sh"} \cup Range(Block)

\* The first line that is l; 0: none.
First(text, l) == LET at == {i \in DOMAIN text : text[i] = l} IN IF at = {} THEN 0 ELSE Min(at)
Found(text) == First(text, "begin") # 0 /\ First(text, "end") > First(text, "begin")
Before(text) == IF Found(text) THEN SubSeq(text, 1, First(text, "begin") - 1) ELSE text
After(text) == IF Found(text) THEN SubSeq(text, First(text, "end") + 1, Len(text)) ELSE <<>>

InstallOver(text) ==  \* mutant: what comes after the block goes with it
  (IF Before(text) = <<>> THEN <<"#!/bin/sh">> ELSE Before(text)) \o Block
Install(text) ==
  (IF Before(text) = <<>> THEN <<"#!/bin/sh">> ELSE Before(text)) \o Block \o After(text)

Uninstall(text) ==
  LET left == Before(text) \o After(text) IN
  IF left = <<"#!/bin/sh">> THEN <<>> ELSE left

\* The user's lines of a text.
UsersUpto(text) ==
  LET Kept[n \in 0 .. Len(text)] ==
        IF n = 0 THEN <<>>
        ELSE IF text[n] \in Lines THEN Append(Kept[n - 1], text[n]) ELSE Kept[n - 1]
  IN Kept
Users(text) == UsersUpto(text)[Len(text)]

-----------------------------------------------------------------------------
Init ==
  /\ \E l \in Lines : script \in {<<>>, <<"#!/bin/sh">>, <<"#!/bin/sh", l>>}
  /\ call = [k \in Calls |-> Idle]
  /\ calls = 0 /\ edits = 0 /\ torn = FALSE
  /\ mine = Users(script)

\* Read the file and make the new text of it; with no block to remove there is none.
Start(k, op) ==
  /\ op = "uninstall" => Found(script)
  /\ call[k] = Idle /\ calls < MaxCalls /\ calls' = calls + 1
  /\ call' = [call EXCEPT ![k] = [at |-> "write", fresh |-> TRUE,
                                  text |-> IF op = "install" THEN Install(script) ELSE Uninstall(script)]]
  /\ UNCHANGED <<script, edits, torn, mine>>

Stale(c) == IF c = Idle THEN c ELSE [c EXCEPT !.fresh = FALSE]

Write(k) ==
  /\ call[k].at = "write"
  /\ script' = call[k].text
  /\ call' = [j \in Calls |-> IF j = k THEN Idle ELSE Stale(call[j])]
  \* what a stale text does not have is gone
  /\ mine' = IF call[k].fresh THEN mine ELSE Users(script')
  /\ UNCHANGED <<calls, edits, torn>>

EditTo(text) ==
  /\ edits < MaxEdits /\ edits' = edits + 1
  /\ script' = text /\ call' = [k \in Calls |-> Stale(call[k])]
  /\ mine' = Users(text)
  /\ UNCHANGED <<calls>>

\* A line anywhere below the first, but not within the block.
Add(i, l) ==
  /\ i \in 1..Len(script)
  /\ ~(Found(script) /\ i \in First(script, "begin")..(First(script, "end") - 1))
  /\ EditTo(InsertAt(script, i + 1, l)) /\ UNCHANGED torn
Drop(i) ==
  /\ i \in DOMAIN script /\ script[i] \notin Ours
  /\ EditTo(RemoveAt(script, i)) /\ UNCHANGED torn
DropBlock ==
  /\ Found(script) /\ EditTo(Before(script) \o After(script)) /\ UNCHANGED torn
Tear(l) ==
  /\ l \in {"begin", "end"} /\ First(script, l) # 0
  /\ EditTo(RemoveAt(script, First(script, l))) /\ torn' = TRUE

Next ==
  \/ \E k \in Calls : Write(k) \/ \E op \in {"install", "uninstall"} : Start(k, op)
  \/ \E i \in 1..(2 * MaxEdits + 6), l \in Lines : Add(i, l) \/ Drop(i) \/ Tear("begin") \/ Tear("end")
  \/ DropBlock

Spec == Init /\ [][Next]_vars

-----------------------------------------------------------------------------
(* Properties.                                                             *)

TypeOK ==
  /\ script \in Seq(Lines \cup Ours) /\ mine \in Seq(Lines)
  /\ \A k \in Calls : call[k] = Idle \/ call[k] \in [at : {"write"}, fresh : BOOLEAN,
                                                     text : Seq(Lines \cup Ours)]

\* Whatever is installed, refreshed and removed, the user's lines are the user's, as
\* long as no marker was torn out and no text was written over a newer one.
LinesKept == ~torn => Users(script) = mine

\* There is one block at most, and a checkout is reported once.
OneBlock ==
  /\ script # <<>> => script[1] = "#!/bin/sh"
  /\ ~torn => \A l \in Range(Block) : Cardinality({i \in DOMAIN script : script[i] = l})
                                     = IF Found(script) THEN 1 ELSE 0

\* Installing again changes nothing, and uninstalling gives back the script the user
\* had, to the line.
RoundTrip ==
  ~torn => /\ Install(Install(script)) = Install(script)
           /\ ~Found(script) /\ mine # <<>> => Uninstall(Install(script)) = script

\* The block is found again, and nothing else is ever taken for it.
ScriptSound == TypeOK /\ LinesKept /\ OneBlock /\ RoundTrip
=============================================================================
