----------------------------- MODULE PtydAttach -----------------------------
(***************************************************************************)
(* Attaching to a session of the ptyd daemon: ptyd/server.go's attach and  *)
(* broadcast, ptyd/client.go's Attach and Stream, and the two programs     *)
(* that show a stream: the terminal UI's emulator (ptyterm.go) and the     *)
(* websocket relay (api/terminals.go).                                     *)
(*                                                                         *)
(* Output is a tape of tokens, each sent alone and known by its position:  *)
(* text, a newline, the ESC that begins a sequence and the bytes in it, a  *)
(* rune's first byte and its other bytes, and a query (an escape sequence  *)
(* asking for a report) that an emulator answers when it parses it.        *)
(***************************************************************************)
EXTENDS Naturals, Sequences, SequencesExt, FiniteSets

CONSTANTS
  Clients,    \* attachments, each made once (attaching again is another one)
  Web,        \* those the websocket relay makes; the others are emulators
  Tapes,      \* outputs of the shell
  MaxBuf,     \* MaxScrollback
  Window,     \* cleanBoundaryWindow
  SubBuffer,  \* subBuffer
  Room,       \* frames a connection holds before a write blocks
  Stalling,   \* attachments whose client may stop reading
  Nil

Classes == {"text", "nl", "esc", "seq", "query", "rune", "cont"}

ASSUME AttachAssumption ==
  /\ Web \subseteq Clients /\ Stalling \subseteq Clients /\ Tapes \subseteq Seq(Classes)
  /\ MaxBuf \in Nat \ {0} /\ Window \in Nat \ {0}
  /\ SubBuffer \in Nat \ {0} /\ Room \in Nat \ {0}
  /\ Nil \notin Nat /\ Nil \notin [after : Nat, upto : Nat]

VARIABLES
  tape,     \* what the shell puts out
  made,     \* how much of it the shell has written to its pty
  printed,  \* how much of it broadcast has taken
  lo,       \* how much of that the scrollback has dropped
  shell,    \* "running", "exited"; "lost" with the daemon
  srv,      \* the daemon's attach handler of each client
  wire,     \* the daemon's frames on each connection
  conn,     \* who still holds a connection: "none", "both", "client", "daemon"
  scr,      \* each client
  from,     \* the output each replay holds: after one position, up to another;
            \* Nil before it is attached
  behind,   \* the clients broadcast has dropped
  typed     \* the queries each client has answered into the shell

shellVars == <<tape, made, printed, lo, shell>>
vars == <<shellVars, srv, wire, conn, scr, from, behind, typed>>

IdleSrv == [pc |-> "none", replay |-> <<>>, ch |-> <<>>, sub |-> FALSE, closed |-> FALSE]
IdleScr == [pc |-> "off", buf |-> <<>>, seen |-> <<>>, hand |-> Nil,
            skip |-> FALSE, answers |-> TRUE]

Positions == 1..Len(tape)
Marker == 0  \* the marker in the emulator's reply pipe

\* Frames: frameOutput with one byte, frameReplayDone, frameExit, and the refusal.
Byte(p) == [typ |-> "output", at |-> p]
Control(t) == [typ |-> t, at |-> 0]
Frames == {Byte(p) : p \in Positions} \cup {Control(t) : t \in {"done", "exit", "refused"}}

TypeOK ==
  /\ tape \in Tapes
  /\ made \in 0..Len(tape) /\ printed \in 0..made /\ lo \in 0..printed
  /\ shell \in {"running", "exited", "lost"}
  /\ \A c \in Clients :
       /\ srv[c].pc \in {"none", "serve", "replay", "live"}
       /\ srv[c].replay \in BoundedSeq(Positions, MaxBuf)
       /\ srv[c].ch \in BoundedSeq(Positions, SubBuffer)
       /\ srv[c].sub => ~srv[c].closed /\ srv[c].pc \in {"replay", "live"}
       /\ wire[c] \in BoundedSeq(Frames, Room)
       /\ scr[c].pc \in {"off", "attach", "replay", "live", "leaving",
                         "left", "told", "cut", "refused"}
       /\ Range(scr[c].buf) \cup Range(scr[c].seen) \subseteq Positions
       /\ scr[c].hand \in Positions \cup {Marker, Nil}
       /\ scr[c].skip \in BOOLEAN /\ scr[c].answers \in BOOLEAN
       /\ from[c] # Nil => from[c] \in [after : 0..Len(tape), upto : 0..Len(tape)]
  /\ conn \in [Clients -> {"none", "both", "client", "daemon"}]
  /\ behind \subseteq Clients
  /\ typed \in [Clients -> SUBSET Positions]

Init ==
  /\ tape \in Tapes /\ made = 0 /\ printed = 0 /\ lo = 0 /\ shell = "running"
  /\ srv = [c \in Clients |-> IdleSrv] /\ wire = [c \in Clients |-> <<>>]
  /\ conn = [c \in Clients |-> "none"] /\ scr = [c \in Clients |-> IdleScr]
  /\ from = [c \in Clients |-> Nil] /\ behind = {}
  /\ typed = [c \in Clients |-> {}]

-----------------------------------------------------------------------------
(* The session.                                                            *)

\* Bound: the pty holds one token that broadcast has not taken.
ShellWrites ==
  /\ shell = "running" /\ made = printed /\ made < Len(tape) /\ made' = made + 1
  /\ UNCHANGED <<tape, printed, lo, shell, srv, wire, conn, scr, from, behind, typed>>

\* broadcast: keep it for replays, hand it to every subscriber, and drop the
\* subscriber whose channel is full rather than wait for it.
Slow(c) == srv[c].sub /\ Len(srv[c].ch) = SubBuffer

OfferLossy(c) ==  \* mutant: a full channel loses the chunk and stays subscribed
  IF srv[c].sub /\ ~Slow(c) THEN [srv[c] EXCEPT !.ch = Append(@, printed + 1)] ELSE srv[c]
Offer(c) ==
  CASE Slow(c) -> [srv[c] EXCEPT !.sub = FALSE, !.closed = TRUE]
    [] srv[c].sub /\ ~Slow(c) -> [srv[c] EXCEPT !.ch = Append(@, printed + 1)]
    [] OTHER -> srv[c]

Broadcast ==
  /\ shell = "running" /\ printed < made
  /\ printed' = printed + 1
  /\ lo' = IF printed + 1 - lo > MaxBuf THEN printed + 1 - MaxBuf ELSE lo
  /\ srv' = [c \in Clients |-> Offer(c)]
  /\ behind' = behind \cup {c \in Clients : Slow(c)}
  /\ UNCHANGED <<tape, made, shell, wire, conn, scr, from, typed>>

\* run: the process is gone; its last output is drained, but only for a while.
ShellExits ==
  /\ shell = "running" /\ shell' = "exited"
  /\ srv' = [c \in Clients |->
       [srv[c] EXCEPT !.sub = FALSE, !.closed = @ \/ srv[c].sub]]
  /\ UNCHANGED <<tape, made, printed, lo, wire, conn, scr, from, behind, typed>>

\* The daemon dies: its ends of the connections go, what it has sent arrives.
DaemonDies ==
  /\ shell = "running" /\ shell' = "lost"
  /\ srv' = [c \in Clients |-> IdleSrv]
  /\ conn' = [c \in Clients |-> IF conn[c] \in {"both", "client"} THEN "client" ELSE "none"]
  /\ UNCHANGED <<tape, made, printed, lo, wire, scr, from, behind, typed>>

-----------------------------------------------------------------------------
(* The scrollback.                                                         *)

FirstOf(S) == CHOOSE p \in S : \A q \in S : p <= q

\* cleanStart: what a replay of the cut buffer leaves out.
CleanStart ==
  LET w == (lo + 1)..(IF printed - lo > Window THEN lo + Window ELSE printed)
      nls == {p \in w : tape[p] = "nl"}
      escs == {p \in w : tape[p] \in {"esc", "query"}}
      starts == {p \in w : tape[p] # "cont"}
  IN CASE nls # {} -> FirstOf(nls)
       [] nls = {} /\ escs # {} -> FirstOf(escs) - 1
       [] OTHER -> IF starts # {} THEN FirstOf(starts) - 1 ELSE lo + Cardinality(w)

ReplayStartRaw == lo  \* mutant: the cut is not cleaned
ReplayStart == IF lo > 0 THEN CleanStart ELSE 0

-----------------------------------------------------------------------------
(* The daemon's attach handler.                                            *)

DaemonCloses(c) == IF conn[c] = "both" THEN "client" ELSE "none"
ClientCloses(c) == IF conn[c] = "both" THEN "daemon" ELSE "none"

\* A frame goes out, or the handler ends because the client's end is closed.
Send(c, frame, next) ==
  \/ /\ conn[c] = "both" /\ Len(wire[c]) < Room
     /\ wire' = [wire EXCEPT ![c] = Append(@, frame)]
     /\ srv' = [srv EXCEPT ![c] = next]
     /\ UNCHANGED conn
  \/ /\ conn[c] # "both"
     /\ srv' = [srv EXCEPT ![c] = IdleSrv]
     /\ conn' = [conn EXCEPT ![c] = "none"]
     /\ UNCHANGED wire

NewHandler ==
  [IdleSrv EXCEPT !.pc = "replay", !.sub = TRUE,
                  !.replay = [i \in 1..(printed - ReplayStart) |-> ReplayStart + i]]

\* Snapshot and subscription are one critical section.
Serve(c) ==
  /\ srv[c].pc = "serve"
  /\ \/ /\ shell = "running"
        /\ from' = [from EXCEPT ![c] = [after |-> ReplayStart, upto |-> printed]]
        /\ srv' = [srv EXCEPT ![c] = NewHandler]
        /\ UNCHANGED <<wire, conn>>
     \/ /\ shell = "exited"
        /\ wire' = [wire EXCEPT ![c] = <<Control("refused")>>]
        /\ conn' = [conn EXCEPT ![c] = DaemonCloses(c)]
        /\ srv' = [srv EXCEPT ![c] = IdleSrv]
        /\ UNCHANGED from
  /\ UNCHANGED <<shellVars, scr, behind, typed>>

SendReplay(c) ==
  /\ srv[c].pc = "replay"
  /\ IF srv[c].replay = <<>>
       THEN Send(c, Control("done"), [srv[c] EXCEPT !.pc = "live"])
       ELSE Send(c, Byte(Head(srv[c].replay)), [srv[c] EXCEPT !.replay = Tail(@)])
  /\ UNCHANGED <<shellVars, scr, from, behind, typed>>

\* The handler looks at its connection only when there is output to forward.
Forward(c) ==
  /\ srv[c].pc = "live" /\ srv[c].ch # <<>>
  /\ Send(c, Byte(Head(srv[c].ch)), [srv[c] EXCEPT !.ch = Tail(@)])
  /\ UNCHANGED <<shellVars, scr, from, behind, typed>>

\* The channel is closed and drained: the exit code, if there is one, then the end.
Finish(c) ==
  /\ srv[c].pc = "live" /\ srv[c].ch = <<>> /\ srv[c].closed
  /\ IF shell = "exited" /\ conn[c] = "both"
       THEN /\ Len(wire[c]) < Room
            /\ wire' = [wire EXCEPT ![c] = Append(@, Control("exit"))]
       ELSE UNCHANGED wire
  /\ srv' = [srv EXCEPT ![c] = IdleSrv]
  /\ conn' = [conn EXCEPT ![c] = DaemonCloses(c)]
  /\ UNCHANGED <<shellVars, scr, from, behind, typed>>

-----------------------------------------------------------------------------
(* The client.                                                             *)

Dial(c) ==
  /\ scr[c].pc = "off" /\ shell # "lost"
  /\ scr' = [scr EXCEPT ![c].pc = "attach"]
  /\ srv' = [srv EXCEPT ![c].pc = "serve"]
  /\ conn' = [conn EXCEPT ![c] = "both"]
  /\ UNCHANGED <<shellVars, wire, from, behind, typed>>

\* The screen is done with the connection and its emulator.
EndWith(c, how) ==
  /\ scr' = [scr EXCEPT ![c] = [@ EXCEPT !.pc = how, !.buf = <<>>, !.hand = Nil]]
  /\ conn' = [conn EXCEPT ![c] = ClientCloses(c)]
  /\ wire' = [wire EXCEPT ![c] = <<>>]

\* The next frame, and the end of a connection the daemon has closed.
Arrives(c, t) == wire[c] # <<>> /\ Head(wire[c]).typ = t
Drained(c) == wire[c] = <<>> /\ conn[c] = "client"

\* An emulator drops replies until the marker, which follows a replay.
DropsRepliesAlways(c) == c \notin Web  \* mutant: without a replay, too
DropsReplies(c) == c \notin Web /\ scr[c].buf # <<>>

\* Client.Attach: gather the replay; only then is there a stream.
Gather(c) ==
  /\ scr[c].pc = "attach"
  /\ \/ /\ Arrives(c, "output")
        /\ scr' = [scr EXCEPT ![c].buf = Append(@, Head(wire[c]).at)]
        /\ wire' = [wire EXCEPT ![c] = Tail(@)]
        /\ UNCHANGED conn
     \/ /\ Arrives(c, "done")
        /\ scr' = [scr EXCEPT ![c].pc = IF scr[c].buf = <<>> THEN "live" ELSE "replay",
                              ![c].skip = DropsReplies(c)]
        /\ wire' = [wire EXCEPT ![c] = Tail(@)]
        /\ UNCHANGED conn
     \/ Arrives(c, "refused") /\ EndWith(c, "refused")
     \/ Drained(c) /\ EndWith(c, IF from[c] = Nil THEN "refused" ELSE "cut")
  /\ UNCHANGED <<shellVars, srv, from, behind, typed>>

\* The emulator parses a byte.  Its answer to a query goes into the reply pipe,
\* which holds one: the parser waits for the reader to take the one before.  The
\* browser answers too; its page leaves out the answers to the replay itself.
CanParse(c, p) == tape[p] = "query" /\ c \notin Web => scr[c].hand = Nil

Parsed(c, p) ==
  [scr[c] EXCEPT !.seen = Append(@, p),
                 !.hand = IF tape[p] = "query" /\ c \notin Web THEN p ELSE @]

WebAnswer(c, p) ==
  IF tape[p] = "query" /\ c \in Web /\ conn[c] = "both"
    THEN [typed EXCEPT ![c] = @ \cup {p}] ELSE typed

ShowReplay(c) ==
  /\ scr[c].pc = "replay" /\ scr[c].buf # <<>>
  /\ CanParse(c, Head(scr[c].buf))
  /\ scr' = [scr EXCEPT ![c] = [Parsed(c, Head(scr[c].buf)) EXCEPT !.buf = Tail(@)]]
  /\ UNCHANGED <<shellVars, srv, wire, conn, from, behind, typed>>

\* Mutant: a flag is cleared when the replay is parsed, and no marker is used.
EndReplayAtOnce(c) ==
  /\ scr[c].pc = "replay" /\ scr[c].buf = <<>>
  /\ scr' = [scr EXCEPT ![c] = [@ EXCEPT !.pc = "live", !.skip = FALSE]]
  /\ UNCHANGED <<shellVars, srv, wire, conn, from, behind, typed>>

\* The marker goes into the pipe behind the answers to the replay.
EndReplay(c) ==
  /\ scr[c].pc = "replay" /\ scr[c].buf = <<>> /\ scr[c].hand = Nil
  /\ scr' = [scr EXCEPT ![c] = [@ EXCEPT !.pc = "live",
                                         !.hand = IF c \in Web THEN Nil ELSE Marker]]
  /\ UNCHANGED <<shellVars, srv, wire, conn, from, behind, typed>>

ShowLive(c) ==
  /\ scr[c].pc = "live" /\ Arrives(c, "output")
  /\ CanParse(c, Head(wire[c]).at)
  /\ scr' = [scr EXCEPT ![c] = Parsed(c, Head(wire[c]).at)]
  /\ typed' = WebAnswer(c, Head(wire[c]).at)
  /\ wire' = [wire EXCEPT ![c] = Tail(@)]
  /\ UNCHANGED <<shellVars, srv, conn, from, behind>>

\* The reader of the reply pipe: up to the marker it drops what it reads, then
\* it types it into the shell; a failed write ends it.
TakeReply(c) ==
  /\ scr[c].hand # Nil /\ scr[c].answers
  /\ IF scr[c].skip
       THEN /\ scr' = [scr EXCEPT ![c] = [@ EXCEPT !.hand = Nil,
                                                   !.skip = scr[c].hand # Marker]]
            /\ UNCHANGED typed
       ELSE /\ scr' = [scr EXCEPT ![c] = [@ EXCEPT !.hand = Nil,
                                                   !.answers = conn[c] = "both"]]
            /\ typed' = IF conn[c] = "both"
                          THEN [typed EXCEPT ![c] = @ \cup {scr[c].hand}] ELSE typed
  /\ UNCHANGED <<shellVars, srv, wire, conn, from, behind>>

\* Stream.Read returns the end.
StreamEnds(c) ==
  /\ scr[c].pc = "live"
  /\ \/ Arrives(c, "exit") /\ EndWith(c, "told")
     \/ Drained(c) /\ EndWith(c, "cut")
  /\ UNCHANGED <<shellVars, srv, from, behind, typed>>

\* The user closes the view.  The terminal UI closes the connection, and so does
\* a relay still writing the replay; later the relay first waits for its reader,
\* which ends at the next output.
Close(c) ==
  /\ scr[c].pc \in {"replay", "live"}
  /\ IF c \in Web /\ scr[c].pc = "live"
       THEN /\ scr' = [scr EXCEPT ![c].pc = "leaving"] /\ UNCHANGED <<conn, wire>>
       ELSE EndWith(c, "left")
  /\ UNCHANGED <<shellVars, srv, from, behind, typed>>

RelayEnds(c) ==
  /\ scr[c].pc = "leaving" /\ (wire[c] # <<>> \/ Drained(c))
  /\ EndWith(c, "left")
  /\ UNCHANGED <<shellVars, srv, from, behind, typed>>

-----------------------------------------------------------------------------
Handler(c) == Serve(c) \/ SendReplay(c) \/ Forward(c) \/ Finish(c)
Reader(c) ==
  Gather(c) \/ ShowReplay(c) \/ EndReplay(c) \/ ShowLive(c) \/ StreamEnds(c) \/ RelayEnds(c)

Next ==
  \/ ShellWrites \/ Broadcast \/ ShellExits \/ DaemonDies
  \/ \E c \in Clients : Handler(c) \/ Dial(c) \/ Reader(c) \/ TakeReply(c) \/ Close(c)

Spec == Init /\ [][Next]_vars

\* The daemon's goroutines run, and so do the clients that do not stall; nobody
\* has to print, exit, attach or leave.
Fairness ==
  /\ WF_vars(Broadcast)
  /\ \A c \in Clients : WF_vars(Handler(c))
  /\ \A c \in Clients \ Stalling : WF_vars(Reader(c)) /\ WF_vars(TakeReply(c))

FairSpec == Spec /\ Fairness

-----------------------------------------------------------------------------
(* Properties.                                                             *)

\* Attaching keeps the promise of TerminalView: no byte is lost, doubled or out
\* of order between the replay and the live stream, a client is cut off only
\* when it lags or the daemon is lost, and hears of the exit after all output.
View == INSTANCE TerminalView WITH
  Views <- Clients,
  from <- [c \in Clients |-> IF from[c] = Nil THEN Nil ELSE from[c].after],
  seen <- [c \in Clients |-> scr[c].seen],
  end <- [c \in Clients |->
            IF scr[c].pc = "leaving" THEN "left"
            ELSE IF scr[c].pc \in {"told", "cut", "left"} /\ from[c] # Nil THEN scr[c].pc
            ELSE "no"]
ViewKept == View!Spec

\* What a replay starts with is not the middle of an escape sequence or of a
\* rune, unless the window of the cut buffer has no boundary.
Inside(p) == tape[p] \in {"seq", "cont"}
CleanReplay ==
  [][\A c \in Clients :
       LET first == from'[c].after + 1
           w == (lo + 1)..(lo + Window)
       IN from[c] = Nil /\ from'[c] # Nil /\ first <= printed /\ Inside(first)
            => \A p \in w \cap Positions : p <= printed => tape[p] \notin {"nl", "esc", "query"}]_vars

\* Answers to queries of the past are not typed into the shell.
RepliesAreLive ==
  \A c \in Clients : \A p \in typed[c] : from[c] # Nil /\ p > from[c].upto

\* Whatever its clients do, the daemon takes the shell's output.
OutputNeverStalls == (made > printed) ~> (made = printed \/ shell # "running")

\* The reply pipe has lost its reader with an answer in it: the emulator's parser
\* waits for ever.
Stuck(c) == scr[c].hand # Nil /\ ~scr[c].answers

\* A client that keeps reading catches up with the output, unless it is dropped
\* as too slow, leaves, loses the daemon or is stuck.
Attached(c) == from[c] # Nil
OutputIsSeen ==
  \A c \in Clients \ Stalling :
    Attached(c) ~> \/ Attached(c) /\ from[c].after + Len(scr[c].seen) = printed
                   \/ scr[c].pc \in {"cut", "left", "leaving"} \/ c \in behind \/ Stuck(c)

\* The queries an emulator has shown live are answered while it is connected.
Unanswered(c) ==
  {p \in Range(scr[c].seen) : p > from[c].upto /\ tape[p] = "query" /\ p \notin typed[c]}
QueryAnswered ==
  \A c \in Clients \ (Stalling \cup Web) :
    (scr[c].seen # <<>> /\ Unanswered(c) # {}) ~>
       (Unanswered(c) = {} \/ conn[c] # "both" \/ ~scr[c].answers)

\* The state is well-formed, and what is typed is an answer.
StreamsSound == TypeOK /\ RepliesAreLive

\* No stream gets stuck: the shell does not wait for clients, clients see what it
\* prints, and their answers reach it.
StreamsMove == OutputNeverStalls /\ OutputIsSeen /\ QueryAnswered
=============================================================================
