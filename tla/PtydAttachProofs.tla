-------------------------- MODULE PtydAttachProofs --------------------------
(***************************************************************************)
(* Proofs about attaching to a session (PtydAttach), for every set of      *)
(* clients, every output of the shell and every size of the buffers.       *)
(*                                                                         *)
(* A stream is numbered: the bytes of the replay, the frame that ends it,  *)
(* and the live bytes.  The invariant says where in that stream each of    *)
(* its holders is: what a client has taken, what is on the wire, and what  *)
(* the daemon's handler has still to send, up to what broadcast has taken. *)
(***************************************************************************)
EXTENDS PtydAttach, TLAPS, SequenceTheorems, FiniteSetTheorems, WellFoundedInduction

-----------------------------------------------------------------------------
(* Sequences, and the smallest of a set of numbers.                        *)

LEMMA Taken ==
  ASSUME NEW S, NEW s \in Seq(S), s # <<>>
  PROVE  /\ Len(s) \in Nat /\ Len(s) > 0 /\ Head(s) = s[1] /\ s[1] \in S
         /\ Tail(s) \in Seq(S) /\ Len(Tail(s)) = Len(s) - 1
         /\ \A i \in 1..(Len(s) - 1) : Tail(s)[i] = s[i + 1]
<1>1. Len(s) \in Nat \ {0} BY EmptySeq
<1>2. Tail(s) \in Seq(S) /\ Len(Tail(s)) = Len(s) - 1
      /\ \A i \in 1..Len(Tail(s)) : Tail(s)[i] = s[i + 1]  BY HeadTailProperties
<1>3. s[1] \in S  BY <1>1, ElementOfSeq
<1> QED BY <1>1, <1>2, <1>3

LEMMA Added ==
  ASSUME NEW S, NEW s \in Seq(S), NEW e \in S
  PROVE  /\ Append(s, e) \in Seq(S) /\ Len(Append(s, e)) = Len(s) + 1
         /\ Append(s, e)[Len(s) + 1] = e
         /\ \A i \in 1..Len(s) : Append(s, e)[i] = s[i]
BY AppendProperties

LEMMA Short ==
  ASSUME NEW S, NEW n \in Nat, NEW s \in Seq(S), Len(s) <= n
  PROVE  s \in BoundedSeq(S, n)
<1>1. Len(s) \in 0..n /\ s \in [1..Len(s) -> S]  BY LenProperties
<1> QED BY <1>1 DEF BoundedSeq, SeqOf

Below == {ss \in Nat \X Nat : ss[1] < ss[2]}

LEMMA BelowWellFounded == IsWellFoundedOn(Below, Nat)
BY NatLessThanWellFounded DEF OpToRel, Below

LEMMA Smallest ==
  ASSUME NEW S \in SUBSET Nat, S # {}
  PROVE  FirstOf(S) \in S /\ \A q \in S : FirstOf(S) <= q
<1>1. PICK p \in S : \A q \in S : <<q, p>> \notin Below  BY BelowWellFounded, WFMin
<1>2. ASSUME NEW q \in S  PROVE p <= q
  <2>1. p \in Nat /\ q \in Nat /\ <<q, p>> \notin Below  BY <1>1
  <2>2. ASSUME q < p  PROVE FALSE
    <3>1. <<q, p>> \in Nat \X Nat /\ <<q, p>>[1] = q /\ <<q, p>>[2] = p  BY <2>1
    <3>2. <<q, p>>[1] < <<q, p>>[2]  BY <2>2, <3>1
    <3>3. <<q, p>> \in Below  BY <3>1, <3>2, Zenon DEF Below
    <3> QED BY <3>3, <2>1
  <2> QED BY <2>1, <2>2
<1> QED BY <1>2 DEF FirstOf

-----------------------------------------------------------------------------
(* Types.                                                                  *)

Places == [after : 0..Len(tape), upto : 0..Len(tape)]
Handlers ==
  [pc : {"none", "serve", "replay", "live"}, replay : Seq(Positions), ch : Seq(Positions),
   sub : BOOLEAN, closed : BOOLEAN]
Screens ==
  [pc : {"off", "attach", "replay", "live", "leaving", "left", "told", "cut", "refused"},
   buf : Seq(Positions), seen : Seq(Positions), hand : Positions \cup {Marker, Nil},
   skip : BOOLEAN, answers : BOOLEAN]

Typed ==
  /\ tape \in Tapes
  /\ made \in 0..Len(tape) /\ printed \in 0..made /\ lo \in 0..printed
  /\ printed - lo <= MaxBuf
  /\ shell \in {"running", "exited", "lost"}
  /\ srv \in [Clients -> Handlers]
  /\ \A c \in Clients :
       /\ Len(srv[c].replay) <= MaxBuf /\ Len(srv[c].ch) <= SubBuffer
       /\ Len(wire[c]) <= Room
  /\ wire \in [Clients -> Seq(Frames)]
  /\ conn \in [Clients -> {"none", "both", "client", "daemon"}]
  /\ scr \in [Clients -> Screens]
  /\ from \in [Clients -> Places \cup {Nil}]
  /\ behind \subseteq Clients
  /\ typed \in [Clients -> SUBSET (Positions \cup {Marker})]

LEMMA Tape == ASSUME Typed PROVE Len(tape) \in Nat /\ made \in Nat /\ printed \in Nat /\ lo \in Nat
BY AttachAssumption, LenProperties DEF Typed

LEMMA SameTape ==
  ASSUME UNCHANGED tape
  PROVE  /\ Positions' = Positions /\ Frames' = Frames /\ Handlers' = Handlers
         /\ Screens' = Screens /\ Places' = Places
BY DEF Positions, Frames, Handlers, Screens, Places

LEMMA FrameKinds ==
  ASSUME NEW f \in Frames
  PROVE  \/ f.typ = "output" /\ f.at \in Positions /\ f = Byte(f.at)
         \/ f.typ \in {"done", "exit", "refused"} /\ f = Control(f.typ)
BY DEF Frames, Byte, Control

LEMMA FrameOf ==
  /\ \A p \in Positions : Byte(p) \in Frames
  /\ \A t \in {"done", "exit", "refused"} : Control(t) \in Frames
BY DEF Frames

LEMMA Idles == IdleSrv \in Handlers /\ IdleScr \in Screens
<1>1. <<>> \in Seq(Positions)  BY EmptySeq
<1> QED BY <1>1 DEF IdleSrv, IdleScr, Handlers, Screens

\* A replay starts within what the scrollback holds.
LEMMA ReplayWithin ==
  ASSUME Typed
  PROVE  ReplayStart \in Nat /\ lo <= ReplayStart /\ ReplayStart <= printed
<1>0. printed \in Nat /\ lo \in Nat /\ lo <= printed /\ Window \in Nat
  BY Tape, AttachAssumption DEF Typed
<1>1. CASE lo = 0  BY <1>0, <1>1 DEF ReplayStart
<1>2. CASE lo > 0
  <2> DEFINE top == IF printed - lo > Window THEN lo + Window ELSE printed
             w == (lo + 1)..top
             nls == {p \in w : tape[p] = "nl"}
             escs == {p \in w : tape[p] \in {"esc", "query"}}
             starts == {p \in w : tape[p] # "cont"}
  <2>1. top \in Nat /\ lo <= top /\ top <= printed  BY <1>0
  <2> HIDE DEF top
  <2>2. w \in SUBSET Nat /\ \A p \in w : lo + 1 <= p /\ p <= printed  BY <1>0, <2>1
  <2>3. /\ nls # {} => FirstOf(nls) \in w
        /\ escs # {} => FirstOf(escs) \in w
        /\ starts # {} => FirstOf(starts) \in w
    <3>1. nls \in SUBSET Nat /\ escs \in SUBSET Nat /\ starts \in SUBSET Nat  BY <2>2
    <3> QED BY <3>1, Smallest
  <2>4. Cardinality(w) = top - lo
    <3>1. lo + 1 \in Int /\ top \in Int  BY <1>0, <2>1
    <3>2. Cardinality(w) = IF lo + 1 > top THEN 0 ELSE top - (lo + 1) + 1  BY <3>1, FS_Interval
    <3> QED BY <1>0, <2>1, <3>2
  <2>5. CleanStart = CASE nls # {} -> FirstOf(nls)
                       [] nls = {} /\ escs # {} -> FirstOf(escs) - 1
                       [] OTHER -> IF starts # {} THEN FirstOf(starts) - 1
                                                  ELSE lo + Cardinality(w)
    BY DEF CleanStart, top
  <2>6. ReplayStart = CleanStart  BY <1>2, <1>0 DEF ReplayStart
  <2> HIDE DEF w, nls, escs, starts
  <2>7. CASE nls # {}  BY <2>7, <2>5, <2>6, <2>3, <2>2, <1>0
  <2>8. CASE nls = {} /\ escs # {}  BY <2>8, <2>5, <2>6, <2>3, <2>2, <1>0
  <2>9. CASE nls = {} /\ escs = {} /\ starts # {}  BY <2>9, <2>5, <2>6, <2>3, <2>2, <1>0
  <2>10. CASE nls = {} /\ escs = {} /\ starts = {}
    BY <2>10, <2>5, <2>6, <2>4, <2>1, <1>0
  <2> QED BY <2>7, <2>8, <2>9, <2>10
<1> QED BY <1>0, <1>1, <1>2

-----------------------------------------------------------------------------
(* What a step does to one client's entries leaves the others alone.       *)

LEMMA InitTyped == ASSUME Init PROVE Typed
<1>1. tape \in Seq(Classes) /\ Len(tape) \in Nat  BY AttachAssumption, LenProperties DEF Init
<1>2. <<>> \in Seq(Frames) /\ Len(<<>>) = 0  BY EmptySeq
<1>3. MaxBuf \in Nat /\ SubBuffer \in Nat /\ Room \in Nat  BY AttachAssumption
<1> QED BY <1>1, <1>2, <1>3, Idles DEF Init, Typed, IdleSrv

\* One of the daemon's frames goes out, or its handler ends.
LEMMA SendTyped ==
  ASSUME Typed, NEW c \in Clients, NEW f \in Frames, NEW h \in Handlers, Send(c, f, h),
         Len(h.replay) <= MaxBuf, Len(h.ch) <= SubBuffer,
         UNCHANGED <<shellVars, scr, from, behind, typed>>
  PROVE  Typed'
<1>1. CASE conn[c] = "both" /\ Len(wire[c]) < Room
           /\ wire' = [wire EXCEPT ![c] = Append(@, f)]
           /\ srv' = [srv EXCEPT ![c] = h] /\ UNCHANGED conn
  <2>1. wire[c] \in Seq(Frames) /\ Room \in Nat /\ Len(wire[c]) \in Nat
    BY AttachAssumption, LenProperties DEF Typed
  <2>2. Append(wire[c], f) \in Seq(Frames) /\ Len(Append(wire[c], f)) <= Room
    BY <1>1, <2>1, Added
  <2> QED BY <1>1, <2>2, SameTape DEF Typed, shellVars
<1>2. CASE conn[c] # "both" /\ srv' = [srv EXCEPT ![c] = IdleSrv]
           /\ conn' = [conn EXCEPT ![c] = "none"] /\ UNCHANGED wire
  <2>1. Len(IdleSrv.replay) = 0 /\ Len(IdleSrv.ch) = 0 /\ MaxBuf \in Nat /\ SubBuffer \in Nat
    BY AttachAssumption DEF IdleSrv
  <2>2. srv' \in [Clients -> Handlers]  BY <1>2, Idles DEF Typed
  <2>3. conn' \in [Clients -> {"none", "both", "client", "daemon"}]  BY <1>2 DEF Typed
  <2>4. \A d \in Clients : srv'[d] = IF d = c THEN IdleSrv ELSE srv[d]  BY <1>2 DEF Typed
  <2> QED BY <1>2, <2>1, <2>2, <2>3, <2>4, SameTape DEF Typed, shellVars
<1> QED BY <1>1, <1>2 DEF Send

LEMMA EndTyped ==
  ASSUME Typed, NEW c \in Clients, NEW how \in {"told", "cut", "left", "refused"},
         EndWith(c, how), UNCHANGED <<shellVars, srv, from, behind, typed>>
  PROVE  Typed'
<1>1. scr[c] \in Screens /\ <<>> \in Seq(Positions) /\ <<>> \in Seq(Frames) /\ Len(<<>>) = 0
      /\ Room \in Nat
  BY EmptySeq, AttachAssumption DEF Typed
<1>2. [scr[c] EXCEPT !.pc = how, !.buf = <<>>, !.hand = Nil] \in Screens
  BY <1>1 DEF Screens
<1>3. ClientCloses(c) \in {"daemon", "none"}  BY DEF ClientCloses
<1>4. scr' \in [Clients -> Screens]  BY <1>2 DEF EndWith, Typed
<1>5. conn' \in [Clients -> {"none", "both", "client", "daemon"}]
  BY <1>3 DEF EndWith, Typed
<1>6. wire' \in [Clients -> Seq(Frames)]  BY <1>1 DEF EndWith, Typed
<1>7. \A d \in Clients : wire'[d] = IF d = c THEN <<>> ELSE wire[d]  BY DEF EndWith, Typed
<1> QED BY <1>1, <1>4, <1>5, <1>6, <1>7, SameTape DEF Typed, shellVars

LEMMA BroadcastTyped == ASSUME Typed, Broadcast PROVE Typed'
<1>0. /\ tape \in Tapes /\ made \in Nat /\ printed \in Nat /\ lo \in Nat /\ Len(tape) \in Nat
      /\ MaxBuf \in Nat \ {0} /\ SubBuffer \in Nat
  BY Tape, AttachAssumption DEF Typed
<1>1. /\ made' \in 0..Len(tape') /\ printed' \in 0..made' /\ lo' \in 0..printed'
      /\ printed' - lo' <= MaxBuf
  BY <1>0 DEF Typed, Broadcast
<1>2. ASSUME NEW c \in Clients
      PROVE  /\ Offer(c) \in Handlers
             /\ Len(Offer(c).replay) <= MaxBuf /\ Len(Offer(c).ch) <= SubBuffer
  <2>1. srv[c] \in Handlers /\ srv[c].ch \in Seq(Positions) /\ Len(srv[c].ch) \in Nat
    BY LenProperties DEF Typed, Handlers
  <2>2. printed + 1 \in Positions  BY <1>0 DEF Broadcast, Typed, Positions
  <2>3. /\ Append(srv[c].ch, printed + 1) \in Seq(Positions)
        /\ Len(Append(srv[c].ch, printed + 1)) = Len(srv[c].ch) + 1
    BY <2>1, <2>2, Added
  <2>4. CASE Slow(c)
    <3>1. Offer(c) = [srv[c] EXCEPT !.sub = FALSE, !.closed = TRUE]  BY <2>4 DEF Offer
    <3>2. /\ Offer(c) \in Handlers /\ Offer(c).replay = srv[c].replay
          /\ Offer(c).ch = srv[c].ch /\ Offer(c).sub = FALSE
      BY <2>1, <3>1 DEF Handlers
    <3> QED BY <3>2 DEF Typed
  <2>5. CASE srv[c].sub /\ ~Slow(c)
    <3>1. Len(srv[c].ch) < SubBuffer  BY <2>1, <2>5, <1>0 DEF Slow, Typed
    <3>2. Offer(c) = [srv[c] EXCEPT !.ch = Append(srv[c].ch, printed + 1)]
      BY <2>5 DEF Offer
    <3>3. /\ Offer(c) \in Handlers /\ Offer(c).replay = srv[c].replay
          /\ Offer(c).ch = Append(srv[c].ch, printed + 1) /\ Offer(c).sub = srv[c].sub
          /\ Offer(c).closed = srv[c].closed /\ Offer(c).pc = srv[c].pc
      BY <2>1, <2>3, <3>2 DEF Handlers
    <3> QED BY <2>1, <2>3, <3>1, <3>3, <1>0 DEF Typed
  <2>6. CASE ~srv[c].sub  BY <2>1, <2>6 DEF Offer, Slow, Typed
  <2> QED BY <2>4, <2>5, <2>6
<1>3. /\ srv' \in [Clients -> Handlers]
      /\ \A c \in Clients : srv'[c] = Offer(c)
  BY <1>2 DEF Broadcast
<1>4. behind' \subseteq Clients  BY DEF Broadcast, Typed
<1> QED BY <1>0, <1>1, <1>2, <1>3, <1>4, SameTape DEF Typed, Broadcast

LEMMA SessionTyped ==
  ASSUME Typed, ShellWrites \/ ShellExits \/ DaemonDies
  PROVE  Typed'
<1>0. /\ tape \in Tapes /\ made \in Nat /\ printed \in Nat /\ lo \in Nat /\ Len(tape) \in Nat
  BY Tape DEF Typed
<1>1. CASE ShellWrites  BY <1>0, <1>1, SameTape DEF Typed, ShellWrites
<1>2. CASE ShellExits
  <2>1. ASSUME NEW c \in Clients
        PROVE  /\ srv'[c] = [srv[c] EXCEPT !.sub = FALSE, !.closed = srv[c].closed \/ srv[c].sub]
               /\ srv[c] \in Handlers
    BY <1>2 DEF ShellExits, Typed
  <2>2. ASSUME NEW c \in Clients
        PROVE  /\ srv'[c] \in Handlers /\ ~srv'[c].sub
               /\ srv'[c].replay = srv[c].replay /\ srv'[c].ch = srv[c].ch
    BY <2>1 DEF Handlers
  <2>3. srv' \in [Clients -> Handlers]  BY <1>2, <2>2 DEF ShellExits
  <2> QED BY <1>0, <1>2, <2>2, <2>3, SameTape DEF Typed, ShellExits
<1>3. CASE DaemonDies
  <2>1. srv' \in [Clients -> Handlers] /\ \A c \in Clients : srv'[c] = IdleSrv
    BY <1>3, Idles DEF DaemonDies
  <2>2. /\ Len(IdleSrv.replay) = 0 /\ Len(IdleSrv.ch) = 0
        /\ MaxBuf \in Nat /\ SubBuffer \in Nat
    BY AttachAssumption DEF IdleSrv
  <2>3. conn' \in [Clients -> {"none", "both", "client", "daemon"}]  BY <1>3 DEF DaemonDies
  <2> QED BY <1>0, <1>3, <2>1, <2>2, <2>3, SameTape DEF Typed, DaemonDies
<1> QED BY <1>1, <1>2, <1>3

\* The handler a client is given holds what broadcast has taken since some point.
LEMMA NewHandlerIs ==
  ASSUME Typed
  PROVE  /\ NewHandler \in Handlers /\ Len(NewHandler.replay) <= MaxBuf
         /\ NewHandler.pc = "replay" /\ NewHandler.sub /\ ~NewHandler.closed
         /\ NewHandler.ch = <<>> /\ Len(NewHandler.ch) = 0
         /\ Len(NewHandler.replay) = printed - ReplayStart
         /\ \A i \in 1..(printed - ReplayStart) : NewHandler.replay[i] = ReplayStart + i
<1> DEFINE r == [i \in 1..(printed - ReplayStart) |-> ReplayStart + i]
<1>0. /\ ReplayStart \in Nat /\ lo <= ReplayStart /\ ReplayStart <= printed
      /\ printed \in Nat /\ lo \in Nat /\ printed <= Len(tape) /\ Len(tape) \in Nat
      /\ printed - lo <= MaxBuf /\ MaxBuf \in Nat
  BY ReplayWithin, Tape, AttachAssumption DEF Typed
<1> HIDE DEF ReplayStart
<1>1. r \in [1..(printed - ReplayStart) -> Positions]  BY <1>0 DEF Positions
<1>2. r \in Seq(Positions) /\ Len(r) = printed - ReplayStart
  <2>1. printed - ReplayStart \in Nat  BY <1>0
  <2>2. r \in Seq(Positions)  BY <1>1, <2>1, SeqDef
  <2>3. DOMAIN r = 1..Len(r) /\ Len(r) \in Nat  BY <2>2, LenProperties
  <2> QED BY <2>1, <2>2, <2>3
<1>3. NewHandler = [IdleSrv EXCEPT !.pc = "replay", !.sub = TRUE, !.replay = r]
  BY DEF NewHandler
<1>4. \A i \in 1..(printed - ReplayStart) : r[i] = ReplayStart + i  OBVIOUS
<1> HIDE DEF r
<1>5. /\ NewHandler = [pc |-> "replay", replay |-> r, ch |-> <<>>, sub |-> TRUE, closed |-> FALSE]
      /\ <<>> \in Seq(Positions) /\ Len(<<>>) = 0
  BY <1>3, EmptySeq DEF IdleSrv
<1>6. NewHandler \in Handlers  BY <1>2, <1>5 DEF Handlers
<1>7. /\ NewHandler.pc = "replay" /\ NewHandler.sub /\ ~NewHandler.closed
      /\ NewHandler.ch = <<>> /\ NewHandler.replay = r
  BY <1>5
<1> QED BY <1>0, <1>2, <1>4, <1>5, <1>6, <1>7

LEMMA HandlerTyped ==
  ASSUME Typed, NEW c \in Clients, Handler(c)
  PROVE  Typed'
<1>0. /\ srv[c] \in Handlers /\ Len(srv[c].replay) <= MaxBuf /\ Len(srv[c].ch) <= SubBuffer
      /\ srv[c].replay \in Seq(Positions) /\ srv[c].ch \in Seq(Positions)
      /\ Len(srv[c].replay) \in Nat /\ Len(srv[c].ch) \in Nat
      /\ MaxBuf \in Nat /\ SubBuffer \in Nat /\ Room \in Nat \ {0}
  BY LenProperties, AttachAssumption DEF Typed, Handlers
<1>1. CASE Serve(c)
  <2>1. CASE shell = "running" /\ srv' = [srv EXCEPT ![c] = NewHandler]
             /\ from' = [from EXCEPT ![c] = [after |-> ReplayStart, upto |-> printed]]
             /\ UNCHANGED <<wire, conn>>
    <3>1. [after |-> ReplayStart, upto |-> printed] \in Places
      BY ReplayWithin, Tape DEF Places, Typed
    <3>2. srv' \in [Clients -> Handlers]  BY <2>1, NewHandlerIs DEF Typed
    <3>3. from' \in [Clients -> Places \cup {Nil}]  BY <2>1, <3>1 DEF Typed
    <3>4. \A d \in Clients : srv'[d] = IF d = c THEN NewHandler ELSE srv[d]
      BY <2>1 DEF Typed
    <3>5. UNCHANGED <<shellVars, scr, behind, typed>>  BY <1>1 DEF Serve
    <3> QED BY <1>0, <2>1, <3>2, <3>3, <3>4, <3>5, NewHandlerIs, SameTape
          DEF Typed, shellVars
  <2>2. CASE wire' = [wire EXCEPT ![c] = <<Control("refused")>>]
             /\ conn' = [conn EXCEPT ![c] = DaemonCloses(c)]
             /\ srv' = [srv EXCEPT ![c] = IdleSrv] /\ UNCHANGED from
    <3>1. <<Control("refused")>> \in Seq(Frames) /\ Len(<<Control("refused")>>) = 1
      BY FrameOf
    <3>2. DaemonCloses(c) \in {"client", "none"}  BY DEF DaemonCloses
    <3>3. srv' \in [Clients -> Handlers]  BY <2>2, Idles DEF Typed
    <3>4. conn' \in [Clients -> {"none", "both", "client", "daemon"}]
      BY <2>2, <3>2 DEF Typed
    <3>5. wire' \in [Clients -> Seq(Frames)]  BY <2>2, <3>1 DEF Typed
    <3>6. \A d \in Clients : /\ srv'[d] = IF d = c THEN IdleSrv ELSE srv[d]
                             /\ wire'[d] = IF d = c THEN <<Control("refused")>> ELSE wire[d]
      BY <2>2 DEF Typed
    <3>7. Len(IdleSrv.replay) = 0 /\ Len(IdleSrv.ch) = 0  BY DEF IdleSrv
    <3>8. UNCHANGED <<shellVars, scr, behind, typed>>  BY <1>1 DEF Serve
    <3> QED BY <1>0, <2>2, <3>1, <3>3, <3>4, <3>5, <3>6, <3>7, <3>8, SameTape
          DEF Typed, shellVars
  <2> QED BY <1>1, <2>1, <2>2 DEF Serve
<1>2. CASE SendReplay(c)
  <2>1. UNCHANGED <<shellVars, scr, from, behind, typed>>  BY <1>2 DEF SendReplay
  <2>2. CASE srv[c].replay = <<>>
    <3>1. [srv[c] EXCEPT !.pc = "live"] \in Handlers  BY <1>0 DEF Handlers
    <3>2. Send(c, Control("done"), [srv[c] EXCEPT !.pc = "live"])
      BY <1>2, <2>2 DEF SendReplay
    <3>3. Control("done") \in Frames  BY FrameOf
    <3>4. LET h == [srv[c] EXCEPT !.pc = "live"]
          IN h.replay = srv[c].replay /\ h.ch = srv[c].ch /\ h.sub = srv[c].sub
             /\ h.closed = srv[c].closed /\ h.pc = "live"
      BY <1>0 DEF Handlers
    <3> HIDE DEF Send
    <3> QED BY <1>0, <2>1, <3>1, <3>2, <3>3, <3>4, SendTyped
  <2>3. CASE srv[c].replay # <<>>
    <3> DEFINE h == [srv[c] EXCEPT !.replay = Tail(srv[c].replay)]
    <3>1. /\ Tail(srv[c].replay) \in Seq(Positions)
          /\ Len(Tail(srv[c].replay)) <= MaxBuf /\ Head(srv[c].replay) \in Positions
      BY <1>0, <2>3, Taken
    <3>2. /\ h \in Handlers /\ h.replay = Tail(srv[c].replay) /\ h.ch = srv[c].ch
          /\ h.sub = srv[c].sub /\ h.closed = srv[c].closed /\ h.pc = srv[c].pc
      BY <1>0, <3>1 DEF Handlers
    <3>3. Send(c, Byte(Head(srv[c].replay)), h)  BY <1>2, <2>3 DEF SendReplay
    <3>4. Byte(Head(srv[c].replay)) \in Frames  BY <3>1, FrameOf
    <3> HIDE DEF h
    <3> QED BY <1>0, <2>1, <3>1, <3>2, <3>3, <3>4, SendTyped
  <2> QED BY <2>2, <2>3
<1>3. CASE Forward(c)
  <2> DEFINE h == [srv[c] EXCEPT !.ch = Tail(srv[c].ch)]
  <2>1. UNCHANGED <<shellVars, scr, from, behind, typed>> /\ srv[c].ch # <<>>
    BY <1>3 DEF Forward
  <2>2. /\ Tail(srv[c].ch) \in Seq(Positions)
        /\ Len(Tail(srv[c].ch)) <= SubBuffer /\ Head(srv[c].ch) \in Positions
    BY <1>0, <2>1, Taken
  <2>3. /\ h \in Handlers /\ h.ch = Tail(srv[c].ch) /\ h.replay = srv[c].replay
        /\ h.sub = srv[c].sub /\ h.closed = srv[c].closed /\ h.pc = srv[c].pc
    BY <1>0, <2>2 DEF Handlers
  <2>4. Send(c, Byte(Head(srv[c].ch)), h)  BY <1>3 DEF Forward
  <2>5. Byte(Head(srv[c].ch)) \in Frames  BY <2>2, FrameOf
  <2> HIDE DEF h
  <2> QED BY <1>0, <2>1, <2>2, <2>3, <2>4, <2>5, SendTyped
<1>4. CASE Finish(c)
  <2>1. DaemonCloses(c) \in {"client", "none"}  BY DEF DaemonCloses
  <2>2. srv' \in [Clients -> Handlers]  BY <1>4, Idles DEF Finish, Typed
  <2>3. conn' \in [Clients -> {"none", "both", "client", "daemon"}]
    BY <1>4, <2>1 DEF Finish, Typed
  <2>4. wire' \in [Clients -> Seq(Frames)] /\ \A d \in Clients : Len(wire'[d]) <= Room
    <3>1. wire[c] \in Seq(Frames) /\ Len(wire[c]) \in Nat  BY LenProperties DEF Typed
    <3>2. Append(wire[c], Control("exit")) \in Seq(Frames)
          /\ Len(Append(wire[c], Control("exit"))) = Len(wire[c]) + 1
      BY <3>1, FrameOf, Added
    <3>3. CASE UNCHANGED wire  BY <3>3 DEF Typed
    <3>4. CASE /\ Len(wire[c]) < Room
               /\ wire' = [wire EXCEPT ![c] = Append(wire[c], Control("exit"))]
      BY <1>0, <3>1, <3>2, <3>4 DEF Typed
    <3> QED BY <1>4, <3>3, <3>4 DEF Finish
  <2>5. \A d \in Clients : srv'[d] = IF d = c THEN IdleSrv ELSE srv[d]
    BY <1>4 DEF Finish, Typed
  <2>6. Len(IdleSrv.replay) = 0 /\ Len(IdleSrv.ch) = 0  BY DEF IdleSrv
  <2>7. UNCHANGED <<shellVars, scr, from, behind, typed>>  BY <1>4 DEF Finish
  <2>8. ASSUME NEW d \in Clients
        PROVE  Len(srv'[d].replay) <= MaxBuf /\ Len(srv'[d].ch) <= SubBuffer
    <3>1. Len(srv[d].replay) <= MaxBuf /\ Len(srv[d].ch) <= SubBuffer  BY DEF Typed
    <3> QED BY <1>0, <2>5, <2>6, <3>1
  <2> QED BY <2>2, <2>3, <2>4, <2>7, <2>8, SameTape DEF Typed, shellVars
<1> QED BY <1>1, <1>2, <1>3, <1>4 DEF Handler

\* A client's step changes its own screen, and takes from its own wire.
LEMMA ScreenTyped ==
  ASSUME Typed, NEW c \in Clients, NEW v \in Screens, scr' = [scr EXCEPT ![c] = v],
         \/ UNCHANGED wire
         \/ wire[c] # <<>> /\ wire' = [wire EXCEPT ![c] = Tail(wire[c])],
         UNCHANGED <<shellVars, srv, from, conn, behind>>,
         typed' \in [Clients -> SUBSET (Positions \cup {Marker})]
  PROVE  Typed'
<1>1. scr' \in [Clients -> Screens]  BY DEF Typed
<1>2. wire' \in [Clients -> Seq(Frames)] /\ \A d \in Clients : Len(wire'[d]) <= Room
  <2>1. wire[c] \in Seq(Frames) /\ Room \in Nat  BY AttachAssumption DEF Typed
  <2>2. CASE wire[c] # <<>> /\ wire' = [wire EXCEPT ![c] = Tail(wire[c])]
    <3>1. Tail(wire[c]) \in Seq(Frames) /\ Len(wire[c]) \in Nat
          /\ Len(Tail(wire[c])) = Len(wire[c]) - 1
      BY <2>1, <2>2, Taken
    <3>2. wire' \in [Clients -> Seq(Frames)]  BY <2>2, <3>1 DEF Typed
    <3>3. ASSUME NEW d \in Clients  PROVE Len(wire'[d]) <= Room
      <4>1. wire'[d] = IF d = c THEN Tail(wire[c]) ELSE wire[d]  BY <2>2 DEF Typed
      <4>2. Len(wire[d]) <= Room /\ Len(wire[c]) <= Room  BY DEF Typed
      <4> QED BY <2>1, <3>1, <4>1, <4>2
    <3> QED BY <3>2, <3>3
  <2> QED BY <2>2 DEF Typed
<1> QED BY <1>1, <1>2, SameTape DEF Typed, shellVars

LEMMA DialTyped == ASSUME Typed, NEW c \in Clients, Dial(c) PROVE Typed'
<1>1. scr[c] \in Screens /\ srv[c] \in Handlers  BY DEF Typed
<1>2. [scr[c] EXCEPT !.pc = "attach"] \in Screens  BY <1>1 DEF Screens
<1>3. /\ scr' = [scr EXCEPT ![c] = [scr[c] EXCEPT !.pc = "attach"]]
      /\ srv' = [srv EXCEPT ![c] = [srv[c] EXCEPT !.pc = "serve"]]
  BY DEF Dial
<1>4. scr' \in [Clients -> Screens]  BY <1>2, <1>3 DEF Typed
<1>5. /\ [srv[c] EXCEPT !.pc = "serve"] \in Handlers
      /\ [srv[c] EXCEPT !.pc = "serve"].replay = srv[c].replay
      /\ [srv[c] EXCEPT !.pc = "serve"].ch = srv[c].ch
  BY <1>1 DEF Handlers
<1>6. srv' \in [Clients -> Handlers]  BY <1>3, <1>5 DEF Typed
<1>7. conn' \in [Clients -> {"none", "both", "client", "daemon"}]  BY DEF Dial, Typed
<1>8. \A d \in Clients : Len(srv'[d].replay) <= MaxBuf /\ Len(srv'[d].ch) <= SubBuffer
  BY <1>3, <1>5 DEF Typed
<1> QED BY <1>4, <1>6, <1>7, <1>8, SameTape DEF Dial, Typed, shellVars

LEMMA ReaderTyped ==
  ASSUME Typed, NEW c \in Clients, Reader(c) \/ TakeReply(c) \/ Close(c)
  PROVE  Typed'
<1>0. /\ scr[c] \in Screens /\ wire[c] \in Seq(Frames) /\ scr[c].buf \in Seq(Positions)
      /\ scr[c].seen \in Seq(Positions) /\ <<>> \in Seq(Positions)
      /\ scr[c].hand \in Positions \cup {Marker, Nil}
      /\ typed \in [Clients -> SUBSET (Positions \cup {Marker})]
  BY EmptySeq DEF Typed, Screens
<1>1. ASSUME NEW t, Arrives(c, t)
      PROVE  /\ wire[c] # <<>> /\ Head(wire[c]) \in Frames
             /\ t = "output" => Head(wire[c]).at \in Positions
  <2>1. wire[c] # <<>> /\ Head(wire[c]) \in Frames /\ Head(wire[c]).typ = t
    BY <1>0, <1>1, Taken DEF Arrives
  <2> QED BY <2>1, FrameKinds
<1>2. ASSUME NEW p \in Positions
      PROVE  /\ Parsed(c, p) \in Screens /\ Parsed(c, p).buf = scr[c].buf
             /\ WebAnswer(c, p) \in [Clients -> SUBSET (Positions \cup {Marker})]
  <2>1. Append(scr[c].seen, p) \in Seq(Positions)  BY <1>0, Added
  <2>2. Parsed(c, p) = [scr[c] EXCEPT !.seen = Append(scr[c].seen, p),
                           !.hand = IF tape[p] = "query" /\ c \notin Web THEN p ELSE scr[c].hand]
    BY <1>0 DEF Parsed, Screens
  <2>3. WebAnswer(c, p) \in {typed, [typed EXCEPT ![c] = typed[c] \cup {p}]}
    BY DEF WebAnswer
  <2>4. Parsed(c, p) \in Screens /\ Parsed(c, p).buf = scr[c].buf
    BY <1>0, <2>1, <2>2 DEF Screens
  <2> QED BY <1>0, <2>3, <2>4
<1>3. CASE Gather(c)
  <2>0. UNCHANGED <<shellVars, srv, from, behind, typed>>  BY <1>3 DEF Gather
  <2>1. CASE /\ Arrives(c, "output")
             /\ scr' = [scr EXCEPT ![c].buf = Append(@, Head(wire[c]).at)]
             /\ wire' = [wire EXCEPT ![c] = Tail(@)] /\ UNCHANGED conn
    <3> DEFINE v == [scr[c] EXCEPT !.buf = Append(scr[c].buf, Head(wire[c]).at)]
    <3>1. Append(scr[c].buf, Head(wire[c]).at) \in Seq(Positions)
      BY <1>0, <1>1, <2>1, Added
    <3>2. v \in Screens /\ scr' = [scr EXCEPT ![c] = v]  BY <1>0, <2>1, <3>1 DEF Screens
    <3> HIDE DEF v
    <3> QED BY <1>0, <1>1, <2>0, <2>1, <3>2, ScreenTyped
  <2>2. CASE /\ Arrives(c, "done")
             /\ scr' = [scr EXCEPT ![c].pc = IF scr[c].buf = <<>> THEN "live" ELSE "replay",
                                   ![c].skip = DropsReplies(c)]
             /\ wire' = [wire EXCEPT ![c] = Tail(@)] /\ UNCHANGED conn
    <3> DEFINE v == [scr[c] EXCEPT !.pc = IF scr[c].buf = <<>> THEN "live" ELSE "replay",
                                   !.skip = DropsReplies(c)]
    <3>1. DropsReplies(c) \in BOOLEAN  BY DEF DropsReplies
    <3>2. v \in Screens  BY <1>0, <3>1 DEF Screens
    <3>3. scr' = [scr EXCEPT ![c] = v]  BY <2>2 DEF Typed
    <3> HIDE DEF v
    <3> QED BY <1>0, <1>1, <2>0, <2>2, <3>2, <3>3, ScreenTyped
  <2>3. CASE \E how \in {"refused", "cut"} : EndWith(c, how)
    BY <2>0, <2>3, EndTyped
  <2> QED BY <1>3, <2>1, <2>2, <2>3 DEF Gather
<1>4. CASE ShowReplay(c)
  <2> DEFINE p == Head(scr[c].buf)
             v == [Parsed(c, p) EXCEPT !.buf = Tail(scr[c].buf)]
  <2>1. scr[c].buf # <<>> /\ p \in Positions /\ Tail(scr[c].buf) \in Seq(Positions)
    BY <1>0, <1>4, Taken DEF ShowReplay
  <2>2. Parsed(c, p) \in Screens /\ Parsed(c, p).buf = scr[c].buf  BY <1>2, <2>1
  <2>3. scr' = [scr EXCEPT ![c] = v]  BY <1>4, <2>2 DEF ShowReplay
  <2>4. v \in Screens  BY <2>1, <2>2 DEF Screens
  <2> HIDE DEF v, p
  <2> QED BY <1>0, <1>4, <2>3, <2>4, ScreenTyped DEF ShowReplay
<1>5. CASE EndReplay(c)
  <2> DEFINE v == [scr[c] EXCEPT !.pc = "live", !.hand = IF c \in Web THEN Nil ELSE Marker]
  <2>1. scr' = [scr EXCEPT ![c] = v]  BY <1>5 DEF EndReplay
  <2>2. v \in Screens  BY <1>0 DEF Screens
  <2> HIDE DEF v
  <2> QED BY <1>0, <1>5, <2>1, <2>2, ScreenTyped DEF EndReplay
<1>6. CASE ShowLive(c)
  <2> DEFINE p == Head(wire[c]).at
  <2>1. wire[c] # <<>> /\ p \in Positions  BY <1>1, <1>6 DEF ShowLive
  <2>2. Parsed(c, p) \in Screens  BY <1>2, <2>1
  <2>3. typed' \in [Clients -> SUBSET (Positions \cup {Marker})]
    BY <1>2, <1>6, <2>1 DEF ShowLive
  <2> QED BY <1>6, <2>1, <2>2, <2>3, ScreenTyped DEF ShowLive
<1>7. CASE TakeReply(c)
  <2>1. typed' \in [Clients -> SUBSET (Positions \cup {Marker})]
    <3>1. scr[c].hand \in Positions \cup {Marker}  BY <1>0, <1>7 DEF TakeReply
    <3>2. typed' \in {typed, [typed EXCEPT ![c] = typed[c] \cup {scr[c].hand}]}
      BY <1>7 DEF TakeReply
    <3> QED BY <1>0, <3>1, <3>2
  <2>2. PICK s \in BOOLEAN, a \in BOOLEAN :
          scr' = [scr EXCEPT ![c] = [scr[c] EXCEPT !.hand = Nil, !.skip = s, !.answers = a]]
    <3>1. CASE scr[c].skip
      <4>1. scr' = [scr EXCEPT ![c] = [scr[c] EXCEPT !.hand = Nil, !.skip = scr[c].hand # Marker]]
        BY <1>7, <3>1 DEF TakeReply
      <4>2. [scr[c] EXCEPT !.hand = Nil, !.skip = scr[c].hand # Marker]
              = [scr[c] EXCEPT !.hand = Nil, !.skip = scr[c].hand # Marker,
                               !.answers = scr[c].answers]
        BY <1>0 DEF Screens
      <4>3. (scr[c].hand # Marker) \in BOOLEAN /\ scr[c].answers \in BOOLEAN
        BY <1>0 DEF Screens
      <4> QED BY <4>1, <4>2, <4>3
    <3>2. CASE ~scr[c].skip
      <4>1. scr' = [scr EXCEPT ![c] = [scr[c] EXCEPT !.hand = Nil, !.answers = conn[c] = "both"]]
        BY <1>7, <3>2 DEF TakeReply
      <4>2. [scr[c] EXCEPT !.hand = Nil, !.answers = conn[c] = "both"]
              = [scr[c] EXCEPT !.hand = Nil, !.skip = scr[c].skip,
                               !.answers = conn[c] = "both"]
        BY <1>0 DEF Screens
      <4>3. (conn[c] = "both") \in BOOLEAN /\ scr[c].skip \in BOOLEAN
        BY <1>0 DEF Screens
      <4> QED BY <4>1, <4>2, <4>3
    <3> QED BY <3>1, <3>2
  <2>3. [scr[c] EXCEPT !.hand = Nil, !.skip = s, !.answers = a] \in Screens
    BY <1>0 DEF Screens
  <2> QED BY <1>7, <2>1, <2>2, <2>3, ScreenTyped DEF TakeReply
<1>8. CASE StreamEnds(c)
  <2>1. \E how \in {"told", "cut"} : EndWith(c, how)  BY <1>8 DEF StreamEnds
  <2> QED BY <1>8, <2>1, EndTyped DEF StreamEnds
<1>9. CASE RelayEnds(c)  BY <1>9, EndTyped DEF RelayEnds
<1>10. CASE Close(c)
  <2>1. CASE EndWith(c, "left")  BY <1>10, <2>1, EndTyped DEF Close
  <2>2. CASE scr' = [scr EXCEPT ![c].pc = "leaving"] /\ UNCHANGED <<conn, wire>>
    <3>1. [scr[c] EXCEPT !.pc = "leaving"] \in Screens  BY <1>0 DEF Screens
    <3> QED BY <1>0, <1>10, <2>2, <3>1, ScreenTyped DEF Close
  <2> QED BY <1>10, <2>1, <2>2 DEF Close
<1> QED BY <1>3, <1>4, <1>5, <1>6, <1>7, <1>8, <1>9, <1>10 DEF Reader

\* The state is always well-formed.
LEMMA StaysTyped == Spec => []Typed
<1>1. ASSUME Typed, [Next]_vars  PROVE Typed'
  <2>1. CASE UNCHANGED vars  BY <1>1, <2>1, SameTape DEF Typed, vars, shellVars
  <2>2. CASE Broadcast  BY <1>1, <2>2, BroadcastTyped
  <2>3. CASE ShellWrites \/ ShellExits \/ DaemonDies  BY <1>1, <2>3, SessionTyped
  <2>4. ASSUME NEW c \in Clients, Handler(c)  PROVE Typed'  BY <1>1, <2>4, HandlerTyped
  <2>5. ASSUME NEW c \in Clients, Dial(c)  PROVE Typed'  BY <1>1, <2>5, DialTyped
  <2>6. ASSUME NEW c \in Clients, Reader(c) \/ TakeReply(c) \/ Close(c)  PROVE Typed'
    BY <1>1, <2>6, ReaderTyped
  <2> QED BY <1>1, <2>1, <2>2, <2>3, <2>4, <2>5, <2>6 DEF Next
<1> QED BY <1>1, InitTyped, PTL DEF Spec

-----------------------------------------------------------------------------
(* The invariant.                                                          *)

\* The place in the output where an attachment starts, and where its replay ends.
Start(c) == from[c].after
Upto(c) == from[c].upto

\* The frames of an attachment's stream: the bytes of the replay, the frame that
\* ends it, and the live bytes.
Replayed(c) == Upto(c) - Start(c)
Item(c, k) ==
  IF k <= Replayed(c) THEN Byte(Start(c) + k)
  ELSE IF k = Replayed(c) + 1 THEN Control("done") ELSE Byte(Start(c) + k - 1)

\* How much each holder of the stream has.
Shown(c) == Len(scr[c].seen)
Held(c) == Len(scr[c].buf)
OnWire(c) == Len(wire[c])
Unsent(c) == Len(srv[c].replay)
Queued(c) == Len(srv[c].ch)

\* How many of the frames the client has taken, and how many the daemon has sent.
Got(c) == Shown(c) + Held(c) + (IF scr[c].pc = "attach" THEN 0 ELSE 1)
Sent(c) == Got(c) + OnWire(c)

Following(c) == from[c] # Nil /\ scr[c].pc \in {"attach", "replay", "live"}
Serving(c) == srv[c].pc \in {"replay", "live"}

\* The byte before those in the handler's channel.
Base(c) == IF srv[c].pc = "replay" THEN Upto(c) ELSE Start(c) + Sent(c) - 1

\* Until it is attached a client has nothing but a request, or its refusal.
Before(c) ==
  from[c] = Nil =>
    /\ scr[c].pc \in {"off", "attach", "refused"}
    /\ scr[c].buf = <<>> /\ scr[c].seen = <<>> /\ scr[c].hand = Nil
    /\ srv[c].pc \in {"none", "serve"} /\ ~srv[c].sub /\ ~srv[c].closed
    /\ wire[c] \in {<<>>, <<Control("refused")>>}
    /\ srv[c].pc = "serve" => scr[c].pc = "attach" /\ wire[c] = <<>> /\ conn[c] = "both"
    /\ scr[c].pc = "off" => wire[c] = <<>>
    /\ c \notin behind /\ typed[c] = {}

\* A handler is subscribed while the shell runs, unless broadcast has dropped it.
Handles(c) ==
  /\ srv[c].pc = "none" => srv[c] = IdleSrv
  /\ shell = "lost" => srv[c].pc = "none"
  /\ srv[c].sub => ~srv[c].closed /\ Serving(c)
  /\ shell = "running" /\ Serving(c) /\ c \notin behind => srv[c].sub
  /\ srv[c].closed => c \in behind \/ shell = "exited"

\* An attached client starts at a place in the output broadcast had taken.
Placed(c) ==
  from[c] # Nil =>
    /\ Start(c) <= Upto(c) /\ Upto(c) <= printed
    /\ scr[c].pc \notin {"off", "refused"} /\ srv[c].pc # "serve"

\* What the client holds and has shown.
ScreenAt(c) ==
  /\ \A i \in 1..Held(c) : scr[c].buf[i] = Start(c) + Shown(c) + i
  /\ scr[c].pc = "attach" => scr[c].seen = <<>> /\ Held(c) <= Replayed(c)
  /\ scr[c].pc = "replay" => Shown(c) + Held(c) = Replayed(c)
  /\ scr[c].pc = "live" => scr[c].buf = <<>> /\ Shown(c) >= Replayed(c)

\* The exit code is the last frame, and follows all output.
Farewell(c, i) ==
  /\ wire[c][i] = Control("exit") /\ i = OnWire(c) /\ srv[c].pc = "none"
  /\ shell = "exited" /\ Got(c) + i > Replayed(c) + 1
  /\ c \in behind \/ Start(c) + (Got(c) + i) = printed + 2

WireAt(c) ==
  /\ \A i \in 1..OnWire(c) :
       \/ /\ wire[c][i] = Item(c, Got(c) + i)
          /\ wire[c][i].typ = "output" => wire[c][i].at <= printed
       \/ Farewell(c, i)
  /\ conn[c] = "client" =>
       \/ c \in behind \/ shell = "lost"
       \/ wire[c] # <<>> /\ wire[c][OnWire(c)] = Control("exit")

HandlerAt(c) ==
  /\ srv[c].pc = "replay" =>
       /\ Unsent(c) + Sent(c) = Replayed(c)
       /\ \A j \in 1..Unsent(c) : srv[c].replay[j] = Start(c) + Sent(c) + j
  /\ srv[c].pc = "live" => Sent(c) > Replayed(c)
  /\ Serving(c) =>
       /\ \A j \in 1..Queued(c) : srv[c].ch[j] = Base(c) + j
       /\ Base(c) + Queued(c) <= printed
       /\ srv[c].sub \/ c \notin behind => Base(c) + Queued(c) = printed

\* The replies an emulator holds answer what it has shown live, or are dropped.
Replies(c) ==
  from[c] # Nil =>
    /\ \A p \in typed[c] : p > Upto(c)
    /\ scr[c].pc \in {"attach", "leaving", "left", "told", "cut"} \/ c \in Web => scr[c].hand = Nil
    /\ scr[c].pc = "replay" /\ c \notin Web => scr[c].skip /\ scr[c].hand # Marker
    /\ scr[c].pc = "live" /\ c \notin Web =>
         IF scr[c].skip THEN scr[c].hand = Marker
                        ELSE scr[c].hand # Nil => scr[c].hand > Upto(c)

Sound(c) ==
  /\ Before(c) /\ Handles(c) /\ Placed(c) /\ Replies(c)
  /\ Following(c) => ScreenAt(c) /\ WireAt(c) /\ HandlerAt(c)

IInv == \A c \in Clients : Sound(c)

-----------------------------------------------------------------------------
(* The invariant is kept, one client at a time.                            *)

LEMMA Facts ==
  ASSUME Typed, NEW c \in Clients
  PROVE  /\ srv[c] \in Handlers /\ scr[c] \in Screens /\ wire[c] \in Seq(Frames)
         /\ srv[c].replay \in Seq(Positions) /\ srv[c].ch \in Seq(Positions)
         /\ scr[c].buf \in Seq(Positions) /\ scr[c].seen \in Seq(Positions)
         /\ Shown(c) \in Nat /\ Held(c) \in Nat /\ OnWire(c) \in Nat
         /\ Unsent(c) \in Nat /\ Queued(c) \in Nat
         /\ Got(c) \in Nat /\ Sent(c) \in Nat /\ printed \in Nat
         /\ from[c] # Nil => from[c] \in Places /\ Start(c) \in Nat /\ Upto(c) \in Nat
<1>1. /\ srv[c] \in Handlers /\ scr[c] \in Screens /\ wire[c] \in Seq(Frames)
      /\ from[c] # Nil => from[c] \in Places
  BY DEF Typed
<1>2. /\ srv[c].replay \in Seq(Positions) /\ srv[c].ch \in Seq(Positions)
      /\ scr[c].buf \in Seq(Positions) /\ scr[c].seen \in Seq(Positions)
  BY <1>1 DEF Handlers, Screens
<1>3. /\ Shown(c) \in Nat /\ Held(c) \in Nat /\ OnWire(c) \in Nat
      /\ Unsent(c) \in Nat /\ Queued(c) \in Nat
  BY <1>1, <1>2, LenProperties DEF Shown, Held, OnWire, Unsent, Queued
<1>4. Got(c) \in Nat /\ Sent(c) \in Nat  BY <1>3 DEF Got, Sent
<1>5. from[c] # Nil => Start(c) \in Nat /\ Upto(c) \in Nat
  BY <1>1, Tape DEF Places, Start, Upto
<1> QED BY <1>1, <1>2, <1>3, <1>4, <1>5, Tape

\* A client none of whose entries change.
LEMMA Still ==
  ASSUME NEW c \in Clients, Sound(c),
         UNCHANGED <<srv[c], scr[c], wire[c], conn[c], from[c], typed[c], shell, printed>>,
         c \in behind' <=> c \in behind
  PROVE  Sound(c)'
<1>1. /\ Got(c)' = Got(c) /\ Sent(c)' = Sent(c) /\ Base(c)' = Base(c)
      /\ Replayed(c)' = Replayed(c) /\ Following(c)' = Following(c)
      /\ Serving(c)' = Serving(c) /\ Shown(c)' = Shown(c) /\ Held(c)' = Held(c)
      /\ OnWire(c)' = OnWire(c) /\ Unsent(c)' = Unsent(c) /\ Queued(c)' = Queued(c)
      /\ Start(c)' = Start(c) /\ Upto(c)' = Upto(c)
      /\ \A k : Item(c, k)' = Item(c, k)
  BY DEF Got, Sent, Base, Replayed, Following, Serving, Item, Start, Upto, Shown, Held, OnWire, Unsent, Queued
<1>2. Before(c)' /\ Handles(c)' /\ Placed(c)' /\ Replies(c)'
  BY <1>1 DEF Sound, Before, Handles, Placed, Replies
<1>3. Following(c) => ScreenAt(c)'  BY <1>1 DEF Sound, ScreenAt
<1>4. Following(c) => HandlerAt(c)'  BY <1>1 DEF Sound, HandlerAt
<1>5. Following(c) => WireAt(c)'  BY <1>1 DEF Sound, WireAt, Farewell
<1> QED BY <1>1, <1>2, <1>3, <1>4, <1>5 DEF Sound

\* The client has taken the next frame.
LEMMA WireTaken ==
  ASSUME Typed, NEW c \in Clients, from[c] # Nil, WireAt(c), HandlerAt(c),
         wire[c] # <<>>, wire[c][1] # Control("exit"), wire'[c] = Tail(wire[c]),
         Got(c)' = Got(c) + 1,
         UNCHANGED <<srv[c], conn[c], from[c], shell, printed, behind>>
  PROVE  WireAt(c)' /\ HandlerAt(c)' /\ wire[c][1] = Item(c, Got(c) + 1)
<1>0. /\ Got(c) \in Nat /\ Sent(c) \in Nat /\ printed \in Nat /\ Start(c) \in Nat
      /\ Upto(c) \in Nat /\ wire[c] \in Seq(Frames)
  BY Facts
<1>1. /\ OnWire(c) \in Nat /\ OnWire(c) > 0 /\ OnWire(c)' = OnWire(c) - 1
      /\ \A i \in 1..(OnWire(c) - 1) : wire'[c][i] = wire[c][i + 1]
  BY <1>0, Taken DEF OnWire
<1>2. /\ Sent(c)' = Sent(c) /\ Replayed(c)' = Replayed(c) /\ Serving(c)' = Serving(c)
      /\ Unsent(c)' = Unsent(c) /\ Queued(c)' = Queued(c)
      /\ Start(c)' = Start(c) /\ Upto(c)' = Upto(c)
      /\ \A k : Item(c, k)' = Item(c, k)
  BY <1>0, <1>1 DEF Sent, Replayed, Serving, Item, Start, Upto, Unsent, Queued
<1>3. Base(c)' = Base(c)  BY <1>2 DEF Base
<1>4. ~Farewell(c, 1)  BY DEF Farewell
<1>5. wire[c][1] = Item(c, Got(c) + 1)  BY <1>1, <1>4 DEF WireAt
<1>6. ASSUME NEW i \in 1..OnWire(c)'
      PROVE  \/ /\ wire'[c][i] = Item(c, Got(c)' + i)
                /\ wire'[c][i].typ = "output" => wire'[c][i].at <= printed'
             \/ Farewell(c, i)'
  <2>0. i \in Nat /\ i \in 1..(OnWire(c) - 1)  BY <1>0, <1>1
  <2>1. i + 1 \in 1..OnWire(c)  BY <1>1, <2>0
  <2>5. Got(c)' + i = Got(c) + (i + 1)  BY <1>0, <2>0
  <2>6. i + 1 = OnWire(c) => i = OnWire(c)'  BY <1>1, <2>0
  <2>4. wire'[c][i] = wire[c][i + 1]  BY <1>1, <2>0
  <2>2. CASE /\ wire[c][i + 1] = Item(c, Got(c) + (i + 1))
             /\ wire[c][i + 1].typ = "output" => wire[c][i + 1].at <= printed
    BY <2>2, <2>4, <2>5
  <2>3. CASE Farewell(c, i + 1)
    <3>1. /\ wire'[c][i] = Control("exit") /\ i = OnWire(c)'
          /\ srv'[c].pc = "none" /\ shell' = "exited"
      BY <2>3, <2>4, <2>6 DEF Farewell
    <3>2. Got(c)' + i > Replayed(c)' + 1  BY <1>2, <2>5, <2>3 DEF Farewell
    <3>3. c \in behind' \/ Start(c)' + (Got(c)' + i) = printed' + 2
      BY <1>2, <2>3, <2>5 DEF Farewell
    <3> QED BY <3>1, <3>2, <3>3 DEF Farewell
  <2> QED BY <2>1, <2>2, <2>3 DEF WireAt
<1>7. conn'[c] = "client" =>
        \/ c \in behind' \/ shell' = "lost"
        \/ wire'[c] # <<>> /\ wire'[c][OnWire(c)'] = Control("exit")
  <2>1. CASE OnWire(c) = 1  BY <2>1 DEF WireAt
  <2>2. CASE OnWire(c) # 1
    <3>0. OnWire(c)' \in 1..(OnWire(c) - 1) /\ OnWire(c)' + 1 = OnWire(c)  BY <1>1, <2>2
    <3>1. wire'[c][OnWire(c)'] = wire[c][OnWire(c)]  BY <1>1, <3>0
    <3>2. wire'[c] # <<>>
      <4>1. ASSUME wire'[c] = <<>>  PROVE OnWire(c)' = 0
        <5>1. OnWire(c)' = Len(wire'[c])  BY DEF OnWire
        <5>2. OnWire(c)' = Len(<<>>)  BY <4>1, <5>1, Zenon
        <5> QED BY <5>2
      <4> QED BY <3>0, <4>1, <1>1
    <3> QED BY <3>1, <3>2 DEF WireAt
  <2> QED BY <2>1, <2>2
<1>8. WireAt(c)'
  <2>1. \A i \in 1..OnWire(c)' : Item(c, Got(c)' + i) = Item(c, Got(c) + i)'  BY <1>2
  <2> QED BY <1>6, <1>7, <2>1 DEF WireAt
<1>9. HandlerAt(c)'  BY <1>2, <1>3 DEF HandlerAt
<1> QED BY <1>5, <1>8, <1>9

\* The client works with what it has taken.
LEMMA WireKept ==
  ASSUME NEW c \in Clients, WireAt(c), HandlerAt(c), Got(c)' = Got(c),
         UNCHANGED <<srv[c], wire[c], conn[c], from[c], shell, printed, behind>>
  PROVE  WireAt(c)' /\ HandlerAt(c)'
<1>1. /\ Sent(c)' = Sent(c) /\ Replayed(c)' = Replayed(c) /\ Serving(c)' = Serving(c)
      /\ OnWire(c)' = OnWire(c) /\ Unsent(c)' = Unsent(c) /\ Queued(c)' = Queued(c)
      /\ Start(c)' = Start(c) /\ Upto(c)' = Upto(c)
      /\ \A k : Item(c, k)' = Item(c, k)
  BY DEF Sent, Replayed, Serving, Item, Start, Upto, OnWire, Unsent, Queued
<1>2. Base(c)' = Base(c)  BY <1>1 DEF Base
<1>3. WireAt(c)'  BY <1>1 DEF WireAt, Farewell
<1>4. HandlerAt(c)'  BY <1>1, <1>2 DEF HandlerAt
<1> QED BY <1>3, <1>4

\* The daemon has sent the next frame.
LEMMA WireGrows ==
  ASSUME Typed, NEW c \in Clients, from[c] # Nil, WireAt(c), Serving(c), conn[c] = "both",
         NEW f \in Frames, f = Item(c, Sent(c) + 1), f.typ = "output" => f.at <= printed,
         wire'[c] = Append(wire[c], f),
         UNCHANGED <<scr[c], conn[c], from[c], shell, printed, behind>>
  PROVE  WireAt(c)' /\ Sent(c)' = Sent(c) + 1
<1>0. /\ Got(c) \in Nat /\ Sent(c) \in Nat /\ OnWire(c) \in Nat /\ wire[c] \in Seq(Frames)
  BY Facts
<1>1. /\ Len(wire'[c]) = Len(wire[c]) + 1 /\ wire'[c][Len(wire[c]) + 1] = f
      /\ \A i \in 1..Len(wire[c]) : wire'[c][i] = wire[c][i]
  BY <1>0, Added
<1>2. /\ OnWire(c)' = OnWire(c) + 1 /\ wire'[c][OnWire(c) + 1] = f
      /\ \A i \in 1..OnWire(c) : wire'[c][i] = wire[c][i]
  BY <1>1 DEF OnWire
<1>3. /\ Got(c)' = Got(c) /\ Replayed(c)' = Replayed(c)
      /\ Start(c)' = Start(c) /\ Upto(c)' = Upto(c)
      /\ \A k : Item(c, k)' = Item(c, k)
  BY DEF Got, Replayed, Item, Start, Upto, Shown, Held
<1>4. Sent(c)' = Sent(c) + 1  BY <1>0, <1>2, <1>3 DEF Sent
<1>5. ASSUME NEW i \in 1..OnWire(c)'
      PROVE  /\ wire'[c][i] = Item(c, Got(c) + i)
             /\ wire'[c][i].typ = "output" => wire'[c][i].at <= printed
  <2>1. i \in 1..(OnWire(c) + 1)  BY <1>2
  <2>2. CASE i \in 1..OnWire(c)
    <3>1. ~Farewell(c, i)  BY DEF Farewell, Serving
    <3>2. wire'[c][i] = wire[c][i]  BY <1>2, <2>2
    <3> QED BY <2>2, <3>1, <3>2 DEF WireAt
  <2>3. CASE i = OnWire(c) + 1
    <3>1. Got(c) + i = Sent(c) + 1  BY <1>0, <2>3 DEF Sent
    <3> QED BY <1>2, <2>3, <3>1
  <2>4. i \in 1..OnWire(c) \/ i = OnWire(c) + 1  BY <1>0, <2>1
  <2> QED BY <2>2, <2>3, <2>4
<1>6. WireAt(c)'
  <2>1. \A i : Item(c, Got(c) + i)' = Item(c, Got(c) + i)  BY <1>3
  <2> QED BY <1>5, <2>1 DEF WireAt
<1> QED BY <1>4, <1>6

\* The handler has ended without a word.
LEMMA HandlerGone ==
  ASSUME NEW c \in Clients, WireAt(c), Serving(c) \/ srv[c] = IdleSrv,
         srv'[c] = IdleSrv, conn'[c] = "client" => c \in behind \/ shell' = "lost",
         UNCHANGED <<scr[c], wire[c], from[c], printed, behind>>,
         shell' = shell \/ shell = "running"
  PROVE  WireAt(c)' /\ HandlerAt(c)'
<1>1. /\ Got(c)' = Got(c) /\ Replayed(c)' = Replayed(c) /\ OnWire(c)' = OnWire(c)
      /\ Start(c)' = Start(c) /\ Upto(c)' = Upto(c)
      /\ \A k : Item(c, k)' = Item(c, k)
  BY DEF Got, Replayed, Item, Start, Upto, Shown, Held, OnWire
<1>2. srv'[c].pc = "none"  BY DEF IdleSrv
<1>3. \A i : Farewell(c, i) => Farewell(c, i)'  BY <1>1, <1>2 DEF Farewell
<1>4. WireAt(c)'  BY <1>1, <1>3 DEF WireAt
<1>5. HandlerAt(c)'  BY <1>2 DEF HandlerAt, Serving
<1> QED BY <1>4, <1>5

\* One of the daemon's frames goes out, or its handler ends: what is left to show.
LEMMA SendSound ==
  ASSUME Typed, NEW c \in Clients, Sound(c), Serving(c),
         NEW f \in Frames, NEW h \in Handlers, Send(c, f, h),
         h.pc \in {"replay", "live"}, h.sub = srv[c].sub, h.closed = srv[c].closed,
         f.typ = "output" => f.at \in Nat,
         Following(c) => f = Item(c, Sent(c) + 1) /\ (f.typ = "output" => f.at <= printed),
         Following(c) /\ srv'[c] = h /\ Sent(c)' = Sent(c) + 1 => HandlerAt(c)',
         UNCHANGED <<shellVars, scr, from, behind, typed>>
  PROVE  Sound(c)'
<1>1. from[c] # Nil  BY DEF Sound, Before, Serving
<1>2. /\ Following(c)' = Following(c) /\ Before(c)' /\ Replies(c)'
      /\ UNCHANGED <<shell, printed, scr[c], from[c], behind>>
      /\ Following(c) => ScreenAt(c)'
  BY <1>1 DEF Following, Sound, Before, Replies, ScreenAt, shellVars, Replayed, Shown, Held,
             Start, Upto
<1>3. CASE conn[c] = "both" /\ Len(wire[c]) < Room
           /\ wire' = [wire EXCEPT ![c] = Append(@, f)]
           /\ srv' = [srv EXCEPT ![c] = h] /\ UNCHANGED conn
  <2>1. srv'[c] = h /\ wire'[c] = Append(wire[c], f)  BY <1>3 DEF Typed
  <2>2. Handles(c)' /\ Placed(c)'
    BY <1>1, <1>2, <2>1 DEF Sound, Handles, Placed, Serving, shellVars, Start, Upto
  <2>3. Following(c) => WireAt(c)' /\ HandlerAt(c)'
    BY <1>1, <1>2, <1>3, <2>1, WireGrows DEF Sound
  <2> QED BY <1>2, <2>2, <2>3 DEF Sound
<1>4. CASE conn[c] # "both" /\ srv' = [srv EXCEPT ![c] = IdleSrv]
           /\ conn' = [conn EXCEPT ![c] = "none"] /\ UNCHANGED wire
  <2>1. srv'[c] = IdleSrv /\ conn'[c] = "none"  BY <1>4 DEF Typed
  <2>2. Handles(c)' /\ Placed(c)'
    BY <1>1, <1>2, <2>1 DEF Sound, Handles, Placed, Serving, IdleSrv, shellVars,
                                 Start, Upto
  <2>3. Following(c) => WireAt(c)' /\ HandlerAt(c)'
    BY <1>2, <1>4, <2>1, HandlerGone DEF Sound
  <2> QED BY <1>2, <2>2, <2>3 DEF Sound
<1> QED BY <1>3, <1>4 DEF Send

LEMMA HandlerSound ==
  ASSUME Typed, NEW c \in Clients, Sound(c), SendReplay(c) \/ Forward(c)
  PROVE  Sound(c)'
<1>0. /\ srv[c] \in Handlers /\ srv[c].replay \in Seq(Positions) /\ srv[c].ch \in Seq(Positions)
      /\ Unsent(c) \in Nat /\ Queued(c) \in Nat /\ Sent(c) \in Nat /\ printed \in Nat
      /\ from[c] # Nil => Start(c) \in Nat /\ Upto(c) \in Nat
  BY Facts
<1>1. Serving(c) /\ from[c] # Nil  BY DEF SendReplay, Forward, Serving, Sound, Before
<1>2. UNCHANGED <<shellVars, scr, from, behind, typed>>  BY DEF SendReplay, Forward
<1>3. /\ Replayed(c) \in Int /\ Start(c) \in Nat /\ Upto(c) \in Nat
      /\ Upto(c) = Start(c) + Replayed(c) /\ Upto(c) <= printed
  BY <1>0, <1>1 DEF Replayed, Sound, Placed
<1>4. /\ Replayed(c)' = Replayed(c) /\ Got(c)' = Got(c) /\ printed' = printed
      /\ Start(c)' = Start(c) /\ Upto(c)' = Upto(c) /\ (c \in behind)' = (c \in behind)
  BY <1>2 DEF Replayed, Got, Shown, Held, shellVars, Start, Upto
<1>5. CASE SendReplay(c) /\ srv[c].replay = <<>>
  <2> DEFINE h == [srv[c] EXCEPT !.pc = "live"]
             f == Control("done")
  <2>1. /\ h \in Handlers /\ h.pc = "live" /\ h.ch = srv[c].ch
        /\ h.sub = srv[c].sub /\ h.closed = srv[c].closed
    BY <1>0 DEF Handlers
  <2>2. Send(c, f, h) /\ f \in Frames /\ f.typ = "done" /\ srv[c].pc = "replay"
    BY <1>5, FrameOf DEF SendReplay, Control
  <2>3. Unsent(c) = 0
    <3>1. Unsent(c) = Len(<<>>)  BY <1>5, Zenon DEF Unsent
    <3> QED BY <3>1
  <2>4. ASSUME Following(c)
        PROVE  /\ Sent(c) = Replayed(c) /\ f = Item(c, Sent(c) + 1)
    <3>1. Unsent(c) + Sent(c) = Replayed(c)  BY <2>2, <2>4 DEF Sound, HandlerAt
    <3>2. Sent(c) = Replayed(c)  BY <1>0, <2>3, <3>1
    <3> QED BY <1>0, <3>2 DEF Item
  <2>5. ASSUME Following(c), srv'[c] = h, Sent(c)' = Sent(c) + 1  PROVE HandlerAt(c)'
    <3>1. Base(c)' = Base(c)
      <4>1. Base(c)' = Start(c) + (Sent(c) + 1) - 1  BY <1>4, <2>1, <2>5 DEF Base
      <4>2. Base(c) = Upto(c)  BY <2>2 DEF Base
      <4> QED BY <1>0, <1>3, <2>4, <2>5, <4>1, <4>2
    <3>2. Queued(c)' = Queued(c) /\ srv'[c].ch = srv[c].ch /\ srv'[c].sub = srv[c].sub
          /\ srv'[c].pc = "live"
      BY <2>1, <2>5 DEF Queued
    <3>3. Sent(c)' > Replayed(c)'  BY <1>0, <1>4, <2>4, <2>5
    <3>4. HandlerAt(c)  BY <2>5 DEF Sound
    <3> QED BY <1>1, <1>4, <3>1, <3>2, <3>3, <3>4 DEF HandlerAt, Serving
  <2> HIDE DEF h, f
  <2> QED BY <1>1, <1>2, <2>1, <2>2, <2>4, <2>5, SendSound
<1>6. CASE SendReplay(c) /\ srv[c].replay # <<>>
  <2> DEFINE h == [srv[c] EXCEPT !.replay = Tail(srv[c].replay)]
             f == Byte(Head(srv[c].replay))
  <2>0. /\ Head(srv[c].replay) = srv[c].replay[1] /\ srv[c].replay[1] \in Positions
        /\ Tail(srv[c].replay) \in Seq(Positions) /\ Unsent(c) > 0
        /\ Len(Tail(srv[c].replay)) = Unsent(c) - 1
        /\ \A j \in 1..(Unsent(c) - 1) : Tail(srv[c].replay)[j] = srv[c].replay[j + 1]
    BY <1>0, <1>6, Taken DEF Unsent
  <2>1. /\ h \in Handlers /\ h.pc = srv[c].pc /\ h.ch = srv[c].ch /\ h.sub = srv[c].sub
        /\ h.closed = srv[c].closed /\ h.replay = Tail(srv[c].replay)
    BY <1>0, <2>0 DEF Handlers
  <2>2. Send(c, f, h) /\ f \in Frames /\ f.at = srv[c].replay[1] /\ srv[c].pc = "replay"
    BY <1>6, <2>0, FrameOf DEF SendReplay, Byte
  <2>3. f.at \in Nat  BY <2>0, <2>2, Tape DEF Positions
  <2>4. ASSUME Following(c)
        PROVE  /\ Unsent(c) + Sent(c) = Replayed(c) /\ f = Item(c, Sent(c) + 1)
               /\ f.at <= printed
    <3>1. /\ Unsent(c) + Sent(c) = Replayed(c)
          /\ \A j \in 1..Unsent(c) : srv[c].replay[j] = Start(c) + Sent(c) + j
      BY <2>2, <2>4 DEF Sound, HandlerAt
    <3>2. 1 \in 1..Unsent(c)  BY <1>0, <2>0
    <3>3. srv[c].replay[1] = Start(c) + (Sent(c) + 1)  BY <1>0, <1>3, <3>1, <3>2, SMTT(30)
    <3>4. Sent(c) + 1 <= Replayed(c)  BY <1>0, <2>0, <3>1
    <3>5. f = Item(c, Sent(c) + 1)  BY <2>0, <3>3, <3>4 DEF Item
    <3>6. f.at <= printed  BY <1>0, <1>3, <2>2, <3>3, <3>4
    <3> QED BY <3>1, <3>5, <3>6
  <2>5. ASSUME Following(c), srv'[c] = h, Sent(c)' = Sent(c) + 1  PROVE HandlerAt(c)'
    <3>1. /\ srv'[c].pc = "replay" /\ srv'[c].ch = srv[c].ch /\ srv'[c].sub = srv[c].sub
          /\ srv'[c].replay = Tail(srv[c].replay) /\ Queued(c)' = Queued(c)
      BY <2>1, <2>2, <2>5 DEF Queued
    <3>2. Base(c)' = Base(c)  BY <1>4, <2>2, <3>1 DEF Base
    <3>3. Unsent(c)' = Unsent(c) - 1  BY <2>0, <3>1 DEF Unsent
    <3>4. Unsent(c)' + Sent(c)' = Replayed(c)'  BY <1>0, <1>4, <2>4, <2>5, <3>3
    <3>5. HandlerAt(c)  BY <2>5 DEF Sound
    <3>6. ASSUME NEW j \in 1..Unsent(c)'
          PROVE  srv'[c].replay[j] = Start(c)' + Sent(c)' + j
      <4>1. j \in 1..(Unsent(c) - 1) /\ j \in Nat  BY <3>3, <1>0
      <4>2. j + 1 \in 1..Unsent(c)  BY <4>1, <1>0
      <4>3. srv[c].replay[j + 1] = Start(c) + Sent(c) + (j + 1)
        BY <3>5, <4>2, <2>2 DEF HandlerAt
      <4>4. Start(c) + Sent(c) + (j + 1) = Start(c) + (Sent(c) + 1) + j
        BY <1>0, <1>3, <4>1
      <4> QED BY <1>4, <2>0, <2>5, <3>1, <4>1, <4>3, <4>4
    <3> QED BY <1>1, <1>4, <2>2, <3>1, <3>2, <3>4, <3>5, <3>6 DEF HandlerAt, Serving
  <2> HIDE DEF h, f
  <2> QED BY <1>1, <1>2, <2>1, <2>2, <2>3, <2>4, <2>5, SendSound
<1>7. CASE Forward(c)
  <2> DEFINE h == [srv[c] EXCEPT !.ch = Tail(srv[c].ch)]
             f == Byte(Head(srv[c].ch))
  <2>0. /\ Head(srv[c].ch) = srv[c].ch[1] /\ srv[c].ch[1] \in Positions
        /\ Tail(srv[c].ch) \in Seq(Positions) /\ Queued(c) > 0
        /\ Len(Tail(srv[c].ch)) = Queued(c) - 1
        /\ \A j \in 1..(Queued(c) - 1) : Tail(srv[c].ch)[j] = srv[c].ch[j + 1]
    BY <1>0, <1>7, Taken DEF Queued, Forward
  <2>1. /\ h \in Handlers /\ h.pc = srv[c].pc /\ h.ch = Tail(srv[c].ch) /\ h.sub = srv[c].sub
        /\ h.closed = srv[c].closed /\ h.replay = srv[c].replay
    BY <1>0, <2>0 DEF Handlers
  <2>2. Send(c, f, h) /\ f \in Frames /\ f.at = srv[c].ch[1] /\ srv[c].pc = "live"
    BY <1>7, <2>0, FrameOf DEF Forward, Byte
  <2>3. f.at \in Nat  BY <2>0, <2>2, Tape DEF Positions
  <2>4. ASSUME Following(c)
        PROVE  /\ Base(c) = Start(c) + Sent(c) - 1 /\ f = Item(c, Sent(c) + 1)
               /\ f.at <= printed /\ Sent(c) > Replayed(c)
    <3>1. /\ Sent(c) > Replayed(c) /\ Base(c) + Queued(c) <= printed
          /\ \A j \in 1..Queued(c) : srv[c].ch[j] = Base(c) + j
      BY <1>1, <2>2, <2>4 DEF Sound, HandlerAt
    <3>2. Base(c) = Start(c) + Sent(c) - 1  BY <2>2 DEF Base
    <3>3. srv[c].ch[1] = Base(c) + 1
      <4>1. 1 \in 1..Queued(c)  BY <1>0, <2>0
      <4> QED BY <3>1, <4>1
    <3>4. Base(c) + 1 = Start(c) + (Sent(c) + 1) - 1  BY <1>0, <1>3, <3>2
    <3>5. ~(Sent(c) + 1 <= Replayed(c)) /\ Sent(c) + 1 # Replayed(c) + 1
      BY <1>0, <1>3, <3>1
    <3>6. f = Item(c, Sent(c) + 1)  BY <2>0, <3>3, <3>4, <3>5 DEF Item
    <3>7. f.at <= printed  BY <1>0, <1>3, <2>0, <2>2, <3>1, <3>2, <3>3
    <3> QED BY <3>1, <3>2, <3>6, <3>7
  <2>5. ASSUME Following(c), srv'[c] = h, Sent(c)' = Sent(c) + 1  PROVE HandlerAt(c)'
    <3>1. /\ srv'[c].pc = "live" /\ srv'[c].ch = Tail(srv[c].ch) /\ srv'[c].sub = srv[c].sub
      BY <2>1, <2>2, <2>5
    <3>2. Queued(c)' = Queued(c) - 1  BY <2>0, <3>1 DEF Queued
    <3>3. Base(c)' = Start(c) + (Sent(c) + 1) - 1  BY <1>4, <2>5, <3>1 DEF Base
    <3>4. Base(c)' = Base(c) + 1 /\ Base(c) \in Int
      <4>1. Base(c) = Start(c) + Sent(c) - 1  BY <2>4, <2>5
      <4> QED BY <1>0, <1>3, <3>3, <4>1
    <3>5. HandlerAt(c)  BY <2>5 DEF Sound
    <3>6. ASSUME NEW j \in 1..Queued(c)'  PROVE srv'[c].ch[j] = Base(c)' + j
      <4>1. j \in 1..(Queued(c) - 1) /\ j \in Nat  BY <3>2, <1>0
      <4>2. j + 1 \in 1..Queued(c)  BY <4>1, <1>0
      <4>3. srv[c].ch[j + 1] = Base(c) + (j + 1)  BY <1>1, <3>5, <4>2 DEF HandlerAt
      <4>4. Base(c) + (j + 1) = (Base(c) + 1) + j  BY <3>4, <4>1
      <4> QED BY <2>0, <3>1, <3>4, <4>1, <4>3, <4>4
    <3>7. Base(c)' + Queued(c)' = Base(c) + Queued(c)  BY <1>0, <3>2, <3>4
    <3>8. Sent(c)' > Replayed(c)'  BY <1>0, <1>3, <1>4, <2>4, <2>5
    <3> QED BY <1>1, <1>4, <3>1, <3>5, <3>6, <3>7, <3>8 DEF HandlerAt, Serving
  <2> HIDE DEF h, f
  <2> QED BY <1>1, <1>2, <2>1, <2>2, <2>3, <2>4, <2>5, SendSound
<1> QED BY <1>5, <1>6, <1>7 DEF SendReplay

LEMMA NilIsNoPlace == \A x, y \in Nat : Nil # [after |-> x, upto |-> y] /\ Nil # x
BY AttachAssumption

LEMMA EmptyLength == \A s : s = <<>> => Len(s) = 0
OBVIOUS

LEMMA ServeSound ==
  ASSUME Typed, NEW c \in Clients, Sound(c), Serve(c)
  PROVE  Sound(c)'
<1>0. UNCHANGED <<shellVars, scr, behind, typed>> /\ srv[c].pc = "serve"  BY DEF Serve
<1>1. /\ from[c] = Nil /\ wire[c] = <<>> /\ conn[c] = "both" /\ scr[c].pc = "attach"
      /\ scr[c].buf = <<>> /\ scr[c].seen = <<>> /\ scr[c].hand = Nil
      /\ ~srv[c].sub /\ ~srv[c].closed /\ c \notin behind /\ typed[c] = {}
  BY <1>0 DEF Sound, Before, Placed
<1>2. CASE shell = "running" /\ srv' = [srv EXCEPT ![c] = NewHandler]
           /\ from' = [from EXCEPT ![c] = [after |-> ReplayStart, upto |-> printed]]
           /\ UNCHANGED <<wire, conn>>
  <2>0. /\ ReplayStart \in Nat /\ printed \in Nat /\ ReplayStart <= printed
    BY ReplayWithin, Tape
  <2>1. /\ srv'[c] = NewHandler /\ Start(c)' = ReplayStart /\ Upto(c)' = printed
        /\ from'[c] # Nil
    BY <1>2, <2>0, NilIsNoPlace DEF Typed, Start, Upto
  <2>2. /\ Shown(c)' = 0 /\ Held(c)' = 0 /\ OnWire(c)' = 0
    BY <1>0, <1>1, <1>2, EmptyLength DEF Shown, Held, OnWire
  <2>3. Got(c)' = 0 /\ Sent(c)' = 0  BY <1>0, <1>1, <2>2 DEF Got, Sent
  <2>4. /\ srv'[c].pc = "replay" /\ srv'[c].sub /\ ~srv'[c].closed
        /\ Queued(c)' = 0 /\ Unsent(c)' = printed - ReplayStart
        /\ \A i \in 1..(printed - ReplayStart) : srv'[c].replay[i] = ReplayStart + i
    BY <2>1, NewHandlerIs DEF Queued, Unsent
  <2> HIDE DEF ReplayStart
  <2>5. Replayed(c)' = printed - ReplayStart /\ Base(c)' = printed /\ printed' = printed
    BY <1>0, <2>1, <2>4 DEF Replayed, Base, shellVars
  <2>6. Before(c)' /\ Handles(c)' /\ Placed(c)'
    BY <1>0, <1>1, <1>2, <2>0, <2>1, <2>4, <2>5
      DEF Before, Handles, Placed, Serving, shellVars
  <2>7. Replies(c)'  BY <1>0, <1>1, <2>1 DEF Replies
  <2>8. ScreenAt(c)'  BY <1>0, <1>1, <2>0, <2>2, <2>5 DEF ScreenAt
  <2>9. WireAt(c)'  BY <1>1, <1>2, <2>2 DEF WireAt
  <2>10. HandlerAt(c)'
    <3>1. /\ Unsent(c)' + Sent(c)' = Replayed(c)'
          /\ \A j \in 1..Unsent(c)' : srv'[c].replay[j] = Start(c)' + Sent(c)' + j
      BY <2>0, <2>1, <2>3, <2>4, <2>5
    <3>2. Base(c)' + Queued(c)' = printed'  BY <2>0, <2>4, <2>5
    <3>3. \A j \in 1..Queued(c)' : FALSE  BY <2>4
    <3> QED BY <2>0, <2>4, <2>5, <3>1, <3>2, <3>3 DEF HandlerAt
  <2> QED BY <2>6, <2>7, <2>8, <2>9, <2>10 DEF Sound
<1>3. CASE wire' = [wire EXCEPT ![c] = <<Control("refused")>>]
           /\ conn' = [conn EXCEPT ![c] = DaemonCloses(c)]
           /\ srv' = [srv EXCEPT ![c] = IdleSrv] /\ UNCHANGED from
  <2>1. srv'[c] = IdleSrv /\ wire'[c] = <<Control("refused")>> /\ from'[c] = Nil
    BY <1>1, <1>3 DEF Typed
  <2>2. Before(c)' /\ Handles(c)'
    BY <1>0, <1>1, <2>1 DEF Before, Handles, Serving, IdleSrv
  <2> QED BY <2>1, <2>2 DEF Sound, Placed, Replies, Following
<1> QED BY <1>2, <1>3 DEF Serve

LEMMA FinishSound ==
  ASSUME Typed, NEW c \in Clients, Sound(c), Finish(c)
  PROVE  Sound(c)'
<1>0. /\ UNCHANGED <<shellVars, scr, from, behind, typed>>
      /\ srv[c].pc = "live" /\ srv[c].ch = <<>> /\ srv[c].closed /\ Serving(c)
      /\ srv'[c] = IdleSrv /\ conn'[c] = DaemonCloses(c)
  BY DEF Finish, Serving, Typed
<1>1. from[c] # Nil  BY <1>0 DEF Sound, Before
<1>2. /\ Got(c) \in Nat /\ Sent(c) \in Nat /\ OnWire(c) \in Nat /\ printed \in Nat
      /\ Start(c) \in Nat /\ Upto(c) \in Nat /\ wire[c] \in Seq(Frames)
  BY <1>1, Facts
<1>3. /\ Following(c)' = Following(c) /\ Replies(c)' /\ Before(c)'
      /\ UNCHANGED <<shell, printed, scr[c], from[c], behind>>
      /\ Following(c) => ScreenAt(c)'
  BY <1>0, <1>1 DEF Following, Sound, Before, Replies, ScreenAt, shellVars, Replayed, Shown, Held,
                    Start, Upto
<1>4. Handles(c)' /\ Placed(c)'
  BY <1>0, <1>1, <1>3 DEF Sound, Handles, Placed, Serving, IdleSrv, shellVars, Start, Upto
<1>5. c \in behind \/ shell = "exited"  BY <1>0 DEF Sound, Handles
<1>6. ASSUME Following(c)  PROVE WireAt(c)' /\ HandlerAt(c)'
  <2>0. WireAt(c) /\ HandlerAt(c)  BY <1>6 DEF Sound
  <2>1. CASE UNCHANGED wire /\ (conn[c] # "both" \/ c \in behind)
    <3>1. conn'[c] = "client" => c \in behind  BY <1>0, <2>1 DEF DaemonCloses
    <3> QED BY <1>0, <1>3, <2>0, <2>1, <3>1, HandlerGone
  <2>2. CASE shell = "exited" /\ wire' = [wire EXCEPT ![c] = Append(@, Control("exit"))]
    <3>1. wire'[c] = Append(wire[c], Control("exit")) /\ Control("exit") \in Frames
      BY <2>2, FrameOf DEF Typed
    <3>2. /\ Len(wire'[c]) = Len(wire[c]) + 1 /\ wire'[c][Len(wire[c]) + 1] = Control("exit")
          /\ \A i \in 1..Len(wire[c]) : wire'[c][i] = wire[c][i]
      BY <1>2, <3>1, Added
    <3>3. /\ OnWire(c)' = OnWire(c) + 1 /\ wire'[c][OnWire(c) + 1] = Control("exit")
          /\ \A i \in 1..OnWire(c) : wire'[c][i] = wire[c][i]
      BY <3>2 DEF OnWire
    <3>4. /\ Got(c)' = Got(c) /\ Replayed(c)' = Replayed(c)
          /\ Start(c)' = Start(c) /\ \A k : Item(c, k)' = Item(c, k)
      BY <1>3 DEF Got, Replayed, Item, Start, Upto, Shown, Held
    <3>5. ASSUME NEW i, i = OnWire(c) + 1  PROVE Farewell(c, i)'
      <4>1. Sent(c) > Replayed(c) /\ (c \notin behind => Base(c) + Queued(c) = printed)
        BY <1>0, <2>0 DEF HandlerAt
      <4>2. Queued(c) = 0  BY <1>0, EmptyLength DEF Queued
      <4>3. Base(c) = Start(c) + Sent(c) - 1  BY <1>0 DEF Base
      <4>4. c \notin behind => Start(c) + (Sent(c) + 1) = printed + 2
        BY <1>2, <4>1, <4>2, <4>3
      <4>5. Got(c) + i = Sent(c) + 1  BY <1>2, <3>5 DEF Sent
      <4>6. Replayed(c) \in Int  BY <1>2 DEF Replayed, Start, Upto
      <4>7. Sent(c) + 1 > Replayed(c) + 1  BY <1>2, <4>1, <4>6
      <4>8. srv'[c].pc = "none"  BY <1>0 DEF IdleSrv
      <4>9. wire'[c][i] = Control("exit") /\ i = OnWire(c)'  BY <3>3, <3>5
      <4>10. Got(c)' + i > Replayed(c)' + 1  BY <3>4, <4>5, <4>7
      <4>11. c \in behind' \/ Start(c)' + (Got(c)' + i) = printed' + 2
        BY <1>3, <3>4, <4>4, <4>5
      <4> QED BY <1>3, <2>2, <4>8, <4>9, <4>10, <4>11 DEF Farewell
    <3>6. ASSUME NEW i \in 1..OnWire(c)'
          PROVE  \/ /\ wire'[c][i] = Item(c, Got(c)' + i)
                    /\ wire'[c][i].typ = "output" => wire'[c][i].at <= printed'
                 \/ Farewell(c, i)'
      <4>1. i \in 1..OnWire(c) \/ i = OnWire(c) + 1  BY <1>2, <3>3
      <4>2. CASE i \in 1..OnWire(c)
        <5>1. ~Farewell(c, i)  BY <1>0 DEF Farewell
        <5> QED BY <1>3, <2>0, <3>3, <3>4, <4>2, <5>1 DEF WireAt
      <4> QED BY <3>5, <4>1, <4>2
    <3>7. wire'[c] # <<>> /\ wire'[c][OnWire(c)'] = Control("exit")
      <4>1. wire'[c] = <<>> => OnWire(c)' = 0  BY EmptyLength DEF OnWire
      <4> QED BY <1>2, <3>3, <4>1
    <3>8. WireAt(c)'
      <4>1. \A i : Item(c, Got(c) + i)' = Item(c, Got(c)' + i)  BY <3>4
      <4> QED BY <3>6, <3>7, <4>1 DEF WireAt
    <3>9. HandlerAt(c)'  BY <1>0 DEF HandlerAt, Serving, IdleSrv
    <3> QED BY <3>8, <3>9
  <2> QED BY <1>0, <1>5, <2>1, <2>2 DEF Finish
<1> QED BY <1>3, <1>4, <1>6 DEF Sound

LEMMA DialSound ==
  ASSUME Typed, NEW c \in Clients, Sound(c), Dial(c)
  PROVE  Sound(c)'
<1>1. /\ scr[c].pc = "off" /\ shell # "lost" /\ scr[c] \in Screens /\ srv[c] \in Handlers
      /\ UNCHANGED <<shellVars, wire, from, behind, typed>>
  BY DEF Dial, Typed
<1>2. from[c] = Nil /\ wire[c] = <<>> /\ srv[c].pc = "none" /\ srv[c] = IdleSrv
  BY <1>1 DEF Sound, Before, Placed, Handles
<1>3. /\ scr'[c] = [scr[c] EXCEPT !.pc = "attach"]
      /\ srv'[c] = [srv[c] EXCEPT !.pc = "serve"] /\ conn'[c] = "both"
  BY DEF Dial, Typed
<1>4. /\ scr'[c].pc = "attach" /\ scr'[c].buf = scr[c].buf /\ scr'[c].seen = scr[c].seen
      /\ scr'[c].hand = scr[c].hand /\ srv'[c].pc = "serve"
      /\ srv'[c].sub = srv[c].sub /\ srv'[c].closed = srv[c].closed
  BY <1>1, <1>3 DEF Screens, Handlers
<1>5. Before(c)'  BY <1>1, <1>2, <1>3, <1>4 DEF Sound, Before
<1>6. Handles(c)'  BY <1>1, <1>2, <1>4 DEF Handles, Serving, shellVars, IdleSrv
<1>7. from'[c] = Nil  BY <1>1, <1>2
<1> QED BY <1>5, <1>6, <1>7 DEF Sound, Placed, Replies, Following

\* The screen is done with its connection.
LEMMA EndSound ==
  ASSUME Typed, NEW c \in Clients, Sound(c), from[c] # Nil,
         NEW how \in {"told", "cut", "left"}, EndWith(c, how),
         UNCHANGED <<shellVars, srv, from, behind, typed>>
  PROVE  Sound(c)'
<1>1. scr'[c] = [scr[c] EXCEPT !.pc = how, !.buf = <<>>, !.hand = Nil] /\ scr[c] \in Screens
  BY DEF EndWith, Typed
<1>2. scr'[c].pc = how /\ scr'[c].hand = Nil  BY <1>1 DEF Screens
<1>3. Before(c)' /\ Handles(c)' /\ Placed(c)'
  BY <1>2 DEF Sound, Before, Handles, Placed, Serving, shellVars, Start, Upto
<1>4. Replies(c)'  BY <1>2 DEF Sound, Replies, Upto
<1>5. ~Following(c)'  BY <1>2 DEF Following
<1> QED BY <1>3, <1>4, <1>5 DEF Sound

\* A step of the screen that leaves the handler alone.
LEMMA ScreenSound ==
  ASSUME Typed, NEW c \in Clients, Sound(c), Following(c), Following(c)',
         UNCHANGED <<shellVars, srv, from, behind, conn>>,
         Replies(c)', ScreenAt(c)', WireAt(c)', HandlerAt(c)'
  PROVE  Sound(c)'
<1>1. Before(c)' /\ Handles(c)' /\ Placed(c)'
  BY DEF Sound, Before, Handles, Placed, Serving, shellVars, Start, Upto, Following
<1> QED BY <1>1 DEF Sound

LEMMA GatherSound ==
  ASSUME Typed, NEW c \in Clients, Sound(c), Gather(c)
  PROVE  Sound(c)'
<1>0. /\ scr[c] \in Screens /\ scr[c].pc = "attach" /\ wire[c] \in Seq(Frames)
      /\ scr[c].buf \in Seq(Positions) /\ Shown(c) \in Nat /\ Held(c) \in Nat /\ Got(c) \in Nat
      /\ from[c] # Nil => Start(c) \in Nat /\ Upto(c) \in Nat /\ Replayed(c) \in Int
      /\ UNCHANGED <<shellVars, srv, from, behind, typed>>
  BY Facts, SMTT(30) DEF Gather, Replayed, Start, Upto
<1>1. ASSUME NEW t \in {"output", "done"}, Arrives(c, t)
      PROVE  /\ from[c] # Nil /\ Following(c) /\ wire[c] # <<>> /\ Head(wire[c]) = wire[c][1]
             /\ wire[c][1].typ = t /\ wire[c][1] \in Frames /\ wire[c][1] # Control("exit")
  <2>1. wire[c] # <<>> /\ Head(wire[c]) = wire[c][1] /\ wire[c][1] \in Frames
        /\ wire[c][1].typ = t
    BY <1>0, <1>1, Taken DEF Arrives
  <2>2. wire[c] # <<Control("refused")>> /\ wire[c][1] # Control("exit")
    BY <2>1 DEF Control
  <2>3. from[c] # Nil  BY <2>1, <2>2 DEF Sound, Before
  <2> QED BY <1>0, <2>1, <2>2, <2>3 DEF Following
<1>2. ASSUME Following(c)
      PROVE  /\ Got(c) = Held(c) /\ Shown(c) = 0 /\ scr[c].seen = <<>>
             /\ Held(c) <= Replayed(c) /\ scr[c].hand = Nil
             /\ \A i \in 1..Held(c) : scr[c].buf[i] = Start(c) + Shown(c) + i
  <2>1. /\ scr[c].seen = <<>> /\ Held(c) <= Replayed(c)
        /\ \A i \in 1..Held(c) : scr[c].buf[i] = Start(c) + Shown(c) + i
    BY <1>0, <1>2 DEF Sound, ScreenAt
  <2>2. Shown(c) = 0  BY <2>1, EmptyLength DEF Shown
  <2>3. Got(c) = Held(c)  BY <1>0, <2>2 DEF Got
  <2> QED BY <1>0, <1>2, <2>1, <2>2, <2>3 DEF Sound, Replies, Following
<1>3. CASE /\ Arrives(c, "output")
           /\ scr' = [scr EXCEPT ![c].buf = Append(@, Head(wire[c]).at)]
           /\ wire' = [wire EXCEPT ![c] = Tail(@)] /\ UNCHANGED conn
  <2> DEFINE p == wire[c][1].at
  <2>0. /\ from[c] # Nil /\ Following(c) /\ wire[c] # <<>> /\ Head(wire[c]) = wire[c][1]
        /\ wire[c][1].typ = "output" /\ wire[c][1] # Control("exit") /\ p \in Positions
    BY <1>1, <1>3, FrameKinds
  <2>1. scr'[c] = [scr[c] EXCEPT !.buf = Append(scr[c].buf, p)] /\ wire'[c] = Tail(wire[c])
    BY <1>3, <2>0 DEF Typed
  <2>2. /\ scr'[c].pc = "attach" /\ scr'[c].buf = Append(scr[c].buf, p)
        /\ scr'[c].seen = scr[c].seen /\ scr'[c].hand = scr[c].hand
    BY <1>0, <2>1 DEF Screens
  <2> HIDE DEF p
  <2>3. /\ Len(scr'[c].buf) = Len(scr[c].buf) + 1 /\ scr'[c].buf[Len(scr[c].buf) + 1] = p
        /\ \A i \in 1..Len(scr[c].buf) : scr'[c].buf[i] = scr[c].buf[i]
    BY <1>0, <2>0, <2>2, Added
  <2>4. /\ Held(c)' = Held(c) + 1 /\ scr'[c].buf[Held(c) + 1] = p
        /\ \A i \in 1..Held(c) : scr'[c].buf[i] = scr[c].buf[i]
    BY <2>3 DEF Held
  <2>5. Shown(c)' = Shown(c) /\ Start(c)' = Start(c) /\ Replayed(c)' = Replayed(c)
    BY <1>0, <2>2 DEF Shown, Start, Upto, Replayed
  <2>6. Got(c)' = Got(c) + 1  BY <1>0, <1>2, <2>0, <2>2, <2>4, <2>5 DEF Got
  <2>7. WireAt(c) /\ HandlerAt(c)  BY <2>0 DEF Sound
  <2>8. WireAt(c)' /\ HandlerAt(c)' /\ wire[c][1] = Item(c, Got(c) + 1)
    BY <1>0, <1>3, <2>0, <2>1, <2>6, <2>7, WireTaken DEF shellVars
  <2>9. Held(c) + 1 <= Replayed(c) /\ p = Start(c) + (Held(c) + 1)
    <3>1. Got(c) + 1 # Replayed(c) + 1
      <4>1. ASSUME Got(c) + 1 = Replayed(c) + 1  PROVE FALSE
        <5>1. ~(Got(c) + 1 <= Replayed(c))  BY <1>0, <2>0, <4>1
        <5>2. wire[c][1] = Control("done")  BY <2>8, <4>1, <5>1 DEF Item
        <5> QED BY <2>0, <5>2 DEF Control
      <4> QED BY <4>1
    <3>2. Got(c) + 1 <= Replayed(c)  BY <1>0, <1>2, <2>0, <3>1
    <3>3. wire[c][1] = Byte(Start(c) + (Got(c) + 1))  BY <2>8, <3>2 DEF Item
    <3> QED BY <1>2, <2>0, <3>2, <3>3 DEF Byte, p
  <2>10. ScreenAt(c)'
    <3>1. ASSUME NEW i \in 1..Held(c)'
          PROVE  scr'[c].buf[i] = Start(c)' + Shown(c)' + i
      <4>1. i \in 1..Held(c) \/ i = Held(c) + 1  BY <1>0, <2>4
      <4>2. CASE i \in 1..Held(c)  BY <1>2, <2>0, <2>4, <2>5, <4>2
      <4>3. CASE i = Held(c) + 1
        <5>1. Start(c) + Shown(c) + i = Start(c) + (Held(c) + 1)
          BY <1>0, <1>2, <2>0, <4>3
        <5> QED BY <2>4, <2>5, <2>9, <4>3, <5>1
      <4> QED BY <4>1, <4>2, <4>3
    <3>2. Held(c)' <= Replayed(c)'  BY <2>4, <2>5, <2>9
    <3> QED BY <1>2, <2>0, <2>2, <3>1, <3>2 DEF ScreenAt
  <2>11. Replies(c)'  BY <1>0, <2>0, <2>2 DEF Sound, Replies, Upto
  <2>12. Following(c)'  BY <1>0, <2>0, <2>2 DEF Following
  <2> QED BY <1>0, <1>3, <2>0, <2>8, <2>10, <2>11, <2>12, ScreenSound
<1>4. CASE /\ Arrives(c, "done")
           /\ scr' = [scr EXCEPT ![c].pc = IF scr[c].buf = <<>> THEN "live" ELSE "replay",
                                 ![c].skip = DropsReplies(c)]
           /\ wire' = [wire EXCEPT ![c] = Tail(@)] /\ UNCHANGED conn
  <2>0. /\ from[c] # Nil /\ Following(c) /\ wire[c] # <<>>
        /\ wire[c][1].typ = "done" /\ wire[c][1] # Control("exit")
    BY <1>1, <1>4
  <2>1. /\ scr'[c] = [scr[c] EXCEPT !.pc = IF scr[c].buf = <<>> THEN "live" ELSE "replay",
                                    !.skip = DropsReplies(c)]
        /\ wire'[c] = Tail(wire[c])
    BY <1>4 DEF Typed
  <2>2. /\ scr'[c].pc = IF scr[c].buf = <<>> THEN "live" ELSE "replay"
        /\ scr'[c].skip = DropsReplies(c) /\ scr'[c].buf = scr[c].buf
        /\ scr'[c].seen = scr[c].seen /\ scr'[c].hand = scr[c].hand
    BY <1>0, <2>1 DEF Screens
  <2>3. /\ Shown(c)' = Shown(c) /\ Held(c)' = Held(c)
        /\ Start(c)' = Start(c) /\ Replayed(c)' = Replayed(c)
    BY <1>0, <2>2 DEF Shown, Held, Start, Upto, Replayed
  <2>4. Got(c)' = Got(c) + 1  BY <1>0, <1>2, <2>0, <2>2, <2>3 DEF Got
  <2>5. WireAt(c) /\ HandlerAt(c)  BY <2>0 DEF Sound
  <2>6. WireAt(c)' /\ HandlerAt(c)' /\ wire[c][1] = Item(c, Got(c) + 1)
    BY <1>0, <1>4, <2>0, <2>1, <2>4, <2>5, WireTaken DEF shellVars
  <2>7. Held(c) = Replayed(c)
    <3>1. Got(c) + 1 = Replayed(c) + 1  BY <2>0, <2>6 DEF Item, Byte
    <3> QED BY <1>0, <1>2, <2>0, <3>1
  <2>8. scr[c].buf = <<>> => Held(c) = 0  BY EmptyLength DEF Held
  <2>9. ScreenAt(c)'  BY <1>0, <1>2, <2>0, <2>2, <2>3, <2>7, <2>8 DEF ScreenAt
  <2>10. Replies(c)'
    <3>1. scr[c].hand = Nil /\ Nil # Marker  BY <1>2, <2>0, AttachAssumption DEF Marker
    <3> QED BY <1>0, <2>0, <2>2, <3>1 DEF Sound, Replies, Upto, DropsReplies
  <2>11. Following(c)'  BY <1>0, <2>0, <2>2 DEF Following
  <2> QED BY <1>0, <1>4, <2>0, <2>6, <2>9, <2>10, <2>11, ScreenSound
<1>5. CASE Arrives(c, "refused") /\ EndWith(c, "refused")
  <2>1. /\ wire[c] # <<>> /\ wire[c][1].typ = "refused" /\ Len(wire[c]) > 0
    BY <1>0, <1>5, Taken DEF Arrives
  <2>2. from[c] = Nil
    <3>1. SUFFICES ASSUME from[c] # Nil  PROVE FALSE  OBVIOUS
    <3>2. WireAt(c)  BY <1>0, <3>1 DEF Sound, Following
    <3>3. 1 \in 1..OnWire(c)
      <4>1. OnWire(c) \in Nat /\ OnWire(c) > 0  BY <2>1, Facts DEF OnWire
      <4> QED BY <4>1
    <3>4. wire[c][1] = Item(c, Got(c) + 1) \/ wire[c][1] = Control("exit")
      BY <3>2, <3>3 DEF WireAt, Farewell
    <3> QED BY <2>1, <3>4 DEF Item, Byte, Control
  <2>3. scr'[c] = [scr[c] EXCEPT !.pc = "refused", !.buf = <<>>, !.hand = Nil]
        /\ wire'[c] = <<>>
    BY <1>5 DEF EndWith, Typed
  <2>4. /\ scr'[c].pc = "refused" /\ scr'[c].hand = Nil /\ scr'[c].buf = <<>>
        /\ scr'[c].seen = scr[c].seen
    BY <1>0, <2>3 DEF Screens
  <2>5. Before(c)' /\ Handles(c)'
    BY <1>0, <2>1, <2>2, <2>3, <2>4 DEF Sound, Before, Handles, Serving, shellVars
  <2> QED BY <1>0, <2>2, <2>5 DEF Sound, Placed, Replies, Following
<1>6. CASE Drained(c) /\ EndWith(c, IF from[c] = Nil THEN "refused" ELSE "cut")
  <2>1. CASE from[c] # Nil  BY <1>0, <1>6, <2>1, EndSound
  <2>2. CASE from[c] = Nil
    <3>1. EndWith(c, "refused") /\ conn[c] = "client"  BY <1>6, <2>2 DEF Drained
    <3>2. scr'[c] = [scr[c] EXCEPT !.pc = "refused", !.buf = <<>>, !.hand = Nil]
          /\ wire'[c] = <<>>
      BY <3>1 DEF EndWith, Typed
    <3>3. /\ scr'[c].pc = "refused" /\ scr'[c].hand = Nil /\ scr'[c].buf = <<>>
          /\ scr'[c].seen = scr[c].seen
      BY <1>0, <3>2 DEF Screens
    <3>4. Before(c)' /\ Handles(c)'
      BY <1>0, <2>2, <3>1, <3>2, <3>3 DEF Sound, Before, Handles, Serving, shellVars
    <3> QED BY <1>0, <2>2, <3>4 DEF Sound, Placed, Replies, Following
  <2> QED BY <2>1, <2>2
<1> QED BY <1>3, <1>4, <1>5, <1>6 DEF Gather

LEMMA ParsedIs ==
  ASSUME Typed, NEW c \in Clients, NEW p \in Positions
  PROVE  /\ Parsed(c, p) \in Screens /\ Parsed(c, p).pc = scr[c].pc
         /\ Parsed(c, p).buf = scr[c].buf /\ Parsed(c, p).seen = Append(scr[c].seen, p)
         /\ Parsed(c, p).skip = scr[c].skip
         /\ Parsed(c, p).hand = IF tape[p] = "query" /\ c \notin Web THEN p ELSE scr[c].hand
         /\ Len(Parsed(c, p).seen) = Shown(c) + 1
<1>1. scr[c] \in Screens /\ scr[c].seen \in Seq(Positions)  BY Facts
<1>2. /\ Append(scr[c].seen, p) \in Seq(Positions)
      /\ Len(Append(scr[c].seen, p)) = Shown(c) + 1
  BY <1>1, Added DEF Shown
<1>3. Parsed(c, p) = [scr[c] EXCEPT !.seen = Append(scr[c].seen, p),
                         !.hand = IF tape[p] = "query" /\ c \notin Web THEN p ELSE scr[c].hand]
  BY <1>1 DEF Parsed, Screens
<1> QED BY <1>1, <1>2, <1>3 DEF Screens

LEMMA ShowReplaySound ==
  ASSUME Typed, NEW c \in Clients, Sound(c), ShowReplay(c)
  PROVE  Sound(c)'
<1> DEFINE p == Head(scr[c].buf)
           v == [Parsed(c, p) EXCEPT !.buf = Tail(scr[c].buf)]
<1>0. /\ scr[c] \in Screens /\ scr[c].pc = "replay" /\ scr[c].buf \in Seq(Positions)
      /\ scr[c].buf # <<>> /\ Shown(c) \in Nat /\ Held(c) \in Nat /\ Got(c) \in Nat
      /\ UNCHANGED <<shellVars, srv, wire, conn, from, behind, typed>>
  BY Facts DEF ShowReplay
<1>1. /\ from[c] # Nil /\ Following(c) /\ Start(c) \in Nat /\ Upto(c) \in Nat
      /\ Replayed(c) \in Int
  <2>1. from[c] # Nil  BY <1>0 DEF Sound, Before
  <2> QED BY <1>0, <2>1, Facts DEF Following, Replayed, Start, Upto
<1>2. ScreenAt(c) /\ WireAt(c) /\ HandlerAt(c)  BY <1>1 DEF Sound
<1>3. /\ p = scr[c].buf[1] /\ p \in Positions /\ Tail(scr[c].buf) \in Seq(Positions)
      /\ Held(c) > 0 /\ Len(Tail(scr[c].buf)) = Held(c) - 1
      /\ \A i \in 1..(Held(c) - 1) : Tail(scr[c].buf)[i] = scr[c].buf[i + 1]
  BY <1>0, Taken DEF Held
<1>11. scr' = [scr EXCEPT ![c] = v]
  <2>1. Parsed(c, p).buf = scr[c].buf  BY <1>3, ParsedIs
  <2> QED BY <2>1 DEF ShowReplay
<1> HIDE DEF p
<1>4. /\ scr'[c].pc = "replay" /\ scr'[c].buf = Tail(scr[c].buf)
      /\ scr'[c].seen = Append(scr[c].seen, p) /\ scr'[c].skip = scr[c].skip
      /\ scr'[c].hand = IF tape[p] = "query" /\ c \notin Web THEN p ELSE scr[c].hand
      /\ Len(scr'[c].seen) = Shown(c) + 1
  <2>1. scr'[c] = v  BY <1>11 DEF Typed
  <2> QED BY <1>0, <1>3, <2>1, ParsedIs DEF Screens
<1> HIDE DEF v
<1>5. /\ Shown(c)' = Shown(c) + 1 /\ Held(c)' = Held(c) - 1
      /\ Start(c)' = Start(c) /\ Upto(c)' = Upto(c) /\ Replayed(c)' = Replayed(c)
  BY <1>0, <1>3, <1>4 DEF Shown, Held, Start, Upto, Replayed
<1>6. Got(c)' = Got(c)  BY <1>0, <1>4, <1>5 DEF Got
<1>7. WireAt(c)' /\ HandlerAt(c)'  BY <1>0, <1>2, <1>6, WireKept DEF shellVars
<1>8. ScreenAt(c)'
  <2>1. ASSUME NEW i \in 1..Held(c)'  PROVE scr'[c].buf[i] = Start(c)' + Shown(c)' + i
    <3>1. i \in 1..(Held(c) - 1) /\ i \in Nat  BY <1>0, <1>5
    <3>2. i + 1 \in 1..Held(c)  BY <1>0, <3>1
    <3>3. scr[c].buf[i + 1] = Start(c) + Shown(c) + (i + 1)  BY <1>2, <3>2 DEF ScreenAt
    <3>4. Start(c) + Shown(c) + (i + 1) = Start(c) + (Shown(c) + 1) + i  BY <1>0, <1>1, <3>1
    <3> QED BY <1>3, <1>4, <1>5, <3>1, <3>3, <3>4
  <2>2. Shown(c)' + Held(c)' = Replayed(c)'
    <3>1. Shown(c) + Held(c) = Replayed(c)  BY <1>0, <1>2 DEF ScreenAt
    <3> QED BY <1>0, <1>5, <3>1
  <2> QED BY <1>4, <2>1, <2>2 DEF ScreenAt
<1>9. Replies(c)'
  <2>1. p # Marker  BY <1>3 DEF Positions, Marker
  <2> QED BY <1>0, <1>1, <1>4, <1>5, <2>1 DEF Sound, Replies
<1>10. Following(c)'  BY <1>0, <1>1, <1>4 DEF Following
<1> QED BY <1>0, <1>1, <1>7, <1>8, <1>9, <1>10, ScreenSound

LEMMA EndReplaySound ==
  ASSUME Typed, NEW c \in Clients, Sound(c), EndReplay(c)
  PROVE  Sound(c)'
<1>0. /\ scr[c] \in Screens /\ scr[c].pc = "replay" /\ scr[c].buf = <<>> /\ scr[c].hand = Nil
      /\ Shown(c) \in Nat /\ Held(c) \in Nat
      /\ UNCHANGED <<shellVars, srv, wire, conn, from, behind, typed>>
      /\ scr'[c] = [scr[c] EXCEPT !.pc = "live", !.hand = IF c \in Web THEN Nil ELSE Marker]
  BY Facts DEF EndReplay, Typed
<1>1. from[c] # Nil /\ Following(c)  BY <1>0 DEF Sound, Before, Following
<1>2. ScreenAt(c) /\ WireAt(c) /\ HandlerAt(c)  BY <1>1 DEF Sound
<1>3. /\ scr'[c].pc = "live" /\ scr'[c].buf = scr[c].buf /\ scr'[c].seen = scr[c].seen
      /\ scr'[c].skip = scr[c].skip /\ scr'[c].hand = IF c \in Web THEN Nil ELSE Marker
  BY <1>0 DEF Screens
<1>4. /\ Shown(c)' = Shown(c) /\ Held(c)' = Held(c) /\ Start(c)' = Start(c)
      /\ Upto(c)' = Upto(c) /\ Replayed(c)' = Replayed(c)
  BY <1>0, <1>3 DEF Shown, Held, Start, Upto, Replayed
<1>5. Got(c)' = Got(c)  BY <1>0, <1>3, <1>4 DEF Got
<1>6. WireAt(c)' /\ HandlerAt(c)'  BY <1>0, <1>2, <1>5, WireKept DEF shellVars
<1>7. ScreenAt(c)'
  <2>1. Held(c) = 0  BY <1>0, EmptyLength DEF Held
  <2>2. Shown(c) + Held(c) = Replayed(c)  BY <1>0, <1>2 DEF ScreenAt
  <2>3. Shown(c) = Replayed(c)  BY <1>0, <2>1, <2>2
  <2> QED BY <1>0, <1>2, <1>3, <1>4, <2>3 DEF ScreenAt
<1>8. Replies(c)'  BY <1>0, <1>1, <1>3, <1>4 DEF Sound, Replies
<1>9. Following(c)'  BY <1>0, <1>1, <1>3 DEF Following
<1> QED BY <1>0, <1>1, <1>6, <1>7, <1>8, <1>9, ScreenSound

\* A live byte comes after the replay.
LEMMA LiveByte ==
  ASSUME Typed, NEW c \in Clients, Sound(c), scr[c].pc = "live", wire[c] # <<>>,
         wire[c][1].typ = "output"
  PROVE  /\ from[c] # Nil /\ Following(c)
         /\ wire[c][1].at \in Positions /\ wire[c][1].at = Start(c) + Shown(c) + 1
         /\ wire[c][1].at > Upto(c) /\ wire[c][1].at <= printed
         /\ wire[c][1] # Control("exit") /\ Got(c) = Shown(c) + 1 /\ Shown(c) \in Nat
<1>0. from[c] # Nil  BY DEF Sound, Before
<1>1. /\ Shown(c) \in Nat /\ Held(c) \in Nat /\ Got(c) \in Nat /\ wire[c] \in Seq(Frames)
      /\ Start(c) \in Nat /\ Upto(c) \in Nat /\ Replayed(c) \in Int /\ OnWire(c) \in Nat
      /\ Upto(c) = Start(c) + Replayed(c)
  BY <1>0, Facts, SMTT(30) DEF Replayed, Start, Upto
<1>2. ScreenAt(c) /\ WireAt(c) /\ Following(c)  BY <1>0 DEF Sound, Following
<1>3. /\ scr[c].buf = <<>> /\ Shown(c) >= Replayed(c)  BY <1>2 DEF ScreenAt
<1>4. Got(c) = Shown(c) + 1
  <2>1. Held(c) = 0  BY <1>3, EmptyLength DEF Held
  <2> QED BY <1>1, <2>1 DEF Got
<1>5. /\ wire[c][1] \in Frames /\ wire[c][1] # Control("exit") /\ 1 \in 1..OnWire(c)
  <2>1. wire[c][1] \in Frames /\ OnWire(c) > 0  BY <1>1, Taken DEF OnWire
  <2> QED BY <1>1, <2>1 DEF Control
<1>6. /\ wire[c][1] = Item(c, Got(c) + 1) /\ wire[c][1].at <= printed
  BY <1>2, <1>5 DEF WireAt, Farewell
<1>7. ~(Got(c) + 1 <= Replayed(c)) /\ Got(c) + 1 # Replayed(c) + 1
  BY <1>1, <1>3, <1>4
<1>8. wire[c][1] = Byte(Start(c) + (Got(c) + 1) - 1)  BY <1>6, <1>7 DEF Item
<1>9. wire[c][1].at = Start(c) + (Got(c) + 1) - 1  BY <1>8 DEF Byte
<1>10. wire[c][1].at = Start(c) + Shown(c) + 1  BY <1>1, <1>4, <1>9
<1>11. wire[c][1].at > Upto(c)  BY <1>1, <1>3, <1>10
<1>12. wire[c][1].at \in Positions  BY <1>5, FrameKinds
<1> QED BY <1>0, <1>1, <1>2, <1>4, <1>5, <1>6, <1>10, <1>11, <1>12

LEMMA ShowLiveSound ==
  ASSUME Typed, NEW c \in Clients, Sound(c), ShowLive(c)
  PROVE  Sound(c)'
<1> DEFINE p == wire[c][1].at
<1>0. /\ scr[c] \in Screens /\ scr[c].pc = "live" /\ wire[c] \in Seq(Frames) /\ wire[c] # <<>>
      /\ wire[c][1].typ = "output" /\ Head(wire[c]) = wire[c][1]
      /\ CanParse(c, p) /\ scr' = [scr EXCEPT ![c] = Parsed(c, p)] /\ typed' = WebAnswer(c, p)
      /\ wire'[c] = Tail(wire[c]) /\ UNCHANGED <<shellVars, srv, conn, from, behind>>
  <2>1. wire[c] \in Seq(Frames) /\ wire[c] # <<>> /\ scr[c] \in Screens
    BY DEF ShowLive, Arrives, Typed
  <2>2. Head(wire[c]) = wire[c][1]  BY <2>1, Taken
  <2> QED BY <2>1, <2>2 DEF ShowLive, Arrives, Typed
<1>1. /\ from[c] # Nil /\ Following(c) /\ p \in Positions
      /\ p = Start(c) + Shown(c) + 1 /\ p > Upto(c)
      /\ wire[c][1] # Control("exit") /\ Got(c) = Shown(c) + 1 /\ Shown(c) \in Nat
  BY <1>0, LiveByte
<1> HIDE DEF p
<1>2. ScreenAt(c) /\ WireAt(c) /\ HandlerAt(c)  BY <1>1 DEF Sound
<1>3. /\ scr'[c].pc = "live" /\ scr'[c].buf = scr[c].buf /\ scr'[c].skip = scr[c].skip
      /\ scr'[c].hand = IF tape[p] = "query" /\ c \notin Web THEN p ELSE scr[c].hand
      /\ Shown(c)' = Shown(c) + 1
  <2>1. scr'[c] = Parsed(c, p)  BY <1>0 DEF Typed
  <2> QED BY <1>0, <1>1, <2>1, ParsedIs DEF Shown
<1>4. /\ Held(c)' = Held(c) /\ Start(c)' = Start(c) /\ Upto(c)' = Upto(c)
      /\ Replayed(c)' = Replayed(c) /\ scr[c].buf = <<>> /\ Shown(c) >= Replayed(c)
  BY <1>0, <1>2, <1>3 DEF Held, Start, Upto, Replayed, ScreenAt
<1>5. Got(c)' = Got(c) + 1
  <2>1. Held(c)' = 0  BY <1>3, <1>4, EmptyLength DEF Held
  <2> QED BY <1>1, <1>3, <2>1 DEF Got
<1>6. WireAt(c)' /\ HandlerAt(c)'  BY <1>0, <1>1, <1>2, <1>5, WireTaken DEF shellVars
<1>7. ScreenAt(c)'
  <2>1. Held(c)' = 0  BY <1>3, <1>4, EmptyLength DEF Held
  <2>2. \A i \in 1..Held(c)' : FALSE  BY <2>1
  <2>3. Replayed(c) \in Int  BY <1>1, Facts, SMTT(30) DEF Replayed, Start, Upto
  <2>4. Shown(c)' >= Replayed(c)'  BY <1>1, <1>3, <1>4, <2>3
  <2> QED BY <1>3, <1>4, <2>2, <2>4 DEF ScreenAt
<1>8. Replies(c)'
  <2>1. typed'[c] \subseteq typed[c] \cup {p}  BY <1>0 DEF WebAnswer, Typed
  <2>2. \A q \in typed'[c] : q > Upto(c)'  BY <1>1, <1>4, <2>1 DEF Sound, Replies
  <2>3. Nil # Marker  BY AttachAssumption DEF Marker
  <2>4. tape[p] = "query" /\ c \notin Web => scr[c].hand = Nil  BY <1>0 DEF CanParse
  <2> QED BY <1>0, <1>1, <1>3, <1>4, <2>2, <2>3, <2>4 DEF Sound, Replies
<1>9. Following(c)'  BY <1>0, <1>1, <1>3 DEF Following
<1> QED BY <1>0, <1>1, <1>6, <1>7, <1>8, <1>9, ScreenSound

LEMMA TakeReplySound ==
  ASSUME Typed, NEW c \in Clients, Sound(c), TakeReply(c)
  PROVE  Sound(c)'
<1>0. /\ scr[c] \in Screens /\ scr[c].hand # Nil
      /\ UNCHANGED <<shellVars, srv, wire, conn, from, behind>>
  BY DEF TakeReply, Typed
<1>1. /\ from[c] # Nil /\ c \notin Web /\ scr[c].pc \in {"replay", "live"} /\ Following(c)
  BY <1>0 DEF Sound, Before, Replies, Following, Placed, Screens
<1>2. ScreenAt(c) /\ WireAt(c) /\ HandlerAt(c)  BY <1>1 DEF Sound
<1>3. /\ scr'[c].pc = scr[c].pc /\ scr'[c].buf = scr[c].buf /\ scr'[c].seen = scr[c].seen
      /\ scr'[c].hand = Nil
      /\ scr[c].skip => scr'[c].skip = (scr[c].hand # Marker) /\ typed'[c] = typed[c]
      /\ ~scr[c].skip => scr'[c].skip = scr[c].skip
                         /\ typed'[c] \subseteq typed[c] \cup {scr[c].hand}
  <2>1. CASE scr[c].skip
    <3>1. scr'[c] = [scr[c] EXCEPT !.hand = Nil, !.skip = scr[c].hand # Marker]
          /\ UNCHANGED typed
      BY <2>1 DEF TakeReply, Typed
    <3> QED BY <1>0, <2>1, <3>1 DEF Screens
  <2>2. CASE ~scr[c].skip
    <3>1. scr'[c] = [scr[c] EXCEPT !.hand = Nil, !.answers = conn[c] = "both"]
      BY <2>2 DEF TakeReply, Typed
    <3>2. typed'[c] \subseteq typed[c] \cup {scr[c].hand}
      BY <2>2 DEF TakeReply, Typed
    <3> QED BY <1>0, <2>2, <3>1, <3>2 DEF Screens
  <2> QED BY <2>1, <2>2
<1>4. /\ Shown(c)' = Shown(c) /\ Held(c)' = Held(c) /\ Start(c)' = Start(c)
      /\ Upto(c)' = Upto(c) /\ Replayed(c)' = Replayed(c)
  BY <1>0, <1>3 DEF Shown, Held, Start, Upto, Replayed
<1>5. Got(c)' = Got(c)  BY <1>3, <1>4 DEF Got
<1>6. WireAt(c)' /\ HandlerAt(c)'  BY <1>0, <1>2, <1>5, WireKept DEF shellVars
<1>7. ScreenAt(c)'  BY <1>2, <1>3, <1>4 DEF ScreenAt
<1>8. Replies(c)'
  <2>1. Nil # Marker  BY AttachAssumption DEF Marker
  <2>2. CASE scr[c].pc = "replay"
    BY <1>0, <1>1, <1>3, <1>4, <2>1, <2>2 DEF Sound, Replies
  <2>3. CASE scr[c].pc = "live"
    <3>1. ~scr[c].skip => scr[c].hand > Upto(c)  BY <1>0, <1>1, <2>3 DEF Sound, Replies
    <3> QED BY <1>0, <1>1, <1>3, <1>4, <2>3, <3>1 DEF Sound, Replies
  <2> QED BY <1>1, <2>2, <2>3
<1>9. Following(c)'  BY <1>0, <1>1, <1>3 DEF Following
<1> QED BY <1>0, <1>1, <1>6, <1>7, <1>8, <1>9, ScreenSound

LEMMA LeaveSound ==
  ASSUME Typed, NEW c \in Clients, Sound(c), StreamEnds(c) \/ Close(c) \/ RelayEnds(c)
  PROVE  Sound(c)'
<1>0. scr[c] \in Screens  BY DEF Typed
<1>1. from[c] # Nil  BY DEF Sound, Before, StreamEnds, Close, RelayEnds
<1>2. UNCHANGED <<shellVars, srv, from, behind, typed>>
  BY DEF StreamEnds, Close, RelayEnds
<1>3. CASE \E how \in {"told", "cut", "left"} : EndWith(c, how)
  BY <1>1, <1>2, <1>3, EndSound
<1>4. CASE c \in Web /\ scr' = [scr EXCEPT ![c].pc = "leaving"] /\ UNCHANGED <<conn, wire>>
  <2>1. scr'[c].pc = "leaving" /\ scr'[c].hand = scr[c].hand
    BY <1>0, <1>4 DEF Typed, Screens
  <2>2. Before(c)' /\ Handles(c)' /\ Placed(c)'
    BY <1>1, <1>2, <2>1 DEF Sound, Before, Handles, Placed, Serving, shellVars, Start, Upto
  <2>3. Replies(c)'  BY <1>1, <1>2, <1>4, <2>1 DEF Sound, Replies, Upto
  <2> QED BY <2>1, <2>2, <2>3 DEF Sound, Following
<1> QED BY <1>3, <1>4 DEF StreamEnds, Close, RelayEnds

-----------------------------------------------------------------------------
(* The session's steps reach every client.                                 *)

LEMMA BroadcastSound ==
  ASSUME Typed, NEW c \in Clients, Sound(c), Broadcast
  PROVE  Sound(c)'
<1>0. /\ shell = "running" /\ printed' = printed + 1 /\ printed \in Nat /\ c \in Clients
      /\ UNCHANGED <<shell, wire, conn, scr, from, typed>>
      /\ srv'[c] = Offer(c) /\ srv[c] \in Handlers /\ srv[c].ch \in Seq(Positions)
      /\ Queued(c) \in Nat /\ printed + 1 \in Positions
      /\ (c \in behind') = (c \in behind \/ Slow(c))
  <2>1. printed + 1 \in Positions  BY Tape DEF Broadcast, Typed, Positions
  <2> QED BY <2>1, Facts DEF Broadcast
<1>1. /\ srv'[c].pc = srv[c].pc /\ srv'[c].replay = srv[c].replay
      /\ Slow(c) => ~srv'[c].sub /\ srv'[c].closed /\ srv'[c].ch = srv[c].ch
      /\ srv[c].sub /\ ~Slow(c) =>
           /\ srv'[c].sub /\ srv'[c].closed = srv[c].closed
           /\ srv'[c].ch = Append(srv[c].ch, printed + 1)
      /\ ~srv[c].sub => srv'[c] = srv[c]
  <2>1. CASE Slow(c)
    <3>1. srv'[c] = [srv[c] EXCEPT !.sub = FALSE, !.closed = TRUE]  BY <1>0, <2>1 DEF Offer
    <3> QED BY <1>0, <2>1, <3>1 DEF Handlers, Slow
  <2>2. CASE srv[c].sub /\ ~Slow(c)
    <3>1. srv'[c] = [srv[c] EXCEPT !.ch = Append(srv[c].ch, printed + 1)]
      BY <1>0, <2>2 DEF Offer
    <3> QED BY <1>0, <2>2, <3>1 DEF Handlers
  <2>3. CASE ~srv[c].sub  BY <1>0, <2>3 DEF Offer, Slow
  <2> QED BY <2>1, <2>2, <2>3
<1>2. Slow(c) => srv[c].sub  BY DEF Slow
<1>3. Before(c)'  BY <1>0, <1>1, <1>2 DEF Sound, Before
<1>4. Handles(c)'
  <2>1. CASE ~srv[c].sub  BY <1>0, <1>1, <1>2, <2>1 DEF Sound, Handles, Serving
  <2>2. CASE srv[c].sub
    <3>1. srv[c].pc # "none"  BY <2>2 DEF Sound, Handles, Serving
    <3> QED BY <1>0, <1>1, <1>2, <2>2, <3>1 DEF Sound, Handles, Serving
  <2> QED BY <2>1, <2>2
<1>5. Replies(c)'  BY <1>0 DEF Sound, Replies, Upto
<1>6. Placed(c)'
  <2>1. from[c] # Nil => Upto(c) \in Nat  BY Facts
  <2> QED BY <1>0, <1>1, <2>1 DEF Sound, Placed, Start, Upto
<1>7. ASSUME Following(c)'  PROVE ScreenAt(c)' /\ WireAt(c)' /\ HandlerAt(c)'
  <2>1. Following(c) /\ ScreenAt(c) /\ WireAt(c) /\ HandlerAt(c)
    BY <1>0, <1>7 DEF Sound, Following
  <2>2. /\ Got(c)' = Got(c) /\ Sent(c)' = Sent(c) /\ Base(c)' = Base(c)
        /\ Replayed(c)' = Replayed(c) /\ Shown(c)' = Shown(c) /\ Held(c)' = Held(c)
        /\ OnWire(c)' = OnWire(c) /\ Unsent(c)' = Unsent(c) /\ Serving(c)' = Serving(c)
        /\ Start(c)' = Start(c) /\ Upto(c)' = Upto(c)
        /\ \A k : Item(c, k)' = Item(c, k)
    BY <1>0, <1>1 DEF Got, Sent, Base, Replayed, Shown, Held, OnWire, Unsent, Item, Start, Upto,
                      Serving
  <2>3. ScreenAt(c)'  BY <1>0, <2>1, <2>2 DEF ScreenAt
  <2>4. WireAt(c)'
    <3>1. \A i : ~Farewell(c, i)  BY <1>0 DEF Farewell
    <3>2. ASSUME NEW i \in 1..OnWire(c)
          PROVE  /\ wire[c][i] = Item(c, Got(c) + i)
                 /\ wire[c][i].typ = "output" => wire[c][i].at <= printed'
      <4>1. /\ wire[c][i] = Item(c, Got(c) + i)
            /\ wire[c][i].typ = "output" => wire[c][i].at <= printed
        BY <2>1, <3>1, <3>2 DEF WireAt
      <4>2. wire[c][i] \in Frames  BY <3>2, Facts, ElementOfSeq DEF OnWire
      <4>3. wire[c][i].typ = "output" => wire[c][i].at \in Nat
        BY <4>2, FrameKinds, Tape DEF Positions
      <4> QED BY <1>0, <4>1, <4>3
    <3>3. conn'[c] = "client" =>
            \/ c \in behind' \/ shell' = "lost"
            \/ wire'[c] # <<>> /\ wire'[c][OnWire(c)'] = Control("exit")
      BY <1>0, <2>1, <2>2 DEF WireAt
    <3> QED BY <1>0, <2>2, <3>2, <3>3 DEF WireAt
  <2>5. HandlerAt(c)'
    <3>0. /\ Base(c) \in Int
      <4>1. Start(c) \in Nat /\ Upto(c) \in Nat /\ Sent(c) \in Nat  BY <2>1, Facts DEF Following
      <4> QED BY <4>1 DEF Base
    <3>1. CASE ~Serving(c)  BY <1>1, <2>2, <3>1 DEF HandlerAt, Serving
    <3>2. /\ srv'[c].pc = "replay" =>
               /\ Unsent(c)' + Sent(c)' = Replayed(c)'
               /\ \A j \in 1..Unsent(c)' : srv'[c].replay[j] = Start(c)' + Sent(c)' + j
          /\ srv'[c].pc = "live" => Sent(c)' > Replayed(c)'
      BY <1>1, <2>1, <2>2 DEF HandlerAt
    <3>3. CASE Serving(c) /\ (Slow(c) \/ ~srv[c].sub)
      <4>1. srv'[c].ch = srv[c].ch /\ ~srv'[c].sub /\ c \in behind'
        BY <1>0, <1>1, <3>3 DEF Sound, Handles
      <4>2. Queued(c)' = Queued(c)  BY <4>1 DEF Queued
      <4>3. /\ Base(c) + Queued(c) <= printed
            /\ \A j \in 1..Queued(c) : srv[c].ch[j] = Base(c) + j
        BY <2>1, <3>3 DEF HandlerAt
      <4>4. Base(c)' + Queued(c)' <= printed'  BY <1>0, <2>2, <3>0, <4>2, <4>3
      <4> QED BY <2>2, <3>2, <4>1, <4>2, <4>3, <4>4 DEF HandlerAt
    <3>4. CASE Serving(c) /\ srv[c].sub /\ ~Slow(c)
      <4>1. srv'[c].ch = Append(srv[c].ch, printed + 1)  BY <1>1, <3>4
      <4>2. /\ Len(srv'[c].ch) = Len(srv[c].ch) + 1 /\ srv'[c].ch[Len(srv[c].ch) + 1] = printed + 1
            /\ \A j \in 1..Len(srv[c].ch) : srv'[c].ch[j] = srv[c].ch[j]
        BY <1>0, <4>1, Added
      <4>3. /\ Queued(c)' = Queued(c) + 1 /\ srv'[c].ch[Queued(c) + 1] = printed + 1
            /\ \A j \in 1..Queued(c) : srv'[c].ch[j] = srv[c].ch[j]
        BY <4>2 DEF Queued
      <4>4. /\ Base(c) + Queued(c) = printed
            /\ \A j \in 1..Queued(c) : srv[c].ch[j] = Base(c) + j
        BY <2>1, <3>4 DEF HandlerAt
      <4>5. Base(c)' + Queued(c)' = printed'  BY <1>0, <2>2, <3>0, <4>3, <4>4
      <4>6. ASSUME NEW j \in 1..Queued(c)'  PROVE srv'[c].ch[j] = Base(c)' + j
        <5>1. j \in 1..Queued(c) \/ j = Queued(c) + 1  BY <1>0, <4>3
        <5>2. CASE j = Queued(c) + 1
          <6>1. Base(c) + j = printed + 1  BY <1>0, <3>0, <4>4, <5>2
          <6> QED BY <2>2, <4>3, <5>2, <6>1
        <5> QED BY <2>2, <4>3, <4>4, <5>1, <5>2
      <4>7. Base(c)' + Queued(c)' <= printed'  BY <1>0, <4>5
      <4> QED BY <2>2, <3>2, <4>5, <4>6, <4>7 DEF HandlerAt
    <3> QED BY <3>1, <3>3, <3>4
  <2> QED BY <2>3, <2>4, <2>5
<1> QED BY <1>3, <1>4, <1>5, <1>6, <1>7 DEF Sound

LEMMA Idling ==
  ASSUME NEW h \in Handlers, h.pc = "none", h.replay = <<>>, h.ch = <<>>,
         h.sub = FALSE, h.closed = FALSE
  PROVE  h = IdleSrv
<1>1. h = [pc |-> h.pc, replay |-> h.replay, ch |-> h.ch, sub |-> h.sub, closed |-> h.closed]
  BY DEF Handlers
<1> QED BY <1>1, Zenon DEF IdleSrv

LEMMA ExitSound ==
  ASSUME Typed, NEW c \in Clients, Sound(c), ShellExits
  PROVE  Sound(c)'
<1>0. /\ shell = "running" /\ shell' = "exited" /\ srv[c] \in Handlers
      /\ UNCHANGED <<printed, wire, conn, scr, from, behind, typed>>
      /\ srv'[c] = [srv[c] EXCEPT !.sub = FALSE, !.closed = srv[c].closed \/ srv[c].sub]
  BY DEF ShellExits, Typed
<1>1. /\ srv'[c].pc = srv[c].pc /\ srv'[c].replay = srv[c].replay /\ srv'[c].ch = srv[c].ch
      /\ ~srv'[c].sub /\ srv'[c].closed = (srv[c].closed \/ srv[c].sub)
  BY <1>0 DEF Handlers
<1>2. Before(c)' /\ Placed(c)' /\ Replies(c)'
  BY <1>0, <1>1 DEF Sound, Before, Placed, Replies, Start, Upto
<1>3. Handles(c)'
  <2>1. CASE srv[c].pc = "none"
    <3>1. srv[c] = IdleSrv  BY <2>1 DEF Sound, Handles
    <3>2. /\ srv[c].replay = <<>> /\ srv[c].ch = <<>>
          /\ srv[c].sub = FALSE /\ srv[c].closed = FALSE
      BY <3>1 DEF IdleSrv
    <3>4. (srv[c].closed \/ srv[c].sub) = FALSE  BY <3>2
    <3>5. srv'[c] = [srv[c] EXCEPT !.sub = FALSE, !.closed = FALSE]  BY <1>0, <3>4
    <3>6. srv'[c] \in Handlers  BY <1>0, <3>5 DEF Handlers
    <3>7. /\ srv'[c].pc = "none" /\ srv'[c].replay = <<>> /\ srv'[c].ch = <<>>
          /\ srv'[c].sub = FALSE /\ srv'[c].closed = FALSE
      <4>1. srv[c].pc = "none"  BY <2>1
      <4> QED BY <1>0, <3>2, <3>5, <4>1 DEF Handlers
    <3>3. srv'[c] = IdleSrv  BY <3>6, <3>7, Idling
    <3> QED BY <1>0, <1>1, <2>1, <3>3 DEF Handles
  <2>2. CASE srv[c].pc # "none"  BY <1>0, <1>1, <2>2 DEF Handles
  <2> QED BY <2>1, <2>2
<1>4. ASSUME Following(c)'  PROVE ScreenAt(c)' /\ WireAt(c)' /\ HandlerAt(c)'
  <2>1. Following(c) /\ ScreenAt(c) /\ WireAt(c) /\ HandlerAt(c)
    BY <1>0, <1>4 DEF Sound, Following
  <2>2. /\ Got(c)' = Got(c) /\ Sent(c)' = Sent(c) /\ Base(c)' = Base(c)
        /\ Replayed(c)' = Replayed(c) /\ Shown(c)' = Shown(c) /\ Held(c)' = Held(c)
        /\ OnWire(c)' = OnWire(c) /\ Unsent(c)' = Unsent(c) /\ Serving(c)' = Serving(c)
        /\ Start(c)' = Start(c) /\ Upto(c)' = Upto(c) /\ Queued(c)' = Queued(c)
        /\ \A k : Item(c, k)' = Item(c, k)
    BY <1>0, <1>1 DEF Got, Sent, Base, Replayed, Shown, Held, OnWire, Unsent, Queued, Item,
                      Start, Upto, Serving
  <2>3. ScreenAt(c)'  BY <1>0, <2>1, <2>2 DEF ScreenAt
  <2>4. WireAt(c)'
    <3>1. \A i : ~Farewell(c, i)  BY <1>0 DEF Farewell
    <3> QED BY <1>0, <2>1, <2>2, <3>1 DEF WireAt
  <2>5. HandlerAt(c)'
    <3>1. c \notin behind /\ Serving(c) => srv[c].sub  BY <1>0 DEF Sound, Handles
    <3> QED BY <1>0, <1>1, <2>1, <2>2, <3>1 DEF HandlerAt
  <2> QED BY <2>3, <2>4, <2>5
<1> QED BY <1>2, <1>3, <1>4 DEF Sound

LEMMA DeathSound ==
  ASSUME Typed, NEW c \in Clients, Sound(c), DaemonDies
  PROVE  Sound(c)'
<1>0. /\ shell = "running" /\ shell' = "lost" /\ srv'[c] = IdleSrv
      /\ UNCHANGED <<printed, wire, scr, from, behind, typed>>
  BY DEF DaemonDies
<1>1. srv'[c].pc = "none" /\ ~srv'[c].sub /\ ~srv'[c].closed  BY <1>0 DEF IdleSrv
<1>2. Before(c)' /\ Placed(c)' /\ Replies(c)' /\ Handles(c)'
  BY <1>0, <1>1 DEF Sound, Before, Placed, Replies, Handles, Serving, Start, Upto
<1>3. ASSUME Following(c)'  PROVE ScreenAt(c)' /\ WireAt(c)' /\ HandlerAt(c)'
  <2>1. Following(c) /\ ScreenAt(c) /\ WireAt(c)
    BY <1>0, <1>3 DEF Sound, Following
  <2>2. Serving(c) \/ srv[c] = IdleSrv
    <3>1. srv[c] \in Handlers /\ srv[c].pc # "serve"  BY <2>1 DEF Sound, Placed, Following, Typed
    <3> QED BY <3>1 DEF Sound, Handles, Serving, Handlers
  <2>3. ScreenAt(c)'
    BY <1>0, <2>1 DEF ScreenAt, Shown, Held, Start, Upto, Replayed
  <2> QED BY <1>0, <2>1, <2>2, <2>3, HandlerGone
<1> QED BY <1>2, <1>3 DEF Sound

-----------------------------------------------------------------------------
LEMMA InitSound == ASSUME Init PROVE IInv
<1> SUFFICES ASSUME NEW c \in Clients  PROVE Sound(c)
  BY DEF IInv
<1>1. /\ srv[c] = IdleSrv /\ wire[c] = <<>> /\ scr[c] = IdleScr /\ from[c] = Nil
      /\ behind = {} /\ typed[c] = {} /\ shell = "running"
  BY DEF Init
<1>2. Before(c) /\ Handles(c)  BY <1>1 DEF Before, Handles, Serving, IdleSrv, IdleScr
<1> QED BY <1>1, <1>2 DEF Sound, Placed, Replies, Following

\* What a client or its handler does is of no concern to the others.
LEMMA OthersStill ==
  ASSUME Typed, NEW c \in Clients, NEW d \in Clients, d # c,
         Handler(c) \/ Dial(c) \/ Reader(c) \/ TakeReply(c) \/ Close(c)
  PROVE  /\ UNCHANGED <<srv[d], scr[d], wire[d], conn[d], from[d], typed[d], shell, printed>>
         /\ (d \in behind') = (d \in behind)
<1>1. CASE Serve(c)  BY <1>1 DEF Serve, Typed, shellVars
<1>2. CASE SendReplay(c)  BY <1>2 DEF SendReplay, Send, Typed, shellVars
<1>3. CASE Forward(c)  BY <1>3 DEF Forward, Send, Typed, shellVars
<1>4. CASE Finish(c)  BY <1>4 DEF Finish, Typed, shellVars
<1>5. CASE Dial(c)  BY <1>5 DEF Dial, Typed, shellVars
<1>6. CASE Gather(c)  BY <1>6 DEF Gather, EndWith, Typed, shellVars
<1>7. CASE ShowReplay(c)  BY <1>7 DEF ShowReplay, Typed, shellVars
<1>8. CASE EndReplay(c)  BY <1>8 DEF EndReplay, Typed, shellVars
<1>9. CASE ShowLive(c)  BY <1>9 DEF ShowLive, WebAnswer, Typed, shellVars
<1>10. CASE TakeReply(c)  BY <1>10 DEF TakeReply, Typed, shellVars
<1>11. CASE StreamEnds(c)  BY <1>11 DEF StreamEnds, EndWith, Typed, shellVars
<1>12. CASE Close(c)  BY <1>12 DEF Close, EndWith, Typed, shellVars
<1>13. CASE RelayEnds(c)  BY <1>13 DEF RelayEnds, EndWith, Typed, shellVars
<1> QED BY <1>1, <1>2, <1>3, <1>4, <1>5, <1>6, <1>7, <1>8, <1>9, <1>10, <1>11, <1>12, <1>13
      DEF Handler, Reader

LEMMA StepSound == ASSUME Typed, IInv, [Next]_vars PROVE IInv'
<1> SUFFICES ASSUME NEW d \in Clients  PROVE Sound(d)'
  BY DEF IInv
<1>0. Sound(d)  BY DEF IInv
<1>1. CASE UNCHANGED vars  BY <1>0, <1>1, Still DEF vars, shellVars
<1>2. CASE ShellWrites  BY <1>0, <1>2, Still DEF ShellWrites
<1>3. CASE Broadcast  BY <1>0, <1>3, BroadcastSound
<1>4. CASE ShellExits  BY <1>0, <1>4, ExitSound
<1>5. CASE DaemonDies  BY <1>0, <1>5, DeathSound
<1>6. ASSUME NEW c \in Clients, Handler(c) \/ Dial(c) \/ Reader(c) \/ TakeReply(c) \/ Close(c)
      PROVE  Sound(d)'
  <2>1. CASE d # c  BY <1>0, <1>6, <2>1, OthersStill, Still
  <2>2. CASE d = c
    BY <1>0, <1>6, <2>2, ServeSound, HandlerSound, FinishSound, DialSound, GatherSound,
       ShowReplaySound, EndReplaySound, ShowLiveSound, TakeReplySound, LeaveSound
       DEF Handler, Reader
  <2> QED BY <2>1, <2>2
<1> QED BY <1>1, <1>2, <1>3, <1>4, <1>5, <1>6 DEF Next

-----------------------------------------------------------------------------
(* The promise, and what the runs check.                                    *)

\* What TerminalView calls the start and the end of a view.
Began(c) == IF from[c] = Nil THEN Nil ELSE from[c].after
Fate(c) ==
  IF scr[c].pc = "leaving" THEN "left"
  ELSE IF scr[c].pc \in {"told", "cut", "left"} /\ from[c] # Nil THEN scr[c].pc
  ELSE "no"

LEMMA ViewIs ==
  /\ View!Init <=> /\ printed = 0 /\ shell = "running"
                   /\ [c \in Clients |-> Began(c)] = [c \in Clients |-> Nil]
                   /\ [c \in Clients |-> scr[c].seen] = [c \in Clients |-> <<>>]
                   /\ behind = {} /\ [c \in Clients |-> Fate(c)] = [c \in Clients |-> "no"]
BY DEF View!Init, Began, Fate

LEMMA SameView ==
  ASSUME UNCHANGED <<printed, shell, from, behind>>,
         \A d \in Clients : scr'[d].seen = scr[d].seen /\ Fate(d)' = Fate(d)
  PROVE  UNCHANGED View!vars
<1>1. [d \in Clients |-> scr[d].seen]' = [d \in Clients |-> scr[d].seen]  OBVIOUS
<1>2. [d \in Clients |-> Fate(d)]' = [d \in Clients |-> Fate(d)]  OBVIOUS
<1>3. [d \in Clients |-> Began(d)]' = [d \in Clients |-> Began(d)]  BY DEF Began
<1> QED BY <1>1, <1>2, <1>3 DEF View!vars, Began, Fate

LEMMA ViewOpens ==
  ASSUME NEW c \in Clients, NEW n \in 0..printed, shell = "running", Began(c) = Nil,
         \A d \in Clients : Began(d)' = IF d = c THEN n ELSE Began(d),
         \A d \in Clients : Fate(d)' = Fate(d),
         UNCHANGED <<printed, shell, scr, behind>>
  PROVE  View!Open(c)
<1>1. [d \in Clients |-> Fate(d)]' = [d \in Clients |-> Fate(d)]  OBVIOUS
<1>2. [d \in Clients |-> Began(d)]' = [[d \in Clients |-> Began(d)] EXCEPT ![c] = n]  OBVIOUS
<1>3. [d \in Clients |-> scr[d].seen]' = [d \in Clients |-> scr[d].seen]  OBVIOUS
<1> QED BY <1>1, <1>2, <1>3 DEF View!Open, Began, Fate

LEMMA ViewShows ==
  ASSUME NEW c \in Clients, NEW p, Began(c) # Nil, Fate(c) = "no",
         p = Began(c) + Len(scr[c].seen) + 1, p <= printed,
         \A d \in Clients : scr'[d].seen = IF d = c THEN Append(scr[c].seen, p) ELSE scr[d].seen,
         \A d \in Clients : Fate(d)' = Fate(d),
         UNCHANGED <<printed, shell, from, behind>>
  PROVE  View!Show(c)
<1>1. [d \in Clients |-> Fate(d)]' = [d \in Clients |-> Fate(d)]  OBVIOUS
<1>2. [d \in Clients |-> Began(d)]' = [d \in Clients |-> Began(d)]  BY DEF Began
<1>3. [d \in Clients |-> scr[d].seen]'
        = [[d \in Clients |-> scr[d].seen] EXCEPT ![c] = Append(scr[c].seen, p)]
  OBVIOUS
<1> QED BY <1>1, <1>2, <1>3 DEF View!Show, Began, Fate

LEMMA ViewEnds ==
  ASSUME NEW c \in Clients, NEW how, Began(c) # Nil, Fate(c) = "no",
         \A d \in Clients : Fate(d)' = IF d = c THEN how ELSE Fate(d),
         \A d \in Clients : scr'[d].seen = scr[d].seen,
         UNCHANGED <<printed, shell, from, behind>>
  PROVE  /\ how = "left" => View!Leave(c)
         /\ how = "cut" /\ (c \in behind \/ shell = "lost") => View!Cut(c)
         /\ how = "told" /\ shell = "exited"
              /\ (c \in behind \/ Began(c) + Len(scr[c].seen) = printed) => View!Tell(c)
<1>1. [d \in Clients |-> Fate(d)]' = [[d \in Clients |-> Fate(d)] EXCEPT ![c] = how]  OBVIOUS
<1>2. [d \in Clients |-> Began(d)]' = [d \in Clients |-> Began(d)]  BY DEF Began
<1>3. [d \in Clients |-> scr[d].seen]' = [d \in Clients |-> scr[d].seen]  OBVIOUS
<1> QED BY <1>1, <1>2, <1>3 DEF View!Leave, View!Cut, View!Tell, Began, Fate

\* An emulator or relay that ends as a view ends.
LEMMA EndsAs ==
  ASSUME Typed, NEW c \in Clients, NEW how \in {"told", "cut", "left", "refused"},
         EndWith(c, how), from' = from
  PROVE  /\ \A d \in Clients : scr'[d].seen = scr[d].seen
         /\ \A d \in Clients :
              Fate(d)' = IF d = c THEN (IF how # "refused" /\ from[c] # Nil THEN how ELSE "no")
                                  ELSE Fate(d)
<1>1. scr[c] \in Screens
      /\ scr' = [scr EXCEPT ![c] = [scr[c] EXCEPT !.pc = how, !.buf = <<>>, !.hand = Nil]]
  BY DEF Typed, EndWith
<1>2. \A d \in Clients : d # c => scr'[d] = scr[d]  BY <1>1 DEF Typed
<1>3. scr'[c] = [scr[c] EXCEPT !.pc = how, !.buf = <<>>, !.hand = Nil]  BY <1>1 DEF Typed
<1>5. scr[c] \in Screens  BY <1>1
<1>4. scr'[c].seen = scr[c].seen /\ scr'[c].pc = how  BY <1>3, <1>5 DEF Screens
<1> QED BY <1>2, <1>4 DEF Fate

\* The screen of one client changes, neither what it has shown nor how it ended.
LEMMA ScreenOnly ==
  ASSUME Typed, NEW c \in Clients, NEW v \in Screens, scr' = [scr EXCEPT ![c] = v],
         v.seen = scr[c].seen,
         v.pc = scr[c].pc \/ {v.pc, scr[c].pc} \cap {"leaving", "told", "cut", "left"} = {},
         UNCHANGED <<printed, shell, from, behind>>
  PROVE  UNCHANGED View!vars
<1>1. \A d \in Clients : d # c => scr'[d] = scr[d]  BY DEF Typed
<1>2. scr'[c] = v  BY DEF Typed
<1>3. Fate(c)' = Fate(c)
  <2>1. CASE v.pc = scr[c].pc  BY <1>2, <2>1 DEF Fate
  <2>2. CASE {v.pc, scr[c].pc} \cap {"leaving", "told", "cut", "left"} = {}
    <3>1. v.pc \notin {"leaving", "told", "cut", "left"}
          /\ scr[c].pc \notin {"leaving", "told", "cut", "left"}
      BY <2>2
    <3> QED BY <1>2, <3>1 DEF Fate
  <2> QED BY <2>1, <2>2
<1>4. \A d \in Clients : scr'[d].seen = scr[d].seen /\ Fate(d)' = Fate(d)
  BY <1>1, <1>2, <1>3 DEF Fate
<1> QED BY <1>4, SameView

\* The daemon's side of an attachment shows only in the opening of a view.
LEMMA HandlerView ==
  ASSUME Typed, IInv, NEW c \in Clients, Handler(c)
  PROVE  View!Open(c) \/ UNCHANGED View!vars
<1>1. CASE Serve(c) /\ shell = "running" /\ UNCHANGED <<wire, conn>>
           /\ from' = [from EXCEPT ![c] = [after |-> ReplayStart, upto |-> printed]]
  <2>1. Sound(c) /\ srv[c].pc = "serve" /\ UNCHANGED <<printed, shell, scr, behind>>
    BY <1>1 DEF IInv, Serve, shellVars
  <2>2. from[c] = Nil /\ scr[c].pc = "attach"  BY <2>1 DEF Sound, Placed, Before
  <2>3. ReplayStart \in 0..printed /\ ReplayStart \in Nat /\ printed \in Nat
    BY ReplayWithin, Tape DEF Typed
  <2>4. /\ from'[c] = [after |-> ReplayStart, upto |-> printed]
        /\ \A d \in Clients : d # c => from'[d] = from[d]
    BY <1>1 DEF Typed
  <2> HIDE DEF ReplayStart
  <2>5. from'[c] # Nil /\ from'[c].after = ReplayStart  BY <2>3, <2>4, NilIsNoPlace
  <2>6. \A d \in Clients : Began(d)' = IF d = c THEN ReplayStart ELSE Began(d)
    BY <2>4, <2>5 DEF Began
  <2>7. \A d \in Clients : Fate(d)' = Fate(d)  BY <2>1, <2>2, <2>4 DEF Fate
  <2>8. Began(c) = Nil  BY <2>2 DEF Began
  <2> QED BY <1>1, <2>1, <2>3, <2>6, <2>7, <2>8, ViewOpens
<1>2. CASE UNCHANGED <<printed, shell, scr, from, behind>>  BY <1>2, SameView DEF Fate
<1> QED BY <1>1, <1>2 DEF Handler, Serve, SendReplay, Forward, Finish, shellVars

LEMMA CutView ==
  ASSUME Typed, NEW c \in Clients, Sound(c), Following(c), Drained(c), EndWith(c, "cut"),
         UNCHANGED <<printed, shell, from, behind>>
  PROVE  View!Cut(c)
<1>1. from[c] # Nil /\ Fate(c) = "no"  BY DEF Following, Fate
<1>2. c \in behind \/ shell = "lost"  BY DEF Sound, WireAt, Drained
<1>3. Began(c) # Nil
  <2>1. from[c] \in Places /\ from[c].after \in Nat  BY <1>1, Facts DEF Start
  <2> QED BY <1>1, <2>1, NilIsNoPlace DEF Began
<1>4. /\ \A d \in Clients : scr'[d].seen = scr[d].seen
      /\ \A d \in Clients : Fate(d)' = IF d = c THEN "cut" ELSE Fate(d)
  BY <1>1, EndsAs
<1> QED BY <1>1, <1>2, <1>3, <1>4, ViewEnds

\* Gathering a replay shows nothing; a connection lost meanwhile cuts the view.
LEMMA GatherView ==
  ASSUME Typed, IInv, NEW c \in Clients, Gather(c)
  PROVE  View!Cut(c) \/ UNCHANGED View!vars
<1>0. /\ scr[c] \in Screens /\ scr[c].pc = "attach" /\ Sound(c) /\ scr[c].buf \in Seq(Positions)
      /\ UNCHANGED <<printed, shell, from, behind>>
  BY Facts DEF Gather, IInv, shellVars
<1>1. CASE Arrives(c, "output")
           /\ scr' = [scr EXCEPT ![c].buf = Append(@, Head(wire[c]).at)]
  <2>1. wire[c] \in Seq(Frames) /\ wire[c] # <<>> /\ Head(wire[c]).typ = "output"
    BY <1>1, Facts DEF Arrives
  <2>2. Head(wire[c]) \in Frames  BY <2>1, Taken
  <2>3. Head(wire[c]).at \in Positions  BY <2>1, <2>2, FrameKinds
  <2> DEFINE v == [scr[c] EXCEPT !.buf = Append(scr[c].buf, Head(wire[c]).at)]
  <2>4. Append(scr[c].buf, Head(wire[c]).at) \in Seq(Positions)  BY <1>0, <2>3, Added
  <2>5. v \in Screens /\ v.seen = scr[c].seen /\ v.pc = scr[c].pc  BY <1>0, <2>4 DEF Screens
  <2>6. scr' = [scr EXCEPT ![c] = v]  BY <1>1 DEF Typed
  <2> HIDE DEF v
  <2> QED BY <1>0, <2>5, <2>6, ScreenOnly
<1>2. CASE scr' = [scr EXCEPT ![c].pc = IF scr[c].buf = <<>> THEN "live" ELSE "replay",
                              ![c].skip = DropsReplies(c)]
  <2> DEFINE v == [scr[c] EXCEPT !.pc = IF scr[c].buf = <<>> THEN "live" ELSE "replay",
                                 !.skip = DropsReplies(c)]
  <2>1. DropsReplies(c) \in BOOLEAN  BY DEF DropsReplies
  <2>2. v \in Screens /\ v.seen = scr[c].seen /\ v.pc \in {"live", "replay"}
    BY <1>0, <2>1 DEF Screens
  <2>3. scr' = [scr EXCEPT ![c] = v]  BY <1>2 DEF Typed
  <2> HIDE DEF v
  <2> QED BY <1>0, <2>2, <2>3, ScreenOnly
<1>3. CASE EndWith(c, "refused") \/ (EndWith(c, "refused") /\ from[c] = Nil)
  <2>1. EndWith(c, "refused")  BY <1>3
  <2>2. Fate(c) = "no"  BY <1>0 DEF Fate
  <2> QED BY <1>0, <2>1, <2>2, EndsAs, SameView
<1>4. CASE Drained(c) /\ EndWith(c, "cut") /\ from[c] # Nil
  BY <1>0, <1>4, CutView DEF Following
<1>5. CASE Drained(c) /\ EndWith(c, IF from[c] = Nil THEN "refused" ELSE "cut")
  BY <1>3, <1>4, <1>5
<1> QED BY <1>1, <1>2, <1>3, <1>5 DEF Gather

\* The replay and the live bytes show what follows what is shown.
LEMMA ShowView ==
  ASSUME Typed, IInv, NEW c \in Clients, ShowReplay(c) \/ ShowLive(c)
  PROVE  View!Show(c)
<1>0. /\ Sound(c) /\ scr[c].pc \in {"replay", "live"} /\ Fate(c) = "no"
      /\ UNCHANGED <<printed, shell, from, behind>>
  BY DEF ShowReplay, ShowLive, IInv, shellVars, Fate
<1>1. /\ from[c] # Nil /\ Start(c) \in Nat /\ Shown(c) \in Nat /\ Held(c) \in Nat
      /\ Upto(c) \in Nat /\ printed \in Nat /\ from[c] \in Places /\ Following(c)
  BY <1>0, Facts DEF Sound, Before, Following
<1>2. Began(c) # Nil /\ Began(c) = Start(c)
  BY <1>1, NilIsNoPlace DEF Began, Start
<1>3. ASSUME NEW p \in Positions, p = Start(c) + Shown(c) + 1, p <= printed,
             NEW v, scr' = [scr EXCEPT ![c] = v],
             v.pc = scr[c].pc, v.seen = Append(scr[c].seen, p)
      PROVE  View!Show(c)
  <2>1. scr'[c] = v /\ \A d \in Clients : d # c => scr'[d] = scr[d]  BY <1>3 DEF Typed
  <2>2. \A d \in Clients : scr'[d].seen = IF d = c THEN Append(scr[c].seen, p) ELSE scr[d].seen
    <3>1. scr'[c].seen = Append(scr[c].seen, p)  BY <1>3, <2>1
    <3>2. \A d \in Clients : d # c => scr'[d].seen = scr[d].seen  BY <2>1
    <3> QED BY <3>1, <3>2
  <2>3. \A d \in Clients : Fate(d)' = Fate(d)  BY <1>0, <1>3, <2>1 DEF Fate
  <2>4. p = Began(c) + Len(scr[c].seen) + 1  BY <1>2, <1>3 DEF Shown
  <2> QED BY <1>0, <1>2, <1>3, <2>2, <2>3, <2>4, ViewShows
<1>4. CASE ShowReplay(c)
  <2> DEFINE p == Head(scr[c].buf)
             v == [Parsed(c, p) EXCEPT !.buf = Tail(@)]
  <2>1. /\ scr[c].buf \in Seq(Positions) /\ scr[c].buf # <<>> /\ scr[c].pc = "replay"
        /\ scr' = [scr EXCEPT ![c] = v]
    BY <1>4, Facts DEF ShowReplay
  <2>2. p \in Positions /\ p = scr[c].buf[1] /\ Held(c) > 0  BY <2>1, Taken DEF Held
  <2>3. Parsed(c, p) \in Screens /\ Parsed(c, p).pc = scr[c].pc
        /\ Parsed(c, p).seen = Append(scr[c].seen, p)
    BY <2>2, ParsedIs
  <2>4. v.pc = scr[c].pc /\ v.seen = Append(scr[c].seen, p)  BY <2>3 DEF Screens
  <2> HIDE DEF p, v
  <2>5. ScreenAt(c) /\ Start(c) <= Upto(c) /\ Upto(c) <= printed
    BY <1>0, <1>1 DEF Sound, Placed
  <2>6. 1 \in 1..Held(c)  BY <1>1, <2>2
  <2>7. p = Start(c) + Shown(c) + 1  BY <2>2, <2>5, <2>6 DEF ScreenAt
  <2>8. Shown(c) + Held(c) = Upto(c) - Start(c)  BY <2>1, <2>5 DEF ScreenAt, Replayed
  <2>9. p <= printed  BY <1>1, <2>2, <2>5, <2>7, <2>8
  <2> QED BY <1>3, <2>1, <2>2, <2>4, <2>7, <2>9
<1>5. CASE ShowLive(c)
  <2> DEFINE p == wire[c][1].at
  <2>1. /\ wire[c] \in Seq(Frames) /\ wire[c] # <<>> /\ scr[c].pc = "live"
        /\ Head(wire[c]).typ = "output" /\ scr' = [scr EXCEPT ![c] = Parsed(c, Head(wire[c]).at)]
    BY <1>5, Facts DEF ShowLive, Arrives
  <2>2. Head(wire[c]) = wire[c][1]  BY <2>1, Taken
  <2>3. p \in Positions /\ p = Start(c) + Shown(c) + 1 /\ p <= printed
    BY <1>0, <2>1, <2>2, LiveByte
  <2>4. scr' = [scr EXCEPT ![c] = Parsed(c, p)]  BY <2>1, <2>2
  <2> HIDE DEF p
  <2>5. Parsed(c, p).pc = scr[c].pc /\ Parsed(c, p).seen = Append(scr[c].seen, p)
    BY <2>3, ParsedIs
  <2> QED BY <1>3, <2>3, <2>4, <2>5
<1> QED BY <1>4, <1>5

\* The stream ends with the exit after all output, or with a cut.
LEMMA StreamEndsView ==
  ASSUME Typed, IInv, NEW c \in Clients, StreamEnds(c)
  PROVE  View!Tell(c) \/ View!Cut(c)
<1>0. /\ Sound(c) /\ scr[c].pc = "live" /\ UNCHANGED <<printed, shell, from, behind>>
  BY DEF StreamEnds, IInv, shellVars
<1>1. /\ from[c] # Nil /\ Following(c) /\ Fate(c) = "no" /\ from[c] \in Places
      /\ Start(c) \in Nat /\ Shown(c) \in Nat /\ wire[c] \in Seq(Frames) /\ Got(c) \in Nat
      /\ printed \in Nat /\ OnWire(c) \in Nat
  BY <1>0, Facts DEF Sound, Before, Following, Fate
<1>2. CASE Drained(c) /\ EndWith(c, "cut")  BY <1>0, <1>1, <1>2, CutView
<1>3. CASE Arrives(c, "exit") /\ EndWith(c, "told")
  <2>1. wire[c] # <<>> /\ Head(wire[c]).typ = "exit" /\ Head(wire[c]) = wire[c][1]
        /\ OnWire(c) > 0
    BY <1>1, <1>3, Taken DEF Arrives, OnWire
  <2>2. 1 \in 1..OnWire(c)  BY <1>1, <2>1
  <2>3. Item(c, Got(c) + 1).typ \in {"output", "done"}  BY DEF Item, Byte, Control
  <2>4. Farewell(c, 1)  BY <1>0, <1>1, <2>1, <2>2, <2>3 DEF Sound, WireAt
  <2>5. Got(c) = Shown(c) + 1
    <3>1. Held(c) = 0  BY <1>0, <1>1, EmptyLength DEF Sound, ScreenAt, Held
    <3> QED BY <1>0, <1>1, <3>1 DEF Got
  <2>6. shell = "exited" /\ (c \in behind \/ Start(c) + (Got(c) + 1) = printed + 2)
    BY <2>4 DEF Farewell
  <2>7. c \in behind \/ Start(c) + Shown(c) = printed  BY <1>1, <2>5, <2>6
  <2>8. Began(c) # Nil /\ Began(c) = Start(c)  BY <1>1, NilIsNoPlace DEF Began, Start
  <2>9. c \in behind \/ Began(c) + Len(scr[c].seen) = printed  BY <2>7, <2>8 DEF Shown
  <2>10. /\ \A d \in Clients : scr'[d].seen = scr[d].seen
         /\ \A d \in Clients : Fate(d)' = IF d = c THEN "told" ELSE Fate(d)
    BY <1>0, <1>1, <1>3, EndsAs
  <2> QED BY <1>0, <1>1, <2>6, <2>8, <2>9, <2>10, ViewEnds
<1> QED BY <1>2, <1>3 DEF StreamEnds

\* The user closes the view: it has left, whenever its relay ends.
LEMMA LeaveView ==
  ASSUME Typed, IInv, NEW c \in Clients, Close(c)
  PROVE  View!Leave(c)
<1>0. /\ Sound(c) /\ scr[c].pc \in {"replay", "live"} /\ scr[c] \in Screens
      /\ UNCHANGED <<printed, shell, from, behind>>
  BY Facts DEF Close, IInv, shellVars
<1>1. from[c] # Nil /\ Fate(c) = "no" /\ from[c] \in Places /\ Start(c) \in Nat
  BY <1>0, Facts DEF Sound, Before, Fate
<1>2. Began(c) # Nil  BY <1>1, NilIsNoPlace DEF Began, Start
<1>3. /\ \A d \in Clients : scr'[d].seen = scr[d].seen
      /\ \A d \in Clients : Fate(d)' = IF d = c THEN "left" ELSE Fate(d)
  <2>1. CASE scr' = [scr EXCEPT ![c].pc = "leaving"]
    <3>1. scr'[c] = [scr[c] EXCEPT !.pc = "leaving"] /\ \A d \in Clients : d # c => scr'[d] = scr[d]
      BY <2>1 DEF Typed
    <3>2. scr'[c].pc = "leaving" /\ scr'[c].seen = scr[c].seen  BY <1>0, <3>1 DEF Screens
    <3> QED BY <1>0, <3>1, <3>2 DEF Fate
  <2>2. CASE EndWith(c, "left")  BY <1>0, <1>1, <2>2, EndsAs
  <2> QED BY <2>1, <2>2 DEF Close
<1> QED BY <1>0, <1>1, <1>2, <1>3, ViewEnds

\* What is left shows nothing and ends nothing.
LEMMA QuietView ==
  ASSUME Typed, IInv, NEW c \in Clients,
         Dial(c) \/ EndReplay(c) \/ TakeReply(c) \/ RelayEnds(c)
  PROVE  UNCHANGED View!vars
<1>0. /\ Sound(c) /\ scr[c] \in Screens /\ UNCHANGED <<printed, shell, from, behind>>
  BY Facts DEF Dial, EndReplay, TakeReply, RelayEnds, IInv, shellVars
<1>1. CASE Dial(c)
  <2> DEFINE v == [scr[c] EXCEPT !.pc = "attach"]
  <2>1. scr[c].pc = "off" /\ scr' = [scr EXCEPT ![c] = v]  BY <1>1 DEF Dial, Typed
  <2>2. v \in Screens /\ v.seen = scr[c].seen /\ v.pc = "attach"  BY <1>0 DEF Screens
  <2> HIDE DEF v
  <2> QED BY <1>0, <2>1, <2>2, ScreenOnly
<1>2. CASE EndReplay(c)
  <2> DEFINE v == [scr[c] EXCEPT !.pc = "live", !.hand = IF c \in Web THEN Nil ELSE Marker]
  <2>1. scr[c].pc = "replay" /\ scr' = [scr EXCEPT ![c] = v]  BY <1>2 DEF EndReplay, Typed
  <2>2. v \in Screens /\ v.seen = scr[c].seen /\ v.pc = "live"  BY <1>0 DEF Screens
  <2> HIDE DEF v
  <2> QED BY <1>0, <2>1, <2>2, ScreenOnly
<1>3. CASE TakeReply(c)
  <2>1. CASE scr' = [scr EXCEPT ![c] = [@ EXCEPT !.hand = Nil, !.skip = scr[c].hand # Marker]]
    <3> DEFINE v == [scr[c] EXCEPT !.hand = Nil, !.skip = scr[c].hand # Marker]
    <3>1. scr' = [scr EXCEPT ![c] = v]  BY <2>1 DEF Typed
    <3>2. v \in Screens /\ v.seen = scr[c].seen /\ v.pc = scr[c].pc  BY <1>0 DEF Screens
    <3> HIDE DEF v
    <3> QED BY <1>0, <3>1, <3>2, ScreenOnly
  <2>2. CASE scr' = [scr EXCEPT ![c] = [@ EXCEPT !.hand = Nil, !.answers = conn[c] = "both"]]
    <3> DEFINE v == [scr[c] EXCEPT !.hand = Nil, !.answers = conn[c] = "both"]
    <3>1. scr' = [scr EXCEPT ![c] = v]  BY <2>2 DEF Typed
    <3>2. v \in Screens /\ v.seen = scr[c].seen /\ v.pc = scr[c].pc  BY <1>0 DEF Screens
    <3> HIDE DEF v
    <3> QED BY <1>0, <3>1, <3>2, ScreenOnly
  <2> QED BY <1>3, <2>1, <2>2 DEF TakeReply
<1>4. CASE RelayEnds(c)
  <2>1. scr[c].pc = "leaving" /\ EndWith(c, "left")  BY <1>4 DEF RelayEnds
  <2>2. from[c] # Nil  BY <1>0, <2>1 DEF Sound, Before
  <2>3. Fate(c) = "left"  BY <2>1 DEF Fate
  <2> QED BY <1>0, <2>1, <2>2, <2>3, EndsAs, SameView
<1> QED BY <1>1, <1>2, <1>3, <1>4

\* Every step of an attachment is a step TerminalView allows, or none at all.
LEMMA StepView ==
  ASSUME Typed, IInv, [Next]_vars
  PROVE  View!Next \/ UNCHANGED View!vars
<1>1. CASE UNCHANGED vars \/ ShellWrites
  <2>1. UNCHANGED <<printed, shell, scr, from, behind>>
    BY <1>1 DEF vars, shellVars, ShellWrites
  <2> QED BY <2>1, SameView DEF Fate
<1>2. CASE Broadcast
  <2>1. /\ shell = "running" /\ printed' = printed + 1 /\ behind \subseteq behind'
        /\ behind' \in SUBSET Clients /\ UNCHANGED <<shell, scr, from>>
    BY <1>2 DEF Broadcast, Typed
  <2>2. View!Emit  BY <2>1 DEF View!Emit
  <2> QED BY <2>2 DEF View!Next
<1>3. CASE ShellExits \/ DaemonDies
  <2>1. /\ shell = "running" /\ shell' \in {"exited", "lost"}
        /\ UNCHANGED <<printed, scr, from, behind>>
    BY <1>3 DEF ShellExits, DaemonDies
  <2>2. View!ShellEnds  BY <2>1 DEF View!ShellEnds
  <2> QED BY <2>2 DEF View!Next
<1>4. ASSUME NEW c \in Clients, Handler(c) \/ Dial(c) \/ Reader(c) \/ TakeReply(c) \/ Close(c)
      PROVE  View!Next \/ UNCHANGED View!vars
  <2>1. \/ View!Open(c) \/ View!Show(c) \/ View!Tell(c) \/ View!Cut(c) \/ View!Leave(c)
        \/ UNCHANGED View!vars
    BY <1>4, HandlerView, GatherView, ShowView, StreamEndsView, LeaveView, QuietView DEF Reader
  <2> QED BY <2>1 DEF View!Next
<1> QED BY <1>1, <1>2, <1>3, <1>4 DEF Next

LEMMA InitView == ASSUME Init PROVE View!Init
<1>1. \A c \in Clients : from[c] = Nil /\ scr[c] = IdleScr  BY DEF Init
<1>2. \A c \in Clients : Began(c) = Nil /\ scr[c].seen = <<>> /\ Fate(c) = "no"
  BY <1>1 DEF Began, Fate, IdleScr
<1> QED BY <1>2, ViewIs DEF Init

\* The state is well-formed and the invariant holds.
LEMMA SoundAlways == Spec => [](Typed /\ IInv)
<1>1. Typed /\ IInv /\ [Next]_vars => IInv'  BY StepSound
<1> QED BY <1>1, InitSound, StaysTyped, PTL DEF Spec

\* Attaching keeps the promise of TerminalView (ptyd/server.go attach and
\* broadcast, ptyd/client.go Attach): whatever the shell prints, whoever attaches,
\* lags, leaves or is left, what a client shows is the shell's output from one
\* point on, every byte once and in order across the seam of replay and live
\* output; it is cut off only if it fell behind or the daemon is lost, and hears
\* of the shell's exit after all the output.
THEOREM AttachKeepsView == Spec => ViewKept
<1>1. Init => View!Init  BY InitView
<1>2. Typed /\ IInv /\ [Next]_vars => [View!Next]_View!vars  BY StepView
<1> QED BY <1>1, <1>2, SoundAlways, PTL DEF Spec, ViewKept, View!Spec

LEMMA WellFormed == ASSUME Typed, IInv PROVE TypeOK
<1>1. MaxBuf \in Nat /\ SubBuffer \in Nat /\ Room \in Nat  BY AttachAssumption
<1>2. ASSUME NEW c \in Clients
      PROVE  /\ srv[c].pc \in {"none", "serve", "replay", "live"}
             /\ srv[c].replay \in BoundedSeq(Positions, MaxBuf)
             /\ srv[c].ch \in BoundedSeq(Positions, SubBuffer)
             /\ srv[c].sub => ~srv[c].closed /\ srv[c].pc \in {"replay", "live"}
             /\ wire[c] \in BoundedSeq(Frames, Room)
             /\ scr[c].pc \in {"off", "attach", "replay", "live", "leaving",
                               "left", "told", "cut", "refused"}
             /\ Range(scr[c].buf) \cup Range(scr[c].seen) \subseteq Positions
             /\ scr[c].hand \in Positions \cup {Marker, Nil}
             /\ scr[c].skip \in BOOLEAN /\ scr[c].answers \in BOOLEAN
             /\ from[c] # Nil => from[c] \in [after : 0..Len(tape), upto : 0..Len(tape)]
             /\ typed[c] \in SUBSET Positions
  <2>1. /\ srv[c] \in Handlers /\ scr[c] \in Screens /\ wire[c] \in Seq(Frames)
        /\ srv[c].replay \in Seq(Positions) /\ srv[c].ch \in Seq(Positions)
        /\ scr[c].buf \in Seq(Positions) /\ scr[c].seen \in Seq(Positions)
        /\ from[c] # Nil => from[c] \in Places /\ Start(c) \in Nat /\ Upto(c) \in Nat
    BY Facts
  <2>2. /\ Len(srv[c].replay) <= MaxBuf /\ Len(srv[c].ch) <= SubBuffer /\ Len(wire[c]) <= Room
        /\ typed[c] \subseteq Positions \cup {Marker}
    BY DEF Typed
  <2>3. Sound(c)  BY DEF IInv
  <2>4. Range(scr[c].buf) \subseteq Positions /\ Range(scr[c].seen) \subseteq Positions
    <3>1. ASSUME NEW s \in Seq(Positions)  PROVE Range(s) \subseteq Positions
      <4>1. DOMAIN s = 1..Len(s) /\ \A i \in 1..Len(s) : s[i] \in Positions
        BY ElementOfSeq, LenProperties
      <4> QED BY <4>1 DEF Range
    <3> QED BY <2>1, <3>1
  <2>5. typed[c] \in SUBSET Positions
    <3>1. CASE from[c] = Nil  BY <2>3, <3>1 DEF Sound, Before
    <3>2. CASE from[c] # Nil
      <4>1. \A p \in typed[c] : p > Upto(c)  BY <2>3, <3>2 DEF Sound, Replies
      <4>2. Upto(c) \in Nat  BY <2>1, <3>2
      <4>3. Marker \notin typed[c]  BY <4>1, <4>2 DEF Marker
      <4> QED BY <2>2, <4>3
    <3> QED BY <3>1, <3>2
  <2>6. /\ srv[c].replay \in BoundedSeq(Positions, MaxBuf)
        /\ srv[c].ch \in BoundedSeq(Positions, SubBuffer)
        /\ wire[c] \in BoundedSeq(Frames, Room)
    BY <1>1, <2>1, <2>2, Short
  <2>7. srv[c].sub => ~srv[c].closed /\ srv[c].pc \in {"replay", "live"}
    BY <2>3 DEF Sound, Handles, Serving
  <2> QED BY <2>1, <2>4, <2>5, <2>6, <2>7 DEF Handlers, Screens, Places
<1>3. typed \in [Clients -> SUBSET Positions]  BY <1>2 DEF Typed
<1> QED BY <1>2, <1>3 DEF Typed, TypeOK

LEMMA OnlyLiveReplies == ASSUME Typed, IInv PROVE RepliesAreLive
<1> SUFFICES ASSUME NEW c \in Clients, NEW p \in typed[c]
             PROVE  from[c] # Nil /\ p > from[c].upto
  BY DEF RepliesAreLive
<1>1. Sound(c)  BY DEF IInv
<1>2. from[c] # Nil  BY <1>1 DEF Sound, Before
<1> QED BY <1>1, <1>2 DEF Sound, Replies, Upto

\* No buffer of an attachment outgrows its bound (the replay, the subscription's
\* channel, the connection), and a terminal's answer to a query of the past is
\* never typed into the shell (tui/ptyterm/ptyterm.go and the web page).
THEOREM StreamsStaySound == Spec => []StreamsSound
<1>1. Typed /\ IInv => StreamsSound  BY WellFormed, OnlyLiveReplies DEF StreamsSound
<1> QED BY <1>1, SoundAlways, PTL

\* Outputs whose first bytes, and whose bytes after a newline, are not inside an
\* escape sequence or a rune.
Tidy ==
  \A t \in Tapes : \A p \in 1..Len(t) :
    p = 1 \/ t[p - 1] = "nl" => t[p] \notin {"seq", "cont"}

\* Where cleanStart starts a replay that is inside something, its window of the
\* cut buffer has no boundary.
LEMMA StartsClean ==
  ASSUME Tidy, Typed, ReplayStart + 1 <= printed, Inside(ReplayStart + 1)
  PROVE  \A p \in ((lo + 1)..(lo + Window)) \cap Positions :
           p <= printed => tape[p] \notin {"nl", "esc", "query"}
<1>0. /\ printed \in Nat /\ lo \in Nat /\ lo <= printed /\ Window \in Nat
      /\ Len(tape) \in Nat /\ printed <= Len(tape) /\ tape \in Tapes
  BY Tape, AttachAssumption DEF Typed
<1>1. tape[ReplayStart + 1] \in {"seq", "cont"}  BY DEF Inside
<1>2. CASE lo = 0
  <2>1. ReplayStart = 0  BY <1>2 DEF ReplayStart
  <2>2. 1 \in 1..Len(tape)  BY <1>0, <2>1
  <2> QED BY <1>0, <1>1, <2>1, <2>2 DEF Tidy
<1>3. CASE lo > 0
  <2> DEFINE top == IF printed - lo > Window THEN lo + Window ELSE printed
             w == (lo + 1)..top
             nls == {p \in w : tape[p] = "nl"}
             escs == {p \in w : tape[p] \in {"esc", "query"}}
             starts == {p \in w : tape[p] # "cont"}
  <2>1. ReplayStart = CASE nls # {} -> FirstOf(nls)
                        [] nls = {} /\ escs # {} -> FirstOf(escs) - 1
                        [] OTHER -> IF starts # {} THEN FirstOf(starts) - 1
                                                   ELSE lo + Cardinality(w)
    BY <1>0, <1>3 DEF ReplayStart, CleanStart, top
  <2>2. nls \in SUBSET Nat /\ escs \in SUBSET Nat  BY <1>0
  <2>3. CASE nls # {}
    <3>1. FirstOf(nls) \in nls /\ ReplayStart = FirstOf(nls)  BY <2>1, <2>2, <2>3, Smallest
    <3>2. ReplayStart \in Nat /\ tape[ReplayStart] = "nl"  BY <2>2, <3>1
    <3>3. ReplayStart + 1 \in 1..Len(tape) /\ (ReplayStart + 1) - 1 = ReplayStart
      BY <1>0, <3>2
    <3> QED BY <1>0, <1>1, <3>2, <3>3 DEF Tidy
  <2>4. CASE nls = {} /\ escs # {}
    <3>1. FirstOf(escs) \in escs /\ ReplayStart = FirstOf(escs) - 1
      BY <2>1, <2>2, <2>4, Smallest
    <3>2. FirstOf(escs) \in Nat /\ tape[FirstOf(escs)] \in {"esc", "query"}  BY <2>2, <3>1
    <3>3. ReplayStart + 1 = FirstOf(escs)  BY <3>1, <3>2
    <3> QED BY <1>1, <3>2, <3>3
  <2>5. CASE nls = {} /\ escs = {}
    <3> SUFFICES ASSUME NEW p \in ((lo + 1)..(lo + Window)) \cap Positions, p <= printed
                 PROVE  tape[p] \notin {"nl", "esc", "query"}
      OBVIOUS
    <3>1. p \in w  BY <1>0
    <3> QED BY <2>5, <3>1
  <2> QED BY <2>3, <2>4, <2>5
<1> QED BY <1>0, <1>2, <1>3

\* A replay of a cut scrollback starts neither within an escape sequence nor
\* within a rune, unless the window scrollback.go's cleanStart looks at has no
\* boundary; the outputs are taken to be tidy.
THEOREM ReplaysStartClean == ASSUME Tidy PROVE Spec => CleanReplay
<1>1. ASSUME Typed, IInv, [Next]_vars, NEW c \in Clients, from[c] = Nil, from'[c] # Nil,
             from'[c].after + 1 <= printed, Inside(from'[c].after + 1)
      PROVE  \A p \in ((lo + 1)..(lo + Window)) \cap Positions :
               p <= printed => tape[p] \notin {"nl", "esc", "query"}
  <2>1. Serve(c)
    <3>1. ~UNCHANGED from  BY <1>1
    <3>2. PICK d \in Clients : Serve(d)
      BY <1>1, <3>1 DEF Next, vars, shellVars, ShellWrites, Broadcast, ShellExits, DaemonDies,
         Handler, SendReplay, Forward, Finish, Dial, Reader, Gather, ShowReplay, EndReplay,
         ShowLive, StreamEnds, RelayEnds, TakeReply, Close
    <3>3. d = c  BY <1>1, <3>2 DEF Serve, Typed
    <3> QED BY <3>2, <3>3
  <2>2. from'[c] = [after |-> ReplayStart, upto |-> printed]  BY <1>1, <2>1 DEF Serve, Typed
  <2>3. from'[c].after = ReplayStart  BY <2>2
  <2> QED BY <1>1, <2>3, StartsClean
<1>2. Typed /\ IInv /\ [Next]_vars =>
        [\A c \in Clients :
           LET first == from'[c].after + 1
               w == (lo + 1)..(lo + Window)
           IN from[c] = Nil /\ from'[c] # Nil /\ first <= printed /\ Inside(first)
                => \A p \in w \cap Positions : p <= printed => tape[p] \notin {"nl", "esc", "query"}]_vars
  BY <1>1
<1> QED BY <1>2, SoundAlways, PTL DEF Spec, CleanReplay
=============================================================================
