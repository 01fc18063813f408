------------------------------ MODULE Trackers ------------------------------
(***************************************************************************)
(* What the server pushes to every browser tab and TUI: "Claude needs you" *)
(* badges (package attention, /ws/attention) and "open this file" requests *)
(* (package openfile, /ws/open-file).  The two fan out in the same way and *)
(* share nothing, so a behaviour follows one of them.                      *)
(***************************************************************************)
EXTENDS Naturals, Sequences, SequencesExt

CONSTANTS
  Worktrees, Requests,   \* Requests: hook and clear requests being served
  Clients,
  Buffer,                \* room in a subscriber's channel
  Room,                  \* room in the connection
  MaxPosts, MaxDrops     \* bounds


VARIABLES
  stream,   \* "attention" or "open"
  sleepy,   \* the clients that may stop reading
  pending,  \* Tracker.pending
  req,      \* a request between its change and its broadcast
  link,     \* "off", "new" (subscribed), or "on" (the snapshot is sent)
  chan,     \* the subscriber's channel
  wire,     \* what is written and not read
  shown,    \* the client's badges
  posts, drops,
  raced,    \* ghost: worktrees whose last two changes overlapped
  missed,   \* ghost: worktrees whose last change found a client's channel full
  since     \* ghost: how many opens a client's subscription came after

vars == <<stream, sleepy, pending, req, link, chan, wire, shown, posts, drops, raced, missed, since>>
links == <<sleepy, link, wire, shown, drops, since>>

Idle == [at |-> "idle"]
Event(w, on) == [kind |-> "update", wt |-> w, on |-> on]
Snapshot == [kind |-> "snapshot", set |-> pending]
Messages ==
  [kind : {"update"}, wt : Worktrees, on : BOOLEAN] \cup [kind : {"snapshot"}, set : SUBSET Worktrees]
    \cup [kind : {"open"}, n : 1..MaxPosts]

-----------------------------------------------------------------------------
ApplyMerging(badges, m) ==  \* mutant: a snapshot adds to the badges
  CASE m.kind = "snapshot" -> badges \cup m.set
    [] m.kind = "update" -> IF m.on THEN badges \cup {m.wt} ELSE badges \ {m.wt}
    [] OTHER -> badges
Apply(badges, m) ==
  CASE m.kind = "snapshot" -> m.set
    [] m.kind = "update" -> IF m.on THEN badges \cup {m.wt} ELSE badges \ {m.wt}
    [] OTHER -> badges

Init ==
  /\ stream \in {"attention", "open"} /\ sleepy \in SUBSET Clients
  /\ pending = {} /\ req = [r \in Requests |-> Idle]
  /\ link = [c \in Clients |-> "off"]
  /\ chan = [c \in Clients |-> <<>>] /\ wire = [c \in Clients |-> <<>>]
  /\ shown = [c \in Clients |-> {}]
  /\ posts = 0 /\ drops = 0
  /\ raced = {} /\ missed = [c \in Clients |-> {}] /\ since = [c \in Clients |-> 0]

\* The changes of w that are made and not yet told.
InFlight(w) == {r \in Requests : req[r].at = "tell" /\ req[r].wt = w}

\* SetPending (on) or Clear, up to its first unlock.
Change(r, w, on) ==
  /\ stream = "attention" /\ posts < MaxPosts /\ req[r] = Idle
  /\ pending' = IF on THEN pending \cup {w} ELSE pending \ {w}
  /\ req' = [req EXCEPT ![r] = [at |-> "tell", wt |-> w, on |-> on]]
  /\ raced' = IF InFlight(w) = {} THEN raced \ {w} ELSE raced \cup {w}
  /\ posts' = posts + 1
  /\ UNCHANGED <<stream, chan, missed, links>>

\* The hook of a claude session that waits for its user, and a client that opens
\* the worktree.
Notify(r, w) == Change(r, w, TRUE)
Dismiss(r, w) == Change(r, w, FALSE)

Listening == {c \in Clients : link[c] # "off"}
HasRoom(c) == Len(chan[c]) < Buffer

\* What is sent to a full channel is dropped.
Send(m) ==
  chan' = [c \in Clients |-> IF c \in Listening /\ HasRoom(c) THEN Append(chan[c], m) ELSE chan[c]]

Tell(r) ==
  /\ req[r].at = "tell"
  /\ Send(Event(req[r].wt, req[r].on))
  /\ missed' = [c \in Clients |-> IF c \in Listening /\ ~HasRoom(c) THEN missed[c] \cup {req[r].wt}
                                  ELSE missed[c] \ {req[r].wt}]
  /\ req' = [req EXCEPT ![r] = Idle]
  /\ UNCHANGED <<stream, pending, posts, raced, links>>

Publish(n) == Send([kind |-> "open", n |-> n])
\* wts open-file: told at once, to whoever is there.
OpenFile ==
  /\ stream = "open" /\ posts < MaxPosts
  /\ Publish(posts + 1)
  /\ posts' = posts + 1
  /\ UNCHANGED <<stream, pending, req, raced, missed, links>>

-----------------------------------------------------------------------------
SubscribeAgain(c) ==  \* mutant: the channel of the last connection is used again
  /\ link[c] = "off"
  /\ link' = [link EXCEPT ![c] = IF stream = "attention" THEN "new" ELSE "on"]
  /\ missed' = [missed EXCEPT ![c] = {}] /\ since' = [since EXCEPT ![c] = posts]
  /\ UNCHANGED <<stream, sleepy, pending, req, chan, wire, shown, posts, drops, raced>>
Subscribe(c) ==
  /\ link[c] = "off"
  /\ link' = [link EXCEPT ![c] = IF stream = "attention" THEN "new" ELSE "on"]
  /\ chan' = [chan EXCEPT ![c] = <<>>]
  /\ missed' = [missed EXCEPT ![c] = {}] /\ since' = [since EXCEPT ![c] = posts]
  /\ UNCHANGED <<stream, sleepy, pending, req, wire, shown, posts, drops, raced>>

SendSnapshot(c) ==
  /\ link[c] = "new"
  /\ link' = [link EXCEPT ![c] = "on"] /\ wire' = [wire EXCEPT ![c] = Append(@, Snapshot)]
  /\ UNCHANGED <<stream, sleepy, pending, req, chan, shown, posts, drops, raced, missed, since>>

Forward(c) ==
  /\ link[c] = "on" /\ chan[c] # <<>> /\ Len(wire[c]) < Room
  /\ wire' = [wire EXCEPT ![c] = Append(@, Head(chan[c]))]
  /\ chan' = [chan EXCEPT ![c] = Tail(@)]
  /\ UNCHANGED <<stream, sleepy, pending, req, link, shown, posts, drops, raced, missed, since>>

Read(c) ==
  /\ wire[c] # <<>>
  /\ shown' = [shown EXCEPT ![c] = Apply(@, Head(wire[c]))]
  /\ wire' = [wire EXCEPT ![c] = Tail(@)]
  /\ UNCHANGED <<stream, sleepy, pending, req, link, chan, posts, drops, raced, missed, since>>

\* The connection breaks: what is under way is lost, the channel is closed, the
\* client keeps its badges and dials again later.
Break(c) ==
  /\ link[c] # "off" /\ drops < MaxDrops
  /\ link' = [link EXCEPT ![c] = "off"] /\ wire' = [wire EXCEPT ![c] = <<>>]
  /\ drops' = drops + 1
  /\ UNCHANGED <<stream, sleepy, pending, req, chan, shown, posts, raced, missed, since>>

Relay(c) == Subscribe(c) \/ SendSnapshot(c) \/ Forward(c)
ClientStep(c) == Relay(c) \/ Read(c)
Next ==
  \/ \E r \in Requests, w \in Worktrees : Notify(r, w) \/ Dismiss(r, w)
  \/ \E r \in Requests : Tell(r)
  \/ OpenFile
  \/ \E c \in Clients : ClientStep(c) \/ Break(c)

Spec == Init /\ [][Next]_vars

-----------------------------------------------------------------------------
(* Properties.                                                             *)

TypeOK ==
  /\ stream \in {"attention", "open"} /\ sleepy \subseteq Clients /\ pending \subseteq Worktrees /\ raced \subseteq Worktrees
  /\ req \in [Requests -> {Idle} \cup [at : {"tell"}, wt : Worktrees, on : BOOLEAN]]
  /\ link \in [Clients -> {"off", "new", "on"}]
  /\ chan \in [Clients -> BoundedSeq(Messages, Buffer)]
  /\ wire \in [Clients -> BoundedSeq(Messages, Room)]
  /\ shown \in [Clients -> SUBSET Worktrees] /\ missed \in [Clients -> SUBSET Worktrees]
  /\ since \in [Clients -> 0..MaxPosts] /\ posts \in 0..MaxPosts /\ drops \in 0..MaxDrops

\* A worktree's last change is told, was not made while another one of the same
\* worktree was being told, and found room.
Told(c, w) == InFlight(w) = {} /\ w \notin raced /\ w \notin missed[c]

\* What a message says of w, if anything.
Decides(m, w) == m.kind = "snapshot" \/ (m.kind = "update" /\ m.wt = w)
Sets(m, w) == IF m.kind = "snapshot" THEN w \in m.set ELSE m.on

Silent(q, w) == \A i \in DOMAIN q : ~Decides(q[i], w)
\* The last message of q that speaks of w, if there is one, says on.
LastSays(q, w, on) ==
  \A i \in DOMAIN q :
    /\ Decides(q[i], w)
    /\ \A j \in DOMAIN q : j > i => ~Decides(q[j], w)
    => (Sets(q[i], w) <=> on)

\* Whether a client shows w once it has read what is on its way.
Coming(c) == wire[c] \o chan[c]
ComesTo(c, w, on) ==
  /\ LastSays(Coming(c), w, on)
  /\ Silent(Coming(c), w) => (w \in shown[c] <=> on)

\* What a connected client shows or is about to show is what the tracker holds,
\* whenever it connected and whatever was dropped or lost before: subscribing comes
\* before the snapshot, and the snapshot replaces what the client had.
BadgesCurrent ==
  \A c \in Clients, w \in Worktrees :
    link[c] = "on" /\ Told(c, w) => ComesTo(c, w, w \in pending)

\* In the end every client that reads shows the pending worktrees.
BadgesSettle ==
  <>[](\A c \in Clients \ sleepy, w \in Worktrees :
         stream = "attention" /\ Told(c, w) => (w \in shown[c] <=> w \in pending))

\* A client opens a file once, in the order of the requests, and only if it was
\* connected when it was asked for: nothing is opened out of the past.
OpensFresh ==
  [][\A c \in Clients :
       Read(c) /\ Head(wire[c]).kind = "open" =>
         /\ Head(wire[c]).n > since[c]
         /\ \A m \in ToSet(Tail(wire[c]) \o chan[c]) : m.n > Head(wire[c]).n]_vars

\* Badges are well-formed and current.
BadgesSound == TypeOK /\ BadgesCurrent
=============================================================================
