--------------------------- MODULE ServicesProofs ---------------------------
(***************************************************************************)
(* Proofs about the services of MCServices, for every value of the         *)
(* constants.  An action of one service leaves the others' state alone, so *)
(* each one's invariant is an invariant of the composition.                *)
(***************************************************************************)
EXTENDS MCServices, TLAPS, SequenceTheorems, FiniteSetTheorems

-----------------------------------------------------------------------------
(* Sequences.                                                              *)

LEMMA Taken ==
  ASSUME NEW Q, NEW s \in Seq(Q), s # <<>>
  PROVE  /\ Len(s) \in Nat /\ Len(s) > 0 /\ Head(s) = s[1] /\ s[1] \in Q
         /\ Tail(s) \in Seq(Q) /\ Len(Tail(s)) = Len(s) - 1
         /\ \A n \in 1..Len(Tail(s)) : n + 1 \in 1..Len(s) /\ Tail(s)[n] = s[n + 1]
<1>1. Len(s) \in Nat \ {0} BY EmptySeq
<1>2. Tail(s) \in Seq(Q) /\ Len(Tail(s)) = Len(s) - 1
      /\ \A n \in 1..Len(Tail(s)) : Tail(s)[n] = s[n + 1]  BY HeadTailProperties
<1>3. s[1] \in Q  BY <1>1, ElementOfSeq
<1> QED BY <1>1, <1>2, <1>3

LEMMA Added ==
  ASSUME NEW Q, NEW s \in Seq(Q), NEW e \in Q
  PROVE  /\ Append(s, e) \in Seq(Q) /\ Len(s) \in Nat /\ Len(Append(s, e)) = Len(s) + 1
         /\ \A n \in 1..Len(Append(s, e)) : (n \in 1..Len(s) /\ Append(s, e)[n] = s[n])
                                            \/ Append(s, e)[n] = e
<1>1. /\ Append(s, e) \in Seq(Q) /\ Len(s) \in Nat /\ Len(Append(s, e)) = Len(s) + 1
      /\ Append(s, e)[Len(s) + 1] = e
      /\ \A n \in 1..Len(s) : Append(s, e)[n] = s[n]
  BY AppendProperties
<1>2. ASSUME NEW n \in 1..Len(Append(s, e)), n # Len(s) + 1  PROVE n \in 1..Len(s)
  BY <1>1, <1>2
<1> QED BY <1>1, <1>2

LEMMA Members ==
  ASSUME NEW Q, NEW s \in Seq(Q), NEW e
  PROVE  e \in F!ToSet(s) <=> \E n \in 1..Len(s) : s[n] = e
<1>1. DOMAIN s = 1..Len(s)  BY LenProperties
<1> QED BY <1>1 DEF F!ToSet

-----------------------------------------------------------------------------
(***************************************************************************)
(* The file watcher (FileWatch).                                           *)
(***************************************************************************)
FileBounds ==
  /\ IsFiniteSet(Tabs) /\ IsFiniteSet(Saves)
  /\ Cap \in Nat /\ MaxWatchers \in Nat /\ MaxWrites \in Nat

Events == Paths \X BOOLEAN
Watchers ==
  [open : BOOLEAN, loop : BOOLEAN, raw : Seq(Events), recent : SUBSET Paths,
   timers : SUBSET Paths, fired : [Paths -> Nat], chan : Seq(Paths)]

\* What a watcher has to tell is of paths that others changed, f; what fsnotify
\* still has for it may also be an own write that its window covers.
Sane(w, f) ==
  /\ Len(w.chan) <= Cap
  /\ \A n \in 1..Len(w.raw) : w.raw[n][1] \in f \/ (w.raw[n][2] /\ w.raw[n][1] \in w.recent)
  /\ \A p \in w.timers : p \in f
  /\ \A p \in Paths : w.fired[p] > 0 => p \in f
  /\ \A n \in 1..Len(w.chan) : w.chan[n] \in f

\* How many reports of p are on their way in it, at most.
Load(w, p) == w.fired[p] + (IF p \in w.timers THEN 1 ELSE 0) + Len(w.raw)

LEMMA WatcherFacts ==
  ASSUME NEW w \in Watchers
  PROVE  /\ w.open \in BOOLEAN /\ w.loop \in BOOLEAN /\ w.raw \in Seq(Events)
         /\ w.recent \in SUBSET Paths /\ w.timers \in SUBSET Paths
         /\ w.fired \in [Paths -> Nat] /\ w.chan \in Seq(Paths) /\ Len(w.raw) \in Nat
         /\ Len(w.chan) \in Nat /\ \A p \in Paths : w.fired[p] \in Nat
<1>1. /\ w.open \in BOOLEAN /\ w.loop \in BOOLEAN /\ w.raw \in Seq(Events)
      /\ w.recent \in SUBSET Paths /\ w.timers \in SUBSET Paths
      /\ w.fired \in [Paths -> Nat] /\ w.chan \in Seq(Paths)
  BY DEF Watchers
<1>2. Len(w.raw) \in Nat /\ Len(w.chan) \in Nat  BY <1>1, LenProperties
<1> QED BY <1>1, <1>2

LEMMA LoadIs == ASSUME NEW w \in Watchers, NEW p \in Paths  PROVE Load(w, p) \in Nat
<1>1. w.fired[p] \in Nat /\ Len(w.raw) \in Nat  BY WatcherFacts
<1>2. \A m \in 0..1 : w.fired[p] + m + Len(w.raw) \in Nat  BY <1>1
<1> QED BY <1>2 DEF Load

\* fsnotify queues an event.
LEMMA SeenSane ==
  ASSUME NEW w \in Watchers, NEW f \in SUBSET Paths, Sane(w, f),
         NEW e \in Events, e[1] \in f \/ (e[2] /\ e[1] \in w.recent),
         NEW v, v = [w EXCEPT !.raw = Append(w.raw, e)]
  PROVE  v \in Watchers /\ Sane(v, f) /\ \A q \in Paths : Load(v, q) = Load(w, q) + 1
<1>1. /\ v.open = w.open /\ v.loop = w.loop /\ v.recent = w.recent /\ v.timers = w.timers
      /\ v.fired = w.fired /\ v.chan = w.chan /\ v.raw = Append(w.raw, e)
  BY DEF Watchers
<1>2. /\ Append(w.raw, e) \in Seq(Events) /\ Len(w.raw) \in Nat
      /\ Len(Append(w.raw, e)) = Len(w.raw) + 1
      /\ \A n \in 1..Len(Append(w.raw, e)) :
           (n \in 1..Len(w.raw) /\ Append(w.raw, e)[n] = w.raw[n])
           \/ Append(w.raw, e)[n] = e
  BY WatcherFacts, Added
<1>3. v \in Watchers  BY <1>2 DEF Watchers
<1>4. \A n \in 1..Len(v.raw) : v.raw[n][1] \in f \/ (v.raw[n][2] /\ v.raw[n][1] \in v.recent)
  BY <1>1, <1>2 DEF Sane
<1>5. Sane(v, f)  BY <1>1, <1>4, WatcherFacts DEF Sane
<1>6. ASSUME NEW q \in Paths  PROVE Load(v, q) = Load(w, q) + 1
  <2>1. w.fired[q] \in Nat /\ Len(v.raw) = Len(w.raw) + 1 /\ Len(w.raw) \in Nat
    BY <1>1, <1>2, WatcherFacts
  <2>2. \A i, m, n \in Nat : i + m + (n + 1) = (i + m + n) + 1  OBVIOUS
  <2> DEFINE m == IF q \in w.timers THEN 1 ELSE 0
  <2>3. w.fired[q] + m + (Len(w.raw) + 1) = (w.fired[q] + m + Len(w.raw)) + 1  BY <2>1, <2>2, ZenonT(60)
  <2> QED BY <1>1, <2>1, <2>3 DEF Load
<1> QED BY <1>3, <1>5, <1>6

\* handleRawEvent.
LEMMA RawSane ==
  ASSUME NEW w \in Watchers, NEW f \in SUBSET Paths, Sane(w, f), w.raw # <<>>,
         NEW p, p = Head(w.raw)[1], NEW t, t = (IF p \in w.recent THEN w.timers ELSE w.timers \cup {p}),
         NEW v, v = [w EXCEPT !.raw = Tail(w.raw), !.timers = t]
  PROVE  v \in Watchers /\ Sane(v, f) /\ p \in Paths /\ \A q \in Paths : Load(v, q) <= Load(w, q)
<1>1. /\ v.open = w.open /\ v.loop = w.loop /\ v.recent = w.recent /\ v.timers = t
      /\ v.fired = w.fired /\ v.chan = w.chan /\ v.raw = Tail(w.raw)
  BY DEF Watchers
<1>2. /\ Tail(w.raw) \in Seq(Events) /\ Len(w.raw) \in Nat /\ Len(Tail(w.raw)) = Len(w.raw) - 1
      /\ Head(w.raw) = w.raw[1] /\ w.raw[1] \in Events /\ Len(w.raw) > 0
      /\ \A n \in 1..Len(Tail(w.raw)) : n + 1 \in 1..Len(w.raw) /\ Tail(w.raw)[n] = w.raw[n + 1]
  BY WatcherFacts, Taken
<1>3. p \in Paths /\ p = w.raw[1][1] /\ 1 \in 1..Len(w.raw)  BY <1>2 DEF Events
<1>4. p \in f \/ p \in w.recent  BY <1>3 DEF Sane
<1>5. t \in SUBSET Paths /\ \A q \in t : q \in f  BY <1>3, <1>4, WatcherFacts DEF Sane
<1>6. v \in Watchers  BY <1>2, <1>5 DEF Watchers
<1>7. \A n \in 1..Len(v.raw) : v.raw[n][1] \in f \/ (v.raw[n][2] /\ v.raw[n][1] \in v.recent)
  BY <1>1, <1>2 DEF Sane
<1>8. Sane(v, f)  BY <1>1, <1>5, <1>7 DEF Sane
<1>9. ASSUME NEW q \in Paths  PROVE Load(v, q) <= Load(w, q)
  <2>1. w.fired[q] \in Nat  BY WatcherFacts
  <2>2. ASSUME NEW m \in 0..1, NEW l \in 0..1
        PROVE w.fired[q] + m + Len(v.raw) <= w.fired[q] + l + Len(w.raw)
    BY <1>1, <1>2, <2>1
  <2> QED BY <1>1, <2>2 DEF Load
<1> QED BY <1>3, <1>6, <1>8, <1>9

\* A debounce timer fires.
LEMMA FiredSane ==
  ASSUME NEW w \in Watchers, NEW f \in SUBSET Paths, Sane(w, f), NEW p \in w.timers,
         NEW v, v = [w EXCEPT !.timers = w.timers \ {p}, !.fired = [w.fired EXCEPT ![p] = w.fired[p] + 1]]
  PROVE  v \in Watchers /\ Sane(v, f) /\ \A q \in Paths : Load(v, q) <= Load(w, q)
<1>1. /\ v.open = w.open /\ v.loop = w.loop /\ v.recent = w.recent /\ v.timers = w.timers \ {p}
      /\ v.fired = [w.fired EXCEPT ![p] = w.fired[p] + 1] /\ v.chan = w.chan /\ v.raw = w.raw
  BY DEF Watchers
<1>2. p \in Paths /\ w.fired \in [Paths -> Nat] /\ Len(w.raw) \in Nat  BY WatcherFacts
<1>3. v.fired \in [Paths -> Nat] /\ v.fired[p] = w.fired[p] + 1
      /\ \A q \in Paths : q # p => v.fired[q] = w.fired[q]
  BY <1>1, <1>2
<1>4. v \in Watchers  BY <1>1, <1>3 DEF Watchers
<1>5. Sane(v, f)  BY <1>1, <1>2, <1>3 DEF Sane
<1>6. ASSUME NEW q \in Paths  PROVE Load(v, q) <= Load(w, q)
  <2>1. w.fired[q] \in Nat  BY <1>2
  <2>2. CASE q = p
    <3>1. q \in w.timers /\ q \notin v.timers /\ v.fired[q] = w.fired[q] + 1  BY <1>1, <1>3, <2>2
    <3> QED BY <1>1, <1>2, <2>1, <3>1 DEF Load
  <2>3. CASE q # p
    <3>1. (q \in w.timers <=> q \in v.timers) /\ v.fired[q] = w.fired[q]  BY <1>1, <1>3, <2>3
    <3>2. Load(v, q) = Load(w, q)  BY <1>1, <3>1 DEF Load
    <3>3. \A m \in 0..1 : w.fired[q] + m + Len(w.raw) \in Nat  BY <1>2, <2>1
    <3>4. Load(w, q) \in Nat  BY <3>3 DEF Load
    <3> QED BY <3>2, <3>4
  <2> QED BY <2>2, <2>3
<1> QED BY <1>4, <1>5, <1>6

\* A timer's select: it sends, or gives up.
LEMMA ReportSane ==
  ASSUME FileBounds, NEW w \in Watchers, NEW f \in SUBSET Paths, Sane(w, f), NEW p \in Paths, w.fired[p] > 0,
         NEW ch, ch = w.chan \/ (ch = Append(w.chan, p) /\ Len(w.chan) < Cap),
         NEW v, v = [w EXCEPT !.fired = [w.fired EXCEPT ![p] = w.fired[p] - 1], !.chan = ch]
  PROVE  v \in Watchers /\ Sane(v, f) /\ \A q \in Paths : Load(v, q) <= Load(w, q)
<1>1. /\ v.open = w.open /\ v.loop = w.loop /\ v.recent = w.recent /\ v.timers = w.timers
      /\ v.fired = [w.fired EXCEPT ![p] = w.fired[p] - 1] /\ v.chan = ch /\ v.raw = w.raw
  BY DEF Watchers
<1>2. w.fired \in [Paths -> Nat] /\ Len(w.raw) \in Nat /\ w.chan \in Seq(Paths) /\ p \in f
  BY WatcherFacts DEF Sane
<1>3. v.fired \in [Paths -> Nat] /\ v.fired[p] = w.fired[p] - 1
      /\ \A q \in Paths : q # p => v.fired[q] = w.fired[q]
  <2>1. w.fired[p] - 1 \in Nat  BY <1>2
  <2> QED BY <1>1, <1>2, <2>1
<1>4. ch \in Seq(Paths) /\ Len(ch) <= Cap /\ \A n \in 1..Len(ch) : ch[n] \in f
  <2>1. CASE ch = w.chan  BY <1>2, <2>1 DEF Sane
  <2>2. CASE ch = Append(w.chan, p) /\ Len(w.chan) < Cap
    <3>1. /\ Append(w.chan, p) \in Seq(Paths) /\ Len(w.chan) \in Nat
          /\ Len(Append(w.chan, p)) = Len(w.chan) + 1
          /\ \A n \in 1..Len(Append(w.chan, p)) :
               (n \in 1..Len(w.chan) /\ Append(w.chan, p)[n] = w.chan[n])
               \/ Append(w.chan, p)[n] = p
      BY <1>2, Added
    <3>2. \A n \in 1..Len(ch) : ch[n] \in f  BY <1>2, <2>2, <3>1 DEF Sane
    <3> QED BY <2>2, <3>1, <3>2 DEF FileBounds
  <2> QED BY <2>1, <2>2
<1>5. v \in Watchers  BY <1>1, <1>3, <1>4 DEF Watchers
<1>6. Sane(v, f)
  <2>1. \A q \in Paths : v.fired[q] > 0 => q \in f  BY <1>2, <1>3 DEF Sane
  <2> QED BY <1>1, <1>4, <2>1 DEF Sane
<1>7. ASSUME NEW q \in Paths  PROVE Load(v, q) <= Load(w, q)
  <2>1. w.fired[q] \in Nat /\ v.fired[q] \in Nat /\ v.fired[q] <= w.fired[q]  BY <1>2, <1>3
  <2>2. ASSUME NEW m \in 0..1  PROVE v.fired[q] + m + Len(w.raw) <= w.fired[q] + m + Len(w.raw)
    BY <1>2, <2>1
  <2> QED BY <1>1, <2>2 DEF Load
<1> QED BY <1>5, <1>6, <1>7

\* A handler takes an event.
LEMMA HandSane ==
  ASSUME FileBounds, NEW w \in Watchers, NEW f \in SUBSET Paths, Sane(w, f), w.chan # <<>>,
         NEW v, v = [w EXCEPT !.chan = Tail(w.chan)]
  PROVE  v \in Watchers /\ Sane(v, f) /\ \A q \in Paths : Load(v, q) <= Load(w, q)
<1>1. /\ v.open = w.open /\ v.loop = w.loop /\ v.recent = w.recent /\ v.timers = w.timers
      /\ v.fired = w.fired /\ v.chan = Tail(w.chan) /\ v.raw = w.raw
  BY DEF Watchers
<1>2. /\ Tail(w.chan) \in Seq(Paths) /\ Len(w.chan) \in Nat /\ Len(Tail(w.chan)) = Len(w.chan) - 1
      /\ \A n \in 1..Len(Tail(w.chan)) : n + 1 \in 1..Len(w.chan) /\ Tail(w.chan)[n] = w.chan[n + 1]
  BY WatcherFacts, Taken
<1>3. v \in Watchers  BY <1>2 DEF Watchers
<1>4. Len(v.chan) <= Cap  BY <1>1, <1>2 DEF Sane, FileBounds
<1>5. \A n \in 1..Len(v.chan) : v.chan[n] \in f  BY <1>1, <1>2 DEF Sane
<1>6. \A q \in Paths : Load(v, q) = Load(w, q)  BY <1>1 DEF Load
<1>7. ASSUME NEW q \in Paths  PROVE Load(v, q) <= Load(w, q)
  <2>1. Load(w, q) \in Nat  BY LoadIs
  <2> QED BY <1>6, <2>1, SMTT(30)
<1> QED BY <1>1, <1>3, <1>4, <1>5, <1>7 DEF Sane

\* The rest changes none of what is to be told: closing, the end of the loop, the
\* own-write windows.
LEMMA MarkedSane ==
  ASSUME NEW w \in Watchers, NEW f \in SUBSET Paths, Sane(w, f), NEW r \in SUBSET Paths,
         \A n \in 1..Len(w.raw) : w.raw[n][2] /\ w.raw[n][1] \in w.recent => w.raw[n][1] \in r,
         NEW op \in BOOLEAN, NEW lp \in BOOLEAN,
         NEW v, v = [w EXCEPT !.open = op, !.loop = lp, !.recent = r]
  PROVE  v \in Watchers /\ Sane(v, f) /\ \A q \in Paths : Load(v, q) <= Load(w, q)
<1>1. /\ v.open = op /\ v.loop = lp /\ v.recent = r /\ v.timers = w.timers
      /\ v.fired = w.fired /\ v.chan = w.chan /\ v.raw = w.raw
  BY DEF Watchers
<1>2. v \in Watchers  BY DEF Watchers
<1>3. \A n \in 1..Len(v.raw) : v.raw[n][1] \in f \/ (v.raw[n][2] /\ v.raw[n][1] \in v.recent)
  BY <1>1 DEF Sane
<1>4. \A q \in Paths : Load(v, q) = Load(w, q)  BY <1>1 DEF Load
<1>5. ASSUME NEW q \in Paths  PROVE Load(v, q) <= Load(w, q)
  <2>1. Load(w, q) \in Nat  BY LoadIs
  <2> QED BY <1>4, <2>1
<1> QED BY <1>1, <1>2, <1>3, <1>5 DEF Sane

\* The tabs that are there, and the saves between their mark and their write.
Holders == {t \in Tabs : tab[t] # 0}
Marked == {k \in Saves : save[k] # F!NoSave}
Marks == [at : {"marked"}, p : Paths, w : 0..MaxWatchers]

FileTyped ==
  /\ entry \in [w : 0..MaxWatchers, refs : Nat] /\ made \in 0..MaxWatchers
  /\ watcher \in [F!Ids -> Watchers] /\ foreign \in [F!Ids -> SUBSET Paths]
  /\ tab \in [Tabs -> 0..MaxWatchers]
  /\ save \in [Saves -> {F!NoSave} \cup Marks]
  /\ writes \in 0..MaxWrites /\ up \in BOOLEAN /\ owed \subseteq Paths

\* All tabs hold the one open watcher.
Shared ==
  /\ entry.w <= made /\ entry.refs = Cardinality(Holders)
  /\ \A t \in Holders : tab[t] = entry.w
  /\ entry.w # 0 => watcher[entry.w].loop
  /\ \A i \in F!Ids : watcher[i].open <=> i = entry.w

\* The window of a save that has marked is open.
Covered ==
  \A k \in Marked : /\ save[k].w <= made
                    /\ save[k].w # 0 => save[k].p \in watcher[save[k].w].recent

\* Every report on its way is of a write of its own.
Counted ==
  /\ Cardinality(Marked) <= writes
  /\ \A i \in F!Ids, p \in Paths : Load(watcher[i], p) + Cardinality(Marked) <= writes

FileInv ==
  /\ FileTyped /\ Shared /\ Covered /\ Counted
  /\ \A i \in F!Ids : Sane(watcher[i], foreign[i])

LEMMA Finite ==
  ASSUME FileBounds
  PROVE  /\ IsFiniteSet(Holders) /\ Cardinality(Holders) \in Nat
         /\ Cardinality(Holders) <= Cardinality(Tabs) /\ Cardinality(Tabs) \in Nat
         /\ IsFiniteSet(Marked) /\ Cardinality(Marked) \in Nat
<1>1. Holders \in SUBSET Tabs /\ Marked \in SUBSET Saves  BY DEF Holders, Marked
<1>2. IsFiniteSet(Tabs) /\ IsFiniteSet(Saves)  BY DEF FileBounds
<1>3. IsFiniteSet(Holders) /\ Cardinality(Holders) <= Cardinality(Tabs) /\ IsFiniteSet(Marked)
  BY <1>1, <1>2, FS_Subset
<1> QED BY <1>2, <1>3, FS_CardinalityType

LEMMA IdsAre ==
  ASSUME FileBounds
  PROVE  /\ F!Ids \in SUBSET (Nat \ {0}) /\ \A i \in 0..MaxWatchers : i # 0 => i \in F!Ids
         /\ MaxWatchers \in Nat
BY DEF F!Ids, FileBounds

LEMMA MarkIs ==
  ASSUME NEW v \in Marks
  PROVE  v # F!NoSave /\ v.at = "marked" /\ v.p \in Paths /\ v.w \in 0..MaxWatchers
<1>1. v.at = "marked" /\ v.p \in Paths /\ v.w \in 0..MaxWatchers  BY DEF Marks
<1>2. F!NoSave.at = "idle"  BY DEF F!NoSave
<1> QED BY <1>1, <1>2

\* A step of one watcher that leaves it open and told of nothing new.
LEMMA WatcherSteps ==
  ASSUME FileBounds, FileInv, NEW i \in F!Ids, NEW v \in Watchers,
         watcher' = [watcher EXCEPT ![i] = v], v.open = watcher[i].open,
         v.loop \/ ~v.open, Sane(v, foreign[i]),
         \A p \in Paths : Load(v, p) <= Load(watcher[i], p),
         \A k \in Marked : save[k].w = i => save[k].p \in v.recent,
         UNCHANGED <<entry, made, tab, save, writes, up, foreign>>, owed' \subseteq Paths
  PROVE  FileInv'
<1>0. /\ FileTyped /\ Shared /\ Covered /\ Counted /\ watcher \in [F!Ids -> Watchers]
      /\ \A j \in F!Ids : Sane(watcher[j], foreign[j])
  BY DEF FileInv, FileTyped
<1>1. /\ watcher' \in [F!Ids -> Watchers] /\ watcher'[i] = v
      /\ \A j \in F!Ids : j # i => watcher'[j] = watcher[j]
  BY <1>0
<1>2. FileTyped'  BY <1>0, <1>1 DEF FileTyped
<1>3. Marked' = Marked /\ Holders' = Holders  BY DEF Marked, Holders
<1>4. Shared'
  <2>1. \A j \in F!Ids : watcher'[j].open <=> j = entry.w  BY <1>0, <1>1 DEF Shared
  <2>2. entry.w # 0 => watcher'[entry.w].loop
    <3>1. CASE entry.w = i  BY <1>1, <2>1, <3>1
    <3>2. CASE entry.w # i /\ entry.w # 0
      <4>1. entry.w \in F!Ids  BY <1>0, <3>2, IdsAre DEF FileTyped
      <4> QED BY <1>0, <1>1, <3>2, <4>1 DEF Shared
    <3> QED BY <3>1, <3>2
  <2> QED BY <1>0, <1>3, <2>1, <2>2 DEF Shared
<1>5. Covered'
  <2>1. ASSUME NEW k \in Marked, save[k].w # 0  PROVE save[k].p \in watcher'[save[k].w].recent
    <3>1. save[k].w \in F!Ids
      <4>1. save[k] \in Marks  BY <1>0, <2>1 DEF FileTyped, Marked
      <4> QED BY <2>1, <4>1, MarkIs, IdsAre
    <3> QED BY <1>0, <1>1, <2>1, <3>1 DEF Covered
  <2> QED BY <1>0, <1>3, <2>1 DEF Covered
<1>6. Counted'
  <2>1. ASSUME NEW j \in F!Ids, NEW p \in Paths
        PROVE Load(watcher'[j], p) + Cardinality(Marked) <= writes
    <3>1. Load(watcher[j], p) + Cardinality(Marked) <= writes  BY <1>0 DEF Counted
    <3>2. CASE j = i
      <4>1. Load(v, p) \in Nat /\ Load(watcher[i], p) \in Nat /\ writes \in Nat
            /\ Cardinality(Marked) \in Nat /\ Load(v, p) <= Load(watcher[i], p)
        <5>1. writes \in Nat  BY <1>0 DEF FileTyped, FileBounds
        <5>2. watcher[i] \in Watchers  BY <1>0
        <5> QED BY <5>1, <5>2, LoadIs, Finite
      <4> QED BY <1>1, <3>1, <3>2, <4>1
    <3>3. CASE j # i  BY <1>1, <3>1, <3>3
    <3> QED BY <3>2, <3>3
  <2> QED BY <1>0, <1>3, <2>1 DEF Counted
<1>7. \A j \in F!Ids : Sane(watcher'[j], foreign'[j])  BY <1>0, <1>1
<1> QED BY <1>2, <1>4, <1>5, <1>6, <1>7 DEF FileInv

\* One that leaves its windows alone, too.
LEMMA WatcherGoesOn ==
  ASSUME FileBounds, FileInv, NEW i \in F!Ids, NEW v \in Watchers,
         watcher' = [watcher EXCEPT ![i] = v], v.open = watcher[i].open,
         v.loop = watcher[i].loop, v.recent = watcher[i].recent, Sane(v, foreign[i]),
         \A p \in Paths : Load(v, p) <= Load(watcher[i], p),
         UNCHANGED <<entry, made, tab, save, writes, up, foreign>>, owed' \subseteq Paths
  PROVE  FileInv'
<1>1. Shared /\ Covered  BY DEF FileInv
<1>2. v.loop \/ ~v.open
  <2>1. watcher[i].open => i = entry.w  BY <1>1 DEF Shared
  <2>2. watcher[i].open => watcher[i].loop  BY <1>1, <2>1, IdsAre DEF Shared
  <2>3. v.open \in BOOLEAN  BY WatcherFacts
  <2> QED BY <2>2, <2>3
<1>3. \A k \in Marked : save[k].w = i => save[k].p \in v.recent  BY <1>1, IdsAre DEF Covered
<1> QED BY <1>2, <1>3, WatcherSteps

LEMMA WatcherHere ==
  ASSUME FileInv, NEW i \in F!Ids
  PROVE  /\ FileTyped /\ Shared /\ Covered /\ Counted
         /\ watcher[i] \in Watchers /\ watcher \in [F!Ids -> Watchers]
         /\ Sane(watcher[i], foreign[i]) /\ foreign[i] \in SUBSET Paths /\ owed \subseteq Paths
BY DEF FileInv, FileTyped

-----------------------------------------------------------------------------
(* The actions that are a step of one watcher.                             *)

LEMMA RawKeeps ==
  ASSUME FileBounds, FileInv, NEW i \in F!Ids, F!RawEvent(i)  PROVE FileInv'
<1> DEFINE w == watcher[i]
           p == Head(w.raw)[1]
           t == IF p \in w.recent THEN w.timers ELSE w.timers \cup {p}
           v == [w EXCEPT !.raw = Tail(w.raw), !.timers = t]
<1>1. w.raw # <<>>  BY DEF F!RawEvent
<1>2. v \in Watchers /\ Sane(v, foreign[i]) /\ p \in Paths /\ \A q \in Paths : Load(v, q) <= Load(w, q)
  BY <1>1, WatcherHere, RawSane
<1>3. watcher' = [watcher EXCEPT ![i] = v]  BY WatcherHere DEF F!RawEvent
<1>4. v.open = w.open /\ v.loop = w.loop /\ v.recent = w.recent  BY WatcherHere DEF Watchers
<1>5. UNCHANGED <<entry, made, tab, save, writes, up, foreign>> /\ owed' \subseteq Paths
  BY <1>2, WatcherHere DEF F!RawEvent
<1> HIDE DEF v
<1> QED BY <1>2, <1>3, <1>4, <1>5, WatcherGoesOn

LEMMA TimerKeeps ==
  ASSUME FileBounds, FileInv, NEW i \in F!Ids, NEW p \in Paths, F!TimerFires(i, p)  PROVE FileInv'
<1> DEFINE w == watcher[i]
           v == [w EXCEPT !.timers = w.timers \ {p}, !.fired = [w.fired EXCEPT ![p] = w.fired[p] + 1]]
<1>1. p \in w.timers  BY DEF F!TimerFires
<1>2. v \in Watchers /\ Sane(v, foreign[i]) /\ \A q \in Paths : Load(v, q) <= Load(w, q)
  BY <1>1, WatcherHere, FiredSane
<1>3. watcher' = [watcher EXCEPT ![i] = v]  BY WatcherHere DEF F!TimerFires
<1>4. v.open = w.open /\ v.loop = w.loop /\ v.recent = w.recent  BY WatcherHere DEF Watchers
<1>5. UNCHANGED <<entry, made, tab, save, writes, up, foreign>> /\ owed' \subseteq Paths
  BY WatcherHere DEF F!TimerFires
<1> HIDE DEF v
<1> QED BY <1>2, <1>3, <1>4, <1>5, WatcherGoesOn

LEMMA SelectKeeps ==
  ASSUME FileBounds, FileInv, NEW i \in F!Ids, NEW p \in Paths, F!Report(i, p) \/ F!GiveUp(i, p)
  PROVE  FileInv'
<1> DEFINE w == watcher[i]
           ch == IF F!Report(i, p) THEN Append(w.chan, p) ELSE w.chan
           v == [w EXCEPT !.fired = [w.fired EXCEPT ![p] = w.fired[p] - 1], !.chan = ch]
<1>1. w.fired[p] > 0  BY DEF F!Report, F!GiveUp
<1>2. ch = w.chan \/ (ch = Append(w.chan, p) /\ Len(w.chan) < Cap)  BY DEF F!Report
<1>3. v \in Watchers /\ Sane(v, foreign[i]) /\ \A q \in Paths : Load(v, q) <= Load(w, q)
  <2> HIDE DEF ch
  <2> QED BY <1>1, <1>2, WatcherHere, ReportSane
<1>4. watcher' = [watcher EXCEPT ![i] = v]
  <2>1. CASE F!Report(i, p)  BY <2>1, WatcherHere DEF F!Report
  <2>2. CASE ~F!Report(i, p)
    <3>1. ch = w.chan  BY <2>2
    <3>2. v = [w EXCEPT !.fired = [w.fired EXCEPT ![p] = w.fired[p] - 1]]
      BY <3>1, WatcherHere DEF Watchers
    <3> QED BY <2>2, <3>2, WatcherHere DEF F!GiveUp
  <2> QED BY <2>1, <2>2
<1>5. v.open = w.open /\ v.loop = w.loop /\ v.recent = w.recent  BY WatcherHere DEF Watchers
<1>6. UNCHANGED <<entry, made, tab, save, writes, up, foreign>> /\ owed' \subseteq Paths
  BY WatcherHere DEF F!Report, F!GiveUp
<1> HIDE DEF v
<1> QED BY <1>3, <1>4, <1>5, <1>6, WatcherGoesOn

LEMMA HandKeeps ==
  ASSUME FileBounds, FileInv, NEW t \in Tabs, F!Hand(t)  PROVE FileInv'
<1> DEFINE i == tab[t]
           w == watcher[i]
           v == [w EXCEPT !.chan = Tail(w.chan)]
<1>0. FileTyped  BY DEF FileInv
<1>1. i \in F!Ids /\ w.chan # <<>>  BY <1>0, IdsAre DEF F!Hand, FileTyped
<1>2. v \in Watchers /\ Sane(v, foreign[i]) /\ \A q \in Paths : Load(v, q) <= Load(w, q)
  BY <1>1, WatcherHere, HandSane
<1>3. watcher' = [watcher EXCEPT ![i] = v]  BY <1>1, WatcherHere DEF F!Hand
<1>4. v.open = w.open /\ v.loop = w.loop /\ v.recent = w.recent  BY <1>1, WatcherHere DEF Watchers
<1>5. UNCHANGED <<entry, made, tab, save, writes, up, foreign>> /\ owed' \subseteq Paths
  BY <1>1, WatcherHere DEF F!Hand
<1> HIDE DEF v, i
<1> QED BY <1>1, <1>2, <1>3, <1>4, <1>5, WatcherGoesOn

LEMMA LoopKeeps ==
  ASSUME FileBounds, FileInv, NEW i \in F!Ids, F!LoopEnds(i)  PROVE FileInv'
<1> DEFINE w == watcher[i]
           v == [w EXCEPT !.open = w.open, !.loop = FALSE, !.recent = w.recent]
<1>1. w.open = FALSE /\ w.open \in BOOLEAN /\ w.recent \in SUBSET Paths
  BY WatcherHere, WatcherFacts DEF F!LoopEnds
<1>2. v \in Watchers /\ Sane(v, foreign[i]) /\ \A q \in Paths : Load(v, q) <= Load(w, q)
  BY <1>1, WatcherHere, MarkedSane
<1>3. watcher' = [watcher EXCEPT ![i] = v]
  <2>1. v = [w EXCEPT !.loop = FALSE]  BY WatcherHere DEF Watchers
  <2> QED BY <2>1, WatcherHere DEF F!LoopEnds
<1>4. v.open = w.open /\ ~v.open /\ v.recent = w.recent  BY <1>1, WatcherHere DEF Watchers
<1>5. UNCHANGED <<entry, made, tab, save, writes, up, foreign>> /\ owed' \subseteq Paths
  BY WatcherHere DEF F!LoopEnds
<1>6. \A k \in Marked : save[k].w = i => save[k].p \in v.recent
  BY <1>4, WatcherHere, IdsAre DEF Covered
<1> HIDE DEF v
<1> QED BY <1>2, <1>3, <1>4, <1>5, <1>6, WatcherSteps

LEMMA WindowKeeps ==
  ASSUME FileBounds, FileInv, NEW i \in F!Ids, NEW p \in Paths, F!WindowEnds(i, p)  PROVE FileInv'
<1> DEFINE w == watcher[i]
           v == [w EXCEPT !.open = w.open, !.loop = w.loop, !.recent = w.recent \ {p}]
<1>0. /\ w.open \in BOOLEAN /\ w.loop \in BOOLEAN /\ w.recent \in SUBSET Paths /\ w.raw \in Seq(Events)
  BY WatcherHere, WatcherFacts
<1>1. \A n \in 1..Len(w.raw) : w.raw[n][2] /\ w.raw[n][1] \in w.recent => w.raw[n][1] \in w.recent \ {p}
  <2> SUFFICES ASSUME NEW n \in 1..Len(w.raw), w.raw[n][2], w.raw[n][1] = p  PROVE FALSE
    OBVIOUS
  <2>1. w.raw[n] \in Events  BY <1>0, ElementOfSeq
  <2>2. w.raw[n] = <<p, TRUE>>
    <3>1. PICK q \in Paths, own \in BOOLEAN : w.raw[n] = <<q, own>>  BY <2>1 DEF Events
    <3>2. w.raw[n][1] = q /\ w.raw[n][2] = own  BY <3>1
    <3>3. q = p /\ own = TRUE  BY <3>2
    <3> QED BY <3>1, <3>3
  <2>3. <<p, TRUE>> \in F!ToSet(w.raw)  BY <1>0, <2>2, Members
  <2> QED BY <2>3 DEF F!WindowEnds
<1>2. v \in Watchers /\ Sane(v, foreign[i]) /\ \A q \in Paths : Load(v, q) <= Load(w, q)
  <2>1. PICK r \in SUBSET Paths : r = w.recent \ {p}  BY <1>0
  <2>2. v = [w EXCEPT !.open = w.open, !.loop = w.loop, !.recent = r]  BY <2>1
  <2>3. \A n \in 1..Len(w.raw) : w.raw[n][2] /\ w.raw[n][1] \in w.recent => w.raw[n][1] \in r
    BY <1>1, <2>1
  <2>4. w \in Watchers /\ foreign[i] \in SUBSET Paths /\ Sane(w, foreign[i])  BY WatcherHere
  <2> HIDE DEF v, w
  <2> QED BY <1>0, <2>2, <2>3, <2>4, MarkedSane, Zenon
<1>3. watcher' = [watcher EXCEPT ![i] = v]
  <2>1. v = [w EXCEPT !.recent = w.recent \ {p}]  BY WatcherHere DEF Watchers
  <2> QED BY <2>1, WatcherHere DEF F!WindowEnds
<1>4. v.open = w.open /\ v.loop = w.loop /\ v.recent = w.recent \ {p}  BY WatcherHere DEF Watchers
<1>5. UNCHANGED <<entry, made, tab, save, writes, up, foreign>> /\ owed' \subseteq Paths
  BY WatcherHere DEF F!WindowEnds
<1>6. \A k \in Marked : save[k].w = i => save[k].p \in v.recent
  <2> TAKE k \in Marked
  <2>1. save[k] # F!NoSave /\ k \in Saves  BY DEF Marked
  <2>2. save[k].p # p  BY <2>1 DEF F!WindowEnds
  <2> QED BY <1>4, <2>2, WatcherHere, IdsAre DEF Covered
<1>7. v.loop \/ ~v.open
  <2>1. w.open => i = entry.w  BY WatcherHere DEF Shared
  <2>2. w.open => w.loop  BY WatcherHere, <2>1, IdsAre DEF Shared
  <2> QED BY <1>0, <1>4, <2>2
<1> HIDE DEF v
<1> QED BY <1>2, <1>3, <1>4, <1>5, <1>6, <1>7, WatcherSteps

-----------------------------------------------------------------------------
(* Tabs come and go.                                                       *)

LEMMA FreshIs ==
  /\ F!Fresh \in Watchers /\ F!Unmade \in Watchers
  /\ F!Fresh.open /\ F!Fresh.loop /\ ~F!Unmade.open
  /\ \A f : FileBounds => Sane(F!Fresh, f) /\ Sane(F!Unmade, f)
  /\ \A p \in Paths : Load(F!Fresh, p) = 0 /\ Load(F!Unmade, p) = 0
<1>0. <<>> \in Seq(Events) /\ <<>> \in Seq(Paths) /\ Len(<<>>) = 0 /\ 1..0 = {}  BY EmptySeq
<1>1. F!Fresh \in Watchers  BY <1>0 DEF F!Fresh, Watchers
<1>2. /\ F!Fresh.raw = <<>> /\ F!Fresh.chan = <<>> /\ F!Fresh.timers = {} /\ F!Fresh.open = TRUE
      /\ F!Fresh.loop = TRUE /\ F!Fresh.fired = [p \in Paths |-> 0]
  BY DEF F!Fresh
<1>3. F!Unmade \in Watchers  BY <1>1 DEF F!Unmade, Watchers
<1>4. /\ F!Unmade.raw = <<>> /\ F!Unmade.chan = <<>> /\ F!Unmade.timers = {} /\ F!Unmade.open = FALSE
      /\ F!Unmade.fired = [p \in Paths |-> 0]
  BY <1>1, <1>2 DEF F!Unmade, Watchers
<1>5. ASSUME NEW w, w.raw = <<>>, w.chan = <<>>, w.timers = {}, w.fired = [p \in Paths |-> 0]
      PROVE  /\ \A f : FileBounds => Sane(w, f)
             /\ \A p \in Paths : Load(w, p) = 0
  <2>1. ASSUME NEW f, FileBounds  PROVE Sane(w, f)  BY <1>0, <1>5, <2>1 DEF Sane, FileBounds
  <2>2. ASSUME NEW p \in Paths  PROVE Load(w, p) = 0  BY <1>0, <1>5 DEF Load
  <2> QED BY <2>1, <2>2
<1> QED BY <1>1, <1>2, <1>3, <1>4, <1>5

LEMMA SubscribeKeeps ==
  ASSUME FileBounds, FileInv, NEW t \in Tabs, F!Subscribe(t)  PROVE FileInv'
<1>0. /\ FileTyped /\ Shared /\ Covered /\ Counted /\ \A i \in F!Ids : Sane(watcher[i], foreign[i])
      /\ watcher \in [F!Ids -> Watchers] /\ tab \in [Tabs -> 0..MaxWatchers] /\ MaxWatchers \in Nat
      /\ entry \in [w : 0..MaxWatchers, refs : Nat] /\ made \in Nat /\ writes \in Nat
  BY DEF FileInv, FileTyped, FileBounds
<1>1. UNCHANGED <<save, writes, up, owed, foreign>> /\ Marked' = Marked /\ tab[t] = 0
      /\ tab' = [tab EXCEPT ![t] = entry'.w]
  BY DEF F!Subscribe, Marked
<1>2. ASSUME entry'.w \in 0..MaxWatchers, entry'.w # 0, entry.w \in {0, entry'.w}
      PROVE  /\ tab' \in [Tabs -> 0..MaxWatchers] /\ \A j \in Holders' : tab'[j] = entry'.w
             /\ Cardinality(Holders') = Cardinality(Holders) + 1
  <2>1. tab' \in [Tabs -> 0..MaxWatchers]  BY <1>0, <1>1, <1>2
  <2>2. tab'[t] = entry'.w /\ \A j \in Tabs : j # t => tab'[j] = tab[j]  BY <1>0, <1>1
  <2>3. \A j \in Holders' : tab'[j] = entry'.w
    <3> TAKE j \in Holders'
    <3>1. j \in Tabs /\ tab'[j] # 0  BY DEF Holders
    <3>2. CASE j # t
      <4>1. j \in Holders /\ tab'[j] = tab[j]  BY <2>2, <3>1, <3>2 DEF Holders
      <4>2. tab[j] = entry.w /\ tab[j] # 0  BY <1>0, <4>1 DEF Shared, Holders
      <4> QED BY <1>2, <4>1, <4>2
    <3> QED BY <2>2, <3>2
  <2>4. t \notin Holders /\ Holders' = Holders \cup {t}  BY <1>1, <1>2, <2>2 DEF Holders
  <2> QED BY <2>1, <2>3, <2>4, Finite, FS_AddElement
<1>3. CASE entry.w # 0
  <2>1. entry' = [entry EXCEPT !.refs = @ + 1] /\ UNCHANGED <<made, watcher>>
    BY <1>3 DEF F!Subscribe
  <2>2. entry'.w = entry.w /\ entry'.refs = entry.refs + 1 /\ entry.w \in 0..MaxWatchers
        /\ entry' \in [w : 0..MaxWatchers, refs : Nat]
    BY <1>0, <2>1
  <2>3. FileTyped'  BY <1>0, <1>1, <1>2, <1>3, <2>1, <2>2 DEF FileTyped
  <2>4. Shared'  BY <1>0, <1>2, <1>3, <2>1, <2>2 DEF Shared
  <2>5. Covered' /\ Counted'  BY <1>0, <1>1, <2>1 DEF Covered, Counted
  <2> QED BY <1>0, <1>1, <2>1, <2>3, <2>4, <2>5 DEF FileInv
<1>4. CASE entry.w = 0
  <2> DEFINE n == made + 1
  <2>1. /\ made < MaxWatchers /\ made' = n /\ watcher' = [watcher EXCEPT ![n] = F!Fresh]
        /\ entry' = [w |-> n, refs |-> 1]
    BY <1>4 DEF F!Subscribe
  <2>2. n \in F!Ids /\ n \in 0..MaxWatchers /\ n # 0 /\ entry'.w = n /\ entry'.refs = 1
        /\ entry' \in [w : 0..MaxWatchers, refs : Nat]
    BY <1>0, <2>1 DEF F!Ids
  <2>3. /\ watcher' \in [F!Ids -> Watchers] /\ watcher'[n] = F!Fresh
        /\ \A i \in F!Ids : i # n => watcher'[i] = watcher[i]
    BY <1>0, <2>1, <2>2, FreshIs
  <2>4. Cardinality(Holders) = 0
    <3>1. Holders = {}  BY <1>0, <1>4 DEF Shared, Holders
    <3> QED BY <3>1, FS_EmptySet
  <2>5. FileTyped'  BY <1>0, <1>1, <1>2, <1>4, <2>1, <2>2, <2>3 DEF FileTyped
  <2>6. Shared'
    <3>1. entry'.w <= made' /\ entry'.refs = Cardinality(Holders')
      BY <1>2, <1>4, <2>1, <2>2, <2>4, <1>0
    <3>2. ASSUME NEW i \in F!Ids  PROVE watcher'[i].open <=> i = entry'.w
      <4>1. CASE i = n  BY <2>2, <2>3, <4>1, FreshIs
      <4>2. CASE i # n
        <5>1. i # 0  BY IdsAre
        <5> QED BY <1>0, <1>4, <2>2, <2>3, <4>2, <5>1 DEF Shared
      <4> QED BY <4>1, <4>2
    <3> QED BY <1>2, <1>4, <2>2, <2>3, <3>1, <3>2, FreshIs DEF Shared
  <2>7. Covered'
    <3>1. ASSUME NEW k \in Marked
          PROVE  save[k].w <= n /\ (save[k].w # 0 => save[k].p \in watcher'[save[k].w].recent)
      <4>1. save[k] \in Marks  BY <1>0 DEF FileTyped, Marked
      <4>2. save[k].w \in 0..MaxWatchers /\ save[k].w <= made  BY <1>0, <4>1, MarkIs DEF Covered
      <4>3. save[k].w <= n /\ save[k].w # n  BY <1>0, <4>2
      <4>4. save[k].w # 0 => save[k].w \in F!Ids  BY <4>2, IdsAre
      <4> QED BY <1>0, <2>3, <4>3, <4>4 DEF Covered
    <3> QED BY <1>1, <2>1, <3>1 DEF Covered
  <2>8. Counted'
    <3>1. ASSUME NEW i \in F!Ids, NEW p \in Paths
          PROVE Load(watcher'[i], p) + Cardinality(Marked) <= writes
      <4>1. CASE i = n
        <5>1. Load(watcher'[i], p) = 0  BY <2>3, <4>1, FreshIs
        <5>2. Cardinality(Marked) \in Nat /\ Cardinality(Marked) <= writes  BY <1>0, Finite DEF Counted
        <5> QED BY <5>1, <5>2
      <4>2. CASE i # n  BY <1>0, <2>3, <4>2 DEF Counted
      <4> QED BY <4>1, <4>2
    <3> QED BY <1>0, <1>1, <3>1 DEF Counted
  <2>9. \A i \in F!Ids : Sane(watcher'[i], foreign[i])
    <3> TAKE i \in F!Ids
    <3>1. CASE i = n  BY <2>3, <3>1, FreshIs
    <3>2. CASE i # n  BY <1>0, <2>3, <3>2
    <3> QED BY <3>1, <3>2
  <2> QED BY <1>1, <2>5, <2>6, <2>7, <2>8, <2>9 DEF FileInv
<1> QED BY <1>3, <1>4

\* A tab leaves: the watcher v that it leaves behind is closed with the last one.
LEMMA LeaveKeeps ==
  ASSUME FileBounds, FileInv, NEW t \in Tabs, tab[t] # 0,
         UNCHANGED <<made, save, writes, up, foreign>>, tab' = [tab EXCEPT ![t] = 0],
         NEW v \in Watchers, Sane(v, foreign[entry.w]),
         v.loop = watcher[entry.w].loop, v.recent = watcher[entry.w].recent,
         \A p \in Paths : Load(v, p) <= Load(watcher[entry.w], p),
         watcher' = [watcher EXCEPT ![entry.w] = v], owed' \subseteq Paths,
         \/ entry.refs > 1 /\ entry' = [entry EXCEPT !.refs = @ - 1]
              /\ v.open = watcher[entry.w].open
         \/ ~(entry.refs > 1) /\ entry' = F!None /\ ~v.open
  PROVE  FileInv'
<1>0. /\ FileTyped /\ Shared /\ Covered /\ Counted /\ \A i \in F!Ids : Sane(watcher[i], foreign[i])
      /\ watcher \in [F!Ids -> Watchers] /\ tab \in [Tabs -> 0..MaxWatchers] /\ MaxWatchers \in Nat
      /\ entry \in [w : 0..MaxWatchers, refs : Nat] /\ made \in Nat /\ writes \in Nat
  BY DEF FileInv, FileTyped, FileBounds
<1>1. Marked' = Marked  BY DEF Marked
<1>2. /\ t \in Holders /\ entry.w # 0 /\ entry.w \in F!Ids
  <2>1. t \in Holders /\ tab[t] = entry.w  BY <1>0 DEF Holders, Shared
  <2> QED BY <1>0, <2>1, IdsAre
<1>3. /\ tab' \in [Tabs -> 0..MaxWatchers] /\ Holders' = Holders \ {t}
      /\ \A j \in Holders' : tab'[j] = entry.w
  <2>1. tab' \in [Tabs -> 0..MaxWatchers]  BY <1>0
  <2>2. tab'[t] = 0 /\ \A j \in Tabs : j # t => tab'[j] = tab[j]  BY <1>0
  <2>3. Holders' = Holders \ {t}  BY <2>2 DEF Holders
  <2> QED BY <1>0, <2>1, <2>2, <2>3 DEF Shared, Holders
<1>4. Cardinality(Holders') = Cardinality(Holders) - 1 /\ Cardinality(Holders) \in Nat
      /\ Cardinality(Holders') \in Nat
  BY <1>2, <1>3, Finite, FS_RemoveElement, FS_CardinalityType
<1> DEFINE i == entry.w
           w == watcher[i]
<1>5. /\ watcher' \in [F!Ids -> Watchers] /\ watcher'[i] = v /\ w \in Watchers
      /\ \A j \in F!Ids : j # i => watcher'[j] = watcher[j]
  BY <1>0, <1>2
<1>6. entry' \in [w : 0..MaxWatchers, refs : Nat]
  <2>1. CASE entry.refs > 1 /\ entry' = [entry EXCEPT !.refs = @ - 1]  BY <1>0, <2>1
  <2>2. CASE entry' = F!None  BY <1>0, <2>2 DEF F!None
  <2> QED BY <2>1, <2>2
<1>7. FileTyped'  BY <1>0, <1>3, <1>5, <1>6 DEF FileTyped
<1>8. Shared'
  <2>1. CASE entry.refs > 1 /\ entry' = [entry EXCEPT !.refs = @ - 1] /\ v.open = w.open
    <3>1. entry'.w = i /\ entry'.refs = entry.refs - 1  BY <1>0, <2>1
    <3>2. \A j \in F!Ids : watcher'[j].open <=> j = i  BY <1>0, <1>5, <2>1 DEF Shared
    <3>3. watcher'[i].loop  BY <1>0, <1>2, <1>5 DEF Shared
    <3> QED BY <1>0, <1>3, <1>4, <3>1, <3>2, <3>3 DEF Shared
  <2>2. CASE ~(entry.refs > 1) /\ entry' = F!None /\ ~v.open
    <3>1. entry'.w = 0 /\ entry'.refs = 0  BY <2>2 DEF F!None
    <3>2. Holders' = {}
      <4>1. IsFiniteSet(Holders')  BY <1>3, Finite, FS_RemoveElement
      <4>2. Cardinality(Holders) <= 1  BY <1>0, <1>4, <2>2 DEF Shared
      <4>3. Cardinality(Holders') = 0  BY <1>4, <4>2
      <4> QED BY <4>1, <4>3, FS_EmptySet
    <3>3. Cardinality(Holders') = 0  BY <3>2, FS_EmptySet
    <3>4. ASSUME NEW j \in F!Ids  PROVE ~watcher'[j].open /\ j # 0
      <4>1. j # 0  BY IdsAre
      <4>2. CASE j = i  BY <1>5, <2>2, <4>1, <4>2
      <4>3. CASE j # i  BY <1>0, <1>5, <4>1, <4>3 DEF Shared
      <4> QED BY <4>2, <4>3
    <3> QED BY <1>0, <3>1, <3>2, <3>3, <3>4 DEF Shared
  <2> QED BY <2>1, <2>2
<1>11. Covered'
  <2>1. ASSUME NEW k \in Marked, save[k].w # 0  PROVE save[k].p \in watcher'[save[k].w].recent
    <3>1. save[k].w \in F!Ids
      <4>1. save[k] \in Marks  BY <1>0 DEF FileTyped, Marked
      <4> QED BY <2>1, <4>1, MarkIs, IdsAre
    <3> QED BY <1>0, <1>5, <2>1, <3>1 DEF Covered
  <2> QED BY <1>0, <1>1, <2>1 DEF Covered
<1>12. Counted'
  <2>1. ASSUME NEW j \in F!Ids, NEW p \in Paths
        PROVE Load(watcher'[j], p) + Cardinality(Marked) <= writes
    <3>1. Load(watcher[j], p) + Cardinality(Marked) <= writes  BY <1>0 DEF Counted
    <3>2. Load(v, p) \in Nat /\ Load(w, p) \in Nat /\ Cardinality(Marked) \in Nat
      BY <1>5, LoadIs, Finite
    <3>3. CASE j = i
      <4>1. Load(v, p) <= Load(w, p)  OBVIOUS
      <4> QED BY <1>0, <1>5, <3>1, <3>2, <3>3, <4>1
    <3>4. CASE j # i  BY <1>5, <3>1, <3>4
    <3> QED BY <3>3, <3>4
  <2> QED BY <1>0, <1>1, <2>1 DEF Counted
<1>13. \A j \in F!Ids : Sane(watcher'[j], foreign[j])  BY <1>0, <1>5
<1> QED BY <1>7, <1>8, <1>11, <1>12, <1>13 DEF FileInv

LEMMA LeaverHas ==
  ASSUME FileBounds, FileInv, NEW t \in Tabs, tab[t] # 0
  PROVE  entry.w \in F!Ids /\ tab[t] = entry.w /\ entry \in [w : 0..MaxWatchers, refs : Nat]
<1>1. FileTyped /\ Shared  BY DEF FileInv
<1>2. tab[t] = entry.w  BY <1>1 DEF Shared, Holders
<1> QED BY <1>1, <1>2, IdsAre DEF FileTyped

\* What closing makes of a watcher.
LEMMA CloseSane ==
  ASSUME FileBounds, NEW w \in Watchers, NEW f \in SUBSET Paths, Sane(w, f),
         NEW v, v = [w EXCEPT !.open = FALSE]
  PROVE  /\ v \in Watchers /\ Sane(v, f) /\ \A q \in Paths : Load(v, q) <= Load(w, q)
         /\ ~v.open /\ v.loop = w.loop /\ v.recent = w.recent
<1>1. w.loop \in BOOLEAN /\ w.recent \in SUBSET Paths  BY WatcherFacts
<1>2. v = [w EXCEPT !.open = FALSE, !.loop = w.loop, !.recent = w.recent]  BY DEF Watchers
<1>3. v \in Watchers /\ Sane(v, f) /\ \A q \in Paths : Load(v, q) <= Load(w, q)
  BY <1>1, <1>2, MarkedSane
<1> QED BY <1>3 DEF Watchers

LEMMA UnsubscribeKeeps ==
  ASSUME FileBounds, FileInv, NEW t \in Tabs, F!Unsubscribe(t)  PROVE FileInv'
<1> DEFINE i == entry.w
           w == watcher[i]
<1>0. tab[t] # 0 /\ UNCHANGED <<made, save, writes, up, foreign>> /\ tab' = [tab EXCEPT ![t] = 0]
  BY DEF F!Unsubscribe
<1>1. i \in F!Ids  BY <1>0, LeaverHas
<1>2. CASE entry.refs > 1
  <2>1. entry' = [entry EXCEPT !.refs = @ - 1] /\ watcher' = watcher /\ owed' = owed
    BY <1>2 DEF F!Unsubscribe
  <2>2. watcher' = [watcher EXCEPT ![i] = w]  BY <1>1, <2>1, WatcherHere
  <2>3. \A p \in Paths : Load(w, p) <= Load(w, p)
    <3>1. \A p \in Paths : Load(w, p) \in Nat  BY <1>1, WatcherHere, LoadIs
    <3> QED BY <3>1
  <2>4. w \in Watchers /\ Sane(w, foreign[i]) /\ owed' \subseteq Paths  BY <1>1, <2>1, WatcherHere
  <2> HIDE DEF w
  <2>5. w = watcher[i]  BY DEF w
  <2> QED BY <1>0, <1>2, <2>1, <2>2, <2>3, <2>4, <2>5, LeaveKeeps
<1>3. CASE ~(entry.refs > 1)
  <2> DEFINE v == [w EXCEPT !.open = FALSE]
  <2>1. entry' = F!None /\ watcher' = F!Close(i) /\ owed' = {}  BY <1>3 DEF F!Unsubscribe
  <2>2. watcher' = [watcher EXCEPT ![i] = v]  BY <1>1, <2>1, WatcherHere DEF F!Close
  <2>3. /\ v \in Watchers /\ Sane(v, foreign[i]) /\ \A q \in Paths : Load(v, q) <= Load(w, q)
        /\ ~v.open /\ v.loop = w.loop /\ v.recent = w.recent
    BY <1>1, WatcherHere, CloseSane
  <2>4. owed' \subseteq Paths  BY <2>1
  <2> HIDE DEF v
  <2> QED BY <1>0, <1>3, <2>1, <2>2, <2>3, <2>4, LeaveKeeps
<1> QED BY <1>2, <1>3

\* A handler takes an event, fails to write it and leaves.
LEMMA HandFailsKeeps ==
  ASSUME FileBounds, FileInv, NEW t \in Tabs, F!HandFails(t)  PROVE FileInv'
<1> DEFINE i == entry.w
           w == watcher[i]
           rest == [w EXCEPT !.chan = Tail(w.chan)]
           v == [rest EXCEPT !.open = FALSE]
<1>0. /\ tab[t] # 0 /\ UNCHANGED <<made, save, writes, up, foreign>>
      /\ tab' = [tab EXCEPT ![t] = 0]
  BY DEF F!HandFails
<1>1. i \in F!Ids /\ tab[t] = i  BY <1>0, LeaverHas
<1>2. w.chan # <<>>  BY <1>1 DEF F!HandFails
<1>3. /\ rest \in Watchers /\ Sane(rest, foreign[i]) /\ \A q \in Paths : Load(rest, q) <= Load(w, q)
      /\ foreign[i] \in SUBSET Paths
  BY <1>1, <1>2, WatcherHere, HandSane
<1>4. rest.open = w.open /\ rest.loop = w.loop /\ rest.recent = w.recent  BY <1>1, WatcherHere DEF Watchers
<1>5. CASE entry.refs > 1
  <2>1. entry' = [entry EXCEPT !.refs = @ - 1] /\ watcher' = [watcher EXCEPT ![i] = rest]
    BY <1>1, <1>5, WatcherHere DEF F!HandFails
  <2>2. owed' \subseteq Paths  BY <1>1, <1>5, WatcherHere DEF F!HandFails
  <2> HIDE DEF rest
  <2> QED BY <1>0, <1>3, <1>4, <1>5, <2>1, <2>2, LeaveKeeps
<1>6. CASE ~(entry.refs > 1)
  <2>1. entry' = F!None /\ owed' = {}  BY <1>6 DEF F!HandFails
  <2>2. watcher' = [watcher EXCEPT ![i] = v]
    BY <1>1, <1>6, WatcherHere DEF F!HandFails, Watchers
  <2> HIDE DEF rest
  <2>3. /\ v \in Watchers /\ Sane(v, foreign[i]) /\ \A q \in Paths : Load(v, q) <= Load(rest, q)
        /\ ~v.open /\ v.loop = rest.loop /\ v.recent = rest.recent
    BY <1>3, CloseSane
  <2> HIDE DEF v
  <2>4. ASSUME NEW q \in Paths  PROVE Load(v, q) <= Load(w, q)
    <3>1. Load(v, q) \in Nat /\ Load(rest, q) \in Nat /\ Load(w, q) \in Nat
      BY <1>1, <1>3, <2>3, WatcherHere, LoadIs
    <3>2. Load(v, q) <= Load(rest, q) /\ Load(rest, q) <= Load(w, q)  BY <1>3, <2>3
    <3> QED BY <3>1, <3>2
  <2>5. owed' \subseteq Paths  BY <2>1
  <2> QED BY <1>0, <1>4, <1>6, <2>1, <2>2, <2>3, <2>4, <2>5, LeaveKeeps
<1> QED BY <1>5, <1>6

-----------------------------------------------------------------------------
(* Writes.                                                                 *)

LEMMA FileFacts ==
  ASSUME FileBounds, FileInv
  PROVE  /\ FileTyped /\ Shared /\ Covered /\ Counted /\ \A i \in F!Ids : Sane(watcher[i], foreign[i])
         /\ watcher \in [F!Ids -> Watchers] /\ tab \in [Tabs -> 0..MaxWatchers] /\ MaxWatchers \in Nat
         /\ entry \in [w : 0..MaxWatchers, refs : Nat] /\ made \in 0..MaxWatchers /\ writes \in 0..MaxWrites
         /\ MaxWrites \in Nat /\ foreign \in [F!Ids -> SUBSET Paths] /\ owed \subseteq Paths
         /\ save \in [Saves -> {F!NoSave} \cup Marks] /\ up \in BOOLEAN
BY DEF FileInv, FileTyped, FileBounds

\* fsnotify tells the open watcher of a write, and the paths foreign to each become g.
LEMMA SeenByAll ==
  ASSUME FileBounds, FileInv, NEW p \in Paths, NEW own \in BOOLEAN, F!Seen(p, own),
         NEW g \in [F!Ids -> SUBSET Paths],
         \A i \in F!Ids : foreign[i] \subseteq g[i],
         \A i \in F!Ids : watcher[i].open => p \in g[i] \/ (own = TRUE /\ p \in watcher[i].recent)
  PROVE  /\ watcher' \in [F!Ids -> Watchers]
         /\ \A i \in F!Ids : /\ Sane(watcher'[i], g[i]) /\ watcher'[i].recent = watcher[i].recent
                             /\ watcher'[i].open = watcher[i].open /\ watcher'[i].loop = watcher[i].loop
                             /\ \A q \in Paths : Load(watcher'[i], q) <= Load(watcher[i], q) + 1
<1>0. /\ watcher \in [F!Ids -> Watchers] /\ foreign \in [F!Ids -> SUBSET Paths]
      /\ \A i \in F!Ids : Sane(watcher[i], foreign[i])
  BY FileFacts
<1>1. ASSUME NEW i \in F!Ids
      PROVE  /\ watcher'[i] \in Watchers
             /\ Sane(watcher'[i], g[i]) /\ watcher'[i].recent = watcher[i].recent
             /\ watcher'[i].open = watcher[i].open /\ watcher'[i].loop = watcher[i].loop
             /\ \A q \in Paths : Load(watcher'[i], q) <= Load(watcher[i], q) + 1
  <2> DEFINE w == watcher[i]
  <2>0. /\ w \in Watchers /\ foreign[i] \in SUBSET Paths /\ g[i] \in SUBSET Paths
        /\ Sane(w, g[i])
    <3>1. w \in Watchers /\ foreign[i] \subseteq g[i] /\ Sane(w, foreign[i])  BY <1>0
    <3>2. Sane(w, g[i])  BY <3>1, WatcherFacts DEF Sane
    <3> QED BY <1>0, <3>1, <3>2
  <2>1. CASE w.open
    <3> DEFINE v == [w EXCEPT !.raw = Append(w.raw, <<p, own>>)]
    <3>1. watcher'[i] = v  BY <2>1 DEF F!Seen
    <3>2. v.recent = w.recent /\ v.open = w.open /\ v.loop = w.loop  BY <2>0 DEF Watchers
    <3>3. p \in g[i] \/ (own = TRUE /\ p \in w.recent)  BY <2>1
    <3>4. v \in Watchers /\ Sane(v, g[i]) /\ \A q \in Paths : Load(v, q) = Load(w, q) + 1
      <4>0. <<p, own>> \in Events /\ <<p, own>>[1] = p /\ <<p, own>>[2] = own
        BY Zenon DEF Events
      <4>1. PICK e \in Events : e = <<p, own>> /\ e[1] = p /\ e[2] = own  BY <4>0, Zenon
      <4>2. e[1] \in g[i] \/ (e[2] /\ e[1] \in w.recent)  BY <3>3, <4>1
      <4>3. v = [w EXCEPT !.raw = Append(w.raw, e)]  BY <4>1
      <4> HIDE DEF v, w
      <4> QED BY <2>0, <4>2, <4>3, SeenSane
    <3>5. ASSUME NEW q \in Paths  PROVE Load(v, q) <= Load(w, q) + 1
      <4>1. Load(w, q) \in Nat  BY <2>0, LoadIs
      <4>2. Load(v, q) = Load(w, q) + 1  BY <3>4
      <4> QED BY <4>1, <4>2
    <3> HIDE DEF v
    <3> QED BY <3>1, <3>2, <3>4, <3>5
  <2>2. CASE ~w.open
    <3>1. watcher'[i] = w  BY <2>2 DEF F!Seen
    <3>2. ASSUME NEW q \in Paths  PROVE Load(w, q) <= Load(w, q) + 1
      <4>1. Load(w, q) \in Nat  BY <2>0, LoadIs
      <4> QED BY <4>1
    <3> QED BY <2>0, <3>1, <3>2
  <2> QED BY <2>1, <2>2
<1>2. watcher' \in [F!Ids -> Watchers]
  <2>1. watcher' = [i \in F!Ids |-> watcher'[i]]  BY DEF F!Seen
  <2> QED BY <1>1, <2>1
<1> QED BY <1>1, <1>2

LEMMA OutsideKeeps ==
  ASSUME FileBounds, FileInv, NEW p \in Paths, F!WriteOutside(p)  PROVE FileInv'
<1>0. UNCHANGED <<entry, made, tab, save, up, owed>> /\ F!Seen(p, FALSE)
      /\ writes < MaxWrites /\ writes' = writes + 1 /\ Marked' = Marked /\ Holders' = Holders
  BY DEF F!WriteOutside, Marked, Holders
<1>1. /\ foreign' \in [F!Ids -> SUBSET Paths]
      /\ \A i \in F!Ids : foreign[i] \subseteq foreign'[i]
      /\ \A i \in F!Ids : watcher[i].open => p \in foreign'[i]
  BY FileFacts DEF F!WriteOutside
<1>2. /\ watcher' \in [F!Ids -> Watchers]
      /\ \A i \in F!Ids : /\ Sane(watcher'[i], foreign'[i]) /\ watcher'[i].recent = watcher[i].recent
                          /\ watcher'[i].open = watcher[i].open /\ watcher'[i].loop = watcher[i].loop
                          /\ \A q \in Paths : Load(watcher'[i], q) <= Load(watcher[i], q) + 1
  <2>1. PICK g \in [F!Ids -> SUBSET Paths] : g = foreign'  BY <1>1
  <2> QED BY <1>0, <1>1, <2>1, SeenByAll
<1>3. writes' \in 0..MaxWrites  BY <1>0, FileFacts
<1>4. FileTyped'  BY <1>0, <1>1, <1>2, <1>3, FileFacts DEF FileTyped
<1>5. Shared'
  <2>1. entry.w # 0 => entry.w \in F!Ids  BY FileFacts, IdsAre
  <2> QED BY <1>0, <1>2, <2>1, FileFacts DEF Shared
<1>6. Covered'
  <2>1. ASSUME NEW k \in Marked, save[k].w # 0  PROVE save[k].w \in F!Ids
    <3>1. save[k] \in Marks  BY FileFacts DEF Marked
    <3> QED BY <2>1, <3>1, MarkIs, IdsAre
  <2> QED BY <1>0, <1>2, <2>1, FileFacts DEF Covered
<1>7. Counted'
  <2>0. Cardinality(Marked) \in Nat /\ writes \in Nat /\ Cardinality(Marked) <= writes
    BY Finite, FileFacts DEF Counted
  <2>1. ASSUME NEW i \in F!Ids, NEW q \in Paths
        PROVE Load(watcher'[i], q) + Cardinality(Marked) <= writes + 1
    <3>1. Load(watcher[i], q) + Cardinality(Marked) <= writes  BY FileFacts DEF Counted
    <3>2. watcher[i] \in Watchers /\ watcher'[i] \in Watchers  BY <1>2, FileFacts
    <3>3. Load(watcher[i], q) \in Nat /\ Load(watcher'[i], q) \in Nat  BY <3>2, LoadIs
    <3>4. Load(watcher'[i], q) <= Load(watcher[i], q) + 1  BY <1>2
    <3> QED BY <2>0, <3>1, <3>3, <3>4
  <2> QED BY <1>0, <2>0, <2>1 DEF Counted
<1> QED BY <1>2, <1>4, <1>5, <1>6, <1>7 DEF FileInv

\* A save that has marked and is over.
LEMMA Unmark ==
  ASSUME FileBounds, FileInv, NEW k \in Saves, save[k].at = "marked", save' = [save EXCEPT ![k] = F!NoSave]
  PROVE  /\ save[k] \in Marks /\ save' \in [Saves -> {F!NoSave} \cup Marks]
         /\ \A j \in Marked' : j \in Marked /\ save'[j] = save[j]
         /\ Cardinality(Marked') \in Nat /\ Cardinality(Marked') + 1 = Cardinality(Marked)
<1>1. F!NoSave.at = "idle"  BY DEF F!NoSave
<1>2. save[k] \in Marks /\ k \in Marked  BY <1>1, FileFacts DEF Marked
<1>3. save' \in [Saves -> {F!NoSave} \cup Marks] /\ save'[k] = F!NoSave
      /\ \A j \in Saves : j # k => save'[j] = save[j]
  BY FileFacts
<1>4. Marked' = Marked \ {k}  BY <1>3 DEF Marked
<1>5. Cardinality(Marked') = Cardinality(Marked) - 1 /\ Cardinality(Marked') \in Nat
  BY <1>2, <1>4, Finite, FS_RemoveElement, FS_CardinalityType
<1>6. ASSUME NEW j \in Marked'  PROVE j \in Marked /\ save'[j] = save[j]
  BY <1>3, <1>4, <1>6 DEF Marked
<1> QED BY <1>2, <1>3, <1>5, <1>6, Finite

LEMMA SavedKeeps ==
  ASSUME FileBounds, FileInv, NEW k \in Saves, F!WriteSaved(k)  PROVE FileInv'
<1>0. /\ UNCHANGED <<entry, made, tab, writes, up, owed>> /\ F!Seen(save[k].p, TRUE)
      /\ save[k].at = "marked" /\ save' = [save EXCEPT ![k] = F!NoSave] /\ Holders' = Holders
  BY DEF F!WriteSaved, Holders
<1>1. /\ save[k] \in Marks /\ save' \in [Saves -> {F!NoSave} \cup Marks]
      /\ \A j \in Marked' : j \in Marked /\ save'[j] = save[j]
      /\ Cardinality(Marked') \in Nat /\ Cardinality(Marked') + 1 = Cardinality(Marked)
  BY <1>0, Unmark
<1>2. PICK p \in Paths : p = save[k].p  BY <1>1, MarkIs
<1>3. /\ foreign' \in [F!Ids -> SUBSET Paths]
      /\ \A i \in F!Ids : foreign[i] \subseteq foreign'[i]
      /\ \A i \in F!Ids : watcher[i].open /\ i # save[k].w => p \in foreign'[i]
  BY <1>2, FileFacts DEF F!WriteSaved
<1>4. ASSUME NEW i \in F!Ids, watcher[i].open  PROVE p \in foreign'[i] \/ p \in watcher[i].recent
  <2>1. CASE i = save[k].w
    <3>1. k \in Marked /\ save[k].w # 0  BY <1>1, <2>1, MarkIs, IdsAre DEF Marked
    <3> QED BY <1>2, <2>1, <3>1, FileFacts DEF Covered
  <2> QED BY <1>3, <1>4, <2>1
<1>5. /\ watcher' \in [F!Ids -> Watchers]
      /\ \A i \in F!Ids : /\ Sane(watcher'[i], foreign'[i]) /\ watcher'[i].recent = watcher[i].recent
                          /\ watcher'[i].open = watcher[i].open /\ watcher'[i].loop = watcher[i].loop
                          /\ \A q \in Paths : Load(watcher'[i], q) <= Load(watcher[i], q) + 1
  <2>1. PICK g \in [F!Ids -> SUBSET Paths] : g = foreign'  BY <1>3
  <2>2. F!Seen(p, TRUE)  BY <1>0, <1>2
  <2> QED BY <1>3, <1>4, <2>1, <2>2, SeenByAll
<1>6. FileTyped'  BY <1>0, <1>1, <1>3, <1>5, FileFacts DEF FileTyped
<1>7. Shared'
  <2>1. entry.w # 0 => entry.w \in F!Ids  BY FileFacts, IdsAre
  <2> QED BY <1>0, <1>5, <2>1, FileFacts DEF Shared
<1>8. Covered'
  <2>1. ASSUME NEW j \in Marked', save[j].w # 0  PROVE save[j].w \in F!Ids
    <3>1. save[j] \in Marks  BY <1>1, FileFacts DEF Marked
    <3> QED BY <2>1, <3>1, MarkIs, IdsAre
  <2> QED BY <1>0, <1>1, <1>5, <2>1, FileFacts DEF Covered
<1>9. Counted'
  <2>0. Cardinality(Marked) \in Nat /\ writes \in Nat /\ Cardinality(Marked) <= writes
    BY Finite, FileFacts DEF Counted
  <2>1. ASSUME NEW i \in F!Ids, NEW q \in Paths
        PROVE Load(watcher'[i], q) + Cardinality(Marked') <= writes
    <3>1. Load(watcher[i], q) + Cardinality(Marked) <= writes  BY FileFacts DEF Counted
    <3>2. watcher[i] \in Watchers /\ watcher'[i] \in Watchers  BY <1>5, FileFacts
    <3>3. Load(watcher[i], q) \in Nat /\ Load(watcher'[i], q) \in Nat  BY <3>2, LoadIs
    <3>4. Load(watcher'[i], q) <= Load(watcher[i], q) + 1  BY <1>5
    <3> QED BY <1>1, <2>0, <3>1, <3>3, <3>4
  <2> QED BY <1>0, <1>1, <2>0, <2>1 DEF Counted
<1> QED BY <1>5, <1>6, <1>7, <1>8, <1>9 DEF FileInv

LEMMA FailsKeeps ==
  ASSUME FileBounds, FileInv, NEW k \in Saves, F!SaveFails(k)  PROVE FileInv'
<1>0. /\ UNCHANGED <<entry, made, watcher, tab, writes, up, owed, foreign>>
      /\ save[k].at = "marked" /\ save' = [save EXCEPT ![k] = F!NoSave] /\ Holders' = Holders
  BY DEF F!SaveFails, Holders
<1>1. /\ save' \in [Saves -> {F!NoSave} \cup Marks]
      /\ \A j \in Marked' : j \in Marked /\ save'[j] = save[j]
      /\ Cardinality(Marked') \in Nat /\ Cardinality(Marked') + 1 = Cardinality(Marked)
  BY <1>0, Unmark
<1>2. FileTyped'  BY <1>0, <1>1, FileFacts DEF FileTyped
<1>3. Shared'  BY <1>0, FileFacts DEF Shared
<1>4. Covered'  BY <1>0, <1>1, FileFacts DEF Covered
<1>5. Counted'
  <2>0. Cardinality(Marked) \in Nat /\ writes \in Nat /\ Cardinality(Marked) <= writes
    BY Finite, FileFacts DEF Counted
  <2>1. ASSUME NEW i \in F!Ids, NEW q \in Paths
        PROVE Load(watcher[i], q) + Cardinality(Marked') <= writes
    <3>1. Load(watcher[i], q) + Cardinality(Marked) <= writes  BY FileFacts DEF Counted
    <3>2. watcher[i] \in Watchers  BY FileFacts
    <3>3. Load(watcher[i], q) \in Nat  BY <3>2, LoadIs
    <3> QED BY <1>1, <2>0, <3>1, <3>3
  <2> QED BY <1>0, <1>1, <2>0, <2>1 DEF Counted
<1> QED BY <1>0, <1>2, <1>3, <1>4, <1>5, FileFacts DEF FileInv

LEMMA MarkKeeps ==
  ASSUME FileBounds, FileInv, NEW k \in Saves, NEW p \in Paths, F!Mark(k, p)  PROVE FileInv'
<1> DEFINE m == [at |-> "marked", p |-> p, w |-> entry.w]
<1>0. /\ UNCHANGED <<entry, made, tab, up, owed, foreign>> /\ Holders' = Holders
      /\ save[k] = F!NoSave /\ writes < MaxWrites /\ writes' = writes + 1
      /\ save' = [save EXCEPT ![k] = m]
  BY DEF F!Mark, Holders
<1>1. m \in Marks /\ m.p = p /\ m.w = entry.w /\ m # F!NoSave
  <2>1. m \in Marks  BY FileFacts DEF Marks
  <2> QED BY <2>1, MarkIs
<1> HIDE DEF m
<1>2. save' \in [Saves -> {F!NoSave} \cup Marks] /\ save'[k] = m
      /\ \A j \in Saves : j # k => save'[j] = save[j]
  BY <1>0, <1>1, FileFacts
<1>3. k \notin Marked /\ Marked' = Marked \cup {k}  BY <1>0, <1>1, <1>2 DEF Marked
<1>4. Cardinality(Marked') = Cardinality(Marked) + 1 /\ Cardinality(Marked) \in Nat
  BY <1>3, Finite, FS_AddElement
<1>5. writes' \in 0..MaxWrites  BY <1>0, FileFacts
<1>6. entry.w # 0 => entry.w \in F!Ids  BY FileFacts, IdsAre
\* the marked watcher, if there is one; the others stay as they are
<1>7. /\ watcher' \in [F!Ids -> Watchers]
      /\ \A i \in F!Ids : /\ Sane(watcher'[i], foreign[i])
                          /\ watcher'[i].open = watcher[i].open /\ watcher'[i].loop = watcher[i].loop
                          /\ watcher[i].recent \subseteq watcher'[i].recent
                          /\ \A q \in Paths : Load(watcher'[i], q) <= Load(watcher[i], q)
      /\ entry.w # 0 => p \in watcher'[entry.w].recent
  <2>1. CASE entry.w = 0
    <3>1. watcher' = watcher  BY <2>1 DEF F!Mark
    <3>2. ASSUME NEW i \in F!Ids, NEW q \in Paths  PROVE Load(watcher[i], q) <= Load(watcher[i], q)
      <4>1. watcher[i] \in Watchers  BY FileFacts
      <4>2. Load(watcher[i], q) \in Nat  BY <4>1, LoadIs
      <4> QED BY <4>2
    <3> QED BY <2>1, <3>1, <3>2, FileFacts
  <2>2. CASE entry.w # 0
    <3> DEFINE i == entry.w
               w == watcher[i]
               v == [w EXCEPT !.open = w.open, !.loop = w.loop, !.recent = w.recent \cup {p}]
    <3>1. i \in F!Ids /\ w \in Watchers /\ Sane(w, foreign[i]) /\ foreign[i] \in SUBSET Paths
      BY <1>6, <2>2, FileFacts
    <3>2. w.open \in BOOLEAN /\ w.loop \in BOOLEAN /\ w.recent \in SUBSET Paths  BY <3>1, WatcherFacts
    <3>3. v \in Watchers /\ Sane(v, foreign[i]) /\ \A q \in Paths : Load(v, q) <= Load(w, q)
      <4>1. PICK r \in SUBSET Paths : r = w.recent \cup {p}  BY <3>2
      <4>2. v = [w EXCEPT !.open = w.open, !.loop = w.loop, !.recent = r]  BY <4>1
      <4>3. \A n \in 1..Len(w.raw) : w.raw[n][2] /\ w.raw[n][1] \in w.recent => w.raw[n][1] \in r
        BY <4>1
      <4> HIDE DEF v, w
      <4> QED BY <3>1, <3>2, <4>2, <4>3, MarkedSane, Zenon
    <3>4. watcher' = [watcher EXCEPT ![i] = v]
      <4>1. v = [w EXCEPT !.recent = w.recent \cup {p}]  BY <3>1 DEF Watchers
      <4> QED BY <2>2, <4>1, FileFacts DEF F!Mark, F!MarkOwnWrite
    <3>5. v.open = w.open /\ v.loop = w.loop /\ v.recent = w.recent \cup {p}  BY <3>1 DEF Watchers
    <3> HIDE DEF v
    <3>6. /\ watcher' \in [F!Ids -> Watchers] /\ watcher'[i] = v
          /\ \A j \in F!Ids : j # i => watcher'[j] = watcher[j]
      BY <3>1, <3>3, <3>4, FileFacts
    <3>7. ASSUME NEW j \in F!Ids
          PROVE  /\ Sane(watcher'[j], foreign[j])
                 /\ watcher'[j].open = watcher[j].open /\ watcher'[j].loop = watcher[j].loop
                 /\ watcher[j].recent \subseteq watcher'[j].recent
                 /\ \A q \in Paths : Load(watcher'[j], q) <= Load(watcher[j], q)
      <4>1. CASE j = i  BY <3>3, <3>5, <3>6, <4>1
      <4>2. CASE j # i
        <5>1. watcher'[j] = watcher[j] /\ watcher[j] \in Watchers /\ Sane(watcher[j], foreign[j])
          BY <3>6, <4>2, FileFacts
        <5>2. ASSUME NEW q \in Paths  PROVE Load(watcher[j], q) <= Load(watcher[j], q)
          <6>1. Load(watcher[j], q) \in Nat  BY <5>1, LoadIs
          <6> QED BY <6>1
        <5> QED BY <5>1, <5>2
      <4> QED BY <4>1, <4>2
    <3> QED BY <3>5, <3>6, <3>7
  <2> QED BY <2>1, <2>2
<1>8. FileTyped'  BY <1>0, <1>2, <1>5, <1>7, FileFacts DEF FileTyped
<1>9. Shared'  BY <1>0, <1>6, <1>7, FileFacts DEF Shared
<1>10. Covered'
  <2>1. ASSUME NEW j \in Marked'
        PROVE save'[j].w <= made /\ (save'[j].w # 0 => save'[j].p \in watcher'[save'[j].w].recent)
    <3>1. CASE j = k  BY <1>1, <1>2, <1>7, <3>1, FileFacts DEF Shared
    <3>2. CASE j # k
      <4>1. j \in Marked /\ save'[j] = save[j]  BY <1>2, <1>3, <3>2 DEF Marked
      <4>2. save[j] \in Marks  BY <4>1, FileFacts DEF Marked
      <4>3. save[j].w # 0 => save[j].w \in F!Ids  BY <4>2, MarkIs, IdsAre
      <4> QED BY <1>7, <4>1, <4>3, FileFacts DEF Covered
    <3> QED BY <3>1, <3>2
  <2> QED BY <1>0, <2>1 DEF Covered
<1>11. Counted'
  <2>0. Cardinality(Marked) \in Nat /\ writes \in Nat /\ Cardinality(Marked) <= writes
    BY Finite, FileFacts DEF Counted
  <2>1. ASSUME NEW i \in F!Ids, NEW q \in Paths
        PROVE Load(watcher'[i], q) + (Cardinality(Marked) + 1) <= writes + 1
    <3>1. Load(watcher[i], q) + Cardinality(Marked) <= writes  BY FileFacts DEF Counted
    <3>2. watcher[i] \in Watchers /\ watcher'[i] \in Watchers  BY <1>7, FileFacts
    <3>3. Load(watcher[i], q) \in Nat /\ Load(watcher'[i], q) \in Nat  BY <3>2, LoadIs
    <3>4. Load(watcher'[i], q) <= Load(watcher[i], q)  BY <1>7
    <3> QED BY <2>0, <3>1, <3>3, <3>4
  <2> QED BY <1>0, <1>4, <2>0, <2>1 DEF Counted
<1> QED BY <1>0, <1>7, <1>8, <1>9, <1>10, <1>11 DEF FileInv

LEMMA FileStarts == ASSUME FileBounds, F!Init  PROVE FileInv
<1>0. /\ entry = F!None /\ made = 0 /\ watcher = [i \in F!Ids |-> F!Unmade]
      /\ tab = [t \in Tabs |-> 0] /\ save = [k \in Saves |-> F!NoSave]
      /\ writes = 0 /\ up = TRUE /\ owed = {} /\ foreign = [i \in F!Ids |-> {}]
  BY DEF F!Init
<1>1. F!None.w = 0 /\ F!None.refs = 0 /\ F!None \in [w : 0..MaxWatchers, refs : Nat]
  BY DEF F!None, FileBounds
<1>2. FileTyped  BY <1>0, <1>1, FreshIs DEF FileTyped, FileBounds
<1>3. Holders = {} /\ Marked = {}  BY <1>0 DEF Holders, Marked
<1>4. Cardinality(Holders) = 0 /\ Cardinality(Marked) = 0  BY <1>3, FS_EmptySet
<1>5. Shared  BY <1>0, <1>1, <1>3, <1>4, FreshIs, IdsAre DEF Shared
<1>6. Covered  BY <1>3 DEF Covered
<1>7. Counted  BY <1>0, <1>4, FreshIs DEF Counted
<1>8. \A i \in F!Ids : Sane(watcher[i], foreign[i])  BY <1>0, FreshIs
<1> QED BY <1>2, <1>5, <1>6, <1>7, <1>8 DEF FileInv

LEMMA PanicKeeps ==
  ASSUME FileBounds, FileInv, NEW i \in F!Ids, NEW p \in Paths, F!SendOnClosed(i, p)  PROVE FileInv'
<1>0. /\ entry' = F!None /\ watcher' = [j \in F!Ids |-> F!Unmade]
      /\ tab' = [t \in Tabs |-> 0] /\ save' = [k \in Saves |-> F!NoSave]
      /\ made' = made /\ writes' = writes /\ up' = FALSE /\ owed' = {} /\ foreign' = [j \in F!Ids |-> {}]
  BY DEF F!SendOnClosed
<1>1. F!None.w = 0 /\ F!None.refs = 0 /\ F!None \in [w : 0..MaxWatchers, refs : Nat]
  BY DEF F!None, FileBounds
<1>2. FileTyped'  BY <1>0, <1>1, FreshIs, FileFacts DEF FileTyped
<1>3. Holders' = {} /\ Marked' = {}  BY <1>0 DEF Holders, Marked
<1>4. Cardinality(Holders') = 0 /\ Cardinality(Marked') = 0  BY <1>3, FS_EmptySet
<1>5. Shared'  BY <1>0, <1>1, <1>3, <1>4, FreshIs, IdsAre, FileFacts DEF Shared
<1>6. Covered'  BY <1>3 DEF Covered
<1>7. Counted'
  <2>1. \A j \in F!Ids, q \in Paths : Load(watcher'[j], q) = 0  BY <1>0, FreshIs
  <2>2. writes \in Nat  BY FileFacts
  <2> QED BY <1>0, <1>4, <2>1, <2>2 DEF Counted
<1>8. \A j \in F!Ids : Sane(watcher'[j], foreign'[j])  BY <1>0, FreshIs
<1> QED BY <1>2, <1>5, <1>6, <1>7, <1>8 DEF FileInv

LEMMA RestKeeps ==
  ASSUME FileBounds, FileInv, F!Restart \/ UNCHANGED fvars  PROVE FileInv'
<1>1. UNCHANGED <<entry, made, watcher, tab, save, writes, owed, foreign>> /\ up' \in BOOLEAN
  BY FileFacts DEF F!Restart, fvars
<1>2. Holders' = Holders /\ Marked' = Marked  BY <1>1 DEF Holders, Marked
<1>3. FileTyped'  BY <1>1, FileFacts DEF FileTyped
<1>4. Shared' /\ Covered' /\ Counted'  BY <1>1, <1>2, FileFacts DEF Shared, Covered, Counted
<1> QED BY <1>1, <1>3, <1>4, FileFacts DEF FileInv

LEMMA FileKeeps == ASSUME FileBounds, FileInv, F!Next \/ UNCHANGED fvars  PROVE FileInv'
<1>1. CASE \E t \in Tabs : F!Subscribe(t) \/ F!Unsubscribe(t) \/ F!Takes(t)
  BY <1>1, SubscribeKeeps, UnsubscribeKeeps, HandKeeps, HandFailsKeeps DEF F!Takes
<1>2. CASE \E p \in Paths : F!WriteOutside(p)  BY <1>2, OutsideKeeps
<1>3. CASE \E k \in Saves : F!WriteSaved(k) \/ F!SaveFails(k) \/ \E p \in Paths : F!Mark(k, p)
  BY <1>3, SavedKeeps, FailsKeeps, MarkKeeps
<1>4. CASE \E i \in F!Ids : F!WatcherStep(i) \/ \E p \in Paths : F!WindowEnds(i, p)
  <2>1. PICK i \in F!Ids : F!WatcherStep(i) \/ \E p \in Paths : F!WindowEnds(i, p)  BY <1>4
  <2>2. CASE F!RawEvent(i) \/ F!LoopEnds(i)  BY <2>2, RawKeeps, LoopKeeps
  <2>3. CASE \E p \in Paths : F!TimerFires(i, p) \/ F!Report(i, p) \/ F!GiveUp(i, p)
    BY <2>3, TimerKeeps, SelectKeeps
  <2>4. CASE \E p \in Paths : F!SendOnClosed(i, p) \/ F!WindowEnds(i, p)
    BY <2>4, PanicKeeps, WindowKeeps
  <2> QED BY <2>1, <2>2, <2>3, <2>4 DEF F!WatcherStep, F!Runs
<1>5. CASE F!Restart \/ UNCHANGED fvars  BY <1>5, RestKeeps
<1> QED BY <1>1, <1>2, <1>3, <1>4, <1>5 DEF F!Next

\* FileWatch's Cardinality is FiniteSets'.
LEMMA SameCount == ASSUME NEW Q  PROVE F!Cardinality(Q) = Cardinality(Q)
BY DEF F!Cardinality, Cardinality

LEMMA FileShows == ASSUME FileBounds, FileInv  PROVE WatcherSound
<1>1. F!TypeOK
  <2>1. entry \in [w : 0..MaxWatchers, refs : 0..F!Cardinality(Tabs)]
    <3>1. entry.refs \in 0..Cardinality(Tabs)  BY Finite, FileFacts DEF Shared
    <3>2. entry.refs \in 0..F!Cardinality(Tabs)  BY <3>1, SameCount, Zenon
    <3> QED BY <3>2, FileFacts
  <2>2. ASSUME NEW i \in F!Ids
        PROVE  watcher[i] \in [open : BOOLEAN, loop : BOOLEAN, raw : Seq(Paths \X BOOLEAN),
                               recent : SUBSET Paths, timers : SUBSET Paths,
                               fired : [Paths -> 0..MaxWrites], chan : Seq(Paths)]
    <3>1. watcher[i] \in Watchers  BY FileFacts
    <3>2. ASSUME NEW p \in Paths  PROVE watcher[i].fired[p] \in 0..MaxWrites
      <4> DEFINE m == IF p \in watcher[i].timers THEN 1 ELSE 0
      <4>1. /\ watcher[i].fired[p] \in Nat /\ m \in Nat /\ Len(watcher[i].raw) \in Nat
            /\ Cardinality(Marked) \in Nat /\ writes \in 0..MaxWrites /\ MaxWrites \in Nat
        BY <3>1, WatcherFacts, Finite, FileFacts
      <4>2. watcher[i].fired[p] + m + Len(watcher[i].raw) + Cardinality(Marked) <= writes
        BY FileFacts DEF Counted, Load
      <4> HIDE DEF m
      <4>3. \A f, l, c, n, k \in Nat : \A j \in 0..n :
              f + k + l + c <= j => f \in 0..n
        OBVIOUS
      <4> QED BY <4>1, <4>2, <4>3
    <3>3. watcher[i].fired \in [Paths -> 0..MaxWrites]  BY <3>1, <3>2, WatcherFacts
    <3> QED BY <3>1, <3>3 DEF Watchers, Events
  <2>3. \A i \in F!Ids : Len(watcher[i].chan) <= Cap  BY FileFacts DEF Sane
  <2>4. save \in [Saves -> {F!NoSave} \cup [at : {"marked"}, p : Paths, w : 0..MaxWatchers]]
    BY FileFacts, Zenon DEF Marks
  <2>5. watcher \in [F!Ids -> [open : BOOLEAN, loop : BOOLEAN, raw : Seq(Paths \X BOOLEAN),
                              recent : SUBSET Paths, timers : SUBSET Paths,
                              fired : [Paths -> 0..MaxWrites], chan : Seq(Paths)]]
    <3>1. watcher = [i \in F!Ids |-> watcher[i]]  BY FileFacts
    <3> QED BY <2>2, <3>1
  <2> QED BY <2>1, <2>3, <2>4, <2>5, FileFacts DEF F!TypeOK
<1>2. F!OneWatcher
  <2>1. \A t \in Tabs : tab[t] # 0 => tab[t] = entry.w /\ watcher[entry.w].loop
    BY FileFacts DEF Shared, Holders
  <2>2. Holders = {t \in Tabs : tab[t] # 0}  BY DEF Holders
  <2>3. entry.refs = Cardinality({t \in Tabs : tab[t] # 0})  BY <2>2, FileFacts, Zenon DEF Shared
  <2>4. \A i \in F!Ids : watcher[i].open <=> i = entry.w  BY FileFacts DEF Shared
  <2>5. entry.refs = F!Cardinality({t \in Tabs : tab[t] # 0})  BY <2>3, SameCount, Zenon
  <2> QED BY <2>1, <2>4, <2>5, Zenon DEF F!OneWatcher
<1>3. F!OwnSaveUntold
  <2>1. ASSUME NEW i \in F!Ids, NEW p \in Paths, p \in F!ToSet(watcher[i].chan)
        PROVE p \in foreign[i]
    <3>1. watcher[i].chan \in Seq(Paths)  BY FileFacts, WatcherFacts
    <3>2. PICK n \in 1..Len(watcher[i].chan) : watcher[i].chan[n] = p  BY <2>1, <3>1, Members
    <3> QED BY <3>2, FileFacts DEF Sane
  <2>2. \A i \in F!Ids, p \in Paths :
          p \in watcher[i].timers \/ watcher[i].fired[p] > 0 => p \in foreign[i]
    BY FileFacts DEF Sane
  <2> QED BY <2>1, <2>2 DEF F!OwnSaveUntold
<1> QED BY <1>1, <1>2, <1>3 DEF WatcherSound, F!WatcherSound

\* There is one watcher, live exactly while tabs follow the worktree and counted by
\* each of them, and nobody is told of a write that was the server's own
\* (watch.go).
THEOREM WatchersStaySound == ASSUME FileBounds  PROVE ServicesSpec => []WatcherSound
<1>1. ServicesInit => FileInv  BY FileStarts DEF ServicesInit
<1>2. FileInv /\ [ServicesNext]_allvars => FileInv'
  <2>1. [ServicesNext]_allvars => F!Next \/ UNCHANGED fvars  BY DEF ServicesNext, allvars
  <2> QED BY <2>1, FileKeeps
<1>3. FileInv => WatcherSound  BY FileShows
<1> QED BY <1>1, <1>2, <1>3, PTL DEF ServicesSpec

-----------------------------------------------------------------------------
(***************************************************************************)
(* Claude Code's hooks (ClaudeHooks).                                      *)
(***************************************************************************)
\* No other hook is one of the server's scripts.
OthersDiffer == Others \cap C!Ids = {}

\* Where a sequence of groups has command g.
Spots(s, g) == {i \in DOMAIN s : g \in s[i]}

\* An event's groups as the server's calls leave them: a script of ours is in one
\* group at most, and two of them are never in the same.
Tidied(s) ==
  /\ s \in Seq(SUBSET C!Commands)
  /\ \A id \in C!Ids, i, j \in DOMAIN s : id \in s[i] /\ id \in s[j] => i = j
  /\ \A id, jd \in C!Ids, i \in DOMAIN s : id \in s[i] /\ jd \in s[i] => id = jd

LEMMA GroupFacts ==
  ASSUME NEW s \in Seq(SUBSET C!Commands)
  PROVE  DOMAIN s = 1..Len(s) /\ Len(s) \in Nat /\ \A i \in DOMAIN s : s[i] \in SUBSET C!Commands
<1>1. DOMAIN s = 1..Len(s) /\ Len(s) \in Nat  BY LenProperties
<1>2. \A i \in 1..Len(s) : s[i] \in SUBSET C!Commands  BY ElementOfSeq
<1> QED BY <1>1, <1>2

\* A new group at the end.
LEMMA GroupAdded ==
  ASSUME NEW s, Tidied(s), NEW g \in SUBSET C!Commands,
         \A id \in C!Ids : id \in g => Spots(s, id) = {} /\ \A jd \in C!Ids : jd \in g => id = jd,
         NEW t, t = Append(s, g)
  PROVE  /\ Tidied(t)
         /\ \A q : Spots(t, q) # {} <=> Spots(s, q) # {} \/ q \in g
<1>1. s \in Seq(SUBSET C!Commands)  BY DEF Tidied
<1>2. /\ t \in Seq(SUBSET C!Commands) /\ Len(s) \in Nat /\ Len(t) = Len(s) + 1
      /\ t[Len(s) + 1] = g /\ \A n \in 1..Len(s) : t[n] = s[n]
  BY <1>1, AppendProperties
<1>3. DOMAIN s = 1..Len(s) /\ DOMAIN t = 1..(Len(s) + 1)  BY <1>1, <1>2, GroupFacts
<1>4. DOMAIN t = DOMAIN s \cup {Len(s) + 1} /\ Len(s) + 1 \notin DOMAIN s  BY <1>2, <1>3
<1>5. \A i \in DOMAIN s : t[i] = s[i]  BY <1>2, <1>3
<1>6. \A id \in C!Ids, i, j \in DOMAIN t : id \in t[i] /\ id \in t[j] => i = j
  <2> SUFFICES ASSUME NEW id \in C!Ids, NEW i \in DOMAIN t, NEW j \in DOMAIN t, id \in t[i], id \in t[j]
               PROVE  i = j
    OBVIOUS
  <2>1. CASE i \in DOMAIN s /\ j \in DOMAIN s  BY <1>5, <2>1 DEF Tidied
  <2>2. CASE id \in g
    <3>1. \A k \in DOMAIN s : id \notin s[k]  BY <2>2 DEF Spots
    <3> QED BY <1>4, <1>5, <3>1
  <2> QED BY <1>2, <1>4, <2>1, <2>2
<1>7. \A id, jd \in C!Ids, i \in DOMAIN t : id \in t[i] /\ jd \in t[i] => id = jd
  BY <1>2, <1>4, <1>5 DEF Tidied
<1>8. ASSUME NEW q  PROVE Spots(t, q) # {} <=> Spots(s, q) # {} \/ q \in g
  BY <1>2, <1>4, <1>5 DEF Spots
<1> QED BY <1>2, <1>6, <1>7, <1>8 DEF Tidied

\* Another group in the place of one.
LEMMA GroupReplaced ==
  ASSUME NEW s, Tidied(s), NEW i \in DOMAIN s, NEW t \in Seq(SUBSET C!Commands), DOMAIN t = DOMAIN s,
         \A id \in C!Ids : id \in t[i] => id \in s[i],
         \A n \in DOMAIN s : n # i => t[n] = s[n]
  PROVE  /\ Tidied(t)
         /\ \A q : Spots(t, q) # {} => Spots(s, q) # {} \/ q \in t[i]
         /\ \A q : Spots(s, q) # {} /\ (q \in s[i] => q \in t[i]) => Spots(t, q) # {}
<1>3. \A id \in C!Ids, n \in DOMAIN s : id \in t[n] => id \in s[n]  OBVIOUS
<1>4. Tidied(t)  BY <1>3, Zenon DEF Tidied
<1>5. ASSUME NEW q, Spots(t, q) # {}  PROVE Spots(s, q) # {} \/ q \in t[i]
  BY <1>5 DEF Spots
<1>6. ASSUME NEW q, Spots(s, q) # {}, q \in s[i] => q \in t[i]  PROVE Spots(t, q) # {}
  <2>1. PICK n \in DOMAIN s : q \in s[n]  BY <1>6 DEF Spots
  <2>2. q \in t[n]  BY <1>6, <2>1
  <2> QED BY <2>1, <2>2 DEF Spots
<1> QED BY <1>4, <1>5, <1>6

\* One group less.
LEMMA GroupRemoved ==
  ASSUME NEW s, Tidied(s), NEW i \in DOMAIN s, NEW t, t = C!RemoveAt(s, i)
  PROVE  /\ Tidied(t) /\ t # s
         /\ \A q : Spots(t, q) # {} => Spots(s, q) # {}
         /\ \A q : Spots(s, q) \notin {{}, {i}} => Spots(t, q) # {}
         /\ \A id \in C!Ids : Spots(t, id) # {} <=> Spots(s, id) # {} /\ id \notin s[i]
<1> DEFINE a1 == SubSeq(s, 1, i - 1)
           a2 == SubSeq(s, i + 1, Len(s))
<1>1. /\ s \in Seq(SUBSET C!Commands) /\ DOMAIN s = 1..Len(s) /\ Len(s) \in Nat /\ i \in 1..Len(s)
      /\ \A n \in 1..Len(s) : s[n] \in SUBSET C!Commands
  BY GroupFacts DEF Tidied
<1>2. /\ a1 \in Seq(SUBSET C!Commands) /\ Len(a1) = i - 1 /\ \A n \in 1..(i - 1) : a1[n] = s[n]
  <2>1. \A n \in 1..(i - 1) : s[n] \in SUBSET C!Commands  BY <1>1
  <2>2. /\ a1 \in Seq(SUBSET C!Commands) /\ Len(a1) = IF 1 <= i - 1 THEN (i - 1) - 1 + 1 ELSE 0
        /\ \A n \in 1..((i - 1) - 1 + 1) : a1[n] = s[1 + n - 1]
    BY <1>1, <2>1, SubSeqProperties
  <2> QED BY <1>1, <2>2
<1>3. /\ a2 \in Seq(SUBSET C!Commands) /\ Len(a2) = Len(s) - i /\ \A n \in 1..(Len(s) - i) : a2[n] = s[i + n]
  <2>1. \A n \in (i + 1)..Len(s) : s[n] \in SUBSET C!Commands  BY <1>1
  <2>2. /\ a2 \in Seq(SUBSET C!Commands) /\ Len(a2) = IF i + 1 <= Len(s) THEN Len(s) - (i + 1) + 1 ELSE 0
        /\ \A n \in 1..(Len(s) - (i + 1) + 1) : a2[n] = s[(i + 1) + n - 1]
    BY <1>1, <2>1, SubSeqProperties
  <2> QED BY <1>1, <2>2
<1> HIDE DEF a1, a2
<1>4. t = a1 \o a2  BY DEF C!RemoveAt, a1, a2
<1>5. /\ t \in Seq(SUBSET C!Commands) /\ Len(t) = Len(s) - 1
      /\ \A n \in 1..(Len(s) - 1) : t[n] = IF n < i THEN s[n] ELSE s[n + 1]
  <2>1. /\ t \in Seq(SUBSET C!Commands) /\ Len(t) = Len(a1) + Len(a2)
        /\ \A n \in 1..(Len(a1) + Len(a2)) : t[n] = IF n <= Len(a1) THEN a1[n] ELSE a2[n - Len(a1)]
    BY <1>2, <1>3, <1>4, ConcatProperties
  <2>2. Len(t) = Len(s) - 1  BY <1>1, <1>2, <1>3, <2>1
  <2>3. ASSUME NEW n \in 1..(Len(s) - 1)  PROVE t[n] = IF n < i THEN s[n] ELSE s[n + 1]
    <3>1. CASE n < i  BY <1>1, <1>2, <1>3, <2>1, <3>1
    <3>2. CASE ~(n < i)
      <4>1. n - (i - 1) \in 1..(Len(s) - i) /\ i + (n - (i - 1)) = n + 1  BY <1>1, <3>2
      <4>2. t[n] = a2[n - (i - 1)]  BY <1>1, <1>2, <1>3, <2>1, <3>2
      <4> QED BY <1>3, <3>2, <4>1, <4>2
    <3> QED BY <3>1, <3>2
  <2> QED BY <2>1, <2>2, <2>3
<1>6. DOMAIN t = 1..(Len(s) - 1)  BY <1>5, GroupFacts
<1> DEFINE M(n) == IF n < i THEN n ELSE n + 1
<1>7. \A n \in DOMAIN t : M(n) \in DOMAIN s /\ M(n) # i /\ t[n] = s[M(n)]
  BY <1>1, <1>5, <1>6
<1>8. \A n, m \in DOMAIN t : M(n) = M(m) => n = m  BY <1>1, <1>6
<1>9. ASSUME NEW m \in DOMAIN s, m # i  PROVE \E n \in DOMAIN t : M(n) = m
  <2>1. CASE m < i  BY <1>1, <1>6, <2>1
  <2>2. CASE ~(m < i)
    <3>1. m - 1 \in DOMAIN t /\ ~(m - 1 < i) /\ (m - 1) + 1 = m  BY <1>1, <1>6, <1>9, <2>2
    <3> QED BY <3>1
  <2> QED BY <2>1, <2>2
<1> HIDE DEF M
<1>10. Tidied(t)
  <2>1. \A id \in C!Ids, n, m \in DOMAIN t : id \in t[n] /\ id \in t[m] => n = m
    BY <1>7, <1>8 DEF Tidied
  <2>2. \A id, jd \in C!Ids, n \in DOMAIN t : id \in t[n] /\ jd \in t[n] => id = jd
    BY <1>7 DEF Tidied
  <2> QED BY <1>5, <2>1, <2>2 DEF Tidied
<1>11. ASSUME NEW q, Spots(t, q) # {}  PROVE Spots(s, q) # {}
  BY <1>7, <1>11 DEF Spots
<1>12. ASSUME NEW q, NEW m \in Spots(s, q), m # i  PROVE Spots(t, q) # {}
  <2>1. PICK n \in DOMAIN t : M(n) = m  BY <1>9, <1>12 DEF Spots
  <2> QED BY <1>7, <1>12, <2>1 DEF Spots
<1>13. ASSUME NEW id \in C!Ids  PROVE Spots(t, id) # {} <=> Spots(s, id) # {} /\ id \notin s[i]
  <2>1. ASSUME Spots(t, id) # {}  PROVE Spots(s, id) # {} /\ id \notin s[i]
    <3>1. PICK n \in DOMAIN t : id \in t[n]  BY <2>1 DEF Spots
    <3>2. M(n) \in DOMAIN s /\ M(n) # i /\ id \in s[M(n)]  BY <1>7, <3>1
    <3>3. id \notin s[i]  BY <3>2 DEF Tidied
    <3> QED BY <3>2, <3>3 DEF Spots
  <2>2. ASSUME Spots(s, id) # {}, id \notin s[i]  PROVE Spots(t, id) # {}
    <3>1. PICK m \in Spots(s, id) : m # i  BY <2>2 DEF Spots
    <3> QED BY <1>12, <3>1
  <2> QED BY <2>1, <2>2
<1>14. t # s  BY <1>1, <1>5
<1>15. ASSUME NEW q, Spots(s, q) \notin {{}, {i}}  PROVE Spots(t, q) # {}
  <2>1. PICK m \in Spots(s, q) : m # i  BY <1>15
  <2> QED BY <1>12, <2>1
<1> QED BY <1>10, <1>11, <1>13, <1>14, <1>15

\* Whether event e runs q.
Runs(h, e, q) == Spots(h[e], q) # {}

\* The settings' hooks as the server's calls leave them.
Neat(h) ==
  /\ h \in [C!Events -> Seq(SUBSET C!Commands)]
  /\ \A e \in C!Events : Tidied(h[e])
  /\ \A e \in C!Events, id \in C!Ids : Runs(h, e, id) => e \in C!EventsOf(id)

\* They are what the requests' answers say, and run only scripts that are there.
Obeys(h, s) ==
  \A id \in C!Ids : /\ s[id] = "in" => \A e \in C!EventsOf(id) : Runs(h, e, id)
                    /\ s[id] = "out" => \A e \in C!Events : ~Runs(h, e, id)
Backed(h, sc) == \A e \in C!Events, id \in C!Ids : Runs(h, e, id) => id \in sc

LEMMA EntryIs == \A h, e, id : C!OurEntry(h, e, id) = Spots(h[e], id)
BY DEF C!OurEntry, Spots

LEMMA EventsAre == \A id : C!EventsOf(id) \subseteq C!Events
BY DEF C!EventsOf, C!Events

LEMMA InstallDoes ==
  ASSUME NEW h, Neat(h), NEW id \in C!Ids, NEW r, r = C!Install(h, id)
  PROVE  /\ Neat(r)
         /\ \A q : \A e \in C!Events : Runs(r, e, q) <=> Runs(h, e, q) \/ (q = id /\ e \in C!EventsOf(id))
<1>1. {id} \in SUBSET C!Commands  BY DEF C!Commands
<1>2. ASSUME NEW e \in C!Events
      PROVE  /\ Tidied(r[e])
             /\ \A q : Spots(r[e], q) # {} <=> Spots(h[e], q) # {} \/ (q = id /\ e \in C!EventsOf(id))
  <2>0. Tidied(h[e])  BY DEF Neat
  <2>1. r[e] = IF e \in C!EventsOf(id) /\ Spots(h[e], id) = {} THEN Append(h[e], {id}) ELSE h[e]
    BY EntryIs DEF C!Install
  <2>2. CASE e \in C!EventsOf(id) /\ Spots(h[e], id) = {}
    <3>1. r[e] = Append(h[e], {id})  BY <2>1, <2>2
    <3>2. \A jd \in C!Ids : jd \in {id} => Spots(h[e], jd) = {} /\ \A kd \in C!Ids : kd \in {id} => jd = kd
      BY <2>2
    <3>3. Tidied(r[e]) /\ \A q : Spots(r[e], q) # {} <=> Spots(h[e], q) # {} \/ q \in {id}
      BY <1>1, <2>0, <3>1, <3>2, GroupAdded
    <3> QED BY <2>2, <3>3
  <2>3. CASE ~(e \in C!EventsOf(id) /\ Spots(h[e], id) = {})
    <3>1. r[e] = h[e]  BY <2>1, <2>3
    <3> QED BY <2>0, <2>3, <3>1
  <2> QED BY <2>2, <2>3
<1>3. r \in [C!Events -> Seq(SUBSET C!Commands)]
  <2>1. \A e \in C!Events : r[e] \in Seq(SUBSET C!Commands)  BY <1>2 DEF Tidied
  <2>2. r = [e \in C!Events |-> r[e]]  BY DEF C!Install
  <2> QED BY <2>1, <2>2
<1>4. \A q : \A e \in C!Events : Runs(r, e, q) <=> Runs(h, e, q) \/ (q = id /\ e \in C!EventsOf(id))
  BY <1>2 DEF Runs
<1>5. \A e \in C!Events, jd \in C!Ids : Runs(r, e, jd) => e \in C!EventsOf(jd)
  BY <1>4 DEF Neat
<1> QED BY <1>2, <1>3, <1>4, <1>5 DEF Neat

\* The one place of an entry is the least.
LEMMA EntryAt ==
  ASSUME NEW s, Tidied(s), NEW id \in C!Ids, Spots(s, id) # {}
  PROVE  C!Min(Spots(s, id)) \in DOMAIN s /\ id \in s[C!Min(Spots(s, id))] /\ Spots(s, id) = {C!Min(Spots(s, id))}
<1>1. PICK i \in DOMAIN s : id \in s[i]  BY DEF Spots
<1>2. Spots(s, id) = {i}  BY <1>1 DEF Spots, Tidied
<1>3. i \in Nat  BY GroupFacts DEF Tidied
<1>4. C!Min({i}) = i  BY <1>3 DEF C!Min
<1> QED BY <1>1, <1>2, <1>4

LEMMA UninstallDoes ==
  ASSUME NEW h, Neat(h), NEW id \in C!Ids, NEW r, r = C!Uninstall(h, id)
  PROVE  /\ Neat(r)
         /\ \A e \in C!Events, jd \in C!Ids : Runs(r, e, jd) <=> Runs(h, e, jd) /\ jd # id
<1>1. ASSUME NEW e \in C!Events
      PROVE  /\ Tidied(r[e])
             /\ \A jd \in C!Ids : Spots(r[e], jd) # {} <=> Spots(h[e], jd) # {} /\ jd # id
  <2>0. Tidied(h[e]) /\ (Spots(h[e], id) # {} => e \in C!EventsOf(id))  BY DEF Neat, Runs
  <2>1. r[e] = IF e \in C!EventsOf(id) /\ Spots(h[e], id) # {}
               THEN C!RemoveAt(h[e], C!Min(Spots(h[e], id))) ELSE h[e]
    BY EntryIs DEF C!Uninstall
  <2>2. CASE Spots(h[e], id) # {}
    <3>1. PICK i \in DOMAIN h[e] : i = C!Min(Spots(h[e], id)) /\ id \in h[e][i]
      BY <2>0, <2>2, EntryAt
    <3>2. r[e] = C!RemoveAt(h[e], i)  BY <2>0, <2>1, <2>2, <3>1
    <3>3. Tidied(r[e]) /\ \A jd \in C!Ids : Spots(r[e], jd) # {} <=> Spots(h[e], jd) # {} /\ jd \notin h[e][i]
      BY <2>0, <3>2, GroupRemoved
    <3>4. \A jd \in C!Ids : jd \in h[e][i] <=> jd = id  BY <2>0, <3>1 DEF Tidied
    <3> QED BY <3>3, <3>4
  <2>3. CASE Spots(h[e], id) = {}
    <3>1. r[e] = h[e]  BY <2>1, <2>3
    <3> QED BY <2>0, <2>3, <3>1
  <2> QED BY <2>2, <2>3
<1>2. r \in [C!Events -> Seq(SUBSET C!Commands)]
  <2>1. \A e \in C!Events : r[e] \in Seq(SUBSET C!Commands)  BY <1>1 DEF Tidied
  <2>2. r = [e \in C!Events |-> r[e]]  BY DEF C!Uninstall
  <2> QED BY <2>1, <2>2
<1>3. \A e \in C!Events, jd \in C!Ids : Runs(r, e, jd) <=> Runs(h, e, jd) /\ jd # id
  BY <1>1 DEF Runs
<1>4. \A e \in C!Events, jd \in C!Ids : Runs(r, e, jd) => e \in C!EventsOf(jd)
  BY <1>3 DEF Neat
<1> QED BY <1>1, <1>2, <1>3, <1>4 DEF Neat

CallAt == {"script", "read", "backup", "truncate", "fill"}
CallRecs == [at : CallAt, alone : BOOLEAN, op : {"install", "uninstall"}, id : C!Ids,
             got : [C!Events -> Seq(SUBSET C!Commands)]]

\* What a call makes of the settings it read.
LEMMA ResultDoes ==
  ASSUME NEW c \in CallRecs, Neat(c.got), NEW r, r = C!Result(c)
  PROVE  /\ Neat(r)
         /\ \A s, t : /\ Obeys(c.got, s) /\ t[c.id] = C!Aim(c)
                      /\ \A id \in C!Ids : id # c.id => t[id] = s[id]
                      => Obeys(r, t)
         /\ \A sc : Backed(c.got, sc) /\ (c.op = "install" => c.id \in sc) => Backed(r, sc)
<1>0. c.id \in C!Ids /\ c.op \in {"install", "uninstall"}  BY DEF CallRecs
<1>1. CASE c.op = "install"
  <2>1. r = C!Install(c.got, c.id) /\ C!Aim(c) = "in"  BY <1>1 DEF C!Result, C!Aim
  <2>2. /\ Neat(r)
        /\ \A q : \A e \in C!Events :
             Runs(r, e, q) <=> Runs(c.got, e, q) \/ (q = c.id /\ e \in C!EventsOf(c.id))
    BY <1>0, <2>1, InstallDoes
  <2>3. ASSUME NEW s, NEW t, Obeys(c.got, s), t[c.id] = "in",
               \A id \in C!Ids : id # c.id => t[id] = s[id]
        PROVE  Obeys(r, t)
    <3> SUFFICES ASSUME NEW id \in C!Ids
                 PROVE  /\ t[id] = "in" => \A e \in C!EventsOf(id) : Runs(r, e, id)
                        /\ t[id] = "out" => \A e \in C!Events : ~Runs(r, e, id)
      BY DEF Obeys
    <3>1. CASE id = c.id  BY <2>2, <2>3, <3>1, EventsAre
    <3>2. CASE id # c.id  BY <2>2, <2>3, <3>2, EventsAre DEF Obeys
    <3> QED BY <3>1, <3>2
  <2>4. \A sc : Backed(c.got, sc) /\ c.id \in sc => Backed(r, sc)  BY <2>2 DEF Backed
  <2> QED BY <1>1, <2>1, <2>2, <2>3, <2>4
<1>2. CASE c.op = "uninstall"
  <2>1. r = C!Uninstall(c.got, c.id) /\ C!Aim(c) = "out"  BY <1>2 DEF C!Result, C!Aim
  <2>2. Neat(r) /\ \A e \in C!Events, jd \in C!Ids : Runs(r, e, jd) <=> Runs(c.got, e, jd) /\ jd # c.id
    BY <1>0, <2>1, UninstallDoes
  <2>3. ASSUME NEW s, NEW t, Obeys(c.got, s), t[c.id] = "out",
               \A id \in C!Ids : id # c.id => t[id] = s[id]
        PROVE  Obeys(r, t)
    <3> SUFFICES ASSUME NEW id \in C!Ids
                 PROVE  /\ t[id] = "in" => \A e \in C!EventsOf(id) : Runs(r, e, id)
                        /\ t[id] = "out" => \A e \in C!Events : ~Runs(r, e, id)
      BY DEF Obeys
    <3>1. CASE id = c.id  BY <2>2, <2>3, <3>1, EventsAre
    <3>2. CASE id # c.id  BY <2>2, <2>3, <3>2, EventsAre DEF Obeys
    <3> QED BY <3>1, <3>2
  <2>4. \A sc : Backed(c.got, sc) => Backed(r, sc)  BY <2>2 DEF Backed
  <2> QED BY <1>2, <2>1, <2>2, <2>3, <2>4
<1> QED BY <1>0, <1>1, <1>2

\* What an edit makes of the settings: it takes away nobody's hook but the server's.
Edited(h, r) ==
  /\ Neat(r)
  /\ \A e \in C!Events, q \in Others : Runs(h, e, q) => Runs(r, e, q)
  /\ \A e \in C!Events, id \in C!Ids : Runs(r, e, id) => Runs(h, e, id)

LEMMA EditOf ==
  ASSUME NEW h, Neat(h), NEW e \in C!Events, NEW s, Tidied(s), NEW r, r = [h EXCEPT ![e] = s],
         \A q \in Others : Spots(h[e], q) # {} => Spots(s, q) # {},
         \A id \in C!Ids : Spots(s, id) # {} => Spots(h[e], id) # {}
  PROVE  Edited(h, r)
<1>0. h \in [C!Events -> Seq(SUBSET C!Commands)] /\ s \in Seq(SUBSET C!Commands)
  BY DEF Neat, Tidied
<1>1. /\ r \in [C!Events -> Seq(SUBSET C!Commands)] /\ r[e] = s
      /\ \A f \in C!Events : f # e => r[f] = h[f]
  BY <1>0
<1>2. \A f \in C!Events : Tidied(r[f])  BY <1>1 DEF Neat
<1>3. ASSUME NEW f \in C!Events, NEW q \in Others, Runs(h, f, q)  PROVE Runs(r, f, q)
  BY <1>1, <1>3 DEF Runs
<1>4. ASSUME NEW f \in C!Events, NEW id \in C!Ids, Runs(r, f, id)  PROVE Runs(h, f, id)
  BY <1>1, <1>4 DEF Runs
<1>5. \A f \in C!Events, id \in C!Ids : Runs(r, f, id) => f \in C!EventsOf(id)
  BY <1>4 DEF Neat
<1> QED BY <1>1, <1>2, <1>3, <1>4, <1>5 DEF Edited, Neat

LEMMA AddGroupDoes ==
  ASSUME OthersDiffer, NEW h, Neat(h), NEW e \in C!Events, NEW c \in Others,
         NEW r, r = [h EXCEPT ![e] = Append(h[e], {c})]
  PROVE  Edited(h, r)
<1>0. Tidied(h[e])  BY DEF Neat
<1>1. {c} \in SUBSET C!Commands /\ \A id \in C!Ids : id \notin {c}  BY DEF C!Commands, OthersDiffer
<1>2. /\ Tidied(Append(h[e], {c}))
      /\ \A q : Spots(Append(h[e], {c}), q) # {} <=> Spots(h[e], q) # {} \/ q \in {c}
  BY <1>0, <1>1, GroupAdded
<1> QED BY <1>1, <1>2, EditOf

LEMMA AddToGroupDoes ==
  ASSUME OthersDiffer, NEW h, Neat(h), NEW e \in C!Events, NEW i \in DOMAIN h[e], NEW c \in Others,
         NEW r, r = [h EXCEPT ![e][i] = h[e][i] \cup {c}]
  PROVE  Edited(h, r)
<1> DEFINE g == h[e][i] \cup {c}
           t == [h[e] EXCEPT ![i] = g]
<1>0. Tidied(h[e]) /\ h \in [C!Events -> Seq(SUBSET C!Commands)]  BY DEF Neat
<1>1. g \in SUBSET C!Commands
  <2>1. h[e][i] \in SUBSET C!Commands  BY <1>0, GroupFacts
  <2> QED BY <2>1 DEF C!Commands
<1>2. \A id \in C!Ids : id \in g => id \in h[e][i]  BY DEF OthersDiffer
<1>3. r = [h EXCEPT ![e] = t]  BY <1>0
<1>4. h[e][i] \subseteq g /\ \A id \in C!Ids : id # c  BY DEF OthersDiffer
<1> HIDE DEF g
<1>5. /\ Tidied(t)
      /\ \A q : Spots(t, q) # {} => Spots(h[e], q) # {} \/ q \in g
      /\ \A q : Spots(h[e], q) # {} /\ (q \in h[e][i] => q \in g) => Spots(t, q) # {}
  <2>1. h[e] \in Seq(SUBSET C!Commands) /\ i \in 1..Len(h[e])  BY <1>0, <1>1, GroupFacts
  <2>2. t \in Seq(SUBSET C!Commands)  BY <1>1, <2>1, ExceptSeq
  <2>3. DOMAIN t = DOMAIN h[e] /\ t[i] = g /\ \A n \in DOMAIN h[e] : n # i => t[n] = h[e][n]
    BY <1>1
  <2>4. \A jd \in C!Ids : jd \in t[i] => jd \in h[e][i]  BY <1>2, <2>3
  <2> HIDE DEF t
  <2> QED BY <1>0, <1>1, <2>2, <2>3, <2>4, GroupReplaced, SMTT(30)
<1>6. \A q \in Others : Spots(h[e], q) # {} => Spots(t, q) # {}  BY <1>4, <1>5
<1>7. \A id \in C!Ids : Spots(t, id) # {} => Spots(h[e], id) # {}
  BY <1>2, <1>5 DEF Spots
<1> HIDE DEF t
<1> QED BY <1>3, <1>5, <1>6, <1>7, EditOf

LEMMA DropEntryDoes ==
  ASSUME OthersDiffer, NEW h, Neat(h), NEW e \in C!Events, NEW id \in C!Ids,
         NEW i \in DOMAIN h[e],
         NEW r, r = [h EXCEPT ![e][i] = h[e][i] \ {id}]
  PROVE  Edited(h, r)
<1> DEFINE g == h[e][i] \ {id}
           t == [h[e] EXCEPT ![i] = g]
<1>0. Tidied(h[e]) /\ h \in [C!Events -> Seq(SUBSET C!Commands)]  BY DEF Neat
<1>1. g \in SUBSET C!Commands
  <2>1. h[e][i] \in SUBSET C!Commands  BY <1>0, GroupFacts
  <2> QED BY <2>1
<1>2. g \subseteq h[e][i] /\ \A q \in Others : q \in h[e][i] => q \in g  BY DEF OthersDiffer
<1>3. r = [h EXCEPT ![e] = t]  BY <1>0
<1> HIDE DEF g
<1>5. /\ Tidied(t)
      /\ \A q : Spots(t, q) # {} => Spots(h[e], q) # {} \/ q \in g
      /\ \A q : Spots(h[e], q) # {} /\ (q \in h[e][i] => q \in g) => Spots(t, q) # {}
  <2>1. h[e] \in Seq(SUBSET C!Commands) /\ i \in 1..Len(h[e])  BY <1>0, <1>1, GroupFacts
  <2>2. t \in Seq(SUBSET C!Commands)  BY <1>1, <2>1, ExceptSeq
  <2>3. DOMAIN t = DOMAIN h[e] /\ t[i] = g /\ \A n \in DOMAIN h[e] : n # i => t[n] = h[e][n]
    BY <1>1
  <2>4. \A jd \in C!Ids : jd \in t[i] => jd \in h[e][i]  BY <1>2, <2>3
  <2> HIDE DEF t
  <2> QED BY <1>0, <1>1, <2>2, <2>3, <2>4, GroupReplaced, SMTT(30)
<1>6. \A q \in Others : Spots(h[e], q) # {} => Spots(t, q) # {}  BY <1>2, <1>5
<1>7. \A jd \in C!Ids : Spots(t, jd) # {} => Spots(h[e], jd) # {}
  BY <1>1, <1>2, <1>5 DEF Spots
<1> HIDE DEF t
<1> QED BY <1>3, <1>5, <1>6, <1>7, EditOf

Files == [ok : BOOLEAN, hooks : [C!Events -> Seq(SUBSET C!Commands)]]

\* A settings file, or a copy of one: a truncated one has no hooks at all.
FileOk(f, sc) ==
  /\ f \in Files /\ Neat(f.hooks) /\ Backed(f.hooks, sc)
  /\ ~f.ok => C!TheirsIn(f.hooks) = {}

\* What a call under way knows.  While nobody interferes, what it has read is what
\* is there, until it truncates the file itself.
CallOk(v, sc, f, s) ==
  v # C!Idle =>
    /\ Neat(v.got) /\ Backed(v.got, sc)
    /\ v.op = "install" /\ v.at # "script" => v.id \in sc
    /\ v.alone => /\ v.at \in {"backup", "truncate"} => f.ok /\ v.got = f.hooks
                  /\ v.at = "fill" => ~f.ok /\ Obeys(v.got, s)

HooksTyped ==
  /\ scripts \subseteq C!Ids /\ theirs \subseteq C!Events \X Others /\ late \subseteq theirs
  /\ call \in [Calls -> {C!Idle} \cup CallRecs] /\ should \in [C!Ids -> {"in", "out", "open"}]

\* Whoever is about to overwrite the file has all of it in a backup.
InBackup(z) == \E f \in backups : z \in C!TheirsIn(f.hooks)
BackedUp ==
  (\E k \in Calls : call[k].at \in {"truncate", "fill"}) => \A z \in theirs \ late : InBackup(z)

HookInv ==
  /\ HooksTyped
  /\ FileOk(file, scripts) /\ \A f \in backups : FileOk(f, scripts)
  /\ \A k \in Calls : CallOk(call[k], scripts, file, should)
  /\ file.ok => Obeys(file.hooks, should)
  /\ C!NothingLost /\ BackedUp

LEMMA CallIs ==
  ASSUME NEW v \in {C!Idle} \cup CallRecs
  PROVE  /\ C!Idle.at = "idle"
         /\ v = C!Idle => v.at = "idle"
         /\ v # C!Idle => v \in CallRecs
         /\ v.at # "idle" => v \in CallRecs
         /\ v \in CallRecs => /\ v # C!Idle /\ v.at \in CallAt /\ v.at # "idle" /\ v.alone \in BOOLEAN
                              /\ v.op \in {"install", "uninstall"} /\ v.id \in C!Ids
                              /\ v.got \in [C!Events -> Seq(SUBSET C!Commands)]
<1>1. C!Idle.at = "idle"  BY DEF C!Idle
<1>2. v \in CallRecs => v.at \in CallAt /\ v.at # "idle"  BY DEF CallRecs, CallAt
<1>3. v \in CallRecs => /\ v.alone \in BOOLEAN
                        /\ v.op \in {"install", "uninstall"} /\ v.id \in C!Ids
                        /\ v.got \in [C!Events -> Seq(SUBSET C!Commands)]
  BY DEF CallRecs
<1> QED BY <1>1, <1>2, <1>3

LEMMA NoHooksNeat ==
  /\ C!NoHooks \in [C!Events -> Seq(SUBSET C!Commands)] /\ Neat(C!NoHooks)
  /\ \A sc : Backed(C!NoHooks, sc) /\ \A s : (\A id \in C!Ids : s[id] = "open") => Obeys(C!NoHooks, s)
  /\ C!TheirsIn(C!NoHooks) = {}
<1>1. <<>> \in Seq(SUBSET C!Commands) /\ DOMAIN <<>> = {}  BY EmptySeq, GroupFacts
<1>2. C!NoHooks \in [C!Events -> Seq(SUBSET C!Commands)] /\ \A e \in C!Events : C!NoHooks[e] = <<>>
  BY <1>1 DEF C!NoHooks
<1>3. \A q : \A e \in C!Events : ~Runs(C!NoHooks, e, q)  BY <1>1, <1>2 DEF Runs, Spots
<1>4. Neat(C!NoHooks)  BY <1>1, <1>2, <1>3 DEF Neat, Tidied
<1>5. \A sc : Backed(C!NoHooks, sc)  BY <1>3 DEF Backed
<1>6. \A s : (\A id \in C!Ids : s[id] = "open") => Obeys(C!NoHooks, s)  BY DEF Obeys
<1>7. C!TheirsIn(C!NoHooks) = {}
  <2> SUFFICES ASSUME NEW z \in C!Events \X Others, \E i \in DOMAIN C!NoHooks[z[1]] : TRUE  PROVE FALSE
    BY DEF C!TheirsIn
  <2>1. z[1] \in C!Events  OBVIOUS
  <2> QED BY <1>1, <1>2, <2>1
<1> QED BY <1>2, <1>4, <1>5, <1>6, <1>7

LEMMA TheirsOf ==
  ASSUME NEW h, NEW r, Edited(h, r)
  PROVE  C!TheirsIn(h) \subseteq C!TheirsIn(r)
<1> SUFFICES ASSUME NEW z \in C!Events \X Others, NEW i \in DOMAIN h[z[1]], z[2] \in h[z[1]][i]
             PROVE  \E j \in DOMAIN r[z[1]] : z[2] \in r[z[1]][j]
  BY DEF C!TheirsIn
<1>1. z[1] \in C!Events /\ z[2] \in Others /\ Runs(h, z[1], z[2])  BY DEF Runs, Spots
<1>2. Runs(r, z[1], z[2])  BY <1>1 DEF Edited
<1> QED BY <1>2 DEF Runs, Spots

LEMMA MoreScripts == \A h, sc, sd : Backed(h, sc) /\ sc \subseteq sd => Backed(h, sd)
BY DEF Backed

LEMMA HookFacts ==
  ASSUME HookInv
  PROVE  /\ HooksTyped /\ C!NothingLost /\ BackedUp /\ (file.ok => Obeys(file.hooks, should))
         /\ file \in Files /\ file.ok \in BOOLEAN
         /\ FileOk(file, scripts) /\ \A f \in backups : FileOk(f, scripts)
         /\ \A k \in Calls : /\ CallOk(call[k], scripts, file, should)
                             /\ call[k] \in {C!Idle} \cup CallRecs
                             /\ call[k].at # "idle" => call[k] # C!Idle /\ call[k] \in CallRecs
         /\ call \in [Calls -> {C!Idle} \cup CallRecs]
<1>1. file \in Files  BY DEF HookInv, FileOk
<1>2. file.ok \in BOOLEAN  BY <1>1 DEF Files
<1>3. call \in [Calls -> {C!Idle} \cup CallRecs]  BY DEF HookInv, HooksTyped
<1>4. \A k \in Calls : call[k] \in {C!Idle} \cup CallRecs  BY <1>3
<1>5. \A k \in Calls : call[k].at # "idle" => call[k] # C!Idle /\ call[k] \in CallRecs  BY <1>4, CallIs
<1> QED BY <1>1, <1>2, <1>3, <1>4, <1>5 DEF HookInv

-----------------------------------------------------------------------------
LEMMA HooksStart == C!Init => HookInv
<1> SUFFICES ASSUME C!Init  PROVE HookInv
  OBVIOUS
<1>1. /\ file = [ok |-> TRUE, hooks |-> C!NoHooks] /\ scripts = {} /\ backups = {} /\ theirs = {}
      /\ late = {} /\ should = [id \in C!Ids |-> "open"] /\ call = [k \in Calls |-> C!Idle]
  BY DEF C!Init
<1>2. file.ok = TRUE /\ file.hooks = C!NoHooks /\ file \in Files  BY <1>1, NoHooksNeat DEF Files
<1>3. FileOk(file, scripts)  BY <1>2, NoHooksNeat DEF FileOk
<1>4. \A k \in Calls : call[k] = C!Idle /\ CallOk(call[k], scripts, file, should)  BY <1>1 DEF CallOk
<1>5. Obeys(file.hooks, should)
  <2>1. \A id \in C!Ids : should[id] = "open"  BY <1>1
  <2> QED BY <2>1 DEF Obeys
<1>6. HooksTyped  BY <1>1 DEF HooksTyped
<1>7. C!NothingLost /\ BackedUp  BY <1>1 DEF C!NothingLost, BackedUp
<1> QED BY <1>1, <1>3, <1>4, <1>5, <1>6, <1>7 DEF HookInv

\* A call goes on and leaves the file and the copies alone.
LEMMA CallGoesOn ==
  ASSUME HookInv, NEW k \in Calls, NEW v \in {C!Idle} \cup CallRecs, call' = [call EXCEPT ![k] = v],
         UNCHANGED <<file, scripts, backups, theirs, late, should>>,
         CallOk(v, scripts, file, should),
         v.at \in {"truncate", "fill"} => \A z \in theirs \ late : InBackup(z)
  PROVE  HookInv'
<1>1. /\ call' \in [Calls -> {C!Idle} \cup CallRecs] /\ call'[k] = v
      /\ \A j \in Calls : j # k => call'[j] = call[j]
  BY HookFacts
<1>2. HooksTyped'  BY <1>1, HookFacts DEF HooksTyped
<1>3. \A j \in Calls : CallOk(call'[j], scripts, file, should)  BY <1>1, HookFacts
<1>4. \A z : InBackup(z)' <=> InBackup(z)  BY DEF InBackup
<1>5. BackedUp'
  <2> SUFFICES ASSUME NEW j \in Calls, call'[j].at \in {"truncate", "fill"}, NEW z \in theirs \ late
               PROVE  InBackup(z)
    BY <1>4 DEF BackedUp
  <2>1. CASE j = k  BY <1>1, <2>1
  <2>2. CASE j # k  BY <1>1, <2>2, HookFacts DEF BackedUp
  <2> QED BY <2>1, <2>2
<1>6. C!NothingLost'  BY HookFacts DEF C!NothingLost
<1> QED BY <1>2, <1>3, <1>5, <1>6, HookFacts DEF HookInv

LEMMA RequestKeeps ==
  ASSUME HookInv, NEW k \in Calls, NEW op \in {"install", "uninstall"}, NEW id \in C!Ids, C!Request(k, op, id)
  PROVE  HookInv'
<1> DEFINE v == [at |-> IF op = "install" THEN "script" ELSE "read", op |-> op,
                 id |-> id, got |-> C!NoHooks, alone |-> TRUE]
<1>1. v \in CallRecs  BY NoHooksNeat DEF CallRecs, CallAt
<1>2. CallOk(v, scripts, file, should)  BY NoHooksNeat DEF CallOk
<1>3. call' = [call EXCEPT ![k] = v] /\ UNCHANGED <<file, scripts, backups, theirs, late, should>>
  BY DEF C!Request
<1>4. v.at \notin {"truncate", "fill"}  OBVIOUS
<1> HIDE DEF v
<1> QED BY <1>1, <1>2, <1>3, <1>4, CallGoesOn

LEMMA ScriptKeeps ==
  ASSUME HookInv, NEW k \in Calls, C!WriteScript(k)  PROVE HookInv'
<1> DEFINE v == [call[k] EXCEPT !.at = "read"]
<1>0. /\ call[k].at = "script" /\ call' = [call EXCEPT ![k] = v] /\ scripts' = scripts \cup {call[k].id}
      /\ UNCHANGED <<file, backups, theirs, late, should>>
  BY DEF C!WriteScript, C!To
<1>1. call[k] \in CallRecs /\ call[k] # C!Idle  BY <1>0, HookFacts
<1>2. /\ v \in CallRecs /\ v.at = "read" /\ v.got = call[k].got /\ v.id = call[k].id
      /\ call[k].id \in C!Ids
  BY <1>1 DEF CallRecs, CallAt
<1> HIDE DEF v
<1>3. /\ call' \in [Calls -> {C!Idle} \cup CallRecs] /\ call'[k] = v
      /\ \A j \in Calls : j # k => call'[j] = call[j]
  BY <1>0, <1>2, HookFacts
<1>4. HooksTyped'  BY <1>0, <1>2, <1>3, HookFacts DEF HooksTyped
<1>5. \A f : FileOk(f, scripts) => FileOk(f, scripts')  BY <1>0, MoreScripts DEF FileOk
<1>6. \A j \in Calls : CallOk(call'[j], scripts', file, should)
  <2>1. CallOk(v, scripts', file, should)
    <3>1. CallOk(call[k], scripts, file, should)  BY HookFacts
    <3> QED BY <1>0, <1>1, <1>2, <3>1, MoreScripts DEF CallOk
  <2>2. \A w : CallOk(w, scripts, file, should) => CallOk(w, scripts', file, should)
    BY <1>0, MoreScripts DEF CallOk
  <2> QED BY <1>3, <2>1, <2>2, HookFacts
<1>7. C!NothingLost' /\ BackedUp'
  <2>1. \A z : InBackup(z)' <=> InBackup(z)  BY <1>0 DEF InBackup
  <2>2. \A j \in Calls : call'[j].at \in {"truncate", "fill"} => call[j].at \in {"truncate", "fill"}
    BY <1>2, <1>3
  <2> QED BY <1>0, <2>1, <2>2, HookFacts DEF C!NothingLost, BackedUp
<1> QED BY <1>0, <1>4, <1>5, <1>6, <1>7, HookFacts DEF HookInv

LEMMA ReadKeeps ==
  ASSUME HookInv, NEW k \in Calls, C!Read(k)  PROVE HookInv'
<1> DEFINE c == [call[k] EXCEPT !.got = file.hooks, !.alone = TRUE]
<1>0. c.at = "read" /\ UNCHANGED <<file, scripts, backups, theirs, late>>  BY DEF C!Read
<1>1. call[k] \in {C!Idle} \cup CallRecs /\ FileOk(file, scripts) /\ file \in Files  BY HookFacts
<1>2. call[k] \in CallRecs /\ call[k].at = "read"
  <2>1. call[k].at = c.at
    <3>1. CASE call[k] \in CallRecs  BY <3>1 DEF CallRecs
    <3>2. CASE call[k] = C!Idle  BY <3>2 DEF C!Idle
    <3> QED BY <1>1, <3>1, <3>2
  <2> QED BY <1>0, <1>1, <2>1, CallIs
<1>3. /\ c \in CallRecs /\ c.got = file.hooks /\ c.id = call[k].id /\ c.op = call[k].op
      /\ c.id \in C!Ids /\ c.alone = TRUE
  BY <1>1, <1>2 DEF CallRecs, Files
<1>4. c.op = "install" => c.id \in scripts
  <2>1. CallOk(call[k], scripts, file, should) /\ call[k] # C!Idle  BY <1>2, HookFacts, CallIs
  <2> QED BY <1>2, <1>3, <2>1 DEF CallOk
<1>5. Neat(c.got) /\ Backed(c.got, scripts)  BY <1>1, <1>3 DEF FileOk
<1>6. CASE ~file.ok
  <2>1. call' = [call EXCEPT ![k] = C!Idle] /\ UNCHANGED should  BY <1>6 DEF C!Read
  <2>2. CallOk(C!Idle, scripts, file, should) /\ C!Idle.at \notin {"truncate", "fill"}
    BY DEF CallOk, C!Idle
  <2>3. C!Idle \in {C!Idle} \cup CallRecs  OBVIOUS
  <2> QED BY <1>0, <2>1, <2>2, <2>3, CallGoesOn
<1>7. CASE file.ok /\ C!Result(c) = c.got
  <2>1. /\ call' = [call EXCEPT ![k] = C!Idle]
        /\ should' = [id \in C!Ids |-> IF id = c.id THEN C!Aim(c) ELSE should[id]]
    BY <1>3, <1>7 DEF C!Read, C!Done
  <2>2. Obeys(file.hooks, should) /\ should'[c.id] = C!Aim(c)
        /\ \A id \in C!Ids : id # c.id => should'[id] = should[id]
    BY <1>3, <1>7, <2>1, HookFacts
  <2> HIDE DEF c
  <2>3. Obeys(file.hooks, should')  BY <1>3, <1>5, <1>7, <2>2, ResultDoes
  <2>4. /\ call' \in [Calls -> {C!Idle} \cup CallRecs] /\ call'[k] = C!Idle
        /\ \A j \in Calls : j # k => call'[j] = call[j]
    BY <2>1, HookFacts
  <2>5. should' \in [C!Ids -> {"in", "out", "open"}]
    <3>1. C!Aim(c) \in {"in", "out", "open"}  BY DEF C!Aim
    <3> QED BY <2>1, <3>1, HookFacts DEF HooksTyped
  <2>6. HooksTyped'  BY <1>0, <2>4, <2>5, HookFacts DEF HooksTyped
  <2>7. ASSUME NEW j \in Calls  PROVE CallOk(call'[j], scripts, file, should')
    <3>1. CASE j = k  BY <2>4, <3>1 DEF CallOk
    <3>2. CASE j # k
      <4>1. call'[j] = call[j] /\ CallOk(call[j], scripts, file, should)  BY <2>4, <3>2, HookFacts
      <4> QED BY <1>7, <4>1 DEF CallOk
    <3> QED BY <3>1, <3>2
  <2>8. C!NothingLost' /\ BackedUp'
    <3>1. \A z : InBackup(z)' <=> InBackup(z)  BY <1>0 DEF InBackup
    <3>2. \A j \in Calls : call'[j].at \in {"truncate", "fill"} => call[j].at \in {"truncate", "fill"}
      BY <2>4, CallIs
    <3> QED BY <1>0, <3>1, <3>2, HookFacts DEF C!NothingLost, BackedUp
  <2> QED BY <1>0, <2>3, <2>6, <2>7, <2>8, HookFacts DEF HookInv
<1>8. CASE file.ok /\ C!Result(c) # c.got
  <2> DEFINE v == [c EXCEPT !.at = "backup"]
  <2>1. call' = [call EXCEPT ![k] = v] /\ UNCHANGED should  BY <1>8 DEF C!Read
  <2>2. /\ v \in CallRecs /\ v.at = "backup" /\ v.got = file.hooks /\ v.op = c.op /\ v.id = c.id
    BY <1>3 DEF CallRecs, CallAt
  <2> HIDE DEF v, c
  <2>3. CallOk(v, scripts, file, should)  BY <1>3, <1>4, <1>5, <1>8, <2>2 DEF CallOk
  <2>4. v.at \notin {"truncate", "fill"} /\ v \in {C!Idle} \cup CallRecs  BY <2>2
  <2> QED BY <1>0, <2>1, <2>3, <2>4, CallGoesOn
<1> QED BY <1>6, <1>7, <1>8

LEMMA BackUpKeeps ==
  ASSUME HookInv, NEW k \in Calls, C!BackUp(k)  PROVE HookInv'
<1> DEFINE v == [call[k] EXCEPT !.at = "truncate"]
<1>0. /\ call[k].at = "backup" /\ call' = [call EXCEPT ![k] = v] /\ backups' = backups \cup {file}
      /\ UNCHANGED <<file, scripts, theirs, late, should>>
  BY DEF C!BackUp, C!To
<1>1. call[k] \in CallRecs /\ call[k] # C!Idle  BY <1>0, HookFacts
<1>2. /\ v \in CallRecs /\ v.at = "truncate" /\ v.got = call[k].got /\ v.id = call[k].id
      /\ v.op = call[k].op /\ v.alone = call[k].alone
  BY <1>1 DEF CallRecs, CallAt
<1> HIDE DEF v
<1>3. /\ call' \in [Calls -> {C!Idle} \cup CallRecs] /\ call'[k] = v
      /\ \A j \in Calls : j # k => call'[j] = call[j]
  BY <1>0, <1>2, HookFacts
<1>4. HooksTyped'  BY <1>0, <1>3, HookFacts DEF HooksTyped
<1>5. \A j \in Calls : CallOk(call'[j], scripts, file, should)
  <2>1. CallOk(v, scripts, file, should)
    <3>1. CallOk(call[k], scripts, file, should)  BY HookFacts
    <3> QED BY <1>0, <1>1, <1>2, <3>1 DEF CallOk
  <2> QED BY <1>3, <2>1, HookFacts
\* what the copies did not have yet, the file has
<1>6. \A z \in theirs \ late : InBackup(z)'
  BY <1>0, HookFacts DEF C!NothingLost, InBackup
<1>7. C!NothingLost' /\ BackedUp'
  BY <1>0, <1>6 DEF C!NothingLost, BackedUp, InBackup
<1> QED BY <1>0, <1>4, <1>5, <1>7, HookFacts DEF HookInv

\* A call writes the file: nobody else is alone any more.
LEMMA OthersNoticed ==
  ASSUME NEW v \in {C!Idle} \cup CallRecs, NEW w, w = (IF v # C!Idle THEN [v EXCEPT !.alone = FALSE] ELSE v)
  PROVE  /\ w \in {C!Idle} \cup CallRecs /\ w.at = v.at /\ (w = C!Idle <=> v = C!Idle)
         /\ \A sc, f, s, g, t : CallOk(v, sc, f, s) => CallOk(w, sc, g, t)
<1>1. CASE v = C!Idle  BY <1>1 DEF CallOk
<1>2. CASE v # C!Idle
  <2>1. v \in CallRecs  BY <1>2
  <2>2. w = [v EXCEPT !.alone = FALSE]  BY <1>2
  <2>3. /\ w \in CallRecs /\ w.at = v.at /\ w.got = v.got /\ w.op = v.op /\ w.id = v.id /\ w.alone = FALSE
    BY <2>1, <2>2 DEF CallRecs
  <2>4. w # C!Idle  BY <2>3, CallIs
  <2>5. \A sc, f, s, g, t : CallOk(v, sc, f, s) => CallOk(w, sc, g, t)
    BY <1>2, <2>3 DEF CallOk
  <2> QED BY <1>2, <2>3, <2>4, <2>5
<1> QED BY <1>1, <1>2

LEMMA TruncateKeeps ==
  ASSUME HookInv, NEW k \in Calls, C!Truncate(k)  PROVE HookInv'
<1>0. /\ call[k].at = "truncate" /\ file' = C!Truncated
      /\ call' = [C!Interfere(k) EXCEPT ![k].at = "fill"]
      /\ UNCHANGED <<scripts, backups, theirs, late, should>>
  BY DEF C!Truncate
<1>1. call[k] \in CallRecs /\ call[k] # C!Idle  BY <1>0, HookFacts
<1> DEFINE v == [call[k] EXCEPT !.at = "fill"]
<1>2. /\ v \in CallRecs /\ v.at = "fill" /\ v.got = call[k].got /\ v.id = call[k].id
      /\ v.op = call[k].op /\ v.alone = call[k].alone
  BY <1>1 DEF CallRecs, CallAt
<1>3. /\ call'[k] = v /\ call' = [j \in Calls |-> call'[j]]
      /\ \A j \in Calls : j # k => call'[j] = IF call[j] # C!Idle THEN [call[j] EXCEPT !.alone = FALSE]
                                              ELSE call[j]
  BY <1>0 DEF C!Interfere
<1> HIDE DEF v
<1>4. file'.ok = FALSE /\ file'.hooks = C!NoHooks /\ file' \in Files
  BY <1>0, NoHooksNeat DEF C!Truncated, Files
<1>5. FileOk(file', scripts)  BY <1>4, NoHooksNeat DEF FileOk
<1>6. ASSUME NEW j \in Calls
      PROVE  call'[j] \in {C!Idle} \cup CallRecs /\ CallOk(call'[j], scripts, file', should)
  <2>1. CASE j = k
    <3>1. CallOk(call[k], scripts, file, should) /\ (file.ok => Obeys(file.hooks, should))
      BY HookFacts
    <3>2. CallOk(v, scripts, file', should)  BY <1>0, <1>1, <1>2, <1>4, <3>1 DEF CallOk
    <3> QED BY <1>2, <1>3, <2>1, <3>2
  <2>2. CASE j # k
    <3>1. call[j] \in {C!Idle} \cup CallRecs /\ CallOk(call[j], scripts, file, should)  BY HookFacts
    <3>2. call'[j] = IF call[j] # C!Idle THEN [call[j] EXCEPT !.alone = FALSE] ELSE call[j]
      BY <1>3, <2>2
    <3> QED BY <3>1, <3>2, OthersNoticed
  <2> QED BY <2>1, <2>2
<1>7. call' \in [Calls -> {C!Idle} \cup CallRecs]  BY <1>3, <1>6
<1>8. HooksTyped'  BY <1>0, <1>7, HookFacts DEF HooksTyped
<1>9. \A z \in theirs \ late : InBackup(z)  BY <1>0, HookFacts DEF BackedUp
<1>10. C!NothingLost' /\ BackedUp'  BY <1>0, <1>9 DEF C!NothingLost, BackedUp, InBackup
<1> QED BY <1>0, <1>4, <1>5, <1>6, <1>8, <1>10, HookFacts DEF HookInv

LEMMA FillKeeps ==
  ASSUME HookInv, NEW k \in Calls, C!Fill(k)  PROVE HookInv'
<1> DEFINE c == call[k]
           r == C!Result(c)
<1>0. /\ c.at = "fill" /\ file' = [ok |-> TRUE, hooks |-> r]
      /\ call' = [C!Interfere(k) EXCEPT ![k] = C!Idle]
      /\ UNCHANGED <<scripts, backups, theirs, late>>
      /\ should' = [id \in C!Ids |-> IF ~c.alone THEN "open" ELSE IF id = c.id THEN C!Aim(c) ELSE should[id]]
  BY DEF C!Fill, C!Done
<1>1. /\ c \in CallRecs /\ c # C!Idle /\ CallOk(c, scripts, file, should) /\ c.alone \in BOOLEAN
      /\ c.id \in C!Ids
  BY <1>0, HookFacts, CallIs
<1>2. /\ Neat(c.got) /\ Backed(c.got, scripts) /\ (c.op = "install" => c.id \in scripts)
      /\ (c.alone => Obeys(c.got, should))
  BY <1>0, <1>1 DEF CallOk
<1>3. /\ call'[k] = C!Idle /\ call' = [j \in Calls |-> call'[j]]
      /\ \A j \in Calls : j # k => call'[j] = IF call[j] # C!Idle THEN [call[j] EXCEPT !.alone = FALSE]
                                              ELSE call[j]
  BY <1>0 DEF C!Interfere
<1> HIDE DEF c
<1>4. /\ Neat(r) /\ Backed(r, scripts)
      /\ \A s, t : /\ Obeys(c.got, s) /\ t[c.id] = C!Aim(c)
                   /\ \A id \in C!Ids : id # c.id => t[id] = s[id]
                   => Obeys(r, t)
  BY <1>1, <1>2, ResultDoes
<1>5. file'.ok = TRUE /\ file'.hooks = r /\ file' \in Files  BY <1>0, <1>4 DEF Files, Neat
<1>6. Obeys(r, should')
  <2>1. CASE c.alone
    <3>1. should'[c.id] = C!Aim(c) /\ \A id \in C!Ids : id # c.id => should'[id] = should[id]
      BY <1>0, <1>1, <2>1
    <3> QED BY <1>2, <1>4, <2>1, <3>1
  <2>2. CASE ~c.alone
    <3>1. \A id \in C!Ids : should'[id] = "open"  BY <1>0, <2>2
    <3> QED BY <3>1 DEF Obeys
  <2> QED BY <2>1, <2>2
<1>7. FileOk(file', scripts)  BY <1>4, <1>5 DEF FileOk
<1>8. should' \in [C!Ids -> {"in", "out", "open"}]
  <2>1. C!Aim(c) \in {"in", "out", "open"}  BY DEF C!Aim
  <2> QED BY <1>0, <2>1, HookFacts DEF HooksTyped
<1>9. ASSUME NEW j \in Calls
      PROVE  /\ call'[j] \in {C!Idle} \cup CallRecs /\ CallOk(call'[j], scripts, file', should')
             /\ call'[j].at \in {"truncate", "fill"} => call[j].at \in {"truncate", "fill"}
  <2>1. CASE j = k  BY <1>3, <2>1, CallIs DEF CallOk
  <2>2. CASE j # k
    <3>1. call[j] \in {C!Idle} \cup CallRecs /\ CallOk(call[j], scripts, file, should)  BY HookFacts
    <3>2. call'[j] = IF call[j] # C!Idle THEN [call[j] EXCEPT !.alone = FALSE] ELSE call[j]
      BY <1>3, <2>2
    <3> QED BY <3>1, <3>2, OthersNoticed
  <2> QED BY <2>1, <2>2
<1>10. call' \in [Calls -> {C!Idle} \cup CallRecs]  BY <1>3, <1>9
<1>11. HooksTyped'  BY <1>0, <1>8, <1>10, HookFacts DEF HooksTyped
<1>12. \A z \in theirs \ late : InBackup(z)  BY <1>0, HookFacts DEF BackedUp, c
<1>13. C!NothingLost' /\ BackedUp'  BY <1>0, <1>12 DEF C!NothingLost, BackedUp, InBackup
<1> QED BY <1>0, <1>5, <1>6, <1>7, <1>9, <1>11, <1>13, HookFacts DEF HookInv

\* Nobody is in the middle of a call: a crash, or the user's Restore.
LEMMA AllIdle ==
  ASSUME HookInv, \A k \in Calls : call'[k] = C!Idle, call' \in [Calls -> {C!Idle} \cup CallRecs],
         UNCHANGED <<scripts, backups, theirs, late>>,
         FileOk(file', scripts), file'.ok => Obeys(file'.hooks, should'),
         should' \in [C!Ids -> {"in", "out", "open"}],
         \A z \in theirs \ late : z \in C!TheirsIn(file'.hooks) \/ InBackup(z)
  PROVE  HookInv'
<1>1. HooksTyped'  BY HookFacts DEF HooksTyped
<1>2. \A k \in Calls : CallOk(call'[k], scripts', file', should')  BY DEF CallOk
<1>3. C!NothingLost'  BY DEF C!NothingLost, InBackup
<1>4. BackedUp'
  <2>1. C!Idle.at \notin {"truncate", "fill"}  BY DEF C!Idle
  <2> QED BY <2>1 DEF BackedUp
<1> QED BY <1>1, <1>2, <1>3, <1>4, HookFacts DEF HookInv

LEMMA CrashKeeps == ASSUME HookInv, C!Crash  PROVE HookInv'
<1>1. /\ call' = [k \in Calls |-> C!Idle]
      /\ should' = [id \in C!Ids |-> IF \E k \in Calls : call[k] # C!Idle THEN "open" ELSE should[id]]
      /\ UNCHANGED <<file, scripts, backups, theirs, late>>
  BY DEF C!Crash
<1>2. should' \in [C!Ids -> {"in", "out", "open"}]  BY <1>1, HookFacts DEF HooksTyped
<1>3. file.ok => Obeys(file.hooks, should')  BY <1>1, HookFacts DEF Obeys
<1>4. \A z \in theirs \ late : z \in C!TheirsIn(file.hooks) \/ InBackup(z)
  BY HookFacts DEF C!NothingLost, InBackup
<1> QED BY <1>1, <1>2, <1>3, <1>4, HookFacts, AllIdle

LEMMA RestoreKeeps == ASSUME HookInv, NEW f \in backups, C!Restore(f)  PROVE HookInv'
<1>1. /\ ~file.ok /\ f.ok /\ \A k \in Calls : call[k] = C!Idle
      /\ file' = f /\ should' = [id \in C!Ids |-> "open"]
      /\ UNCHANGED <<scripts, backups, call, theirs, late>>
  BY DEF C!Restore
<1>2. should' \in [C!Ids -> {"in", "out", "open"}] /\ Obeys(f.hooks, should')  BY <1>1 DEF Obeys
<1>3. \A z \in theirs \ late : InBackup(z)
  BY <1>1, HookFacts DEF C!NothingLost, InBackup, FileOk
<1> QED BY <1>1, <1>2, <1>3, HookFacts, AllIdle

LEMMA EditKeeps ==
  ASSUME HookInv, NEW r, Edited(file.hooks, r), C!EditTo(r)  PROVE HookInv'
<1>0. /\ file.ok /\ file' = [file EXCEPT !.hooks = r] /\ theirs' = theirs \cup C!TheirsIn(r)
      /\ late' = IF \E k \in Calls : call[k].at \in {"truncate", "fill"}
                 THEN late \cup C!TheirsIn(r) ELSE late
      /\ call' = [k \in Calls |-> IF call[k] = C!Idle THEN C!Idle ELSE [call[k] EXCEPT !.alone = FALSE]]
      /\ should' = [id \in C!Ids |-> IF C!Installed(r, id) = C!Installed(file.hooks, id) THEN should[id]
                                     ELSE "open"]
      /\ UNCHANGED <<scripts, backups>>
  BY DEF C!EditTo
<1>1. Neat(r) /\ \A e \in C!Events, id \in C!Ids : Runs(r, e, id) => Runs(file.hooks, e, id)
  BY DEF Edited
<1>2. file' \in Files /\ file'.ok = TRUE /\ file'.hooks = r  BY <1>0, <1>1, HookFacts DEF Files, Neat
<1>3. FileOk(file', scripts)
  <2>1. Backed(file.hooks, scripts)  BY HookFacts DEF FileOk
  <2>2. Backed(r, scripts)  BY <1>1, <2>1 DEF Backed
  <2> QED BY <1>1, <1>2, <2>2 DEF FileOk
<1>4. Obeys(r, should')
  <2> SUFFICES ASSUME NEW id \in C!Ids
               PROVE  /\ should'[id] = "in" => \A e \in C!EventsOf(id) : Runs(r, e, id)
                      /\ should'[id] = "out" => \A e \in C!Events : ~Runs(r, e, id)
    BY DEF Obeys
  <2>1. \A h : C!Installed(h, id) <=> \A e \in C!EventsOf(id) : Runs(h, e, id)
    BY EntryIs DEF C!Installed, Runs
  <2>2. /\ should[id] = "in" => \A e \in C!EventsOf(id) : Runs(file.hooks, e, id)
        /\ should[id] = "out" => \A e \in C!Events : ~Runs(file.hooks, e, id)
    BY <1>0, HookFacts DEF Obeys
  <2>3. CASE C!Installed(r, id) = C!Installed(file.hooks, id)
    <3>1. should'[id] = should[id]  BY <1>0, <2>3
    <3>2. C!Installed(r, id) <=> C!Installed(file.hooks, id)  BY <2>3
    <3>3. (\A e \in C!EventsOf(id) : Runs(file.hooks, e, id)) => \A e \in C!EventsOf(id) : Runs(r, e, id)
      BY <2>1, <3>2
    <3> QED BY <1>1, <2>2, <3>1, <3>3
  <2>4. CASE C!Installed(r, id) # C!Installed(file.hooks, id)
    <3>1. should'[id] = "open"  BY <1>0, <2>4
    <3> QED BY <3>1
  <2> QED BY <2>3, <2>4
<1>5. should' \in [C!Ids -> {"in", "out", "open"}]  BY <1>0, HookFacts DEF HooksTyped
<1>6. ASSUME NEW k \in Calls
      PROVE  /\ call'[k] \in {C!Idle} \cup CallRecs /\ CallOk(call'[k], scripts, file', should')
             /\ call'[k].at = call[k].at
  <2>1. call[k] \in {C!Idle} \cup CallRecs /\ CallOk(call[k], scripts, file, should)  BY HookFacts
  <2>2. call'[k] = IF call[k] # C!Idle THEN [call[k] EXCEPT !.alone = FALSE] ELSE call[k]  BY <1>0
  <2> QED BY <2>1, <2>2, OthersNoticed
<1>7. call' \in [Calls -> {C!Idle} \cup CallRecs]  BY <1>0, <1>6
<1>8. theirs' \subseteq C!Events \X Others /\ late' \subseteq theirs'
  <2>1. C!TheirsIn(r) \subseteq C!Events \X Others  BY DEF C!TheirsIn
  <2> QED BY <1>0, <2>1, HookFacts DEF HooksTyped
<1>9. HooksTyped'  BY <1>0, <1>5, <1>7, <1>8, HookFacts DEF HooksTyped
<1>10. C!NothingLost' /\ BackedUp'
  <2>0. C!TheirsIn(file.hooks) \subseteq C!TheirsIn(r)  BY TheirsOf
  <2>1. CASE \E k \in Calls : call[k].at \in {"truncate", "fill"}
    <3>1. \A z \in theirs \ late : InBackup(z)  BY <2>1, HookFacts DEF BackedUp
    <3>2. theirs' \ late' \subseteq theirs \ late  BY <1>0, <2>1
    <3> QED BY <1>0, <3>1, <3>2 DEF C!NothingLost, BackedUp, InBackup
  <2>2. CASE ~\E k \in Calls : call[k].at \in {"truncate", "fill"}
    <3>1. BackedUp'  BY <1>6, <2>2 DEF BackedUp
    <3>2. late' = late  BY <1>0, <2>2
    <3>3. ASSUME NEW z \in theirs' \ late'
          PROVE  z \in C!TheirsIn(file'.hooks) \/ \E f \in backups' : z \in C!TheirsIn(f.hooks)
      <4>1. CASE z \in theirs \ late  BY <1>0, <1>2, <2>0, <4>1, HookFacts DEF C!NothingLost
      <4>2. CASE z \in C!TheirsIn(r)  BY <1>2, <4>2
      <4> QED BY <1>0, <3>2, <4>1, <4>2
    <3> QED BY <3>1, <3>3 DEF C!NothingLost
  <2> QED BY <2>1, <2>2
<1> QED BY <1>0, <1>2, <1>3, <1>4, <1>6, <1>9, <1>10, HookFacts DEF HookInv

LEMMA EditsKeep == ASSUME OthersDiffer, HookInv, C!Edit  PROVE HookInv'
<1>0. Neat(file.hooks)  BY HookFacts DEF FileOk
<1>1. PICK e \in C!Events :
        \/ \E c \in Others : C!AddGroup(e, c) \/ \E i \in 1..MaxCalls : C!AddToGroup(e, i, c)
        \/ \E id \in C!Ids : C!DropEntry(e, id)
  BY DEF C!Edit
<1>2. ASSUME NEW c \in Others, C!AddGroup(e, c)  PROVE HookInv'
  <2>1. PICK r : r = [file.hooks EXCEPT ![e] = Append(file.hooks[e], {c})]  OBVIOUS
  <2>2. Edited(file.hooks, r)  BY <1>0, <2>1, AddGroupDoes
  <2>3. C!EditTo(r)  BY <1>2, <2>1 DEF C!AddGroup
  <2> QED BY <2>2, <2>3, EditKeeps
<1>3. ASSUME NEW c \in Others, NEW i \in 1..MaxCalls, C!AddToGroup(e, i, c)  PROVE HookInv'
  <2>1. PICK r : r = [file.hooks EXCEPT ![e][i] = file.hooks[e][i] \cup {c}]  OBVIOUS
  <2>2. i \in DOMAIN file.hooks[e]  BY <1>3 DEF C!AddToGroup
  <2>3. Edited(file.hooks, r)  BY <1>0, <2>1, <2>2, AddToGroupDoes
  <2>4. C!EditTo(r)  BY <1>3, <2>1 DEF C!AddToGroup
  <2> QED BY <2>3, <2>4, EditKeeps
<1>4. ASSUME NEW id \in C!Ids, C!DropEntry(e, id)  PROVE HookInv'
  <2>1. Spots(file.hooks[e], id) # {} /\ Tidied(file.hooks[e])  BY <1>0, <1>4, EntryIs DEF C!DropEntry, Neat
  <2>2. PICK i \in DOMAIN file.hooks[e] : i = C!Min(Spots(file.hooks[e], id))  BY <2>1, EntryAt
  <2>3. PICK r : r = [file.hooks EXCEPT ![e][i] = file.hooks[e][i] \ {id}]  OBVIOUS
  <2>4. C!EditTo(r)  BY <1>4, <2>2, <2>3, EntryIs DEF C!DropEntry
  <2>5. Edited(file.hooks, r)  BY <1>0, <2>3, DropEntryDoes
  <2> QED BY <2>4, <2>5, EditKeeps
<1> QED BY <1>1, <1>2, <1>3, <1>4

LEMMA HooksKeep == ASSUME OthersDiffer, HookInv, C!Next \/ UNCHANGED cvars  PROVE HookInv'
<1>1. CASE \E k \in Calls : C!CallStep(k)
  <2>1. PICK k \in Calls : C!CallStep(k)  BY <1>1
  <2>2. CASE \E op \in {"install", "uninstall"}, id \in C!Ids : C!Request(k, op, id)
    BY <2>2, RequestKeeps
  <2>3. CASE C!WriteScript(k) \/ C!Read(k) \/ C!BackUp(k)  BY <2>3, ScriptKeeps, ReadKeeps, BackUpKeeps
  <2>4. CASE C!Truncate(k) \/ C!Fill(k)  BY <2>4, TruncateKeeps, FillKeeps
  <2> QED BY <2>1, <2>2, <2>3, <2>4 DEF C!CallStep
<1>2. CASE C!Edit  BY <1>2, EditsKeep
<1>3. CASE C!Crash  BY <1>3, CrashKeeps
<1>4. CASE \E f \in backups : C!Restore(f)  BY <1>4, RestoreKeeps
<1>5. CASE UNCHANGED cvars
  BY <1>5 DEF cvars, HookInv, HooksTyped, BackedUp, InBackup, C!NothingLost
<1> QED BY <1>1, <1>2, <1>3, <1>4, <1>5 DEF C!Next

LEMMA SameCountC == ASSUME NEW Q  PROVE C!Cardinality(Q) = Cardinality(Q)
BY DEF C!Cardinality, Cardinality

LEMMA HooksShow == ASSUME HookInv  PROVE HooksSound
<1>0. file.hooks \in [C!Events -> Seq(SUBSET C!Commands)] /\ Neat(file.hooks) /\ Backed(file.hooks, scripts)
  BY HookFacts DEF FileOk, Neat
<1>1. C!TypeOK
  <2>1. \A f \in backups : f \in [ok : BOOLEAN, hooks : C!Hooks]
    BY HookFacts DEF FileOk, Files, C!Hooks
  <2>2. ASSUME NEW k \in Calls
        PROVE  \/ call[k] = C!Idle
               \/ call[k] \in [at : {"script", "read", "backup", "truncate", "fill"}, alone : BOOLEAN,
                               op : {"install", "uninstall"}, id : C!Ids, got : C!Hooks]
    BY HookFacts DEF CallRecs, CallAt, C!Hooks
  <2> QED BY <2>1, <2>2, HookFacts DEF C!TypeOK, C!Hooks, Files, HooksTyped
<1>2. C!InstallsTake
  BY HookFacts, EntryIs DEF C!InstallsTake, C!Installed, Obeys, Runs
<1>3. C!OneEntry
  <2>1. ASSUME NEW e \in C!Events, NEW id \in C!Ids
        PROVE  C!Cardinality(C!OurEntry(file.hooks, e, id)) <= 1
    <3>1. CASE Spots(file.hooks[e], id) = {}
      <4>1. Cardinality(Spots(file.hooks[e], id)) = 0  BY <3>1, FS_EmptySet
      <4> QED BY <4>1, EntryIs, SameCountC
    <3>2. CASE Spots(file.hooks[e], id) # {}
      <4>1. PICK i : Spots(file.hooks[e], id) = {i}  BY <1>0, <3>2, EntryAt DEF Neat
      <4>2. Cardinality(Spots(file.hooks[e], id)) = 1  BY <4>1, FS_Singleton
      <4> QED BY <4>2, EntryIs, SameCountC
    <3> QED BY <3>1, <3>2
  <2> QED BY <2>1 DEF C!OneEntry
<1>4. C!ScriptThere  BY <1>0, EntryIs DEF C!ScriptThere, Backed, Runs
<1> QED BY <1>1, <1>2, <1>3, <1>4 DEF HooksSound, C!HooksSound

LEMMA HookInvariance == ASSUME OthersDiffer  PROVE ServicesSpec => []HookInv
<1>1. ServicesInit => HookInv  BY HooksStart DEF ServicesInit
<1>2. HookInv /\ [ServicesNext]_allvars => HookInv'
  <2>1. [ServicesNext]_allvars => C!Next \/ UNCHANGED cvars  BY DEF ServicesNext, allvars
  <2> QED BY <2>1, HooksKeep
<1> QED BY <1>1, <1>2, PTL DEF ServicesSpec

\* What others have put into Claude Code's settings is there or in a copy, however
\* many requests rewrite the file at the same time and wherever they are cut off
\* (install.go); all but what comes between a request's copy and its write.
THEOREM HooksOfOthersStay == ASSUME OthersDiffer  PROVE ServicesSpec => []NothingLost
<1>1. HookInv => NothingLost  BY DEF HookInv, NothingLost
<1> QED BY <1>1, HookInvariance, PTL

\* Installing and removing the server's hooks is idempotent, does all of what is
\* answered unless somebody interfered, and never leaves an entry without its script
\* (install.go).
THEOREM HooksInstallOnce == ASSUME OthersDiffer  PROVE ServicesSpec => []HooksSound
<1>1. HookInv => HooksSound  BY HooksShow
<1> QED BY <1>1, HookInvariance, PTL

-----------------------------------------------------------------------------
(***************************************************************************)
(* The trackers (Trackers).                                                *)
(***************************************************************************)
TrackBounds ==
  MaxPosts \in Nat /\ MaxDrops \in Nat /\ Buffer \in Nat /\ Room \in Nat \ {0}

\* An open request's client is told of later requests only.
Ascending(q, n, m) ==
  /\ \A i \in DOMAIN q : q[i].kind = "open" /\ q[i].n > n /\ q[i].n <= m
  /\ \A i, j \in DOMAIN q : i < j => q[i].n < q[j].n

TrackTyped ==
  /\ stream \in {"attention", "open"} /\ sleepy \subseteq Clients
  /\ pending \subseteq Worktrees /\ raced \subseteq Worktrees
  /\ req \in [Requests -> {T!Idle} \cup [at : {"tell"}, wt : Worktrees, on : BOOLEAN]]
  /\ link \in [Clients -> {"off", "new", "on"}]
  /\ chan \in [Clients -> Seq(T!Messages)] /\ wire \in [Clients -> Seq(T!Messages)]
  /\ \A c \in Clients : Len(chan[c]) <= Buffer /\ Len(wire[c]) <= Room
  /\ shown \in [Clients -> SUBSET Worktrees] /\ missed \in [Clients -> SUBSET Worktrees]
  /\ since \in [Clients -> 0..MaxPosts] /\ posts \in 0..MaxPosts /\ drops \in 0..MaxDrops

\* What is still to be told of a worktree whose changes did not overlap is its
\* last change.
Orderly ==
  \A r \in Requests :
    req[r].at = "tell" /\ req[r].wt \notin raced =>
      /\ req[r].on <=> req[r].wt \in pending
      /\ \A q \in Requests : req[q].at = "tell" /\ req[q].wt = req[r].wt => q = r

\* A subscriber's channel ends with the state of the tracker, also before the
\* snapshot is sent, which is sent first.
ChannelOk(c) ==
  /\ link[c] # "on" => wire[c] = <<>>
  /\ link[c] # "off" => \A w \in Worktrees :
       T!Told(c, w) => T!LastSays(chan[c], w, w \in pending)

Current(c) ==
  link[c] = "on" => \A w \in Worktrees : T!Told(c, w) => T!ComesTo(c, w, w \in pending)

\* The two streams do not mix.
OpensOk(c) ==
  stream = "open" =>
    /\ shown[c] = {} /\ link[c] # "new" /\ since[c] <= posts
    /\ link[c] = "on" => Ascending(T!Coming(c), since[c], posts)

News == {m \in T!Messages : m.kind # "open"}
NewsOk(c) == stream = "attention" => chan[c] \in Seq(News) /\ wire[c] \in Seq(News)

ClientOk(c) == ChannelOk(c) /\ Current(c) /\ OpensOk(c) /\ NewsOk(c)

TrackInv ==
  /\ TrackTyped /\ Orderly
  /\ stream = "open" => pending = {} /\ \A r \in Requests : req[r] = T!Idle
  /\ \A c \in Clients : ClientOk(c)
LEMMA Appended ==
  ASSUME NEW Q, NEW s \in Seq(Q), NEW m \in Q
  PROVE  /\ Append(s, m) \in Seq(Q) /\ Len(s) \in Nat /\ Len(Append(s, m)) = Len(s) + 1
         /\ DOMAIN s = 1..Len(s) /\ DOMAIN Append(s, m) = 1..(Len(s) + 1)
         /\ Append(s, m)[Len(s) + 1] = m /\ \A i \in 1..Len(s) : Append(s, m)[i] = s[i]
<1>1. /\ Append(s, m) \in Seq(Q) /\ Len(s) \in Nat /\ Len(Append(s, m)) = Len(s) + 1
      /\ Append(s, m)[Len(s) + 1] = m /\ \A i \in 1..Len(s) : Append(s, m)[i] = s[i]
  BY AppendProperties, LenProperties
<1>2. DOMAIN s = 1..Len(s) /\ DOMAIN Append(s, m) = 1..Len(Append(s, m))
  BY <1>1, LenProperties
<1> QED BY <1>1, <1>2

\* A message at the end of what is on its way has the last word on its worktree.
LEMMA SaysNew ==
  ASSUME NEW Q, NEW s \in Seq(Q), NEW m \in Q, NEW w, NEW on, T!Decides(m, w), T!Sets(m, w) <=> on
  PROVE  T!LastSays(Append(s, m), w, on) /\ ~T!Silent(Append(s, m), w)
<1> DEFINE q == Append(s, m)
<1>1. Len(s) + 1 \in DOMAIN q /\ q[Len(s) + 1] = m  BY Appended
<1>2. \A i \in DOMAIN q : i = Len(s) + 1 \/ Len(s) + 1 > i  BY Appended
<1> HIDE DEF q
<1>3. ~T!Silent(q, w)  BY <1>1 DEF T!Silent
<1>4. T!LastSays(q, w, on)  BY <1>1, <1>2 DEF T!LastSays
<1> QED BY <1>3, <1>4 DEF q

\* Another message changes nothing for w.
LEMMA SaysOther ==
  ASSUME NEW Q, NEW s \in Seq(Q), NEW m \in Q, NEW w, NEW on, ~T!Decides(m, w)
  PROVE  /\ T!LastSays(s, w, on) => T!LastSays(Append(s, m), w, on)
         /\ T!Silent(Append(s, m), w) => T!Silent(s, w)
<1> DEFINE q == Append(s, m)
<1>1. /\ DOMAIN s \subseteq DOMAIN q /\ \A i \in DOMAIN s : q[i] = s[i]
      /\ \A i \in DOMAIN q : i \in DOMAIN s \/ q[i] = m
  BY Appended
<1> HIDE DEF q
<1>2. T!LastSays(s, w, on) => T!LastSays(q, w, on)  BY <1>1 DEF T!LastSays
<1>3. T!Silent(q, w) => T!Silent(s, w)  BY <1>1 DEF T!Silent
<1> QED BY <1>2, <1>3 DEF q

\* What comes before is spoken over.
LEMMA SaysTail ==
  ASSUME NEW Q, NEW s \in Seq(Q), s # <<>>, NEW w, NEW P, T!LastSays(s, w, w \in P)
  PROVE  /\ T!LastSays(Tail(s), w, w \in P)
         /\ T!Silent(Tail(s), w) /\ ~T!Decides(Head(s), w) => T!Silent(s, w)
         /\ T!Silent(Tail(s), w) /\ T!Decides(Head(s), w) => (T!Sets(Head(s), w) <=> w \in P)
<1> DEFINE t == Tail(s)
           h == Head(s)
<1>1. /\ Len(s) \in Nat /\ Len(s) > 0 /\ h = s[1] /\ Len(t) = Len(s) - 1
      /\ \A n \in 1..Len(t) : n + 1 \in 1..Len(s) /\ t[n] = s[n + 1]
      /\ t \in Seq(Q)
  BY Taken
<1>2. DOMAIN s = 1..Len(s) /\ DOMAIN t = 1..Len(t)  BY <1>1, LenProperties
<1> HIDE DEF t, h
<1>3. ASSUME NEW i \in DOMAIN s, i # 1
      PROVE  i - 1 \in DOMAIN t /\ s[i] = t[i - 1] /\ i \in Nat
  <2>1. i - 1 \in 1..Len(t) /\ (i - 1) + 1 = i /\ i \in Nat  BY <1>1, <1>2, <1>3
  <2> QED BY <1>1, <1>2, <2>1
<1>4. T!LastSays(t, w, w \in P)
  <2> SUFFICES ASSUME NEW i \in DOMAIN t, T!Decides(t[i], w),
                      \A j \in DOMAIN t : j > i => ~T!Decides(t[j], w)
               PROVE  T!Sets(t[i], w) <=> w \in P
    BY DEF T!LastSays
  <2>1. i + 1 \in DOMAIN s /\ t[i] = s[i + 1] /\ i \in Nat  BY <1>1, <1>2
  <2>2. ASSUME NEW j \in DOMAIN s, j > i + 1  PROVE ~T!Decides(s[j], w)
    <3>1. j # 1 /\ j - 1 > i  BY <1>1, <1>2, <2>1, <2>2
    <3> QED BY <1>3, <3>1
  <2> QED BY <2>1, <2>2 DEF T!LastSays
<1>5. T!Silent(t, w) => \A i \in DOMAIN s : i # 1 => ~T!Decides(s[i], w)
  BY <1>3 DEF T!Silent
<1>6. 1 \in DOMAIN s /\ \A j \in DOMAIN s : j > 1 => j # 1  BY <1>1, <1>2
<1>7. T!Silent(t, w) /\ ~T!Decides(h, w) => T!Silent(s, w)  BY <1>1, <1>5 DEF T!Silent
<1>8. T!Silent(t, w) /\ T!Decides(h, w) => (T!Sets(h, w) <=> w \in P)
  BY <1>1, <1>5, <1>6 DEF T!LastSays
<1> QED BY <1>4, <1>7, <1>8 DEF t, h

\* A message ahead of the others counts where they are silent.
LEMMA SaysAhead ==
  ASSUME NEW Q, NEW s \in Seq(Q), NEW m \in Q, NEW w, NEW P,
         T!Decides(m, w), T!Sets(m, w) <=> w \in P, T!LastSays(s, w, w \in P)
  PROVE  T!LastSays(<<m>> \o s, w, w \in P) /\ ~T!Silent(<<m>> \o s, w)
<1> DEFINE q == <<m>> \o s
<1>0. <<m>> \in Seq(Q) /\ Len(<<m>>) = 1 /\ <<m>>[1] = m  OBVIOUS
<1>1. /\ q \in Seq(Q) /\ Len(s) \in Nat /\ Len(q) = 1 + Len(s) /\ q[1] = m
      /\ \A i \in 1..Len(s) : q[i + 1] = s[i]
  <2>1. /\ q \in Seq(Q) /\ Len(s) \in Nat /\ Len(q) = 1 + Len(s)
        /\ \A i \in 1..1 + Len(s) : q[i] = IF i <= 1 THEN <<m>>[i] ELSE s[i - 1]
    BY <1>0, ConcatProperties, LenProperties
  <2> HIDE DEF q
  <2>2. q[1] = m  BY <1>0, <2>1
  <2>3. ASSUME NEW i \in 1..Len(s)  PROVE q[i + 1] = s[i]
    <3>1. i + 1 \in 1..1 + Len(s) /\ ~(i + 1 <= 1) /\ (i + 1) - 1 = i  BY <2>1
    <3> QED BY <2>1, <3>1
  <2> QED BY <2>1, <2>2, <2>3
<1> HIDE DEF q
<1>2. DOMAIN s = 1..Len(s) /\ DOMAIN q = 1..(Len(s) + 1)  BY <1>1, LenProperties
<1>3. 1 \in DOMAIN q  BY <1>1, <1>2
<1>4. ~T!Silent(q, w)  BY <1>1, <1>3 DEF T!Silent
<1>5. T!LastSays(q, w, w \in P)
  <2> SUFFICES ASSUME NEW i \in DOMAIN q, T!Decides(q[i], w),
                      \A j \in DOMAIN q : j > i => ~T!Decides(q[j], w)
               PROVE  T!Sets(q[i], w) <=> w \in P
    BY DEF T!LastSays
  <2>1. CASE i = 1  BY <1>1, <2>1
  <2>2. CASE i # 1
    <3>1. i - 1 \in DOMAIN s /\ (i - 1) + 1 = i /\ i \in Nat  BY <1>1, <1>2, <2>2
    <3>2. q[i] = s[i - 1]  BY <1>1, <1>2, <3>1
    <3>3. ASSUME NEW j \in DOMAIN s, j > i - 1  PROVE ~T!Decides(s[j], w)
      <4>1. j + 1 \in DOMAIN q /\ j + 1 > i /\ q[j + 1] = s[j]  BY <1>1, <1>2, <3>1, <3>3
      <4> QED BY <4>1
    <3> QED BY <3>1, <3>2, <3>3 DEF T!LastSays
  <2> QED BY <2>1, <2>2
<1> QED BY <1>4, <1>5 DEF q

\* How what is on its way to a client moves on.
LEMMA ComingMoves ==
  ASSUME NEW v \in Seq(T!Messages), NEW h \in Seq(T!Messages)
  PROVE  /\ v \o h \in Seq(T!Messages)
         /\ \A m \in T!Messages : v \o Append(h, m) = Append(v \o h, m)
         /\ h # <<>> => Append(v, Head(h)) \o Tail(h) = v \o h
         /\ v # <<>> => /\ v \o h # <<>> /\ Head(v \o h) = Head(v)
                        /\ Tail(v \o h) = Tail(v) \o h
<1>1. v \o h \in Seq(T!Messages)  BY ConcatProperties
<1>2. ASSUME NEW m \in T!Messages  PROVE v \o Append(h, m) = Append(v \o h, m)
  <2>1. <<m>> \in Seq(T!Messages)  OBVIOUS
  <2>2. Append(h, m) = h \o <<m>> /\ Append(v \o h, m) = (v \o h) \o <<m>>  BY <1>1, AppendIsConcat
  <2> QED BY <2>1, <2>2, ConcatAssociative
<1>3. ASSUME NEW s \in Seq(T!Messages), s # <<>>
      PROVE  Head(s) \in T!Messages /\ Tail(s) \in Seq(T!Messages) /\ <<Head(s)>> \in Seq(T!Messages) /\ <<Head(s)>> \o Tail(s) = s
  <2>1. Head(s) \in T!Messages /\ Tail(s) \in Seq(T!Messages)  BY <1>3, HeadTailProperties
  <2>2. <<Head(s)>> \in Seq(T!Messages)  BY <2>1
  <2>3. /\ Len(s) \in Nat /\ Len(s) > 0 /\ Head(s) = s[1] /\ Len(Tail(s)) = Len(s) - 1
        /\ \A n \in 1..Len(Tail(s)) : Tail(s)[n] = s[n + 1]
    BY <1>3, Taken
  <2> DEFINE q == <<Head(s)>> \o Tail(s)
  <2>4. /\ q \in Seq(T!Messages) /\ Len(q) = 1 + Len(Tail(s))
        /\ \A i \in 1..1 + Len(Tail(s)) : q[i] = IF i <= 1 THEN <<Head(s)>>[i] ELSE Tail(s)[i - 1]
    <3>1. Len(<<Head(s)>>) = 1  OBVIOUS
    <3> QED BY <2>1, <2>2, <3>1, ConcatProperties
  <2> HIDE DEF q
  <2>5. Len(q) = Len(s)  BY <2>3, <2>4
  <2>6. ASSUME NEW i \in 1..Len(q)  PROVE q[i] = s[i]
    <3>1. CASE i = 1  BY <2>3, <2>4, <3>1
    <3>2. CASE i # 1
      <4>1. i - 1 \in 1..Len(Tail(s)) /\ (i - 1) + 1 = i /\ ~(i <= 1) /\ i \in 1..1 + Len(Tail(s))
        BY <2>3, <2>5, <3>2
      <4> QED BY <2>3, <2>4, <4>1
    <3> QED BY <3>1, <3>2
  <2>7. q = s  BY <2>4, <2>5, <2>6, SeqEqual
  <2> QED BY <2>1, <2>2, <2>7 DEF q
<1>4. ASSUME h # <<>>  PROVE Append(v, Head(h)) \o Tail(h) = v \o h
  <2>1. Append(v, Head(h)) = v \o <<Head(h)>>  BY <1>3, <1>4, AppendIsConcat
  <2>2. (v \o <<Head(h)>>) \o Tail(h) = v \o (<<Head(h)>> \o Tail(h))
    BY <1>3, <1>4, ConcatAssociative
  <2> QED BY <1>3, <1>4, <2>1, <2>2
<1>5. ASSUME v # <<>>
      PROVE  /\ v \o h # <<>> /\ Head(v \o h) = Head(v)
             /\ Tail(v \o h) = Tail(v) \o h
  <2> DEFINE q == v \o h
             t == Tail(v) \o h
  <2>1. q # <<>>  BY <1>5, ConcatEqualIffEmpty
  <2>2. /\ Len(v) \in Nat /\ Len(v) > 0 /\ Head(v) = v[1] /\ Len(Tail(v)) = Len(v) - 1
        /\ Tail(v) \in Seq(T!Messages) /\ \A n \in 1..Len(Tail(v)) : Tail(v)[n] = v[n + 1]
    BY <1>5, Taken
  <2>3. /\ Len(h) \in Nat /\ Len(q) = Len(v) + Len(h)
        /\ \A i \in 1..Len(v) + Len(h) : q[i] = IF i <= Len(v) THEN v[i] ELSE h[i - Len(v)]
    BY ConcatProperties, LenProperties
  <2>4. /\ t \in Seq(T!Messages) /\ Len(t) = Len(Tail(v)) + Len(h)
        /\ \A i \in 1..Len(Tail(v)) + Len(h) : t[i] = IF i <= Len(Tail(v)) THEN Tail(v)[i] ELSE h[i - Len(Tail(v))]
    BY <2>2, ConcatProperties
  <2>5. q \in Seq(T!Messages)  BY <1>1
  <2> HIDE DEF q, t
  <2>6. /\ Head(q) = q[1] /\ Tail(q) \in Seq(T!Messages) /\ Len(Tail(q)) = Len(q) - 1
        /\ \A n \in 1..Len(Tail(q)) : Tail(q)[n] = q[n + 1]
    BY <2>1, <2>5, Taken
  <2>7. Head(q) = Head(v)  BY <2>2, <2>3, <2>6
  <2>8. Len(Tail(q)) = Len(t)  BY <2>2, <2>3, <2>4, <2>6
  <2>9. ASSUME NEW n \in 1..Len(Tail(q))  PROVE Tail(q)[n] = t[n]
    <3>1. /\ n + 1 \in 1..Len(v) + Len(h) /\ n \in 1..Len(Tail(v)) + Len(h)
          /\ (n + 1) - Len(v) = n - Len(Tail(v)) /\ (n + 1 <= Len(v) <=> n <= Len(Tail(v)))
      BY <2>2, <2>3, <2>6
    <3>2. CASE n <= Len(Tail(v))
      <4>1. n \in 1..Len(Tail(v))  BY <2>2, <3>1, <3>2
      <4> QED BY <2>2, <2>3, <2>4, <2>6, <3>1, <3>2, <4>1
    <3>3. CASE ~(n <= Len(Tail(v)))
      BY <2>3, <2>4, <2>6, <3>1, <3>3
    <3> QED BY <3>2, <3>3
  <2>10. Tail(q) = t  BY <2>4, <2>6, <2>8, <2>9, SeqEqual
  <2> QED BY <2>1, <2>7, <2>10 DEF q, t
<1> QED BY <1>1, <1>2, <1>4, <1>5
-----------------------------------------------------------------------------
LEMMA NewsIs ==
  /\ \A w \in Worktrees, on \in BOOLEAN :
       /\ T!Event(w, on) \in News /\ \A v : T!Decides(T!Event(w, on), v) <=> v = w
       /\ \A v : T!Sets(T!Event(w, on), v) <=> on
  /\ pending \subseteq Worktrees =>
       /\ T!Snapshot \in News /\ \A v : T!Decides(T!Snapshot, v)
       /\ \A v : T!Sets(T!Snapshot, v) <=> v \in pending
<1>1. ASSUME NEW w \in Worktrees, NEW on \in BOOLEAN
      PROVE  /\ T!Event(w, on) \in News /\ \A v : T!Decides(T!Event(w, on), v) <=> v = w
             /\ \A v : T!Sets(T!Event(w, on), v) <=> on
  <2> DEFINE m == [kind |-> "update", wt |-> w, on |-> on]
  <2>1. m \in T!Messages /\ m.kind = "update" /\ m.wt = w /\ m.on = on
    BY DEF T!Messages
  <2> HIDE DEF m
  <2>2. \A v : T!Decides(m, v) <=> v = w  BY <2>1 DEF T!Decides
  <2>3. \A v : T!Sets(m, v) <=> on  BY <2>1 DEF T!Sets
  <2>4. m \in News  BY <2>1 DEF News
  <2>5. T!Event(w, on) = m  BY DEF T!Event, m
  <2> QED BY <2>2, <2>3, <2>4, <2>5
<1>2. ASSUME pending \subseteq Worktrees
      PROVE  /\ T!Snapshot \in News /\ \A v : T!Decides(T!Snapshot, v)
             /\ \A v : T!Sets(T!Snapshot, v) <=> v \in pending
  <2> DEFINE m == [kind |-> "snapshot", set |-> pending]
  <2>1. m \in T!Messages /\ m.kind = "snapshot" /\ m.set = pending
    BY <1>2 DEF T!Messages
  <2> HIDE DEF m
  <2>2. \A v : T!Decides(m, v)  BY <2>1 DEF T!Decides
  <2>3. \A v : T!Sets(m, v) <=> v \in pending  BY <2>1 DEF T!Sets
  <2>4. m \in News  BY <2>1 DEF News
  <2>5. T!Snapshot = m  BY DEF T!Snapshot, m
  <2> QED BY <2>2, <2>3, <2>4, <2>5
<1> QED BY <1>1, <1>2

LEMMA NewsAreMessages == \A s : s \in Seq(News) => s \in Seq(T!Messages)
<1>1. News \subseteq T!Messages  BY DEF News
<1> QED BY <1>1, SeqMonotonic

LEMMA TrackFacts ==
  ASSUME TrackInv
  PROVE  /\ TrackTyped /\ Orderly
         /\ stream = "open" => pending = {} /\ \A r \in Requests : req[r] = T!Idle
         /\ \A c \in Clients :
              /\ ClientOk(c) /\ ChannelOk(c) /\ Current(c) /\ OpensOk(c) /\ NewsOk(c)
              /\ chan[c] \in Seq(T!Messages) /\ wire[c] \in Seq(T!Messages)
              /\ T!Coming(c) \in Seq(T!Messages)
              /\ Len(chan[c]) \in Nat /\ Len(wire[c]) \in Nat
              /\ Len(chan[c]) <= Buffer /\ Len(wire[c]) <= Room
<1>1. TrackTyped /\ Orderly
      /\ (stream = "open" => pending = {} /\ \A r \in Requests : req[r] = T!Idle)
      /\ \A c \in Clients : ClientOk(c)
  BY DEF TrackInv
<1>2. ASSUME NEW c \in Clients
      PROVE  /\ chan[c] \in Seq(T!Messages) /\ wire[c] \in Seq(T!Messages)
             /\ Len(chan[c]) <= Buffer /\ Len(wire[c]) <= Room
  BY <1>1 DEF TrackTyped
<1>3. ASSUME NEW c \in Clients
      PROVE  T!Coming(c) \in Seq(T!Messages) /\ Len(chan[c]) \in Nat /\ Len(wire[c]) \in Nat
  BY <1>2, ComingMoves, LenProperties DEF T!Coming
<1> QED BY <1>1, <1>2, <1>3 DEF ClientOk

\* A client that a step leaves alone.
LEMMA ClientStays ==
  ASSUME NEW c, ClientOk(c),
         stream' = stream, pending' = pending, raced' = raced, req' = req, posts' = posts,
         chan'[c] = chan[c], wire'[c] = wire[c], link'[c] = link[c], shown'[c] = shown[c],
         missed'[c] = missed[c], since'[c] = since[c]
  PROVE  ClientOk(c)'
<1>1. T!Coming(c)' = T!Coming(c)  BY DEF T!Coming
<1>2. \A w : T!Told(c, w)' <=> T!Told(c, w)  BY DEF T!Told, T!InFlight
<1>3. ChannelOk(c)'  BY <1>2 DEF ClientOk, ChannelOk
<1>4. Current(c)'  BY <1>1, <1>2 DEF ClientOk, Current, T!ComesTo
<1>5. OpensOk(c)'  BY <1>1 DEF ClientOk, OpensOk
<1>6. NewsOk(c)'  BY DEF ClientOk, NewsOk
<1> QED BY <1>3, <1>4, <1>5, <1>6 DEF ClientOk

LEMMA TrackStarts == ASSUME TrackBounds, T!Init  PROVE TrackInv
<1>1. <<>> \in Seq(T!Messages) /\ <<>> \in Seq(News) /\ Len(<<>>) = 0  OBVIOUS
<1>2. TrackTyped
  <2>1. 0 \in 0..MaxPosts /\ 0 \in 0..MaxDrops /\ 0 <= Buffer /\ 0 <= Room  BY DEF TrackBounds
  <2> QED BY <1>1, <2>1 DEF TrackTyped, T!Init
<1>3. \A r \in Requests : req[r] = T!Idle /\ req[r].at # "tell"  BY DEF T!Init, T!Idle
<1>4. Orderly  BY <1>3 DEF Orderly
<1>5. ASSUME NEW c \in Clients  PROVE ClientOk(c)
  <2>1. link[c] = "off" /\ wire[c] = <<>> /\ chan[c] = <<>> /\ shown[c] = {}  BY DEF T!Init
  <2>2. since[c] = 0 /\ posts = 0  BY DEF T!Init
  <2> QED BY <1>1, <2>1, <2>2 DEF ClientOk, ChannelOk, Current, OpensOk, NewsOk
<1> QED BY <1>2, <1>3, <1>4, <1>5 DEF TrackInv, T!Init

\* SetPending and Clear: the worktree is not told of until the broadcast.
LEMMA ChangeKeeps ==
  ASSUME TrackBounds, TrackInv, NEW r \in Requests, NEW w \in Worktrees, NEW on \in BOOLEAN,
         T!Change(r, w, on)
  PROVE  TrackInv'
<1> DEFINE e == [at |-> "tell", wt |-> w, on |-> on]
<1>1. /\ stream = "attention" /\ posts < MaxPosts /\ req[r] = T!Idle
      /\ pending' = IF on THEN pending \cup {w} ELSE pending \ {w}
      /\ req' = [req EXCEPT ![r] = e]
      /\ raced' = IF T!InFlight(w) = {} THEN raced \ {w} ELSE raced \cup {w}
      /\ posts' = posts + 1 /\ UNCHANGED <<stream, chan, missed, sleepy, link, wire, shown, drops, since>>
  BY DEF T!Change, T!links
<1>2. e \in [at : {"tell"}, wt : Worktrees, on : BOOLEAN] /\ e.at = "tell" /\ e.wt = w /\ e.on = on
  OBVIOUS
<1> HIDE DEF e
<1>3. req[r].at # "tell"  BY <1>1 DEF T!Idle
<1>4. DOMAIN req = Requests /\ req'[r] = e /\ \A q \in Requests \ {r} : req'[q] = req[q]
  BY <1>1, TrackFacts DEF TrackTyped
<1>5. /\ r \in T!InFlight(w)' /\ \A v : v # w => T!InFlight(v)' = T!InFlight(v)
  BY <1>2, <1>3, <1>4 DEF T!InFlight
<1>6. \A v \in Worktrees : v # w => /\ v \in pending' <=> v \in pending
                                    /\ v \in raced' <=> v \in raced
  BY <1>1
<1>7. w \in pending' <=> on  BY <1>1
<1>8. TrackTyped'
  <2>1. pending' \subseteq Worktrees /\ raced' \subseteq Worktrees  BY <1>1, TrackFacts DEF TrackTyped
  <2>2. posts' \in 0..MaxPosts  BY <1>1, TrackFacts DEF TrackTyped, TrackBounds
  <2>3. req' \in [Requests -> {T!Idle} \cup [at : {"tell"}, wt : Worktrees, on : BOOLEAN]]
    BY <1>1, <1>2, TrackFacts DEF TrackTyped
  <2> QED BY <1>1, <2>1, <2>2, <2>3, TrackFacts DEF TrackTyped
<1>9. Orderly'
  <2>1. \A q \in Requests : q # r /\ req[q].at = "tell" => req[q].wt \in Worktrees
    <3>1. \A q \in Requests : req[q] \in {T!Idle} \cup [at : {"tell"}, wt : Worktrees, on : BOOLEAN]
      BY TrackFacts DEF TrackTyped
    <3> QED BY <3>1 DEF T!Idle
  <2>2. w \notin raced' => \A q \in Requests : ~(req[q].at = "tell" /\ req[q].wt = w)
    BY <1>1 DEF T!InFlight
  <2>3. ASSUME NEW q \in Requests, req'[q].at = "tell", req'[q].wt \notin raced'
        PROVE  /\ req'[q].on <=> req'[q].wt \in pending'
               /\ \A p \in Requests : req'[p].at = "tell" /\ req'[p].wt = req'[q].wt => p = q
    <3>1. CASE q = r
      <4>1. req'[q] = e /\ e.wt = w /\ e.on = on  BY <1>2, <1>4, <3>1
      <4>2. \A p \in Requests : p # r => ~(req'[p].at = "tell" /\ req'[p].wt = w)
        BY <1>4, <2>2, <2>3, <4>1
      <4>3. (req'[q].on <=> req'[q].wt \in pending')  BY <1>7, <4>1
      <4> QED BY <3>1, <4>1, <4>2, <4>3
    <3>2. CASE q # r
      <4>1. req'[q] = req[q] /\ req[q].wt \in Worktrees /\ req[q].wt # w
        BY <1>1, <1>4, <2>1, <2>2, <2>3, <3>2
      <4>2. /\ req[q].on <=> req[q].wt \in pending
            /\ \A p \in Requests : req[p].at = "tell" /\ req[p].wt = req[q].wt => p = q
        BY <1>6, <2>3, <4>1, TrackFacts DEF Orderly
      <4>3. \A p \in Requests : req'[p].at = "tell" /\ req'[p].wt = req[q].wt => p = q
        BY <1>2, <1>4, <4>1, <4>2
      <4>4. req[q].wt \in pending' <=> req[q].wt \in pending  BY <1>6, <4>1
      <4>5. req'[q].on = req[q].on /\ req'[q].wt = req[q].wt  BY <4>1
      <4>6. req'[q].on <=> req'[q].wt \in pending'  BY <4>2, <4>4, <4>5
      <4>7. \A p \in Requests : req'[p].at = "tell" /\ req'[p].wt = req'[q].wt => p = q  BY <4>3, <4>5
      <4> QED BY <4>6, <4>7
    <3> QED BY <3>1, <3>2
  <2> QED BY <2>3 DEF Orderly
<1>10. ASSUME NEW c \in Clients  PROVE ClientOk(c)'
  <2>1. T!Coming(c)' = T!Coming(c)  BY <1>1 DEF T!Coming
  <2>2. ASSUME NEW v \in Worktrees, T!Told(c, v)'
        PROVE  T!Told(c, v) /\ (v \in pending' <=> v \in pending)
    <3>1. v # w  BY <1>5, <2>2 DEF T!Told
    <3> QED BY <1>1, <1>5, <1>6, <2>2, <3>1 DEF T!Told
  <2>3. ChannelOk(c)'
    <3>1. ChannelOk(c)  BY TrackFacts
    <3>2. link'[c] # "on" => wire'[c] = <<>>  BY <1>1, <3>1 DEF ChannelOk
    <3>3. ASSUME link'[c] # "off", NEW v \in Worktrees, T!Told(c, v)'
          PROVE  T!LastSays(chan'[c], v, v \in pending')
      <4>1. T!LastSays(chan[c], v, v \in pending)  BY <1>1, <2>2, <3>1, <3>3 DEF ChannelOk
      <4> QED BY <1>1, <2>2, <3>3, <4>1 DEF T!LastSays
    <3> QED BY <3>2, <3>3 DEF ChannelOk, T!LastSays
  <2>4. Current(c)'
    <3> SUFFICES ASSUME link'[c] = "on", NEW v \in Worktrees, T!Told(c, v)'
                 PROVE  T!ComesTo(c, v, v \in pending)'
      BY DEF Current
    <3>1. T!ComesTo(c, v, v \in pending)  BY <1>1, <2>2, TrackFacts DEF Current
    <3>2. v \in pending' <=> v \in pending  BY <2>2
    <3> QED BY <1>1, <2>1, <3>1, <3>2 DEF T!ComesTo, T!LastSays
  <2>5. OpensOk(c)' /\ NewsOk(c)'  BY <1>1, TrackFacts DEF OpensOk, NewsOk
  <2> QED BY <2>3, <2>4, <2>5 DEF ClientOk
<1> QED BY <1>1, <1>8, <1>9, <1>10 DEF TrackInv
\* What is sent to a subscriber goes to the end of its channel, or is dropped.
LEMMA SendDoes ==
  ASSUME TrackBounds, TrackInv, NEW m \in T!Messages, T!Send(m), NEW c \in Clients
  PROVE  /\ chan' = [d \in Clients |-> IF d \in T!Listening /\ T!HasRoom(d)
                                       THEN Append(chan[d], m) ELSE chan[d]]
         /\ chan'[c] \in Seq(T!Messages) /\ Len(chan'[c]) <= Buffer
         /\ \/ link[c] # "off" /\ T!HasRoom(c) /\ chan'[c] = Append(chan[c], m)
               /\ wire[c] \o chan'[c] = Append(T!Coming(c), m)
            \/ (link[c] = "off" \/ ~T!HasRoom(c)) /\ chan'[c] = chan[c]
<1>1. chan' = [d \in Clients |-> IF d \in T!Listening /\ T!HasRoom(d)
                                 THEN Append(chan[d], m) ELSE chan[d]]
  BY DEF T!Send
<1>2. CASE c \in T!Listening /\ T!HasRoom(c)
  <2>1. chan'[c] = Append(chan[c], m) /\ link[c] # "off" /\ Len(chan[c]) < Buffer
    BY <1>1, <1>2 DEF T!Listening, T!HasRoom
  <2>2. /\ Append(chan[c], m) \in Seq(T!Messages) /\ Len(Append(chan[c], m)) = Len(chan[c]) + 1
        /\ Len(chan[c]) \in Nat
    BY TrackFacts, Appended
  <2>3. wire[c] \o Append(chan[c], m) = Append(T!Coming(c), m)
    <3>1. chan[c] \in Seq(T!Messages) /\ wire[c] \in Seq(T!Messages)  BY TrackFacts
    <3>2. wire[c] \o Append(chan[c], m) = Append(wire[c] \o chan[c], m)  BY <3>1, ComingMoves
    <3> QED BY <3>2 DEF T!Coming
  <2>5. Len(chan'[c]) <= Buffer  BY <2>1, <2>2 DEF TrackBounds
  <2> QED BY <1>1, <1>2, <2>1, <2>2, <2>3, <2>5
<1>3. CASE ~(c \in T!Listening /\ T!HasRoom(c))
  <2>1. chan'[c] = chan[c]  BY <1>1, <1>3
  <2>2. link[c] = "off" \/ ~T!HasRoom(c)  BY <1>3 DEF T!Listening
  <2> QED BY <1>1, <2>1, <2>2, TrackFacts
<1> QED BY <1>2, <1>3

LEMMA TellKeeps ==
  ASSUME TrackBounds, TrackInv, NEW r \in Requests, T!Tell(r)
  PROVE  TrackInv'
<1> DEFINE w == req[r].wt
           on == req[r].on
           m == T!Event(w, on)
<1>1. /\ req[r].at = "tell" /\ T!Send(m) /\ req' = [req EXCEPT ![r] = T!Idle]
      /\ missed' = [c \in Clients |-> IF c \in T!Listening /\ ~T!HasRoom(c) THEN missed[c] \cup {w}
                                      ELSE missed[c] \ {w}]
      /\ UNCHANGED <<stream, pending, posts, raced, sleepy, link, wire, shown, drops, since>>
  BY DEF T!Tell, T!links
<1>2. w \in Worktrees /\ on \in BOOLEAN
  <2>1. req[r] \in {T!Idle} \cup [at : {"tell"}, wt : Worktrees, on : BOOLEAN]
    BY TrackFacts DEF TrackTyped
  <2> QED BY <1>1, <2>1 DEF T!Idle
<1>3. /\ m \in News /\ m \in T!Messages /\ \A v : T!Decides(m, v) <=> v = w
      /\ \A v : T!Sets(m, v) <=> on
  BY <1>2, NewsIs DEF News
<1>4. stream = "attention"
  BY <1>1, TrackFacts DEF TrackTyped, T!Idle
<1>5. DOMAIN req = Requests /\ req'[r] = T!Idle /\ \A q \in Requests \ {r} : req'[q] = req[q]
  BY <1>1, TrackFacts DEF TrackTyped
<1>6. r \in T!InFlight(w) /\ \A v : T!InFlight(v)' = T!InFlight(v) \ {r}
  <2>1. T!Idle.at # "tell"  BY DEF T!Idle
  <2> QED BY <1>1, <1>5, <2>1 DEF T!InFlight
<1>7. \A v : v # w => r \notin T!InFlight(v)  BY DEF T!InFlight
<1>8. w \notin raced => (on <=> w \in pending)  BY <1>1, TrackFacts DEF Orderly
<1> HIDE DEF w, on, m
<1>9. TrackTyped'
  <2>1. chan' \in [Clients -> Seq(T!Messages)] /\ \A c \in Clients : Len(chan'[c]) <= Buffer
    <3>1. \A c \in Clients : chan'[c] \in Seq(T!Messages) /\ Len(chan'[c]) <= Buffer
      BY <1>1, <1>3, SendDoes
    <3>2. chan' = [c \in Clients |-> chan'[c]]  BY <1>1 DEF T!Send
    <3> QED BY <3>1, <3>2
  <2>2. missed' \in [Clients -> SUBSET Worktrees]
    BY <1>1, <1>2, TrackFacts DEF TrackTyped
  <2>3. req' \in [Requests -> {T!Idle} \cup [at : {"tell"}, wt : Worktrees, on : BOOLEAN]]
    BY <1>1, TrackFacts DEF TrackTyped
  <2> QED BY <1>1, <2>1, <2>2, <2>3, TrackFacts DEF TrackTyped
<1>10. Orderly'
  <2>1. T!Idle.at # "tell"  BY DEF T!Idle
  <2>2. \A q \in Requests : req'[q].at = "tell" => req'[q] = req[q]  BY <1>5, <2>1
  <2> SUFFICES ASSUME NEW q \in Requests, req'[q].at = "tell", req'[q].wt \notin raced'
               PROVE  /\ req'[q].on <=> req'[q].wt \in pending'
                      /\ \A p \in Requests : req'[p].at = "tell" /\ req'[p].wt = req'[q].wt => p = q
    BY DEF Orderly
  <2>3. /\ req[q].on <=> req[q].wt \in pending
        /\ \A p \in Requests : req[p].at = "tell" /\ req[p].wt = req[q].wt => p = q
    BY <1>1, <2>2, TrackFacts DEF Orderly
  <2>4. req'[q].on = req[q].on /\ req'[q].wt = req[q].wt /\ pending' = pending  BY <1>1, <2>2
  <2>5. \A p \in Requests : req'[p].at = "tell" /\ req'[p].wt = req[q].wt
                              => req[p].at = "tell" /\ req[p].wt = req[q].wt
    BY <2>2
  <2>6. \A p \in Requests : req'[p].at = "tell" /\ req'[p].wt = req[q].wt => p = q  BY <2>3, <2>5
  <2> QED BY <2>3, <2>4, <2>6
<1>11. ASSUME NEW c \in Clients  PROVE ClientOk(c)'
  <2>1. \/ link[c] # "off" /\ T!HasRoom(c) /\ chan'[c] = Append(chan[c], m)
           /\ wire[c] \o chan'[c] = Append(T!Coming(c), m)
        \/ (link[c] = "off" \/ ~T!HasRoom(c)) /\ chan'[c] = chan[c]
    BY <1>1, <1>3, SendDoes
  <2>2. ASSUME link[c] # "off", NEW v \in Worktrees, T!Told(c, v)'
        PROVE  \/ /\ v = w /\ (on <=> v \in pending)
                  /\ chan'[c] = Append(chan[c], m)
                  /\ wire[c] \o chan'[c] = Append(T!Coming(c), m)
               \/ v # w /\ T!Told(c, v)
    <3>1. v \notin raced /\ v \notin missed'[c] /\ T!InFlight(v)' = {}  BY <1>1, <2>2 DEF T!Told
    <3>2. CASE v = w
      <4>1. T!HasRoom(c)
        BY <1>1, <2>2, <3>1, <3>2 DEF T!Listening
      <4> QED BY <1>8, <2>1, <2>2, <3>1, <3>2, <4>1
    <3>3. CASE v # w
      <4>1. v \notin missed[c]  BY <1>1, <3>1, <3>3
      <4>2. T!InFlight(v) = {}  BY <1>6, <1>7, <3>1, <3>3
      <4> QED BY <3>1, <3>3, <4>1, <4>2 DEF T!Told
    <3> QED BY <3>2, <3>3
  <2>3. ChannelOk(c)'
    <3>1. link'[c] # "on" => wire'[c] = <<>>  BY <1>1, TrackFacts DEF ChannelOk
    <3>2. ASSUME link[c] # "off", NEW v \in Worktrees, T!Told(c, v)'
          PROVE  T!LastSays(chan'[c], v, v \in pending)
      <4>1. CASE v = w /\ (on <=> v \in pending) /\ chan'[c] = Append(chan[c], m)
        BY <1>3, <4>1, TrackFacts, SaysNew
      <4>2. CASE v # w /\ T!Told(c, v)
        <5>1. T!LastSays(chan[c], v, v \in pending)  BY <3>2, <4>2, TrackFacts DEF ChannelOk
        <5>2. T!LastSays(Append(chan[c], m), v, v \in pending)
          BY <1>3, <4>2, <5>1, TrackFacts, SaysOther
        <5> QED BY <2>1, <5>1, <5>2
      <4> QED BY <2>2, <3>2, <4>1, <4>2
    <3> QED BY <1>1, <3>1, <3>2 DEF ChannelOk, T!LastSays
  <2>4. Current(c)'
    <3> SUFFICES ASSUME link[c] = "on", NEW v \in Worktrees, T!Told(c, v)'
                 PROVE  /\ T!LastSays(wire[c] \o chan'[c], v, v \in pending)
                        /\ T!Silent(wire[c] \o chan'[c], v) => (v \in shown[c] <=> v \in pending)
      BY <1>1 DEF Current, T!ComesTo, T!Coming, T!LastSays, T!Silent
    <3>1. CASE v = w /\ (on <=> v \in pending) /\ wire[c] \o chan'[c] = Append(T!Coming(c), m)
      BY <1>3, <3>1, TrackFacts, SaysNew
    <3>2. CASE v # w /\ T!Told(c, v)
      <4>1. T!ComesTo(c, v, v \in pending)  BY <3>2, TrackFacts DEF Current
      <4>2. /\ T!LastSays(T!Coming(c), v, v \in pending)
            /\ T!Silent(T!Coming(c), v) => (v \in shown[c] <=> v \in pending)
        BY <4>1 DEF T!ComesTo
      <4>3. /\ T!LastSays(Append(T!Coming(c), m), v, v \in pending)
            /\ T!Silent(Append(T!Coming(c), m), v) => T!Silent(T!Coming(c), v)
        BY <1>3, <3>2, <4>2, TrackFacts, SaysOther
      <4>4. chan'[c] = chan[c] => wire[c] \o chan'[c] = T!Coming(c)  BY DEF T!Coming
      <4> QED BY <2>1, <4>2, <4>3, <4>4
    <3> QED BY <2>2, <3>1, <3>2
  <2>5. OpensOk(c)'  BY <1>1, <1>4 DEF OpensOk
  <2>6. NewsOk(c)'
    <3>1. chan[c] \in Seq(News) /\ wire[c] \in Seq(News)  BY <1>4, TrackFacts DEF NewsOk
    <3>2. Append(chan[c], m) \in Seq(News)  BY <1>3, <3>1, Appended
    <3> QED BY <1>1, <2>1, <3>1, <3>2 DEF NewsOk
  <2> QED BY <2>3, <2>4, <2>5, <2>6 DEF ClientOk
<1>12. (stream = "open" => pending = {} /\ \A q \in Requests : req[q] = T!Idle)'
  BY <1>1, <1>4
<1> QED BY <1>9, <1>10, <1>11, <1>12 DEF TrackInv

LEMMA AscendMore ==
  ASSUME NEW s \in Seq(T!Messages), NEW i \in Nat, NEW p \in Nat, Ascending(s, i, p)
  PROVE  /\ Ascending(s, i, p + 1)
         /\ \A m \in T!Messages : m.kind = "open" /\ m.n = p + 1 /\ i <= p
              => Ascending(Append(s, m), i, p + 1)
<1>1. \A k \in DOMAIN s : s[k] \in T!Messages  BY ElementOfSeq, LenProperties
<1>2. \A k \in DOMAIN s : s[k].kind = "open" /\ s[k].n > i /\ s[k].n <= p /\ s[k].n \in Nat
  <2>1. \A k \in DOMAIN s : s[k].kind = "open" /\ s[k].n > i /\ s[k].n <= p  BY DEF Ascending
  <2>2. \A m \in T!Messages : m.kind = "open" => m.n \in Nat
    BY DEF T!Messages
  <2> QED BY <1>1, <2>1, <2>2
<1>3. Ascending(s, i, p + 1)
  <2>1. \A k \in DOMAIN s : s[k].n <= p + 1  BY <1>2
  <2> QED BY <1>2, <2>1 DEF Ascending
<1>4. ASSUME NEW m \in T!Messages, m.kind = "open", m.n = p + 1, i <= p
      PROVE  Ascending(Append(s, m), i, p + 1)
  <2> DEFINE q == Append(s, m)
  <2>1. /\ DOMAIN s = 1..Len(s) /\ DOMAIN q = 1..(Len(s) + 1) /\ Len(s) \in Nat
        /\ q[Len(s) + 1] = m /\ \A k \in 1..Len(s) : q[k] = s[k]
    BY Appended
  <2> HIDE DEF q
  <2>2. ASSUME NEW k \in DOMAIN q  PROVE q[k].kind = "open" /\ q[k].n > i /\ q[k].n <= p + 1
    <3>1. CASE k \in DOMAIN s
      <4>1. q[k] = s[k]  BY <2>1, <3>1
      <4>2. s[k].n > i /\ s[k].n <= p + 1 /\ s[k].kind = "open"  BY <1>2, <3>1
      <4> QED BY <4>1, <4>2
    <3>2. CASE k \notin DOMAIN s
      <4>1. q[k] = m  BY <2>1, <3>2
      <4>2. p + 1 > i /\ p + 1 <= p + 1  BY <1>4
      <4> QED BY <1>4, <4>1, <4>2
    <3> QED BY <3>1, <3>2
  <2>3. ASSUME NEW k \in DOMAIN q, NEW l \in DOMAIN q, k < l  PROVE q[k].n < q[l].n
    <3>1. k \in DOMAIN s  BY <2>1, <2>3
    <3>2. q[k] = s[k]  BY <2>1, <3>1
    <3>3. CASE l \in DOMAIN s
      <4>1. q[l] = s[l]  BY <2>1, <3>3
      <4>2. s[k].n < s[l].n  BY <2>3, <3>1, <3>3 DEF Ascending
      <4> QED BY <3>2, <4>1, <4>2
    <3>4. CASE l \notin DOMAIN s
      <4>1. q[l] = m  BY <2>1, <3>4
      <4>2. s[k].n < p + 1  BY <1>2, <3>1
      <4> QED BY <1>4, <3>2, <4>1, <4>2
    <3> QED BY <3>3, <3>4
  <2>4. Ascending(q, i, p + 1)  BY <2>2, <2>3 DEF Ascending
  <2> QED BY <2>4 DEF q
<1> QED BY <1>3, <1>4

LEMMA OpenFileKeeps == ASSUME TrackBounds, TrackInv, T!OpenFile  PROVE TrackInv'
<1> DEFINE n == posts + 1
           m == [kind |-> "open", n |-> n]
<1>1. /\ stream = "open" /\ posts < MaxPosts /\ T!Send(m) /\ posts' = n
      /\ UNCHANGED <<stream, pending, req, raced, missed, sleepy, link, wire, shown, drops, since>>
  BY DEF T!OpenFile, T!Publish, T!links
<1>2. posts \in Nat /\ n \in 1..MaxPosts /\ n \in 0..MaxPosts /\ n > posts
  BY <1>1, TrackFacts DEF TrackTyped, TrackBounds
<1>3. m \in T!Messages /\ m.kind = "open" /\ m.n = n  BY <1>2 DEF T!Messages
<1> HIDE DEF m
<1>4. \A v : ~T!Decides(m, v)  BY <1>3 DEF T!Decides
<1>5. pending = {} /\ \A r \in Requests : req[r] = T!Idle  BY <1>1, TrackFacts
<1>6. TrackTyped'
  <2>1. chan' \in [Clients -> Seq(T!Messages)] /\ \A c \in Clients : Len(chan'[c]) <= Buffer
    <3>1. \A c \in Clients : chan'[c] \in Seq(T!Messages) /\ Len(chan'[c]) <= Buffer
      BY <1>1, <1>3, SendDoes
    <3>2. chan' = [c \in Clients |-> chan'[c]]  BY <1>1 DEF T!Send
    <3> QED BY <3>1, <3>2
  <2> QED BY <1>1, <1>2, <2>1, TrackFacts DEF TrackTyped
<1>7. Orderly'  BY <1>1, TrackFacts DEF Orderly
<1>8. ASSUME NEW c \in Clients  PROVE ClientOk(c)'
  <2>1. \/ link[c] # "off" /\ T!HasRoom(c) /\ chan'[c] = Append(chan[c], m)
           /\ wire[c] \o chan'[c] = Append(T!Coming(c), m)
        \/ (link[c] = "off" \/ ~T!HasRoom(c)) /\ chan'[c] = chan[c]
    BY <1>1, <1>3, SendDoes
  <2>2. \A v : T!Told(c, v)' <=> T!Told(c, v)  BY <1>1 DEF T!Told, T!InFlight
  <2>3. chan'[c] = chan[c] => wire[c] \o chan'[c] = T!Coming(c)  BY DEF T!Coming
  <2>4. ChannelOk(c)'
    <3>1. ASSUME link[c] # "off", NEW v \in Worktrees, T!Told(c, v)
          PROVE  T!LastSays(chan'[c], v, v \in pending)
      <4>1. T!LastSays(chan[c], v, v \in pending)  BY <3>1, TrackFacts DEF ChannelOk
      <4>2. T!LastSays(Append(chan[c], m), v, v \in pending)
        BY <1>3, <1>4, <4>1, TrackFacts, SaysOther
      <4> QED BY <2>1, <4>1, <4>2
    <3>2. link'[c] # "on" => wire'[c] = <<>>  BY <1>1, TrackFacts DEF ChannelOk
    <3> QED BY <1>1, <2>2, <3>1, <3>2 DEF ChannelOk, T!LastSays
  <2>5. Current(c)'
    <3> SUFFICES ASSUME link[c] = "on", NEW v \in Worktrees, T!Told(c, v)
                 PROVE  /\ T!LastSays(wire[c] \o chan'[c], v, v \in pending)
                        /\ T!Silent(wire[c] \o chan'[c], v) => (v \in shown[c] <=> v \in pending)
      BY <1>1, <2>2 DEF Current, T!ComesTo, T!Coming, T!LastSays, T!Silent
    <3>1. T!ComesTo(c, v, v \in pending)  BY TrackFacts DEF Current
    <3>2. /\ T!LastSays(T!Coming(c), v, v \in pending)
          /\ T!Silent(T!Coming(c), v) => (v \in shown[c] <=> v \in pending)
      BY <3>1 DEF T!ComesTo
    <3>3. /\ T!LastSays(Append(T!Coming(c), m), v, v \in pending)
          /\ T!Silent(Append(T!Coming(c), m), v) => T!Silent(T!Coming(c), v)
      BY <1>3, <1>4, <3>2, TrackFacts, SaysOther
    <3> QED BY <2>1, <2>3, <3>2, <3>3
  <2>6. OpensOk(c)'
    <3>1. /\ shown[c] = {} /\ link[c] # "new" /\ since[c] <= posts
          /\ link[c] = "on" => Ascending(T!Coming(c), since[c], posts)
      BY <1>1, TrackFacts DEF OpensOk
    <3>2. since[c] \in Nat  BY TrackFacts DEF TrackTyped
    <3>3. since[c] <= n  BY <1>2, <3>1, <3>2
    <3>4. ASSUME link[c] = "on"  PROVE Ascending(wire[c] \o chan'[c], since[c], n)
      <4>1. CASE wire[c] \o chan'[c] = Append(T!Coming(c), m)
        BY <1>2, <1>3, <3>1, <3>2, <3>4, <4>1, TrackFacts, AscendMore
      <4>2. CASE chan'[c] = chan[c]
        BY <1>2, <1>3, <2>3, <3>1, <3>2, <3>4, <4>2, TrackFacts, AscendMore
      <4> QED BY <2>1, <4>1, <4>2
    <3> QED BY <1>1, <3>1, <3>3, <3>4 DEF OpensOk, T!Coming, Ascending
  <2>7. NewsOk(c)'  BY <1>1 DEF NewsOk
  <2> QED BY <2>4, <2>5, <2>6, <2>7 DEF ClientOk
<1>9. (stream = "open" => pending = {} /\ \A r \in Requests : req[r] = T!Idle)'
  BY <1>1, <1>5
<1> QED BY <1>6, <1>7, <1>8, <1>9 DEF TrackInv
LEMMA AscendRest ==
  ASSUME NEW s \in Seq(T!Messages), s # <<>>, NEW i, NEW p, Ascending(s, i, p)
  PROVE  /\ Ascending(Tail(s), i, p) /\ Head(s).kind = "open" /\ Head(s).n > i
         /\ \A k \in DOMAIN Tail(s) : Head(s).n < Tail(s)[k].n
<1> DEFINE t == Tail(s)
<1>1. /\ Len(s) \in Nat /\ Len(s) > 0 /\ Head(s) = s[1] /\ Len(t) = Len(s) - 1
      /\ \A n \in 1..Len(t) : n + 1 \in 1..Len(s) /\ t[n] = s[n + 1]
      /\ t \in Seq(T!Messages)
  BY Taken
<1>2. DOMAIN s = 1..Len(s) /\ DOMAIN t = 1..Len(t)  BY <1>1, LenProperties
<1> HIDE DEF t
<1>3. 1 \in DOMAIN s  BY <1>1, <1>2
<1>4. \A k \in DOMAIN t : k + 1 \in DOMAIN s /\ 1 < k + 1 /\ t[k] = s[k + 1]  BY <1>1, <1>2
<1>5. \A k, l \in DOMAIN t : k < l => k + 1 < l + 1  BY <1>1, <1>2
<1>6. Ascending(t, i, p)  BY <1>4, <1>5 DEF Ascending
<1>7. \A k \in DOMAIN t : s[1].n < t[k].n  BY <1>3, <1>4 DEF Ascending
<1> QED BY <1>1, <1>3, <1>6, <1>7 DEF Ascending, t

LEMMA NoneComing ==
  /\ <<>> \in Seq(T!Messages) /\ <<>> \in Seq(News) /\ Len(<<>>) = 0 /\ <<>> \o <<>> = <<>>
  /\ \A w, on : T!LastSays(<<>>, w, on)
  /\ \A i, p : Ascending(<<>>, i, p)
BY DEF T!LastSays, Ascending

LEMMA DialKeeps ==
  ASSUME TrackBounds, TrackInv, NEW c \in Clients, T!Subscribe(c)
  PROVE  TrackInv'
<1>1. /\ link[c] = "off" /\ link' = [link EXCEPT ![c] = IF stream = "attention" THEN "new" ELSE "on"]
      /\ chan' = [chan EXCEPT ![c] = <<>>] /\ missed' = [missed EXCEPT ![c] = {}]
      /\ since' = [since EXCEPT ![c] = posts]
      /\ UNCHANGED <<stream, sleepy, pending, req, wire, shown, posts, drops, raced>>
  BY DEF T!Subscribe
<1>2. TrackTyped'
  <2>1. 0 <= Buffer  BY DEF TrackBounds
  <2>2. chan' \in [Clients -> Seq(T!Messages)]  BY <1>1, NoneComing, TrackFacts DEF TrackTyped
  <2>3. \A d \in Clients : Len(chan'[d]) <= Buffer  BY <1>1, <2>1, NoneComing, TrackFacts DEF TrackTyped
  <2> QED BY <1>1, <2>2, <2>3, TrackFacts DEF TrackTyped
<1>3. Orderly'  BY <1>1, TrackFacts DEF Orderly
<1>4. /\ chan'[c] = <<>> /\ since'[c] = posts /\ link'[c] = (IF stream = "attention" THEN "new" ELSE "on")
      /\ \A d \in Clients \ {c} : /\ chan'[d] = chan[d] /\ since'[d] = since[d] /\ link'[d] = link[d]
                                  /\ missed'[d] = missed[d]
  BY <1>1, TrackFacts DEF TrackTyped
<1>5. ClientOk(c)'
  <2>1. wire[c] = <<>>  BY <1>1, TrackFacts DEF ChannelOk
  <2>2. ChannelOk(c)'  BY <1>1, <1>4, <2>1, NoneComing DEF ChannelOk, T!LastSays
  <2>3. T!Coming(c)' = <<>>  BY <1>1, <1>4, <2>1, NoneComing DEF T!Coming
  <2>4. Current(c)'
    <3>1. ASSUME link'[c] = "on", NEW w \in Worktrees
          PROVE  w \in shown[c] <=> w \in pending
      <4>1. stream = "open"  BY <1>4, <3>1, TrackFacts DEF TrackTyped
      <4> QED BY <4>1, TrackFacts DEF OpensOk
    <3> QED BY <1>1, <2>3, <3>1, NoneComing DEF Current, T!ComesTo, T!LastSays
  <2>5. OpensOk(c)'
    <3>1. posts <= posts  BY TrackFacts DEF TrackTyped
    <3> QED BY <1>1, <1>4, <2>3, <3>1, NoneComing, TrackFacts DEF OpensOk, Ascending
  <2>6. NewsOk(c)'  BY <1>1, <1>4, <2>1, NoneComing DEF NewsOk
  <2> QED BY <2>2, <2>4, <2>5, <2>6 DEF ClientOk
<1>6. \A d \in Clients \ {c} : ClientOk(d)'  BY <1>1, <1>4, TrackFacts, ClientStays
<1> QED BY <1>1, <1>2, <1>3, <1>5, <1>6, TrackFacts DEF TrackInv

LEMMA SnapshotKeeps ==
  ASSUME TrackBounds, TrackInv, NEW c \in Clients, T!SendSnapshot(c)
  PROVE  TrackInv'
<1> DEFINE m == T!Snapshot
<1>1. /\ link[c] = "new" /\ link' = [link EXCEPT ![c] = "on"] /\ wire' = [wire EXCEPT ![c] = Append(@, m)]
      /\ UNCHANGED <<stream, sleepy, pending, req, chan, shown, posts, drops, raced, missed, since>>
  BY DEF T!SendSnapshot
<1>2. /\ m \in News /\ m \in T!Messages /\ \A v : T!Decides(m, v)
      /\ \A v : T!Sets(m, v) <=> v \in pending
  BY NewsIs, TrackFacts DEF TrackTyped, News
<1> HIDE DEF m
<1>3. wire[c] = <<>> /\ Append(<<>>, m) = <<m>>  BY <1>1, TrackFacts DEF ChannelOk
<1>4. <<m>> \in Seq(News) /\ <<m>> \in Seq(T!Messages) /\ Len(<<m>>) = 1  BY <1>2
<1>5. TrackTyped'
  <2>1. 1 <= Room  BY DEF TrackBounds
  <2>2. wire' \in [Clients -> Seq(T!Messages)]  BY <1>1, <1>3, <1>4, TrackFacts DEF TrackTyped
  <2>3. \A d \in Clients : Len(wire'[d]) <= Room  BY <1>1, <1>3, <1>4, <2>1, TrackFacts DEF TrackTyped
  <2> QED BY <1>1, <2>2, <2>3, TrackFacts DEF TrackTyped
<1>6. Orderly'  BY <1>1, TrackFacts DEF Orderly
<1>7. /\ wire'[c] = <<m>> /\ link'[c] = "on"
      /\ \A d \in Clients \ {c} : wire'[d] = wire[d] /\ link'[d] = link[d]
  BY <1>1, <1>3, TrackFacts DEF TrackTyped
<1>8. stream = "attention"  BY <1>1, TrackFacts DEF TrackTyped, OpensOk
<1>9. ClientOk(c)'
  <2>1. \A v : T!Told(c, v)' <=> T!Told(c, v)  BY <1>1 DEF T!Told, T!InFlight
  <2>2. \A v \in Worktrees : T!Told(c, v) => T!LastSays(chan[c], v, v \in pending)
    BY <1>1, TrackFacts DEF ChannelOk
  <2>3. ChannelOk(c)'  BY <1>1, <1>7, <2>1, <2>2 DEF ChannelOk, T!LastSays
  <2>4. Current(c)'
    <3> SUFFICES ASSUME NEW v \in Worktrees, T!Told(c, v)
                 PROVE  /\ T!LastSays(<<m>> \o chan[c], v, v \in pending)
                        /\ ~T!Silent(<<m>> \o chan[c], v)
      BY <1>1, <1>7, <2>1 DEF Current, T!ComesTo, T!Coming, T!LastSays, T!Silent
    <3>1. T!LastSays(chan[c], v, v \in pending) /\ chan[c] \in Seq(T!Messages)  BY <2>2, TrackFacts
    <3>2. m \in T!Messages /\ T!Decides(m, v) /\ (T!Sets(m, v) <=> v \in pending)  BY <1>2
    <3> QED BY <3>1, <3>2, SaysAhead
  <2>5. OpensOk(c)'  BY <1>1, <1>8 DEF OpensOk
  <2>6. NewsOk(c)'  BY <1>1, <1>4, <1>7, TrackFacts DEF NewsOk
  <2> QED BY <2>3, <2>4, <2>5, <2>6 DEF ClientOk
<1>10. \A d \in Clients \ {c} : ClientOk(d)'  BY <1>1, <1>7, TrackFacts, ClientStays
<1> QED BY <1>1, <1>5, <1>6, <1>9, <1>10, TrackFacts DEF TrackInv

LEMMA ForwardKeeps ==
  ASSUME TrackBounds, TrackInv, NEW c \in Clients, T!Forward(c)
  PROVE  TrackInv'
<1> DEFINE m == Head(chan[c])
<1>1. /\ link[c] = "on" /\ chan[c] # <<>> /\ Len(wire[c]) < Room
      /\ wire' = [wire EXCEPT ![c] = Append(@, m)] /\ chan' = [chan EXCEPT ![c] = Tail(@)]
      /\ UNCHANGED <<stream, sleepy, pending, req, link, shown, posts, drops, raced, missed, since>>
  BY DEF T!Forward
<1>2. /\ wire'[c] = Append(wire[c], m) /\ chan'[c] = Tail(chan[c])
      /\ \A d \in Clients \ {c} : wire'[d] = wire[d] /\ chan'[d] = chan[d]
  BY <1>1, TrackFacts DEF TrackTyped
<1>3. /\ chan[c] \in Seq(T!Messages) /\ wire[c] \in Seq(T!Messages)
      /\ Len(chan[c]) \in Nat /\ Len(wire[c]) \in Nat /\ Len(chan[c]) <= Buffer
  BY TrackFacts
<1>4. m \in T!Messages /\ Tail(chan[c]) \in Seq(T!Messages) /\ Len(Tail(chan[c])) = Len(chan[c]) - 1
  BY <1>1, <1>3, HeadTailProperties
<1>5. Append(wire[c], m) \in Seq(T!Messages) /\ Len(Append(wire[c], m)) = Len(wire[c]) + 1
  BY <1>3, <1>4, Appended
<1>6. wire'[c] \o chan'[c] = wire[c] \o chan[c]
  <2>1. Append(wire[c], Head(chan[c])) \o Tail(chan[c]) = wire[c] \o chan[c]
    BY <1>1, <1>3, ComingMoves
  <2> QED BY <1>2, <2>1
<1>7. TrackTyped'
  <2>1. Len(wire'[c]) <= Room /\ Len(chan'[c]) <= Buffer
    BY <1>1, <1>2, <1>3, <1>4, <1>5 DEF TrackBounds
  <2>2. /\ wire' \in [Clients -> Seq(T!Messages)] /\ chan' \in [Clients -> Seq(T!Messages)]
    BY <1>1, <1>4, <1>5, TrackFacts DEF TrackTyped
  <2>3. \A d \in Clients : Len(wire'[d]) <= Room /\ Len(chan'[d]) <= Buffer
    BY <1>2, <2>1, TrackFacts
  <2> QED BY <1>1, <2>2, <2>3, TrackFacts DEF TrackTyped
<1>8. Orderly'  BY <1>1, TrackFacts DEF Orderly
<1>9. ClientOk(c)'
  <2>1. \A v : T!Told(c, v)' <=> T!Told(c, v)  BY <1>1 DEF T!Told, T!InFlight
  <2>2. \A v \in Worktrees : T!Told(c, v) => T!LastSays(chan[c], v, v \in pending)
    BY <1>1, TrackFacts DEF ChannelOk
  <2>3. \A v \in Worktrees : T!Told(c, v) => T!LastSays(Tail(chan[c]), v, v \in pending)
    BY <1>1, <1>3, <2>2, SaysTail
  <2>4. ChannelOk(c)'  BY <1>1, <1>2, <2>1, <2>3 DEF ChannelOk, T!LastSays
  <2>5. T!Coming(c)' = T!Coming(c)  BY <1>6 DEF T!Coming
  <2>6. Current(c)'
    <3>1. Current(c)  BY TrackFacts
    <3> QED BY <1>1, <2>1, <2>5, <3>1 DEF Current, T!ComesTo
  <2>7. OpensOk(c)'
    <3>1. OpensOk(c)  BY TrackFacts
    <3> QED BY <1>1, <2>5, <3>1 DEF OpensOk
  <2>8. NewsOk(c)'
    <3>1. ASSUME stream = "attention"  PROVE chan'[c] \in Seq(News) /\ wire'[c] \in Seq(News)
      <4>1. chan[c] \in Seq(News) /\ wire[c] \in Seq(News)  BY <3>1, TrackFacts DEF NewsOk
      <4>2. m \in News /\ Tail(chan[c]) \in Seq(News)  BY <1>1, <4>1, HeadTailProperties
      <4> QED BY <1>2, <4>1, <4>2, Appended
    <3> QED BY <1>1, <3>1 DEF NewsOk
  <2> QED BY <2>4, <2>6, <2>7, <2>8 DEF ClientOk
<1>10. \A d \in Clients \ {c} : ClientOk(d)'  BY <1>1, <1>2, TrackFacts, ClientStays
<1> QED BY <1>1, <1>7, <1>8, <1>9, <1>10, TrackFacts DEF TrackInv

LEMMA Applied ==
  ASSUME NEW m \in T!Messages, NEW old \in SUBSET Worktrees
  PROVE  /\ T!Apply(old, m) \in SUBSET Worktrees
         /\ \A w : T!Decides(m, w) => (w \in T!Apply(old, m) <=> T!Sets(m, w))
         /\ \A w : ~T!Decides(m, w) => (w \in T!Apply(old, m) <=> w \in old)
         /\ m.kind = "open" => T!Apply(old, m) = old
<1>1. \/ m.kind = "update" /\ m.wt \in Worktrees /\ m.on \in BOOLEAN
      \/ m.kind = "snapshot" /\ m.set \in SUBSET Worktrees
      \/ m.kind = "open"
  BY DEF T!Messages
<1>2. CASE m.kind = "update" /\ m.wt \in Worktrees /\ m.on \in BOOLEAN
  <2>1. T!Apply(old, m) = IF m.on THEN old \cup {m.wt} ELSE old \ {m.wt}  BY <1>2 DEF T!Apply
  <2>2. \A w : T!Decides(m, w) <=> w = m.wt  BY <1>2 DEF T!Decides
  <2>3. \A w : T!Sets(m, w) <=> m.on  BY <1>2 DEF T!Sets
  <2>4. CASE m.on  BY <1>2, <2>1, <2>2, <2>3, <2>4
  <2>5. CASE ~m.on  BY <1>2, <2>1, <2>2, <2>3, <2>5
  <2> QED BY <2>4, <2>5
<1>3. CASE m.kind = "snapshot" /\ m.set \in SUBSET Worktrees
  BY <1>3 DEF T!Apply, T!Decides, T!Sets
<1>4. CASE m.kind = "open"
  BY <1>4 DEF T!Apply, T!Decides, T!Sets
<1> QED BY <1>1, <1>2, <1>3, <1>4

LEMMA ShowKeeps ==
  ASSUME TrackBounds, TrackInv, NEW c \in Clients, T!Read(c)
  PROVE  TrackInv'
<1> DEFINE m == Head(wire[c])
           q == T!Coming(c)
<1>1. /\ wire[c] # <<>> /\ shown' = [shown EXCEPT ![c] = T!Apply(@, m)]
      /\ wire' = [wire EXCEPT ![c] = Tail(@)]
      /\ UNCHANGED <<stream, sleepy, pending, req, link, chan, posts, drops, raced, missed, since>>
  BY DEF T!Read
<1>2. /\ wire'[c] = Tail(wire[c]) /\ shown'[c] = T!Apply(shown[c], m)
      /\ \A d \in Clients \ {c} : wire'[d] = wire[d] /\ shown'[d] = shown[d]
  BY <1>1, TrackFacts DEF TrackTyped
<1>3. /\ chan[c] \in Seq(T!Messages) /\ wire[c] \in Seq(T!Messages)
      /\ Len(wire[c]) \in Nat /\ Len(wire[c]) <= Room /\ shown[c] \in SUBSET Worktrees
  BY TrackFacts DEF TrackTyped
<1>4. m \in T!Messages /\ Tail(wire[c]) \in Seq(T!Messages) /\ Len(Tail(wire[c])) = Len(wire[c]) - 1
  BY <1>1, <1>3, HeadTailProperties
<1>5. q \in Seq(T!Messages) /\ q # <<>> /\ Head(q) = m /\ wire'[c] \o chan'[c] = Tail(q)
  <2>1. /\ wire[c] \o chan[c] \in Seq(T!Messages) /\ wire[c] \o chan[c] # <<>>
        /\ Head(wire[c] \o chan[c]) = Head(wire[c])
        /\ Tail(wire[c] \o chan[c]) = Tail(wire[c]) \o chan[c]
    BY <1>1, <1>3, ComingMoves
  <2>2. q = wire[c] \o chan[c] /\ m = Head(wire[c])  BY DEF T!Coming
  <2> QED BY <1>1, <1>2, <2>1, <2>2
<1> HIDE DEF m, q
<1>6. /\ T!Apply(shown[c], m) \in SUBSET Worktrees
      /\ \A w : T!Decides(m, w) => (w \in shown'[c] <=> T!Sets(m, w))
      /\ \A w : ~T!Decides(m, w) => (w \in shown'[c] <=> w \in shown[c])
      /\ m.kind = "open" => shown'[c] = shown[c]
  BY <1>2, <1>3, <1>4, Applied
<1>7. TrackTyped'
  <2>1. shown' \in [Clients -> SUBSET Worktrees]  BY <1>1, <1>6, TrackFacts DEF TrackTyped
  <2>2. wire' \in [Clients -> Seq(T!Messages)]  BY <1>1, <1>4, TrackFacts DEF TrackTyped
  <2>3. Len(wire'[c]) <= Room  BY <1>2, <1>3, <1>4 DEF TrackBounds
  <2>4. \A d \in Clients : Len(wire'[d]) <= Room  BY <1>2, <2>3, TrackFacts
  <2> QED BY <1>1, <2>1, <2>2, <2>4, TrackFacts DEF TrackTyped
<1>8. Orderly'  BY <1>1, TrackFacts DEF Orderly
<1>9. link[c] = "on"  BY <1>1, TrackFacts DEF ChannelOk
<1>10. ClientOk(c)'
  <2>1. \A v : T!Told(c, v)' <=> T!Told(c, v)  BY <1>1 DEF T!Told, T!InFlight
  <2>2. T!Coming(c)' = Tail(q)  BY <1>5 DEF T!Coming
  <2>3. ChannelOk(c)'
    <3>1. ChannelOk(c)  BY TrackFacts
    <3> QED BY <1>1, <1>9, <2>1, <3>1 DEF ChannelOk, T!LastSays
  <2>4. Current(c)'
    <3> SUFFICES ASSUME NEW v \in Worktrees, T!Told(c, v)
                 PROVE  /\ T!LastSays(Tail(q), v, v \in pending)
                        /\ T!Silent(Tail(q), v) => (v \in shown'[c] <=> v \in pending)
      BY <1>1, <2>1, <2>2 DEF Current, T!ComesTo, T!LastSays
    <3>1. T!ComesTo(c, v, v \in pending)  BY <1>9, TrackFacts DEF Current
    <3>2. T!LastSays(q, v, v \in pending) /\ (T!Silent(q, v) => (v \in shown[c] <=> v \in pending))
      BY <3>1 DEF T!ComesTo, q
    <3>3. /\ T!LastSays(Tail(q), v, v \in pending)
          /\ T!Silent(Tail(q), v) /\ ~T!Decides(m, v) => T!Silent(q, v)
          /\ T!Silent(Tail(q), v) /\ T!Decides(m, v) => (T!Sets(m, v) <=> v \in pending)
      <4>1. q \in Seq(T!Messages) /\ q # <<>> /\ T!LastSays(q, v, v \in pending) /\ Head(q) = m
        BY <1>5, <3>2
      <4> QED BY <4>1, SaysTail
    <3> QED BY <1>6, <3>2, <3>3
  <2>5. OpensOk(c)'
    <3>1. ASSUME stream = "open"
          PROVE  shown'[c] = {} /\ Ascending(Tail(q), since[c], posts)
      <4>1. shown[c] = {} /\ Ascending(q, since[c], posts)  BY <1>9, <3>1, TrackFacts DEF OpensOk, q
      <4>2. Ascending(Tail(q), since[c], posts) /\ m.kind = "open"
        BY <1>5, <4>1, AscendRest
      <4> QED BY <1>6, <4>1, <4>2
    <3>2. OpensOk(c)  BY TrackFacts
    <3> QED BY <1>1, <2>2, <3>1, <3>2 DEF OpensOk
  <2>6. NewsOk(c)'
    <3>1. ASSUME stream = "attention"  PROVE wire'[c] \in Seq(News)
      <4>1. wire[c] \in Seq(News)  BY <3>1, TrackFacts DEF NewsOk
      <4> QED BY <1>1, <1>2, <4>1, HeadTailProperties
    <3>2. NewsOk(c)  BY TrackFacts
    <3> QED BY <1>1, <3>1, <3>2 DEF NewsOk
  <2> QED BY <2>3, <2>4, <2>5, <2>6 DEF ClientOk
<1>11. \A d \in Clients \ {c} : ClientOk(d)'  BY <1>1, <1>2, TrackFacts, ClientStays
<1> QED BY <1>1, <1>7, <1>8, <1>10, <1>11, TrackFacts DEF TrackInv

LEMMA BreakKeeps ==
  ASSUME TrackBounds, TrackInv, NEW c \in Clients, T!Break(c)
  PROVE  TrackInv'
<1>1. /\ drops < MaxDrops /\ link' = [link EXCEPT ![c] = "off"] /\ wire' = [wire EXCEPT ![c] = <<>>]
      /\ drops' = drops + 1
      /\ UNCHANGED <<stream, sleepy, pending, req, chan, shown, posts, raced, missed, since>>
  BY DEF T!Break
<1>2. /\ wire'[c] = <<>> /\ link'[c] = "off"
      /\ \A d \in Clients \ {c} : wire'[d] = wire[d] /\ link'[d] = link[d]
  BY <1>1, TrackFacts DEF TrackTyped
<1>3. TrackTyped'
  <2>1. 0 <= Room  BY DEF TrackBounds
  <2>2. wire' \in [Clients -> Seq(T!Messages)]  BY <1>1, NoneComing, TrackFacts DEF TrackTyped
  <2>3. \A d \in Clients : Len(wire'[d]) <= Room  BY <1>2, <2>1, NoneComing, TrackFacts
  <2>4. drops' \in 0..MaxDrops  BY <1>1, TrackFacts DEF TrackTyped, TrackBounds
  <2> QED BY <1>1, <2>2, <2>3, <2>4, TrackFacts DEF TrackTyped
<1>4. Orderly'  BY <1>1, TrackFacts DEF Orderly
<1>5. ClientOk(c)'
  <2>1. OpensOk(c) /\ NewsOk(c)  BY TrackFacts
  <2> QED BY <1>1, <1>2, <2>1, NoneComing DEF ClientOk, ChannelOk, Current, OpensOk, NewsOk
<1>6. \A d \in Clients \ {c} : ClientOk(d)'  BY <1>1, <1>2, TrackFacts, ClientStays
<1> QED BY <1>1, <1>3, <1>4, <1>5, <1>6, TrackFacts DEF TrackInv
LEMMA TrackKeeps ==
  ASSUME TrackBounds, TrackInv, T!Next \/ UNCHANGED tvars
  PROVE  TrackInv'
<1>1. CASE \E r \in Requests, w \in Worktrees : T!Notify(r, w) \/ T!Dismiss(r, w)
  BY <1>1, ChangeKeeps DEF T!Notify, T!Dismiss
<1>2. CASE \E r \in Requests : T!Tell(r)  BY <1>2, TellKeeps
<1>3. CASE T!OpenFile  BY <1>3, OpenFileKeeps
<1>4. CASE \E c \in Clients : T!ClientStep(c) \/ T!Break(c)
  BY <1>4, DialKeeps, SnapshotKeeps, ForwardKeeps, ShowKeeps, BreakKeeps
  DEF T!ClientStep, T!Relay
<1>5. CASE UNCHANGED tvars
  <2>1. TrackTyped' /\ Orderly'  BY <1>5, TrackFacts DEF tvars, TrackTyped, Orderly
  <2>2. \A c \in Clients : ClientOk(c)'  BY <1>5, TrackFacts, ClientStays DEF tvars
  <2> QED BY <1>5, <2>1, <2>2, TrackFacts DEF tvars, TrackInv
<1> QED BY <1>1, <1>2, <1>3, <1>4, <1>5 DEF T!Next

LEMMA TrackInvariance == ASSUME TrackBounds  PROVE ServicesSpec => []TrackInv
<1>1. ServicesInit => TrackInv  BY TrackStarts DEF ServicesInit
<1>2. TrackInv /\ [ServicesNext]_allvars => TrackInv'
  <2>1. [ServicesNext]_allvars => T!Next \/ UNCHANGED tvars  BY DEF ServicesNext, allvars
  <2> QED BY <2>1, TrackKeeps
<1> QED BY <1>1, <1>2, PTL DEF ServicesSpec

LEMMA ShortMessages ==
  ASSUME NEW n \in Nat, NEW s \in Seq(T!Messages), Len(s) <= n
  PROVE  s \in T!BoundedSeq(T!Messages, n)
<1>1. Len(s) \in 0..n /\ s \in [1..Len(s) -> T!Messages]  BY LenProperties
<1> QED BY <1>1 DEF T!BoundedSeq, T!SeqOf

\* Whatever a client has missed, been sent late or lost with its connection, its
\* badges are those of the tracker as soon as it has read what is on its way
\* (attention.go, api/attention.go: the subscription comes before the snapshot).
THEOREM BadgesStayCurrent == ASSUME TrackBounds  PROVE ServicesSpec => []BadgesSound
<1>1. TrackInv => BadgesSound
  <2> SUFFICES ASSUME TrackInv  PROVE T!TypeOK /\ T!BadgesCurrent
    BY DEF BadgesSound, T!BadgesSound
  <2>1. T!BadgesCurrent  BY TrackFacts DEF T!BadgesCurrent, Current
  <2>2. \A c \in Clients : /\ chan[c] \in T!BoundedSeq(T!Messages, Buffer)
                           /\ wire[c] \in T!BoundedSeq(T!Messages, Room)
    BY TrackFacts, ShortMessages DEF TrackBounds
  <2>3. /\ chan \in [Clients -> T!BoundedSeq(T!Messages, Buffer)]
        /\ wire \in [Clients -> T!BoundedSeq(T!Messages, Room)]
    BY <2>2, TrackFacts DEF TrackTyped
  <2>4. T!TypeOK  BY <2>3, TrackFacts DEF T!TypeOK, TrackTyped
  <2> QED BY <2>1, <2>4
<1> QED BY <1>1, TrackInvariance, PTL

\* No client opens a file twice, out of order, or for a request from before it
\* was there (openfile.go, which has no replay).
THEOREM OpensStayFresh == ASSUME TrackBounds  PROVE ServicesSpec => OpensFresh
<1> DEFINE Fresh == \A c \in Clients :
       T!Read(c) /\ Head(wire[c]).kind = "open" =>
         /\ Head(wire[c]).n > since[c]
         /\ \A m \in T!ToSet(Tail(wire[c]) \o chan[c]) : m.n > Head(wire[c]).n
<1>1. TrackInv => Fresh
  <2> SUFFICES ASSUME TrackInv, NEW c \in Clients, T!Read(c), Head(wire[c]).kind = "open"
               PROVE  /\ Head(wire[c]).n > since[c]
                      /\ \A m \in T!ToSet(Tail(wire[c]) \o chan[c]) : m.n > Head(wire[c]).n
    OBVIOUS
  <2>1. wire[c] # <<>> /\ link[c] = "on"  BY TrackFacts DEF T!Read, ChannelOk
  <2>2. stream = "open"
    <3>1. stream = "attention" => Head(wire[c]) \in News
      BY <2>1, TrackFacts, HeadTailProperties DEF NewsOk
    <3> QED BY <3>1, TrackFacts DEF News, TrackTyped
  <2> DEFINE q == T!Coming(c)
  <2>3. q \in Seq(T!Messages) /\ Ascending(q, since[c], posts)
    BY <2>1, <2>2, TrackFacts DEF OpensOk
  <2>4. q # <<>> /\ Head(q) = Head(wire[c]) /\ Tail(q) = Tail(wire[c]) \o chan[c]
    <3>1. chan[c] \in Seq(T!Messages) /\ wire[c] \in Seq(T!Messages)  BY TrackFacts
    <3> QED BY <2>1, <3>1, ComingMoves DEF T!Coming
  <2> HIDE DEF q
  <2>5. /\ Head(q).n > since[c]
        /\ \A k \in DOMAIN Tail(q) : Head(q).n < Tail(q)[k].n
    BY <2>3, <2>4, AscendRest
  <2>6. \A m \in T!ToSet(Tail(q)) : m.n > Head(q).n  BY <2>5 DEF T!ToSet
  <2> QED BY <2>4, <2>5, <2>6
<1> HIDE DEF Fresh
<1>2. ServicesSpec => [][Fresh]_(T!vars)  BY <1>1, TrackInvariance, PTL
<1> QED BY <1>2 DEF OpensFresh, T!OpensFresh, Fresh

=============================================================================
