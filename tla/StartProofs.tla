---------------------------- MODULE StartProofs ----------------------------
(***************************************************************************)
(* Proofs for every value of the constants: about starts, of the PTY       *)
(* daemon (PtydStart) and of the server on its database (Catalog), and     *)
(* about the block in git's hook (GitHook), the last two in the            *)
(* composition of MCServices.                                              *)
(***************************************************************************)
EXTENDS MCServices, TLAPS, SequenceTheorems, FiniteSetTheorems, WellFoundedInduction

-----------------------------------------------------------------------------
(***************************************************************************)
(* Whatever the number of daemons and clients: one daemon listens and is   *)
(* reachable, a client that starts one in peace gets one, and a restart    *)
(* goes on only when the old daemon is deaf.                               *)
(***************************************************************************)
\* The daemons that have passed the flock.
Holding == Listening \cup {"locked", "clean", "closed"}

\* Who has passed it has it, and who has it lives on; the socket file is that of
\* the one that listens, and is out of the way before it listens.
OneHolder ==
  /\ \A d \in Daemons : life[d] \in Holding => lock = {d}
  /\ \A d \in lock : life[d] \in Holding
  /\ \A d \in Daemons : life[d] \in Listening => path = {d}
  /\ \A d \in Daemons : life[d] = "clean" => path = {}

\* The daemon a restart waits for has begun to stop, and does not come back.
AskedEnds ==
  \A c \in Callers : caller[c] \in {"waiting", "restore"} =>
    /\ \A d \in asked[c] : life[d] \in {"stopping", "closed", "gone"}
    /\ caller[c] = "restore" => \A d \in asked[c] : life[d] # "stopping"

\* While a client polls in peace nothing ends, and a daemon is on its way or there.
PeacefulStart ==
  \A c \in Callers :
    /\ calm[c] /\ caller[c] \in Starting => ~Ending
    /\ calm[c] /\ caller[c] = "polling" =>
         \E d \in Daemons : life[d] \in {"new", "locked", "clean", "bound", "serving"}

IInv == TypeOK /\ OneHolder /\ AskedEnds /\ PeacefulStart /\ StartSucceeds

LEMMA InitIInv == Init => IInv
<1> SUFFICES ASSUME Init PROVE IInv
  OBVIOUS
<1> USE DEF Init
<1>1. TypeOK
  BY DEF TypeOK, Alive, Listening
<1>2. OneHolder
  BY DEF OneHolder, Holding, Listening
<1>3. AskedEnds /\ PeacefulStart /\ StartSucceeds
  BY DEF AskedEnds, PeacefulStart, StartSucceeds, Starting
<1> QED BY <1>1, <1>2, <1>3 DEF IInv

\* A step keeps the types.
LEMMA TypeStep == TypeOK /\ [Next]_vars => TypeOK'
<1> SUFFICES ASSUME TypeOK, [Next]_vars PROVE TypeOK'
  OBVIOUS
<1> USE DEF TypeOK, Alive, Listening, To, Goto, Disturb
<1>1. CASE UNCHANGED vars
  BY <1>1 DEF vars
<1>2. ASSUME NEW d \in Daemons, DaemonStep(d) PROVE TypeOK'
  BY <1>2 DEF DaemonStep, Lock, Clean, Listen, Serve, Close, Exit
<1>3. ASSUME NEW d \in Daemons, Stop(d) \/ Die(d) PROVE TypeOK'
  BY <1>3 DEF Stop, Die
<1>4. ASSUME NEW c \in Callers, Ask(c) \/ Again(c) \/ Restart(c) PROVE TypeOK'
  <2>1. CASE Ask(c)
    BY <2>1 DEF Ask, Ending
  <2>2. CASE Again(c)
    BY <2>2 DEF Again
  <2>3. CASE Restart(c)
    BY <2>3 DEF Restart
  <2> QED BY <1>4, <2>1, <2>2, <2>3
<1>5. ASSUME NEW c \in Callers, CallerStep(c) PROVE TypeOK'
  <2>1. CASE Restore(c)
    BY <2>1 DEF Restore, Ending
  <2>2. CASE Poll(c) \/ GiveUp(c) \/ Wait(c)
    BY <2>2 DEF Poll, GiveUp, Wait
  <2>3. CASE StillRunning(c)
    BY <2>3 DEF StillRunning
  <2>4. ASSUME NEW d \in Daemons, Spawn(c, d) PROVE TypeOK'
    BY <2>4 DEF Spawn
  <2> QED BY <1>5, <2>1, <2>2, <2>3, <2>4 DEF CallerStep
<1> QED BY <1>1, <1>2, <1>3, <1>4, <1>5 DEF Next

\* A client's step other than a restart leaves the daemons alone, but for the one
\* it may start; a restart makes the one that listens stop.
LEMMA CallersAndDaemons ==
  ASSUME TypeOK, NEW c \in Callers, CallerStep(c) \/ Ask(c) \/ Again(c) \/ Restart(c)
  PROVE  /\ UNCHANGED <<lock, path>>
         /\ \/ UNCHANGED life
            \/ \E d \in Daemons : life[d] = "unborn" /\ To(d, "new")
            \/ \E d \in path : life[d] \in {"serving", "stopping"} /\ To(d, "stopping")
  BY DEF CallerStep, Poll, GiveUp, Wait, Restore, StillRunning, Spawn, Ask, Again, Restart

LEMMA HolderStep == TypeOK /\ OneHolder /\ [Next]_vars => OneHolder'
<1> SUFFICES ASSUME TypeOK, OneHolder, [Next]_vars PROVE OneHolder'
  OBVIOUS
<1> USE DEF TypeOK, OneHolder, Holding, Listening, Alive, To
<1>1. CASE UNCHANGED vars
  BY <1>1 DEF vars
<1>2. ASSUME NEW d \in Daemons, DaemonStep(d) PROVE OneHolder'
  <2>1. CASE Lock(d)
    BY <2>1 DEF Lock
  <2>2. CASE Clean(d)
    BY <2>2 DEF Clean
  <2>3. CASE Listen(d)
    BY <2>3 DEF Listen
  <2>4. CASE Serve(d)
    BY <2>4 DEF Serve
  <2>5. CASE Close(d)
    BY <2>5 DEF Close
  <2>6. CASE Exit(d)
    BY <2>6 DEF Exit
  <2> QED BY <1>2, <2>1, <2>2, <2>3, <2>4, <2>5, <2>6 DEF DaemonStep
<1>3. ASSUME NEW d \in Daemons, Stop(d) \/ Die(d) PROVE OneHolder'
  <2>1. CASE Stop(d)
    BY <2>1 DEF Stop
  <2>2. CASE Die(d)
    BY <2>2 DEF Die
  <2> QED BY <1>3, <2>1, <2>2
<1>4. ASSUME NEW c \in Callers, CallerStep(c) \/ Ask(c) \/ Again(c) \/ Restart(c)
      PROVE OneHolder'
  <2>1. UNCHANGED <<lock, path>>
    BY <1>4, CallersAndDaemons
  <2>2. CASE UNCHANGED life
    BY <2>1, <2>2
  <2>3. ASSUME NEW d \in Daemons, life[d] = "unborn", To(d, "new") PROVE OneHolder'
    BY <2>1, <2>3
  <2>4. ASSUME NEW d \in path, life[d] \in {"serving", "stopping"}, To(d, "stopping")
        PROVE OneHolder'
    BY <2>1, <2>4
  <2> QED BY <1>4, <2>2, <2>3, <2>4, CallersAndDaemons
<1> QED BY <1>1, <1>2, <1>3, <1>4 DEF Next

\* A daemon that has begun to stop only goes on to end.
LEMMA EndsForGood ==
  ASSUME TypeOK, OneHolder, [Next]_vars, NEW d \in Daemons
  PROVE  /\ life[d] \in {"stopping", "closed", "gone"} => life'[d] \in {"stopping", "closed", "gone"}
         /\ life[d] \in {"closed", "gone"} => life'[d] \in {"closed", "gone"}
<1> USE DEF TypeOK, Alive, Listening, To
<1>1. CASE UNCHANGED vars
  BY <1>1 DEF vars
<1>2. ASSUME NEW e \in Daemons, DaemonStep(e) \/ Stop(e) \/ Die(e)
      PROVE  /\ life[d] \in {"stopping", "closed", "gone"} => life'[d] \in {"stopping", "closed", "gone"}
             /\ life[d] \in {"closed", "gone"} => life'[d] \in {"closed", "gone"}
  BY <1>2 DEF DaemonStep, Lock, Clean, Listen, Serve, Close, Exit, Stop, Die
<1>3. ASSUME NEW c \in Callers, CallerStep(c) \/ Ask(c) \/ Again(c) \/ Restart(c)
      PROVE  /\ life[d] \in {"stopping", "closed", "gone"} => life'[d] \in {"stopping", "closed", "gone"}
             /\ life[d] \in {"closed", "gone"} => life'[d] \in {"closed", "gone"}
  BY <1>3, CallersAndDaemons
<1> QED BY <1>1, <1>2, <1>3 DEF Next

LEMMA AskedStep == TypeOK /\ OneHolder /\ AskedEnds /\ [Next]_vars => AskedEnds'
<1> SUFFICES ASSUME TypeOK, OneHolder, AskedEnds, [Next]_vars,
                    NEW c \in Callers, caller'[c] \in {"waiting", "restore"}
             PROVE  /\ \A d \in asked'[c] : life'[d] \in {"stopping", "closed", "gone"}
                    /\ caller'[c] = "restore" => \A d \in asked'[c] : life'[d] # "stopping"
  BY DEF AskedEnds
<1>1. asked[c] \subseteq Daemons
  BY DEF TypeOK
<1>2. CASE caller'[c] = caller[c] /\ asked'[c] = asked[c]
  <2>1. \A d \in asked[c] : /\ life[d] \in {"stopping", "closed", "gone"}
                            /\ caller[c] = "restore" => life[d] \in {"closed", "gone"}
    BY <1>2 DEF AskedEnds
  <2> QED BY <1>1, <1>2, <2>1, EndsForGood
<1>3. CASE Restart(c)
  <2>1. PICK d \in path : life[d] \in {"serving", "stopping"} /\ To(d, "stopping")
    BY <1>3 DEF Restart
  <2>2. d \in Daemons /\ path = {d}
    BY <2>1 DEF TypeOK, OneHolder, Listening
  <2>3. caller'[c] = "waiting" /\ asked'[c] = {d} /\ life'[d] = "stopping"
    BY <1>3, <2>1, <2>2 DEF Restart, Goto, To, TypeOK
  <2> QED BY <2>3
<1>4. CASE Wait(c)
  <2>1. asked'[c] = asked[c] /\ life' = life /\ ~Running /\ caller[c] = "waiting"
    BY <1>4 DEF Wait, At
  <2>2. \A d \in asked[c] : life[d] \in {"stopping", "closed", "gone"}
    BY <2>1 DEF AskedEnds
  <2>3. \A d \in asked[c] : life[d] # "stopping"
    BY <1>1, <2>1 DEF Running, OneHolder, Listening
  <2> QED BY <2>1, <2>2, <2>3
<1>5. Restart(c) \/ Wait(c) \/ (caller'[c] = caller[c] /\ asked'[c] = asked[c])
  <2>1. CASE UNCHANGED vars
    BY <2>1 DEF vars
  <2>2. ASSUME NEW d \in Daemons, DaemonStep(d) \/ Stop(d) \/ Die(d)
        PROVE  caller'[c] = caller[c] /\ asked'[c] = asked[c]
    BY <2>2 DEF DaemonStep, Lock, Clean, Listen, Serve, Close, Exit, Stop, Die
  <2>3. ASSUME NEW e \in Callers, CallerStep(e) \/ Ask(e) \/ Again(e) \/ Restart(e), e # c
        PROVE  caller'[c] = caller[c] /\ asked'[c] = asked[c]
    BY <2>3 DEF CallerStep, Poll, GiveUp, Wait, Restore, StillRunning, Spawn, Ask, Again, Restart,
                Goto, TypeOK
  <2>4. ASSUME CallerStep(c) \/ Ask(c) \/ Again(c) PROVE Wait(c)
    BY <2>4 DEF CallerStep, Poll, GiveUp, Restore, StillRunning, Spawn, Ask, Again, Goto, TypeOK
  <2> QED BY <2>1, <2>2, <2>3, <2>4 DEF Next
<1> QED BY <1>2, <1>3, <1>4, <1>5

\* A daemon that ends or dies takes the peace from every client that is starting one.
LEMMA CalmStep ==
  ASSUME TypeOK, [Next]_vars, NEW c \in Callers, calm'[c], caller'[c] \in Starting
  PROVE  \/ (Ask(c) \/ Restore(c)) /\ ~Ending /\ life' = life /\ caller'[c] = "spawn"
         \/ (\E d \in Daemons : Spawn(c, d)) /\ calm[c] /\ caller[c] = "spawn"
         \/ /\ calm[c] /\ caller[c] = caller'[c]
            /\ \/ UNCHANGED life
               \/ \E d \in Daemons : DaemonStep(d) \/ (life[d] = "unborn" /\ To(d, "new"))
<1> USE DEF TypeOK, Starting, Goto
<1>1. CASE UNCHANGED vars
  BY <1>1 DEF vars
<1>2. ASSUME NEW d \in Daemons, DaemonStep(d)
      PROVE  calm[c] /\ caller[c] = caller'[c]
  BY <1>2 DEF DaemonStep, Lock, Clean, Listen, Serve, Close, Exit
<1>3. ASSUME NEW d \in Daemons, Stop(d) \/ Die(d) PROVE FALSE
  BY <1>3 DEF Stop, Die, Disturb
<1>4. ASSUME NEW e \in Callers, Restart(e) PROVE FALSE
  BY <1>4 DEF Restart, Disturb, At
<1>5. ASSUME NEW e \in Callers, CallerStep(e) \/ Ask(e) \/ Again(e), e # c
      PROVE  /\ calm[c] /\ caller[c] = caller'[c]
             /\ \/ UNCHANGED life
                \/ \E d \in Daemons : life[d] = "unborn" /\ To(d, "new")
  BY <1>5 DEF CallerStep, Poll, GiveUp, Wait, Restore, StillRunning, Spawn, Ask, Again
<1>6. CASE Ask(c) \/ Restore(c)
  BY <1>6 DEF Ask, Restore
<1>7. ASSUME NEW d \in Daemons, Spawn(c, d) PROVE calm[c] /\ caller[c] = "spawn"
  BY <1>7 DEF Spawn, At
<1>8. ASSUME Again(c) \/ Poll(c) \/ GiveUp(c) \/ Wait(c) \/ StillRunning(c) PROVE FALSE
  BY <1>8 DEF Again, Poll, GiveUp, Wait, StillRunning
<1> QED BY <1>1, <1>2, <1>3, <1>4, <1>5, <1>6, <1>7, <1>8 DEF Next, CallerStep

LEMMA PeacefulStep == TypeOK /\ OneHolder /\ PeacefulStart /\ [Next]_vars => PeacefulStart'
<1> SUFFICES ASSUME TypeOK, OneHolder, PeacefulStart, [Next]_vars,
                    NEW c \in Callers, calm'[c], caller'[c] \in Starting
             PROVE  /\ ~Ending'
                    /\ caller'[c] = "polling" =>
                         \E d \in Daemons : life'[d] \in {"new", "locked", "clean", "bound", "serving"}
  BY DEF PeacefulStart, Starting
<1> DEFINE Coming(l) == l \in {"new", "locked", "clean", "bound", "serving"}
<1>1. CASE (Ask(c) \/ Restore(c)) /\ ~Ending /\ life' = life /\ caller'[c] = "spawn"
  BY <1>1 DEF Ending
<1>2. CASE (\E d \in Daemons : Spawn(c, d)) /\ calm[c] /\ caller[c] = "spawn"
  <2>1. ~Ending
    BY <1>2 DEF PeacefulStart, Starting
  <2>2. PICK d \in Daemons : life' = [life EXCEPT ![d] = "new"]
    BY <1>2 DEF Spawn, To
  <2> QED BY <2>1, <2>2 DEF Ending, TypeOK
<1>3. CASE /\ calm[c] /\ caller[c] = caller'[c]
           /\ \/ UNCHANGED life
              \/ \E d \in Daemons : DaemonStep(d) \/ (life[d] = "unborn" /\ To(d, "new"))
  <2>1. ~Ending /\ (caller[c] = "polling" => \E d \in Daemons : Coming(life[d]))
    BY <1>3 DEF PeacefulStart, Starting
  <2>2. CASE UNCHANGED life
    BY <1>3, <2>1, <2>2 DEF Ending
  <2>3. ASSUME NEW d \in Daemons, life[d] = "unborn", To(d, "new")
        PROVE  ~Ending' /\ \E e \in Daemons : Coming(life'[e])
    BY <2>1, <2>3 DEF Ending, To, TypeOK
  <2>4. ASSUME NEW d \in Daemons, DaemonStep(d)
        PROVE  ~Ending' /\ \E e \in Daemons : Coming(life'[e])
    <3>1. CASE lock = {} /\ Lock(d)
      BY <2>1, <3>1 DEF Lock, Ending, To, TypeOK
    <3>2. CASE lock # {} /\ Lock(d)    \* the one that won is on its way
      <4>1. PICK e \in lock : e \in Daemons /\ life[e] \in Holding
        BY <3>2 DEF OneHolder, TypeOK
      <4>2. Coming(life[e]) /\ e # d
        BY <2>1, <3>2, <4>1 DEF Ending, Holding, Listening, Lock
      <4>3. life' = [life EXCEPT ![d] = "gone"]
        BY <3>2 DEF Lock, To
      <4> QED BY <2>1, <4>1, <4>2, <4>3 DEF Ending, TypeOK
    <3>3. CASE Clean(d) \/ Serve(d)
      BY <2>1, <3>3 DEF Clean, Serve, Ending, To, TypeOK
    <3>4. CASE Listen(d)
      BY <2>1, <3>4 DEF Listen, OneHolder, Ending, To, TypeOK
    <3>5. CASE Close(d) \/ Exit(d)
      BY <2>1, <3>5 DEF Close, Exit, Ending
    <3> QED BY <2>4, <3>1, <3>2, <3>3, <3>4, <3>5 DEF DaemonStep
  <2> QED BY <1>3, <2>2, <2>3, <2>4
<1> QED BY <1>1, <1>2, <1>3, CalmStep

LEMMA FailedStep ==
  TypeOK /\ OneHolder /\ PeacefulStart /\ StartSucceeds /\ [Next]_vars => StartSucceeds'
<1> SUFFICES ASSUME TypeOK, OneHolder, PeacefulStart, StartSucceeds, [Next]_vars,
                    NEW c \in Callers, caller'[c] = "failed", calm'[c]
             PROVE  FALSE
  BY DEF StartSucceeds
<1> USE DEF TypeOK, Goto
<1>1. GiveUp(c) \/ (caller[c] = "failed" /\ calm[c])
  <2>1. CASE UNCHANGED vars
    BY <2>1 DEF vars
  <2>2. ASSUME NEW d \in Daemons, DaemonStep(d) \/ Stop(d) \/ Die(d)
        PROVE  caller[c] = "failed" /\ calm[c]
    BY <2>2 DEF DaemonStep, Lock, Clean, Listen, Serve, Close, Exit, Stop, Die, Disturb
  <2>3. ASSUME NEW e \in Callers, CallerStep(e) \/ Ask(e) \/ Again(e), e # c
        PROVE  caller[c] = "failed" /\ calm[c]
    BY <2>3 DEF CallerStep, Poll, GiveUp, Wait, Restore, StillRunning, Spawn, Ask, Again
  <2>4. ASSUME NEW e \in Callers, Restart(e) PROVE caller[c] = "failed" /\ calm[c]
    BY <2>4 DEF Restart, Disturb
  <2>5. ASSUME CallerStep(c) \/ Ask(c) \/ Again(c) PROVE GiveUp(c)
    BY <2>5 DEF CallerStep, Poll, Wait, Restore, StillRunning, Spawn, Ask, Again
  <2> QED BY <2>1, <2>2, <2>3, <2>4, <2>5 DEF Next
<1>2. ~GiveUp(c)
  <2> SUFFICES ASSUME GiveUp(c) PROVE FALSE
    OBVIOUS
  <2>1. calm[c] /\ caller[c] = "polling" /\ ~Running
    BY DEF GiveUp, At
  <2>2. PICK d \in Daemons : life[d] \in {"bound", "serving"}
    BY <2>1 DEF GiveUp, PeacefulStart
  <2> QED BY <2>1, <2>2 DEF Running, OneHolder, Listening
<1> QED BY <1>1, <1>2 DEF StartSucceeds

LEMMA StepIInv == IInv /\ [Next]_vars => IInv'
  BY TypeStep, HolderStep, AskedStep, PeacefulStep, FailedStep DEF IInv

THEOREM Invariance == Spec => []IInv
  BY InitIInv, StepIInv, PTL DEF Spec

\* Every variable of the daemons' and clients' starts keeps its type.
THEOREM TypeCorrect == Spec => []TypeOK
  BY Invariance, PTL DEF IInv

\* However many processes are started: one daemon listens, and its socket file is there.
THEOREM OneDaemon == Spec => []Reachable
<1>1. IInv => Reachable
  BY DEF IInv, OneHolder, Holding, Reachable
<1> QED BY <1>1, Invariance, PTL

\* However many clients start daemons: without one that ends or dies, all are served.
THEOREM PeacefulStartSucceeds == Spec => []StartSucceeds
  BY Invariance, PTL DEF IInv

\* However many restarts and starts overlap: tabs are restored on another daemon
\* than the one that was asked to stop.
THEOREM RestartWaits == Spec => []RestoresOnNew
<1>1. IInv => RestoresOnNew
  BY DEF IInv, AskedEnds, RestoresOnNew
<1> QED BY <1>1, Invariance, PTL

-----------------------------------------------------------------------------
(***************************************************************************)
(* The database's opening, and the repositories registered in it           *)
(* (Catalog).                                                              *)
(***************************************************************************)
CatalogBounds == IsFiniteSet(Paths) /\ MaxStarts \in Nat /\ MaxAsks \in Nat

-----------------------------------------------------------------------------
(* Sequences without repetition.                                           *)

Once(q) == \A m, n \in DOMAIN q : q[m] = q[n] => m = n

LEMMA RangeIs == ASSUME NEW q  PROVE S!Range(q) = {q[n] : n \in DOMAIN q}
BY DEF S!Range

LEMMA OnceIs == ASSUME NEW q  PROVE S!IsInjective(q) <=> Once(q)
BY DEF S!IsInjective, Once

LEMMA EmptyOnce == Once(<<>>) /\ S!Range(<<>>) = {} /\ DOMAIN <<>> = {}
<1>1. Len(<<>>) = 0 /\ DOMAIN <<>> = 1..Len(<<>>)  BY EmptySeq, LenProperties
<1>2. DOMAIN <<>> = {}  BY <1>1
<1> QED BY <1>2, RangeIs DEF Once

\* What Append does to a sequence, its elements, and their being different.
LEMMA AppendOnce ==
  ASSUME NEW Q, NEW q \in Seq(Q), NEW e \in Q
  PROVE  /\ Append(q, e) \in Seq(Q) /\ Append(q, e) # <<>>
         /\ Len(q) \in Nat /\ Len(Append(q, e)) = Len(q) + 1
         /\ DOMAIN q = 1..Len(q) /\ DOMAIN Append(q, e) = 1..(Len(q) + 1)
         /\ \A n \in 1..Len(q) : Append(q, e)[n] = q[n]
         /\ Append(q, e)[Len(q) + 1] = e
         /\ S!Range(Append(q, e)) = S!Range(q) \cup {e}
         /\ Once(q) /\ e \notin S!Range(q) => Once(Append(q, e))
<1>1. /\ Append(q, e) \in Seq(Q) /\ Len(Append(q, e)) = Len(q) + 1
      /\ Append(q, e)[Len(q) + 1] = e
      /\ \A n \in 1..Len(q) : Append(q, e)[n] = q[n]
  BY AppendProperties
<1>2. Len(q) \in Nat /\ DOMAIN q = 1..Len(q) /\ DOMAIN Append(q, e) = 1..Len(Append(q, e))
  BY <1>1, LenProperties
<1>3. Append(q, e) # <<>>  BY <1>1, <1>2, EmptySeq
<1> DEFINE z == Append(q, e)
<1>4. DOMAIN z = 1..(Len(q) + 1)  BY <1>1, <1>2
<1> HIDE DEF z
<1>5. \A n \in DOMAIN z : (n \in DOMAIN q /\ z[n] = q[n]) \/ (n = Len(q) + 1 /\ z[n] = e)
  BY <1>1, <1>2, <1>4 DEF z
<1>6. S!Range(z) = S!Range(q) \cup {e}
  <2>1. \A n \in DOMAIN q : n \in DOMAIN z /\ z[n] = q[n]  BY <1>1, <1>2, <1>4 DEF z
  <2>2. Len(q) + 1 \in DOMAIN z /\ z[Len(q) + 1] = e  BY <1>1, <1>2, <1>4 DEF z
  <2> QED BY <1>5, <2>1, <2>2, RangeIs
<1>7. ASSUME Once(q), e \notin S!Range(q)  PROVE Once(z)
  BY <1>5, <1>7, RangeIs DEF Once
<1> QED BY <1>1, <1>2, <1>3, <1>4, <1>6, <1>7 DEF z

\* The same of RemoveAt.
LEMMA RemoveOnce ==
  ASSUME NEW Q, NEW q \in Seq(Q), NEW i \in DOMAIN q, Once(q)
  PROVE  /\ S!RemoveAt(q, i) \in Seq(Q) /\ Len(S!RemoveAt(q, i)) = Len(q) - 1
         /\ Once(S!RemoveAt(q, i))
         /\ S!Range(S!RemoveAt(q, i)) \subseteq S!Range(q) \ {q[i]}
<1> DEFINE a1 == SubSeq(q, 1, i - 1)
           a2 == SubSeq(q, i + 1, Len(q))
           z == S!RemoveAt(q, i)
<1>1. /\ DOMAIN q = 1..Len(q) /\ Len(q) \in Nat /\ i \in 1..Len(q)
      /\ \A n \in 1..Len(q) : q[n] \in Q
  BY LenProperties, ElementOfSeq
<1>2. a1 \in Seq(Q) /\ Len(a1) = i - 1 /\ \A n \in 1..(i - 1) : a1[n] = q[n]
  <2>1. \A n \in 1..(i - 1) : q[n] \in Q  BY <1>1
  <2>2. /\ a1 \in Seq(Q) /\ Len(a1) = IF 1 <= i - 1 THEN (i - 1) - 1 + 1 ELSE 0
        /\ \A n \in 1..((i - 1) - 1 + 1) : a1[n] = q[1 + n - 1]
    BY <1>1, <2>1, SubSeqProperties
  <2> QED BY <1>1, <2>2
<1>3. a2 \in Seq(Q) /\ Len(a2) = Len(q) - i /\ \A n \in 1..(Len(q) - i) : a2[n] = q[i + n]
  <2>1. \A n \in (i + 1)..Len(q) : q[n] \in Q  BY <1>1
  <2>2. /\ a2 \in Seq(Q) /\ Len(a2) = IF i + 1 <= Len(q) THEN Len(q) - (i + 1) + 1 ELSE 0
        /\ \A n \in 1..(Len(q) - (i + 1) + 1) : a2[n] = q[(i + 1) + n - 1]
    BY <1>1, <2>1, SubSeqProperties
  <2>3. Len(a2) = Len(q) - i /\ Len(q) - (i + 1) + 1 = Len(q) - i  BY <1>1, <2>2
  <2>4. \A n \in 1..(Len(q) - i) : (i + 1) + n - 1 = i + n  BY <1>1
  <2> HIDE DEF a2
  <2> QED BY <2>2, <2>3, <2>4
<1> HIDE DEF a1, a2
<1>4. z = a1 \o a2  BY DEF S!RemoveAt, a1, a2
<1> HIDE DEF z
<1>5. /\ z \in Seq(Q) /\ Len(z) = Len(a1) + Len(a2)
      /\ \A n \in 1..(Len(a1) + Len(a2)) : z[n] = IF n <= Len(a1) THEN a1[n] ELSE a2[n - Len(a1)]
  BY <1>2, <1>3, <1>4, ConcatProperties
<1>6. Len(z) = Len(q) - 1  BY <1>1, <1>2, <1>3, <1>5
<1>7. DOMAIN z = 1..(Len(q) - 1)  BY <1>5, <1>6, LenProperties
<1> DEFINE M(n) == IF n < i THEN n ELSE n + 1
<1>8. ASSUME NEW n \in DOMAIN z  PROVE M(n) \in DOMAIN q /\ M(n) # i /\ z[n] = q[M(n)]
  <2>1. CASE n < i  BY <1>1, <1>2, <1>3, <1>5, <1>7, <2>1
  <2>2. CASE ~(n < i)
    <3>1. n - (i - 1) \in 1..(Len(q) - i) /\ i + (n - (i - 1)) = n + 1  BY <1>1, <1>7, <2>2
    <3>2. z[n] = a2[n - (i - 1)]  BY <1>1, <1>2, <1>3, <1>5, <1>7, <2>2
    <3>3. M(n) = n + 1 /\ n + 1 \in DOMAIN q /\ n + 1 # i  BY <1>1, <1>7, <2>2
    <3> QED BY <1>3, <3>1, <3>2, <3>3
  <2> QED BY <2>1, <2>2
<1>9. \A m, n \in DOMAIN z : M(m) = M(n) => m = n  BY <1>1, <1>7
<1> HIDE DEF M
<1>10. Once(z)  BY <1>8, <1>9 DEF Once
<1>11. S!Range(z) \subseteq S!Range(q) \ {q[i]}  BY <1>8, RangeIs DEF Once
<1> QED BY <1>5, <1>6, <1>10, <1>11 DEF z

\* A finite set as a sequence.
LEMMA SetToSeqIs ==
  ASSUME NEW Q, IsFiniteSet(Q)
  PROVE  S!SetToSeq(Q) \in Seq(Q) /\ Once(S!SetToSeq(Q))
<1>1. PICK n : n = Cardinality(Q)  OBVIOUS
<1>2. n \in Nat /\ ExistsBijection(1..n, Q)  BY <1>1, FS_CardinalityType
<1>3. S!Cardinality(Q) = n  BY <1>1 DEF S!Cardinality, Cardinality
<1>4. PICK f \in Bijection(1..n, Q) : TRUE  BY <1>2 DEF ExistsBijection
<1>5. f \in [1..n -> Q] /\ \A m, k \in 1..n : f[m] = f[k] => m = k
  BY <1>4 DEF Bijection, Injection, IsInjective
<1>6. S!IsInjective(f)  BY <1>5, OnceIs DEF Once
<1>7. S!SetToSeq(Q) \in [1..n -> Q] /\ S!IsInjective(S!SetToSeq(Q))
  BY <1>3, <1>5, <1>6 DEF S!SetToSeq
<1>8. [1..n -> Q] \subseteq Seq(Q)  BY <1>2, SeqDef
<1> QED BY <1>7, <1>8, OnceIs

-----------------------------------------------------------------------------
(* What Open's steps are.                                                  *)

Ats == {"down", "failed", "open", "alter", "seed", "list", "backfill", "serving"}
Inside == {"open", "alter", "seed"}          \* in Open
Beyond == {"list", "backfill", "serving"}    \* past Open
Opens == Inside \cup {"list", "backfill"}
Statuses == S!Range(S!Defaults)

LEMMA OpeningIs ==
  /\ Len(S!Opening) = 17 /\ DOMAIN S!Opening = 1..17
  /\ \A m \in 1..17 : S!Opening[m] \in S!Schema \cup {"stamp", "seed"}
  /\ "stamp" \notin S!Schema /\ "seed" \notin S!Schema
  /\ \A q \in S!Schema : \E m \in 1..17 : S!Opening[m] = q
  /\ S!Opening[7] = "stamp" /\ S!Opening[14] = "seed"
  /\ S!Columns \subseteq S!Schema /\ S!Tables \subseteq S!Schema
<1>1. Len(S!Opening) = 17 /\ DOMAIN S!Opening = 1..17  BY DEF S!Opening
<1>2. S!Range(S!Opening) = {S!Opening[m] : m \in 1..17}  BY <1>1, RangeIs
<1>3. S!Opening[7] = "stamp" /\ S!Opening[14] = "seed"  BY DEF S!Opening
<1>4. S!Opening[1] = "tables" /\ S!Opening[11] = "task_tables" /\ S!Opening[16] = "task_sources"
  BY DEF S!Opening
<1>5. S!Tables \subseteq S!Schema  BY <1>2, <1>4 DEF S!Tables, S!Schema
<1> QED BY <1>1, <1>2, <1>3, <1>5 DEF S!Schema, S!Columns

LEMMA DefaultsAre ==
  /\ Len(S!Defaults) = 3 /\ DOMAIN S!Defaults = 1..3 /\ S!Defaults \in Seq(Statuses)
  /\ Once(S!Defaults) /\ S!Defaults # <<>>
  /\ \A i \in 1..3 : S!Defaults[i] \in Statuses
<1>1. Len(S!Defaults) = 3 /\ DOMAIN S!Defaults = 1..3  BY DEF S!Defaults
<1>2. \A i \in 1..3 : S!Defaults[i] \in Statuses  BY <1>1, RangeIs DEF Statuses
<1>3. S!Defaults[1] = "In progress" /\ S!Defaults[2] = "In review" /\ S!Defaults[3] = "Done"
  BY DEF S!Defaults
<1>4. Once(S!Defaults)
  <2>1. \A i \in 1..3 : i = 1 \/ i = 2 \/ i = 3  OBVIOUS
  <2> QED BY <1>1, <1>3, <2>1 DEF Once
<1>6. S!Defaults \in Seq(Statuses)
  <2>1. S!Defaults = [i \in 1..3 |-> S!Defaults[i]]  BY <1>1 DEF S!Defaults
  <2>2. S!Defaults \in [1..3 -> Statuses]  BY <1>2, <2>1
  <2> QED BY <2>2, SeqDef
<1>7. S!Defaults # <<>>  BY DEF S!Defaults
<1> QED BY <1>1, <1>2, <1>4, <1>6, <1>7

-----------------------------------------------------------------------------
(***************************************************************************)
(* The invariant.                                                          *)
(***************************************************************************)
Server == [at : Ats, n : 0..17, todo : SUBSET Nat, alone : BOOLEAN]
Asked == {S!Idle} \cup [at : {"add"}, s : Servers, path : Paths] \cup [at : {"root"}, s : Servers, id : Nat]

\* The database's rows.
DataOk ==
  /\ schema \subseteq S!Schema /\ bare \subseteq Rows
  /\ statuses \in Seq(Statuses) /\ Once(statuses)
  /\ deleted \subseteq Statuses /\ S!Range(statuses) \cap deleted = {}
  /\ deleted # {} => statuses # <<>>
  /\ repos \in Seq(Paths) /\ Once(repos)
  /\ roots \subseteq DOMAIN repos

\* What step m of Open leaves, for good.
Have(m) ==
  /\ S!Opening[m] \in S!Schema => S!Opening[m] \in schema
  /\ S!Opening[m] = "stamp" => bare = {}
  /\ S!Opening[m] = "seed" => statuses # <<>>

\* A server has behind it what the steps it has passed leave; no other's steps
\* undo that.
Progress(v) ==
  /\ v \in Server /\ v.todo \subseteq 1..(Len(repos) + 3)
  /\ v.at \in Inside => v.n \in 1..17 /\ \A m \in 1..(v.n - 1) : Have(m)
  /\ v.at \in Beyond => \A m \in 1..17 : Have(m)
  /\ v.at = "alter" => S!Opening[v.n] \in S!Columns
  /\ v.at = "seed" =>
       S!Opening[v.n] = "seed" /\ v.todo # {} /\ v.todo \subseteq 1..3 /\ deleted = {}
  /\ v.at = "failed" => ~v.alone

\* What one that has been alone from its start has looked at is still so.
Lone(v) ==
  v.alone =>
    /\ v.at = "alter" => S!Opening[v.n] \notin schema
    /\ v.at = "seed" => \A i \in v.todo : S!Defaults[i] \notin S!Range(statuses)
    /\ v.at = "backfill" => \A i \in DOMAIN repos : i \in roots \/ repos[i] \in Held \/ i \in v.todo

\* Nobody is up beside a server that starts alone.
Apart ==
  \A s \in Servers : server[s].alone /\ server[s].at \in Opens
    => \A t \in Servers \ {s} : server[t].at \in {"down", "failed"}

AsksOk ==
  /\ ask \in [Asks -> Asked]
  /\ \A r \in Asks : ask[r].at = "root" => ask[r].id \in DOMAIN repos
  /\ \A r \in Asks : ask[r] # S!Idle => server[ask[r].s].at = "serving"

CatInv ==
  /\ DataOk /\ server \in [Servers -> Server]
  /\ \A s \in Servers : Progress(server[s]) /\ Lone(server[s])
  /\ Apart /\ AsksOk
  /\ starts \in 0..MaxStarts /\ asks \in 0..MaxAsks

\* Other servers' steps, and requests, only add to what a start looks for.
Grow ==
  /\ schema \subseteq schema' /\ bare' \subseteq bare /\ roots \subseteq roots'
  /\ statuses # <<>> => statuses' # <<>>
  /\ Len(repos) \in Nat /\ Len(repos') \in Nat /\ Len(repos) <= Len(repos')
  /\ DOMAIN repos \subseteq DOMAIN repos'

LEMMA HaveStays == ASSUME NEW m \in 1..17, Have(m), Grow  PROVE Have(m)'
BY DEF Have, Grow

\* Whoever is up is apart from those that start alone.
LEMMA NotApart ==
  ASSUME CatInv, NEW s \in Servers, NEW t \in Servers, t # s, S!Up(s),
         server[t].alone, server[t].at \in Opens
  PROVE  FALSE
BY DEF CatInv, Apart, S!Up

LEMMA ProgressStays ==
  ASSUME NEW v, Progress(v), Grow, v.at = "seed" => deleted' = {}  PROVE Progress(v)'
<1>1. v \in Server /\ v.todo \subseteq 1..(Len(repos') + 3)  BY DEF Progress, Grow
<1>2. ASSUME v.at \in Inside  PROVE v.n \in 1..17 /\ \A m \in 1..(v.n - 1) : Have(m)'
  <2>1. v.n \in 1..17 /\ \A m \in 1..(v.n - 1) : Have(m)  BY <1>2 DEF Progress
  <2>2. \A m \in 1..(v.n - 1) : m \in 1..17  BY <2>1
  <2> QED BY <2>1, <2>2, HaveStays
<1>3. v.at \in Beyond => \A m \in 1..17 : Have(m)'  BY HaveStays DEF Progress
<1> QED BY <1>1, <1>2, <1>3 DEF Progress

\* The data's being as it was keeps all that is said of a server.
LEMMA SameData ==
  ASSUME UNCHANGED <<schema, bare, statuses, repos, roots, deleted>>
  PROVE  /\ DataOk => DataOk' /\ Grow
         /\ \A v : Lone(v) => Lone(v)'
<1>1. DataOk => DataOk'  BY DEF DataOk
<1>2. DataOk => Grow
  <2>1. DataOk => Len(repos) \in Nat  BY LenProperties DEF DataOk
  <2> QED BY <2>1 DEF Grow
<1>3. \A v : Lone(v) => Lone(v)'  BY DEF Lone
<1> QED BY <1>1, <1>2, <1>3

LEMMA ServerIs ==
  ASSUME CatInv, NEW s \in Servers
  PROVE  \E v \in Server : v = server[s] /\ Progress(v) /\ Lone(v)
BY DEF CatInv

LEMMA ServerStays ==
  ASSUME CatInv, NEW s \in Servers, Grow, server'[s] = server[s],
         server[s].at = "seed" => deleted' = {},
         server[s].alone /\ server[s].at \in Opens
           => UNCHANGED <<schema, bare, statuses, repos, roots, deleted>>
  PROVE  Progress(server[s])' /\ Lone(server[s])'
<1>1. PICK v \in Server : v = server[s] /\ Progress(v) /\ Lone(v)  BY ServerIs
<1>2. Progress(v)'  BY <1>1, ProgressStays
<1>3. Lone(v)'
  <2>1. CASE v.alone /\ v.at \in Opens  BY <1>1, <2>1, SameData
  <2>2. CASE ~(v.alone /\ v.at \in Opens)  BY <2>2 DEF Lone, Opens, Inside
  <2> QED BY <2>1, <2>2
<1> QED BY <1>1, <1>2, <1>3 DEF Progress, Lone, Have

\* A server's step on its way, or its failing.
LEMMA ServerSteps ==
  ASSUME CatInv, NEW s \in Servers, NEW v, server' = [server EXCEPT ![s] = v],
         S!Up(s), server[s].at # "serving", v.alone = server[s].alone,
         v.at \in {"down", "failed", "serving"} \/ server[s].at \in Opens,
         Progress(v)', Lone(v)', DataOk', Grow, UNCHANGED <<ask, starts, asks, deleted>>
  PROVE  CatInv'
<1>1. server'[s] = v /\ v \in Server /\ \A t \in Servers \ {s} : server'[t] = server[t]
  BY DEF CatInv, Progress
<1>2. server' \in [Servers -> Server]  BY <1>1 DEF CatInv
<1>3. ASSUME NEW t \in Servers  PROVE Progress(server[t])' /\ Lone(server[t])'
  <2>1. CASE t = s  BY <1>1, <2>1 DEF Progress, Lone, Have
  <2>2. CASE t # s
    <3>1. ~(server[t].alone /\ server[t].at \in Opens)  BY <2>2, NotApart
    <3>2. server[t].at = "seed" => deleted' = {}  BY DEF CatInv, Progress
    <3> QED BY <1>1, <2>2, <3>1, <3>2, ServerStays
  <2> QED BY <2>1, <2>2
<1>4. Apart'
  <2> SUFFICES ASSUME NEW q \in Servers, server'[q].alone, server'[q].at \in Opens,
                      NEW t \in Servers \ {q}
               PROVE  server'[t].at \in {"down", "failed"}
    BY DEF Apart
  <2>1. CASE q = s
    <3>1. server[s].alone /\ server[s].at \in Opens
      BY <1>1, <2>1 DEF Opens, Inside
    <3> QED BY <1>1, <2>1, <3>1 DEF CatInv, Apart
  <2>2. CASE q # s
    <3>1. server[q].alone /\ server[q].at \in Opens  BY <1>1, <2>2
    <3> QED BY <2>2, <3>1, NotApart
  <2> QED BY <2>1, <2>2
<1>5. AsksOk'
  <2>1. ASSUME NEW r \in Asks, ask[r] # S!Idle  PROVE server'[ask[r].s].at = "serving"
    <3>1. ask[r] \in Asked /\ server[ask[r].s].at = "serving"  BY <2>1 DEF CatInv, AsksOk
    <3>2. ask[r].s \in Servers  BY <2>1, <3>1 DEF Asked
    <3> QED BY <1>1, <3>1, <3>2
  <2>2. \A r \in Asks : ask[r].at = "root" => ask[r].id \in DOMAIN repos'
    BY DEF CatInv, AsksOk, Grow
  <2> QED BY <2>1, <2>2 DEF CatInv, AsksOk
<1> QED BY <1>2, <1>3, <1>4, <1>5 DEF CatInv

\* A request's step, or a change of the user's: some server serves.
LEMMA ServersStay ==
  ASSUME CatInv, NEW s \in Servers, server[s].at = "serving", server' = server,
         DataOk', Grow, AsksOk', UNCHANGED starts, asks' \in 0..MaxAsks,
         deleted' = deleted \/ \A t \in Servers : server[t].at # "seed"
  PROVE  CatInv'
<1>1. ASSUME NEW t \in Servers  PROVE ~(server[t].alone /\ server[t].at \in Opens)
  <2>1. S!Up(s)  BY DEF S!Up
  <2>2. t = s => server[t].at \notin Opens  BY DEF Opens, Inside
  <2> QED BY <2>1, <2>2, NotApart
<1>2. ASSUME NEW t \in Servers  PROVE Progress(server[t])' /\ Lone(server[t])'
  <2>1. server[t].at = "seed" => deleted' = {}  BY DEF CatInv, Progress
  <2> QED BY <1>1, <2>1, ServerStays
<1>3. Apart'  BY DEF Apart, CatInv
<1> QED BY <1>2, <1>3 DEF CatInv

LEMMA Chosen ==
  ASSUME NEW Q \in SUBSET (1..3), Q # {}
  PROVE  (CHOOSE k \in Q : \A l \in Q : k <= l) \in Q
<1>1. \E k \in Q : \A l \in Q : k <= l
  <2>0. \A l \in Q : l = 1 \/ l = 2 \/ l = 3  OBVIOUS
  <2>1. CASE 1 \in Q
    <3>1. \A l \in Q : 1 <= l  BY <2>0
    <3> QED BY <2>1, <3>1, Zenon
  <2>2. CASE 1 \notin Q /\ 2 \in Q
    <3>1. \A l \in Q : 2 <= l  BY <2>0, <2>2
    <3> QED BY <2>2, <3>1, Zenon
  <2>3. CASE 1 \notin Q /\ 2 \notin Q
    <3>1. \A l \in Q : l = 3  BY <2>0, <2>3
    <3>2. 3 \in Q  BY <3>1
    <3>3. \A l \in Q : 3 <= l  BY <3>1
    <3> QED BY <3>2, <3>3, Zenon
  <2> QED BY <2>1, <2>2, <2>3
<1> QED BY <1>1

\* Past the step a server is at.
LEMMA PastIs ==
  ASSUME NEW v \in Server, v.n \in 1..17, NEW z, z = S!Past(v, 1)
  PROVE  /\ z \in Server /\ z.todo = v.todo /\ z.alone = v.alone
         /\ v.n < 17 => z.at = "open" /\ z.n = v.n + 1
         /\ v.n = 17 => z.at = "list" /\ z.n = 0
<1>1. v.n + 1 > Len(S!Opening) <=> v.n = 17  BY OpeningIs
<1>2. CASE v.n = 17
  <2>1. z = [v EXCEPT !.at = "list", !.n = 0]  BY <1>1, <1>2 DEF S!Past
  <2>2. z = [at |-> "list", n |-> 0, todo |-> v.todo, alone |-> v.alone]  BY <2>1 DEF Server
  <2>3. "list" \in Ats /\ 0 \in 0..17 /\ v.todo \in SUBSET Nat /\ v.alone \in BOOLEAN
    BY DEF Server, Ats
  <2> QED BY <1>2, <2>2, <2>3 DEF Server
<1>3. CASE v.n < 17
  <2>1. z = [v EXCEPT !.at = "open", !.n = v.n + 1]  BY <1>1, <1>3 DEF S!Past
  <2>2. z = [at |-> "open", n |-> v.n + 1, todo |-> v.todo, alone |-> v.alone]
    BY <2>1 DEF Server
  <2>3. "open" \in Ats /\ v.n + 1 \in 0..17 /\ v.todo \in SUBSET Nat /\ v.alone \in BOOLEAN
    BY <1>3 DEF Server, Ats
  <2> QED BY <1>3, <2>2, <2>3 DEF Server
<1> QED BY <1>2, <1>3

\* A server whose step leaves what it should has that behind it.
LEMMA Advanced ==
  ASSUME NEW v, Progress(v), v.at \in Inside, Grow, Have(v.n)',
         NEW w, w \in Server, w.n = v.n, w.todo \subseteq v.todo, w.alone = v.alone,
         NEW z, z = S!Past(w, 1)
  PROVE  Progress(z)' /\ Lone(z)' /\ z.alone = v.alone
<1>1. v \in Server /\ v.n \in 1..17 /\ v.todo \subseteq 1..(Len(repos) + 3)  BY DEF Progress
<1>2. /\ z \in Server /\ z.todo = w.todo /\ z.alone = v.alone
      /\ v.n < 17 => z.at = "open" /\ z.n = v.n + 1
      /\ v.n = 17 => z.at = "list" /\ z.n = 0
  BY <1>1, PastIs
<1>3. \A m \in 1..17 : m < v.n => Have(m)'
  <2>1. PICK k \in 1..17 : k = v.n  BY <1>1
  <2>2. \A m \in 1..17 : m < k => m \in 1..(k - 1)  OBVIOUS
  <2>3. \A m \in 1..17 : m < v.n => m \in 1..(v.n - 1)  BY <2>1, <2>2
  <2> QED BY <2>3, HaveStays DEF Progress
<1>4. z.todo \subseteq 1..(Len(repos') + 3)
  <2>1. \A j, k \in Nat : j <= k => 1..(j + 3) \subseteq 1..(k + 3)  OBVIOUS
  <2> QED BY <1>1, <1>2, <2>1 DEF Grow
<1>5. CASE v.n = 17
  <2>1. \A m \in 1..17 : m < v.n \/ m = v.n  BY <1>5
  <2>2. \A m \in 1..17 : Have(m)'  BY <1>3, <2>1
  <2> QED BY <1>2, <1>4, <1>5, <2>2 DEF Progress, Lone, Inside, Beyond
<1>6. CASE v.n < 17
  <2>1. \A m \in 1..((v.n + 1) - 1) : m \in 1..17 /\ (m < v.n \/ m = v.n)  BY <1>1, <1>6
  <2>2. \A m \in 1..((v.n + 1) - 1) : Have(m)'  BY <1>3, <2>1
  <2>3. v.n + 1 \in 1..17  BY <1>1, <1>6
  <2> QED BY <1>2, <1>4, <1>6, <2>2, <2>3 DEF Progress, Lone, Inside, Beyond
<1> QED BY <1>1, <1>5, <1>6

\* Both are of a server that is at a step of Open.
LEMMA StepAt ==
  ASSUME CatInv, NEW s \in Servers, server[s].at \in Inside
  PROVE  /\ server[s] \in Server /\ Progress(server[s]) /\ Lone(server[s])
         /\ S!Up(s) /\ server[s].at # "serving" /\ server[s].at \in Opens
         /\ server[s].n \in 1..17 /\ S!Step(s) = S!Opening[server[s].n]
<1>1. server[s] \in Server /\ Progress(server[s]) /\ Lone(server[s])  BY DEF CatInv
<1> QED BY <1>1 DEF S!Up, Opens, Inside, S!Step, Progress

\* A step that leaves what it should, and the server past it.
LEMMA AdvanceKeeps ==
  ASSUME CatInv, NEW s \in Servers, server[s].at \in Inside, S!Advance(s),
         DataOk', Grow, UNCHANGED <<ask, starts, asks, deleted>>,
         NEW m, m = server[s].n, Have(m)'
  PROVE  CatInv'
<1>1. PICK v : v = server[s]  OBVIOUS
<1>2. PICK z : z = S!Past(v, 1)  OBVIOUS
<1>3. server' = [server EXCEPT ![s] = z]  BY <1>1, <1>2 DEF S!Advance
<1>4. v \in Server /\ Progress(v)  BY <1>1, StepAt
<1>5. Progress(z)' /\ Lone(z)' /\ z.alone = v.alone  BY <1>1, <1>2, <1>4, Advanced
<1> QED BY <1>1, <1>3, <1>5, StepAt, ServerSteps

LEMMA CreateKeeps == ASSUME CatInv, NEW s \in Servers, S!Create(s)  PROVE CatInv'
<1>0. PICK m : m = server[s].n  OBVIOUS
<1>1. server[s].at \in Inside /\ S!Step(s) \in S!Tables  BY DEF S!Create, S!Doing, Inside
<1>2. m \in 1..17 /\ S!Step(s) = S!Opening[m]  BY <1>0, <1>1, StepAt
<1>3. schema' = schema \cup {S!Opening[m]} /\ S!Advance(s)
      /\ UNCHANGED <<bare, statuses, repos, roots, ask, starts, asks, deleted>>
  BY <1>2 DEF S!Create
<1>4. S!Opening[m] \in S!Schema  BY <1>1, <1>2, OpeningIs
<1>5. DataOk' /\ Grow
  <2>1. DataOk  BY DEF CatInv
  <2>2. Len(repos) \in Nat  BY <2>1, LenProperties DEF DataOk
  <2> QED BY <1>3, <1>4, <2>1, <2>2 DEF DataOk, Grow
<1>6. Have(m)'  BY <1>3, <1>4, OpeningIs DEF Have
<1> QED BY <1>0, <1>1, <1>3, <1>5, <1>6, AdvanceKeeps

LEMMA StampKeeps == ASSUME CatInv, NEW s \in Servers, S!Stamp(s)  PROVE CatInv'
<1>0. PICK m : m = server[s].n  OBVIOUS
<1>1. server[s].at \in Inside /\ S!Step(s) = "stamp"  BY DEF S!Stamp, S!Doing, Inside
<1>2. m \in 1..17 /\ S!Opening[m] = "stamp"  BY <1>0, <1>1, StepAt
<1>3. bare' = {} /\ S!Advance(s)
      /\ UNCHANGED <<schema, statuses, repos, roots, ask, starts, asks, deleted>>
  BY DEF S!Stamp
<1>5. DataOk' /\ Grow
  <2>1. DataOk  BY DEF CatInv
  <2>2. Len(repos) \in Nat  BY <2>1, LenProperties DEF DataOk
  <2> QED BY <1>3, <2>1, <2>2 DEF DataOk, Grow
<1>6. Have(m)'  BY <1>2, <1>3, OpeningIs DEF Have
<1> QED BY <1>0, <1>1, <1>3, <1>5, <1>6, AdvanceKeeps

\* The step a server takes without touching the database.
LEMMA QuietStep ==
  ASSUME CatInv, NEW s \in Servers, NEW v, server' = [server EXCEPT ![s] = v],
         S!Up(s), server[s].at # "serving", v.alone = server[s].alone,
         v.at \in {"down", "failed", "serving"} \/ server[s].at \in Opens,
         Progress(v), Lone(v),
         UNCHANGED <<schema, bare, statuses, repos, roots, ask, starts, asks, deleted>>
  PROVE  CatInv'
<1>1. DataOk' /\ Grow  BY SameData DEF CatInv
<1>2. Lone(v)'  BY SameData
<1>3. Progress(v)'
  <2>1. v.at = "seed" => deleted' = {}  BY DEF Progress
  <2> QED BY <1>1, <2>1, ProgressStays
<1> QED BY <1>1, <1>2, <1>3, ServerSteps

\* A server's turning to at.
LEMMA Turned ==
  ASSUME NEW v \in Server, NEW q \in Ats, NEW w, w = [v EXCEPT !.at = q]
  PROVE  w \in Server /\ w.at = q /\ w.n = v.n /\ w.todo = v.todo /\ w.alone = v.alone
BY DEF Server

LEMMA CheckKeeps == ASSUME CatInv, NEW s \in Servers, S!Check(s)  PROVE CatInv'
<1>0. PICK v : v = server[s]  OBVIOUS
<1>1. server[s].at = "open" /\ server[s].at \in Inside /\ S!Step(s) \in S!Columns
  BY DEF S!Check, S!Doing, Inside
<1>2. /\ v \in Server /\ Progress(v) /\ Lone(v) /\ v.n \in 1..17 /\ S!Step(s) = S!Opening[v.n]
      /\ S!Up(s) /\ server[s].at # "serving" /\ server[s].at \in Opens
  BY <1>0, <1>1, StepAt
<1>3. UNCHANGED <<schema, bare, statuses, repos, roots, ask, starts, asks, deleted>>
  BY DEF S!Check, S!database
<1>4. S!Opening[v.n] \in S!Schema  BY <1>1, <1>2, OpeningIs
<1>5. CASE S!Step(s) \in schema
  <2>1. S!Advance(s)  BY <1>5 DEF S!Check
  <2>2. DataOk' /\ Grow  BY <1>3, SameData DEF CatInv
  <2>3. PICK m : m = v.n  OBVIOUS
  <2>4. Have(m)'  BY <1>2, <1>3, <1>4, <1>5, <2>3, OpeningIs DEF Have
  <2> QED BY <1>0, <1>1, <1>3, <2>1, <2>2, <2>3, <2>4, AdvanceKeeps
<1>6. CASE S!Step(s) \notin schema
  <2>1. PICK w : w = [v EXCEPT !.at = "alter"]  OBVIOUS
  <2>2. server' = [server EXCEPT ![s] = w]  BY <1>0, <1>6, <2>1 DEF S!Check, S!To
  <2>3. w \in Server /\ w.at = "alter" /\ w.n = v.n /\ w.todo = v.todo /\ w.alone = v.alone
    BY <1>2, <2>1, Turned DEF Ats
  <2>4. Progress(w)
    BY <1>0, <1>1, <1>2, <2>3 DEF Progress, Inside, Beyond
  <2>5. Lone(w)  BY <1>2, <1>6, <2>3 DEF Lone
  <2> QED BY <1>0, <1>2, <1>3, <2>2, <2>3, <2>4, <2>5, QuietStep
<1> QED BY <1>5, <1>6

\* What fails in company leaves the database alone.
LEMMA FailKeeps ==
  ASSUME CatInv, NEW s \in Servers, server[s].at \in Inside, S!To(s, "failed"), ~server[s].alone,
         UNCHANGED <<schema, bare, statuses, repos, roots, ask, starts, asks, deleted>>
  PROVE  CatInv'
<1>1. PICK v : v = server[s]  OBVIOUS
<1>2. /\ v \in Server /\ Progress(v) /\ Lone(v)
      /\ S!Up(s) /\ server[s].at # "serving" /\ server[s].at \in Opens
  BY <1>1, StepAt
<1>3. PICK w : w = [v EXCEPT !.at = "failed"]  OBVIOUS
<1>4. server' = [server EXCEPT ![s] = w]  BY <1>1, <1>3 DEF S!To
<1>5. w \in Server /\ w.at = "failed" /\ w.n = v.n /\ w.todo = v.todo /\ w.alone = v.alone
  BY <1>2, <1>3, Turned DEF Ats
<1>6. Progress(w) /\ Lone(w)  BY <1>1, <1>2, <1>5 DEF Progress, Lone, Inside, Beyond
<1> QED BY <1>1, <1>2, <1>4, <1>5, <1>6, QuietStep

LEMMA AlterKeeps == ASSUME CatInv, NEW s \in Servers, S!Alter(s)  PROVE CatInv'
<1>0. PICK v : v = server[s]  OBVIOUS
<1>1. v.at = "alter" /\ server[s].at \in Inside  BY <1>0 DEF S!Alter, S!Doing, Inside
<1>2. v \in Server /\ Progress(v) /\ Lone(v) /\ v.n \in 1..17 /\ S!Step(s) = S!Opening[v.n]
  BY <1>0, <1>1, StepAt
<1>3. UNCHANGED <<bare, statuses, repos, roots, ask, starts, asks, deleted>>  BY DEF S!Alter
<1>4. S!Opening[v.n] \in S!Schema  BY <1>1, <1>2, OpeningIs DEF Progress
<1>5. CASE S!Step(s) \in schema
  <2>1. S!To(s, "failed") /\ UNCHANGED schema  BY <1>5 DEF S!Alter
  <2>2. ~server[s].alone  BY <1>0, <1>1, <1>2, <1>5 DEF Lone
  <2> QED BY <1>1, <1>3, <2>1, <2>2, FailKeeps
<1>6. CASE S!Step(s) \notin schema
  <2>1. S!Advance(s) /\ schema' = schema \cup {S!Opening[v.n]}  BY <1>2, <1>6 DEF S!Alter
  <2>2. DataOk' /\ Grow
    <3>1. DataOk  BY DEF CatInv
    <3>2. Len(repos) \in Nat  BY <3>1, LenProperties DEF DataOk
    <3> QED BY <1>3, <1>4, <2>1, <3>1, <3>2 DEF DataOk, Grow
  <2>3. PICK m : m = v.n  OBVIOUS
  <2>4. Have(m)'  BY <1>2, <1>4, <2>1, <2>3, OpeningIs DEF Have
  <2> QED BY <1>0, <1>1, <1>3, <2>1, <2>2, <2>3, <2>4, AdvanceKeeps
<1> QED BY <1>5, <1>6

LEMMA CountKeeps == ASSUME CatInv, NEW s \in Servers, S!Count(s)  PROVE CatInv'
<1>0. PICK v : v = server[s]  OBVIOUS
<1>1. v.at = "open" /\ v.at \in Inside /\ S!Step(s) = "seed"
  BY <1>0 DEF S!Count, S!Doing, Inside
<1>2. /\ v \in Server /\ Progress(v) /\ Lone(v) /\ v.n \in 1..17 /\ S!Opening[v.n] = "seed"
      /\ S!Up(s) /\ server[s].at # "serving" /\ server[s].at \in Opens
  BY <1>0, <1>1, StepAt
<1>3. UNCHANGED <<schema, bare, statuses, repos, roots, ask, starts, asks, deleted>>
  BY DEF S!Count, S!database
<1>5. CASE statuses # <<>>
  <2>1. S!Advance(s)  BY <1>5 DEF S!Count
  <2>2. DataOk' /\ Grow  BY <1>3, SameData DEF CatInv
  <2>3. PICK m : m = v.n  OBVIOUS
  <2>4. Have(m)'  BY <1>2, <1>3, <1>5, <2>3, OpeningIs DEF Have
  <2> QED BY <1>0, <1>1, <1>3, <2>1, <2>2, <2>3, <2>4, AdvanceKeeps
<1>6. CASE statuses = <<>>
  <2>1. PICK w : w = [v EXCEPT !.at = "seed", !.todo = 1..3]  OBVIOUS
  <2>2. server' = [server EXCEPT ![s] = w]
    <3>1. server' = [server EXCEPT ![s].at = "seed", ![s].todo = 1..3]
      BY <1>6, DefaultsAre DEF S!Count
    <3>2. server \in [Servers -> Server]  BY DEF CatInv
    <3> QED BY <1>0, <2>1, <3>1, <3>2
  <2>3. w \in Server /\ w.at = "seed" /\ w.n = v.n /\ w.todo = 1..3 /\ w.alone = v.alone
    <3>1. w = [at |-> "seed", n |-> v.n, todo |-> 1..3, alone |-> v.alone]
      BY <1>2, <2>1 DEF Server
    <3>2. "seed" \in Ats /\ 1..3 \in SUBSET Nat  BY DEF Ats
    <3> QED BY <1>2, <3>1, <3>2 DEF Server
  <2>4. Progress(w)
    <3>1. deleted = {}  BY <1>6 DEF CatInv, DataOk
    <3>2. Len(repos) \in Nat  BY LenProperties DEF CatInv, DataOk
    <3>3. 1..3 \subseteq 1..(Len(repos) + 3) /\ 1 \in 1..3  BY <3>2
    <3> QED BY <1>1, <1>2, <2>3, <3>1, <3>3 DEF Progress, Inside, Beyond
  <2>5. Lone(w)  BY <1>6, <2>3, EmptyOnce DEF Lone
  <2> QED BY <1>0, <1>2, <1>3, <2>2, <2>3, <2>4, <2>5, QuietStep
<1> QED BY <1>5, <1>6

LEMMA SeedKeeps == ASSUME CatInv, NEW s \in Servers, S!Seed(s)  PROVE CatInv'
<1>0. PICK v : v = server[s]  OBVIOUS
<1>1. v.at = "seed" /\ v.at \in Inside  BY <1>0 DEF S!Seed, S!Doing, Inside
<1>2. /\ v \in Server /\ Progress(v) /\ Lone(v) /\ v.n \in 1..17
      /\ S!Up(s) /\ server[s].at # "serving" /\ server[s].at \in Opens
  BY <1>0, <1>1, StepAt
<1>3. v.todo # {} /\ v.todo \in SUBSET (1..3) /\ deleted = {} /\ S!Opening[v.n] = "seed"
  BY <1>1, <1>2 DEF Progress
<1>4. PICK i : i = CHOOSE k \in v.todo : \A l \in v.todo : k <= l  OBVIOUS
<1>5. i \in v.todo /\ i \in 1..3 /\ S!Defaults[i] \in Statuses  BY <1>3, <1>4, Chosen, DefaultsAre
<1>6. UNCHANGED <<schema, bare, repos, roots, ask, starts, asks, deleted>>  BY DEF S!Seed
<1>7. CASE S!Defaults[i] \in S!Range(statuses)
  <2>1. S!To(s, "failed") /\ UNCHANGED statuses  BY <1>0, <1>4, <1>7 DEF S!Seed
  <2>2. ~server[s].alone  BY <1>0, <1>1, <1>2, <1>5, <1>7 DEF Lone
  <2> QED BY <1>0, <1>1, <1>6, <2>1, <2>2, FailKeeps
<1>8. CASE S!Defaults[i] \notin S!Range(statuses)
  <2> DEFINE left == v.todo \ {i}
  <2>1. /\ statuses' = Append(statuses, S!Defaults[i])
        /\ server' = [server EXCEPT ![s] = IF left = {} THEN [S!Past(v, 1) EXCEPT !.todo = {}]
                                           ELSE [v EXCEPT !.todo = left]]
    BY <1>0, <1>4, <1>8 DEF S!Seed
  <2>2. statuses \in Seq(Statuses) /\ Once(statuses)  BY DEF CatInv, DataOk
  <2>3. /\ statuses' \in Seq(Statuses) /\ statuses' # <<>> /\ Once(statuses')
        /\ S!Range(statuses)' = S!Range(statuses) \cup {S!Defaults[i]}
    BY <1>5, <1>8, <2>1, <2>2, AppendOnce, RangeIs
  <2>4. DataOk' /\ Grow
    <3>1. DataOk  BY DEF CatInv
    <3>2. Len(repos) \in Nat  BY <3>1, LenProperties DEF DataOk
    <3> QED BY <1>3, <1>6, <2>3, <3>1, <3>2 DEF DataOk, Grow
  <2>5. CASE left = {}
    <3>1. PICK w : w = [v EXCEPT !.todo = {}]  OBVIOUS
    <3>2. w \in Server /\ w.n = v.n /\ w.todo \subseteq v.todo /\ w.alone = v.alone /\ w.at = v.at /\ w.todo = {}
      BY <1>2, <3>1 DEF Server
    <3>3. PICK z : z = S!Past(w, 1)  OBVIOUS
    <3>4. server' = [server EXCEPT ![s] = z]
      <4>1. [S!Past(v, 1) EXCEPT !.todo = {}] = z
        <5>1. z = IF v.n + 1 > Len(S!Opening) THEN [w EXCEPT !.at = "list", !.n = 0]
                  ELSE [w EXCEPT !.at = "open", !.n = v.n + 1]
          BY <3>2, <3>3 DEF S!Past
        <5>2. S!Past(v, 1) = IF v.n + 1 > Len(S!Opening) THEN [v EXCEPT !.at = "list", !.n = 0]
                             ELSE [v EXCEPT !.at = "open", !.n = v.n + 1]
          BY DEF S!Past
        <5> QED BY <1>2, <3>1, <5>1, <5>2 DEF Server
      <4> QED BY <2>1, <2>5, <4>1
    <3>5. PICK m : m = v.n  OBVIOUS
    <3>6. Have(m)'  BY <1>3, <2>3, <3>5, OpeningIs DEF Have
    <3>7. Progress(z)' /\ Lone(z)' /\ z.alone = v.alone
      BY <1>1, <1>2, <2>4, <3>2, <3>3, <3>5, <3>6, Advanced
    <3> QED BY <1>0, <1>2, <1>6, <2>4, <3>4, <3>7, ServerSteps
  <2>6. CASE left # {}
    <3>1. PICK w : w = [v EXCEPT !.todo = left]  OBVIOUS
    <3>2. server' = [server EXCEPT ![s] = w]  BY <2>1, <2>6, <3>1
    <3>3. w \in Server /\ w.at = "seed" /\ w.n = v.n /\ w.todo = left /\ w.alone = v.alone
      BY <1>1, <1>2, <3>1 DEF Server
    <3>4. Progress(w)'
      <4>1. Progress(w)  BY <1>1, <1>2, <1>3, <2>6, <3>3 DEF Progress, Inside, Beyond
      <4> QED BY <1>3, <1>6, <2>4, <4>1, ProgressStays
    <3>5. Lone(w)'
      <4> SUFFICES ASSUME w.alone, NEW k \in left  PROVE S!Defaults[k] \notin S!Range(statuses)'
        BY <3>3 DEF Lone
      <4>1. k \in 1..3 /\ k # i /\ k \in v.todo  BY <1>3
      <4>2. S!Defaults[k] # S!Defaults[i]  BY <1>5, <4>1, DefaultsAre DEF Once
      <4>3. S!Defaults[k] \notin S!Range(statuses)  BY <1>1, <1>2, <3>3, <4>1 DEF Lone
      <4> QED BY <2>3, <4>2, <4>3
    <3> QED BY <1>0, <1>2, <1>6, <2>4, <3>2, <3>3, <3>4, <3>5, ServerSteps
  <2> QED BY <2>5, <2>6
<1> QED BY <1>7, <1>8

\* A server that lists the repositories or gives them their roots.
LEMMA FillingIs ==
  ASSUME CatInv, NEW s \in Servers, server[s].at \in {"list", "backfill"}
  PROVE  /\ server[s] \in Server /\ Progress(server[s]) /\ Lone(server[s])
         /\ S!Up(s) /\ server[s].at # "serving" /\ server[s].at \in Opens
BY DEF CatInv, S!Up, Opens

\* Its having less to do, or the next thing.
LEMMA FillingStep ==
  ASSUME CatInv, NEW s \in Servers, server[s].at \in {"list", "backfill"},
         NEW w, server' = [server EXCEPT ![s] = w], w \in Server, w.at \in {"backfill", "serving"},
         w.todo \subseteq 1..(Len(repos) + 3), w.alone = server[s].alone, Lone(w)',
         roots \subseteq roots', roots' \subseteq DOMAIN repos,
         UNCHANGED <<schema, bare, statuses, repos, ask, starts, asks, deleted>>
  PROVE  CatInv'
<1>1. Progress(server[s])  BY FillingIs
<1>2. DataOk  BY DEF CatInv
<1>3. DataOk' /\ Grow
  <2>1. Len(repos) \in Nat  BY <1>2, LenProperties DEF DataOk
  <2> QED BY <1>2, <2>1 DEF DataOk, Grow
<1>4. Progress(w)  BY <1>1 DEF Progress, Inside, Beyond
<1>5. Progress(w)'
  <2>1. w.at # "seed"  OBVIOUS
  <2> QED BY <1>3, <1>4, <2>1, ProgressStays
<1> QED BY <1>3, <1>5, FillingIs, ServerSteps

LEMMA ListKeeps == ASSUME CatInv, NEW s \in Servers, S!List(s)  PROVE CatInv'
<1>0. PICK v : v = server[s]  OBVIOUS
<1>1. v.at = "list"  BY <1>0 DEF S!List, S!Doing
<1>2. v \in Server /\ Progress(v)  BY <1>0, <1>1, FillingIs
<1>3. UNCHANGED <<schema, bare, statuses, repos, roots, ask, starts, asks, deleted>>
  BY DEF S!List, S!database
<1>4. PICK w : w = [v EXCEPT !.at = "backfill", !.todo = DOMAIN repos]  OBVIOUS
<1>5. server' = [server EXCEPT ![s] = w]
  <2>1. server' = [server EXCEPT ![s].at = "backfill", ![s].todo = DOMAIN repos]
    BY DEF S!List
  <2>2. server \in [Servers -> Server]  BY DEF CatInv
  <2> QED BY <1>0, <1>4, <2>1, <2>2
<1>6. DataOk  BY DEF CatInv
<1>7. DOMAIN repos = 1..Len(repos) /\ Len(repos) \in Nat /\ roots \subseteq DOMAIN repos
  BY <1>6, LenProperties DEF DataOk
<1>8. /\ w \in Server /\ w.at = "backfill" /\ w.todo = DOMAIN repos /\ w.alone = v.alone
  <2>1. w = [at |-> "backfill", n |-> v.n, todo |-> DOMAIN repos, alone |-> v.alone]
    BY <1>2, <1>4 DEF Server
  <2>2. "backfill" \in Ats /\ DOMAIN repos \in SUBSET Nat  BY <1>7 DEF Ats
  <2> QED BY <1>2, <2>1, <2>2 DEF Server
<1>9. w.todo \subseteq 1..(Len(repos) + 3)  BY <1>7, <1>8
<1>10. Lone(w)'  BY <1>3, <1>8 DEF Lone
<1> QED BY <1>0, <1>1, <1>3, <1>5, <1>7, <1>8, <1>9, <1>10, FillingStep

\* A root given is the repository's: no two have a path.
LEMMA EnsureRootIs ==
  ASSUME DataOk, NEW i \in DOMAIN repos, S!EnsureRoot(i)
  PROVE  /\ roots \subseteq roots' /\ roots' \subseteq DOMAIN repos
         /\ i \in roots' \/ repos[i] \in Held
<1>1. CASE repos[i] \in Held  BY <1>1 DEF S!EnsureRoot, DataOk
<1>2. CASE repos[i] \notin Held /\ \E j \in roots : repos[j] = repos[i]
  <2>1. i \in roots  BY <1>2 DEF DataOk, Once
  <2> QED BY <1>2, <2>1 DEF S!EnsureRoot, DataOk
<1>3. CASE repos[i] \notin Held /\ ~\E j \in roots : repos[j] = repos[i]
  BY <1>3 DEF S!EnsureRoot, DataOk
<1> QED BY <1>1, <1>2, <1>3

LEMMA BackfillKeeps ==
  ASSUME CatInv, NEW s \in Servers, NEW i \in DOMAIN repos, S!Backfill(s, i)  PROVE CatInv'
<1>0. PICK v : v = server[s]  OBVIOUS
<1>1. v.at = "backfill"  BY <1>0 DEF S!Backfill, S!Doing
<1>2. v \in Server /\ Progress(v) /\ Lone(v)  BY <1>0, <1>1, FillingIs
<1>3. UNCHANGED <<schema, bare, statuses, repos, ask, starts, asks, deleted>>
      /\ S!EnsureRoot(i)
  BY DEF S!Backfill
<1>4. PICK w : w = [v EXCEPT !.todo = v.todo \ {i}]  OBVIOUS
<1>5. server' = [server EXCEPT ![s] = w]
  <2>1. server' = [server EXCEPT ![s].todo = server[s].todo \ {i}]  BY DEF S!Backfill
  <2>2. server \in [Servers -> Server]  BY DEF CatInv
  <2> QED BY <1>0, <1>4, <2>1, <2>2
<1>6. w \in Server /\ w.at = "backfill" /\ w.todo = v.todo \ {i} /\ w.alone = v.alone
  BY <1>1, <1>2, <1>4 DEF Server
<1>7. DataOk  BY DEF CatInv
<1>8. roots \subseteq roots' /\ roots' \subseteq DOMAIN repos /\ (i \in roots' \/ repos[i] \in Held)
  BY <1>3, <1>7, EnsureRootIs
<1>9. w.todo \subseteq 1..(Len(repos) + 3)  BY <1>2, <1>6 DEF Progress
<1>10. Lone(w)'
  <2> SUFFICES ASSUME w.alone, NEW j \in DOMAIN repos
               PROVE  j \in roots' \/ repos[j] \in Held \/ j \in w.todo
    BY <1>3, <1>6 DEF Lone
  <2>1. j \in roots \/ repos[j] \in Held \/ j \in v.todo  BY <1>1, <1>2, <1>6 DEF Lone
  <2> QED BY <1>6, <1>8, <2>1
<1> QED BY <1>0, <1>1, <1>3, <1>5, <1>6, <1>8, <1>9, <1>10, FillingStep

LEMMA ServeKeeps == ASSUME CatInv, NEW s \in Servers, S!Serve(s)  PROVE CatInv'
<1>0. PICK v : v = server[s]  OBVIOUS
<1>1. v.at = "backfill"  BY <1>0 DEF S!Serve, S!Doing
<1>2. v \in Server /\ Progress(v)  BY <1>0, <1>1, FillingIs
<1>3. UNCHANGED <<schema, bare, statuses, repos, roots, ask, starts, asks, deleted>>
  BY DEF S!Serve, S!database
<1>4. PICK w : w = [v EXCEPT !.at = "serving"]  OBVIOUS
<1>5. server' = [server EXCEPT ![s] = w]  BY <1>0, <1>4 DEF S!Serve, S!To
<1>6. w \in Server /\ w.at = "serving" /\ w.todo = v.todo /\ w.alone = v.alone
  BY <1>2, <1>4, Turned DEF Ats
<1>7. w.todo \subseteq 1..(Len(repos) + 3)  BY <1>2, <1>6 DEF Progress
<1>8. Lone(w)'  BY <1>6 DEF Lone
<1>9. roots \subseteq DOMAIN repos  BY DEF CatInv, DataOk
<1> QED BY <1>0, <1>1, <1>3, <1>5, <1>6, <1>7, <1>8, <1>9, FillingStep

LEMMA BusyKeeps == ASSUME CatInv, NEW s \in Servers, S!Busy(s)  PROVE CatInv'
<1>0. PICK v : v = server[s]  OBVIOUS
<1>1. UNCHANGED <<schema, bare, statuses, repos, roots, ask, starts, asks, deleted>>
      /\ S!Company(s)
      /\ v.at \in Opens
  BY <1>0 DEF S!Busy, S!database, S!Doing, Opens, Inside
<1>2. ~v.alone
  <2>1. PICK t \in Servers \ {s} : S!Up(t)  BY <1>1 DEF S!Company
  <2> QED BY <1>0, <1>1, <2>1, NotApart
<1>3. v \in Server /\ Progress(v) /\ roots \subseteq DOMAIN repos  BY <1>0 DEF CatInv, DataOk
<1>4. CASE v.at \notin {"list", "backfill"} /\ S!To(s, "failed")
  <2>1. v.at \in Inside  BY <1>1, <1>4 DEF Opens
  <2> QED BY <1>0, <1>1, <1>2, <1>4, <2>1, FailKeeps
<1>5. CASE v.at = "list" /\ server' = [server EXCEPT ![s].at = "backfill"]
  <2>1. PICK w : w = [v EXCEPT !.at = "backfill"]  OBVIOUS
  <2>2. server' = [server EXCEPT ![s] = w]  BY <1>0, <1>5, <2>1
  <2>3. w \in Server /\ w.at = "backfill" /\ w.todo = v.todo /\ w.alone = v.alone
    BY <1>3, <2>1, Turned DEF Ats
  <2>4. w.todo \subseteq 1..(Len(repos) + 3)  BY <1>3, <2>3 DEF Progress
  <2>5. Lone(w)'  BY <1>2, <2>3 DEF Lone
  <2> QED BY <1>0, <1>1, <1>3, <1>5, <2>2, <2>3, <2>4, <2>5, FillingStep
<1>6. CASE v.at = "backfill" /\ \E i \in v.todo : server' = [server EXCEPT ![s].todo = v.todo \ {i}]
  <2>0. PICK i \in v.todo : server' = [server EXCEPT ![s].todo = v.todo \ {i}]  BY <1>6
  <2>1. PICK w : w = [v EXCEPT !.todo = v.todo \ {i}]  OBVIOUS
  <2>2. server' = [server EXCEPT ![s] = w]  BY <1>0, <2>0, <2>1
  <2>3. w \in Server /\ w.at = "backfill" /\ w.todo = v.todo \ {i} /\ w.alone = v.alone
    BY <1>3, <1>6, <2>1 DEF Server
  <2>4. w.todo \subseteq 1..(Len(repos) + 3)  BY <1>3, <2>3 DEF Progress
  <2>5. Lone(w)'  BY <1>2, <2>3 DEF Lone
  <2> QED BY <1>0, <1>1, <1>3, <1>6, <2>2, <2>3, <2>4, <2>5, FillingStep
<1>7. \/ v.at \notin {"list", "backfill"} /\ S!To(s, "failed")
      \/ v.at = "list" /\ server' = [server EXCEPT ![s].at = "backfill"]
      \/ v.at = "backfill" /\ \E i \in v.todo : server' = [server EXCEPT ![s].todo = v.todo \ {i}]
  BY <1>0 DEF S!Busy, S!Doing
<1> QED BY <1>4, <1>5, <1>6, <1>7

\* A start makes whoever was starting have company.
LEMMA StartKeeps == ASSUME CatalogBounds, CatInv, NEW s \in Servers, S!Start(s)  PROVE CatInv'
<1>1. PICK k \in BOOLEAN : k <=> ~S!Company(s)
  <2>1. CASE S!Company(s)  BY <2>1
  <2>2. CASE ~S!Company(s)  BY <2>2
  <2> QED BY <2>1, <2>2
<1>2. /\ UNCHANGED <<schema, bare, statuses, repos, roots, ask, asks, deleted>>
      /\ starts' = starts + 1 /\ starts < MaxStarts /\ server[s].at \in {"down", "failed"}
  BY DEF S!Start, S!database, S!Up
<1>3. server'[s] = [at |-> "open", n |-> 1, todo |-> {}, alone |-> k]
  <2>1. server'[s] = [S!Down EXCEPT !.at = "open", !.n = 1, !.alone = ~S!Company(s)]
    BY DEF S!Start
  <2>2. (~S!Company(s)) = k  BY <1>1
  <2>3. server'[s] = [S!Down EXCEPT !.at = "open", !.n = 1, !.alone = k]
    BY <2>1, <2>2, Zenon
  <2> QED BY <2>3 DEF S!Down
<1>4. ASSUME NEW t \in Servers, t # s
      PROVE  \E z \in Server : /\ server'[t] = z /\ z.at = server[t].at /\ z.n = server[t].n
                               /\ z.todo = server[t].todo
                               /\ z.alone => server[t].alone /\ z.at \in {"serving", "failed"}
  <2>1. server[t] \in Server  BY DEF CatInv
  <2>2. server'[t] = [server[t] EXCEPT !.alone = server[t].alone /\ server[t].at \in {"serving", "failed"}]
    BY <1>4 DEF S!Start
  <2>3. CASE server[t].alone /\ server[t].at \in {"serving", "failed"}
    <3>1. server'[t] = [server[t] EXCEPT !.alone = TRUE]  BY <2>2, <2>3, Zenon
    <3> QED BY <2>1, <2>3, <3>1 DEF Server
  <2>4. CASE ~(server[t].alone /\ server[t].at \in {"serving", "failed"})
    <3>1. server'[t] = [server[t] EXCEPT !.alone = FALSE]  BY <2>2, <2>4, Zenon
    <3> QED BY <2>1, <3>1 DEF Server
  <2> QED BY <2>3, <2>4
<1>5. DOMAIN server' = Servers /\ server' = [t \in Servers |-> server'[t]]  BY DEF S!Start
<1>6. server'[s] \in Server
  <2>1. "open" \in Ats /\ 1 \in 0..17 /\ {} \in SUBSET Nat  BY DEF Ats
  <2> QED BY <1>3, <2>1 DEF Server
<1>7. server' \in [Servers -> Server]
  <2>1. \A t \in Servers : server'[t] \in Server  BY <1>4, <1>6
  <2> QED BY <1>5, <2>1
<1>8. DataOk' /\ Grow  BY <1>2, SameData DEF CatInv
<1>9. ASSUME NEW t \in Servers  PROVE Progress(server[t])' /\ Lone(server[t])'
  <2>1. CASE t = s
    <3>1. PICK z \in Server : z = server'[s]  BY <1>6
    <3>2. Progress(z)  BY <1>3, <3>1 DEF Progress, Inside, Beyond
    <3>3. Lone(z)'  BY <1>3, <3>1 DEF Lone
    <3>4. Progress(z)'
      <4>1. z.at # "seed"  BY <1>3, <3>1
      <4> QED BY <1>8, <3>2, <4>1, ProgressStays
    <3> QED BY <2>1, <3>1, <3>3, <3>4 DEF Progress, Lone, Have
  <2>2. CASE t # s
    <3>1. PICK z \in Server :
            /\ server'[t] = z /\ z.at = server[t].at /\ z.n = server[t].n
            /\ z.todo = server[t].todo
            /\ z.alone => server[t].alone /\ z.at \in {"serving", "failed"}
      BY <1>4, <2>2
    <3>2. Progress(server[t])  BY DEF CatInv
    <3>3. Progress(z)  BY <3>1, <3>2 DEF Progress
    <3>4. Progress(z)'
      <4>1. z.at = "seed" => deleted' = {}  BY <1>2, <3>3 DEF Progress
      <4> QED BY <1>8, <3>3, <4>1, ProgressStays
    <3>5. Lone(z)'  BY <3>1 DEF Lone
    <3> QED BY <3>1, <3>4, <3>5 DEF Progress, Lone, Have
  <2> QED BY <2>1, <2>2
<1>10. Apart'
  <2> SUFFICES ASSUME NEW q \in Servers, server'[q].alone, server'[q].at \in Opens,
                      NEW t \in Servers \ {q}
               PROVE  server'[t].at \in {"down", "failed"}
    BY DEF Apart
  <2>1. q = s  BY <1>4 DEF Opens, Inside
  <2>2. k  BY <1>3, <2>1
  <2>3. ~S!Up(t)  BY <1>1, <2>1, <2>2 DEF S!Company
  <2> QED BY <1>4, <2>1, <2>3 DEF S!Up
<1>11. AsksOk'
  <2>1. ASSUME NEW r \in Asks, ask[r] # S!Idle  PROVE server'[ask[r].s].at = "serving"
    <3>1. ask[r] \in Asked /\ server[ask[r].s].at = "serving"  BY <2>1 DEF CatInv, AsksOk
    <3>2. ask[r].s \in Servers  BY <2>1, <3>1 DEF Asked
    <3>3. ask[r].s # s  BY <1>2, <3>1
    <3> QED BY <1>4, <3>1, <3>2, <3>3
  <2> QED BY <1>2, <2>1 DEF CatInv, AsksOk
<1>12. starts' \in 0..MaxStarts /\ asks' \in 0..MaxAsks  BY <1>2 DEF CatInv, CatalogBounds
<1> QED BY <1>7, <1>8, <1>9, <1>10, <1>11, <1>12 DEF CatInv

LEMMA CrashesKeep == ASSUME CatInv, NEW s \in Servers, S!Crash(s)  PROVE CatInv'
<1>1. /\ S!Up(s) /\ server' = [server EXCEPT ![s] = S!Down]
      /\ ask' = [r \in Asks |-> IF ask[r] # S!Idle /\ ask[r].s = s THEN S!Idle ELSE ask[r]]
      /\ UNCHANGED <<schema, bare, statuses, repos, roots, starts, asks, deleted>>
  BY DEF S!Crash, S!database
<1>2. DataOk' /\ Grow  BY <1>1, SameData DEF CatInv
<1>3. PICK z : z = S!Down  OBVIOUS
<1>4. z = [at |-> "down", n |-> 0, todo |-> {}, alone |-> FALSE]  BY <1>3 DEF S!Down
<1>5. z \in Server
  <2>1. "down" \in Ats /\ 0 \in 0..17 /\ {} \in SUBSET Nat  BY DEF Ats
  <2> QED BY <1>4, <2>1 DEF Server
<1>6. server'[s] = z /\ \A t \in Servers \ {s} : server'[t] = server[t]
  BY <1>1, <1>3 DEF CatInv
<1>7. server' \in [Servers -> Server]  BY <1>1, <1>3, <1>5 DEF CatInv
<1>8. ASSUME NEW t \in Servers  PROVE Progress(server[t])' /\ Lone(server[t])'
  <2>1. CASE t = s
    <3>1. Progress(z)  BY <1>4, <1>5 DEF Progress, Inside, Beyond
    <3>2. Progress(z)'
      <4>1. z.at # "seed"  BY <1>4
      <4> QED BY <1>2, <3>1, <4>1, ProgressStays
    <3>3. Lone(z)'  BY <1>4 DEF Lone
    <3> QED BY <1>6, <2>1, <3>2, <3>3 DEF Progress, Lone, Have
  <2>2. CASE t # s
    <3>1. server[t].at = "seed" => deleted' = {}  BY <1>1 DEF CatInv, Progress
    <3> QED BY <1>1, <1>2, <1>6, <2>2, <3>1, ServerStays
  <2> QED BY <2>1, <2>2
<1>9. Apart'
  <2> SUFFICES ASSUME NEW q \in Servers, server'[q].alone, server'[q].at \in Opens,
                      NEW t \in Servers \ {q}
               PROVE  server'[t].at \in {"down", "failed"}
    BY DEF Apart
  <2>1. q # s  BY <1>4, <1>6
  <2>2. server[t].at \in {"down", "failed"}  BY <1>6, <2>1 DEF CatInv, Apart
  <2> QED BY <1>4, <1>6, <2>2
<1>10. AsksOk'
  <2>0. S!Idle \in Asked /\ S!Idle.at = "idle"  BY DEF Asked, S!Idle
  <2>1. \A r \in Asks : ask'[r] \in {S!Idle, ask[r]}  BY <1>1
  <2>2. ask' \in [Asks -> Asked]
    <3>1. \A r \in Asks : ask'[r] \in Asked  BY <2>0, <2>1 DEF CatInv, AsksOk
    <3> QED BY <1>1, <3>1
  <2>3. \A r \in Asks : ask'[r].at = "root" => ask'[r].id \in DOMAIN repos'
    BY <1>1, <2>0, <2>1 DEF CatInv, AsksOk
  <2>4. ASSUME NEW r \in Asks, ask'[r] # S!Idle  PROVE server'[ask'[r].s].at = "serving"
    <3>1. ask'[r] = ask[r] /\ ask[r] # S!Idle /\ ask[r].s # s  BY <1>1, <2>4
    <3>2. ask[r] \in Asked /\ server[ask[r].s].at = "serving"  BY <3>1 DEF CatInv, AsksOk
    <3>3. ask[r].s \in Servers  BY <3>1, <3>2 DEF Asked
    <3> QED BY <1>6, <3>1, <3>2, <3>3
  <2> QED BY <2>2, <2>3, <2>4 DEF AsksOk
<1> QED BY <1>1, <1>2, <1>7, <1>8, <1>9, <1>10 DEF CatInv

\* A request under way is one of a server that serves.
LEMMA AskIs ==
  ASSUME CatInv, NEW r \in Asks, ask[r] # S!Idle
  PROVE  /\ ask[r] \in Asked /\ ask[r].s \in Servers /\ server[ask[r].s].at = "serving"
         /\ ask[r].at = "add" => ask[r].path \in Paths
         /\ ask[r].at = "root" => ask[r].id \in DOMAIN repos
<1>1. ask[r] \in Asked /\ server[ask[r].s].at = "serving"
      /\ (ask[r].at = "root" => ask[r].id \in DOMAIN repos)
  BY DEF CatInv, AsksOk
<1> QED BY <1>1 DEF Asked

\* What a request turns to.
LEMMA AsksGoOn ==
  ASSUME CatInv, NEW r \in Asks, NEW z \in Asked, ask' = [ask EXCEPT ![r] = z], server' = server, Grow,
         z # S!Idle => server[z.s].at = "serving",
         z.at = "root" => z.id \in DOMAIN repos'
  PROVE  AsksOk'
<1>1. ask'[r] = z /\ \A q \in Asks : q # r => ask'[q] = ask[q]  BY DEF CatInv, AsksOk
<1>2. ask' \in [Asks -> Asked]  BY DEF CatInv, AsksOk
<1>3. ASSUME NEW q \in Asks
      PROVE  /\ ask'[q].at = "root" => ask'[q].id \in DOMAIN repos'
             /\ ask'[q] # S!Idle => server'[ask'[q].s].at = "serving"
  <2>1. CASE q = r  BY <1>1, <2>1
  <2>2. CASE q # r  BY <1>1, <2>2 DEF CatInv, AsksOk, Grow
  <2> QED BY <2>1, <2>2
<1> QED BY <1>2, <1>3 DEF AsksOk

LEMMA IdleIs == S!Idle \in Asked /\ S!Idle.at = "idle"
BY DEF Asked, S!Idle

LEMMA AskAddKeeps ==
  ASSUME CatalogBounds, CatInv, NEW s \in Servers, NEW r \in Asks, NEW p \in Paths, S!AskAdd(r, s, p)
  PROVE  CatInv'
<1>1. /\ server[s].at = "serving" /\ asks' = asks + 1 /\ asks < MaxAsks /\ server' = server
      /\ UNCHANGED <<schema, bare, statuses, repos, roots, starts, deleted>>
      /\ ask' = [ask EXCEPT ![r] = [at |-> "add", s |-> s, path |-> p]]
  BY DEF S!AskAdd, S!database, S!Doing
<1>2. DataOk' /\ Grow  BY <1>1, SameData DEF CatInv
<1>3. PICK z : z = [at |-> "add", s |-> s, path |-> p]  OBVIOUS
<1>4. z \in Asked /\ z.at = "add" /\ z.s = s  BY <1>3 DEF Asked
<1>5. AsksOk'  BY <1>1, <1>2, <1>3, <1>4, AsksGoOn
<1>6. asks' \in 0..MaxAsks  BY <1>1 DEF CatInv, CatalogBounds
<1> QED BY <1>1, <1>2, <1>5, <1>6, ServersStay

LEMMA AddRepoKeeps == ASSUME CatInv, NEW r \in Asks, S!AddRepo(r)  PROVE CatInv'
<1>1. ask[r].at = "add" /\ UNCHANGED <<schema, bare, statuses, roots, server, starts, asks, deleted>>
  BY DEF S!AddRepo
<1>2. PICK s : s = ask[r].s  OBVIOUS
<1>3. s \in Servers /\ server[s].at = "serving" /\ ask[r].path \in Paths /\ ask[r] # S!Idle
  BY <1>1, <1>2, AskIs, IdleIs
<1>4. DataOk /\ asks \in 0..MaxAsks  BY DEF CatInv
<1>5. CASE S!Registered(ask[r].path)
  <2>1. repos' = repos /\ ask' = [ask EXCEPT ![r] = S!Idle]  BY <1>5 DEF S!AddRepo
  <2>2. DataOk' /\ Grow  BY <1>1, <1>4, <2>1, SameData
  <2>3. AsksOk'  BY <1>1, <2>1, <2>2, IdleIs, AsksGoOn
  <2> QED BY <1>1, <1>3, <1>4, <2>2, <2>3, ServersStay
<1>6. CASE ~S!Registered(ask[r].path)
  <2>1. PICK p \in Paths : p = ask[r].path  BY <1>3
  <2>2. repos' = Append(repos, p) /\ p \notin S!Range(repos)
    BY <1>6, <2>1 DEF S!AddRepo, S!Registered
  <2>3. repos \in Seq(Paths) /\ Once(repos)  BY <1>4 DEF DataOk
  <2>4. /\ repos' \in Seq(Paths) /\ Once(repos') /\ Len(repos) \in Nat /\ Len(repos') = Len(repos) + 1
        /\ DOMAIN repos = 1..Len(repos) /\ DOMAIN repos' = 1..(Len(repos) + 1)
    BY <2>2, <2>3, AppendOnce
  <2>5. DOMAIN repos \subseteq DOMAIN repos' /\ Len(repos) + 1 \in DOMAIN repos'  BY <2>4
  <2>6. DataOk' /\ Grow
    <3>1. DataOk'  BY <1>1, <1>4, <2>4, <2>5 DEF DataOk
    <3>2. Len(repos') \in Nat /\ Len(repos) <= Len(repos')  BY <2>4
    <3> QED BY <1>1, <2>4, <2>5, <3>1, <3>2 DEF Grow
  <2>7. PICK z : z = [at |-> "root", s |-> s, id |-> Len(repos) + 1]  OBVIOUS
  <2>8. ask' = [ask EXCEPT ![r] = z]  BY <1>2, <1>6, <2>7 DEF S!AddRepo
  <2>9. z \in Asked /\ z.s = s /\ z.id = Len(repos) + 1  BY <1>3, <2>4, <2>7 DEF Asked
  <2>10. AsksOk'  BY <1>1, <1>3, <2>5, <2>6, <2>8, <2>9, AsksGoOn
  <2> QED BY <1>1, <1>3, <1>4, <2>6, <2>10, ServersStay
<1> QED BY <1>5, <1>6

LEMMA AddRootKeeps == ASSUME CatInv, NEW r \in Asks, S!AddRoot(r)  PROVE CatInv'
<1>1. /\ ask[r].at = "root" /\ S!EnsureRoot(ask[r].id) /\ ask' = [ask EXCEPT ![r] = S!Idle]
      /\ UNCHANGED <<schema, bare, statuses, repos, server, starts, asks, deleted>>
  BY DEF S!AddRoot
<1>2. PICK s : s = ask[r].s  OBVIOUS
<1>3. s \in Servers /\ server[s].at = "serving" /\ ask[r].id \in DOMAIN repos
  BY <1>1, <1>2, AskIs, IdleIs
<1>4. DataOk /\ asks \in 0..MaxAsks  BY DEF CatInv
<1>5. PICK i \in DOMAIN repos : i = ask[r].id  BY <1>3
<1>6. roots \subseteq roots' /\ roots' \subseteq DOMAIN repos  BY <1>1, <1>4, <1>5, EnsureRootIs
<1>7. DataOk' /\ Grow
  <2>1. Len(repos) \in Nat  BY <1>4, LenProperties DEF DataOk
  <2> QED BY <1>1, <1>4, <1>6, <2>1 DEF DataOk, Grow
<1>8. AsksOk'  BY <1>1, <1>7, IdleIs, AsksGoOn
<1> QED BY <1>1, <1>3, <1>4, <1>7, <1>8, ServersStay

LEMMA AskBusyKeeps == ASSUME CatInv, NEW r \in Asks, S!AskBusy(r)  PROVE CatInv'
<1>1. /\ ask[r] # S!Idle /\ ask' = [ask EXCEPT ![r] = S!Idle] /\ server' = server
      /\ UNCHANGED <<schema, bare, statuses, repos, roots, starts, asks, deleted>>
  BY DEF S!AskBusy, S!database
<1>2. PICK s : s = ask[r].s  OBVIOUS
<1>3. s \in Servers /\ server[s].at = "serving"  BY <1>1, <1>2, AskIs
<1>4. DataOk' /\ Grow  BY <1>1, SameData DEF CatInv
<1>5. AsksOk'  BY <1>1, <1>4, IdleIs, AsksGoOn
<1>6. asks \in 0..MaxAsks  BY DEF CatInv
<1> QED BY <1>1, <1>3, <1>4, <1>5, <1>6, ServersStay

LEMMA DeleteKeeps ==
  ASSUME CatInv, NEW s \in Servers, NEW i \in DOMAIN statuses, S!DeleteStatus(s, i)  PROVE CatInv'
<1>1. /\ server[s].at = "serving" /\ Len(statuses) > 1 /\ statuses' = S!RemoveAt(statuses, i)
      /\ server' = server /\ UNCHANGED <<schema, bare, repos, roots, ask, starts, asks>>
  BY DEF S!DeleteStatus, S!Doing
<1>2. DataOk /\ asks \in 0..MaxAsks  BY DEF CatInv
<1>3. statuses \in Seq(Statuses) /\ Once(statuses)  BY <1>2 DEF DataOk
<1>4. /\ statuses' \in Seq(Statuses) /\ Once(statuses') /\ Len(statuses') = Len(statuses) - 1
      /\ S!Range(statuses)' \subseteq S!Range(statuses) \ {statuses[i]}
  BY <1>1, <1>3, RemoveOnce, RangeIs
<1>5. statuses' # <<>>
  <2>1. Len(statuses) \in Nat  BY <1>3, LenProperties
  <2>2. Len(statuses') # 0  BY <1>1, <1>4, <2>1
  <2> QED BY <2>2, EmptySeq
<1>6. deleted' \in {deleted, deleted \cup {statuses[i]}}
      /\ (deleted' = deleted \/ \A t \in Servers : server[t].at # "seed")
  BY DEF S!DeleteStatus, S!Doing
<1>7. statuses[i] \in Statuses  BY <1>3, ElementOfSeq, LenProperties
<1>8. DataOk'
  <2>1. deleted' \subseteq Statuses /\ S!Range(statuses)' \cap deleted' = {}
    BY <1>2, <1>4, <1>6, <1>7 DEF DataOk
  <2> QED BY <1>1, <1>2, <1>4, <1>5, <2>1 DEF DataOk
<1>9. Grow
  <2>1. Len(repos) \in Nat  BY <1>2, LenProperties DEF DataOk
  <2> QED BY <1>1, <1>5, <2>1 DEF Grow
<1>10. AsksOk'  BY <1>1 DEF CatInv, AsksOk
<1> QED BY <1>1, <1>2, <1>6, <1>8, <1>9, <1>10, ServersStay

LEMMA CatalogStarts == ASSUME CatalogBounds, S!Init  PROVE CatInv
<1>1. /\ schema \subseteq S!Schema /\ bare \subseteq Rows /\ roots = {} /\ deleted = {}
      /\ statuses \in {S!Defaults, <<>>} /\ repos \in {S!SetToSeq(Paths), <<>>}
      /\ server = [s \in Servers |-> S!Down] /\ ask = [r \in Asks |-> S!Idle] /\ starts = 0 /\ asks = 0
  BY DEF S!Init
<1>2. DataOk
  <2>1. statuses \in Seq(Statuses) /\ Once(statuses)  BY <1>1, DefaultsAre, EmptyOnce, EmptySeq
  <2>2. repos \in Seq(Paths) /\ Once(repos)  BY <1>1, SetToSeqIs, EmptyOnce, EmptySeq DEF CatalogBounds
  <2> QED BY <1>1, <2>1, <2>2 DEF DataOk
<1>3. PICK z : z = S!Down  OBVIOUS
<1>4. z = [at |-> "down", n |-> 0, todo |-> {}, alone |-> FALSE]  BY <1>3 DEF S!Down
<1>5. z \in Server
  <2>1. "down" \in Ats /\ 0 \in 0..17 /\ {} \in SUBSET Nat  BY DEF Ats
  <2> QED BY <1>4, <2>1 DEF Server
<1>6. Progress(z) /\ Lone(z)  BY <1>4, <1>5 DEF Progress, Lone, Inside, Beyond
<1>7. \A s \in Servers : server[s] = z  BY <1>1, <1>3
<1>8. server \in [Servers -> Server]  BY <1>1, <1>3, <1>5
<1>9. Apart  BY <1>4, <1>7 DEF Apart
<1>10. AsksOk  BY <1>1, IdleIs DEF AsksOk
<1>11. starts \in 0..MaxStarts /\ asks \in 0..MaxAsks  BY <1>1 DEF CatalogBounds
<1> QED BY <1>2, <1>6, <1>7, <1>8, <1>9, <1>10, <1>11 DEF CatInv

LEMMA CatalogKeeps == ASSUME CatalogBounds, CatInv, S!Next \/ UNCHANGED svars  PROVE CatInv'
<1>1. ASSUME NEW s \in Servers, S!Start(s)  PROVE CatInv'  BY <1>1, StartKeeps
<1>2. ASSUME NEW s \in Servers, S!Create(s)  PROVE CatInv'  BY <1>2, CreateKeeps
<1>3. ASSUME NEW s \in Servers, S!Check(s)  PROVE CatInv'  BY <1>3, CheckKeeps
<1>4. ASSUME NEW s \in Servers, S!Alter(s)  PROVE CatInv'  BY <1>4, AlterKeeps
<1>5. ASSUME NEW s \in Servers, S!Stamp(s)  PROVE CatInv'  BY <1>5, StampKeeps
<1>6. ASSUME NEW s \in Servers, S!Count(s)  PROVE CatInv'  BY <1>6, CountKeeps
<1>7. ASSUME NEW s \in Servers, S!Seed(s)  PROVE CatInv'  BY <1>7, SeedKeeps
<1>8. ASSUME NEW s \in Servers, S!List(s)  PROVE CatInv'  BY <1>8, ListKeeps
<1>9. ASSUME NEW s \in Servers, S!Serve(s)  PROVE CatInv'  BY <1>9, ServeKeeps
<1>10. ASSUME NEW s \in Servers, S!Busy(s)  PROVE CatInv'  BY <1>10, BusyKeeps
<1>11. ASSUME NEW s \in Servers, S!Crash(s)  PROVE CatInv'  BY <1>11, CrashesKeep
<1>12. ASSUME NEW s \in Servers, NEW i \in DOMAIN repos, S!Backfill(s, i)  PROVE CatInv'
  BY <1>12, BackfillKeeps
<1>13. ASSUME NEW s \in Servers, NEW r \in Asks, NEW p \in Paths, S!AskAdd(r, s, p)  PROVE CatInv'
  BY <1>13, AskAddKeeps
<1>14. ASSUME NEW s \in Servers, NEW i \in DOMAIN statuses, S!DeleteStatus(s, i)  PROVE CatInv'
  BY <1>14, DeleteKeeps
<1>15. ASSUME NEW r \in Asks, S!AddRepo(r)  PROVE CatInv'  BY <1>15, AddRepoKeeps
<1>16. ASSUME NEW r \in Asks, S!AddRoot(r)  PROVE CatInv'  BY <1>16, AddRootKeeps
<1>17. ASSUME NEW r \in Asks, S!AskBusy(r)  PROVE CatInv'  BY <1>17, AskBusyKeeps
<1>18. ASSUME UNCHANGED svars  PROVE CatInv'
  <2>1. UNCHANGED <<schema, bare, statuses, repos, roots, server, ask, starts, asks, deleted>>
    BY <1>18 DEF svars
  <2>2. DataOk' /\ Grow  BY <2>1, SameData DEF CatInv
  <2>3. ASSUME NEW s \in Servers  PROVE Progress(server[s])' /\ Lone(server[s])'
    <3>1. server[s].at = "seed" => deleted' = {}  BY <2>1 DEF CatInv, Progress
    <3> QED BY <2>1, <2>2, <3>1, ServerStays
  <2> QED BY <2>1, <2>2, <2>3 DEF CatInv, Apart, AsksOk
<1> QED BY <1>1, <1>2, <1>3, <1>4, <1>5, <1>6, <1>7, <1>8, <1>9, <1>10, <1>11, <1>12, <1>13,
           <1>14, <1>15, <1>16, <1>17, <1>18 DEF S!Next

LEMMA TypedShow == ASSUME CatInv  PROVE S!TypeOK
<1>1. DataOk  BY DEF CatInv
<1>2. \A s \in Servers :
        server[s] \in [at : {"down", "failed", "open", "alter", "seed", "list", "backfill", "serving"},
                       n : 0..Len(S!Opening), todo : SUBSET (1..(Len(repos) + Len(S!Defaults))),
                       alone : BOOLEAN]
  <2> TAKE s \in Servers
  <2>1. server[s] \in Server /\ server[s].todo \subseteq 1..(Len(repos) + 3)  BY DEF CatInv, Progress
  <2>2. Len(S!Opening) = 17 /\ Len(S!Defaults) = 3  BY OpeningIs, DefaultsAre
  <2> QED BY <2>1, <2>2 DEF Server, Ats
<1>3. server \in [Servers -> [at : {"down", "failed", "open", "alter", "seed", "list", "backfill", "serving"},
                              n : 0..Len(S!Opening), todo : SUBSET (1..(Len(repos) + Len(S!Defaults))),
                              alone : BOOLEAN]]
  BY <1>2 DEF CatInv
<1>4. ASSUME NEW r \in Asks
      PROVE  ask[r] \in {S!Idle} \cup [at : {"add"}, s : Servers, path : Paths]
                                 \cup [at : {"root"}, s : Servers, id : DOMAIN repos]
  <2>1. ask[r] \in Asked /\ (ask[r].at = "root" => ask[r].id \in DOMAIN repos)
    BY DEF CatInv, AsksOk
  <2> QED BY <2>1 DEF Asked
<1> QED BY <1>1, <1>3, <1>4 DEF S!TypeOK, DataOk, Statuses, CatInv

LEMMA ServingHas == ASSUME CatInv, NEW s \in Servers, server[s].at = "serving"
                    PROVE schema = S!Schema /\ bare = {} /\ statuses # <<>>
<1>1. \A m \in 1..17 : Have(m)  BY DEF CatInv, Progress, Beyond
<1>2. ASSUME NEW q \in S!Schema PROVE q \in schema
  <2>1. PICK m \in 1..17 : S!Opening[m] = q  BY OpeningIs
  <2>2. S!Opening[m] \in S!Schema => S!Opening[m] \in schema  BY <1>1 DEF Have
  <2> QED BY <2>1, <2>2
<1>3. Have(7) /\ Have(14)  BY <1>1
<1>4. bare = {} /\ statuses # <<>>  BY <1>3, OpeningIs DEF Have
<1> QED BY <1>2, <1>4 DEF CatInv, DataOk

LEMMA CatalogShows == ASSUME CatInv  PROVE StartsRecover
<1>1. S!Upgraded  BY ServingHas DEF S!Upgraded
<1>2. S!StatusesKept  BY ServingHas DEF S!StatusesKept, CatInv, DataOk
<1>3. S!LoneStartSucceeds  BY DEF S!LoneStartSucceeds, CatInv, Progress
<1>4. S!RepoOnce  BY OnceIs DEF S!RepoOnce, CatInv, DataOk
<1> QED BY <1>1, <1>2, <1>3, <1>4, TypedShow DEF StartsRecover, S!StartsRecover

\* The step of S!RootsThere.
Rooted ==
  \A s \in Servers : server[s].at = "backfill" /\ server'[s].at = "serving" /\ server[s].alone
    => \A i \in DOMAIN repos : i \in roots \/ repos[i] \in Held

\* Only Serve takes a server from its backfill to serving.
LEMMA OnlyServe ==
  ASSUME CatInv, S!Next, NEW s \in Servers, server[s].at = "backfill", server'[s].at = "serving"
  PROVE  S!Serve(s)
<1>1. server \in [Servers -> Server]  BY DEF CatInv
<1>2. ASSUME NEW t \in Servers, NEW z, server' = [server EXCEPT ![t] = z], z.at # "serving"  PROVE FALSE
  BY <1>1, <1>2
<1>3. ASSUME NEW t \in Servers, S!Start(t)  PROVE FALSE
  <2>1. CASE t = s  BY <1>3, <2>1 DEF S!Start, S!Down, S!Up
  <2>2. CASE t # s
    <3>1. server'[s] = [server[s] EXCEPT !.alone = server[s].alone /\ server[s].at \in {"serving", "failed"}]
      BY <1>3, <2>2 DEF S!Start
    <3> QED BY <1>1, <3>1 DEF Server
  <2> QED BY <2>1, <2>2
<1>4. ASSUME NEW t \in Servers, server[t].at \in Inside, S!Advance(t)  PROVE FALSE
  <2>1. PICK v \in Server : v = server[t]  BY <1>1
  <2>2. v.n \in 1..17  BY <1>4, <2>1, StepAt
  <2>3. PICK z : z = S!Past(v, 1)  OBVIOUS
  <2>4. z.at \in {"open", "list"}  BY <2>2, <2>3, PastIs
  <2>5. server' = [server EXCEPT ![t] = z]  BY <1>4, <2>1, <2>3 DEF S!Advance
  <2> QED BY <1>2, <2>4, <2>5
<1>5. ASSUME NEW t \in Servers, NEW q, q # "serving", S!To(t, q)  PROVE FALSE
  BY <1>1, <1>5 DEF S!To, Server
<1>6. ASSUME NEW t \in Servers, S!Create(t) \/ S!Check(t) \/ S!Alter(t) \/ S!Stamp(t)  PROVE FALSE
  BY <1>4, <1>5, <1>6 DEF S!Create, S!Check, S!Alter, S!Stamp, S!Doing, Inside
<1>7. ASSUME NEW t \in Servers, S!Count(t)  PROVE FALSE
  <2>1. CASE statuses # <<>>  BY <1>4, <1>7, <2>1 DEF S!Count, S!Doing, Inside
  <2>2. CASE statuses = <<>>
    <3>1. server' = [server EXCEPT ![t].at = "seed", ![t].todo = DOMAIN S!Defaults]
      BY <1>7, <2>2 DEF S!Count
    <3> QED BY <1>1, <3>1 DEF Server
  <2> QED BY <2>1, <2>2
<1>8. ASSUME NEW t \in Servers, S!Seed(t)  PROVE FALSE
  <2>0. server[t].at = "seed" /\ server[t].at \in Inside  BY <1>8 DEF S!Seed, S!Doing, Inside
  <2>1. t # s => server'[s] = server[s]  BY <1>1, <1>8 DEF S!Seed, S!To
  <2> QED BY <2>0, <2>1
<1>9. ASSUME NEW t \in Servers, S!List(t)  PROVE FALSE
  BY <1>1, <1>9 DEF S!List, Server
<1>10. ASSUME NEW t \in Servers, S!Serve(t), t # s  PROVE FALSE
  BY <1>1, <1>10 DEF S!Serve, S!To
<1>11. ASSUME NEW t \in Servers, S!Busy(t)  PROVE FALSE
  <2>1. CASE S!To(t, "failed")  BY <1>5, <2>1
  <2>2. CASE server' = [server EXCEPT ![t].at = "backfill"]  BY <1>1, <2>2 DEF Server
  <2>3. CASE \E i \in server[t].todo : server' = [server EXCEPT ![t].todo = server[t].todo \ {i}]
    BY <1>1, <2>3 DEF Server
  <2> QED BY <1>11, <2>1, <2>2, <2>3 DEF S!Busy
<1>12. ASSUME NEW t \in Servers, S!Crash(t)  PROVE FALSE
  BY <1>1, <1>12 DEF S!Crash, S!Down
<1>13. ASSUME NEW t \in Servers, NEW i \in DOMAIN repos, S!Backfill(t, i)  PROVE FALSE
  BY <1>1, <1>13 DEF S!Backfill, Server
<1>14. ASSUME server' = server  PROVE FALSE  BY <1>14
<1> QED BY <1>3, <1>6, <1>7, <1>8, <1>9, <1>10, <1>11, <1>12, <1>13, <1>14
        DEF S!Next, S!AskAdd, S!DeleteStatus, S!AddRepo, S!AddRoot, S!AskBusy

LEMMA CatalogRoots == ASSUME CatInv, S!Next \/ UNCHANGED svars  PROVE Rooted
<1> SUFFICES ASSUME NEW s \in Servers, server[s].at = "backfill", server'[s].at = "serving",
                    server[s].alone, NEW i \in DOMAIN repos
             PROVE  i \in roots \/ repos[i] \in Held
  BY DEF Rooted
<1>1. S!Next  BY DEF svars
<1>2. S!Serve(s)  BY <1>1, OnlyServe
<1>3. server[s].todo = {}  BY <1>2 DEF S!Serve
<1> QED BY <1>3 DEF CatInv, Lone

LEMMA CatalogInvariance == ASSUME CatalogBounds  PROVE ServicesSpec => []CatInv
<1>1. ServicesInit => CatInv  BY CatalogStarts DEF ServicesInit
<1>2. CatInv /\ [ServicesNext]_allvars => CatInv'
  <2>1. [ServicesNext]_allvars => S!Next \/ UNCHANGED svars  BY DEF ServicesNext, allvars
  <2> QED BY <2>1, CatalogKeeps
<1> QED BY <1>1, <1>2, PTL DEF ServicesSpec

\* Whatever point of its start the server was cut off at, and whoever started
\* beside it, the next start finds a database it can open: one that serves has the
\* whole schema, times on its archived rows and a status for a task; a lone start
\* does not fail, a deleted status stays deleted, a path is registered once
\* (store.Open and its migrations).
THEOREM StartsAlwaysRecover == ASSUME CatalogBounds  PROVE ServicesSpec => []StartsRecover
<1>1. CatInv => StartsRecover  BY CatalogShows
<1> QED BY <1>1, CatalogInvariance, PTL

\* A server that started alone serves when every repository has its root worktree,
\* or cannot have one (main's backfill).
THEOREM RootsAlwaysThere == ASSUME CatalogBounds  PROVE ServicesSpec => RootsThere
<1>1. CatInv /\ [ServicesNext]_allvars => [Rooted]_(S!vars)
  <2>1. [ServicesNext]_allvars => S!Next \/ UNCHANGED svars  BY DEF ServicesNext, allvars
  <2> QED BY <2>1, CatalogRoots
<1>2. ServicesSpec => [][Rooted]_(S!vars)  BY <1>1, CatalogInvariance, PTL DEF ServicesSpec
<1> QED BY <1>2 DEF RootsThere, S!RootsThere, Rooted

-----------------------------------------------------------------------------
(***************************************************************************)
(* The post-checkout hook (GitHook).                                       *)
(***************************************************************************)
GitBounds == Lines \cap G!Ours = {}

Texts == Seq(Lines \cup G!Ours)
Markers == {"begin", "report", "end"}
Top == "#!/bin/sh"

\* A script begins with the shell's line, wherever it came from.
Led(t) == t \in Texts /\ (t # <<>> => t[1] = Top)
Plain(t) == t \in Texts /\ \A i \in 1..Len(t) : t[i] \notin Markers
BlockAt(t, z) ==
  /\ z \in 2..Len(t) - 2
  /\ t[z] = "begin" /\ t[z + 1] = "report" /\ t[z + 2] = "end"
  /\ \A i \in 1..Len(t) : t[i] \in Markers => i \in {z, z + 1, z + 2}
Whole(t) == Plain(t) \/ \E z : BlockAt(t, z)

\* What the block is made of.
LEMMA BlockIs ==
  /\ G!Ours = {Top} \cup Markers /\ G!Block \in Texts /\ Len(G!Block) = 3
  /\ G!Block[1] = "begin" /\ G!Block[2] = "report" /\ G!Block[3] = "end"
<1>1. G!Range(G!Block) = Markers  BY DEF G!Range, G!Block, Markers
<1>2. G!Ours = {Top} \cup Markers  BY <1>1 DEF G!Ours, Top
<1>3. G!Block \in Seq(Markers)  BY DEF G!Block, Markers
<1>4. G!Block \in Texts  BY <1>2, <1>3, SeqMonotonic DEF Texts
<1> QED  BY <1>2, <1>4 DEF G!Block

\* A set of numbers has a smallest one.
LEMMA Least ==
  ASSUME NEW A \in SUBSET Nat, A # {}
  PROVE  \E m \in A : \A n \in A : m <= n
<1> DEFINE Below == {p \in Nat \X Nat : p[1] < p[2]}
<1>1. IsWellFoundedOn(Below, Nat)  BY NatLessThanWellFounded DEF OpToRel
<1>2. PICK m \in A : \A n \in A : <<n, m>> \notin Below  BY <1>1, WFMin
<1>3. ASSUME NEW n \in A, n < m PROVE FALSE
  <2>1. <<n, m>> \in Nat \X Nat /\ <<n, m>>[1] = n /\ <<n, m>>[2] = m  OBVIOUS
  <2>2. <<n, m>>[1] < <<n, m>>[2]  BY <1>3, <2>1
  <2>3. <<n, m>> \in Below  BY <2>1, <2>2, Zenon
  <2> QED  BY <1>2, <2>3
<1> QED  BY <1>3

\* Induction from 0 to n.
LEMMA Upwards ==
  ASSUME NEW n \in Nat, NEW A, 0 \in A, \A m \in 0..n : m \in A /\ m < n => m + 1 \in A
  PROVE  \A m \in 0..n : m \in A
<1> DEFINE Out == {m \in 0..n : m \notin A}
<1> SUFFICES ASSUME Out # {} PROVE FALSE  OBVIOUS
<1>1. Out \in SUBSET Nat  OBVIOUS
<1>2. PICK m \in Out : \A o \in Out : m <= o  BY <1>1, Least
<1>3. m # 0 /\ m - 1 \in 0..n /\ m - 1 < n /\ (m - 1) + 1 = m  BY <1>2
<1>4. m - 1 \in A  BY <1>2, <1>3
<1> QED  BY <1>2, <1>3, <1>4

-----------------------------------------------------------------------------
(* Where the block is found.                                               *)

\* The least of a set.
LEMMA MinIs ==
  ASSUME NEW A \in SUBSET Nat, NEW m \in A, \A n \in A : m <= n
  PROVE  G!Min(A) = m
<1>1. \A n \in A : (\A o \in A : n =< o) => n = m  OBVIOUS
<1> QED  BY <1>1 DEF G!Min

LEMMA FirstIs ==
  ASSUME NEW t \in Texts, NEW l, NEW n \in 1..Len(t), t[n] = l,
         \A i \in 1..Len(t) : t[i] = l => n <= i
  PROVE  G!First(t, l) = n
<1>1. DOMAIN t = 1..Len(t) /\ Len(t) \in Nat  BY LenProperties DEF Texts
<1>2. PICK at : at = {i \in DOMAIN t : t[i] = l}  OBVIOUS
<1>3. at \in SUBSET Nat /\ n \in at /\ \A i \in at : n <= i  BY <1>1, <1>2
<1>4. G!Min(at) = n  BY <1>3, MinIs
<1> QED  BY <1>2, <1>3, <1>4 DEF G!First

\* Where First finds a line, and where not.
LEMMA FirstNone ==
  ASSUME NEW t \in Texts, NEW l, \A i \in 1..Len(t) : t[i] # l
  PROVE  G!First(t, l) = 0
<1>1. DOMAIN t = 1..Len(t)  BY LenProperties DEF Texts
<1> QED  BY <1>1 DEF G!First

LEMMA FirstSome ==
  ASSUME NEW t \in Texts, NEW l
  PROVE  /\ G!First(t, l) \in 0..Len(t)
         /\ G!First(t, l) # 0 => t[G!First(t, l)] = l
<1>1. DOMAIN t = 1..Len(t) /\ Len(t) \in Nat  BY LenProperties DEF Texts
<1>2. PICK at : at = {i \in DOMAIN t : t[i] = l}  OBVIOUS
<1>3. CASE at = {}  BY <1>1, <1>2, <1>3 DEF G!First
<1>4. CASE at # {}
  <2>1. at \in SUBSET Nat  BY <1>1, <1>2
  <2>2. PICK n \in at : \A i \in at : n <= i  BY <1>4, <2>1, Least
  <2>3. G!First(t, l) = n  BY <1>1, <1>2, <2>2, FirstIs
  <2> QED  BY <1>1, <1>2, <2>2, <2>3
<1> QED  BY <1>3, <1>4

\* A script without markers, and one with a block.
LEMMA PlainParts ==
  ASSUME NEW t, Plain(t)
  PROVE  ~G!Found(t) /\ G!Before(t) = t /\ G!After(t) = <<>>
<1>1. G!First(t, "begin") = 0  BY FirstNone DEF Plain, Markers
<1> QED  BY <1>1 DEF G!Found, G!Before, G!After

LEMMA BlockParts ==
  ASSUME NEW t \in Texts, NEW z, BlockAt(t, z)
  PROVE  /\ G!Found(t) /\ G!First(t, "begin") = z /\ G!First(t, "end") = z + 2
         /\ G!Before(t) = SubSeq(t, 1, z - 1) /\ G!After(t) = SubSeq(t, z + 3, Len(t))
<1>1. PICK n \in Nat : n = Len(t)  BY LenProperties DEF Texts
<1>2. /\ z \in 2..n - 2 /\ t[z] = "begin" /\ t[z + 1] = "report" /\ t[z + 2] = "end"
      /\ \A i \in 1..n : t[i] \in {"begin", "report", "end"} => i \in {z, z + 1, z + 2}
  BY <1>1 DEF BlockAt, Markers
<1>3. z \in 1..n /\ z + 2 \in 1..n /\ z # 0 /\ z + 2 > z /\ (z + 2) + 1 = z + 3  BY <1>2
<1>4. \A i \in 1..n : t[i] = "begin" => z <= i  BY <1>2
<1>5. \A i \in 1..n : t[i] = "end" => z + 2 <= i  BY <1>2
<1>6. G!First(t, "begin") = z  BY <1>1, <1>2, <1>3, <1>4, FirstIs
<1>7. G!First(t, "end") = z + 2  BY <1>1, <1>2, <1>3, <1>5, FirstIs
<1> QED  BY <1>3, <1>6, <1>7 DEF G!Found, G!Before, G!After

\* What comes before a block that is found, or seems to be, is still a script.
LEMMA PartsLed ==
  ASSUME NEW t, Led(t)
  PROVE  /\ Led(G!Before(t)) /\ G!After(t) \in Texts
         /\ t # <<>> => G!Before(t) # <<>>
<1>1. t \in Texts /\ (t # <<>> => t[1] = Top)  BY DEF Led
<1>2. PICK n \in Nat : n = Len(t) /\ \A i \in 1..n : t[i] \in Lines \cup G!Ours
  BY <1>1, LenProperties, ElementOfSeq DEF Texts
<1>3. CASE ~G!Found(t)
  <2>1. <<>> \in Texts  BY DEF Texts
  <2> QED  BY <1>1, <1>3, <2>1 DEF G!Before, G!After, Led
<1>4. CASE G!Found(t)
  <2>1. PICK z \in 1..n : z = G!First(t, "begin") /\ t[z] = "begin"
    BY <1>1, <1>2, <1>4, FirstSome DEF G!Found
  <2>2. PICK o \in 0..n : o = G!First(t, "end")  BY <1>1, <1>2, FirstSome
  <2>3. z >= 2
    <3>1. t # <<>>  BY <1>1, <1>2, <2>1, EmptySeq DEF Texts
    <3> QED  BY <1>1, <2>1, <3>1 DEF Top
  <2>4. G!Before(t) = SubSeq(t, 1, z - 1) /\ G!After(t) = SubSeq(t, o + 1, n)
    BY <1>2, <1>4, <2>1, <2>2 DEF G!Before, G!After
  <2>5. SubSeq(t, o + 1, n) \in Texts  BY <1>2, SubSeqProperties DEF Texts
  <2>6. PICK c \in Int : c = z - 1  BY <2>1
  <2>7. \A i \in 1..c : t[i] \in Lines \cup G!Ours  BY <1>2, <2>1, <2>6
  <2>8. /\ SubSeq(t, 1, c) \in Texts /\ Len(SubSeq(t, 1, c)) = IF 1 <= c THEN c - 1 + 1 ELSE 0
        /\ \A i \in 1..c - 1 + 1 : SubSeq(t, 1, c)[i] = t[1 + i - 1]
    BY <2>7, SubSeqProperties DEF Texts
  <2>9. Len(SubSeq(t, 1, c)) >= 1 /\ SubSeq(t, 1, c)[1] = t[1] /\ t # <<>>
    <3>1. c >= 1 /\ 1 \in 1..c - 1 + 1 /\ 1 + 1 - 1 = 1  BY <2>3, <2>6
    <3> QED  BY <1>1, <1>2, <2>1, <2>8, <3>1, EmptySeq DEF Texts
  <2>10. SubSeq(t, 1, c) # <<>>  BY <2>8, <2>9, EmptySeq DEF Texts
  <2> QED  BY <1>1, <2>4, <2>5, <2>6, <2>8, <2>9, <2>10 DEF Led
<1> QED  BY <1>3, <1>4

-----------------------------------------------------------------------------
(* Texts taken apart and put together.                                     *)

Joined(pre, post) == (pre \o G!Block) \o post

\* r is s, of length h, and then t, of length c.
Follows(r, s, t, h, c) ==
  Len(r) = h + c /\ (\A i \in 1..h : r[i] = s[i]) /\ \A i \in 1..c : r[h + i] = t[i]

\* Lines of two texts put together.
LEMMA ConcatAt ==
  ASSUME NEW s \in Texts, NEW t \in Texts, NEW h, h = Len(s), NEW c, c = Len(t), NEW r, r = s \o t
  PROVE  r \in Texts /\ h \in Nat /\ c \in Nat /\ Follows(r, s, t, h, c)
<1>1. /\ r \in Texts /\ Len(r) = h + c
      /\ \A i \in 1..h + c : r[i] = IF i <= h THEN s[i] ELSE t[i - h]
  BY ConcatProperties DEF Texts
<1>2. h \in Nat /\ c \in Nat  BY LenProperties DEF Texts
<1>3. \A i \in 1..h : i \in 1..h + c /\ i <= h  BY <1>2
<1>4. \A i \in 1..c : h + i \in 1..h + c /\ ~(h + i <= h) /\ (h + i) - h = i  BY <1>2
<1> QED  BY <1>1, <1>2, <1>3, <1>4 DEF Follows

\* t is pre, of length h, the block, and post, of length c.
Around(t, pre, post, h, c) ==
  /\ Len(t) = h + 3 + c
  /\ \A i \in 1..h : t[i] = pre[i]
  /\ t[h + 1] = "begin" /\ t[h + 2] = "report" /\ t[h + 3] = "end"
  /\ \A i \in 1..c : t[h + 3 + i] = post[i]

LEMMA JoinedAt ==
  ASSUME NEW pre \in Texts, NEW post \in Texts, NEW h, h = Len(pre), NEW c, c = Len(post),
         NEW t, t = Joined(pre, post)
  PROVE  t \in Texts /\ h \in Nat /\ c \in Nat /\ Around(t, pre, post, h, c)
<1>1. PICK v : v = pre \o G!Block  OBVIOUS
<1>2. PICK m : m = Len(G!Block)  OBVIOUS
<1>3. G!Block \in Texts /\ m = 3  BY <1>2, BlockIs
<1>4. v \in Texts /\ h \in Nat /\ Follows(v, pre, G!Block, h, m)
  BY <1>1, <1>2, <1>3, ConcatAt
<1>5. PICK d : d = Len(v)  OBVIOUS
<1>6. t = v \o post  BY <1>1 DEF Joined
<1>7. t \in Texts /\ c \in Nat /\ Follows(t, v, post, d, c)
  BY <1>4, <1>5, <1>6, ConcatAt
<1>8. /\ d = h + 3 /\ \A i \in 1..h : v[i] = pre[i]
      /\ v[h + 1] = "begin" /\ v[h + 2] = "report" /\ v[h + 3] = "end"
  BY <1>3, <1>4, <1>5, BlockIs DEF Follows
<1>9. h + 1 \in 1..d /\ h + 2 \in 1..d /\ h + 3 \in 1..d /\ \A i \in 1..h : i \in 1..d
  BY <1>4, <1>8
<1>10. Len(t) = d + c /\ (\A i \in 1..d : t[i] = v[i]) /\ \A i \in 1..c : t[d + i] = post[i]
  BY <1>7 DEF Follows
<1> QED  BY <1>4, <1>7, <1>8, <1>9, <1>10 DEF Around

\* What is put around a block is found again.
LEMMA JoinedBlock ==
  ASSUME NEW pre, NEW post, Plain(pre), Led(pre), pre # <<>>, Plain(post),
         NEW t, t = Joined(pre, post)
  PROVE  /\ Led(t) /\ \E z : BlockAt(t, z)
         /\ G!Found(t) /\ G!Before(t) = pre /\ G!After(t) = post
<1>1. pre \in Texts /\ post \in Texts  BY DEF Plain
<1>2. PICK h \in Nat : h = Len(pre)  BY <1>1, LenProperties DEF Texts
<1>3. PICK c \in Nat : c = Len(post)  BY <1>1, LenProperties DEF Texts
<1>4. t \in Texts /\ Around(t, pre, post, h, c)  BY <1>1, <1>2, <1>3, JoinedAt
<1>5. /\ t \in Texts /\ Len(t) = h + 3 + c
      /\ \A i \in 1..h : t[i] = pre[i]
      /\ t[h + 1] = "begin" /\ t[h + 2] = "report" /\ t[h + 3] = "end"
      /\ \A i \in 1..c : t[h + 3 + i] = post[i]
  BY <1>4 DEF Around
<1>6. h >= 1 /\ pre[1] = Top  BY <1>1, <1>2, EmptySeq DEF Led, Texts
<1>7. PICK z \in Nat : z = h + 1  OBVIOUS
<1>8. ASSUME NEW i \in 1..Len(t), i \notin {z, z + 1, z + 2} PROVE t[i] \notin Markers
  <2>1. CASE i \in 1..h  BY <1>2, <1>5, <2>1 DEF Plain
  <2>2. CASE i \notin 1..h
    <3>1. i \in 1..h + 3 + c  BY <1>5
    <3>2. i - (h + 3) \in 1..c /\ h + 3 + (i - (h + 3)) = i  BY <1>7, <1>8, <2>2, <3>1
    <3>3. t[i] = post[i - (h + 3)]  BY <1>5, <3>2
    <3> QED  BY <1>3, <3>2, <3>3 DEF Plain
  <2> QED  BY <2>1, <2>2
<1>9. BlockAt(t, z)
  <2>1. z \in 2..Len(t) - 2 /\ z + 1 = h + 2 /\ z + 2 = h + 3  BY <1>5, <1>6, <1>7
  <2> QED  BY <1>5, <1>7, <1>8, <2>1 DEF BlockAt
<1>10. Led(t)  BY <1>5, <1>6 DEF Led
<1>11. /\ G!Found(t) /\ G!Before(t) = SubSeq(t, 1, z - 1) /\ G!After(t) = SubSeq(t, z + 3, Len(t))
  BY <1>5, <1>9, BlockParts
<1>12. SubSeq(t, 1, z - 1) = pre
  <2>1. \A i \in 1..h : t[i] \in Lines \cup G!Ours
    BY <1>1, <1>2, <1>5, ElementOfSeq DEF Texts
  <2>2. /\ SubSeq(t, 1, h) \in Texts /\ Len(SubSeq(t, 1, h)) = IF 1 <= h THEN h - 1 + 1 ELSE 0
        /\ \A i \in 1..h - 1 + 1 : SubSeq(t, 1, h)[i] = t[1 + i - 1]
    BY <2>1, SubSeqProperties DEF Texts
  <2>3. Len(SubSeq(t, 1, h)) = h /\ \A i \in 1..h : SubSeq(t, 1, h)[i] = pre[i]
    BY <1>5, <1>6, <2>2
  <2>4. SubSeq(t, 1, h) = pre  BY <1>1, <1>2, <2>2, <2>3, SeqEqual DEF Texts
  <2> QED  BY <1>7, <2>4
<1>13. SubSeq(t, z + 3, Len(t)) = post
  <2>1. PICK m \in Int, n \in Int : m = z + 3 /\ n = Len(t)  BY <1>5
  <2>2. ASSUME NEW i \in m..n PROVE t[i] \in Lines \cup G!Ours
    <3>1. i \in 1..Len(t)  BY <1>7, <2>1
    <3> QED  BY <1>5, <3>1, ElementOfSeq DEF Texts
  <2>3. /\ SubSeq(t, m, n) \in Texts /\ Len(SubSeq(t, m, n)) = IF m <= n THEN n - m + 1 ELSE 0
        /\ \A i \in 1..n - m + 1 : SubSeq(t, m, n)[i] = t[m + i - 1]
    BY <2>2, SubSeqProperties DEF Texts
  <2>4. m = h + 4 /\ n = h + 3 + c  BY <1>5, <1>7, <2>1
  <2>5. n - m + 1 = c /\ (m <= n \/ c = 0) /\ \A i \in 1..c : m + i - 1 = h + 3 + i
    BY <2>4
  <2>6. Len(SubSeq(t, m, n)) = c /\ \A i \in 1..c : SubSeq(t, m, n)[i] = post[i]
    <3>1. Len(SubSeq(t, m, n)) = c  BY <2>3, <2>5
    <3>2. ASSUME NEW i \in 1..c PROVE SubSeq(t, m, n)[i] = post[i]
      <4>1. i \in 1..n - m + 1 /\ m + i - 1 = h + 3 + i  BY <2>5
      <4>2. SubSeq(t, m, n)[i] = t[m + i - 1]  BY <2>3, <4>1
      <4>3. t[h + 3 + i] = post[i]  BY <1>5
      <4> QED  BY <4>1, <4>2, <4>3
    <3> QED  BY <3>1, <3>2
  <2>7. SubSeq(t, m, n) = post  BY <1>1, <1>3, <2>3, <2>6, SeqEqual DEF Texts
  <2> QED  BY <2>1, <2>7
<1> QED  BY <1>9, <1>10, <1>11, <1>12, <1>13

\* A script with a block is what is before it, the block, and what is after it.
LEMMA BlockJoined ==
  ASSUME NEW t, Led(t), NEW z, BlockAt(t, z)
  PROVE  /\ Plain(G!Before(t)) /\ G!Before(t) # <<>> /\ Led(G!Before(t)) /\ Plain(G!After(t))
         /\ t = Joined(G!Before(t), G!After(t))
<1>1. t \in Texts  BY DEF Led
<1>2. PICK n \in Nat : n = Len(t) /\ \A i \in 1..n : t[i] \in Lines \cup G!Ours
  BY <1>1, LenProperties, ElementOfSeq DEF Texts
<1>3. /\ z \in 2..n - 2 /\ t[z] = "begin" /\ t[z + 1] = "report" /\ t[z + 2] = "end"
      /\ \A i \in 1..n : t[i] \in Markers => i \in {z, z + 1, z + 2}
  BY <1>2 DEF BlockAt
<1>4. PICK pre, post : pre = G!Before(t) /\ post = G!After(t)  OBVIOUS
<1>5. PICK h \in Nat, m \in Nat : h = z - 1 /\ m = z + 3  BY <1>3
<1>6. pre = SubSeq(t, 1, h) /\ post = SubSeq(t, m, n)
  BY <1>1, <1>2, <1>4, <1>5, BlockParts
<1>7. /\ pre \in Texts /\ Len(pre) = h /\ \A i \in 1..h : pre[i] = t[i]
  <2>1. \A i \in 1..h : t[i] \in Lines \cup G!Ours  BY <1>2, <1>3, <1>5
  <2>2. /\ SubSeq(t, 1, h) \in Texts /\ Len(SubSeq(t, 1, h)) = IF 1 <= h THEN h - 1 + 1 ELSE 0
        /\ \A i \in 1..h - 1 + 1 : SubSeq(t, 1, h)[i] = t[1 + i - 1]
    BY <2>1, SubSeqProperties DEF Texts
  <2>3. 1 <= h /\ h - 1 + 1 = h /\ \A i \in 1..h : 1 + i - 1 = i  BY <1>3, <1>5
  <2> QED  BY <1>6, <2>2, <2>3
<1>8. PICK c \in Nat : c = n - m + 1  BY <1>3, <1>5
<1>9. /\ post \in Texts /\ Len(post) = c /\ \A i \in 1..c : post[i] = t[h + 3 + i]
  <2>1. \A i \in m..n : t[i] \in Lines \cup G!Ours  BY <1>2, <1>3, <1>5
  <2>2. /\ SubSeq(t, m, n) \in Texts /\ Len(SubSeq(t, m, n)) = IF m <= n THEN n - m + 1 ELSE 0
        /\ \A i \in 1..n - m + 1 : SubSeq(t, m, n)[i] = t[m + i - 1]
    BY <1>2, <2>1, SubSeqProperties DEF Texts
  <2>3. (m <= n \/ c = 0) /\ \A i \in 1..c : m + i - 1 = h + 3 + i  BY <1>3, <1>5, <1>8
  <2> QED  BY <1>6, <1>8, <2>2, <2>3
<1>10. Plain(pre)
  <2>1. \A i \in 1..h : i \in 1..n /\ i \notin {z, z + 1, z + 2}  BY <1>3, <1>5
  <2> QED  BY <1>3, <1>7, <2>1 DEF Plain
<1>11. Plain(post)
  <2>1. \A i \in 1..c : h + 3 + i \in 1..n /\ h + 3 + i \notin {z, z + 1, z + 2}
    BY <1>3, <1>5, <1>8
  <2> QED  BY <1>3, <1>9, <2>1 DEF Plain
<1>12. pre # <<>> /\ Led(pre)
  <2>1. t # <<>>  BY <1>1, <1>2, <1>3, EmptySeq DEF Texts
  <2> QED  BY <1>4, <2>1, PartsLed
<1>13. PICK j : j = Joined(pre, post)  OBVIOUS
<1>14. j \in Texts /\ Around(j, pre, post, h, c)  BY <1>7, <1>9, <1>13, JoinedAt
<1>15. /\ Len(j) = h + 3 + c
       /\ \A i \in 1..h : j[i] = pre[i]
       /\ j[h + 1] = "begin" /\ j[h + 2] = "report" /\ j[h + 3] = "end"
       /\ \A i \in 1..c : j[h + 3 + i] = post[i]
  BY <1>14 DEF Around
<1>16. Len(j) = n
  <2>1. Len(j) = h + 3 + c  BY <1>15
  <2> QED  BY <1>3, <1>5, <1>8, <2>1
<1>17. ASSUME NEW i \in 1..n PROVE j[i] = t[i]
  <2>1. CASE i \in 1..h  BY <1>7, <1>15, <2>1
  <2>2. CASE i \in {h + 1, h + 2, h + 3}
    <3>1. h + 1 = z /\ h + 2 = z + 1 /\ h + 3 = z + 2  BY <1>3, <1>5
    <3> QED  BY <1>3, <1>15, <2>2, <3>1
  <2>3. CASE i \notin 1..h /\ i \notin {h + 1, h + 2, h + 3}
    <3>1. i - (h + 3) \in 1..c /\ h + 3 + (i - (h + 3)) = i  BY <1>3, <1>5, <1>8, <2>3
    <3> QED  BY <1>9, <1>15, <3>1
  <2> QED  BY <2>1, <2>2, <2>3
<1>18. j = t
  <2>1. j \in Texts /\ t \in Texts /\ Len(j) = Len(t) /\ \A i \in 1..Len(j) : j[i] = t[i]
    BY <1>1, <1>2, <1>14, <1>16, <1>17
  <2> QED  BY <2>1, SeqEqual DEF Texts
<1> QED  BY <1>4, <1>10, <1>11, <1>12, <1>13, <1>18

-----------------------------------------------------------------------------
(* The user's lines of a text.                                             *)

\* The lines of a text, by its first n.
LEMMA UsersStep ==
  ASSUME NEW Q, NEW t \in Seq(Q)
  PROVE  /\ G!UsersUpto(t)[0] = <<>>
         /\ \A n \in 1..Len(t) : G!UsersUpto(t)[n] =
              IF t[n] \in Lines THEN Append(G!UsersUpto(t)[n - 1], t[n]) ELSE G!UsersUpto(t)[n - 1]
<1> DEFINE Def(V, m) == V = [n \in 0..m |->
             IF n = 0 THEN <<>>
             ELSE IF t[n] \in Lines THEN Append(V[n - 1], t[n]) ELSE V[n - 1]]
           Known == {m \in 0..Len(t) : \E V : Def(V, m)}
<1>1. Len(t) \in Nat  BY LenProperties
<1>2. 0 \in Known
  <2> DEFINE V == [n \in 0..0 |-> <<>>]
  <2>1. V = [n \in 0..0 |->
             IF n = 0 THEN <<>>
             ELSE IF t[n] \in Lines THEN Append(V[n - 1], t[n]) ELSE V[n - 1]]
    OBVIOUS
  <2> HIDE DEF V
  <2> QED  BY <1>1, <2>1
<1>3. ASSUME NEW m \in 0..Len(t), m \in Known, m < Len(t) PROVE m + 1 \in Known
  <2>1. PICK V : Def(V, m)  BY <1>3
  <2> DEFINE last == IF t[m + 1] \in Lines THEN Append(V[m], t[m + 1]) ELSE V[m]
             H == [n \in 0..m + 1 |-> IF n = m + 1 THEN last ELSE V[n]]
  <2>2. ASSUME NEW n \in 0..m + 1
        PROVE  H[n] = IF n = 0 THEN <<>>
                      ELSE IF t[n] \in Lines THEN Append(H[n - 1], t[n]) ELSE H[n - 1]
    <3>1. CASE n = m + 1
      <4>1. H[m + 1] = last /\ H[(m + 1) - 1] = V[m] /\ (m + 1) - 1 = m /\ m + 1 # 0
        BY <1>3
      <4> HIDE DEF H
      <4> QED  BY <3>1, <4>1
    <3>2. CASE n \in 0..m
      <4>1. H[n] = V[n] /\ (n # 0 => H[n - 1] = V[n - 1])  BY <1>3, <3>2
      <4>2. V[n] = IF n = 0 THEN <<>>
                   ELSE IF t[n] \in Lines THEN Append(V[n - 1], t[n]) ELSE V[n - 1]
        BY <2>1, <3>2
      <4> HIDE DEF H
      <4> QED  BY <4>1, <4>2
    <3> QED  BY <1>3, <3>1, <3>2
  <2>3. Def(H, m + 1)
    <3>1. H = [n \in 0..m + 1 |-> H[n]]  OBVIOUS
    <3> HIDE DEF H
    <3> QED  BY <2>2, <3>1
  <2>4. m + 1 \in 0..Len(t)  BY <1>1, <1>3
  <2> HIDE DEF H, Def
  <2> QED  BY <2>3, <2>4
<1>4. Len(t) \in Known
  <2> HIDE DEF Known
  <2>1. \A m \in 0..Len(t) : m \in Known  BY <1>1, <1>2, <1>3, Upwards
  <2> QED  BY <1>1, <2>1
<1>5. Def(G!UsersUpto(t), Len(t))
  <2>1. \E V : Def(V, Len(t))  BY <1>4
  <2> QED  BY <2>1 DEF G!UsersUpto
<1> HIDE DEF Known
<1> DEFINE K == G!UsersUpto(t)
<1>6. K = [n \in 0..Len(t) |->
             IF n = 0 THEN <<>> ELSE IF t[n] \in Lines THEN Append(K[n - 1], t[n]) ELSE K[n - 1]]
  BY <1>5
<1> HIDE DEF K
<1>7. ASSUME NEW n \in 0..Len(t)
      PROVE  K[n] = IF n = 0 THEN <<>>
                    ELSE IF t[n] \in Lines THEN Append(K[n - 1], t[n]) ELSE K[n - 1]
  BY <1>6, Zenon
<1>8. 0 \in 0..Len(t) /\ \A n \in 1..Len(t) : n \in 0..Len(t) /\ n # 0  BY <1>1
<1>9. K[0] = <<>>  BY <1>7, <1>8
<1>10. \A n \in 1..Len(t) : K[n] = IF t[n] \in Lines THEN Append(K[n - 1], t[n]) ELSE K[n - 1]
  BY <1>7, <1>8
<1> QED  BY <1>9, <1>10 DEF K

LEMMA UsersType ==
  ASSUME NEW t \in Texts
  PROVE  /\ \A n \in 0..Len(t) : G!UsersUpto(t)[n] \in Seq(Lines)
         /\ G!Users(t) \in Seq(Lines)
<1> DEFINE K == G!UsersUpto(t)
           Good == {n \in 0..Len(t) : K[n] \in Seq(Lines)}
<1>1. Len(t) \in Nat  BY LenProperties DEF Texts
<1>2. K[0] = <<>> /\ \A n \in 1..Len(t) : K[n] = IF t[n] \in Lines THEN Append(K[n - 1], t[n]) ELSE K[n - 1]
  BY UsersStep DEF Texts
<1> HIDE DEF K
<1>3. 0 \in Good
  <2>1. 0 \in 0..Len(t)  BY <1>1
  <2>2. K[0] \in Seq(Lines)  BY <1>2
  <2> QED  BY <2>1, <2>2
<1>4. ASSUME NEW m \in 0..Len(t), m \in Good, m < Len(t) PROVE m + 1 \in Good
  <2>1. m + 1 \in 1..Len(t) /\ (m + 1) - 1 = m /\ m + 1 \in 0..Len(t)  BY <1>1, <1>4
  <2>2. PICK o \in Seq(Lines) : o = K[m]  BY <1>4
  <2>3. K[m + 1] = IF t[m + 1] \in Lines THEN Append(o, t[m + 1]) ELSE o
    BY <1>2, <2>1, <2>2
  <2>4. K[m + 1] \in Seq(Lines)  BY <2>2, <2>3, AppendProperties
  <2> QED  BY <2>1, <2>4
<1>5. \A n \in 0..Len(t) : n \in Good
  <2> HIDE DEF Good
  <2> QED  BY <1>1, <1>3, <1>4, Upwards
<1> QED  BY <1>1, <1>5 DEF G!Users, K

\* Nothing is the user's that is not of Lines.
LEMMA UsersNone ==
  ASSUME NEW t \in Texts, \A i \in 1..Len(t) : t[i] \notin Lines
  PROVE  G!Users(t) = <<>>
<1> DEFINE K == G!UsersUpto(t)
           Good == {n \in 0..Len(t) : K[n] = <<>>}
<1>1. Len(t) \in Nat  BY LenProperties DEF Texts
<1>2. K[0] = <<>> /\ \A n \in 1..Len(t) : K[n] = IF t[n] \in Lines THEN Append(K[n - 1], t[n]) ELSE K[n - 1]
  BY UsersStep DEF Texts
<1> HIDE DEF K
<1>3. 0 \in Good  BY <1>1, <1>2
<1>4. ASSUME NEW m \in 0..Len(t), m \in Good, m < Len(t) PROVE m + 1 \in Good
  <2>1. m + 1 \in 1..Len(t) /\ (m + 1) - 1 = m /\ m + 1 \in 0..Len(t)  BY <1>1, <1>4
  <2>2. K[m + 1] = K[m]  BY <1>2, <2>1
  <2> QED  BY <1>4, <2>1, <2>2
<1>5. \A n \in 0..Len(t) : n \in Good
  <2> HIDE DEF Good
  <2> QED  BY <1>1, <1>3, <1>4, Upwards
<1> QED  BY <1>1, <1>5 DEF G!Users, K

\* Nothing else is lost where texts are joined.
LEMMA UsersConcat ==
  ASSUME NEW s \in Texts, NEW t \in Texts, NEW r, r = s \o t
  PROVE  r \in Texts /\ G!Users(r) = G!Users(s) \o G!Users(t)
<1>1. PICK h, c : h = Len(s) /\ c = Len(t)  OBVIOUS
<1>2. r \in Texts /\ h \in Nat /\ c \in Nat /\ Follows(r, s, t, h, c)  BY <1>1, ConcatAt
<1>3. Len(r) = h + c /\ (\A i \in 1..h : r[i] = s[i]) /\ \A i \in 1..c : r[h + i] = t[i]
  BY <1>2 DEF Follows
<1> DEFINE R == G!UsersUpto(r)
           A == G!UsersUpto(s)
           B == G!UsersUpto(t)
<1>4. R[0] = <<>> /\ \A n \in 1..h + c : R[n] = IF r[n] \in Lines THEN Append(R[n - 1], r[n]) ELSE R[n - 1]
  BY <1>2, <1>3, UsersStep DEF Texts
<1>5. A[0] = <<>> /\ \A n \in 1..h : A[n] = IF s[n] \in Lines THEN Append(A[n - 1], s[n]) ELSE A[n - 1]
  BY <1>1, UsersStep DEF Texts
<1>6. B[0] = <<>> /\ \A n \in 1..c : B[n] = IF t[n] \in Lines THEN Append(B[n - 1], t[n]) ELSE B[n - 1]
  BY <1>1, UsersStep DEF Texts
<1>7. A[h] \in Seq(Lines) /\ \A n \in 0..c : B[n] \in Seq(Lines)
  BY <1>1, <1>2, UsersType
<1>8. G!Users(r) = R[h + c] /\ G!Users(s) = A[h] /\ G!Users(t) = B[c]
  BY <1>1, <1>3 DEF G!Users
<1> HIDE DEF R, A, B
<1> DEFINE First == {n \in 0..h : R[n] = A[n]}
<1>9. 0 \in First  BY <1>2, <1>4, <1>5
<1>10. ASSUME NEW m \in 0..h, m \in First, m < h PROVE m + 1 \in First
  <2>1. m + 1 \in 1..h /\ m + 1 \in 1..h + c /\ (m + 1) - 1 = m /\ m + 1 \in 0..h
    BY <1>2, <1>10
  <2>2. r[m + 1] = s[m + 1] /\ R[m] = A[m]  BY <1>3, <1>10, <2>1
  <2>3. R[m + 1] = A[m + 1]  BY <1>4, <1>5, <2>1, <2>2
  <2> QED  BY <2>1, <2>3
<1>11. R[h] = A[h]
  <2>1. \A n \in 0..h : n \in First
    <3> HIDE DEF First
    <3> QED  BY <1>2, <1>9, <1>10, Upwards
  <2> QED  BY <1>2, <2>1
<1> DEFINE Then == {n \in 0..c : R[h + n] = A[h] \o B[n]}
<1>12. 0 \in Then
  <2>1. A[h] \o <<>> = A[h]  BY <1>7, ConcatEmptySeq
  <2>2. h + 0 = h /\ 0 \in 0..c  BY <1>2
  <2>3. R[h + 0] = A[h] \o B[0]  BY <1>6, <1>11, <2>1, <2>2
  <2> QED  BY <2>2, <2>3
<1>13. ASSUME NEW m \in 0..c, m \in Then, m < c PROVE m + 1 \in Then
  <2>1. /\ m + 1 \in 1..c /\ h + (m + 1) \in 1..h + c /\ (m + 1) - 1 = m /\ m + 1 \in 0..c
        /\ (h + (m + 1)) - 1 = h + m
    BY <1>2, <1>13
  <2>2. PICK p, q, v : p = A[h] /\ q = B[m] /\ v = t[m + 1]  OBVIOUS
  <2>3. p \in Seq(Lines) /\ q \in Seq(Lines) /\ R[h + m] = p \o q  BY <1>7, <1>13, <2>2
  <2>4. R[h + (m + 1)] = IF v \in Lines THEN Append(p \o q, v) ELSE p \o q
    BY <1>3, <1>4, <2>1, <2>2, <2>3
  <2>5. B[m + 1] = IF v \in Lines THEN Append(q, v) ELSE q  BY <1>6, <2>1, <2>2
  <2>6. v \in Lines => Append(p \o q, v) = p \o Append(q, v)
    <3>1. SUFFICES ASSUME v \in Lines PROVE Append(p \o q, v) = p \o Append(q, v)
      OBVIOUS
    <3>2. <<v>> \in Seq(Lines) /\ p \o q \in Seq(Lines)  BY <2>3, <3>1
    <3>3. Append(p \o q, v) = (p \o q) \o <<v>> /\ Append(q, v) = q \o <<v>>
      BY <2>3, <3>1, <3>2, AppendIsConcat
    <3>4. (p \o q) \o <<v>> = p \o (q \o <<v>>)  BY <2>3, <3>2, ConcatAssociative
    <3> QED  BY <3>3, <3>4
  <2>7. R[h + (m + 1)] = p \o B[m + 1]  BY <2>4, <2>5, <2>6
  <2> QED  BY <2>1, <2>2, <2>7
<1>14. R[h + c] = A[h] \o B[c]
  <2>1. \A n \in 0..c : n \in Then
    <3> HIDE DEF Then
    <3> QED  BY <1>2, <1>12, <1>13, Upwards
  <2>2. c \in 0..c  BY <1>2
  <2>3. c \in Then  BY <2>1, <2>2
  <2> QED  BY <2>3
<1> QED  BY <1>2, <1>8, <1>14

\* The server's lines are not the user's.
LEMMA OursApart == ASSUME GitBounds PROVE Markers \cap Lines = {} /\ Top \notin Lines /\ Top \notin Markers
  BY BlockIs DEF GitBounds, Markers, Top

LEMMA BitsAre ==
  ASSUME GitBounds
  PROVE  /\ Plain(<<>>) /\ Led(<<>>) /\ G!Users(<<>>) = <<>>
         /\ Plain(<<Top>>) /\ Led(<<Top>>) /\ <<Top>> # <<>> /\ G!Users(<<Top>>) = <<>>
         /\ G!Users(G!Block) = <<>>
<1>1. <<>> \in Texts /\ Len(<<>>) = 0 /\ \A i \in 1..Len(<<>>) : FALSE  BY DEF Texts
<1>2. Plain(<<>>) /\ Led(<<>>) /\ G!Users(<<>>) = <<>>
  <2>1. Plain(<<>>) /\ Led(<<>>)  BY <1>1 DEF Plain, Led
  <2>2. \A i \in 1..Len(<<>>) : <<>>[i] \notin Lines  BY <1>1, Zenon
  <2> QED  BY <1>1, <2>1, <2>2, UsersNone
<1>3. <<Top>> \in Texts /\ Len(<<Top>>) = 1 /\ <<Top>>[1] = Top /\ <<Top>> # <<>>
  BY BlockIs DEF Texts
<1>4. \A i \in 1..Len(<<Top>>) : <<Top>>[i] = Top  BY <1>3
<1>5. Plain(<<Top>>) /\ Led(<<Top>>) /\ G!Users(<<Top>>) = <<>>
  <2>1. PICK s : s = <<Top>>  OBVIOUS
  <2>2. s \in Texts /\ s[1] = Top /\ \A i \in 1..Len(s) : s[i] = Top
    BY <1>3, <1>4, <2>1
  <2>3. \A i \in 1..Len(s) : s[i] \notin Lines /\ s[i] \notin Markers
    BY <2>2, OursApart
  <2>4. G!Users(s) = <<>>  BY <2>2, <2>3, UsersNone
  <2> QED  BY <2>1, <2>2, <2>3, <2>4 DEF Plain, Led
<1>6. G!Users(G!Block) = <<>>
  <2>1. \A i \in 1..Len(G!Block) : G!Block[i] \in Markers  BY BlockIs DEF Markers
  <2> QED  BY <2>1, BlockIs, OursApart, UsersNone
<1> QED  BY <1>2, <1>3, <1>5, <1>6

LEMMA ConcatLed ==
  ASSUME NEW s, NEW t \in Texts, Led(s), s # <<>>, NEW r, r = s \o t
  PROVE  Led(r) /\ r # <<>>
<1>1. s \in Texts /\ s[1] = Top  BY DEF Led
<1>2. PICK h, c : h = Len(s) /\ c = Len(t)  OBVIOUS
<1>3. r \in Texts /\ h \in Nat /\ c \in Nat /\ Follows(r, s, t, h, c)
  BY <1>1, <1>2, ConcatAt
<1>4. h # 0  BY <1>1, <1>2, EmptySeq DEF Texts
<1>5. 1 \in 1..h /\ h + c # 0  BY <1>3, <1>4
<1>6. r[1] = Top /\ Len(r) # 0  BY <1>1, <1>3, <1>5 DEF Follows
<1> QED  BY <1>3, <1>6, EmptySeq DEF Led, Texts

LEMMA ConcatPlain ==
  ASSUME NEW s, NEW t, Plain(s), Plain(t), NEW r, r = s \o t
  PROVE  Plain(r)
<1>1. s \in Texts /\ t \in Texts  BY DEF Plain
<1>2. PICK h, c : h = Len(s) /\ c = Len(t)  OBVIOUS
<1>3. r \in Texts /\ h \in Nat /\ c \in Nat /\ Follows(r, s, t, h, c)
  BY <1>1, <1>2, ConcatAt
<1>4. Len(r) = h + c /\ (\A i \in 1..h : r[i] = s[i]) /\ \A i \in 1..c : r[h + i] = t[i]
  BY <1>3 DEF Follows
<1>5. ASSUME NEW i \in 1..Len(r) PROVE r[i] \notin Markers
  <2>1. CASE i \in 1..h  BY <1>2, <1>4, <2>1 DEF Plain
  <2>2. CASE i \notin 1..h
    <3>1. i \in 1..h + c  BY <1>4
    <3>2. PICK o \in 1..c : o = i - h /\ i = h + o  BY <1>3, <2>2, <3>1
    <3> QED  BY <1>2, <1>4, <3>2 DEF Plain
  <2> QED  BY <2>1, <2>2
<1> QED  BY <1>3, <1>5 DEF Plain

\* The user's lines around a block are those of the text without it.
LEMMA JoinedUsers ==
  ASSUME GitBounds, NEW pre \in Texts, NEW post \in Texts
  PROVE  /\ G!Users(Joined(pre, post)) = G!Users(pre) \o G!Users(post)
         /\ G!Users(pre \o post) = G!Users(pre) \o G!Users(post)
<1>1. PICK v : v = pre \o G!Block  OBVIOUS
<1>2. v \in Texts /\ G!Users(v) = G!Users(pre) \o <<>>
  <2>1. G!Block \in Texts /\ G!Users(G!Block) = <<>>  BY BlockIs, BitsAre
  <2>2. v \in Texts /\ G!Users(v) = G!Users(pre) \o G!Users(G!Block)
    BY <1>1, <2>1, UsersConcat
  <2> QED  BY <2>1, <2>2
<1>3. G!Users(pre) \in Seq(Lines)  BY UsersType
<1>4. G!Users(v) = G!Users(pre)  BY <1>2, <1>3, ConcatEmptySeq
<1>5. Joined(pre, post) = v \o post  BY <1>1 DEF Joined
<1>6. G!Users(Joined(pre, post)) = G!Users(v) \o G!Users(post)
  BY <1>2, <1>5, UsersConcat
<1>7. G!Users(pre \o post) = G!Users(pre) \o G!Users(post)  BY UsersConcat
<1> QED  BY <1>4, <1>6, <1>7

\* What an install writes.
LEMMA InstallPlain ==
  ASSUME GitBounds, NEW t, Led(t), Plain(t), NEW pre, pre = IF t = <<>> THEN <<Top>> ELSE t
  PROVE  /\ G!Install(t) = Joined(pre, <<>>)
         /\ Plain(pre) /\ Led(pre) /\ pre # <<>> /\ G!Users(pre) = G!Users(t)
<1>1. G!Before(t) = t /\ G!After(t) = <<>>  BY PlainParts
<1>2. G!Install(t) = Joined(pre, <<>>)  BY <1>1 DEF G!Install, Joined, Top
<1> QED  BY <1>2, BitsAre

LEMMA InstallBlock ==
  ASSUME NEW t, Led(t), NEW z, BlockAt(t, z)
  PROVE  G!Install(t) = t
<1>1. G!Before(t) # <<>> /\ t = Joined(G!Before(t), G!After(t))  BY BlockJoined
<1>2. G!Install(t) = Joined(G!Before(t), G!After(t))  BY <1>1 DEF G!Install, Joined
<1> QED  BY <1>1, <1>2

LEMMA InstallLed ==
  ASSUME GitBounds, NEW t, Led(t)
  PROVE  Led(G!Install(t))
<1>1. PICK pre, post : pre = (IF G!Before(t) = <<>> THEN <<Top>> ELSE G!Before(t)) /\ post = G!After(t)
  OBVIOUS
<1>2. Led(pre) /\ pre # <<>> /\ post \in Texts  BY <1>1, PartsLed, BitsAre
<1>3. PICK v : v = pre \o G!Block  OBVIOUS
<1>4. Led(v) /\ v # <<>>  BY <1>2, <1>3, BlockIs, ConcatLed
<1>5. G!Install(t) = v \o post  BY <1>1, <1>3 DEF G!Install, Top
<1> QED  BY <1>2, <1>4, <1>5, ConcatLed

LEMMA InstallWhole ==
  ASSUME GitBounds, NEW t, Led(t), Whole(t)
  PROVE  Whole(G!Install(t)) /\ G!Users(G!Install(t)) = G!Users(t)
<1>1. CASE Plain(t)
  <2>1. PICK pre : pre = IF t = <<>> THEN <<Top>> ELSE t  OBVIOUS
  <2>2. /\ G!Install(t) = Joined(pre, <<>>)
        /\ Plain(pre) /\ Led(pre) /\ pre # <<>> /\ G!Users(pre) = G!Users(t)
    BY <1>1, <2>1, InstallPlain
  <2>3. PICK j : j = Joined(pre, <<>>)  OBVIOUS
  <2>4. \E z : BlockAt(j, z)  BY <2>2, <2>3, BitsAre, JoinedBlock
  <2>5. G!Users(j) = G!Users(pre) \o <<>>  BY <2>2, <2>3, BitsAre, JoinedUsers DEF Plain
  <2>6. G!Users(pre) \in Seq(Lines)  BY <2>2, UsersType DEF Plain
  <2>7. G!Users(j) = G!Users(pre)  BY <2>5, <2>6, ConcatEmptySeq
  <2> QED  BY <2>2, <2>3, <2>4, <2>7 DEF Whole
<1>2. CASE \E z : BlockAt(t, z)  BY <1>2, InstallBlock
<1> QED  BY <1>1, <1>2 DEF Whole

\* The text without its block.
LEMMA WithoutLed ==
  ASSUME NEW t, Led(t)
  PROVE  Led(G!Before(t) \o G!After(t))
<1>1. Led(G!Before(t)) /\ G!After(t) \in Texts /\ (t # <<>> => G!Before(t) # <<>>)
  BY PartsLed
<1>2. CASE t = <<>>
  <2>1. Plain(t)  BY <1>2 DEF Plain, Texts
  <2>2. G!Before(t) = t /\ G!After(t) = <<>>  BY <2>1, PlainParts
  <2>3. G!Before(t) \o G!After(t) = t  BY <1>2, <2>2
  <2> QED  BY <2>3
<1>3. CASE t # <<>>  BY <1>1, <1>3, ConcatLed
<1> QED  BY <1>2, <1>3

LEMMA WithoutBlock ==
  ASSUME GitBounds, NEW t, Led(t), NEW z, BlockAt(t, z)
  PROVE  /\ Plain(G!Before(t) \o G!After(t))
         /\ G!Users(G!Before(t) \o G!After(t)) = G!Users(t)
<1>1. PICK pre, post : pre = G!Before(t) /\ post = G!After(t)  OBVIOUS
<1>2. Plain(pre) /\ Plain(post) /\ t = Joined(pre, post)  BY <1>1, BlockJoined
<1>3. Plain(pre \o post)  BY <1>2, ConcatPlain
<1>4. G!Users(pre \o post) = G!Users(t)  BY <1>2, JoinedUsers DEF Plain
<1> QED  BY <1>1, <1>3, <1>4

LEMMA UninstallLed ==
  ASSUME GitBounds, NEW t, Led(t)
  PROVE  Led(G!Uninstall(t))
BY WithoutLed, BitsAre DEF G!Uninstall

LEMMA UninstallWhole ==
  ASSUME GitBounds, NEW t, Led(t), NEW z, BlockAt(t, z)
  PROVE  Whole(G!Uninstall(t)) /\ G!Users(G!Uninstall(t)) = G!Users(t)
<1>1. PICK left : left = G!Before(t) \o G!After(t)  OBVIOUS
<1>2. Plain(left) /\ G!Users(left) = G!Users(t)  BY <1>1, WithoutBlock
<1>3. G!Uninstall(t) = IF left = <<Top>> THEN <<>> ELSE left
  BY <1>1 DEF G!Uninstall, Top
<1> QED  BY <1>2, <1>3, BitsAre DEF Whole

-----------------------------------------------------------------------------
(* The user's edits.                                                       *)

\* s is d lines of t, after the first k.
Piece(s, t, k, d) == s \in Texts /\ Len(s) = d /\ \A i \in 1..d : s[i] = t[k + i]

LEMMA PieceIs ==
  ASSUME NEW t \in Texts, NEW n, n = Len(t), NEW h \in Nat, NEW c \in Nat, NEW k \in Nat, NEW d \in Nat,
         h = k + 1, c = k + d, c <= n, NEW s, s = SubSeq(t, h, c)
  PROVE  Piece(s, t, k, d)
<1>1. n \in Nat /\ \A i \in 1..n : t[i] \in Lines \cup G!Ours
  BY LenProperties, ElementOfSeq DEF Texts
<1>2. h \in Int /\ c \in Int /\ \A i \in h..c : i \in 1..n  BY <1>1
<1>3. \A i \in h..c : t[i] \in Lines \cup G!Ours  BY <1>1, <1>2
<1>4. /\ s \in Texts /\ Len(s) = IF h <= c THEN c - h + 1 ELSE 0
      /\ \A i \in 1..c - h + 1 : s[i] = t[h + i - 1]
  BY <1>2, <1>3, SubSeqProperties DEF Texts
<1>5. c - h + 1 = d /\ (h <= c \/ d = 0) /\ \A i \in 1..d : h + i - 1 = k + i  BY <1>2
<1>6. Len(s) = d /\ \A i \in 1..d : s[i] = t[k + i]  BY <1>4, <1>5
<1> QED  BY <1>4, <1>6 DEF Piece

LEMMA HeadIs ==
  ASSUME NEW t \in Texts, NEW h \in Nat, h <= Len(t), NEW s, s = SubSeq(t, 1, h)
  PROVE  s \in Texts /\ Len(s) = h /\ \A i \in 1..h : s[i] = t[i]
<1>1. PICK n, o \in Nat, k \in Nat : n = Len(t) /\ o = 1 /\ k = 0  OBVIOUS
<1>2. o = k + 1 /\ h = k + h /\ h <= n  BY <1>1
<1>3. s = SubSeq(t, o, h)  BY <1>1
<1>4. Piece(s, t, k, h)  BY <1>1, <1>2, <1>3, PieceIs
<1>5. \A i \in 1..h : k + i = i  BY <1>1
<1> QED  BY <1>4, <1>5 DEF Piece

\* r is t with l at p; r is t without what is at p.
Inserted(t, p, l, r) ==
  /\ r \in Texts /\ Len(r) = Len(t) + 1 /\ r[p] = l
  /\ \A i \in 1..p - 1 : r[i] = t[i]
  /\ \A i \in p..Len(t) : r[i + 1] = t[i]
Removed(t, p, r) ==
  /\ r \in Texts /\ Len(r) = Len(t) - 1
  /\ \A i \in 1..p - 1 : r[i] = t[i]
  /\ \A i \in p..Len(t) - 1 : r[i] = t[i + 1]

LEMMA InsertedAt ==
  ASSUME NEW t \in Texts, NEW p \in 1..Len(t) + 1, NEW l \in Lines, NEW r, r = G!InsertAt(t, p, l)
  PROVE  Inserted(t, p, l, r)
<1>1. PICK n \in Nat : n = Len(t)  BY LenProperties DEF Texts
<1>2. PICK h \in Nat, c \in Nat : h = p - 1 /\ c = n + 1 - p
  <2>1. p - 1 \in Nat /\ n + 1 - p \in Nat  BY <1>1
  <2> QED  BY <2>1, Zenon
<1>3. PICK s, v, m : s = SubSeq(t, 1, h) /\ v = SubSeq(t, p, n) /\ m = <<l>>  OBVIOUS
<1>4. s \in Texts /\ Len(s) = h /\ \A i \in 1..h : s[i] = t[i]
  <2>1. h <= Len(t)  BY <1>1, <1>2
  <2> QED  BY <1>3, <2>1, HeadIs
<1>5. v \in Texts /\ Len(v) = c /\ \A i \in 1..c : v[i] = t[h + i]
  <2>1. p \in Nat /\ p = h + 1 /\ n = h + c /\ n <= n  BY <1>1, <1>2
  <2>2. v = SubSeq(t, p, n)  BY <1>3
  <2>3. Piece(v, t, h, c)  BY <1>1, <2>1, <2>2, PieceIs
  <2> QED  BY <2>3 DEF Piece
<1>6. m \in Texts /\ Len(m) = 1 /\ m[1] = l  BY <1>3 DEF Texts
<1>7. PICK j, o, e : j = s \o m /\ o = Len(j) /\ e = Len(m)  OBVIOUS
<1>8. e = 1 /\ j \in Texts /\ Follows(j, s, m, h, e)  BY <1>4, <1>6, <1>7, ConcatAt
<1>9. o = h + 1 /\ (\A i \in 1..h : j[i] = s[i]) /\ j[h + 1] = l
  BY <1>6, <1>7, <1>8 DEF Follows
<1>10. r = j \o v  BY <1>1, <1>2, <1>3, <1>7 DEF G!InsertAt
<1>11. r \in Texts /\ Follows(r, j, v, o, c)  BY <1>5, <1>7, <1>8, <1>10, ConcatAt
<1>12. Len(r) = o + c /\ (\A i \in 1..o : r[i] = j[i]) /\ \A i \in 1..c : r[o + i] = v[i]
  BY <1>11 DEF Follows
<1>13. /\ o + c = n + 1 /\ p \in 1..o /\ p = h + 1 /\ p - 1 = h
       /\ \A i \in 1..h : i \in 1..o
  BY <1>2, <1>9
<1>14. r[p] = l /\ \A i \in 1..h : r[i] = t[i]  BY <1>4, <1>9, <1>12, <1>13
<1>15. ASSUME NEW i \in p..n PROVE r[i + 1] = t[i]
  <2>1. PICK k \in 1..c : i = h + k /\ i + 1 = o + k
    <3>1. i - h \in 1..c /\ i = h + (i - h) /\ i + 1 = o + (i - h)  BY <1>2, <1>9
    <3> QED  BY <3>1
  <2> QED  BY <1>5, <1>12, <2>1
<1> QED  BY <1>1, <1>11, <1>12, <1>13, <1>14, <1>15 DEF Inserted

LEMMA RemovedAt ==
  ASSUME NEW t \in Texts, NEW p \in 1..Len(t), NEW r, r = G!RemoveAt(t, p)
  PROVE  Removed(t, p, r)
<1>1. PICK n \in Nat : n = Len(t)  BY LenProperties DEF Texts
<1>2. PICK h \in Nat, c \in Nat : h = p - 1 /\ c = n - p
  <2>1. p - 1 \in Nat /\ n - p \in Nat  BY <1>1
  <2> QED  BY <2>1, Zenon
<1>3. PICK s, v : s = SubSeq(t, 1, h) /\ v = SubSeq(t, p + 1, n)  OBVIOUS
<1>4. s \in Texts /\ Len(s) = h /\ \A i \in 1..h : s[i] = t[i]
  <2>1. h <= Len(t)  BY <1>1, <1>2
  <2> QED  BY <1>3, <2>1, HeadIs
<1>5. v \in Texts /\ Len(v) = c /\ \A i \in 1..c : v[i] = t[p + i]
  <2>1. PICK q : q = p + 1  OBVIOUS
  <2>2. q \in Nat /\ p \in Nat /\ n = p + c /\ n <= n  BY <1>1, <1>2, <2>1
  <2>3. v = SubSeq(t, q, n)  BY <1>3, <2>1
  <2>4. Piece(v, t, p, c)  BY <1>1, <2>1, <2>2, <2>3, PieceIs
  <2> QED  BY <2>4 DEF Piece
<1>6. r = s \o v  BY <1>1, <1>2, <1>3 DEF G!RemoveAt
<1>7. r \in Texts /\ Follows(r, s, v, h, c)  BY <1>4, <1>5, <1>6, ConcatAt
<1>8. Len(r) = h + c /\ (\A i \in 1..h : r[i] = s[i]) /\ \A i \in 1..c : r[h + i] = v[i]
  BY <1>7 DEF Follows
<1>9. h + c = n - 1 /\ p - 1 = h  BY <1>2
<1>10. ASSUME NEW i \in p..n - 1 PROVE r[i] = t[i + 1]
  <2>1. PICK k \in 1..c : i = h + k /\ i + 1 = p + k
    <3>1. i - h \in 1..c /\ i = h + (i - h) /\ i + 1 = p + (i - h)  BY <1>2
    <3> QED  BY <3>1
  <2> QED  BY <1>5, <1>8, <2>1
<1> QED  BY <1>1, <1>4, <1>7, <1>8, <1>9, <1>10 DEF Removed

\* A line of the user's below the first, and not within the block.
LEMMA AddedLed ==
  ASSUME NEW t, Led(t), NEW p \in 2..Len(t) + 1, NEW l, NEW r, Inserted(t, p, l, r)
  PROVE  Led(r)
<1>1. t \in Texts  BY DEF Led
<1>2. PICK n \in Nat : n = Len(t)  BY <1>1, LenProperties DEF Texts
<1>3. n # 0 /\ 1 \in 1..p - 1  BY <1>2
<1>4. t # <<>>  BY <1>2, <1>3
<1>5. t[1] = Top /\ r[1] = t[1] /\ r \in Texts  BY <1>3, <1>4 DEF Led, Inserted
<1> QED  BY <1>5 DEF Led

LEMMA AddedWhole ==
  ASSUME GitBounds, NEW t, Led(t), Whole(t), NEW p \in 2..Len(t) + 1, NEW l \in Lines,
         \A z : BlockAt(t, z) => p \notin {z + 1, z + 2},
         NEW r, Inserted(t, p, l, r)
  PROVE  Whole(r)
<1>1. t \in Texts  BY DEF Led
<1>2. PICK n \in Nat : n = Len(t)  BY <1>1, LenProperties DEF Texts
<1>3. /\ r \in Texts /\ Len(r) = n + 1 /\ r[p] = l
      /\ \A i \in 1..p - 1 : r[i] = t[i]
      /\ \A i \in p..n : r[i + 1] = t[i]
  BY <1>2 DEF Inserted
<1>4. l \notin Markers  BY OursApart
<1>5. p \in 2..n + 1  BY <1>2
\* Every line of r but the new one is one of t.
<1>6. ASSUME NEW i \in 1..n + 1, i # p
      PROVE  \/ i <= p - 1 /\ i \in 1..n /\ r[i] = t[i]
             \/ i > p /\ i - 1 \in 1..n /\ r[i] = t[i - 1]
  <2>1. CASE i <= p - 1
    <3>1. i \in 1..p - 1 /\ i \in 1..n  BY <1>5, <2>1
    <3> QED  BY <1>3, <2>1, <3>1
  <2>2. CASE ~(i <= p - 1)
    <3>1. i - 1 \in p..n /\ (i - 1) + 1 = i /\ i > p /\ i - 1 \in 1..n
      BY <1>5, <1>6, <2>2
    <3>2. r[(i - 1) + 1] = t[i - 1]  BY <1>3, <3>1
    <3> QED  BY <3>1, <3>2
  <2> QED  BY <2>1, <2>2
<1>7. CASE Plain(t)
  <2>1. \A i \in 1..n : t[i] \notin Markers  BY <1>2, <1>7 DEF Plain
  <2>2. \A i \in 1..n + 1 : r[i] \notin Markers  BY <1>3, <1>4, <1>6, <2>1
  <2> QED  BY <1>3, <2>2 DEF Plain, Whole
<1>8. ASSUME NEW z, BlockAt(t, z) PROVE Whole(r)
  <2>1. /\ z \in 2..n - 2 /\ t[z] = "begin" /\ t[z + 1] = "report" /\ t[z + 2] = "end"
        /\ \A i \in 1..n : t[i] \in Markers => i \in {z, z + 1, z + 2}
    BY <1>2, <1>8 DEF BlockAt
  <2>2. p # z + 1 /\ p # z + 2  BY <1>8
  <2>3. CASE p <= z
    <3>1. PICK q \in Int : q = z + 1  BY <2>1
    <3>2. /\ q \in 2..(n + 1) - 2 /\ z \in p..n /\ z + 1 \in p..n /\ z + 2 \in p..n
          /\ q + 1 = (z + 1) + 1 /\ q + 2 = (z + 2) + 1
      BY <1>5, <2>1, <2>3, <3>1
    <3>3. r[q] = "begin" /\ r[q + 1] = "report" /\ r[q + 2] = "end"
      BY <1>3, <2>1, <3>1, <3>2
    <3>4. ASSUME NEW i \in 1..n + 1, r[i] \in Markers PROVE i \in {q, q + 1, q + 2}
      <4>1. i # p  BY <1>3, <1>4, <3>4
      <4>2. CASE i <= p - 1 /\ i \in 1..n /\ r[i] = t[i]
        <5>1. i \in {z, z + 1, z + 2}  BY <2>1, <3>4, <4>2
        <5> QED  BY <1>5, <2>1, <2>3, <4>2, <5>1
      <4>3. CASE i > p /\ i - 1 \in 1..n /\ r[i] = t[i - 1]
        <5>1. i - 1 \in {z, z + 1, z + 2}  BY <2>1, <3>4, <4>3
        <5> QED  BY <2>1, <3>1, <5>1
      <4> QED  BY <1>6, <4>1, <4>2, <4>3
    <3>5. BlockAt(r, q)  BY <1>3, <3>2, <3>3, <3>4 DEF BlockAt
    <3> QED  BY <3>5 DEF Whole
  <2>4. CASE ~(p <= z)
    <3>1. z \in 2..(n + 1) - 2 /\ z \in 1..p - 1 /\ z + 1 \in 1..p - 1 /\ z + 2 \in 1..p - 1
      BY <1>5, <2>1, <2>2, <2>4
    <3>2. r[z] = "begin" /\ r[z + 1] = "report" /\ r[z + 2] = "end"  BY <1>3, <2>1, <3>1
    <3>3. ASSUME NEW i \in 1..n + 1, r[i] \in Markers PROVE i \in {z, z + 1, z + 2}
      <4>1. i # p  BY <1>3, <1>4, <3>3
      <4>2. CASE i <= p - 1 /\ i \in 1..n /\ r[i] = t[i]  BY <2>1, <3>3, <4>2
      <4>3. CASE i > p /\ i - 1 \in 1..n /\ r[i] = t[i - 1]
        <5>1. i - 1 \in {z, z + 1, z + 2}  BY <2>1, <3>3, <4>3
        <5> QED  BY <1>5, <2>1, <3>1, <4>3, <5>1
      <4> QED  BY <1>6, <4>1, <4>2, <4>3
    <3>4. BlockAt(r, z)  BY <1>3, <3>1, <3>2, <3>3 DEF BlockAt
    <3> QED  BY <3>4 DEF Whole
  <2> QED  BY <1>5, <2>1, <2>3, <2>4
<1> QED  BY <1>7, <1>8 DEF Whole

\* A line less, other than the first.
LEMMA RemovedLed ==
  ASSUME NEW t, Led(t), NEW p \in 2..Len(t), NEW r, Removed(t, p, r)
  PROVE  Led(r)
<1>1. t \in Texts  BY DEF Led
<1>2. PICK n \in Nat : n = Len(t)  BY <1>1, LenProperties DEF Texts
<1>3. n # 0 /\ 1 \in 1..p - 1  BY <1>2
<1>4. t # <<>>  BY <1>2, <1>3
<1>5. t[1] = Top /\ r[1] = t[1] /\ r \in Texts  BY <1>3, <1>4 DEF Led, Removed
<1> QED  BY <1>5 DEF Led

\* Another line than a marker.
LEMMA RemovedWhole ==
  ASSUME NEW t, Led(t), Whole(t), NEW p \in 2..Len(t), t[p] \notin Markers,
         NEW r, Removed(t, p, r)
  PROVE  Whole(r)
<1>1. t \in Texts  BY DEF Led
<1>2. PICK n \in Nat : n = Len(t)  BY <1>1, LenProperties DEF Texts
<1>3. /\ r \in Texts /\ Len(r) = n - 1
      /\ \A i \in 1..p - 1 : r[i] = t[i]
      /\ \A i \in p..n - 1 : r[i] = t[i + 1]
  BY <1>2 DEF Removed
<1>4. p \in 2..n  BY <1>2
<1>5. ASSUME NEW i \in 1..n - 1
      PROVE  \/ i <= p - 1 /\ i \in 1..n /\ r[i] = t[i]
             \/ i >= p /\ i + 1 \in 1..n /\ r[i] = t[i + 1]
  <2>1. CASE i <= p - 1
    <3>1. i \in 1..p - 1 /\ i \in 1..n  BY <1>4, <2>1
    <3> QED  BY <1>3, <2>1, <3>1
  <2>2. CASE ~(i <= p - 1)
    <3>1. i \in p..n - 1 /\ i >= p /\ i + 1 \in 1..n  BY <1>2, <1>4, <2>2
    <3> QED  BY <1>3, <3>1
  <2> QED  BY <2>1, <2>2
<1>6. CASE Plain(t)
  <2>1. \A i \in 1..n : t[i] \notin Markers  BY <1>2, <1>6 DEF Plain
  <2>2. \A i \in 1..n - 1 : r[i] \notin Markers  BY <1>5, <2>1
  <2> QED  BY <1>3, <2>2 DEF Plain, Whole
<1>7. ASSUME NEW z, BlockAt(t, z) PROVE Whole(r)
  <2>1. /\ z \in 2..n - 2 /\ t[z] = "begin" /\ t[z + 1] = "report" /\ t[z + 2] = "end"
        /\ \A i \in 1..n : t[i] \in Markers => i \in {z, z + 1, z + 2}
    BY <1>2, <1>7 DEF BlockAt
  <2>2. p # z /\ p # z + 1 /\ p # z + 2  BY <2>1 DEF Markers
  <2>3. CASE p < z
    <3>1. PICK q \in Int : q = z - 1  BY <2>1
    <3>2. /\ q \in 2..(n - 1) - 2 /\ q \in p..n - 1 /\ q + 1 \in p..n - 1 /\ q + 2 \in p..n - 1
          /\ q + 1 = z /\ (q + 1) + 1 = z + 1 /\ (q + 2) + 1 = z + 2
      BY <1>4, <2>1, <2>3, <3>1
    <3>3. r[q] = "begin" /\ r[q + 1] = "report" /\ r[q + 2] = "end"  BY <1>3, <2>1, <3>2
    <3>4. ASSUME NEW i \in 1..n - 1, r[i] \in Markers PROVE i \in {q, q + 1, q + 2}
      <4>1. CASE i <= p - 1 /\ i \in 1..n /\ r[i] = t[i]
        <5>1. i \in {z, z + 1, z + 2}  BY <2>1, <3>4, <4>1
        <5> QED  BY <1>4, <2>1, <2>3, <4>1, <5>1
      <4>2. CASE i >= p /\ i + 1 \in 1..n /\ r[i] = t[i + 1]
        <5>1. i + 1 \in {z, z + 1, z + 2}  BY <2>1, <3>4, <4>2
        <5>2. z \in Int /\ i \in Int /\ z = q + 1  BY <2>1, <3>1
        <5> QED  BY <5>1, <5>2
      <4> QED  BY <1>5, <4>1, <4>2
    <3>5. BlockAt(r, q)  BY <1>3, <3>2, <3>3, <3>4 DEF BlockAt
    <3> QED  BY <3>5 DEF Whole
  <2>4. CASE ~(p < z)
    <3>1. /\ z \in 2..(n - 1) - 2 /\ z \in 1..p - 1 /\ z + 1 \in 1..p - 1 /\ z + 2 \in 1..p - 1
      BY <1>4, <2>1, <2>2, <2>4
    <3>2. r[z] = "begin" /\ r[z + 1] = "report" /\ r[z + 2] = "end"  BY <1>3, <2>1, <3>1
    <3>3. ASSUME NEW i \in 1..n - 1, r[i] \in Markers PROVE i \in {z, z + 1, z + 2}
      <4>1. CASE i <= p - 1 /\ i \in 1..n /\ r[i] = t[i]  BY <2>1, <3>3, <4>1
      <4>2. CASE i >= p /\ i + 1 \in 1..n /\ r[i] = t[i + 1]
        <5>1. i + 1 \in {z, z + 1, z + 2}  BY <2>1, <3>3, <4>2
        <5> QED  BY <1>4, <2>1, <3>1, <4>2, <5>1
      <4> QED  BY <1>5, <4>1, <4>2
    <3>4. BlockAt(r, z)  BY <1>3, <3>1, <3>2, <3>3 DEF BlockAt
    <3> QED  BY <3>4 DEF Whole
  <2> QED  BY <1>4, <2>1, <2>3, <2>4
<1> QED  BY <1>6, <1>7 DEF Whole

-----------------------------------------------------------------------------
(* The invariant.                                                          *)

GitRecs == [at : {"write"}, fresh : BOOLEAN, text : Texts]

\* A request is about to write a script, with a block the server knows, and with the
\* user's lines if nobody has written since it read them.
GitCallOk(v, bad, kept) ==
  v = G!Idle \/ /\ v \in GitRecs /\ Led(v.text)
                /\ ~bad => Whole(v.text) /\ (v.fresh => G!Users(v.text) = kept)

ScriptOk(t, bad, kept) ==
  /\ Led(t) /\ kept \in Seq(Lines)
  /\ ~bad => Whole(t) /\ G!Users(t) = kept

GitInv ==
  /\ ScriptOk(script, torn, mine) /\ torn \in BOOLEAN
  /\ gitCall \in [Calls -> {G!Idle} \cup GitRecs]
  /\ \A k \in Calls : GitCallOk(gitCall[k], torn, mine)

\* The invariant holds at the start.
LEMMA GitStarts == ASSUME GitBounds, G!Init PROVE GitInv
<1>1. PICK l \in Lines : script \in {<<>>, <<"#!/bin/sh">>, <<"#!/bin/sh", l>>}
  BY DEF G!Init
<1>2. gitCall = [k \in Calls |-> G!Idle] /\ torn = FALSE /\ mine = G!Users(script)
  BY DEF G!Init
<1>3. Led(script) /\ Plain(script)
  <2>1. CASE script = <<>>  BY <2>1, BitsAre
  <2>2. CASE script = <<"#!/bin/sh">>  BY <2>2, BitsAre DEF Top
  <2>3. CASE script = <<"#!/bin/sh", l>>
    <3>1. l \notin Markers /\ Top \notin Markers  BY OursApart
    <3>2. script \in Texts /\ Len(script) = 2 /\ script[1] = Top /\ script[2] = l
      BY <2>3, BlockIs DEF Texts, Top
    <3>3. \A i \in 1..Len(script) : script[i] \notin Markers
      <4>1. \A i \in 1..Len(script) : i = 1 \/ i = 2  BY <3>2
      <4> QED  BY <3>1, <3>2, <4>1
    <3> QED  BY <3>2, <3>3 DEF Led, Plain
  <2> QED  BY <1>1, <2>1, <2>2, <2>3
<1>4. mine \in Seq(Lines)  BY <1>2, <1>3, UsersType DEF Led
<1> QED  BY <1>2, <1>3, <1>4 DEF GitInv, ScriptOk, Whole, GitCallOk

\* A request of an older read says nothing about the user's lines.
LEMMA StaleIs ==
  ASSUME NEW v \in {G!Idle} \cup GitRecs, NEW bad, NEW kept, GitCallOk(v, bad, kept),
         NEW worse, ~worse => ~bad, NEW now
  PROVE  G!Stale(v) \in {G!Idle} \cup GitRecs /\ GitCallOk(G!Stale(v), worse, now)
<1>1. CASE v = G!Idle  BY <1>1 DEF G!Stale, GitCallOk
<1>2. CASE v # G!Idle
  <2>1. v \in GitRecs /\ Led(v.text) /\ (~bad => Whole(v.text))  BY <1>2 DEF GitCallOk
  <2>2. PICK o : o = [v EXCEPT !.fresh = FALSE]  OBVIOUS
  <2>3. o \in GitRecs /\ o.text = v.text /\ o.fresh = FALSE  BY <2>1, <2>2 DEF GitRecs
  <2>4. G!Stale(v) = o  BY <1>2, <2>2 DEF G!Stale
  <2> QED  BY <2>1, <2>3, <2>4 DEF GitCallOk
<1> QED  BY <1>1, <1>2

\* A request reads.
LEMMA RequestKeeps ==
  ASSUME GitBounds, GitInv, NEW k \in Calls, NEW op \in {"install", "uninstall"}, G!Start(k, op)
  PROVE  GitInv'
<1>1. Led(script) /\ mine \in Seq(Lines) /\ (~torn => Whole(script) /\ G!Users(script) = mine)
  BY DEF GitInv, ScriptOk
<1>2. PICK s : s = IF op = "install" THEN G!Install(script) ELSE G!Uninstall(script)
  OBVIOUS
<1>3. PICK v : v = [at |-> "write", fresh |-> TRUE, text |-> s]  OBVIOUS
<1>4. /\ gitCall' = [gitCall EXCEPT ![k] = v] /\ UNCHANGED <<script, torn, mine>>
      /\ op = "uninstall" => G!Found(script)
  BY <1>2, <1>3 DEF G!Start
<1>5. Led(s)  BY <1>1, <1>2, InstallLed, UninstallLed
<1>6. ~torn => Whole(s) /\ G!Users(s) = mine
  <2>1. SUFFICES ASSUME ~torn PROVE Whole(s) /\ G!Users(s) = mine  OBVIOUS
  <2>2. CASE op = "install"  BY <1>1, <1>2, <2>1, <2>2, InstallWhole
  <2>3. CASE op = "uninstall"
    <3>1. ~Plain(script)  BY <1>4, <2>3, PlainParts
    <3>2. PICK z : BlockAt(script, z)  BY <1>1, <2>1, <3>1 DEF Whole
    <3> QED  BY <1>1, <1>2, <2>1, <2>3, <3>2, UninstallWhole
  <2> QED  BY <2>2, <2>3
<1>7. v \in GitRecs /\ v.text = s  BY <1>3, <1>5 DEF GitRecs, Led
<1>8. GitCallOk(v, torn, mine)  BY <1>5, <1>6, <1>7 DEF GitCallOk
<1>9. gitCall' \in [Calls -> {G!Idle} \cup GitRecs]  BY <1>4, <1>7 DEF GitInv
<1>10. ASSUME NEW j \in Calls PROVE GitCallOk(gitCall'[j], torn, mine)
  <2>1. gitCall'[j] = IF j = k THEN v ELSE gitCall[j]  BY <1>4 DEF GitInv
  <2>2. GitCallOk(gitCall[j], torn, mine)  BY DEF GitInv
  <2> QED  BY <1>8, <2>1, <2>2
<1> QED  BY <1>4, <1>9, <1>10 DEF GitInv, ScriptOk

\* A request writes.
LEMMA WriteKeeps ==
  ASSUME GitBounds, GitInv, NEW k \in Calls, G!Write(k)
  PROVE  GitInv'
<1>1. PICK v : v = gitCall[k]  OBVIOUS
<1>2. /\ v.at = "write" /\ script' = v.text /\ torn' = torn
      /\ gitCall' = [j \in Calls |-> IF j = k THEN G!Idle ELSE G!Stale(gitCall[j])]
      /\ mine' = IF v.fresh THEN mine ELSE G!Users(script')
  BY <1>1 DEF G!Write
<1>3. v # G!Idle /\ GitCallOk(v, torn, mine)  BY <1>1, <1>2 DEF G!Idle, GitInv
<1>4. v \in GitRecs /\ Led(script') /\ (~torn => Whole(script') /\ (v.fresh => G!Users(script') = mine))
  BY <1>2, <1>3 DEF GitCallOk
<1>5. G!Users(script') \in Seq(Lines) /\ mine \in Seq(Lines) /\ v.fresh \in BOOLEAN
  BY <1>4, UsersType DEF Led, GitInv, ScriptOk, GitRecs
<1>6. ScriptOk(script', torn', mine')
  <2>1. CASE v.fresh  BY <1>2, <1>4, <1>5, <2>1 DEF ScriptOk
  <2>2. CASE ~v.fresh  BY <1>2, <1>4, <1>5, <2>2 DEF ScriptOk
  <2> QED  BY <2>1, <2>2
<1>7. ASSUME NEW j \in Calls
      PROVE  gitCall'[j] \in {G!Idle} \cup GitRecs /\ GitCallOk(gitCall'[j], torn', mine')
  <2>1. gitCall'[j] = IF j = k THEN G!Idle ELSE G!Stale(gitCall[j])  BY <1>2
  <2>2. gitCall[j] \in {G!Idle} \cup GitRecs /\ GitCallOk(gitCall[j], torn, mine)
    BY DEF GitInv
  <2>3. G!Stale(gitCall[j]) \in {G!Idle} \cup GitRecs /\ GitCallOk(G!Stale(gitCall[j]), torn', mine')
    BY <1>2, <2>2, StaleIs
  <2>4. GitCallOk(G!Idle, torn', mine')  BY DEF GitCallOk
  <2> QED  BY <2>1, <2>3, <2>4
<1>8. gitCall' \in [Calls -> {G!Idle} \cup GitRecs]  BY <1>2, <1>7
<1> QED  BY <1>2, <1>6, <1>7, <1>8 DEF GitInv

\* An edit that leaves a script.
LEMMA EditKeepsScript ==
  ASSUME GitBounds, GitInv, NEW s, Led(s), G!EditTo(s), torn' \in BOOLEAN, torn => torn',
         ~torn' => Whole(s)
  PROVE  GitInv'
<1>1. script' = s /\ gitCall' = [k \in Calls |-> G!Stale(gitCall[k])] /\ mine' = G!Users(s)
  BY DEF G!EditTo
<1>2. mine' \in Seq(Lines)  BY <1>1, UsersType DEF Led
<1>3. ScriptOk(script', torn', mine')  BY <1>1, <1>2 DEF ScriptOk
<1>4. ASSUME NEW j \in Calls
      PROVE  gitCall'[j] \in {G!Idle} \cup GitRecs /\ GitCallOk(gitCall'[j], torn', mine')
  <2>1. gitCall'[j] = G!Stale(gitCall[j])  BY <1>1
  <2>2. gitCall[j] \in {G!Idle} \cup GitRecs /\ GitCallOk(gitCall[j], torn, mine)
    BY DEF GitInv
  <2> QED  BY <2>1, <2>2, StaleIs
<1>5. gitCall' \in [Calls -> {G!Idle} \cup GitRecs]  BY <1>1, <1>4
<1> QED  BY <1>3, <1>4, <1>5 DEF GitInv

\* Add, Drop, DropBlock, Tear.
LEMMA AddKeeps ==
  ASSUME GitBounds, GitInv, NEW i, NEW l \in Lines, G!Add(i, l)
  PROVE  GitInv'
<1>1. Led(script) /\ (~torn => Whole(script)) /\ torn \in BOOLEAN
  BY DEF GitInv, ScriptOk
<1>2. PICK n \in Nat : n = Len(script)  BY <1>1, LenProperties DEF Led, Texts
<1>3. i \in 1..n  BY <1>2 DEF G!Add
<1>4. PICK p \in 2..Len(script) + 1 : p = i + 1
  <2>1. i + 1 \in 2..Len(script) + 1  BY <1>2, <1>3
  <2> QED  BY <2>1, Zenon
<1>5. PICK s : s = G!InsertAt(script, p, l)  OBVIOUS
<1>6. G!EditTo(s) /\ torn' = torn  BY <1>4, <1>5 DEF G!Add
<1>7. Inserted(script, p, l, s)
  <2>1. p \in 1..Len(script) + 1 /\ script \in Texts  BY <1>1, <1>2 DEF Led
  <2> QED  BY <1>5, <2>1, InsertedAt
<1>8. Led(s)  BY <1>1, <1>7, AddedLed
<1>9. ASSUME NEW z, BlockAt(script, z) PROVE p \notin {z + 1, z + 2}
  <2>1. z \in 2..n - 2  BY <1>2, <1>9 DEF BlockAt
  <2>2. G!Found(script) /\ G!First(script, "begin") = z /\ G!First(script, "end") = z + 2
    BY <1>1, <1>9, BlockParts DEF Led
  <2>3. ~(i \in z..z + 2 - 1)
    <3>1. G!Found(script) => ~(i \in G!First(script, "begin")..(G!First(script, "end") - 1))
      BY DEF G!Add
    <3>2. PICK f, e : f = G!First(script, "begin") /\ e = G!First(script, "end")
      OBVIOUS
    <3>3. ~(i \in f..e - 1)  BY <2>2, <3>1, <3>2, Zenon
    <3>4. f = z /\ e = z + 2  BY <2>2, <3>2, Zenon
    <3> QED  BY <2>1, <3>3, <3>4
  <2> QED  BY <1>3, <1>4, <2>1, <2>3
<1>10. ~torn' => Whole(s)  BY <1>1, <1>6, <1>7, <1>9, AddedWhole
<1> QED  BY <1>1, <1>6, <1>8, <1>10, EditKeepsScript

LEMMA DropKeeps ==
  ASSUME GitBounds, GitInv, NEW p, G!Drop(p)
  PROVE  GitInv'
<1>1. Led(script) /\ (~torn => Whole(script)) /\ torn \in BOOLEAN
  BY DEF GitInv, ScriptOk
<1>2. PICK n \in Nat : n = Len(script) /\ DOMAIN script = 1..n
  BY <1>1, LenProperties DEF Led, Texts
<1>3. p \in 1..n /\ script[p] \notin Markers /\ script[p] # Top
  BY <1>2, BlockIs DEF G!Drop
<1>4. p # 1
  <2>1. script # <<>>  BY <1>2, <1>3
  <2> QED  BY <1>1, <1>3, <2>1 DEF Led
<1>5. p \in 2..Len(script) /\ p \in 1..Len(script)  BY <1>2, <1>3, <1>4
<1>6. PICK s : s = G!RemoveAt(script, p)  OBVIOUS
<1>7. G!EditTo(s) /\ torn' = torn  BY <1>6 DEF G!Drop
<1>8. Removed(script, p, s)  BY <1>1, <1>5, <1>6, RemovedAt DEF Led
<1>9. Led(s)  BY <1>1, <1>5, <1>8, RemovedLed
<1>10. ~torn' => Whole(s)  BY <1>1, <1>3, <1>5, <1>7, <1>8, RemovedWhole
<1> QED  BY <1>1, <1>7, <1>9, <1>10, EditKeepsScript

LEMMA DropBlockKeeps == ASSUME GitBounds, GitInv, G!DropBlock PROVE GitInv'
<1>1. Led(script) /\ (~torn => Whole(script)) /\ torn \in BOOLEAN
  BY DEF GitInv, ScriptOk
<1>2. PICK s : s = G!Before(script) \o G!After(script)  OBVIOUS
<1>3. G!EditTo(s) /\ torn' = torn /\ G!Found(script)  BY <1>2 DEF G!DropBlock
<1>4. Led(s)  BY <1>1, <1>2, WithoutLed
<1>5. ASSUME ~torn' PROVE Whole(s)
  <2>1. ~Plain(script)  BY <1>3, PlainParts
  <2>2. PICK z : BlockAt(script, z)  BY <1>1, <1>3, <1>5, <2>1 DEF Whole
  <2> QED  BY <1>1, <1>2, <2>2, WithoutBlock DEF Whole
<1> QED  BY <1>1, <1>3, <1>4, <1>5, EditKeepsScript

LEMMA TearKeeps == ASSUME GitBounds, GitInv, NEW l, G!Tear(l) PROVE GitInv'
<1>1. Led(script) /\ l \in {"begin", "end"} /\ torn' = TRUE
  BY DEF GitInv, ScriptOk, G!Tear
<1>2. PICK n \in Nat : n = Len(script)  BY <1>1, LenProperties DEF Led, Texts
<1>3. PICK p : p = G!First(script, l)  OBVIOUS
<1>4. p \in 1..n /\ script[p] = l
  <2>1. p # 0  BY <1>3 DEF G!Tear
  <2>2. p \in 0..n /\ (p # 0 => script[p] = l)  BY <1>1, <1>2, <1>3, FirstSome DEF Led
  <2> QED  BY <2>1, <2>2
<1>5. p # 1
  <2>1. script # <<>>  BY <1>2, <1>4
  <2> QED  BY <1>1, <1>4, <2>1 DEF Led, Top
<1>6. p \in 2..Len(script) /\ p \in 1..Len(script)  BY <1>2, <1>4, <1>5
<1>7. PICK s : s = G!RemoveAt(script, p)  OBVIOUS
<1>8. G!EditTo(s)  BY <1>3, <1>7 DEF G!Tear
<1>9. Removed(script, p, s)  BY <1>1, <1>6, <1>7, RemovedAt DEF Led
<1>10. Led(s)  BY <1>1, <1>6, <1>9, RemovedLed
<1> QED  BY <1>1, <1>8, <1>10, EditKeepsScript

LEMMA GitKeeps == ASSUME GitBounds, GitInv, G!Next \/ UNCHANGED gvars PROVE GitInv'
<1>1. ASSUME NEW k \in Calls, G!Write(k) PROVE GitInv'  BY <1>1, WriteKeeps
<1>2. ASSUME NEW k \in Calls, NEW op \in {"install", "uninstall"}, G!Start(k, op) PROVE GitInv'
  BY <1>2, RequestKeeps
<1>3. ASSUME NEW i, NEW l \in Lines, G!Add(i, l) \/ G!Drop(i) \/ G!Tear("begin") \/ G!Tear("end")
      PROVE  GitInv'
  BY <1>3, AddKeeps, DropKeeps, TearKeeps
<1>4. CASE UNCHANGED gvars  BY <1>4 DEF gvars, GitInv, ScriptOk
<1> QED  BY <1>1, <1>2, <1>3, <1>4, DropBlockKeeps DEF G!Next

-----------------------------------------------------------------------------
(* What the invariant shows.                                               *)

LEMMA SameCountG == ASSUME NEW Q  PROVE G!Cardinality(Q) = Cardinality(Q)
BY DEF G!Cardinality, Cardinality

\* Each line of the block is there once.
LEMMA BlockOnce ==
  ASSUME NEW t, Led(t), Whole(t), NEW l \in Markers
  PROVE  G!Cardinality({i \in DOMAIN t : t[i] = l}) = IF G!Found(t) THEN 1 ELSE 0
<1>1. t \in Texts  BY DEF Led
<1>2. PICK n \in Nat : n = Len(t) /\ DOMAIN t = 1..n  BY <1>1, LenProperties DEF Texts
<1>3. PICK at : at = {i \in DOMAIN t : t[i] = l}  OBVIOUS
<1>4. CASE Plain(t)
  <2>1. at = {}  BY <1>2, <1>3, <1>4 DEF Plain
  <2>2. Cardinality(at) = 0  BY <2>1, FS_EmptySet
  <2> QED  BY <1>3, <1>4, <2>2, PlainParts, SameCountG
<1>5. ASSUME NEW z, BlockAt(t, z) PROVE G!Cardinality(at) = 1 /\ G!Found(t)
  <2>1. /\ z \in 2..n - 2 /\ t[z] = "begin" /\ t[z + 1] = "report" /\ t[z + 2] = "end"
        /\ \A i \in 1..n : t[i] \in Markers => i \in {z, z + 1, z + 2}
    BY <1>2, <1>5 DEF BlockAt
  <2>2. z \in 1..n /\ z + 1 \in 1..n /\ z + 2 \in 1..n  BY <2>1
  <2>3. \A i \in at : i \in {z, z + 1, z + 2} /\ t[i] = l  BY <1>2, <1>3, <2>1
  <2>4. \E o : at = {o}
    <3>1. CASE l = "begin"
      <4>1. at = {z}  BY <1>2, <1>3, <2>1, <2>2, <2>3, <3>1
      <4> QED  BY <4>1
    <3>2. CASE l = "report"
      <4>1. at = {z + 1}  BY <1>2, <1>3, <2>1, <2>2, <2>3, <3>2
      <4> QED  BY <4>1
    <3>3. CASE l = "end"
      <4>1. at = {z + 2}  BY <1>2, <1>3, <2>1, <2>2, <2>3, <3>3
      <4> QED  BY <4>1
    <3> QED  BY <3>1, <3>2, <3>3 DEF Markers
  <2>5. Cardinality(at) = 1  BY <2>4, FS_Singleton
  <2>6. G!Found(t)  BY <1>1, <1>5, BlockParts
  <2> QED  BY <2>5, <2>6, SameCountG
<1> QED  BY <1>3, <1>4, <1>5 DEF Whole

\* Installing twice, installing and removing.
LEMMA RoundTripIs ==
  ASSUME GitBounds, NEW t, Led(t), Whole(t)
  PROVE  /\ G!Install(G!Install(t)) = G!Install(t)
         /\ ~G!Found(t) /\ G!Users(t) # <<>> => G!Uninstall(G!Install(t)) = t
<1>1. CASE Plain(t)
  <2>1. PICK pre : pre = IF t = <<>> THEN <<Top>> ELSE t  OBVIOUS
  <2>2. /\ G!Install(t) = Joined(pre, <<>>)
        /\ Plain(pre) /\ Led(pre) /\ pre # <<>>
    BY <1>1, <2>1, InstallPlain
  <2>3. PICK j : j = Joined(pre, <<>>)  OBVIOUS
  <2>4. Led(j) /\ (\E z : BlockAt(j, z)) /\ G!Before(j) = pre /\ G!After(j) = <<>>
    BY <2>2, <2>3, BitsAre, JoinedBlock
  <2>5. G!Install(j) = j  BY <2>4, InstallBlock
  <2>6. ASSUME G!Users(t) # <<>> PROVE G!Uninstall(j) = t
    <3>1. t # <<>> /\ t # <<Top>>  BY <2>6, BitsAre
    <3>2. pre = t /\ pre \in Texts  BY <2>1, <2>2, <3>1 DEF Led
    <3>3. G!Before(j) \o G!After(j) = t  BY <2>4, <3>2, ConcatEmptySeq DEF Texts
    <3> QED  BY <3>1, <3>3 DEF G!Uninstall, Top
  <2> QED  BY <2>2, <2>3, <2>5, <2>6
<1>2. ASSUME NEW z, BlockAt(t, z)
      PROVE  G!Install(G!Install(t)) = G!Install(t) /\ G!Found(t)
  <2>1. G!Install(t) = t  BY <1>2, InstallBlock
  <2>2. G!Found(t)  BY <1>2, BlockParts DEF Led
  <2> QED  BY <2>1, <2>2
<1> QED  BY <1>1, <1>2 DEF Whole

LEMMA ScriptShows == ASSUME GitBounds, GitInv PROVE ScriptSound
<1>1. /\ Led(script) /\ mine \in Seq(Lines)
      /\ ~torn => Whole(script) /\ G!Users(script) = mine
  BY DEF GitInv, ScriptOk
<1>2. G!TypeOK
  <2>1. ASSUME NEW k \in Calls
        PROVE  \/ gitCall[k] = G!Idle
               \/ gitCall[k] \in [at : {"write"}, fresh : BOOLEAN, text : Seq(Lines \cup G!Ours)]
    BY DEF GitInv, GitRecs, Texts
  <2> QED  BY <1>1, <2>1 DEF G!TypeOK, Led, Texts
<1>3. G!LinesKept  BY <1>1 DEF G!LinesKept
<1>4. G!OneBlock
  <2>1. script # <<>> => script[1] = "#!/bin/sh"  BY <1>1 DEF Led, Top
  <2>2. G!Range(G!Block) = Markers  BY DEF G!Range, G!Block, Markers
  <2>3. ~torn => \A l \in Markers : G!Cardinality({i \in DOMAIN script : script[i] = l})
                                  = IF G!Found(script) THEN 1 ELSE 0
    BY <1>1, BlockOnce
  <2> QED  BY <2>1, <2>2, <2>3 DEF G!OneBlock
<1>5. G!RoundTrip  BY <1>1, RoundTripIs DEF G!RoundTrip
<1> QED  BY <1>2, <1>3, <1>4, <1>5 DEF ScriptSound, G!ScriptSound

\* The user's lines of a repository's shared hook survive installing, refreshing and
\* removing the server's block, which is found again and is there once (githook.go:
\* Install, Uninstall), unless a marker was torn out by hand.
THEOREM ScriptStaysSound == ASSUME GitBounds  PROVE ServicesSpec => []ScriptSound
<1>1. ServicesInit => GitInv  BY GitStarts DEF ServicesInit
<1>2. GitInv /\ [ServicesNext]_allvars => GitInv'
  <2>1. [ServicesNext]_allvars => G!Next \/ UNCHANGED gvars
    BY DEF ServicesNext, allvars
  <2> QED  BY <2>1, GitKeeps
<1>3. GitInv => ScriptSound  BY ScriptShows
<1> QED  BY <1>1, <1>2, <1>3, PTL DEF ServicesSpec
=============================================================================
