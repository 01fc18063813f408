----------------------------- MODULE TasksProofs -----------------------------
(***************************************************************************)
(* Proofs about tasks (Tasks): for any worktrees, tasks, statuses and      *)
(* requests at once, no reference ever dangles, and two requests that      *)
(* create a task never both carry on with one key.                         *)
(***************************************************************************)
EXTENDS TasksInStep, TLAPS, SequenceTheorems, FiniteSetTheorems, WellFoundedInduction

-----------------------------------------------------------------------------
(* Numbers, sequences and the list of statuses.                            *)

Below == {ss \in Nat \X Nat : ss[1] < ss[2]}

LEMMA BelowWellFounded == IsWellFoundedOn(Below, Nat)
BY NatLessThanWellFounded DEF OpToRel, Below

LEMMA Least ==
  ASSUME NEW S \in SUBSET Nat, S # {}
  PROVE  \E p \in S : \A q \in S : p <= q
<1>1. PICK p \in S : \A q \in S : <<q, p>> \notin Below  BY BelowWellFounded, WFMin
<1>2. ASSUME NEW q \in S  PROVE p <= q
  <2>1. p \in Nat /\ q \in Nat /\ <<q, p>> \notin Below  BY <1>1
  <2>2. ASSUME q < p  PROVE FALSE
    <3>1. <<q, p>> \in Nat \X Nat /\ <<q, p>>[1] = q /\ <<q, p>>[2] = p  BY <2>1
    <3>2. <<q, p>>[1] < <<q, p>>[2]  BY <2>2, <3>1
    <3>3. <<q, p>> \in Below  BY <3>1, <3>2, Zenon DEF Below
    <3> QED BY <3>3, <2>1
  <2> QED BY <2>1, <2>2
<1> QED BY <1>2

LEMMA Greatest ==
  ASSUME NEW n \in Nat, NEW S \in SUBSET (0..n), S # {}
  PROVE  MaxOf(S) \in S /\ \A q \in S : q <= MaxOf(S)
<1> DEFINE T == {n - q : q \in S}
<1>1. T \in SUBSET Nat /\ T # {}
  <2>1. ASSUME NEW q \in S  PROVE n - q \in Nat  OBVIOUS
  <2>2. PICK q \in S : TRUE  OBVIOUS
  <2>3. n - q \in T  BY <2>2
  <2> QED BY <2>1, <2>3
<1>2. PICK r \in T : \A q \in T : r <= q  BY <1>1, Least
<1>3. PICK p \in S : r = n - p  BY <1>2
<1>4. ASSUME NEW q \in S  PROVE q <= p
  <2>1. n - q \in T  OBVIOUS
  <2>2. n - p <= n - q  BY <1>2, <1>3, <2>1
  <2> QED BY <2>2
<1> QED BY <1>4 DEF MaxOf

Todos == UNION {[1..n -> Tasks] : n \in 0..2}

LEMMA TodoIs ==
  ASSUME NEW s
  PROVE  s \in Todos <=> s \in Seq(Tasks) /\ Len(s) <= 2
<1>1. ASSUME s \in Todos  PROVE s \in Seq(Tasks) /\ Len(s) <= 2
  <2>1. PICK n \in 0..2 : s \in [1..n -> Tasks]  BY <1>1 DEF Todos
  <2>2. s \in Seq(Tasks)  BY <2>1, SeqDef
  <2>3. DOMAIN s = 1..Len(s) /\ Len(s) \in Nat  BY <2>2, LenProperties
  <2> QED BY <2>1, <2>2, <2>3
<1>2. ASSUME s \in Seq(Tasks), Len(s) <= 2  PROVE s \in Todos
  <2>2. Len(s) \in Nat /\ s \in [1..Len(s) -> Tasks]  BY <1>2, LenProperties
  <2>1. Len(s) \in 0..2 /\ s \in [1..Len(s) -> Tasks]  BY <1>2, <2>2
  <2> QED BY <2>1 DEF Todos
<1> QED BY <1>1, <1>2

LEMMA NamedTodo ==
  ASSUME NEW t \in Tasks \cup {Nil}, NEW u \in Tasks \cup {Nil}
  PROVE  Named(t) \in Todos /\ Named(t) \o Named(u) \in Todos
<1>1. <<>> \in Seq(Tasks) /\ Len(<<>>) = 0  BY EmptySeq
<1>2. Named(t) \in Seq(Tasks) /\ Named(u) \in Seq(Tasks)
      /\ Len(Named(t)) \in 0..1 /\ Len(Named(u)) \in 0..1
  BY <1>1 DEF Named
<1>3. Named(t) \o Named(u) \in Seq(Tasks) /\ Len(Named(t) \o Named(u)) = Len(Named(t)) + Len(Named(u))
  BY <1>2, ConcatProperties
<1>4. Len(Named(t) \o Named(u)) <= 2 /\ Len(Named(t)) <= 2
  <2>1. ASSUME NEW m \in 0..1, NEW n \in 0..1  PROVE m + n <= 2 /\ m <= 2  OBVIOUS
  <2>2. Len(Named(t)) + Len(Named(u)) <= 2 /\ Len(Named(t)) <= 2  BY <1>2, <2>1
  <2> QED BY <1>3, <2>2
<1> QED BY <1>2, <1>3, <1>4, TodoIs

LEMMA RestTodo ==
  ASSUME NEW s \in Todos, s # <<>>
  PROVE  Tail(s) \in Todos /\ Head(s) \in Tasks
<1>1. s \in Seq(Tasks) /\ Len(s) <= 2  BY TodoIs
<1>2. Len(s) \in Nat /\ Len(s) > 0  BY <1>1, EmptySeq, LenProperties
<1>3. Tail(s) \in Seq(Tasks) /\ Len(Tail(s)) = Len(s) - 1  BY <1>1, HeadTailProperties
<1>4. Head(s) \in Tasks
  <2>1. Head(s) = s[1] /\ 1 \in 1..Len(s)  BY <1>1, <1>2
  <2> QED BY <1>1, <2>1, ElementOfSeq
<1>5. Len(Tail(s)) <= 2  BY <1>1, <1>2, <1>3
<1> QED BY <1>3, <1>4, <1>5, TodoIs

-----------------------------------------------------------------------------
(* The statuses.                                                           *)

LEMMA Places ==
  ASSUME TypeOK
  PROVE  /\ MaxStatus \in Nat /\ Present \in SUBSET Statuses /\ Nil \notin Nat
         /\ \A s \in Present : place[s] \in 0..MaxStatus
         /\ IsFiniteSet(Present) /\ Cardinality(Present) \in 0..MaxStatus
<1>1. MaxStatus \in Nat /\ Nil \notin Nat  BY TasksAssumption
<1>2. Present \in SUBSET Statuses  BY DEF Present
<1>3. \A s \in Present : place[s] \in 0..MaxStatus  BY DEF Present, TypeOK
<1>4. IsFiniteSet(Statuses) /\ Cardinality(Statuses) = MaxStatus
  BY <1>1, FS_Interval DEF Statuses
<1>5. IsFiniteSet(Present) /\ Cardinality(Present) <= Cardinality(Statuses)
  BY <1>2, <1>4, FS_Subset
<1>6. Cardinality(Present) \in Nat  BY <1>5, FS_CardinalityType
<1> QED BY <1>1, <1>2, <1>3, <1>4, <1>5, <1>6

\* The list of statuses has a first and a last one.
LEMMA FirstAndLast ==
  ASSUME TypeOK, Present # {}
  PROVE  First \in Present /\ Last \in Present
<1>0. /\ MaxStatus \in Nat /\ Present \in SUBSET (1..MaxStatus) /\ Nil \notin Nat
      /\ \A s \in Present : place[s] \in 0..MaxStatus
  BY Places DEF Statuses
<1> DEFINE Used == {place[s] : s \in Present}
<1>1. Used \in SUBSET (0..MaxStatus) /\ Used \in SUBSET Nat /\ Used # {}
  <2>1. PICK s \in Present : TRUE  OBVIOUS
  <2>2. place[s] \in Used  OBVIOUS
  <2>3. \A n \in Used : n \in 0..MaxStatus  BY <1>0
  <2>4. \A n \in 0..MaxStatus : n \in Nat  BY <1>0
  <2> QED BY <2>2, <2>3, <2>4
<1>2. First \in Present
  <2>1. PICK p \in Used : \A q \in Used : p <= q  BY <1>1, Least
  <2> DEFINE T == {s \in Present : place[s] = p}
  <2>2. T \in SUBSET Nat /\ T # {}
    <3>1. PICK s \in Present : place[s] = p  BY <2>1
    <3>2. s \in T  BY <3>1
    <3>3. \A n \in 1..MaxStatus : n \in Nat  BY <1>0
    <3> QED BY <1>0, <3>2, <3>3
  <2>3. PICK s \in T : \A r \in T : s <= r  BY <2>2, Least
  <2>4. ASSUME NEW r \in Present \ {s}  PROVE Before(s, r)
    <3>1. place[s] = p /\ place[r] \in Used /\ p <= place[r]  BY <2>1, <2>3
    <3>2. p \in Nat /\ place[r] \in Nat /\ s \in Nat /\ r \in Nat /\ s # r  BY <1>0, <2>3, <2>4, <1>1
    <3>3. CASE place[r] = p
      <4>1. r \in T  BY <3>3
      <4>2. s <= r  BY <2>3, <4>1
      <4> QED BY <3>1, <3>2, <3>3, <4>2 DEF Before
    <3>4. CASE place[r] # p  BY <3>1, <3>2, <3>4 DEF Before
    <3> QED BY <3>3, <3>4
  <2>5. s \in Present  BY <2>3
  <2> QED BY <2>4, <2>5 DEF First
<1>3. Last \in Present
  <2>1. MaxOf(Used) \in Used /\ \A q \in Used : q <= MaxOf(Used)  BY <1>0, <1>1, Greatest
  <2>2. PICK p \in Used : \A q \in Used : q <= p  BY <2>1
  <2> DEFINE T == {s \in Present : place[s] = p}
  <2>3. T \in SUBSET (0..MaxStatus) /\ T # {}
    <3>1. PICK s \in Present : place[s] = p  BY <2>2
    <3>2. s \in T  BY <3>1
    <3>3. \A n \in 1..MaxStatus : n \in 0..MaxStatus  BY <1>0
    <3> QED BY <1>0, <3>2, <3>3
  <2>4. MaxOf(T) \in T /\ \A r \in T : r <= MaxOf(T)  BY <1>0, <2>3, Greatest
  <2>5. PICK s \in T : \A r \in T : r <= s  BY <2>4
  <2>6. ASSUME NEW r \in Present \ {s}  PROVE Before(r, s)
    <3>1. place[s] = p /\ place[r] \in Used /\ place[r] <= p  BY <2>2, <2>5
    <3>2. p \in Nat /\ place[r] \in Nat /\ s \in Nat /\ r \in Nat /\ s # r  BY <1>0, <2>5, <2>6, <1>1
    <3>3. CASE place[r] = p
      <4>1. r \in T  BY <3>3
      <4>2. r <= s  BY <2>5, <4>1
      <4> QED BY <3>1, <3>2, <3>3, <4>2 DEF Before
    <3>4. CASE place[r] # p  BY <3>1, <3>2, <3>4 DEF Before
    <3> QED BY <3>3, <3>4
  <2>7. s \in Present  BY <2>5
  <2> QED BY <2>6, <2>7 DEF Last
<1> QED BY <1>2, <1>3

-----------------------------------------------------------------------------
(* The invariant.                                                          *)

\* What a request holds: the row its step is about, a key of a task that is
\* there once it is to be used, a status that was there.
Right(r, st) ==
  /\ r.pc \in {"row", "first", "key", "insert", "ensure", "label"} => r.w \in Trees
  /\ r.pc = "first" /\ ~r.new => r.k \in Tasks
  /\ r.pc \in {"key", "insert", "ensure"} => r.s \in Statuses
  /\ r.pc = "insert" => r.k \in Local
  /\ r.pc = "ensure" => r.k \in Tasks
  /\ r.pc = "label" /\ r.k # Nil => st[r.k] # Nil
  /\ r.pc \in {"settle", "move"} => r.todo # <<>>
  /\ r.pc \in {"move", "total", "delete"} => r.s \in Statuses
  /\ r.new => r.pc \in {"first", "key", "insert", "label"} /\ (r.pc = "label" => r.k # Nil)

RequestsRight == \A c \in Calls : Right(call[c], status)

IInv == ReferencesWhole /\ RequestsRight /\ NewTasksDistinct

\* Rows of tasks stay.
Grown == \A t \in Tasks : status[t] # Nil => status'[t] # Nil

\* The step of a request: its record changes, the others' do not.
LEMMA OneRequest ==
  ASSUME IInv, Grown, NEW c \in Calls, NEW v \in Requests, call' = [call EXCEPT ![c] = v],
         Right(v, status'),
         v.new /\ v.pc = "label" =>
           \A d \in Calls \ {c} : call[d].new /\ At(d, "label") => call[d].k # v.k
  PROVE  call' \in [Calls -> Requests] /\ RequestsRight' /\ NewTasksDistinct'
<1>1. call \in [Calls -> Requests]  BY DEF IInv, ReferencesWhole, TypeOK
<1>2. call' \in [Calls -> Requests]  BY <1>1
<1>3. call'[c] = v /\ \A d \in Calls : d # c => call'[d] = call[d]  BY <1>1
<1>4. ASSUME NEW d \in Calls  PROVE Right(call'[d], status')
  <2>1. CASE d = c  BY <1>3, <2>1
  <2>2. CASE d # c
    <3>1. call'[d] = call[d] /\ Right(call[d], status) /\ call[d] \in Requests
      BY <1>1, <1>3, <2>2 DEF IInv, RequestsRight
    <3>2. call[d].k \in Tasks \cup {Nil}  BY <3>1 DEF Requests
    <3> QED BY <3>1, <3>2 DEF Right, Grown
  <2> QED BY <2>1, <2>2
<1>5. NewTasksDistinct'  BY <1>3 DEF IInv, NewTasksDistinct, At
<1> QED BY <1>2, <1>4, <1>5 DEF RequestsRight

LEMMA RequestFields ==
  /\ Requests = [op : Operations \cup {Nil}, pc : CallStates, w : Trees \cup {Nil},
                 new : BOOLEAN, k : Tasks \cup {Nil}, old : Tasks \cup {Nil},
                 todo : Todos, s : Statuses \cup {Nil}]
  /\ <<>> \in Todos /\ IdleCall \in Requests
<1>1. <<>> \in Seq(Tasks) /\ Len(<<>>) <= 2  BY EmptySeq
<1>2. <<>> \in Todos  BY <1>1, TodoIs, Zenon
<1>3. Requests = [op : Operations \cup {Nil}, pc : CallStates, w : Trees \cup {Nil},
                  new : BOOLEAN, k : Tasks \cup {Nil}, old : Tasks \cup {Nil},
                  todo : Todos, s : Statuses \cup {Nil}]
  BY DEF Requests, Todos
<1> QED BY <1>2, <1>3 DEF IdleCall, CallStates

LEMMA RequestFacts ==
  ASSUME IInv, NEW c \in Calls
  PROVE  /\ call \in [Calls -> Requests] /\ call[c] \in Requests /\ Right(call[c], status)
         /\ call[c].op \in Operations \cup {Nil} /\ call[c].w \in Trees \cup {Nil}
         /\ call[c].k \in Tasks \cup {Nil} /\ call[c].old \in Tasks \cup {Nil}
         /\ call[c].todo \in Todos /\ call[c].s \in Statuses \cup {Nil}
         /\ call[c].new \in BOOLEAN
<1>1. call \in [Calls -> Requests]  BY DEF IInv, ReferencesWhole, TypeOK
<1>2. call[c] \in Requests  BY <1>1
<1> QED BY <1>1, <1>2, RequestFields DEF IInv, RequestsRight

\* A request is done, or goes on to settle what it names.
LEMMA FinishStep ==
  ASSUME IInv, Grown, NEW c \in Calls, Finish(c)
  PROVE  call' \in [Calls -> Requests] /\ RequestsRight' /\ NewTasksDistinct'
<1>1. IdleCall \in Requests  BY RequestFields
<1>2. Right(IdleCall, status') /\ ~(IdleCall.new /\ IdleCall.pc = "label")
  BY DEF IdleCall, Right
<1> QED BY <1>1, <1>2, OneRequest DEF Finish

LEMMA SettleStep ==
  ASSUME IInv, Grown, NEW c \in Calls, NEW todo \in Todos, Settle(c, todo)
  PROVE  call' \in [Calls -> Requests] /\ RequestsRight' /\ NewTasksDistinct'
<1>1. CASE todo = <<>>
  <2>1. Finish(c)  BY <1>1 DEF Settle, Finish
  <2> QED BY <2>1, FinishStep
<1>2. CASE todo # <<>>
  <2> DEFINE r == [IdleCall EXCEPT !.op = call[c].op, !.pc = "settle", !.k = call[c].k,
                                   !.todo = todo]
  <2>1. r \in Requests
    BY RequestFacts, RequestFields DEF IdleCall, CallStates
  <2>2. r.pc = "settle" /\ r.todo = todo /\ r.new = FALSE  BY DEF IdleCall
  <2>3. call' = [call EXCEPT ![c] = r]  BY <1>2 DEF Settle
  <2> HIDE DEF r
  <2>4. PICK v \in Requests : v = r  BY <2>1
  <2>5. Right(v, status')  BY <1>2, <2>2, <2>4 DEF Right
  <2>6. call' = [call EXCEPT ![c] = v] /\ ~v.new  BY <2>2, <2>3, <2>4
  <2> QED BY <2>5, <2>6, OneRequest
<1> QED BY <1>1, <1>2

\* What a new request carries.
LEMMA BeginStep ==
  ASSUME IInv, NEW c \in Calls, NEW op, NEW v \in Requests, Begin(c, op, v),
         Right(v, status), v.new => v.pc # "label", UNCHANGED status
  PROVE  call' \in [Calls -> Requests] /\ RequestsRight' /\ NewTasksDistinct'
<1>1. Grown /\ Right(v, status')  BY DEF Grown
<1> QED BY <1>1, OneRequest DEF Begin

LEMMA Whole ==
  ASSUME IInv, call' \in [Calls -> Requests] /\ RequestsRight' /\ NewTasksDistinct',
         UNCHANGED <<rows, place, status>>
  PROVE  IInv'
BY DEF IInv, ReferencesWhole, TypeOK, StatusKept, LabelHasTask, rows, Row

-----------------------------------------------------------------------------
(* The steps keep the invariant.                                           *)

LEMMA RequestStep ==
  ASSUME IInv, NEW c \in Calls, Request(c)
  PROVE  IInv'
<1>1. ASSUME NEW w \in Trees, NEW ref \in {"clear", "new", "key"}, NEW k \in Tasks \cup {Nil},
             SetTask(c, w, ref, k)
      PROVE  IInv'
  <2> DEFINE r == [IdleCall EXCEPT !.op = "label", !.pc = Steps(ref), !.w = w,
                                   !.new = (ref = "new"), !.k = k, !.old = label[w]]
  <2>1. label[w] \in Tasks \cup {Nil}  BY DEF IInv, ReferencesWhole, TypeOK
  <2>2. /\ Steps(ref) \in {"first", "label"} /\ (ref = "new" => Steps(ref) = "first")
        /\ Steps(ref) = "first" /\ ref # "new" => k \in Tasks
        /\ Steps(ref) = "label" => k = Nil
    BY <1>1 DEF Steps, SetTask, Ref, Tasks
  <2>3. r \in Requests
    BY <2>1, <2>2, RequestFields DEF IdleCall, CallStates, Operations
  <2>4. /\ r.pc = Steps(ref) /\ r.w = w /\ r.new = (ref = "new") /\ r.k = k
    BY DEF IdleCall
  <2>5. Begin(c, "label", r) /\ UNCHANGED <<rows, place, status>>  BY <1>1 DEF SetTask
  <2> HIDE DEF r
  <2>6. PICK v \in Requests : v = r  BY <2>3
  <2>7. Right(v, status)  BY <2>2, <2>4, <2>6 DEF Right
  <2>8. v.new => v.pc # "label"  BY <2>2, <2>4, <2>6
  <2>9. Begin(c, "label", v)  BY <2>5, <2>6
  <2> QED BY <2>5, <2>7, <2>8, <2>9, BeginStep, Whole
<1>2. ASSUME NEW w \in Trees, NEW ref \in {"clear", "new", "key"}, NEW k \in Tasks \cup {Nil},
             Create(c, w, ref, k)
      PROVE  IInv'
  <2> DEFINE r == [IdleCall EXCEPT !.op = "label", !.pc = Steps(ref), !.w = w,
                                   !.new = (ref = "new"), !.k = k]
  <2>2. /\ Steps(ref) \in {"first", "label"} /\ (ref = "new" => Steps(ref) = "first")
        /\ Steps(ref) = "first" /\ ref # "new" => k \in Tasks
        /\ Steps(ref) = "label" => k = Nil
    BY <1>2 DEF Steps, Create, Ref, Tasks
  <2>3. r \in Requests
    BY <2>2, RequestFields DEF IdleCall, CallStates, Operations
  <2>4. /\ r.pc = Steps(ref) /\ r.w = w /\ r.new = (ref = "new") /\ r.k = k
    BY DEF IdleCall
  <2>5. /\ Begin(c, "create", r) /\ tree' = [tree EXCEPT ![w] = "active"]
        /\ UNCHANGED <<label, place, status>>
    BY <1>2 DEF Create
  <2> HIDE DEF r
  <2>6. PICK v \in Requests : v = r  BY <2>3
  <2>7. Right(v, status)  BY <2>2, <2>4, <2>6 DEF Right
  <2>8. v.new => v.pc # "label"  BY <2>2, <2>4, <2>6
  <2>9. Begin(c, "create", v)  BY <2>5, <2>6
  <2>10. call' \in [Calls -> Requests] /\ RequestsRight' /\ NewTasksDistinct'
    BY <2>5, <2>7, <2>8, <2>9, BeginStep
  <2> QED BY <2>5, <2>10 DEF IInv, ReferencesWhole, TypeOK, StatusKept, LabelHasTask
<1>3. ASSUME NEW op \in {"archive", "unarchive", "remove"}, NEW w \in Trees, OnTree(c, op, w)
      PROVE  IInv'
  <2> DEFINE r == [IdleCall EXCEPT !.op = op, !.pc = "row", !.w = w, !.k = label[w]]
  <2>1. label[w] \in Tasks \cup {Nil}  BY DEF IInv, ReferencesWhole, TypeOK
  <2>2. r \in Requests  BY <2>1, RequestFields DEF IdleCall, CallStates, Operations
  <2>3. r.pc = "row" /\ r.w = w /\ r.new = FALSE  BY DEF IdleCall
  <2>4. Begin(c, op, r) /\ UNCHANGED <<rows, place, status>>  BY <1>3 DEF OnTree
  <2> HIDE DEF r
  <2>5. PICK v \in Requests : v = r  BY <2>2
  <2>6. Right(v, status)  BY <2>3, <2>5 DEF Right
  <2>7. Begin(c, op, v) /\ ~v.new  BY <2>3, <2>4, <2>5
  <2> QED BY <2>4, <2>6, <2>7, BeginStep, Whole
<1>4. ASSUME NEW s \in Statuses, DeleteStatus(c, s)  PROVE IInv'
  <2> DEFINE r == [IdleCall EXCEPT !.op = "delstatus", !.pc = "total", !.s = s]
  <2>1. r \in Requests  BY RequestFields DEF IdleCall, CallStates, Operations
  <2>2. r.pc = "total" /\ r.s = s /\ r.new = FALSE  BY DEF IdleCall
  <2>3. Begin(c, "delstatus", r) /\ UNCHANGED <<rows, place, status>>  BY <1>4 DEF DeleteStatus
  <2> HIDE DEF r
  <2>4. PICK v \in Requests : v = r  BY <2>1
  <2>5. Right(v, status)  BY <2>2, <2>4 DEF Right
  <2>6. Begin(c, "delstatus", v) /\ ~v.new  BY <2>2, <2>3, <2>4
  <2> QED BY <2>3, <2>5, <2>6, BeginStep, Whole
<1> QED BY <1>1, <1>2, <1>3, <1>4 DEF Request, Archive, Unarchive, Remove

\* A step of a request that only goes on to another one.
LEMMA GotoStep ==
  ASSUME IInv, Grown, NEW c \in Calls, NEW pc \in CallStates, Goto(c, pc),
         Right([call[c] EXCEPT !.pc = pc], status'),
         call[c].new /\ pc = "label" =>
           \A d \in Calls \ {c} : call[d].new /\ At(d, "label") => call[d].k # call[c].k
  PROVE  call' \in [Calls -> Requests] /\ RequestsRight' /\ NewTasksDistinct'
<1> DEFINE r == [call[c] EXCEPT !.pc = pc]
<1>1. r \in Requests  BY RequestFacts, RequestFields
<1>2. r.pc = pc /\ r.new = call[c].new /\ r.k = call[c].k  BY RequestFacts, RequestFields
<1>3. call' = [call EXCEPT ![c] = r]  BY RequestFacts DEF Goto
<1>4. Right(r, status')  OBVIOUS
<1> HIDE DEF r
<1>5. PICK v \in Requests : v = r  BY <1>1
<1>6. Right(v, status')  BY <1>4, <1>5
<1> QED BY <1>2, <1>3, <1>5, <1>6, OneRequest

LEMMA ReadFirstStep == ASSUME IInv, NEW c \in Calls, ReadFirst(c) PROVE IInv'
<1>1. Grown /\ UNCHANGED <<rows, place, status>>  BY DEF ReadFirst, Grown
<1>2. CASE Present = {}  BY <1>1, <1>2, FinishStep, Whole DEF ReadFirst
<1>3. CASE Present # {}
  <2>1. PICK pc \in {"key", "ensure"} : pc = IF call[c].new THEN "key" ELSE "ensure"
    OBVIOUS
  <2> DEFINE r == [call[c] EXCEPT !.pc = pc, !.s = First]
  <2>2. /\ At(c, "first") /\ call' = [call EXCEPT ![c] = r] /\ call[c].w \in Trees
        /\ ~call[c].new => call[c].k \in Tasks
    BY <1>3, <2>1, RequestFacts DEF ReadFirst, Right, At
  <2>3. First \in Statuses
    BY <1>3, FirstAndLast DEF IInv, ReferencesWhole, Present
  <2>4. r \in Requests  BY <2>3, RequestFacts, RequestFields DEF CallStates
  <2>5. /\ r.pc = pc /\ r.w = call[c].w /\ r.k = call[c].k /\ r.s = First
        /\ r.new = call[c].new
    BY RequestFacts, RequestFields
  <2> HIDE DEF r
  <2>6. PICK v \in Requests : v = r  BY <2>4
  <2>7. Right(v, status')  BY <2>1, <2>2, <2>3, <2>5, <2>6 DEF Right
  <2>8. v.pc # "label" /\ call' = [call EXCEPT ![c] = v]  BY <2>2, <2>5, <2>6
  <2> QED BY <1>1, <2>7, <2>8, OneRequest, Whole
<1> QED BY <1>2, <1>3

LEMMA PickKeyStep == ASSUME IInv, NEW c \in Calls, PickKey(c) PROVE IInv'
<1>1. Grown /\ UNCHANGED <<rows, place, status>>  BY DEF PickKey, Grown
<1> DEFINE r == [call[c] EXCEPT !.pc = "insert", !.k = NextKey]
<1>2. NextKey \in Local /\ At(c, "key") /\ call' = [call EXCEPT ![c] = r]
  BY RequestFacts DEF PickKey
<1>3. NextKey \in Tasks  BY <1>2 DEF Tasks
<1>4. r \in Requests  BY <1>3, RequestFacts, RequestFields DEF CallStates
<1>5. /\ r.pc = "insert" /\ r.w = call[c].w /\ r.k = NextKey /\ r.s = call[c].s
      /\ call[c].w \in Trees /\ call[c].s \in Statuses
  BY <1>2, RequestFacts, RequestFields DEF Right, At
<1> HIDE DEF r
<1>6. PICK v \in Requests : v = r  BY <1>4
<1>7. Right(v, status')  BY <1>2, <1>5, <1>6 DEF Right
<1>8. v.pc # "label" /\ call' = [call EXCEPT ![c] = v]  BY <1>2, <1>5, <1>6
<1> QED BY <1>1, <1>7, <1>8, OneRequest, Whole

\* A status is written to a task.
LEMMA StatusWritten ==
  ASSUME IInv, NEW t \in Tasks, NEW s \in Statuses, place[s] # Nil,
         status' = [status EXCEPT ![t] = s]
  PROVE  /\ Grown /\ status' \in [Tasks -> Statuses \cup {Nil}]
         /\ status'[t] = s /\ s # Nil
         /\ UNCHANGED place => StatusKept'
         /\ UNCHANGED label => LabelHasTask'
<1>1. status \in [Tasks -> Statuses \cup {Nil}] /\ label \in [Trees -> Tasks \cup {Nil}]
      /\ StatusKept /\ LabelHasTask
  BY DEF IInv, ReferencesWhole, TypeOK
<1>2. s # Nil  BY TasksAssumption DEF Statuses
<1>3. \A u \in Tasks : status'[u] = IF u = t THEN s ELSE status[u]  BY <1>1
<1>4. status' \in [Tasks -> Statuses \cup {Nil}]  BY <1>1
<1>5. Grown  BY <1>2, <1>3 DEF Grown
<1>6. UNCHANGED place => StatusKept'  BY <1>1, <1>3 DEF StatusKept
<1>7. UNCHANGED label => LabelHasTask'  BY <1>1, <1>5 DEF Grown, LabelHasTask
<1> QED BY <1>2, <1>3, <1>4, <1>5, <1>6, <1>7

LEMMA InsertLocalStep == ASSUME IInv, NEW c \in Calls, InsertLocal(c) PROVE IInv'
<1>1. /\ At(c, "insert") /\ UNCHANGED <<rows, place>> /\ call[c].k \in Local
      /\ call[c].k \in Tasks /\ call[c].s \in Statuses /\ call[c].w \in Trees
      /\ call[c] \in Requests
  BY RequestFacts DEF InsertLocal, Right, At, Tasks
<1>2. CASE Finish(c) /\ UNCHANGED status
  BY <1>1, <1>2, FinishStep, Whole DEF Grown
<1>3. CASE /\ status[call[c].k] = Nil /\ place[call[c].s] # Nil
           /\ status' = [status EXCEPT ![call[c].k] = call[c].s] /\ Goto(c, "label")
  <2>1. PICK k \in Tasks, s \in Statuses : k = call[c].k /\ s = call[c].s  BY <1>1
  <2>2. /\ Grown /\ status' \in [Tasks -> Statuses \cup {Nil}] /\ status'[k] # Nil
        /\ StatusKept' /\ LabelHasTask'
    BY <1>1, <1>3, <2>1, StatusWritten DEF rows
  <2> DEFINE r == [call[c] EXCEPT !.pc = "label"]
  <2>3. /\ r.pc = "label" /\ r.w = call[c].w /\ r.k = k /\ r.new = call[c].new
    BY <1>1, <2>1, RequestFields
  <2> HIDE DEF r
  <2>4. k # Nil  BY TasksAssumption
  <2>5. Right(r, status')  BY <1>1, <2>2, <2>3, <2>4 DEF Right
  <2>6. \A d \in Calls \ {c} : call[d].new /\ At(d, "label") => call[d].k # call[c].k
    <3> SUFFICES ASSUME NEW d \in Calls, call[d].new, At(d, "label"), call[d].k = k
                 PROVE  FALSE
      BY <2>1
    <3>1. status[call[d].k] # Nil  BY <2>4, RequestFacts DEF Right, At
    <3> QED BY <1>3, <2>1, <3>1
  <2>7. call' \in [Calls -> Requests] /\ RequestsRight' /\ NewTasksDistinct'
    BY <1>3, <2>2, <2>5, <2>6, GotoStep DEF CallStates, r
  <2> QED BY <1>1, <2>2, <2>7 DEF IInv, ReferencesWhole, TypeOK, rows
<1> QED BY <1>2, <1>3 DEF InsertLocal

LEMMA EnsureStep == ASSUME IInv, NEW c \in Calls, Ensure(c) PROVE IInv'
<1>1. /\ At(c, "ensure") /\ UNCHANGED <<rows, place>> /\ call[c].k \in Tasks
      /\ call[c].w \in Trees /\ call[c] \in Requests /\ ~call[c].new
      /\ call[c].s \in Statuses
  BY RequestFacts DEF Ensure, Right, At
<1>2. CASE Finish(c) /\ UNCHANGED status
  BY <1>1, <1>2, FinishStep, Whole DEF Grown
<1>3. CASE /\ status[call[c].k] # Nil \/ place[call[c].s] # Nil
           /\ status' = [status EXCEPT ![call[c].k] = IF @ = Nil THEN call[c].s ELSE @]
           /\ Goto(c, "label")
  <2>1. PICK k \in Tasks : k = call[c].k  BY <1>1
  <2>2. status \in [Tasks -> Statuses \cup {Nil}] /\ StatusKept
    BY DEF IInv, ReferencesWhole, TypeOK
  <2>3. PICK f \in Statuses : f = call[c].s  BY <1>1
  <2>4. PICK s \in Statuses : s = IF status[k] = Nil THEN f ELSE status[k]  BY <2>2
  <2>5. place[s] # Nil /\ status' = [status EXCEPT ![k] = s]
    <3>1. place[s] # Nil  BY <1>3, <2>1, <2>2, <2>3, <2>4 DEF StatusKept
    <3>2. status' = [status EXCEPT ![k] = IF status[k] = Nil THEN f ELSE status[k]]
      BY <1>3, <2>1, <2>2, <2>3
    <3> QED BY <2>4, <3>1, <3>2
  <2>6. /\ Grown /\ status' \in [Tasks -> Statuses \cup {Nil}] /\ status'[k] # Nil
        /\ StatusKept' /\ LabelHasTask'
    BY <1>1, <2>5, StatusWritten DEF rows
  <2> DEFINE r == [call[c] EXCEPT !.pc = "label"]
  <2>7. /\ r.pc = "label" /\ r.w = call[c].w /\ r.k = k /\ r.new = call[c].new
    BY <1>1, <2>1, RequestFields
  <2> HIDE DEF r
  <2>8. Right(r, status')  BY <1>1, <2>6, <2>7 DEF Right
  <2>9. call' \in [Calls -> Requests] /\ RequestsRight' /\ NewTasksDistinct'
    BY <1>1, <1>3, <2>6, <2>8, GotoStep DEF CallStates, r
  <2> QED BY <1>1, <2>6, <2>9 DEF IInv, ReferencesWhole, TypeOK, rows
<1> QED BY <1>2, <1>3 DEF Ensure

LEMMA SetLabelStep == ASSUME IInv, NEW c \in Calls, SetLabel(c) PROVE IInv'
<1>1. /\ At(c, "label") /\ UNCHANGED <<tree, place, status>> /\ Grown
      /\ call[c].k \in Tasks \cup {Nil} /\ call[c].old \in Tasks \cup {Nil}
      /\ call[c].w \in Trees
      /\ call[c].k # Nil => status[call[c].k] # Nil
  BY RequestFacts DEF SetLabel, Right, At, Grown
<1>2. CASE Finish(c) /\ UNCHANGED label
  BY <1>1, <1>2, FinishStep, Whole DEF rows
<1>3. CASE /\ label' = [label EXCEPT ![call[c].w] = call[c].k]
           /\ Settle(c, IF call[c].old = call[c].k THEN Named(call[c].k)
                        ELSE Named(call[c].old) \o Named(call[c].k))
  <2>1. PICK todo \in Todos :
          todo = IF call[c].old = call[c].k THEN Named(call[c].k)
                 ELSE Named(call[c].old) \o Named(call[c].k)
    BY <1>1, NamedTodo
  <2>2. Settle(c, todo)  BY <1>3, <2>1
  <2>3. call' \in [Calls -> Requests] /\ RequestsRight' /\ NewTasksDistinct'
    BY <1>1, <2>2, SettleStep
  <2>4. label \in [Trees -> Tasks \cup {Nil}] /\ LabelHasTask
    BY DEF IInv, ReferencesWhole, TypeOK
  <2>5. label' \in [Trees -> Tasks \cup {Nil}] /\ LabelHasTask'
    BY <1>1, <1>3, <2>4 DEF LabelHasTask
  <2> QED BY <1>1, <2>3, <2>5 DEF IInv, ReferencesWhole, TypeOK, StatusKept
<1> QED BY <1>2, <1>3 DEF SetLabel

LEMMA SetRowStep == ASSUME IInv, NEW c \in Calls, SetRow(c) PROVE IInv'
<1>1. /\ UNCHANGED <<place, status>> /\ Grown /\ call[c].k \in Tasks \cup {Nil}
      /\ Settle(c, Named(call[c].k))
  BY RequestFacts DEF SetRow, Grown
<1>2. PICK todo \in Todos : todo = Named(call[c].k)  BY <1>1, NamedTodo
<1>3. call' \in [Calls -> Requests] /\ RequestsRight' /\ NewTasksDistinct'
  BY <1>1, <1>2, SettleStep
<1>4. /\ tree \in [Trees -> {"none", "active", "archived", "gone"}]
      /\ label \in [Trees -> Tasks \cup {Nil}] /\ LabelHasTask
  BY DEF IInv, ReferencesWhole, TypeOK
<1>5. PICK new \in {"archived", "active", "gone"} :
        /\ tree' = [tree EXCEPT ![call[c].w] = IF @ = "gone" THEN "gone" ELSE new]
        /\ label' = [label EXCEPT ![call[c].w] = IF new = "gone" THEN Nil ELSE @]
  BY DEF SetRow
<1>6. tree' \in [Trees -> {"none", "active", "archived", "gone"}]  BY <1>4, <1>5
<1>7. label' \in [Trees -> Tasks \cup {Nil}] /\ LabelHasTask'
  BY <1>1, <1>4, <1>5 DEF LabelHasTask
<1> QED BY <1>1, <1>3, <1>6, <1>7 DEF IInv, ReferencesWhole, TypeOK, StatusKept

LEMMA NextTaskStep ==
  ASSUME IInv, Grown, NEW c \in Calls, At(c, "settle") \/ At(c, "move"), NextTask(c)
  PROVE  call' \in [Calls -> Requests] /\ RequestsRight' /\ NewTasksDistinct'
<1>1. call[c].todo \in Todos /\ call[c].todo # <<>>  BY RequestFacts DEF Right, At
<1>2. PICK todo \in Todos : todo = Tail(call[c].todo)  BY <1>1, RestTodo
<1> QED BY <1>2, SettleStep DEF NextTask

LEMMA SettleReadStep == ASSUME IInv, NEW c \in Calls, SettleRead(c) PROVE IInv'
<1>1. At(c, "settle") /\ UNCHANGED <<rows, place, status>> /\ Grown /\ call[c] \in Requests
  BY RequestFacts DEF SettleRead, Grown
<1>2. CASE NextTask(c)  BY <1>1, <1>2, NextTaskStep, Whole
<1>3. ASSUME NEW to \in Statuses, call' = [call EXCEPT ![c] = [@ EXCEPT !.pc = "move", !.s = to]]
      PROVE  IInv'
  <2> DEFINE r == [call[c] EXCEPT !.pc = "move", !.s = to]
  <2>1. call[c].todo # <<>> /\ ~call[c].new  BY <1>1, RequestFacts DEF Right, At
  <2>2. r \in Requests  BY <1>1, RequestFields DEF CallStates
  <2>3. r.pc = "move" /\ r.s = to /\ r.todo = call[c].todo /\ r.new = call[c].new
    BY <1>1, RequestFields
  <2>4. call' = [call EXCEPT ![c] = r]  BY <1>3, RequestFacts
  <2> HIDE DEF r
  <2>5. PICK v \in Requests : v = r  BY <2>2
  <2>6. Right(v, status')  BY <2>1, <2>3, <2>5 DEF Right
  <2>7. call' = [call EXCEPT ![c] = v] /\ ~v.new  BY <2>1, <2>3, <2>4, <2>5
  <2> QED BY <1>1, <2>6, <2>7, OneRequest, Whole
<1>4. ASSUME Present # {}, NEW t, NEW s, Target(t, s) # Nil  PROVE Target(t, s) \in Statuses
  BY <1>4, FirstAndLast DEF Target, IInv, ReferencesWhole, Present
<1> QED BY <1>2, <1>3, <1>4 DEF SettleRead

LEMMA SettleMoveStep == ASSUME IInv, NEW c \in Calls, SettleMove(c) PROVE IInv'
<1>1. /\ At(c, "move") /\ UNCHANGED <<rows, place>> /\ NextTask(c)
      /\ call[c].todo \in Todos /\ call[c].todo # <<>> /\ call[c].s \in Statuses
  BY RequestFacts DEF SettleMove, Right, At
<1>2. CASE UNCHANGED status
  <2>1. Grown  BY <1>2 DEF Grown
  <2> QED BY <1>1, <1>2, <2>1, NextTaskStep, Whole
<1>3. CASE place[call[c].s] # Nil /\ status' = [status EXCEPT ![Settling(c)] = call[c].s]
  <2>1. Settling(c) \in Tasks  BY <1>1, RestTodo DEF Settling
  <2>2. PICK t \in Tasks, s \in Statuses : t = Settling(c) /\ s = call[c].s  BY <1>1, <2>1
  <2>3. /\ Grown /\ status' \in [Tasks -> Statuses \cup {Nil}]
        /\ StatusKept' /\ LabelHasTask'
    BY <1>1, <1>3, <2>2, StatusWritten DEF rows
  <2>4. call' \in [Calls -> Requests] /\ RequestsRight' /\ NewTasksDistinct'
    BY <1>1, <2>3, NextTaskStep
  <2> QED BY <1>1, <2>3, <2>4 DEF IInv, ReferencesWhole, TypeOK, rows
<1> QED BY <1>2, <1>3 DEF SettleMove

LEMMA DeletionStep ==
  ASSUME IInv, NEW c \in Calls, CountStatuses(c) \/ DropStatus(c)
  PROVE  IInv'
<1>1. UNCHANGED <<rows, status>> /\ Grown  BY DEF CountStatuses, DropStatus, Grown
<1>2. CASE CountStatuses(c)
  <2>1. UNCHANGED place /\ At(c, "total") /\ call[c] \in Requests /\ call[c].s \in Statuses
        /\ ~call[c].new
    BY <1>2, RequestFacts DEF CountStatuses, At, Right
  <2>2. CASE Finish(c)  BY <1>1, <2>1, <2>2, FinishStep, Whole
  <2>3. CASE Goto(c, "delete")
    <3> DEFINE r == [call[c] EXCEPT !.pc = "delete"]
    <3>1. r.pc = "delete" /\ r.s = call[c].s /\ r.new = call[c].new  BY <2>1, RequestFields
    <3> HIDE DEF r
    <3>2. Right(r, status')  BY <2>1, <3>1 DEF Right
    <3> QED BY <1>1, <2>1, <2>3, <3>2, GotoStep, Whole DEF CallStates, r
  <2> QED BY <1>2, <2>2, <2>3 DEF CountStatuses
<1>3. CASE DropStatus(c)
  <2>1. Finish(c) /\ call[c].s \in Statuses  BY <1>3, RequestFacts DEF DropStatus, At, Right
  <2>2. call' \in [Calls -> Requests] /\ RequestsRight' /\ NewTasksDistinct'
    BY <1>1, <2>1, FinishStep
  <2>3. /\ place \in [Statuses -> (0..MaxStatus) \cup {Nil}] /\ StatusKept
        /\ status \in [Tasks -> Statuses \cup {Nil}]
    BY DEF IInv, ReferencesWhole, TypeOK
  <2>4. place' \in [Statuses -> (0..MaxStatus) \cup {Nil}]  BY <1>3, <2>3 DEF DropStatus
  <2>5. StatusKept'
    <3>1. CASE place' = place  BY <1>1, <2>3, <3>1 DEF StatusKept
    <3>2. CASE /\ \A t \in Tasks : status[t] # call[c].s
               /\ place' = [place EXCEPT ![call[c].s] = Nil]
      BY <1>1, <2>1, <2>3, <3>2 DEF StatusKept
    <3> QED BY <1>3, <3>1, <3>2 DEF DropStatus
  <2> QED BY <1>1, <2>2, <2>4, <2>5 DEF IInv, ReferencesWhole, TypeOK, LabelHasTask, rows
<1> QED BY <1>2, <1>3

LEMMA EditStep == ASSUME IInv, Edit PROVE IInv'
<1>0. /\ TypeOK /\ StatusKept /\ LabelHasTask
      /\ place \in [Statuses -> (0..MaxStatus) \cup {Nil}]
      /\ status \in [Tasks -> Statuses \cup {Nil}]
  BY DEF IInv, ReferencesWhole, TypeOK
<1>1. /\ MaxStatus \in Nat /\ Present \in SUBSET (1..MaxStatus) /\ Nil \notin Nat
      /\ \A s \in Present : place[s] \in 0..MaxStatus
      /\ Cardinality(Present) \in 0..MaxStatus
  BY <1>0, Places DEF Statuses
<1>2. UNCHANGED call /\ Grown
          => call' \in [Calls -> Requests] /\ RequestsRight' /\ NewTasksDistinct'
  <2> SUFFICES ASSUME UNCHANGED call, Grown
               PROVE  call' \in [Calls -> Requests] /\ RequestsRight' /\ NewTasksDistinct'
    OBVIOUS
  <2>1. call' \in [Calls -> Requests]  BY DEF IInv, ReferencesWhole, TypeOK
  <2>2. ASSUME NEW c \in Calls  PROVE Right(call[c], status')
    BY RequestFacts DEF Right, Grown
  <2> QED BY <2>1, <2>2 DEF IInv, RequestsRight, NewTasksDistinct, At
<1>3. ASSUME NEW t \in Tasks, NEW s \in Statuses, EditTask(t, s)  PROVE IInv'
  <2>1. place[s] # Nil /\ status' = [status EXCEPT ![t] = s] /\ UNCHANGED <<rows, place, call>>
    BY <1>3 DEF EditTask, Present
  <2>2. /\ Grown /\ status' \in [Tasks -> Statuses \cup {Nil}]
        /\ StatusKept' /\ LabelHasTask'
    BY <2>1, StatusWritten DEF rows
  <2> QED BY <1>2, <2>1, <2>2 DEF IInv, ReferencesWhole, TypeOK, rows
<1>4. CASE AddStatus
  <2> DEFINE id == IF Present = {} THEN 1 ELSE 1 + MaxOf(Present)
             pos == IF Present = {} THEN 0 ELSE 1 + MaxOf({place[s] : s \in Present})
  <2>1. /\ id <= MaxStatus /\ pos <= MaxStatus /\ place' = [place EXCEPT ![id] = pos]
        /\ UNCHANGED <<rows, status, call>>
    BY <1>4 DEF AddStatus
  <2>2. id \in Nat /\ id >= 1 /\ pos \in Nat
    <3>1. CASE Present = {}  BY <3>1
    <3>2. CASE Present # {}
      <4>1. \A n \in 1..MaxStatus : n \in 0..MaxStatus  BY <1>1
      <4>2. Present \in SUBSET (0..MaxStatus)  BY <1>1, <4>1
      <4>3. MaxOf(Present) \in Present  BY <1>1, <3>2, <4>2, Greatest
      <4>4. {place[s] : s \in Present} \in SUBSET (0..MaxStatus)  BY <1>1
      <4>5. {place[s] : s \in Present} # {}  BY <3>2
      <4>6. MaxOf({place[s] : s \in Present}) \in {place[s] : s \in Present}
        BY <1>1, <4>4, <4>5, Greatest
      <4>7. MaxOf(Present) \in 0..MaxStatus
            /\ MaxOf({place[s] : s \in Present}) \in 0..MaxStatus
        BY <4>2, <4>3, <4>4, <4>6
      <4> QED BY <1>1, <3>2, <4>7
    <3> QED BY <3>1, <3>2
  <2> HIDE DEF id, pos
  <2>3. id \in Statuses /\ pos \in 0..MaxStatus  BY <1>1, <2>1, <2>2 DEF Statuses
  <2>4. place' \in [Statuses -> (0..MaxStatus) \cup {Nil}]  BY <1>0, <2>1, <2>3
  <2>5. pos # Nil  BY <1>1, <2>2
  <2>6. StatusKept'  BY <1>0, <2>1, <2>3, <2>5 DEF StatusKept
  <2>7. Grown  BY <2>1 DEF Grown
  <2> QED BY <1>2, <2>1, <2>4, <2>6, <2>7 DEF IInv, ReferencesWhole, TypeOK, LabelHasTask, rows
<1>5. ASSUME NEW order \in Orders, Reorder(order)  PROVE IInv'
  <2>1. /\ place' = [s \in Statuses |-> IF s \in Present THEN order[s] - 1 ELSE Nil]
        /\ UNCHANGED <<rows, status, call>>
    BY <1>5 DEF Reorder
  <2>2. ASSUME NEW s \in Present  PROVE order[s] - 1 \in 0..MaxStatus /\ order[s] - 1 # Nil
    <3>1. order[s] \in 1..Cardinality(Present)  BY DEF Orders
    <3>2. order[s] - 1 \in 0..MaxStatus /\ order[s] - 1 \in Nat  BY <1>1, <3>1
    <3> QED BY <1>1, <3>2
  <2>3. place' \in [Statuses -> (0..MaxStatus) \cup {Nil}]  BY <2>1, <2>2
  <2>4. \A s \in Statuses : place[s] # Nil => place'[s] # Nil  BY <2>1, <2>2 DEF Present
  <2>5. StatusKept'  BY <1>0, <2>1, <2>4 DEF StatusKept
  <2>6. Grown  BY <2>1 DEF Grown
  <2> QED BY <1>2, <2>1, <2>3, <2>5, <2>6 DEF IInv, ReferencesWhole, TypeOK, LabelHasTask, rows
<1> QED BY <1>3, <1>4, <1>5 DEF Edit

-----------------------------------------------------------------------------
LEMMA InitInv == ASSUME Init PROVE IInv
<1>0. MaxStatus \in Nat /\ MaxStatus > 1 /\ Nil \notin Nat  BY TasksAssumption
<1>1. /\ \A c \in Calls : call[c] = IdleCall
      /\ \A t \in Tasks : status[t] = Nil
      /\ \A w \in Trees : label[w] = Nil
  BY DEF Init
<1>2. call \in [Calls -> Requests]  BY RequestFields DEF Init
<1>3. place \in [Statuses -> (0..MaxStatus) \cup {Nil}]
  <2>1. \A s \in Statuses : s <= 2 => s - 1 \in 0..MaxStatus  BY <1>0 DEF Statuses
  <2> QED BY <2>1 DEF Init
<1>4. TypeOK  BY <1>2, <1>3 DEF Init, TypeOK
<1>5. RequestsRight  BY <1>1 DEF RequestsRight, Right, IdleCall
<1>6. NewTasksDistinct  BY <1>1 DEF NewTasksDistinct, At, IdleCall
<1>7. StatusKept /\ LabelHasTask  BY DEF Init, StatusKept, LabelHasTask
<1> QED BY <1>4, <1>5, <1>6, <1>7 DEF IInv, ReferencesWhole

LEMMA StepInv == ASSUME IInv, [Next]_vars PROVE IInv'
<1>1. CASE UNCHANGED vars
  BY <1>1 DEF IInv, ReferencesWhole, TypeOK, StatusKept, LabelHasTask, RequestsRight,
     NewTasksDistinct, At, vars, rows
<1>2. CASE Edit  BY <1>2, EditStep
<1>3. ASSUME NEW c \in Calls, Request(c)  PROVE IInv'  BY <1>3, RequestStep
<1>4. ASSUME NEW c \in Calls, Progress(c)  PROVE IInv'
  BY <1>4, ReadFirstStep, PickKeyStep, InsertLocalStep, EnsureStep, SetLabelStep, SetRowStep,
     SettleReadStep, SettleMoveStep, DeletionStep DEF Progress
<1> QED BY <1>1, <1>2, <1>3, <1>4 DEF Next

LEMMA InvAlways == Spec => []IInv
<1> QED BY InitInv, StepInv, PTL DEF Spec

\* However requests and edits overlap between their statements (store/tasks.go,
\* api/tasks.go), a worktree's task and a task's status are there: the foreign key
\* refuses what was read too early.
THEOREM ReferencesStayWhole == Spec => []ReferencesWhole
<1>1. IInv => ReferencesWhole  BY DEF IInv
<1> QED BY <1>1, InvAlways, PTL

\* Of the requests that compute the same key for a new task, one goes on
\* (CreateLocalTask's insert, store/tasks.go).
THEOREM NewTasksStayDistinct == Spec => []NewTasksDistinct
<1>1. IInv => NewTasksDistinct  BY DEF IInv
<1> QED BY <1>1, InvAlways, PTL

\* The history variable of TasksInStep changes none of this.
THEOREM PromiseKeepsReferences == PSpec => [](ReferencesWhole /\ NewTasksDistinct)
<1>1. PSpec => Spec
  <2>1. PInit => Init  BY DEF PInit
  <2>2. [PNext]_pvars => [Next]_vars  BY DEF PNext, pvars
  <2> QED BY <2>1, <2>2, PTL DEF PSpec, Spec
<1> QED BY <1>1, ReferencesStayWhole, NewTasksStayDistinct, PTL
-----------------------------------------------------------------------------
(***************************************************************************)
(* What a settle promises (TasksInStep).                                   *)
(***************************************************************************)
\* What a request's operation says of its record.
Shape(r) ==
  /\ r.pc = "row" => r.op \in {"archive", "unarchive", "remove"}
  /\ r.pc \in {"first", "key", "insert", "ensure", "label"} => r.op = "label"
  /\ r.pc \in {"settle", "move"} => r.w = Nil

\* A request alone on its worktree finds the row as it has read it.
Current(c) ==
  c \notin disturbed /\ call[c].pc \in {"row", "first", "key", "insert", "ensure", "label"} =>
    /\ Row(call[c].w)
    /\ label[call[c].w] = IF call[c].pc = "row" THEN call[c].k ELSE call[c].old

\* A task is at the status its worktrees ask for; s is the one to move it to.
InTune(t) == IF ActiveOn(t) THEN First # Last => status[t] # Last ELSE status[t] = Last
Suits(t, s) ==
  \/ s = Last /\ ~ActiveOn(t)
  \/ s = First /\ First # Last /\ ActiveOn(t)

\* A request will still settle t.
Due(c, t) ==
  \/ At(c, "label") /\ call[c].k = t
  \/ call[c].pc \in {"settle", "move"} /\ \E i \in DOMAIN call[c].todo : call[c].todo[i] = t

Calm(t) ==
  /\ \A c \in Calls : At(c, "move") /\ Settling(c) = t => Suits(t, call[c].s)
  /\ status[t] # Nil => InTune(t) \/ \E c \in Calls : Due(c, t)

RowsHaveLabels == \A w \in Trees : ~Row(w) => label[w] = Nil
Shaped == \A c \in Calls : Shape(call[c]) /\ Current(c) /\ (Shares(c) => c \in disturbed)
TasksCalm == \A t \in Tasks \ disturbed : Calm(t)

HInv == IInv /\ RowsHaveLabels /\ Shaped /\ TasksCalm

\* What Disturb leaves undisturbed.
LEMMA History ==
  ASSUME Disturb
  PROVE  /\ \A c \in Calls : c \notin disturbed' =>
              ~Shares(c)' /\ (c \in disturbed => At(c, "idle")')
         /\ \A t \in Tasks : t \notin disturbed' =>
              /\ t \in disturbed => Resettled(t)
              /\ status'[t] # status[t] => call' # call
              /\ place' = place /\ ~Clash(t)'
              /\ \A c \in Calls : c \in disturbed => ~Concerns(c, t) /\ ~Concerns(c, t)'
<1> DEFINE shared == {c \in Calls : Shares(c)' \/ (c \in disturbed /\ ~At(c, "idle")')}
           tasks == {t \in Tasks :
             \/ t \in disturbed /\ ~Resettled(t)
             \/ status'[t] # status[t] /\ call' = call
             \/ place' # place
             \/ Clash(t)'
             \/ \E c \in Calls : /\ c \in shared \cup disturbed
                                 /\ Concerns(c, t) \/ Concerns(c, t)'}
<1>1. disturbed' = tasks \cup shared  BY DEF Disturb
<1>2. ASSUME NEW c \in Calls, c \notin disturbed'
      PROVE  ~Shares(c)' /\ (c \in disturbed => At(c, "idle")')
  <2>1. c \notin shared  BY <1>1, <1>2
  <2> QED BY <2>1
<1>3. ASSUME NEW t \in Tasks, t \notin disturbed'
      PROVE  /\ t \in disturbed => Resettled(t)
             /\ status'[t] # status[t] => call' # call
             /\ place' = place /\ ~Clash(t)'
             /\ \A c \in Calls : c \in disturbed => ~Concerns(c, t) /\ ~Concerns(c, t)'
  <2>1. t \notin tasks  BY <1>1, <1>3
  <2>2. /\ ~(t \in disturbed /\ ~Resettled(t))
        /\ ~(status'[t] # status[t] /\ call' = call)
        /\ ~(place' # place)
        /\ ~Clash(t)'
        /\ ~(\E c \in Calls : /\ c \in shared \cup disturbed
                              /\ Concerns(c, t) \/ Concerns(c, t)')
    BY <2>1
  <2>3. \A c \in Calls : c \in disturbed => ~Concerns(c, t) /\ ~Concerns(c, t)'
    <3> HIDE DEF shared, tasks
    <3> QED BY <2>2
  <2> QED BY <2>2, <2>3
<1> QED BY <1>2, <1>3

\* Only one that has not been alone on its worktree shares it now.
LEMMA AloneWas ==
  ASSUME Shaped, Disturb, NEW c \in Calls, NEW d \in Calls \ {c}, c \notin disturbed',
         call[c].w # Nil, call[c].w = call[d].w, ~At(c, "idle"), ~At(d, "idle"),
         call'[c] = call[c]
  PROVE  FALSE
<1>1. Shares(c)  BY DEF Shares
<1>2. c \in disturbed  BY <1>1 DEF Shaped
<1>3. At(c, "idle")'  BY <1>2, History
<1> QED BY <1>3 DEF At

\* What a request's step may do to a task that stays undisturbed: it is in tune,
\* or the request will still settle it, and says which way it goes.
Kept(d, t) ==
  /\ At(d, "move")' /\ Settling(d)' = t => Suits(t, call[d].s)'
  /\ ~(ActiveOn(t)' <=> ActiveOn(t)) =>
       /\ Due(d, t)' /\ ~At(d, "move")'
       /\ Way(d, t)' = IF ActiveOn(t)' THEN "up" ELSE "down"
  /\ status'[t] # status[t] \/ Due(d, t) => status'[t] = Nil \/ InTune(t)' \/ Due(d, t)'

LEMMA DueConcerns == ASSUME NEW c, NEW t, Due(c, t)  PROVE Concerns(c, t)
<1>1. CASE At(c, "label") /\ call[c].k = t  BY <1>1 DEF Concerns
<1>2. CASE \E i \in DOMAIN call[c].todo : call[c].todo[i] = t  BY <1>2 DEF Concerns
<1> QED BY <1>1, <1>2 DEF Due

LEMMA DueConcernsNext == ASSUME NEW c, NEW t, Due(c, t)'  PROVE Concerns(c, t)'
<1>1. CASE At(c, "label")' /\ call'[c].k = t  BY <1>1 DEF Concerns
<1>2. CASE \E i \in DOMAIN call'[c].todo : call'[c].todo[i] = t  BY <1>2 DEF Concerns
<1> QED BY <1>1, <1>2 DEF Due

\* What is to be settled first is to be settled.
LEMMA SettlingDue ==
  ASSUME IInv, NEW c \in Calls, call[c].pc \in {"settle", "move"}
  PROVE  /\ Settling(c) \in Tasks /\ Due(c, Settling(c))
         /\ call[c].todo \in Seq(Tasks) /\ call[c].todo # <<>>
<1>1. call[c].todo \in Todos /\ call[c].todo # <<>>  BY RequestFacts DEF Right
<1>2. call[c].todo \in Seq(Tasks) /\ Head(call[c].todo) \in Tasks  BY <1>1, RestTodo, TodoIs
<1>3. 1 \in DOMAIN call[c].todo /\ call[c].todo[1] = Head(call[c].todo)
  <2>1. Len(call[c].todo) \in Nat /\ Len(call[c].todo) > 0 /\ DOMAIN call[c].todo = 1..Len(call[c].todo)
    BY <1>1, <1>2, EmptySeq, LenProperties
  <2> QED BY <1>1, <1>2, <2>1
<1> QED BY <1>1, <1>2, <1>3 DEF Due, Settling

LEMMA TaskKept ==
  ASSUME HInv, IInv', Disturb, NEW d \in Calls, NEW t \in Tasks, t \notin disturbed',
         \A c \in Calls \ {d} : call'[c] = call[c], Kept(d, t)
  PROVE  Calm(t)'
<1>0. /\ t \in disturbed => Resettled(t)
      /\ place' = place /\ ~Clash(t)'
  BY History
<1>1. First' = First /\ Last' = Last  BY <1>0 DEF First, Last, Present, Before
<1>2. ASSUME t \in disturbed
      PROVE  Due(d, t) /\ \A c \in Calls \ {d} : ~Concerns(c, t)
  <2>1. PICK e \in Calls : /\ At(e, "settle") /\ Settling(e) = t /\ call'[e] # call[e]
                           /\ \A c \in Calls \ {e} : ~Concerns(c, t)
    BY <1>0, <1>2 DEF Resettled
  <2>2. e = d  BY <2>1
  <2>3. Due(d, t)  BY <2>1, <2>2, SettlingDue DEF HInv, At
  <2> QED BY <2>1, <2>2, <2>3
<1>3. ASSUME NEW c \in Calls \ {d}, At(c, "move")', Settling(c)' = t
      PROVE  Suits(t, call[c].s)'
  <2>1. At(c, "move") /\ Settling(c) = t /\ call'[c] = call[c]
    BY <1>3 DEF At, Settling
  <2>2. Due(c, t) /\ Concerns(c, t)
    BY <2>1, SettlingDue, DueConcerns DEF HInv, At
  <2>3. Suits(t, call[c].s)  BY <1>2, <2>1, <2>2 DEF HInv, TasksCalm, Calm
  <2>4. CASE ActiveOn(t)' <=> ActiveOn(t)
    BY <1>1, <2>1, <2>3, <2>4 DEF Suits
  <2>5. CASE ~(ActiveOn(t)' <=> ActiveOn(t))
    <3>1. Due(d, t)' /\ Way(d, t)' = IF ActiveOn(t)' THEN "up" ELSE "down"
      BY <2>5 DEF Kept
    <3>2. Due(c, t)'  BY <2>1, <2>2 DEF Due, At
    <3>3. Concerns(c, t)' /\ Concerns(d, t)'  BY <3>1, <3>2, DueConcernsNext
    <3>4. Way(c, t)' = IF call[c].s = Last THEN "down" ELSE "up"
      BY <1>1, <1>3, <2>1 DEF Way
    <3>5. Way(c, t)' # Way(d, t)'  BY <2>3, <2>5, <3>1, <3>4 DEF Suits
    <3>6. Clash(t)'  BY <3>3, <3>5 DEF Clash
    <3> QED BY <1>0, <3>6
  <2> QED BY <2>4, <2>5
<1>4. \A c \in Calls : At(c, "move")' /\ Settling(c)' = t => Suits(t, call[c].s)'
  BY <1>3 DEF Kept
<1>5. ASSUME status'[t] # Nil  PROVE InTune(t)' \/ \E c \in Calls : Due(c, t)'
  <2>1. CASE status'[t] # status[t] \/ Due(d, t)  BY <1>5, <2>1 DEF Kept
  <2>2. CASE status'[t] = status[t] /\ ~Due(d, t)
    <3>1. InTune(t) \/ \E c \in Calls : Due(c, t)
      BY <1>2, <1>5, <2>2 DEF HInv, TasksCalm, Calm
    <3>2. ASSUME NEW c \in Calls, Due(c, t)  PROVE Due(c, t)'
      <4>1. call'[c] = call[c]  BY <2>2, <3>2
      <4> QED BY <3>2, <4>1 DEF Due, At
    <3>3. ASSUME InTune(t)  PROVE InTune(t)' \/ Due(d, t)'
      BY <1>1, <2>2, <3>3 DEF Kept, InTune
    <3> QED BY <3>1, <3>2, <3>3
  <2> QED BY <2>1, <2>2
<1> QED BY <1>4, <1>5 DEF Calm

\* The step of request d, if it does to rows and tasks what it may.
RowChanged(d, w) ==
  \/ w = call[d].w /\ ~At(d, "idle")
  \/ ~Row(w) /\ Row(w)' /\ label'[w] = label[w]

LEMMA OneMoves ==
  ASSUME HInv, IInv', Disturb, NEW d \in Calls,
         \A c \in Calls \ {d} : call'[c] = call[c],
         \A w \in Trees : tree'[w] # tree[w] \/ label'[w] # label[w] => RowChanged(d, w),
         RowsHaveLabels', Shape(call[d])',
         d \notin disturbed' => Current(d)',
         \A t \in Tasks \ disturbed' : Kept(d, t)
  PROVE  HInv'
<1>1. ASSUME NEW c \in Calls \ {d}, c \notin disturbed',
             call'[c].pc \in {"row", "first", "key", "insert", "ensure", "label"}
      PROVE  /\ Row(call[c].w)'
             /\ label'[call'[c].w] = IF call'[c].pc = "row" THEN call'[c].k ELSE call'[c].old
  <2>1. call'[c] = call[c]  OBVIOUS
  <2>2. ~At(c, "idle") /\ ~At(c, "idle")'  BY <1>1, <2>1 DEF At
  <2>3. c \notin disturbed  BY <1>1, <2>2, History
  <2>4. /\ Row(call[c].w) /\ call[c].w \in Trees /\ call[c].w # Nil
        /\ label[call[c].w] = IF call[c].pc = "row" THEN call[c].k ELSE call[c].old
    BY <1>1, <2>1, <2>3, RequestFacts, TasksAssumption DEF HInv, Shaped, Current, Right
  <2>5. ~RowChanged(d, call[c].w)
    BY <1>1, <2>1, <2>2, <2>4, AloneWas DEF HInv, RowChanged
  <2>6. tree'[call[c].w] = tree[call[c].w] /\ label'[call[c].w] = label[call[c].w]
    BY <2>4, <2>5
  <2> QED BY <2>1, <2>4, <2>6 DEF Row
<1>2. ASSUME NEW c \in Calls  PROVE Current(c)'
  BY <1>1 DEF Current
<1>3. ASSUME NEW c \in Calls  PROVE Shape(call[c])'
  BY DEF HInv, Shaped
<1>4. ASSUME NEW c \in Calls  PROVE Shares(c)' => c \in disturbed'
  BY History
<1>5. \A t \in Tasks \ disturbed' : Calm(t)'  BY TaskKept
<1> QED BY <1>2, <1>3, <1>4, <1>5 DEF HInv, Shaped, TasksCalm

\* Only rows of a task's worktrees make it active.
LEMMA ActiveStays ==
  ASSUME NEW t, \A w \in Trees : tree'[w] = tree[w] /\ label'[w] = label[w]
  PROVE  ActiveOn(t)' <=> ActiveOn(t)
BY DEF ActiveOn

\* The step of a request that changes neither rows nor tasks, before it settles.
LEMMA PlainKept ==
  ASSUME NEW d \in Calls, NEW t \in Tasks, UNCHANGED <<rows, status>>,
         ~At(d, "move")', ~Due(d, t)
  PROVE  Kept(d, t)
<1>1. ActiveOn(t)' <=> ActiveOn(t)  BY ActiveStays DEF rows
<1> QED BY <1>1 DEF Kept

LEMMA PlainMoves ==
  ASSUME HInv, IInv', Disturb, NEW d \in Calls,
         \A c \in Calls \ {d} : call'[c] = call[c], UNCHANGED <<rows, status>>,
         Shape(call[d])', d \notin disturbed' => Current(d)',
         ~At(d, "move")', call[d].pc \notin {"label", "settle", "move"}
  PROVE  HInv'
<1>1. \A t \in Tasks : ~Due(d, t)  BY DEF Due, At
<1>2. RowsHaveLabels'  BY DEF HInv, RowsHaveLabels, rows, Row
<1> QED BY <1>1, <1>2, PlainKept, OneMoves DEF rows

\* What the record of an idle request says.
LEMMA IdleShape ==
  ASSUME NEW v, v = IdleCall
  PROVE  Shape(v) /\ v.pc = "idle" /\ v.op = Nil /\ v.w = Nil /\ v.k = Nil
         /\ v.todo = <<>> /\ v.old = Nil
BY DEF Shape, IdleCall

LEMMA Finished ==
  ASSUME IInv, NEW d \in Calls, Finish(d)
  PROVE  /\ \A c \in Calls \ {d} : call'[c] = call[c]
         /\ call'[d] = IdleCall /\ Shape(call[d])' /\ ~At(d, "move")' /\ Current(d)'
<1>1. call \in [Calls -> Requests]  BY RequestFacts
<1>2. call'[d] = IdleCall /\ \A c \in Calls \ {d} : call'[c] = call[c]  BY <1>1 DEF Finish
<1>3. Shape(call'[d]) /\ call'[d].pc = "idle"  BY <1>2, IdleShape
<1> QED BY <1>2, <1>3 DEF At, Current, Shape

LEMMA Went ==
  ASSUME IInv, NEW d \in Calls, NEW pc \in CallStates, Goto(d, pc)
  PROVE  /\ \A c \in Calls \ {d} : call'[c] = call[c]
         /\ call'[d].pc = pc /\ call'[d].op = call[d].op /\ call'[d].w = call[d].w
         /\ call'[d].k = call[d].k /\ call'[d].old = call[d].old
         /\ call'[d].todo = call[d].todo /\ call'[d].s = call[d].s
<1>1. call \in [Calls -> Requests] /\ call[d] \in Requests  BY RequestFacts
<1>2. call'[d] = [call[d] EXCEPT !.pc = pc] /\ \A c \in Calls \ {d} : call'[c] = call[c]
  BY <1>1 DEF Goto
<1> QED BY <1>1, <1>2, RequestFields

LEMMA HRequest ==
  ASSUME HInv, IInv', Disturb, NEW d \in Calls, Request(d)
  PROVE  HInv'
<1>0. /\ call \in [Calls -> Requests] /\ label \in [Trees -> Tasks \cup {Nil}]
      /\ tree \in [Trees -> {"none", "active", "archived", "gone"}]
      /\ \A w \in Trees : ~Row(w) => label[w] = Nil
  BY DEF HInv, IInv, ReferencesWhole, TypeOK, RowsHaveLabels
<1>1. ASSUME NEW w \in Trees, NEW ref \in {"clear", "new", "key"}, NEW k \in Tasks \cup {Nil},
             SetTask(d, w, ref, k)
      PROVE  HInv'
  <2>1. /\ At(d, "idle") /\ Row(w) /\ UNCHANGED <<rows, status>>
        /\ call'[d] = [IdleCall EXCEPT !.op = "label", !.pc = Steps(ref), !.w = w,
                          !.new = (ref = "new"), !.k = k, !.old = label[w]]
        /\ \A c \in Calls \ {d} : call'[c] = call[c]
    BY <1>0, <1>1 DEF SetTask, Begin
  <2>2. /\ call'[d].op = "label" /\ call'[d].pc = Steps(ref) /\ call'[d].w = w
        /\ call'[d].old = label[w]
    BY <2>1 DEF IdleCall
  <2>3. Steps(ref) \in {"first", "label"}  BY DEF Steps
  <2>4. Shape(call[d])' /\ ~At(d, "move")'  BY <2>2, <2>3 DEF Shape, At
  <2>5. Current(d)'  BY <2>1, <2>2, <2>3 DEF Current, Row, rows
  <2> QED BY <2>1, <2>4, <2>5, PlainMoves DEF At
<1>2. ASSUME NEW w \in Trees, NEW ref \in {"clear", "new", "key"}, NEW k \in Tasks \cup {Nil},
             Create(d, w, ref, k)
      PROVE  HInv'
  <2>1. /\ At(d, "idle") /\ tree[w] = "none" /\ UNCHANGED <<label, status>>
        /\ tree' = [tree EXCEPT ![w] = "active"]
        /\ call'[d] = [IdleCall EXCEPT !.op = "label", !.pc = Steps(ref), !.w = w,
                          !.new = (ref = "new"), !.k = k]
        /\ \A c \in Calls \ {d} : call'[c] = call[c]
    BY <1>0, <1>2 DEF Create, Begin
  <2>2. /\ call'[d].op = "label" /\ call'[d].pc = Steps(ref) /\ call'[d].w = w
        /\ call'[d].old = Nil
    BY <2>1 DEF IdleCall
  <2>3. Steps(ref) \in {"first", "label"}  BY DEF Steps
  <2>4. Shape(call[d])' /\ ~At(d, "move")'  BY <2>2, <2>3 DEF Shape, At
  <2>5. ~Row(w) /\ label[w] = Nil /\ tree'[w] = "active"
        /\ \A x \in Trees : x # w => tree'[x] = tree[x]
    BY <1>0, <2>1 DEF Row
  <2>6. Current(d)'  BY <2>1, <2>2, <2>3, <2>5 DEF Current, Row
  <2>7. \A x \in Trees : tree'[x] # tree[x] \/ label'[x] # label[x] => RowChanged(d, x)
    BY <2>1, <2>5 DEF RowChanged, Row
  <2>8. RowsHaveLabels'  BY <1>0, <2>1, <2>5 DEF RowsHaveLabels, Row
  <2>9. ASSUME NEW t \in Tasks  PROVE Kept(d, t)
    <3>1. t # Nil  BY TasksAssumption
    <3>2. ActiveOn(t)' <=> ActiveOn(t)  BY <2>1, <2>5, <3>1 DEF ActiveOn
    <3>3. ~Due(d, t)  BY <2>1 DEF Due, At
    <3> QED BY <2>1, <2>4, <3>2, <3>3 DEF Kept
  <2> QED BY <2>1, <2>4, <2>6, <2>7, <2>8, <2>9, OneMoves
<1>3. ASSUME NEW op \in {"archive", "unarchive", "remove"}, NEW w \in Trees, OnTree(d, op, w)
      PROVE  HInv'
  <2>1. /\ At(d, "idle") /\ Row(w) /\ UNCHANGED <<rows, status>>
        /\ call'[d] = [IdleCall EXCEPT !.op = op, !.pc = "row", !.w = w, !.k = label[w]]
        /\ \A c \in Calls \ {d} : call'[c] = call[c]
    BY <1>0, <1>3 DEF OnTree, Begin
  <2>2. call'[d].op = op /\ call'[d].pc = "row" /\ call'[d].w = w /\ call'[d].k = label[w]
    BY <2>1 DEF IdleCall
  <2>3. Shape(call[d])' /\ ~At(d, "move")'  BY <2>2 DEF Shape, At
  <2>4. Current(d)'  BY <2>1, <2>2 DEF Current, Row, rows
  <2> QED BY <2>1, <2>3, <2>4, PlainMoves DEF At
<1>4. ASSUME NEW s \in Statuses, DeleteStatus(d, s)  PROVE HInv'
  <2>1. /\ At(d, "idle") /\ UNCHANGED <<rows, status>>
        /\ call'[d] = [IdleCall EXCEPT !.op = "delstatus", !.pc = "total", !.s = s]
        /\ \A c \in Calls \ {d} : call'[c] = call[c]
    BY <1>0, <1>4 DEF DeleteStatus, Begin
  <2>2. call'[d].pc = "total"  BY <2>1 DEF IdleCall
  <2>3. Shape(call[d])' /\ ~At(d, "move")' /\ Current(d)'  BY <2>2 DEF Shape, At, Current
  <2> QED BY <2>1, <2>3, PlainMoves DEF At
<1> QED BY <1>1, <1>2, <1>3, <1>4 DEF Request, Archive, Unarchive, Remove

\* A request that gives up leaves tasks and rows as they are.
LEMMA HFinish ==
  ASSUME HInv, IInv', Disturb, NEW d \in Calls, Finish(d), UNCHANGED <<rows, status>>,
         call[d].pc \notin {"label", "settle", "move"}
  PROVE  HInv'
<1>1. IInv  BY DEF HInv
<1> QED BY <1>1, Finished, PlainMoves

\* What a request before its label carries on with.
LEMMA StillShaped ==
  ASSUME HInv, Disturb, NEW d \in Calls, NEW pc \in {"key", "ensure", "insert", "label"},
         call[d].pc \in {"first", "key", "insert", "ensure"}, UNCHANGED rows,
         call'[d].pc = pc, call'[d].op = call[d].op, call'[d].w = call[d].w,
         call'[d].old = call[d].old
  PROVE  Shape(call[d])' /\ ~At(d, "move")' /\ (d \notin disturbed' => Current(d)')
<1>1. Shape(call[d]) /\ Current(d)  BY DEF HInv, Shaped
<1>2. d \notin disturbed' => d \notin disturbed  BY History DEF At
<1> QED BY <1>1, <1>2 DEF Shape, At, Current, Row, rows

LEMMA HReadFirst == ASSUME HInv, IInv', Disturb, NEW d \in Calls, ReadFirst(d)  PROVE HInv'
<1>1. call[d].pc = "first" /\ UNCHANGED <<rows, status>>  BY DEF ReadFirst, At
<1>2. CASE Finish(d)  BY <1>1, <1>2, HFinish
<1>3. ASSUME NEW pc \in {"key", "ensure"},
             call' = [call EXCEPT ![d] = [@ EXCEPT !.pc = pc, !.s = First]]
      PROVE  HInv'
  <2>1. call \in [Calls -> Requests] /\ call[d] \in Requests  BY RequestFacts DEF HInv
  <2>2. /\ call'[d].pc = pc /\ call'[d].op = call[d].op /\ call'[d].w = call[d].w
        /\ call'[d].old = call[d].old /\ \A c \in Calls \ {d} : call'[c] = call[c]
    BY <1>3, <2>1, RequestFields
  <2> QED BY <1>1, <2>2, StillShaped, PlainMoves
<1>4. PICK pc \in {"key", "ensure"} : pc = IF call[d].new THEN "key" ELSE "ensure"
  OBVIOUS
<1> QED BY <1>2, <1>3, <1>4 DEF ReadFirst

LEMMA HPickKey == ASSUME HInv, IInv', Disturb, NEW d \in Calls, PickKey(d)  PROVE HInv'
<1>1. /\ call[d].pc = "key" /\ UNCHANGED <<rows, status>>
      /\ call' = [call EXCEPT ![d] = [@ EXCEPT !.pc = "insert", !.k = NextKey]]
  BY DEF PickKey, At
<1>2. call \in [Calls -> Requests] /\ call[d] \in Requests  BY RequestFacts DEF HInv
<1>3. /\ call'[d].pc = "insert" /\ call'[d].op = call[d].op /\ call'[d].w = call[d].w
      /\ call'[d].old = call[d].old /\ \A c \in Calls \ {d} : call'[c] = call[c]
  BY <1>1, <1>2, RequestFields
<1> QED BY <1>1, <1>3, StillShaped, PlainMoves

\* A task that is made, or found, will be labelled and settled.
LEMMA HMade ==
  ASSUME HInv, IInv', Disturb, NEW d \in Calls, call[d].pc \in {"insert", "ensure"},
         Goto(d, "label"), UNCHANGED rows, NEW t \in Tasks, t = call[d].k,
         \A u \in Tasks \ {t} : status'[u] = status[u]
  PROVE  HInv'
<1>0. IInv /\ "label" \in CallStates  BY DEF HInv, CallStates
<1>1. /\ \A c \in Calls \ {d} : call'[c] = call[c]
      /\ call'[d].pc = "label" /\ call'[d].op = call[d].op /\ call'[d].w = call[d].w
      /\ call'[d].k = t /\ call'[d].old = call[d].old
  BY <1>0, Went
<1>2. Shape(call[d])' /\ ~At(d, "move")' /\ (d \notin disturbed' => Current(d)')
  BY <1>1, StillShaped
<1>3. Due(d, t)'  BY <1>1 DEF Due, At
<1>4. ASSUME NEW u \in Tasks  PROVE Kept(d, u)
  <2>1. ActiveOn(u)' <=> ActiveOn(u)  BY ActiveStays DEF rows
  <2>2. ~Due(d, u)  BY DEF Due, At
  <2>3. status'[u] # status[u] => u = t  OBVIOUS
  <2> QED BY <1>2, <1>3, <2>1, <2>2, <2>3 DEF Kept
<1>5. RowsHaveLabels'  BY DEF HInv, RowsHaveLabels, rows, Row
<1> QED BY <1>1, <1>2, <1>4, <1>5, OneMoves DEF rows

LEMMA HInsertLocal ==
  ASSUME HInv, IInv', Disturb, NEW d \in Calls, InsertLocal(d)  PROVE HInv'
<1>1. /\ call[d].pc = "insert" /\ UNCHANGED rows /\ call[d].k \in Tasks
      /\ status \in [Tasks -> Statuses \cup {Nil}]
  BY RequestFacts DEF InsertLocal, At, HInv, IInv, ReferencesWhole, TypeOK, Right, Tasks
<1>2. CASE Finish(d) /\ UNCHANGED status  BY <1>1, <1>2, HFinish
<1>3. CASE status' = [status EXCEPT ![call[d].k] = call[d].s] /\ Goto(d, "label")
  <2>1. PICK t \in Tasks : t = call[d].k  BY <1>1
  <2>2. \A u \in Tasks \ {t} : status'[u] = status[u]  BY <1>1, <1>3, <2>1
  <2> QED BY <1>1, <1>3, <2>1, <2>2, HMade
<1> QED BY <1>2, <1>3 DEF InsertLocal

LEMMA HEnsure == ASSUME HInv, IInv', Disturb, NEW d \in Calls, Ensure(d)  PROVE HInv'
<1>1. /\ call[d].pc = "ensure" /\ UNCHANGED rows /\ call[d].k \in Tasks
      /\ status \in [Tasks -> Statuses \cup {Nil}]
  BY RequestFacts DEF Ensure, At, HInv, IInv, ReferencesWhole, TypeOK, Right
<1>2. CASE Finish(d) /\ UNCHANGED status  BY <1>1, <1>2, HFinish
<1>3. CASE /\ status' = [status EXCEPT ![call[d].k] = IF @ = Nil THEN call[d].s ELSE @]
           /\ Goto(d, "label")
  <2>1. PICK t \in Tasks : t = call[d].k  BY <1>1
  <2>2. \A u \in Tasks \ {t} : status'[u] = status[u]  BY <1>1, <1>3, <2>1
  <2> QED BY <1>1, <1>3, <2>1, <2>2, HMade
<1> QED BY <1>2, <1>3 DEF Ensure

\* A request goes on to settle.
LEMMA SettleGoes ==
  ASSUME IInv, NEW d \in Calls, NEW todo \in Todos, Settle(d, todo)
  PROVE  /\ \A c \in Calls \ {d} : call'[c] = call[c]
         /\ Shape(call[d])' /\ Current(d)' /\ ~At(d, "move")'
         /\ \A i \in DOMAIN todo :
              /\ Due(d, todo[i])' /\ call'[d].pc = "settle"
              /\ call'[d].op = call[d].op /\ call'[d].k = call[d].k /\ call'[d].w = Nil
<1>0. call \in [Calls -> Requests]  BY RequestFacts
<1>1. CASE todo = <<>>
  <2>1. Finish(d)  BY <1>1 DEF Settle, Finish
  <2> QED BY <1>1, <2>1, Finished
<1>2. CASE todo # <<>>
  <2>1. /\ call'[d] = [IdleCall EXCEPT !.op = call[d].op, !.pc = "settle", !.k = call[d].k,
                                       !.todo = todo]
        /\ \A c \in Calls \ {d} : call'[c] = call[c]
    BY <1>0, <1>2 DEF Settle
  <2>2. /\ call'[d].op = call[d].op /\ call'[d].pc = "settle" /\ call'[d].k = call[d].k
        /\ call'[d].todo = todo /\ call'[d].w = Nil
    BY <2>1 DEF IdleCall
  <2>3. ASSUME NEW i \in DOMAIN todo  PROVE Due(d, todo[i])'
    BY <2>2 DEF Due
  <2>4. Shape(call[d])' /\ Current(d)' /\ ~At(d, "move")'
    BY <2>2 DEF Shape, Current, At
  <2> QED BY <2>1, <2>2, <2>3, <2>4
<1> QED BY <1>1, <1>2

\* The tasks a relabelled worktree is to settle, and those left for later.
LEMMA LabelTodo ==
  ASSUME NEW k \in Tasks \cup {Nil}, NEW old \in Tasks \cup {Nil}, NEW t \in Tasks, t \in {k, old}
  PROVE  \E i \in DOMAIN (IF old = k THEN Named(k) ELSE Named(old) \o Named(k)) :
           (IF old = k THEN Named(k) ELSE Named(old) \o Named(k))[i] = t
<1>1. t # Nil  BY TasksAssumption
<1>2. CASE old = k
  <2>1. Named(k) = <<t>>  BY <1>1, <1>2 DEF Named
  <2>2. 1 \in DOMAIN <<t>> /\ <<t>>[1] = t  OBVIOUS
  <2> QED BY <1>2, <2>1, <2>2
<1>3. CASE old # k /\ t = old
  <2>1. Named(old) = <<t>>  BY <1>1, <1>3 DEF Named
  <2>2. ASSUME NEW u \in {<<>>, <<k>>}  PROVE 1 \in DOMAIN (<<t>> \o u) /\ (<<t>> \o u)[1] = t
    OBVIOUS
  <2>3. Named(k) \in {<<>>, <<k>>}  BY DEF Named
  <2> QED BY <1>3, <2>1, <2>2, <2>3
<1>4. CASE old # k /\ t = k
  <2>1. Named(k) = <<t>>  BY <1>1, <1>4 DEF Named
  <2>2. CASE old = Nil  BY <1>4, <2>1, <2>2 DEF Named
  <2>3. CASE old # Nil
    <3>1. Named(old) = <<old>>  BY <2>3 DEF Named
    <3>2. 2 \in DOMAIN (<<old>> \o <<t>>) /\ (<<old>> \o <<t>>)[2] = t  OBVIOUS
    <3> QED BY <1>4, <2>1, <3>1, <3>2
  <2> QED BY <2>2, <2>3
<1> QED BY <1>2, <1>3, <1>4

LEMMA TailTodo ==
  ASSUME NEW s \in Todos, s # <<>>, NEW i \in DOMAIN s, s[i] # Head(s)
  PROVE  \E j \in DOMAIN Tail(s) : Tail(s)[j] = s[i]
<1>1. s \in Seq(Tasks)  BY TodoIs
<1>2. Len(s) \in Nat /\ DOMAIN s = 1..Len(s)  BY <1>1, LenProperties
<1>3. /\ Tail(s) \in Seq(Tasks) /\ Len(Tail(s)) = Len(s) - 1
      /\ \A j \in 1..Len(Tail(s)) : Tail(s)[j] = s[j + 1]
  BY <1>1, HeadTailProperties
<1>4. i # 1  BY <1>1
<1>5. DOMAIN Tail(s) = 1..Len(Tail(s))  BY <1>3, LenProperties
<1>6. i - 1 \in 1..Len(Tail(s)) /\ (i - 1) + 1 = i  BY <1>2, <1>3, <1>4
<1> QED BY <1>3, <1>5, <1>6

\* A request that concerns an undisturbed task is undisturbed itself.
LEMMA Alone ==
  ASSUME HInv, Disturb, NEW d \in Calls, NEW t \in Tasks, t \notin disturbed', Concerns(d, t),
         call[d].pc \in {"row", "first", "key", "insert", "ensure", "label"}
  PROVE  Row(call[d].w) /\ label[call[d].w] = IF call[d].pc = "row" THEN call[d].k ELSE call[d].old
BY History DEF HInv, Shaped, Current

LEMMA HSetLabel ==
  ASSUME HInv, IInv', Disturb, NEW d \in Calls, SetLabel(d)  PROVE HInv'
<1> DEFINE w == call[d].w
           k == call[d].k
           old == call[d].old
           todo == IF old = k THEN Named(k) ELSE Named(old) \o Named(k)
<1>0. /\ IInv /\ call[d].pc = "label" /\ UNCHANGED <<tree, status>>
      /\ w \in Trees /\ w # Nil /\ k \in Tasks \cup {Nil} /\ old \in Tasks \cup {Nil}
      /\ label \in [Trees -> Tasks \cup {Nil}] /\ call[d].op = "label"
      /\ RowsHaveLabels
  BY RequestFacts, TasksAssumption
     DEF SetLabel, At, HInv, IInv, ReferencesWhole, TypeOK, Right, Shaped, Shape
<1>1. CASE ~Row(w)
  <2>1. Finish(d) /\ UNCHANGED label  BY <1>1 DEF SetLabel
  <2>2. /\ \A c \in Calls \ {d} : call'[c] = call[c]
        /\ Shape(call[d])' /\ ~At(d, "move")' /\ Current(d)'
    BY <1>0, <2>1, Finished
  <2>3. ASSUME NEW t \in Tasks \ disturbed'  PROVE Kept(d, t)
    <3>1. ~Due(d, t)
      <4>1. SUFFICES ASSUME Due(d, t)  PROVE FALSE  OBVIOUS
      <4>2. Concerns(d, t)  BY <4>1, DueConcerns
      <4> QED BY <1>0, <1>1, <4>2, Alone
    <3> QED BY <1>0, <2>1, <2>2, <3>1, PlainKept DEF rows
  <2>4. RowsHaveLabels'  BY <1>0, <2>1 DEF RowsHaveLabels, Row
  <2> QED BY <1>0, <2>1, <2>2, <2>3, <2>4, OneMoves
<1>2. CASE Row(w)
  <2>1. label' = [label EXCEPT ![w] = k] /\ Settle(d, todo)  BY <1>2 DEF SetLabel
  <2>2. PICK list \in Todos : list = todo
    <3>1. todo \in Todos  BY <1>0, NamedTodo
    <3> QED BY <3>1
  <2>3. /\ \A c \in Calls \ {d} : call'[c] = call[c]
        /\ Shape(call[d])' /\ Current(d)' /\ ~At(d, "move")'
        /\ \A i \in DOMAIN list :
             /\ Due(d, list[i])' /\ call'[d].pc = "settle"
             /\ call'[d].op = call[d].op /\ call'[d].k = call[d].k /\ call'[d].w = Nil
    BY <1>0, <2>1, <2>2, SettleGoes
  <2>4. ASSUME NEW t \in Tasks, t \in {k, old}
        PROVE  /\ Due(d, t)' /\ call'[d].pc = "settle"
               /\ call'[d].op = "label" /\ call'[d].k = k
    <3>0. \E i \in DOMAIN todo : todo[i] = t  BY <1>0, <2>4, LabelTodo
    <3>1. PICK i \in DOMAIN list : list[i] = t  BY <2>2, <3>0, Zenon
    <3> QED BY <1>0, <2>3, <3>1
  <2>5. label'[w] = k /\ \A x \in Trees \ {w} : label'[x] = label[x]  BY <1>0, <2>1
  <2>6. ASSUME NEW t \in Tasks \ disturbed'  PROVE Kept(d, t)
    <3>1. ASSUME ~(ActiveOn(t)' <=> ActiveOn(t))
          PROVE  /\ Due(d, t)' /\ ~At(d, "move")'
                 /\ Way(d, t)' = IF ActiveOn(t)' THEN "up" ELSE "down"
      <4>1. label[w] # k /\ (label[w] = t \/ k = t)  BY <1>0, <2>5, <3>1 DEF ActiveOn
      <4>2. Concerns(d, t)  BY <1>0, <4>1 DEF Concerns
      <4>3. label[w] = old  BY <1>0, <4>2, Alone
      <4>4. /\ Due(d, t)' /\ call'[d].pc = "settle" /\ call'[d].op = "label" /\ call'[d].k = k
        BY <2>4, <4>1, <4>3
      <4>5. ActiveOn(t)' => k = t  BY <1>0, <2>5, <3>1 DEF ActiveOn
      <4>6. ~ActiveOn(t)' => k # t
        BY <1>0, <2>5, <3>1 DEF ActiveOn
      <4> QED BY <2>3, <4>4, <4>5, <4>6 DEF Way, At
    <3>2. ASSUME Due(d, t)  PROVE Due(d, t)'
      <4>1. k = t  BY <1>0, <3>2 DEF Due, At
      <4> QED BY <2>4, <4>1
    <3> QED BY <1>0, <2>3, <3>1, <3>2 DEF Kept
  <2>7. RowsHaveLabels'  BY <1>0, <1>2, <2>5 DEF RowsHaveLabels, Row
  <2>8. \A x \in Trees : tree'[x] # tree[x] \/ label'[x] # label[x] => RowChanged(d, x)
    BY <1>0, <2>5 DEF RowChanged, At
  <2> QED BY <2>3, <2>6, <2>7, <2>8, OneMoves
<1> QED BY <1>1, <1>2

LEMMA HSetRow ==
  ASSUME HInv, IInv', Disturb, NEW d \in Calls, SetRow(d)  PROVE HInv'
<1> DEFINE w == call[d].w
           k == call[d].k
           op == call[d].op
           new == CASE op = "archive" -> "archived" [] op = "unarchive" -> "active"
                    [] OTHER -> "gone"
<1>0. /\ IInv /\ call[d].pc = "row" /\ UNCHANGED status /\ Settle(d, Named(k))
      /\ w \in Trees /\ w # Nil /\ k \in Tasks \cup {Nil}
      /\ tree \in [Trees -> {"none", "active", "archived", "gone"}]
      /\ label \in [Trees -> Tasks \cup {Nil}] /\ op \in {"archive", "unarchive", "remove"}
      /\ RowsHaveLabels
  BY RequestFacts, TasksAssumption
     DEF SetRow, At, HInv, IInv, ReferencesWhole, TypeOK, Right, Shaped, Shape
<1>1. /\ tree' = [tree EXCEPT ![w] = IF @ = "gone" THEN "gone" ELSE new]
      /\ label' = [label EXCEPT ![w] = IF new = "gone" THEN Nil ELSE @]
  BY DEF SetRow
<1>2. /\ tree'[w] = (IF tree[w] = "gone" THEN "gone" ELSE new)
      /\ label'[w] = (IF new = "gone" THEN Nil ELSE label[w])
      /\ \A x \in Trees \ {w} : tree'[x] = tree[x] /\ label'[x] = label[x]
  BY <1>0, <1>1
<1>3. PICK list \in Todos : list = Named(k)  BY <1>0, NamedTodo
<1>4. /\ \A c \in Calls \ {d} : call'[c] = call[c]
      /\ Shape(call[d])' /\ Current(d)' /\ ~At(d, "move")'
      /\ \A i \in DOMAIN list :
           /\ Due(d, list[i])' /\ call'[d].pc = "settle"
           /\ call'[d].op = call[d].op /\ call'[d].k = call[d].k /\ call'[d].w = Nil
  BY <1>0, <1>3, SettleGoes
<1>5. ASSUME NEW t \in Tasks \ disturbed'  PROVE Kept(d, t)
  <2>0. ~Due(d, t) /\ t # Nil  BY <1>0, TasksAssumption DEF Due, At
  <2>1. ASSUME ~(ActiveOn(t)' <=> ActiveOn(t))
        PROVE  /\ Due(d, t)' /\ ~At(d, "move")'
               /\ Way(d, t)' = IF ActiveOn(t)' THEN "up" ELSE "down"
    <3>1. label[w] = t  BY <1>0, <1>2, <2>0, <2>1 DEF ActiveOn
    <3>2. Concerns(d, t)  BY <1>0, <3>1 DEF Concerns
    <3>3. Row(w) /\ k = t  BY <1>0, <3>1, <3>2, Alone
    <3>4. list = <<t>>  BY <1>3, <2>0, <3>3 DEF Named
    <3>5. 1 \in DOMAIN list /\ list[1] = t  BY <3>4
    <3>6. /\ Due(d, t)' /\ call'[d].pc = "settle" /\ call'[d].op = op /\ call'[d].k = t
      BY <1>4, <3>3, <3>5
    <3>7. ActiveOn(t)' => op = "unarchive"
      <4>1. ActiveOn(t)' => tree'[w] = "active"  BY <1>2, <2>1 DEF ActiveOn
      <4> QED BY <1>0, <1>2, <4>1
    <3>8. ~ActiveOn(t)' => op # "unarchive"
      <4>1. ~ActiveOn(t)' => ~(tree'[w] = "active" /\ label'[w] = t)  BY <1>0 DEF ActiveOn
      <4> QED BY <1>0, <1>2, <3>1, <3>3, <4>1 DEF Row
    <3> QED BY <1>0, <1>4, <3>6, <3>7, <3>8 DEF Way, At
  <2> QED BY <1>0, <1>4, <2>0, <2>1 DEF Kept
<1>6. RowsHaveLabels'  BY <1>0, <1>2 DEF RowsHaveLabels, Row
<1>7. \A x \in Trees : tree'[x] # tree[x] \/ label'[x] # label[x] => RowChanged(d, x)
  BY <1>0, <1>2 DEF RowChanged, At
<1> QED BY <1>4, <1>5, <1>6, <1>7, OneMoves

\* What a read or a move of a settle leaves to it.
LEMMA Rest ==
  ASSUME IInv, NEW d \in Calls, call[d].pc \in {"settle", "move"}, NextTask(d)
  PROVE  /\ \A c \in Calls \ {d} : call'[c] = call[c]
         /\ Shape(call[d])' /\ Current(d)' /\ ~At(d, "move")'
         /\ \A t \in Tasks : Due(d, t) => t = Settling(d) \/ Due(d, t)'
<1>1. call[d].todo \in Todos /\ call[d].todo # <<>>  BY RequestFacts DEF Right
<1>2. PICK rest \in Todos : rest = Tail(call[d].todo)  BY <1>1, RestTodo
<1>3. Settle(d, rest)  BY <1>2 DEF NextTask
<1>4. /\ \A c \in Calls \ {d} : call'[c] = call[c]
      /\ Shape(call[d])' /\ Current(d)' /\ ~At(d, "move")'
      /\ \A i \in DOMAIN rest : Due(d, rest[i])'
  BY <1>3, SettleGoes
<1>5. ASSUME NEW t \in Tasks, Due(d, t), t # Settling(d)  PROVE Due(d, t)'
  <2>1. PICK i \in DOMAIN call[d].todo : call[d].todo[i] = t  BY <1>5 DEF Due, At
  <2>2. \E j \in DOMAIN Tail(call[d].todo) : Tail(call[d].todo)[j] = t
    BY <1>1, <1>5, <2>1, TailTodo DEF Settling
  <2>3. PICK j \in DOMAIN rest : rest[j] = t  BY <1>2, <2>2, Zenon
  <2> QED BY <1>4, <2>3
<1> QED BY <1>4, <1>5

\* A task that has a status has one of those there are.
LEMMA StatusThere ==
  ASSUME IInv, NEW t \in Tasks, status[t] # Nil
  PROVE  /\ TypeOK /\ Present # {} /\ First \in Statuses /\ Last \in Statuses
         /\ place[First] # Nil /\ place[Last] # Nil /\ Nil \notin Statuses
<1>1. TypeOK /\ StatusKept /\ status[t] \in Statuses
  BY DEF IInv, ReferencesWhole, TypeOK
<1>2. Present # {}  BY <1>1 DEF StatusKept, Present
<1>3. First \in Present /\ Last \in Present  BY <1>1, <1>2, FirstAndLast
<1>4. Nil \notin Statuses
  <2>1. MaxStatus \in Nat /\ Nil \notin Nat  BY TasksAssumption
  <2> QED BY <2>1 DEF Statuses
<1> QED BY <1>1, <1>2, <1>3, <1>4 DEF Present

LEMMA SamePlaces == ASSUME UNCHANGED place  PROVE First' = First /\ Last' = Last
BY DEF First, Last, Present, Before

LEMMA HSettleRead ==
  ASSUME HInv, IInv', Disturb, NEW d \in Calls, SettleRead(d)  PROVE HInv'
<1>a. /\ IInv /\ call[d].pc = "settle" /\ UNCHANGED <<rows, place, status>> /\ RowsHaveLabels
      /\ Settling(d) \in Tasks /\ call[d].w = Nil
      /\ call \in [Calls -> Requests] /\ call[d] \in Requests
  BY RequestFacts, SettlingDue DEF SettleRead, At, HInv, Shaped, Shape
<1>b. PICK t0 \in Tasks : t0 = Settling(d)  BY <1>a
<1>c. PICK to : to = IF status[t0] = Nil \/ Present = {} THEN Nil ELSE Target(t0, status[t0])
  OBVIOUS
<1>0. /\ IInv /\ call[d].pc = "settle" /\ UNCHANGED <<rows, place, status>> /\ RowsHaveLabels
      /\ call[d].w = Nil /\ call \in [Calls -> Requests] /\ call[d] \in Requests
      /\ t0 \in Tasks /\ t0 = Settling(d)
      /\ to = IF status[t0] = Nil \/ Present = {} THEN Nil ELSE Target(t0, status[t0])
  BY <1>a, <1>b, <1>c
<1>1. /\ RowsHaveLabels' /\ First' = First /\ Last' = Last
      /\ \A t \in Tasks : ActiveOn(t)' <=> ActiveOn(t)
  BY <1>0, SamePlaces, ActiveStays DEF RowsHaveLabels, rows, Row
<1>2. CASE to = Nil
  <2>1. NextTask(d)  BY <1>0, <1>2 DEF SettleRead
  <2>2. /\ \A c \in Calls \ {d} : call'[c] = call[c]
        /\ Shape(call[d])' /\ Current(d)' /\ ~At(d, "move")'
        /\ \A t \in Tasks : Due(d, t) => t = Settling(d) \/ Due(d, t)'
    BY <1>0, <2>1, Rest
  <2>3. status[t0] = Nil \/ InTune(t0)
    <3>1. SUFFICES ASSUME status[t0] # Nil  PROVE InTune(t0)  OBVIOUS
    <3>2. Present # {} /\ First # Nil /\ Last # Nil  BY <1>0, <3>1, StatusThere
    <3>3. Target(t0, status[t0]) = Nil  BY <1>0, <1>2, <3>1, <3>2
    <3>4. CASE ActiveOn(t0)
      <4>1. status[t0] = Last /\ First # Last => Target(t0, status[t0]) = First
        BY <3>4 DEF Target
      <4> QED BY <3>2, <3>3, <3>4, <4>1 DEF InTune
    <3>5. CASE ~ActiveOn(t0)
      <4>1. status[t0] # Last => Target(t0, status[t0]) = Last  BY <3>5 DEF Target
      <4> QED BY <3>2, <3>3, <3>5, <4>1 DEF InTune
    <3> QED BY <3>4, <3>5
  <2>4. status'[t0] = Nil \/ InTune(t0)'  BY <1>0, <1>1, <2>3 DEF InTune
  <2>5. \A t \in Tasks : Kept(d, t)  BY <1>0, <1>1, <2>2, <2>4 DEF Kept
  <2> QED BY <1>0, <1>1, <2>2, <2>5, OneMoves DEF rows
<1>3. CASE to # Nil
  <2>1. call' = [call EXCEPT ![d] = [@ EXCEPT !.pc = "move", !.s = to]]
    BY <1>0, <1>3 DEF SettleRead
  <2>2. /\ \A c \in Calls \ {d} : call'[c] = call[c]
        /\ call'[d].pc = "move" /\ call'[d].s = to /\ call'[d].w = Nil
        /\ call'[d].todo = call[d].todo
    BY <1>0, <2>1, RequestFields
  <2>3. Shape(call[d])' /\ Current(d)'  BY <2>2 DEF Shape, Current
  <2>4. Suits(t0, to)
    <3>1. status[t0] # Nil /\ Target(t0, status[t0]) = to /\ to # Nil  BY <1>0, <1>3
    <3> QED BY <3>1 DEF Target, Suits
  <2>5. Settling(d)' = t0 /\ Suits(t0, to)'  BY <1>0, <1>1, <2>2, <2>4 DEF Settling, Suits
  <2>6. ASSUME NEW t \in Tasks  PROVE Kept(d, t)
    <3>1. Due(d, t) => Due(d, t)'  BY <1>0, <2>2 DEF Due, At
    <3>2. Settling(d)' = t => Suits(t, call[d].s)'  BY <2>2, <2>5 DEF Suits
    <3> QED BY <1>0, <1>1, <3>1, <3>2 DEF Kept
  <2> QED BY <1>0, <1>1, <2>2, <2>3, <2>6, OneMoves DEF rows
<1> QED BY <1>2, <1>3

LEMMA HSettleMove ==
  ASSUME HInv, IInv', Disturb, NEW d \in Calls, SettleMove(d)  PROVE HInv'
<1>a. IInv /\ call[d].pc \in {"settle", "move"}  BY DEF HInv, SettleMove, At
<1>b. PICK t0 \in Tasks : t0 = Settling(d)  BY <1>a, SettlingDue
<1>c. PICK s : s = call[d].s  OBVIOUS
<1>0. /\ IInv /\ call[d].pc = "move" /\ UNCHANGED <<rows, place>> /\ RowsHaveLabels
      /\ t0 = Settling(d) /\ s = call[d].s
      /\ t0 \in Tasks /\ status \in [Tasks -> Statuses \cup {Nil}]
      /\ status' = IF place[s] # Nil THEN [status EXCEPT ![t0] = s] ELSE status
      /\ NextTask(d)
  BY <1>b, <1>c DEF SettleMove, At, HInv, IInv, ReferencesWhole, TypeOK
<1>1. /\ RowsHaveLabels' /\ First' = First /\ Last' = Last
      /\ \A t \in Tasks : ActiveOn(t)' <=> ActiveOn(t)
  BY <1>0, SamePlaces, ActiveStays DEF RowsHaveLabels, rows, Row
<1>2. /\ \A c \in Calls \ {d} : call'[c] = call[c]
      /\ Shape(call[d])' /\ Current(d)' /\ ~At(d, "move")'
      /\ \A t \in Tasks : Due(d, t) => t = t0 \/ Due(d, t)'
  BY <1>0, Rest
<1>3. ASSUME t0 \notin disturbed'  PROVE status'[t0] = Nil \/ InTune(t0)'
  <2>1. t0 \notin disturbed
    <3>1. ~Resettled(t0)  BY <1>0, <1>2 DEF Resettled, At
    <3> QED BY <1>0, <1>3, <3>1, History
  <2>2. Suits(t0, s)  BY <1>0, <2>1 DEF HInv, TasksCalm, Calm, At
  <2>3. CASE status[t0] # Nil
    <3>1. place[First] # Nil /\ place[Last] # Nil  BY <1>0, <2>3, StatusThere
    <3>2. place[s] # Nil  BY <2>2, <3>1 DEF Suits
    <3>3. status'[t0] = s  BY <1>0, <3>2
    <3> QED BY <1>0, <1>1, <2>2, <3>3 DEF Suits, InTune
  <2>4. CASE place[s] # Nil
    <3>3. status'[t0] = s  BY <1>0, <2>4
    <3> QED BY <1>0, <1>1, <2>2, <3>3 DEF Suits, InTune
  <2> QED BY <1>0, <2>3, <2>4
<1>4. ASSUME NEW t \in Tasks \ disturbed'  PROVE Kept(d, t)
  <2>1. t # t0 => status'[t] = status[t]  BY <1>0
  <2> QED BY <1>1, <1>2, <1>3, <2>1 DEF Kept
<1> QED BY <1>0, <1>1, <1>2, <1>4, OneMoves DEF rows

LEMMA HDeletion ==
  ASSUME HInv, IInv', Disturb, NEW d \in Calls, CountStatuses(d) \/ DropStatus(d)  PROVE HInv'
<1>0. /\ IInv /\ UNCHANGED <<rows, status>> /\ call[d].pc \in {"total", "delete"}
      /\ "delete" \in CallStates
  BY DEF CountStatuses, DropStatus, At, HInv, CallStates
<1>1. CASE Finish(d)  BY <1>0, <1>1, HFinish
<1>2. CASE Goto(d, "delete")
  <2>1. (\A c \in Calls \ {d} : call'[c] = call[c]) /\ call'[d].pc = "delete"
    BY <1>0, <1>2, Went
  <2>2. Shape(call[d])' /\ ~At(d, "move")' /\ Current(d)'  BY <2>1 DEF Shape, At, Current
  <2> QED BY <1>0, <2>1, <2>2, PlainMoves
<1> QED BY <1>1, <1>2 DEF CountStatuses, DropStatus

\* The user's edits disturb what they touch; requests go on as they were.
LEMMA HEdit == ASSUME HInv, IInv', Disturb, UNCHANGED <<rows, call>>  PROVE HInv'
<1>1. RowsHaveLabels'  BY DEF HInv, RowsHaveLabels, rows, Row
<1>2. ASSUME NEW c \in Calls
      PROVE  Shape(call[c])' /\ Current(c)' /\ (Shares(c)' => c \in disturbed')
  <2>1. Shape(call[c]) /\ Current(c)  BY DEF HInv, Shaped
  <2>2. c \notin disturbed' => (~Shares(c)' /\ (c \in disturbed => At(c, "idle")'))
    BY History
  <2>3. Shape(call[c])'  BY <2>1 DEF Shape
  <2>4. Current(c)'  BY <2>1, <2>2 DEF Current, rows, Row, At
  <2> QED BY <2>2, <2>3, <2>4
<1>3. ASSUME NEW t \in Tasks \ disturbed'  PROVE Calm(t)'
  <2>1. /\ t \in disturbed => Resettled(t)
        /\ status'[t] = status[t] /\ place' = place
    BY History
  <2>2. t \notin disturbed  BY <2>1 DEF Resettled
  <2>3. Calm(t)  BY <2>2 DEF HInv, TasksCalm
  <2>4. First' = First /\ Last' = Last /\ (ActiveOn(t)' <=> ActiveOn(t))
    BY <2>1, SamePlaces, ActiveStays DEF rows
  <2>5. \A c \in Calls : Due(c, t)' <=> Due(c, t)  BY DEF Due, At
  <2>6. InTune(t)' <=> InTune(t)  BY <2>1, <2>4 DEF InTune
  <2>7. \A c \in Calls : Suits(t, call[c].s)' <=> Suits(t, call[c].s)  BY <2>4 DEF Suits
  <2>8. \A c \in Calls : At(c, "move")' /\ Settling(c)' = t => Suits(t, call[c].s)'
    BY <2>3, <2>7 DEF Calm, At, Settling
  <2> QED BY <2>1, <2>3, <2>5, <2>6, <2>8 DEF Calm
<1> QED BY <1>1, <1>2, <1>3 DEF HInv, Shaped, TasksCalm

LEMMA HStep == ASSUME HInv, [PNext]_pvars  PROVE HInv'
<1>1. CASE UNCHANGED pvars
  <2>1. UNCHANGED <<tree, label, place, status, call, disturbed>>
    BY <1>1 DEF pvars, vars, rows
  <2>2. IInv'  BY <2>1, StepInv DEF HInv, vars, rows
  <2>3. RowsHaveLabels'  BY <2>1 DEF HInv, RowsHaveLabels, Row
  <2>4. Shaped'  BY <2>1 DEF HInv, Shaped, Shape, Current, Row, Shares, At
  <2>5. TasksCalm'
    BY <2>1 DEF HInv, TasksCalm, Calm, At, Settling, Suits, InTune, Due, ActiveOn, First,
                Last, Present, Before
  <2> QED BY <2>2, <2>3, <2>4, <2>5 DEF HInv
<1>2. CASE PNext
  <2>1. IInv' /\ Disturb /\ Next  BY <1>2, StepInv DEF PNext, HInv
  <2>2. CASE Edit
    <3>1. UNCHANGED <<rows, call>>
      BY <2>2 DEF Edit, EditTask, AddStatus, Reorder
    <3> QED BY <2>1, <3>1, HEdit
  <2>3. ASSUME NEW d \in Calls, Request(d)  PROVE HInv'  BY <2>1, <2>3, HRequest
  <2>4. ASSUME NEW d \in Calls, Progress(d)  PROVE HInv'
    BY <2>1, <2>4, HReadFirst, HPickKey, HInsertLocal, HEnsure, HSetLabel, HSetRow, HSettleRead,
       HSettleMove, HDeletion DEF Progress
  <2> QED BY <2>1, <2>2, <2>3, <2>4 DEF Next
<1> QED BY <1>1, <1>2

LEMMA HInit == ASSUME PInit  PROVE HInv
<1>1. Init /\ disturbed = {} /\ IInv  BY InitInv DEF PInit
<1>2. \A c \in Calls : /\ Shape(call[c]) /\ call[c].pc = "idle" /\ call[c].w = Nil
  BY <1>1, IdleShape DEF Init
<1>3. RowsHaveLabels  BY <1>1 DEF RowsHaveLabels, Init
<1>4. Shaped  BY <1>2 DEF Shaped, Current, Shares, At
<1>5. TasksCalm  BY <1>1, <1>2 DEF TasksCalm, Calm, At, Init
<1> QED BY <1>1, <1>3, <1>4, <1>5 DEF HInv

\* However archives, removals, relabellings and creations overlap, a task for which
\* nothing is in progress is at the last status exactly if no active worktree carries
\* it, but for requests that share a worktree or pull at a task from both sides
\* (SettleTaskStatus, api/tasks.go): each leaves the task in step or will settle it.
THEOREM TasksStayInStep == PSpec => []InStep
<1>1. HInv => InStep
  <2>1. SUFFICES ASSUME HInv, NEW t \in Tasks \ disturbed, status[t] # Nil,
                        \A c \in Calls : ~Concerns(c, t)
                 PROVE  InTune(t)
    BY DEF InStep, InTune
  <2>2. Calm(t)  BY <2>1 DEF HInv, TasksCalm
  <2> QED BY <2>1, <2>2, DueConcerns DEF Calm
<1> QED BY <1>1, HInit, HStep, PTL DEF PSpec
=============================================================================
