-------------------------- MODULE BatchPipelineProofs --------------------------
(* Theorems about BatchPipeline, for every number of rows, Anthropic ids,    *)
(* workers, operators, requests and faults.                                  *)
EXTENDS BatchPipeline, FiniteSetTheorems, WellFoundedInduction, TLAPS

--------------------------------------------------------------------------------
(* Sums over finite sets, as FoldFunction adds them up.                      *)

Pick(s) == CHOOSE x \in s : TRUE

LEMMA PickIn == \A s : s # {} => Pick(s) \in s
  BY DEF Pick

SumStep(f, g) == [s \in SUBSET DOMAIN f |-> IF s = {} THEN 0 ELSE f[Pick(s)] + g[s \ {Pick(s)}]]

LEMMA FoldIsSum ==
  ASSUME NEW f
  PROVE  FoldFunction(+, 0, f) = (CHOOSE g : g = SumStep(f, g))[DOMAIN f]
  BY DEF FoldFunction, FoldFunctionOnSet, MapThenFoldSet, SumStep, Pick

LEMMA LeastNat ==
  ASSUME NEW B \in SUBSET Nat, B # {}
  PROVE  \E n \in B : \A m \in B : n <= m
<1>1. PICK n \in B : \A m \in B : ~ (<<m, n>> \in OpToRel(<, Nat))
  BY NatLessThanWellFounded, WFMin, Zenon
<1>2. \A m \in B : ~ (m < n)
  BY <1>1, Zenon DEF OpToRel
<1> QED
  BY <1>2

Card(s) == Cardinality(s)

LEMMA SmallestSet ==
  ASSUME NEW X, X # {}, \A s \in X : IsFiniteSet(s)
  PROVE  \E s \in X : \A t \in X : Cardinality(s) <= Cardinality(t)
<1> DEFINE B == {Cardinality(s) : s \in X}
<1>1. B \in SUBSET Nat /\ B # {}
  BY FS_CardinalityType
<1>2. PICK n \in B : \A m \in B : n <= m
  BY <1>1, LeastNat
<1> QED
  BY <1>2

LEMMA PickRest ==
  ASSUME NEW S, IsFiniteSet(S), NEW s \in SUBSET S, s # {}
  PROVE  /\ Pick(s) \in s
         /\ s \ {Pick(s)} \in SUBSET S
         /\ Cardinality(s \ {Pick(s)}) = Cardinality(s) - 1
         /\ Cardinality(s) \in Nat
<1>1. IsFiniteSet(s)
  BY FS_Subset
<1> QED
  BY <1>1, PickIn, FS_RemoveElement, FS_CardinalityType

LEMMA SumStepFixed ==
  ASSUME NEW S, IsFiniteSet(S), NEW f \in [S -> Nat]
  PROVE  \E g \in [SUBSET S -> Nat] : g = SumStep(f, g)
<1> DEFINE Good(n) == \E g \in [SUBSET S -> Nat] :
                        \A s \in SUBSET S : Cardinality(s) <= n => g[s] = SumStep(f, g)[s]
           B == {n \in Nat : ~Good(n)}
<1>0. \A g \in [SUBSET S -> Nat] : SumStep(f, g) \in [SUBSET S -> Nat]
  <2> TAKE g \in [SUBSET S -> Nat]
  <2>1. ASSUME NEW s \in SUBSET S, s # {} PROVE f[Pick(s)] + g[s \ {Pick(s)}] \in Nat
    BY <2>1, PickRest
  <2> QED
    BY <2>1 DEF SumStep
<1>1. Good(0)
  <2> DEFINE g == [s \in SUBSET S |-> 0]
  <2>1. \A s \in SUBSET S : Cardinality(s) <= 0 => s = {}
    BY FS_EmptySet, FS_Subset, FS_CardinalityType
  <2>2. g \in [SUBSET S -> Nat] /\ \A s \in SUBSET S : Cardinality(s) <= 0 => g[s] = SumStep(f, g)[s]
    BY <2>1 DEF SumStep
  <2> QED
    BY <2>2
<1>2. ASSUME NEW n \in Nat, Good(n) PROVE Good(n + 1)
  <2>1. PICK g \in [SUBSET S -> Nat] :
           \A s \in SUBSET S : Cardinality(s) <= n => g[s] = SumStep(f, g)[s]
    BY <1>2
  <2> DEFINE h == SumStep(f, g)
  <2>2. h \in [SUBSET S -> Nat]
    BY <1>0
  <2>3. ASSUME NEW s \in SUBSET S, Cardinality(s) <= n + 1 PROVE h[s] = SumStep(f, h)[s]
    <3>1. CASE s = {}
      BY <3>1 DEF SumStep
    <3>2. CASE s # {}
      <4>1. Cardinality(s \ {Pick(s)}) <= n /\ s \ {Pick(s)} \in SUBSET S
        BY <2>3, <3>2, PickRest
      <4>2. g[s \ {Pick(s)}] = h[s \ {Pick(s)}]
        BY <2>1, <4>1
      <4> HIDE DEF h
      <4>3. SumStep(f, g)[s] = SumStep(f, h)[s]
        BY <3>2, <4>2 DEF SumStep
      <4> QED
        BY <4>3 DEF h
    <3> QED
      BY <3>1, <3>2
  <2> QED
    BY <2>2, <2>3
<1> HIDE DEF Good
<1>3. B = {}
  <2> SUFFICES ASSUME B # {} PROVE FALSE
    OBVIOUS
  <2>1. PICK n \in B : \A m \in B : n <= m
    BY LeastNat
  <2>2. n # 0
    BY <1>1, <2>1
  <2>3. n - 1 \in Nat /\ n - 1 \notin B
    BY <2>1, <2>2
  <2>4. Good(n)
    BY <1>2, <2>3
  <2> QED
    BY <2>1, <2>4
<1>4. Good(Cardinality(S))
  BY <1>3, FS_CardinalityType
<1>5. PICK g \in [SUBSET S -> Nat] :
        \A s \in SUBSET S : Cardinality(s) <= Cardinality(S) => g[s] = SumStep(f, g)[s]
  BY <1>4 DEF Good
<1>6. \A s \in SUBSET S : g[s] = SumStep(f, g)[s]
  BY <1>5, FS_Subset
<1>7. SumStep(f, g) \in [SUBSET S -> Nat]
  BY <1>0
<1> QED
  BY <1>6, <1>7

(* The sum of the values of f, over each set of its arguments.                *)
SumOf(f) == CHOOSE g : g = SumStep(f, g)

LEMMA SumOfStep ==
  ASSUME NEW S, IsFiniteSet(S), NEW f \in [S -> Nat]
  PROVE  /\ SumOf(f)[{}] = 0
         /\ \A s \in SUBSET S : s # {} => SumOf(f)[s] = f[Pick(s)] + SumOf(f)[s \ {Pick(s)}]
         /\ FoldFunction(+, 0, f) = SumOf(f)[S]
<1>1. \E g : g = SumStep(f, g)
  BY SumStepFixed
<1>2. SumOf(f) = SumStep(f, SumOf(f))
  BY <1>1 DEF SumOf
<1> HIDE DEF SumOf
<1>3. \A s \in SUBSET S : SumOf(f)[s] = IF s = {} THEN 0 ELSE f[Pick(s)] + SumOf(f)[s \ {Pick(s)}]
  BY <1>2 DEF SumStep
<1>4. FoldFunction(+, 0, f) = SumOf(f)[S]
  BY FoldIsSum DEF SumOf
<1> QED
  BY <1>2, <1>3, <1>4

LEMMA SumIsNat ==
  ASSUME NEW S, IsFiniteSet(S), NEW f \in [S -> Nat]
  PROVE  \A s \in SUBSET S : SumOf(f)[s] \in Nat
<1> DEFINE Wrong(s) == SumOf(f)[s] \notin Nat
           X == {s \in SUBSET S : Wrong(s)}
<1> SUFFICES ASSUME X # {} PROVE FALSE
  OBVIOUS
<1>0. /\ SumOf(f)[{}] = 0
      /\ \A s \in SUBSET S : s # {} => SumOf(f)[s] = f[Pick(s)] + SumOf(f)[s \ {Pick(s)}]
  BY SumOfStep
<1>1. ~Wrong({})
  BY <1>0
<1>2. ASSUME NEW s \in SUBSET S, s # {}, ~Wrong(s \ {Pick(s)}) PROVE ~Wrong(s)
  <2>1. f[Pick(s)] \in Nat
    BY <1>2, PickRest
  <2>2. SumOf(f)[s] = f[Pick(s)] + SumOf(f)[s \ {Pick(s)}]
    BY <1>0, <1>2
  <2> QED
    BY <1>2, <2>1, <2>2
<1> HIDE DEF Wrong
<1>3. \A s \in X : IsFiniteSet(s)
  BY FS_Subset
<1>4. PICK s \in X : \A t \in X : Cardinality(s) <= Cardinality(t)
  BY <1>3, SmallestSet
<1>5. s # {} /\ s \in SUBSET S /\ Wrong(s)
  BY <1>1
<1>6. s \ {Pick(s)} \notin X /\ s \ {Pick(s)} \in SUBSET S
  BY <1>4, <1>5, PickRest
<1> QED
  BY <1>2, <1>5, <1>6

LEMMA SumOfZeros ==
  ASSUME NEW S, IsFiniteSet(S), NEW f \in [S -> Nat], \A x \in S : f[x] = 0
  PROVE  SumOf(f)[S] = 0
<1> DEFINE Wrong(s) == SumOf(f)[s] # 0
           X == {s \in SUBSET S : Wrong(s)}
<1>0. /\ SumOf(f)[{}] = 0
      /\ \A s \in SUBSET S : s # {} => SumOf(f)[s] = f[Pick(s)] + SumOf(f)[s \ {Pick(s)}]
  <2>1. IsFiniteSet(S) /\ f \in [S -> Nat]
    OBVIOUS
  <2> QED
    BY ONLY <2>1, SumOfStep
<1>1. ~Wrong({})
  BY <1>0
<1>2. ASSUME NEW s \in SUBSET S, s # {}, ~Wrong(s \ {Pick(s)}) PROVE ~Wrong(s)
  <2>1. f[Pick(s)] = 0
    BY <1>2, PickRest
  <2> QED
    BY <1>0, <1>2, <2>1
<1> HIDE DEF Wrong
<1>3. X = {}
  <2> SUFFICES ASSUME X # {} PROVE FALSE
    OBVIOUS
  <2>1. \A s \in X : IsFiniteSet(s)
    BY FS_Subset
  <2>2. PICK s \in X : \A t \in X : Cardinality(s) <= Cardinality(t)
    BY <2>1, SmallestSet
  <2>3. s # {} /\ s \in SUBSET S /\ Wrong(s)
    BY <1>1
  <2>4. s \ {Pick(s)} \notin X /\ s \ {Pick(s)} \in SUBSET S
    BY <2>2, <2>3, PickRest
  <2> QED
    BY <1>2, <2>3, <2>4
<1> QED
  BY <1>3 DEF Wrong

(* One value changes: so does the sum, by as much.                            *)
LEMMA SumChanges ==
  ASSUME NEW S, IsFiniteSet(S), NEW f \in [S -> Nat], NEW h \in [S -> Nat],
         NEW m \in S, \A x \in S \ {m} : h[x] = f[x]
  PROVE  SumOf(h)[S] = SumOf(f)[S] + h[m] - f[m]
<1> DEFINE Right(s) == SumOf(h)[s] = SumOf(f)[s] + (IF m \in s THEN h[m] - f[m] ELSE 0)
           X == {s \in SUBSET S : ~Right(s)}
<1>1. /\ SumOf(f)[{}] = 0
      /\ \A s \in SUBSET S : s # {} => SumOf(f)[s] = f[Pick(s)] + SumOf(f)[s \ {Pick(s)}]
  BY SumOfStep
<1>2. /\ SumOf(h)[{}] = 0
      /\ \A s \in SUBSET S : s # {} => SumOf(h)[s] = h[Pick(s)] + SumOf(h)[s \ {Pick(s)}]
  BY SumOfStep
<1>3. X = {}
  <2>1. Right({})
    BY <1>1, <1>2
  <2>2. ASSUME NEW s \in SUBSET S, s # {}, Right(s \ {Pick(s)}) PROVE Right(s)
    <3> DEFINE r == s \ {Pick(s)}
    <3>1. r \in SUBSET S /\ Pick(s) \in s /\ Pick(s) \in S
      BY <2>2, PickRest
    <3>2. SumOf(f)[s] = f[Pick(s)] + SumOf(f)[r] /\ SumOf(h)[s] = h[Pick(s)] + SumOf(h)[r]
      BY <1>1, <1>2, <2>2
    <3>3. SumOf(f)[r] \in Nat /\ SumOf(h)[r] \in Nat
      BY <3>1, SumIsNat
    <3>4. CASE Pick(s) = m
      BY <2>2, <3>1, <3>2, <3>3, <3>4
    <3>5. CASE Pick(s) # m
      BY <2>2, <3>1, <3>2, <3>3, <3>5
    <3> QED
      BY <3>4, <3>5
  <2> HIDE DEF Right
  <2> SUFFICES ASSUME X # {} PROVE FALSE
    OBVIOUS
  <2>3. \A s \in X : IsFiniteSet(s)
    BY FS_Subset
  <2>4. PICK s \in X : \A t \in X : Cardinality(s) <= Cardinality(t)
    BY <2>3, SmallestSet
  <2>5. s # {} /\ s \in SUBSET S /\ ~Right(s)
    BY <2>1
  <2>6. s \ {Pick(s)} \notin X /\ s \ {Pick(s)} \in SUBSET S
    BY <2>4, <2>5, PickRest
  <2> QED
    BY <2>2, <2>5, <2>6
<1>4. SumOf(h)[S] = SumOf(f)[S] + (h[m] - f[m])
  BY <1>3
<1>5. SumOf(f)[S] \in Nat
  BY SumIsNat
<1> QED
  BY <1>4, <1>5

--------------------------------------------------------------------------------

USE ConstantsAssumption DEF ConstantsAssumption

--------------------------------------------------------------------------------
(* Type correctness.                                                         *)

LEMMA MessageTypes ==
  /\ KickoffMessage \in Message
  /\ \A ids \in (SUBSET Batches) \ {{}} :
        Submit(ids) \in Message /\ Poll(ids) \in Message /\ Process(ids) \in Message
  /\ \A m \in Message : m.ids \in SUBSET Batches /\ m.kind \in Kinds
  /\ \A m \in Message : m.kind # "materialize" => m.ids \in (SUBSET Batches) \ {{}}
  BY DEF Message, KickoffMessage, Submit, Poll, Process, Kinds

LEMMA PutType ==
  ASSUME queue \in [Message -> Nat], NEW m, Put(m)
  PROVE  queue' \in [Message -> Nat]
<1>1. queue' = [k \in Message |-> IF k = m THEN queue[k] + 1 ELSE queue[k]]
  BY DEF Put
<1>2. \A k \in Message : queue[k] \in Nat
  OBVIOUS
<1> QED
  BY <1>1, <1>2

LEMMA StepType ==
  ASSUME exec \in [Executors -> Executor],
         NEW e \in Executors, NEW new \in Executor, Step(e, new)
  PROVE  exec' \in [Executors -> Executor]
  BY DEF Step

LEMMA IdleType == Idle \in Executor
  BY DEF Idle, Executor, Places, Snapshot, Keep, RowStatuses

LEMMA FinishedType ==
  ASSUME exec \in [Executors -> Executor], NEW e \in Executors
  PROVE  Finished(e) \in Executor
  BY DEF Finished, Executor, Places

LEMMA SendingType ==
  ASSUME exec \in [Executors -> Executor], NEW e \in Executors, NEW m \in Message
  PROVE  Sending(e, m) \in Executor
  BY DEF Sending, Executor, Places

--------------------------------------------------------------------------------
(* The inductive invariant.                                                  *)

(* A row that has been submitted stays so, or is deleted.                    *)
Settled(b) == \/ row[b].status = "deleted"
              \/ Exists(b) /\ row[b].anthropic # NoRemote

Accepted(r) == r \in Remotes /\ remote[r].state # "none"

(* A task has a message that names batches before it passes the ids on, the  *)
(* id it is about to record was returned for the row it is about to record   *)
(* it in, and the rows a poll or process task will write have been submitted. *)
TaskConsistent(e) ==
  /\ e \in Operators => exec[e].pc \in {"idle", "gather", "apply", "ack"}
  /\ exec[e].pc \in {"scan", "accept", "record", "load", "retrieve", "update"} =>
        exec[e].msg \in Message \ {KickoffMessage}
  /\ exec[e].pc \in {"accept", "record"} => exec[e].batch \in Batches
  /\ exec[e].pc = "record" => /\ Accepted(exec[e].rid)
                              /\ remote[exec[e].rid].of = exec[e].batch
  /\ \A b \in Batches :
        exec[e].pc \in {"retrieve", "update", "apply"} /\ exec[e].memo[b].status # "keep" =>
           /\ Settled(b)
           /\ Accepted(exec[e].memo[b].anthropic)
           /\ exec[e].pc = "update" => exec[e].memo[b].status \in RemoteStatuses
           /\ exec[e].pc = "apply" => exec[e].memo[b].status = "processed"

Inductive ==
  /\ TypeOK
  /\ OutboxShape
  /\ LinkedToOwnSubmission
  /\ \A e \in Executors : TaskConsistent(e)

--------------------------------------------------------------------------------
(* The inductive invariant is preserved, action by action.                   *)

LEMMA InductiveInit == Init => Inductive
<1> SUFFICES ASSUME Init PROVE Inductive
  OBVIOUS
<1>1. TypeOK
  BY IdleType DEF Init, TypeOK, Row, Remote, RowStatuses
<1>2. OutboxShape /\ LinkedToOwnSubmission
  BY DEF Init, OutboxShape, LinkedToOwnSubmission, Exists, BatchStatuses
<1>3. \A e \in Executors : TaskConsistent(e)
  BY DEF Init, TaskConsistent, Idle
<1> QED
  BY <1>1, <1>2, <1>3 DEF Inductive

(* Tasks that do not move keep their consistency: submitted rows and accepted *)
(* Anthropic batches do not go back.                                         *)
LEMMA OthersConsistent ==
  ASSUME Inductive, NEW e \in Executors,
         \A f \in Executors \ {e} : exec'[f] = exec[f],
         \A b \in Batches : Settled(b) => Settled(b)',
         \A r \in Remotes : Accepted(r) => Accepted(r)' /\ remote'[r].of = remote[r].of,
         TaskConsistent(e)'
  PROVE  \A f \in Executors : TaskConsistent(f)'
<1> SUFFICES ASSUME NEW f \in Executors \ {e} PROVE TaskConsistent(f)'
  OBVIOUS
<1>1. TaskConsistent(f) /\ exec'[f] = exec[f]
  BY DEF Inductive
<1>2. \A r : Accepted(r) => Accepted(r)' /\ remote'[r].of = remote[r].of
  BY DEF Accepted
<1> QED
  BY <1>1, <1>2 DEF TaskConsistent

(* An executor that has nothing to remember is consistent.                   *)
LEMMA RestingConsistent ==
  ASSUME NEW e \in Executors,
         \/ exec'[e].pc \in {"idle", "gather", "ack"}
         \/ e \in Workers /\ exec'[e].pc \in {"create", "send"}
  PROVE  TaskConsistent(e)'
  BY DEF TaskConsistent

(* A step that changes nothing but one executor.                             *)
LEMMA ExecOnly ==
  ASSUME Inductive, NEW e \in Executors, NEW new \in Executor, Step(e, new),
         UNCHANGED <<row, remote>>, TypeOK', TaskConsistent(e)'
  PROVE  Inductive'
<1>1. OutboxShape' /\ LinkedToOwnSubmission'
  BY DEF Inductive, OutboxShape, LinkedToOwnSubmission, Exists
<1>2. \A f \in Executors \ {e} : exec'[f] = exec[f]
  BY DEF Step, Inductive, TypeOK
<1>3. \A b \in Batches : Settled(b) => Settled(b)'
  BY DEF Settled, Exists
<1>4. \A r \in Remotes : Accepted(r) => Accepted(r)' /\ remote'[r].of = remote[r].of
  BY DEF Accepted
<1>5. \A f \in Executors : TaskConsistent(f)'
  BY <1>2, <1>3, <1>4, OthersConsistent
<1> QED
  BY <1>1, <1>5 DEF Inductive

(* A step that changes no executor.                                          *)
LEMMA TableOnly ==
  ASSUME Inductive, UNCHANGED exec,
         \A b \in Batches : Settled(b) => Settled(b)',
         \A r \in Remotes : Accepted(r) => Accepted(r)' /\ remote'[r].of = remote[r].of
  PROVE  \A f \in Executors : TaskConsistent(f)'
<1> SUFFICES ASSUME NEW f \in Executors PROVE TaskConsistent(f)'
  OBVIOUS
<1>1. TaskConsistent(f) /\ exec'[f] = exec[f]
  BY DEF Inductive
<1>2. \A r : Accepted(r) => Accepted(r)' /\ remote'[r].of = remote[r].of
  BY DEF Accepted
<1> QED
  BY <1>1, <1>2 DEF TaskConsistent

LEMMA OutsideStep ==
  ASSUME Inductive,
         \/ Kickoff \/ OperatorPoll \/ DeleteBatches
         \/ \E r \in Remotes : RemoteProgress(r)
  PROVE  Inductive'
<1> USE DEF Inductive
<1>1. Request => requests' \in 0..MaxRequests
  BY DEF Request, TypeOK
<1>2. ASSUME UNCHANGED <<row, remote, exec>>, TypeOK' PROVE Inductive'
  <2>1. OutboxShape' /\ LinkedToOwnSubmission'
    BY <1>2 DEF OutboxShape, LinkedToOwnSubmission, Exists
  <2>2. \A f \in Executors : TaskConsistent(f)'
    BY <1>2, TableOnly DEF Settled, Exists, Accepted
  <2> QED
    BY <1>2, <2>1, <2>2
<1>3. CASE Kickoff
  <2>1. TypeOK'
    BY <1>1, <1>3, PutType DEF Kickoff, TypeOK
  <2> QED
    BY <1>2, <1>3, <2>1 DEF Kickoff
<1>4. CASE OperatorPoll
  <2>1. queue' \in [Message -> Nat]
    BY <1>4, PutType DEF OperatorPoll, TypeOK
  <2>2. TypeOK'
    BY <1>1, <1>4, <2>1 DEF OperatorPoll, TypeOK
  <2> QED
    BY <1>2, <1>4, <2>2 DEF OperatorPoll
<1>5. CASE DeleteBatches
  <2>1. \A b \in Batches :
           \/ row'[b] = row[b]
           \/ row'[b] = [status |-> "deleted", anthropic |-> NoRemote, payload |-> FALSE]
    BY <1>5 DEF DeleteBatches, TypeOK
  <2>2. row' \in [Batches -> Row]
    BY <1>5 DEF DeleteBatches, TypeOK, Row, RowStatuses
  <2>3. TypeOK'
    BY <1>1, <1>5, <2>2 DEF DeleteBatches, TypeOK
  <2>4. UNCHANGED <<remote, exec>>
    BY <1>5 DEF DeleteBatches
  <2>5. OutboxShape' /\ LinkedToOwnSubmission'
    BY <2>1, <2>4 DEF OutboxShape, LinkedToOwnSubmission, Exists, BatchStatuses
  <2>6. \A b \in Batches : Settled(b) => Settled(b)'
    BY <2>1 DEF Settled, Exists
  <2>7. \A f \in Executors : TaskConsistent(f)'
    BY <2>4, <2>6, TableOnly DEF Accepted
  <2> QED
    BY <2>3, <2>5, <2>7
<1>6. ASSUME NEW r \in Remotes, RemoteProgress(r) PROVE Inductive'
  <2>1. TypeOK'
    BY <1>6 DEF RemoteProgress, TypeOK, Remote, RemoteStatuses
  <2>2. \A q \in Remotes : /\ remote'[q].of = remote[q].of
                           /\ remote[q].state # "none" => remote'[q].state # "none"
    BY <1>6 DEF RemoteProgress, TypeOK, Remote
  <2>3. UNCHANGED <<row, exec>>
    BY <1>6 DEF RemoteProgress
  <2>4. OutboxShape' /\ LinkedToOwnSubmission'
    BY <2>2, <2>3 DEF OutboxShape, LinkedToOwnSubmission, Exists, TypeOK, Row
  <2>5. \A f \in Executors : TaskConsistent(f)'
    BY <2>2, <2>3, TableOnly DEF Settled, Exists, Accepted
  <2> QED
    BY <2>1, <2>4, <2>5
<1> QED
  BY <1>3, <1>4, <1>5, <1>6

LEMMA DeliveryStep ==
  ASSUME Inductive, NEW e \in Executors,
         \/ \E m \in Message : e \in Workers /\ Receive(e, m)
         \/ e \in Workers /\ (SendNext(e) \/ Redeliver(e))
         \/ e \in Operators /\ OperatorProcess(e)
         \/ Ack(e) \/ Crash(e)
  PROVE  Inductive'
<1>1. Fault => faults' \in 0..MaxFaults
  BY DEF Fault, Inductive, TypeOK
<1>2. Request => requests' \in 0..MaxRequests
  BY DEF Request, Inductive, TypeOK
<1>3. ASSUME NEW m \in Message, e \in Workers, Receive(e, m) PROVE Inductive'
  <2> DEFINE new == [Idle EXCEPT !.pc = Entry(m.kind), !.msg = m, !.held = TRUE,
                                 !.todo = m.ids]
  <2>1. /\ Entry(m.kind) \in {"create", "scan", "load", "gather"}
        /\ Entry(m.kind) = "create" <=> m = KickoffMessage
    BY MessageTypes, <1>3 DEF Entry, Kinds, Message, KickoffMessage
  <2>2. new \in Executor
    BY <2>1, IdleType, MessageTypes DEF Executor, Places
  <2>3. queue' \in [Message -> Nat]
    <3>1. queue' = [queue EXCEPT ![m] = @ - 1] /\ queue[m] > 0 /\ queue \in [Message -> Nat]
      BY <1>3 DEF Receive, Inductive, TypeOK
    <3> QED
      BY <3>1
  <2>4. TypeOK'
    BY <1>3, <2>2, <2>3, StepType DEF Receive, Inductive, TypeOK
  <2>5. exec'[e] = new
    BY <1>3 DEF Receive, Step, Inductive, TypeOK
  <2>6. new.pc = Entry(m.kind) /\ new.msg = m
    BY DEF Idle
  <2>7. TaskConsistent(e)'
    BY <1>3, <2>1, <2>5, <2>6 DEF TaskConsistent
  <2> QED
    BY <1>3, <2>2, <2>4, <2>7, ExecOnly DEF Receive
<1>4. CASE e \in Workers /\ SendNext(e)
  <2>1. Finished(e) \in Executor
    BY FinishedType DEF Inductive, TypeOK
  <2>2. TypeOK'
    BY <1>4, <2>1, PutType, StepType DEF SendNext, Inductive, TypeOK
  <2>3. TaskConsistent(e)'
    BY <1>4, RestingConsistent DEF SendNext, Step, Finished, Inductive, TypeOK, Executor
  <2> QED
    BY <1>4, <2>1, <2>2, <2>3, ExecOnly DEF SendNext
<1>5. CASE e \in Workers /\ Redeliver(e)
  <2> DEFINE new == [exec[e] EXCEPT !.held = FALSE]
  <2>1. new \in Executor
    BY DEF Inductive, TypeOK, Executor
  <2>2. TypeOK'
    BY <1>1, <1>5, <2>1, PutType, StepType DEF Redeliver, Inductive, TypeOK
  <2>3. exec'[e] = new
    BY <1>5 DEF Redeliver, Step, Inductive, TypeOK
  <2>4. /\ new.pc = exec[e].pc /\ new.msg = exec[e].msg /\ new.batch = exec[e].batch
        /\ new.rid = exec[e].rid /\ new.memo = exec[e].memo
    BY DEF Inductive, TypeOK, Executor
  <2>5. UNCHANGED <<row, remote>>
    BY <1>5 DEF Redeliver
  <2>6. TaskConsistent(e)'
    <3>1. TaskConsistent(e)
      BY DEF Inductive
    <3> QED
      BY <2>3, <2>4, <2>5, <3>1 DEF TaskConsistent, Accepted, Settled, Exists
  <2> QED
    BY <1>5, <2>1, <2>2, <2>5, <2>6, ExecOnly DEF Redeliver
<1>6. CASE e \in Operators /\ OperatorProcess(e)
  <2>1. [Idle EXCEPT !.pc = "gather"] \in Executor
    BY IdleType DEF Executor, Places
  <2>2. TypeOK'
    BY <1>2, <1>6, <2>1, StepType DEF OperatorProcess, Inductive, TypeOK
  <2>3. TaskConsistent(e)'
    BY <1>6, RestingConsistent DEF OperatorProcess, Step, Idle, Inductive, TypeOK
  <2> QED
    BY <1>6, <2>1, <2>2, <2>3, ExecOnly DEF OperatorProcess
<1>7. ASSUME Step(e, Idle), TypeOK', UNCHANGED <<row, remote>> PROVE Inductive'
  <2>1. TaskConsistent(e)'
    BY <1>7, RestingConsistent DEF Step, Idle, Inductive, TypeOK
  <2> QED
    BY <1>7, <2>1, IdleType, ExecOnly
<1>8. CASE Ack(e)
  <2>1. TypeOK'
    BY <1>8, IdleType, StepType DEF Ack, Inductive, TypeOK
  <2> QED
    BY <1>7, <1>8, <2>1 DEF Ack
<1>9. CASE Crash(e)
  <2>1. TypeOK'
    BY <1>1, <1>9, IdleType, StepType, PutType DEF Crash, Inductive, TypeOK
  <2> QED
    BY <1>7, <1>9, <2>1 DEF Crash
<1> QED
  BY <1>3, <1>4, <1>5, <1>6, <1>8, <1>9

(* A worker that gives up, or passes its ids on, changes nothing else.       *)
LEMMA FinishedStep ==
  ASSUME Inductive, NEW e \in Executors, Step(e, Finished(e)),
         UNCHANGED <<row, remote, queue, requests, faults>>
  PROVE  Inductive'
<1>1. Finished(e) \in Executor
  BY FinishedType DEF Inductive, TypeOK
<1>2. TypeOK'
  BY <1>1, StepType DEF Inductive, TypeOK
<1>3. TaskConsistent(e)'
  BY RestingConsistent DEF Step, Finished, Inductive, TypeOK, Executor
<1> QED
  BY <1>1, <1>2, <1>3, ExecOnly

LEMMA SendingStep ==
  ASSUME Inductive, NEW w \in Workers, NEW m \in Message, Step(w, Sending(w, m)),
         UNCHANGED <<row, remote, queue, requests, faults>>
  PROVE  Inductive'
<1>1. w \in Executors /\ Sending(w, m) \in Executor
  BY SendingType DEF Inductive, TypeOK, Executors
<1>2. TypeOK'
  BY <1>1, StepType DEF Inductive, TypeOK
<1>3. TaskConsistent(w)'
  BY <1>1, RestingConsistent DEF Step, Sending, Inductive, TypeOK, Executor
<1> QED
  BY <1>1, <1>2, <1>3, ExecOnly

LEMMA MaterializeStep ==
  ASSUME Inductive, NEW w \in Workers, Materialize(w)
  PROVE  Inductive'
<1> USE DEF Inductive
<1>1. CASE Step(w, Finished(w)) /\ UNCHANGED row
  BY <1>1, FinishedStep DEF Materialize, Executors
<1>2. CASE ~(Step(w, Finished(w)) /\ UNCHANGED row)
  <2>1. PICK new \in (SUBSET {b \in Batches : row[b].status = "unused"}) \ {{}} :
          /\ row' = [b \in Batches |->
                       IF b \in new
                       THEN [status |-> "pending_submit", anthropic |-> NoRemote,
                             payload |-> TRUE]
                       ELSE row[b]]
          /\ Step(w, Sending(w, Submit(Pending \cup new)))
    BY <1>2 DEF Materialize
  <2>2. UNCHANGED <<remote, queue, requests, faults>> /\ w \in Executors
    BY DEF Materialize, Executors
  <2>3. Submit(Pending \cup new) \in Message
    <3>1. Pending \subseteq Batches
      BY DEF Pending
    <3>2. new \subseteq Batches /\ new # {}
      OBVIOUS
    <3>3. Pending \cup new \in (SUBSET Batches) \ {{}}
      BY <3>1, <3>2
    <3> QED
      BY <3>3, MessageTypes
  <2>4. Sending(w, Submit(Pending \cup new)) \in Executor
    BY <2>2, <2>3, SendingType DEF TypeOK
  <2>5. row' \in [Batches -> Row]
    BY <2>1 DEF TypeOK, Row, RowStatuses, BatchStatuses
  <2>6. TypeOK'
    BY <2>1, <2>2, <2>4, <2>5, StepType DEF TypeOK
  <2>7. OutboxShape' /\ LinkedToOwnSubmission'
    BY <2>1, <2>2 DEF OutboxShape, LinkedToOwnSubmission, Exists
  <2>8. \A b \in Batches : Settled(b) => Settled(b)'
    BY <2>1 DEF Settled, Exists, BatchStatuses
  <2>9. TaskConsistent(w)'
    BY <2>1, <2>2, RestingConsistent DEF Step, Sending, TypeOK, Executor
  <2>10. \A f \in Executors \ {w} : exec'[f] = exec[f]
    BY <2>1, <2>2 DEF Step, TypeOK
  <2>11. \A f \in Executors : TaskConsistent(f)'
    BY <2>2, <2>8, <2>9, <2>10, OthersConsistent DEF Accepted
  <2> QED
    BY <2>6, <2>7, <2>11
<1> QED
  BY <1>1, <1>2

LEMMA SubmitScanStep ==
  ASSUME Inductive, NEW w \in Workers, SubmitScan(w)
  PROVE  Inductive'
<1> USE DEF Inductive
<1>1. w \in Executors /\ exec[w] \in Executor /\ exec[w].pc = "scan"
  BY DEF SubmitScan, Executors, TypeOK
<1>2. UNCHANGED <<row, remote, queue, requests, faults>>
  BY DEF SubmitScan
<1>3. exec[w].msg \in Message \ {KickoffMessage}
  BY <1>1 DEF TaskConsistent
<1>4. ASSUME NEW b \in exec[w].todo, Step(w, [exec[w] EXCEPT !.todo = @ \ {b}])
      PROVE  Inductive'
  <2> DEFINE new == [exec[w] EXCEPT !.todo = @ \ {b}]
  <2>1. new \in Executor /\ new.pc = "scan" /\ new.msg = exec[w].msg
    BY <1>1 DEF Executor
  <2>2. exec'[w] = new
    BY <1>1, <1>4 DEF Step, TypeOK
  <2>3. TypeOK'
    BY <1>1, <1>2, <1>4, <2>1, StepType DEF TypeOK
  <2>4. TaskConsistent(w)'
    BY <1>3, <2>1, <2>2 DEF TaskConsistent, Executors
  <2> QED
    BY <1>1, <1>2, <1>4, <2>1, <2>3, <2>4, ExecOnly
<1>5. ASSUME NEW b \in exec[w].todo, Step(w, [exec[w] EXCEPT !.pc = "accept", !.batch = b])
      PROVE  Inductive'
  <2> DEFINE new == [exec[w] EXCEPT !.pc = "accept", !.batch = b]
  <2>1. /\ new \in Executor /\ new.pc = "accept" /\ new.msg = exec[w].msg
        /\ new.batch \in Batches
    BY <1>1 DEF Executor, Places
  <2>2. exec'[w] = new
    BY <1>1, <1>5 DEF Step, TypeOK
  <2>3. TypeOK'
    BY <1>1, <1>2, <1>5, <2>1, StepType DEF TypeOK
  <2>4. TaskConsistent(w)'
    BY <1>3, <2>1, <2>2 DEF TaskConsistent, Executors
  <2> QED
    BY <1>1, <1>2, <1>5, <2>1, <2>3, <2>4, ExecOnly
<1>6. CASE Step(w, Finished(w))
  BY <1>1, <1>2, <1>6, FinishedStep
<1>7. CASE Step(w, Sending(w, Poll(exec[w].msg.ids)))
  <2>1. Poll(exec[w].msg.ids) \in Message
    BY <1>3, MessageTypes DEF Message, KickoffMessage
  <2> QED
    BY <1>2, <1>7, <2>1, SendingStep
<1> QED
  BY <1>4, <1>5, <1>6, <1>7 DEF SubmitScan

LEMMA SubmitAcceptStep ==
  ASSUME Inductive, NEW w \in Workers, SubmitAccept(w)
  PROVE  Inductive'
<1> USE DEF Inductive
<1>1. w \in Executors /\ exec[w] \in Executor /\ exec[w].pc = "accept"
  BY DEF SubmitAccept, Executors, TypeOK
<1>2. PICK r \in Remotes :
        /\ remote[r].state = "none"
        /\ remote' = [remote EXCEPT ![r] = [state |-> "in_progress", of |-> exec[w].batch]]
        /\ Step(w, [exec[w] EXCEPT !.pc = "record", !.rid = r])
  BY DEF SubmitAccept
<1>3. UNCHANGED <<row, queue, requests, faults>>
  BY DEF SubmitAccept
<1> DEFINE new == [exec[w] EXCEPT !.pc = "record", !.rid = r]
<1>4. /\ new \in Executor /\ new.pc = "record" /\ new.rid = r
      /\ new.batch = exec[w].batch /\ new.msg = exec[w].msg
  BY <1>1 DEF Executor, Places
<1>5. exec'[w] = new /\ \A f \in Executors \ {w} : exec'[f] = exec[f]
  BY <1>1, <1>2 DEF Step, TypeOK
<1>6. remote' \in [Remotes -> Remote]
  BY <1>1, <1>2 DEF TypeOK, Remote, RemoteStatuses, Executor
<1>7. TypeOK'
  BY <1>1, <1>2, <1>3, <1>4, <1>6, StepType DEF TypeOK
<1>8. \A q \in Remotes : Accepted(q) => Accepted(q)' /\ remote'[q] = remote[q]
  BY <1>2 DEF Accepted, TypeOK
<1>9. OutboxShape' /\ LinkedToOwnSubmission'
  BY <1>3, <1>8 DEF OutboxShape, LinkedToOwnSubmission, Exists, Accepted, TypeOK, Row
<1>10. \A b \in Batches : Settled(b) => Settled(b)'
  BY <1>3 DEF Settled, Exists
<1>11. TaskConsistent(w)'
  <2>1. exec[w].msg \in Message \ {KickoffMessage} /\ exec[w].batch \in Batches
    BY <1>1 DEF TaskConsistent
  <2>2. Accepted(r)' /\ remote'[r].of = exec[w].batch
    BY <1>2, <1>6 DEF Accepted, TypeOK
  <2> QED
    BY <1>4, <1>5, <2>1, <2>2 DEF TaskConsistent, Executors
<1>12. \A f \in Executors : TaskConsistent(f)'
  BY <1>1, <1>5, <1>8, <1>10, <1>11, OthersConsistent
<1> QED
  BY <1>7, <1>9, <1>12

LEMMA SubmitRecordStep ==
  ASSUME Inductive, NEW w \in Workers, SubmitRecord(w)
  PROVE  Inductive'
<1> USE DEF Inductive
<1> DEFINE b == exec[w].batch
           rid == exec[w].rid
<1>1. w \in Executors /\ exec[w] \in Executor /\ exec[w].pc = "record"
  BY DEF SubmitRecord, Executors, TypeOK
<1>2. /\ exec[w].msg \in Message \ {KickoffMessage} /\ b \in Batches
      /\ Accepted(rid) /\ remote[rid].of = b
  BY <1>1 DEF TaskConsistent
<1>3. CASE ~Exists(b)
  BY <1>1, <1>3, FinishedStep DEF SubmitRecord, Submitting
<1>4. CASE Exists(b)
  <2> DEFINE new == [exec[w] EXCEPT !.pc = "scan", !.todo = @ \ {b},
                                    !.batch = NoBatch, !.rid = NoRemote]
  <2>1. row' = [row EXCEPT ![b] = SubmittedRow(rid)] /\ Step(w, new)
    BY <1>4 DEF SubmitRecord, Submitting
  <2>2. UNCHANGED <<remote, queue, requests, faults>>
    BY DEF SubmitRecord
  <2>3. new \in Executor /\ new.pc = "scan" /\ new.msg = exec[w].msg
    BY <1>1 DEF Executor, Places
  <2>4. exec'[w] = new /\ \A f \in Executors \ {w} : exec'[f] = exec[f]
    BY <1>1, <2>1 DEF Step, TypeOK
  <2>5. SubmittedRow(rid) \in Row
    BY <1>2 DEF SubmittedRow, Row, RowStatuses, BatchStatuses, Accepted
  <2>6. TypeOK'
    BY <1>1, <2>1, <2>2, <2>3, <2>5, StepType DEF TypeOK
  <2>7. rid # NoRemote /\ rid \in Remotes
    BY <1>2 DEF Accepted
  <2>8. OutboxShape'
    BY <1>4, <2>1, <2>7 DEF OutboxShape, Exists, SubmittedRow, TypeOK
  <2>9. LinkedToOwnSubmission'
    BY <1>2, <2>1, <2>2 DEF LinkedToOwnSubmission, SubmittedRow, TypeOK, Accepted
  <2>10. \A c \in Batches : Settled(c) => Settled(c)'
    BY <1>4, <2>1, <2>7 DEF Settled, Exists, SubmittedRow, TypeOK, BatchStatuses
  <2>11. TaskConsistent(w)'
    BY <1>2, <2>3, <2>4 DEF TaskConsistent, Executors
  <2>12. \A f \in Executors : TaskConsistent(f)'
    BY <1>1, <2>2, <2>4, <2>10, <2>11, OthersConsistent DEF Accepted
  <2> QED
    BY <2>6, <2>8, <2>9, <2>12
<1> QED
  BY <1>3, <1>4

LEMMA SubmitFailStep ==
  ASSUME Inductive, NEW w \in Workers, SubmitFail(w)
  PROVE  Inductive'
<1> USE DEF Inductive
<1>1. w \in Executors /\ exec[w] \in Executor /\ Finished(w) \in Executor
  BY FinishedType DEF Executors, TypeOK
<1>2. UNCHANGED <<row, queue, requests>> /\ Step(w, Finished(w)) /\ Fault
  BY DEF SubmitFail
<1>3. \A q \in Remotes : remote[q].state # "none" => remote'[q] = remote[q]
  BY DEF SubmitFail, TypeOK
<1>4. remote' \in [Remotes -> Remote]
  BY <1>1 DEF SubmitFail, TypeOK, Remote, RemoteStatuses, Executor
<1>5. faults' \in 0..MaxFaults
  BY <1>2 DEF Fault, TypeOK
<1>6. TypeOK'
  BY <1>1, <1>2, <1>4, <1>5, StepType DEF TypeOK
<1>7. OutboxShape' /\ LinkedToOwnSubmission'
  BY <1>2, <1>3 DEF OutboxShape, LinkedToOwnSubmission, Exists, TypeOK, Row
<1>8. \A b \in Batches : Settled(b) => Settled(b)'
  BY <1>2 DEF Settled, Exists
<1>9. TaskConsistent(w)'
  BY <1>1, <1>2, RestingConsistent DEF Step, Finished, TypeOK, Executor
<1>10. \A f \in Executors \ {w} : exec'[f] = exec[f]
  BY <1>1, <1>2 DEF Step, TypeOK
<1>11. \A f \in Executors : TaskConsistent(f)'
  BY <1>1, <1>3, <1>8, <1>9, <1>10, OthersConsistent DEF Accepted
<1> QED
  BY <1>6, <1>7, <1>11

LEMMA PollLoadStep ==
  ASSUME Inductive, NEW w \in Workers, PollLoad(w)
  PROVE  Inductive'
<1> USE DEF Inductive
<1> DEFINE ids == exec[w].msg.ids
           open == Pollable(row) \cap ids
           memo == [b \in Batches |->
                      IF b \in open
                      THEN [status |-> row[b].status, anthropic |-> row[b].anthropic]
                      ELSE Keep]
           new == [exec[w] EXCEPT !.pc = "retrieve", !.memo = memo]
<1>1. w \in Executors /\ exec[w] \in Executor /\ exec[w].pc = "load"
  BY DEF PollLoad, Executors, TypeOK
<1>2. UNCHANGED <<row, remote, queue, requests, faults>>
  BY DEF PollLoad
<1>3. exec[w].msg \in Message \ {KickoffMessage}
  BY <1>1 DEF TaskConsistent
<1>4. Poll(ids) \in Message /\ Process(ids) \in Message
  BY <1>3, MessageTypes DEF Message, KickoffMessage
<1>5. \/ Step(w, Finished(w)) \/ Step(w, Sending(w, Poll(ids)))
      \/ Step(w, Sending(w, Process(ids)))
      \/ Step(w, new)
  BY DEF PollLoad
<1>6. CASE Step(w, new)
  <2>1. memo \in Snapshot
    BY DEF Snapshot, Keep, TypeOK, Row
  <2>2. new \in Executor /\ new.pc = "retrieve" /\ new.msg = exec[w].msg /\ new.memo = memo
    BY <1>1, <2>1 DEF Executor, Places
  <2>3. exec'[w] = new
    BY <1>1, <1>6 DEF Step, TypeOK
  <2>4. TypeOK'
    BY <1>1, <1>2, <1>6, <2>2, StepType DEF TypeOK
  <2>5. ASSUME NEW b \in Batches, memo[b].status # "keep"
        PROVE  Settled(b) /\ Accepted(memo[b].anthropic)
    <3>1. b \in open /\ memo[b].anthropic = row[b].anthropic
      BY <2>5 DEF Keep
    <3>2. Exists(b) /\ row[b].anthropic # NoRemote /\ row[b].anthropic \in Remotes
      BY <3>1 DEF Pollable, Exists, TypeOK, Row
    <3> QED
      BY <3>1, <3>2 DEF Settled, Accepted, LinkedToOwnSubmission
  <2>6. TaskConsistent(w)'
    <3>1. \A b \in Batches : memo[b].status # "keep" =>
             /\ Settled(b)'
             /\ memo[b].anthropic \in Remotes /\ remote'[memo[b].anthropic].state # "none"
      BY <1>2, <2>5 DEF Settled, Accepted, Exists
    <3> HIDE DEF memo
    <3> QED
      BY <1>3, <2>2, <2>3, <3>1 DEF TaskConsistent, Executors, Accepted
  <2> QED
    BY <1>1, <1>2, <1>6, <2>2, <2>4, <2>6, ExecOnly
<1> QED
  BY <1>1, <1>2, <1>4, <1>5, <1>6, FinishedStep, SendingStep

LEMMA PollRetrieveStep ==
  ASSUME Inductive, NEW w \in Workers, PollRetrieve(w)
  PROVE  Inductive'
<1> USE DEF Inductive
<1> DEFINE loaded == exec[w].memo
           memo == [b \in Batches |->
                      IF \/ loaded[b].status = "keep"
                         \/ loaded[b].status = Reported(loaded[b].anthropic)
                      THEN Keep
                      ELSE [loaded[b] EXCEPT !.status = Reported(loaded[b].anthropic)]]
           new == [exec[w] EXCEPT !.pc = "update", !.memo = memo]
<1>1. /\ w \in Executors /\ exec[w] \in Executor /\ exec[w].pc = "retrieve"
      /\ loaded \in Snapshot
  BY DEF PollRetrieve, Executors, TypeOK, Executor
<1>2. UNCHANGED <<row, remote, queue, requests, faults>> /\ Step(w, new)
  BY DEF PollRetrieve
<1>3. /\ exec[w].msg \in Message \ {KickoffMessage}
      /\ \A b \in Batches : loaded[b].status # "keep" =>
            Settled(b) /\ Accepted(loaded[b].anthropic)
  BY <1>1 DEF TaskConsistent
<1>4. ASSUME NEW b \in Batches
      PROVE  /\ memo[b] \in [status: RowStatuses \cup {"keep"},
                             anthropic: Remotes \cup {NoRemote}]
             /\ memo[b].status # "keep" =>
                   /\ Settled(b) /\ Accepted(memo[b].anthropic)
                   /\ memo[b].status \in RemoteStatuses
  <2>1. CASE loaded[b].status = "keep" \/ loaded[b].status = Reported(loaded[b].anthropic)
    BY <2>1 DEF Keep
  <2>2. CASE ~(loaded[b].status = "keep" \/ loaded[b].status = Reported(loaded[b].anthropic))
    <3>1. Settled(b) /\ Accepted(loaded[b].anthropic)
      BY <1>3, <2>2
    <3>2. Reported(loaded[b].anthropic) \in RemoteStatuses
      BY <3>1 DEF Reported, Accepted, TypeOK, Remote
    <3>3. memo[b] = [loaded[b] EXCEPT !.status = Reported(loaded[b].anthropic)]
      BY <2>2
    <3>4. loaded[b] \in [status: RowStatuses \cup {"keep"}, anthropic: Remotes \cup {NoRemote}]
      BY <1>1 DEF Snapshot
    <3>5. RemoteStatuses \subseteq RowStatuses
      BY DEF RemoteStatuses, RowStatuses, BatchStatuses
    <3> HIDE DEF memo
    <3> QED
      BY <3>1, <3>2, <3>3, <3>4, <3>5
  <2> QED
    BY <2>1, <2>2
<1> HIDE DEF loaded
<1>5. memo \in Snapshot
  BY <1>4 DEF Snapshot
<1>6. new \in Executor /\ new.pc = "update" /\ new.msg = exec[w].msg /\ new.memo = memo
  BY <1>1, <1>5 DEF Executor, Places
<1>7. exec'[w] = new
  BY <1>1, <1>2 DEF Step, TypeOK
<1>8. TypeOK'
  BY <1>1, <1>2, <1>6, StepType DEF TypeOK
<1>9. TaskConsistent(w)'
  <2>1. \A b \in Batches : memo[b].status # "keep" =>
           /\ Settled(b)'
           /\ memo[b].anthropic \in Remotes /\ remote'[memo[b].anthropic].state # "none"
           /\ memo[b].status \in RemoteStatuses
    BY <1>2, <1>4 DEF Settled, Accepted, Exists
  <2> HIDE DEF memo
  <2> QED
    BY <1>3, <1>6, <1>7, <2>1 DEF TaskConsistent, Executors, Accepted
<1> QED
  BY <1>1, <1>2, <1>6, <1>8, <1>9, ExecOnly

(* What a poll or process task writes into a submitted row leaves its Anthropic *)
(* id and its payload alone.                                                 *)
LEMMA WrittenRows ==
  ASSUME Inductive, NEW e \in Executors, exec[e].pc \in {"update", "apply"},
         row' = Written(exec[e].memo), UNCHANGED remote
  PROVE  /\ row' \in [Batches -> Row]
         /\ OutboxShape' /\ LinkedToOwnSubmission'
         /\ \A b \in Batches : Settled(b) => Settled(b)'
<1> USE DEF Inductive
<1> DEFINE new == exec[e].memo
<1>1. ASSUME NEW b \in Batches, new[b].status # "keep"
      PROVE  /\ Settled(b)
             /\ new[b].status \in {"in_progress", "canceling", "ended", "processed"}
  BY <1>1 DEF TaskConsistent, RemoteStatuses
<1>2. ASSUME NEW b \in Batches
      PROVE  \/ row'[b] = row[b]
             \/ /\ row'[b] = [row[b] EXCEPT !.status = new[b].status]
                /\ Exists(b) /\ row[b].anthropic # NoRemote /\ row[b].status # "pending_submit"
                /\ new[b].status \in {"in_progress", "canceling", "ended", "processed"}
  <2>1. CASE new[b].status # "keep" /\ Exists(b)
    <3>1. row[b].anthropic # NoRemote
      BY <1>1, <2>1 DEF Settled, Exists, BatchStatuses
    <3> QED
      BY <1>1, <2>1, <3>1 DEF Written, OutboxShape
  <2> QED
    BY <2>1 DEF Written
<1> HIDE DEF new
<1>3. \A b \in Batches : row[b] \in Row
  BY DEF TypeOK
<1>4. ASSUME NEW b \in Batches
      PROVE  /\ row'[b] \in Row /\ row'[b].anthropic = row[b].anthropic
             /\ row'[b].payload = row[b].payload
             /\ Exists(b)' <=> Exists(b)
             /\ row'[b].status = "pending_submit" <=> row[b].status = "pending_submit"
             /\ row'[b].status = "deleted" <=> row[b].status = "deleted"
  BY <1>2, <1>3 DEF Row, RowStatuses, BatchStatuses, Exists
<1>5. row' \in [Batches -> Row]
  BY <1>4 DEF Written
<1>6. OutboxShape' /\ LinkedToOwnSubmission'
  BY <1>4 DEF OutboxShape, LinkedToOwnSubmission
<1>7. \A b \in Batches : Settled(b) => Settled(b)'
  BY <1>4 DEF Settled
<1> QED
  BY <1>5, <1>6, <1>7

LEMMA PollUpdateStep ==
  ASSUME Inductive, NEW w \in Workers, PollUpdate(w)
  PROVE  Inductive'
<1> USE DEF Inductive
<1> DEFINE ids == exec[w].msg.ids
<1>1. w \in Executors /\ exec[w] \in Executor /\ exec[w].pc = "update"
  BY DEF PollUpdate, Executors, TypeOK
<1>2. row' = Written(exec[w].memo) /\ UNCHANGED <<remote, queue, requests, faults>>
  BY DEF PollUpdate
<1>3. PICK m \in Message : Step(w, Sending(w, m))
  <2>1. Poll(ids) \in Message /\ Process(ids) \in Message
    BY <1>1, MessageTypes DEF TaskConsistent, Message, KickoffMessage
  <2> QED
    BY <2>1 DEF PollUpdate
<1>4. /\ row' \in [Batches -> Row]
      /\ OutboxShape' /\ LinkedToOwnSubmission'
      /\ \A b \in Batches : Settled(b) => Settled(b)'
  BY <1>1, <1>2, WrittenRows
<1>5. Sending(w, m) \in Executor
  BY <1>1, SendingType DEF TypeOK
<1>6. TypeOK'
  BY <1>1, <1>2, <1>3, <1>4, <1>5, StepType DEF TypeOK
<1>7. TaskConsistent(w)'
  BY <1>1, <1>3, RestingConsistent DEF Step, Sending, TypeOK, Executor
<1>8. \A f \in Executors \ {w} : exec'[f] = exec[f]
  BY <1>1, <1>3 DEF Step, TypeOK
<1>9. \A f \in Executors : TaskConsistent(f)'
  BY <1>1, <1>2, <1>4, <1>7, <1>8, OthersConsistent DEF Accepted
<1> QED
  BY <1>4, <1>6, <1>9

LEMMA ProcessGatherStep ==
  ASSUME Inductive, NEW e \in Executors, ProcessGather(e)
  PROVE  Inductive'
<1> USE DEF Inductive
<1> DEFINE ready == Ready(exec[e].msg.ids)
           memo == [b \in Batches |-> IF b \in ready
                                      THEN [status |-> "processed",
                                            anthropic |-> row[b].anthropic]
                                      ELSE Keep]
           new == [exec[e] EXCEPT !.pc = "apply", !.memo = memo]
<1>1. exec[e] \in Executor /\ exec[e].pc = "gather"
  BY DEF ProcessGather, TypeOK
<1>2. UNCHANGED <<row, remote, queue, requests, faults>>
  BY DEF ProcessGather
<1>3. Step(e, Finished(e)) \/ Step(e, new)
  BY DEF ProcessGather
<1>4. CASE Step(e, new)
  <2>1. memo \in Snapshot
    BY DEF Snapshot, Keep, TypeOK, Row, RowStatuses, BatchStatuses
  <2>2. new \in Executor /\ new.pc = "apply" /\ new.msg = exec[e].msg /\ new.memo = memo
    BY <1>1, <2>1 DEF Executor, Places
  <2>3. exec'[e] = new
    BY <1>1, <1>4 DEF Step, TypeOK
  <2>4. TypeOK'
    BY <1>1, <1>2, <1>4, <2>2, StepType DEF TypeOK
  <2>5. ASSUME NEW b \in Batches, memo[b].status # "keep"
        PROVE  /\ Settled(b)' /\ memo[b].status = "processed"
               /\ memo[b].anthropic \in Remotes /\ remote'[memo[b].anthropic].state # "none"
    <3>1. row[b].status = "ended" /\ memo[b].status = "processed"
          /\ memo[b].anthropic = row[b].anthropic
      BY <2>5 DEF Keep, Ready, ProcessableStatuses
    <3>2. Exists(b) /\ row[b].anthropic # NoRemote /\ row[b].anthropic \in Remotes
      BY <3>1 DEF OutboxShape, Exists, BatchStatuses, TypeOK, Row
    <3> QED
      BY <1>2, <3>1, <3>2 DEF Settled, Accepted, LinkedToOwnSubmission, Exists
  <2>6. TaskConsistent(e)'
    <3> HIDE DEF memo
    <3> QED
      BY <2>2, <2>3, <2>5 DEF TaskConsistent, Accepted
  <2> QED
    BY <1>1, <1>2, <1>4, <2>2, <2>4, <2>6, ExecOnly
<1> QED
  BY <1>2, <1>3, <1>4, FinishedStep

LEMMA ProcessApplyStep ==
  ASSUME Inductive, NEW e \in Executors, ProcessApply(e)
  PROVE  Inductive'
<1> USE DEF Inductive
<1>1. exec[e] \in Executor /\ exec[e].pc = "apply" /\ Step(e, Finished(e))
  BY DEF ProcessApply, TypeOK
<1>2. UNCHANGED <<remote, queue, requests, faults>>
  BY DEF ProcessApply
<1>3. CASE row' = row
  BY <1>1, <1>2, <1>3, FinishedStep
<1>4. CASE row' = Written(exec[e].memo)
  <2>1. /\ row' \in [Batches -> Row]
        /\ OutboxShape' /\ LinkedToOwnSubmission'
        /\ \A b \in Batches : Settled(b) => Settled(b)'
    BY <1>1, <1>2, <1>4, WrittenRows
  <2>2. TypeOK'
    BY <1>1, <1>2, <2>1, FinishedType, StepType DEF TypeOK
  <2>3. TaskConsistent(e)'
    BY <1>1, RestingConsistent DEF Step, Finished, TypeOK, Executor
  <2>4. \A f \in Executors \ {e} : exec'[f] = exec[f]
    BY <1>1 DEF Step, TypeOK
  <2>5. \A f \in Executors : TaskConsistent(f)'
    BY <1>2, <2>1, <2>3, <2>4, OthersConsistent DEF Accepted
  <2> QED
    BY <2>1, <2>2, <2>5
<1> QED
  BY <1>3, <1>4 DEF ProcessApply

LEMMA InductiveStep == Inductive /\ [Next]_vars => Inductive'
<1> SUFFICES ASSUME Inductive, [Next]_vars PROVE Inductive'
  OBVIOUS
<1> USE DEF Executors
<1>1. CASE UNCHANGED vars
  BY <1>1 DEF vars, Inductive, TypeOK, OutboxShape, LinkedToOwnSubmission, TaskConsistent,
              Settled, Accepted, Exists
<1>2. CASE Kickoff \/ OperatorPoll \/ DeleteBatches \/ \E r \in Remotes : RemoteProgress(r)
  BY <1>2, OutsideStep
<1>3. ASSUME NEW w \in Workers, \/ \E m \in Message : Receive(w, m)
                                \/ Run(w) \/ SubmitFail(w) \/ Redeliver(w)
      PROVE  Inductive'
  BY <1>3, DeliveryStep, MaterializeStep, SubmitScanStep, SubmitAcceptStep, SubmitRecordStep,
     SubmitFailStep, PollLoadStep, PollRetrieveStep, PollUpdateStep, ProcessGatherStep,
     ProcessApplyStep DEF Run
<1>4. ASSUME NEW o \in Operators, OperatorProcess(o) \/ RunOperator(o)
      PROVE  Inductive'
  BY <1>4, DeliveryStep, ProcessGatherStep, ProcessApplyStep DEF RunOperator
<1>5. ASSUME NEW e \in Executors, Crash(e) PROVE Inductive'
  BY <1>5, DeliveryStep
<1> QED
  BY <1>1, <1>2, <1>3, <1>4, <1>5 DEF Next

LEMMA InductiveAlways == Spec => []Inductive
  BY InductiveInit, InductiveStep, PTL DEF Spec

(* Every variable keeps its type, whatever the executors do.                  *)
THEOREM TypeCorrect == Spec => []TypeOK
  BY InductiveAlways, PTL DEF Inductive

(* For any number of workers and faults, a row is pending with its payload,  *)
(* or was submitted and has none (submit_batch.py, batch_repo.py).           *)
THEOREM RowsWellFormed == Spec => []OutboxShape
  BY InductiveAlways, PTL DEF Inductive

(* The Anthropic id a row carries is the one that was returned for its own   *)
(* payload, whatever tasks run twice or die (submit_batch.py).               *)
THEOREM IdsAreOwn == Spec => []LinkedToOwnSubmission
  BY InductiveAlways, PTL DEF Inductive

--------------------------------------------------------------------------------
(* Any number of workers: the chains of tasks.                               *)

FiniteInstance == IsFiniteSet(Batches) /\ IsFiniteSet(Workers)

LEMMA MessagesFinite ==
  ASSUME IsFiniteSet(Batches)
  PROVE  IsFiniteSet(Message)
<1> DEFINE K == {"submit", "poll", "process"}
           I == (SUBSET Batches) \ {{}}
           M == [kind: K, ids: I]
           f == [p \in K \X I |-> [kind |-> p[1], ids |-> p[2]]]
<1>1. IsFiniteSet(K)
  <2>1. K = (({} \cup {"submit"}) \cup {"poll"}) \cup {"process"}
    OBVIOUS
  <2>2. IsFiniteSet({} \cup {"submit"})
    BY FS_EmptySet, FS_AddElement
  <2>3. IsFiniteSet(({} \cup {"submit"}) \cup {"poll"})
    BY <2>2, FS_AddElement
  <2> QED
    BY <2>1, <2>3, FS_AddElement
<1>2. IsFiniteSet(I)
  BY FS_SUBSET, FS_RemoveElement
<1>3. IsFiniteSet(K \X I)
  BY <1>1, <1>2, FS_Product
<1>4. f \in Surjection(K \X I, M)
  <2>1. f \in [K \X I -> M]
    OBVIOUS
  <2>2. ASSUME NEW m \in M PROVE \E p \in K \X I : f[p] = m
    <3>1. <<m.kind, m.ids>> \in K \X I
      OBVIOUS
    <3>2. f[<<m.kind, m.ids>>] = m
      OBVIOUS
    <3> QED
      BY <3>1, <3>2
  <2> QED
    BY <2>1, <2>2 DEF Surjection
<1>5. IsFiniteSet(M)
  BY <1>3, <1>4, FS_Surjection
<1>6. Message = M \cup {KickoffMessage}
  BY DEF Message
<1> QED
  BY <1>5, <1>6, FS_AddElement

Busy == {w \in Workers : exec[w].pc \notin {"idle", "ack"}}

LEMMA Balance ==
  \A q, n, n1, c, c1 \in Nat :
     q + n <= c => /\ n1 <= n /\ c <= c1 => q + n1 <= c1
                   /\ n1 <= n + 1 => (q - 1) + n1 <= c
  OBVIOUS

LEMMA AddNat == \A a, b \in Nat : a + b \in Nat
  OBVIOUS

Spent == requests + faults

LEMMA SpentTypes ==
  ASSUME TypeOK, TypeOK'
  PROVE  Spent \in Nat /\ Spent' \in Nat
<1>1. requests \in Nat /\ faults \in Nat
  BY DEF TypeOK
<1>2. requests' \in Nat /\ faults' \in Nat
  BY DEF TypeOK
<1>3. Spent \in Nat
  BY <1>1, AddNat, Zenon DEF Spent
<1>4. Spent' \in Nat
  BY <1>2, AddNat, Zenon DEF Spent
<1> QED
  BY <1>3, <1>4

Running == Cardinality(Busy)

Waiting == SumOf(queue)[Message]

LEMMA WaitingChanges ==
  ASSUME IsFiniteSet(Batches), TypeOK, TypeOK', NEW m \in Message
  PROVE  /\ Waiting \in Nat
         /\ Put(m) => Waiting' = Waiting + 1
         /\ queue' = [queue EXCEPT ![m] = @ - 1] => Waiting' = Waiting - 1
<1>1. IsFiniteSet(Message)
  BY MessagesFinite
<1>2. queue \in [Message -> Nat] /\ queue' \in [Message -> Nat]
  BY DEF TypeOK
<1>3. Waiting \in Nat
  BY <1>1, <1>2, SumIsNat DEF Waiting
<1>4. ASSUME \A k \in Message \ {m} : queue'[k] = queue[k]
      PROVE  Waiting' = Waiting + queue'[m] - queue[m]
  BY <1>1, <1>2, <1>4, SumChanges DEF Waiting
<1>5. ASSUME Put(m) PROVE Waiting' = Waiting + 1
  <2>1. /\ \A k \in Message \ {m} : queue'[k] = queue[k]
        /\ queue'[m] = queue[m] + 1
    BY <1>2, <1>5 DEF Put
  <2>2. queue[m] \in Nat
    BY <1>2
  <2> QED
    BY <1>3, <1>4, <2>1, <2>2
<1>6. ASSUME queue' = [queue EXCEPT ![m] = @ - 1] PROVE Waiting' = Waiting - 1
  <2>1. /\ \A k \in Message \ {m} : queue'[k] = queue[k]
        /\ queue'[m] = queue[m] - 1
    BY <1>2, <1>6
  <2>2. queue[m] \in Nat
    BY <1>2
  <2> QED
    BY <1>3, <1>4, <2>1, <2>2
<1> QED
  BY <1>3, <1>5, <1>6

LEMMA BusyChanges ==
  ASSUME IsFiniteSet(Workers), TypeOK, NEW e \in Executors, NEW new, Step(e, new)
  PROVE  /\ Cardinality(Busy) \in Nat /\ Cardinality(Busy') \in Nat
         /\ new.pc \in {"idle", "ack"} =>
               Cardinality(Busy') = Cardinality(Busy) - (IF e \in Busy THEN 1 ELSE 0)
         /\ e \notin Workers => Busy' = Busy
         /\ e \in Busy => Cardinality(Busy') <= Cardinality(Busy)
         /\ Cardinality(Busy') <= Cardinality(Busy) + 1
<1>1. exec'[e] = new /\ \A f \in Executors \ {e} : exec'[f] = exec[f]
  BY DEF Step, TypeOK
<1>2. Workers \subseteq Executors
  BY DEF Executors
<1>3. IsFiniteSet(Busy) /\ IsFiniteSet(Busy') /\ Cardinality(Busy) \in Nat /\ Cardinality(Busy') \in Nat
  BY FS_Subset, FS_CardinalityType DEF Busy
<1>4. \A w \in Workers \ {e} : w \in Busy' <=> w \in Busy
  BY <1>1, <1>2 DEF Busy
<1>5. Busy \subseteq Workers /\ Busy' \subseteq Workers
  BY DEF Busy
<1>6. \/ e \notin Busy /\ e \notin Busy' /\ Busy' = Busy
      \/ e \in Busy /\ e \in Busy' /\ Busy' = Busy
      \/ e \notin Busy /\ e \in Busy' /\ Busy' = Busy \cup {e}
      \/ e \in Busy /\ e \notin Busy' /\ Busy' = Busy \ {e}
  BY <1>4, <1>5
<1>7. e \in Busy' => new.pc \notin {"idle", "ack"}
  BY <1>1 DEF Busy
<1>8. /\ IsFiniteSet(Busy \cup {e})
      /\ Cardinality(Busy \cup {e}) = IF e \in Busy THEN Cardinality(Busy) ELSE Cardinality(Busy) + 1
      /\ Cardinality(Busy \ {e}) = IF e \in Busy THEN Cardinality(Busy) - 1 ELSE Cardinality(Busy)
  BY <1>3, FS_AddElement, FS_RemoveElement
<1>9. e \notin Workers => e \notin Busy /\ e \notin Busy'
  BY <1>5
<1> DEFINE n == Cardinality(Busy)
           n1 == Cardinality(Busy')
<1>10. /\ n \in Nat /\ n1 \in Nat
       /\ \/ e \notin Busy /\ e \notin Busy' /\ n1 = n
          \/ e \in Busy /\ e \in Busy' /\ n1 = n
          \/ e \notin Busy /\ e \in Busy' /\ n1 = n + 1
          \/ e \in Busy /\ e \notin Busy' /\ n1 = n - 1
  BY <1>3, <1>6, <1>8
<1> HIDE DEF n, n1
<1>11. /\ new.pc \in {"idle", "ack"} => n1 = n - (IF e \in Busy THEN 1 ELSE 0)
       /\ e \in Busy => n1 <= n
       /\ n1 <= n + 1
  BY <1>7, <1>10
<1> QED
  BY <1>6, <1>9, <1>10, <1>11 DEF n, n1

ChainsCounted == TypeOK /\ Waiting + Running <= Spent

LEMMA ChainsInit ==
  ASSUME FiniteInstance
  PROVE  Init => ChainsCounted
<1> SUFFICES ASSUME Init PROVE ChainsCounted
  OBVIOUS
<1>1. TypeOK
  BY InductiveInit DEF Inductive
<1>2. Busy = {}
  BY DEF Init, Busy, Idle, Executors
<1>3. Waiting = 0
  <2>1. IsFiniteSet(Message) /\ queue \in [Message -> Nat] /\ \A m \in Message : queue[m] = 0
    BY MessagesFinite DEF Init, FiniteInstance
  <2> QED
    BY <2>1, SumOfZeros DEF Waiting
<1>4. requests = 0 /\ faults = 0 /\ Cardinality({}) = 0
  BY FS_EmptySet DEF Init
<1> QED
  BY <1>1, <1>2, <1>3, <1>4 DEF ChainsCounted, Running, Spent

(* A task that moves without sending anything.                               *)
LEMMA ChainsQuiet ==
  ASSUME FiniteInstance, ChainsCounted, TypeOK', UNCHANGED queue, Spent' >= Spent,
         NEW e \in Executors, NEW new, Step(e, new),
         e \in Busy \/ e \notin Workers \/ new.pc \in {"idle", "ack"}
  PROVE  ChainsCounted'
<1>1. Running \in Nat /\ Running' \in Nat /\ Running' <= Running
  BY BusyChanges DEF FiniteInstance, ChainsCounted, Running
<1>2. Waiting' = Waiting
  BY DEF Waiting
<1>3. Waiting \in Nat
  BY MessageTypes, WaitingChanges DEF FiniteInstance, ChainsCounted
<1>4. Spent \in Nat /\ Spent' \in Nat
  BY SpentTypes DEF ChainsCounted
<1>5. Waiting + Running <= Spent
  BY DEF ChainsCounted
<1>6. Waiting + Running' <= Spent'
  <2>1. Spent <= Spent'
    BY <1>4
  <2> QED
    BY <1>1, <1>3, <1>4, <1>5, <2>1, Balance, Zenon
<1> QED
  BY <1>2, <1>6 DEF ChainsCounted

(* What sends a message is a request, a fault or a task that ends with it.   *)
LEMMA ChainsSend ==
  ASSUME FiniteInstance, ChainsCounted, TypeOK', NEW m \in Message, Put(m),
         \/ Spent' = Spent + 1 /\ exec' = exec
         \/ /\ Spent' = Spent + 1
            /\ \E e \in Executors : \E new \in Executor :
                  Step(e, new) /\ (e \in Busy \/ e \notin Workers \/ new.pc \in {"idle", "ack"})
         \/ /\ Spent' = Spent
            /\ \E e \in Busy : \E new \in Executor : Step(e, new) /\ new.pc = "ack"
  PROVE  ChainsCounted'
<1>1. Waiting \in Nat /\ Waiting' = Waiting + 1
  BY WaitingChanges DEF FiniteInstance, ChainsCounted
<1>2. Spent \in Nat /\ Spent' \in Nat
  BY SpentTypes DEF ChainsCounted
<1>3. Waiting + Running <= Spent
  BY DEF ChainsCounted
<1>4. Busy \subseteq Executors
  BY DEF Busy, Executors
<1>5. \/ Spent' = Spent + 1 /\ Running \in Nat /\ Running' \in Nat /\ Running' <= Running
      \/ Spent' = Spent /\ Running \in Nat /\ Running' \in Nat /\ Running' = Running - 1
  <2>1. CASE exec' = exec /\ Spent' = Spent + 1
    <3>1. Running' = Running
      BY <2>1 DEF Busy, Running
    <3>2. Running \in Nat
      BY FS_Subset, FS_CardinalityType DEF Busy, FiniteInstance, Running
    <3> QED
      BY <2>1, <3>1, <3>2
  <2>2. ASSUME NEW e \in Executors, NEW new \in Executor, Step(e, new),
               e \in Busy \/ e \notin Workers \/ new.pc \in {"idle", "ack"}
        PROVE  Running \in Nat /\ Running' \in Nat /\ Running' <= Running
    BY <2>2, BusyChanges DEF FiniteInstance, ChainsCounted, Running
  <2>3. ASSUME NEW e \in Busy, NEW new \in Executor, Step(e, new), new.pc = "ack"
        PROVE  Running \in Nat /\ Running' \in Nat /\ Running' = Running - 1
    BY <1>4, <2>3, BusyChanges DEF FiniteInstance, ChainsCounted, Running
  <2> QED
    BY <2>1, <2>2, <2>3
<1>6. Waiting' + Running' <= Spent'
  BY <1>1, <1>2, <1>3, <1>5
<1> QED
  BY <1>6 DEF ChainsCounted

LEMMA ChainsStep ==
  ASSUME FiniteInstance, Inductive, ChainsCounted, [Next]_vars
  PROVE  ChainsCounted'
<1> USE DEF Executors
<1>0. Inductive' /\ TypeOK' /\ TypeOK
  BY InductiveStep DEF Inductive
<1>12. /\ requests \in Nat /\ faults \in Nat /\ exec \in [Executors -> Executor]
       /\ \A e \in Executors : exec[e] \in Executor
  BY <1>0 DEF TypeOK
<1>13. /\ Fault => faults' = faults + 1
       /\ Request => requests' = requests + 1
  BY DEF Fault, Request
<1>14. /\ UNCHANGED requests /\ UNCHANGED faults => Spent' = Spent
       /\ UNCHANGED requests /\ Fault => Spent' = Spent + 1
       /\ UNCHANGED faults /\ Request => Spent' = Spent + 1
       /\ Spent \in Nat
  BY <1>12, <1>13 DEF Spent
<1>1. CASE UNCHANGED vars
  <2>1. Waiting' = Waiting /\ Running' = Running /\ Spent' = Spent
    BY <1>1 DEF vars, Waiting, Running, Busy, Spent
  <2> QED
    BY <1>0, <2>1 DEF ChainsCounted
<1>2. CASE Kickoff
  <2>1. KickoffMessage \in Message /\ Put(KickoffMessage) /\ exec' = exec /\ Spent' = Spent + 1
    BY <1>2, <1>14, MessageTypes DEF Kickoff
  <2> QED
    BY <1>0, <2>1, ChainsSend
<1>3. CASE OperatorPoll
  <2>1. exec' = exec /\ Spent' = Spent + 1
    BY <1>3, <1>14 DEF OperatorPoll
  <2>2. PICK m \in Message : Put(m)
    BY <1>3, MessageTypes DEF OperatorPoll
  <2> QED
    BY <1>0, <2>1, <2>2, ChainsSend
<1>4. CASE DeleteBatches \/ \E r \in Remotes : RemoteProgress(r)
  <2>1. UNCHANGED <<queue, exec>> /\ Spent' >= Spent /\ Spent' \in Nat
    <3>1. CASE DeleteBatches
      BY <1>14, <3>1 DEF DeleteBatches
    <3>2. CASE \E r \in Remotes : RemoteProgress(r)
      BY <1>14, <3>2 DEF RemoteProgress
    <3> QED
      BY <1>4, <3>1, <3>2
  <2>2. Waiting' = Waiting /\ Running' = Running
    BY <2>1 DEF Waiting, Running, Busy
  <2>3. Waiting \in Nat /\ Running \in Nat
    <3>1. Running \in Nat
      BY FS_Subset, FS_CardinalityType DEF Busy, FiniteInstance, Running
    <3> QED
      BY <1>0, <3>1, MessageTypes, WaitingChanges DEF FiniteInstance
  <2>4. Waiting' + Running' <= Spent'
    BY <1>14, <2>1, <2>2, <2>3 DEF ChainsCounted
  <2> QED
    BY <1>0, <2>4 DEF ChainsCounted
<1>15. ASSUME NEW e \in Executors, UNCHANGED queue, Spent' = Spent \/ Spent' = Spent + 1, NEW new, Step(e, new),
              e \in Busy \/ e \notin Workers \/ new.pc \in {"idle", "ack"}
       PROVE  ChainsCounted'
  <2>1. Spent' >= Spent
    BY <1>14, <1>15
  <2> QED
    BY <1>0, <1>15, <2>1, ChainsQuiet
<1>16. \A w \in Workers : exec[w].pc \notin {"idle", "ack"} => w \in Busy
  BY DEF Busy
<1>5. ASSUME NEW w \in Workers, NEW m \in Message, Receive(w, m) PROVE ChainsCounted'
  <2> DEFINE new == [Idle EXCEPT !.pc = Entry(m.kind), !.msg = m, !.held = TRUE, !.todo = m.ids]
  <2>1. queue' = [queue EXCEPT ![m] = @ - 1] /\ Step(w, new) /\ Spent' = Spent
    BY <1>5, <1>14 DEF Receive
  <2> HIDE DEF new
  <2>2. Waiting \in Nat /\ Waiting' = Waiting - 1
    BY <1>0, <2>1, WaitingChanges DEF FiniteInstance
  <2>3. Running \in Nat /\ Running' \in Nat /\ Running' <= Running + 1
    BY <1>0, <2>1, BusyChanges DEF FiniteInstance, Running
  <2>4. (Waiting - 1) + Running' <= Spent
    <3>1. Waiting + Running <= Spent
      BY DEF ChainsCounted
    <3> QED
      BY <1>14, <2>2, <2>3, <3>1, Balance, Zenon
  <2> QED
    BY <1>0, <2>1, <2>2, <2>4 DEF ChainsCounted
<1>6. ASSUME NEW w \in Workers, SendNext(w) PROVE ChainsCounted'
  <2>1. Put(exec[w].next) /\ Step(w, Finished(w)) /\ Spent' = Spent /\ w \in Busy
    BY <1>6, <1>14, <1>16 DEF SendNext
  <2>2. Finished(w) \in Executor /\ Finished(w).pc = "ack"
    BY <1>12, FinishedType DEF Finished, Executor
  <2>3. exec[w].next \in Message \cup {NoMessage}
    BY <1>12 DEF Executor
  <2>4. CASE exec[w].next \in Message
    BY <1>0, <2>1, <2>2, <2>4, ChainsSend
  <2>5. CASE exec[w].next \notin Message
    <3>1. UNCHANGED queue
      BY <1>0, <2>1, <2>5 DEF Put, TypeOK
    <3> QED
      BY <1>15, <2>1, <2>2, <3>1
  <2> QED
    BY <2>4, <2>5
<1>7. ASSUME NEW e \in Executors, Ack(e) PROVE ChainsCounted'
  <2>1. UNCHANGED queue /\ Step(e, Idle) /\ Spent' = Spent /\ Idle.pc = "idle"
    BY <1>7, <1>14 DEF Ack, Idle
  <2> QED
    BY <1>15, <2>1
<1>8. ASSUME NEW e \in Executors, Crash(e) PROVE ChainsCounted'
  <2>1. Step(e, Idle) /\ Spent' = Spent + 1 /\ Idle.pc = "idle" /\ Idle \in Executor
    BY <1>8, <1>14, IdleType DEF Crash, Idle
  <2>2. CASE UNCHANGED queue
    BY <1>15, <2>1, <2>2
  <2>3. CASE Put(exec[e].msg) /\ exec[e].msg \in Message
    BY <1>0, <2>1, <2>3, ChainsSend
  <2>4. CASE Put(exec[e].msg) /\ exec[e].msg \notin Message
    <3>1. UNCHANGED queue
      BY <1>0, <2>4 DEF Put, TypeOK
    <3> QED
      BY <2>2, <3>1
  <2> QED
    BY <1>8, <2>2, <2>3, <2>4 DEF Crash
<1>9. ASSUME NEW w \in Workers, Redeliver(w) PROVE ChainsCounted'
  <2> DEFINE new == [exec[w] EXCEPT !.held = FALSE]
  <2>1. Step(w, new) /\ Spent' = Spent + 1 /\ Put(exec[w].msg) /\ new \in Executor /\ new.pc = exec[w].pc
    BY <1>9, <1>14, <1>12 DEF Redeliver, Executor
  <2>2. w \in Busy \/ new.pc \in {"idle", "ack"}
    BY <1>16, <2>1
  <2>3. CASE exec[w].msg \in Message
    BY <1>0, <2>1, <2>2, <2>3, ChainsSend
  <2>4. CASE exec[w].msg \notin Message
    <3>1. UNCHANGED queue
      BY <1>0, <2>1, <2>4 DEF Put, TypeOK
    <3> QED
      BY <1>15, <2>1, <2>2, <3>1
  <2> QED
    BY <2>3, <2>4
<1>10. ASSUME NEW o \in Operators, OperatorProcess(o) PROVE ChainsCounted'
  <2>1. UNCHANGED queue /\ Spent' = Spent + 1 /\ o \notin Workers
    BY <1>10, <1>14 DEF OperatorProcess
  <2>2. PICK new : Step(o, new)
    BY <1>10 DEF OperatorProcess
  <2> QED
    BY <1>15, <2>1, <2>2
<1>11. ASSUME NEW e \in Executors,
              \/ Materialize(e) \/ SubmitScan(e) \/ SubmitAccept(e) \/ SubmitRecord(e) \/ SubmitFail(e)
              \/ PollLoad(e) \/ PollRetrieve(e) \/ PollUpdate(e) \/ ProcessGather(e) \/ ProcessApply(e)
       PROVE  ChainsCounted'
  <2>1. UNCHANGED queue /\ (Spent' = Spent \/ Spent' = Spent + 1)
    BY <1>11, <1>14 DEF Materialize, SubmitScan, SubmitAccept, SubmitRecord, SubmitFail,
       PollLoad, PollRetrieve, PollUpdate, ProcessGather, ProcessApply
  <2>2. e \in Busy \/ e \notin Workers
    BY <1>11, <1>16 DEF Materialize, SubmitScan, SubmitAccept, SubmitRecord, SubmitFail,
       PollLoad, PollRetrieve, PollUpdate, ProcessGather, ProcessApply
  <2>3. \E new : Step(e, new)
    BY <1>11 DEF Materialize, SubmitScan, SubmitAccept, SubmitRecord, SubmitFail,
       PollLoad, PollRetrieve, PollUpdate, ProcessGather, ProcessApply
  <2> QED
    BY <1>15, <2>1, <2>2, <2>3
<1> QED
  BY <1>1, <1>2, <1>3, <1>4, <1>5, <1>6, <1>7, <1>8, <1>9, <1>10, <1>11 DEF Next, Run, RunOperator

(* For any number of workers, the messages that wait and the tasks that have *)
(* yet to send one are at most the requests and faults so far: a pipeline is *)
(* one chain of tasks, whatever is redelivered (poll_pipeline.py).           *)
THEOREM ChainsBounded ==
  ASSUME FiniteInstance
  PROVE  Spec => []ChainsDoNotMultiply
<1>1. ASSUME ChainsCounted PROVE ChainsDoNotMultiply
  <2>1. IsFiniteSet(Message) /\ queue \in [Message -> Nat]
    BY <1>1, MessagesFinite DEF FiniteInstance, ChainsCounted, TypeOK
  <2>2. FoldFunction(+, 0, queue) = Waiting
    BY <2>1, SumOfStep DEF Waiting
  <2> QED
    BY <1>1, <2>2 DEF ChainsCounted, ChainsDoNotMultiply, Live, Running, Busy, Spent
<1>2. Init => Inductive /\ ChainsCounted
  BY InductiveInit, ChainsInit
<1>3. Inductive /\ ChainsCounted /\ [Next]_vars => (Inductive /\ ChainsCounted)'
  BY InductiveStep, ChainsStep
<1> QED
  BY <1>1, <1>2, <1>3, PTL DEF Spec

--------------------------------------------------------------------------------
(* One worker.                                                               *)

SoloWorker == \A v, w \in Workers : v = w

(* s is t, or a status Anthropic may report after t.                         *)
NotBehind(s, t) == s = t \/ s \in Lifecycle!Ahead(t)

(* What a task has read is still true of the row when it acts on it, unless  *)
(* the row was deleted.                                                      *)
TaskUpToDate(e) ==
  /\ exec[e].pc \in {"accept", "record"} =>
        row[exec[e].batch].status \in {"pending_submit", "deleted"}
  /\ \A b \in Batches :
        exec[e].memo[b].status # "keep" /\ row[b].status # "deleted" =>
           /\ exec[e].pc \in {"retrieve", "update"} =>
                 exec[e].memo[b].anthropic = row[b].anthropic
           /\ exec[e].pc = "retrieve" => /\ exec[e].memo[b].status = row[b].status
                                         /\ row[b].status \notin TerminalStatuses
           /\ exec[e].pc = "update" =>
                 /\ exec[e].memo[b].status \in Lifecycle!Ahead(row[b].status)
                 /\ NotBehind(remote[row[b].anthropic].state, exec[e].memo[b].status)
           /\ exec[e].pc = "apply" => row[b].status \in {"ended", "processed"}

(* Anthropic is never behind the row.                                        *)
RemoteAhead ==
  \A b \in Batches :
     /\ row[b].status \in {"in_progress", "canceling"} =>
           NotBehind(remote[row[b].anthropic].state, row[b].status)
     /\ row[b].status \in {"ended", "processed"} => remote[row[b].anthropic].state = "ended"
     /\ row[b].status \notin FailedStatuses

SoloInductive ==
  /\ Inductive
  /\ RemoteAhead
  /\ \A e \in Executors : TaskUpToDate(e)

LEMMA AheadValues ==
  /\ Lifecycle!Ahead("submitted") = {"in_progress", "canceling", "ended"}
  /\ Lifecycle!Ahead("in_progress") = {"canceling", "ended"}
  /\ Lifecycle!Ahead("canceling") = {"ended"}
  /\ \A s : s \notin {"submitted", "in_progress", "canceling"} => Lifecycle!Ahead(s) = {}
  BY DEF Lifecycle!Ahead

LEMMA NotBehindTransitive ==
  ASSUME NEW s, NEW t, NEW u, NotBehind(s, t), NotBehind(t, u)
  PROVE  NotBehind(s, u)
  BY AheadValues DEF NotBehind

LEMMA SoloInit == Init => SoloInductive
<1> SUFFICES ASSUME Init PROVE SoloInductive
  OBVIOUS
<1>1. Inductive
  BY InductiveInit
<1>2. RemoteAhead
  BY DEF Init, RemoteAhead, FailedStatuses
<1>3. \A e \in Executors : TaskUpToDate(e)
  BY DEF Init, TaskUpToDate, Idle
<1> QED
  BY <1>1, <1>2, <1>3 DEF SoloInductive

(* What may happen to a row behind the back of a task, and what to an        *)
(* Anthropic batch.                                                          *)
RowBehind(f, b) ==
  \/ row'[b] = row[b]
  \/ row'[b].status = "deleted"
  \/ /\ row[b].status \in {"ended", "processed"} /\ row'[b].status = "processed"
     /\ row'[b].anthropic = row[b].anthropic
  \/ f \in Operators /\ row[b].status \notin {"ended", "processed", "deleted"}

RemoteForward(r) == \/ remote[r].state = "none"
                    \/ NotBehind(remote'[r].state, remote[r].state)

LEMMA OthersUpToDate ==
  ASSUME SoloInductive, NEW f \in Executors, exec'[f] = exec[f],
         \A b \in Batches : RowBehind(f, b),
         \A r \in Remotes : RemoteForward(r)
  PROVE  TaskUpToDate(f)'
<1>1. TaskUpToDate(f) /\ TaskConsistent(f)
  BY DEF SoloInductive, Inductive
<1>2. ASSUME exec[f].pc \in {"accept", "record"}
      PROVE  row'[exec[f].batch].status \in {"pending_submit", "deleted"}
  BY <1>1, <1>2 DEF TaskUpToDate, TaskConsistent, RowBehind
<1>3. ASSUME NEW b \in Batches, exec[f].memo[b].status # "keep", row'[b].status # "deleted"
      PROVE  /\ exec[f].pc \in {"retrieve", "update"} =>
                   exec[f].memo[b].anthropic = row'[b].anthropic
             /\ exec[f].pc = "retrieve" => /\ exec[f].memo[b].status = row'[b].status
                                           /\ row'[b].status \notin TerminalStatuses
             /\ exec[f].pc = "update" =>
                   /\ exec[f].memo[b].status \in Lifecycle!Ahead(row'[b].status)
                   /\ NotBehind(remote'[row'[b].anthropic].state, exec[f].memo[b].status)
             /\ exec[f].pc = "apply" => row'[b].status \in {"ended", "processed"}
  <2>1. CASE row'[b] = row[b]
    <3>1. ASSUME exec[f].pc = "update"
          PROVE  NotBehind(remote'[row'[b].anthropic].state, exec[f].memo[b].status)
      <4>1. /\ Accepted(row[b].anthropic)
            /\ NotBehind(remote[row[b].anthropic].state, exec[f].memo[b].status)
        BY <1>1, <1>3, <2>1, <3>1 DEF TaskUpToDate, TaskConsistent
      <4>2. NotBehind(remote'[row[b].anthropic].state, remote[row[b].anthropic].state)
        BY <4>1 DEF RemoteForward, Accepted
      <4> QED
        BY <2>1, <4>1, <4>2, NotBehindTransitive
    <3> QED
      BY <1>1, <1>3, <2>1, <3>1 DEF TaskUpToDate
  <2>2. CASE /\ row[b].status \in {"ended", "processed"} /\ row'[b].status = "processed"
             /\ row'[b].anthropic = row[b].anthropic
    BY <1>1, <1>3, <2>2, AheadValues DEF TaskUpToDate, TerminalStatuses
  <2>3. CASE f \in Operators /\ row[b].status \notin {"ended", "processed", "deleted"}
    BY <1>1, <1>3, <2>3 DEF TaskUpToDate, TaskConsistent
  <2> QED
    BY <1>3, <2>1, <2>2, <2>3 DEF RowBehind
<1> QED
  BY <1>2, <1>3 DEF TaskUpToDate

LEMMA RestingUpToDate ==
  ASSUME NEW e, exec'[e].pc \in {"idle", "create", "scan", "load", "gather", "send", "ack"}
  PROVE  TaskUpToDate(e)'
  BY DEF TaskUpToDate

(* The rows in a state that speaks of Anthropic carry an accepted id.        *)
LEMMA SubmittedAccepted ==
  ASSUME Inductive, NEW b \in Batches, Exists(b), row[b].status # "pending_submit"
  PROVE  Accepted(row[b].anthropic) /\ row[b].anthropic # NoRemote
  BY DEF Inductive, OutboxShape, LinkedToOwnSubmission, Accepted, TypeOK, Row

LEMMA RemoteAheadKept ==
  ASSUME SoloInductive, \A b \in Batches : row'[b] = row[b] \/ row'[b].status
                                           \in {"unused", "pending_submit", "submitted", "deleted"},
         \A r \in Remotes : RemoteForward(r)
  PROVE  RemoteAhead'
<1> SUFFICES ASSUME NEW b \in Batches, row'[b] = row[b],
                    row[b].status \in {"in_progress", "canceling", "ended", "processed"}
                            \cup FailedStatuses
             PROVE  /\ row[b].status \in {"in_progress", "canceling"} =>
                          NotBehind(remote'[row[b].anthropic].state, row[b].status)
                    /\ row[b].status \in {"ended", "processed"} =>
                          remote'[row[b].anthropic].state = "ended"
                    /\ row[b].status \notin FailedStatuses
  BY DEF RemoteAhead, FailedStatuses
<1>1. row[b].status \notin FailedStatuses
  BY DEF SoloInductive, RemoteAhead
<1>2. Accepted(row[b].anthropic)
  BY <1>1, SubmittedAccepted DEF SoloInductive, Exists, BatchStatuses
<1>3. NotBehind(remote'[row[b].anthropic].state, remote[row[b].anthropic].state)
  BY <1>2 DEF RemoteForward, Accepted
<1>4. CASE row[b].status \in {"in_progress", "canceling"}
  BY <1>1, <1>3, <1>4, NotBehindTransitive DEF SoloInductive, RemoteAhead
<1>5. CASE row[b].status \in {"ended", "processed"}
  BY <1>1, <1>3, <1>5, AheadValues DEF SoloInductive, RemoteAhead, NotBehind
<1> QED
  BY <1>1, <1>4, <1>5

(* The steps after which no executor remembers anything new.                 *)
LEMMA SoloQuiet ==
  ASSUME SoloInductive, Inductive',
         NEW E \in SUBSET Executors, \A f \in Executors \ E : exec'[f] = exec[f],
         \A f \in E : exec'[f].pc \in {"idle", "create", "scan", "load", "gather", "send", "ack"},
         \A f \in Executors : \A b \in Batches : RowBehind(f, b),
         \A b \in Batches : row'[b] = row[b] \/ row'[b].status
                               \in {"unused", "pending_submit", "submitted", "deleted"},
         \A r \in Remotes : RemoteForward(r)
  PROVE  SoloInductive'
<1>1. RemoteAhead'
  BY RemoteAheadKept
<1>2. \A f \in Executors : TaskUpToDate(f)'
  BY OthersUpToDate, RestingUpToDate
<1> QED
  BY <1>1, <1>2 DEF SoloInductive

LEMMA SoloOutside ==
  ASSUME SoloInductive, Inductive',
         \/ Kickoff \/ OperatorPoll \/ DeleteBatches
         \/ \E r \in Remotes : RemoteProgress(r)
  PROVE  SoloInductive'
<1>1. \A b \in Batches : row'[b] = row[b] \/ row'[b].status = "deleted"
  BY DEF Kickoff, OperatorPoll, DeleteBatches, RemoteProgress, SoloInductive, Inductive, TypeOK
<1>2. \A r \in Remotes : RemoteForward(r)
  BY AheadValues DEF Kickoff, OperatorPoll, DeleteBatches, RemoteProgress, RemoteForward,
     NotBehind, SoloInductive, Inductive, TypeOK, Remote
<1>3. exec' = exec
  BY DEF Kickoff, OperatorPoll, DeleteBatches, RemoteProgress
<1> QED
  BY <1>1, <1>2, <1>3, SoloQuiet, {} \in SUBSET Executors DEF RowBehind

LEMMA SoloDelivery ==
  ASSUME SoloInductive, Inductive', NEW e \in Executors,
         \/ \E m \in Message : Receive(e, m)
         \/ SendNext(e) \/ OperatorProcess(e) \/ Ack(e) \/ Crash(e)
  PROVE  SoloInductive'
<1>1. UNCHANGED <<row, remote>>
  BY DEF Receive, SendNext, OperatorProcess, Ack, Crash
<1>2. exec'[e].pc \in {"idle", "create", "scan", "load", "gather", "send", "ack"}
  <2>1. ASSUME NEW m \in Message, Receive(e, m)
        PROVE  exec'[e].pc \in {"create", "scan", "load", "gather"}
    BY <2>1, MessageTypes DEF Receive, Step, Idle, Entry, Kinds, SoloInductive, Inductive, TypeOK
  <2>2. CASE SendNext(e) \/ OperatorProcess(e) \/ Ack(e) \/ Crash(e)
    BY <2>2 DEF SendNext, OperatorProcess, Ack, Crash, Step, Idle, Finished, SoloInductive,
       Inductive, TypeOK, Executor
  <2> QED
    BY <2>1, <2>2
<1>3. \A f \in Executors \ {e} : exec'[f] = exec[f]
  BY DEF Receive, SendNext, OperatorProcess, Ack, Crash, Step, SoloInductive, Inductive, TypeOK
<1>4. {e} \in SUBSET Executors
  OBVIOUS
<1>5. \A r \in Remotes : RemoteForward(r)
  BY <1>1 DEF RemoteForward, NotBehind
<1>6. \A f \in Executors : \A b \in Batches : RowBehind(f, b)
  BY <1>1 DEF RowBehind
<1> QED
  BY <1>1, <1>2, <1>3, <1>4, <1>5, <1>6, SoloQuiet

LEMMA SoloRedeliver ==
  ASSUME SoloInductive, Inductive', NEW w \in Executors, Redeliver(w)
  PROVE  SoloInductive'
<1>1. UNCHANGED <<row, remote>>
  BY DEF Redeliver
<1>2. \A f \in Executors : /\ exec'[f].pc = exec[f].pc /\ exec'[f].memo = exec[f].memo
                           /\ exec'[f].batch = exec[f].batch
  BY DEF Redeliver, Step, SoloInductive, Inductive, TypeOK, Executor
<1>3. RemoteAhead'
  BY <1>1 DEF SoloInductive, RemoteAhead
<1>4. \A f \in Executors : TaskUpToDate(f)'
  BY <1>1, <1>2 DEF SoloInductive, TaskUpToDate
<1> QED
  BY <1>3, <1>4 DEF SoloInductive

(* Where a step leaves its executor.                                         *)
LEMMA PlacesAfter ==
  ASSUME exec \in [Executors -> Executor], NEW e \in Executors
  PROVE  /\ \A new : Step(e, new) => exec'[e] = new
         /\ Step(e, Finished(e)) => exec'[e].pc = "ack"
         /\ \A m : Step(e, Sending(e, m)) => exec'[e].pc = "send"
<1>1. \A new : Step(e, new) => exec'[e] = new
  BY DEF Step
<1>2. Finished(e).pc = "ack" /\ \A m : Sending(e, m).pc = "send"
  BY DEF Finished, Sending, Executor
<1> QED
  BY <1>1, <1>2

(* The worker's own steps.  Nobody but the worker submits or polls.          *)
LEMMA OthersAreOperators ==
  ASSUME SoloWorker, NEW w \in Workers, NEW f \in Executors \ {w}
  PROVE  f \in Operators
  BY DEF SoloWorker, Executors

LEMMA SoloSubmit ==
  ASSUME SoloWorker, SoloInductive, Inductive', NEW w \in Workers,
         \/ Materialize(w) \/ SubmitScan(w) \/ SubmitAccept(w) \/ SubmitRecord(w)
         \/ SubmitFail(w)
  PROVE  SoloInductive'
<1> USE DEF SoloInductive, Inductive
<1>1. w \in Executors /\ exec[w] \in Executor /\ exec \in [Executors -> Executor]
  BY DEF Executors, TypeOK
<1>2. \A r \in Remotes : RemoteForward(r)
  BY DEF Materialize, SubmitScan, SubmitAccept, SubmitRecord, SubmitFail, RemoteForward,
     NotBehind, TypeOK
<1>3. \A b \in Batches : \/ row'[b] = row[b]
                         \/ row[b].status = "unused" /\ row'[b].status = "pending_submit"
                         \/ /\ row[b].status = "pending_submit" /\ row'[b].status = "submitted"
                            /\ SubmitRecord(w)
  <2>1. CASE SubmitRecord(w)
    <3>1. /\ exec[w].batch \in Batches
          /\ row[exec[w].batch].status \in {"pending_submit", "deleted"}
      BY <1>1, <2>1 DEF TaskConsistent, TaskUpToDate, SubmitRecord
    <3> QED
      BY <2>1, <3>1 DEF SubmitRecord, Submitting, SubmittedRow, Exists, BatchStatuses, TypeOK
  <2>2. CASE Materialize(w)
    <3>1. CASE row' # row
      <4>1. PICK new \in (SUBSET {b \in Batches : row[b].status = "unused"}) \ {{}} :
               row' = [b \in Batches |->
                         IF b \in new
                         THEN [status |-> "pending_submit", anthropic |-> NoRemote,
                               payload |-> TRUE]
                         ELSE row[b]]
        BY <2>2, <3>1 DEF Materialize
      <4> QED
        BY <4>1
    <3> QED
      BY <3>1
  <2> QED
    BY <2>1, <2>2 DEF SubmitScan, SubmitAccept, SubmitFail
<1>4. \A f \in Executors \ {w} : exec'[f] = exec[f] /\ f \in Operators
  <2>1. \A f \in Executors \ {w} : exec'[f] = exec[f]
    BY DEF Materialize, SubmitScan, SubmitAccept, SubmitRecord, SubmitFail, Step, TypeOK
  <2> QED
    BY <2>1, OthersAreOperators
<1>5. RemoteAhead'
  BY <1>2, <1>3, RemoteAheadKept
<1>6. \A f \in Executors \ {w} : TaskUpToDate(f)'
  BY <1>2, <1>3, <1>4, OthersUpToDate DEF RowBehind
<1>7. TaskUpToDate(w)'
  <2>1. CASE Materialize(w) \/ SubmitRecord(w) \/ SubmitFail(w)
    <3> DEFINE rest == [exec[w] EXCEPT !.pc = "scan", !.todo = @ \ {Submitting(w)},
                                       !.batch = NoBatch, !.rid = NoRemote]
    <3>1. rest.pc = "scan"
      BY <1>1 DEF Executor
    <3>2. \/ Step(w, Finished(w)) \/ \E m : Step(w, Sending(w, m)) \/ Step(w, rest)
      BY <2>1 DEF Materialize, SubmitRecord, SubmitFail
    <3> HIDE DEF rest
    <3>3. exec'[w].pc \in {"ack", "send", "scan"}
      BY <1>1, <3>1, <3>2, PlacesAfter
    <3> QED
      BY <3>3, RestingUpToDate
  <2>2. CASE SubmitAccept(w)
    <3>1. exec'[w].pc = "record" /\ exec'[w].batch = exec[w].batch /\ row' = row
      <4>1. PICK r \in Remotes : Step(w, [exec[w] EXCEPT !.pc = "record", !.rid = r])
        BY <2>2 DEF SubmitAccept
      <4>2. exec'[w] = [exec[w] EXCEPT !.pc = "record", !.rid = r]
        BY <1>1, <4>1, PlacesAfter
      <4> QED
        BY <1>1, <2>2, <4>2 DEF SubmitAccept, Executor
    <3>2. row[exec[w].batch].status \in {"pending_submit", "deleted"}
      BY <1>1, <2>2 DEF SubmitAccept, TaskUpToDate
    <3> QED
      BY <3>1, <3>2 DEF TaskUpToDate
  <2>3. CASE SubmitScan(w)
    <3>1. \/ exec'[w].pc \in {"scan", "send", "ack"}
          \/ exec'[w].pc = "accept" /\ Outcome(exec'[w].batch) = "send"
      <4>1. CASE Step(w, Finished(w)) \/ Step(w, Sending(w, Poll(exec[w].msg.ids)))
        BY <1>1, <4>1, PlacesAfter
      <4>2. ASSUME NEW b, Step(w, [exec[w] EXCEPT !.todo = @ \ {b}])
            PROVE  exec'[w].pc = exec[w].pc
        <5>1. exec'[w] = [exec[w] EXCEPT !.todo = @ \ {b}]
          BY <1>1, <4>2, PlacesAfter
        <5> QED
          BY <1>1, <5>1 DEF Executor
      <4>3. ASSUME NEW b, Step(w, [exec[w] EXCEPT !.pc = "accept", !.batch = b])
            PROVE  exec'[w].pc = "accept" /\ exec'[w].batch = b
        <5>1. exec'[w] = [exec[w] EXCEPT !.pc = "accept", !.batch = b]
          BY <1>1, <4>3, PlacesAfter
        <5> QED
          BY <1>1, <5>1 DEF Executor
      <4> QED
        BY <2>3, <4>1, <4>2, <4>3 DEF SubmitScan
    <3>2. \A b : Outcome(b) = "send" => row[b].status = "pending_submit"
      BY DEF Outcome
    <3>3. row' = row
      BY <2>3 DEF SubmitScan
    <3> QED
      BY <3>1, <3>2, <3>3, RestingUpToDate DEF TaskUpToDate
  <2> QED
    BY <2>1, <2>2, <2>3
<1> QED
  BY <1>1, <1>5, <1>6, <1>7

LEMMA SoloPollLoad ==
  ASSUME SoloWorker, SoloInductive, Inductive', NEW w \in Workers, PollLoad(w)
  PROVE  SoloInductive'
<1> USE DEF SoloInductive, Inductive
<1> DEFINE ids == exec[w].msg.ids
           open == Pollable(row) \cap ids
           memo == [b \in Batches |->
                      IF b \in open
                      THEN [status |-> row[b].status, anthropic |-> row[b].anthropic]
                      ELSE Keep]
           new == [exec[w] EXCEPT !.pc = "retrieve", !.memo = memo]
<1>1. w \in Executors /\ exec[w] \in Executor /\ exec \in [Executors -> Executor]
  BY DEF Executors, TypeOK
<1>2. UNCHANGED <<row, remote>>
  BY DEF PollLoad
<1>3. \A f \in Executors \ {w} : exec'[f] = exec[f]
  BY DEF PollLoad, Step, TypeOK
<1>4. \A b \in Batches : row'[b] = row[b]
  BY <1>2
<1>5. \A r \in Remotes : RemoteForward(r)
  BY <1>2 DEF RemoteForward, NotBehind
<1>6. RemoteAhead'
  BY <1>4, <1>5, RemoteAheadKept
<1>7. \A f \in Executors \ {w} : TaskUpToDate(f)'
  BY <1>3, <1>4, <1>5, OthersUpToDate DEF RowBehind
<1>8. CASE Step(w, Finished(w)) \/ \E m : Step(w, Sending(w, m))
  BY <1>1, <1>6, <1>7, <1>8, PlacesAfter, RestingUpToDate
<1>9. CASE Step(w, new)
  <2>1. exec'[w] = new
    BY <1>1, <1>9, PlacesAfter
  <2>2. exec'[w].pc = "retrieve" /\ exec'[w].memo = memo
    BY <1>1, <2>1 DEF Executor
  <2>3. ASSUME NEW b \in Batches, memo[b].status # "keep"
        PROVE  /\ memo[b].anthropic = row[b].anthropic /\ memo[b].status = row[b].status
               /\ row[b].status \notin TerminalStatuses
    BY <2>3 DEF Keep, Pollable
  <2> HIDE DEF memo
  <2>4. TaskUpToDate(w)'
    BY <1>2, <2>2, <2>3 DEF TaskUpToDate
  <2> QED
    BY <1>1, <1>6, <1>7, <2>4
<1> QED
  BY <1>8, <1>9 DEF PollLoad

LEMMA SoloPollRetrieve ==
  ASSUME SoloWorker, SoloInductive, Inductive', NEW w \in Workers, PollRetrieve(w)
  PROVE  SoloInductive'
<1> USE DEF SoloInductive, Inductive
<1> DEFINE loaded == exec[w].memo
           memo == [b \in Batches |->
                      IF \/ loaded[b].status = "keep"
                         \/ loaded[b].status = Reported(loaded[b].anthropic)
                      THEN Keep
                      ELSE [loaded[b] EXCEPT !.status = Reported(loaded[b].anthropic)]]
           new == [exec[w] EXCEPT !.pc = "update", !.memo = memo]
<1>1. /\ w \in Executors /\ exec[w] \in Executor /\ exec \in [Executors -> Executor]
      /\ exec[w].pc = "retrieve" /\ loaded \in Snapshot
  BY DEF PollRetrieve, Executors, TypeOK, Executor
<1>2. UNCHANGED <<row, remote>> /\ Step(w, new)
  BY DEF PollRetrieve
<1>3. \A f \in Executors \ {w} : exec'[f] = exec[f]
  BY <1>2 DEF Step, TypeOK
<1>4. \A b \in Batches : row'[b] = row[b]
  BY <1>2
<1>5. \A r \in Remotes : RemoteForward(r)
  BY <1>2 DEF RemoteForward, NotBehind
<1>6. RemoteAhead'
  BY <1>4, <1>5, RemoteAheadKept
<1>7. \A f \in Executors \ {w} : TaskUpToDate(f)'
  BY <1>3, <1>4, <1>5, OthersUpToDate DEF RowBehind
<1>8. exec'[w].pc = "update" /\ exec'[w].memo = memo
  BY <1>1, <1>2, PlacesAfter DEF Executor
<1>9. ASSUME NEW b \in Batches, memo[b].status # "keep", row[b].status # "deleted"
      PROVE  /\ memo[b].anthropic = row[b].anthropic
             /\ memo[b].status \in Lifecycle!Ahead(row[b].status)
             /\ NotBehind(remote[row[b].anthropic].state, memo[b].status)
  <2>1. /\ loaded[b].status # "keep" /\ loaded[b].status # Reported(loaded[b].anthropic)
        /\ memo[b] = [loaded[b] EXCEPT !.status = Reported(loaded[b].anthropic)]
    BY <1>9 DEF Keep
  <2>2. /\ loaded[b].anthropic = row[b].anthropic /\ loaded[b].status = row[b].status
        /\ row[b].status \notin TerminalStatuses
        /\ Settled(b) /\ Accepted(loaded[b].anthropic)
    BY <1>1, <1>9, <2>1 DEF TaskUpToDate, TaskConsistent
  <2>3. memo[b].anthropic = row[b].anthropic /\ memo[b].status = remote[row[b].anthropic].state
    BY <1>1, <2>1, <2>2 DEF Reported, Snapshot
  <2>4. remote[row[b].anthropic].state \in RemoteStatuses
    BY <2>2 DEF Accepted, TypeOK, Remote
  <2>5. row[b].status \in {"submitted", "in_progress", "canceling"}
    BY <1>9, <2>2 DEF Settled, Exists, BatchStatuses, TerminalStatuses, OutboxShape
  <2>6. remote[row[b].anthropic].state # row[b].status
    BY <2>1, <2>2 DEF Reported
  <2>7. remote[row[b].anthropic].state \in Lifecycle!Ahead(row[b].status)
    <3>1. CASE row[b].status = "submitted"
      BY <2>4, <3>1, AheadValues DEF RemoteStatuses
    <3>2. CASE row[b].status \in {"in_progress", "canceling"}
      BY <2>6, <3>2 DEF RemoteAhead, NotBehind
    <3> QED
      BY <2>5, <3>1, <3>2
  <2> QED
    BY <2>3, <2>7 DEF NotBehind
<1> HIDE DEF memo
<1>10. TaskUpToDate(w)'
  BY <1>2, <1>8, <1>9 DEF TaskUpToDate
<1> QED
  BY <1>1, <1>6, <1>7, <1>10

(* What a poll writes over a row is the next thing Anthropic has said of it.  *)
LEMMA PollWrites ==
  ASSUME SoloInductive, NEW w \in Workers, PollUpdate(w), NEW b \in Batches
  PROVE  \/ row'[b] = row[b]
         \/ /\ row'[b].status \in Lifecycle!Ahead(row[b].status)
            /\ row'[b].status \in RemoteStatuses
            /\ row'[b].anthropic = row[b].anthropic
            /\ NotBehind(remote[row[b].anthropic].state, row'[b].status)
<1> USE DEF SoloInductive, Inductive
<1>1. CASE exec[w].memo[b].status # "keep" /\ Exists(b)
  <2>1. row'[b] = [row[b] EXCEPT !.status = exec[w].memo[b].status]
    BY <1>1 DEF PollUpdate, Written
  <2>2. w \in Executors /\ exec[w].pc = "update" /\ row[b].status # "deleted"
    BY <1>1 DEF PollUpdate, Executors, Exists, BatchStatuses
  <2>3. /\ exec[w].memo[b].status \in Lifecycle!Ahead(row[b].status)
        /\ exec[w].memo[b].status \in RemoteStatuses
        /\ NotBehind(remote[row[b].anthropic].state, exec[w].memo[b].status)
    BY <1>1, <2>2 DEF TaskUpToDate, TaskConsistent
  <2> QED
    BY <2>1, <2>3 DEF TypeOK, Row
<1> QED
  BY <1>1 DEF PollUpdate, Written

LEMMA SoloPollUpdate ==
  ASSUME SoloWorker, SoloInductive, Inductive', NEW w \in Workers, PollUpdate(w)
  PROVE  SoloInductive'
<1> USE DEF SoloInductive, Inductive
<1>1. w \in Executors /\ exec \in [Executors -> Executor]
  BY DEF Executors, TypeOK
<1>2. UNCHANGED remote
  BY DEF PollUpdate
<1>3. \A f \in Executors \ {w} : exec'[f] = exec[f] /\ f \in Operators
  BY OthersAreOperators DEF PollUpdate, Step, TypeOK
<1>4. \A r \in Remotes : RemoteForward(r)
  BY <1>2 DEF RemoteForward, NotBehind
<1>5. \A f \in Executors \ {w} : \A b \in Batches : RowBehind(f, b)
  BY <1>3, PollWrites, AheadValues DEF RowBehind
<1>6. \A f \in Executors \ {w} : TaskUpToDate(f)'
  BY <1>3, <1>4, <1>5, OthersUpToDate
<1>7. TaskUpToDate(w)'
  BY <1>1, PlacesAfter, RestingUpToDate DEF PollUpdate
<1>8. RemoteAhead'
  <2> SUFFICES ASSUME NEW b \in Batches
               PROVE  /\ row'[b].status \in {"in_progress", "canceling"} =>
                            NotBehind(remote[row'[b].anthropic].state, row'[b].status)
                      /\ row'[b].status \in {"ended", "processed"} =>
                            remote[row'[b].anthropic].state = "ended"
                      /\ row'[b].status \notin FailedStatuses
    BY <1>2 DEF RemoteAhead
  <2>1. CASE row'[b] = row[b]
    BY <2>1 DEF RemoteAhead
  <2>2. CASE row'[b] # row[b]
    BY <2>2, PollWrites, AheadValues DEF NotBehind, RemoteStatuses, FailedStatuses
  <2> QED
    BY <2>1, <2>2
<1> QED
  BY <1>6, <1>7, <1>8

LEMMA ProcessWrites ==
  ASSUME SoloInductive, NEW e \in Executors, ProcessApply(e), NEW b \in Batches
  PROVE  \/ row'[b] = row[b]
         \/ /\ row[b].status \in {"ended", "processed"} /\ row'[b].status = "processed"
            /\ row'[b].anthropic = row[b].anthropic
<1> USE DEF SoloInductive, Inductive
<1>1. CASE row' # row /\ exec[e].memo[b].status # "keep" /\ Exists(b)
  <2>1. row'[b] = [row[b] EXCEPT !.status = exec[e].memo[b].status]
    BY <1>1 DEF ProcessApply, Written
  <2>2. exec[e].pc = "apply" /\ row[b].status # "deleted"
    BY <1>1 DEF ProcessApply, Exists, BatchStatuses
  <2>3. row[b].status \in {"ended", "processed"} /\ exec[e].memo[b].status = "processed"
    BY <1>1, <2>2 DEF TaskUpToDate, TaskConsistent
  <2> QED
    BY <2>1, <2>3 DEF TypeOK, Row
<1> QED
  BY <1>1 DEF ProcessApply, Written

LEMMA SoloProcess ==
  ASSUME SoloInductive, Inductive', NEW e \in Executors, ProcessGather(e) \/ ProcessApply(e)
  PROVE  SoloInductive'
<1> USE DEF SoloInductive, Inductive
<1>1. UNCHANGED remote /\ exec \in [Executors -> Executor] /\ exec[e] \in Executor
  BY DEF ProcessGather, ProcessApply, TypeOK
<1>2. \A f \in Executors \ {e} : exec'[f] = exec[f]
  BY DEF ProcessGather, ProcessApply, Step, TypeOK
<1>3. \A r \in Remotes : RemoteForward(r)
  BY <1>1 DEF RemoteForward, NotBehind
<1>4. \A b \in Batches :
         \/ row'[b] = row[b]
         \/ /\ row[b].status \in {"ended", "processed"} /\ row'[b].status = "processed"
            /\ row'[b].anthropic = row[b].anthropic
  BY ProcessWrites DEF ProcessGather
<1>5. \A f \in Executors \ {e} : TaskUpToDate(f)'
  BY <1>2, <1>3, <1>4, OthersUpToDate DEF RowBehind
<1>6. RemoteAhead'
  BY <1>1, <1>4 DEF RemoteAhead, FailedStatuses
<1>7. CASE Step(e, Finished(e))
  BY <1>1, <1>5, <1>6, <1>7, PlacesAfter, RestingUpToDate
<1>8. CASE ProcessGather(e) /\ ~Step(e, Finished(e))
  <2> DEFINE memo == [b \in Batches |-> IF b \in Ready(exec[e].msg.ids)
                                        THEN [status |-> "processed",
                                              anthropic |-> row[b].anthropic]
                                        ELSE Keep]
             new == [exec[e] EXCEPT !.pc = "apply", !.memo = memo]
  <2>1. Step(e, new) /\ row' = row
    BY <1>8 DEF ProcessGather
  <2>2. exec'[e].pc = "apply" /\ exec'[e].memo = memo
    BY <1>1, <2>1, PlacesAfter DEF Executor
  <2>3. \A b \in Batches : memo[b].status # "keep" => row[b].status = "ended"
    BY DEF Keep, Ready, ProcessableStatuses
  <2> HIDE DEF memo
  <2>4. TaskUpToDate(e)'
    BY <2>1, <2>2, <2>3 DEF TaskUpToDate
  <2> QED
    BY <1>5, <1>6, <2>4
<1> QED
  BY <1>7, <1>8 DEF ProcessApply

LEMMA SoloStep == SoloWorker /\ SoloInductive /\ [Next]_vars => SoloInductive'
<1> SUFFICES ASSUME SoloWorker, SoloInductive, [Next]_vars PROVE SoloInductive'
  OBVIOUS
<1> USE DEF Executors
<1>1. Inductive'
  BY InductiveStep DEF SoloInductive
<1>2. CASE UNCHANGED vars
  BY <1>1, <1>2 DEF vars, SoloInductive, RemoteAhead, TaskUpToDate
<1>3. CASE Kickoff \/ OperatorPoll \/ DeleteBatches \/ \E r \in Remotes : RemoteProgress(r)
  BY <1>1, <1>3, SoloOutside
<1>4. ASSUME NEW w \in Workers, \/ \E m \in Message : Receive(w, m)
                                \/ Run(w) \/ SubmitFail(w) \/ Redeliver(w)
      PROVE  SoloInductive'
  BY <1>1, <1>4, SoloDelivery, SoloRedeliver, SoloSubmit, SoloPollLoad, SoloPollRetrieve,
     SoloPollUpdate, SoloProcess DEF Run
<1>5. ASSUME NEW o \in Operators, OperatorProcess(o) \/ RunOperator(o)
      PROVE  SoloInductive'
  BY <1>1, <1>5, SoloDelivery, SoloProcess DEF RunOperator
<1>6. ASSUME NEW e \in Executors, Crash(e) PROVE SoloInductive'
  BY <1>1, <1>6, SoloDelivery
<1> QED
  BY <1>2, <1>3, <1>4, <1>5, <1>6 DEF Next

LEMMA SoloAlways ==
  ASSUME SoloWorker
  PROVE  Spec => []SoloInductive
  BY SoloInit, SoloStep, PTL DEF Spec

(* With one worker, a row that says `ended` or `processed` belongs to an     *)
(* Anthropic batch that has ended (batch_poll.py, tag_sweep_processor.py).   *)
THEOREM SoloEndedIsTrue ==
  ASSUME SoloWorker
  PROVE  Spec => []EndedIsTrue
<1>1. SoloInductive => EndedIsTrue
  BY DEF SoloInductive, RemoteAhead, EndedIsTrue
<1> QED
  BY <1>1, SoloAlways, PTL

(* With one worker, nothing is submitted twice: whatever crashes and         *)
(* redeliveries do, an Anthropic batch is created for a row only while that  *)
(* row still waits in the outbox, or after its deletion (submit_batch.py).   *)
THEOREM SoloSubmitsOnlyPending ==
  ASSUME SoloWorker
  PROVE  Spec => SubmitsOnlyPending
<1> DEFINE Safe == \A r \in Remotes :
                      remote[r].state = "none" /\ remote'[r].state # "none" =>
                         row[remote'[r].of].status \in {"pending_submit", "deleted"}
<1>1. ASSUME SoloInductive, [Next]_vars PROVE [Safe]_vars
  <2> USE DEF SoloInductive, Inductive
  <2> SUFFICES ASSUME NEW r \in Remotes, remote[r].state = "none", remote'[r].state # "none"
               PROVE  row[remote'[r].of].status \in {"pending_submit", "deleted"}
    OBVIOUS
  <2>1. ASSUME NEW w \in Workers, SubmitAccept(w) \/ SubmitFail(w)
        PROVE  row[remote'[r].of].status \in {"pending_submit", "deleted"}
    <3>1. exec[w].pc = "accept" /\ remote'[r].of = exec[w].batch
      <4>1. PICK q \in Remotes :
               remote' = [remote EXCEPT ![q] = [state |-> "in_progress", of |-> exec[w].batch]]
        BY <2>1 DEF SubmitAccept, SubmitFail
      <4>2. remote' = [remote EXCEPT ![r] = [state |-> "in_progress", of |-> exec[w].batch]]
        BY <1>1, <4>1 DEF TypeOK
      <4>3. remote'[r].of = exec[w].batch
        BY <1>1, <4>2 DEF TypeOK
      <4>4. exec[w].pc = "accept"
        BY <2>1 DEF SubmitAccept, SubmitFail
      <4> QED
        BY <4>3, <4>4
    <3> QED
      BY <1>1, <3>1 DEF TaskUpToDate, Executors
  <2>2. CASE \E q \in Remotes : RemoteProgress(q)
    BY <1>1, <2>2 DEF RemoteProgress, TypeOK
  <2>3. CASE UNCHANGED remote
    BY <2>3
  <2>4. \/ \E w \in Workers : SubmitAccept(w) \/ SubmitFail(w)
        \/ \E q \in Remotes : RemoteProgress(q)
        \/ UNCHANGED remote
    BY <1>1 DEF Next, vars, Run, RunOperator, Kickoff, OperatorPoll, DeleteBatches, Receive,
       SendNext, Ack, Crash, Redeliver, OperatorProcess, Materialize, SubmitScan, SubmitRecord,
       PollLoad, PollRetrieve, PollUpdate, ProcessGather, ProcessApply
  <2> QED
    BY <2>1, <2>2, <2>3, <2>4
<1> QED
  BY <1>1, SoloAlways, PTL DEF Spec, SubmitsOnlyPending

--------------------------------------------------------------------------------
(* Refinement.                                                               *)

LEMMA MoveAll ==
  ASSUME NEW From, NEW To,
         \A b \in Batches : \/ row'[b].status = row[b].status
                            \/ row[b].status \in From /\ row'[b].status = To
  PROVE  Lifecycle!Move(From, To)
<1> DEFINE S == {b \in Batches : row'[b].status # row[b].status}
<1>1. S \in SUBSET Batches /\ \A b \in S : Statuses[b] \in From
  BY DEF Statuses
<1>2. Statuses' = [b \in Batches |-> IF b \in S THEN To ELSE Statuses[b]]
  BY DEF Statuses
<1> QED
  BY <1>1, <1>2 DEF Lifecycle!Move

LEMMA FollowAll ==
  ASSUME \A b \in Batches :
            \/ row'[b].status = row[b].status
            \/ /\ row'[b].status \in Lifecycle!Ahead(row[b].status)
               /\ row'[b].status \in RemoteStatuses
  PROVE  Lifecycle!Follow
<1> DEFINE S == {b \in Batches : row'[b].status # row[b].status}
           news == [b \in S |-> row'[b].status]
<1>1. S \in SUBSET Batches
  OBVIOUS
<1>2. news \in [S -> Lifecycle!RemoteStatuses]
  BY DEF RemoteStatuses, Lifecycle!RemoteStatuses
<1>3. \A b \in S : news[b] \in Lifecycle!Ahead(Statuses[b])
  BY DEF Statuses
<1>4. Statuses' = [b \in Batches |-> IF b \in S THEN news[b] ELSE Statuses[b]]
  BY DEF Statuses
<1> HIDE DEF S, news
<1> QED
  BY <1>1, <1>2, <1>3, <1>4 DEF Lifecycle!Follow

LEMMA LifecycleStep ==
  SoloWorker /\ SoloInductive /\ [Next]_vars => [Lifecycle!Next]_Statuses
<1> SUFFICES ASSUME SoloWorker, SoloInductive, [Next]_vars
             PROVE  Lifecycle!Next \/ UNCHANGED Statuses
  OBVIOUS
<1> USE DEF SoloInductive, Inductive
<1>1. CASE UNCHANGED row
  BY <1>1 DEF Statuses
<1>2. CASE DeleteBatches
  <2>1. \A b \in Batches : \/ row'[b].status = row[b].status
                           \/ /\ row[b].status \in Lifecycle!BatchStatuses
                              /\ row'[b].status = "deleted"
    BY <1>2 DEF DeleteBatches, AtOrBefore, PipelineOrder, Lifecycle!BatchStatuses
  <2> QED
    BY <2>1, MoveAll DEF Lifecycle!Next, Lifecycle!Delete
<1>3. ASSUME NEW w \in Workers, Materialize(w) PROVE Lifecycle!Next \/ UNCHANGED Statuses
  <2>1. CASE row' # row
    <3>1. PICK new \in (SUBSET {b \in Batches : row[b].status = "unused"}) \ {{}} :
             row' = [b \in Batches |->
                       IF b \in new
                       THEN [status |-> "pending_submit", anthropic |-> NoRemote,
                             payload |-> TRUE]
                       ELSE row[b]]
      BY <1>3, <2>1 DEF Materialize
    <3>2. \A b \in Batches : \/ row'[b].status = row[b].status
                             \/ row[b].status \in {"unused"} /\ row'[b].status = "pending_submit"
      BY <3>1
    <3> QED
      BY <3>2, MoveAll DEF Lifecycle!Next, Lifecycle!Create
  <2> QED
    BY <1>1, <2>1
<1>4. ASSUME NEW w \in Workers, SubmitRecord(w) PROVE Lifecycle!Next \/ UNCHANGED Statuses
  <2>1. /\ exec[w].batch \in Batches
        /\ row[exec[w].batch].status \in {"pending_submit", "deleted"}
    BY <1>4 DEF TaskConsistent, TaskUpToDate, SubmitRecord, Executors
  <2>2. \A b \in Batches : \/ row'[b].status = row[b].status
                           \/ row[b].status \in {"pending_submit"} /\ row'[b].status = "submitted"
    BY <1>4, <2>1 DEF SubmitRecord, Submitting, SubmittedRow, Exists, BatchStatuses, TypeOK
  <2> QED
    BY <2>2, MoveAll DEF Lifecycle!Next, Lifecycle!Submit
<1>5. ASSUME NEW w \in Workers, PollUpdate(w) PROVE Lifecycle!Next \/ UNCHANGED Statuses
  <2>1. \A b \in Batches :
           \/ row'[b].status = row[b].status
           \/ /\ row'[b].status \in Lifecycle!Ahead(row[b].status)
              /\ row'[b].status \in RemoteStatuses
    BY <1>5, PollWrites
  <2> QED
    BY <2>1, FollowAll DEF Lifecycle!Next
<1>6. ASSUME NEW e \in Executors, ProcessApply(e) PROVE Lifecycle!Next \/ UNCHANGED Statuses
  <2>1. \A b \in Batches : \/ row'[b].status = row[b].status
                           \/ row[b].status \in {"ended"} /\ row'[b].status = "processed"
    BY <1>6, ProcessWrites
  <2> QED
    BY <2>1, MoveAll DEF Lifecycle!Next, Lifecycle!Apply
<1>7. \/ UNCHANGED row
      \/ DeleteBatches
      \/ \E w \in Workers : Materialize(w) \/ SubmitRecord(w) \/ PollUpdate(w)
      \/ \E e \in Executors : ProcessApply(e)
  BY DEF Next, vars, Run, RunOperator, Kickoff, OperatorPoll, RemoteProgress, Receive, SendNext,
     Ack, Crash, Redeliver, OperatorProcess, SubmitScan, SubmitAccept, SubmitFail, PollLoad,
     PollRetrieve, ProcessGather, Executors
<1> QED
  BY <1>1, <1>2, <1>3, <1>4, <1>5, <1>6, <1>7

(* With one worker the pipeline implements the lifecycle of a batch: no      *)
(* interleaving with operators and deletions, no crash, redelivery or failed *)
(* call moves a row backwards, past a stage, or back from its deletion.      *)
THEOREM SoloImplementsLifecycle ==
  ASSUME SoloWorker
  PROVE  Spec => ImplementsLifecycle
<1>1. Init => Lifecycle!Init
  BY DEF Init, Lifecycle!Init, Statuses
<1> QED
  BY <1>1, SoloAlways, LifecycleStep, PTL DEF Spec, ImplementsLifecycle, Lifecycle!Spec

--------------------------------------------------------------------------------
(* One worker: what is lost at Anthropic.                                    *)

(* A batch is accepted, its id not yet recorded.                             *)
InFlight(w, r) == exec[w].pc = "record" /\ exec[w].rid = r

(* Accepted batches that no row of theirs will ever point to.                *)
Lost == {r \in Remotes : /\ remote[r].state # "none"
                         /\ row[remote[r].of].status # "deleted"
                         /\ row[remote[r].of].anthropic # r
                         /\ \A w \in Workers : ~InFlight(w, r)}

RowsBehindRemotes ==
  /\ \A r \in Remotes : remote[r].state # "none" => remote[r].of \in Batches
  /\ \A b \in Batches : row[b].status = "unused" => row[b].anthropic = NoRemote

LossesCounted == IsFiniteSet(Lost) /\ Cardinality(Lost) <= faults

OrphanInductive == SoloInductive /\ RowsBehindRemotes /\ LossesCounted

LEMMA LossKept ==
  ASSUME LossesCounted, Lost' \subseteq Lost,
         faults \in Nat, faults' = faults \/ faults' = faults + 1
  PROVE  LossesCounted'
<1>1. /\ IsFiniteSet(Lost') /\ Cardinality(Lost') <= Cardinality(Lost)
      /\ Cardinality(Lost') \in Nat /\ Cardinality(Lost) \in Nat
  BY FS_Subset, FS_CardinalityType DEF LossesCounted
<1> DEFINE n == Cardinality(Lost)
           n1 == Cardinality(Lost')
<1>2. n \in Nat /\ n1 \in Nat /\ n1 <= n /\ n <= faults
  BY <1>1 DEF LossesCounted
<1> HIDE DEF n, n1
<1>3. n1 <= faults /\ n1 <= faults + 1
  BY <1>2
<1> QED
  BY <1>1, <1>3 DEF LossesCounted, n1

LEMMA LossOfOne ==
  ASSUME LossesCounted, NEW r, Lost' \subseteq Lost \cup {r},
         faults \in Nat, faults' = faults + 1
  PROVE  LossesCounted'
<1>0. IsFiniteSet(Lost) /\ Cardinality(Lost) \in Nat
  BY FS_CardinalityType DEF LossesCounted
<1>1. /\ IsFiniteSet(Lost \cup {r})
      /\ \/ Cardinality(Lost \cup {r}) = Cardinality(Lost)
         \/ Cardinality(Lost \cup {r}) = Cardinality(Lost) + 1
  BY <1>0, FS_AddElement
<1>2. /\ IsFiniteSet(Lost') /\ Cardinality(Lost') <= Cardinality(Lost \cup {r})
      /\ Cardinality(Lost') \in Nat
  BY <1>1, FS_Subset, FS_CardinalityType
<1> DEFINE n == Cardinality(Lost)
           k == Cardinality(Lost \cup {r})
           n1 == Cardinality(Lost')
<1>3. n \in Nat /\ n1 \in Nat /\ (k = n \/ k = n + 1) /\ n1 <= k /\ n <= faults
  BY <1>0, <1>1, <1>2 DEF LossesCounted
<1> HIDE DEF n, n1, k
<1>4. n1 <= faults + 1
  BY <1>3
<1> QED
  BY <1>2, <1>4 DEF LossesCounted, n1

(* What leaves the rows' links and the answers in flight alone.              *)
RowsLinked == \A b \in Batches : row'[b].status # "deleted" =>
                 row[b].status # "deleted" /\ row'[b].anthropic = row[b].anthropic
RemotesLinked == \A r \in Remotes : remote'[r].state # "none" =>
                    remote[r].state # "none" /\ remote'[r].of = remote[r].of
AnswersKept == \A w \in Workers : exec[w].pc = "record" =>
                  exec'[w].pc = "record" /\ exec'[w].rid = exec[w].rid

LEMMA NothingLost ==
  ASSUME RowsBehindRemotes, RowsLinked, RemotesLinked, AnswersKept
  PROVE  Lost' \subseteq Lost
<1> SUFFICES ASSUME NEW r \in Remotes, r \in Lost' PROVE r \in Lost
  BY DEF Lost
<1>1. /\ remote'[r].state # "none"
      /\ row'[remote'[r].of].status # "deleted"
      /\ row'[remote'[r].of].anthropic # r
      /\ \A w \in Workers : ~(exec'[w].pc = "record" /\ exec'[w].rid = r)
  BY DEF Lost, InFlight
<1>2. /\ remote[r].state # "none" /\ remote'[r].of = remote[r].of /\ remote[r].of \in Batches
  BY <1>1 DEF RemotesLinked, RowsBehindRemotes
<1>3. /\ row[remote[r].of].status # "deleted" /\ row[remote[r].of].anthropic # r
  BY <1>1, <1>2 DEF RowsLinked
<1>4. \A w \in Workers : ~InFlight(w, r)
  BY <1>1 DEF AnswersKept, InFlight
<1> QED
  BY <1>2, <1>3, <1>4 DEF Lost

LEMMA OnlyOneLost ==
  ASSUME RowsBehindRemotes, RowsLinked, RemotesLinked, NEW v \in Workers,
         \A w \in Workers \ {v} : exec'[w] = exec[w]
  PROVE  Lost' \subseteq Lost \cup {exec[v].rid}
<1> SUFFICES ASSUME NEW r \in Remotes, r \in Lost', r # exec[v].rid PROVE r \in Lost
  BY DEF Lost
<1>1. /\ remote'[r].state # "none"
      /\ row'[remote'[r].of].status # "deleted"
      /\ row'[remote'[r].of].anthropic # r
      /\ \A w \in Workers : ~(exec'[w].pc = "record" /\ exec'[w].rid = r)
  BY DEF Lost, InFlight
<1>2. /\ remote[r].state # "none" /\ remote'[r].of = remote[r].of /\ remote[r].of \in Batches
  BY <1>1 DEF RemotesLinked, RowsBehindRemotes
<1>3. /\ row[remote[r].of].status # "deleted" /\ row[remote[r].of].anthropic # r
  BY <1>1, <1>2 DEF RowsLinked
<1>4. \A w \in Workers : ~InFlight(w, r)
  BY <1>1 DEF InFlight
<1> QED
  BY <1>2, <1>3, <1>4 DEF Lost

(* Steps that touch neither the table nor Anthropic.                         *)
LEMMA LinksAlone ==
  ASSUME UNCHANGED <<row, remote>>
  PROVE  RowsLinked /\ RemotesLinked /\ (RowsBehindRemotes => RowsBehindRemotes')
  BY DEF RowsLinked, RemotesLinked, RowsBehindRemotes

LEMMA OrphanOutside ==
  ASSUME OrphanInductive, SoloInductive', 
         \/ Kickoff \/ OperatorPoll \/ DeleteBatches \/ UNCHANGED vars
         \/ \E r \in Remotes : RemoteProgress(r)
  PROVE  OrphanInductive'
<1> USE DEF OrphanInductive, SoloInductive, Inductive
<1>1. exec' = exec /\ faults' = faults /\ faults \in Nat
  BY DEF Kickoff, OperatorPoll, DeleteBatches, RemoteProgress, vars, TypeOK
<1>2. AnswersKept
  BY <1>1 DEF AnswersKept
<1>3. RowsLinked /\ RemotesLinked /\ RowsBehindRemotes'
  <2>1. CASE Kickoff \/ OperatorPoll \/ UNCHANGED vars
    BY <2>1, LinksAlone DEF Kickoff, OperatorPoll, vars
  <2>2. CASE DeleteBatches
    <3>1. /\ remote' = remote
          /\ \A b \in Batches : \/ row'[b] = row[b]
                                \/ row'[b].status = "deleted"
      BY <2>2 DEF DeleteBatches, TypeOK
    <3> QED
      BY <3>1 DEF RowsLinked, RemotesLinked, RowsBehindRemotes
  <2>3. CASE \E r \in Remotes : RemoteProgress(r)
    <3>1. row' = row /\ \A r \in Remotes : /\ remote'[r].of = remote[r].of
                                           /\ remote'[r].state # "none" => remote[r].state # "none"
      BY <2>3 DEF RemoteProgress, TypeOK, Remote
    <3> QED
      BY <3>1 DEF RowsLinked, RemotesLinked, RowsBehindRemotes
  <2> QED
    BY <2>1, <2>2, <2>3
<1>4. Lost' \subseteq Lost
  BY <1>2, <1>3, NothingLost
<1>5. LossesCounted'
  BY <1>1, <1>4, LossKept
<1> QED
  BY <1>3, <1>5

LEMMA OrphanDelivery ==
  ASSUME OrphanInductive, SoloInductive', NEW e \in Executors,
         \/ \E m \in Message : Receive(e, m)
         \/ SendNext(e) \/ OperatorProcess(e) \/ Ack(e) \/ Redeliver(e)
  PROVE  OrphanInductive'
<1> USE DEF OrphanInductive, SoloInductive, Inductive
<1>0. faults \in Nat
  BY DEF TypeOK
<1>1. UNCHANGED <<row, remote>>
  BY DEF Receive, SendNext, OperatorProcess, Ack, Redeliver
<1>2. faults' = faults \/ faults' = faults + 1
  BY DEF Receive, SendNext, OperatorProcess, Ack, Redeliver, Fault
<1>3. AnswersKept
  <2>1. \A f \in Executors \ {e} : exec'[f] = exec[f]
    BY DEF Receive, SendNext, OperatorProcess, Ack, Redeliver, Step, TypeOK
  <2>2. exec[e].pc = "record" => exec'[e].pc = exec[e].pc /\ exec'[e].rid = exec[e].rid
    <3>1. CASE Redeliver(e)
      BY <3>1 DEF Redeliver, Step, TypeOK, Executor
    <3> QED
      BY <3>1 DEF Receive, SendNext, OperatorProcess, Ack
  <2> QED
    BY <2>1, <2>2 DEF AnswersKept, Executors
<1>4. Lost' \subseteq Lost
  BY <1>1, <1>3, NothingLost, LinksAlone
<1>5. LossesCounted'
  BY <1>0, <1>2, <1>4, LossKept
<1> QED
  BY <1>1, <1>5, LinksAlone

LEMMA OrphanCrash ==
  ASSUME OrphanInductive, SoloInductive', NEW e \in Executors, Crash(e)
  PROVE  OrphanInductive'
<1> USE DEF OrphanInductive, SoloInductive, Inductive
<1>1. UNCHANGED <<row, remote>> /\ faults \in Nat /\ faults' = faults + 1
  BY DEF Crash, Fault, TypeOK
<1>2. \A f \in Executors \ {e} : exec'[f] = exec[f]
  BY DEF Crash, Step, TypeOK
<1>3. LossesCounted'
  <2>1. CASE e \in Workers
    <3>1. Lost' \subseteq Lost \cup {exec[e].rid}
      BY <1>1, <1>2, <2>1, OnlyOneLost, LinksAlone DEF Executors
    <3> QED
      BY <1>1, <3>1, LossOfOne
  <2>2. CASE e \notin Workers
    <3>1. AnswersKept
      BY <1>2, <2>2 DEF AnswersKept, Executors
    <3>2. Lost' \subseteq Lost
      BY <1>1, <3>1, NothingLost, LinksAlone
    <3> QED
      BY <1>1, <3>2, LossKept
  <2> QED
    BY <2>1, <2>2
<1> QED
  BY <1>1, <1>3, LinksAlone

(* Steps of a task that is not waiting for Anthropic's answer.               *)
LEMMA OrphanTask ==
  ASSUME OrphanInductive, SoloInductive', NEW e \in Executors,
         \/ Materialize(e) \/ SubmitScan(e)
         \/ PollLoad(e) \/ PollRetrieve(e) \/ PollUpdate(e)
         \/ ProcessGather(e) \/ ProcessApply(e)
  PROVE  OrphanInductive'
<1> USE DEF OrphanInductive, SoloInductive, Inductive
<1>0. faults \in Nat
  BY DEF TypeOK
<1>1. UNCHANGED <<remote, faults>> /\ exec[e].pc # "record"
  BY DEF Materialize, SubmitScan, PollLoad, PollRetrieve, PollUpdate, ProcessGather,
     ProcessApply
<1>2. \A f \in Executors \ {e} : exec'[f] = exec[f]
  BY DEF Materialize, SubmitScan, PollLoad, PollRetrieve, PollUpdate, ProcessGather,
     ProcessApply, Step, TypeOK
<1>3. AnswersKept
  BY <1>1, <1>2 DEF AnswersKept, Executors
<1>4. RowsLinked /\ RowsBehindRemotes'
  <2>1. CASE Materialize(e) /\ row' # row
    <3>1. PICK new \in (SUBSET {b \in Batches : row[b].status = "unused"}) \ {{}} :
             row' = [b \in Batches |->
                       IF b \in new
                       THEN [status |-> "pending_submit", anthropic |-> NoRemote, payload |-> TRUE]
                       ELSE row[b]]
      BY <2>1 DEF Materialize
    <3>2. \A b \in Batches : \/ row'[b] = row[b]
                             \/ /\ row[b].status = "unused" /\ row'[b].status = "pending_submit"
                                /\ row'[b].anthropic = NoRemote
      BY <3>1
    <3> QED
      BY <1>1, <3>2 DEF RowsLinked, RowsBehindRemotes
  <2>2. CASE row' = row
    BY <1>1, <2>2, LinksAlone
  <2>3. CASE PollUpdate(e) \/ ProcessApply(e)
    <3>1. row' = Written(exec[e].memo) \/ row' = row
      BY <2>3 DEF PollUpdate, ProcessApply
    <3>2. \A b \in Batches : \/ row'[b] = row[b]
                             \/ /\ Exists(b) /\ row'[b].anthropic = row[b].anthropic
                                /\ row'[b].status = exec[e].memo[b].status
      BY <3>1 DEF Written, TypeOK, Row
    <3>3. \A b \in Batches : exec[e].memo[b].status = "unused" => exec[e].memo[b].status = "keep" \/ row'[b] = row[b]
      BY <2>3, <3>1 DEF TaskConsistent, PollUpdate, ProcessApply, RemoteStatuses
    <3> QED
      BY <1>1, <3>2, <3>3 DEF RowsLinked, RowsBehindRemotes, Exists, BatchStatuses
  <2> QED
    BY <2>1, <2>2, <2>3 DEF SubmitScan, PollLoad, PollRetrieve, ProcessGather
<1>5. RemotesLinked
  BY <1>1 DEF RemotesLinked
<1>6. Lost' \subseteq Lost
  BY <1>3, <1>4, <1>5, NothingLost
<1>7. LossesCounted'
  BY <1>0, <1>1, <1>6, LossKept
<1> QED
  BY <1>4, <1>7

LEMMA OrphanAccept ==
  ASSUME OrphanInductive, SoloInductive', NEW w \in Workers, SubmitAccept(w)
  PROVE  OrphanInductive'
<1> USE DEF OrphanInductive, SoloInductive, Inductive
<1>1. PICK r \in Remotes : /\ remote' = [remote EXCEPT ![r] = [state |-> "in_progress", of |-> exec[w].batch]]
                           /\ Step(w, [exec[w] EXCEPT !.pc = "record", !.rid = r])
  BY DEF SubmitAccept
<1>2. /\ w \in Executors /\ exec[w] \in Executor /\ exec[w].pc = "accept" /\ exec[w].batch \in Batches
      /\ UNCHANGED <<row, faults>> /\ faults \in Nat
  BY DEF SubmitAccept, Executors, TypeOK, TaskConsistent
<1>3. exec'[w].pc = "record" /\ exec'[w].rid = r
  BY <1>1, <1>2, PlacesAfter DEF TypeOK, Executor
<1>4. \A f \in Executors \ {w} : exec'[f] = exec[f]
  BY <1>1 DEF Step, TypeOK
<1>5. /\ \A q \in Remotes \ {r} : remote'[q] = remote[q]
      /\ remote'[r].of \in Batches
  BY <1>1, <1>2 DEF TypeOK
<1>6. RowsBehindRemotes'
  BY <1>2, <1>5 DEF RowsBehindRemotes
<1>7. Lost' \subseteq Lost
  <2> SUFFICES ASSUME NEW q \in Remotes, q \in Lost' PROVE q \in Lost
    BY DEF Lost
  <2>1. q # r
    BY <1>3 DEF Lost, InFlight
  <2>2. remote'[q] = remote[q]
    BY <1>5, <2>1
  <2>3. \A v \in Workers : ~InFlight(v, q)
    <3>1. \A v \in Workers : ~(exec'[v].pc = "record" /\ exec'[v].rid = q)
      BY DEF Lost, InFlight
    <3> QED
      BY <1>2, <1>4, <3>1 DEF InFlight, Executors
  <2> QED
    BY <1>2, <2>2, <2>3 DEF Lost
<1>8. LossesCounted'
  BY <1>2, <1>7, LossKept
<1> QED
  BY <1>6, <1>8

LEMMA OrphanRecord ==
  ASSUME SoloWorker, OrphanInductive, SoloInductive', NEW w \in Workers, SubmitRecord(w)
  PROVE  OrphanInductive'
<1> USE DEF OrphanInductive, SoloInductive, Inductive
<1> DEFINE b == exec[w].batch
           r == exec[w].rid
<1>1. /\ w \in Executors /\ exec[w] \in Executor /\ exec[w].pc = "record"
      /\ UNCHANGED <<remote, faults>> /\ faults \in Nat
  BY DEF SubmitRecord, Executors, TypeOK
<1>2. /\ b \in Batches /\ Accepted(r) /\ remote[r].of = b
      /\ row[b].status \in {"pending_submit", "deleted"}
  BY <1>1 DEF TaskConsistent, TaskUpToDate
<1>3. \A v \in Workers : v = w
  BY DEF SoloWorker
<1>4. CASE Exists(b)
  <2>1. row' = [row EXCEPT ![b] = SubmittedRow(r)]
    BY <1>4 DEF SubmitRecord, Submitting
  <2>2. /\ \A c \in Batches \ {b} : row'[c] = row[c]
        /\ row'[b].status = "submitted" /\ row'[b].anthropic = r
    BY <1>2, <2>1 DEF TypeOK, SubmittedRow
  <2>3. row[b].anthropic = NoRemote /\ row[b].status # "deleted"
    BY <1>2, <1>4 DEF OutboxShape, Exists, BatchStatuses
  <2>4. RowsBehindRemotes'
    BY <1>1, <2>2 DEF RowsBehindRemotes
  <2>5. Lost' \subseteq Lost
    <3> SUFFICES ASSUME NEW q \in Remotes, q \in Lost' PROVE q \in Lost
      BY DEF Lost
    <3>1. /\ remote[q].state # "none" /\ remote[q].of \in Batches
          /\ row'[remote[q].of].status # "deleted"
          /\ row'[remote[q].of].anthropic # q
      BY <1>1 DEF Lost, RowsBehindRemotes
    <3>2. q # r
      BY <1>2, <2>2, <3>1
    <3>3. row[remote[q].of].status # "deleted" /\ row[remote[q].of].anthropic # q
      BY <2>2, <2>3, <3>1
    <3> QED
      BY <1>3, <3>1, <3>2, <3>3 DEF Lost, InFlight
  <2>6. LossesCounted'
    BY <1>1, <2>5, LossKept
  <2> QED
    BY <2>4, <2>6
<1>5. CASE ~Exists(b)
  <2>1. row' = row /\ row[b].status = "deleted"
    BY <1>2, <1>5 DEF SubmitRecord, Submitting, Exists, BatchStatuses
  <2>2. Lost' \subseteq Lost
    <3> SUFFICES ASSUME NEW q \in Remotes, q \in Lost' PROVE q \in Lost
      BY DEF Lost
    <3>1. /\ remote[q].state # "none" /\ row[remote[q].of].status # "deleted"
          /\ row[remote[q].of].anthropic # q
      BY <1>1, <2>1 DEF Lost
    <3>2. q # r
      BY <1>2, <2>1, <3>1
    <3> QED
      BY <1>3, <3>1, <3>2 DEF Lost, InFlight
  <2>3. LossesCounted'
    BY <1>1, <2>2, LossKept
  <2> QED
    BY <1>1, <2>1, <2>3, LinksAlone
<1> QED
  BY <1>4, <1>5

LEMMA OrphanFail ==
  ASSUME OrphanInductive, SoloInductive', NEW w \in Workers, SubmitFail(w)
  PROVE  OrphanInductive'
<1> USE DEF OrphanInductive, SoloInductive, Inductive
<1>1. /\ w \in Executors /\ row' = row /\ faults \in Nat /\ faults' = faults + 1
      /\ exec[w].pc \in {"accept", "record"}
  BY DEF SubmitFail, Fault, Executors, TypeOK
<1>2. \A v \in Workers \ {w} : exec'[v] = exec[v]
  BY DEF SubmitFail, Step, TypeOK, Executors
<1>3. CASE UNCHANGED remote
  <2>1. Lost' \subseteq Lost \cup {exec[w].rid}
    BY <1>1, <1>2, <1>3, OnlyOneLost, LinksAlone
  <2>2. LossesCounted'
    BY <1>1, <2>1, LossOfOne
  <2> QED
    BY <1>1, <1>3, <2>2, LinksAlone
<1>4. CASE exec[w].pc = "accept" /\ remote' # remote
  <2>1. PICK r \in Remotes : remote' = [remote EXCEPT ![r] = [state |-> "in_progress", of |-> exec[w].batch]]
    BY <1>4 DEF SubmitFail
  <2>2. /\ \A q \in Remotes \ {r} : remote'[q] = remote[q]
        /\ remote'[r].of \in Batches
    BY <1>1, <1>4, <2>1 DEF TypeOK, TaskConsistent
  <2>3. RowsBehindRemotes'
    BY <1>1, <2>2 DEF RowsBehindRemotes
  <2>4. Lost' \subseteq Lost \cup {r}
    <3> SUFFICES ASSUME NEW q \in Remotes, q \in Lost', q # r PROVE q \in Lost
      BY DEF Lost
    <3>1. /\ remote'[q] = remote[q]
          /\ \A v \in Workers : ~(exec'[v].pc = "record" /\ exec'[v].rid = q)
      BY <2>2 DEF Lost, InFlight
    <3>2. \A v \in Workers : ~InFlight(v, q)
      BY <1>2, <1>4, <3>1 DEF InFlight
    <3> QED
      BY <1>1, <3>1, <3>2 DEF Lost
  <2>5. LossesCounted'
    BY <1>1, <2>4, LossOfOne
  <2> QED
    BY <2>3, <2>5
<1> QED
  BY <1>3, <1>4 DEF SubmitFail

LEMMA OrphanStep ==
  ASSUME SoloWorker, OrphanInductive, [Next]_vars
  PROVE  OrphanInductive'
<1> USE DEF Executors
<1>1. SoloInductive'
  BY SoloStep DEF OrphanInductive
<1>2. CASE \/ UNCHANGED vars \/ Kickoff \/ OperatorPoll \/ DeleteBatches
           \/ \E r \in Remotes : RemoteProgress(r)
  BY <1>1, <1>2, OrphanOutside
<1>3. ASSUME NEW w \in Workers, \/ \E m \in Message : Receive(w, m)
                                \/ Run(w) \/ SubmitFail(w) \/ Redeliver(w)
      PROVE  OrphanInductive'
  BY <1>1, <1>3, OrphanDelivery, OrphanTask, OrphanAccept, OrphanRecord, OrphanFail DEF Run
<1>4. ASSUME NEW o \in Operators, OperatorProcess(o) \/ RunOperator(o)
      PROVE  OrphanInductive'
  BY <1>1, <1>4, OrphanDelivery, OrphanTask DEF RunOperator
<1>5. ASSUME NEW e \in Executors, Crash(e) PROVE OrphanInductive'
  BY <1>1, <1>5, OrphanCrash
<1> QED
  BY <1>2, <1>3, <1>4, <1>5 DEF Next

LEMMA OrphanInit == Init => OrphanInductive
<1> SUFFICES ASSUME Init PROVE OrphanInductive
  OBVIOUS
<1>1. RowsBehindRemotes
  BY DEF Init, RowsBehindRemotes
<1>2. Lost = {}
  BY DEF Init, Lost
<1>3. LossesCounted
  BY <1>2, FS_EmptySet DEF LossesCounted, Init
<1> QED
  BY <1>1, <1>3, SoloInit DEF OrphanInductive

(* With one worker, every accepted Anthropic batch that no row points to has *)
(* cost a crash or a failed call of its own: at most one is lost each time,  *)
(* however many ids the task had (submit_batch.py).                          *)
THEOREM SoloOrphansAccountedFor ==
  ASSUME SoloWorker
  PROVE  Spec => []OrphansAccountedFor
<1>1. ASSUME OrphanInductive PROVE OrphansAccountedFor
  <2>1. Orphans \subseteq Lost
    BY DEF Orphans, Lost, InFlight
  <2>2. /\ Cardinality(Orphans) <= Cardinality(Lost) /\ Cardinality(Lost) <= faults
        /\ Cardinality(Orphans) \in Nat /\ Cardinality(Lost) \in Nat /\ faults \in Nat
    BY <1>1, <2>1, FS_Subset, FS_CardinalityType
       DEF OrphanInductive, LossesCounted, SoloInductive, Inductive, TypeOK
  <2> DEFINE n == Cardinality(Orphans)
             k == Cardinality(Lost)
  <2>3. n \in Nat /\ k \in Nat /\ n <= k /\ k <= faults /\ faults \in Nat
    BY <2>2
  <2> HIDE DEF n, k
  <2>4. n <= faults
    BY <2>3
  <2> QED
    BY <2>4 DEF n, OrphansAccountedFor
<1> QED
  BY <1>1, OrphanInit, OrphanStep, PTL DEF Spec

================================================================================
