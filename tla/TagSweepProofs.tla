---------------------------- MODULE TagSweepProofs -----------------------------
(* Theorems about TagSweep, for every number of cards, batches, workers,     *)
(* shells, servers, requests and crashes.                                    *)
EXTENDS TagSweep, FiniteSetTheorems, TLAPS

USE ConstantsAssumption DEF ConstantsAssumption

--------------------------------------------------------------------------------
(* Type correctness.                                                         *)

LEMMA IdleType == Idle \in Transaction
  BY DEF Idle, Transaction, NoMessage, SideTags

LEMMA NoBatchType == NoBatch \in BatchRow
  BY DEF NoBatch, BatchRow

LEMMA StepType ==
  ASSUME exec \in [Executors -> Transaction],
         NEW e \in Executors, NEW new \in Transaction, Step(e, new)
  PROVE  exec' \in [Executors -> Transaction]
  BY DEF Step

LEMMA DoneType ==
  ASSUME exec \in [Executors -> Transaction], NEW e \in Executors
  PROVE  Done(e) \in Transaction
<1>1. exec[e].msg \in Materialization \cup {NoMessage}
  BY DEF Transaction
<1>2. CASE exec[e].msg = NoMessage
  BY <1>2, IdleType DEF Done
<1>3. CASE exec[e].msg # NoMessage
  BY <1>1, <1>3, IdleType DEF Done, Transaction
<1> QED
  BY <1>2, <1>3

LEMMA RequestType ==
  ASSUME TypeOK
  PROVE  /\ \A command : Request(command) => requests' \in 0..MaxRequests /\ requests + 1 \in 1..MaxRequests
         /\ Fault => faults' \in 0..MaxFaults
  BY DEF TypeOK, Request, Fault

LEMMA OpenSweepType ==
  ASSUME TypeOK, NEW sides \in SUBSET SideTags, OpenSweep(sides)
  PROVE  sweep' \in SweepRow /\ sweep'.id \in Sweeps
<1>1. CASE sweep.id # NoSweep /\ sweep' = [Reopened(sweep) EXCEPT !.sides = sides]
  BY <1>1 DEF TypeOK, SweepRow, Reopened
<1>2. CASE \E s \in Sweeps :
             sweep' = [id |-> s, status |-> "open", epoch |-> {}, sides |-> sides]
  BY <1>2 DEF SweepRow
<1> QED
  BY <1>1, <1>2 DEF OpenSweep

LEMMA SendMaterializeType ==
  ASSUME TypeOK, requests + 1 \in 1..MaxRequests,
         NEW s \in Sweeps, NEW limit \in Limits \cup {0}, NEW redo \in BOOLEAN,
         SendMaterialize(s, limit, redo)
  PROVE  queue' \subseteq Materialization /\ faults' \in 0..MaxFaults
  BY RequestType DEF SendMaterialize, Materialization, TypeOK

LEMMA TypeKickoff ==
  ASSUME TypeOK, Kickoff \/ KickoffFailed
  PROVE  TypeOK'
<1>1. CASE Kickoff
  <2>1. PICK sides \in Options, limit \in Limits :
           OpenSweep(sides) /\ SendMaterialize(sweep'.id, limit, FALSE)
    BY <1>1 DEF Kickoff
  <2>2. sides \in SUBSET SideTags
    BY DEF Options
  <2>3. sweep' \in SweepRow /\ sweep'.id \in Sweeps
    BY <2>1, <2>2, OpenSweepType
  <2>4. queue' \subseteq Materialization /\ faults' \in 0..MaxFaults
    BY <1>1, <2>1, <2>3, RequestType, SendMaterializeType DEF Kickoff
  <2> QED
    BY <1>1, <2>3, <2>4, RequestType DEF Kickoff, TypeOK
<1>2. CASE KickoffFailed
  <2>1. PICK sides \in Options : OpenSweep(sides) /\ SendMaterialize(sweep'.id, 0, TRUE)
    BY <1>2 DEF KickoffFailed
  <2>2. sides \in SUBSET SideTags
    BY DEF Options
  <2>3. sweep' \in SweepRow /\ sweep'.id \in Sweeps
    BY <2>1, <2>2, OpenSweepType
  <2>4. queue' \subseteq Materialization /\ faults' \in 0..MaxFaults
    BY <1>2, <2>1, <2>3, RequestType, SendMaterializeType DEF KickoffFailed
  <2> QED
    BY <1>2, <2>3, <2>4, RequestType DEF KickoffFailed, TypeOK
<1> QED
  BY <1>1, <1>2

LEMMA PruneHistoryType ==
  ASSUME TypeOK, PruneHistory
  PROVE  /\ batch' \in [Batches -> BatchRow]
         /\ tagged' \in [Cards -> SUBSET ({"main"} \cup SideTags)]
         /\ sideTags' \subseteq SideTags
  BY NoBatchType DEF TypeOK, PruneHistory

LEMMA TypePrune ==
  ASSUME TypeOK, Prune \/ CatchUp
  PROVE  TypeOK'
<1>1. CASE Prune
  BY <1>1, PruneHistoryType, RequestType DEF Prune, TypeOK
<1>2. CASE CatchUp
  <2>1. sweep' \in SweepRow /\ sweep'.id \in Sweeps
    BY <1>2, OpenSweepType DEF CatchUp
  <2>2. queue' \subseteq Materialization /\ faults' \in 0..MaxFaults
    <3>1. CASE SendMaterialize(sweep'.id, 0, FALSE)
      BY <1>2, <2>1, <3>1, RequestType, SendMaterializeType DEF CatchUp
    <3>2. CASE UNCHANGED <<queue, faults>>
      BY <3>2 DEF TypeOK
    <3> QED
      BY <1>2, <3>1, <3>2 DEF CatchUp
  <2> QED
    BY <1>2, <2>1, <2>2, PruneHistoryType, RequestType DEF CatchUp, TypeOK
<1> QED
  BY <1>1, <1>2

LEMMA TypeUpdate ==
  ASSUME TypeOK, UpdateTag
  PROVE  TypeOK'
<1>1. requests' \in 0..MaxRequests /\ filter' \in Filters
  BY RequestType DEF UpdateTag
<1> QED
  BY <1>1 DEF UpdateTag, TypeOK

LEMMA BeginDeleteType ==
  ASSUME TypeOK, NEW o \in Executors, NEW place \in {"delete", "delete_first"},
         NEW tags \in SUBSET AllTags, NEW history \in BOOLEAN, NEW open \in BOOLEAN,
         BeginDelete(o, place, tags, history, open)
  PROVE  exec' \in [Executors -> Transaction]
<1>1. Linked(sweep.id) \subseteq Batches
  BY DEF Linked
<1>2. sweep.id \in Sweeps \cup {NoSweep}
  BY DEF TypeOK, SweepRow
<1>3. [c \in Cards |-> tagged[c] \cap tags] \in [Cards -> SUBSET ({"main"} \cup SideTags)]
  BY DEF TypeOK
<1>4. PICK new \in Transaction : Step(o, new)
  BY <1>1, <1>2, <1>3, IdleType DEF BeginDelete, Transaction, AllTags
<1> QED
  BY <1>4, StepType DEF TypeOK

LEMMA TypeDelete ==
  ASSUME TypeOK,
         \/ \E v \in Servers : CleanReset(v) \/ ApplyAudit(v)
         \/ \E o \in Shells : ApplyAuditCli(o) \/ DropOpenSweep(o)
         \/ \E o \in Shells \cup Servers : EndDelete(o)
  PROVE  TypeOK'
<1> USE DEF Executors
<1>1. ASSUME NEW v \in Servers, CleanReset(v) PROVE TypeOK'
  <2>1. exec' \in [Executors -> Transaction]
    BY <1>1, BeginDeleteType DEF CleanReset
  <2> QED
    BY <1>1, <2>1, RequestType DEF CleanReset, BeginDelete, TypeOK
<1>2. ASSUME NEW v \in Servers, ApplyAudit(v) PROVE TypeOK'
  <2>1. PICK tags \in SUBSET AllTags : BeginDelete(v, "delete", tags, "main" \in tags, TRUE)
    BY <1>2 DEF ApplyAudit, AllTags
  <2>2. ("main" \in tags) \in BOOLEAN
    OBVIOUS
  <2>3. exec' \in [Executors -> Transaction]
    BY <2>1, <2>2, BeginDeleteType
  <2> QED
    BY <1>2, <2>3, RequestType DEF ApplyAudit, BeginDelete, TypeOK
<1>3. ASSUME NEW o \in Shells, ApplyAuditCli(o) PROVE TypeOK'
  <2>1. PICK tags \in SUBSET AllTags, place \in {"delete", "delete_first"} :
           BeginDelete(o, place, tags, "main" \in tags, FALSE)
    BY <1>3 DEF ApplyAuditCli, AllTags
  <2>2. ("main" \in tags) \in BOOLEAN
    OBVIOUS
  <2>3. exec' \in [Executors -> Transaction]
    BY <2>1, <2>2, BeginDeleteType
  <2> QED
    BY <1>3, <2>3, RequestType DEF ApplyAuditCli, BeginDelete, TypeOK
<1>4. ASSUME NEW o \in Shells, DropOpenSweep(o) PROVE TypeOK'
  <2>1. Linked(sweep.id) \subseteq Batches /\ sweep.id \in Sweeps \cup {NoSweep}
    BY DEF Linked, TypeOK, SweepRow
  <2>2. PICK new \in Transaction : Step(o, new)
    BY <1>4, <2>1, IdleType DEF DropOpenSweep, Transaction
  <2> QED
    BY <1>4, <2>2, StepType DEF DropOpenSweep, TypeOK
<1>5. ASSUME NEW o \in Shells \cup Servers, EndDelete(o) PROVE TypeOK'
  <2> DEFINE t == exec[o]
  <2>1. t \in Transaction
    BY DEF TypeOK
  <2>2. batch' \in [Batches -> BatchRow]
    <3>1. \A b \in Batches : Deleted(t, b) \in BatchRow
      BY NoBatchType DEF Deleted, TypeOK, BatchRow
    <3> QED
      BY <1>5, <3>1 DEF EndDelete
  <2>3. sweep' \in SweepRow
    BY <1>5 DEF EndDelete, TypeOK, SweepRow, NoRow
  <2>4. tagged' \in [Cards -> SUBSET ({"main"} \cup SideTags)] /\ sideTags' \subseteq SideTags
    BY <1>5 DEF EndDelete, TypeOK
  <2>5. PICK new \in Transaction : Step(o, new)
    BY <1>5, IdleType DEF EndDelete, Transaction
  <2> QED
    BY <1>5, <2>2, <2>3, <2>4, <2>5, StepType DEF EndDelete, TypeOK
<1> QED
  BY <1>1, <1>2, <1>3, <1>4, <1>5

LEMMA TypeWorker ==
  ASSUME TypeOK,
         \/ \E w \in Workers : \/ Receive(w) \/ Ack(w)
                               \/ MaterializeRead(w) \/ MaterializeWrite(w)
         \/ \E b \in Batches : BatchEnds(b)
         \/ \E e \in Executors : Crash(e)
  PROVE  TypeOK'
<1> USE DEF Executors
<1>1. ASSUME NEW w \in Workers, Receive(w) PROVE TypeOK'
  <2>1. PICK m \in queue : /\ queue' = queue \ {m}
                           /\ Step(w, [Idle EXCEPT !.pc = "read", !.msg = m])
    BY <1>1 DEF Receive
  <2>2. [Idle EXCEPT !.pc = "read", !.msg = m] \in Transaction
    BY IdleType DEF Transaction, TypeOK
  <2> QED
    BY <1>1, <2>1, <2>2, StepType DEF Receive, TypeOK
<1>2. ASSUME NEW w \in Workers, Ack(w) PROVE TypeOK'
  BY <1>2, IdleType, StepType DEF Ack, TypeOK
<1>3. ASSUME NEW w \in Workers, MaterializeRead(w) PROVE TypeOK'
  <2> DEFINE m == exec[w].msg
  <2>1. \A cards \in Chosen(m) : cards \subseteq Cards
    BY DEF Chosen, Failed, Linked, Eligible, TypeOK, BatchRow
  <2>2. ASSUME NEW cards \in SUBSET Cards
        PROVE  [exec[w] EXCEPT !.pc = "write", !.cards = cards] \in Transaction
    <3>1. exec[w] \in Transaction
      BY DEF TypeOK
    <3> QED
      BY <3>1 DEF Transaction
  <2>3. PICK new \in Transaction : Step(w, new)
    BY <1>3, <2>1, <2>2, DoneType DEF MaterializeRead, TypeOK
  <2> QED
    BY <1>3, <2>3, StepType DEF MaterializeRead, TypeOK
<1>4. ASSUME NEW w \in Workers, MaterializeWrite(w) PROVE TypeOK'
  <2> DEFINE m == exec[w].msg
             cards == exec[w].cards
  <2>1. exec' \in [Executors -> Transaction]
    BY <1>4, DoneType, StepType DEF MaterializeWrite, TypeOK
  <2>2. batch' \in [Batches -> BatchRow]
    <3>1. CASE UNCHANGED batch
      BY <3>1 DEF TypeOK
    <3>2. ASSUME NEW new \in SUBSET FreshBatches, NEW into \in [cards -> new], sweep.id = m.sweep,
                 batch' = [b \in Batches |->
                             IF b \in new THEN PendingBatch(m, Part(into, b))
                             ELSE batch[b]]
          PROVE  batch' \in [Batches -> BatchRow]
      <4>1. cards \subseteq Cards /\ m.sweep \in Sweeps \cup {NoSweep}
        BY <3>2 DEF TypeOK, Transaction, SweepRow
      <4>2. \A b : PendingBatch(m, Part(into, b)) \in BatchRow
        BY <4>1 DEF PendingBatch, BatchRow, Part
      <4> QED
        BY <3>2, <4>2 DEF TypeOK
    <3> QED
      <4>1. CASE sweep.id # m.sweep
        BY <1>4, <3>1, <4>1 DEF MaterializeWrite
      <4>2. CASE sweep.id = m.sweep
        <5>1. CASE UNCHANGED batch
          BY <3>1, <5>1
        <5>2. CASE ~UNCHANGED batch
          <6>1. PICK new \in SUBSET FreshBatches : \E into \in [cards -> new] :
                   batch' = [b \in Batches |->
                               IF b \in new THEN PendingBatch(m, Part(into, b))
                               ELSE batch[b]]
            BY <1>4, <4>2, <5>2 DEF MaterializeWrite
          <6>2. PICK into \in [cards -> new] :
                   batch' = [b \in Batches |->
                               IF b \in new THEN PendingBatch(m, Part(into, b))
                               ELSE batch[b]]
            BY <6>1
          <6> QED
            BY <3>2, <4>2, <6>2
        <5> QED
          BY <5>1, <5>2
      <4> QED
        BY <4>1, <4>2
  <2> QED
    BY <1>4, <2>1, <2>2 DEF MaterializeWrite, TypeOK
<1>5. ASSUME NEW b \in Batches, BatchEnds(b) PROVE TypeOK'
  <2>1. PICK answer \in [batch[b].cards -> Verdicts] :
           batch' = [batch EXCEPT ![b] = Ended(b, answer)]
    BY <1>5 DEF BatchEnds
  <2>2. [c \in Cards |-> IF c \in batch[b].cards THEN answer[c] ELSE "none"]
           \in [Cards -> Verdicts \cup {"none"}]
    OBVIOUS
  <2>3. batch[b] \in BatchRow
    BY DEF TypeOK
  <2>4. Ended(b, answer) \in BatchRow
    BY <2>2, <2>3 DEF Ended, BatchRow
  <2>5. batch' \in [Batches -> BatchRow]
    BY <2>1, <2>4 DEF TypeOK
  <2> QED
    BY <1>5, <2>5 DEF BatchEnds, TypeOK
<1>6. ASSUME NEW e \in Executors, Crash(e) PROVE TypeOK'
  <2>1. queue' \subseteq Materialization
    BY <1>6 DEF Crash, TypeOK, Transaction
  <2>2. catalog' \in [Cards -> {"unknown", "loading", "known"}]
    BY <1>6 DEF Crash, TypeOK
  <2>3. sweep' \in SweepRow
    BY <1>6 DEF Crash, TypeOK, SweepRow
  <2>4. exec' \in [Executors -> Transaction]
    <3>1. ASSUME NEW t \in Transaction, NEW lost
          PROVE  [t EXCEPT !.epoch = @ \ lost] \in Transaction
      BY DEF Transaction
    <3> QED
      BY <1>6, <3>1, IdleType DEF Crash, TypeOK
  <2> QED
    BY <1>6, <2>1, <2>2, <2>3, <2>4, RequestType DEF Crash, TypeOK
<1> QED
  BY <1>1, <1>2, <1>3, <1>4, <1>5, <1>6

LEMMA ProcessedKeeps ==
  ASSUME NEW row \in BatchRow
  PROVE  /\ Processed(row) \in BatchRow
         /\ Processed(row).status = "processed" /\ Processed(row).verdict = row.verdict
         /\ Processed(row).cards = row.cards /\ Processed(row).sweep = row.sweep
         /\ row.cards \subseteq Cards
BY DEF Processed, BatchRow

LEMMA GatherType ==
  ASSUME TypeOK, NEW e \in Executors, NEW sides \in SUBSET SideTags, Gather(e, sides)
  PROVE  TypeOK'
<1>1. Processable(sweep.id) \subseteq Batches /\ sweep.id \in Sweeps \cup {NoSweep}
  BY DEF Processable, Linked, TypeOK, SweepRow
<1>2. CASE sideTags' = sideTags \cup (sides \ sideTags) /\ UNCHANGED exec
  BY <1>2 DEF Gather, TypeOK
<1>3. CASE UNCHANGED sideTags /\ \E new \in Transaction : Step(e, new)
  BY <1>3, StepType DEF Gather, TypeOK
<1>4. [Idle EXCEPT !.pc = "classify", !.sweep = sweep.id, !.filter = filter, !.sides = sides,
                   !.made = sides \ sideTags, !.ready = Processable(sweep.id)] \in Transaction
  <2>1. filter \in Filters \cup {{}} /\ sides \ sideTags \in SUBSET SideTags
    BY DEF TypeOK
  <2> DEFINE ready == Processable(sweep.id)
             made == sides \ sideTags
  <2>2. ready \in SUBSET Batches
    BY <1>1
  <2> QED
    <3> HIDE DEF ready, made
    <3>1. [Idle EXCEPT !.pc = "classify", !.sweep = sweep.id, !.filter = filter, !.sides = sides,
                       !.made = made, !.ready = ready] \in Transaction
      BY <1>1, <2>1, <2>2, IdleType DEF Transaction, made
    <3> QED
      BY <3>1 DEF made, ready
<1> QED
  BY <1>2, <1>3, <1>4 DEF Gather

LEMMA FinishType ==
  ASSUME TypeOK, NEW e \in Executors, Finish(e)
  PROVE  TypeOK'
<1> DEFINE t == exec[e]
<1>0. t \in Transaction
  BY DEF TypeOK
<1>1. CASE Classify(e)
  <2> DEFINE adds == [c \in Cards |-> UNION {Classified(t.sides, b, c) : b \in t.ready}]
  <2>1. t.sides \subseteq SideTags
    BY <1>0 DEF Transaction
  <2>2. adds \in [Cards -> SUBSET ({"main"} \cup SideTags)]
    BY <2>1 DEF Classified
  <2>3. [t EXCEPT !.pc = "apply", !.adds = adds] \in Transaction
    BY <1>0, <2>2 DEF Transaction
  <2>4. Step(e, [t EXCEPT !.pc = "apply", !.adds = adds])
    BY <1>1 DEF Classify
  <2>5. exec' \in [Executors -> Transaction]
    BY <2>3, <2>4, StepType DEF TypeOK
  <2> QED
    BY <1>1, <2>5 DEF Classify, TypeOK
<1>2. CASE Apply(e)
  <2> DEFINE marked == {b \in t.ready : batch[b].status # "none"}
             adds == [c \in Cards |-> t.adds[c] \cap ({"main"} \cup sideTags \cup t.made)]
             complete == Complete(t.sweep, marked, t.filter)
             new == [t EXCEPT !.pc = "commit", !.ready = marked, !.adds = adds,
                              !.closes = complete,
                              !.epoch = IF complete THEN {c \in Cards : catalog[c] # "unknown"}
                                        ELSE {}]
  <2>1. marked \subseteq Batches
    BY <1>0 DEF Transaction
  <2>2. adds \in [Cards -> SUBSET ({"main"} \cup SideTags)]
    BY <1>0 DEF Transaction
  <2>3. complete \in BOOLEAN
    BY DEF Complete
  <2>4. new \in Transaction
    <3> HIDE DEF marked, adds, complete
    <3> QED
      BY <1>0, <2>1, <2>2, <2>3 DEF Transaction
  <2>5. Step(e, new) \/ Step(e, Idle)
    BY <1>2 DEF Apply
  <2>6. exec' \in [Executors -> Transaction]
    BY <2>4, <2>5, IdleType, StepType DEF TypeOK
  <2> QED
    BY <1>2, <2>6 DEF Apply, TypeOK
<1>3. CASE Commit(e)
  <2>1. batch' \in [Batches -> BatchRow]
    <3>1. \A b \in Batches : Processed(batch[b]) \in BatchRow
      BY ProcessedKeeps DEF TypeOK
    <3> QED
      BY <1>3, <3>1 DEF Commit, TypeOK
  <2>2. tagged' \in [Cards -> SUBSET ({"main"} \cup SideTags)] /\ sideTags' \subseteq SideTags
    BY <1>0, <1>3 DEF Commit, TypeOK, Transaction
  <2>3. sweep' \in SweepRow
    <3>1. t.epoch \subseteq Cards
      BY <1>0 DEF Transaction
    <3>2. Closed(t) \in SweepRow
      BY <3>1 DEF TypeOK, SweepRow, Closed
    <3> QED
      BY <1>3, <3>2 DEF Commit, TypeOK
  <2>4. exec' \in [Executors -> Transaction]
    BY <1>3, IdleType, StepType DEF Commit, TypeOK
  <2> QED
    BY <1>3, <2>1, <2>2, <2>3, <2>4 DEF Commit, TypeOK
<1>4. CASE LoadCommit(e)
  BY <1>4, IdleType, StepType DEF LoadCommit, TypeOK
<1> QED
  BY <1>1, <1>2, <1>3, <1>4 DEF Finish

LEMMA LoadType ==
  ASSUME TypeOK, NEW e \in Executors, Load(e)
  PROVE  TypeOK'
<1>1. PICK cards \in SUBSET Cards :
         /\ catalog' = [c \in Cards |-> IF c \in cards THEN "loading" ELSE catalog[c]]
         /\ Step(e, [Idle EXCEPT !.pc = "load", !.cards = cards])
  BY DEF Load
<1>2. [Idle EXCEPT !.pc = "load", !.cards = cards] \in Transaction
  BY IdleType DEF Transaction
<1> QED
  BY <1>1, <1>2, StepType DEF Load, TypeOK

LEMMA TypeInit == Init => TypeOK
  BY IdleType, NoBatchType DEF Init, TypeOK, SweepRow, NoRow

LEMMA TypeNext == TypeOK /\ [Next]_vars => TypeOK'
<1> SUFFICES ASSUME TypeOK, [Next]_vars PROVE TypeOK'
  OBVIOUS
<1> USE DEF Executors
<1>1. CASE Kickoff \/ KickoffFailed
  BY <1>1, TypeKickoff
<1>2. CASE Prune \/ CatchUp
  BY <1>2, TypePrune
<1>3. CASE \E b \in Batches : BatchEnds(b)
  BY <1>3, TypeWorker
<1>4. ASSUME NEW w \in Workers, Receive(w) \/ Run(w) \/ ProcessTask(w) \/ Load(w)
      PROVE  TypeOK'
  <2>1. CASE Receive(w) \/ MaterializeRead(w) \/ MaterializeWrite(w) \/ Ack(w)
    BY <2>1, TypeWorker
  <2>2. CASE ProcessTask(w)
    <3>1. sweep.sides \in SUBSET SideTags
      BY DEF TypeOK, SweepRow
    <3> QED
      BY <2>2, <3>1, GatherType DEF ProcessTask
  <2> QED
    BY <1>4, <2>1, <2>2, FinishType, LoadType DEF Run
<1>5. ASSUME NEW o \in Shells, ProcessCli(o) \/ Finish(o) \/ Load(o) PROVE TypeOK'
  BY <1>5, GatherType, FinishType, LoadType DEF ProcessCli, Options
<1>6. CASE \/ \E v \in Servers : CleanReset(v) \/ ApplyAudit(v)
           \/ \E o \in Shells : ApplyAuditCli(o) \/ DropOpenSweep(o)
           \/ \E o \in Shells \cup Servers : EndDelete(o)
  BY <1>6, TypeDelete
<1>7. CASE \E e \in Executors : Crash(e)
  BY <1>7, TypeWorker
<1>8. CASE UNCHANGED vars
  BY <1>8 DEF vars, TypeOK
<1>9. CASE UpdateTag
  BY <1>9, TypeUpdate
<1> QED
  BY <1>1, <1>2, <1>3, <1>4, <1>5, <1>6, <1>7, <1>8, <1>9 DEF Next

(* Every variable keeps its type.                                            *)
THEOREM SweepTypeCorrect == Spec => []TypeOK
  BY TypeInit, TypeNext, PTL DEF Spec

--------------------------------------------------------------------------------
(* What is recorded as processed is applied.  The invariant follows a        *)
(* verdict from the batch through a process run to `card_tags`, and says of  *)
(* a deletion that it takes a main tag only with the batch it came from.     *)

Positive(b) == {c \in batch[b].cards : batch[b].verdict[c] = "main"}

(* Batches hang on the tag's present sweep row or on none; a row that does   *)
(* not exist has no content.                                                 *)
BatchesOfSweep == \A b \in Batches : batch[b].sweep \in {sweep.id, NoSweep}

NoneIsFree == \A b \in Batches : batch[b].status = "none" => batch[b] = NoBatch

(* A process run has only batches that had answers when it read them, and    *)
(* from then on a batch keeps its answers or is deleted.                     *)
AnswersAreThere ==
  \A e \in Executors : exec[e].pc \in {"classify", "apply", "commit"} =>
    \A b \in exec[e].ready : batch[b].status # "pending"

VerdictsGathered ==
  \A e \in Executors : exec[e].pc \in {"apply", "commit"} =>
    \A b \in exec[e].ready : batch[b].status # "none" =>
      \A c \in Positive(b) : "main" \in exec[e].adds[c]

(* A deletion under way leaves no processed batch whose main tags it takes.  *)
DeletionsCover ==
  \A o \in Deleting : \A b \in Linked(sweep.id) \ exec[o].ready :
    batch[b].status = "processed" => \A c \in Positive(b) : "main" \notin exec[o].adds[c]

(* A run about to commit and a deletion under way touch no common row.       *)
CommitsApart ==
  \A e \in Executors, o \in Deleting : exec[e].pc = "commit" =>
    /\ exec[e].ready \cap exec[o].ready = {}
    /\ exec[e].ready # {} => \A c \in Cards : exec[e].adds[c] \cap exec[o].adds[c] = {}

Bookkeeping ==
  /\ BatchesOfSweep /\ NoneIsFree /\ AnswersAreThere /\ VerdictsGathered
  /\ DeletionsCover /\ CommitsApart /\ RecordedMeansApplied

Working == {"classify", "apply", "commit", "delete", "delete_first"}

LEMMA StepChanges ==
  ASSUME TypeOK, NEW e \in Executors, NEW new, Step(e, new)
  PROVE  exec'[e] = new /\ \A f \in Executors : f # e => exec'[f] = exec[f]
  BY DEF TypeOK, Step

(* Steps that touch neither batches nor tags, and bring no transaction to a  *)
(* point of interest.                                                        *)
LEMMA QuietStep ==
  ASSUME Bookkeeping, UNCHANGED <<batch, tagged>>, sweep'.id = sweep.id,
         \A f \in Executors :
           \/ exec'[f].pc \notin Working
           \/ /\ exec'[f].pc = exec[f].pc
              /\ exec'[f].ready = exec[f].ready
              /\ exec'[f].adds = exec[f].adds
  PROVE  Bookkeeping'
<1>1. BatchesOfSweep' /\ NoneIsFree'
  BY DEF Bookkeeping, BatchesOfSweep, NoneIsFree, NoBatch
<1>2. AnswersAreThere'
  BY DEF Bookkeeping, AnswersAreThere, Working
<1>3. VerdictsGathered'
  BY DEF Bookkeeping, VerdictsGathered, Positive, Working
<1>4. DeletionsCover'
  BY DEF Bookkeeping, DeletionsCover, Deleting, Executors, Positive, Linked, Working
<1>5. CommitsApart'
  BY DEF Bookkeeping, CommitsApart, Deleting, Executors, Working
<1>6. RecordedMeansApplied'
  BY DEF Bookkeeping, RecordedMeansApplied, Linked
<1> QED
  BY <1>1, <1>2, <1>3, <1>4, <1>5, <1>6 DEF Bookkeeping

LEMMA QuietExecStep ==
  ASSUME TypeOK, Bookkeeping, UNCHANGED <<batch, tagged>>, sweep'.id = sweep.id,
         NEW e \in Executors, NEW new, Step(e, new), new.pc \notin Working
  PROVE  Bookkeeping'
  BY QuietStep, StepChanges

(* A kickoff that finds no row: nothing is linked to the new one.            *)
LEMMA OpenSweepKeeps ==
  ASSUME TypeOK, Bookkeeping, NEW sides \in SUBSET SideTags, OpenSweep(sides),
         UNCHANGED <<batch, tagged, exec>>
  PROVE  Bookkeeping'
<1>1. CASE sweep'.id = sweep.id
  BY <1>1, QuietStep
<1>2. CASE sweep'.id # sweep.id
  <2>1. sweep.id = NoSweep /\ sweep'.id \in Sweeps
    BY <1>2, OpenSweepType DEF OpenSweep, Reopened, TypeOK, SweepRow
  <2>2. \A b \in Batches : batch'[b].sweep = NoSweep
    BY <2>1 DEF Bookkeeping, BatchesOfSweep
  <2>3. Linked(sweep.id)' = {}
    BY <2>1, <2>2 DEF Linked
  <2>4. BatchesOfSweep' /\ NoneIsFree'
    BY <2>2 DEF Bookkeeping, BatchesOfSweep, NoneIsFree, NoBatch
  <2>5. AnswersAreThere' /\ VerdictsGathered'
    BY DEF Bookkeeping, AnswersAreThere, VerdictsGathered, Positive
  <2>6. CommitsApart'
    BY DEF Bookkeeping, CommitsApart, Deleting
  <2>7. DeletionsCover' /\ RecordedMeansApplied'
    BY <2>3 DEF DeletionsCover, RecordedMeansApplied
  <2> QED
    BY <2>4, <2>5, <2>6, <2>7 DEF Bookkeeping
<1> QED
  BY <1>1, <1>2

LEMMA PruneKeeps ==
  ASSUME TypeOK, Bookkeeping, PruneHistory, sweep'.id = sweep.id, UNCHANGED exec
  PROVE  Bookkeeping'
<1>1. \A b \in Batches : \/ batch'[b] = NoBatch
                         \/ batch'[b] = batch[b] /\ b \notin Linked(sweep.id)
  BY DEF PruneHistory
<1>2. Linked(sweep.id)' = {}
  <2>1. \A b \in Batches : batch'[b].status = "none" \/ batch'[b].sweep # sweep.id \/ sweep.id = NoSweep
    BY <1>1 DEF Linked, NoBatch
  <2> QED
    BY <2>1 DEF Linked
<1>3. BatchesOfSweep' /\ NoneIsFree'
  <2>1. NoBatch.sweep = NoSweep
    BY DEF NoBatch
  <2>2. NoBatch' = NoBatch
    BY DEF NoBatch
  <2> QED
    BY <1>1, <2>1, <2>2 DEF Bookkeeping, BatchesOfSweep, NoneIsFree
<1>4. AnswersAreThere' /\ VerdictsGathered'
  <2>1. \A e \in Executors : exec[e].ready \subseteq Batches
    BY DEF TypeOK, Transaction
  <2> QED
    BY <1>1, <2>1 DEF Bookkeeping, AnswersAreThere, VerdictsGathered, Positive, NoBatch
<1>5. CommitsApart'
  BY DEF Bookkeeping, CommitsApart, Deleting
<1>6. DeletionsCover' /\ RecordedMeansApplied'
  BY <1>2 DEF DeletionsCover, RecordedMeansApplied
<1> QED
  BY <1>3, <1>4, <1>5, <1>6 DEF Bookkeeping

LEMMA RequestKeeps ==
  ASSUME TypeOK, Bookkeeping, Kickoff \/ KickoffFailed \/ Prune \/ CatchUp
  PROVE  Bookkeeping'
<1> Options \subseteq SUBSET SideTags
  BY DEF Options
<1>1. CASE Kickoff
  BY <1>1, OpenSweepKeeps DEF Kickoff
<1>2. CASE KickoffFailed
  BY <1>2, OpenSweepKeeps DEF KickoffFailed
<1>3. CASE Prune
  BY <1>3, PruneKeeps DEF Prune
<1>4. CASE CatchUp
  <2>1. sweep'.id = sweep.id
    BY <1>4 DEF CatchUp, OpenSweep, Reopened, TypeOK, SweepRow
  <2> QED
    BY <1>4, <2>1, PruneKeeps DEF CatchUp
<1> QED
  BY <1>1, <1>2, <1>3, <1>4

LEMMA BatchEndsKeeps ==
  ASSUME TypeOK, Bookkeeping, NEW d \in Batches, BatchEnds(d)
  PROVE  Bookkeeping'
<1>1. PICK answer : batch' = [batch EXCEPT ![d] = Ended(d, answer)]
  BY DEF BatchEnds
<1>2. batch[d] \in BatchRow /\ batch[d].status = "pending"
  BY DEF BatchEnds, TypeOK
<1>3. /\ batch'[d].status = "ended" /\ batch'[d].sweep = batch[d].sweep
      /\ \A b \in Batches \ {d} : batch'[b] = batch[b]
  BY <1>1, <1>2 DEF TypeOK, Ended, BatchRow
<1>4. UNCHANGED <<exec, sweep, tagged>>
  BY DEF BatchEnds
<1>5. \A e \in Executors : exec[e].ready \subseteq Batches
  BY DEF TypeOK, Transaction
<1>6. BatchesOfSweep' /\ NoneIsFree'
  BY <1>3, <1>4 DEF Bookkeeping, BatchesOfSweep, NoneIsFree, NoBatch
<1>7. AnswersAreThere'
  BY <1>3, <1>4, <1>5 DEF Bookkeeping, AnswersAreThere
<1>8. VerdictsGathered'
  BY <1>2, <1>3, <1>4, <1>5 DEF Bookkeeping, AnswersAreThere, VerdictsGathered, Positive
<1>9. CommitsApart'
  BY <1>4 DEF Bookkeeping, CommitsApart, Deleting
<1>10. DeletionsCover'
  BY <1>3, <1>4 DEF Bookkeeping, DeletionsCover, Deleting, Linked, Positive
<1>11. RecordedMeansApplied'
  BY <1>3, <1>4 DEF Bookkeeping, RecordedMeansApplied, Linked
<1> QED
  BY <1>6, <1>7, <1>8, <1>9, <1>10, <1>11 DEF Bookkeeping

(* A materialization commits: its batches are new to everyone.               *)
LEMMA MaterializeKeeps ==
  ASSUME TypeOK, Bookkeeping, NEW w \in Workers, MaterializeWrite(w)
  PROVE  Bookkeeping'
<1> DEFINE m == exec[w].msg
           cards == exec[w].cards
<1>0. w \in Executors
  BY DEF Executors
<1>1. Step(w, Done(w)) /\ Done(w).pc \notin Working /\ UNCHANGED <<sweep, tagged>>
  BY DEF MaterializeWrite, Done, Idle, Working
<1>2. CASE UNCHANGED batch
  BY <1>0, <1>1, <1>2, QuietExecStep
<1>3. CASE ~UNCHANGED batch
  <2>1. sweep.id = m.sweep
    BY <1>3 DEF MaterializeWrite
  <2>2. PICK new \in SUBSET FreshBatches : \E into \in [cards -> new] :
           batch' = [b \in Batches |-> IF b \in new THEN PendingBatch(m, Part(into, b))
                                      ELSE batch[b]]
    BY <1>3 DEF MaterializeWrite
  <2>3. \A b \in Batches :
          \/ /\ \A e \in Executors : b \notin exec[e].ready
             /\ batch[b].status = "none"
             /\ batch'[b].status = "pending" /\ batch'[b].sweep = sweep.id
          \/ batch'[b] = batch[b]
    BY <2>1, <2>2 DEF PendingBatch, FreshBatches
  <2>4. /\ exec'[w].pc \notin Working
        /\ \A f \in Executors : f # w => exec'[f] = exec[f]
    BY <1>0, <1>1, StepChanges
  <2>5. \A e \in Executors : exec[e].ready \subseteq Batches
    BY DEF TypeOK, Transaction
  <2>6. BatchesOfSweep' /\ NoneIsFree'
    BY <1>1, <2>3 DEF Bookkeeping, BatchesOfSweep, NoneIsFree, NoBatch
  <2>7. AnswersAreThere' /\ VerdictsGathered'
    BY <2>3, <2>4, <2>5
       DEF Bookkeeping, AnswersAreThere, VerdictsGathered, Positive, Working
  <2>8. CommitsApart'
    BY <2>4 DEF Bookkeeping, CommitsApart, Deleting, Executors, Working
  <2>9. DeletionsCover'
    BY <1>1, <2>3, <2>4
       DEF Bookkeeping, DeletionsCover, Deleting, Executors, Linked, Positive, Working
  <2>10. RecordedMeansApplied'
    BY <1>1, <2>3 DEF Bookkeeping, RecordedMeansApplied, Linked
  <2> QED
    BY <2>6, <2>7, <2>8, <2>9, <2>10 DEF Bookkeeping
<1> QED
  BY <1>2, <1>3

LEMMA GatherKeeps ==
  ASSUME TypeOK, Bookkeeping, NEW e \in Executors, NEW sides, Gather(e, sides)
  PROVE  Bookkeeping'
<1>1. UNCHANGED <<sweep, batch, tagged>>
  BY DEF Gather
<1>2. CASE UNCHANGED exec
  BY <1>1, <1>2, QuietStep
<1>3. CASE ~UNCHANGED exec
  <2> DEFINE new == [Idle EXCEPT !.pc = "classify", !.sweep = sweep.id, !.filter = filter,
                                 !.sides = sides,
                                 !.made = sides \ sideTags, !.ready = Processable(sweep.id)]
  <2>1. Step(e, new)
    BY <1>3 DEF Gather
  <2>2. /\ exec'[e].pc = "classify" /\ exec'[e].ready = Processable(sweep.id)
        /\ \A f \in Executors : f # e => exec'[f] = exec[f]
    <3>1. new.pc = "classify" /\ new.ready = Processable(sweep.id)
      BY DEF Idle
    <3> HIDE DEF new
    <3> QED
      BY <2>1, <3>1, StepChanges
  <2>3. AnswersAreThere'
    <3>1. \A b \in Processable(sweep.id) : batch'[b].status # "pending"
      BY <1>1 DEF Processable
    <3> QED
      BY <1>1, <2>2, <3>1 DEF Bookkeeping, AnswersAreThere, Executors
  <2>4. BatchesOfSweep' /\ NoneIsFree' /\ RecordedMeansApplied'
    BY <1>1 DEF Bookkeeping, BatchesOfSweep, NoneIsFree, NoBatch, RecordedMeansApplied, Linked
  <2>5. VerdictsGathered' /\ CommitsApart'
    BY <1>1, <2>2
       DEF Bookkeeping, VerdictsGathered, CommitsApart, Deleting, Executors, Positive
  <2>6. DeletionsCover'
    BY <1>1, <2>2 DEF Bookkeeping, DeletionsCover, Deleting, Executors, Linked, Positive
  <2> QED
    BY <2>3, <2>4, <2>5, <2>6 DEF Bookkeeping
<1> QED
  BY <1>2, <1>3

LEMMA ClassifyKeeps ==
  ASSUME TypeOK, Bookkeeping, NEW e \in Executors, Classify(e)
  PROVE  Bookkeeping'
<1> DEFINE t == exec[e]
           adds == [c \in Cards |-> UNION {Classified(t.sides, b, c) : b \in t.ready}]
           new == [t EXCEPT !.pc = "apply", !.adds = adds]
<1>1. /\ Step(e, new) /\ t.pc = "classify" /\ t \in Transaction
      /\ UNCHANGED <<sweep, batch, tagged>>
  BY DEF Classify, TypeOK
<1>2. new.pc = "apply" /\ new.ready = t.ready /\ new.adds = adds
  BY <1>1 DEF Transaction
<1>3. /\ exec'[e].pc = "apply" /\ exec'[e].ready = t.ready /\ exec'[e].adds = adds
      /\ \A f \in Executors : f # e => exec'[f] = exec[f]
  <2> HIDE DEF new, adds
  <2> QED
    BY <1>1, <1>2, StepChanges
<1>4. \A b \in t.ready : b \in Batches /\ \A c \in Positive(b) : "main" \in adds[c]
  BY <1>1 DEF Positive, Classified, TypeOK, BatchRow, Transaction
<1> HIDE DEF adds
<1>5. AnswersAreThere' /\ VerdictsGathered'
  BY <1>1, <1>3, <1>4
     DEF Bookkeeping, AnswersAreThere, VerdictsGathered, Executors, Positive
<1>6. BatchesOfSweep' /\ NoneIsFree' /\ RecordedMeansApplied'
  BY <1>1 DEF Bookkeeping, BatchesOfSweep, NoneIsFree, NoBatch, RecordedMeansApplied, Linked
<1>7. CommitsApart'
  BY <1>3 DEF Bookkeeping, CommitsApart, Deleting, Executors
<1>8. DeletionsCover'
  BY <1>1, <1>3 DEF Bookkeeping, DeletionsCover, Deleting, Executors, Linked, Positive
<1> QED
  BY <1>5, <1>6, <1>7, <1>8 DEF Bookkeeping

(* Here a run waits for deletions that hold a row it needs.                  *)
LEMMA ApplyKeeps ==
  ASSUME TypeOK, Bookkeeping, NEW e \in Executors, Apply(e)
  PROVE  Bookkeeping'
<1> DEFINE t == exec[e]
           marked == {b \in t.ready : batch[b].status # "none"}
           adds == [c \in Cards |-> t.adds[c] \cap ({"main"} \cup sideTags \cup t.made)]
           complete == Complete(t.sweep, marked, t.filter)
           new == [t EXCEPT !.pc = "commit", !.ready = marked, !.adds = adds,
                            !.closes = complete,
                            !.epoch = IF complete THEN {c \in Cards : catalog[c] # "unknown"}
                                      ELSE {}]
<1>1. t.pc = "apply" /\ t \in Transaction /\ UNCHANGED <<sweep, batch, tagged>>
  BY DEF Apply, TypeOK
<1>2. CASE Step(e, Idle)
  BY <1>1, <1>2, QuietExecStep DEF Idle, Working
<1>3. CASE /\ Step(e, new)
           /\ \A o \in Deleting : /\ exec[o].ready \cap marked = {}
                                 /\ \A c \in Cards : adds[c] \cap exec[o].adds[c] = {}
  <2>1. new.pc = "commit" /\ new.ready = marked /\ new.adds = adds
    <3> HIDE DEF marked, adds, complete
    <3> QED
      BY <1>1 DEF Transaction
  <2>2. \A b \in marked : b \in t.ready
    OBVIOUS
  <2>3. \A c \in Cards : "main" \in t.adds[c] => "main" \in adds[c]
    OBVIOUS
  <2> HIDE DEF marked, adds, complete, new
  <2>4. /\ exec'[e].pc = "commit" /\ exec'[e].ready = marked /\ exec'[e].adds = adds
        /\ \A f \in Executors : f # e => exec'[f] = exec[f]
    BY <1>3, <2>1, StepChanges
  <2>5. AnswersAreThere'
    BY <1>1, <2>2, <2>4 DEF Bookkeeping, AnswersAreThere, Executors
  <2>6. VerdictsGathered'
    <3>1. \A b \in t.ready : Positive(b) \subseteq Cards
      BY <1>1 DEF Positive, TypeOK, BatchRow, Transaction
    <3> QED
      BY <1>1, <2>2, <2>3, <2>4, <3>1 DEF Bookkeeping, VerdictsGathered, Executors, Positive
  <2>7. BatchesOfSweep' /\ NoneIsFree' /\ RecordedMeansApplied'
    BY <1>1 DEF Bookkeeping, BatchesOfSweep, NoneIsFree, NoBatch, RecordedMeansApplied, Linked
  <2>8. CommitsApart'
    BY <1>1, <1>3, <2>4 DEF Bookkeeping, CommitsApart, Deleting, Executors
  <2>9. DeletionsCover'
    BY <1>1, <2>4 DEF Bookkeeping, DeletionsCover, Deleting, Executors, Linked, Positive
  <2> QED
    BY <2>5, <2>6, <2>7, <2>8, <2>9 DEF Bookkeeping
<1>4. \/ Step(e, Idle)
      \/ /\ \A o \in Deleting :
              /\ exec[o].ready \cap marked = {}
              /\ \A c \in Cards : adds[c] \cap (exec[o].adds[c] \cup exec[o].sides) = {}
         /\ Step(e, new)
  BY DEF Apply
<1> HIDE DEF marked, adds, new
<1> QED
  BY <1>2, <1>3, <1>4

(* The commit: what it marks it has applied, and no deletion under way takes *)
(* it back.                                                                  *)
LEMMA CommitKeeps ==
  ASSUME TypeOK, Bookkeeping, NEW e \in Executors, Commit(e)
  PROVE  Bookkeeping'
<1> DEFINE t == exec[e]
<1>1. /\ t.pc = "commit" /\ t \in Transaction /\ t.ready \subseteq Batches
      /\ Step(e, Idle) /\ sweep'.id = sweep.id
  BY DEF Commit, TypeOK, Transaction, Closed, SweepRow
<1>2. CASE UNCHANGED <<batch, tagged>>
  BY <1>1, <1>2, QuietExecStep DEF Idle, Working
<1>3. CASE /\ batch' = [b \in Batches |-> IF b \in t.ready THEN Processed(batch[b])
                                          ELSE batch[b]]
           /\ tagged' = [c \in Cards |-> tagged[c] \cup t.adds[c]]
  <2>1. /\ exec'[e].pc = "idle"
        /\ \A f \in Executors : f # e => exec'[f] = exec[f]
    BY <1>1, StepChanges DEF Idle
  <2>2. \A b \in Batches :
          /\ batch'[b].cards = batch[b].cards /\ batch'[b].verdict = batch[b].verdict
          /\ batch'[b].sweep = batch[b].sweep
          /\ batch[b].cards \subseteq Cards
    BY <1>3, ProcessedKeeps DEF TypeOK, BatchRow
  <2>3. \A b \in t.ready :
          /\ batch'[b].status = "processed"
          /\ batch'[b].failed = {c \in batch[b].cards : batch[b].verdict[c] = "failed"}
    <3>1. ASSUME NEW row \in BatchRow
          PROVE  /\ Processed(row).status = "processed"
                 /\ Processed(row).failed = {c \in row.cards : row.verdict[c] = "failed"}
      BY DEF Processed, BatchRow
    <3> HIDE DEF Processed
    <3>2. \A b \in t.ready : batch[b] \in BatchRow /\ batch'[b] = Processed(batch[b])
      BY <1>1, <1>3 DEF TypeOK
    <3> QED
      BY <3>1, <3>2
  <2>4. \A b \in Batches \ t.ready : batch'[b] = batch[b]
    BY <1>3
  <2>5. \A c \in Cards : tagged'[c] = tagged[c] \cup t.adds[c]
    BY <1>3
  <2>6. BatchesOfSweep' /\ NoneIsFree'
    <3>1. NoBatch' = NoBatch
      BY DEF NoBatch
    <3> QED
      BY <1>1, <2>2, <2>3, <2>4, <3>1 DEF Bookkeeping, BatchesOfSweep, NoneIsFree
  <2>7. \A f \in Executors : exec[f].ready \subseteq Batches
    BY DEF TypeOK, Transaction
  <2>8. AnswersAreThere'
    BY <2>1, <2>3, <2>4, <2>7 DEF Bookkeeping, AnswersAreThere, Executors
  <2>9. \A b \in Batches : batch[b].status = "none" => Positive(b) = {}
    BY DEF Bookkeeping, NoneIsFree, NoBatch, Positive
  <2>10. \A b \in Batches : Positive(b)' = Positive(b)
    BY <2>2 DEF Positive
  <2>11. VerdictsGathered'
    <3>1. \A f \in Executors : exec[f].pc \in {"apply", "commit"} =>
            \A b \in exec[f].ready : \A c \in Positive(b) : "main" \in exec[f].adds[c]
      BY <2>7, <2>9 DEF Bookkeeping, VerdictsGathered
    <3> QED
      BY <2>1, <2>7, <2>10, <3>1 DEF VerdictsGathered, Executors
  <2>12. CommitsApart'
    BY <2>1 DEF Bookkeeping, CommitsApart, Deleting, Executors
  <2>13. \A b \in t.ready : \A c \in Positive(b) : "main" \in t.adds[c]
    BY <1>1, <2>9 DEF Bookkeeping, VerdictsGathered
  <2>14. \A b \in Batches : b \in Linked(sweep.id)' =>
           b \in Linked(sweep.id) \/ (b \in t.ready /\ Positive(b) = {})
    BY <1>1, <2>2, <2>4, <2>9 DEF Linked
  <2>15. DeletionsCover'
    <3> SUFFICES ASSUME NEW o \in Deleting', NEW b \in Linked(sweep.id)', b \notin exec'[o].ready,
                        batch'[b].status = "processed", NEW c \in Positive(b)'
                 PROVE  "main" \notin exec'[o].adds[c]
      BY DEF DeletionsCover
    <3>1. b \in Batches /\ c \in Positive(b) /\ b \in Linked(sweep.id) /\ c \in Cards
      BY <2>2, <2>10, <2>14 DEF Linked, Positive
    <3>2. o \in Deleting /\ exec'[o] = exec[o]
      BY <2>1 DEF Deleting, Executors
    <3>3. CASE b \in t.ready
      BY <1>1, <2>13, <3>1, <3>2, <3>3 DEF Bookkeeping, CommitsApart
    <3>4. CASE b \notin t.ready
      BY <2>4, <3>1, <3>2, <3>4 DEF Bookkeeping, DeletionsCover
    <3> QED
      BY <3>3, <3>4
  <2>16. RecordedMeansApplied'
    <3> SUFFICES ASSUME NEW b \in Linked(sweep.id)', batch'[b].status = "processed",
                        NEW c \in batch'[b].cards
                 PROVE  /\ batch'[b].verdict[c] = "main" => "main" \in tagged'[c]
                        /\ batch'[b].verdict[c] = "failed" <=> c \in batch'[b].failed
      BY DEF RecordedMeansApplied
    <3>1. b \in Batches /\ c \in batch[b].cards /\ c \in Cards
      BY <2>2 DEF Linked
    <3>2. CASE b \in t.ready
      BY <2>2, <2>3, <2>5, <2>13, <3>1, <3>2 DEF Positive
    <3>3. CASE b \notin t.ready
      BY <2>4, <2>5, <2>14, <3>1, <3>3 DEF Bookkeeping, RecordedMeansApplied
    <3> QED
      BY <3>2, <3>3
  <2> QED
    BY <2>6, <2>8, <2>11, <2>12, <2>15, <2>16 DEF Bookkeeping
<1> QED
  BY <1>2, <1>3 DEF Commit

(* A deletion of main tags also takes the tag's batches, and waits for runs  *)
(* that are about to commit some.                                            *)
LEMMA NewDeletion ==
  ASSUME TypeOK, Bookkeeping, Unlocked, NEW o \in Executors, NEW new, Step(o, new),
         UNCHANGED <<sweep, batch, tagged>>,
         new.pc \in {"delete", "delete_first"},
         \/ new.ready = Linked(sweep.id)
         \/ \A c \in Cards : "main" \notin new.adds[c]
  PROVE  Bookkeeping'
<1>1. exec'[o] = new /\ \A f \in Executors : f # o => exec'[f] = exec[f]
  BY StepChanges
<1>2. ASSUME NEW f \in Executors, exec'[f].pc = "commit" PROVE exec'[f].ready = {}
  <2>1. f # o /\ exec'[f] = exec[f]
    BY <1>1, <1>2
  <2> QED
    BY <1>2, <2>1 DEF Unlocked
<1>3. BatchesOfSweep' /\ NoneIsFree' /\ RecordedMeansApplied'
  <2>1. NoBatch' = NoBatch
    BY DEF NoBatch
  <2>2. Linked(sweep.id)' = Linked(sweep.id)
    BY DEF Linked
  <2> QED
    BY <2>1, <2>2 DEF Bookkeeping, BatchesOfSweep, NoneIsFree, RecordedMeansApplied
<1>4. AnswersAreThere' /\ VerdictsGathered'
  BY <1>1 DEF Bookkeeping, AnswersAreThere, VerdictsGathered, Executors, Positive
<1>5. CommitsApart'
  BY <1>2 DEF CommitsApart, Executors
<1>6. DeletionsCover'
  <2>1. \A b \in Batches : Positive(b)' = Positive(b) /\ Positive(b) \subseteq Cards
    BY DEF Positive, TypeOK, BatchRow
  <2>2. Linked(sweep.id)' = Linked(sweep.id) /\ Linked(sweep.id) \subseteq Batches
    BY DEF Linked
  <2>3. \A f \in Deleting' : f = o \/ (f \in Deleting /\ exec'[f] = exec[f])
    BY <1>1 DEF Deleting, Executors
  <2> QED
    BY <1>1, <2>1, <2>2, <2>3 DEF Bookkeeping, DeletionsCover
<1> QED
  BY <1>3, <1>4, <1>5, <1>6 DEF Bookkeeping

LEMMA BeginDeleteKeeps ==
  ASSUME TypeOK, Bookkeeping, NEW o \in Executors, NEW place \in {"delete", "delete_first"},
         NEW tags, NEW history \in BOOLEAN, NEW open \in BOOLEAN, "main" \in tags => history,
         BeginDelete(o, place, tags, history, open)
  PROVE  Bookkeeping'
<1> DEFINE row == open /\ sweep.status = "open"
           new == [Idle EXCEPT !.pc = place,
                               !.sweep = IF row THEN sweep.id ELSE NoSweep,
                               !.ready = IF history \/ row THEN Linked(sweep.id) ELSE {},
                               !.adds = [c \in Cards |-> tagged[c] \cap tags],
                               !.sides = tags \cap SideTags,
                               !.resets = history]
<1>1. Step(o, new) /\ Unlocked /\ UNCHANGED <<sweep, batch, tagged>>
  BY DEF BeginDelete
<1>2. /\ new.pc = place
      /\ history => new.ready = Linked(sweep.id)
      /\ new.adds = [c \in Cards |-> tagged[c] \cap tags]
  BY DEF Idle
<1>3. \/ new.ready = Linked(sweep.id)
      \/ \A c \in Cards : "main" \notin new.adds[c]
  <2> HIDE DEF new
  <2> QED
    BY <1>2
<1> HIDE DEF new
<1> QED
  BY <1>1, <1>2, <1>3, NewDeletion

LEMMA DropKeeps ==
  ASSUME TypeOK, Bookkeeping, NEW o \in Shells, DropOpenSweep(o)
  PROVE  Bookkeeping'
<1> DEFINE new == [Idle EXCEPT
                     !.pc = "delete",
                     !.sweep = IF sweep.status = "open" THEN sweep.id ELSE NoSweep,
                     !.ready = IF sweep.status = "open" THEN Linked(sweep.id) ELSE {}]
<1>1. /\ Step(o, new) /\ Unlocked /\ UNCHANGED <<sweep, batch, tagged>>
      /\ o \in Executors
  BY DEF DropOpenSweep, Executors
<1>2. new.pc = "delete" /\ \A c \in Cards : new.adds[c] = {}
  BY DEF Idle
<1> HIDE DEF new
<1> QED
  BY <1>1, <1>2, NewDeletion

LEMMA EndDeleteKeeps ==
  ASSUME TypeOK, Bookkeeping, NEW o \in Shells \cup Servers, EndDelete(o)
  PROVE  Bookkeeping'
<1> DEFINE t == exec[o]
<1>1. /\ o \in Executors /\ o \in Deleting
      /\ batch' = [b \in Batches |-> Deleted(t, b)]
      /\ sweep' = IF t.sweep # NoSweep /\ sweep.id = t.sweep THEN NoRow
                  ELSE IF t.resets THEN [sweep EXCEPT !.epoch = {}]
                  ELSE sweep
      /\ tagged' = [c \in Cards |-> tagged[c] \ (t.adds[c] \cup t.sides)]
  BY DEF EndDelete, Deleting, Executors
<1>2. /\ exec'[o].pc \notin Working
      /\ \A f \in Executors : f # o => exec'[f] = exec[f]
  <2>1. CASE Step(o, [Idle EXCEPT !.pc = "drop"])
    <3>1. [Idle EXCEPT !.pc = "drop"].pc = "drop"
      BY DEF Idle
    <3> QED
      BY <1>1, <2>1, <3>1, StepChanges DEF Working
  <2>2. CASE Step(o, Idle)
    BY <1>1, <2>2, StepChanges DEF Idle, Working
  <2> QED
    BY <2>1, <2>2 DEF EndDelete
<1>3. \/ sweep'.id = sweep.id
      \/ sweep'.id = NoSweep /\ t.sweep = sweep.id /\ sweep.id # NoSweep
  BY <1>1 DEF NoRow, TypeOK, SweepRow
<1>4. t.ready \subseteq Batches /\ "main" \notin t.sides
  BY <1>1 DEF TypeOK, Transaction, SideTags
(* What becomes of a row: gone, without a link, or as it was.                *)
<1>5. \A b \in Batches :
        \/ batch'[b] = NoBatch
        \/ /\ b \notin t.ready /\ b \in Linked(t.sweep)
           /\ batch'[b] = [batch[b] EXCEPT !.sweep = NoSweep]
        \/ b \notin t.ready /\ b \notin Linked(t.sweep) /\ batch'[b] = batch[b]
  BY <1>1 DEF Deleted
<1>6. NoBatch' = NoBatch /\ NoBatch.sweep = NoSweep /\ NoBatch.status = "none"
  BY DEF NoBatch
<1>7. \A b \in Batches :
        \/ batch'[b] = NoBatch
        \/ /\ batch'[b].status = batch[b].status /\ batch'[b].cards = batch[b].cards
           /\ batch'[b].verdict = batch[b].verdict /\ batch'[b].failed = batch[b].failed
           /\ batch'[b].sweep \in {batch[b].sweep, NoSweep}
           /\ b \notin t.ready
           /\ b \in Linked(t.sweep) => batch'[b].sweep = NoSweep
  BY <1>5 DEF TypeOK, BatchRow
<1>8. BatchesOfSweep'
  <2>1. \A b \in Batches : sweep.id = t.sweep /\ batch[b].sweep # NoSweep =>
                           b \in Linked(t.sweep)
    BY <1>6 DEF Bookkeeping, BatchesOfSweep, NoneIsFree, Linked
  <2> QED
    BY <1>3, <1>6, <1>7, <2>1 DEF Bookkeeping, BatchesOfSweep
<1>9. NoneIsFree'
  BY <1>5, <1>6, <1>7 DEF Bookkeeping, NoneIsFree, Linked
<1>10. AnswersAreThere'
  <2>1. \A f \in Executors : exec[f].ready \subseteq Batches
    BY DEF TypeOK, Transaction
  <2> QED
    BY <1>2, <1>6, <1>7, <2>1 DEF Bookkeeping, AnswersAreThere, Executors, Working
<1>11. \A b \in Batches : batch'[b].status # "none" => Positive(b)' = Positive(b)
  BY <1>6, <1>7 DEF Positive
<1>12. VerdictsGathered'
  <2>1. \A f \in Executors : exec[f].ready \subseteq Batches
    BY DEF TypeOK, Transaction
  <2> QED
    BY <1>2, <1>6, <1>7, <1>11, <2>1 DEF Bookkeeping, VerdictsGathered, Executors, Working
<1>13. CommitsApart'
  BY <1>2 DEF Bookkeeping, CommitsApart, Deleting, Executors, Working
<1>14. \A b \in Linked(sweep.id)' :
         /\ b \in Linked(sweep.id) /\ b \in Batches /\ b \notin t.ready
         /\ batch'[b].status = batch[b].status /\ batch'[b].cards = batch[b].cards
         /\ batch'[b].verdict = batch[b].verdict /\ batch'[b].failed = batch[b].failed
         /\ Positive(b)' = Positive(b)
  BY <1>3, <1>6, <1>7, <1>11 DEF Linked
<1>15. DeletionsCover'
  BY <1>2, <1>14 DEF Bookkeeping, DeletionsCover, Deleting, Executors, Working
<1>16. RecordedMeansApplied'
  <2> SUFFICES ASSUME NEW b \in Linked(sweep.id)', batch'[b].status = "processed",
                      NEW c \in batch'[b].cards
               PROVE  /\ batch'[b].verdict[c] = "main" => "main" \in tagged'[c]
                      /\ batch'[b].verdict[c] = "failed" <=> c \in batch'[b].failed
    BY DEF RecordedMeansApplied
  <2>1. /\ batch[b].verdict[c] = "main" => "main" \in tagged[c]
        /\ batch[b].verdict[c] = "failed" <=> c \in batch[b].failed
    BY <1>14 DEF Bookkeeping, RecordedMeansApplied
  <2>2. ASSUME batch[b].verdict[c] = "main" PROVE "main" \notin t.adds[c]
    BY <1>1, <1>14, <2>2 DEF Bookkeeping, DeletionsCover, Positive
  <2>3. c \in Cards
    BY <1>14 DEF TypeOK, BatchRow
  <2> QED
    BY <1>1, <1>4, <1>14, <2>1, <2>2, <2>3
<1> QED
  BY <1>8, <1>9, <1>10, <1>12, <1>13, <1>15, <1>16 DEF Bookkeeping

LEMMA BookkeepingInit == Init => Bookkeeping
<1> SUFFICES ASSUME Init PROVE Bookkeeping
  OBVIOUS
<1>1. /\ \A b \in Batches : batch[b] = NoBatch
      /\ \A e \in Executors : exec[e].pc = "idle"
  BY DEF Init, Idle
<1>2. NoBatch.sweep = NoSweep /\ NoBatch.status = "none"
  BY DEF NoBatch
<1>3. BatchesOfSweep /\ NoneIsFree
  BY <1>1, <1>2 DEF BatchesOfSweep, NoneIsFree
<1>4. AnswersAreThere /\ VerdictsGathered /\ CommitsApart /\ DeletionsCover
  BY <1>1 DEF AnswersAreThere, VerdictsGathered, CommitsApart, DeletionsCover, Deleting, Executors
<1>5. RecordedMeansApplied
  BY <1>1, <1>2 DEF RecordedMeansApplied, Linked
<1> QED
  BY <1>3, <1>4, <1>5 DEF Bookkeeping

LEMMA BookkeepingNext == TypeOK /\ Bookkeeping /\ [Next]_vars => Bookkeeping'
<1> SUFFICES ASSUME TypeOK, Bookkeeping, [Next]_vars PROVE Bookkeeping'
  OBVIOUS
<1> USE DEF Executors
<1>1. CASE Kickoff \/ KickoffFailed \/ Prune \/ CatchUp
  BY <1>1, RequestKeeps
<1>2. CASE \E b \in Batches : BatchEnds(b)
  BY <1>2, BatchEndsKeeps
<1>3. ASSUME NEW e \in Executors, Finish(e) \/ Load(e) PROVE Bookkeeping'
  <2>1. CASE Load(e) \/ LoadCommit(e)
    <3>1. UNCHANGED <<sweep, batch, tagged>>
      BY <2>1 DEF Load, LoadCommit
    <3>2. PICK new : Step(e, new) /\ new.pc \notin Working
      <4>1. \A cards : [Idle EXCEPT !.pc = "load", !.cards = cards].pc = "load"
        BY DEF Idle
      <4>2. Idle.pc = "idle"
        BY DEF Idle
      <4> QED
        BY <2>1, <4>1, <4>2 DEF Load, LoadCommit, Working
    <3> QED
      BY <3>1, <3>2, QuietExecStep
  <2> QED
    BY <1>3, <2>1, ClassifyKeeps, ApplyKeeps, CommitKeeps DEF Finish
<1>4. ASSUME NEW w \in Workers, Receive(w) \/ MaterializeRead(w) \/ Ack(w) PROVE Bookkeeping'
  <2>1. UNCHANGED <<sweep, batch, tagged>>
    BY <1>4 DEF Receive, MaterializeRead, Ack
  <2>2. PICK new : Step(w, new) /\ new.pc \notin Working
    <3>1. exec[w] \in Transaction
      BY DEF TypeOK
    <3>2. \A cards : [exec[w] EXCEPT !.pc = "write", !.cards = cards].pc = "write"
      BY <3>1 DEF Transaction
    <3>3. \A m : [Idle EXCEPT !.pc = "read", !.msg = m].pc = "read"
      BY DEF Idle
    <3>4. Done(w).pc \in {"idle", "ack"} /\ Idle.pc = "idle"
      BY DEF Done, Idle
    <3> HIDE DEF Done, Idle
    <3> QED
      BY <1>4, <3>2, <3>3, <3>4 DEF Receive, MaterializeRead, Ack, Working
  <2> QED
    BY <2>1, <2>2, QuietExecStep
<1>5. ASSUME NEW w \in Workers, Receive(w) \/ Run(w) \/ ProcessTask(w) \/ Load(w)
      PROVE  Bookkeeping'
  BY <1>3, <1>4, <1>5, MaterializeKeeps, GatherKeeps DEF Run, ProcessTask
<1>6. ASSUME NEW o \in Shells \cup Servers,
             ProcessCli(o) \/ Finish(o) \/ Load(o) \/ DropOpenSweep(o) \/ EndDelete(o),
             o \in Servers => EndDelete(o)
      PROVE  Bookkeeping'
  BY <1>3, <1>6, GatherKeeps, DropKeeps, EndDeleteKeeps DEF ProcessCli
<1>7. ASSUME NEW o \in Shells \cup Servers, CleanReset(o) \/ ApplyAudit(o) \/ ApplyAuditCli(o)
      PROVE  Bookkeeping'
  <2>1. CASE CleanReset(o)
    BY <2>1, BeginDeleteKeeps DEF CleanReset
  <2>2. CASE ApplyAudit(o)
    <3>1. PICK tags : BeginDelete(o, "delete", tags, "main" \in tags, TRUE)
      BY <2>2 DEF ApplyAudit
    <3>2. ("main" \in tags) \in BOOLEAN
      OBVIOUS
    <3> QED
      BY <3>1, <3>2, BeginDeleteKeeps
  <2>3. CASE ApplyAuditCli(o)
    <3>1. PICK tags : BeginDelete(o, IF "main" \in tags THEN "delete_first" ELSE "delete",
                                  tags, "main" \in tags, FALSE)
      BY <2>3 DEF ApplyAuditCli
    <3>2. ("main" \in tags) \in BOOLEAN
      OBVIOUS
    <3> QED
      BY <3>1, <3>2, BeginDeleteKeeps
  <2> QED
    BY <1>7, <2>1, <2>2, <2>3
<1>8. ASSUME NEW e \in Executors, Crash(e) PROVE Bookkeeping'
  <2>1. UNCHANGED <<batch, tagged>> /\ sweep'.id = sweep.id
    BY <1>8 DEF Crash, TypeOK, SweepRow
  <2>2. \A f \in Executors :
          \/ exec'[f].pc \notin Working
          \/ /\ exec'[f].pc = exec[f].pc
             /\ exec'[f].ready = exec[f].ready
             /\ exec'[f].adds = exec[f].adds
    BY <1>8 DEF Crash, TypeOK, Transaction, Idle, Working
  <2> QED
    BY <2>1, <2>2, QuietStep
<1>9. CASE UNCHANGED vars
  BY <1>9, QuietStep DEF vars
<1>10. CASE UpdateTag
  BY <1>10, QuietStep DEF UpdateTag
<1> QED
  BY <1>1, <1>2, <1>5, <1>6, <1>7, <1>8, <1>9, <1>10 DEF Next

(* However many workers, shells and servers run, crash and overlap: a batch  *)
(* on record as processed has its main verdicts in `card_tags` and its       *)
(* missing verdicts flagged.                                                 *)
THEOREM RecordIsSound == Spec => []RecordedMeansApplied
<1>1. Init => TypeOK /\ Bookkeeping
  BY TypeInit, BookkeepingInit
<1>2. TypeOK /\ Bookkeeping /\ [Next]_vars => (TypeOK /\ Bookkeeping)'
  BY TypeNext, BookkeepingNext
<1>3. Bookkeeping => RecordedMeansApplied
  BY DEF Bookkeeping
<1> QED
  BY <1>1, <1>2, <1>3, PTL DEF Spec

--------------------------------------------------------------------------------
(* With one worker and no shell, a complete sweep has nothing left to        *)
(* process.  A worker that is about to insert batches does so for an open    *)
(* sweep, and one that is about to close a sweep has marked all its batches: *)
(* nothing else can come between.  (With two workers this is false: see the  *)
(* README on sweep_late_batch.)                                              *)

Settled(w) ==
  /\ exec[w].pc \in {"read", "write"} => exec[w].msg # NoMessage
  /\ exec[w].pc = "write" /\ sweep.id = exec[w].msg.sweep => sweep.status = "open"
  /\ exec[w].pc = "commit" /\ exec[w].closes /\ sweep.id = exec[w].sweep =>
       \A b \in Linked(sweep.id) : b \in exec[w].ready \/ batch[b].status = "processed"

OneRun == CompleteMeansDone /\ \A w \in Workers : Settled(w)

OneWorker == Shells = {} /\ \A v, w \in Workers : v = w

(* Steps that add no batch to the sweep and do not close it.                 *)
LEMMA OneRunFrame ==
  ASSUME TypeOK, Bookkeeping, OneRun,
         sweep'.status = "complete" => sweep.status = "complete",
         sweep'.id = sweep.id => sweep'.status \in {sweep.status, "open"},
         sweep'.id # sweep.id => sweep'.id = NoSweep \/ sweep'.status = "open",
         \A b \in Linked(sweep.id)' :
           /\ sweep'.id = sweep.id /\ b \in Linked(sweep.id)
           /\ \/ batch'[b].status = batch[b].status
              \/ batch[b].status = "pending"
              \/ batch'[b].status = "processed",
         \A w \in Workers :
           \/ Settled(w)'
           \/ /\ exec'[w].pc = exec[w].pc /\ exec'[w].msg = exec[w].msg
              /\ exec'[w].sweep = exec[w].sweep /\ exec'[w].ready = exec[w].ready
              /\ exec'[w].closes = exec[w].closes
  PROVE  OneRun'
<1>1. CompleteMeansDone'
  BY DEF OneRun, CompleteMeansDone
<1>2. ASSUME NEW w \in Workers, ~Settled(w)' PROVE FALSE
  <2>1. Settled(w) /\ w \in Executors
    BY DEF OneRun, Executors
  <2>2. /\ exec'[w].pc = exec[w].pc /\ exec'[w].msg = exec[w].msg
        /\ exec'[w].sweep = exec[w].sweep /\ exec'[w].ready = exec[w].ready
        /\ exec'[w].closes = exec[w].closes
    BY <1>2
  <2>3. NoMessage' = NoMessage
    BY DEF NoMessage
  <2>4. exec'[w].pc \in {"read", "write"} => exec'[w].msg # NoMessage'
    BY <2>1, <2>2, <2>3 DEF Settled
  <2>5. exec'[w].pc = "write" /\ sweep'.id = exec'[w].msg.sweep => sweep'.status = "open"
    <3>1. exec[w].msg # NoMessage => exec[w].msg.sweep # NoSweep
      BY <2>1 DEF TypeOK, Transaction, Materialization
    <3> QED
      BY <2>1, <2>2, <3>1 DEF Settled
  <2>6. ASSUME exec'[w].pc = "commit", exec'[w].closes, sweep'.id = exec'[w].sweep,
               NEW b \in Linked(sweep.id)'
        PROVE  b \in exec'[w].ready \/ batch'[b].status = "processed"
    <3>1. b \in exec[w].ready \/ batch[b].status = "processed"
      BY <2>1, <2>2, <2>6 DEF Settled
    <3>2. b \in exec[w].ready => batch[b].status # "pending"
      BY <2>1, <2>2, <2>6 DEF Bookkeeping, AnswersAreThere
    <3> QED
      BY <2>2, <3>1, <3>2
  <2> QED
    BY <1>2, <2>4, <2>5, <2>6 DEF Settled
<1> QED
  BY <1>1, <1>2 DEF OneRun

LEMMA OneRunRequest ==
  ASSUME TypeOK, Bookkeeping, OneRun, Kickoff \/ KickoffFailed \/ Prune \/ CatchUp
  PROVE  OneRun'
<1>1. UNCHANGED exec
  BY DEF Kickoff, KickoffFailed, Prune, CatchUp
<1>2. ASSUME NEW sides \in SUBSET SideTags, OpenSweep(sides)
      PROVE  /\ sweep'.status = "open"
             /\ sweep'.id = sweep.id \/ (sweep.id = NoSweep /\ sweep'.id \in Sweeps)
  <2>1. CASE sweep' = [Reopened(sweep) EXCEPT !.sides = sides]
    BY <2>1 DEF Reopened, TypeOK, SweepRow
  <2>2. CASE /\ sweep.id = NoSweep
             /\ \E s \in Sweeps :
                  sweep' = [id |-> s, status |-> "open", epoch |-> {}, sides |-> sides]
    BY <2>2
  <2> QED
    BY <1>2, <2>1, <2>2 DEF OpenSweep
<1>3. Options \subseteq SUBSET SideTags
  BY DEF Options
<1>4. \/ UNCHANGED sweep
      \/ /\ sweep'.status = "open"
         /\ sweep'.id = sweep.id \/ (sweep.id = NoSweep /\ sweep'.id \in Sweeps)
  BY <1>2, <1>3 DEF Kickoff, KickoffFailed, Prune, CatchUp
<1>5. UNCHANGED batch \/ (PruneHistory /\ sweep'.id = sweep.id)
  <2>1. CASE CatchUp
    BY <2>1, <1>2 DEF CatchUp
  <2> QED
    BY <2>1 DEF Kickoff, KickoffFailed, Prune
<1>6. \A b \in Linked(sweep.id)' :
        sweep'.id = sweep.id /\ b \in Linked(sweep.id) /\ batch'[b].status = batch[b].status
  <2>1. CASE UNCHANGED batch
    BY <1>4, <2>1 DEF Linked, Bookkeeping, BatchesOfSweep
  <2>2. CASE PruneHistory /\ sweep'.id = sweep.id
    BY <2>2 DEF PruneHistory, Linked, NoBatch
  <2> QED
    BY <1>5, <2>1, <2>2
<1> QED
  BY <1>1, <1>4, <1>6, OneRunFrame

LEMMA OneRunDelete ==
  ASSUME TypeOK, Bookkeeping, OneRun, NEW v \in Servers,
         CleanReset(v) \/ ApplyAudit(v) \/ EndDelete(v)
  PROVE  OneRun'
<1>1. v \in Executors /\ v \notin Workers
  BY DEF Executors
<1>2. PICK new : Step(v, new)
  BY DEF CleanReset, ApplyAudit, EndDelete, BeginDelete
<1>3. \A w \in Workers : exec'[w] = exec[w]
  BY <1>1, <1>2, StepChanges DEF Executors
<1>4. CASE CleanReset(v) \/ ApplyAudit(v)
  <2>1. UNCHANGED <<sweep, batch>>
    BY <1>4 DEF CleanReset, ApplyAudit, BeginDelete
  <2>2. Linked(sweep.id)' = Linked(sweep.id)
    BY <2>1 DEF Linked
  <2> QED
    BY <1>3, <2>1, <2>2, OneRunFrame
<1>5. CASE EndDelete(v)
  <2> DEFINE t == exec[v]
  <2>1. /\ batch' = [b \in Batches |-> Deleted(t, b)]
        /\ sweep' = IF t.sweep # NoSweep /\ sweep.id = t.sweep THEN NoRow
                    ELSE IF t.resets THEN [sweep EXCEPT !.epoch = {}]
                    ELSE sweep
    BY <1>5 DEF EndDelete
  <2>2. \/ sweep'.id = sweep.id /\ sweep'.status = sweep.status
        \/ sweep'.id = NoSweep /\ sweep'.status = "none" /\ sweep.id # NoSweep
    BY <2>1 DEF NoRow, TypeOK, SweepRow
  <2>3. ASSUME NEW b \in Batches, batch'[b].status # "none", batch'[b].sweep # NoSweep
        PROVE  batch'[b] = batch[b]
    <3>1. NoBatch.status = "none"
      BY DEF NoBatch
    <3>2. [batch[b] EXCEPT !.sweep = NoSweep].sweep = NoSweep
      BY DEF TypeOK, BatchRow
    <3> QED
      BY <2>1, <2>3, <3>1, <3>2 DEF Deleted
  <2>4. ASSUME NEW b \in Linked(sweep.id)'
        PROVE  /\ sweep'.id = sweep.id /\ b \in Linked(sweep.id)
               /\ batch'[b].status = batch[b].status
    <3>1. /\ b \in Batches /\ sweep'.id # NoSweep
          /\ batch'[b].status # "none" /\ batch'[b].sweep = sweep'.id
      BY <2>4 DEF Linked
    <3>2. batch'[b] = batch[b] /\ sweep'.id = sweep.id
      BY <2>2, <2>3, <3>1
    <3> QED
      BY <3>1, <3>2 DEF Linked
  <2> QED
    BY <1>3, <2>2, <2>4, OneRunFrame
<1> QED
  BY <1>4, <1>5

LEMMA OneRunBatchEnds ==
  ASSUME TypeOK, Bookkeeping, OneRun, NEW d \in Batches, BatchEnds(d)
  PROVE  OneRun'
<1>1. PICK answer : batch' = [batch EXCEPT ![d] = Ended(d, answer)]
  BY DEF BatchEnds
<1>2. batch[d] \in BatchRow /\ batch[d].status = "pending" /\ UNCHANGED <<exec, sweep>>
  BY DEF BatchEnds, TypeOK
<1>3. \A b \in Batches : /\ b = d \/ batch'[b] = batch[b]
                         /\ batch'[b].sweep = batch[b].sweep
  BY <1>1, <1>2 DEF TypeOK, Ended, BatchRow
<1>4. \A b \in Linked(sweep.id)' :
        /\ b \in Linked(sweep.id)
        /\ batch'[b].status = batch[b].status \/ batch[b].status = "pending"
  BY <1>2, <1>3 DEF Linked
<1> QED
  BY <1>2, <1>4, OneRunFrame

(* Steps of the worker that write nothing, and those of a load.              *)
LEMMA OneRunSettles ==
  ASSUME TypeOK, Bookkeeping, OneRun, OneWorker, NEW w \in Workers, Settled(w)',
         UNCHANGED <<sweep, batch>>
  PROVE  OneRun'
<1>1. Linked(sweep.id)' = Linked(sweep.id)
  BY DEF Linked
<1>2. \A v \in Workers : v = w
  BY DEF OneWorker
<1> QED
  BY <1>1, <1>2, OneRunFrame

LEMMA OneRunWorker ==
  ASSUME TypeOK, Bookkeeping, OneRun, OneWorker, NEW w \in Workers,
         \/ Receive(w) \/ MaterializeRead(w) \/ Ack(w) \/ Classify(w) \/ Apply(w)
         \/ Load(w) \/ LoadCommit(w) \/ ProcessTask(w)
  PROVE  OneRun'
<1> USE DEF Executors
<1>1. exec[w] \in Transaction
  BY DEF TypeOK
<1>2. UNCHANGED <<sweep, batch>>
  BY DEF Receive, MaterializeRead, Ack, Classify, Apply, Load, LoadCommit, ProcessTask, Gather
<1>3. SUFFICES Settled(w)'
  BY <1>2, OneRunSettles
<1>4. NoMessage' = NoMessage /\ NoMessage \notin Materialization
  BY DEF NoMessage, Materialization
<1>5. ASSUME NEW new, Step(w, new), new.pc \in {"idle", "ack", "classify", "apply", "load"}
      PROVE  Settled(w)'
  BY <1>5, StepChanges DEF Settled
<1>6. CASE Receive(w)
  <2>1. PICK m \in queue : Step(w, [Idle EXCEPT !.pc = "read", !.msg = m])
    BY <1>6 DEF Receive
  <2>2. /\ [Idle EXCEPT !.pc = "read", !.msg = m].pc = "read"
        /\ [Idle EXCEPT !.pc = "read", !.msg = m].msg = m
    BY DEF Idle
  <2>3. m # NoMessage
    BY <1>4 DEF TypeOK
  <2> QED
    BY <1>4, <2>1, <2>2, <2>3, StepChanges DEF Settled
<1>7. CASE MaterializeRead(w)
  <2>1. CASE Step(w, Done(w))
    BY <1>5, <2>1 DEF Done, Idle
  <2>2. CASE RunIsOpen(exec[w].msg) /\ \E cards :
               Step(w, [exec[w] EXCEPT !.pc = "write", !.cards = cards])
    <3>1. PICK cards : Step(w, [exec[w] EXCEPT !.pc = "write", !.cards = cards])
      BY <2>2
    <3>2. /\ [exec[w] EXCEPT !.pc = "write", !.cards = cards].pc = "write"
          /\ [exec[w] EXCEPT !.pc = "write", !.cards = cards].msg = exec[w].msg
      BY <1>1 DEF Transaction
    <3>3. exec[w].msg # NoMessage
      BY <1>7 DEF MaterializeRead, OneRun, Settled
    <3>4. sweep'.status = "open"
      BY <1>2, <2>2 DEF RunIsOpen
    <3> QED
      BY <1>4, <3>1, <3>2, <3>3, <3>4, StepChanges DEF Settled
  <2> QED
    BY <1>7, <2>1, <2>2 DEF MaterializeRead
<1>8. CASE Apply(w)
  <2> DEFINE t == exec[w]
             marked == {b \in t.ready : batch[b].status # "none"}
             adds == [c \in Cards |-> t.adds[c] \cap ({"main"} \cup sideTags \cup t.made)]
             complete == Complete(t.sweep, marked, t.filter)
             new == [t EXCEPT !.pc = "commit", !.ready = marked, !.adds = adds,
                              !.closes = complete,
                              !.epoch = IF complete THEN {c \in Cards : catalog[c] # "unknown"}
                                        ELSE {}]
  <2>1. Step(w, new) \/ Step(w, Idle)
    BY <1>8 DEF Apply
  <2>2. CASE Step(w, Idle)
    BY <1>5, <2>2 DEF Idle
  <2>3. CASE Step(w, new)
    <3>1. /\ new.pc = "commit" /\ new.closes = complete /\ new.sweep = t.sweep
          /\ new.ready = marked
      <4> HIDE DEF marked, adds, complete
      <4> QED
        BY <1>1 DEF Transaction
    <3>2. complete => \A b \in Linked(t.sweep) : b \in marked \/ batch[b].status = "processed"
      BY DEF Complete
    <3>3. Linked(sweep.id)' = Linked(sweep.id)
      BY <1>2 DEF Linked
    <3> HIDE DEF marked, adds, complete, new
    <3> QED
      BY <1>2, <2>3, <3>1, <3>2, <3>3, StepChanges DEF Settled
  <2> QED
    BY <2>1, <2>2, <2>3
<1>9. CASE Ack(w) \/ LoadCommit(w)
  BY <1>5, <1>9 DEF Ack, LoadCommit, Idle
<1>10. CASE Load(w)
  <2>1. \A cards : [Idle EXCEPT !.pc = "load", !.cards = cards].pc = "load"
    BY DEF Idle
  <2> QED
    BY <1>5, <1>10, <2>1 DEF Load
<1>11. CASE Classify(w)
  <2>1. PICK adds : Step(w, [exec[w] EXCEPT !.pc = "apply", !.adds = adds])
    BY <1>11 DEF Classify
  <2>2. [exec[w] EXCEPT !.pc = "apply", !.adds = adds].pc = "apply"
    BY <1>1 DEF Transaction
  <2> QED
    BY <1>5, <2>1, <2>2
<1>12. CASE ProcessTask(w)
  <2>1. CASE UNCHANGED exec
    <3>1. Settled(w) /\ Linked(sweep.id)' = Linked(sweep.id)
      BY <1>2 DEF OneRun, Linked
    <3> QED
      BY <1>2, <1>4, <2>1, <3>1 DEF Settled
  <2>2. CASE ~UNCHANGED exec
    <3> DEFINE new == [Idle EXCEPT !.pc = "classify", !.sweep = sweep.id,
                                   !.filter = filter,
                                   !.sides = sweep.sides, !.made = sweep.sides \ sideTags,
                                   !.ready = Processable(sweep.id)]
    <3>1. Step(w, new)
      BY <1>12, <2>2 DEF ProcessTask, Gather
    <3>2. new.pc = "classify"
      BY DEF Idle
    <3> QED
      BY <1>5, <3>1, <3>2
  <2> QED
    BY <2>1, <2>2
<1> QED
  BY <1>6, <1>7, <1>8, <1>9, <1>10, <1>11, <1>12

LEMMA OneRunWrites ==
  ASSUME TypeOK, Bookkeeping, OneRun, OneWorker, NEW w \in Workers, MaterializeWrite(w)
  PROVE  OneRun'
<1>1. w \in Executors /\ (\A v \in Workers : v = w) /\ UNCHANGED sweep /\ Settled(w)
  BY DEF Executors, OneWorker, OneRun, MaterializeWrite
<1>2. Settled(w)'
  <2>1. Done(w).pc \in {"idle", "ack"} /\ Step(w, Done(w))
    BY DEF Done, Idle, MaterializeWrite
  <2> QED
    BY <1>1, <2>1, StepChanges DEF Settled
<1>3. CASE UNCHANGED batch
  BY <1>1, <1>2, <1>3, OneRunSettles
<1>4. CASE ~UNCHANGED batch
  <2>1. sweep.id = exec[w].msg.sweep /\ exec[w].pc = "write"
    BY <1>4 DEF MaterializeWrite
  <2>2. sweep'.status = "open"
    BY <1>1, <2>1 DEF Settled
  <2> QED
    BY <1>1, <1>2, <2>2 DEF OneRun, CompleteMeansDone
<1> QED
  BY <1>3, <1>4

LEMMA OneRunCommit ==
  ASSUME TypeOK, Bookkeeping, OneRun, OneWorker, NEW w \in Workers, Commit(w)
  PROVE  OneRun'
<1> DEFINE t == exec[w]
<1>1. w \in Executors /\ (\A v \in Workers : v = w) /\ Settled(w)
  BY DEF Executors, OneWorker, OneRun
<1>2. Settled(w)'
  <2>1. Idle.pc = "idle" /\ Step(w, Idle)
    BY DEF Idle, Commit
  <2> QED
    BY <1>1, <2>1, StepChanges DEF Settled
<1>3. CASE UNCHANGED <<sweep, batch>>
  BY <1>1, <1>2, <1>3, OneRunSettles
<1>4. CASE /\ batch' = [b \in Batches |-> IF b \in t.ready THEN Processed(batch[b])
                                          ELSE batch[b]]
           /\ sweep' = Closed(t)
  <2>1. \A b \in t.ready \cap Batches : batch'[b].status = "processed"
    <3>1. ASSUME NEW row \in BatchRow PROVE Processed(row).status = "processed"
      BY DEF Processed, BatchRow
    <3> HIDE DEF Processed
    <3> QED
      BY <1>4, <3>1 DEF TypeOK
  <2>2. /\ sweep'.id = sweep.id
        /\ sweep'.status = "complete" =>
             sweep.status = "complete" \/ (t.closes /\ sweep.id = t.sweep)
    BY <1>4 DEF Closed, TypeOK, SweepRow
  <2>3. ASSUME sweep'.status = "complete", NEW b \in Linked(sweep.id)', b \notin t.ready
        PROVE  batch'[b].status = "processed"
    <3>1. batch'[b] = batch[b]
      BY <1>4, <2>3 DEF Linked
    <3>2. b \in Linked(sweep.id)
      BY <2>2, <2>3, <3>1 DEF Linked
    <3>3. t.pc = "commit"
      BY DEF Commit
    <3> QED
      BY <1>1, <2>2, <2>3, <3>1, <3>2, <3>3 DEF OneRun, CompleteMeansDone, Settled
  <2>4. CompleteMeansDone'
    BY <2>1, <2>3 DEF CompleteMeansDone, Linked
  <2> QED
    BY <1>1, <1>2, <2>4 DEF OneRun
<1> QED
  BY <1>3, <1>4 DEF Commit

LEMMA OneRunCrash ==
  ASSUME TypeOK, Bookkeeping, OneRun, NEW e \in Executors, Crash(e)
  PROVE  OneRun'
<1>1. UNCHANGED batch /\ sweep'.id = sweep.id /\ sweep'.status = sweep.status
  BY DEF Crash, TypeOK, SweepRow
<1>2. Linked(sweep.id)' = Linked(sweep.id)
  BY <1>1 DEF Linked
<1>3. ASSUME NEW w \in Workers
      PROVE  \/ Settled(w)'
             \/ /\ exec'[w].pc = exec[w].pc /\ exec'[w].msg = exec[w].msg
                /\ exec'[w].sweep = exec[w].sweep /\ exec'[w].ready = exec[w].ready
                /\ exec'[w].closes = exec[w].closes
  <2>1. CASE w = e
    <3>1. exec'[w].pc = "idle"
      BY <2>1 DEF Crash, Idle
    <3> QED
      BY <3>1 DEF Settled
  <2>2. CASE w # e
    BY <2>2 DEF Crash, TypeOK, Transaction, Executors
  <2> QED
    BY <2>1, <2>2
<1> QED
  BY <1>1, <1>2, <1>3, OneRunFrame

LEMMA OneRunNext == OneWorker /\ TypeOK /\ Bookkeeping /\ OneRun /\ [Next]_vars => OneRun'
<1> SUFFICES ASSUME OneWorker, TypeOK, Bookkeeping, OneRun, [Next]_vars PROVE OneRun'
  OBVIOUS
<1>1. CASE Kickoff \/ KickoffFailed \/ Prune \/ CatchUp
  BY <1>1, OneRunRequest
<1>2. CASE \E b \in Batches : BatchEnds(b)
  BY <1>2, OneRunBatchEnds
<1>3. ASSUME NEW w \in Workers, Receive(w) \/ Run(w) \/ ProcessTask(w) \/ Load(w)
      PROVE  OneRun'
  BY <1>3, OneRunWorker, OneRunWrites, OneRunCommit DEF Run, Finish
<1>4. ASSUME NEW v \in Servers, CleanReset(v) \/ ApplyAudit(v) \/ EndDelete(v) PROVE OneRun'
  BY <1>4, OneRunDelete
<1>5. CASE \E e \in Executors : Crash(e)
  BY <1>5, OneRunCrash
<1>6. CASE UNCHANGED vars
  <2>1. Linked(sweep.id)' = Linked(sweep.id)
    BY <1>6 DEF vars, Linked
  <2> QED
    BY <1>6, <2>1, OneRunFrame DEF vars
<1>7. CASE UpdateTag
  <2>1. Linked(sweep.id)' = Linked(sweep.id)
    BY <1>7 DEF UpdateTag, Linked
  <2> QED
    BY <1>7, <2>1, OneRunFrame DEF UpdateTag
<1> QED
  BY <1>1, <1>2, <1>3, <1>4, <1>5, <1>6, <1>7 DEF Next, OneWorker

--------------------------------------------------------------------------------
(* One verdict for a card.  As long as nothing is requested but kickoffs and *)
(* updates of the tag, no batch is ever deleted, a card goes into one batch, *)
(* and whatever a run applies, in whatever order runs of the worker and of   *)
(* shells overlap, is the answer of that batch.                              *)

OnlyKickoffsAndUpdates == Commands \subseteq {"kickoff", "update"} /\ \A v, w \in Workers : v = w

Answers(c) == {batch[b].verdict[c] : b \in Batches}

NothingDeletes == \A e \in Executors : exec[e].pc \notin {"delete", "delete_first", "drop"}

AllLinked == \A b \in Batches : batch[b].status # "none" => b \in Linked(sweep.id)

AnswersAreOfCards == \A b \in Batches, c \in Cards :
  batch[b].verdict[c] # "none" => c \in batch[b].cards /\ batch[b].status # "pending"

OneBatchEach == \A b, d \in Batches : batch[b].cards \cap batch[d].cards # {} => b = d

(* The cards of a materialization are in no batch yet.                       *)
WriteIsNew == \A w \in Workers, b \in Batches :
  exec[w].pc = "write" => exec[w].cards \cap batch[b].cards = {}

NoRedo == /\ \A m \in queue : ~m.redo
          /\ \A w \in Workers : /\ exec[w].msg # NoMessage => ~exec[w].msg.redo
                                /\ exec[w].pc \in {"read", "write"} => exec[w].msg # NoMessage
          /\ \A e \in Executors \ Workers : exec[e].msg = NoMessage

RunsHaveRows == \A e \in Executors : exec[e].pc \in {"classify", "apply", "commit"} =>
                  \A b \in exec[e].ready : batch[b].status # "none"

TagsAreAnswers == \A c \in Cards : tagged[c] \subseteq Answers(c)

AddsAreAnswers == \A e \in Executors : exec[e].pc \in {"apply", "commit"} =>
                    \A c \in Cards : exec[e].adds[c] \subseteq Answers(c)

JudgedOnce ==
  /\ NothingDeletes /\ AllLinked /\ AnswersAreOfCards /\ OneBatchEach
  /\ WriteIsNew /\ NoRedo /\ RunsHaveRows /\ TagsAreAnswers /\ AddsAreAnswers

(* Steps that touch neither batches nor tags.                                *)
LEMMA OnceFrame ==
  ASSUME TypeOK, JudgedOnce, UNCHANGED <<batch, tagged>>, sweep'.id = sweep.id,
         NoRedo',
         \A f \in Executors :
           \/ exec'[f].pc \in {"idle", "read", "ack", "load"}
           \/ /\ exec'[f].pc = exec[f].pc
              /\ exec'[f].cards = exec[f].cards
              /\ exec'[f].ready = exec[f].ready
              /\ exec'[f].adds = exec[f].adds
  PROVE  JudgedOnce'
<1>1. NothingDeletes'
  BY DEF JudgedOnce, NothingDeletes
<1>2. AllLinked'
  BY DEF JudgedOnce, AllLinked, Linked
<1>3. AnswersAreOfCards' /\ OneBatchEach' /\ TagsAreAnswers'
  BY DEF JudgedOnce, AnswersAreOfCards, OneBatchEach, TagsAreAnswers, Answers
<1>4. WriteIsNew' /\ RunsHaveRows'
  BY DEF JudgedOnce, WriteIsNew, RunsHaveRows, Executors
<1>5. AddsAreAnswers'
  BY DEF JudgedOnce, AddsAreAnswers, Answers
<1> QED
  BY <1>1, <1>2, <1>3, <1>4, <1>5 DEF JudgedOnce

LEMMA OnceStep ==
  ASSUME TypeOK, JudgedOnce, UNCHANGED <<batch, tagged, queue>>, sweep'.id = sweep.id,
         NEW e \in Executors, NEW new, Step(e, new),
         new.msg \in {NoMessage, exec[e].msg},
         new.pc \in {"idle", "ack", "load"}
  PROVE  JudgedOnce'
<1>1. exec'[e] = new /\ \A f \in Executors : f # e => exec'[f] = exec[f]
  BY StepChanges
<1>2. NoRedo'
  BY <1>1 DEF JudgedOnce, NoRedo, Executors, NoMessage
<1> QED
  BY <1>1, <1>2, OnceFrame

(* Answers that stay are still those the tags come from.                     *)
LEMMA AnswersKept ==
  ASSUME TypeOK, JudgedOnce, UNCHANGED tagged,
         \A f \in Executors : \/ exec'[f].pc \notin {"apply", "commit"}
                              \/ exec'[f].pc = exec[f].pc /\ exec'[f].adds = exec[f].adds,
         \A c \in Cards : Answers(c) \ {"none"} \subseteq Answers(c)'
  PROVE  TagsAreAnswers' /\ AddsAreAnswers'
<1>1. \A c \in Cards : "none" \notin tagged[c]
  BY DEF TypeOK, SideTags
<1>2. \A e \in Executors, c \in Cards : "none" \notin exec[e].adds[c]
  BY DEF TypeOK, Transaction, SideTags
<1>3. TagsAreAnswers'
  BY <1>1 DEF JudgedOnce, TagsAreAnswers
<1>4. AddsAreAnswers'
  BY <1>2 DEF JudgedOnce, AddsAreAnswers
<1> QED
  BY <1>3, <1>4

LEMMA OnceKickoff ==
  ASSUME TypeOK, Bookkeeping, JudgedOnce, Kickoff
  PROVE  JudgedOnce'
<1>1. UNCHANGED <<batch, tagged, exec>>
  BY DEF Kickoff
<1>2. PICK sides \in Options, limit \in Limits :
        OpenSweep(sides) /\ SendMaterialize(sweep'.id, limit, FALSE)
  BY DEF Kickoff
<1>3. NoRedo'
  BY <1>1, <1>2 DEF SendMaterialize, JudgedOnce, NoRedo, NoMessage
<1>4. CASE sweep'.id = sweep.id
  BY <1>1, <1>3, <1>4, OnceFrame
<1>5. CASE sweep'.id # sweep.id
  <2>1. sweep.id = NoSweep
    BY <1>2, <1>5 DEF OpenSweep, Reopened, TypeOK, SweepRow
  <2>2. \A b \in Batches : batch[b].status = "none"
    BY <2>1 DEF JudgedOnce, AllLinked, Linked
  <2>3. AllLinked'
    BY <1>1, <2>2 DEF AllLinked
  <2>4. AnswersAreOfCards' /\ OneBatchEach' /\ TagsAreAnswers' /\ NothingDeletes'
    BY <1>1 DEF JudgedOnce, AnswersAreOfCards, OneBatchEach, TagsAreAnswers, Answers,
                NothingDeletes
  <2>5. WriteIsNew' /\ RunsHaveRows' /\ AddsAreAnswers'
    BY <1>1 DEF JudgedOnce, WriteIsNew, RunsHaveRows, AddsAreAnswers, Answers
  <2> QED
    BY <1>3, <2>3, <2>4, <2>5 DEF JudgedOnce
<1> QED
  BY <1>4, <1>5

LEMMA OnceBatchEnds ==
  ASSUME TypeOK, Bookkeeping, JudgedOnce, NEW d \in Batches, BatchEnds(d)
  PROVE  JudgedOnce'
<1>1. PICK answer \in [batch[d].cards -> Verdicts] :
        batch' = [batch EXCEPT ![d] = Ended(d, answer)]
  BY DEF BatchEnds
<1>2. /\ batch[d] \in BatchRow /\ batch[d].status = "pending"
      /\ UNCHANGED <<sweep, catalog, tagged, sideTags, queue, exec>>
  BY DEF BatchEnds, TypeOK
<1>3. /\ batch'[d].status = "ended" /\ batch'[d].sweep = batch[d].sweep
      /\ batch'[d].cards = batch[d].cards
      /\ \A c \in Cards : batch'[d].verdict[c] # "none" => c \in batch[d].cards
      /\ \A b \in Batches \ {d} : batch'[b] = batch[b]
  BY <1>1, <1>2 DEF TypeOK, Ended, BatchRow
<1>4. \A c \in Cards : batch[d].verdict[c] = "none"
  BY <1>2 DEF JudgedOnce, AnswersAreOfCards
<1>5. \A c \in Cards : Answers(c) \ {"none"} \subseteq Answers(c)'
  BY <1>3, <1>4 DEF Answers
<1>6. TagsAreAnswers' /\ AddsAreAnswers'
  BY <1>2, <1>5, AnswersKept
<1>7. AllLinked'
  BY <1>2, <1>3 DEF JudgedOnce, AllLinked, Linked
<1>8. AnswersAreOfCards' /\ OneBatchEach'
  BY <1>2, <1>3 DEF JudgedOnce, AnswersAreOfCards, OneBatchEach
<1>9. WriteIsNew' /\ NoRedo' /\ NothingDeletes'
  BY <1>2, <1>3 DEF JudgedOnce, WriteIsNew, NoRedo, NothingDeletes, NoMessage
<1>10. RunsHaveRows'
  <2>1. \A e \in Executors : exec[e].ready \subseteq Batches
    BY DEF TypeOK, Transaction
  <2> QED
    BY <1>2, <1>3, <2>1 DEF JudgedOnce, RunsHaveRows
<1> QED
  BY <1>6, <1>7, <1>8, <1>9, <1>10 DEF JudgedOnce

LEMMA OnceRead ==
  ASSUME TypeOK, Bookkeeping, JudgedOnce, NEW w \in Workers, MaterializeRead(w)
  PROVE  JudgedOnce'
<1> DEFINE m == exec[w].msg
<1>1. /\ w \in Executors /\ exec[w] \in Transaction /\ exec[w].pc = "read"
      /\ UNCHANGED <<sweep, batch, tagged, queue>>
  BY DEF MaterializeRead, Executors, TypeOK
<1>2. CASE Step(w, Done(w))
  <2>1. Done(w).pc \in {"idle", "ack"} /\ Done(w).msg \in {NoMessage, exec[w].msg}
    BY DEF Done, Idle
  <2> QED
    BY <1>1, <1>2, <2>1, OnceStep
<1>3. ASSUME RunIsOpen(m), NEW cards \in Chosen(m),
             Step(w, [exec[w] EXCEPT !.pc = "write", !.cards = cards])
      PROVE  JudgedOnce'
  <2> DEFINE new == [exec[w] EXCEPT !.pc = "write", !.cards = cards]
  <2>1. /\ new.pc = "write" /\ new.cards = cards /\ new.msg = m
    BY <1>1 DEF Transaction
  <2>2. /\ exec'[w].pc = "write" /\ exec'[w].cards = cards /\ exec'[w].msg = m
        /\ \A f \in Executors : f # w => exec'[f] = exec[f]
    <3>1. Step(w, new)
      BY <1>3
    <3> HIDE DEF new
    <3> QED
      BY <1>1, <2>1, <3>1, StepChanges
  <2>3. ~m.redo
    BY <1>1 DEF JudgedOnce, NoRedo
  <2>4. cards \subseteq Eligible(m.sweep, filter)
    BY <1>3, <2>3 DEF Chosen
  <2>5. \A b \in Batches : cards \cap batch[b].cards = {}
    <3>1. ASSUME NEW b \in Batches, batch[b].status # "none" PROVE cards \cap batch[b].cards = {}
      <4>1. b \in Linked(m.sweep)
        BY <1>3, <3>1 DEF JudgedOnce, AllLinked, RunIsOpen
      <4> QED
        BY <2>4, <4>1 DEF Eligible, InBatches
    <3>2. ASSUME NEW b \in Batches, batch[b].status = "none" PROVE batch[b].cards = {}
      BY <3>2 DEF Bookkeeping, NoneIsFree, NoBatch
    <3> QED
      BY <3>1, <3>2
  <2>6. WriteIsNew'
    BY <1>1, <2>2, <2>5 DEF JudgedOnce, WriteIsNew, Executors
  <2>7. NoRedo' /\ NothingDeletes' /\ RunsHaveRows'
    BY <1>1, <2>2, <2>3
       DEF JudgedOnce, NoRedo, NothingDeletes, RunsHaveRows, Executors, NoMessage
  <2>8. AllLinked' /\ AnswersAreOfCards' /\ OneBatchEach' /\ TagsAreAnswers'
    BY <1>1 DEF JudgedOnce, AllLinked, AnswersAreOfCards, OneBatchEach, TagsAreAnswers,
                Answers, Linked
  <2>9. AddsAreAnswers'
    BY <1>1, <2>2 DEF JudgedOnce, AddsAreAnswers, Answers
  <2> QED
    BY <2>6, <2>7, <2>8, <2>9 DEF JudgedOnce
<1> QED
  BY <1>1, <1>2, <1>3 DEF MaterializeRead

LEMMA OnceWrite ==
  ASSUME TypeOK, Bookkeeping, OnlyKickoffsAndUpdates, JudgedOnce, NEW w \in Workers, MaterializeWrite(w)
  PROVE  JudgedOnce'
<1> DEFINE m == exec[w].msg
           cards == exec[w].cards
<1>1. /\ w \in Executors /\ exec[w].pc = "write"
      /\ UNCHANGED <<sweep, tagged, queue>> /\ Step(w, Done(w))
      /\ Done(w).pc \in {"idle", "ack"} /\ Done(w).msg \in {NoMessage, exec[w].msg}
  BY DEF MaterializeWrite, Executors, Done, Idle
<1>2. CASE UNCHANGED batch
  BY <1>1, <1>2, OnceStep
<1>3. CASE ~UNCHANGED batch
  <2>1. sweep.id = m.sweep /\ sweep.id # NoSweep
    <3>1. sweep.id = m.sweep
      BY <1>3 DEF MaterializeWrite
    <3>2. m # NoMessage
      BY <1>1 DEF JudgedOnce, NoRedo
    <3>3. m \in Materialization
      BY <1>1, <3>2 DEF TypeOK, Transaction
    <3>4. m.sweep \in Sweeps
      BY <3>3 DEF Materialization
    <3> QED
      BY <3>1, <3>4
  <2>2. PICK new \in SUBSET FreshBatches :
          /\ Cardinality(new) = BatchCount(cards)
          /\ \E into \in [cards -> new] :
               /\ \A b \in new : Cardinality(Part(into, b)) \in 1..CardsPerBatch
               /\ batch' = [b \in Batches |-> IF b \in new THEN PendingBatch(m, Part(into, b))
                                              ELSE batch[b]]
    BY ONLY <1>3, MaterializeWrite(w) DEF MaterializeWrite
  <2>3. PICK into \in [cards -> new] :
          batch' = [b \in Batches |-> IF b \in new THEN PendingBatch(m, Part(into, b))
                                      ELSE batch[b]]
    BY <2>2
  <2>4. \A b \in Batches :
          \/ /\ b \in new /\ batch[b].status = "none"
             /\ \A e \in Executors : b \notin exec[e].ready
             /\ batch'[b].status = "pending" /\ batch'[b].sweep = sweep.id
             /\ batch'[b].cards = {c \in cards : into[c] = b}
             /\ batch'[b].verdict = [c \in Cards |-> "none"]
          \/ b \notin new /\ batch'[b] = batch[b]
    BY <2>1, <2>3 DEF PendingBatch, FreshBatches, Part
  <2>5. \A b \in Batches : batch[b].status = "none" => \A c \in Cards : batch[b].verdict[c] = "none"
    BY DEF Bookkeeping, NoneIsFree, NoBatch
  <2>6. \A c \in Cards : Answers(c) \ {"none"} \subseteq Answers(c)'
    BY <2>4, <2>5 DEF Answers
  <2>7. exec'[w] = Done(w) /\ \A f \in Executors : f # w => exec'[f] = exec[f]
    BY <1>1, StepChanges
  <2>8. TagsAreAnswers' /\ AddsAreAnswers'
    BY <1>1, <2>6, <2>7, AnswersKept
  <2>9. AllLinked'
    BY <1>1, <2>1, <2>4 DEF JudgedOnce, AllLinked, Linked
  <2>10. AnswersAreOfCards'
    BY <2>4 DEF JudgedOnce, AnswersAreOfCards
  <2>11. OneBatchEach'
    BY <1>1, <2>4 DEF JudgedOnce, OneBatchEach, WriteIsNew
  <2>12. WriteIsNew' /\ NoRedo' /\ NothingDeletes'
    BY <1>1, <2>7 DEF JudgedOnce, WriteIsNew, NoRedo, NothingDeletes, OnlyKickoffsAndUpdates, Executors,
                      NoMessage
  <2>13. RunsHaveRows'
    <3>1. \A e \in Executors : exec[e].ready \subseteq Batches
      BY DEF TypeOK, Transaction
    <3> QED
      BY <1>1, <2>4, <2>7, <3>1 DEF JudgedOnce, RunsHaveRows
  <2> QED
    BY <2>8, <2>9, <2>10, <2>11, <2>12, <2>13 DEF JudgedOnce
<1> QED
  BY <1>2, <1>3

LEMMA OnceGather ==
  ASSUME TypeOK, Bookkeeping, JudgedOnce, NEW e \in Executors, NEW sides, Gather(e, sides)
  PROVE  JudgedOnce'
<1>1. UNCHANGED <<sweep, batch, tagged, queue>>
  BY DEF Gather
<1>2. CASE UNCHANGED exec
  BY <1>1, <1>2, OnceFrame DEF JudgedOnce, NoRedo, NoMessage
<1>3. CASE ~UNCHANGED exec
  <2> DEFINE new == [Idle EXCEPT !.pc = "classify", !.sweep = sweep.id, !.filter = filter,
                                 !.sides = sides,
                                 !.made = sides \ sideTags, !.ready = Processable(sweep.id)]
  <2>1. Step(e, new)
    BY <1>3 DEF Gather
  <2>2. /\ exec'[e].pc = "classify" /\ exec'[e].ready = Processable(sweep.id)
        /\ exec'[e].msg = NoMessage
        /\ \A f \in Executors : f # e => exec'[f] = exec[f]
    <3>1. new.pc = "classify" /\ new.ready = Processable(sweep.id) /\ new.msg = NoMessage
      BY DEF Idle
    <3> HIDE DEF new
    <3> QED
      BY <2>1, <3>1, StepChanges
  <2>3. \A b \in Processable(sweep.id) : batch[b].status # "none"
    BY DEF Processable
  <2>4. NoRedo' /\ NothingDeletes' /\ RunsHaveRows'
    BY <1>1, <2>2, <2>3
       DEF JudgedOnce, NoRedo, NothingDeletes, RunsHaveRows, Executors, NoMessage
  <2>5. AllLinked' /\ AnswersAreOfCards' /\ OneBatchEach' /\ TagsAreAnswers'
    BY <1>1 DEF JudgedOnce, AllLinked, AnswersAreOfCards, OneBatchEach, TagsAreAnswers,
                Answers, Linked
  <2>6. AddsAreAnswers' /\ WriteIsNew'
    BY <1>1, <2>2 DEF JudgedOnce, AddsAreAnswers, WriteIsNew, Answers, Executors
  <2> QED
    BY <2>4, <2>5, <2>6 DEF JudgedOnce
<1> QED
  BY <1>2, <1>3

LEMMA OnceClassify ==
  ASSUME TypeOK, Bookkeeping, JudgedOnce, NEW e \in Executors, Classify(e)
  PROVE  JudgedOnce'
<1> DEFINE t == exec[e]
           adds == [c \in Cards |-> UNION {Classified(t.sides, b, c) : b \in t.ready}]
           new == [t EXCEPT !.pc = "apply", !.adds = adds]
<1>1. /\ Step(e, new) /\ t.pc = "classify" /\ t \in Transaction
      /\ UNCHANGED <<sweep, batch, tagged, queue>>
  BY DEF Classify, TypeOK
<1>2. new.pc = "apply" /\ new.ready = t.ready /\ new.adds = adds /\ new.msg = t.msg
  BY <1>1 DEF Transaction
<1>3. \A c \in Cards : adds[c] \subseteq Answers(c)
  BY <1>1 DEF Classified, Answers, Transaction
<1> HIDE DEF new, adds
<1>4. /\ exec'[e].pc = "apply" /\ exec'[e].ready = t.ready /\ exec'[e].adds = adds
      /\ exec'[e].msg = t.msg
      /\ \A f \in Executors : f # e => exec'[f] = exec[f]
  BY <1>1, <1>2, StepChanges
<1>5. NoRedo' /\ NothingDeletes' /\ RunsHaveRows'
  BY <1>1, <1>4 DEF JudgedOnce, NoRedo, NothingDeletes, RunsHaveRows, Executors, NoMessage
<1>6. AllLinked' /\ AnswersAreOfCards' /\ OneBatchEach' /\ TagsAreAnswers'
  BY <1>1 DEF JudgedOnce, AllLinked, AnswersAreOfCards, OneBatchEach, TagsAreAnswers,
              Answers, Linked
<1>7. AddsAreAnswers' /\ WriteIsNew'
  BY <1>1, <1>3, <1>4 DEF JudgedOnce, AddsAreAnswers, WriteIsNew, Answers, Executors
<1> QED
  BY <1>5, <1>6, <1>7 DEF JudgedOnce

LEMMA OnceApply ==
  ASSUME TypeOK, Bookkeeping, JudgedOnce, NEW e \in Executors, Apply(e)
  PROVE  JudgedOnce'
<1> DEFINE t == exec[e]
           marked == {b \in t.ready : batch[b].status # "none"}
           adds == [c \in Cards |-> t.adds[c] \cap ({"main"} \cup sideTags \cup t.made)]
           complete == Complete(t.sweep, marked, t.filter)
           new == [t EXCEPT !.pc = "commit", !.ready = marked, !.adds = adds,
                            !.closes = complete,
                            !.epoch = IF complete THEN {c \in Cards : catalog[c] # "unknown"}
                                      ELSE {}]
<1>1. t.pc = "apply" /\ t \in Transaction /\ UNCHANGED <<sweep, batch, tagged, queue>>
  BY DEF Apply, TypeOK
<1>2. CASE Step(e, Idle)
  BY <1>1, <1>2, OnceStep DEF Idle
<1>3. CASE Step(e, new)
  <2>1. new.pc = "commit" /\ new.ready = marked /\ new.adds = adds /\ new.msg = t.msg
    <3> HIDE DEF marked, adds, complete
    <3> QED
      BY <1>1 DEF Transaction
  <2>2. /\ \A b \in marked : batch[b].status # "none"
        /\ \A c \in Cards : adds[c] \subseteq t.adds[c]
    OBVIOUS
  <2> HIDE DEF marked, adds, complete, new
  <2>3. /\ exec'[e].pc = "commit" /\ exec'[e].ready = marked /\ exec'[e].adds = adds
        /\ exec'[e].msg = t.msg
        /\ \A f \in Executors : f # e => exec'[f] = exec[f]
    BY <1>3, <2>1, StepChanges
  <2>4. NoRedo' /\ NothingDeletes' /\ RunsHaveRows'
    BY <1>1, <2>2, <2>3
       DEF JudgedOnce, NoRedo, NothingDeletes, RunsHaveRows, Executors, NoMessage
  <2>5. AllLinked' /\ AnswersAreOfCards' /\ OneBatchEach' /\ TagsAreAnswers'
    BY <1>1 DEF JudgedOnce, AllLinked, AnswersAreOfCards, OneBatchEach, TagsAreAnswers,
                Answers, Linked
  <2>6. WriteIsNew'
    BY <1>1, <2>3 DEF JudgedOnce, WriteIsNew, Executors
  <2>7. AddsAreAnswers'
    <3>1. \A c \in Cards : adds[c] \subseteq Answers(c)
      BY <1>1, <2>2 DEF JudgedOnce, AddsAreAnswers
    <3> QED
      BY <1>1, <2>3, <3>1 DEF JudgedOnce, AddsAreAnswers, Answers
  <2> QED
    BY <2>4, <2>5, <2>6, <2>7 DEF JudgedOnce
<1> QED
  BY <1>2, <1>3 DEF Apply

LEMMA OnceCommit ==
  ASSUME TypeOK, Bookkeeping, JudgedOnce, NEW e \in Executors, Commit(e)
  PROVE  JudgedOnce'
<1> DEFINE t == exec[e]
<1>1. /\ t.pc = "commit" /\ t \in Transaction /\ Step(e, Idle) /\ UNCHANGED queue
      /\ Idle.pc = "idle" /\ Idle.msg = NoMessage
  BY DEF Commit, TypeOK, Idle
<1>2. CASE UNCHANGED <<batch, tagged, sweep>>
  BY <1>1, <1>2, OnceStep
<1>3. CASE /\ batch' = [b \in Batches |-> IF b \in t.ready THEN Processed(batch[b])
                                          ELSE batch[b]]
           /\ tagged' = [c \in Cards |-> tagged[c] \cup t.adds[c]]
           /\ sweep' = Closed(t)
  <2>1. \A b \in Batches :
          /\ batch'[b].verdict = batch[b].verdict /\ batch'[b].cards = batch[b].cards
          /\ batch'[b].sweep = batch[b].sweep
          /\ batch'[b].status = (IF b \in t.ready THEN "processed" ELSE batch[b].status)
    BY <1>3, ProcessedKeeps DEF TypeOK, BatchRow
  <2>2. sweep'.id = sweep.id
    BY <1>3 DEF Closed, TypeOK, SweepRow
  <2>3. exec'[e] = Idle /\ \A f \in Executors : f # e => exec'[f] = exec[f]
    BY <1>1, StepChanges
  <2>4. \A b \in Batches : batch'[b].status # "none" => batch[b].status # "none"
    BY <1>1, <2>1 DEF JudgedOnce, RunsHaveRows
  <2>5. \A c \in Cards : Answers(c)' = Answers(c)
    BY <2>1 DEF Answers
  <2>6. TagsAreAnswers'
    <3>1. \A c \in Cards : tagged[c] \subseteq Answers(c) /\ t.adds[c] \subseteq Answers(c)
      BY <1>1 DEF JudgedOnce, TagsAreAnswers, AddsAreAnswers
    <3>2. \A c \in Cards : tagged'[c] = tagged[c] \cup t.adds[c]
      BY <1>3
    <3> QED
      BY <2>5, <3>1, <3>2 DEF TagsAreAnswers
  <2>7. AddsAreAnswers'
    BY <1>1, <2>3, <2>5 DEF JudgedOnce, AddsAreAnswers
  <2>8. AllLinked'
    BY <2>1, <2>2, <2>4 DEF JudgedOnce, AllLinked, Linked
  <2>9. AnswersAreOfCards' /\ OneBatchEach'
    BY <2>1 DEF JudgedOnce, AnswersAreOfCards, OneBatchEach
  <2>10. WriteIsNew' /\ NoRedo' /\ NothingDeletes'
    BY <1>1, <2>1, <2>3 DEF JudgedOnce, WriteIsNew, NoRedo, NothingDeletes, Executors, NoMessage
  <2>11. RunsHaveRows'
    <3>1. \A f \in Executors : exec[f].ready \subseteq Batches
      BY DEF TypeOK, Transaction
    <3> QED
      BY <1>1, <2>1, <2>3, <3>1 DEF JudgedOnce, RunsHaveRows
  <2> QED
    BY <2>6, <2>7, <2>8, <2>9, <2>10, <2>11 DEF JudgedOnce
<1> QED
  BY <1>2, <1>3 DEF Commit

LEMMA OnceNext ==
  OnlyKickoffsAndUpdates /\ TypeOK /\ Bookkeeping /\ JudgedOnce /\ [Next]_vars => JudgedOnce'
<1> SUFFICES ASSUME OnlyKickoffsAndUpdates, TypeOK, Bookkeeping, JudgedOnce, [Next]_vars
             PROVE  JudgedOnce'
  OBVIOUS
<1> USE DEF Executors
<1>1. CASE Kickoff
  BY <1>1, OnceKickoff
<1>2. ~KickoffFailed /\ ~Prune /\ ~CatchUp
  BY DEF KickoffFailed, Prune, CatchUp, Request, OnlyKickoffsAndUpdates
<1>3. ASSUME NEW b \in Batches, BatchEnds(b) PROVE JudgedOnce'
  BY <1>3, OnceBatchEnds
<1>4. ASSUME NEW e \in Executors, Finish(e) \/ Load(e) \/ ProcessTask(e) \/ ProcessCli(e)
      PROVE  JudgedOnce'
  <2>1. CASE ProcessTask(e) \/ ProcessCli(e)
    BY <2>1, OnceGather DEF ProcessTask, ProcessCli
  <2>2. CASE Load(e) \/ LoadCommit(e)
    <3>1. \E cards : Step(e, Idle) \/ Step(e, [Idle EXCEPT !.pc = "load", !.cards = cards])
      BY <2>2 DEF Load, LoadCommit
    <3>2. UNCHANGED <<sweep, batch, tagged, queue>>
      BY <2>2 DEF Load, LoadCommit
    <3>3. \A cards : /\ [Idle EXCEPT !.pc = "load", !.cards = cards].pc = "load"
                     /\ [Idle EXCEPT !.pc = "load", !.cards = cards].msg = NoMessage
                     /\ Idle.pc = "idle" /\ Idle.msg = NoMessage
      BY DEF Idle
    <3> QED
      BY <3>1, <3>2, <3>3, OnceStep
  <2> QED
    BY <1>4, <2>1, <2>2, OnceClassify, OnceApply, OnceCommit DEF Finish
<1>5. ASSUME NEW w \in Workers, Receive(w) \/ MaterializeRead(w) \/ MaterializeWrite(w) \/ Ack(w)
      PROVE  JudgedOnce'
  <2>1. CASE Receive(w)
    <3>1. PICK m \in queue : /\ queue' = queue \ {m}
                             /\ Step(w, [Idle EXCEPT !.pc = "read", !.msg = m])
      BY <2>1 DEF Receive
    <3>2. /\ [Idle EXCEPT !.pc = "read", !.msg = m].pc = "read"
          /\ [Idle EXCEPT !.pc = "read", !.msg = m].msg = m
      BY DEF Idle
    <3>3. m # NoMessage /\ ~m.redo
      BY DEF TypeOK, NoMessage, Materialization, JudgedOnce, NoRedo
    <3>4. /\ exec'[w].pc = "read" /\ exec'[w].msg = m
          /\ \A f \in Executors : f # w => exec'[f] = exec[f]
      BY <3>1, <3>2, StepChanges
    <3>5. NoRedo'
      BY <3>1, <3>3, <3>4 DEF JudgedOnce, NoRedo, NoMessage
    <3>6. UNCHANGED <<sweep, batch, tagged>>
      BY <2>1 DEF Receive
    <3> QED
      BY <3>4, <3>5, <3>6, OnceFrame
  <2>2. CASE Ack(w)
    BY <2>2, OnceStep DEF Ack, Idle
  <2> QED
    BY <1>5, <2>1, <2>2, OnceRead, OnceWrite
<1>6. ASSUME NEW o \in Shells \cup Servers,
             CleanReset(o) \/ ApplyAudit(o) \/ ApplyAuditCli(o) \/ DropOpenSweep(o) \/ EndDelete(o)
      PROVE  FALSE
  BY <1>6 DEF CleanReset, ApplyAudit, ApplyAuditCli, DropOpenSweep, EndDelete, Request,
              OnlyKickoffsAndUpdates, JudgedOnce, NothingDeletes
<1>7. ASSUME NEW e \in Executors, Crash(e) PROVE JudgedOnce'
  <2>1. UNCHANGED <<batch, tagged>> /\ sweep'.id = sweep.id
    BY <1>7 DEF Crash, TypeOK, SweepRow
  <2>2. \A f \in Executors :
          \/ exec'[f].pc = "idle" /\ exec'[f].msg = NoMessage
          \/ /\ exec'[f].pc = exec[f].pc /\ exec'[f].cards = exec[f].cards
             /\ exec'[f].ready = exec[f].ready /\ exec'[f].adds = exec[f].adds
             /\ exec'[f].msg = exec[f].msg
    BY <1>7 DEF Crash, TypeOK, Transaction, Idle
  <2>3. \A m \in queue' : m \in queue \/ (m = exec[e].msg /\ m # NoMessage)
    BY <1>7 DEF Crash
  <2>4. e \notin Workers => exec[e].msg = NoMessage
    BY DEF JudgedOnce, NoRedo
  <2>5. NoRedo'
    BY <2>2, <2>3, <2>4 DEF JudgedOnce, NoRedo, NoMessage
  <2> QED
    BY <2>1, <2>2, <2>5, OnceFrame
<1>8. CASE UNCHANGED vars
  <2>1. NoRedo'
    BY <1>8 DEF JudgedOnce, NoRedo, NoMessage, vars
  <2> QED
    BY <1>8, <2>1, OnceFrame DEF vars
<1>9. CASE UpdateTag
  <2>1. NoRedo'
    BY <1>9 DEF JudgedOnce, NoRedo, NoMessage, UpdateTag
  <2> QED
    BY <1>9, <2>1, OnceFrame DEF UpdateTag
<1> QED
  BY <1>1, <1>2, <1>3, <1>4, <1>5, <1>6, <1>7, <1>8, <1>9 DEF Next, Run

LEMMA OneAnswerEach == ASSUME TypeOK, JudgedOnce PROVE OneVerdict
<1> SUFFICES ASSUME NEW c \in Cards PROVE Cardinality(tagged[c]) <= 1
  BY DEF OneVerdict
<1>1. ASSUME NEW u \in tagged[c], NEW v \in tagged[c] PROVE u = v
  <2>1. u # "none" /\ v # "none"
    BY DEF TypeOK, SideTags
  <2>2. PICK b \in Batches : batch[b].verdict[c] = u
    BY DEF JudgedOnce, TagsAreAnswers, Answers
  <2>3. PICK d \in Batches : batch[d].verdict[c] = v
    BY DEF JudgedOnce, TagsAreAnswers, Answers
  <2>4. c \in batch[b].cards /\ c \in batch[d].cards
    BY <2>1, <2>2, <2>3 DEF JudgedOnce, AnswersAreOfCards
  <2>5. b = d
    BY <2>4 DEF JudgedOnce, OneBatchEach
  <2> QED
    BY <2>2, <2>3, <2>5
<1>2. CASE tagged[c] = {}
  BY <1>2, FS_EmptySet
<1>3. ASSUME NEW v \in tagged[c] PROVE Cardinality(tagged[c]) <= 1
  <2>1. tagged[c] = {v}
    BY <1>1, <1>3
  <2>2. Cardinality({v}) = 1
    BY FS_Singleton
  <2> QED
    BY <2>1, <2>2
<1> QED
  BY <1>2, <1>3

(* With one worker and nothing but kickoffs and updates of the tag, no card  *)
(* gets two verdicts, with any number of shells that process beside the      *)
(* worker, and any crashes.                                                  *)
THEOREM OneVerdictEach == OnlyKickoffsAndUpdates /\ Spec => []OneVerdict
<1>1. Init => TypeOK /\ Bookkeeping
  BY TypeInit, BookkeepingInit
<1>2. Init => JudgedOnce
  BY DEF Init, JudgedOnce, NothingDeletes, AllLinked, AnswersAreOfCards, OneBatchEach, WriteIsNew,
         NoRedo, RunsHaveRows, TagsAreAnswers, AddsAreAnswers, Idle, NoBatch, Executors, NoMessage
<1>3. TypeOK /\ Bookkeeping /\ [Next]_vars => (TypeOK /\ Bookkeeping)'
  BY TypeNext, BookkeepingNext
<1>4. SUFFICES ASSUME OnlyKickoffsAndUpdates PROVE Spec => []OneVerdict
  BY <1>4
<1>5. TypeOK /\ Bookkeeping /\ JudgedOnce /\ [Next]_vars => JudgedOnce'
  BY <1>4, OnceNext
<1>6. TypeOK /\ JudgedOnce => OneVerdict
  BY OneAnswerEach
<1> QED
  BY <1>1, <1>2, <1>3, <1>5, <1>6, PTL DEF Spec

--------------------------------------------------------------------------------
(* The epoch.  With one worker and no shell, whatever is requested: only     *)
(* cards that are in the catalog get into batches or under the epoch; a run  *)
(* about to close the sweep has every such card that the filter it has read  *)
(* lets through under the epoch or in one of the sweep's batches; and a      *)
(* deletion under way will take the sweep's row, or has it locked in its     *)
(* complete state, or touches nothing the sweep has.                         *)

Known == {c \in Cards : catalog[c] = "known"}

LoadsAreOwn ==
  /\ \A c \in Cards : catalog[c] = "loading" <=>
       \E w \in Workers : exec[w].pc = "load" /\ c \in exec[w].cards
  /\ \A e \in Executors \ Workers : exec[e].pc # "load"

RowIsWhole == /\ sweep.id = NoSweep => sweep.epoch = {} /\ sweep.status = "none"
              /\ sweep.id # NoSweep => sweep.status # "none"

CardsAreKnown ==
  /\ sweep.epoch \subseteq Known
  /\ \A b \in Batches : batch[b].failed \subseteq batch[b].cards /\ batch[b].cards \subseteq Known
  /\ \A w \in Workers : exec[w].pc = "write" => exec[w].cards \subseteq Known

Processing == {"classify", "apply", "commit"}

RunIsCurrent(w) ==
  /\ exec[w].pc \in Processing =>
       exec[w].sweep # NoSweep /\ (sweep.id = exec[w].sweep => sweep.status = "open")
  /\ exec[w].pc = "commit" /\ exec[w].closes =>
       /\ exec[w].epoch = Known
       /\ sweep.id = exec[w].sweep =>
            Known \cap exec[w].filter \subseteq sweep.epoch \cup InBatches(sweep.id)

DeletionIsApart(o) ==
  \/ exec[o].sweep # NoSweep /\ exec[o].sweep = sweep.id
  \/ exec[o].resets /\ sweep.status = "complete"
  \/ /\ exec[o].ready \cap Linked(sweep.id) = {}
     /\ exec[o].resets => sweep.epoch = {}

Upkeep ==
  /\ LoadsAreOwn /\ RowIsWhole /\ CardsAreKnown
  /\ \A w \in Workers : RunIsCurrent(w)
  /\ \A o \in Deleting : DeletionIsApart(o)

SameStage(e) ==
  /\ exec'[e].pc = exec[e].pc /\ exec'[e].sweep = exec[e].sweep
  /\ exec'[e].filter = exec[e].filter
  /\ exec'[e].cards = exec[e].cards /\ exec'[e].ready = exec[e].ready
  /\ exec'[e].closes = exec[e].closes /\ exec'[e].epoch = exec[e].epoch
  /\ exec'[e].resets = exec[e].resets

LEMMA DeletersAreServers ==
  ASSUME OneWorker PROVE Deleting \cap Workers = {} /\ Deleting \subseteq Executors
  BY DEF Deleting, OneWorker, Executors

(* Steps of a transaction alone.                                             *)
LEMMA UpkeepFrame ==
  ASSUME TypeOK, OneWorker, Upkeep, UNCHANGED <<sweep, batch, catalog>>,
         \A f \in Executors :
           \/ exec'[f].pc \in {"idle", "read", "ack"} /\ exec[f].pc # "load"
           \/ SameStage(f)
  PROVE  Upkeep'
<1>1. Known' = Known /\ Linked(sweep.id)' = Linked(sweep.id)
      /\ InBatches(sweep.id)' = InBatches(sweep.id)
  BY DEF Known, Linked, InBatches
<1>2. LoadsAreOwn'
  BY DEF Upkeep, LoadsAreOwn, SameStage, Executors
<1>3. RowIsWhole' /\ CardsAreKnown'
  BY <1>1 DEF Upkeep, RowIsWhole, CardsAreKnown, SameStage, Executors
<1>4. ASSUME NEW w \in Workers PROVE RunIsCurrent(w)'
  <2>1. w \in Executors /\ RunIsCurrent(w)
    BY DEF Executors, Upkeep
  <2>2. exec'[w].pc \in {"idle", "read", "ack"} \/ SameStage(w)
    BY <2>1
  <2> QED
    BY <1>1, <2>1, <2>2 DEF RunIsCurrent, SameStage, Processing
<1>5. ASSUME NEW o \in Deleting' PROVE DeletionIsApart(o)'
  <2>1. o \in Executors /\ exec'[o].pc \in {"delete", "delete_first"} /\ o \in Shells \cup Servers
    BY DEF Executors, Deleting
  <2>2. SameStage(o)
    BY <2>1
  <2>3. DeletionIsApart(o)
    BY <2>1, <2>2 DEF Upkeep, Deleting, SameStage
  <2> QED
    BY <1>1, <2>2, <2>3 DEF DeletionIsApart, SameStage
<1> QED
  BY <1>2, <1>3, <1>4, <1>5 DEF Upkeep

(* What a request other than a deletion does to the sweep and its batches.   *)
LEMMA RequestDoes ==
  ASSUME TypeOK, Kickoff \/ KickoffFailed \/ Prune \/ CatchUp
  PROVE  /\ UNCHANGED <<exec, catalog>>
         /\ \/ /\ sweep'.id = sweep.id /\ sweep'.epoch = sweep.epoch
               /\ sweep' = sweep \/ (sweep'.status = "open" /\ sweep.id # NoSweep)
               /\ EpochLocked => sweep' = sweep
            \/ /\ sweep.id = NoSweep /\ sweep'.id \in Sweeps /\ FreshSweep(sweep'.id)
               /\ sweep'.status = "open" /\ sweep'.epoch = {} /\ UNCHANGED batch
         /\ \/ UNCHANGED batch
            \/ PruneHistory /\ sweep'.id = sweep.id /\ (Prune \/ CatchUp)
<1>1. UNCHANGED <<exec, catalog>>
  BY DEF Kickoff, KickoffFailed, Prune, CatchUp
<1>2. ASSUME NEW sides \in SUBSET SideTags, OpenSweep(sides)
      PROVE  \/ /\ sweep'.id = sweep.id /\ sweep'.epoch = sweep.epoch
                /\ sweep'.status = "open" /\ sweep.id # NoSweep
                /\ EpochLocked => sweep' = sweep
             \/ /\ sweep.id = NoSweep /\ sweep'.id \in Sweeps /\ FreshSweep(sweep'.id)
                /\ sweep'.status = "open" /\ sweep'.epoch = {}
  <2>1. CASE /\ sweep.id # NoSweep
             /\ sweep' = [Reopened(sweep) EXCEPT !.sides = sides]
             /\ EpochLocked => sweep' = sweep
    BY <2>1 DEF Reopened, TypeOK, SweepRow
  <2>2. CASE /\ sweep.id = NoSweep
             /\ \E s \in Sweeps :
                  /\ FreshSweep(s)
                  /\ sweep' = [id |-> s, status |-> "open", epoch |-> {}, sides |-> sides]
    BY <2>2
  <2> QED
    BY <1>2, <2>1, <2>2 DEF OpenSweep
<1>3. Options \subseteq SUBSET SideTags /\ {} \in SUBSET SideTags
  BY DEF Options
<1>4. \/ /\ sweep'.id = sweep.id /\ sweep'.epoch = sweep.epoch
         /\ sweep' = sweep \/ (sweep'.status = "open" /\ sweep.id # NoSweep)
         /\ EpochLocked => sweep' = sweep
      \/ /\ sweep.id = NoSweep /\ sweep'.id \in Sweeps /\ FreshSweep(sweep'.id)
         /\ sweep'.status = "open" /\ sweep'.epoch = {} /\ UNCHANGED batch
  BY <1>2, <1>3 DEF Kickoff, KickoffFailed, Prune, CatchUp
<1>5. UNCHANGED batch \/ (PruneHistory /\ sweep'.id = sweep.id /\ (Prune \/ CatchUp))
  BY <1>4 DEF Kickoff, KickoffFailed, Prune, CatchUp
<1> QED
  BY <1>1, <1>4, <1>5

LEMMA UpkeepRequest ==
  ASSUME TypeOK, Bookkeeping, OneWorker, Upkeep, Kickoff \/ KickoffFailed \/ Prune \/ CatchUp
  PROVE  Upkeep'
<1>1. UNCHANGED <<exec, catalog>> /\ Known' = Known
  BY RequestDoes DEF Known
<1>2. \/ /\ sweep'.id = sweep.id /\ sweep'.epoch = sweep.epoch
         /\ sweep' = sweep \/ (sweep'.status = "open" /\ sweep.id # NoSweep)
         /\ EpochLocked => sweep' = sweep
      \/ /\ sweep.id = NoSweep /\ sweep'.id \in Sweeps /\ FreshSweep(sweep'.id)
         /\ sweep'.status = "open" /\ sweep'.epoch = {} /\ UNCHANGED batch
  BY RequestDoes
<1>3. UNCHANGED batch \/ (PruneHistory /\ sweep'.id = sweep.id)
  BY RequestDoes
<1>4. \A b \in Batches : batch'[b] = batch[b] \/ batch'[b] = NoBatch
  BY <1>3 DEF PruneHistory
<1>5. Linked(sweep.id)' \subseteq Linked(sweep.id)
  <2>1. CASE UNCHANGED batch /\ sweep'.id = sweep.id
    BY <2>1 DEF Linked
  <2>2. CASE UNCHANGED batch /\ sweep.id = NoSweep /\ sweep'.id \in Sweeps
    BY <2>2 DEF Linked, Bookkeeping, BatchesOfSweep
  <2>3. CASE PruneHistory /\ sweep'.id = sweep.id
    BY <2>3 DEF PruneHistory, Linked, NoBatch
  <2> QED
    BY <1>2, <1>3, <2>1, <2>2, <2>3
<1>6. LoadsAreOwn' /\ RowIsWhole'
  BY <1>1, <1>2 DEF Upkeep, LoadsAreOwn, RowIsWhole
<1>7. CardsAreKnown'
  <2>1. sweep'.epoch \subseteq Known
    BY <1>2 DEF Upkeep, CardsAreKnown
  <2>2. \A b \in Batches : batch'[b].failed \subseteq batch'[b].cards /\ batch'[b].cards \subseteq Known
    BY <1>4 DEF Upkeep, CardsAreKnown, NoBatch
  <2> QED
    BY <1>1, <2>1, <2>2 DEF Upkeep, CardsAreKnown
<1>8. ASSUME NEW w \in Workers PROVE RunIsCurrent(w)'
  <2>1. RunIsCurrent(w) /\ w \in Executors
    BY DEF Upkeep, Executors
  <2>2. CASE sweep'.id = sweep.id
    <3>1. InBatches(sweep.id)' = InBatches(sweep.id) \/ ~(exec[w].pc = "commit" /\ exec[w].closes)
      <4>1. CASE UNCHANGED batch
        BY <2>2, <4>1 DEF InBatches, Linked
      <4>2. CASE PruneHistory
        BY <2>1, <4>2 DEF PruneHistory, Unlocked
      <4> QED
        BY <1>3, <4>1, <4>2
    <3>2. sweep'.epoch = sweep.epoch /\ (sweep.status = "open" => sweep'.status = "open")
      BY <1>2, <2>2 DEF TypeOK, SweepRow
    <3> QED
      BY <1>1, <2>1, <2>2, <3>1, <3>2 DEF RunIsCurrent
  <2>3. CASE sweep'.id # sweep.id
    <3>1. sweep'.id # exec[w].sweep
      BY <1>2, <2>1, <2>3 DEF FreshSweep
    <3> QED
      BY <1>1, <2>1, <3>1 DEF RunIsCurrent
  <2> QED
    BY <2>2, <2>3
<1>9. ASSUME NEW o \in Deleting' PROVE DeletionIsApart(o)'
  <2>1. o \in Deleting
    BY <1>1 DEF Deleting
  <2>2. DeletionIsApart(o)
    BY <2>1 DEF Upkeep
  <2>3. CASE sweep'.id = sweep.id
    <3>1. exec[o].resets => sweep' = sweep
      BY <1>2, <2>1, <2>3 DEF EpochLocked, TypeOK, SweepRow
    <3>2. sweep'.epoch = sweep.epoch
      BY <1>2, <2>3 DEF TypeOK, SweepRow
    <3> QED
      BY <1>1, <1>5, <2>2, <2>3, <3>1, <3>2 DEF DeletionIsApart
  <2>4. CASE sweep'.id # sweep.id
    <3>1. Linked(sweep.id)' = {} /\ sweep'.epoch = {}
      BY <1>2, <1>5, <2>4 DEF Linked
    <3> QED
      BY <3>1 DEF DeletionIsApart
  <2> QED
    BY <2>3, <2>4
<1> QED
  BY <1>6, <1>7, <1>8, <1>9 DEF Upkeep

LEMMA UpkeepBegin ==
  ASSUME TypeOK, OneWorker, Upkeep, NEW v \in Servers, NEW tags,
         NEW history \in BOOLEAN, BeginDelete(v, "delete", tags, history, TRUE)
  PROVE  Upkeep'
<1> DEFINE row == sweep.status = "open"
           new == [Idle EXCEPT !.pc = "delete",
                          !.sweep = IF row THEN sweep.id ELSE NoSweep,
                          !.ready = IF history \/ row THEN Linked(sweep.id) ELSE {},
                          !.adds = [c \in Cards |-> tagged[c] \cap tags],
                          !.sides = tags \cap SideTags,
                          !.resets = history]
<1>1. /\ v \in Executors /\ v \notin Workers /\ exec[v].pc = "idle" /\ Step(v, new)
      /\ UNCHANGED <<sweep, batch, catalog>>
  BY DEF BeginDelete, Executors
<1>2. /\ new.pc = "delete" /\ new.sweep = (IF row THEN sweep.id ELSE NoSweep)
      /\ new.ready = (IF history \/ row THEN Linked(sweep.id) ELSE {})
      /\ new.resets = history
  BY DEF Idle
<1> HIDE DEF new
<1>3. exec'[v] = new /\ \A f \in Executors : f # v => exec'[f] = exec[f]
  BY <1>1, StepChanges
<1>4. Known' = Known /\ Linked(sweep.id)' = Linked(sweep.id)
      /\ InBatches(sweep.id)' = InBatches(sweep.id)
  BY <1>1 DEF Known, Linked, InBatches
<1>5. LoadsAreOwn'
  BY <1>1, <1>2, <1>3 DEF Upkeep, LoadsAreOwn, Executors
<1>6. RowIsWhole' /\ CardsAreKnown'
  BY <1>1, <1>3, <1>4 DEF Upkeep, RowIsWhole, CardsAreKnown, Executors
<1>7. \A w \in Workers : RunIsCurrent(w)'
  BY <1>1, <1>3, <1>4 DEF Upkeep, RunIsCurrent, Executors
<1>8. DeletionIsApart(v)'
  <2>1. CASE row
    <3>1. sweep.id # NoSweep
      BY <2>1 DEF Upkeep, RowIsWhole
    <3> QED
      BY <1>1, <1>2, <1>3, <2>1, <3>1 DEF DeletionIsApart
  <2>2. CASE ~row /\ ~history
    BY <1>2, <1>3, <2>2 DEF DeletionIsApart
  <2>3. CASE ~row /\ history /\ sweep.id # NoSweep
    <3>1. sweep.status = "complete"
      BY <2>3 DEF Upkeep, RowIsWhole, TypeOK, SweepRow
    <3> QED
      BY <1>1, <1>2, <1>3, <2>3, <3>1 DEF DeletionIsApart
  <2>4. CASE sweep.id = NoSweep
    <3>1. Linked(sweep.id) = {} /\ sweep.epoch = {}
      BY <2>4 DEF Linked, Upkeep, RowIsWhole
    <3> QED
      BY <1>1, <1>4, <3>1 DEF DeletionIsApart
  <2> QED
    BY <2>1, <2>2, <2>3, <2>4
<1>9. ASSUME NEW o \in Deleting', o # v PROVE DeletionIsApart(o)'
  <2>1. o \in Deleting /\ exec'[o] = exec[o]
    BY <1>3, <1>9 DEF Deleting, Executors
  <2> QED
    BY <1>1, <1>4, <2>1 DEF Upkeep, DeletionIsApart
<1> QED
  BY <1>5, <1>6, <1>7, <1>8, <1>9 DEF Upkeep

(* What the end of a deletion leaves of the sweep.                           *)
LEMMA EndOfDeletion ==
  ASSUME TypeOK, Bookkeeping, OneWorker, Upkeep, NEW v \in Servers, EndDelete(v)
  PROVE  /\ v \in Deleting /\ UNCHANGED catalog
         /\ exec'[v].pc \in {"idle", "drop"}
         /\ \A f \in Executors : f # v => exec'[f] = exec[f]
         /\ \/ sweep' = NoRow /\ sweep.id # NoSweep /\ exec[v].sweep = sweep.id
            \/ /\ exec[v].resets /\ sweep.status = "complete"
               /\ sweep'.id = sweep.id /\ sweep'.status = sweep.status /\ sweep'.epoch = {}
               /\ \A b \in Linked(sweep.id)' : b \in Linked(sweep.id) /\ batch'[b] = batch[b]
            \/ /\ sweep'.id = sweep.id /\ sweep'.status = sweep.status
               /\ sweep'.epoch = sweep.epoch
               /\ Linked(sweep.id)' = Linked(sweep.id)
               /\ \A b \in Linked(sweep.id) : batch'[b] = batch[b]
         /\ \A b \in Batches : batch'[b] = NoBatch
                               \/ /\ batch'[b].cards = batch[b].cards
                                  /\ batch'[b].failed = batch[b].failed
<1> DEFINE t == exec[v]
<1>1. /\ t.pc \in {"delete", "delete_first"} /\ UNCHANGED catalog /\ v \in Executors
      /\ v \in Deleting
      /\ batch' = [b \in Batches |-> Deleted(t, b)]
      /\ sweep' = IF t.sweep # NoSweep /\ sweep.id = t.sweep THEN NoRow
                  ELSE IF t.resets THEN [sweep EXCEPT !.epoch = {}]
                  ELSE sweep
  BY DEF EndDelete, Executors, Deleting
<1>2. PICK new : Step(v, new) /\ new.pc \in {"idle", "drop"}
  BY <1>1 DEF EndDelete, Idle
<1>3. exec'[v].pc \in {"idle", "drop"} /\ \A f \in Executors : f # v => exec'[f] = exec[f]
  BY <1>1, <1>2, StepChanges
<1>4. \A b \in Batches : \/ batch'[b] = NoBatch
                         \/ /\ batch'[b].cards = batch[b].cards
                            /\ batch'[b].failed = batch[b].failed
  BY <1>1 DEF Deleted, TypeOK, BatchRow
<1>5. DeletionIsApart(v)
  BY <1>1 DEF Upkeep
<1>6. CASE t.sweep # NoSweep /\ sweep.id = t.sweep
  BY <1>1, <1>3, <1>4, <1>6
<1>7. CASE ~(t.sweep # NoSweep /\ sweep.id = t.sweep)
  <2>1. /\ sweep'.id = sweep.id /\ sweep'.status = sweep.status
        /\ sweep'.epoch = (IF t.resets THEN {} ELSE sweep.epoch)
    BY <1>1, <1>7 DEF TypeOK, SweepRow
  <2>2. Linked(t.sweep) \cap Linked(sweep.id) = {}
    BY <1>7 DEF Linked
  <2>3. \A b \in Batches \ t.ready : b \in Linked(sweep.id) => batch'[b] = batch[b]
    BY <1>1, <2>2 DEF Deleted
  <2>4. ASSUME NEW b \in Linked(sweep.id)' PROVE b \in Linked(sweep.id) /\ batch'[b] = batch[b]
    <3>1. /\ b \in Batches /\ sweep.id # NoSweep
          /\ batch'[b].status # "none" /\ batch'[b].sweep = sweep.id
      BY <2>1, <2>4 DEF Linked
    <3>2. batch'[b] = batch[b]
      <4>1. NoBatch.status = "none"
        BY DEF NoBatch
      <4>2. [batch[b] EXCEPT !.sweep = NoSweep].sweep = NoSweep
        BY <3>1 DEF TypeOK, BatchRow
      <4> QED
        BY <1>1, <3>1, <4>1, <4>2 DEF Deleted
    <3> QED
      BY <3>1, <3>2 DEF Linked
  <2>5. CASE t.resets /\ sweep.status = "complete"
    BY <1>1, <1>3, <1>4, <2>1, <2>4, <2>5
  <2>6. CASE t.ready \cap Linked(sweep.id) = {} /\ (t.resets => sweep.epoch = {})
    <3>1. \A b \in Linked(sweep.id) : b \in Batches /\ b \notin t.ready
      BY <2>6 DEF Linked
    <3>2. \A b \in Linked(sweep.id) : batch'[b] = batch[b]
      BY <2>3, <3>1
    <3>3. Linked(sweep.id)' = Linked(sweep.id)
      BY <2>1, <2>4, <3>1, <3>2 DEF Linked
    <3> QED
      BY <1>1, <1>3, <1>4, <2>1, <2>6, <3>2, <3>3
  <2> QED
    BY <1>5, <1>7, <2>5, <2>6 DEF DeletionIsApart
<1> QED
  BY <1>6, <1>7

LEMMA UpkeepEnd ==
  ASSUME TypeOK, Bookkeeping, OneWorker, Upkeep, NEW v \in Servers, EndDelete(v)
  PROVE  Upkeep'
<1>1. /\ v \in Deleting /\ UNCHANGED catalog /\ Known' = Known
      /\ exec'[v].pc \in {"idle", "drop"}
      /\ \A f \in Executors : f # v => exec'[f] = exec[f]
      /\ \A b \in Batches : batch'[b] = NoBatch
                            \/ /\ batch'[b].cards = batch[b].cards
                               /\ batch'[b].failed = batch[b].failed
  BY EndOfDeletion DEF Known
<1>2. \/ sweep' = NoRow /\ sweep.id # NoSweep /\ exec[v].sweep = sweep.id
      \/ /\ exec[v].resets /\ sweep.status = "complete"
         /\ sweep'.id = sweep.id /\ sweep'.status = sweep.status /\ sweep'.epoch = {}
         /\ \A b \in Linked(sweep.id)' : b \in Linked(sweep.id) /\ batch'[b] = batch[b]
      \/ /\ sweep'.id = sweep.id /\ sweep'.status = sweep.status
         /\ sweep'.epoch = sweep.epoch
         /\ Linked(sweep.id)' = Linked(sweep.id)
         /\ \A b \in Linked(sweep.id) : batch'[b] = batch[b]
  BY EndOfDeletion
<1>3. v \notin Workers /\ Workers \subseteq Executors /\ Deleting \subseteq Executors
  BY DEF Executors, Deleting
<1>4. LoadsAreOwn'
  BY <1>1, <1>3 DEF Upkeep, LoadsAreOwn
<1>5. RowIsWhole'
  BY <1>2 DEF Upkeep, RowIsWhole, NoRow
<1>6. CardsAreKnown'
  <2>1. sweep'.epoch \subseteq Known
    BY <1>2 DEF Upkeep, CardsAreKnown, NoRow
  <2>2. \A b \in Batches : batch'[b].failed \subseteq batch'[b].cards /\ batch'[b].cards \subseteq Known
    BY <1>1 DEF Upkeep, CardsAreKnown, NoBatch
  <2> QED
    BY <1>1, <1>3, <2>1, <2>2 DEF Upkeep, CardsAreKnown
<1>7. ASSUME NEW w \in Workers PROVE RunIsCurrent(w)'
  <2>1. exec'[w] = exec[w] /\ RunIsCurrent(w)
    BY <1>1, <1>3 DEF Upkeep
  <2>2. CASE sweep' = NoRow
    <3>1. sweep'.id = NoSweep
      BY <2>2 DEF NoRow
    <3> QED
      BY <1>1, <2>1, <3>1 DEF RunIsCurrent, Processing
  <2>3. CASE sweep.status = "complete" /\ sweep'.id = sweep.id /\ sweep'.status = sweep.status
    <3>1. exec[w].pc \in Processing => sweep.id # exec[w].sweep
      BY <2>1, <2>3 DEF RunIsCurrent
    <3> QED
      BY <1>1, <2>1, <2>3, <3>1 DEF RunIsCurrent, Processing
  <2>4. CASE /\ sweep'.id = sweep.id /\ sweep'.status = sweep.status
             /\ sweep'.epoch = sweep.epoch
             /\ Linked(sweep.id)' = Linked(sweep.id)
             /\ \A b \in Linked(sweep.id) : batch'[b] = batch[b]
    <3>1. InBatches(sweep.id)' = InBatches(sweep.id)
      BY <2>4 DEF InBatches
    <3> QED
      BY <1>1, <2>1, <2>4, <3>1 DEF RunIsCurrent
  <2> QED
    BY <1>2, <2>2, <2>3, <2>4
<1>8. ASSUME NEW o \in Deleting' PROVE DeletionIsApart(o)'
  <2>1. o \in Deleting /\ exec'[o] = exec[o]
    BY <1>1, <1>3, <1>8 DEF Deleting, Executors
  <2>2. DeletionIsApart(o)
    BY <2>1 DEF Upkeep
  <2>3. CASE sweep' = NoRow
    <3>1. Linked(sweep.id)' = {} /\ sweep'.epoch = {}
      BY <2>3 DEF Linked, NoRow
    <3> QED
      BY <3>1 DEF DeletionIsApart
  <2>4. CASE /\ sweep.status = "complete" /\ sweep'.epoch = {}
             /\ sweep'.id = sweep.id /\ sweep'.status = sweep.status
             /\ \A b \in Linked(sweep.id)' : b \in Linked(sweep.id) /\ batch'[b] = batch[b]
    BY <2>1, <2>2, <2>4 DEF DeletionIsApart
  <2>5. CASE /\ sweep'.id = sweep.id /\ sweep'.status = sweep.status
             /\ sweep'.epoch = sweep.epoch
             /\ Linked(sweep.id)' = Linked(sweep.id)
    BY <2>1, <2>2, <2>5 DEF DeletionIsApart
  <2> QED
    BY <1>2, <2>3, <2>4, <2>5
<1> QED
  BY <1>4, <1>5, <1>6, <1>7, <1>8 DEF Upkeep

LEMMA UpkeepBatchEnds ==
  ASSUME TypeOK, Bookkeeping, OneWorker, Upkeep, NEW d \in Batches, BatchEnds(d)
  PROVE  Upkeep'
<1>1. PICK answer : batch' = [batch EXCEPT ![d] = Ended(d, answer)]
  BY DEF BatchEnds
<1>2. /\ batch[d] \in BatchRow /\ batch[d].status = "pending"
      /\ UNCHANGED <<sweep, exec, catalog>> /\ Known' = Known
  BY DEF BatchEnds, TypeOK, Known
<1>3. \A b \in Batches : /\ batch'[b].sweep = batch[b].sweep
                         /\ batch'[b].cards = batch[b].cards
                         /\ batch'[b].failed = batch[b].failed
                         /\ batch'[b].status = "none" <=> batch[b].status = "none"
  BY <1>1, <1>2 DEF TypeOK, Ended, BatchRow
<1>4. Linked(sweep.id)' = Linked(sweep.id)
  BY <1>2, <1>3 DEF Linked
<1>5. InBatches(sweep.id)' = InBatches(sweep.id)
  BY <1>3, <1>4 DEF InBatches, Linked
<1>6. LoadsAreOwn' /\ RowIsWhole'
  BY <1>2 DEF Upkeep, LoadsAreOwn, RowIsWhole
<1>7. CardsAreKnown'
  BY <1>2, <1>3 DEF Upkeep, CardsAreKnown
<1>8. \A w \in Workers : RunIsCurrent(w)'
  BY <1>2, <1>5 DEF Upkeep, RunIsCurrent
<1>9. \A o \in Deleting' : o \in Deleting /\ DeletionIsApart(o)'
  BY <1>2, <1>4 DEF Upkeep, DeletionIsApart, Deleting
<1> QED
  BY <1>6, <1>7, <1>8, <1>9 DEF Upkeep

(* A worker's step that writes nothing to the sweep and the batches, and     *)
(* neither begins nor ends a load.                                           *)
LEMMA UpkeepStep ==
  ASSUME TypeOK, OneWorker, Upkeep, UNCHANGED <<sweep, batch, catalog>>,
         NEW w \in Workers, NEW new, Step(w, new), exec[w].pc # "load", new.pc # "load",
         new.pc = "write" => new.cards \subseteq Known,
         RunIsCurrent(w)'
  PROVE  Upkeep'
<1>1. /\ Known' = Known /\ Linked(sweep.id)' = Linked(sweep.id)
      /\ w \in Executors /\ \A x \in Workers : x = w
  BY DEF Known, Linked, Executors, OneWorker
<1>2. exec'[w] = new /\ \A f \in Executors : f # w => exec'[f] = exec[f]
  BY <1>1, StepChanges
<1>3. LoadsAreOwn'
  BY <1>1, <1>2 DEF Upkeep, LoadsAreOwn, Executors
<1>4. RowIsWhole' /\ CardsAreKnown'
  BY <1>1, <1>2 DEF Upkeep, RowIsWhole, CardsAreKnown
<1>5. \A x \in Workers : RunIsCurrent(x)'
  BY <1>1
<1>6. ASSUME NEW o \in Deleting' PROVE DeletionIsApart(o)'
  <2>1. o # w /\ o \in Executors
    BY DEF Deleting, Executors
  <2>2. o \in Deleting /\ exec'[o] = exec[o]
    BY <1>2, <2>1 DEF Deleting
  <2> QED
    BY <1>1, <2>2 DEF Upkeep, DeletionIsApart
<1> QED
  BY <1>3, <1>4, <1>5, <1>6 DEF Upkeep

LEMMA UpkeepRun ==
  ASSUME TypeOK, Bookkeeping, OneWorker, Upkeep, NEW w \in Workers,
         Receive(w) \/ MaterializeRead(w) \/ Ack(w) \/ Classify(w) \/ Apply(w) \/ ProcessTask(w)
  PROVE  Upkeep'
<1> DEFINE t == exec[w]
<1>1. /\ w \in Executors /\ t \in Transaction /\ Known' = Known
      /\ InBatches(sweep.id)' = InBatches(sweep.id) /\ RunIsCurrent(w)
      /\ UNCHANGED <<sweep, batch, catalog>>
  <2>1. UNCHANGED <<sweep, batch, catalog>>
    BY DEF Receive, MaterializeRead, Ack, Classify, Apply, ProcessTask, Gather
  <2> QED
    BY <2>1 DEF Executors, TypeOK, Known, InBatches, Linked, Upkeep
<1>2. ASSUME NEW new, Step(w, new), new.pc \in {"idle", "ack", "read"}, t.pc # "load"
      PROVE  Upkeep'
  <2>1. exec'[w] = new
    BY <1>1, <1>2, StepChanges
  <2>2. RunIsCurrent(w)'
    BY <1>2, <2>1 DEF RunIsCurrent, Processing
  <2> QED
    BY <1>1, <1>2, <2>2, UpkeepStep
<1>3. CASE Receive(w)
  <2>1. PICK m : Step(w, [Idle EXCEPT !.pc = "read", !.msg = m])
    BY <1>3 DEF Receive
  <2>2. [Idle EXCEPT !.pc = "read", !.msg = m].pc = "read" /\ t.pc # "load"
    BY <1>3 DEF Idle, Receive
  <2> QED
    BY <1>2, <2>1, <2>2
<1>4. CASE Ack(w)
  BY <1>2, <1>4 DEF Ack, Idle
<1>5. CASE MaterializeRead(w)
  <2>1. CASE Step(w, Done(w))
    BY <1>2, <1>5, <2>1 DEF Done, Idle, MaterializeRead
  <2>2. ASSUME RunIsOpen(t.msg), NEW cards \in Chosen(t.msg),
               Step(w, [t EXCEPT !.pc = "write", !.cards = cards])
        PROVE  Upkeep'
    <3> DEFINE new == [t EXCEPT !.pc = "write", !.cards = cards]
    <3>1. new.pc = "write" /\ new.cards = cards /\ Step(w, new) /\ t.pc # "load"
      BY <1>1, <1>5, <2>2 DEF Transaction, MaterializeRead
    <3>2. cards \subseteq Known
      BY <2>2 DEF Chosen, Failed, Eligible, Known, Linked, Upkeep, CardsAreKnown
    <3> HIDE DEF new
    <3>3. exec'[w] = new
      BY <1>1, <3>1, StepChanges
    <3>4. RunIsCurrent(w)'
      BY <3>1, <3>3 DEF RunIsCurrent, Processing
    <3> QED
      BY <1>1, <3>1, <3>2, <3>4, UpkeepStep
  <2> QED
    BY <1>5, <2>1, <2>2 DEF MaterializeRead
<1>6. CASE Classify(w)
  <2>1. PICK adds : Step(w, [t EXCEPT !.pc = "apply", !.adds = adds])
    BY <1>6 DEF Classify
  <2> DEFINE new == [t EXCEPT !.pc = "apply", !.adds = adds]
  <2>2. new.pc = "apply" /\ new.sweep = t.sweep /\ Step(w, new) /\ t.pc = "classify"
    BY <1>1, <1>6, <2>1 DEF Transaction, Classify
  <2> HIDE DEF new
  <2>3. exec'[w] = new
    BY <1>1, <2>2, StepChanges
  <2>4. RunIsCurrent(w)'
    BY <1>1, <2>2, <2>3 DEF RunIsCurrent, Processing
  <2> QED
    BY <1>1, <2>2, <2>4, UpkeepStep
<1>7. CASE ProcessTask(w)
  <2>1. CASE UNCHANGED exec
    BY <1>1, <2>1, UpkeepFrame DEF SameStage
  <2>2. CASE ~UNCHANGED exec
    <3> DEFINE new == [Idle EXCEPT !.pc = "classify", !.sweep = sweep.id,
                                   !.filter = filter,
                                   !.sides = sweep.sides, !.made = sweep.sides \ sideTags,
                                   !.ready = Processable(sweep.id)]
    <3>1. Step(w, new) /\ sweep.status = "open" /\ t.pc # "load"
      BY <1>7, <2>2 DEF ProcessTask, Gather
    <3>2. new.pc = "classify" /\ new.sweep = sweep.id
      BY DEF Idle
    <3>3. sweep.id # NoSweep
      BY <3>1 DEF Upkeep, RowIsWhole
    <3> HIDE DEF new
    <3>4. exec'[w] = new
      BY <1>1, <3>1, StepChanges
    <3>5. RunIsCurrent(w)'
      BY <1>1, <3>1, <3>2, <3>3, <3>4 DEF RunIsCurrent, Processing
    <3> QED
      BY <1>1, <3>1, <3>2, <3>5, UpkeepStep
  <2> QED
    BY <2>1, <2>2
<1>8. CASE Apply(w)
  <2> DEFINE marked == {b \in t.ready : batch[b].status # "none"}
             adds == [c \in Cards |-> t.adds[c] \cap ({"main"} \cup sideTags \cup t.made)]
             complete == Complete(t.sweep, marked, t.filter)
             epoch == IF complete THEN {c \in Cards : catalog[c] # "unknown"} ELSE {}
             new == [t EXCEPT !.pc = "commit", !.ready = marked, !.adds = adds,
                              !.closes = complete, !.epoch = epoch]
  <2>1. (Step(w, new) \/ Step(w, Idle)) /\ t.pc = "apply"
    BY <1>8 DEF Apply
  <2>2. CASE Step(w, Idle)
    BY <1>2, <2>1, <2>2 DEF Idle
  <2>3. CASE Step(w, new)
    <3>1. /\ new.pc = "commit" /\ new.closes = complete /\ new.sweep = t.sweep
          /\ new.epoch = epoch /\ new.filter = t.filter
      <4> HIDE DEF marked, adds, complete, epoch
      <4> QED
        BY <1>1 DEF Transaction
    <3>2. \A c \in Cards : catalog[c] # "loading"
      <4>1. \A x \in Workers : exec[x].pc = "apply"
        BY <2>1 DEF OneWorker
      <4> QED
        BY <4>1 DEF Upkeep, LoadsAreOwn
    <3>3. complete => epoch = Known
      BY <3>2 DEF Known, TypeOK
    <3>4. complete => Known \cap t.filter \subseteq sweep.epoch \cup InBatches(t.sweep)
      BY DEF Complete, Eligible, Known
    <3> HIDE DEF new, marked, adds, complete, epoch
    <3>5. exec'[w] = new
      BY <1>1, <2>3, StepChanges
    <3>6. RunIsCurrent(w)'
      BY <1>1, <2>1, <3>1, <3>3, <3>4, <3>5 DEF RunIsCurrent, Processing
    <3> QED
      BY <1>1, <2>1, <2>3, <3>1, <3>6, UpkeepStep
  <2> QED
    BY <2>1, <2>2, <2>3
<1> QED
  BY <1>3, <1>4, <1>5, <1>6, <1>7, <1>8

(* What a materialization adds.                                              *)
LEMMA NewBatches ==
  ASSUME TypeOK, NEW w \in Workers, MaterializeWrite(w), ~UNCHANGED batch
  PROVE  /\ sweep.id = exec[w].msg.sweep
         /\ \A b \in Batches :
              \/ batch'[b] = batch[b]
              \/ /\ batch[b].status = "none" /\ \A e \in Executors : b \notin exec[e].ready
                 /\ batch'[b].status = "pending" /\ batch'[b].sweep = sweep.id
                 /\ batch'[b].cards \subseteq exec[w].cards /\ batch'[b].failed = {}
         /\ \A c \in exec[w].cards :
              \E b \in Batches : batch'[b].status = "pending" /\ batch'[b].sweep = sweep.id
                                 /\ c \in batch'[b].cards
         /\ \A b, d \in Batches :
              batch[b].status = "none" /\ batch[d].status = "none" /\ b # d
              /\ batch'[b] # batch[b] /\ batch'[d] # batch[d]
                => batch'[b].cards \cap batch'[d].cards = {}
<1> DEFINE m == exec[w].msg
           cards == exec[w].cards
<1>1. sweep.id = m.sweep
  BY DEF MaterializeWrite
<1>2. PICK new \in SUBSET FreshBatches :
        /\ Cardinality(new) = BatchCount(cards)
        /\ \E into \in [cards -> new] :
             /\ \A b \in new : Cardinality(Part(into, b)) \in 1..CardsPerBatch
             /\ batch' = [b \in Batches |-> IF b \in new THEN PendingBatch(m, Part(into, b))
                                            ELSE batch[b]]
  BY ONLY MaterializeWrite(w), ~UNCHANGED batch DEF MaterializeWrite
<1>3. PICK into \in [cards -> new] :
        batch' = [b \in Batches |-> IF b \in new THEN PendingBatch(m, Part(into, b))
                                    ELSE batch[b]]
  BY <1>2
<1>4. \A b \in new : /\ b \in Batches /\ batch[b].status = "none"
                     /\ \A e \in Executors : b \notin exec[e].ready
  BY <1>2 DEF FreshBatches
<1>5. \A b \in Batches :
        /\ b \notin new => batch'[b] = batch[b]
        /\ b \in new => /\ batch'[b].status = "pending" /\ batch'[b].sweep = sweep.id
                        /\ batch'[b].cards = {c \in cards : into[c] = b}
                        /\ batch'[b].failed = {}
  BY <1>1, <1>3 DEF PendingBatch, Part
<1>6. \A c \in cards : into[c] \in new
  OBVIOUS
<1> QED
  BY <1>1, <1>4, <1>5, <1>6

LEMMA UpkeepWrite ==
  ASSUME TypeOK, Bookkeeping, OneWorker, Upkeep, NEW w \in Workers, MaterializeWrite(w)
  PROVE  Upkeep'
<1>1. /\ w \in Executors /\ (\A x \in Workers : x = w) /\ UNCHANGED <<sweep, catalog>>
      /\ exec[w].pc = "write" /\ Step(w, Done(w)) /\ Done(w).pc \in {"idle", "ack"}
      /\ Known' = Known
  BY DEF MaterializeWrite, Executors, OneWorker, Done, Idle, Known
<1>2. exec'[w].pc \in {"idle", "ack"} /\ \A f \in Executors : f # w => exec'[f] = exec[f]
  BY <1>1, StepChanges
<1>3. CASE UNCHANGED batch
  BY <1>1, <1>2, <1>3, UpkeepFrame DEF SameStage
<1>4. CASE ~UNCHANGED batch
  <2>1. /\ sweep.id = exec[w].msg.sweep
        /\ \A b \in Batches :
             \/ batch'[b] = batch[b]
             \/ /\ batch[b].status = "none" /\ \A e \in Executors : b \notin exec[e].ready
                /\ batch'[b].status = "pending" /\ batch'[b].sweep = sweep.id
                /\ batch'[b].cards \subseteq exec[w].cards /\ batch'[b].failed = {}
    BY <1>4, NewBatches
  <2>2. LoadsAreOwn'
    BY <1>1, <1>2 DEF Upkeep, LoadsAreOwn, Executors
  <2>3. RowIsWhole'
    BY <1>1 DEF Upkeep, RowIsWhole
  <2>4. CardsAreKnown'
    BY <1>1, <1>2, <2>1 DEF Upkeep, CardsAreKnown
  <2>5. \A x \in Workers : RunIsCurrent(x)'
    BY <1>1, <1>2 DEF RunIsCurrent, Processing
  <2>6. ASSUME NEW o \in Deleting' PROVE DeletionIsApart(o)'
    <3>1. o # w /\ o \in Executors
      BY DEF Deleting, Executors
    <3>2. o \in Deleting /\ exec'[o] = exec[o]
      BY <1>2, <3>1 DEF Deleting
    <3>3. exec[o].ready \cap Linked(sweep.id)' \subseteq Linked(sweep.id)
      BY <1>1, <2>1, <3>1 DEF Linked
    <3> QED
      BY <1>1, <3>2, <3>3 DEF Upkeep, DeletionIsApart
  <2> QED
    BY <2>2, <2>3, <2>4, <2>5, <2>6 DEF Upkeep
<1> QED
  BY <1>3, <1>4

(* What a commit of verdicts does to the sweep and its batches.              *)
LEMMA CommitDoes ==
  ASSUME TypeOK, Bookkeeping, NEW e \in Executors, Commit(e)
  PROVE  /\ exec[e].pc = "commit" /\ UNCHANGED catalog
         /\ exec'[e] = Idle /\ \A f \in Executors : f # e => exec'[f] = exec[f]
         /\ sweep'.id = sweep.id
         /\ \/ sweep' = sweep
            \/ /\ exec[e].closes /\ sweep.id = exec[e].sweep /\ ~EpochLocked
               /\ sweep'.status = "complete" /\ sweep'.epoch = exec[e].epoch
               /\ \A b \in exec[e].ready : batch'[b].status = "processed"
         /\ Linked(sweep.id)' = Linked(sweep.id)
         /\ \A b \in Batches :
              \/ batch'[b] = batch[b]
              \/ /\ b \in exec[e].ready /\ batch'[b].status = "processed"
                 /\ batch'[b].cards = batch[b].cards /\ batch'[b].verdict = batch[b].verdict
                 /\ batch'[b].failed = {c \in batch[b].cards : batch[b].verdict[c] = "failed"}
<1> DEFINE t == exec[e]
<1>1. /\ t.pc = "commit" /\ t \in Transaction /\ Step(e, Idle) /\ UNCHANGED catalog
      /\ t.closes => ~EpochLocked
  BY DEF Commit, TypeOK
<1>2. exec'[e] = Idle /\ \A f \in Executors : f # e => exec'[f] = exec[f]
  BY <1>1, StepChanges
<1>3. CASE UNCHANGED <<batch, sweep>>
  <2>1. Linked(sweep.id)' = Linked(sweep.id)
    BY <1>3 DEF Linked
  <2> QED
    BY <1>1, <1>2, <1>3, <2>1
<1>4. CASE /\ batch' = [b \in Batches |-> IF b \in t.ready THEN Processed(batch[b])
                                          ELSE batch[b]]
           /\ sweep' = Closed(t)
  <2>1. ASSUME NEW row \in BatchRow
        PROVE  /\ Processed(row).status = "processed" /\ Processed(row).sweep = row.sweep
               /\ Processed(row).cards = row.cards /\ Processed(row).verdict = row.verdict
               /\ Processed(row).failed = {c \in row.cards : row.verdict[c] = "failed"}
    BY DEF Processed, BatchRow
  <2>2. \A b \in Batches :
          /\ b \notin t.ready => batch'[b] = batch[b]
          /\ b \in t.ready =>
               /\ batch'[b].status = "processed" /\ batch'[b].sweep = batch[b].sweep
               /\ batch'[b].cards = batch[b].cards /\ batch'[b].verdict = batch[b].verdict
               /\ batch'[b].failed = {c \in batch[b].cards : batch[b].verdict[c] = "failed"}
    <3> HIDE DEF Processed
    <3> QED
      BY <1>4, <2>1 DEF TypeOK
  <2>3. t.ready \subseteq Batches
    BY <1>1 DEF Transaction
  <2>4. /\ sweep'.id = sweep.id
        /\ \/ sweep' = sweep
           \/ /\ t.closes /\ sweep.id = t.sweep
              /\ sweep'.status = "complete" /\ sweep'.epoch = t.epoch
    BY <1>4 DEF Closed, TypeOK, SweepRow
  <2>5. \A b \in Batches : batch[b].status = "none" => batch[b].sweep = NoSweep
    BY DEF Bookkeeping, NoneIsFree, NoBatch
  <2>6. Linked(sweep.id)' = Linked(sweep.id)
    <3>1. \A b \in Batches : /\ batch'[b].sweep = batch[b].sweep
                             /\ batch[b].status # "none" => batch'[b].status # "none"
                             /\ batch'[b].status # "none" =>
                                  batch[b].status # "none" \/ batch[b].sweep = NoSweep
      BY <2>2, <2>5
    <3> QED
      BY <2>4, <3>1 DEF Linked
  <2> QED
    BY <1>1, <1>2, <2>2, <2>3, <2>4, <2>6
<1> QED
  BY <1>3, <1>4 DEF Commit

LEMMA UpkeepCommit ==
  ASSUME TypeOK, Bookkeeping, OneWorker, Upkeep, NEW w \in Workers, Commit(w)
  PROVE  Upkeep'
<1> DEFINE t == exec[w]
<1>1. /\ w \in Executors /\ (\A x \in Workers : x = w) /\ RunIsCurrent(w)
  BY DEF Executors, OneWorker, Upkeep
<1>2. /\ t.pc = "commit" /\ UNCHANGED catalog /\ Known' = Known
      /\ exec'[w] = Idle /\ \A f \in Executors : f # w => exec'[f] = exec[f]
      /\ sweep'.id = sweep.id /\ Linked(sweep.id)' = Linked(sweep.id)
      /\ \/ sweep' = sweep
         \/ /\ t.closes /\ sweep.id = t.sweep /\ ~EpochLocked
            /\ sweep'.status = "complete" /\ sweep'.epoch = t.epoch
  BY <1>1, CommitDoes DEF Known
<1>3. \A b \in Batches :
        \/ batch'[b] = batch[b]
        \/ /\ batch'[b].cards = batch[b].cards
           /\ batch'[b].failed = {c \in batch[b].cards : batch[b].verdict[c] = "failed"}
  BY <1>1, CommitDoes
<1>4. exec'[w].pc = "idle"
  BY <1>2 DEF Idle
<1>5. LoadsAreOwn'
  BY <1>1, <1>2, <1>4 DEF Upkeep, LoadsAreOwn, Executors
<1>6. RowIsWhole'
  <2>1. t.sweep # NoSweep
    BY <1>1, <1>2 DEF RunIsCurrent, Processing
  <2> QED
    BY <1>2, <2>1 DEF Upkeep, RowIsWhole
<1>7. CardsAreKnown'
  <2>1. sweep'.epoch \subseteq Known
    BY <1>1, <1>2 DEF Upkeep, CardsAreKnown, RunIsCurrent
  <2>2. \A b \in Batches : batch'[b].failed \subseteq batch'[b].cards /\ batch'[b].cards \subseteq Known
    BY <1>3 DEF Upkeep, CardsAreKnown
  <2> QED
    BY <1>1, <1>2, <1>4, <2>1, <2>2 DEF CardsAreKnown
<1>8. \A x \in Workers : RunIsCurrent(x)'
  BY <1>1, <1>4 DEF RunIsCurrent, Processing
<1>9. ASSUME NEW o \in Deleting' PROVE DeletionIsApart(o)'
  <2>1. o # w /\ o \in Executors
    BY <1>4 DEF Deleting, Executors
  <2>2. o \in Deleting /\ exec'[o] = exec[o] /\ DeletionIsApart(o)
    BY <1>2, <2>1, <1>9 DEF Deleting, Upkeep
  <2>3. CASE sweep' = sweep
    BY <1>2, <2>2, <2>3 DEF DeletionIsApart
  <2>4. CASE ~EpochLocked
    <3>1. ~exec[o].resets
      BY <2>2, <2>4 DEF EpochLocked
    <3> QED
      BY <1>2, <2>2, <3>1 DEF DeletionIsApart
  <2> QED
    BY <1>2, <2>3, <2>4
<1> QED
  BY <1>5, <1>6, <1>7, <1>8, <1>9 DEF Upkeep

LEMMA UpkeepLoad ==
  ASSUME TypeOK, Bookkeeping, OneWorker, Upkeep, NEW w \in Workers, Load(w) \/ LoadCommit(w)
  PROVE  Upkeep' /\ UNCHANGED <<sweep, batch>>
<1>1. /\ w \in Executors /\ (\A x \in Workers : x = w) /\ UNCHANGED <<sweep, batch>>
      /\ Linked(sweep.id)' = Linked(sweep.id)
  BY DEF Executors, OneWorker, Load, LoadCommit, Linked
<1>2. PICK new : /\ Step(w, new) /\ new.pc \in {"idle", "load"}
                 /\ Load(w) <=> new.pc = "load"
                 /\ Load(w) => \A c \in Cards : catalog'[c] =
                      (IF c \in new.cards THEN "loading" ELSE catalog[c])
                 /\ Load(w) => \A c \in new.cards : c \in Cards /\ catalog[c] = "unknown"
  <2>1. CASE Load(w)
    <3>1. PICK cards \in SUBSET {c \in Cards : catalog[c] = "unknown"} :
            /\ catalog' = [c \in Cards |-> IF c \in cards THEN "loading" ELSE catalog[c]]
            /\ Step(w, [Idle EXCEPT !.pc = "load", !.cards = cards])
      BY <2>1 DEF Load
    <3>2. /\ [Idle EXCEPT !.pc = "load", !.cards = cards].pc = "load"
          /\ [Idle EXCEPT !.pc = "load", !.cards = cards].cards = cards
      BY DEF Idle
    <3> QED
      BY <2>1, <3>1, <3>2
  <2>2. CASE ~Load(w)
    BY <2>2 DEF LoadCommit, Idle
  <2> QED
    BY <2>1, <2>2
<1>3. exec'[w] = new /\ \A f \in Executors : f # w => exec'[f] = exec[f]
  BY <1>1, <1>2, StepChanges
<1>4. ~Load(w) => /\ exec[w].pc = "load"
                  /\ \A c \in Cards : catalog'[c] = (IF c \in exec[w].cards THEN "known"
                                                     ELSE catalog[c])
  BY DEF LoadCommit
<1>5. Known \subseteq Known'
  BY <1>2, <1>4 DEF Known
<1>6. LoadsAreOwn'
  <2>1. CASE Load(w)
    <3>1. exec[w].pc = "idle"
      BY <2>1 DEF Load
    <3>2. \A c \in Cards : catalog[c] # "loading"
      BY <1>1, <3>1 DEF Upkeep, LoadsAreOwn
    <3>3. \A c \in Cards : catalog'[c] = "loading" <=> c \in new.cards
      BY <1>2, <2>1, <3>2
    <3> QED
      BY <1>1, <1>2, <1>3, <2>1, <3>3 DEF Upkeep, LoadsAreOwn, Executors
  <2>2. CASE ~Load(w)
    <3>1. \A c \in Cards : catalog[c] = "loading" <=> c \in exec[w].cards
      BY <1>1, <1>4, <2>2 DEF Upkeep, LoadsAreOwn
    <3>2. \A c \in Cards : catalog'[c] # "loading"
      BY <1>4, <2>2, <3>1
    <3> QED
      BY <1>1, <1>2, <1>3, <2>2, <3>2 DEF Upkeep, LoadsAreOwn, Executors
  <2> QED
    BY <2>1, <2>2
<1>7. RowIsWhole' /\ CardsAreKnown'
  BY <1>1, <1>2, <1>3, <1>5 DEF Upkeep, RowIsWhole, CardsAreKnown
<1>8. \A x \in Workers : RunIsCurrent(x)'
  BY <1>1, <1>2, <1>3 DEF RunIsCurrent, Processing
<1>9. ASSUME NEW o \in Deleting' PROVE DeletionIsApart(o)'
  <2>1. o # w /\ o \in Executors
    BY DEF Deleting, Executors
  <2>2. o \in Deleting /\ exec'[o] = exec[o]
    BY <1>3, <2>1 DEF Deleting
  <2> QED
    BY <1>1, <2>2 DEF Upkeep, DeletionIsApart
<1> QED
  BY <1>1, <1>6, <1>7, <1>8, <1>9 DEF Upkeep

LEMMA CrashDoes ==
  ASSUME TypeOK, OneWorker, Upkeep, NEW e \in Executors, Crash(e)
  PROVE  /\ UNCHANGED <<batch, sweep>> /\ Known' = Known
         /\ exec'[e] = Idle
         /\ \A f \in Executors \ {e} : SameStage(f) \/ f \notin Workers
         /\ \A f \in Executors \ {e} :
              /\ exec'[f].pc = exec[f].pc /\ exec'[f].sweep = exec[f].sweep
              /\ exec'[f].ready = exec[f].ready /\ exec'[f].resets = exec[f].resets
         /\ \A c \in Cards : catalog'[c] = (IF catalog[c] = "loading" /\ e \in Workers
                                            THEN "unknown" ELSE catalog[c])
<1> DEFINE lost == IF exec[e].pc = "load" THEN exec[e].cards ELSE {}
<1>1. lost \subseteq Cards /\ \A c \in Cards : c \in lost <=> catalog[c] = "loading" /\ e \in Workers
  BY DEF TypeOK, Transaction, OneWorker, Upkeep, LoadsAreOwn
<1> HIDE DEF lost
<1>2. /\ catalog' = [c \in Cards |-> IF c \in lost THEN "unknown" ELSE catalog[c]]
      /\ sweep' = [sweep EXCEPT !.epoch = @ \ lost]
      /\ exec' = [f \in Executors |-> IF f = e THEN Idle
                                      ELSE [exec[f] EXCEPT !.epoch = @ \ lost]]
      /\ UNCHANGED batch
  BY DEF Crash, lost
<1>3. Known' = Known
  BY <1>1, <1>2 DEF Known
<1>4. sweep.epoch \ lost = sweep.epoch
  BY <1>1 DEF Upkeep, CardsAreKnown, Known
<1>5. sweep' = sweep
  BY <1>2, <1>4 DEF TypeOK, SweepRow
<1>6. \A f \in Executors \ {e} :
        /\ exec'[f].pc = exec[f].pc /\ exec'[f].sweep = exec[f].sweep
        /\ exec'[f].filter = exec[f].filter
        /\ exec'[f].cards = exec[f].cards /\ exec'[f].ready = exec[f].ready
        /\ exec'[f].closes = exec[f].closes /\ exec'[f].resets = exec[f].resets
        /\ exec'[f].epoch = exec[f].epoch \ lost
  BY <1>2 DEF TypeOK, Transaction
<1>7. \A f \in Executors \ {e} : SameStage(f) \/ f \notin Workers
  <2>1. ASSUME NEW f \in Workers, f # e PROVE SameStage(f)
    <3>1. e \notin Workers
      BY <2>1 DEF OneWorker
    <3>2. lost = {}
      BY <1>1, <3>1
    <3> QED
      BY <1>6, <2>1, <3>2 DEF SameStage, Executors
  <2> QED
    BY <2>1
<1> QED
  BY <1>1, <1>2, <1>3, <1>5, <1>6, <1>7

LEMMA UpkeepCrash ==
  ASSUME TypeOK, Bookkeeping, OneWorker, Upkeep, NEW e \in Executors, Crash(e)
  PROVE  Upkeep'
<1>1. /\ UNCHANGED <<batch, sweep>> /\ Known' = Known /\ exec'[e].pc = "idle"
      /\ Linked(sweep.id)' = Linked(sweep.id) /\ InBatches(sweep.id)' = InBatches(sweep.id)
  BY CrashDoes DEF Idle, Linked, InBatches
<1>2. \A f \in Executors \ {e} :
        /\ exec'[f].pc = exec[f].pc /\ exec'[f].sweep = exec[f].sweep
        /\ exec'[f].ready = exec[f].ready /\ exec'[f].resets = exec[f].resets
        /\ f \in Workers => SameStage(f)
  BY CrashDoes
<1>3. \A c \in Cards : catalog'[c] = (IF catalog[c] = "loading" /\ e \in Workers
                                      THEN "unknown" ELSE catalog[c])
  BY CrashDoes
<1>4. LoadsAreOwn'
  <2>1. \A f \in Executors \ Workers : exec'[f].pc # "load"
    BY <1>1, <1>2 DEF Upkeep, LoadsAreOwn
  <2>2. CASE e \in Workers
    <3>1. \A c \in Cards : catalog'[c] # "loading"
      BY <1>3, <2>2
    <3>2. \A w \in Workers : exec'[w].pc = "idle"
      BY <1>1, <2>2 DEF OneWorker
    <3> QED
      BY <2>1, <3>1, <3>2 DEF LoadsAreOwn
  <2>3. CASE e \notin Workers
    <3>1. \A c \in Cards : catalog'[c] = catalog[c]
      BY <1>3, <2>3
    <3>2. \A w \in Workers : SameStage(w)
      BY <1>2, <2>3 DEF Executors
    <3> QED
      BY <2>1, <3>1, <3>2 DEF Upkeep, LoadsAreOwn, SameStage
  <2> QED
    BY <2>2, <2>3
<1>5. RowIsWhole'
  BY <1>1 DEF Upkeep, RowIsWhole
<1>6. CardsAreKnown'
  BY <1>1, <1>2 DEF Upkeep, CardsAreKnown, SameStage, Executors
<1>7. ASSUME NEW w \in Workers PROVE RunIsCurrent(w)'
  <2>1. RunIsCurrent(w) /\ (exec'[w].pc = "idle" \/ SameStage(w))
    BY <1>1, <1>2 DEF Upkeep, Executors
  <2> QED
    BY <1>1, <2>1 DEF RunIsCurrent, Processing, SameStage
<1>8. ASSUME NEW o \in Deleting' PROVE DeletionIsApart(o)'
  <2>1. o # e /\ o \in Executors
    BY <1>1 DEF Deleting, Executors
  <2>2. o \in Deleting
    BY <1>2, <2>1 DEF Deleting
  <2> QED
    BY <1>1, <1>2, <2>1, <2>2 DEF Upkeep, DeletionIsApart
<1> QED
  BY <1>4, <1>5, <1>6, <1>7, <1>8 DEF Upkeep

(* Everything that can happen with one worker and no shell.                  *)
LEMMA OneWorkerNext ==
  ASSUME OneWorker, Next
  PROVE  \/ Kickoff \/ KickoffFailed \/ Prune \/ CatchUp
         \/ UpdateTag
         \/ \E b \in Batches : BatchEnds(b)
         \/ \E w \in Workers : \/ Receive(w) \/ MaterializeRead(w) \/ Ack(w) \/ Classify(w)
                               \/ Apply(w) \/ ProcessTask(w)
         \/ \E w \in Workers : MaterializeWrite(w)
         \/ \E w \in Workers : Commit(w)
         \/ \E w \in Workers : Load(w) \/ LoadCommit(w)
         \/ \E v \in Servers : CleanReset(v)
         \/ \E v \in Servers : ApplyAudit(v)
         \/ \E v \in Servers : EndDelete(v)
         \/ \E e \in Executors : Crash(e)
  BY DEF Next, Run, Finish, OneWorker

LEMMA BeginsDelete ==
  ASSUME NEW v, CleanReset(v) \/ ApplyAudit(v)
  PROVE  \E tags \in SUBSET AllTags, history \in BOOLEAN :
           /\ BeginDelete(v, "delete", tags, history, TRUE)
           /\ CleanReset(v) => history = TRUE
<1>1. CASE CleanReset(v)
  <2>1. AllTags \in SUBSET AllTags /\ TRUE \in BOOLEAN
    OBVIOUS
  <2> QED
    BY <1>1, <2>1 DEF CleanReset
<1>2. CASE ~CleanReset(v)
  <2>1. PICK tags \in SUBSET AllTags : BeginDelete(v, "delete", tags, "main" \in tags, TRUE)
    BY <1>2 DEF ApplyAudit, AllTags
  <2>2. ("main" \in tags) \in BOOLEAN
    OBVIOUS
  <2> QED
    BY <1>2, <2>1, <2>2
<1> QED
  BY <1>1, <1>2

LEMMA UpkeepNext == OneWorker /\ TypeOK /\ Bookkeeping /\ Upkeep /\ [Next]_vars => Upkeep'
<1> SUFFICES ASSUME OneWorker, TypeOK, Bookkeeping, Upkeep, [Next]_vars PROVE Upkeep'
  OBVIOUS
<1>1. ASSUME NEW v \in Servers, CleanReset(v) \/ ApplyAudit(v) PROVE Upkeep'
  <2>1. PICK tags, history : /\ history \in BOOLEAN
                             /\ BeginDelete(v, "delete", tags, history, TRUE)
    BY <1>1, BeginsDelete
  <2> QED
    BY <2>1, UpkeepBegin
<1>2. CASE UNCHANGED vars
  BY <1>2, UpkeepFrame DEF vars, SameStage
<1>3. UpdateTag => Upkeep'
  BY UpkeepFrame DEF UpdateTag, SameStage
<1>4. CASE Next
  BY <1>1, <1>3, <1>4, OneWorkerNext, UpkeepRequest, UpkeepBatchEnds, UpkeepRun, UpkeepWrite,
     UpkeepCommit, UpkeepLoad, UpkeepEnd, UpkeepCrash
<1> QED
  BY <1>2, <1>4

LEMMA UpkeepInit == Init => Upkeep
  BY DEF Init, Upkeep, LoadsAreOwn, RowIsWhole, CardsAreKnown, RunIsCurrent, DeletionIsApart,
         Deleting, Executors, NoRow, NoBatch, Idle, Known, Processing

(* The invariants of one worker, together.                                   *)
OneWorkerInvariant == TypeOK /\ Bookkeeping /\ OneRun /\ Upkeep

LEMMA OneWorkerInductive ==
  ASSUME OneWorker
  PROVE  /\ Init => OneWorkerInvariant
         /\ OneWorkerInvariant /\ [Next]_vars => OneWorkerInvariant'
<1>1. Init => OneWorkerInvariant
  <2>1. Init => OneRun
    BY DEF Init, OneRun, CompleteMeansDone, Settled, NoRow, Idle, Executors
  <2> QED
    BY <2>1, TypeInit, BookkeepingInit, UpkeepInit DEF OneWorkerInvariant
<1>2. OneWorkerInvariant /\ [Next]_vars => OneWorkerInvariant'
  BY TypeNext, BookkeepingNext, OneRunNext, UpkeepNext DEF OneWorkerInvariant
<1> QED
  BY <1>1, <1>2

--------------------------------------------------------------------------------
(* What gives the epoch up.                                                  *)

LEMMA RequestLinks ==
  ASSUME TypeOK, Bookkeeping, Kickoff \/ KickoffFailed \/ Prune \/ CatchUp
  PROVE  \A b \in Linked(sweep.id)' :
           sweep'.id = sweep.id /\ b \in Linked(sweep.id) /\ batch'[b] = batch[b]
<1>1. CASE UNCHANGED batch /\ sweep'.id = sweep.id
  BY <1>1 DEF Linked
<1>2. CASE UNCHANGED batch /\ sweep.id = NoSweep /\ sweep'.id \in Sweeps
  BY <1>2 DEF Linked, Bookkeeping, BatchesOfSweep
<1>3. CASE PruneHistory /\ sweep'.id = sweep.id
  BY <1>3 DEF PruneHistory, Linked, NoBatch
<1> QED
  BY <1>1, <1>2, <1>3, RequestDoes

(* Steps of a transaction that leave the sweep and its batches as they are.  *)
LEMMA QuietWorker ==
  ASSUME NEW w,
         \/ Receive(w) \/ MaterializeRead(w) \/ Ack(w) \/ Classify(w)
         \/ Apply(w) \/ ProcessTask(w) \/ Load(w) \/ LoadCommit(w)
         \/ CleanReset(w) \/ ApplyAudit(w)
  PROVE  UNCHANGED <<sweep, batch>>
  BY DEF Receive, MaterializeRead, Ack, Classify, Apply, ProcessTask, Gather, Load, LoadCommit,
         CleanReset, ApplyAudit, BeginDelete

LEMMA ClosingCovers ==
  ASSUME OneWorkerInvariant, OneWorker, NEW w \in Workers, Commit(w), sweep' # sweep
  PROVE  /\ sweep'.epoch = Known
         /\ Known \cap exec[w].filter \subseteq sweep.epoch \cup InBatches(sweep.id)
         /\ \A b \in Linked(sweep.id) :
              batch'[b].status = "processed" /\ batch'[b].cards = batch[b].cards
<1>1. /\ exec[w].pc = "commit" /\ exec[w].closes /\ sweep.id = exec[w].sweep
      /\ sweep'.epoch = exec[w].epoch
      /\ \A b \in exec[w].ready : batch'[b].status = "processed"
      /\ \A b \in Batches :
              \/ batch'[b] = batch[b]
              \/ /\ b \in exec[w].ready /\ batch'[b].status = "processed"
                 /\ batch'[b].cards = batch[b].cards
  BY CommitDoes DEF OneWorkerInvariant, Executors
<1>2. RunIsCurrent(w) /\ Settled(w)
  BY DEF OneWorkerInvariant, Upkeep, OneRun
<1>3. \A b \in Linked(sweep.id) : b \in exec[w].ready \/ batch[b].status = "processed"
  BY <1>1, <1>2 DEF Settled
<1>4. Linked(sweep.id) \subseteq Batches
  BY DEF Linked
<1> QED
  BY <1>1, <1>2, <1>3, <1>4 DEF RunIsCurrent

(* Without audits that are applied, every deletion gives the epoch up.       *)
ResetsOnly == \A o \in Deleting : exec[o].resets

LEMMA ResetsOnlyNext ==
  ASSUME OneWorker, OneWorkerInvariant, "apply" \notin Commands, ResetsOnly, [Next]_vars
  PROVE  ResetsOnly'
<1> USE DEF OneWorkerInvariant
<1>1. SUFFICES ASSUME NEW o \in Deleting' PROVE exec'[o].resets
  BY DEF ResetsOnly
<1>2. o \in Executors /\ o \in Shells \cup Servers /\ exec'[o].pc \in {"delete", "delete_first"} /\ o \notin Workers
  BY DEF Deleting, Executors
<1>3. CASE exec'[o].pc = exec[o].pc /\ exec'[o].resets = exec[o].resets
  BY <1>2, <1>3 DEF ResetsOnly, Deleting
<1>4. CASE UNCHANGED exec
  BY <1>3, <1>4
<1>5. ASSUME NEW w \in Workers, NEW new, Step(w, new) PROVE exec'[o].resets
  <2>1. exec'[o] = exec[o]
    BY <1>2, <1>5, StepChanges DEF Executors
  <2> QED
    BY <1>3, <2>1
<1>6. ASSUME NEW w \in Workers,
             \/ Receive(w) \/ MaterializeRead(w) \/ Ack(w) \/ Classify(w)
             \/ Apply(w) \/ ProcessTask(w) \/ Load(w) \/ LoadCommit(w)
             \/ MaterializeWrite(w) \/ Commit(w)
      PROVE  exec'[o].resets
  <2>1. UNCHANGED exec \/ \E new : Step(w, new)
    BY <1>6 DEF Receive, MaterializeRead, Ack, Classify, Apply, ProcessTask, Gather,
                Load, LoadCommit, MaterializeWrite, Commit
  <2> QED
    BY <1>4, <1>5, <2>1
<1>7. ASSUME NEW v \in Servers, CleanReset(v) PROVE exec'[o].resets
  <2>1. PICK new : Step(v, new) /\ new.resets
    <3>1. \A place, s, ready, adds, sides :
            [Idle EXCEPT !.pc = place, !.sweep = s, !.ready = ready, !.adds = adds,
                         !.sides = sides, !.resets = TRUE].resets
      BY DEF Idle
    <3> QED
      BY <1>7, <3>1 DEF CleanReset, BeginDelete
  <2>2. CASE o = v
    BY <2>1, <2>2, StepChanges DEF Executors
  <2>3. CASE o # v
    BY <1>2, <1>3, <2>1, <2>3, StepChanges DEF Executors
  <2> QED
    BY <2>2, <2>3
<1>8. ASSUME NEW v \in Servers, EndDelete(v) PROVE exec'[o].resets
  <2>1. exec'[v].pc \in {"idle", "drop"} /\ \A f \in Executors : f # v => exec'[f] = exec[f]
    BY <1>8, EndOfDeletion
  <2> QED
    BY <1>2, <1>3, <2>1
<1>9. \A v : ~ApplyAudit(v)
  BY DEF ApplyAudit, Request
<1>10. ASSUME NEW e \in Executors, Crash(e) PROVE exec'[o].resets
  <2>1. o # e
    BY <1>2, <1>10, CrashDoes DEF Idle
  <2> QED
    BY <1>2, <1>3, <1>10, <2>1, CrashDoes
<1>11. Kickoff \/ KickoffFailed \/ UpdateTag \/ Prune \/ CatchUp => UNCHANGED exec
  BY RequestDoes DEF UpdateTag
<1>12. \A b \in Batches : BatchEnds(b) => UNCHANGED exec
  BY DEF BatchEnds
<1>13. CASE Next
  BY <1>4, <1>6, <1>7, <1>8, <1>9, <1>10, <1>11, <1>12, <1>13, OneWorkerNext
<1> QED
  BY <1>4, <1>13 DEF vars

LEMMA EpochStep ==
  ASSUME OneWorker, OneWorkerInvariant, ResetsOnly, "apply" \notin Commands, Next
  PROVE  sweep.epoch \subseteq sweep'.epoch \/ \E o \in Deleting : exec[o].resets
<1> USE DEF OneWorkerInvariant
<1>1. CASE Kickoff \/ KickoffFailed \/ Prune \/ CatchUp
  BY <1>1, RequestDoes DEF Upkeep, RowIsWhole
<1>2. CASE UNCHANGED sweep
  BY <1>2
<1>3. ASSUME NEW w \in Workers, Commit(w) PROVE sweep.epoch \subseteq sweep'.epoch
  <2>1. sweep' # sweep => sweep'.epoch = Known
    BY <1>3, ClosingCovers
  <2> QED
    BY <2>1 DEF Upkeep, CardsAreKnown
<1>4. ASSUME NEW v \in Servers, EndDelete(v) PROVE \E o \in Deleting : exec[o].resets
  <2>1. v \in Deleting
    BY <1>4, EndOfDeletion
  <2> QED
    BY <2>1 DEF ResetsOnly
<1>5. ASSUME NEW e \in Executors, Crash(e) PROVE UNCHANGED sweep
  BY <1>5, CrashDoes
<1>6. /\ \A b \in Batches : BatchEnds(b) => UNCHANGED sweep
      /\ \A w \in Workers : MaterializeWrite(w) => UNCHANGED sweep
      /\ UpdateTag => UNCHANGED sweep
  BY DEF BatchEnds, MaterializeWrite, UpdateTag
<1> QED
  BY <1>1, <1>2, <1>3, <1>4, <1>5, <1>6, OneWorkerNext, QuietWorker

(* With one worker and no shell, no kickoff, prune, catch-up, crash or       *)
(* process run shrinks the epoch: only a reset gives it up.                  *)
THEOREM OneWorkerEpochPreserved ==
  ASSUME OneWorker, "apply" \notin Commands
  PROVE  Spec => EpochPreserved
<1>1. /\ Init => OneWorkerInvariant
      /\ OneWorkerInvariant /\ [Next]_vars => OneWorkerInvariant'
  BY OneWorkerInductive
<1>2. Init => ResetsOnly
  BY DEF Init, ResetsOnly, Deleting, Executors, Idle
<1>3. OneWorkerInvariant /\ ResetsOnly /\ [Next]_vars => ResetsOnly'
  BY ResetsOnlyNext
<1>4. OneWorkerInvariant /\ ResetsOnly /\ [Next]_vars =>
        [sweep.epoch \subseteq sweep'.epoch \/ \E o \in Deleting : exec[o].resets]_vars
  BY EpochStep
<1> QED
  BY <1>1, <1>2, <1>3, <1>4, PTL DEF Spec, EpochPreserved

--------------------------------------------------------------------------------
(* The refinement of SweepCoverage.  With one worker, no shell, and failed   *)
(* cards not sent again: a linked batch is the only one of its cards, what   *)
(* is about to be written was eligible and still is, and a card under the    *)
(* epoch is in no batch that waits for its verdicts.                         *)

NoSecondChance == OneWorker /\ "redo" \notin Commands

OneLinkedBatchEach ==
  \A b, d \in Linked(sweep.id) : batch[b].cards \cap batch[d].cards # {} => b = d

WriteIsEligible == \A w \in Workers :
  exec[w].pc = "write" /\ sweep.id = exec[w].msg.sweep =>
    exec[w].cards \cap (sweep.epoch \cup InBatches(sweep.id)) = {}

EpochIsDone == \A b \in Linked(sweep.id) :
  batch[b].cards \cap sweep.epoch # {} => batch[b].status = "processed"

SentOnce == NoRedo /\ OneLinkedBatchEach /\ WriteIsEligible /\ EpochIsDone

(* Steps that add nothing to the batches, the epoch and what is written.     *)
LEMMA SentOnceFrame ==
  ASSUME SentOnce, NoRedo', sweep'.epoch \subseteq sweep.epoch,
         \A b \in Linked(sweep.id)' :
           /\ b \in Linked(sweep.id) /\ batch'[b].cards = batch[b].cards
           /\ batch[b].status = "processed" => batch'[b].status = "processed",
         \A w \in Workers : exec'[w].pc = "write" /\ sweep'.id = exec'[w].msg.sweep =>
           /\ exec[w].pc = "write" /\ sweep.id = exec[w].msg.sweep
           /\ exec'[w].cards = exec[w].cards
  PROVE  SentOnce'
<1>1. OneLinkedBatchEach'
  BY DEF SentOnce, OneLinkedBatchEach
<1>2. EpochIsDone'
  BY DEF SentOnce, EpochIsDone
<1>3. InBatches(sweep.id)' \subseteq InBatches(sweep.id)
  BY DEF InBatches
<1>4. WriteIsEligible'
  BY <1>3 DEF SentOnce, WriteIsEligible
<1> QED
  BY <1>1, <1>2, <1>4 DEF SentOnce

(* A step of one transaction that leaves the sweep and its batches alone.    *)
LEMMA SentOnceStep ==
  ASSUME TypeOK, SentOnce, UNCHANGED <<sweep, batch, queue>>,
         NEW e \in Executors, NEW new, Step(e, new), new.pc \notin {"read", "write"},
         new.msg = NoMessage \/ new.msg = exec[e].msg
  PROVE  SentOnce'
<1>1. exec'[e] = new /\ \A f \in Executors : f # e => exec'[f] = exec[f]
  BY StepChanges
<1>2. NoRedo'
  BY <1>1 DEF SentOnce, NoRedo, Executors, NoMessage
<1>3. Linked(sweep.id)' = Linked(sweep.id)
  BY DEF Linked
<1> QED
  BY <1>1, <1>2, <1>3, SentOnceFrame DEF Executors

LEMMA SentOnceRequest ==
  ASSUME OneWorkerInvariant, SentOnce, Kickoff \/ Prune \/ CatchUp
  PROVE  SentOnce'
<1> USE DEF OneWorkerInvariant
<1>1. UNCHANGED exec /\ sweep'.epoch \subseteq sweep.epoch
  BY RequestDoes DEF Upkeep, RowIsWhole
<1>2. NoRedo'
  <2>1. UNCHANGED queue \/ \E s, limit : SendMaterialize(s, limit, FALSE)
    BY DEF Kickoff, Prune, CatchUp
  <2> QED
    BY <1>1, <2>1 DEF SendMaterialize, SentOnce, NoRedo, NoMessage
<1>3. \A b \in Linked(sweep.id)' : b \in Linked(sweep.id) /\ batch'[b] = batch[b]
  BY RequestLinks
<1>4. ASSUME NEW w \in Workers, exec'[w].pc = "write", sweep'.id = exec'[w].msg.sweep
      PROVE  /\ exec[w].pc = "write" /\ sweep.id = exec[w].msg.sweep
             /\ exec'[w].cards = exec[w].cards
  <2>1. exec[w].msg # NoMessage /\ w \in Executors
    BY <1>1, <1>4 DEF SentOnce, NoRedo, Executors
  <2>2. sweep'.id = sweep.id \/ FreshSweep(sweep'.id)
    BY RequestDoes
  <2> QED
    BY <1>1, <1>4, <2>1, <2>2 DEF FreshSweep
<1> QED
  BY <1>1, <1>2, <1>3, <1>4, SentOnceFrame

LEMMA SentOnceRead ==
  ASSUME OneWorkerInvariant, SentOnce, NEW w \in Workers, MaterializeRead(w)
  PROVE  SentOnce'
<1> USE DEF OneWorkerInvariant
<1> DEFINE m == exec[w].msg
<1>1. /\ w \in Executors /\ exec[w] \in Transaction /\ exec[w].pc = "read"
      /\ UNCHANGED <<sweep, batch, queue>>
  BY DEF MaterializeRead, Executors, TypeOK
<1>2. CASE Step(w, Done(w))
  <2>1. Done(w).pc \in {"idle", "ack"} /\ (Done(w).msg = NoMessage \/ Done(w).msg = exec[w].msg)
    BY DEF Done, Idle
  <2> QED
    BY <1>1, <1>2, <2>1, SentOnceStep
<1>3. ASSUME RunIsOpen(m), NEW cards \in Chosen(m),
             Step(w, [exec[w] EXCEPT !.pc = "write", !.cards = cards])
      PROVE  SentOnce'
  <2> DEFINE new == [exec[w] EXCEPT !.pc = "write", !.cards = cards]
  <2>1. new.pc = "write" /\ new.cards = cards /\ new.msg = m /\ Step(w, new)
    BY <1>1, <1>3 DEF Transaction
  <2> HIDE DEF new
  <2>2. /\ exec'[w].pc = "write" /\ exec'[w].cards = cards /\ exec'[w].msg = m
        /\ \A f \in Executors : f # w => exec'[f] = exec[f]
    BY <1>1, <2>1, StepChanges
  <2>3. ~m.redo
    BY <1>1 DEF SentOnce, NoRedo
  <2>4. cards \cap (sweep.epoch \cup InBatches(sweep.id)) = {}
    <3>1. cards \subseteq Eligible(m.sweep, filter) /\ m.sweep = sweep.id
      BY <1>3, <2>3 DEF Chosen, RunIsOpen
    <3> QED
      BY <3>1 DEF Eligible
  <2>5. Linked(sweep.id)' = Linked(sweep.id) /\ InBatches(sweep.id)' = InBatches(sweep.id)
    BY <1>1 DEF Linked, InBatches
  <2>6. WriteIsEligible'
    BY <1>1, <2>2, <2>4, <2>5 DEF SentOnce, WriteIsEligible, Executors
  <2>7. NoRedo'
    BY <1>1, <2>2, <2>3 DEF SentOnce, NoRedo, Executors, NoMessage
  <2>8. OneLinkedBatchEach' /\ EpochIsDone'
    BY <1>1, <2>5 DEF SentOnce, OneLinkedBatchEach, EpochIsDone
  <2> QED
    BY <2>6, <2>7, <2>8 DEF SentOnce
<1> QED
  BY <1>1, <1>2, <1>3 DEF MaterializeRead

LEMMA SentOnceWrite ==
  ASSUME OneWorker, OneWorkerInvariant, SentOnce, NEW w \in Workers, MaterializeWrite(w)
  PROVE  SentOnce'
<1> USE DEF OneWorkerInvariant
<1>1. /\ w \in Executors /\ (\A x \in Workers : x = w) /\ UNCHANGED <<sweep, queue>>
      /\ exec[w].pc = "write" /\ Step(w, Done(w)) /\ Done(w).pc \in {"idle", "ack"}
      /\ Done(w).msg = NoMessage \/ Done(w).msg = exec[w].msg
  BY DEF MaterializeWrite, Executors, OneWorker, Done, Idle
<1>2. CASE UNCHANGED batch
  BY <1>1, <1>2, SentOnceStep
<1>3. CASE ~UNCHANGED batch
  <2>1. /\ sweep.id = exec[w].msg.sweep
        /\ \A b \in Batches :
             \/ batch'[b] = batch[b]
             \/ /\ batch[b].status = "none" /\ batch'[b].status = "pending"
                /\ batch'[b].cards \subseteq exec[w].cards
        /\ \A b, d \in Batches :
              batch[b].status = "none" /\ batch[d].status = "none" /\ b # d
              /\ batch'[b] # batch[b] /\ batch'[d] # batch[d]
                => batch'[b].cards \cap batch'[d].cards = {}
    BY <1>3, NewBatches
  <2>2. exec[w].cards \cap sweep.epoch = {} /\ exec[w].cards \cap InBatches(sweep.id) = {}
    BY <1>1, <2>1 DEF SentOnce, WriteIsEligible
  <2>3. \A b \in Linked(sweep.id)' :
          /\ b \in Batches
          /\ \/ b \in Linked(sweep.id) /\ batch'[b] = batch[b]
             \/ /\ batch[b].status = "none" /\ batch'[b] # batch[b]
                /\ batch'[b].cards \subseteq exec[w].cards
    BY <1>1, <2>1 DEF Linked
  <2>4. \A b \in Linked(sweep.id) : batch[b].cards \cap exec[w].cards = {}
    BY <2>2 DEF InBatches
  <2>5. OneLinkedBatchEach'
    BY <2>1, <2>3, <2>4 DEF SentOnce, OneLinkedBatchEach
  <2>6. EpochIsDone'
    BY <1>1, <2>2, <2>3 DEF SentOnce, EpochIsDone
  <2>7. exec'[w] = Done(w) /\ \A f \in Executors : f # w => exec'[f] = exec[f]
    BY <1>1, StepChanges
  <2>8. WriteIsEligible'
    BY <1>1, <2>7 DEF WriteIsEligible
  <2>9. NoRedo'
    BY <1>1, <2>7 DEF SentOnce, NoRedo, NoMessage
  <2> QED
    BY <2>5, <2>6, <2>8, <2>9 DEF SentOnce
<1> QED
  BY <1>2, <1>3

LEMMA SentOnceCommit ==
  ASSUME OneWorker, OneWorkerInvariant, SentOnce, NEW w \in Workers, Commit(w)
  PROVE  SentOnce'
<1> USE DEF OneWorkerInvariant
<1>1. /\ w \in Executors /\ (\A x \in Workers : x = w) /\ UNCHANGED queue
  BY DEF Commit, Executors, OneWorker
<1>2. /\ exec'[w] = Idle /\ (\A f \in Executors : f # w => exec'[f] = exec[f])
      /\ sweep'.id = sweep.id /\ Linked(sweep.id)' = Linked(sweep.id)
      /\ \A b \in Batches : \/ batch'[b] = batch[b]
                            \/ batch'[b].status = "processed" /\ batch'[b].cards = batch[b].cards
  BY <1>1, CommitDoes
<1>3. Idle.pc = "idle" /\ Idle.msg = NoMessage
  BY DEF Idle
<1>4. NoRedo'
  BY <1>1, <1>2, <1>3 DEF SentOnce, NoRedo, NoMessage
<1>5. \A b \in Linked(sweep.id) :
        /\ batch'[b].cards = batch[b].cards
        /\ batch[b].status = "processed" => batch'[b].status = "processed"
  BY <1>2 DEF Linked
<1>6. CASE sweep' = sweep
  BY <1>1, <1>2, <1>3, <1>4, <1>5, <1>6, SentOnceFrame
<1>7. CASE sweep' # sweep
  <2>1. \A b \in Linked(sweep.id) : batch'[b].status = "processed"
    BY <1>7, ClosingCovers
  <2>2. EpochIsDone'
    BY <1>2, <2>1 DEF EpochIsDone
  <2>3. OneLinkedBatchEach'
    BY <1>2, <1>5 DEF SentOnce, OneLinkedBatchEach
  <2>4. WriteIsEligible'
    BY <1>1, <1>2, <1>3 DEF WriteIsEligible
  <2> QED
    BY <1>4, <2>2, <2>3, <2>4 DEF SentOnce
<1> QED
  BY <1>6, <1>7

LEMMA SentOnceOther ==
  ASSUME OneWorkerInvariant, SentOnce, NEW e \in Executors,
         \/ Receive(e) /\ e \in Workers
         \/ Ack(e) \/ Classify(e) \/ Apply(e) \/ ProcessTask(e)
         \/ Load(e) \/ LoadCommit(e) \/ CleanReset(e) \/ ApplyAudit(e)
  PROVE  SentOnce'
<1> USE DEF OneWorkerInvariant
<1>1. UNCHANGED <<sweep, batch>> /\ exec[e] \in Transaction
  BY QuietWorker DEF TypeOK
<1>2. Linked(sweep.id)' = Linked(sweep.id)
  BY <1>1 DEF Linked
<1>3. CASE Receive(e) /\ e \in Workers
  <2>1. PICK m \in queue : /\ queue' = queue \ {m}
                           /\ Step(e, [Idle EXCEPT !.pc = "read", !.msg = m])
    BY <1>3 DEF Receive
  <2>2. /\ [Idle EXCEPT !.pc = "read", !.msg = m].pc = "read"
        /\ [Idle EXCEPT !.pc = "read", !.msg = m].msg = m
    BY DEF Idle
  <2>3. m # NoMessage /\ ~m.redo
    BY DEF TypeOK, NoMessage, Materialization, SentOnce, NoRedo
  <2>4. /\ exec'[e].pc = "read" /\ exec'[e].msg = m
        /\ \A f \in Executors : f # e => exec'[f] = exec[f]
    BY <2>1, <2>2, StepChanges
  <2>5. NoRedo'
    BY <1>3, <2>1, <2>3, <2>4 DEF SentOnce, NoRedo, NoMessage, Executors
  <2> QED
    BY <1>1, <1>2, <2>4, <2>5, SentOnceFrame DEF Executors
<1>4. CASE UNCHANGED exec /\ UNCHANGED queue
  <2>1. NoRedo'
    BY <1>4 DEF SentOnce, NoRedo, NoMessage
  <2> QED
    BY <1>1, <1>2, <1>4, <2>1, SentOnceFrame
<1>5. ASSUME UNCHANGED queue, NEW new, Step(e, new), new.pc \notin {"read", "write"},
             new.msg = NoMessage \/ new.msg = exec[e].msg
      PROVE  SentOnce'
  BY <1>1, <1>5, SentOnceStep
<1>6. CASE Ack(e) \/ LoadCommit(e)
  <2>1. UNCHANGED queue /\ Step(e, Idle)
    BY <1>6 DEF Ack, LoadCommit
  <2>2. Idle.pc = "idle" /\ Idle.msg = NoMessage
    BY DEF Idle
  <2> QED
    BY <1>5, <2>1, <2>2
<1>7. CASE Load(e)
  <2>1. PICK cards : Step(e, [Idle EXCEPT !.pc = "load", !.cards = cards]) /\ UNCHANGED queue
    BY <1>7 DEF Load
  <2>2. /\ [Idle EXCEPT !.pc = "load", !.cards = cards].pc = "load"
        /\ [Idle EXCEPT !.pc = "load", !.cards = cards].msg = NoMessage
    BY DEF Idle
  <2> QED
    BY <1>5, <2>1, <2>2
<1>8. CASE Classify(e)
  <2>1. PICK adds : Step(e, [exec[e] EXCEPT !.pc = "apply", !.adds = adds]) /\ UNCHANGED queue
    BY <1>8 DEF Classify
  <2>2. /\ [exec[e] EXCEPT !.pc = "apply", !.adds = adds].pc = "apply"
        /\ [exec[e] EXCEPT !.pc = "apply", !.adds = adds].msg = exec[e].msg
    BY <1>1 DEF Transaction
  <2> QED
    BY <1>5, <2>1, <2>2
<1>9. CASE Apply(e)
  <2>1. UNCHANGED queue /\ Idle.pc = "idle" /\ Idle.msg = NoMessage
    BY <1>9 DEF Idle, Apply
  <2>2. CASE Step(e, Idle)
    BY <1>5, <2>1, <2>2
  <2>3. CASE ~Step(e, Idle)
    <3>1. PICK new : Step(e, new) /\ new.pc = "commit" /\ new.msg = exec[e].msg
      <4>1. \E marked, adds, complete, epoch :
              Step(e, [exec[e] EXCEPT !.pc = "commit", !.ready = marked, !.adds = adds,
                                      !.closes = complete, !.epoch = epoch])
        BY <1>9, <2>3 DEF Apply
      <4>2. PICK marked, adds, complete, epoch :
              Step(e, [exec[e] EXCEPT !.pc = "commit", !.ready = marked, !.adds = adds,
                                      !.closes = complete, !.epoch = epoch])
        BY <4>1
      <4> DEFINE new == [exec[e] EXCEPT !.pc = "commit", !.ready = marked, !.adds = adds,
                                        !.closes = complete, !.epoch = epoch]
      <4>3. Step(e, new) /\ new.pc = "commit" /\ new.msg = exec[e].msg
        BY <1>1, <4>2 DEF Transaction
      <4> HIDE DEF new
      <4> QED
        BY <4>3
    <3> QED
      BY <1>5, <2>1, <3>1
  <2> QED
    BY <2>2, <2>3
<1>10. CASE ProcessTask(e)
  <2>1. UNCHANGED queue
    BY <1>10 DEF ProcessTask, Gather
  <2>2. CASE UNCHANGED exec
    BY <1>4, <2>1, <2>2
  <2>3. CASE ~UNCHANGED exec
    <3> DEFINE new == [Idle EXCEPT !.pc = "classify", !.sweep = sweep.id,
                                   !.filter = filter,
                                   !.sides = sweep.sides, !.made = sweep.sides \ sideTags,
                                   !.ready = Processable(sweep.id)]
    <3>1. Step(e, new)
      BY <1>10, <2>3 DEF ProcessTask, Gather
    <3>2. new.pc = "classify" /\ new.msg = NoMessage
      BY DEF Idle
    <3> HIDE DEF new
    <3> QED
      BY <1>5, <2>1, <3>1, <3>2
  <2> QED
    BY <2>2, <2>3
<1>11. CASE CleanReset(e) \/ ApplyAudit(e)
  <2>1. PICK tags, history : BeginDelete(e, "delete", tags, history, TRUE)
    BY <1>11, BeginsDelete
  <2> DEFINE row == TRUE /\ sweep.status = "open"
             new == [Idle EXCEPT !.pc = "delete",
                          !.sweep = IF row THEN sweep.id ELSE NoSweep,
                          !.ready = IF history \/ row THEN Linked(sweep.id) ELSE {},
                          !.adds = [c \in Cards |-> tagged[c] \cap tags],
                          !.sides = tags \cap SideTags,
                          !.resets = history]
  <2>2. Step(e, new) /\ UNCHANGED queue
    BY <2>1 DEF BeginDelete
  <2>3. new.pc = "delete" /\ new.msg = NoMessage
    BY DEF Idle
  <2> HIDE DEF new
  <2> QED
    BY <1>5, <2>2, <2>3
<1> QED
  BY <1>3, <1>6, <1>7, <1>8, <1>9, <1>10, <1>11

LEMMA BatchEndsDoes ==
  ASSUME TypeOK, NEW d \in Batches, BatchEnds(d)
  PROVE  /\ UNCHANGED <<sweep, catalog, exec, queue>>
         /\ \A b \in Batches : b # d => batch'[b] = batch[b]
         /\ batch[d].status = "pending" /\ batch'[d].status = "ended"
         /\ batch'[d].sweep = batch[d].sweep /\ batch'[d].cards = batch[d].cards
         /\ batch'[d].failed = batch[d].failed
         /\ Linked(sweep.id)' = Linked(sweep.id)
<1>1. PICK answer : batch' = [batch EXCEPT ![d] = Ended(d, answer)]
  BY DEF BatchEnds
<1>2. batch[d] \in BatchRow /\ batch[d].status = "pending" /\ UNCHANGED <<sweep, catalog, exec, queue>>
  BY DEF BatchEnds, TypeOK
<1>3. Ended(d, answer).status = "ended" /\ Ended(d, answer).sweep = batch[d].sweep
      /\ Ended(d, answer).cards = batch[d].cards /\ Ended(d, answer).failed = batch[d].failed
  BY <1>2 DEF Ended, BatchRow
<1>4. batch'[d] = Ended(d, answer) /\ \A b \in Batches : b # d => batch'[b] = batch[b]
  BY <1>1 DEF TypeOK
<1>5. Linked(sweep.id)' = Linked(sweep.id)
  BY <1>2, <1>3, <1>4 DEF Linked
<1> QED
  BY <1>2, <1>3, <1>4, <1>5

LEMMA SentOnceBatchEnds ==
  ASSUME OneWorkerInvariant, SentOnce, NEW d \in Batches, BatchEnds(d)
  PROVE  SentOnce'
<1>1. UNCHANGED <<sweep, exec, queue>> /\ Linked(sweep.id)' = Linked(sweep.id)
  BY BatchEndsDoes DEF OneWorkerInvariant
<1>2. \A b \in Linked(sweep.id)' :
        /\ b \in Linked(sweep.id) /\ batch'[b].cards = batch[b].cards
        /\ batch[b].status = "processed" => batch'[b].status = "processed"
  BY BatchEndsDoes DEF OneWorkerInvariant, Linked
<1>3. NoRedo'
  BY <1>1 DEF SentOnce, NoRedo, NoMessage
<1> QED
  BY <1>1, <1>2, <1>3, SentOnceFrame

LEMMA SentOnceEnd ==
  ASSUME OneWorker, OneWorkerInvariant, SentOnce, NEW v \in Servers, EndDelete(v)
  PROVE  SentOnce'
<1> USE DEF OneWorkerInvariant
<1>1. v \in Executors /\ v \notin Workers /\ UNCHANGED queue
  BY DEF Executors, EndDelete
<1>2. /\ \A f \in Executors : f # v => exec'[f] = exec[f]
      /\ \/ sweep' = NoRow
         \/ /\ sweep'.id = sweep.id /\ sweep'.epoch = {}
            /\ \A b \in Linked(sweep.id)' : b \in Linked(sweep.id) /\ batch'[b] = batch[b]
         \/ /\ sweep'.id = sweep.id /\ sweep'.epoch = sweep.epoch
            /\ Linked(sweep.id)' = Linked(sweep.id)
            /\ \A b \in Linked(sweep.id) : batch'[b] = batch[b]
  BY EndOfDeletion
<1>3. PICK new : Step(v, new) /\ new.msg = NoMessage
  BY DEF EndDelete, Idle
<1>4. exec'[v] = new
  BY <1>1, <1>3, StepChanges
<1>5. NoRedo'
  <2>1. \A e \in Executors \ Workers : exec'[e].msg = NoMessage
    BY <1>2, <1>3, <1>4 DEF SentOnce, NoRedo
  <2> QED
    BY <1>1, <1>2, <2>1 DEF SentOnce, NoRedo, NoMessage, Executors
<1>6. \A w \in Workers : exec'[w] = exec[w]
  BY <1>1, <1>2 DEF Executors
<1>7. sweep'.epoch \subseteq sweep.epoch
  BY <1>2 DEF NoRow
<1>8. \A b \in Linked(sweep.id)' : b \in Linked(sweep.id) /\ batch'[b] = batch[b]
  BY <1>2 DEF NoRow, Linked
<1>9. ASSUME NEW w \in Workers, exec'[w].pc = "write", sweep'.id = exec'[w].msg.sweep
      PROVE  /\ exec[w].pc = "write" /\ sweep.id = exec[w].msg.sweep
             /\ exec'[w].cards = exec[w].cards
  <2>1. exec'[w] = exec[w]
    BY <1>6
  <2>2. exec[w].msg \in Materialization
    BY <1>9, <2>1 DEF SentOnce, NoRedo, TypeOK, Transaction, Executors
  <2>3. sweep' # NoRow
    BY <1>9, <2>1, <2>2 DEF NoRow, Materialization
  <2> QED
    BY <1>2, <1>9, <2>1, <2>3
<1> QED
  BY <1>5, <1>7, <1>8, <1>9, SentOnceFrame

LEMMA SentOnceCrash ==
  ASSUME OneWorker, OneWorkerInvariant, SentOnce, NEW e \in Executors, Crash(e)
  PROVE  SentOnce'
<1> USE DEF OneWorkerInvariant
<1>1. UNCHANGED <<batch, sweep>> /\ exec'[e] = Idle
  BY CrashDoes
<1>2. \A f \in Executors \ {e} :
        /\ exec'[f].pc = exec[f].pc /\ exec'[f].msg = exec[f].msg
        /\ exec'[f].cards = exec[f].cards
  BY DEF Crash, TypeOK, Transaction
<1>3. Idle.pc = "idle" /\ Idle.msg = NoMessage
  BY DEF Idle
<1>4. queue' = (IF exec[e].msg = NoMessage THEN queue ELSE queue \cup {exec[e].msg})
  BY DEF Crash
<1>5. exec[e].msg # NoMessage => ~exec[e].msg.redo
  BY DEF SentOnce, NoRedo
<1>6. NoRedo'
  <2>1. \A m \in queue' : ~m.redo
    BY <1>4, <1>5 DEF SentOnce, NoRedo
  <2>2. \A f \in Executors \ Workers : exec'[f].msg = NoMessage
    BY <1>1, <1>2, <1>3 DEF SentOnce, NoRedo
  <2>3. ASSUME NEW w \in Workers
        PROVE  /\ exec'[w].msg # NoMessage => ~exec'[w].msg.redo
               /\ exec'[w].pc \in {"read", "write"} => exec'[w].msg # NoMessage
    <3>1. CASE w = e
      BY <1>1, <1>3, <3>1
    <3>2. CASE w # e
      <4>1. exec'[w].pc = exec[w].pc /\ exec'[w].msg = exec[w].msg
        BY <1>2, <3>2 DEF Executors
      <4> QED
        BY <4>1 DEF SentOnce, NoRedo
    <3> QED
      BY <3>1, <3>2
  <2> QED
    BY <2>1, <2>2, <2>3 DEF NoRedo, NoMessage
<1>7. Linked(sweep.id)' = Linked(sweep.id)
  BY <1>1 DEF Linked
<1> QED
  BY <1>1, <1>2, <1>3, <1>6, <1>7, SentOnceFrame DEF Executors

LEMMA SentOnceInit == Init => SentOnce
  BY DEF Init, SentOnce, NoRedo, OneLinkedBatchEach, WriteIsEligible, EpochIsDone, Linked,
         Executors, NoRow, Idle

LEMMA SentOnceNext ==
  ASSUME OneWorker, "redo" \notin Commands, OneWorkerInvariant, SentOnce, [Next]_vars
  PROVE  SentOnce'
<1>1. CASE UNCHANGED vars
  BY <1>1 DEF vars, SentOnce, NoRedo, OneLinkedBatchEach, WriteIsEligible, EpochIsDone, Linked,
              InBatches, NoMessage
<1>2. CASE UpdateTag
  BY <1>2 DEF UpdateTag, SentOnce, NoRedo, OneLinkedBatchEach, WriteIsEligible, EpochIsDone,
              Linked, InBatches, NoMessage
<1>3. CASE Next
  <2>1. ~KickoffFailed
    BY DEF KickoffFailed, Request
  <2>2. Workers \subseteq Executors /\ Servers \subseteq Executors
    BY DEF Executors
  <2>3. ASSUME NEW w \in Workers,
               Receive(w) \/ Ack(w) \/ Classify(w) \/ Apply(w) \/ ProcessTask(w)
               \/ Load(w) \/ LoadCommit(w)
        PROVE  SentOnce'
    BY <2>2, <2>3, SentOnceOther
  <2>4. ASSUME NEW v \in Servers, CleanReset(v) \/ ApplyAudit(v) PROVE SentOnce'
    BY <2>2, <2>4, SentOnceOther
  <2> QED
    BY <1>2, <1>3, <2>1, <2>3, <2>4, OneWorkerNext, SentOnceRequest, SentOnceRead,
       SentOnceWrite, SentOnceCommit, SentOnceBatchEnds, SentOnceEnd, SentOnceCrash
<1> QED
  BY <1>1, <1>3

(* Where a card stands, told from the only linked batch that may have it.    *)
CoverageByBatch == \A c \in Cards :
  /\ catalog[c] # "known" => Coverage[c] = "outside"
  /\ catalog[c] = "known" /\ c \notin InBatches(sweep.id) =>
       Coverage[c] = IF c \in sweep.epoch THEN "behind" ELSE "waiting"
  /\ \A b \in Linked(sweep.id) : c \in batch[b].cards =>
       /\ catalog[c] = "known"
       /\ Coverage[c] = IF batch[b].status # "processed" THEN "sent"
                        ELSE IF c \in batch[b].failed THEN "failed" ELSE "judged"

LEMMA CoverageFollows == CardsAreKnown /\ OneLinkedBatchEach => CoverageByBatch
<1> SUFFICES ASSUME CardsAreKnown, OneLinkedBatchEach, NEW c \in Cards
    PROVE  /\ catalog[c] # "known" => Coverage[c] = "outside"
           /\ catalog[c] = "known" /\ c \notin InBatches(sweep.id) =>
                Coverage[c] = IF c \in sweep.epoch THEN "behind" ELSE "waiting"
           /\ \A b \in Linked(sweep.id) : c \in batch[b].cards =>
                /\ catalog[c] = "known"
                /\ Coverage[c] = IF batch[b].status # "processed" THEN "sent"
                                 ELSE IF c \in batch[b].failed THEN "failed" ELSE "judged"
  BY DEF CoverageByBatch
<1> DEFINE covered == IF Judged(c) THEN "judged"
                      ELSE IF c \in Failed(sweep.id) THEN "failed"
                      ELSE IF c \in sweep.epoch THEN "behind"
                      ELSE "waiting"
<1>1. Coverage[c] = IF catalog[c] # "known" THEN "outside"
                    ELSE IF Sent(c) THEN "sent" ELSE covered
  BY DEF Coverage
<1> HIDE DEF covered
<1>2. Linked(sweep.id) \subseteq Batches
  BY DEF Linked
<1>3. ASSUME c \notin InBatches(sweep.id)
      PROVE  ~Sent(c) /\ covered = IF c \in sweep.epoch THEN "behind" ELSE "waiting"
  <2>1. \A b \in Linked(sweep.id) : c \notin batch[b].cards /\ c \notin batch[b].failed
    BY <1>2, <1>3 DEF InBatches, CardsAreKnown
  <2>2. ~Sent(c) /\ ~Judged(c) /\ c \notin Failed(sweep.id)
    BY <2>1 DEF Sent, Judged, Failed
  <2> QED
    BY <2>2 DEF covered
<1>4. ASSUME NEW b \in Linked(sweep.id), c \in batch[b].cards
      PROVE  /\ catalog[c] = "known" /\ (Sent(c) <=> batch[b].status # "processed")
             /\ batch[b].status = "processed" =>
                  covered = IF c \in batch[b].failed THEN "failed" ELSE "judged"
  <2>1. catalog[c] = "known"
    BY <1>2, <1>4 DEF CardsAreKnown, Known
  <2>2. \A d \in Linked(sweep.id) : c \in batch[d].cards => d = b
    BY <1>4 DEF OneLinkedBatchEach
  <2>3. \A d \in Linked(sweep.id) : c \in batch[d].failed => d = b
    BY <1>2, <2>2 DEF CardsAreKnown
  <2>4. Sent(c) <=> batch[b].status # "processed"
    BY <1>4, <2>2 DEF Sent
  <2>5. ASSUME batch[b].status = "processed"
        PROVE  /\ Judged(c) <=> c \notin batch[b].failed
               /\ c \in Failed(sweep.id) <=> c \in batch[b].failed
    BY <1>4, <2>2, <2>3, <2>5 DEF Judged, Failed
  <2> QED
    BY <2>1, <2>4, <2>5 DEF covered
<1> QED
  BY <1>1, <1>3, <1>4

LEMMA CoverageType == Coverage \in [Cards -> Promise!Stages]
  BY DEF Coverage, Promise!Stages

(* Steps over which a card keeps its place.                                  *)
LEMMA CardStays ==
  ASSUME CoverageByBatch, CoverageByBatch', NEW c \in Cards,
         catalog'[c] = "known" <=> catalog[c] = "known",
         c \in sweep'.epoch <=> c \in sweep.epoch,
         \A b \in Linked(sweep.id) : c \in batch[b].cards =>
           /\ b \in Linked(sweep.id)' /\ c \in batch'[b].cards
           /\ batch'[b].status = "processed" <=> batch[b].status = "processed"
           /\ c \in batch'[b].failed <=> c \in batch[b].failed,
         c \in InBatches(sweep.id)' => c \in InBatches(sweep.id)
  PROVE  Coverage'[c] = Coverage[c]
<1>1. CASE catalog[c] # "known"
  BY <1>1 DEF CoverageByBatch
<1>2. CASE catalog[c] = "known" /\ c \notin InBatches(sweep.id)
  BY <1>2 DEF CoverageByBatch
<1>3. CASE c \in InBatches(sweep.id)
  <2>1. PICK b \in Linked(sweep.id) : c \in batch[b].cards
    BY <1>3 DEF InBatches
  <2> QED
    BY <2>1 DEF CoverageByBatch
<1> QED
  BY <1>1, <1>2, <1>3

LEMMA AllStay ==
  ASSUME CoverageByBatch, CoverageByBatch', Known' = Known, sweep'.epoch = sweep.epoch,
         Linked(sweep.id)' = Linked(sweep.id),
         \A b \in Linked(sweep.id) :
           /\ batch'[b].cards = batch[b].cards /\ batch'[b].failed = batch[b].failed
           /\ batch'[b].status = "processed" <=> batch[b].status = "processed"
  PROVE  \A c \in Cards : Coverage'[c] = Coverage[c]
<1>1. InBatches(sweep.id)' = InBatches(sweep.id)
  BY DEF InBatches
<1>2. \A c \in Cards : catalog'[c] = "known" <=> catalog[c] = "known"
  BY DEF Known
<1> QED
  BY <1>1, <1>2, CardStays

(* All that a step of the refinement rests on.                               *)
Covered == OneWorkerInvariant /\ SentOnce /\ CoverageByBatch

LEMMA CoverageRequest ==
  ASSUME Covered, CoverageByBatch', Kickoff \/ Prune \/ CatchUp
  PROVE  Promise!Forget
<1> USE DEF Covered, OneWorkerInvariant
<1>1. SUFFICES ASSUME NEW c \in Cards
               PROVE  \/ Coverage'[c] = Coverage[c]
                      \/ Coverage[c] # "outside" /\ Coverage'[c] = "waiting"
                      \/ /\ Coverage[c] \in {"sent", "judged", "failed"}
                         /\ Coverage'[c] = "behind"
  BY DEF Promise!Forget
<1>2. /\ UNCHANGED catalog
      /\ \/ sweep'.id = sweep.id /\ sweep'.epoch = sweep.epoch
         \/ sweep.id = NoSweep /\ sweep'.epoch = {} /\ UNCHANGED batch
      /\ \/ UNCHANGED batch
         \/ PruneHistory /\ sweep'.id = sweep.id /\ (Prune \/ CatchUp)
  BY RequestDoes
<1>3. sweep'.epoch = sweep.epoch
  BY <1>2 DEF Upkeep, RowIsWhole
<1>4. \A b \in Linked(sweep.id)' : b \in Linked(sweep.id) /\ batch'[b] = batch[b]
  BY RequestLinks
<1>5. InBatches(sweep.id)' \subseteq InBatches(sweep.id)
  BY <1>4 DEF InBatches
<1>6. CASE UNCHANGED batch
  <2>1. Linked(sweep.id) \subseteq Linked(sweep.id)'
    BY <1>2, <1>6 DEF Linked
  <2> QED
    BY <1>2, <1>3, <1>5, <1>6, <2>1, CardStays
<1>7. CASE PruneHistory /\ (Prune \/ CatchUp)
  <2>2. CASE c \notin InBatches(sweep.id)
    <3>1. \A b \in Linked(sweep.id) : c \notin batch[b].cards
      BY <2>2 DEF InBatches
    <3> QED
      BY <1>2, <1>3, <1>5, <2>2, <3>1, CardStays
  <2>3. CASE c \in InBatches(sweep.id)
    <3>1. PICK b \in Linked(sweep.id) : c \in batch[b].cards
      BY <2>3 DEF InBatches
    <3>2. catalog[c] = "known" /\ b \in Batches
      BY <3>1 DEF CoverageByBatch, Linked
    <3>3. c \notin InBatches(sweep.id)'
      <4>1. Linked(sweep.id)' = {}
        BY <1>2, <1>4, <1>7 DEF PruneHistory, Linked, NoBatch
      <4> QED
        BY <4>1 DEF InBatches
    <3>4. Coverage'[c] = IF c \in sweep.epoch THEN "behind" ELSE "waiting"
      BY <1>2, <1>3, <3>2, <3>3 DEF CoverageByBatch
    <3>5. Coverage[c] \in {"sent", "judged", "failed"}
      BY <3>1 DEF CoverageByBatch
    <3> QED
      BY <3>4, <3>5
  <2> QED
    BY <2>2, <2>3
<1> QED
  BY <1>2, <1>6, <1>7

LEMMA CoverageWrite ==
  ASSUME OneWorker, Covered, CoverageByBatch', NEW w \in Workers, MaterializeWrite(w)
  PROVE  Promise!Move
<1> USE DEF Covered, OneWorkerInvariant
<1>1. SUFFICES ASSUME NEW c \in Cards
               PROVE  \/ Coverage'[c] = Coverage[c]
                      \/ Coverage[c] = "waiting" /\ Coverage'[c] = "sent"
  BY DEF Promise!Move, Promise!After
<1>2. UNCHANGED <<sweep, catalog>> /\ exec[w].pc = "write"
  BY DEF MaterializeWrite
<1>3. CASE UNCHANGED batch
  <2>1. Linked(sweep.id)' = Linked(sweep.id) /\ InBatches(sweep.id)' = InBatches(sweep.id)
    BY <1>2, <1>3 DEF Linked, InBatches
  <2> QED
    BY <1>2, <1>3, <2>1, CardStays
<1>4. CASE ~UNCHANGED batch
  <2>1. /\ sweep.id = exec[w].msg.sweep
        /\ \A b \in Batches :
             \/ batch'[b] = batch[b]
             \/ /\ batch[b].status = "none" /\ batch'[b].status = "pending"
                /\ batch'[b].cards \subseteq exec[w].cards
    BY <1>4, NewBatches
  <2>2. exec[w].cards \cap (sweep.epoch \cup InBatches(sweep.id)) = {}
    BY <1>2, <2>1 DEF SentOnce, WriteIsEligible
  <2>3. \A b \in Linked(sweep.id) : b \in Linked(sweep.id)' /\ batch'[b] = batch[b]
    BY <1>2, <2>1 DEF Linked
  <2>4. CASE c \notin InBatches(sweep.id)' \/ c \in InBatches(sweep.id)
    <3>1. \A b \in Linked(sweep.id) : c \in batch[b].cards =>
           /\ b \in Linked(sweep.id)' /\ c \in batch'[b].cards
           /\ batch'[b].status = "processed" <=> batch[b].status = "processed"
           /\ c \in batch'[b].failed <=> c \in batch[b].failed
      BY <2>3
    <3> QED
      BY <1>2, <2>4, <3>1, CardStays
  <2>5. CASE c \in InBatches(sweep.id)' /\ c \notin InBatches(sweep.id)
    <3>1. PICK b \in Linked(sweep.id)' : c \in batch'[b].cards
      BY <2>5 DEF InBatches
    <3>2. b \in Batches /\ batch'[b] # batch[b]
      BY <1>2, <2>5, <3>1 DEF Linked, InBatches
    <3>3. batch'[b].status = "pending" /\ c \in exec[w].cards
      BY <2>1, <3>1, <3>2
    <3>4. c \notin sweep.epoch /\ catalog[c] = "known"
      BY <1>2, <2>2, <3>3 DEF Upkeep, CardsAreKnown, Known
    <3>5. Coverage[c] = "waiting"
      BY <2>5, <3>4 DEF CoverageByBatch
    <3>6. Coverage'[c] = "sent"
      BY <3>1, <3>3 DEF CoverageByBatch
    <3> QED
      BY <3>5, <3>6
  <2> QED
    BY <2>4, <2>5
<1> QED
  BY <1>3, <1>4

LEMMA CoverageCommit ==
  ASSUME OneWorker, Covered, CoverageByBatch', NEW w \in Workers, Commit(w)
  PROVE  exec[w].filter \in FiltersInUse /\ Promise!Complete(exec[w].filter)
<1> USE DEF Covered, OneWorkerInvariant
<1>0. exec[w].filter \in FiltersInUse
  BY DEF Commit, FiltersInUse, RunsUnderWay, Executors
<1>1. SUFFICES ASSUME NEW c \in Cards
               PROVE  \/ Coverage'[c] = Coverage[c]
                      \/ Coverage[c] = "sent" /\ Coverage'[c] \in {"judged", "failed"}
                      \/ /\ c \notin exec[w].filter
                         /\ Coverage[c] = "waiting" /\ Coverage'[c] = "behind"
  BY <1>0 DEF Promise!Complete, Promise!After
<1>2. /\ UNCHANGED catalog /\ sweep'.id = sweep.id
      /\ Linked(sweep.id)' = Linked(sweep.id)
      /\ \A b \in Batches :
           \/ batch'[b] = batch[b]
           \/ /\ batch'[b].status = "processed" /\ batch'[b].cards = batch[b].cards
              /\ batch'[b].failed = {d \in batch[b].cards : batch[b].verdict[d] = "failed"}
  BY CommitDoes DEF Executors
<1>3. \A b \in Linked(sweep.id) : b \in Batches /\ batch'[b].cards = batch[b].cards
  BY <1>2 DEF Linked
<1>4. InBatches(sweep.id)' = InBatches(sweep.id)
  BY <1>2, <1>3 DEF InBatches
<1>5. CASE c \notin InBatches(sweep.id)
  <2>1. CASE sweep' = sweep
    <3>1. \A b \in Linked(sweep.id) : c \notin batch[b].cards
      BY <1>5 DEF InBatches
    <3> QED
      BY <1>2, <1>4, <2>1, <3>1, CardStays
  <2>2. CASE sweep' # sweep
    <3>1. /\ sweep'.epoch = Known
          /\ Known \cap exec[w].filter \subseteq sweep.epoch \cup InBatches(sweep.id)
      BY <2>2, ClosingCovers
    <3>2. sweep.epoch \subseteq Known
      BY DEF Upkeep, CardsAreKnown
    <3>3. CASE c \in sweep'.epoch <=> c \in sweep.epoch
      BY <1>2, <1>4, <1>5, <3>3 DEF CoverageByBatch
    <3>4. CASE c \in sweep'.epoch /\ c \notin sweep.epoch
      <4>1. c \notin exec[w].filter /\ catalog[c] = "known"
        BY <1>5, <3>1, <3>4 DEF Known
      <4>2. Coverage[c] = "waiting" /\ Coverage'[c] = "behind"
        BY <1>2, <1>4, <1>5, <3>4, <4>1 DEF CoverageByBatch
      <4> QED
        BY <4>1, <4>2
    <3> QED
      BY <3>1, <3>2, <3>3, <3>4
  <2> QED
    BY <2>1, <2>2
<1>6. CASE c \in InBatches(sweep.id)
  <2>1. PICK b \in Linked(sweep.id) : c \in batch[b].cards
    BY <1>6 DEF InBatches
  <2>2. /\ b \in Batches /\ b \in Linked(sweep.id)' /\ c \in batch'[b].cards
        /\ catalog'[c] = "known"
    BY <1>2, <1>3, <2>1 DEF CoverageByBatch
  <2>3. Coverage[c] = IF batch[b].status # "processed" THEN "sent"
                      ELSE IF c \in batch[b].failed THEN "failed" ELSE "judged"
    BY <2>1 DEF CoverageByBatch
  <2>4. Coverage'[c] = IF batch'[b].status # "processed" THEN "sent"
                       ELSE IF c \in batch'[b].failed THEN "failed" ELSE "judged"
    BY <2>2 DEF CoverageByBatch
  <2>5. CASE batch[b].status = "processed"
    <3>1. batch[b].verdict[c] = "failed" <=> c \in batch[b].failed
      BY <2>1, <2>5 DEF Bookkeeping, RecordedMeansApplied
    <3>2. batch'[b].status = "processed" /\ (c \in batch'[b].failed <=> c \in batch[b].failed)
      BY <1>2, <2>1, <2>2, <2>5, <3>1
    <3> QED
      BY <2>3, <2>4, <2>5, <3>2
  <2>6. CASE batch[b].status # "processed"
    BY <1>2, <2>2, <2>3, <2>4, <2>6
  <2> QED
    BY <2>5, <2>6
<1> QED
  BY <1>5, <1>6

LEMMA CoverageLoad ==
  ASSUME Covered, CoverageByBatch', NEW w, Load(w) \/ LoadCommit(w)
  PROVE  Promise!Move
<1> USE DEF Covered, OneWorkerInvariant
<1>1. SUFFICES ASSUME NEW c \in Cards
               PROVE  \/ Coverage'[c] = Coverage[c]
                      \/ Coverage[c] = "outside" /\ Coverage'[c] = "waiting"
  BY DEF Promise!Move, Promise!After
<1>2. /\ UNCHANGED <<sweep, batch>> /\ Linked(sweep.id)' = Linked(sweep.id)
      /\ InBatches(sweep.id)' = InBatches(sweep.id)
  <2>1. UNCHANGED <<sweep, batch>>
    BY DEF Load, LoadCommit
  <2> QED
    BY <2>1 DEF Linked, InBatches
<1>3. \/ catalog'[c] = "known" <=> catalog[c] = "known"
      \/ catalog[c] # "known" /\ catalog'[c] = "known"
  BY DEF Load, LoadCommit
<1>4. CASE catalog'[c] = "known" <=> catalog[c] = "known"
  BY <1>2, <1>4, CardStays
<1>5. CASE catalog[c] # "known" /\ catalog'[c] = "known"
  <2>1. c \notin sweep.epoch /\ c \notin InBatches(sweep.id)
    BY <1>5 DEF Upkeep, CardsAreKnown, Known, InBatches, Linked
  <2> QED
    BY <1>2, <1>5, <2>1 DEF CoverageByBatch
<1> QED
  BY <1>3, <1>4, <1>5

LEMMA CoverageEnd ==
  ASSUME OneWorker, Covered, CoverageByBatch', NEW v \in Servers, EndDelete(v)
  PROVE  Promise!Forget
<1> USE DEF Covered, OneWorkerInvariant
<1>1. SUFFICES ASSUME NEW c \in Cards
               PROVE  \/ Coverage'[c] = Coverage[c]
                      \/ Coverage[c] # "outside" /\ Coverage'[c] = "waiting"
  BY DEF Promise!Forget
<1>2. /\ UNCHANGED catalog
      /\ \/ sweep' = NoRow
         \/ /\ sweep'.id = sweep.id /\ sweep'.epoch = {}
            /\ \A b \in Linked(sweep.id)' : b \in Linked(sweep.id) /\ batch'[b] = batch[b]
         \/ /\ sweep'.id = sweep.id /\ sweep'.epoch = sweep.epoch
            /\ Linked(sweep.id)' = Linked(sweep.id)
            /\ \A b \in Linked(sweep.id) : batch'[b] = batch[b]
  BY EndOfDeletion
<1>3. CASE catalog[c] # "known"
  BY <1>2, <1>3 DEF CoverageByBatch
<1>4. CASE catalog[c] = "known"
  <2>1. Coverage[c] # "outside"
    <3>1. CASE c \notin InBatches(sweep.id)
      BY <1>4, <3>1 DEF CoverageByBatch
    <3>2. CASE c \in InBatches(sweep.id)
      <4>1. PICK b \in Linked(sweep.id) : c \in batch[b].cards
        BY <3>2 DEF InBatches
      <4> QED
        BY <4>1 DEF CoverageByBatch
    <3> QED
      BY <3>1, <3>2
  <2>2. CASE sweep' = NoRow
    <3>1. c \notin sweep'.epoch /\ c \notin InBatches(sweep.id)'
      BY <2>2 DEF NoRow, InBatches, Linked
    <3> QED
      BY <1>2, <1>4, <2>1, <3>1 DEF CoverageByBatch
  <2>3. CASE /\ sweep'.epoch = {}
             /\ \A b \in Linked(sweep.id)' : b \in Linked(sweep.id) /\ batch'[b] = batch[b]
    <3>1. CASE c \notin InBatches(sweep.id)'
      BY <1>2, <1>4, <2>1, <2>3, <3>1 DEF CoverageByBatch
    <3>2. CASE c \in InBatches(sweep.id)'
      <4>1. PICK b \in Linked(sweep.id)' : c \in batch'[b].cards
        BY <3>2 DEF InBatches
      <4> QED
        BY <2>3, <4>1 DEF CoverageByBatch
    <3> QED
      BY <3>1, <3>2
  <2>4. CASE /\ sweep'.epoch = sweep.epoch
             /\ Linked(sweep.id)' = Linked(sweep.id)
             /\ \A b \in Linked(sweep.id) : batch'[b] = batch[b]
    <3>1. Known' = Known
      BY <1>2 DEF Known
    <3> QED
      BY <2>4, <3>1, AllStay
  <2> QED
    BY <1>2, <2>2, <2>3, <2>4
<1> QED
  BY <1>3, <1>4

(* A run begins with the filter that is in force, and a run that ends, or    *)
(* goes on, brings no other.                                                 *)
LEMMA FiltersAreRead ==
  ASSUME OneWorker, TypeOK, Next
  PROVE  FiltersInUse' \subseteq FiltersInUse \cup {filter}
<1> USE DEF Executors
<1>1. SUFFICES ASSUME NEW e \in Executors, exec'[e].pc \in {"classify", "apply", "commit"}
               PROVE  \/ exec'[e].filter = filter
                      \/ /\ exec[e].pc \in {"classify", "apply", "commit"}
                         /\ exec'[e].filter = exec[e].filter
  BY DEF FiltersInUse, RunsUnderWay
<1>2. exec[e] \in Transaction
  BY DEF TypeOK
<1>3. CASE exec'[e] = exec[e]
  BY <1>1, <1>3
<1>4. ASSUME NEW f \in Executors, NEW new, Step(f, new),
             new.pc \notin {"classify", "apply", "commit"}
      PROVE  exec'[e] = exec[e]
  BY <1>1, <1>4, StepChanges
<1>5. CASE Kickoff \/ KickoffFailed \/ UpdateTag \/ Prune \/ CatchUp
           \/ \E b \in Batches : BatchEnds(b)
  BY <1>3, <1>5 DEF Kickoff, KickoffFailed, UpdateTag, Prune, CatchUp, BatchEnds
<1>6. ASSUME NEW w \in Workers, \/ Receive(w) \/ MaterializeRead(w) \/ Ack(w)
                                \/ MaterializeWrite(w) \/ Commit(w) \/ Load(w) \/ LoadCommit(w)
      PROVE  exec'[e] = exec[e]
  <2>1. PICK new : Step(w, new) /\ new.pc \notin {"classify", "apply", "commit"}
    <3>1. \A m : [Idle EXCEPT !.pc = "read", !.msg = m].pc = "read"
      BY DEF Idle
    <3>2. \A cards : [Idle EXCEPT !.pc = "load", !.cards = cards].pc = "load"
      BY DEF Idle
    <3>3. \A cards : [exec[w] EXCEPT !.pc = "write", !.cards = cards].pc = "write"
      BY DEF TypeOK, Transaction
    <3>4. Done(w).pc \in {"idle", "ack"} /\ Idle.pc = "idle"
      BY DEF Done, Idle
    <3> HIDE DEF Done, Idle
    <3> QED
      BY <1>6, <3>1, <3>2, <3>3, <3>4
         DEF Receive, MaterializeRead, Ack, MaterializeWrite, Commit, Load, LoadCommit
  <2> QED
    BY <1>4, <2>1
<1>7. ASSUME NEW w \in Workers, Classify(w) \/ Apply(w), w = e
      PROVE  /\ exec[e].pc \in {"classify", "apply", "commit"}
             /\ exec'[e].filter = exec[e].filter
  <2>1. CASE Classify(w)
    <3>1. PICK adds : Step(w, [exec[w] EXCEPT !.pc = "apply", !.adds = adds])
      BY <2>1 DEF Classify
    <3>2. [exec[w] EXCEPT !.pc = "apply", !.adds = adds].filter = exec[e].filter
      BY <1>2, <1>7 DEF Transaction
    <3> QED
      BY <1>7, <2>1, <3>1, <3>2, StepChanges DEF Classify
  <2>2. CASE Apply(w)
    <3>1. CASE Step(w, Idle)
      BY <1>1, <1>7, <3>1, StepChanges DEF Idle
    <3>2. CASE ~Step(w, Idle)
      <4>1. \E marked, adds, complete, epoch :
              Step(w, [exec[w] EXCEPT !.pc = "commit", !.ready = marked, !.adds = adds,
                                      !.closes = complete, !.epoch = epoch])
        BY <2>2, <3>2 DEF Apply
      <4>2. PICK marked, adds, complete, epoch :
              Step(w, [exec[w] EXCEPT !.pc = "commit", !.ready = marked, !.adds = adds,
                                      !.closes = complete, !.epoch = epoch])
        BY <4>1
      <4>3. [exec[w] EXCEPT !.pc = "commit", !.ready = marked, !.adds = adds,
                            !.closes = complete, !.epoch = epoch].filter = exec[e].filter
        BY <1>2, <1>7 DEF Transaction
      <4> QED
        BY <1>7, <2>2, <4>2, <4>3, StepChanges DEF Apply
    <3> QED
      BY <3>1, <3>2
  <2> QED
    BY <1>7, <2>1, <2>2
<1>8. ASSUME NEW w \in Workers, ProcessTask(w), w = e, exec'[e] # exec[e]
      PROVE  exec'[e].filter = filter
  <2> DEFINE new == [Idle EXCEPT !.pc = "classify", !.sweep = sweep.id, !.filter = filter,
                                 !.sides = sweep.sides, !.made = sweep.sides \ sideTags,
                                 !.ready = Processable(sweep.id)]
  <2>1. Step(w, new)
    BY <1>8 DEF ProcessTask, Gather
  <2>2. new.filter = filter
    BY DEF Idle
  <2> HIDE DEF new
  <2> QED
    BY <1>8, <2>1, <2>2, StepChanges
<1>9. ASSUME NEW w \in Workers, Classify(w) \/ Apply(w) \/ ProcessTask(w), w # e
      PROVE  exec'[e] = exec[e]
  <2>1. UNCHANGED exec \/ \E new : Step(w, new)
    BY <1>9 DEF Classify, Apply, ProcessTask, Gather
  <2> QED
    BY <1>9, <2>1, StepChanges
<1>10. ASSUME NEW v \in Servers, CleanReset(v) \/ ApplyAudit(v) \/ EndDelete(v)
       PROVE  exec'[e] = exec[e]
  <2>1. PICK new : Step(v, new) /\ new.pc \notin {"classify", "apply", "commit"}
    <3>1. CASE EndDelete(v)
      BY <3>1 DEF EndDelete, Idle
    <3>2. CASE CleanReset(v) \/ ApplyAudit(v)
      <4>1. PICK tags, history : BeginDelete(v, "delete", tags, history, TRUE)
        BY <3>2, BeginsDelete
      <4>2. \A s, ready, adds, sides, resets :
              [Idle EXCEPT !.pc = "delete", !.sweep = s, !.ready = ready, !.adds = adds,
                           !.sides = sides, !.resets = resets].pc = "delete"
        BY DEF Idle
      <4> QED
        BY <4>1, <4>2 DEF BeginDelete
    <3> QED
      BY <1>10, <3>1, <3>2
  <2> QED
    BY <1>4, <2>1
<1>11. ASSUME NEW f \in Executors, Crash(f)
       PROVE  exec'[e].pc = exec[e].pc /\ exec'[e].filter = exec[e].filter
  BY <1>1, <1>2, <1>11 DEF Crash, Idle, Transaction
<1> QED
  BY <1>1, <1>3, <1>5, <1>6, <1>7, <1>8, <1>9, <1>10, <1>11, OneWorkerNext

LEMMA CoverageStep ==
  ASSUME NoSecondChance, Covered, Covered', [Next]_vars
  PROVE  [Promise!Next]_<<Coverage, filter, FiltersInUse>>
<1> USE DEF Covered, OneWorkerInvariant
<1>1. OneWorker
  BY DEF NoSecondChance
<1>2. Coverage \in [Cards -> Promise!Stages] /\ Coverage' \in [Cards -> Promise!Stages]
  BY DEF Coverage, Promise!Stages
<1>3. filter' \subseteq Cards /\ FiltersInUse' \subseteq SUBSET Cards
  BY ConstantsAssumption DEF TypeOK, FiltersInUse, RunsUnderWay, Transaction
<1>4. CASE UNCHANGED vars
  <2>1. Coverage' = Coverage /\ FiltersInUse' = FiltersInUse
    BY <1>4 DEF vars, Coverage, FiltersInUse, RunsUnderWay, Sent, Judged, Failed, Linked
  <2> QED
    BY <1>4, <2>1 DEF vars
<1>5. SUFFICES ASSUME Next
               PROVE  \/ Promise!Move \/ Promise!Forget
                      \/ \E F \in FiltersInUse : Promise!Complete(F)
  BY <1>1, <1>2, <1>3, <1>4, <1>5, FiltersAreRead DEF Promise!Next, Promise!TypeOK
<1>6. (\A c \in Cards : Coverage'[c] = Coverage[c]) => Promise!Move
  BY DEF Promise!Move
<1>7. CASE UNCHANGED <<sweep, batch>> /\ Known' = Known
  <2>1. Linked(sweep.id)' = Linked(sweep.id)
    BY <1>7 DEF Linked
  <2> QED
    BY <1>6, <1>7, <2>1, AllStay
<1>8. ASSUME NEW w, \/ Receive(w) \/ MaterializeRead(w) \/ Ack(w) \/ Classify(w) \/ Apply(w)
                    \/ ProcessTask(w) \/ CleanReset(w) \/ ApplyAudit(w)
      PROVE  UNCHANGED <<sweep, batch>> /\ Known' = Known
  <2>1. UNCHANGED <<sweep, batch>>
    BY <1>8, QuietWorker
  <2>2. UNCHANGED catalog
    BY <1>8 DEF Receive, MaterializeRead, Ack, Classify, Apply, ProcessTask, Gather,
                CleanReset, ApplyAudit, BeginDelete
  <2> QED
    BY <2>1, <2>2 DEF Known
<1>9. ASSUME NEW b \in Batches, BatchEnds(b) PROVE Promise!Move
  <2>1. /\ Known' = Known /\ sweep'.epoch = sweep.epoch
        /\ Linked(sweep.id)' = Linked(sweep.id)
    BY <1>9, BatchEndsDoes DEF Known
  <2>2. \A d \in Linked(sweep.id) :
          /\ batch'[d].cards = batch[d].cards /\ batch'[d].failed = batch[d].failed
          /\ batch'[d].status = "processed" <=> batch[d].status = "processed"
    BY <1>9, BatchEndsDoes DEF Linked
  <2> QED
    BY <1>6, <2>1, <2>2, AllStay
<1>10. ASSUME NEW e \in Executors, Crash(e) PROVE UNCHANGED <<sweep, batch>> /\ Known' = Known
  BY <1>1, <1>10, CrashDoes
<1>11. UpdateTag => UNCHANGED <<sweep, batch>> /\ Known' = Known
  BY DEF UpdateTag, Known
<1>12. ~KickoffFailed
  BY DEF NoSecondChance, KickoffFailed, Request
<1> QED
  BY <1>1, <1>5, <1>7, <1>8, <1>9, <1>10, <1>11, <1>12, OneWorkerNext, CoverageRequest,
     CoverageWrite, CoverageCommit, CoverageLoad, CoverageEnd

(* Nothing is lost and nothing is paid twice.  With one worker and no shell, *)
(* and while failed cards are not sent again, every step of the sweeps is    *)
(* one that SweepCoverage allows: a card goes from the catalog through one   *)
(* batch to its verdict, and behind the epoch without one only if the run    *)
(* that completed the sweep had read a filter that excludes it, whatever is  *)
(* reset, pruned, updated or killed in between, and whatever the numbers of  *)
(* cards, batches and sweeps.                                                *)
THEOREM OneWorkerImplementsCoverage ==
  ASSUME NoSecondChance
  PROVE  Spec => ImplementsCoverage
<1> OneWorker /\ "redo" \notin Commands
  BY DEF NoSecondChance
<1> DEFINE Inv == OneWorkerInvariant /\ SentOnce
<1>1. Init => Inv
  BY OneWorkerInductive, SentOnceInit
<1>2. Inv /\ [Next]_vars => Inv'
  BY OneWorkerInductive, SentOnceNext
<1>3. Inv => Covered
  BY CoverageFollows DEF Covered, SentOnce, OneWorkerInvariant, Upkeep
<1>4. Init => Promise!Init
  <2>1. Init => Coverage = [c \in Cards |-> "outside"]
    BY DEF Init, Coverage
  <2>2. Init => FiltersInUse = {}
    BY DEF Init, FiltersInUse, RunsUnderWay, Idle
  <2>3. Init => filter \subseteq Cards
    BY ConstantsAssumption DEF Init
  <2> QED
    BY <2>1, <2>2, <2>3 DEF Promise!Init
<1>5. Covered /\ Covered' /\ [Next]_vars => [Promise!Next]_<<Coverage, filter, FiltersInUse>>
  BY CoverageStep
<1> QED
  BY <1>1, <1>2, <1>3, <1>4, <1>5, PTL DEF Spec, ImplementsCoverage, Promise!Spec, Promise!vars
================================================================================
