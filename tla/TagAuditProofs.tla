----------------------------- MODULE TagAuditProofs ----------------------------
(* Theorems about TagAudit, for any bounds, workers, shells and ceilings.    *)
EXTENDS TagAudit, WellFoundedInduction, TLAPS

--------------------------------------------------------------------------------
(* Type correctness.                                                         *)

(* A step that goes on with an audit or a batch has one.                     *)
Names(task) ==
  /\ task.pc \in {"sample", "send", "sendinit", "fetch"} => task.audit # 0
  /\ task.pc \in {"send", "polled", "fetch"} => task.batch # 0

TypeInv == TypeOK /\ \A e \in Executors : Names(exec[e])

LEMMA InitType == Init => TypeInv
  BY AuditAssumption
     DEF AuditAssumption, Init, TypeInv, TypeOK, TagRow, AuditRow, NoAudit, SweepRow, NoSweep, Task, Idle, Names

LEMMA IdleType == Idle \in Task /\ Names(Idle)
  BY AuditAssumption DEF AuditAssumption, Idle, Task, Names

LEMMA NoAuditType == NoAudit \in AuditRow
  BY AuditAssumption DEF AuditAssumption, NoAudit, AuditRow

LEMMA BecomeType ==
  ASSUME TypeInv, NEW e \in Executors, NEW task \in Task, Names(task), Become(e, task)
  PROVE  exec' \in [Executors -> Task] /\ \A x \in Executors : Names(exec'[x])
  BY DEF TypeInv, TypeOK, Become

LEMMA WithoutType ==
  ASSUME TypeInv, NEW rows
  PROVE  Without(rows) \in [Audits -> AuditRow]
<1>1. [NoAudit EXCEPT !.state = "deleted"] \in AuditRow
  BY NoAuditType DEF AuditRow
<1> QED
  BY <1>1 DEF Without, TypeInv, TypeOK

LEMMA NewAuditType == TypeInv => NewAudit \in AuditRow
  BY NoAuditType DEF NewAudit, AuditRow, TypeInv, TypeOK, TagRow

LEMMA RequestType ==
  ASSUME TypeInv, Request
  PROVE  requests' \in 0..MaxRequests
  BY AuditAssumption DEF AuditAssumption, TypeInv, TypeOK, Request

LEMMA FaultType ==
  ASSUME TypeInv, Fault
  PROVE  faults' \in 0..MaxFaults
  BY AuditAssumption DEF AuditAssumption, TypeInv, TypeOK, Fault

LEMMA ProcessedType ==
  ASSUME TypeInv, Processed
  PROVE  sweep' \in SweepRow
  BY DEF Processed, TypeInv, TypeOK, SweepRow

LEMMA ShellProcessedType ==
  ASSUME TypeInv, NEW s \in Shells, SweepProcessedByShell(s)
  PROVE  TypeInv'
  BY RequestType, ProcessedType DEF SweepProcessedByShell, TypeInv, TypeOK

(* The tag and what is asked of it.                                          *)
LEMMA TagType ==
  ASSUME TypeInv, CreateTag \/ UpdateTag \/ DeleteTag \/ Apply \/ Kickoff
  PROVE  TypeInv'
<1> USE AuditAssumption DEF AuditAssumption
<1>1. CASE CreateTag
  BY <1>1 DEF CreateTag, NewTag, TypeInv, TypeOK, TagRow
<1>2. CASE UpdateTag
  BY <1>2 DEF UpdateTag, Request, TypeInv, TypeOK, TagRow
<1>3. CASE DeleteTag
  <2>1. audit' \in [Audits -> AuditRow] /\ NoSweep \in SweepRow
    BY <1>3, WithoutType DEF DeleteTag, NoSweep, SweepRow
  <2>2. tag' \in TagRow
    <3>1. tag \in TagRow /\ tag' = [[tag EXCEPT !.id = 0] EXCEPT !.description = 0]
      BY <1>3 DEF DeleteTag, TypeInv, TypeOK, TagRow
    <3>2. [tag EXCEPT !.id = 0] \in TagRow
      BY <3>1 DEF TagRow
    <3> QED
      BY <3>1, <3>2 DEF TagRow
  <2> QED
    BY <1>3, <2>1, <2>2, RequestType DEF DeleteTag, TypeInv, TypeOK
<1>4. CASE Apply
  <2>1. Latest(OfTag(tag.id)) \in Audits
    BY <1>4 DEF Apply, Applicable, Latest, OfTag
  <2> QED
    BY <1>4, <2>1 DEF Apply, NoSweep, SweepRow, TypeInv, TypeOK, TagRow
<1>5. CASE Kickoff
  BY <1>5, NewAuditType DEF Kickoff, Request, SweepRow, TypeInv, TypeOK
<1> QED
  BY <1>1, <1>2, <1>3, <1>4, <1>5

LEMMA InitStepType ==
  ASSUME TypeInv, NEW e \in Executors,
         \/ e \in Workers /\ (SweepProcessed(e) \/ SendInit(e) \/ \E a \in Audits : InitRead(e, a))
         \/ e \in Shells /\ InitAudit(e)
  PROVE  TypeInv'
<1> USE AuditAssumption DEF AuditAssumption
<1>1. CASE SweepProcessed(e)
  <2>1. [Idle EXCEPT !.pc = "sendinit", !.audit = sweep.post] \in Task
    BY IdleType DEF Task, TypeInv, TypeOK, SweepRow
  <2>2. sweep.post # 0 => Names([Idle EXCEPT !.pc = "sendinit", !.audit = sweep.post])
    BY DEF Names, Idle
  <2> QED
    BY <1>1, <2>1, <2>2, IdleType, BecomeType, ProcessedType DEF SweepProcessed, TypeInv, TypeOK
<1>2. CASE SendInit(e)
  <2>1. <<"init", exec[e].audit>> \in Message
    BY <1>2 DEF SendInit, At, Message, TypeInv, TypeOK, Task, Names
  <2> QED
    BY <1>2, <2>1, IdleType, BecomeType DEF SendInit, TypeInv, TypeOK
<1>3. CASE e \in Workers /\ \E a \in Audits : InitRead(e, a)
  <2>1. PICK a \in Audits : InitRead(e, a)
    BY <1>3
  <2>2. [Idle EXCEPT !.pc = "sample", !.audit = a] \in Task /\ Names([Idle EXCEPT !.pc = "sample", !.audit = a])
    <3>1. [Idle EXCEPT !.pc = "sample", !.audit = a] \in Task
      BY IdleType DEF Task
    <3> QED
      BY <3>1 DEF Names, Idle, Audits
  <2> QED
    BY <2>1, <2>2, IdleType, BecomeType DEF InitRead, Take, TypeInv, TypeOK
<1>4. CASE e \in Shells /\ InitAudit(e)
  <2>1. PICK a \in Audits : Become(e, [Idle EXCEPT !.pc = "sample", !.audit = a, !.tag = tag.id])
    BY <1>4 DEF InitAudit
  <2>2. [Idle EXCEPT !.pc = "sample", !.audit = a, !.tag = tag.id] \in Task
    BY IdleType DEF Task, TypeInv, TypeOK, TagRow
  <2>3. Names([Idle EXCEPT !.pc = "sample", !.audit = a, !.tag = tag.id])
    BY DEF Names, Idle, Audits
  <2> QED
    BY <1>4, <2>1, <2>2, <2>3, BecomeType, RequestType DEF InitAudit, TypeInv, TypeOK
<1> QED
  BY <1>1, <1>2, <1>3, <1>4

LEMMA AttachType ==
  ASSUME TypeInv, NEW e \in Executors, Attach(e) \/ SendSubmit(e)
  PROVE  TypeInv'
<1> DEFINE a == exec[e].audit
<1>1. CASE Attach(e)
  <2>1. a \in Audits
    BY <1>1 DEF Attach, At, TypeInv, TypeOK, Task, Names
  <2>2. CASE Become(e, Idle) /\ UNCHANGED <<audit, batch, made>>
    BY <1>1, <2>2, IdleType, BecomeType DEF Attach, TypeInv, TypeOK
  <2>3. ASSUME NEW b \in Batches,
               batch' = [batch EXCEPT ![b] = "pending_submit"], made' = [made EXCEPT ![b] = a],
               audit' = Attached(e, a, b), Become(e, [Idle EXCEPT !.pc = "send", !.audit = a, !.batch = b])
        PROVE  TypeInv'
    <3>1. [Idle EXCEPT !.pc = "send", !.audit = a, !.batch = b] \in Task
      BY <2>1, IdleType DEF Task
    <3>2. Names([Idle EXCEPT !.pc = "send", !.audit = a, !.batch = b])
      BY <2>1 DEF Names, Idle, Audits, Batches
    <3>3. audit' \in [Audits -> AuditRow]
      <4>1. [audit[a] EXCEPT !.batch = b] \in AuditRow /\ [NewAudit EXCEPT !.batch = b] \in AuditRow
        BY <2>1, NewAuditType DEF TypeInv, TypeOK, AuditRow
      <4> QED
        BY <2>3, <4>1 DEF Attached, TypeInv, TypeOK
    <3> QED
      BY <1>1, <2>1, <2>3, <3>1, <3>2, <3>3, BecomeType DEF Attach, TypeInv, TypeOK, BatchStatuses
  <2> QED
    BY <1>1, <2>2, <2>3 DEF Attach
<1>2. CASE SendSubmit(e)
  <2>1. <<"submit", exec[e].batch>> \in Message
    BY <1>2 DEF SendSubmit, At, Message, TypeInv, TypeOK, Task, Names
  <2> QED
    BY <1>2, <2>1, IdleType, BecomeType DEF SendSubmit, TypeInv, TypeOK
<1> QED
  BY <1>1, <1>2

LEMMA PipelineType ==
  ASSUME TypeInv, NEW b \in Batches, NEW w \in Workers, Submit(w, b) \/ PollLoad(w, b) \/ Answer(b)
  PROVE  TypeInv'
<1>1. <<"submit", b>> \in Message /\ <<"poll", b>> \in Message /\ <<"process", b>> \in Message
  BY DEF Message
<1>2. CASE Submit(w, b)
  <2>1. faults' \in 0..MaxFaults
    BY <1>2, FaultType DEF Submit, TypeInv, TypeOK
  <2> QED
    BY <1>1, <1>2, <2>1 DEF Submit, TypeInv, TypeOK, BatchStatuses
<1>3. CASE PollLoad(w, b)
  <2>1. [Idle EXCEPT !.pc = "polled", !.batch = b] \in Task
    BY IdleType DEF Task
  <2>2. Names([Idle EXCEPT !.pc = "polled", !.batch = b]) /\ w \in Executors
    BY DEF Names, Idle, Batches, Executors
  <2>3. queue' \subseteq Message /\ UNCHANGED <<tag, audit, batch, result, sweep, made, requests, faults>>
    BY <1>1, <1>3 DEF PollLoad, Take, TypeInv, TypeOK
  <2>4. exec' = exec \/ Become(w, [Idle EXCEPT !.pc = "polled", !.batch = b])
    BY <1>3 DEF PollLoad
  <2> QED
    BY <2>1, <2>2, <2>3, <2>4, BecomeType DEF TypeInv, TypeOK
<1>4. CASE Answer(b)
  BY <1>4 DEF Answer, TypeInv, TypeOK
<1> QED
  BY <1>2, <1>3, <1>4

LEMMA PollWriteType ==
  ASSUME TypeInv, NEW w \in Workers, PollWrite(w)
  PROVE  TypeInv'
<1>1. exec[w].batch \in Batches /\ w \in Executors
  BY DEF PollWrite, At, TypeInv, TypeOK, Task, Names, Executors
<1>2. <<"poll", exec[w].batch>> \in Message /\ <<"process", exec[w].batch>> \in Message
  BY <1>1 DEF Message
<1>3. batch' \in [Batches -> BatchStatuses \cup {"unused", "deleted"}] /\ queue' \subseteq Message
  BY <1>1, <1>2 DEF PollWrite, TypeInv, TypeOK, BatchStatuses
<1>4. faults' \in 0..MaxFaults
  BY FaultType DEF PollWrite, TypeInv, TypeOK
<1> QED
  BY <1>1, <1>3, <1>4, IdleType, BecomeType DEF PollWrite, TypeInv, TypeOK

LEMMA ProcessType ==
  ASSUME TypeInv, NEW e \in Executors,
         \/ \E b \in Batches : ProcessRead(e, b)
         \/ \E a \in Audits : ProcessShell(e, a)
         \/ Store(e)
  PROVE  TypeInv'
<1>1. ASSUME NEW a \in Audits, Processable(a) PROVE Fetching(a) \in Task /\ Names(Fetching(a))
  <2>1. audit[a].batch \in Batches
    BY <1>1 DEF Processable, TypeInv, TypeOK, AuditRow
  <2>2. Fetching(a) \in Task
    BY <2>1, IdleType DEF Fetching, Task
  <2> QED
    BY <2>1, <2>2 DEF Fetching, Names, Idle, Audits, Batches
<1>2. ASSUME NEW b \in Batches, ProcessRead(e, b) PROVE TypeInv'
  <2>1. Become(e, Idle) \/ \E a \in Audits : Processable(a) /\ Become(e, Fetching(a))
    <3>1. ASSUME NEW a \in LinkedTo(b), Processable(a)
          PROVE  \A c \in LinkedTo(b) : c \in Audits /\ Processable(c)
      BY <3>1 DEF LinkedTo, Processable
    <3> QED
      BY <1>2, <3>1 DEF ProcessRead
  <2>2. queue' \subseteq Message /\ UNCHANGED <<tag, audit, batch, result, sweep, made, requests, faults>>
    BY <1>2 DEF ProcessRead, Take, TypeInv, TypeOK
  <2> QED
    BY <1>1, <2>1, <2>2, IdleType, BecomeType DEF TypeInv, TypeOK
<1>3. ASSUME NEW a \in Audits, ProcessShell(e, a) PROVE TypeInv'
  BY <1>1, <1>3, BecomeType, AuditAssumption DEF AuditAssumption, ProcessShell, Request, TypeInv, TypeOK
<1>4. CASE Store(e)
  <2> DEFINE a == exec[e].audit
             b == exec[e].batch
  <2>1. a \in Audits /\ b \in Batches
    BY <1>4 DEF Store, At, TypeInv, TypeOK, Task, Names
  <2>2. Reported(a, b) \in [Audits -> AuditRow]
    <3>1. Suggestion(b) \in {0} \cup Batches
      BY <2>1 DEF Suggestion
    <3>2. [audit[a] EXCEPT !.report = b, !.suggestion = Suggestion(b)] \in AuditRow
      BY <2>1, <3>1 DEF TypeInv, TypeOK, AuditRow
    <3> QED
      BY <3>2 DEF Reported, TypeInv, TypeOK
  <2>3. faults' \in 0..MaxFaults
    BY <1>4, FaultType DEF Store, TypeInv, TypeOK
  <2>4. audit' \in [Audits -> AuditRow] /\ batch' \in [Batches -> BatchStatuses \cup {"unused", "deleted"}]
    BY <1>4, <2>1, <2>2 DEF Store, TypeInv, TypeOK, BatchStatuses
  <2> QED
    BY <1>4, <2>3, <2>4, IdleType, BecomeType DEF Store, TypeInv, TypeOK
<1> QED
  BY <1>2, <1>3, <1>4

LEMMA DeletionType ==
  ASSUME TypeInv,
         \/ \E s \in Shells : Prune(s) \/ EndPrune(s)
         \/ \E ceiling \in Ceilings : DeleteBatches(ceiling)
         \/ \E a \in Audits : EnqueuePoll(a)
         \/ \E e \in Executors : Crash(e)
  PROVE  TypeInv'
<1> USE AuditAssumption DEF AuditAssumption
<1>1. ASSUME NEW gone PROVE WithoutBatches(gone) \in [Batches -> BatchStatuses \cup {"unused", "deleted"}]
  BY DEF WithoutBatches, TypeInv, TypeOK
<1>2. ASSUME NEW s \in Shells, Prune(s) PROVE TypeInv'
  <2> DEFINE gone == {audit[a].batch : a \in OfTag(tag.id)} \ {0}
  <2>1. gone \subseteq Batches
    BY DEF OfTag, TypeInv, TypeOK, AuditRow
  <2>2. [Idle EXCEPT !.pc = "prune", !.tag = tag.id, !.gone = gone] \in Task
    BY <2>1, IdleType DEF Task, TypeInv, TypeOK, TagRow
  <2>3. Names([Idle EXCEPT !.pc = "prune", !.tag = tag.id, !.gone = gone]) /\ s \in Executors
    BY DEF Names, Idle, Executors
  <2> QED
    BY <1>2, <2>2, <2>3, BecomeType, RequestType DEF Prune, TypeInv, TypeOK
<1>3. ASSUME NEW s \in Shells, EndPrune(s) PROVE TypeInv'
  <2>1. sweep' \in SweepRow
    BY <1>3 DEF EndPrune, NoSweep, SweepRow, TypeInv, TypeOK
  <2> QED
    BY <1>1, <1>3, <2>1, WithoutType, IdleType, BecomeType DEF EndPrune, Executors, TypeInv, TypeOK
<1>4. ASSUME NEW ceiling \in Ceilings, DeleteBatches(ceiling) PROVE TypeInv'
  <2>1. \A a \in Audits : [audit[a] EXCEPT !.batch = 0] \in AuditRow
    BY DEF TypeInv, TypeOK, AuditRow
  <2> QED
    BY <1>1, <1>4, <2>1 DEF DeleteBatches, Request, TypeInv, TypeOK
<1>5. ASSUME NEW a \in Audits, EnqueuePoll(a) PROVE TypeInv'
  <2>1. <<"poll", audit[a].batch>> \in Message
    BY <1>5 DEF EnqueuePoll, Message, TypeInv, TypeOK, AuditRow
  <2> QED
    BY <1>5, <2>1 DEF EnqueuePoll, Request, TypeInv, TypeOK
<1>6. ASSUME NEW e \in Executors, Crash(e) PROVE TypeInv'
  <2>1. exec[e] \in Task /\ Names(exec[e])
    BY DEF TypeInv, TypeOK
  <2>2. Unacked(exec[e]) \subseteq Message
    BY <2>1 DEF Unacked, Task, Names, Message
  <2> QED
    BY <1>6, <2>2, IdleType, BecomeType, FaultType DEF Crash, TypeInv, TypeOK
<1> QED
  BY <1>2, <1>3, <1>4, <1>5, <1>6

LEMMA NextType == TypeInv /\ [Next]_vars => TypeInv'
<1> SUFFICES ASSUME TypeInv, [Next]_vars PROVE TypeInv'
  OBVIOUS
<1>1. CASE UNCHANGED vars
  BY <1>1 DEF vars, TypeInv, TypeOK
<1>2. CASE CreateTag \/ UpdateTag \/ DeleteTag \/ Apply \/ Kickoff
  BY <1>2, TagType
<1>3. ASSUME NEW w \in Workers, SweepProcessed(w) \/ SendInit(w) \/ TakeMessage(w) \/ PollWrite(w) PROVE TypeInv'
  BY <1>3, InitStepType, PipelineType, PollWriteType, ProcessType DEF TakeMessage, Executors
<1>4. ASSUME NEW s \in Shells,
             InitAudit(s) \/ Prune(s) \/ EndPrune(s) \/ \E a \in Audits : ProcessShell(s, a)
      PROVE  TypeInv'
  BY <1>4, InitStepType, DeletionType, ProcessType DEF Executors
<1>8. ASSUME NEW s \in Shells, SweepProcessedByShell(s) PROVE TypeInv'
  BY <1>8, ShellProcessedType
<1>5. ASSUME NEW e \in Executors, Finish(e) \/ Crash(e) PROVE TypeInv'
  BY <1>5, AttachType, ProcessType, DeletionType DEF Finish
<1>6. CASE \/ \E a \in Audits : EnqueuePoll(a)
           \/ \E ceiling \in Ceilings : DeleteBatches(ceiling)
  BY <1>6, DeletionType
<1>7. ASSUME NEW b \in Batches, Answer(b) PROVE TypeInv'
  BY <1>7 DEF Answer, TypeInv, TypeOK
<1> QED
  BY <1>1, <1>2, <1>3, <1>4, <1>5, <1>6, <1>7, <1>8 DEF Next

(* Whatever is requested, deleted, redelivered or dies, an audit is a row    *)
(* with a batch of the outbox, a task names what it works on, and messages   *)
(* name batches and audits (init_tag_audit, poll_pipeline,                   *)
(* process_tag_audit).                                                       *)
THEOREM AuditTypeCorrect == Spec => []TypeOK
<1>1. TypeInv => TypeOK
  BY DEF TypeInv
<1> QED
  BY InitType, NextType, <1>1, PTL DEF Spec

--------------------------------------------------------------------------------
(* No stray batches.                                                         *)

OneWorker == \A v, w \in Workers : v = w

(* The audit a worker has found without a batch still has none; the one a    *)
(* shell is about to insert is nobody else's.                                *)
Sampling ==
  /\ \A w \in Workers : At(w, "sample") =>
       /\ audit[exec[w].audit].state # "none"
       /\ Row(exec[w].audit) => audit[exec[w].audit].batch = 0
  /\ \A s \in Shells : At(s, "sample") => audit[exec[s].audit].state = "none"
  /\ \A s, t \in Shells : At(s, "sample") /\ At(t, "sample") /\ exec[s].audit = exec[t].audit => s = t

MadeForRows == \A b \in Batches : made[b] # 0 => audit[made[b]].state # "none"

StrayInv == NoStrayBatch /\ Sampling /\ MadeForRows

LEMMA InitStray == Init => StrayInv
  BY DEF Init, StrayInv, NoStrayBatch, Sampling, MadeForRows, Exists, At, Idle, Row, NoAudit, Executors, BatchStatuses

(* A step that neither triggers an audit nor begins or ends its sampling:    *)
(* audits lose at most batches that are deleted, or are deleted themselves.  *)
Quiet ==
  /\ \A a \in Audits :
       \/ /\ audit'[a].state = audit[a].state
          /\ \/ audit'[a].batch = audit[a].batch
             \/ audit'[a].batch = 0 /\ batch'[audit[a].batch] \notin BatchStatuses
       \/ Row(a) /\ audit'[a].state = "deleted"
  /\ \A b \in Batches : batch'[b] \in BatchStatuses => Exists(b)
  /\ made' = made
  /\ \A e \in Executors : exec'[e] = exec[e] \/ exec'[e].pc # "sample"

LEMMA QuietStray ==
  ASSUME TypeInv, StrayInv, Quiet
  PROVE  StrayInv'
<1>1. \A e \in Executors : exec[e].audit \in {0} \cup Audits /\ (At(e, "sample") => exec[e].audit \in Audits)
  BY DEF TypeInv, TypeOK, Task, Names, At
<1>2. \A b \in Batches : made[b] \in {0} \cup Audits
  BY DEF TypeInv, TypeOK
<1>3. MadeForRows'
  BY <1>2 DEF StrayInv, MadeForRows, Quiet, Row
<1>4. NoStrayBatch'
  <2> SUFFICES ASSUME NEW b \in Batches, Exists(b)', Row(made[b])' PROVE audit'[made'[b]].batch = b
    BY DEF NoStrayBatch
  <2>1. Exists(b) /\ made'[b] = made[b] /\ made[b] \in Audits /\ audit'[made[b]].state = "row"
    BY <1>2 DEF Quiet, Exists, Row
  <2>2. Row(made[b])
    BY <2>1, AuditAssumption DEF Quiet, Row, Audits, AuditAssumption
  <2>3. audit[made[b]].batch = b
    BY <2>1, <2>2 DEF StrayInv, NoStrayBatch
  <2> QED
    BY <2>1, <2>3 DEF Quiet, Exists
<1>5. \A e \in Executors : At(e, "sample")' => At(e, "sample") /\ exec'[e] = exec[e]
  BY DEF At, Quiet
<1>6. Sampling'
  <2>1. ASSUME NEW w \in Workers, At(w, "sample")'
        PROVE  /\ audit'[exec'[w].audit].state # "none"
               /\ Row(exec[w].audit)' => audit'[exec'[w].audit].batch = 0
    <3>1. w \in Executors /\ At(w, "sample") /\ exec'[w] = exec[w] /\ exec[w].audit \in Audits
      BY <1>1, <1>5, <2>1 DEF Executors
    <3>2. /\ audit[exec[w].audit].state # "none"
          /\ Row(exec[w].audit) => audit[exec[w].audit].batch = 0
      BY <3>1 DEF StrayInv, Sampling
    <3> QED
      BY <3>1, <3>2 DEF Quiet, Row
  <2>2. ASSUME NEW s \in Shells, At(s, "sample")'
        PROVE  At(s, "sample") /\ exec'[s] = exec[s] /\ audit'[exec'[s].audit].state = "none"
    <3>1. s \in Executors /\ At(s, "sample") /\ exec'[s] = exec[s] /\ exec[s].audit \in Audits
      BY <1>1, <1>5, <2>2 DEF Executors
    <3> QED
      BY <3>1 DEF StrayInv, Sampling, Quiet, Row
  <2>3. \A s, t \in Shells : At(s, "sample")' /\ At(t, "sample")' /\ exec'[s].audit = exec'[t].audit => s = t
    BY <2>2 DEF StrayInv, Sampling
  <2> QED
    BY <2>1, <2>2, <2>3 DEF Sampling
<1> QED
  BY <1>3, <1>4, <1>6 DEF StrayInv

(* A new audit has no batch, and nobody has its number.                      *)
LEMMA NumberIsNew ==
  ASSUME TypeInv, NEW a \in Audits, NextAudit(a)
  PROVE  audit[a].state = "none" /\ \A s \in Shells : At(s, "sample") => exec[s].audit # a
<1>1. a \in Int /\ \A c \in Numbered : c < a
  BY DEF NextAudit, Audits
<1>2. a \notin Numbered
  BY <1>1
<1> QED
  BY <1>2 DEF Numbered

LEMMA KickoffStray ==
  ASSUME TypeInv, StrayInv, NEW a \in Audits, NextAudit(a), audit' = [audit EXCEPT ![a] = NewAudit],
         UNCHANGED <<batch, made, exec>>
  PROVE  StrayInv'
<1>1. audit[a].state = "none" /\ \A s \in Shells : At(s, "sample") => exec[s].audit # a
  BY NumberIsNew
<1>2. NewAudit.state = "row" /\ NewAudit.batch = 0
  BY DEF NewAudit, NoAudit
<1>3. \A c \in Audits : audit'[c] = IF c = a THEN NewAudit ELSE audit[c]
  BY DEF TypeInv, TypeOK
<1>4. \A b \in Batches : made[b] \in {0} \cup Audits /\ made[b] # a
  BY <1>1 DEF StrayInv, MadeForRows, TypeInv, TypeOK, Audits
<1>5. \A e \in Executors : At(e, "sample") => exec[e].audit \in Audits
  BY DEF TypeInv, TypeOK, Task, Names, At
<1>6. NoStrayBatch'
  BY <1>3, <1>4 DEF StrayInv, NoStrayBatch, Exists, Row
<1>7. MadeForRows'
  BY <1>3, <1>4 DEF StrayInv, MadeForRows
<1>8. Sampling'
  BY <1>1, <1>2, <1>3, <1>5 DEF StrayInv, Sampling, At, Row, Executors
<1> QED
  BY <1>6, <1>7, <1>8 DEF StrayInv

LEMMA SampleStray ==
  ASSUME TypeInv, StrayInv, NEW e \in Executors, NEW a \in Audits, NEW task,
         \/ e \in Workers /\ Startable(a)
         \/ e \in Shells /\ NextAudit(a),
         task.pc = "sample", task.audit = a, Become(e, task), UNCHANGED <<audit, batch, made>>
  PROVE  StrayInv'
<1>1. \A x \in Executors : exec'[x] = IF x = e THEN task ELSE exec[x]
  BY DEF Become, TypeInv, TypeOK
<1>2. NoStrayBatch' /\ MadeForRows'
  BY DEF StrayInv, NoStrayBatch, MadeForRows, Exists, Row
<1>3. CASE e \in Workers /\ Startable(a)
  <2>1. e \notin Shells
    BY <1>3, AuditAssumption DEF AuditAssumption
  <2> QED
    BY <1>1, <1>2, <1>3, <2>1 DEF StrayInv, Sampling, At, Row, Startable, Executors
<1>4. CASE e \in Shells /\ NextAudit(a)
  <2>1. e \notin Workers
    BY <1>4, AuditAssumption DEF AuditAssumption
  <2>2. audit[a].state = "none" /\ \A s \in Shells : At(s, "sample") => exec[s].audit # a
    BY <1>4, NumberIsNew
  <2> QED
    BY <1>1, <1>2, <1>4, <2>1, <2>2 DEF StrayInv, Sampling, At, Row, Executors
<1> QED
  BY <1>3, <1>4

LEMMA AttachStray ==
  ASSUME TypeInv, StrayInv, OneWorker, NEW e \in Executors, At(e, "sample"), NEW b \in Batches,
         e \in Workers => Row(exec[e].audit),
         NextBatch(b), batch' = [batch EXCEPT ![b] = "pending_submit"],
         made' = [made EXCEPT ![b] = exec[e].audit], audit' = Attached(e, exec[e].audit, b),
         NEW task, task.pc = "send", Become(e, task)
  PROVE  StrayInv'
<1> DEFINE a == exec[e].audit
<1>1. a \in Audits /\ \A x \in Executors : At(x, "sample") => exec[x].audit \in Audits
  BY DEF TypeInv, TypeOK, Task, Names, At
<1>2. \A x \in Executors : exec'[x] = IF x = e THEN task ELSE exec[x]
  BY DEF Become, TypeInv, TypeOK
<1>3. \A c \in Audits : c # a => audit'[c] = audit[c]
  BY <1>1 DEF Attached, TypeInv, TypeOK
<1>4. audit'[a].state = "row" /\ audit'[a].batch = b
  <2>1. audit[a] \in AuditRow /\ NewAudit \in AuditRow /\ NewAudit.state = "row"
    BY <1>1, NewAuditType DEF TypeInv, TypeOK, NewAudit, NoAudit
  <2>2. e \in Workers => audit[a].state = "row"
    BY DEF Row
  <2> QED
    BY <1>1, <2>1, <2>2 DEF Attached, TypeInv, TypeOK, AuditRow
<1>5. \A c \in Batches : c # b => batch'[c] = batch[c] /\ made'[c] = made[c]
  BY DEF TypeInv, TypeOK
<1>6. made'[b] = a
  BY DEF TypeInv, TypeOK
<1>7. \A c \in Batches : c # b => ~ (Exists(c) /\ made[c] = a)
  <2> SUFFICES ASSUME NEW c \in Batches, Exists(c), made[c] = a PROVE FALSE
    OBVIOUS
  <2>1. audit[a].state # "none"
    BY <1>1 DEF StrayInv, MadeForRows, Audits
  <2>2. e \notin Shells
    BY <2>1 DEF StrayInv, Sampling
  <2>3. Row(a) /\ audit[a].batch = 0
    BY <2>2 DEF Executors, StrayInv, Sampling
  <2> QED
    BY <2>3 DEF StrayInv, NoStrayBatch, Batches
<1>8. NoStrayBatch'
  <2> SUFFICES ASSUME NEW c \in Batches, Exists(c)', Row(made[c])' PROVE audit'[made'[c]].batch = c
    BY DEF NoStrayBatch
  <2>1. CASE c = b
    BY <1>4, <1>6, <2>1
  <2>2. CASE c # b
    <3>1. Exists(c) /\ made'[c] = made[c] /\ made[c] \in {0} \cup Audits
      BY <1>5, <2>2 DEF Exists, TypeInv, TypeOK
    <3>2. made[c] # a /\ made[c] \in Audits
      BY <1>7, <2>2, <3>1 DEF Row
    <3> QED
      BY <1>3, <3>1, <3>2 DEF StrayInv, NoStrayBatch, Row
  <2> QED
    BY <2>1, <2>2
<1>9. MadeForRows'
  <2> SUFFICES ASSUME NEW c \in Batches, made'[c] # 0 PROVE audit'[made'[c]].state # "none"
    BY DEF MadeForRows
  <2>1. made'[c] = a \/ (made'[c] = made[c] /\ made[c] \in Audits)
    BY <1>5, <1>6 DEF TypeInv, TypeOK
  <2> QED
    BY <1>3, <1>4, <2>1 DEF StrayInv, MadeForRows
<1>10. Sampling'
  <2>1. \A x \in Executors : At(x, "sample")' => x # e /\ At(x, "sample") /\ exec'[x] = exec[x]
    BY <1>2 DEF At
  <2>2. ASSUME NEW w \in Workers, At(w, "sample")'
        PROVE  /\ audit'[exec'[w].audit].state # "none"
               /\ Row(exec[w].audit)' => audit'[exec'[w].audit].batch = 0
    <3>1. w # e /\ At(w, "sample") /\ exec'[w] = exec[w] /\ exec[w].audit \in Audits
      BY <1>1, <2>1, <2>2 DEF Executors
    <3>2. e \in Shells /\ audit[a].state = "none"
      BY <3>1 DEF OneWorker, Executors, StrayInv, Sampling
    <3>3. exec[w].audit # a
      BY <3>1, <3>2 DEF StrayInv, Sampling
    <3> QED
      BY <1>3, <3>1, <3>3 DEF StrayInv, Sampling, Row
  <2>3. ASSUME NEW s \in Shells, At(s, "sample")'
        PROVE  At(s, "sample") /\ exec'[s] = exec[s] /\ audit'[exec'[s].audit].state = "none"
    <3>1. s # e /\ At(s, "sample") /\ exec'[s] = exec[s] /\ exec[s].audit \in Audits
      BY <1>1, <2>1, <2>3 DEF Executors
    <3>2. exec[s].audit # a
      BY <3>1 DEF StrayInv, Sampling, Executors
    <3> QED
      BY <1>3, <3>1, <3>2 DEF StrayInv, Sampling
  <2>4. \A s, t \in Shells : At(s, "sample")' /\ At(t, "sample")' /\ exec'[s].audit = exec'[t].audit => s = t
    BY <2>3 DEF StrayInv, Sampling
  <2> QED
    BY <2>2, <2>3, <2>4 DEF Sampling
<1> QED
  BY <1>8, <1>9, <1>10 DEF StrayInv


LEMMA EndTask ==
  ASSUME TypeInv, NEW x \in Executors, NEW task, Become(x, task), task.pc # "sample"
  PROVE  \A e \in Executors : exec'[e] = exec[e] \/ exec'[e].pc # "sample"
  BY DEF Become, TypeInv, TypeOK

LEMMA TaskKinds ==
  /\ Idle.pc # "sample"
  /\ \A a : [Idle EXCEPT !.pc = "sendinit", !.audit = a].pc # "sample"
  /\ \A b : [Idle EXCEPT !.pc = "polled", !.batch = b].pc # "sample"
  /\ \A id, gone : [Idle EXCEPT !.pc = "prune", !.tag = id, !.gone = gone].pc # "sample"
  /\ \A a : Fetching(a).pc # "sample"
  BY DEF Idle, Fetching

(* Deleting audits, with their batches or without, leaves none astray.       *)
LEMMA WithoutQuiet ==
  ASSUME TypeInv, NEW rows, \A a \in rows : Row(a), audit' = Without(rows)
  PROVE  \A a \in Audits : \/ audit'[a] = audit[a]
                           \/ Row(a) /\ audit'[a].state = "deleted"
  BY DEF Without, NoAudit

LEMMA WithoutBatchesQuiet ==
  ASSUME TypeInv, NEW gone, batch' = WithoutBatches(gone)
  PROVE  \A b \in Batches : /\ batch'[b] \in BatchStatuses => Exists(b)
                            /\ b \in gone => batch'[b] \notin BatchStatuses
  BY DEF WithoutBatches, Exists, BatchStatuses

LEMMA TagQuiet ==
  ASSUME TypeInv, CreateTag \/ UpdateTag \/ DeleteTag \/ Apply \/ (Kickoff /\ audit' = audit)
  PROVE  Quiet
<1>1. CASE DeleteTag
  <2>1. \A a \in OfTag(tag.id) : Row(a)
    BY DEF OfTag
  <2> QED
    BY <1>1, <2>1, WithoutQuiet DEF DeleteTag, Quiet, Exists
<1>2. CASE CreateTag \/ UpdateTag \/ Apply \/ (Kickoff /\ audit' = audit)
  BY <1>2 DEF CreateTag, UpdateTag, Apply, Kickoff, Quiet, Exists
<1> QED
  BY <1>1, <1>2

LEMMA WorkerQuiet ==
  ASSUME TypeInv, NEW w \in Workers,
         \/ SweepProcessed(w) \/ SendInit(w) \/ PollWrite(w)
         \/ \E b \in Batches : Submit(w, b) \/ PollLoad(w, b) \/ ProcessRead(w, b)
  PROVE  Quiet
<1>1. w \in Executors
  BY DEF Executors
<1>2. CASE SweepProcessed(w) \/ SendInit(w)
  BY <1>1, <1>2, EndTask, TaskKinds DEF SweepProcessed, SendInit, Quiet, Exists
<1>3. CASE PollWrite(w)
  <2>1. \A b \in Batches : batch'[b] \in BatchStatuses => Exists(b)
    BY <1>3 DEF PollWrite, Exists, TypeInv, TypeOK
  <2> QED
    BY <1>1, <1>3, <2>1, EndTask, TaskKinds DEF PollWrite, Quiet
<1>4. ASSUME NEW b \in Batches, Submit(w, b) PROVE Quiet
  BY <1>4 DEF Submit, Quiet, Exists, TypeInv, TypeOK
<1>5. ASSUME NEW b \in Batches, PollLoad(w, b) PROVE Quiet
  <2>1. exec' = exec \/ Become(w, [Idle EXCEPT !.pc = "polled", !.batch = b])
    BY <1>5 DEF PollLoad
  <2> QED
    BY <1>1, <1>5, <2>1, EndTask, TaskKinds DEF PollLoad, Quiet, Exists
<1>6. ASSUME NEW b \in Batches, ProcessRead(w, b) PROVE Quiet
  <2>1. \E task : Become(w, task) /\ task.pc # "sample"
    BY <1>6, TaskKinds DEF ProcessRead
  <2> QED
    BY <1>1, <1>6, <2>1, EndTask DEF ProcessRead, Quiet, Exists
<1> QED
  BY <1>2, <1>3, <1>4, <1>5, <1>6

LEMMA ShellQuiet ==
  ASSUME TypeInv,
         \/ \E s \in Shells : Prune(s) \/ EndPrune(s) \/ \E a \in Audits : ProcessShell(s, a)
         \/ \E a \in Audits : EnqueuePoll(a)
         \/ \E ceiling \in Ceilings : DeleteBatches(ceiling)
  PROVE  Quiet
<1>1. ASSUME NEW s \in Shells, Prune(s) \/ \E a \in Audits : ProcessShell(s, a) PROVE Quiet
  <2>1. \E task : Become(s, task) /\ task.pc # "sample"
    BY <1>1, TaskKinds DEF Prune, ProcessShell
  <2> QED
    BY <1>1, <2>1, EndTask DEF Prune, ProcessShell, Quiet, Exists, Executors
<1>2. ASSUME NEW s \in Shells, EndPrune(s) PROVE Quiet
  <2>1. \A a \in OfTag(exec[s].tag) : Row(a)
    BY DEF OfTag
  <2> QED
    BY <1>2, <2>1, WithoutQuiet, WithoutBatchesQuiet, EndTask, TaskKinds DEF EndPrune, Quiet, Executors
<1>3. CASE \E a \in Audits : EnqueuePoll(a)
  BY <1>3 DEF EnqueuePoll, Quiet, Exists
<1>4. ASSUME NEW ceiling \in Ceilings, DeleteBatches(ceiling) PROVE Quiet
  <2> DEFINE gone == {b \in Batches : batch[b] \in AtOrBefore(ceiling)}
  <2>1. \A b \in Batches : /\ batch'[b] \in BatchStatuses => Exists(b)
                           /\ b \in gone => batch'[b] \notin BatchStatuses
    BY <1>4, WithoutBatchesQuiet DEF DeleteBatches
  <2>2. ASSUME NEW a \in Audits
        PROVE  /\ audit'[a].state = audit[a].state
               /\ audit'[a].batch = audit[a].batch
                    \/ (audit'[a].batch = 0 /\ audit[a].batch \in gone)
    <3>1. audit'[a] = IF audit[a].batch \in gone THEN [audit[a] EXCEPT !.batch = 0] ELSE audit[a]
      BY <1>4 DEF DeleteBatches
    <3>2. audit[a] \in AuditRow
      BY DEF TypeInv, TypeOK
    <3> QED
      BY <3>1, <3>2 DEF AuditRow
  <2> QED
    BY <1>4, <2>1, <2>2 DEF DeleteBatches, Quiet
<1> QED
  BY <1>1, <1>2, <1>3, <1>4

LEMMA StoreQuiet ==
  ASSUME TypeInv, NEW e \in Executors, Store(e)
  PROVE  Quiet
<1> DEFINE a == exec[e].audit
           b == exec[e].batch
<1>1. a \in Audits /\ b \in Batches
  BY DEF Store, At, TypeInv, TypeOK, Task, Names
<1>2. \A c \in Audits : Reported(a, b)[c].state = audit[c].state /\ Reported(a, b)[c].batch = audit[c].batch
  <2>1. audit \in [Audits -> AuditRow]
    BY DEF TypeInv, TypeOK
  <2>2. \A c \in Audits : Reported(a, b)[c] =
            IF c = a THEN [audit[c] EXCEPT !.report = b, !.suggestion = Suggestion(b)] ELSE audit[c]
    BY <1>1, <2>1 DEF Reported
  <2> QED
    BY <2>1, <2>2 DEF AuditRow
<1>3. \A c \in Batches : batch'[c] \in BatchStatuses => Exists(c)
  BY DEF Store, Exists, TypeInv, TypeOK
<1> QED
  BY <1>1, <1>2, <1>3, EndTask, TaskKinds DEF Store, Quiet

LEMMA NextStray == OneWorker /\ TypeInv /\ StrayInv /\ [Next]_vars => StrayInv'
<1> SUFFICES ASSUME OneWorker, TypeInv, StrayInv, [Next]_vars PROVE StrayInv'
  OBVIOUS
<1>1. CASE UNCHANGED vars
  BY <1>1, QuietStray DEF vars, Quiet, Exists
<1>2. CASE CreateTag \/ UpdateTag \/ DeleteTag \/ Apply \/ (Kickoff /\ audit' = audit)
  BY <1>2, TagQuiet, QuietStray
<1>3. CASE Kickoff /\ audit' # audit
  BY <1>3, KickoffStray DEF Kickoff
<1>4. ASSUME NEW w \in Workers, NEW a \in Audits, InitRead(w, a) PROVE StrayInv'
  <2>1. w \in Executors
    BY DEF Executors
  <2>2. CASE Startable(a)
    <3>1. [Idle EXCEPT !.pc = "sample", !.audit = a].pc = "sample" /\ [Idle EXCEPT !.pc = "sample", !.audit = a].audit = a
      BY DEF Idle
    <3> QED
      BY <1>4, <2>1, <2>2, <3>1, SampleStray DEF InitRead
  <2>3. CASE ~Startable(a)
    BY <1>4, <2>1, <2>3, EndTask, TaskKinds, QuietStray DEF InitRead, Quiet, Exists
  <2> QED
    BY <2>2, <2>3
<1>5. ASSUME NEW s \in Shells, InitAudit(s) PROVE StrayInv'
  <2>1. PICK a \in Audits : NextAudit(a) /\ Become(s, [Idle EXCEPT !.pc = "sample", !.audit = a, !.tag = tag.id])
    BY <1>5 DEF InitAudit
  <2>2. /\ [Idle EXCEPT !.pc = "sample", !.audit = a, !.tag = tag.id].pc = "sample"
        /\ [Idle EXCEPT !.pc = "sample", !.audit = a, !.tag = tag.id].audit = a
    BY DEF Idle
  <2> QED
    BY <1>5, <2>1, <2>2, SampleStray DEF InitAudit, Executors
<1>6. ASSUME NEW e \in Executors, Attach(e) PROVE StrayInv'
  <2>1. CASE Become(e, Idle) /\ UNCHANGED <<audit, batch, made>>
    BY <2>1, EndTask, TaskKinds, QuietStray DEF Quiet, Exists
  <2>2. CASE ~(Become(e, Idle) /\ UNCHANGED <<audit, batch, made>>)
    <3> DEFINE a == exec[e].audit
    <3>1. PICK b \in Batches :
            /\ NextBatch(b)
            /\ batch' = [batch EXCEPT ![b] = "pending_submit"]
            /\ made' = [made EXCEPT ![b] = a]
            /\ audit' = Attached(e, a, b)
            /\ Become(e, [Idle EXCEPT !.pc = "send", !.audit = a, !.batch = b])
      BY <1>6, <2>2 DEF Attach
    <3>2. At(e, "sample") /\ (e \in Workers => Row(a))
      BY <1>6, <2>2, AuditAssumption DEF Attach, AuditAssumption
    <3>3. [Idle EXCEPT !.pc = "send", !.audit = a, !.batch = b].pc = "send"
      BY DEF Idle
    <3> QED
      BY <3>1, <3>2, <3>3, AttachStray
  <2> QED
    BY <2>1, <2>2
<1>7. ASSUME NEW e \in Executors, SendSubmit(e) \/ Crash(e) PROVE StrayInv'
  BY <1>7, EndTask, TaskKinds, QuietStray DEF SendSubmit, Crash, Quiet, Exists
<1>8. ASSUME NEW b \in Batches, Answer(b) PROVE StrayInv'
  BY <1>8, QuietStray DEF Answer, Quiet, Exists
<1>9. ASSUME NEW w \in Workers, SweepProcessed(w) \/ SendInit(w) \/ TakeMessage(w) \/ PollWrite(w) PROVE StrayInv'
  BY <1>4, <1>9, WorkerQuiet, QuietStray DEF TakeMessage
<1>10. CASE \/ \E s \in Shells : Prune(s) \/ EndPrune(s) \/ \E a \in Audits : ProcessShell(s, a)
            \/ \E a \in Audits : EnqueuePoll(a)
            \/ \E ceiling \in Ceilings : DeleteBatches(ceiling)
  BY <1>10, ShellQuiet, QuietStray
<1>11. ASSUME NEW e \in Executors, Finish(e) \/ Crash(e) PROVE StrayInv'
  BY <1>6, <1>7, <1>11, StoreQuiet, QuietStray DEF Finish
<1>12. ASSUME NEW s \in Shells, SweepProcessedByShell(s) PROVE StrayInv'
  BY <1>12, QuietStray DEF SweepProcessedByShell, Quiet, Exists
<1> QED
  BY <1>1, <1>2, <1>3, <1>5, <1>8, <1>9, <1>10, <1>11, <1>12 DEF Next

(* With one worker, whatever shells initiate and prune at the same time, a   *)
(* batch made for an audit that still exists is the one the audit points to  *)
(* (create_audit_batches, attach_batch, delete_audits_for_tag).              *)
THEOREM NoBatchStrays == ASSUME OneWorker PROVE Spec => []NoStrayBatch
<1>1. Init => TypeInv /\ StrayInv
  BY InitType, InitStray
<1>2. TypeInv /\ StrayInv /\ [Next]_vars => (TypeInv /\ StrayInv)'
  BY NextType, NextStray
<1>3. StrayInv => NoStrayBatch
  BY DEF StrayInv
<1> QED
  BY <1>1, <1>2, <1>3, PTL DEF Spec

--------------------------------------------------------------------------------
(* Suggestions advance.                                                      *)

OneShell == \A s, t \in Shells : s = t

Newer(d) ==
  /\ \A a \in OfTag(tag.id) : a > d
  /\ \A s \in Shells : At(s, "sample") => exec[s].audit > d

(* The audit whose suggestion is applied still is the tag's, or every audit  *)
(* the tag has or is about to get is newer.                                  *)
AppliedInv ==
  tag.description # 0 => /\ audit[tag.description].state # "none"
                         /\ tag.description \in OfTag(tag.id) \/ Newer(tag.description)

LEMMA LatestIsMax ==
  ASSUME NEW rows \in SUBSET Audits, rows # {}
  PROVE  Latest(rows) \in rows /\ \A c \in rows : c <= Latest(rows)
<1> DEFINE T == {MaxAudits - a : a \in rows}
<1>1. \A a \in rows : a \in Nat /\ MaxAudits - a \in Nat /\ MaxAudits \in Nat
  BY AuditAssumption DEF Audits, AuditAssumption
<1>2. T \subseteq Nat /\ T # {}
  BY <1>1
<1>3. PICK x \in T : \A y \in T : ~(<<y, x>> \in OpToRel(<, Nat))
  <2> HIDE DEF T
  <2> QED
    BY <1>2, WFMin, NatLessThanWellFounded, Zenon
<1>4. \A y \in T : ~(y < x)
  <2> HIDE DEF T
  <2> QED
    BY <1>2, <1>3, Zenon DEF OpToRel
<1>5. PICK a \in rows : x = MaxAudits - a
  BY <1>3
<1>6. \A c \in rows : c <= a
  BY <1>1, <1>4, <1>5
<1> QED
  BY <1>6 DEF Latest

(* A step that leaves the tag, which audits are whose, and what is sampled.  *)
Tame ==
  /\ tag' = tag
  /\ \A a \in Audits : audit'[a].state = audit[a].state /\ audit'[a].tag = audit[a].tag
  /\ \A s \in Shells : At(s, "sample")' => At(s, "sample") /\ exec'[s] = exec[s]

LEMMA TameApplied ==
  ASSUME TypeInv, AppliedInv, Tame
  PROVE  AppliedInv'
<1>1. OfTag(tag.id)' = OfTag(tag.id)
  BY DEF Tame, OfTag, Row
<1>2. tag.description \in {0} \cup Audits
  BY DEF TypeInv, TypeOK, TagRow
<1> QED
  BY <1>1, <1>2 DEF Tame, AppliedInv, Newer, At

LEMMA ApplyApplied ==
  ASSUME TypeInv, AppliedInv, Apply
  PROVE  /\ AppliedInv'
         /\ tag.description # 0 => tag'.description >= tag.description
<1> DEFINE rows == OfTag(tag.id)
           d == Latest(rows)
<1>1. rows \in SUBSET Audits /\ rows # {}
  BY DEF Apply, Applicable, Latest, OfTag
<1>2. d \in rows /\ \A c \in rows : c <= d
  BY <1>1, LatestIsMax
<1>3. tag'.description = d /\ tag'.id = tag.id /\ audit' = audit
  BY DEF Apply, TypeInv, TypeOK, TagRow
<1>4. AppliedInv'
  BY <1>2, <1>3 DEF AppliedInv, OfTag, Row
<1>5. tag.description # 0 => d >= tag.description
  BY <1>2 DEF AppliedInv, Newer, TypeInv, TypeOK, TagRow, OfTag, Audits
<1> QED
  BY <1>3, <1>4, <1>5

(* An audit that is triggered is newer than all there are.                   *)
LEMMA NumberIsNewer ==
  ASSUME TypeInv, AppliedInv, NEW a \in Audits, NextAudit(a), tag.description # 0
  PROVE  a > tag.description /\ tag.description \in Audits
<1>1. tag.description \in Audits
  BY DEF TypeInv, TypeOK, TagRow
<1>2. tag.description \in Numbered
  BY <1>1 DEF Numbered, AppliedInv
<1> QED
  BY <1>1, <1>2 DEF NextAudit, Audits

LEMMA KickoffApplied ==
  ASSUME TypeInv, AppliedInv, NEW a \in Audits, NextAudit(a), audit' = [audit EXCEPT ![a] = NewAudit],
         UNCHANGED <<tag, exec>>
  PROVE  AppliedInv'
<1> SUFFICES ASSUME tag.description # 0
             PROVE  /\ audit'[tag.description].state # "none"
                    /\ tag.description \in OfTag(tag.id)' \/ Newer(tag.description)'
  BY DEF AppliedInv
<1>1. a > tag.description /\ tag.description \in Audits
  BY NumberIsNewer
<1>2. tag.description # a
  BY <1>1 DEF Audits
<1>3. \A c \in Audits : c # a => audit'[c] = audit[c]
  BY DEF TypeInv, TypeOK
<1>4. \A c \in Audits : c \in OfTag(tag.id)' => c = a \/ c \in OfTag(tag.id)
  BY <1>3 DEF OfTag, Row
<1>5. tag.description \in OfTag(tag.id) => tag.description \in OfTag(tag.id)'
  BY <1>1, <1>2, <1>3 DEF OfTag, Row
<1>6. Newer(tag.description) => Newer(tag.description)'
  <2>1. OfTag(tag.id)' \subseteq Audits
    BY DEF OfTag
  <2> QED
    BY <1>1, <1>4, <2>1 DEF Newer, At
<1> QED
  BY <1>1, <1>2, <1>3, <1>5, <1>6 DEF AppliedInv

LEMMA SampleApplied ==
  ASSUME TypeInv, AppliedInv, NEW s \in Shells, InitAudit(s)
  PROVE  AppliedInv'
<1>1. PICK a \in Audits : NextAudit(a) /\ Become(s, [Idle EXCEPT !.pc = "sample", !.audit = a, !.tag = tag.id])
  BY DEF InitAudit
<1>2. s \in Executors /\ Shells \subseteq Executors
  BY DEF Executors
<1>3. /\ exec'[s].audit = a
      /\ \A t \in Shells : t # s => exec'[t] = exec[t]
  BY <1>1, <1>2 DEF Become, TypeInv, TypeOK, Idle
<1>4. tag.description # 0 => a > tag.description
  BY <1>1, NumberIsNewer
<1> QED
  BY <1>3, <1>4 DEF InitAudit, AppliedInv, Newer, OfTag, Row, At

LEMMA AttachApplied ==
  ASSUME TypeInv, AppliedInv, NEW e \in Executors, Attach(e)
  PROVE  AppliedInv'
<1> DEFINE a == exec[e].audit
<1>1. a \in Audits /\ tag' = tag
  BY DEF Attach, At, TypeInv, TypeOK, Task, Names
<1>2. \A s \in Shells : At(s, "sample")' => At(s, "sample") /\ exec'[s] = exec[s] /\ s # e
  <2>1. PICK task : Become(e, task) /\ task.pc # "sample"
    <3>1. Idle.pc # "sample" /\ \A b : [Idle EXCEPT !.pc = "send", !.audit = a, !.batch = b].pc # "sample"
      BY DEF Idle
    <3> QED
      BY <3>1 DEF Attach
  <2>2. \A x \in Executors : exec'[x] = IF x = e THEN task ELSE exec[x]
    BY <2>1 DEF Become, TypeInv, TypeOK
  <2> QED
    BY <2>1, <2>2 DEF At, Executors
<1>3. CASE audit' = audit
  BY <1>1, <1>2, <1>3, TameApplied DEF Tame
<1>4. ASSUME NEW b \in Batches, audit' = Attached(e, a, b), e \in Workers, Row(a)
      PROVE  AppliedInv'
  <2>1. \A c \in Audits : audit'[c] = IF c = a THEN [audit[c] EXCEPT !.batch = b] ELSE audit[c]
    BY <1>1, <1>4 DEF Attached, TypeInv, TypeOK
  <2>2. \A c \in Audits : audit'[c].state = audit[c].state /\ audit'[c].tag = audit[c].tag
    BY <2>1 DEF TypeInv, TypeOK, AuditRow
  <2> QED
    BY <1>1, <1>2, <2>2, TameApplied DEF Tame
<1>5. ASSUME NEW b \in Batches, audit' = Attached(e, a, b), e \in Shells, e \notin Workers
      PROVE  AppliedInv'
  <2>1. audit'[a].state = "row" /\ audit'[a].tag = tag.id
    <3>1. audit'[a] = [NewAudit EXCEPT !.batch = b]
      BY <1>1, <1>5 DEF Attached, TypeInv, TypeOK
    <3> QED
      BY <3>1 DEF NewAudit, NoAudit
  <2>2. \A c \in Audits : c # a => audit'[c] = audit[c]
    BY <1>1, <1>5 DEF Attached, TypeInv, TypeOK
  <2>3. OfTag(tag.id)' = OfTag(tag.id) \cup {a}
    BY <1>1, <2>1, <2>2 DEF OfTag, Row, Audits
  <2>4. At(e, "sample")
    BY DEF Attach
  <2>5. Newer(tag.description) => Newer(tag.description)'
    BY <1>1, <1>2, <1>5, <2>3, <2>4 DEF Newer
  <2>6. tag.description # 0 => tag.description \in Audits
    BY DEF TypeInv, TypeOK, TagRow
  <2> QED
    BY <1>1, <2>1, <2>2, <2>3, <2>5, <2>6 DEF AppliedInv
<1> QED
  BY <1>3, <1>4, <1>5, AuditAssumption DEF Attach, AuditAssumption

(* Who prunes the tag samples nothing, so no audit comes after it that was   *)
(* triggered before.                                                         *)
LEMMA PruneApplied ==
  ASSUME TypeInv, AppliedInv, OneShell, NEW s \in Shells, EndPrune(s)
  PROVE  AppliedInv'
<1>1. \A t \in Shells : ~At(t, "sample")'
  BY DEF OneShell, EndPrune, Become, At, Idle, TypeInv, TypeOK, Executors
<1>2. \A a \in Audits : audit'[a] = IF a \in OfTag(exec[s].tag) THEN [NoAudit EXCEPT !.state = "deleted"] ELSE audit[a]
  BY DEF EndPrune, Without
<1>3. tag' = tag
  BY DEF EndPrune
<1>4. CASE exec[s].tag = tag.id
  <2>1. OfTag(tag.id)' = {}
    BY <1>2, <1>3, <1>4 DEF OfTag, Row, NoAudit
  <2> QED
    BY <1>1, <1>2, <1>3, <2>1 DEF AppliedInv, Newer, NoAudit, TypeInv, TypeOK, TagRow
<1>5. CASE exec[s].tag # tag.id
  <2>1. OfTag(tag.id)' = OfTag(tag.id)
    BY <1>2, <1>3, <1>5 DEF OfTag, Row, NoAudit
  <2> QED
    BY <1>1, <1>2, <1>3, <2>1 DEF AppliedInv, Newer, NoAudit, TypeInv, TypeOK, TagRow
<1> QED
  BY <1>4, <1>5

LEMMA WorkerTame ==
  ASSUME TypeInv, NEW w \in Workers,
         SweepProcessed(w) \/ SendInit(w) \/ TakeMessage(w) \/ PollWrite(w)
  PROVE  Tame
<1>1. w \in Executors /\ w \notin Shells /\ Shells \subseteq Executors
  BY AuditAssumption DEF Executors, AuditAssumption
<1>2. tag' = tag /\ audit' = audit /\ (exec' = exec \/ \E task : Become(w, task))
  BY DEF SweepProcessed, SendInit, TakeMessage, InitRead, Submit, PollLoad, ProcessRead, PollWrite
<1>3. \A s \in Shells : exec'[s] = exec[s]
  BY <1>1, <1>2 DEF Become, TypeInv, TypeOK
<1> QED
  BY <1>2, <1>3 DEF Tame, At

LEMMA ShellTame ==
  ASSUME TypeInv,
         \/ \E s \in Shells : Prune(s) \/ \E a \in Audits : ProcessShell(s, a)
         \/ \E e \in Executors : SendSubmit(e) \/ Crash(e)
         \/ \E a \in Audits : EnqueuePoll(a)
         \/ \E b \in Batches : Answer(b)
  PROVE  Tame
<1>1. Shells \subseteq Executors
  BY DEF Executors
<1>2. CASE (\E a \in Audits : EnqueuePoll(a)) \/ \E b \in Batches : Answer(b)
  BY <1>2 DEF EnqueuePoll, Answer, Tame, At
<1>3. ASSUME NEW e \in Executors, SendSubmit(e) \/ Crash(e) PROVE Tame
  BY <1>1, <1>3, EndTask, TaskKinds DEF SendSubmit, Crash, Tame, At
<1>4. ASSUME NEW s \in Shells, Prune(s) \/ \E a \in Audits : ProcessShell(s, a) PROVE Tame
  <2>1. \E task : Become(s, task) /\ task.pc # "sample"
    BY <1>4, TaskKinds DEF Prune, ProcessShell
  <2> QED
    BY <1>1, <1>4, <2>1, EndTask DEF Prune, ProcessShell, Tame, At
<1> QED
  BY <1>2, <1>3, <1>4

LEMMA StoreTame ==
  ASSUME TypeInv, NEW e \in Executors, Store(e)
  PROVE  Tame
<1> DEFINE a == exec[e].audit
           b == exec[e].batch
<1>1. a \in Audits /\ Shells \subseteq Executors
  BY DEF Store, At, TypeInv, TypeOK, Task, Names, Executors
<1>2. \A c \in Audits : Reported(a, b)[c].state = audit[c].state /\ Reported(a, b)[c].tag = audit[c].tag
  <2>1. audit \in [Audits -> AuditRow]
    BY DEF TypeInv, TypeOK
  <2>2. \A c \in Audits : Reported(a, b)[c] =
            IF c = a THEN [audit[c] EXCEPT !.report = b, !.suggestion = Suggestion(b)] ELSE audit[c]
    BY <1>1, <2>1 DEF Reported
  <2> QED
    BY <2>1, <2>2 DEF AuditRow
<1> QED
  BY <1>1, <1>2, EndTask, TaskKinds DEF Store, Tame, At

LEMMA DeleteBatchesTame ==
  ASSUME TypeInv, NEW ceiling \in Ceilings, DeleteBatches(ceiling)
  PROVE  Tame
<1>1. \A a \in Audits : audit'[a].state = audit[a].state /\ audit'[a].tag = audit[a].tag
  <2> SUFFICES ASSUME NEW a \in Audits PROVE audit'[a].state = audit[a].state /\ audit'[a].tag = audit[a].tag
    OBVIOUS
  <2>1. audit'[a] = [audit[a] EXCEPT !.batch = 0] \/ audit'[a] = audit[a]
    BY DEF DeleteBatches
  <2>2. audit[a] \in AuditRow
    BY DEF TypeInv, TypeOK
  <2> QED
    BY <2>1, <2>2 DEF AuditRow
<1> QED
  BY <1>1 DEF DeleteBatches, Tame, At

LEMMA NextApplied ==
  OneShell /\ TypeInv /\ AppliedInv /\ [Next]_vars =>
    /\ AppliedInv'
    /\ tag.description # 0 /\ tag'.description # 0 => tag'.description >= tag.description
<1> SUFFICES ASSUME OneShell, TypeInv, AppliedInv, [Next]_vars
             PROVE  /\ AppliedInv'
                    /\ tag.description # 0 /\ tag'.description # 0 => tag'.description >= tag.description
  OBVIOUS
<1>1. CASE tag'.description = 0
  BY <1>1 DEF AppliedInv
<1>2. CASE Apply
  BY <1>2, ApplyApplied
<1>3. ASSUME tag' = tag, AppliedInv' PROVE tag.description # 0 => tag'.description >= tag.description
  BY <1>3 DEF TypeInv, TypeOK, TagRow, Audits
<1>4. CASE CreateTag \/ UpdateTag \/ DeleteTag
  <2>1. tag'.description = 0
    <3>1. CASE CreateTag \/ UpdateTag
      BY <3>1 DEF CreateTag, NewTag, UpdateTag, TypeInv, TypeOK, TagRow
    <3>2. CASE DeleteTag
      <4> DEFINE t == [tag EXCEPT !.id = 0]
      <4>1. t \in TagRow
        BY AuditAssumption DEF AuditAssumption, TypeInv, TypeOK, TagRow
      <4>2. tag' = [t EXCEPT !.description = 0]
        BY <3>2 DEF DeleteTag, TypeInv, TypeOK, TagRow
      <4> HIDE DEF t
      <4> QED
        BY <4>1, <4>2 DEF TagRow
    <3> QED
      BY <1>4, <3>1, <3>2
  <2> QED
    BY <1>1, <2>1
<1>5. CASE UNCHANGED vars
  BY <1>3, <1>5, TameApplied DEF vars, Tame, At
<1>6. CASE Kickoff
  <2>1. tag' = tag
    BY <1>6 DEF Kickoff
  <2>2. CASE audit' = audit
    BY <1>3, <1>6, <2>1, <2>2, TameApplied DEF Kickoff, Tame, At
  <2>3. CASE audit' # audit
    BY <1>3, <1>6, <2>1, <2>3, KickoffApplied DEF Kickoff
  <2> QED
    BY <2>2, <2>3
<1>7. ASSUME NEW w \in Workers, SweepProcessed(w) \/ SendInit(w) \/ TakeMessage(w) \/ PollWrite(w)
      PROVE  AppliedInv' /\ tag' = tag
  BY <1>7, WorkerTame, TameApplied DEF Tame
<1>8. ASSUME NEW s \in Shells,
             InitAudit(s) \/ Prune(s) \/ EndPrune(s) \/ \E a \in Audits : ProcessShell(s, a)
      PROVE  AppliedInv' /\ tag' = tag
  <2>1. CASE InitAudit(s)
    BY <2>1, SampleApplied DEF InitAudit
  <2>2. CASE EndPrune(s)
    BY <2>2, PruneApplied DEF EndPrune
  <2>3. CASE Prune(s) \/ \E a \in Audits : ProcessShell(s, a)
    BY <2>3, ShellTame, TameApplied DEF Tame
  <2> QED
    BY <1>8, <2>1, <2>2, <2>3
<1>9. ASSUME NEW e \in Executors, Finish(e) \/ Crash(e)
      PROVE  AppliedInv' /\ tag' = tag
  <2>1. CASE Attach(e)
    BY <2>1, AttachApplied DEF Attach
  <2>2. CASE SendSubmit(e) \/ Crash(e)
    BY <2>2, ShellTame, TameApplied DEF Tame
  <2>3. CASE Store(e)
    BY <2>3, StoreTame, TameApplied DEF Tame
  <2> QED
    BY <1>9, <2>1, <2>2, <2>3 DEF Finish
<1>10. CASE (\E a \in Audits : EnqueuePoll(a)) \/ \E b \in Batches : Answer(b)
  BY <1>3, <1>10, ShellTame, TameApplied DEF Tame
<1>11. ASSUME NEW ceiling \in Ceilings, DeleteBatches(ceiling)
       PROVE  AppliedInv' /\ tag' = tag
  BY <1>11, DeleteBatchesTame, TameApplied DEF Tame
<1>12. ASSUME NEW s \in Shells, SweepProcessedByShell(s)
       PROVE  AppliedInv' /\ tag' = tag
  <2>1. Tame
    BY <1>12 DEF SweepProcessedByShell, Tame, At
  <2> QED
    BY <2>1, TameApplied DEF Tame
<1> QED
  BY <1>2, <1>3, <1>4, <1>5, <1>6, <1>7, <1>8, <1>9, <1>10, <1>11, <1>12 DEF Next

(* With one shell, and any number of workers, a suggestion is not replaced   *)
(* by that of an audit triggered before it, in whatever order audits finish, *)
(* and whichever are deleted (get_latest_for_tag, apply).                    *)
THEOREM SuggestionsAdvance == ASSUME OneShell PROVE Spec => DescriptionAdvances
<1>1. Init => TypeInv /\ AppliedInv
  BY InitType DEF Init, AppliedInv
<1>2. TypeInv /\ AppliedInv /\ [Next]_vars => (TypeInv /\ AppliedInv)'
  BY NextType, NextApplied
<1>3. TypeInv /\ AppliedInv /\ [Next]_vars =>
        [(tag.description # 0 /\ tag'.description # 0) => tag'.description >= tag.description]_vars
  BY NextApplied
<1> QED
  BY <1>1, <1>2, <1>3, PTL DEF Spec, DescriptionAdvances
================================================================================
