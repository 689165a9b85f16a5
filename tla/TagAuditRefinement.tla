--------------------------- MODULE TagAuditRefinement ---------------------------
(* TagAudit implements AuditProgress, for any bounds and shells, with one    *)
(* worker, and if no deletion of batches reaches those that are processed.   *)
EXTENDS TagAuditProofs

KeepsProcessed == \A ceiling \in Ceilings : "processed" \notin AtOrBefore(ceiling)

Statuses == \A b \in Batches : batch[b] \notin {"canceling", "errored", "expired", "canceled"}

Used == \A b \in Batches : made[b] # 0 => batch[b] # "unused"

(* An audit has a batch made for it, so no two audits have the same, and its *)
(* report is from that batch, which then has been processed.                 *)
OwnBatch == \A a \in Audits : Row(a) /\ audit[a].batch # 0 => made[audit[a].batch] = a

OwnReport ==
  \A a \in Audits : Row(a) /\ audit[a].report # 0 =>
    audit[a].report = audit[a].batch /\ batch[audit[a].batch] = "processed"

(* What an executor read before its download or its deletion: the audit has  *)
(* no other batch since; the batches it saw are those of the tag's audits.   *)
StillTrue(task) ==
  /\ task.pc = "fetch" =>
       /\ audit[task.audit].state # "none"
       /\ batch[task.batch] \in {"ended", "processed", "deleted"}
       /\ Row(task.audit) /\ Exists(task.batch) => audit[task.audit].batch = task.batch
  /\ task.pc = "prune" =>
       \A b \in task.gone : made[b] # 0 /\ (Row(made[b]) => audit[made[b]].tag = task.tag)

(* Nobody has recorded the end of a batch that is being polled.              *)
Polled ==
  \A w \in Workers : At(w, "polled") => batch[exec[w].batch] \in {"submitted", "in_progress", "deleted"}

ProgressInv ==
  /\ Statuses /\ Used /\ OwnBatch /\ OwnReport /\ Polled
  /\ \A e \in Executors : StillTrue(exec[e])

Inv == TypeInv /\ StrayInv /\ ProgressInv

LEMMA InitProgress == Init => ProgressInv
<1> SUFFICES ASSUME Init PROVE ProgressInv
  OBVIOUS
<1>1. \A a \in Audits : ~Row(a)
  BY DEF Init, Row, NoAudit
<1>2. \A e \in Executors : exec[e].pc = "idle"
  BY DEF Init, Idle
<1>3. Statuses /\ Used
  BY DEF Init, Statuses, Used
<1> QED
  BY <1>1, <1>2, <1>3 DEF ProgressInv, OwnBatch, OwnReport, Polled, At, StillTrue, Executors

(* A step that leaves audits as they are, and batches but for their way from *)
(* `pending_submit` to `ended`.                                              *)
Calm ==
  /\ audit' = audit /\ made' = made
  /\ \A b \in Batches :
       \/ batch'[b] = batch[b]
       \/ /\ batch[b] \in {"pending_submit", "submitted", "in_progress"}
          /\ batch'[b] \in {"submitted", "in_progress", "ended"}
  /\ \A e \in Executors : exec'[e] = exec[e] \/ StillTrue(exec'[e])
  /\ Polled'

LEMMA CalmTask ==
  ASSUME TypeInv, Calm, NEW task \in Task, Names(task), StillTrue(task)
  PROVE  StillTrue(task)'
<1>1. task.pc = "fetch" => task.audit \in Audits /\ task.batch \in Batches
  BY DEF Task, Names
<1>2. task.gone \subseteq Batches
  BY DEF Task
<1>3. CASE task.pc = "fetch"
  BY <1>1, <1>3 DEF StillTrue, Calm, Row, Exists, BatchStatuses
<1>4. CASE task.pc = "prune"
  BY <1>2, <1>4 DEF StillTrue, Calm, Row
<1> QED
  BY <1>3, <1>4 DEF StillTrue

LEMMA CalmProgress ==
  ASSUME TypeInv, TypeInv', ProgressInv, Calm
  PROVE  ProgressInv'
<1>1. Statuses'
  BY DEF Calm, ProgressInv, Statuses
<1>2. Used'
  BY DEF Calm, ProgressInv, Used
<1>3. OwnBatch'
  BY DEF Calm, ProgressInv, OwnBatch, Row
<1>4. OwnReport'
  <2>1. \A a \in Audits : audit[a].batch \in {0} \cup Batches
    BY DEF TypeInv, TypeOK, AuditRow
  <2>2. ASSUME NEW a \in Audits, Row(a), audit[a].report # 0
        PROVE  audit[a].report = audit[a].batch /\ batch'[audit[a].batch] = "processed"
    <3>1. /\ audit[a].report = audit[a].batch
          /\ batch[audit[a].batch] = "processed"
      BY <2>2 DEF ProgressInv, OwnReport
    <3>2. audit[a].batch \in Batches
      BY <2>1, <2>2, <3>1
    <3> QED
      BY <3>1, <3>2 DEF Calm
  <2> QED
    BY <2>2 DEF Calm, OwnReport, Row
<1>5. ASSUME NEW e \in Executors PROVE StillTrue(exec[e])'
  <2>1. exec'[e] \in Task /\ Names(exec'[e])
    BY DEF TypeInv, TypeOK
  <2>2. StillTrue(exec'[e])
    BY DEF Calm, ProgressInv
  <2>3. \A task \in Task : Names(task) /\ StillTrue(task) => StillTrue(task)'
    BY CalmTask
  <2> QED
    BY <2>1, <2>2, <2>3 DEF StillTrue
<1> QED
  BY <1>1, <1>2, <1>3, <1>4, <1>5 DEF Calm, ProgressInv

(* A task that neither downloads nor deletes rests on nothing it has read.   *)
LEMMA BecomeStill ==
  ASSUME TypeInv, NEW x \in Executors, NEW task, Become(x, task), StillTrue(task)
  PROVE  \A e \in Executors : exec'[e] = exec[e] \/ StillTrue(exec'[e])
  BY DEF Become, TypeInv, TypeOK

LEMMA BecomeUnpolled ==
  ASSUME TypeInv, ProgressInv, batch' = batch, NEW x \in Executors, NEW task, Become(x, task),
         task.pc # "polled"
  PROVE  Polled'
<1>1. \A e \in Executors : exec'[e] = IF e = x THEN task ELSE exec[e]
  BY DEF Become, TypeInv, TypeOK
<1> QED
  BY <1>1 DEF ProgressInv, Polled, At, Executors

Light(task) == task.pc \in {"idle", "sendinit", "sample", "send"} /\ StillTrue(task)

LEMMA LightTasks ==
  /\ Light(Idle)
  /\ \A a : Light([Idle EXCEPT !.pc = "sendinit", !.audit = a])
  /\ \A a : Light([Idle EXCEPT !.pc = "sample", !.audit = a])
  /\ \A a, id : Light([Idle EXCEPT !.pc = "sample", !.audit = a, !.tag = id])
  /\ \A a, b : Light([Idle EXCEPT !.pc = "send", !.audit = a, !.batch = b])
<1>1. Light(Idle)
  BY DEF Idle, Light, StillTrue
<1>2. ASSUME NEW a PROVE Light([Idle EXCEPT !.pc = "sendinit", !.audit = a])
  <2> DEFINE task == [Idle EXCEPT !.pc = "sendinit", !.audit = a]
  <2>1. task.pc \in {"idle", "sendinit", "sample", "send"}
    BY DEF Idle
  <2> HIDE DEF task
  <2> QED
    BY <2>1 DEF Light, StillTrue
<1>3. ASSUME NEW a PROVE Light([Idle EXCEPT !.pc = "sample", !.audit = a])
  <2> DEFINE task == [Idle EXCEPT !.pc = "sample", !.audit = a]
  <2>1. task.pc \in {"idle", "sendinit", "sample", "send"}
    BY DEF Idle
  <2> HIDE DEF task
  <2> QED
    BY <2>1 DEF Light, StillTrue
<1>4. ASSUME NEW a, NEW id PROVE Light([Idle EXCEPT !.pc = "sample", !.audit = a, !.tag = id])
  <2> DEFINE task == [Idle EXCEPT !.pc = "sample", !.audit = a, !.tag = id]
  <2>1. task.pc \in {"idle", "sendinit", "sample", "send"}
    BY DEF Idle
  <2> HIDE DEF task
  <2> QED
    BY <2>1 DEF Light, StillTrue
<1>5. ASSUME NEW a, NEW b PROVE Light([Idle EXCEPT !.pc = "send", !.audit = a, !.batch = b])
  <2> DEFINE task == [Idle EXCEPT !.pc = "send", !.audit = a, !.batch = b]
  <2>1. task.pc \in {"idle", "sendinit", "sample", "send"}
    BY DEF Idle
  <2> HIDE DEF task
  <2> QED
    BY <2>1 DEF Light, StillTrue
<1> QED
  BY <1>1, <1>2, <1>3, <1>4, <1>5

LEMMA PolledTask ==
  ASSUME NEW b
  PROVE  /\ [Idle EXCEPT !.pc = "polled", !.batch = b].batch = b
         /\ StillTrue([Idle EXCEPT !.pc = "polled", !.batch = b])
<1> DEFINE task == [Idle EXCEPT !.pc = "polled", !.batch = b]
<1>1. task.pc = "polled" /\ task.batch = b
  BY DEF Idle
<1>2. StillTrue(task)
  <2> HIDE DEF task
  <2> QED
    BY <1>1 DEF StillTrue
<1> QED
  BY <1>1, <1>2

LEMMA FetchingStill ==
  ASSUME TypeInv, NEW a \in Audits, Processable(a)
  PROVE  Fetching(a).pc = "fetch" /\ StillTrue(Fetching(a))
<1>1. Fetching(a).pc = "fetch" /\ Fetching(a).audit = a /\ Fetching(a).batch = audit[a].batch
  BY DEF Fetching, Idle
<1> QED
  BY <1>1 DEF StillTrue, Processable, ProcessableStatuses, Row

LEMMA PruneStill ==
  ASSUME TypeInv, ProgressInv, NEW s \in Shells, Prune(s)
  PROVE  \E task : Become(s, task) /\ task.pc = "prune" /\ StillTrue(task)
<1> DEFINE gone == {audit[a].batch : a \in OfTag(tag.id)} \ {0}
           task == [Idle EXCEPT !.pc = "prune", !.tag = tag.id, !.gone = gone]
<1>1. Become(s, task)
  BY DEF Prune
<1>2. task.pc = "prune" /\ task.tag = tag.id /\ task.gone = gone
  BY DEF Idle
<1>3. \A b \in gone : made[b] # 0 /\ audit[made[b]].tag = tag.id
  <2> SUFFICES ASSUME NEW b \in gone PROVE made[b] # 0 /\ audit[made[b]].tag = tag.id
    OBVIOUS
  <2>1. PICK a \in OfTag(tag.id) : b = audit[a].batch /\ b # 0
    OBVIOUS
  <2>2. a \in Audits /\ Row(a) /\ audit[a].tag = tag.id
    BY DEF OfTag
  <2>3. made[b] = a
    BY <2>1, <2>2 DEF ProgressInv, OwnBatch
  <2> QED
    BY <2>2, <2>3 DEF Row
<1>4. StillTrue(task)
  <2> HIDE DEF task, gone
  <2> QED
    BY <1>2, <1>3 DEF StillTrue
<1> QED
  BY <1>1, <1>2, <1>4

(* The actions that take a task, or end one, without a change of the outbox. *)
LEMMA LightCalm ==
  ASSUME TypeInv, ProgressInv, UNCHANGED <<audit, batch, made>>, NEW e \in Executors,
         NEW task, Become(e, task), Light(task)
  PROVE  Calm
  BY BecomeStill, BecomeUnpolled DEF Calm, Light

LEMMA FetchCalm ==
  ASSUME TypeInv, ProgressInv, UNCHANGED <<audit, batch, made>>, NEW e \in Executors,
         NEW a \in Audits, Processable(a), Become(e, Fetching(a))
  PROVE  Calm
<1>1. Fetching(a).pc # "polled" /\ StillTrue(Fetching(a))
  BY FetchingStill
<1> QED
  BY <1>1, BecomeStill, BecomeUnpolled DEF Calm

LEMMA StutterCalm ==
  ASSUME TypeInv, ProgressInv, UNCHANGED <<audit, batch, made, exec>>
  PROVE  Calm
  BY DEF Calm, ProgressInv, Polled, At

LEMMA ExecutorCalm ==
  ASSUME TypeInv, ProgressInv, NEW e \in Executors,
         \/ e \in Workers /\ (SweepProcessed(e) \/ SendInit(e) \/ \E a \in Audits : InitRead(e, a))
         \/ e \in Workers /\ \E b \in Batches : ProcessRead(e, b)
         \/ e \in Shells /\ (InitAudit(e) \/ Prune(e) \/ \E a \in Audits : ProcessShell(e, a))
         \/ SendSubmit(e) \/ Crash(e)
         \/ Attach(e) /\ UNCHANGED <<audit, batch, made>>
         \/ Store(e) /\ UNCHANGED <<audit, batch>>
  PROVE  Calm
<1>1. CASE SendInit(e) \/ SendSubmit(e) \/ Crash(e)
  <2>1. Become(e, Idle) /\ UNCHANGED <<audit, batch, made>>
    BY <1>1 DEF SendInit, SendSubmit, Crash
  <2> QED
    BY <2>1, LightTasks, LightCalm
<1>2. CASE SweepProcessed(e)
  <2>1. UNCHANGED <<audit, batch, made>>
    BY <1>2 DEF SweepProcessed
  <2>2. Become(e, Idle) \/ Become(e, [Idle EXCEPT !.pc = "sendinit", !.audit = sweep.post])
    BY <1>2, Zenon DEF SweepProcessed
  <2> QED
    BY <2>1, <2>2, LightTasks, LightCalm
<1>3. ASSUME NEW a \in Audits, InitRead(e, a) PROVE Calm
  <2>1. UNCHANGED <<audit, batch, made>>
    BY <1>3 DEF InitRead
  <2>2. Become(e, Idle) \/ Become(e, [Idle EXCEPT !.pc = "sample", !.audit = a])
    BY <1>3, Zenon DEF InitRead
  <2> QED
    BY <2>1, <2>2, LightTasks, LightCalm
<1>4. ASSUME NEW b \in Batches, ProcessRead(e, b) PROVE Calm
  <2>1. Become(e, Idle) \/ \E a \in Audits : Processable(a) /\ Become(e, Fetching(a))
    <3>1. ASSUME NEW a \in LinkedTo(b), Processable(a)
          PROVE  \A c \in LinkedTo(b) : c \in Audits /\ Processable(c)
      BY <3>1 DEF LinkedTo, Processable
    <3> QED
      BY <1>4, <3>1 DEF ProcessRead
  <2>2. UNCHANGED <<audit, batch, made>>
    BY <1>4 DEF ProcessRead
  <2> QED
    BY <2>1, <2>2, LightTasks, LightCalm, FetchCalm
<1>5. CASE InitAudit(e)
  <2>1. PICK a \in Audits : Become(e, [Idle EXCEPT !.pc = "sample", !.audit = a, !.tag = tag.id])
    BY <1>5 DEF InitAudit
  <2>2. UNCHANGED <<audit, batch, made>>
    BY <1>5 DEF InitAudit
  <2>3. Light([Idle EXCEPT !.pc = "sample", !.audit = a, !.tag = tag.id])
    BY LightTasks, Zenon
  <2> QED
    BY <2>1, <2>2, <2>3, LightCalm
<1>6. CASE e \in Shells /\ Prune(e)
  <2>1. PICK task : Become(e, task) /\ task.pc = "prune" /\ StillTrue(task)
    BY <1>6, PruneStill
  <2> QED
    BY <1>6, <2>1, BecomeStill, BecomeUnpolled DEF Prune, Calm
<1>7. ASSUME NEW a \in Audits, ProcessShell(e, a) PROVE Calm
  BY <1>7, FetchCalm DEF ProcessShell
<1>8. CASE Attach(e) /\ UNCHANGED <<audit, batch, made>>
  <2>1. Become(e, Idle) \/ \E b \in Batches : Become(e, [Idle EXCEPT !.pc = "send", !.audit = exec[e].audit, !.batch = b])
    BY <1>8 DEF Attach
  <2>2. CASE Become(e, Idle)
    BY <1>8, <2>2, LightTasks, LightCalm
  <2>3. ASSUME NEW b \in Batches, Become(e, [Idle EXCEPT !.pc = "send", !.audit = exec[e].audit, !.batch = b])
        PROVE  Calm
    <3>1. Light([Idle EXCEPT !.pc = "send", !.audit = exec[e].audit, !.batch = b])
      BY LightTasks, Zenon
    <3> QED
      BY <1>8, <2>3, <3>1, LightCalm
  <2> QED
    BY <2>1, <2>2, <2>3
<1>9. CASE Store(e) /\ UNCHANGED <<audit, batch>>
  BY <1>9, LightTasks, LightCalm DEF Store
<1> QED
  BY <1>1, <1>2, <1>3, <1>4, <1>5, <1>6, <1>7, <1>8, <1>9

LEMMA PipelineCalm ==
  ASSUME TypeInv, ProgressInv, OneWorker, NEW w \in Workers,
         PollWrite(w) \/ \E b \in Batches : Submit(w, b) \/ PollLoad(w, b)
  PROVE  Calm
<1>1. w \in Executors /\ \A v \in Workers : v = w
  BY DEF Executors, OneWorker
<1>2. ASSUME NEW b \in Batches, Submit(w, b) PROVE Calm
  <2>1. Polled'
    BY <1>1, <1>2 DEF Submit, Polled, At
  <2> QED
    BY <1>2, <2>1 DEF Submit, Calm, TypeInv, TypeOK
<1>3. ASSUME NEW b \in Batches, PollLoad(w, b) PROVE Calm
  <2>1. CASE exec' = exec
    BY <1>3, <2>1, StutterCalm DEF PollLoad
  <2>2. CASE exec' # exec
    <3> DEFINE task == [Idle EXCEPT !.pc = "polled", !.batch = b]
    <3>1. batch[b] \in {"submitted", "in_progress", "canceling"} /\ Become(w, task)
      BY <1>3, <2>2 DEF PollLoad
    <3>2. task.batch = b /\ StillTrue(task)
      BY PolledTask
    <3>3. exec'[w] = task
      BY <1>1, <3>1 DEF Become, TypeInv, TypeOK
    <3>4. batch' = batch /\ batch[b] # "canceling"
      BY <1>3 DEF PollLoad, ProgressInv, Statuses
    <3>5. Polled'
      <4> HIDE DEF task
      <4> QED
        BY <1>1, <3>1, <3>2, <3>3, <3>4 DEF Polled
    <3> QED
      BY <1>1, <1>3, <3>1, <3>2, <3>5, BecomeStill DEF PollLoad, Calm
  <2> QED
    BY <2>1, <2>2
<1>4. CASE PollWrite(w)
  <2>1. batch[exec[w].batch] \in {"submitted", "in_progress", "deleted"}
    BY <1>4 DEF PollWrite, ProgressInv, Polled
  <2>2. \A b \in Batches :
          \/ batch'[b] = batch[b]
          \/ /\ batch[b] \in {"pending_submit", "submitted", "in_progress"}
             /\ batch'[b] \in {"submitted", "in_progress", "ended"}
    BY <1>4, <2>1 DEF PollWrite, Exists, BatchStatuses, TypeInv, TypeOK
  <2>3. exec'[w] = Idle
    BY <1>1, <1>4 DEF PollWrite, Become, TypeInv, TypeOK
  <2>4. Polled'
    BY <1>1, <2>3, LightTasks DEF Light, Polled, At
  <2> QED
    BY <1>1, <1>4, <2>2, <2>4, LightTasks, BecomeStill DEF PollWrite, Calm, Light
<1> QED
  BY <1>2, <1>3, <1>4

LEMMA RequestCalm ==
  ASSUME TypeInv, ProgressInv,
         \/ CreateTag \/ UpdateTag \/ Apply
         \/ Kickoff /\ audit' = audit
         \/ \E a \in Audits : EnqueuePoll(a)
         \/ \E b \in Batches : Answer(b)
         \/ UNCHANGED vars
  PROVE  Calm
  BY StutterCalm DEF CreateTag, UpdateTag, Apply, Kickoff, EnqueuePoll, Answer, vars

--------------------------------------------------------------------------------
(* What a task rests on survives the steps that change audits.               *)

(* Audits are deleted and batches too, of the deleted audits or unprocessed; *)
(* an audit that stays loses at most a batch that is deleted.                *)
Cut ==
  /\ \A a \in Audits :
       \/ Row(a) /\ audit'[a].state = "deleted"
       \/ /\ audit'[a].state = audit[a].state /\ audit'[a].tag = audit[a].tag
          /\ audit'[a].report = audit[a].report
          /\ \/ audit'[a].batch = audit[a].batch
             \/ audit'[a].batch = 0 /\ audit[a].batch # 0 /\ batch'[audit[a].batch] = "deleted"
          /\ Row(a) /\ audit[a].report # 0 => audit'[a].batch = audit[a].batch /\ batch'[audit[a].batch] = "processed"
  /\ \A b \in Batches : batch'[b] = batch[b] \/ batch'[b] = "deleted"
  /\ made' = made
  /\ \A e \in Executors : exec'[e] = exec[e] \/ exec'[e] = Idle

LEMMA CutTask ==
  ASSUME TypeInv, Cut, NEW task \in Task, Names(task), StillTrue(task)
  PROVE  StillTrue(task)'
<1>1. CASE task.pc = "fetch"
  <2>1. task.audit \in Audits /\ task.batch \in Batches
    BY <1>1 DEF Task, Names
  <2>2. /\ audit[task.audit].state # "none"
        /\ batch[task.batch] \in {"ended", "processed", "deleted"}
        /\ Row(task.audit) /\ Exists(task.batch) => audit[task.audit].batch = task.batch
    BY <1>1 DEF StillTrue
  <2>3. audit'[task.audit].state # "none" /\ batch'[task.batch] \in {"ended", "processed", "deleted"}
    BY <2>1, <2>2 DEF Cut
  <2>4. Row(task.audit)' /\ Exists(task.batch)' => audit'[task.audit].batch = task.batch
    BY <2>1, <2>2 DEF Cut, Row, Exists, BatchStatuses
  <2> QED
    BY <1>1, <2>3, <2>4 DEF StillTrue
<1>2. CASE task.pc = "prune"
  <2> SUFFICES ASSUME NEW b \in task.gone
               PROVE  made'[b] # 0 /\ (Row(made[b])' => audit'[made'[b]].tag = task.tag)
    BY <1>2 DEF StillTrue
  <2>1. made'[b] = made[b] /\ made[b] \in Audits
    BY <1>2 DEF StillTrue, Cut, Task, TypeInv, TypeOK
  <2> QED
    BY <1>2, <2>1 DEF StillTrue, Cut, Row
<1> QED
  BY <1>1, <1>2 DEF StillTrue

LEMMA CutProgress ==
  ASSUME TypeInv, TypeInv', ProgressInv, Cut
  PROVE  ProgressInv'
<1>1. Statuses' /\ Used'
  BY DEF Cut, ProgressInv, Statuses, Used
<1>2. OwnBatch' /\ OwnReport'
  BY DEF Cut, ProgressInv, OwnBatch, OwnReport, Row
<1>3. Polled'
  <2>1. \A w \in Workers : At(w, "polled") => exec[w].batch \in Batches
    BY DEF TypeInv, TypeOK, Task, Names, At, Executors
  <2> QED
    BY <2>1, LightTasks DEF Light, Cut, ProgressInv, Polled, At, Executors
<1>4. ASSUME NEW e \in Executors PROVE StillTrue(exec[e])'
  <2>1. exec'[e] \in Task /\ Names(exec'[e])
    BY DEF TypeInv, TypeOK
  <2>2. StillTrue(exec'[e])
    BY LightTasks DEF Cut, ProgressInv, Light
  <2>3. \A task \in Task : Names(task) /\ StillTrue(task) => StillTrue(task)'
    BY CutTask
  <2> QED
    BY <2>1, <2>2, <2>3 DEF StillTrue
<1> QED
  BY <1>1, <1>2, <1>3, <1>4 DEF ProgressInv

LEMMA DeleteTagCut ==
  ASSUME TypeInv, ProgressInv, DeleteTag
  PROVE  Cut
<1>1. \A a \in OfTag(tag.id) : Row(a)
  BY DEF OfTag
<1>2. \A a \in Audits : audit'[a] = audit[a] \/ (Row(a) /\ audit'[a].state = "deleted")
  BY <1>1, WithoutQuiet DEF DeleteTag
<1> QED
  BY <1>2 DEF DeleteTag, Cut, ProgressInv, OwnReport

LEMMA EndPruneCut ==
  ASSUME TypeInv, ProgressInv, NEW s \in Shells, EndPrune(s)
  PROVE  Cut
<1> DEFINE rows == OfTag(exec[s].tag)
           gone == exec[s].gone
<1>1. s \in Executors /\ exec[s].pc = "prune" /\ gone \subseteq Batches
  BY DEF EndPrune, At, Executors, TypeInv, TypeOK, Task
<1>2. \A a \in Audits : \/ a \in rows /\ Row(a) /\ audit'[a].state = "deleted"
                        \/ a \notin rows /\ audit'[a] = audit[a]
  BY DEF EndPrune, Without, OfTag, NoAudit
<1>3. \A b \in Batches : batch'[b] = IF b \in gone THEN "deleted" ELSE batch[b]
  BY DEF EndPrune, WithoutBatches
<1>4. ASSUME NEW a \in Audits, a \notin rows, Row(a), audit[a].batch # 0
      PROVE  audit[a].batch \notin gone
  <2>1. made[audit[a].batch] = a
    BY <1>4 DEF ProgressInv, OwnBatch
  <2> QED
    BY <1>1, <1>4, <2>1 DEF ProgressInv, StillTrue, OfTag
<1>5. ASSUME NEW a \in Audits, a \notin rows, Row(a), audit[a].report # 0
      PROVE  batch'[audit[a].batch] = "processed"
  <2>1. audit[a].batch \in Batches /\ audit[a].batch # 0 /\ batch[audit[a].batch] = "processed"
    BY <1>5 DEF ProgressInv, OwnReport, TypeInv, TypeOK, AuditRow, Batches
  <2> QED
    BY <1>3, <1>4, <1>5, <2>1
<1>6. \A e \in Executors : exec'[e] = exec[e] \/ exec'[e] = Idle
  BY DEF EndPrune, Become, TypeInv, TypeOK
<1> QED
  BY <1>2, <1>3, <1>5, <1>6 DEF EndPrune, Cut

LEMMA DeleteBatchesCut ==
  ASSUME TypeInv, ProgressInv, KeepsProcessed, NEW ceiling \in Ceilings, DeleteBatches(ceiling)
  PROVE  Cut
<1> DEFINE gone == {b \in Batches : batch[b] \in AtOrBefore(ceiling)}
<1>1. \A b \in Batches : batch'[b] = IF b \in gone THEN "deleted" ELSE batch[b]
  BY DEF DeleteBatches, WithoutBatches
<1>2. \A b \in gone : b \in Batches /\ b # 0 /\ batch[b] # "processed"
  BY DEF KeepsProcessed, Batches
<1>3. ASSUME NEW a \in Audits
      PROVE  /\ audit'[a].state = audit[a].state /\ audit'[a].tag = audit[a].tag
             /\ audit'[a].report = audit[a].report
             /\ audit'[a].batch = IF audit[a].batch \in gone THEN 0 ELSE audit[a].batch
  <2>1. audit'[a] = IF audit[a].batch \in gone THEN [audit[a] EXCEPT !.batch = 0] ELSE audit[a]
    BY DEF DeleteBatches
  <2>2. audit[a] \in AuditRow
    BY DEF TypeInv, TypeOK
  <2> HIDE DEF gone
  <2> QED
    BY <2>1, <2>2 DEF AuditRow
<1>4. ASSUME NEW a \in Audits, Row(a), audit[a].report # 0
      PROVE  audit[a].batch \in Batches /\ audit[a].batch \notin gone /\ batch[audit[a].batch] = "processed"
  BY <1>2, <1>4 DEF ProgressInv, OwnReport, TypeInv, TypeOK, AuditRow
<1> HIDE DEF gone
<1> QED
  BY <1>1, <1>2, <1>3, <1>4 DEF DeleteBatches, Cut

--------------------------------------------------------------------------------
(* A new audit, a new batch, a report.                                       *)

LEMMA KickoffProgress ==
  ASSUME TypeInv, StrayInv, ProgressInv, NEW a \in Audits, NextAudit(a),
         audit' = [audit EXCEPT ![a] = NewAudit], UNCHANGED <<batch, made, exec>>
  PROVE  ProgressInv'
<1>1. audit[a].state = "none"
  BY NumberIsNew
<1>2. NewAudit.state = "row" /\ NewAudit.batch = 0 /\ NewAudit.report = 0
  BY DEF NewAudit, NoAudit
<1>3. \A c \in Audits : audit'[c] = IF c = a THEN NewAudit ELSE audit[c]
  BY DEF TypeInv, TypeOK
<1>4. Statuses' /\ Used' /\ Polled'
  BY DEF ProgressInv, Statuses, Used, Polled, At
<1>5. OwnBatch' /\ OwnReport'
  BY <1>2, <1>3 DEF ProgressInv, OwnBatch, OwnReport, Row
<1>6. ASSUME NEW e \in Executors PROVE StillTrue(exec[e])'
  <2>1. exec'[e] = exec[e] /\ exec[e] \in Task /\ Names(exec[e]) /\ StillTrue(exec[e])
    BY DEF TypeInv, TypeOK, ProgressInv
  <2>2. exec[e].pc = "fetch" => exec[e].audit \in Audits /\ exec[e].audit # a
    BY <1>1, <2>1 DEF StillTrue, Task, Names
  <2>3. \A b \in Batches : made[b] # 0 => made[b] \in Audits /\ made[b] # a
    BY <1>1 DEF StrayInv, MadeForRows, TypeInv, TypeOK
  <2>4. exec[e].gone \subseteq Batches
    BY <2>1 DEF Task
  <2> QED
    BY <1>3, <2>1, <2>2, <2>3, <2>4 DEF StillTrue, Row, Exists
<1> QED
  BY <1>4, <1>5, <1>6 DEF ProgressInv

LEMMA NewBatchProgress ==
  ASSUME TypeInv, TypeInv', StrayInv, ProgressInv, NEW e \in Executors, NEW task, Light(task), Become(e, task),
         NEW a \in Audits, NEW b \in Batches, batch[b] = "unused",
         batch' = [batch EXCEPT ![b] = "pending_submit"], made' = [made EXCEPT ![b] = a],
         \A c \in Audits : c # a => audit'[c] = audit[c],
         audit'[a].state = "row" /\ audit'[a].batch = b /\ audit'[a].report = 0,
         \/ audit[a].state = "none"
         \/ Row(a) /\ audit[a].batch = 0 /\ audit'[a].tag = audit[a].tag
  PROVE  ProgressInv'
<1>1. \A c \in Batches : /\ batch'[c] = IF c = b THEN "pending_submit" ELSE batch[c]
                         /\ made'[c] = IF c = b THEN a ELSE made[c]
                         /\ made[c] \in {0} \cup Audits
  BY DEF TypeInv, TypeOK
<1>2. \A c \in Batches : made[c] # 0 => c # b /\ made'[c] = made[c]
  BY <1>1 DEF ProgressInv, Used
<1>3. a # 0 /\ b # 0 /\ \A c \in Audits : audit[c].batch \in {0} \cup Batches
  BY DEF Audits, Batches, TypeInv, TypeOK, AuditRow
<1>4. Statuses'
  BY <1>1 DEF ProgressInv, Statuses
<1>5. Used'
  BY <1>1 DEF ProgressInv, Used
<1>6. OwnBatch'
  <2> SUFFICES ASSUME NEW c \in Audits, Row(c)', audit'[c].batch # 0 PROVE made'[audit'[c].batch] = c
    BY DEF OwnBatch
  <2>1. CASE c = a
    BY <1>1, <2>1
  <2>2. CASE c # a
    <3>1. Row(c) /\ audit'[c].batch = audit[c].batch /\ audit[c].batch \in Batches
      BY <1>3, <2>2 DEF Row
    <3>2. made[audit[c].batch] = c /\ c # 0
      BY <3>1 DEF ProgressInv, OwnBatch, Row
    <3> QED
      BY <1>2, <3>1, <3>2
  <2> QED
    BY <2>1, <2>2
<1>7. OwnReport'
  <2> SUFFICES ASSUME NEW c \in Audits, Row(c)', audit'[c].report # 0
               PROVE  audit'[c].report = audit'[c].batch /\ batch'[audit'[c].batch] = "processed"
    BY DEF OwnReport
  <2>1. c # a /\ audit'[c] = audit[c] /\ Row(c)
    BY DEF Row
  <2>2. audit[c].report = audit[c].batch /\ batch[audit[c].batch] = "processed"
    BY <2>1 DEF ProgressInv, OwnReport
  <2>3. audit[c].batch \in Batches /\ audit[c].batch # b
    BY <1>3, <2>1, <2>2
  <2> QED
    BY <1>1, <2>1, <2>2, <2>3
<1>8. \A x \in Executors : exec'[x] = IF x = e THEN task ELSE exec[x]
  BY DEF Become, TypeInv, TypeOK
<1>9. Polled'
  <2> SUFFICES ASSUME NEW w \in Workers, At(w, "polled")'
               PROVE  batch'[exec'[w].batch] \in {"submitted", "in_progress", "deleted"}
    BY DEF Polled
  <2>1. w \in Executors /\ exec'[w] = exec[w] /\ At(w, "polled")
    BY <1>8 DEF Executors, At, Light
  <2>2. batch[exec[w].batch] \in {"submitted", "in_progress", "deleted"} /\ exec[w].batch \in Batches
    BY <2>1 DEF ProgressInv, Polled, TypeInv, TypeOK, Task, Names, At
  <2> QED
    BY <1>1, <2>1, <2>2
<1>10. ASSUME NEW x \in Task, Names(x), StillTrue(x) PROVE StillTrue(x)'
  <2>1. CASE x.pc = "fetch"
    <3>1. x.audit \in Audits /\ x.batch \in Batches /\ x.batch # 0
      BY <1>10, <2>1 DEF Task, Names, Batches
    <3>2. /\ audit[x.audit].state # "none"
          /\ batch[x.batch] \in {"ended", "processed", "deleted"}
          /\ Row(x.audit) /\ Exists(x.batch) => audit[x.audit].batch = x.batch
      BY <1>10, <2>1 DEF StillTrue
    <3>3. batch'[x.batch] = batch[x.batch] /\ audit'[x.audit].state # "none"
      BY <1>1, <3>1, <3>2
    <3>4. x.audit = a => ~Exists(x.batch)
      BY <3>1, <3>2
    <3>5. Row(x.audit)' /\ Exists(x.batch)' => audit'[x.audit].batch = x.batch
      BY <3>1, <3>2, <3>3, <3>4 DEF Row, Exists
    <3> QED
      BY <2>1, <3>2, <3>3, <3>5 DEF StillTrue
  <2>2. CASE x.pc = "prune"
    <3> SUFFICES ASSUME NEW c \in x.gone
                 PROVE  made'[c] # 0 /\ (Row(made[c])' => audit'[made'[c]].tag = x.tag)
      BY <2>2 DEF StillTrue
    <3>1. c \in Batches /\ made[c] # 0 /\ (Row(made[c]) => audit[made[c]].tag = x.tag)
      BY <1>10, <2>2 DEF StillTrue, Task
    <3>2. made'[c] = made[c] /\ made[c] \in Audits /\ audit[made[c]].state # "none"
      BY <1>1, <1>2, <3>1 DEF StrayInv, MadeForRows
    <3> QED
      BY <3>1, <3>2 DEF Row
  <2> QED
    BY <2>1, <2>2 DEF StillTrue
<1>11. ASSUME NEW x \in Executors PROVE StillTrue(exec[x])'
  <2>1. exec'[x] \in Task /\ Names(exec'[x]) /\ StillTrue(exec'[x])
    BY <1>8 DEF TypeInv, TypeOK, ProgressInv, Light
  <2> QED
    BY <1>10, <2>1 DEF StillTrue
<1> QED
  BY <1>4, <1>5, <1>6, <1>7, <1>9, <1>11 DEF ProgressInv

LEMMA AttachProgress ==
  ASSUME TypeInv, TypeInv', StrayInv, ProgressInv, NEW e \in Executors, At(e, "sample"),
         NEW a \in Audits, a = exec[e].audit, e \in Workers => Row(a),
         NEW b \in Batches, NextBatch(b), batch' = [batch EXCEPT ![b] = "pending_submit"],
         made' = [made EXCEPT ![b] = a], audit' = Attached(e, a, b),
         NEW task, Light(task), Become(e, task)
  PROVE  /\ ProgressInv'
         /\ \A c \in Audits : c # a => audit'[c] = audit[c]
         /\ audit[a].state = "none" \/ (Row(a) /\ audit[a].batch = 0)
         /\ audit'[a].state = "row" /\ audit'[a].batch = b /\ audit'[a].report = 0
<1>1. \A c \in Audits : c # a => audit'[c] = audit[c]
  BY DEF Attached, TypeInv, TypeOK
<1>2. batch[b] = "unused"
  BY DEF NextBatch
<1>3. CASE e \in Workers
  <2>1. Row(a) /\ audit[a].batch = 0
    BY <1>3 DEF StrayInv, Sampling
  <2>2. audit[a].report = 0
    <3>1. 0 \notin Batches
      BY DEF Batches
    <3> QED
      BY <2>1, <3>1 DEF ProgressInv, OwnReport
  <2>3. /\ audit'[a].state = "row" /\ audit'[a].tag = audit[a].tag
        /\ audit'[a].batch = b /\ audit'[a].report = 0
    <3>1. audit[a] \in AuditRow /\ audit'[a] = [audit[a] EXCEPT !.batch = b]
      BY <1>3 DEF Attached, TypeInv, TypeOK
    <3> QED
      BY <2>1, <2>2, <3>1 DEF AuditRow, Row
  <2> QED
    BY <1>1, <1>2, <2>1, <2>3, NewBatchProgress
<1>4. CASE e \in Shells /\ e \notin Workers
  <2>1. audit[a].state = "none"
    BY <1>4 DEF StrayInv, Sampling
  <2>2. audit'[a].state = "row" /\ audit'[a].batch = b /\ audit'[a].report = 0
    <3>1. audit'[a] = [NewAudit EXCEPT !.batch = b]
      BY <1>4 DEF Attached, TypeInv, TypeOK
    <3> QED
      BY <3>1 DEF NewAudit, NoAudit
  <2> QED
    BY <1>1, <1>2, <2>1, <2>2, NewBatchProgress
<1> QED
  BY <1>3, <1>4 DEF Executors

LEMMA StoreProgress ==
  ASSUME TypeInv, TypeInv', ProgressInv, NEW e \in Executors, NEW a \in Audits, NEW b \in Batches,
         At(e, "fetch"), a = exec[e].audit, b = exec[e].batch, Row(a), Exists(b),
         audit' = Reported(a, b), batch' = [batch EXCEPT ![b] = "processed"], made' = made,
         Become(e, Idle)
  PROVE  /\ ProgressInv'
         /\ audit[a].batch = b
         /\ \A c \in Audits : c # a => audit'[c] = audit[c]
         /\ audit'[a].state = "row" /\ audit'[a].batch = b /\ audit'[a].report = b
<1>1. /\ batch[b] \in {"ended", "processed"}
      /\ audit[a].batch = b
  <2>1. StillTrue(exec[e]) /\ exec[e].pc = "fetch"
    BY DEF ProgressInv, At
  <2> QED
    BY <2>1 DEF StillTrue, Exists, BatchStatuses
<1>2. \A c \in Audits : c # a => audit'[c] = audit[c]
  BY DEF Reported, TypeInv, TypeOK
<1>3. /\ audit'[a].state = "row" /\ audit'[a].batch = b /\ audit'[a].report = b
      /\ audit'[a].tag = audit[a].tag
  <2>1. audit[a] \in AuditRow /\ audit'[a] = [audit[a] EXCEPT !.report = b, !.suggestion = Suggestion(b)]
    BY DEF Reported, TypeInv, TypeOK
  <2> QED
    BY <1>1, <2>1 DEF AuditRow, Row
<1>4. \A c \in Batches : batch'[c] = IF c = b THEN "processed" ELSE batch[c]
  BY DEF TypeInv, TypeOK
<1>5. Statuses' /\ Used'
  BY <1>4 DEF ProgressInv, Statuses, Used
<1>6. OwnBatch'
  BY <1>1, <1>2, <1>3 DEF ProgressInv, OwnBatch, Row
<1>7. OwnReport'
  <2> SUFFICES ASSUME NEW c \in Audits, Row(c)', audit'[c].report # 0
               PROVE  audit'[c].report = audit'[c].batch /\ batch'[audit'[c].batch] = "processed"
    BY DEF OwnReport
  <2>1. CASE c = a
    BY <1>3, <1>4, <2>1
  <2>2. CASE c # a
    <3>1. Row(c) /\ audit'[c] = audit[c]
      BY <1>2, <2>2 DEF Row
    <3>2. audit[c].report = audit[c].batch /\ batch[audit[c].batch] = "processed" /\ audit[c].batch \in Batches
      BY <3>1 DEF ProgressInv, OwnReport, TypeInv, TypeOK, AuditRow
    <3> QED
      BY <1>4, <3>1, <3>2
  <2> QED
    BY <2>1, <2>2
<1>8. \A x \in Executors : exec'[x] = IF x = e THEN Idle ELSE exec[x]
  BY DEF Become, TypeInv, TypeOK
<1>9. Polled'
  <2> SUFFICES ASSUME NEW w \in Workers, At(w, "polled")'
               PROVE  batch'[exec'[w].batch] \in {"submitted", "in_progress", "deleted"}
    BY DEF Polled
  <2>1. w \in Executors /\ exec'[w] = exec[w] /\ At(w, "polled")
    BY <1>8 DEF Executors, At, Idle
  <2>2. batch[exec[w].batch] \in {"submitted", "in_progress", "deleted"} /\ exec[w].batch \in Batches
    BY <2>1 DEF ProgressInv, Polled, TypeInv, TypeOK, Task, Names, At
  <2> QED
    BY <1>1, <1>4, <2>1, <2>2
<1>10. ASSUME NEW x \in Task, Names(x), StillTrue(x) PROVE StillTrue(x)'
  <2>1. CASE x.pc = "fetch"
    <3>1. x.audit \in Audits /\ x.batch \in Batches
      BY <1>10, <2>1 DEF Task, Names
    <3>2. /\ audit[x.audit].state # "none"
          /\ batch[x.batch] \in {"ended", "processed", "deleted"}
          /\ Row(x.audit) /\ Exists(x.batch) => audit[x.audit].batch = x.batch
      BY <1>10, <2>1 DEF StillTrue
    <3>3. batch'[x.batch] \in {"ended", "processed", "deleted"} /\ audit'[x.audit].state # "none"
      BY <1>2, <1>3, <1>4, <3>1, <3>2
    <3>4. Exists(x.batch)' => Exists(x.batch)
      BY <1>4, <3>1 DEF Exists
    <3>5. (Row(x.audit)' => Row(x.audit)) /\ audit'[x.audit].batch = audit[x.audit].batch
      BY <1>1, <1>2, <1>3, <3>1 DEF Row
    <3> QED
      BY <2>1, <3>2, <3>3, <3>4, <3>5 DEF StillTrue
  <2>2. CASE x.pc = "prune"
    <3> SUFFICES ASSUME NEW c \in x.gone
                 PROVE  made'[c] # 0 /\ (Row(made[c])' => audit'[made'[c]].tag = x.tag)
      BY <2>2 DEF StillTrue
    <3>1. made[c] \in Audits /\ made[c] # 0 /\ (Row(made[c]) => audit[made[c]].tag = x.tag)
      BY <1>10, <2>2 DEF StillTrue, Task, TypeInv, TypeOK
    <3>2. /\ audit'[made[c]].tag = audit[made[c]].tag
          /\ audit'[made[c]].state = "row" => Row(made[c])
      BY <1>2, <1>3, <3>1 DEF Row
    <3> QED
      BY <3>1, <3>2 DEF Row
  <2> QED
    BY <2>1, <2>2 DEF StillTrue
<1>11. ASSUME NEW x \in Executors PROVE StillTrue(exec[x])'
  <2>1. exec'[x] \in Task /\ Names(exec'[x]) /\ StillTrue(exec'[x])
    BY <1>8, LightTasks DEF TypeInv, TypeOK, ProgressInv, Light
  <2> QED
    BY <1>10, <2>1 DEF StillTrue
<1> QED
  BY <1>1, <1>2, <1>3, <1>5, <1>6, <1>7, <1>9, <1>11 DEF ProgressInv

(* What an attachment and a report that take effect are.                     *)
LEMMA AttachStep ==
  ASSUME Inv, NEW e \in Executors, Attach(e), ~UNCHANGED <<audit, batch, made>>
  PROVE  \E a \in Audits, b \in Batches : \E task :
           /\ At(e, "sample") /\ a = exec[e].audit /\ (e \in Workers => Row(a))
           /\ NextBatch(b) /\ batch' = [batch EXCEPT ![b] = "pending_submit"]
           /\ made' = [made EXCEPT ![b] = a] /\ audit' = Attached(e, a, b)
           /\ Light(task) /\ Become(e, task)
<1> DEFINE a == exec[e].audit
<1>1. At(e, "sample") /\ a \in Audits
  BY DEF Attach, At, Inv, TypeInv, TypeOK, Task, Names
<1>2. e \in Workers => Row(a)
  BY AuditAssumption DEF Attach, AuditAssumption
<1>3. PICK b \in Batches :
        /\ NextBatch(b) /\ batch' = [batch EXCEPT ![b] = "pending_submit"]
        /\ made' = [made EXCEPT ![b] = a] /\ audit' = Attached(e, a, b)
        /\ Become(e, [Idle EXCEPT !.pc = "send", !.audit = a, !.batch = b])
  BY DEF Attach
<1> DEFINE task == [Idle EXCEPT !.pc = "send", !.audit = a, !.batch = b]
<1>4. Light(task)
  BY LightTasks, Zenon
<1> HIDE DEF task
<1> QED
  BY <1>1, <1>2, <1>3, <1>4 DEF task

LEMMA StoreStep ==
  ASSUME Inv, NEW e \in Executors, Store(e), ~UNCHANGED <<audit, batch>>
  PROVE  \E a \in Audits, b \in Batches :
           /\ At(e, "fetch") /\ a = exec[e].audit /\ b = exec[e].batch /\ Row(a) /\ Exists(b)
           /\ audit' = Reported(a, b) /\ batch' = [batch EXCEPT ![b] = "processed"] /\ made' = made
           /\ Become(e, Idle)
<1>1. exec[e].audit \in Audits /\ exec[e].batch \in Batches
  BY DEF Store, At, Inv, TypeInv, TypeOK, Task, Names
<1> QED
  BY <1>1 DEF Store

LEMMA NextProgress ==
  ASSUME OneWorker, KeepsProcessed, Inv, TypeInv', [Next]_vars
  PROVE  ProgressInv'
<1> USE DEF Inv
<1>1. CASE \/ CreateTag \/ UpdateTag \/ Apply
           \/ Kickoff /\ audit' = audit
           \/ \E a \in Audits : EnqueuePoll(a)
           \/ \E b \in Batches : Answer(b)
           \/ UNCHANGED vars
  BY <1>1, RequestCalm, CalmProgress
<1>2. CASE Kickoff /\ audit' # audit
  BY <1>2, KickoffProgress DEF Kickoff
<1>3. CASE DeleteTag
  BY <1>3, DeleteTagCut, CutProgress
<1>4. ASSUME NEW s \in Shells, EndPrune(s) PROVE ProgressInv'
  BY <1>4, EndPruneCut, CutProgress
<1>5. ASSUME NEW ceiling \in Ceilings, DeleteBatches(ceiling) PROVE ProgressInv'
  BY <1>5, DeleteBatchesCut, CutProgress
<1>6. ASSUME NEW w \in Workers, SweepProcessed(w) \/ SendInit(w) \/ TakeMessage(w) \/ PollWrite(w)
      PROVE  ProgressInv'
  <2>1. Calm
    BY <1>6, ExecutorCalm, PipelineCalm DEF TakeMessage, Executors
  <2> QED
    BY <2>1, CalmProgress
<1>7. ASSUME NEW s \in Shells, InitAudit(s) \/ Prune(s) \/ \E a \in Audits : ProcessShell(s, a)
      PROVE  ProgressInv'
  <2>1. Calm
    BY <1>7, ExecutorCalm DEF Executors
  <2> QED
    BY <2>1, CalmProgress
<1>8. ASSUME NEW e \in Executors, SendSubmit(e) \/ Crash(e) PROVE ProgressInv'
  BY <1>8, ExecutorCalm, CalmProgress
<1>9. ASSUME NEW e \in Executors, Attach(e) PROVE ProgressInv'
  <2>1. CASE UNCHANGED <<audit, batch, made>>
    BY <1>9, <2>1, ExecutorCalm, CalmProgress
  <2>2. CASE ~UNCHANGED <<audit, batch, made>>
    BY <1>9, <2>2, AttachStep, AttachProgress
  <2> QED
    BY <2>1, <2>2
<1>10. ASSUME NEW e \in Executors, Store(e) PROVE ProgressInv'
  <2>1. CASE UNCHANGED <<audit, batch>>
    BY <1>10, <2>1, ExecutorCalm, CalmProgress
  <2>2. CASE ~UNCHANGED <<audit, batch>>
    BY <1>10, <2>2, StoreStep, StoreProgress
  <2> QED
    BY <2>1, <2>2
<1>11. ASSUME NEW s \in Shells, SweepProcessedByShell(s) PROVE ProgressInv'
  <2>1. UNCHANGED <<audit, batch, made, exec>>
    BY <1>11 DEF SweepProcessedByShell
  <2> QED
    BY <2>1, StutterCalm, CalmProgress
<1> QED
  BY <1>11, <1>1, <1>2, <1>3, <1>4, <1>5, <1>6, <1>7, <1>8, <1>9, <1>10 DEF Next, Finish

--------------------------------------------------------------------------------
(* The refinement.  What is seen of an audit depends on its row alone.       *)

Shown(row) ==
  [status |-> IF row.state # "row" THEN row.state
              ELSE IF row.batch = 0 THEN "pending"
              ELSE IF row.report # 0 THEN "complete" ELSE "in_progress",
   report |-> IF row.state = "row" /\ row.batch # 0 THEN row.report ELSE 0]

LEMMA SeenShown ==
  /\ Inv => Seen = [a \in Audits |-> Shown(audit[a])]
  /\ Inv' => Seen' = [a \in Audits |-> Shown(audit'[a])]
<1>1. ASSUME Inv, NEW a \in Audits
      PROVE  [status |-> Status(a), report |-> IF Status(a) = "complete" THEN audit[a].report ELSE 0]
               = Shown(audit[a])
  <2>1. /\ audit[a].state \in {"none", "row", "deleted"}
        /\ audit[a].batch # 0 => batch[audit[a].batch] \notin FailedStatuses
    BY <1>1 DEF Inv, TypeInv, TypeOK, AuditRow, ProgressInv, Statuses, FailedStatuses
  <2> QED
    BY <2>1 DEF Status, Shown
<1>2. ASSUME Inv', NEW a \in Audits
      PROVE  [status |-> Status(a)', report |-> IF Status(a)' = "complete" THEN audit'[a].report ELSE 0]
               = Shown(audit'[a])
  <2>1. /\ audit'[a].state \in {"none", "row", "deleted"}
        /\ audit'[a].batch # 0 => batch'[audit'[a].batch] \notin FailedStatuses
    BY <1>2 DEF Inv, TypeInv, TypeOK, AuditRow, ProgressInv, Statuses, FailedStatuses
  <2> QED
    BY <2>1 DEF Status, Shown
<1> QED
  BY <1>1, <1>2 DEF Seen

LEMMA OneChange ==
  ASSUME Inv, Inv', NEW a \in Audits, \A c \in Audits : c # a => audit'[c] = audit[c]
  PROVE  Seen' = [Seen EXCEPT ![a] = Shown(audit'[a])]
  BY SeenShown

LEMMA KickoffRefines ==
  ASSUME Inv, Inv', Kickoff, audit' # audit
  PROVE  Progress!Next
<1>1. PICK a \in Audits : NextAudit(a) /\ audit' = [audit EXCEPT ![a] = NewAudit]
  BY DEF Kickoff
<1>2. audit[a].state = "none"
  BY <1>1, NumberIsNew DEF Inv
<1>3. audit'[a] = NewAudit /\ \A c \in Audits : c # a => audit'[c] = audit[c]
  BY <1>1 DEF Inv, TypeInv, TypeOK
<1>4. Shown(audit'[a]) = [status |-> "pending", report |-> 0]
  BY <1>3 DEF Shown, NewAudit, NoAudit
<1>5. Seen[a].status = "none"
  BY <1>2, SeenShown DEF Shown
<1>6. Seen' = [Seen EXCEPT ![a] = [status |-> "pending", report |-> 0]]
  BY <1>3, <1>4, OneChange
<1>7. Progress!Request(a)
  BY <1>5, <1>6 DEF Progress!Request, Progress!Change
<1> QED
  BY <1>7 DEF Progress!Next

LEMMA AttachRefines ==
  ASSUME Inv, Inv', NEW e \in Executors, Attach(e), ~UNCHANGED <<audit, batch, made>>
  PROVE  Progress!Next
<1>1. PICK a \in Audits, b \in Batches :
        /\ \A c \in Audits : c # a => audit'[c] = audit[c]
        /\ audit[a].state = "none" \/ (Row(a) /\ audit[a].batch = 0)
        /\ audit'[a].state = "row" /\ audit'[a].batch = b /\ audit'[a].report = 0
  BY AttachStep, AttachProgress DEF Inv
<1>2. Shown(audit'[a]) = [status |-> "in_progress", report |-> 0]
  BY <1>1 DEF Shown, Batches
<1>3. Seen' = [Seen EXCEPT ![a] = [status |-> "in_progress", report |-> 0]]
  BY <1>1, <1>2, OneChange
<1>4. Seen[a].status \in {"none", "pending"}
  BY <1>1, SeenShown DEF Shown, Row
<1>5. Progress!Request(a) \/ Progress!Start(a)
  BY <1>3, <1>4 DEF Progress!Request, Progress!Start, Progress!Change
<1> QED
  BY <1>5 DEF Progress!Next

(* No other audit shows a report of this batch: it would be its own.         *)
LEMMA StoreRefines ==
  ASSUME Inv, Inv', NEW e \in Executors, Store(e), ~UNCHANGED <<audit, batch>>
  PROVE  Progress!Next \/ UNCHANGED Seen
<1>1. PICK a \in Audits, b \in Batches :
        /\ Row(a) /\ audit[a].batch = b
        /\ \A c \in Audits : c # a => audit'[c] = audit[c]
        /\ audit'[a].state = "row" /\ audit'[a].batch = b /\ audit'[a].report = b
  BY StoreStep, StoreProgress DEF Inv
<1>2. b # 0
  BY DEF Batches
<1>3. Shown(audit'[a]) = [status |-> "complete", report |-> b]
  BY <1>1, <1>2 DEF Shown
<1>4. Seen' = [Seen EXCEPT ![a] = [status |-> "complete", report |-> b]]
  BY <1>1, <1>3, OneChange
<1>5. CASE audit[a].report # 0
  <2>1. audit[a].report = b
    BY <1>1, <1>5 DEF Inv, ProgressInv, OwnReport
  <2>2. Shown(audit[a]) = [status |-> "complete", report |-> b]
    BY <1>1, <1>2, <2>1 DEF Shown, Row
  <2> QED
    BY <1>4, <2>2, SeenShown
<1>6. CASE audit[a].report = 0
  <2>1. Seen[a].status = "in_progress"
    BY <1>1, <1>2, <1>6, SeenShown DEF Shown, Row
  <2>2. \A c \in Audits : Seen[c].report # b
    <3> SUFFICES ASSUME NEW c \in Audits, Seen[c].report = b PROVE FALSE
      OBVIOUS
    <3>1. audit[c].state = "row" /\ audit[c].batch # 0 /\ audit[c].report = b /\ c # 0
      BY <1>2, SeenShown DEF Shown, Audits
    <3>2. audit[c].batch = b
      BY <1>2, <3>1 DEF Inv, ProgressInv, OwnReport, Row
    <3>3. made[b] = c /\ made[b] = a
      BY <1>1, <1>2, <3>1, <3>2 DEF Inv, ProgressInv, OwnBatch, Row
    <3> QED
      BY <1>2, <1>6, <3>1, <3>3
  <2>3. Progress!Complete(a)
    BY <1>4, <2>1, <2>2 DEF Progress!Complete, Progress!Change
  <2> QED
    BY <2>3 DEF Progress!Next
<1> QED
  BY <1>5, <1>6

LEMMA DeletionRefines ==
  ASSUME Inv, Inv', \A a \in Audits : audit'[a] = audit[a] \/ (Row(a) /\ audit'[a].state = "deleted")
  PROVE  Progress!Next
<1> DEFINE S == {a \in Audits : Row(a) /\ audit'[a].state = "deleted"}
<1>1. ASSUME NEW a \in Audits
      PROVE  Seen'[a] = IF a \in S /\ Seen[a].status # "none" THEN [status |-> "deleted", report |-> 0]
                                                               ELSE Seen[a]
  <2>1. Seen[a] = Shown(audit[a]) /\ Seen'[a] = Shown(audit'[a])
    BY SeenShown
  <2>2. CASE a \in S
    <3>1. Shown(audit'[a]) = [status |-> "deleted", report |-> 0] /\ Shown(audit[a]).status # "none"
      BY <2>2 DEF Shown, Row
    <3> QED
      BY <2>1, <2>2, <3>1
  <2>3. CASE a \notin S
    <3>1. audit'[a] = audit[a]
      BY <2>3
    <3> QED
      BY <2>1, <2>3, <3>1
  <2> QED
    BY <2>2, <2>3
<1>2. Seen' = [a \in Audits |->
                 IF a \in S /\ Seen[a].status # "none" THEN [status |-> "deleted", report |-> 0] ELSE Seen[a]]
  BY <1>1 DEF Seen
<1>3. S \in SUBSET Audits
  OBVIOUS
<1>4. Progress!Delete
  <2> HIDE DEF S
  <2> QED
    BY <1>2, <1>3 DEF Progress!Delete
<1> QED
  BY <1>4 DEF Progress!Next

LEMMA DeleteBatchesRefines ==
  ASSUME Inv, Inv', KeepsProcessed, NEW ceiling \in Ceilings, DeleteBatches(ceiling)
  PROVE  Progress!Next
<1> DEFINE S == {a \in Audits : Row(a) /\ audit[a].batch # 0 /\ audit'[a].batch = 0}
<1>1. Cut /\ \A a \in Audits : audit'[a].state = audit[a].state
  <2>1. Cut
    BY DeleteBatchesCut DEF Inv
  <2>2. \A a \in Audits : audit'[a].state = audit[a].state
    BY DeleteBatchesTame DEF Inv, Tame
  <2> QED
    BY <2>1, <2>2
<1>2. ASSUME NEW a \in S
      PROVE  Seen[a].status = "in_progress" /\ Seen'[a] = [status |-> "pending", report |-> 0]
  <2>1. a \in Audits /\ audit[a].state = "row" /\ audit[a].batch # 0 /\ audit'[a].batch = 0
    BY DEF Row
  <2>2. audit[a].report = 0
    BY <1>1, <2>1 DEF Cut, Row
  <2>3. Seen[a] = Shown(audit[a]) /\ Seen'[a] = Shown(audit'[a])
    BY <2>1, SeenShown
  <2> QED
    BY <1>1, <2>1, <2>2, <2>3 DEF Shown
<1>3. ASSUME NEW a \in Audits, a \notin S
      PROVE  Seen'[a] = Seen[a]
  <2>1. Seen[a] = Shown(audit[a]) /\ Seen'[a] = Shown(audit'[a])
    BY SeenShown
  <2>2. CASE audit[a].state # "row"
    BY <1>1, <2>1, <2>2 DEF Shown
  <2>3. CASE audit[a].state = "row"
    <3>1. Row(a) /\ audit'[a].state = "row"
      BY <1>1, <2>3 DEF Row, Audits
    <3>2. audit'[a].batch = audit[a].batch /\ audit'[a].report = audit[a].report
      BY <1>1, <1>3, <3>1 DEF Cut
    <3> QED
      BY <2>1, <2>3, <3>1, <3>2 DEF Shown
  <2> QED
    BY <2>2, <2>3
<1>4. Seen' = [a \in Audits |-> IF a \in S THEN [status |-> "pending", report |-> 0] ELSE Seen[a]]
  BY <1>2, <1>3 DEF Seen
<1>5. S \in SUBSET Progress!Withdrawn
  BY <1>2 DEF Progress!Withdrawn
<1>6. Progress!Withdraw
  <2> HIDE DEF S
  <2> QED
    BY <1>4, <1>5 DEF Progress!Withdraw
<1> QED
  BY <1>6 DEF Progress!Next

LEMMA StepRefines ==
  ASSUME OneWorker, KeepsProcessed, Inv, Inv', [Next]_vars
  PROVE  [Progress!Next]_Seen
<1>1. CASE audit' = audit
  BY <1>1, SeenShown
<1>2. CASE audit' # audit
  <2>1. CASE Kickoff
    BY <1>2, <2>1, KickoffRefines
  <2>2. CASE DeleteTag
    <3>1. \A a \in OfTag(tag.id) : Row(a)
      BY DEF OfTag
    <3> QED
      BY <2>2, <3>1, WithoutQuiet, DeletionRefines DEF DeleteTag, Inv
  <2>3. ASSUME NEW s \in Shells, EndPrune(s) PROVE Progress!Next
    <3>1. \A a \in OfTag(exec[s].tag) : Row(a)
      BY DEF OfTag
    <3> QED
      BY <2>3, <3>1, WithoutQuiet, DeletionRefines DEF EndPrune, Inv
  <2>4. ASSUME NEW ceiling \in Ceilings, DeleteBatches(ceiling) PROVE Progress!Next
    BY <2>4, DeleteBatchesRefines
  <2>5. ASSUME NEW e \in Executors, Attach(e) PROVE Progress!Next
    BY <1>2, <2>5, AttachRefines
  <2>6. ASSUME NEW e \in Executors, Store(e) PROVE [Progress!Next]_Seen
    BY <1>2, <2>6, StoreRefines
  <2>7. CASE CreateTag \/ UpdateTag \/ Apply \/ UNCHANGED vars
    BY <1>2, <2>7 DEF CreateTag, UpdateTag, Apply, vars
  <2>8. ASSUME NEW w \in Workers, SweepProcessed(w) \/ SendInit(w) \/ TakeMessage(w) \/ PollWrite(w) PROVE FALSE
    BY <1>2, <2>8 DEF SweepProcessed, SendInit, TakeMessage, InitRead, Submit, PollLoad, ProcessRead, PollWrite
  <2>9. ASSUME NEW s \in Shells, InitAudit(s) \/ Prune(s) \/ \E a \in Audits : ProcessShell(s, a) PROVE FALSE
    BY <1>2, <2>9 DEF InitAudit, Prune, ProcessShell
  <2>10. ASSUME NEW e \in Executors, SendSubmit(e) \/ Crash(e) PROVE FALSE
    BY <1>2, <2>10 DEF SendSubmit, Crash
  <2>11. CASE (\E a \in Audits : EnqueuePoll(a)) \/ \E b \in Batches : Answer(b)
    BY <1>2, <2>11 DEF EnqueuePoll, Answer
  <2>12. ASSUME NEW s \in Shells,
                InitAudit(s) \/ Prune(s) \/ EndPrune(s) \/ \E a \in Audits : ProcessShell(s, a)
         PROVE  [Progress!Next]_Seen
    BY <2>3, <2>9, <2>12
  <2>13. ASSUME NEW e \in Executors, Finish(e) \/ Crash(e)
         PROVE  [Progress!Next]_Seen
    BY <2>5, <2>6, <2>10, <2>13 DEF Finish
  <2>14. ASSUME NEW s \in Shells, SweepProcessedByShell(s) PROVE FALSE
    BY <1>2, <2>14 DEF SweepProcessedByShell
  <2> QED
    BY <2>14, <2>1, <2>2, <2>4, <2>7, <2>8, <2>11, <2>12, <2>13 DEF Next
<1> QED
  BY <1>1, <1>2

(* With one worker, and if no deletion of batches reaches processed ones,    *)
(* whatever is initiated twice, polled, processed again, deleted or          *)
(* redelivered, each audit gets one report, of its own batch, and keeps it   *)
(* (create_audit_batches, TagAuditProcessingService.run, AuditMapper).       *)
THEOREM AuditsProgress == ASSUME OneWorker, KeepsProcessed PROVE Spec => ImplementsProgress
<1>1. Init => Inv
  BY InitType, InitStray, InitProgress DEF Inv
<1>2. Inv /\ [Next]_vars => Inv'
  BY NextType, NextStray, NextProgress DEF Inv
<1>3. Init => Progress!Init
  <2> SUFFICES ASSUME Init PROVE Progress!Init
    OBVIOUS
  <2>1. \A a \in Audits : Shown(audit[a]) = [status |-> "none", report |-> 0]
    BY DEF Init, NoAudit, Shown
  <2> QED
    BY <1>1, <2>1, SeenShown DEF Progress!Init, Progress!Absent
<1>4. Inv /\ Inv' /\ [Next]_vars => [Progress!Next]_Seen
  BY StepRefines
<1> QED
  BY <1>1, <1>2, <1>3, <1>4, PTL DEF Spec, ImplementsProgress, Progress!Spec
================================================================================
