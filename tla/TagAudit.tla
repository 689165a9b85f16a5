-------------------------------- MODULE TagAudit --------------------------------
(***************************************************************************)
(* Audits of one tag.  A request, or a sweep once it is processed, has an  *)
(* init task sample the tag's cards and put one batch into the outbox; the *)
(* batch goes through the pipeline of BatchPipeline, and a process task    *)
(* stores Anthropic's answer in the audit: a report, and a suggestion for  *)
(* the tag's description if the report has one.  Meanwhile the tag may be  *)
(* edited, deleted and created again, its audits deleted, batches deleted, *)
(* the suggestion of the latest audit applied; shells initiate, poll and   *)
(* process audits of their own, workers die and calls to Anthropic fail.   *)
(*                                                                         *)
(* A submit task is one step here and a poll two: BatchPipeline has them   *)
(* in detail.  Which cards are sampled is left out, and so is what an      *)
(* apply does to sweeps and card tags: that is in TagSweep.                *)
(***************************************************************************)
EXTENDS BatchStatus

CONSTANTS
  MaxAudits,  \* bound: rows of `tag_audit`, numbered as they are triggered
  MaxBatches, \* bound: rows of `batches` that carry audits
  MaxTags,    \* bound: how often the tag is created
  Workers, Shells,
  Ceilings,   \* the ceilings `batches.delete` is called with
  MaxRequests, \* bound: kickoffs, commands of shells and deletions
  MaxFaults   \* bound: crashes and failed calls

Audits == 1..MaxAudits
Batches == 1..MaxBatches
Executors == Workers \cup Shells

ASSUME AuditAssumption ==
  /\ MaxAudits \in Nat /\ MaxBatches \in Nat /\ MaxTags \in Nat
  /\ MaxRequests \in Nat /\ MaxFaults \in Nat
  /\ Workers \cap Shells = {}
  /\ Ceilings \subseteq BatchStatuses

VARIABLES
  tag,     \* the tag's row: its id, 0 without a row, and its description
  audit,   \* `tag_audit`
  batch,   \* the status of each row of `batches`
  result,  \* what Anthropic has answered to each batch
  sweep,   \* the tag's row of `tag_sweep`: status and post_sweep_audit_id
  queue,   \* the messages that wait for a worker
  exec,    \* what each worker and shell is doing
  made,    \* history: the audit each batch was made for
  requests, faults

vars == <<tag, audit, batch, result, sweep, queue, exec, made, requests, faults>>

Message == {"init"} \X Audits \cup {"submit", "poll", "process"} \X Batches

AuditRow == [state: {"none", "row", "deleted"}, tag: 0..MaxTags, batch: {0} \cup Batches,
             report: {0} \cup Batches, suggestion: {0} \cup Batches]

NoAudit == [state |-> "none", tag |-> 0, batch |-> 0, report |-> 0, suggestion |-> 0]

(* The description is the user's (0) or the suggestion of an audit.        *)
TagRow == [id: 0..MaxTags, used: 0..MaxTags, description: {0} \cup Audits]

SweepRow == [status: {"none", "open", "complete"}, post: {0} \cup Audits]

NoSweep == [status |-> "none", post |-> 0]

Idle == [pc |-> "idle", audit |-> 0, batch |-> 0, tag |-> 0, gone |-> {}]

Task == [pc: {"idle", "sample", "send", "sendinit", "polled", "fetch", "prune"},
         audit: {0} \cup Audits, batch: {0} \cup Batches, tag: 0..MaxTags, gone: SUBSET Batches]

TypeOK ==
  /\ tag \in TagRow
  /\ audit \in [Audits -> AuditRow]
  /\ batch \in [Batches -> BatchStatuses \cup {"unused", "deleted"}]
  /\ result \in [Batches -> {"none", "suggests", "plain", "failed"}]
  /\ sweep \in SweepRow
  /\ queue \subseteq Message
  /\ exec \in [Executors -> Task]
  /\ made \in [Batches -> {0} \cup Audits]
  /\ requests \in 0..MaxRequests /\ faults \in 0..MaxFaults

Init ==
  /\ tag = [id |-> 0, used |-> 0, description |-> 0]
  /\ audit = [a \in Audits |-> NoAudit]
  /\ batch = [b \in Batches |-> "unused"]
  /\ result = [b \in Batches |-> "none"]
  /\ sweep = NoSweep
  /\ queue = {}
  /\ exec = [e \in Executors |-> Idle]
  /\ made = [b \in Batches |-> 0]
  /\ requests = 0 /\ faults = 0

Become(e, task) == exec' = [exec EXCEPT ![e] = task]
At(e, pc) == exec[e].pc = pc
Row(a) == a # 0 /\ audit[a].state = "row"
Exists(b) == batch[b] \in BatchStatuses

(* Rows are numbered as they are inserted, whether or not they commit.     *)
Numbered == {a \in Audits : audit[a].state # "none"}
              \cup {exec[s].audit : s \in {t \in Shells : At(t, "sample")}}
NextAudit(a) == (\A c \in Numbered : c < a) /\ (a = 1 \/ a - 1 \in Numbered)

NextBatch(b) == batch[b] = "unused" /\ \A c \in 1..(b - 1) : batch[c] # "unused"

OfTag(id) == {a \in Audits : Row(a) /\ audit[a].tag = id}

(* Rows a pruning has deleted without having committed are waited for.     *)
Pruning == {exec[s].tag : s \in {t \in Shells : At(t, "prune")}}
Waits(a) == \E e \in Shells : audit[a].batch \in exec[e].gone

-----------------------------------------------------------------------------
Request == requests < MaxRequests /\ requests' = requests + 1

Fault == faults < MaxFaults /\ faults' = faults + 1

(* The tag.                                                                *)

NewTag == [id |-> tag.used + 1, used |-> tag.used + 1, description |-> 0]

CreateTag ==
  /\ tag.id = 0 /\ tag.used < MaxTags
  /\ tag' = NewTag
  /\ UNCHANGED <<audit, batch, result, sweep, queue, exec, made, requests, faults>>

UpdateTag ==
  /\ Request
  /\ tag.id # 0
  /\ tag' = [tag EXCEPT !.description = 0]
  /\ UNCHANGED <<audit, batch, result, sweep, queue, exec, made, faults>>

Without(rows) == [a \in Audits |-> IF a \in rows THEN [NoAudit EXCEPT !.state = "deleted"] ELSE audit[a]]

(* The rows of the sweep and the audits go with the tag; batches stay.     *)
DeleteTag ==
  /\ Request
  /\ tag.id # 0 /\ tag.id \notin Pruning
  /\ tag' = [tag EXCEPT !.id = 0, !.description = 0]
  /\ audit' = Without(OfTag(tag.id))
  /\ sweep' = NoSweep
  /\ UNCHANGED <<batch, result, queue, exec, made, faults>>

(* get_latest_for_tag: by the time they were triggered, finished or not.   *)
LatestCompleted(rows) ==
  LET done == {a \in rows : audit[a].report # 0}
  IN IF done = {} THEN 0 ELSE CHOOSE a \in done : TRUE

Latest(rows) == IF rows = {} THEN 0 ELSE CHOOSE a \in rows : \A c \in rows : c <= a

(* Apply refuses unless the latest audit has a suggestion.                 *)
Applicable(a) == a # 0 /\ audit[a].suggestion # 0

Apply ==
  LET a == Latest(OfTag(tag.id))
  IN /\ tag.id # 0
     /\ Applicable(a)
     /\ tag' = [tag EXCEPT !.description = a]
     /\ \E clean \in BOOLEAN :
          sweep' = IF clean /\ sweep.status = "open" THEN NoSweep ELSE sweep
     /\ UNCHANGED <<audit, batch, result, queue, exec, made, requests, faults>>

-----------------------------------------------------------------------------
(* The sweep that may end in an audit.                                     *)

NewAudit == [NoAudit EXCEPT !.state = "row", !.tag = tag.id]

(* Every kickoff overwrites the choice of the one before.                  *)
Kickoff ==
  /\ Request
  /\ tag.id # 0
  /\ \/ /\ sweep' = [status |-> "open", post |-> 0]
        /\ UNCHANGED audit
     \/ \E a \in Audits :
          /\ NextAudit(a)
          /\ audit' = [audit EXCEPT ![a] = NewAudit]
          /\ sweep' = [status |-> "open", post |-> a]
  /\ UNCHANGED <<tag, batch, result, queue, exec, made, faults>>

(* TagSweepProcessor.run, with the sweep complete or not at its end.       *)
Processed ==
  /\ sweep.status = "open"
  /\ sweep' \in [status: {"open", "complete"}, post: {sweep.post}]

(* A process task remembers the audit of the sweep and sends the message   *)
(* after its transaction.                                                  *)
SweepProcessed(w) ==
  /\ At(w, "idle")
  /\ Processed
  /\ Become(w, IF sweep.post = 0 THEN Idle ELSE [Idle EXCEPT !.pc = "sendinit", !.audit = sweep.post])
  /\ UNCHANGED <<tag, audit, batch, result, queue, made, requests, faults>>

(* `sweep.process` does the same work, and sends no message.               *)
SweepProcessedByShell(s) ==
  /\ Request
  /\ At(s, "idle")
  /\ Processed
  /\ UNCHANGED <<tag, audit, batch, result, queue, exec, made, faults>>

SendInit(w) ==
  /\ At(w, "sendinit")
  /\ queue' = queue \cup {<<"init", exec[w].audit>>}
  /\ Become(w, Idle)
  /\ UNCHANGED <<tag, audit, batch, result, sweep, made, requests, faults>>

-----------------------------------------------------------------------------
(* Starting an audit.  The session reads, samples cards, and commits.      *)

Take(m) == m \in queue /\ queue' = queue \ {m}

InitUnguarded(a) == Row(a)
Startable(a) == Row(a) /\ audit[a].batch = 0

InitRead(w, a) ==
  /\ At(w, "idle")
  /\ Take(<<"init", a>>)
  /\ Become(w, IF Startable(a) THEN [Idle EXCEPT !.pc = "sample", !.audit = a] ELSE Idle)
  /\ UNCHANGED <<tag, audit, batch, result, sweep, made, requests, faults>>

(* `audit.enqueue TAG` inserts the audit in the same transaction.          *)
InitAudit(s) ==
  /\ Request
  /\ At(s, "idle") /\ tag.id # 0
  /\ \E a \in Audits : NextAudit(a) /\ Become(s, [Idle EXCEPT !.pc = "sample", !.audit = a, !.tag = tag.id])
  /\ UNCHANGED <<tag, audit, batch, result, sweep, queue, made, faults>>

Attached(e, a, b) ==
  [audit EXCEPT ![a] = IF e \in Workers THEN [@ EXCEPT !.batch = b] ELSE [NewAudit EXCEPT !.batch = b]]

(* The batch is attached whatever the audit's row has become, provided it  *)
(* still is there: the worker's by an update, the shell's by its insert.   *)
Attach(e) ==
  LET a == exec[e].audit
  IN /\ At(e, "sample")
     /\ ~Waits(a)
     /\ IF (e \in Workers /\ Row(a)) \/ (e \in Shells /\ exec[e].tag = tag.id)
          THEN \E b \in Batches :
                 /\ NextBatch(b)
                 /\ batch' = [batch EXCEPT ![b] = "pending_submit"]
                 /\ made' = [made EXCEPT ![b] = a]
                 /\ audit' = Attached(e, a, b)
                 /\ Become(e, [Idle EXCEPT !.pc = "send", !.audit = a, !.batch = b])
          ELSE Become(e, Idle) /\ UNCHANGED <<audit, batch, made>>
     /\ UNCHANGED <<tag, result, sweep, queue, requests, faults>>

SendPoll(e) ==
  /\ At(e, "send")
  /\ queue' = queue \cup {<<"poll", exec[e].batch>>}
  /\ Become(e, Idle)
  /\ UNCHANGED <<tag, audit, batch, result, sweep, made, requests, faults>>

SendSubmit(e) ==
  /\ At(e, "send")
  /\ queue' = queue \cup {<<"submit", exec[e].batch>>}
  /\ Become(e, Idle)
  /\ UNCHANGED <<tag, audit, batch, result, sweep, made, requests, faults>>

-----------------------------------------------------------------------------
(* The pipeline.                                                           *)

(* A call to Anthropic that fails ends the task without the next one: no   *)
(* task is retried.                                                        *)
Submit(w, b) ==
  /\ At(w, "idle")
  /\ <<"submit", b>> \in queue
  /\ \/ /\ Exists(b)
        /\ batch' = IF batch[b] = "pending_submit" THEN [batch EXCEPT ![b] = "submitted"] ELSE batch
        /\ queue' = (queue \ {<<"submit", b>>}) \cup {<<"poll", b>>}
        /\ UNCHANGED faults
     \/ /\ \/ ~Exists(b) /\ UNCHANGED faults
           \/ batch[b] = "pending_submit" /\ Fault
        /\ queue' = queue \ {<<"submit", b>>}
        /\ UNCHANGED batch
  /\ UNCHANGED <<tag, audit, result, sweep, exec, made, requests>>

Answer(b) ==
  /\ batch[b] \notin {"unused", "pending_submit"} /\ result[b] = "none"
  /\ result' \in {[result EXCEPT ![b] = r] : r \in {"suggests", "plain", "failed"}}
  /\ UNCHANGED <<tag, audit, batch, sweep, queue, exec, made, requests, faults>>

(* Pending rows are polled again; rows that need not be asked about are    *)
(* handed on; a row that is gone ends the chain.                           *)
PollLoad(w, b) ==
  /\ At(w, "idle")
  /\ <<"poll", b>> \in queue
  /\ CASE batch[b] \in TerminalStatuses ->
            queue' = (queue \ {<<"poll", b>>}) \cup {<<"process", b>>} /\ UNCHANGED exec
       [] batch[b] = "pending_submit" -> UNCHANGED <<queue, exec>>
       [] batch[b] \in {"submitted", "in_progress", "canceling"} ->
            Take(<<"poll", b>>) /\ Become(w, [Idle EXCEPT !.pc = "polled", !.batch = b])
       [] OTHER -> Take(<<"poll", b>>) /\ UNCHANGED exec
  /\ UNCHANGED <<tag, audit, batch, result, sweep, made, requests, faults>>

PollWrite(w) ==
  LET b == exec[w].batch
  IN /\ At(w, "polled")
     /\ \/ /\ result[b] = "none"
           /\ batch' = IF Exists(b) THEN [batch EXCEPT ![b] = "in_progress"] ELSE batch
           /\ queue' = queue \cup {<<"poll", b>>}
           /\ UNCHANGED faults
        \/ /\ result[b] # "none"
           /\ batch' = IF Exists(b) THEN [batch EXCEPT ![b] = "ended"] ELSE batch
           /\ queue' = queue \cup {<<"process", b>>}
           /\ UNCHANGED faults
        \/ Fault /\ UNCHANGED <<batch, queue>>
     /\ Become(w, Idle)
     /\ UNCHANGED <<tag, audit, result, sweep, made, requests>>

(* `audit.enqueue --audit-id`                                              *)
EnqueuePoll(a) ==
  /\ Request
  /\ Row(a) /\ audit[a].batch # 0
  /\ queue' = queue \cup {<<"poll", audit[a].batch>>}
  /\ UNCHANGED <<tag, audit, batch, result, sweep, exec, made, faults>>

-----------------------------------------------------------------------------
(* The answer.  Only an audit whose batch has ended is processed, by one   *)
(* executor or by several at once.                                         *)

Processable(a) == Row(a) /\ audit[a].batch # 0 /\ batch[audit[a].batch] \in ProcessableStatuses

Fetching(a) == [Idle EXCEPT !.pc = "fetch", !.audit = a, !.batch = audit[a].batch]

(* The audit whose batch the message names: none if the batch was replaced *)
(* or the audit deleted.                                                   *)
LinkedTo(b) == {a \in Audits : Row(a) /\ audit[a].batch = b}

ProcessRead(w, b) ==
  /\ At(w, "idle")
  /\ Take(<<"process", b>>)
  /\ IF \E a \in LinkedTo(b) : Processable(a)
       THEN \E a \in LinkedTo(b) : Become(w, Fetching(a))
       ELSE Become(w, Idle)
  /\ UNCHANGED <<tag, audit, batch, result, sweep, made, requests, faults>>

(* `audit.process <id>`                                                    *)
ProcessShell(s, a) ==
  /\ Request
  /\ At(s, "idle")
  /\ Processable(a)
  /\ Become(s, Fetching(a))
  /\ UNCHANGED <<tag, audit, batch, result, sweep, queue, made, faults>>

(* One transaction stores the report and marks the batch, both read before *)
(* the download; if either row is gone nothing is stored, nor if Anthropic *)
(* reports the request as failed, nor if the download fails, or the debug  *)
(* file that is written before the commit.                                 *)
ReportedByTag(a, b) ==
  [c \in Audits |-> IF c \in OfTag(audit[a].tag) THEN [audit[c] EXCEPT !.report = b] ELSE audit[c]]

Suggestion(b) == IF result[b] = "suggests" THEN b ELSE 0

Reported(a, b) == [audit EXCEPT ![a] = [@ EXCEPT !.report = b, !.suggestion = Suggestion(b)]]

Store(e) ==
  LET a == exec[e].audit
      b == exec[e].batch
  IN /\ At(e, "fetch")
     /\ ~Waits(a)
     /\ \/ /\ result[b] # "failed" /\ Row(a) /\ Exists(b)
           /\ audit' = Reported(a, b)
           /\ batch' = [batch EXCEPT ![b] = "processed"]
           /\ UNCHANGED faults
        \/ /\ result[b] = "failed" \/ ~Row(a) \/ ~Exists(b)
           /\ UNCHANGED <<audit, batch, faults>>
        \/ Fault /\ UNCHANGED <<audit, batch>>
     /\ Become(e, Idle)
     /\ UNCHANGED <<tag, result, sweep, queue, made, requests>>

-----------------------------------------------------------------------------
(* Deletions.                                                              *)

WithoutBatches(gone) == [b \in Batches |-> IF b \in gone THEN "deleted" ELSE batch[b]]

(* delete_audits_for_tag, by `tag.prune`, a clean reset or a catch-up: the *)
(* batches of the audits it sees, then the audits there are by then.       *)
Prune(s) ==
  /\ Request
  /\ At(s, "idle") /\ tag.id # 0 /\ tag.id \notin Pruning
  /\ Become(s, [Idle EXCEPT !.pc = "prune", !.tag = tag.id,
                            !.gone = {audit[a].batch : a \in OfTag(tag.id)} \ {0}])
  /\ UNCHANGED <<tag, audit, batch, result, sweep, queue, made, faults>>

EndPrune(s) ==
  /\ At(s, "prune")
  /\ LET rows == OfTag(exec[s].tag)
     IN /\ audit' = Without(rows)
        /\ batch' = WithoutBatches(exec[s].gone)
        /\ \E reset \in BOOLEAN :
             sweep' = IF reset THEN NoSweep
                      ELSE IF sweep.post \in rows THEN [sweep EXCEPT !.post = 0] ELSE sweep
  /\ Become(s, Idle)
  /\ UNCHANGED <<tag, result, queue, made, requests, faults>>

(* `batches.delete --status <ceiling>`: audits lose their batch.           *)
DeleteBatches(ceiling) ==
  LET gone == {b \in Batches : batch[b] \in AtOrBefore(ceiling)}
  IN /\ Request
     /\ Pruning = {} /\ gone # {}
     /\ batch' = WithoutBatches(gone)
     /\ audit' = [a \in Audits |-> IF audit[a].batch \in gone THEN [audit[a] EXCEPT !.batch = 0]
                                                              ELSE audit[a]]
     /\ UNCHANGED <<tag, result, sweep, queue, exec, made, faults>>

(* A worker dies; the message of its task comes back, except that the task *)
(* of a sweep finds the sweep as its committed transaction has left it.    *)
UnackedByState(task) == {<<task.pc, task.audit>>}
Unacked(task) ==
  CASE task.pc = "sample" -> {<<"init", task.audit>>}
    [] task.pc = "send" -> {<<"init", task.audit>>}
    [] task.pc = "polled" -> {<<"poll", task.batch>>}
    [] task.pc = "fetch" -> {<<"process", task.batch>>}
    [] OTHER -> {}

Crash(e) ==
  /\ Fault
  /\ exec[e].pc # "idle"
  /\ queue' = IF e \in Workers THEN queue \cup Unacked(exec[e]) ELSE queue
  /\ Become(e, Idle)
  /\ UNCHANGED <<tag, audit, batch, result, sweep, made, requests>>

-----------------------------------------------------------------------------
Finish(e) == Attach(e) \/ SendSubmit(e) \/ Store(e)

TakeMessage(w) ==
  \/ \E a \in Audits : InitRead(w, a)
  \/ \E b \in Batches : Submit(w, b) \/ PollLoad(w, b) \/ ProcessRead(w, b)

Next ==
  \/ CreateTag \/ UpdateTag \/ DeleteTag \/ Apply \/ Kickoff
  \/ \E w \in Workers :
       \/ SweepProcessed(w) \/ SendInit(w)
       \/ TakeMessage(w)
       \/ PollWrite(w)
  \/ \E s \in Shells :
       \/ SweepProcessedByShell(s)
       \/ InitAudit(s) \/ Prune(s) \/ EndPrune(s)
       \/ \E a \in Audits : ProcessShell(s, a)
  \/ \E e \in Executors : Finish(e) \/ Crash(e)
  \/ \E a \in Audits : EnqueuePoll(a)
  \/ \E b \in Batches : Answer(b)
  \/ \E ceiling \in Ceilings : DeleteBatches(ceiling)

Spec == Init /\ [][Next]_vars

(* The workers never stop taking messages for ever and finish their tasks, *)
(* transactions of the shells end, Anthropic answers.  Which message is    *)
(* taken is open, and no request is promised.                              *)
FairSpec ==
  /\ Spec
  /\ \A w \in Workers : WF_vars(SendInit(w) \/ PollWrite(w) \/ Finish(w))
  /\ SF_vars(\E w \in Workers : TakeMessage(w))
  /\ WF_vars(\E b \in Batches : Answer(b))
  /\ \A s \in Shells : WF_vars(EndPrune(s))

-----------------------------------------------------------------------------
(* AuditMapper.status                                                      *)
Status(a) ==
  CASE audit[a].state # "row" -> audit[a].state
    [] audit[a].state = "row" /\ audit[a].batch = 0 -> "pending"
    [] audit[a].state = "row" /\ audit[a].batch # 0 /\ audit[a].report # 0 -> "complete"
    [] audit[a].state = "row" /\ audit[a].batch # 0 /\ audit[a].report = 0 ->
         IF batch[audit[a].batch] \in FailedStatuses THEN "failed" ELSE "in_progress"

(* What get_sweep_status says of a sweep with a post-sweep audit.          *)
Overall == CASE sweep.status # "complete" -> sweep.status
             [] sweep.status = "complete" /\ sweep.post = 0 -> "complete"
             [] sweep.status = "complete" /\ sweep.post # 0 ->
                  IF Status(sweep.post) \in {"complete", "failed"} THEN Status(sweep.post) ELSE "auditing"

(* get_tag_audit *)
Seen == [a \in Audits |-> [status |-> Status(a),
                           report |-> IF Status(a) = "complete" THEN audit[a].report ELSE 0]]

(* What a requester sees of the audits follows AuditProgress: whatever is  *)
(* initiated twice, polled, processed again, deleted or redelivered, each  *)
(* audit gets one report, of its own batch, and keeps it                   *)
(* (create_audit_batches, TagAuditProcessingService.run, AuditMapper).     *)
Progress == INSTANCE AuditProgress WITH seen <- Seen

ImplementsProgress == Progress!Spec

(* A batch in the outbox made for an audit that still exists is the one    *)
(* the audit points to: nothing is paid for that no audit can be given     *)
(* (create_audit_batches, attach_batch, delete_audits_for_tag).            *)
NoStrayBatch ==
  \A b \in Batches : (Exists(b) /\ Row(made[b])) => audit[made[b]].batch = b

(* A suggestion is not replaced by that of an audit triggered before it,   *)
(* in whatever order audits finish (get_latest_for_tag, apply).            *)
DescriptionAdvances ==
  [][(tag.description # 0 /\ tag'.description # 0) => tag'.description >= tag.description]_vars

Unlucky ==
  faults > 0 \/ \E b \in Batches : batch[b] = "deleted" \/ result[b] = "failed"

(* The message of a process task for the sweep's audit has been sent, or   *)
(* is about to be, or has done its work.                                   *)
Begun ==
  \/ Row(sweep.post) /\ audit[sweep.post].batch # 0
  \/ <<"init", sweep.post>> \in queue
  \/ \E w \in Workers : exec[w].audit = sweep.post /\ exec[w].pc \in {"sendinit", "sample"}

(* A sweep whose audit a process task has begun is not reported as         *)
(* `auditing` for ever, unless a worker died, a call failed, a batch was   *)
(* deleted, or Anthropic could not do the request: the message, the batch  *)
(* and its three tasks follow each other whatever else is initiated,       *)
(* polled or applied (process_sweep_run, init_tag_audit,                   *)
(* process_tag_audit).                                                     *)
AuditingEnds == (Overall = "auditing" /\ Begun) ~> (Overall # "auditing" \/ Unlucky)

(* `auditing` is a stage that every complete sweep with an audit leaves,   *)
(* whoever has processed it (_build_sweep_status_response).                *)
EveryAuditBegins == (Overall = "auditing") ~> (Overall # "auditing" \/ Unlucky)
================================================================================
