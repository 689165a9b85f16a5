----------------------------- MODULE BatchPipeline -----------------------------
(***************************************************************************)
(* The outbox pipeline every sweep goes through: a materialize task writes *)
(* pending rows into `batches`, a submit task creates one Anthropic batch  *)
(* per row, poll tasks copy the remote status into the rows, a process     *)
(* task downloads the results and marks the rows processed.                *)
(*                                                                         *)
(* Tasks are Celery messages.  A message is acknowledged after its task    *)
(* has run (task_acks_late), so a worker that dies, or a task that outlives *)
(* the broker's visibility timeout, has its message delivered again.       *)
(* Every database session of a task is one step of the model; between two  *)
(* sessions, and between the reads of a session and its commit, the other  *)
(* executors move.  Nothing locks a row.                                   *)
(*                                                                         *)
(* The rows are those of one open sweep; which cards they carry, and when  *)
(* the sweep closes, is the subject of TagSweep.                           *)
(***************************************************************************)
EXTENDS BatchStatus, FiniteSets, Functions

CONSTANTS
  Batches,      \* primary keys of rows; a key is used for one row only
  Remotes,      \* Anthropic batch ids
  Workers,      \* Celery worker processes
  Operators,    \* shells running `app.cmd.tag.sweep.process`
  MaxRequests,  \* bound: kickoffs, operator commands and deletions
  MaxFaults,    \* bound: crashes, redeliveries and failed remote calls
  NoBatch, NoRemote

ASSUME ConstantsAssumption ==
  /\ NoBatch \notin Batches
  /\ NoRemote \notin Remotes
  /\ Workers \cap Operators = {}
  /\ MaxRequests \in Nat
  /\ MaxFaults \in Nat

VARIABLES
  row,       \* the table `batches`
  remote,    \* the batches Anthropic has accepted
  queue,     \* broker: how many copies of each message wait for a worker
  exec,      \* what each executor is doing
  requests,  \* how many requests the outside has made
  faults     \* how many faults have happened

vars == <<row, remote, queue, exec, requests, faults>>

Executors == Workers \cup Operators

RowStatuses == BatchStatuses \cup {"unused", "deleted"}

Row == [status: RowStatuses, anthropic: Remotes \cup {NoRemote}, payload: BOOLEAN]

(* An Anthropic batch and, as history, the row it was created for.         *)
Remote == [state: RemoteStatuses \cup {"none"}, of: Batches \cup {NoBatch}]

Kinds == {"materialize", "submit", "poll", "process"}

(* A materialize message names no batch; the others name at least one: the *)
(* enqueue functions and the tasks reject an empty list.                   *)
KickoffMessage == [kind |-> "materialize", ids |-> {}]

Message == {KickoffMessage} \cup
           [kind: {"submit", "poll", "process"}, ids: (SUBSET Batches) \ {{}}]

NoMessage == [kind |-> "none", ids |-> {}]

(* "keep" marks a row the session has not loaded, or has not changed.      *)
Snapshot == [Batches -> [status: RowStatuses \cup {"keep"},
                         anthropic: Remotes \cup {NoRemote}]]

Keep == [status |-> "keep", anthropic |-> NoRemote]

Places == {"idle", "create", "scan", "accept", "record", "load", "retrieve",
           "update", "gather", "apply", "send", "ack"}

Executor == [pc: Places,                    \* the next step of the task
             msg: Message \cup {NoMessage}, \* the delivery being executed
             held: BOOLEAN,                 \* still unacknowledged at the broker
             todo: SUBSET Batches,          \* batch ids a submit task has left
             batch: Batches \cup {NoBatch}, \* the row a submit task is at
             rid: Remotes \cup {NoRemote},  \* the id Anthropic returned for it
             memo: Snapshot,                \* rows loaded in the current session
             next: Message \cup {NoMessage}] \* the message the task will send

Idle == [pc |-> "idle", msg |-> NoMessage, held |-> FALSE, todo |-> {},
         batch |-> NoBatch, rid |-> NoRemote, memo |-> [b \in Batches |-> Keep],
         next |-> NoMessage]

TypeOK ==
  /\ row \in [Batches -> Row]
  /\ remote \in [Remotes -> Remote]
  /\ queue \in [Message -> Nat]
  /\ exec \in [Executors -> Executor]
  /\ requests \in 0..MaxRequests
  /\ faults \in 0..MaxFaults

Init ==
  /\ row = [b \in Batches |-> [status |-> "unused", anthropic |-> NoRemote,
                               payload |-> FALSE]]
  /\ remote = [r \in Remotes |-> [state |-> "none", of |-> NoBatch]]
  /\ queue = [m \in Message |-> 0]
  /\ exec = [e \in Executors |-> Idle]
  /\ requests = 0
  /\ faults = 0

--------------------------------------------------------------------------------
(* Rows and messages.                                                      *)

Exists(b) == row[b].status \in BatchStatuses

Pending == {b \in Batches : row[b].status = "pending_submit"}

(* get_non_terminal_batches_by_ids: the rows a poll asks Anthropic about.  *)
PollableOnceSubmitted(rows) ==  \* mutant: the status is not looked at
  {b \in Batches : rows[b].status \in BatchStatuses /\ rows[b].anthropic # NoRemote}

Pollable(rows) == {b \in Batches : /\ rows[b].status \in BatchStatuses
                                   /\ rows[b].anthropic # NoRemote
                                   /\ rows[b].status \notin TerminalStatuses}

(* Anthropic's answer to retrieve(r).                                      *)
ReportedAsEnded(r) ==           \* mutant: a batch being canceled counts as ended
  IF remote[r].state = "canceling" THEN "ended" ELSE remote[r].state

Reported(r) == remote[r].state

(* What apply_outbox_anthropic_batch_id makes of a row.                    *)
SubmittedRowKeepsPayload(r) ==  \* mutant
  [status |-> "submitted", anthropic |-> r, payload |-> TRUE]

SubmittedRowUnknown(r) ==       \* mutant: a status the column does not know
  [status |-> "accepted", anthropic |-> r, payload |-> FALSE]

SubmittedRow(r) == [status |-> "submitted", anthropic |-> r, payload |-> FALSE]

Put(m) == queue' = [queue EXCEPT ![m] = @ + 1]

Step(e, new) == exec' = [exec EXCEPT ![e] = new]

(* The task ends without sending anything: it returned, or it raised.      *)
Finished(e) == [exec[e] EXCEPT !.pc = "ack"]

(* The task's last act before it returns is to send m.                     *)
Sending(e, m) == [exec[e] EXCEPT !.pc = "send", !.next = m]

Submit(ids) == [kind |-> "submit", ids |-> ids]

Poll(ids) == [kind |-> "poll", ids |-> ids]

Process(ids) == [kind |-> "process", ids |-> ids]

--------------------------------------------------------------------------------
(* The outside: requests, and the remote side.                             *)

Request == /\ requests < MaxRequests
           /\ requests' = requests + 1

(* A kickoff, by the MCP tool or the CLI: the run is open and committed,   *)
(* the batches are left to the worker.                                     *)
Kickoff ==
  /\ Request
  /\ Put(KickoffMessage)
  /\ UNCHANGED <<row, remote, exec, faults>>

(* `batches.poll --batch-ids ...`, and `sweep.enqueue --existing`.         *)
OperatorPoll ==
  /\ Request
  /\ \E ids \in (SUBSET {b \in Batches : Exists(b)}) \ {{}} : Put(Poll(ids))
  /\ UNCHANGED <<row, remote, exec, faults>>

(* `sweep.process <tag>` runs the processor in the operator's own shell.   *)
OperatorProcess(o) ==
  /\ Request
  /\ exec[o].pc = "idle"
  /\ Step(o, [Idle EXCEPT !.pc = "gather"])
  /\ UNCHANGED <<row, remote, queue, faults>>

(* `batches.delete --status <ceiling>`; with the last status as the        *)
(* ceiling it is also the deletion of a tag's batch history by a reset.    *)
DeleteBatches ==
  /\ Request
  /\ \E ceiling \in BatchStatuses :
        row' = [b \in Batches |->
                  IF row[b].status \in AtOrBefore(ceiling)
                  THEN [status |-> "deleted", anthropic |-> NoRemote, payload |-> FALSE]
                  ELSE row[b]]
  /\ UNCHANGED <<remote, queue, exec, faults>>

(* Anthropic works on a batch; an operator may cancel it there.            *)
RemoteProgress(r) ==
  /\ \/ /\ remote[r].state = "in_progress"
        /\ \E s \in {"canceling", "ended"} : remote' = [remote EXCEPT ![r].state = s]
     \/ /\ remote[r].state = "canceling"
        /\ remote' = [remote EXCEPT ![r].state = "ended"]
  /\ UNCHANGED <<row, queue, exec, requests, faults>>

--------------------------------------------------------------------------------
(* Delivery of messages.                                                   *)

Entry(kind) == CASE kind = "materialize" -> "create"
                 [] kind = "submit" -> "scan"
                 [] kind = "poll" -> "load"
                 [] kind = "process" -> "gather"

Receive(w, m) ==
  /\ exec[w].pc = "idle"
  /\ queue[m] > 0
  /\ queue' = [queue EXCEPT ![m] = @ - 1]
  /\ Step(w, [Idle EXCEPT !.pc = Entry(m.kind), !.msg = m, !.held = TRUE,
                          !.todo = m.ids])
  /\ UNCHANGED <<row, remote, requests, faults>>

(* mutant: the return after sending the process task is missing.            *)
SendNextFallsThrough(w) ==
  LET m == exec[w].next IN
  /\ exec[w].pc = "send"
  /\ queue' = IF m.kind = "process"
              THEN [queue EXCEPT ![m] = @ + 1, ![Poll(m.ids)] = @ + 1]
              ELSE [queue EXCEPT ![m] = @ + 1]
  /\ Step(w, Finished(w))
  /\ UNCHANGED <<row, remote, requests, faults>>

SendNext(w) ==
  /\ exec[w].pc = "send"
  /\ Put(exec[w].next)
  /\ Step(w, Finished(w))
  /\ UNCHANGED <<row, remote, requests, faults>>

(* Failed tasks are acknowledged too: no task asks for a retry.            *)
Ack(e) ==
  /\ exec[e].pc = "ack"
  /\ Step(e, Idle)
  /\ UNCHANGED <<row, remote, queue, requests, faults>>

Fault == /\ faults < MaxFaults
         /\ faults' = faults + 1

(* The executor dies: the session is rolled back, what it held is          *)
(* delivered again.                                                        *)
Crash(e) ==
  /\ Fault
  /\ exec[e].pc # "idle"
  /\ IF exec[e].held THEN Put(exec[e].msg) ELSE UNCHANGED queue
  /\ Step(e, Idle)
  /\ UNCHANGED <<row, remote, requests>>

(* The visibility timeout passes while the task is still running.          *)
Redeliver(w) ==
  /\ Fault
  /\ exec[w].held
  /\ Put(exec[w].msg)
  /\ Step(w, [exec[w] EXCEPT !.held = FALSE])
  /\ UNCHANGED <<row, remote, requests>>

--------------------------------------------------------------------------------
(* materialize_sweep_batches: one transaction, then the send.              *)

(* Which cards are eligible is not modelled here, so a materialization may *)
(* find none and raise.  Otherwise it hands over every pending row of the  *)
(* sweep, the rows an earlier materialization left included.               *)
Materialize(w) ==
  /\ exec[w].pc = "create"
  /\ \/ /\ Step(w, Finished(w))
        /\ UNCHANGED row
     \/ \E new \in (SUBSET {b \in Batches : row[b].status = "unused"}) \ {{}} :
          /\ row' = [b \in Batches |->
                       IF b \in new
                       THEN [status |-> "pending_submit", anthropic |-> NoRemote,
                             payload |-> TRUE]
                       ELSE row[b]]
          /\ Step(w, Sending(w, Submit(Pending \cup new)))
  /\ UNCHANGED <<remote, queue, requests, faults>>

--------------------------------------------------------------------------------
(* submit_batch: for each id a session that reads the row, the remote call *)
(* outside any session, and a session that records its answer.             *)

(* What the task does about one id: the worker's look at the row, then the *)
(* checks of submit_to_anthropic on the row it has loaded.                 *)
OutcomeUnchecked(b) ==          \* mutant: the task trusts the ids it was sent
  IF Exists(b) THEN "send" ELSE "missing"

Outcome(b) ==
  CASE ~Exists(b) -> "missing"
    [] Exists(b) /\ row[b].status # "pending_submit" -> "skip"
    [] Exists(b) /\ row[b].status = "pending_submit" ->
         IF row[b].anthropic = NoRemote /\ row[b].payload THEN "send" ELSE "refuse"

SubmitScan(w) ==
  /\ exec[w].pc = "scan"
  /\ \/ \E b \in exec[w].todo :
          \/ /\ Outcome(b) = "skip"
             /\ Step(w, [exec[w] EXCEPT !.todo = @ \ {b}])
          \/ /\ Outcome(b) = "send"
             /\ Step(w, [exec[w] EXCEPT !.pc = "accept", !.batch = b])
          \/ /\ Outcome(b) \in {"missing", "refuse"}
             /\ Step(w, Finished(w))
     \/ /\ exec[w].todo = {}
        /\ Step(w, Sending(w, Poll(exec[w].msg.ids)))
  /\ UNCHANGED <<row, remote, queue, requests, faults>>

(* Anthropic accepts the payload under a fresh id.                         *)
SubmitAccept(w) ==
  /\ exec[w].pc = "accept"
  /\ \E r \in Remotes :
       /\ remote[r].state = "none"
       /\ remote' = [remote EXCEPT ![r] = [state |-> "in_progress",
                                           of |-> exec[w].batch]]
       /\ Step(w, [exec[w] EXCEPT !.pc = "record", !.rid = r])
  /\ UNCHANGED <<row, queue, requests, faults>>

(* The row the returned id is recorded in.                                 *)
FirstOfTask(w) ==               \* mutant: the first id that is left
  CHOOSE b \in exec[w].todo : TRUE

Submitting(w) == exec[w].batch

(* apply_outbox_anthropic_batch_id; it does not look at the row's status.  *)
SubmitRecord(w) ==
  LET b == Submitting(w) IN
  /\ exec[w].pc = "record"
  /\ IF Exists(b)
     THEN /\ row' = [row EXCEPT ![b] = SubmittedRow(exec[w].rid)]
          /\ Step(w, [exec[w] EXCEPT !.pc = "scan", !.todo = @ \ {b},
                                     !.batch = NoBatch, !.rid = NoRemote])
     ELSE /\ Step(w, Finished(w))
          /\ UNCHANGED row
  /\ UNCHANGED <<remote, queue, requests, faults>>

(* The call or the session that records its answer fails: the task gives   *)
(* up on the remaining ids and completes without a poll.  The call may     *)
(* have been accepted although its answer was lost.                        *)
SubmitFail(w) ==
  /\ Fault
  /\ exec[w].pc \in {"accept", "record"}
  /\ \/ UNCHANGED remote
     \/ /\ exec[w].pc = "accept"
        /\ \E r \in Remotes :
             /\ remote[r].state = "none"
             /\ remote' = [remote EXCEPT ![r] = [state |-> "in_progress",
                                                 of |-> exec[w].batch]]
  /\ Step(w, Finished(w))
  /\ UNCHANGED <<row, queue, requests>>

--------------------------------------------------------------------------------
(* poll_pipeline: one session; the rows are loaded, Anthropic is asked,    *)
(* and the rows that differ from what was loaded are written.              *)

PollLoad(w) ==
  LET ids == exec[w].msg.ids
      open == Pollable(row) \cap ids IN
  /\ exec[w].pc = "load"
  /\ \/ /\ \E b \in ids : ~Exists(b)            \* ValueError: not found
        /\ Step(w, Finished(w))
     \/ /\ \A b \in ids : Exists(b)
        /\ ids \cap Pending # {}
        /\ Step(w, Sending(w, Poll(ids)))
     \/ /\ \A b \in ids : Exists(b)
        /\ ids \cap Pending = {}
        /\ IF open = {}
           THEN Step(w, Sending(w, Process(ids)))
           ELSE Step(w, [exec[w] EXCEPT
                           !.pc = "retrieve",
                           !.memo = [b \in Batches |->
                                       IF b \in open
                                       THEN [status |-> row[b].status,
                                             anthropic |-> row[b].anthropic]
                                       ELSE Keep]])
  /\ UNCHANGED <<row, remote, queue, requests, faults>>

(* Afterwards memo holds the statuses to write.                            *)
PollRetrieve(w) ==
  LET loaded == exec[w].memo IN
  /\ exec[w].pc = "retrieve"
  /\ Step(w, [exec[w] EXCEPT
                !.pc = "update",
                !.memo = [b \in Batches |->
                            IF \/ loaded[b].status = "keep"
                               \/ loaded[b].status = Reported(loaded[b].anthropic)
                            THEN Keep
                            ELSE [loaded[b] EXCEPT
                                    !.status = Reported(loaded[b].anthropic)]]])
  /\ UNCHANGED <<row, remote, queue, requests, faults>>

(* update_batch_status_meta: by primary key, whatever the row says by now;  *)
(* a row that is gone is passed over.                                      *)
Written(new) == [b \in Batches |-> IF new[b].status # "keep" /\ Exists(b)
                                   THEN [row[b] EXCEPT !.status = new[b].status]
                                   ELSE row[b]]

PollUpdate(w) ==
  LET ids == exec[w].msg.ids
      rows == Written(exec[w].memo) IN
  /\ exec[w].pc = "update"
  /\ row' = rows
  /\ Step(w, Sending(w, IF Pollable(rows) \cap ids = {} THEN Process(ids) ELSE Poll(ids)))
  /\ UNCHANGED <<remote, queue, requests, faults>>

--------------------------------------------------------------------------------
(* process_sweep_run: one session over the whole sweep; the results are    *)
(* downloaded and applied between its reads and its commit.                *)

ReadyOfTask(ids) ==             \* mutant: a task takes the batches it was sent
  {b \in ids : row[b].status \in ProcessableStatuses}

(* get_processable_batches: of the whole sweep, whoever polled them.       *)
Ready(ids) == {b \in Batches : row[b].status \in ProcessableStatuses}

(* require_open_sweep_for_batch_ids: a deleted batch takes its link along. *)
NotOfSweep(ids) == \E b \in ids : ~Exists(b)

(* get_non_terminal_batches: also of the whole sweep; RuntimeError if any. *)
Unfinished == {b \in Batches : Exists(b) /\ row[b].status \notin TerminalStatuses}

ProcessGather(e) ==
  LET ready == Ready(exec[e].msg.ids) IN
  /\ exec[e].pc = "gather"
  /\ IF NotOfSweep(exec[e].msg.ids) \/ Unfinished # {} \/ ready = {}
     THEN Step(e, Finished(e))
     ELSE Step(e, [exec[e] EXCEPT
                     !.pc = "apply",
                     !.memo = [b \in Batches |->
                                 IF b \in ready
                                 THEN [status |-> "processed",
                                       anthropic |-> row[b].anthropic]
                                 ELSE Keep]])
  /\ UNCHANGED <<row, remote, queue, requests, faults>>

(* The download raises unless the remote batch has ended; then nothing of  *)
(* the transaction remains.                                                *)
ProcessApply(e) ==
  LET new == exec[e].memo
      downloadable == \A b \in Batches : \/ new[b].status = "keep"
                                         \/ remote[new[b].anthropic].state = "ended" IN
  /\ exec[e].pc = "apply"
  /\ row' = IF downloadable THEN Written(new) ELSE row
  /\ Step(e, Finished(e))
  /\ UNCHANGED <<remote, queue, requests, faults>>

--------------------------------------------------------------------------------
(* The steps a worker takes by itself once it has a task.                   *)
Run(w) ==
  \/ Materialize(w)
  \/ SubmitScan(w) \/ SubmitAccept(w) \/ SubmitRecord(w)
  \/ PollLoad(w) \/ PollRetrieve(w) \/ PollUpdate(w)
  \/ ProcessGather(w) \/ ProcessApply(w)
  \/ SendNext(w) \/ Ack(w)

RunOperator(o) == ProcessGather(o) \/ ProcessApply(o) \/ Ack(o)

Next ==
  \/ Kickoff \/ OperatorPoll \/ DeleteBatches
  \/ \E r \in Remotes : RemoteProgress(r)
  \/ \E w \in Workers : \/ \E m \in Message : Receive(w, m)
                        \/ Run(w) \/ SubmitFail(w) \/ Redeliver(w)
  \/ \E o \in Operators : OperatorProcess(o) \/ RunOperator(o)
  \/ \E e \in Executors : Crash(e)

Spec == Init /\ [][Next]_vars

(* The broker's list is first in, first out, so a message that waits is    *)
(* received although polls keep being sent (stated here, as far as it is   *)
(* needed, for each kind of message); a worker executes the task it  *)
(* has received; Anthropic ends every batch (it expires them after a day). *)
(* Nothing else is promised: not that anybody makes a request, not that an *)
(* operator's shell finishes.                                              *)
FairSpec ==
  /\ Spec
  /\ \A kind \in Kinds :
        SF_vars(\E w \in Workers : \E m \in Message : m.kind = kind /\ Receive(w, m))
  /\ \A w \in Workers : WF_vars(Run(w))
  /\ \A r \in Remotes : WF_vars(RemoteProgress(r))

--------------------------------------------------------------------------------
(* Properties that hold for any number of workers and any faults.          *)

(* A row of the outbox is in one of two shapes (BatchStatus, sweep_status.py *)
(* and apply_outbox_anthropic_batch_id): pending, with a payload and no      *)
(* Anthropic id, or submitted at some time, with an id and no payload.       *)
(* Otherwise a submit task would skip a row nobody has sent, or a poll task  *)
(* would wait for a row it has nothing to ask Anthropic about.               *)
OutboxShape ==
  \A b \in Batches :
     Exists(b) => /\ row[b].payload <=> row[b].status = "pending_submit"
                  /\ row[b].anthropic = NoRemote <=> row[b].status = "pending_submit"

(* The id a row carries was returned for that row's own payload, so results *)
(* are never applied to the cards of another batch, whatever tasks run twice *)
(* or die between the remote call and the session that records its answer.  *)
LinkedToOwnSubmission ==
  \A b \in Batches :
     row[b].anthropic # NoRemote => /\ remote[row[b].anthropic].of = b
                                   /\ remote[row[b].anthropic].state # "none"

(* The broker's messages and the tasks that have yet to send one.            *)
Live == FoldFunction(+, 0, queue)
        + Cardinality({w \in Workers : exec[w].pc \notin {"idle", "ack"}})

(* Every task sends at most one message, and a poll only in place of itself: *)
(* a pipeline stays one chain of tasks, and the number of chains, each of    *)
(* which may poll for a day, grows only with requests and redeliveries.      *)
ChainsDoNotMultiply == Live <= requests + faults

--------------------------------------------------------------------------------
(* Properties of the deployment with one worker (`--pool=solo`), which does  *)
(* not exclude crashes, redelivery, failed calls, operators and deletions.   *)

(* "skips non-pending_submit" (submit_batch.py): a batch is created at       *)
(* Anthropic only for a row that is still waiting in the outbox, or that was *)
(* deleted after the task read it.                                           *)
SubmitsOnlyPending ==
  [][\A r \in Remotes :
        remote[r].state = "none" /\ remote'[r].state # "none" =>
           row[remote'[r].of].status \in {"pending_submit", "deleted"}]_vars

(* Accepted batches no row points to, deleted rows and answers on their way *)
(* aside.                                                                   *)
Orphans ==
  {r \in Remotes : /\ remote[r].state # "none"
                   /\ row[remote[r].of].status # "deleted"
                   /\ row[remote[r].of].anthropic # r
                   /\ \A w \in Workers : exec[w].rid # r}

(* "Commit each submit before the next so a later failure can't orphan       *)
(* accepted batches" (submit_batch.py): each fault costs at most the one     *)
(* batch whose answer was in flight, however many ids the task had.          *)
OrphansAccountedFor == Cardinality(Orphans) <= faults

(* The row's status never claims more than Anthropic has done: results can   *)
(* be downloaded for every row a poll task has declared ended.               *)
EndedIsTrue ==
  \A b \in Batches :
     row[b].status \in {"ended", "processed"} => remote[row[b].anthropic].state = "ended"

(* The table implements the lifecycle of BatchLifecycle: no interleaving of  *)
(* tasks, crashes and deletions moves a row backwards or past a stage.       *)
Statuses == [b \in Batches |-> row[b].status]

Lifecycle == INSTANCE BatchLifecycle WITH status <- Statuses

ImplementsLifecycle == Lifecycle!Spec

--------------------------------------------------------------------------------
(* Without faults every batch a kickoff has put into the outbox is           *)
(* eventually processed, although the process task of one kickoff dies while *)
(* another kickoff's batches are under way; unless somebody deletes batches, *)
(* for then the task that finds one of its ids missing gives the others up.  *)
EveryBatchProcessed ==
  \A b \in Batches :
     row[b].status = "pending_submit" ~>
        \/ row[b].status = "processed"
        \/ \E c \in Batches : row[c].status = "deleted"
================================================================================
