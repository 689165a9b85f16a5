-------------------------------- MODULE TagSweep -------------------------------
(***************************************************************************)
(* The sweeps of one tag.  A kickoff opens the tag's sweep row; the worker *)
(* puts every eligible card into a batch; when all batches have ended, a   *)
(* process run writes the verdicts into `card_tags`, and closes the sweep  *)
(* if no card is eligible any more.  The completion time is the epoch:     *)
(* later sweeps consider only cards that entered the catalog after it, and *)
(* of these the ones the tag's filter lets through.                        *)
(*                                                                         *)
(* Transactions are READ COMMITTED and may last long (a download, the CSV  *)
(* of thousands of cards, the ingest of a set), so those of the worker and *)
(* of a shell are split at the reads they decide on, and a deletion at the *)
(* row it may have to wait for; any other request is one step.  How a      *)
(* batch gets from the outbox to its results is the subject of             *)
(* BatchPipeline.                                                          *)
(***************************************************************************)
EXTENDS Integers, FiniteSets

CONSTANTS
  Cards,         \* oracle ids
  Batches,       \* primary keys of `batches`
  Sweeps,        \* primary keys of `tag_sweep`
  Workers,       \* Celery worker processes
  Shells,        \* processes running `sweep.process`, `mtgjson_fetch`, `audit.apply`
  Servers,       \* handlers of requests that delete (MCP tools, `sweep.reset`)
  Commands,      \* the requests that are made in this instance
  Filters,       \* what a tag's card types and supertypes may let through
  Limits,        \* kickoff limits; 0 stands for no limit
  Verdicts,      \* what the model may answer about a card
  CardsPerBatch, \* tag_sweep_cards_per_batch
  MaxRequests,   \* bound: requests
  MaxFaults,     \* bound: crashes
  NoSweep

SideTags == {"unsure", "excluded"}

ASSUME ConstantsAssumption ==
  /\ NoSweep \notin Sweeps
  /\ Workers \cap (Shells \cup Servers) = {} /\ Shells \cap Servers = {}
  /\ Filters \subseteq SUBSET Cards
  /\ Limits \subseteq Nat
  /\ Verdicts \subseteq {"main", "failed"} \cup SideTags
  /\ CardsPerBatch \in Nat \ {0}
  /\ MaxRequests \in Nat
  /\ MaxFaults \in Nat

VARIABLES
  sweep,     \* the tag's row of `tag_sweep`
  batch,     \* `batches`, `tag_sweep_batches`, `tag_sweep_batch_cards`
  catalog,   \* whether a card is in `cards`
  tagged,    \* `card_tags` of the tag and of its side tags
  sideTags,  \* which side tags exist
  filter,    \* the cards with the card types and supertypes the tag asks for
  queue,     \* the materialize messages at the broker
  exec,      \* the transaction each worker or shell is in
  requests, faults

vars == <<sweep, batch, catalog, tagged, sideTags, filter, queue, exec, requests, faults>>

Executors == Workers \cup Shells \cup Servers

(* The epoch is the set of cards that a completion time excludes: those    *)
(* first seen at or before it.  No epoch excludes none.                    *)
SweepRow == [id: Sweeps \cup {NoSweep}, status: {"none", "open", "complete"},
             epoch: SUBSET Cards, sides: SUBSET SideTags]

NoRow == [id |-> NoSweep, status |-> "none", epoch |-> {}, sides |-> {}]

(* "pending" stands for the stages before the results are there, `verdict` *)
(* for what Anthropic has answered then.                                   *)
BatchRow == [status: {"none", "pending", "ended", "processed"},
             sweep: Sweeps \cup {NoSweep},
             cards: SUBSET Cards, failed: SUBSET Cards,
             verdict: [Cards -> Verdicts \cup {"none"}]]

NoBatch == [status |-> "none", sweep |-> NoSweep, cards |-> {}, failed |-> {},
            verdict |-> [c \in Cards |-> "none"]]

Materialization == [no: 1..MaxRequests, sweep: Sweeps, limit: Limits \cup {0}, redo: BOOLEAN]

NoMessage == [no |-> 0]

(* A transaction: what it has read, and what its commit will write.        *)
Transaction ==
  [pc: {"idle", "read", "write", "ack", "classify", "apply", "commit", "load",
        "delete", "delete_first", "drop"},
   msg: Materialization \cup {NoMessage},
   sweep: Sweeps \cup {NoSweep}, filter: Filters \cup {{}},
   sides: SUBSET SideTags, made: SUBSET SideTags,
   cards: SUBSET Cards, ready: SUBSET Batches,
   adds: [Cards -> SUBSET ({"main"} \cup SideTags)],
   closes: BOOLEAN, epoch: SUBSET Cards, resets: BOOLEAN]

Idle == [pc |-> "idle", msg |-> NoMessage, sweep |-> NoSweep, filter |-> {},
         sides |-> {}, made |-> {}, cards |-> {}, ready |-> {}, adds |-> [c \in Cards |-> {}],
         closes |-> FALSE, epoch |-> {}, resets |-> FALSE]

TypeOK ==
  /\ sweep \in SweepRow
  /\ batch \in [Batches -> BatchRow]
  /\ catalog \in [Cards -> {"unknown", "loading", "known"}]
  /\ tagged \in [Cards -> SUBSET ({"main"} \cup SideTags)]
  /\ sideTags \subseteq SideTags
  /\ filter \in Filters
  /\ queue \subseteq Materialization
  /\ exec \in [Executors -> Transaction]
  /\ requests \in 0..MaxRequests
  /\ faults \in 0..MaxFaults

Init ==
  /\ sweep = NoRow
  /\ batch = [b \in Batches |-> NoBatch]
  /\ catalog = [c \in Cards |-> "unknown"]
  /\ tagged = [c \in Cards |-> {}]
  /\ sideTags = {}
  /\ filter \in Filters
  /\ queue = {}
  /\ exec = [e \in Executors |-> Idle]
  /\ requests = 0
  /\ faults = 0

--------------------------------------------------------------------------------
(* Queries.                                                                *)

Linked(s) == {b \in Batches : s # NoSweep /\ batch[b].status # "none" /\ batch[b].sweep = s}

InBatches(s) == UNION {batch[b].cards : b \in Linked(s)}

EligibleAgain(s, F) ==          \* mutant: cards of the sweep's own batches
  {c \in Cards : catalog[c] = "known" /\ c \in F /\ c \notin sweep.epoch}

EligibleAnyTime(s, F) ==        \* mutant: the epoch is not looked at
  {c \in Cards : catalog[c] = "known" /\ c \in F /\ c \notin InBatches(s)}

(* fetch_eligible_oracle_ids, for a tag read with filter F: an uncommitted *)
(* ingest is not seen.                                                     *)
Eligible(s, F) == {c \in Cards : /\ catalog[c] = "known"
                                 /\ c \in F
                                 /\ c \notin sweep.epoch
                                 /\ c \notin InBatches(s)}

(* get_failed_oracle_ids_for_sweep; no batch row ever has a failed status. *)
Failed(s) == UNION {batch[b].failed : b \in {d \in Linked(s) : batch[d].status = "processed"}}

Unfinished(s) == {b \in Linked(s) : batch[b].status = "pending"}

Processable(s) == {b \in Linked(s) : batch[b].status = "ended"}

(* is_sweep_complete, as seen by a transaction that has marked `own` and  *)
(* has read the tag with filter F.                                         *)
CompleteWithoutCards(s, own, F) == \* mutant: only the batches are looked at
  /\ Linked(s) # {}
  /\ \A b \in Linked(s) : b \in own \/ batch[b].status = "processed"

Complete(s, own, F) ==
  /\ Linked(s) # {}
  /\ \A b \in Linked(s) : b \in own \/ batch[b].status = "processed"
  /\ Eligible(s, F) = {}

(* A key nobody holds is as good as a new one.                             *)
FreshBatches == {b \in Batches : /\ batch[b].status = "none"
                                 /\ \A e \in Executors : b \notin exec[e].ready}

FreshSweep(s) == /\ s # sweep.id
                 /\ \A m \in queue : m.sweep # s
                 /\ \A e \in Executors : /\ exec[e].sweep # s
                                         /\ exec[e].msg # NoMessage => exec[e].msg.sweep # s

--------------------------------------------------------------------------------
(* Requests.  Rows that a process run has marked, and not committed, are   *)
(* locked: a request that deletes them waits.                              *)

Request(command) ==
  /\ command \in Commands
  /\ requests < MaxRequests
  /\ requests' = requests + 1

Fault == faults < MaxFaults /\ faults' = faults + 1

Unlocked == \A e \in Executors :
              exec[e].pc = "commit" =>
                /\ exec[e].ready = {} /\ ~exec[e].closes
                /\ \A c \in Cards : exec[e].adds[c] \subseteq {"main"}

Deleting == {o \in Shells \cup Servers : exec[o].pc \in {"delete", "delete_first"}}

(* A deletion has written, and not committed, the epoch of the sweep row.  *)
EpochLocked == \E o \in Deleting : exec[o].resets

(* create_sweep when the tag has a row: completed_at stays.                *)
ReopenedWithoutEpoch(row) ==    \* mutant
  [row EXCEPT !.status = "open", !.epoch = {}]

Reopened(row) == [row EXCEPT !.status = "open"]

(* init_sweep: open or resume the tag's sweep, overwrite its options.      *)
OpenSweep(sides) ==
  \/ /\ sweep.id # NoSweep
     /\ sweep' = [Reopened(sweep) EXCEPT !.sides = sides]
     /\ EpochLocked => sweep' = sweep
  \/ /\ sweep.id = NoSweep
     /\ \E s \in Sweeps :
          /\ FreshSweep(s)
          /\ sweep' = [id |-> s, status |-> "open", epoch |-> {}, sides |-> sides]

(* The message is sent after the commit; the process may die in between.   *)
SendMaterialize(s, limit, redo) ==
  \/ /\ queue' = queue \cup {[no |-> requests + 1, sweep |-> s, limit |-> limit,
                              redo |-> redo]}
     /\ UNCHANGED faults
  \/ Fault /\ UNCHANGED queue

(* include_unsure and include_excluded; an option about a verdict that this *)
(* instance leaves out is left out with it.                                 *)
Options == SUBSET (SideTags \cap Verdicts)

(* enqueue_tag_sweep, and `sweep.enqueue`.                                 *)
Kickoff ==
  /\ Request("kickoff")
  /\ \E sides \in Options, limit \in Limits :
       OpenSweep(sides) /\ SendMaterialize(sweep'.id, limit, FALSE)
  /\ UNCHANGED <<batch, catalog, tagged, sideTags, filter, exec>>

(* `sweep.enqueue --reenqueue-failed`; no limit applies to it.             *)
KickoffFailed ==
  /\ Request("redo")
  /\ \E sides \in Options : OpenSweep(sides) /\ SendMaterialize(sweep'.id, 0, TRUE)
  /\ UNCHANGED <<batch, catalog, tagged, sideTags, filter, exec>>

(* update_tag replaces the tag's card types or supertypes.                 *)
UpdateTag ==
  /\ Request("update")
  /\ filter' \in Filters
  /\ UNCHANGED <<sweep, batch, catalog, tagged, sideTags, queue, exec, faults>>

(* `prune`: side tags, audits and batches go; main tags and epoch stay.    *)
PruneHistory ==
  /\ Unlocked
  /\ batch' = [b \in Batches |-> IF b \in Linked(sweep.id) THEN NoBatch ELSE batch[b]]
  /\ tagged' = [c \in Cards |-> tagged[c] \ SideTags]
  /\ sideTags' = {}

Prune ==
  /\ Request("prune")
  /\ PruneHistory
  /\ UNCHANGED <<sweep, catalog, filter, queue, exec, faults>>

(* enqueue_global_sweep_catchup, for this tag: only tags with a sweep row, *)
(* and a message only if some card is eligible; the sweep is open anyway.  *)
CatchUp ==
  /\ Request("catchup")
  /\ sweep.id # NoSweep
  /\ PruneHistory
  /\ OpenSweep({})
  /\ IF \E c \in filter : catalog[c] = "known" /\ c \notin sweep'.epoch
     THEN SendMaterialize(sweep'.id, 0, FALSE)
     ELSE UNCHANGED <<queue, faults>>
  /\ UNCHANGED <<catalog, filter, exec>>

--------------------------------------------------------------------------------
(* Deletions.  The statements up to the last one: card tags, the rows of   *)
(* batches, then side tags and epoch, none of it committed yet.            *)

Step(e, new) == exec' = [exec EXCEPT ![e] = new]

BeginDelete(o, place, tags, history, open) ==
  LET row == open /\ sweep.status = "open" IN
  /\ exec[o].pc = "idle"
  /\ Unlocked
  /\ Step(o, [Idle EXCEPT !.pc = place,
                          !.sweep = IF row THEN sweep.id ELSE NoSweep,
                          !.ready = IF history \/ row THEN Linked(sweep.id) ELSE {},
                          !.adds = [c \in Cards |-> tagged[c] \cap tags],
                          !.sides = tags \cap SideTags,
                          !.resets = history])
  /\ UNCHANGED <<sweep, batch, catalog, tagged, sideTags, filter, queue, faults>>

(* delete_open_sweep's DELETE of the sweep row, and the commit.  A         *)
(* materialization that has inserted batches holds a key-share lock on the *)
(* row: the DELETE waits for it, and then cascades to the links of its     *)
(* batches, not to the batches.                                            *)
Deleted(t, b) ==
  IF b \in t.ready THEN NoBatch
  ELSE IF b \in Linked(t.sweep) THEN [batch[b] EXCEPT !.sweep = NoSweep]
  ELSE batch[b]

EndDelete(o) ==
  LET t == exec[o] IN
  /\ t.pc \in {"delete", "delete_first"}
  /\ \A w \in Workers : t.sweep # NoSweep /\ exec[w].pc = "write" =>
                           exec[w].msg.sweep # t.sweep
  /\ batch' = [b \in Batches |-> Deleted(t, b)]
  /\ sweep' = IF t.sweep # NoSweep /\ sweep.id = t.sweep THEN NoRow
              ELSE IF t.resets THEN [sweep EXCEPT !.epoch = {}]
              ELSE sweep
  /\ tagged' = [c \in Cards |-> tagged[c] \ (t.adds[c] \cup t.sides)]
  /\ sideTags' = sideTags \ t.sides
  /\ Step(o, IF t.pc = "delete_first" THEN [Idle EXCEPT !.pc = "drop"] ELSE Idle)
  /\ UNCHANGED <<catalog, filter, queue, requests, faults>>

AllTags == {"main"} \cup SideTags

(* clean_reset_for_new_sweep.                                              *)
CleanReset(v) == Request("reset") /\ BeginDelete(v, "delete", AllTags, TRUE, TRUE)

(* apply_audit of the MCP server, with delete_tagged or delete_side_tags   *)
(* or not: an open sweep is deleted in any case.                           *)
ApplyAudit(v) ==
  /\ Request("apply")
  /\ \E tags \in {{}, {"main"}, SideTags, AllTags} :
       BeginDelete(v, "delete", tags, "main" \in tags, TRUE)

(* `audit.apply`: with --delete-tagged a second transaction follows.       *)
ApplyAuditCli(o) ==
  /\ Request("apply")
  /\ \E tags \in {{}, {"main"}, SideTags, AllTags} :
       BeginDelete(o, IF "main" \in tags THEN "delete_first" ELSE "delete",
                   tags, "main" \in tags, FALSE)

DropOpenSweep(o) ==
  /\ exec[o].pc = "drop"
  /\ Unlocked
  /\ Step(o, [Idle EXCEPT !.pc = "delete",
                          !.sweep = IF sweep.status = "open" THEN sweep.id ELSE NoSweep,
                          !.ready = IF sweep.status = "open" THEN Linked(sweep.id) ELSE {}])
  /\ UNCHANGED <<sweep, batch, catalog, tagged, sideTags, filter, queue, requests, faults>>

--------------------------------------------------------------------------------
(* The worker: one task at a time.                                         *)

(* The transaction is over; a worker still has to acknowledge its message. *)
Done(e) == IF exec[e].msg = NoMessage THEN Idle
           ELSE [Idle EXCEPT !.pc = "ack", !.msg = exec[e].msg]

Receive(w) ==
  /\ exec[w].pc = "idle"
  /\ \E m \in queue : /\ queue' = queue \ {m}
                      /\ Step(w, [Idle EXCEPT !.pc = "read", !.msg = m])
  /\ UNCHANGED <<sweep, batch, catalog, tagged, sideTags, filter, requests, faults>>

Ack(w) ==
  /\ exec[w].pc = "ack"
  /\ Step(w, Idle)
  /\ UNCHANGED <<sweep, batch, catalog, tagged, sideTags, filter, queue, requests, faults>>

(* What is not committed is rolled back; what is not acknowledged comes    *)
(* back.  A card whose ingest is rolled back was not seen: when it is      *)
(* ingested again it gets a later time.                                    *)
Crash(e) ==
  LET lost == IF exec[e].pc = "load" THEN exec[e].cards ELSE {} IN
  /\ Fault
  /\ exec[e].pc # "idle"
  /\ queue' = IF exec[e].msg = NoMessage THEN queue ELSE queue \cup {exec[e].msg}
  /\ catalog' = [c \in Cards |-> IF c \in lost THEN "unknown" ELSE catalog[c]]
  /\ sweep' = [sweep EXCEPT !.epoch = @ \ lost]
  /\ exec' = [f \in Executors |-> IF f = e THEN Idle
                                  ELSE [exec[f] EXCEPT !.epoch = @ \ lost]]
  /\ UNCHANGED <<batch, tagged, sideTags, filter, requests>>

--------------------------------------------------------------------------------
(* materialize_sweep_batches.                                              *)

RunIsOpen(m) == sweep.id = m.sweep /\ sweep.status = "open"

(* The cards a materialization takes: all failed ones, whatever the tag    *)
(* asks for now, or the first of the eligible ones up to the limit.        *)
Chosen(m) ==
  LET eligible == Eligible(m.sweep, filter) IN
  IF m.redo
  THEN {Failed(m.sweep)} \ {{}}
  ELSE {cards \in (SUBSET eligible) \ {{}} :
          Cardinality(cards) = IF m.limit = 0 \/ Cardinality(eligible) < m.limit
                               THEN Cardinality(eligible)
                               ELSE m.limit}

MaterializeRead(w) ==
  LET m == exec[w].msg IN
  /\ exec[w].pc = "read"
  /\ \/ /\ RunIsOpen(m)
        /\ \E cards \in Chosen(m) :
             Step(w, [exec[w] EXCEPT !.pc = "write", !.cards = cards])
     \/ /\ ~RunIsOpen(m) \/ Chosen(m) = {}      \* ValueError, RuntimeError
        /\ Step(w, Done(w))
  /\ UNCHANGED <<sweep, batch, catalog, tagged, sideTags, filter, queue, requests, faults>>

(* A row of the outbox for some of the cards.                              *)
PendingBatchQueued(m, cards) == \* mutant: a status the table does not know
  [status |-> "queued", sweep |-> m.sweep, cards |-> cards, failed |-> {},
   verdict |-> [c \in Cards |-> "none"]]

PendingBatch(m, cards) ==
  [status |-> "pending", sweep |-> m.sweep, cards |-> cards, failed |-> {},
   verdict |-> [c \in Cards |-> "none"]]

Part(into, b) == {c \in DOMAIN into : into[c] = b}

(* Whole batches but the last.                                             *)
BatchCount(cards) == (Cardinality(cards) + CardsPerBatch - 1) \div CardsPerBatch

(* The rows are inserted with a foreign key to the sweep row; whether the  *)
(* sweep is still open is not looked at again.                             *)
MaterializeWrite(w) ==
  LET m == exec[w].msg
      cards == exec[w].cards IN
  /\ exec[w].pc = "write"
  /\ \/ /\ sweep.id = m.sweep
        /\ \E new \in SUBSET FreshBatches :
             /\ Cardinality(new) = BatchCount(cards)
             /\ \E into \in [cards -> new] :
                  /\ \A b \in new : Cardinality(Part(into, b)) \in 1..CardsPerBatch
                  /\ batch' = [b \in Batches |-> IF b \in new THEN PendingBatch(m, Part(into, b))
                                                 ELSE batch[b]]
     \/ /\ sweep.id # m.sweep                   \* IntegrityError
        /\ UNCHANGED batch
  /\ Step(w, Done(w))
  /\ UNCHANGED <<sweep, catalog, tagged, sideTags, filter, queue, requests, faults>>

(* The pipeline has taken a batch to its end; the answers exist.           *)
Ended(b, answer) ==
  [batch[b] EXCEPT !.status = "ended",
                   !.verdict = [c \in Cards |-> IF c \in batch[b].cards THEN answer[c]
                                                ELSE "none"]]

BatchEnds(b) ==
  /\ batch[b].status = "pending"
  /\ \E answer \in [batch[b].cards -> Verdicts] :
       batch' = [batch EXCEPT ![b] = Ended(b, answer)]
  /\ UNCHANGED <<sweep, catalog, tagged, sideTags, filter, queue, exec, requests, faults>>

--------------------------------------------------------------------------------
(* TagSweepProcessor.run, by a process task or by `sweep.process`.         *)

(* The first reads: the tag, whose filter the run keeps to its end, and    *)
(* the batches.  Side tags the run needs are created before the gate; a    *)
(* run that finds nothing to process commits them.                         *)
Gather(e, sides) ==
  LET made == sides \ sideTags IN
  /\ exec[e].pc = "idle"
  /\ sweep.status = "open"
  /\ Unfinished(sweep.id) = {}
  /\ IF Processable(sweep.id) = {}
     THEN sideTags' = sideTags \cup made /\ UNCHANGED exec
     ELSE /\ Step(e, [Idle EXCEPT !.pc = "classify", !.sweep = sweep.id, !.filter = filter,
                                  !.sides = sides, !.made = made, !.ready = Processable(sweep.id)])
          /\ UNCHANGED sideTags
  /\ UNCHANGED <<sweep, batch, catalog, tagged, filter, queue, requests, faults>>

(* The task exists once every batch of its chain has ended, and runs with  *)
(* the options of the sweep; a run that would raise changes nothing.       *)
ProcessTask(w) ==
  /\ \E b \in Linked(sweep.id) : batch[b].status \in {"ended", "processed"}
  /\ Gather(w, sweep.sides)

(* A shell runs at any time, with options of its own.                      *)
ProcessCli(o) == \E sides \in Options : Gather(o, sides)

(* The verdicts of a batch are read with its card rows; of a batch that    *)
(* has been deleted since, nothing is left to read.                        *)
Classified(sides, b, c) == {batch[b].verdict[c]} \cap ({"main"} \cup sides)

Classify(e) ==
  /\ exec[e].pc = "classify"
  /\ Step(e, [exec[e] EXCEPT
                !.pc = "apply",
                !.adds = [c \in Cards |->
                            UNION {Classified(exec[e].sides, b, c) : b \in exec[e].ready}]])
  /\ UNCHANGED <<sweep, batch, catalog, tagged, sideTags, filter, queue, requests, faults>>

(* The verdicts are applied: a side tag that is gone takes none, a batch   *)
(* that is gone is not marked.  Then the run looks whether the sweep is    *)
(* complete.  Rows another transaction has written make this one wait for  *)
(* its commit; if that is a deletion, the row is gone then and the run     *)
(* fails.                                                                  *)
Apply(e) ==
  LET t == exec[e]
      marked == {b \in t.ready : batch[b].status # "none"}
      adds == [c \in Cards |-> t.adds[c] \cap ({"main"} \cup sideTags \cup t.made)]
      complete == Complete(t.sweep, marked, t.filter) IN
  /\ t.pc = "apply"
  /\ \A f \in Executors : exec[f].pc = "commit" => exec[f].ready \cap marked = {}
  /\ \/ /\ \A o \in Deleting : /\ exec[o].ready \cap marked = {}
                               /\ \A c \in Cards : adds[c] \cap (exec[o].adds[c] \cup exec[o].sides) = {}
        /\ Step(e, [t EXCEPT !.pc = "commit", !.ready = marked, !.adds = adds,
                             !.closes = complete,
                             !.epoch = IF complete THEN {c \in Cards : catalog[c] # "unknown"}
                                       ELSE {}])
     \/ /\ \E o \in Deleting : \/ exec[o].ready \cap marked # {}
                               \/ \E c \in Cards : adds[c] \cap exec[o].sides # {}
        /\ Step(e, Idle)
  /\ UNCHANGED <<sweep, batch, catalog, tagged, sideTags, filter, queue, requests, faults>>

(* mark_batch_processed, mark_batch_cards_failed.                          *)
ProcessedUnflagged(row) ==      \* mutant: missing verdicts are not recorded
  [row EXCEPT !.status = "processed"]

Processed(row) == [row EXCEPT !.status = "processed",
                              !.failed = {c \in row.cards : row.verdict[c] = "failed"}]

(* complete_sweep: by primary key.                                         *)
Closed(t) == IF t.closes /\ sweep.id = t.sweep
             THEN [sweep EXCEPT !.status = "complete", !.epoch = t.epoch]
             ELSE sweep

(* The commit fails if another run has created one of its side tags first. *)
Commit(e) ==
  LET t == exec[e] IN
  /\ t.pc = "commit"
  /\ t.closes => ~EpochLocked
  /\ \/ /\ t.made \cap sideTags = {}
        /\ batch' = [b \in Batches |-> IF b \in t.ready THEN Processed(batch[b])
                                       ELSE batch[b]]
        /\ tagged' = [c \in Cards |-> tagged[c] \cup t.adds[c]]
        /\ sideTags' = sideTags \cup t.made
        /\ sweep' = Closed(t)
     \/ /\ t.made \cap sideTags # {}
        /\ UNCHANGED <<batch, tagged, sideTags, sweep>>
  /\ Step(e, Idle)
  /\ UNCHANGED <<catalog, filter, queue, requests, faults>>

--------------------------------------------------------------------------------
(* Ingest of a set, by a fetch task or `mtgjson_fetch`: one transaction.   *)
(* first_seen is the time it begins; its cards are seen once it commits.   *)

Load(e) ==
  /\ exec[e].pc = "idle"
  /\ \E cards \in (SUBSET {c \in Cards : catalog[c] = "unknown"}) \ {{}} :
       /\ catalog' = [c \in Cards |-> IF c \in cards THEN "loading" ELSE catalog[c]]
       /\ Step(e, [Idle EXCEPT !.pc = "load", !.cards = cards])
  /\ UNCHANGED <<sweep, batch, tagged, sideTags, filter, queue, requests, faults>>

LoadCommit(e) ==
  /\ exec[e].pc = "load"
  /\ catalog' = [c \in Cards |-> IF c \in exec[e].cards THEN "known" ELSE catalog[c]]
  /\ Step(e, Idle)
  /\ UNCHANGED <<sweep, batch, tagged, sideTags, filter, queue, requests, faults>>

--------------------------------------------------------------------------------
Finish(e) == Classify(e) \/ Apply(e) \/ Commit(e) \/ LoadCommit(e)

Run(w) == MaterializeRead(w) \/ MaterializeWrite(w) \/ Finish(w) \/ Ack(w)

Next ==
  \/ Kickoff \/ KickoffFailed \/ UpdateTag \/ Prune \/ CatchUp
  \/ \E b \in Batches : BatchEnds(b)
  \/ \E w \in Workers : Receive(w) \/ Run(w) \/ ProcessTask(w) \/ Load(w)
  \/ \E o \in Shells : \/ ProcessCli(o) \/ Finish(o) \/ Load(o)
                       \/ ApplyAuditCli(o) \/ DropOpenSweep(o)
  \/ \E v \in Servers : CleanReset(v) \/ ApplyAudit(v)
  \/ \E o \in Shells \cup Servers : EndDelete(o)
  \/ \E e \in Executors : Crash(e)

Spec == Init /\ [][Next]_vars

(* Every message is received and every task executed; the pipeline takes   *)
(* each batch to its end and then runs the process task (BatchPipeline's   *)
(* EveryBatchProcessed).                                                   *)
FairSpec ==
  /\ Spec
  /\ \A b \in Batches : WF_vars(BatchEnds(b))
  /\ \A w \in Workers : WF_vars(Run(w)) /\ SF_vars(Receive(w)) /\ SF_vars(ProcessTask(w))

--------------------------------------------------------------------------------
(* Properties.                                                             *)

(* Where a card stands in the tag's history.                               *)
Sent(c) == \E b \in Linked(sweep.id) : batch[b].status # "processed" /\ c \in batch[b].cards

Judged(c) == \E b \in Linked(sweep.id) :
               batch[b].status = "processed" /\ c \in batch[b].cards \ batch[b].failed

Coverage == [c \in Cards |-> CASE catalog[c] # "known" -> "outside"
                               [] catalog[c] = "known" /\ Sent(c) -> "sent"
                               [] catalog[c] = "known" /\ ~Sent(c) ->
                                    IF Judged(c) THEN "judged"
                                    ELSE IF c \in Failed(sweep.id) THEN "failed"
                                    ELSE IF c \in sweep.epoch THEN "behind"
                                    ELSE "waiting"]

(* The filters that unfinished process runs have read.                     *)
RunsUnderWay == {e \in Executors : exec[e].pc \in {"classify", "apply", "commit"}}

FiltersInUse == {exec[e].filter : e \in RunsUnderWay}

Promise == INSTANCE SweepCoverage WITH coverage <- Coverage, read <- FiltersInUse

(* Nothing is lost and nothing is paid twice: a card goes from the catalog *)
(* through a batch to a verdict, and the epoch excludes no waiting card    *)
(* but those outside the filter that the completing run had read           *)
(* (fetch_eligible_oracle_ids and is_sweep_complete, against each other).  *)
ImplementsCoverage == Promise!Spec

(* "It becomes 'complete' once all batches are processed and no eligible   *)
(* cards remain" (TagSweepModel): the completeness check must not be       *)
(* overtaken by a materialization; its batches would never be processed.   *)
CompleteMeansDone ==
  sweep.status = "complete" => \A b \in Linked(sweep.id) : batch[b].status = "processed"

(* An oracle at or before the epoch "was already in the catalog when the   *)
(* last sweep finished" (fetch_eligible_oracle_ids), and so went through   *)
(* one of its batches.                                                     *)
EpochWasSwept ==
  \A c \in sweep.epoch : \E b \in Linked(sweep.id) :
     batch[b].status = "processed" /\ c \in batch[b].cards

(* One sweep gives a card one verdict: main, unsure or excluded.           *)
OneVerdict == \A c \in Cards : Cardinality(tagged[c]) <= 1

(* A batch the sweep has on record as processed has been applied, whoever  *)
(* processed it, however often, and whatever was deleted meanwhile: its    *)
(* positive answers are in `card_tags`, its missing ones are flagged.      *)
RecordedMeansApplied ==
  \A b \in Linked(sweep.id) : batch[b].status = "processed" =>
     \A c \in batch[b].cards :
        /\ batch[b].verdict[c] = "main" => "main" \in tagged[c]
        /\ batch[b].verdict[c] = "failed" <=> c \in batch[b].failed

(* "completed_at is intentionally preserved - it acts as the epoch gate for *)
(* card eligibility until the new sweep finishes and overwrites it"        *)
(* (create_sweep): only a request that also deletes the tag's assignments  *)
(* and batch history gives the epoch up.                                   *)
EpochPreserved ==
  [][sweep.epoch \subseteq sweep'.epoch \/ \E o \in Deleting : exec[o].resets]_vars

(* A reset clears "tag assignments, side tags, audits, sweep batch history, *)
(* epoch, open sweep" (clean_reset_for_new_sweep): a card that is tagged   *)
(* has been judged since, whatever run was under way.                      *)
TagsAreOfThisHistory ==
  \A c \in Cards : tagged[c] # {} => c \in sweep.epoch \/ Judged(c)

(* "Return oracle_ids that need re-enqueueing" (get_failed_oracle_ids_for_ *)
(* sweep): a card that a later batch has judged needs none.                *)
ReenqueuesOnlyFailed ==
  [][\A b \in Batches : batch[b].status = "none" /\ batch'[b].status = "pending" =>
        \A c \in batch'[b].cards : ~Judged(c)]_vars

(* The run "becomes 'complete' once all batches are processed and no       *)
(* eligible cards remain" (TagSweepModel): it does not stay open like that. *)
DoneButOpen == /\ sweep.status = "open"
               /\ Complete(sweep.id, {}, filter)

DoneSweepsClose == []<>~DoneButOpen
================================================================================
