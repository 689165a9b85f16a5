# magic-boto: a verification project

magic-boto keeps a catalog of Magic cards, lets a model (Anthropic's Message
Batches API) decide which of them deserve a tag, and offers the result to MCP
clients and command lines. Work that takes minutes or days is done by Celery
tasks; everything that must survive is in PostgreSQL. This directory models that
part of the program in TLA+, checks it with TLC and proves what can be proved with
TLAPS. Paths below are relative to `src/tools_api/app/` unless they begin with
`src/`.

## 1. Inventory

### 1.1 Components

| component | state it keeps | operations | correct when |
|---|---|---|---|
| **batch outbox and pipeline** (`worker/{materialize_sweep_batches,submit_batch,poll_pipeline,process_sweep_run}.py`, `services/batch_*.py`, `repository/batch_repo.py`, `models/{batch_model,sweep_status}.py`, `cmd/batches/`) | rows of `batches` (status, payload, Anthropic id); messages at the broker; batches at Anthropic | materialize, submit, poll, process; `batches.poll`, `batches.delete`, `sweep.process` | every row is sent once, to its own batch, moves forward only, and is processed in the end |
| **tag sweep** (`services/tag_sweep_*.py`, `repository/tag_sweep_repo.py`, `mcp_tooling/sweep_tools.py`, `cmd/tag/sweep/`, `cmd/tag/prune.py`) | one `tag_sweep` row per tag (status, epoch `completed_at`, options), `tag_sweep_batches`, `tag_sweep_batch_cards` (with a failed flag) | kickoff, re-enqueue of failed cards, materialize, process, complete; prune, clean reset, global catch-up, open-sweep deletion | no card is skipped or judged twice; a sweep is complete when its work is done; a reset resets |
| **tag audit** (`services/tag_audit_*.py`, `repository/tag_audit_repo.py`, `worker/{init,process}_tag_audit.py`, `mcp_tooling/audit_tools.py`, `cmd/tag/audit/`) | `tag_audit` rows with sample sizes, batch, report | create, init a batch, process the result, apply the suggestion, delete | one batch per audit; one report, its own, kept; an older suggestion never replaces a newer one |
| **MTGJSON fetch** (`services/mtgjson_fetch/`, `repository/mtgjson_fetch_job_repo.py`, `worker/process_mtgjson_fetch.py`, `mcp_tooling/mtgjson_fetch_tools.py`) | jobs, one row per job and set with its state; cached files; the catalog | request, run, ingest one set | every requested set is ingested or reported; a redelivered job resumes; a set is in the catalog whole or not at all |
| **inventory** (`services/inventory_*.py`, `repository/inventory_repo.py`, `mcp_tooling/inventory_tools.py`) | named inventories, counts per card | create, delete, add, remove, CSV import and merge | each call takes effect once and as a whole, in the inventory it found or made; removals take effect |
| **tags and card tags** (`repository/{tag,card_tag}_repo.py`, `services/tag_service.py`, `http_routing/tag_router.py`) | tags with type filters (which eligibility for a sweep looks at), card-tag pairs | create, describe, rename, delete, tag, untag, apply verdicts | a request is applied as a whole; a pair needs its tag; a tag keeps its side tags |
| **card search** (`services/card_search_query_builder.py`, `api_schema/card_search.py`, `repository/card_repo.py`) | none | normalize a request, build and run a query, page | the pages together return what the fields mean, and nothing is missed while cards are imported |
| **database sessions** (`db.py`) | transactions | commit on success, roll back on error | follow-up messages are sent after the commit |
| **MCP server, authentication, error mapping** (`mcp_tooling/`, `cmd/serve_*`) | none between requests | dispatch | - |
| **tools UI** (`src/tools-ui/src/`) | React state | polling, rendering | no poll loop outlives its component |
| **card image cache** (`mcp_tooling/cards_tools.py`) | a dictionary under a lock | get or load | - |
| **Celery, Redis, Anthropic, PostgreSQL** | messages, remote batches, rows | external | modelled from how `src/` uses them |

### 1.2 How they interact

A kickoff (MCP tool or shell) opens the sweep row, commits, and sends a materialize
message. The worker materializes: it picks eligible cards and writes batch rows with
a payload (the outbox), commits, and sends a submit message naming every pending row
of the sweep. The submit task sends each payload to Anthropic, in a session per row,
and sends a poll message; each poll task copies remote statuses into the rows and
sends either itself again or the process task. The process task downloads the
results, writes card tags, marks rows processed, and completes the sweep; it may
enqueue an audit, which goes through the same outbox. Resets, prunes and applied
audits delete rows of all these tables from other processes at any time. The catalog
is filled by fetch tasks and by `mtgjson_fetch` in a shell, and feeds eligibility.

### 1.3 What is hard

Two processes work on the same tables with READ COMMITTED transactions and hardly a
lock; long gaps lie between what a task reads and what it writes (downloads, calls to
Anthropic); messages are acknowledged late, so any task may run twice; the broker and
the database do not commit together; deletion happens under running tasks; and
whether a card still has to be swept rests on a time stamp (`completed_at`), on the
tag's filter at that moment, and on rows that different requests delete. PROJECT.json lists each hazard at its line.

## 2. Modules

| module | what it is |
|---|---|
| `BatchStatus` | the status values of `sweep_status.py` and the sets of them the code uses |
| `BatchLifecycle` | abstract: a row's status only moves forward, or the row is deleted |
| `BatchPipeline`, `MCBatchPipeline` | the outbox pipeline of one open sweep; its instances |
| `BatchPipelineProofs` | theorems about it |
| `SweepCoverage` | abstract: a card waits, is sent, comes back judged or failed; or it is passed over, outside the filter of the run that completed |
| `TagSweep`, `MCTagSweep` | the sweeps of one tag, from kickoff to completion and reset; its instances |
| `TagSweepProofs` | theorems about it |
| `AuditProgress` | abstract: an audit is asked for once and gets one report, its own |
| `TagAudit`, `MCTagAudit` | the audits of one tag and the sweep that waits for one; its instance |
| `TagAuditProofs`, `TagAuditRefinement` | theorems about it; that it implements `AuditProgress` |
| `SetShelf` | abstract: a set is in the catalog as a whole published version or not at all |
| `SetFile` | what an ingest makes of a set's file, as functions |
| `MtgjsonFetch`, `MCMtgjsonFetch` | fetch jobs and shell runs; their instances |
| `MtgjsonFetchProofs` | theorems about them |
| `InventoryLedger` | abstract: of each call one delivery, withdrawal or end of one inventory, whole, or nothing |
| `InventoryCsv` | parser and merger of inventory files, as functions |
| `Inventory`, `MCInventory` | the calls on inventories, statement by statement; their instances |
| `InventoryProofs` | theorems about them |
| `CardFilters` | a card's stored row and the predicates of a search, as functions |
| `ChunkVerdicts` | chunks, batches and the reading of verdicts, as functions |
| `CatalogReaders`, `MCCatalogReaders` | a search that is paged and a sweep's rounds, while cards are imported; their instances |
| `CatalogReadersProofs` | theorems about it |
| `TagBook` | abstract: every change of tags and card tags is the whole of one request |
| `Tags`, `MCTags` | the calls on tags and card tags as transactions; their instances |
| `TagsProofs` | theorems about it |

`BatchPipeline` says what happens to rows whatever cards they carry; `TagSweep` says
what happens to cards and takes from the pipeline one promise, that a pending batch
ends and that the process task then exists (`BatchEnds`, `ProcessTask`, justified by
`EveryBatchProcessed`).

### 2.1 BatchPipeline

`row` is the table `batches`, `remote` the batches at Anthropic (with the row each
was created for, as history), `queue` the messages at the broker with their
multiplicity, `exec` what each worker and shell is doing: its place in the task,
the message, whether it is still unacknowledged, what it has read. A session that
reads, asks a remote service, and writes is split at the remote call; every other
session is one step. `Receive`, `Ack`, `Crash` and `Redeliver` are Celery and Redis:
the message stays until the task ends (`task_acks_late`), comes back after a crash,
and comes back during a task that outlives the visibility timeout. A failed task is
acknowledged too, as the code asks for no retry.

| action | code |
|---|---|
| `Kickoff`, `OperatorPoll`, `OperatorProcess`, `DeleteBatches` | `cmd/tag/sweep/enqueue.py`, `cmd/batches/poll.py`, `cmd/tag/sweep/process.py`, `batch_repo.delete_batches_with_status_in` |
| `Materialize` | `worker/materialize_sweep_batches.py`, one transaction |
| `SubmitScan`, `SubmitAccept`, `SubmitRecord`, `SubmitFail` | `worker/submit_batch.py`: the row is read, Anthropic is called outside any session, the id is recorded in a second one; a failure ends the task without a poll |
| `PollLoad`, `PollRetrieve`, `PollUpdate` | `services/batch_poll.py`, `worker/poll_pipeline.py` |
| `ProcessGather`, `ProcessApply` | `services/tag_sweep_processor.py`, as far as rows of `batches` go |
| `SendNext` | the message a task sends after its commit |

### 2.2 TagSweep

`sweep` is the tag's row; its epoch is the set of cards the completion time excludes
(those first seen at or before it), which is all a time stamp is used for. `filter` is
the set of cards that have the card types and supertypes the tag asks for; a card's
types are fixed, the tag's may change at any time (`UpdateTag`). `batch`
joins `batches`, `tag_sweep_batches` and `tag_sweep_batch_cards`; "pending" stands for
all stages before the results exist. `verdict` is what Anthropic will answer, fixed
when the batch ends and not read by anything but `Classified`. `tagged` is
`card_tags` of the tag and of its two side tags; `catalog` says whether a card's
ingest is uncommitted ("loading") or committed. `exec` holds the transactions: what
each has read and what its commit will write.

Atomicity. Transactions of the worker and of shells that take long are split at the
reads they decide on: materialization (read, write), processing (gather, classify,
apply, commit) and ingest (begin, commit). A materialization reads the tag and asks
for eligible cards in one step. A process run reads the tag when it gathers
(`services/tag_sweep_processor.py`), keeps it over the downloads, and judges by it
whether any card is left (`is_sweep_complete`). A deletion is split at the DELETE of the
sweep row, the one statement that waits (for the key-share lock a materialization's
inserts hold). A kickoff, a prune and a catch-up are one step: what a kickoff may lose
against a completing process run is listed as a hazard without property. Row locks
are guards: a process run waits for another that has marked the same batches
(`Apply`), a deletion waits for uncommitted marks (`Unlocked`), and whoever waited
for a deletion finds the row gone (`Apply`'s second branch).

| action | code |
|---|---|
| `Kickoff`, `KickoffFailed` | `enqueue_tag_sweep`, `sweep.enqueue [--reenqueue-failed]` through `init_sweep` |
| `MaterializeRead`, `MaterializeWrite` | `TagSweepInitializer.materialize_sweep_batches` |
| `Gather`, `Classify`, `Apply`, `Commit` | `TagSweepProcessor.run`, by a task (`ProcessTask`) or a shell (`ProcessCli`) |
| `Prune`, `CatchUp` | `cmd/tag/prune.py`, `enqueue_global_sweep_catchup` |
| `UpdateTag` | `update_tag`, as far as it replaces card types and supertypes |
| `CleanReset`, `ApplyAudit`, `ApplyAuditCli`, `DropOpenSweep`, `EndDelete` | `clean_reset_for_new_sweep`, `apply_audit`, `audit.apply` |
| `Load`, `LoadCommit` | the ingest of a set, one transaction whose start is `created_at` (`now()`) |

### 2.3 TagAudit

`audit` is the table `tag_audit`, numbered as its rows are triggered, `batch` the rows of
`batches` that carry audits, `result` what Anthropic has answered, `sweep` the status
of the tag's sweep and its `post_sweep_audit_id`. A sweep is completed by a process
task, which then sends the init message of its audit, or by `sweep.process` in a shell,
which does not (`SweepProcessedByShell`). Besides crashes, `faults` counts calls that
fail: a submission or a poll that raises ends the chain, a download or the debug file
that raises ends the transaction of a report before its commit; no task is retried. The
init task is split between the
read that finds the audit without a batch (`InitRead`) and the commit (`Attach`), for
sampling lies between; the process task at the download (`ProcessRead`,
`ProcessShell`, `Store`); a poll at the question to Anthropic; `delete_audits_for_tag`
between its two statements (`Prune`, `EndPrune`), which see different rows. The
submit task is one step here, as `BatchPipeline` has it in detail. `Overall` is the
status that `_build_sweep_status_response` reports.

| action | code |
|---|---|
| `Kickoff`, `SweepProcessed`, `SendInit` | the audit a kickoff asks for, and the message after a process task's commit (`worker/process_sweep_run.py`) |
| `SweepProcessedByShell` | `cmd/tag/sweep/process.py` |
| `InitRead`, `InitAudit`, `Attach`, `SendSubmit` | `worker/init_tag_audit.py`, `audit.enqueue`, `TagAuditInitService` |
| `Submit`, `PollLoad`, `PollWrite`, `Answer`, `EnqueuePoll` | the pipeline and Anthropic |
| `ProcessRead`, `ProcessShell`, `Store` | `TagAuditProcessingService.run` |
| `CreateTag`, `UpdateTag`, `DeleteTag`, `Apply` | the tag and its description |
| `Prune`, `EndPrune`, `DeleteBatches` | deletion of audits and of batches |

### 2.4 MtgjsonFetch

`mtgjson` is what MTGJSON publishes, as the number of a set's version; `listCache` and
`fileCache` are the download directory that jobs and shells share; `catalog` holds the
committed rows of each set, built row by row by `SetFile` from the raw cards of the
file (sides that are skipped, cards without an oracle id, chunks of inserts). An insert
follows `ON CONFLICT (scryfall_id, side) DO UPDATE`: a row that is there keeps its uuid,
whatever uuid the file has; only a new row whose uuid is some other row's primary key,
or a key that comes twice in a chunk, makes PostgreSQL refuse the chunk
(`SetFile!Refused`). `job` is
a job with its row per set, `unsent` the window between the commit of a request and
its message. The list, each download and each chunk of an ingest are steps of their
own. MTGJSON publishes at any step, also between the list and a set.

| action | code |
|---|---|
| `EnqueueFetch`, `SendFetch` | `app_enqueue_mtgjson_fetch` |
| `StartJob`, `DownloadList`, `StoreList`, `Plan` | `run_mtgjson_fetch_job`, `fetch_run`, `file_client` |
| `TakeSet`, `StoreFile`, `BeginIngest`, `InsertChunk`, `EndIngest`, `MarkDone`, `Finish` | the loop over sets, one transaction each |
| `StartShell`, `FinishCli` | `cmd/mtgjson_fetch.py` |
| `Publish`, `Fails`, `Crash`, `Redeliver` | MTGJSON, the network, the worker, the broker |

### 2.5 Inventory

`name` and `count` are the tables, `call` what each session's transaction has read,
locked and written. A call resolves its printings, then writes row after row: an upsert
locks one row a step (`Upsert`), a removal deletes a row whose count is small enough
and then updates it otherwise, in two statements (`Decrement`, `Update`). A row that
another transaction has written is waited for; `Victim` is the end PostgreSQL puts to
a circle of waits. Nothing is visible before `Finish`. `InventoryLedger` takes every
call for a request of its own: the name is looked up, or made, when the call begins
(`Ask`), and the call ends in one `Deliver`, `Withdraw`, `Drop` or `Abandon`. Files are parsed by
`InventoryCsv` (columns found by name, blank fields, counts that are no numbers).

### 2.6 CatalogReaders

`catalog` is the version of each card's row; `CardFilters!Stored` maps a raw card to its
columns, `Normalised` a request to what the query builder sees
(lists as the sets of their members). A page is two steps,
the count and the rows. A sweep's round fixes its table of cards, is cut into chunks
and batches by `ChunkVerdicts`, and reads the answers back by position. A second round
asks again about what failed.

### 2.7 Tags

`tags` has name, description and filter of each tag, `cards` the card tags. A session
makes one call: it reads (`Begin`, `BeginRows`, or `Refuse`), then writes and commits
(`Write`, `Delete`, or `Fail`, which rolls back). The bulk insert of card tags locks
row after row in the order of a set, which is any order (`Orders`), so two calls may
wait for each other (`Deadlocked`, `Victim`). `Judge` is the second look the processing
of a sweep takes at the tag, by the name it read before.

## 3. Runs

All runs but `tags` allow deadlock (`CHECK_DEADLOCK FALSE`): the bounds on requests and faults,
and a system whose work is done, stop the model where the program would wait for
the next request. Symmetry is over identifiers the specification only compares, and
is not used where liveness is checked.

### 3.1 Pipeline

| run | instance | shows |
|---|---|---|
| `pipeline_solo` | 2 rows, 3 remote batches, 1 worker, 1 shell, 3 requests, 1 fault; 658,830 states | the deployment on Fly (`src/tools_api/fly.toml`: `--pool=solo`): rows keep their shape, belong to their own submission, never claim more than Anthropic has done, move forward only (`ImplementsLifecycle`), are submitted only while pending; each fault orphans at most one accepted batch; chains of tasks do not multiply |
| `pipeline_live` | 2 rows, 1 worker, 2 requests, no fault; 20,705 states | every batch is processed although one of two process tasks dies |

Two rows are enough for a task to be between two ids of its message and for a sweep
to have one finished and one unfinished batch; two kickoffs are enough for two chains
of tasks over overlapping rows; one fault at every place is every single failure.

### 3.2 Sweep

| run | instance | shows |
|---|---|---|
| `sweep_solo` | 2 cards, one per batch, filters that let one card or both through, 1 worker, kickoffs with and without limit, changes of the filter, three verdicts, 4 requests, 1 crash; 859,055 states | every card goes once from the catalog through a batch to one verdict, and goes behind the epoch unsent only if the completing run had read a filter without it (`ImplementsCoverage`, `OneVerdict`); the epoch survives the reopening of the sweep (`EpochPreserved`) |
| `sweep_upkeep` | the same with prune, catch-up, audit application and reset, two verdicts, 3 requests; 482,540 states | none of these loses or skips a card (`ImplementsCoverage`) |
| `sweep_crowd` | a worker, a shell and a server at once, all requests but catch-up and changes of the filter; 1,912,128 states | a batch on record as processed is applied, whoever processed it and whatever was deleted meanwhile (`RecordedMeansApplied`) |
| `sweep_idle` | 1 card, a kickoff for which nothing is eligible | a violation, see 5 |

Two cards tell "the card" from "another card of the same batch or kickoff"; two
sweep keys are reused once deleted; three requests are enough for a sweep, a
successor that reopens the row, and one request against either; the fourth of
`sweep_solo` is a change of the filter beside three kickoffs. The coverage is promised
for one worker, as it is deployed, and without a shell that processes beside it: what a
second actor breaks is in 5 (`SweepLateBatch`, `SweepIngestRace`).

### 3.3 The other components

| run | instance | shows |
|---|---|---|
| `audit` | 2 audits, 2 batches, 1 worker, 1 shell, 3 requests, 1 crash or failed call; 783,811 states | an audit gets one report, of its own batch, and keeps it (`ImplementsProgress`); no batch is paid for that no audit can be given (`NoStrayBatch`); a newer suggestion stays (`DescriptionAdvances`); a sweep whose audit a process task has begun does not stay `auditing` unless something failed (`AuditingEnds`) |
| `fetch_jobs` | 2 sets in 3 versions each, 1 job, 1 worker, 1 shell run, 2 faults; 118,598 states | sets are in the catalog whole and past their preview, or not at all (`ImplementsShelf`); what a job reports done is in the catalog as new as its request (`DoneIsDelivered`); reports are final (`FinalStatus`); jobs end (`JobsEnd`) |
| `fetch_unknown` | the same, 1 fault | a violation, see 5 |
| `inventory` | 2 names, 2 printings, 5 files, 4 lists, 2 sessions, 4 calls, 1 lost connection; 109,810 states | each call takes effect once, as a whole, in the inventory it found or made, or not at all, and files mean what they say (`ImplementsLedger`); a removal takes its copies (`RemovalTakesEffect`); deadlocks are resolved and calls end (`CallsEnd`) |
| `catalog` | a few cards with faces, colors and odd figures, some fifty searches, pages of three sizes, 2 rounds; 77,001 states | a walk through the pages returns what the fields say they mean (`SearchIsMeant`), and misses nothing while cards are added (`NothingMissed`); rounds respect the limits (`RoundsFitLimits`); every answer reaches the card it is about (`EachAnswerLands`) |
| `tags` | 3 tags of one family, 2 cards, 7 calls, one of each kind, the creation by the command and with a blank description; 125,845 states | what is committed is a sequence of whole requests (`ImplementsBook`), a failed or overtaken call leaves nothing, deadlocks are resolved (`CallsEnd`) |

Two audits tell an audit from the one triggered later. A set needs three versions: a
preview, the set, a revision; two sets tell the one a job is at from one it has not
reached. Two printings and two cards are the least on which two calls can wait for
each other, and two sessions in `inventory` are the least that can. Both sessions of
`inventory` create, add and delete, one imports and ingests, and one removes; `tags` has
one caller of each kind: with two that remove, describe or rename, `RemovalTakesEffect`
and `ImplementsBook` fail, see 5. The
searches of `catalog` use every field of the request once with a value that decides
about a card of the instance, blank and differently spelled ones among them.

## 4. Fairness

`BatchPipeline.FairSpec`: a worker executes what it has received (weak fairness of
`Run`); the broker's list is first in, first out, so a waiting message of each kind is
received in spite of polls that keep being sent (strong fairness of reception);
Anthropic ends every batch (it expires them after a day). No request, no shell and
no fault is promised. `TagSweep.FairSpec` adds that a pending batch ends and that
the process task runs, which is what `pipeline_live` shows. `TagAudit.FairSpec`: workers
take messages for ever (strongly, because polls of a waiting batch keep coming) and
finish their tasks, transactions of shells end, Anthropic answers.
`MtgjsonFetch.FairSpec`: a waiting job is received, a worker goes on, and so does a
transaction a shell has open; a shell itself may be left alone. `Inventory.FairSpec`
and `Tags.FairSpec`: a transaction that is not waiting goes on, and the database ends
one of those that wait in a circle; both have no promise that a request comes.

## 5. Disagreements between the code and its documentation

Two are runs that expect a violation, and PROJECT.json quotes the lines: a kickoff
without eligible cards leaves the sweep open for ever (`sweep_idle`), and after a failed
download every set a job had not reached is reported as unknown to MTGJSON
(`fetch_unknown`).

For the others a configuration is kept here, to be run by hand with
`tlc -config X.cfg <module>`; TLC finds each property violated.

| configuration | module | property | what happens |
|---|---|---|---|
| `PipelineResubmit` | `MCBatchPipeline` | `SubmitsOnlyPending` | two workers (the prefork pool of `src/docker-compose.yml`) that list the same pending row both create an Anthropic batch for it; the task "skips non-pending_submit" rows (`worker/submit_batch.py:27`) |
| `SweepIngestRace` | `MCTagSweep` | `EpochWasSwept` | cards whose ingest began before a completion and commits after it are never swept, though the code takes excluded cards for "already in the catalog when the last sweep finished" (`repository/tag_sweep_repo.py:405`); see also below |
| `SweepLateBatch` | `MCTagSweep` | `CompleteMeansDone` | a `sweep.process` in a shell completes the sweep while the worker materializes batches for it, against "complete once all batches are processed" (`models/sweep_run_model.py:19`) |
| `SweepJudgedAgain` | `MCTagSweep` | `ReenqueuesOnlyFailed` | a second re-enqueue sends cards the first has brought back judged; the query returns those "that need re-enqueueing" (`repository/tag_sweep_repo.py:338`) |
| `SweepResetRace` | `MCTagSweep` | `TagsAreOfThisHistory` | verdicts of a deleted history are written after a clean reset |
| `AuditShell` | `MCTagAudit` | `EveryAuditBegins` | a sweep that `sweep.process` completes in a shell gets no message for its audit (only `worker/process_sweep_run.py:58` sends one) and is reported as auditing for ever |
| `SweepApplyEpoch` | `MCTagSweep` | `EpochPreserved` | an applied audit, with a second sweep open, drops the epoch |
| `InventoryTwins` | `MCInventory` | `OneOfEachName` | two calls on a new name leave two inventories of it (nothing makes `inventories.name` unique), after which `get_by_name` raises for every call; the tool is "get or create" and annotated as idempotent (`mcp_tooling/inventory_tools.py:86`) |
| `InventoryRemovals` | `MCInventory` | `RemovalTakesEffect` | of two removals one may find neither a row to delete nor one to update |
| `CatalogMoved` | `MCCatalogReaders` | `EachAnswerLands` | a card whose oracle id has left the catalog between kickoff and materialization shifts the rows of the cards after it in its chunk |
| `TagsUpdaters` | `MCTags` | `FilterAsAsked` | two that set a tag's filter leave the union of their filters; what is set "replaces" (`mcp_tooling/tags_tools.py:131`) |
| `TagsRenamers` | `MCTags` | `SidesFollow` | of two renamings the second moves the tag away from its side tags |
| `TagsRenamed` | `MCTags` | `VerdictsReachTheirTag` | a tag renamed while its sweep is processed: verdicts are dropped, or put on the tag that has the name by then, and the batch counts as processed |

`EpochWasSwept` fails without a race, too. A run completes the sweep by the filter it
has read; the epoch then excludes every card of the catalog, also those outside the
filter, which no batch ever had. If `update_tag` widens the filter, they are eligible by
their types and excluded by their age, and no kickoff sends them until the history is deleted. The
instance of `SweepIngestRace` shows it with `Shells = {}`, three requests,
`Commands = {"kickoff", "update"}` and `Filters <- AllOrOne`. `SweepCoverage` has the stage
"behind" for these cards, and for those that a deletion of history leaves there, so that
`ImplementsCoverage` says which cards are passed over and that no others are.

At `repository/card_repo.py:242`, the insert of a set's cards, a file in which two
printings have exchanged their uuids finds both rows, which keep theirs, and the
dependent rows, written with the file's uuids, hang on the other printing.
`FetchJobs.cfg` with `Published <- MCSwapped` refutes `ImplementsShelf` by it.
`add_inventory_cards` is annotated as idempotent (`mcp_tooling/inventory_tools.py:117`,
unlike the two import tools), though a repetition adds the copies again: the ledger
takes a repeated call for another request, and `ImplementsLedger` does not claim more.

More behaviours are in the models without a property of their own, or only described
here. With two workers an old poll answer may overwrite `processed` (`Written`). A
deletion that waits for a materialization leaves its batches without a sweep
(`Deleted`). A redelivered materialization takes cards beyond its kickoff's limit
(`Crash`, `Receive`, `Chosen`). A catch-up or prune after a complete sweep deletes the
record of failed cards, which the epoch then excludes (`PruneHistory`; `Forget` of
`SweepCoverage` leaves them behind). A kickoff that resumes an open sweep while a process run completes it sends a
message that finds no open sweep. A verdict about an oracle id that has left the
catalog makes the processing raise, and raise again at every redelivery (`Judge`,
`Process`). A crash between the commit of a process task and its message leaves the
sweep `auditing` (`AuditingEnds` excuses it as a fault), and so does the end of an audit's
chain at a failed call, for nothing is retried.

## 6. Proofs

`BatchPipelineProofs` proves, for any sets of rows, remote ids, workers and shells and
any bounds (only `ConstantsAssumption` is assumed):

- `TypeCorrect`: `Spec => []TypeOK`.
- `RowsWellFormed` and `IdsAreOwn`: `OutboxShape` and `LinkedToOwnSubmission`, for any
  number of workers. The invariant is `Inductive`: the two, and for every executor
  `TaskConsistent`, which says what the place in the task implies about what the
  task remembers (a row it is about to record still names the remote batch created
  for it; a snapshot to be written holds an id of the row it is for). Without it a
  recorded id could be anything.
- `ChainsBounded`: `ChainsDoNotMultiply`, for any number of workers (`FiniteInstance`:
  there are finitely many of them, and of rows). The messages that wait and the tasks
  that run are together at most the requests made and faults suffered
  (`ChainsCounted`): a task sends one message at most, and only once it is over. The
  number of messages is a sum over a function whose domain is finite; that adding to
  one value adds to the sum is shown by the smallest set for which it would not.
- `SoloEndedIsTrue`, `SoloSubmitsOnlyPending`, `SoloImplementsLifecycle`: under
  `SoloWorker` (any two workers are equal), from `SoloInductive`, which adds that the
  remote side is never behind the rows (`RemoteAhead`) and that what the task in
  progress remembers is up to date or the row is gone (`TaskUpToDate`): with one
  worker only operators and deletions can interfere, and they never move a row
  except to delete or process it. `SoloImplementsLifecycle` is the refinement: initial
  states map to initial states, each step to a `BatchLifecycle` step or a stutter.
- `SoloOrphansAccountedFor`: `OrphansAccountedFor` under `SoloWorker`. Batches at
  Anthropic to which no row will ever point (`Lost`: the answer is not being recorded
  either) are at most as many as the faults; each step of a task loses none, and a
  crash or a failed call between the answer and its record loses one.

`TagSweepProofs` proves, from `ConstantsAssumption` alone unless said otherwise:

- `SweepTypeCorrect`: `Spec => []TypeOK`.
- `RecordIsSound`: `RecordedMeansApplied`, for any number of workers, shells and
  servers. A processed batch may only lose its tags together with its row, although
  tags and row are written by one transaction and deleted by others that overlap with
  it. The invariant `Bookkeeping` follows the verdict on its way: a run has only
  batches whose answers exist (`AnswersAreThere`), once classified it carries every
  main verdict of them (`VerdictsGathered`), it is about to commit only if no
  deletion under way touches its rows (`CommitsApart`, which is what the row locks
  are for), and a deletion under way has every processed batch whose main tags it
  takes (`DeletionsCover`).
- `OneVerdictEach`: `OneVerdict` under `OnlyKickoffsAndUpdates` (one worker, no request but
  kickoffs and changes of the filter), with any number of shells that process results
  beside the worker. `JudgedOnce` says that a card is in one batch only, that what is
  about to be written is in none, and that whatever a run is about to add, or has
  added, is an answer about the card. Deletions make room for a second verdict, which
  is what they are for, and a second worker could pick the same cards.
- `OneWorkerEpochPreserved`: `EpochPreserved` under `OneWorker` (one worker, no shell that
  processes), without applied audits (with them `SweepApplyEpoch.cfg` is a
  counterexample). The invariant `Upkeep` has: nothing is being ingested while the
  worker does something else (`LoadsAreOwn`); what is in a batch or under the epoch is
  a committed card (`CardsAreKnown`); a run about to close the sweep has every
  committed card of the filter it read under the epoch or in one of its batches
  (`RunIsCurrent`); and a deletion under way takes the sweep's row, or has it locked, or
  touches nothing the sweep has (`DeletionIsApart`). Beside it stands `Settled`: between
  the two reads of a materialization and its insert, and between the completeness
  check and the commit of a process run, nobody else closes or fills the sweep. A shell
  that processes at the same time breaks it (`SweepLateBatch.cfg`).
- `OneWorkerImplementsCoverage`: `ImplementsCoverage` under `NoSecondChance`: `OneWorker` and
  no re-enqueue of failed cards, with any changes of the filter, prunes, catch-ups,
  applied audits, resets and crashes. The instances of `sweep_solo` and `sweep_upkeep`
  satisfy it. `SentOnce` adds that a card is in one batch of the sweep
  (`OneLinkedBatchEach`), that what is about to be written still is in no batch and not
  under the epoch, and that a card under the epoch waits for no verdict. Each action is
  a lemma that says what becomes of a card's stage; `Covered` relates stages to batches
  (`CoverageByBatch`). It says what one worker and the servers do; both hypotheses are
  needed, and 5 has what happens without the first.

The pipeline's invariants and `Bookkeeping` were checked by TLC first. The theorems
rest on step lemmas, one per action or group of actions; steps that touch nothing an
invariant reads are covered by a frame lemma (`QuietStep`, `OneRunFrame`); temporal
steps use PTL only at the end.

`TagsProofs` proves, from `TagsAssumption`:

- `TypeCorrect`: `Spec => []TypeOK`, for any sessions, calls, tags and cards. No two tags
  get one name, although each call looks before it writes, and no card keeps a tag
  that is gone, although the rows of a bulk insert are locked before the tag is
  looked for. The invariant `TypeInv` adds that tags are records and that what a
  session holds is of its tag; one lemma per way of writing (`InsertedType`,
  `RenamedType`, `UpdatedType`) shows that names stay unique.
- `OneEachImplementsBook`: `Spec => ImplementsBook` under `OneUpdater`, `OneRenamer` (one
  caller renames) and `NoBlanks` (it gives both names without blanks around them;
  `rename.py` continues a name as it was typed, so with blanks the side tags are not
  found and the tag moves alone). Any number of other calls interleave with theirs.
  What one who describes has read of a filter is still the tag's (`Current`, part of
  `FilterInv`), and the id of a tag still to be created is nowhere, so nobody has read it
  (`Fresh`). `BookInv` has three parts: rows are of families (`RowsOfTags`); the tag that is about
  to be renamed still has the name it was found by (`Renaming`); and a card that a
  bulk insert has passed has the tag, will have it at the commit, or lost it to an
  untagging (`Listing`), which is why a list is tagged as a whole although its rows are
  inserted, and locked, one by one. `NewNames` shows that the code's renaming of a tag
  and then of each suffix moves exactly the tags of its base; `RenameBook` and
  `DeleteBook` map the command's several statements to one step of `TagBook`.
  `TagsUpdaters.cfg` and `TagsRenamers.cfg` are what happens with two.

`TagAuditProofs` and `TagAuditRefinement` prove, from `AuditAssumption`, for any number
of audits, batches, tags, shells, requests and crashes:

- `AuditTypeCorrect`: `Spec => []TypeOK`. A task that goes on with an audit or a batch
  has one (`Names`), which is what makes the messages sent on a crash well formed.
- `NoBatchStrays`: `NoStrayBatch` under `OneWorker`, the deployment's `--pool=solo`
  (`src/tools_api/fly.toml:73`). The invariant is that the audit a worker samples for
  still has no batch and the number a shell samples for is nobody else's (`Sampling`).
  With two workers two messages for one audit can both find it without a batch.
- `SuggestionsAdvance`: `DescriptionAdvances` under `OneShell`, with any number of
  workers. The invariant `AppliedInv` says that the audit applied last still is the
  tag's, or that all audits the tag has, and those a shell is sampling for, are newer.
  With two shells one can prune the newer audit before the older is inserted.
- `AuditsProgress`: `ImplementsProgress` under `OneWorker` and `KeepsProcessed` (no
  deletion of batches has a ceiling that takes processed rows; one that does turns a
  complete audit into a pending one). `ProgressInv` has what a step relies on: a batch
  is of one audit (`OwnBatch`), a report is from the audit's own processed batch
  (`OwnReport`), a batch being polled has not ended (`Polled`), and what was read
  before a download or a deletion is still true when it is used (`StillTrue`). What is
  seen of an audit is a function of its row (`SeenShown`); each action that changes
  audits is one lemma of the refinement.

Here too the invariants were checked by TLC on the instance of `audit` first.

`InventoryProofs` proves, from `InventoryAssumption`, for any names, printings, lists,
files, sessions and calls. That a file's counts are numbers (`FilesAreCounts`) and the
ones the file states (`FilesAddUp`) is assumed by name where it is needed, for it is about
folds over the lines of a file; TLC evaluates both for every file of the instance
(`MCInventory`).

- `InventoryTypeCorrect`: `Spec => []TypeOK`; no count, committed or not, is negative or
  missing. The invariant `Sound` says of every call what its place implies (`Stages`: a
  printing is written once), that its row is its own while it is new and nobody's once
  it is deleted (`Placed`), that what it has written is the committed count changed
  as asked, whoever committed in between (`Amounts`, which is what the row locks are
  for), and that a delivery leaves nothing out (`Whole`).
- `OneRemoverTakesEffect`: `RemovalTakesEffect` under `OneRemover`. `Removing`: a copy that
  is asked for is still to be written, or written, or the requester will be told it
  was not there; what was too much to delete is still enough to update.
  `InventoryRemovals.cfg` is the counterexample for two.
- `CallsImplementLedger`: `ImplementsLedger`, for any number of sessions that create, edit
  and delete. The mapping reads off each call the request it stands for (`Requests`).
  A call that begins asks; a commit is its one delivery, withdrawal or drop, or, if it
  changes nothing, the end of the request; a rollback, a victim of a deadlock and a lost
  connection abandon it; every other step is a stutter.

`MtgjsonFetchProofs` proves, from `FileAssumption` and `FetchAssumption`, for any sets,
versions, cards, chunk sizes, jobs, workers and shells. Four hypotheses are about
MTGJSON's files: the cards an ingest reads are cards of the file (`FilesAreCards`, true of
any filter, but by induction over the file), a set once released is not previewed
again (`PreviewsEnd`), its file has a card unless it is malformed (`NoneIsEmpty`), and a
uuid stays with its printing and side (`UuidsStay`, which `FetchImplementsShelf` and
`OneWorkerDelivers` need: without it the code hangs rows on another card, see 5). TLC
evaluates them for the instance (`MCMtgjsonFetch`).

- `FetchTypeCorrect`: `Spec => []TypeOK`. The invariant `Sound` has, besides types, that
  lists and files in the cache and in the memory of a task are MTGJSON's and that
  files are of released versions (`Cache`, `Fetches`).
- `FinalStays`: `FinalStatus`, for any number of workers. `Runs`: no two workers run one
  job (`Apart`), a job that is run has started and not ended, and the set its worker
  is at is not done (`Running`). Workers may take turns at a job; that two
  run it at once is left out of the model (`StartJob`, section 7).
- `FetchImplementsShelf`: `ImplementsShelf`, for any number of workers and shells, also two
  that ingest one set at once. `Shelved` says that a transaction has in its draft all
  it has read of the file so far (`Draft`), and that a set in the catalog is a whole
  released version (`Whole`). The step that matters is a chunk over rows an earlier
  version has left (`ChunkIsHeld`): a row keeps the id it has, dependent rows are
  written with the id in the file. Where the two differ, either no row has the file's
  id, and a foreign key ends the transaction, or one of another printing has it, which
  `UuidsStay` excludes; so nothing of the file is lost.
- `OneWorkerDelivers`: `DoneIsDelivered` under `OneWorker`, with any number of shells.
  `Delivery` says that the file a job has in hand is no older than any request that is
  told, or has been told, that its set is done (`Fresh`), while no shell runs beside
  a request to which a version is owed.

Here, too, what is invariant was checked by TLC on the instance first.

`CatalogReadersProofs` proves, from `ChunkAssumption`, `ReadersAssumption` (cards and
inventories are finite, a file has a version, an answer's list is finite) and
`WordsAssumption` (a raw colour is a pip, the number that a collector number begins
with is a natural number, inventories are stored under canonical names, ids are not
blank), for any files, searches, answers and settings:

- `ReadersTypeCorrect`: `Spec => []TypeOK`. `TypeInv` adds that `seen` is a sequence of cards
  of the catalog and that the batches of a round fit (`Fits`). `PageFacts` says what the
  n-th page has, also beyond the end of the results.
- `RoundsAlwaysFit`: `Spec => []RoundsFitLimits`, from `TypeInv`. `RoundFits` is the argument:
  a sequence is cut into chunks and those into batches, so a place in the sequence is
  one place in one chunk of one batch (`PlaceOfPart`, `Place`), every place is in one
  (`CutCovers`), and a batch's cards are at most as many as its places.
- `SteadyOraclesLand`: `EachAnswerLands` under `SteadyOracles` (no file changes a card's oracle
  id, as in `Catalog.cfg`). `Lands`: whatever a round asks about is in the catalog, so
  its tables have a row for every card (`TableOfKnown`), and a verdict is read for the
  card it is about (`ClassifiedAsDeserved`). `CatalogMoved.cfg` is the counterexample
  without the hypothesis.
- `SearchesAreMeant` and `NothingIsMissed`: `SearchIsMeant` and `NothingMissed` under
  `PlainPatterns` (no `%` or `_` in a pattern, which `Like` does not escape, and no blanks
  around a part of a name, which `Normalised` does not strip). There is a lemma for each
  kind of field (`TokenMeans`, `LikeMeans`, `ColorMeans`, ...): what the normalised value asks
  of the stored row is what the description says of MTGJSON's words. `SearchMeans` puts
  the fields together, `FoundIsMeant` says so of the rows a search finds. `PlaceInResults`
  is the other half: in any order that `ORDER BY` admits, the entry at a place one more
  than the number of entries with a smaller key has that key (`SortedPlace`), also where
  `DISTINCT ON` chose the rows. The invariant is `Told`. `Reached` says that every card which
  was there from the beginning has been returned, or a card with its key has, or the
  offset of the next page is at most the number of entries before it. An import that
  only adds can but raise that number (`AheadGrows`), and a page that does not return
  the card leaves it ahead of the next offset. `Counted` says how many rows an undisturbed
  walk has had. `OnlyAdded` cannot be weakened to the cards of the
  beginning: a card that is imported during the walk and then changed by a second file
  can leave the results, pull the rows after it forward and make the walk miss one.

Model-checked only: everything about liveness (`EveryBatchProcessed`, `DoneSweepsClose`,
`AuditingEnds`, `JobsEnd`, both `CallsEnd`), which is out of the provers' reach. The theorems
on files say what becomes of a file's cards and counts, and TLC what a parser makes of
the file: its functions are folds, about which the provers cannot do induction.

## 7. Not modelled

The wording of prompts, tables and reports, token accounting, status queries;
authentication and HTTP; pools and engines; migrations, but for the constraints they
create or lack; the tools UI, which only shows what the routes answer (its polling
loop, `src/tools-ui/src/hooks/usePoll.ts`, survives an unmount that comes while it
awaits an answer); the cache of card images.

Data. A card's types never change, and a card that is imported anew with other types
does not enter or leave a filter. A sweep's filter is one set of cards, types and
supertypes together; `Tags` has the types of a filter only, as supertypes are read and
written alike. A key that comes twice in a chunk always ends the transaction, though
PostgreSQL lets it pass if nothing is inserted or updated twice; uuids of one set are
never those of another.

Steps. The ordering of cards within a limit is
a free choice in `TagSweep.Chosen`, more than the code allows, and fixed in
`CatalogReaders`. Redelivery by visibility timeout is in `BatchPipeline` and
`MtgjsonFetch` only. Two workers that run one fetch job, and the `.part` files two
downloads of a set share, are left out. The wildcards of a search match as in SQL, but a name is never
one with blanks around it.

## 8. What is left

1. `TagSweep` and `TagAudit` composed into one module; today each has the other's
   tables as far as it reads or deletes them.
2. A second worker on one fetch job, with the early redelivery that brings it about.
