------------------------------- MODULE MtgjsonFetch ----------------------------
(***************************************************************************)
(* The catalog is filled from MTGJSON by fetch jobs, which a request files *)
(* as rows and the worker runs as a task, and by `mtgjson_fetch` in a      *)
(* shell.  Both take the list of sets, download the sets they are to       *)
(* ingest into one cache directory, and ingest each in a transaction of    *)
(* its own.  Downloads fail, files may be malformed, the worker may die at *)
(* any step and the broker then delivers the job again, MTGJSON publishes  *)
(* new versions of the files all the while, and the two do not know of     *)
(* each other.                                                             *)
(*                                                                         *)
(* Left out: the writing of a file's `.part`, which two downloads of one   *)
(* set share; a second worker running a job that is being run; a database  *)
(* that fails outside an ingest, where a task is acknowledged unfinished.  *)
(***************************************************************************)
EXTENDS SetFile

CONSTANTS
  Jobs,         \* ids of fetch jobs
  Workers, Shells,
  Requests,     \* the sets of codes that are asked for in this instance
  MaxFaults,    \* bound: crashes, failed downloads, early redeliveries
  MaxShellRuns, \* bound: runs of `mtgjson_fetch`
  NoJob, NoList

ASSUME FetchAssumption ==
  /\ NoJob \notin Jobs
  /\ Workers \cap Shells = {}
  /\ NoList \notin [Sets -> Nat]
  /\ Requests \subseteq SUBSET Sets
  /\ MaxFaults \in Nat /\ MaxShellRuns \in Nat

VARIABLES
  mtgjson,    \* MTGJSON: the version of each set's file; 0 stands for unlisted
  listCache,  \* cached SetList.json: the versions it was made from, or NoList
  fileCache,  \* cached set files: the version, or 0
  catalog,    \* the committed rows of each set
  job,        \* `mtgjson_fetch_jobs` and `mtgjson_fetch_job_editions`
  unsent,     \* jobs committed whose message the request has yet to send
  queue,      \* the jobs whose message waits at the broker
  exec,       \* what each worker and shell is doing
  owed,       \* history: the versions a job's requester may expect
  faults, shellRuns

vars == <<mtgjson, listCache, fileCache, catalog, job, unsent, queue, exec, owed, faults, shellRuns>>

remoteVars == <<mtgjson, owed>>
cacheVars == <<listCache, fileCache>>
jobVars == <<job, unsent, queue>>
boundVars == <<faults, shellRuns>>

Executors == Workers \cup Shells

EditionState == [state: {"none", "requested", "inprogress", "done"}, count: Nat]

JobRow == [stage: {"none", "created", "started", "ended"}, rows: [Sets -> EditionState],
           failed: BOOLEAN, unknown: SUBSET Sets]

NoRow == [state |-> "none", count |-> 0]

NoJobRow == [stage |-> "none", rows |-> [s \in Sets |-> NoRow], failed |-> FALSE, unknown |-> {}]

(* A task or a shell run: the list it is downloading, the sets it found in *)
(* the database, what it still has to do, the set it is at with the file's *)
(* version, its uncommitted rows and the number of the next chunk.         *)
Idle == [pc |-> "idle", job |-> NoJob, refresh |-> {}, list |-> NoList, existing |-> {}, todo |-> {},
         set |-> 0, body |-> 0, draft |-> NoRows, chunk |-> 0, failed |-> FALSE]

Steps == {"idle", "list", "listing", "listed", "work", "fetching", "fetched", "ingest", "ingested",
          "finish"}

TypeOK ==
  /\ mtgjson \in [Sets -> Nat]
  /\ listCache \in [Sets -> Nat] \cup {NoList}
  /\ fileCache \in [Sets -> Nat]
  /\ catalog \in [Sets -> SetRows]
  /\ job \in [Jobs -> JobRow]
  /\ unsent \subseteq Jobs /\ queue \subseteq Jobs
  /\ exec \in [Executors -> [pc: Steps, job: Jobs \cup {NoJob}, refresh: SUBSET Sets,
                             list: [Sets -> Nat] \cup {NoList},
                             existing: SUBSET Sets, todo: SUBSET Sets, set: Sets \cup {0},
                             body: Nat, draft: SetRows, chunk: Nat, failed: BOOLEAN]]
  /\ owed \in [Jobs -> [Sets -> Nat]]
  /\ faults \in Nat /\ shellRuns \in Nat

Init ==
  /\ mtgjson = [s \in Sets |-> 0]
  /\ listCache = NoList
  /\ fileCache = [s \in Sets |-> 0]
  /\ catalog = [s \in Sets |-> NoRows]
  /\ job = [j \in Jobs |-> NoJobRow]
  /\ unsent = {} /\ queue = {}
  /\ exec = [a \in Executors |-> Idle]
  /\ owed = [j \in Jobs |-> [s \in Sets |-> 0]]
  /\ faults = 0 /\ shellRuns = 0

Become(a, e) == exec' = [exec EXCEPT ![a] = e]

At(a, pc) == exec[a].pc = pc

InCatalog == {s \in Sets : catalog[s].edition}

(* The sets of a downloaded list, without those still being previewed.     *)
ListedEditions(list) == {s \in Sets : list[s] > 0}
Editions(list) == {s \in Sets : list[s] > 0 /\ ~Published[s][list[s]].preview}

First(sets) == CHOOSE s \in sets : \A t \in sets : s <= t

ShellsAreIdle == \A c \in Shells : At(c, "idle")

-----------------------------------------------------------------------------
(* MTGJSON and the requests.                                               *)

(* A build publishes the next version of every set that has one.           *)
Publish ==
  /\ \E s \in Sets : mtgjson[s] < Len(Published[s])
  /\ mtgjson' = [s \in Sets |-> Smaller(mtgjson[s] + 1, Len(Published[s]))]
  /\ UNCHANGED <<owed, cacheVars, catalog, jobVars, exec, boundVars>>

Created(codes) ==
  [NoJobRow EXCEPT !.stage = "created",
                   !.rows = [s \in Sets |-> IF s \in codes THEN [NoRow EXCEPT !.state = "requested"]
                                                           ELSE NoRow]]

(* The rows are committed first; the message follows, if the server lives. *)
EnqueueFetch(j, codes) ==
  /\ job[j].stage = "none"
  /\ job' = [job EXCEPT ![j] = Created(codes)]
  /\ unsent' = unsent \cup {j}
  /\ owed' = [owed EXCEPT ![j] =
       [s \in Sets |-> IF ShellsAreIdle /\ s \in codes THEN mtgjson[s] ELSE 0]]
  /\ UNCHANGED <<mtgjson, cacheVars, catalog, queue, exec, boundVars>>

SendFetch(j) ==
  /\ j \in unsent
  /\ unsent' = unsent \ {j}
  /\ queue' = queue \cup {j}
  /\ UNCHANGED <<remoteVars, cacheVars, catalog, job, exec, boundVars>>

(* A shell shares the cache directory and the catalog with the worker: the *)
(* jobs that exist while it runs may be given what it has downloaded.      *)
StartShell(c, refresh) ==
  /\ At(c, "idle")
  /\ shellRuns < MaxShellRuns
  /\ shellRuns' = shellRuns + 1
  /\ Become(c, [Idle EXCEPT !.pc = "list", !.refresh = refresh, !.existing = InCatalog])
  /\ owed' = [j \in Jobs |-> [s \in Sets |-> 0]]
  /\ UNCHANGED <<mtgjson, cacheVars, catalog, jobVars, faults>>

-----------------------------------------------------------------------------
(* A task.  A job that has ended is acknowledged and left alone.  What is  *)
(* delivered again while the job is run waits for the run to end, as it    *)
(* does where there is one worker (`--pool=solo`): two workers that run    *)
(* one job at once are left out.                                           *)

OverNever(j) == FALSE
Over(j) == job[j].stage = "ended"

StartJob(w, j) ==
  /\ At(w, "idle")
  /\ j \in queue
  /\ \A v \in Workers : exec[v].job # j
  /\ queue' = queue \ {j}
  /\ IF Over(j)
       THEN UNCHANGED <<job, exec>>
       ELSE /\ job' = [job EXCEPT ![j].stage = "started"]
            /\ Become(w, [Idle EXCEPT !.pc = "list", !.job = j])
  /\ UNCHANGED <<remoteVars, cacheVars, catalog, unsent, boundVars>>

(* The list is always downloaded anew.                                     *)
DownloadList(a) ==
  /\ At(a, "list")
  /\ listCache' = NoList
  /\ Become(a, [exec[a] EXCEPT !.pc = "listing", !.list = mtgjson])
  /\ UNCHANGED <<remoteVars, fileCache, catalog, jobVars, boundVars>>

StoreList(a) ==
  /\ At(a, "listing")
  /\ listCache' = exec[a].list
  /\ Become(a, [exec[a] EXCEPT !.pc = "listed", !.list = NoList])
  /\ UNCHANGED <<remoteVars, fileCache, catalog, jobVars, boundVars>>

(* A failed task goes on to `Finish`; a failed shell run is over.          *)
Failed(a) ==
  IF a \in Workers THEN [Idle EXCEPT !.pc = "finish", !.job = exec[a].job, !.failed = TRUE]
                   ELSE Idle

(* Sets to ingest: those not in the database, and of those in it the ones  *)
(* the job is to bring up to date, or a shell run to refresh.              *)
Pending(a, list, existing) ==
  IF a \in Workers
    THEN {s \in Editions(list) :
            s \in existing => job[exec[a].job].rows[s].state \in {"requested", "inprogress"}}
    ELSE {s \in Editions(list) : s \in existing => s \in exec[a].refresh}

Plan(a) ==
  LET existing == IF a \in Workers THEN InCatalog ELSE exec[a].existing
  IN /\ At(a, "listed")
     /\ IF listCache = NoList
          THEN Become(a, Failed(a))
          ELSE Become(a, [exec[a] EXCEPT !.pc = "work", !.existing = {},
                                         !.todo = Pending(a, listCache, existing)])
     /\ UNCHANGED <<remoteVars, cacheVars, catalog, jobVars, boundVars>>

-----------------------------------------------------------------------------
(* One set after the other.                                                *)

(* The cached file is good enough for a shell unless it is to refresh the  *)
(* set; a worker deletes it before it downloads.                           *)
CachedForAll(a, s) == fileCache[s] # 0
Cached(a, s) == a \in Shells /\ s \notin exec[a].refresh /\ fileCache[s] # 0

(* A worker has the row in progress, and committed, before it goes on; a   *)
(* row that is done it passes over.                                        *)
RowDone(a, s) == a \in Workers /\ job[exec[a].job].rows[s].state = "done"

InProgress(j, s) ==
  [job EXCEPT ![j].rows = [@ EXCEPT ![s] = [NoRow EXCEPT !.state = "inprogress"]]]

TakeSet(a) ==
  LET s == First(exec[a].todo)
  IN /\ At(a, "work")
     /\ exec[a].todo # {}
     /\ IF RowDone(a, s)
          THEN /\ Become(a, [exec[a] EXCEPT !.todo = @ \ {s}])
               /\ UNCHANGED <<job, fileCache>>
          ELSE /\ job' = IF a \in Workers THEN InProgress(exec[a].job, s) ELSE job
               /\ IF Cached(a, s)
                    THEN /\ Become(a, [exec[a] EXCEPT !.pc = "fetched", !.set = s])
                         /\ UNCHANGED fileCache
                    ELSE /\ fileCache' = [fileCache EXCEPT ![s] = 0]
                         /\ Become(a, [exec[a] EXCEPT !.pc = "fetching", !.set = s, !.body = mtgjson[s]])
     /\ UNCHANGED <<remoteVars, listCache, catalog, unsent, queue, boundVars>>

(* The decompressed file replaces the cached one in one step.              *)
StoreFile(a) ==
  /\ At(a, "fetching")
  /\ fileCache' = [fileCache EXCEPT ![exec[a].set] = exec[a].body]
  /\ Become(a, [exec[a] EXCEPT !.pc = "fetched", !.body = 0])
  /\ UNCHANGED <<remoteVars, listCache, catalog, jobVars, boundVars>>

(* The transaction begins with the upsert of the edition, whose row lock   *)
(* it holds to its end: two ingests of one set wait for each other here.   *)
BeginIngest(a) ==
  LET s == exec[a].set
  IN /\ At(a, "fetched")
     /\ \A b \in Executors : ~(At(b, "ingest") /\ exec[b].set = s)
     /\ IF fileCache[s] = 0
          THEN Become(a, Failed(a))
          ELSE Become(a, [exec[a] EXCEPT !.pc = "ingest", !.body = fileCache[s], !.chunk = 1,
                                         !.draft = [catalog[s] EXCEPT !.edition = TRUE]])
     /\ UNCHANGED <<remoteVars, cacheVars, catalog, jobVars, boundVars>>

InsertChunk(a) ==
  LET chunk == Chunk(exec[a].set, exec[a].body, exec[a].chunk)
      rows == Upserted(exec[a].draft, chunk, exec[a].body)
  IN /\ At(a, "ingest")
     /\ HasChunk(exec[a].set, exec[a].body, exec[a].chunk)
     /\ IF Refused(exec[a].draft, chunk) \/ Dangling(rows, chunk)
          THEN Become(a, Failed(a))
          ELSE Become(a, [exec[a] EXCEPT !.chunk = @ + 1, !.draft = WithWords(rows, chunk)])
     /\ UNCHANGED <<remoteVars, cacheVars, catalog, jobVars, boundVars>>

(* The end of the file: a malformed card rolls everything back.            *)
EndIngest(a) ==
  LET e == exec[a]
  IN /\ At(a, "ingest")
     /\ ~HasChunk(e.set, e.body, e.chunk)
     /\ IF Content[e.set][e.body].raises
          THEN UNCHANGED catalog /\ Become(a, Failed(a))
          ELSE /\ catalog' = [catalog EXCEPT ![e.set] = e.draft]
               /\ Become(a, IF a \in Workers
                              THEN [e EXCEPT !.pc = "ingested", !.draft = NoRows, !.body = 0,
                                             !.chunk = Len(Content[e.set][e.body].cards)]
                              ELSE [e EXCEPT !.pc = "work", !.draft = NoRows, !.body = 0, !.chunk = 0,
                                             !.set = 0, !.todo = @ \ {e.set}])
     /\ UNCHANGED <<remoteVars, cacheVars, jobVars, boundVars>>

(* The row is done in a transaction after the one that did it; `chunk`     *)
(* carries the number of cards there.                                      *)
MarkDone(w) ==
  LET e == exec[w]
  IN /\ At(w, "ingested")
     /\ job' = [job EXCEPT ![e.job].rows =
                  [@ EXCEPT ![e.set] = [state |-> "done", count |-> e.chunk]]]
     /\ Become(w, [e EXCEPT !.pc = "work", !.todo = @ \ {e.set}, !.set = 0, !.chunk = 0])
     /\ UNCHANGED <<remoteVars, cacheVars, catalog, unsent, queue, boundVars>>

(* The job ends, well or not: rows nobody has begun are done with no card  *)
(* and named in the message as not in the list.                            *)
Orphans(j) == {s \in Sets : job[j].rows[s].state = "requested"}

SettledAsFailed(j) == [s \in Sets |-> IF s \in Orphans(j) THEN [state |-> "failed", count |-> 0]
                                                          ELSE job[j].rows[s]]
Settled(j) == [s \in Sets |-> IF s \in Orphans(j) THEN [state |-> "done", count |-> 0]
                                                  ELSE job[j].rows[s]]

Ended(j, failed) == [stage |-> "ended", rows |-> Settled(j), failed |-> failed, unknown |-> Orphans(j)]

Finish(w) ==
  LET j == exec[w].job
  IN /\ w \in Workers
     /\ At(w, "finish") \/ (At(w, "work") /\ exec[w].todo = {})
     /\ job' = [job EXCEPT ![j] = Ended(j, exec[w].failed)]
     /\ Become(w, Idle)
     /\ UNCHANGED <<remoteVars, cacheVars, catalog, unsent, queue, boundVars>>

FinishCli(c) ==
  /\ c \in Shells
  /\ At(c, "work") /\ exec[c].todo = {}
  /\ Become(c, Idle)
  /\ UNCHANGED <<remoteVars, cacheVars, catalog, jobVars, boundVars>>

-----------------------------------------------------------------------------
(* Faults.                                                                 *)

Fault == faults < MaxFaults /\ faults' = faults + 1

(* A download, or the transaction of an ingest.                            *)
Fails(a) ==
  /\ Fault
  /\ exec[a].pc \in {"listing", "fetching", "ingest"}
  /\ Become(a, Failed(a))
  /\ UNCHANGED <<remoteVars, cacheVars, catalog, jobVars, shellRuns>>

(* The process is gone, its transaction rolled back; the message of a task *)
(* has not been acknowledged and comes back.                               *)
UnackedNothing(a) == {}
Unacked(a) == IF a \in Workers THEN {exec[a].job} ELSE {}

Crash(a) ==
  /\ Fault
  /\ ~At(a, "idle")
  /\ Become(a, Idle)
  /\ queue' = queue \cup Unacked(a)
  /\ UNCHANGED <<remoteVars, cacheVars, catalog, job, unsent, shellRuns>>

(* The visibility timeout passes while the job is being run.               *)
Redeliver(j) ==
  /\ Fault
  /\ \E w \in Workers : exec[w].job = j
  /\ queue' = queue \cup {j}
  /\ UNCHANGED <<remoteVars, cacheVars, catalog, job, unsent, exec, shellRuns>>

-----------------------------------------------------------------------------
Step(a) ==
  \/ DownloadList(a) \/ StoreList(a) \/ Plan(a)
  \/ TakeSet(a) \/ StoreFile(a)
  \/ BeginIngest(a) \/ InsertChunk(a) \/ EndIngest(a) \/ MarkDone(a)
  \/ Finish(a) \/ FinishCli(a)

Next ==
  \/ Publish
  \/ \E j \in Jobs, codes \in Requests : EnqueueFetch(j, codes)
  \/ \E j \in Jobs : SendFetch(j)
  \/ \E c \in Shells, refresh \in Requests \cup {{}} : StartShell(c, refresh)
  \/ \E w \in Workers, j \in Jobs : StartJob(w, j)
  \/ \E a \in Executors : Step(a)
  \/ \E a \in Executors : Fails(a) \/ Crash(a)
  \/ \E j \in Jobs : Redeliver(j)

Spec == Init /\ [][Next]_vars

(* The worker takes what it is given and goes on with it or dies; a shell  *)
(* does not stay in a transaction.  No request, publication or fault is    *)
(* promised.                                                               *)
FairSpec ==
  /\ Spec
  /\ \A j \in Jobs : SF_vars(\E w \in Workers : StartJob(w, j))
  /\ \A w \in Workers : WF_vars(Step(w))
  /\ \A c \in Shells : WF_vars(At(c, "ingest") /\ Step(c))

-----------------------------------------------------------------------------
(* Every row of a set is of the version v of its file, with its words.     *)
Holds(s, v) ==
  \A i \in 1..Len(Content[s][v].cards) :
    LET raw == Content[s][v].cards[i]
        row == catalog[s].cards[Key(raw)]
    IN /\ row # NoCard /\ row.body = v
       /\ raw.words \subseteq catalog[s].words[row.card_id]

(* The version of a set in the catalog: -1 when its rows are of several.   *)
Shelf(s) ==
  LET versions == {v \in 1..Len(Published[s]) : ~Content[s][v].raises /\ Holds(s, v)}
  IN IF ~catalog[s].edition THEN 0
     ELSE IF versions = {} THEN -1
     ELSE CHOOSE v \in versions : \A u \in versions : u <= v

Shelves == INSTANCE SetShelf WITH shelf <- [s \in Sets |-> Shelf(s)]

(* Every set is in the catalog whole, in one version, or not at all, and   *)
(* never in a version MTGJSON is still previewing: chunks, failures,       *)
(* crashes, redelivered jobs and two ingests of one set at once            *)
(* notwithstanding (ingest_edition_from_json_path, map_editions), as long  *)
(* as MTGJSON leaves a uuid with its printing and side: the words of a     *)
(* uuid that moves to a row of another uuid hang on the wrong card.        *)
ImplementsShelf == Shelves!Spec

(* A row that is done with cards stands for a set in the catalog at least  *)
(* as new as what MTGJSON published when the job was asked for, unless a   *)
(* shell run shared the cache with it: the job was not satisfied by a file *)
(* or by an ingest from before the request (run_mtgjson_fetch_job).        *)
DoneIsDelivered ==
  \A j \in Jobs, s \in Sets :
    (job[j].rows[s].state = "done" /\ job[j].rows[s].count > 0) =>
      /\ catalog[s].edition
      /\ Shelf(s) >= owed[j][s]

(* What the requester is told of a job.                                    *)
Status(j) ==
  [started |-> job[j].stage \in {"started", "ended"}, ended |-> job[j].stage = "ended",
   error |-> <<job[j].failed, job[j].unknown>>,
   editions |-> [s \in {t \in Sets : job[j].rows[t].state # "none"} |-> job[j].rows[s]]]

(* What has been reported as final stays: the status of a job that has     *)
(* ended, and the set that is done with its count, whatever is delivered   *)
(* again or resumed (run_mtgjson_fetch_job, app_get_mtgjson_fetch_job).    *)
StaysFinal(j) ==
  /\ Status(j).ended => Status(j)' = Status(j)
  /\ \A s \in DOMAIN Status(j).editions :
       Status(j).editions[s].state = "done" => Status(j)'.editions[s] = Status(j).editions[s]

FinalStatus == [][\A j \in Jobs : StaysFinal(j)]_vars

(* A job whose message has been sent ends, whatever fails or crashes and   *)
(* whatever the files contain.                                             *)
JobsEnd == \A j \in Jobs : (j \in queue) ~> (job[j].stage = "ended")

(* The codes a job reports as not in MTGJSON's list are not in it.         *)
UnknownIsUnlisted ==
  [][\A j \in Jobs : job'[j].unknown # job[j].unknown =>
       \A s \in job'[j].unknown : s \notin Editions(mtgjson)]_vars
================================================================================
