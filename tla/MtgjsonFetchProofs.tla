-------------------------- MODULE MtgjsonFetchProofs --------------------------
(* Theorems about MtgjsonFetch, for every number of sets, versions, cards,   *)
(* chunks, jobs, workers and shells.                                         *)
EXTENDS MtgjsonFetch, SequenceTheorems, FiniteSetTheorems, NaturalsInduction, WellFoundedInduction, TLAPS

(* A set of naturals has a least one.                                        *)
LEMMA LeastNat ==
  ASSUME NEW B \in SUBSET Nat, B # {}
  PROVE  \E n \in B : \A m \in B : n <= m
<1>1. PICK n \in B : \A m \in B : ~ (<<m, n>> \in OpToRel(<, Nat))
  BY NatLessThanWellFounded, WFMin, Zenon
<1>2. \A m \in B : ~ (m < n)
  BY <1>1, Zenon DEF OpToRel
<1> QED
  BY <1>2

(* Where chunk n of a file of chunks of b begins and ends.                   *)
LEMMA NextMultiple ==
  ASSUME NEW n \in Nat \ {0}, NEW b \in Nat \ {0}
  PROVE  (n - 1) * b \in Nat /\ n * b = (n - 1) * b + b
<1>1. \A m \in Nat : m * b \in Nat
  OBVIOUS
<1> QED
  BY <1>1

USE FileAssumption, FetchAssumption

--------------------------------------------------------------------------------
(* Types, and what the place of an executor says of the file it is at.       *)

Task == [pc: Steps, job: Jobs \cup {NoJob}, refresh: SUBSET Sets,
         list: [Sets -> Nat] \cup {NoList}, existing: SUBSET Sets, todo: SUBSET Sets,
         set: Sets \cup {0}, body: Nat, draft: SetRows, chunk: Nat, failed: BOOLEAN]

Data ==
  /\ mtgjson \in [Sets -> Nat]
  /\ listCache \in [Sets -> Nat] \cup {NoList}
  /\ fileCache \in [Sets -> Nat]
  /\ catalog \in [Sets -> SetRows]
  /\ job \in [Jobs -> JobRow]
  /\ unsent \subseteq Jobs /\ queue \subseteq Jobs
  /\ owed \in [Jobs -> [Sets -> Nat]]
  /\ faults \in Nat /\ shellRuns \in Nat

Typed == Data /\ exec \in [Executors -> Task]

AtSet == {"fetching", "fetched", "ingest", "ingested"}

(* What the place of an executor says of what it remembers.                  *)
Stage(a, e) ==
  /\ e.pc = "idle" => e = Idle
  /\ e.job \in Jobs <=> (a \in Workers /\ e.pc # "idle")
  /\ e.job = NoJob <=> ~(a \in Workers /\ e.pc # "idle")
  /\ e.pc \in {"ingested", "finish"} => a \in Workers
  /\ e.pc \in AtSet => e.set \in e.todo
  /\ e.pc = "ingest" => e.chunk > 0

(* A version that MTGJSON has published and is not previewing.               *)
Released(s, v) == v \in 1..mtgjson[s] /\ ~Published[s][v].preview

(* Lists and files are MTGJSON's, and files are of released versions.        *)
Listed(list) == list # NoList => \A s \in Sets : list[s] <= mtgjson[s]

Fetches(e) ==
  /\ Listed(e.list)
  /\ \A s \in e.todo : Released(s, mtgjson[s])
  /\ e.pc \in {"fetching", "ingest"} => Released(e.set, e.body)

Cache ==
  /\ \A s \in Sets : mtgjson[s] <= Len(Published[s])
  /\ Listed(listCache)
  /\ \A s \in Sets : fileCache[s] # 0 => Released(s, fileCache[s])

Sound ==
  /\ Typed
  /\ Cache
  /\ \A a \in Executors : Stage(a, exec[a]) /\ Fetches(exec[a])

LEMMA FirstIsThere ==
  ASSUME NEW sets \in SUBSET Sets, sets # {}
  PROVE  First(sets) \in sets
  BY LeastNat DEF First, FileAssumption

LEMMA EmptyRows == NoRows \in SetRows
  BY DEF NoRows, SetRows

LEMMA IdleIsTask == Idle \in Task
  BY EmptyRows DEF Idle, Task, Steps

LEMMA PublishedType ==
  ASSUME NEW s \in Sets
  PROVE  /\ Published[s] \in Seq(Version) /\ Len(Published[s]) \in Nat
         /\ \A v \in 1..Len(Published[s]) : Published[s][v] \in Version
<1>1. Published[s] \in Seq(Version)
  BY DEF FileAssumption
<1> QED
  BY <1>1, LenProperties, ElementOfSeq

LEMMA Becomes ==
  ASSUME Typed, NEW a \in Executors, NEW task, Become(a, task)
  PROVE  exec'[a] = task /\ \A b \in Executors \ {a} : exec'[b] = exec[b]
  BY DEF Become, Typed

LEMMA BecomesTyped ==
  ASSUME Typed, NEW a \in Executors, NEW task \in Task, Become(a, task)
  PROVE  exec' \in [Executors -> Task]
  BY DEF Become, Typed

(* Chunks.                                                                   *)
LEMMA ContentType ==
  ASSUME FilesAreCards, NEW s \in Sets, NEW v \in 1..Len(Published[s])
  PROVE  /\ Content[s][v].cards \in Seq(RawCard)
         /\ Len(Content[s][v].cards) \in Nat
         /\ \A i \in 1..Len(Content[s][v].cards) : Content[s][v].cards[i] \in RawCard
<1>1. Content[s][v].cards \in Seq(RawCard)
  BY DEF FilesAreCards
<1> QED
  BY <1>1, LenProperties, ElementOfSeq

LEMMA ChunkType ==
  ASSUME FilesAreCards, NEW s \in Sets, NEW v \in 1..Len(Published[s]), NEW n \in Nat \ {0}
  PROVE  /\ Chunk(s, v, n) \in Seq(RawCard)
         /\ Len(Chunk(s, v, n)) = (IF (n - 1) * BatchSize < Len(Content[s][v].cards)
              THEN Smaller(n * BatchSize, Len(Content[s][v].cards)) - (n - 1) * BatchSize ELSE 0)
         /\ \A i \in 1..Len(Chunk(s, v, n)) :
              /\ Chunk(s, v, n)[i] \in RawCard
              /\ Chunk(s, v, n)[i] = Content[s][v].cards[(n - 1) * BatchSize + i]
<1> DEFINE file == Content[s][v].cards
           lo == (n - 1) * BatchSize
           hi == Smaller(n * BatchSize, Len(file))
<1>1. file \in Seq(RawCard) /\ Len(file) \in Nat /\ \A i \in 1..Len(file) : file[i] \in RawCard
  BY ContentType
<1>2. lo \in Nat /\ n * BatchSize = lo + BatchSize /\ BatchSize \in Nat \ {0}
  BY DEF FileAssumption
<1>3. hi \in Nat /\ hi <= Len(file) /\ (lo < Len(file) <=> lo + 1 <= hi)
  BY <1>1, <1>2 DEF Smaller
<1>4. Chunk(s, v, n) = SubSeq(file, lo + 1, hi)
  BY DEF Chunk
<1> HIDE DEF file, lo, hi
<1>5. \A i \in (lo + 1)..hi : file[i] \in RawCard
  BY <1>1, <1>2, <1>3
<1>6. /\ SubSeq(file, lo + 1, hi) \in Seq(RawCard)
      /\ Len(SubSeq(file, lo + 1, hi)) = IF lo + 1 <= hi THEN hi - (lo + 1) + 1 ELSE 0
      /\ \A i \in 1..(hi - (lo + 1) + 1) : SubSeq(file, lo + 1, hi)[i] = file[lo + 1 + i - 1]
  BY <1>2, <1>3, <1>5, SubSeqProperties
<1>7. /\ Len(SubSeq(file, lo + 1, hi)) = IF lo < Len(file) THEN hi - lo ELSE 0
      /\ \A i \in 1..Len(SubSeq(file, lo + 1, hi)) :
           /\ SubSeq(file, lo + 1, hi)[i] = file[lo + i]
           /\ SubSeq(file, lo + 1, hi)[i] \in RawCard
  <2>1. Len(SubSeq(file, lo + 1, hi)) = IF lo < Len(file) THEN hi - lo ELSE 0
    BY <1>2, <1>3, <1>6
  <2>2. ASSUME NEW i \in 1..Len(SubSeq(file, lo + 1, hi))
        PROVE  /\ SubSeq(file, lo + 1, hi)[i] = file[lo + i]
               /\ SubSeq(file, lo + 1, hi)[i] \in RawCard
    <3>1. i \in 1..(hi - (lo + 1) + 1) /\ lo + 1 + i - 1 = lo + i /\ lo + i \in (lo + 1)..hi
      BY <1>2, <1>3, <1>6, <2>1
    <3> QED
      BY <3>1, <1>5, <1>6
  <2> QED
    BY <2>1, <2>2
<1> QED
  BY <1>4, <1>6, <1>7 DEF file, lo, hi

LEMMA UpsertedType ==
  ASSUME NEW rows \in SetRows, NEW chunk \in Seq(RawCard), NEW body \in Nat
  PROVE  Upserted(rows, chunk, body) \in SetRows
<1> DEFINE Of(k) == {i \in 1..Len(chunk) : Key(chunk[i]) = k}
           Row(k, raw) == [card_id |-> IF rows.cards[k] = NoCard THEN raw.uuid ELSE rows.cards[k].card_id,
                           body |-> body]
           cards == [k \in Keys |->
             IF Of(k) = {} THEN rows.cards[k] ELSE Row(k, chunk[CHOOSE i \in Of(k) : TRUE])]
<1>1. ASSUME NEW k \in Keys PROVE cards[k] \in CardRow \cup {NoCard}
  <2>1. rows.cards[k] \in CardRow \cup {NoCard}
    BY DEF SetRows
  <2>2. CASE Of(k) # {}
    <3>1. (CHOOSE i \in Of(k) : TRUE) \in Of(k)
      BY <2>2
    <3>2. chunk[CHOOSE i \in Of(k) : TRUE] \in RawCard
      BY <3>1, ElementOfSeq
    <3> QED
      BY <2>1, <2>2, <3>2 DEF RawCard, CardRow
  <2> QED
    BY <2>1, <2>2
<1>2. cards \in [Keys -> CardRow \cup {NoCard}]
  BY <1>1
<1>3. Upserted(rows, chunk, body) = [rows EXCEPT !.cards = cards]
  BY DEF Upserted
<1> HIDE DEF cards
<1> QED
  BY <1>2, <1>3 DEF SetRows

LEMMA WithWordsType ==
  ASSUME NEW rows \in SetRows, NEW chunk \in Seq(RawCard)
  PROVE  WithWords(rows, chunk) \in SetRows
<1> DEFINE words == [u \in Uuids |->
     rows.words[u] \cup UNION {chunk[i].words : i \in {j \in 1..Len(chunk) : chunk[j].uuid = u}}]
<1>1. ASSUME NEW u \in Uuids PROVE words[u] \subseteq Words
  <2>1. ASSUME NEW i \in 1..Len(chunk) PROVE chunk[i].words \subseteq Words
    <3>1. chunk[i] \in RawCard
      BY ElementOfSeq
    <3> QED
      BY <3>1 DEF RawCard
  <2>2. rows.words[u] \subseteq Words
    BY DEF SetRows
  <2> QED
    BY <2>1, <2>2
<1>2. words \in [Uuids -> SUBSET Words]
  BY <1>1
<1>3. WithWords(rows, chunk) = [rows EXCEPT !.words = words]
  BY DEF WithWords
<1> HIDE DEF words
<1> QED
  BY <1>2, <1>3 DEF SetRows

(* A step of one executor while MTGJSON publishes nothing.                   *)
LEMMA ExecutorStep ==
  ASSUME Sound, NEW a \in Executors, NEW task \in Task, Become(a, task), UNCHANGED mtgjson,
         Data', Cache', Stage(a, task), Fetches(task)
  PROVE  Sound'
<1>1. exec'[a] = task /\ \A b \in Executors \ {a} : exec'[b] = exec[b]
  BY Becomes DEF Sound
<1>2. Typed'
  BY BecomesTyped DEF Sound, Typed
<1>3. ASSUME NEW b \in Executors PROVE Stage(b, exec[b])' /\ Fetches(exec[b])'
  <2>1. CASE b = a
    BY <1>1, <2>1 DEF Stage, Fetches, Listed, Released
  <2>2. CASE b # a
    <3>1. exec'[b] = exec[b] /\ Stage(b, exec[b]) /\ Fetches(exec[b])
      BY <1>1, <2>2 DEF Sound
    <3> QED
      BY <3>1 DEF Stage, Fetches, Listed, Released
  <2> QED
    BY <2>1, <2>2
<1> QED
  BY <1>2, <1>3 DEF Sound

LEMMA SameCache ==
  ASSUME Cache, UNCHANGED <<mtgjson, listCache, fileCache>>
  PROVE  Cache'
  BY DEF Cache, Listed, Released

LEMMA OfExecutor ==
  ASSUME Sound, NEW a \in Executors
  PROVE  exec[a] \in Task /\ Stage(a, exec[a]) /\ Fetches(exec[a]) /\ Data /\ Cache
  BY DEF Sound, Typed

LEMMA DataStep ==
  ASSUME Data, UNCHANGED <<mtgjson, listCache, fileCache, catalog, job, unsent, queue, owed>>,
         faults' \in Nat, shellRuns' \in Nat
  PROVE  Data'
  BY DEF Data

LEMMA IdleStep ==
  ASSUME NEW a \in Executors
  PROVE  Idle \in Task /\ Stage(a, Idle) /\ Fetches(Idle)
<1>1. Stage(a, Idle)
  BY DEF Stage, Idle, FetchAssumption, AtSet
<1>2. Fetches(Idle)
  BY DEF Fetches, Idle, Listed
<1> QED
  BY <1>1, <1>2, IdleIsTask

LEMMA FailedStep ==
  ASSUME NEW a \in Executors, exec[a] \in Task, Stage(a, exec[a]), exec[a].pc # "idle"
  PROVE  Failed(a) \in Task /\ Stage(a, Failed(a)) /\ Fetches(Failed(a))
<1>1. CASE a \notin Workers
  BY <1>1, IdleStep DEF Failed
<1>2. CASE a \in Workers
  <2> DEFINE new == [Idle EXCEPT !.pc = "finish", !.job = exec[a].job, !.failed = TRUE]
  <2>1. Failed(a) = new
    BY <1>2 DEF Failed
  <2>2. exec[a].job \in Jobs
    BY <1>2 DEF Stage
  <2>3. /\ new.pc = "finish" /\ new.job = exec[a].job /\ new.todo = {} /\ new.list = NoList
    BY DEF Idle
  <2>4. new \in Task
    BY IdleIsTask, <2>2 DEF Task, Idle, Steps
  <2> HIDE DEF new
  <2>5. Stage(a, new)
    BY <1>2, <2>2, <2>3 DEF Stage, AtSet, FetchAssumption
  <2>6. Fetches(new)
    BY <2>3 DEF Fetches, Listed
  <2> QED
    BY <2>1, <2>4, <2>5, <2>6
<1> QED
  BY <1>1, <1>2

(* An executor that fails or stops.                                          *)
LEMMA StopStep ==
  ASSUME Sound, NEW a \in Executors, exec[a].pc # "idle", Become(a, Idle) \/ Become(a, Failed(a)),
         UNCHANGED mtgjson, Data', Cache'
  PROVE  Sound'
<1>1. exec[a] \in Task /\ Stage(a, exec[a])
  BY OfExecutor
<1>2. CASE Become(a, Idle)
  BY <1>2, IdleStep, ExecutorStep
<1>3. CASE Become(a, Failed(a))
  BY <1>1, <1>3, FailedStep, ExecutorStep
<1> QED
  BY <1>2, <1>3

LEMMA InitSound == Init => Sound
<1> SUFFICES ASSUME Init PROVE Sound
  OBVIOUS
<1>1. NoJobRow \in JobRow
  BY DEF NoJobRow, JobRow, NoRow, EditionState
<1>2. Data
  BY <1>1, EmptyRows DEF Init, Data
<1>3. exec \in [Executors -> Task] /\ \A a \in Executors : exec[a] = Idle
  BY IdleIsTask DEF Init
<1>4. Cache
  <2>1. listCache = NoList /\ \A s \in Sets : mtgjson[s] = 0 /\ fileCache[s] = 0
    BY DEF Init
  <2> QED
    BY <2>1, PublishedType DEF Cache, Listed
<1>5. \A a \in Executors : Stage(a, exec[a]) /\ Fetches(exec[a])
  BY <1>3, IdleStep
<1> QED
  BY <1>2, <1>3, <1>4, <1>5 DEF Sound, Typed

LEMMA PublishSound ==
  ASSUME Sound, PreviewsEnd, Publish
  PROVE  Sound'
<1>1. mtgjson' \in [Sets -> Nat] /\ \A s \in Sets : mtgjson'[s] \in mtgjson[s]..Len(Published[s])
  <2>1. ASSUME NEW s \in Sets
        PROVE  Smaller(mtgjson[s] + 1, Len(Published[s])) \in mtgjson[s]..Len(Published[s])
    BY PublishedType DEF Sound, Typed, Data, Cache, Smaller
  <2>2. mtgjson' = [s \in Sets |-> Smaller(mtgjson[s] + 1, Len(Published[s]))]
    BY DEF Publish
  <2>3. \A s \in Sets : mtgjson[s] \in Nat
    BY DEF Sound, Typed, Data
  <2> QED
    BY <2>1, <2>2, <2>3, PublishedType
<1>2. UNCHANGED <<listCache, fileCache, catalog, job, unsent, queue, exec, owed, faults, shellRuns>>
  BY DEF Publish, cacheVars, jobVars, boundVars
<1>3. \A s \in Sets, v \in Nat : Released(s, v) => Released(s, v)'
  BY <1>1, PublishedType DEF Released, Sound, Typed, Data
<1>4. \A s \in Sets : Released(s, mtgjson[s]) => Released(s, mtgjson[s])'
  <2> SUFFICES ASSUME NEW s \in Sets, Released(s, mtgjson[s]) PROVE Released(s, mtgjson[s])'
    OBVIOUS
  <2>1. mtgjson[s] \in Nat \ {0} /\ mtgjson'[s] \in mtgjson[s]..Len(Published[s])
        /\ ~Published[s][mtgjson[s]].preview
    BY <1>1 DEF Released, Sound, Typed, Data
  <2>2. mtgjson[s] \in 1..Len(Published[s]) /\ mtgjson'[s] \in 1..Len(Published[s])
        /\ mtgjson[s] <= mtgjson'[s] /\ mtgjson'[s] \in 1..mtgjson'[s]
    BY <2>1, PublishedType
  <2>3. ~Published[s][mtgjson'[s]].preview
    BY <2>1, <2>2 DEF PreviewsEnd
  <2> QED
    BY <2>2, <2>3 DEF Released
<1>5. \A list \in [Sets -> Nat] \cup {NoList} : Listed(list) => Listed(list)'
  BY <1>1 DEF Listed, Sound, Typed, Data
<1>6. Typed'
  BY <1>1, <1>2 DEF Sound, Typed, Data
<1>7. Cache'
  <2>1. Listed(listCache)'
    BY <1>2, <1>5 DEF Sound, Typed, Data, Cache
  <2>2. \A s \in Sets : fileCache'[s] # 0 => Released(s, fileCache[s])'
    BY <1>2, <1>3 DEF Sound, Typed, Data, Cache
  <2> QED
    BY <1>1, <2>1, <2>2, PublishedType DEF Cache, Sound, Typed, Data
<1>8. ASSUME NEW a \in Executors PROVE Stage(a, exec[a])' /\ Fetches(exec[a])'
  <2>1. exec[a] \in Task /\ Stage(a, exec[a]) /\ Fetches(exec[a]) /\ exec'[a] = exec[a]
    BY <1>2, OfExecutor
  <2>2. Listed(exec[a].list)' /\ \A s \in exec[a].todo : Released(s, mtgjson[s])'
    BY <1>2, <1>4, <1>5, <2>1 DEF Fetches, Task
  <2>3. exec[a].pc \in {"fetching", "ingest"} => Released(exec[a].set, exec[a].body)'
    <3>1. exec[a].pc \in {"fetching", "ingest"} => exec[a].set \in Sets /\ exec[a].body \in Nat
      BY <2>1 DEF Stage, Task, AtSet
    <3>2. exec[a].pc \in {"fetching", "ingest"} => Released(exec[a].set, exec[a].body)
      BY <2>1 DEF Fetches
    <3> QED
      BY <1>2, <1>3, <3>1, <3>2
  <2> QED
    BY <2>1, <2>2, <2>3 DEF Stage, Fetches
<1> QED
  BY <1>6, <1>7, <1>8 DEF Sound

LEMMA EnqueueSound ==
  ASSUME Sound, NEW j \in Jobs, NEW codes \in Requests, EnqueueFetch(j, codes)
  PROVE  Sound'
<1>1. Created(codes) \in JobRow
  BY DEF Created, NoJobRow, NoRow, JobRow, EditionState
<1>2. UNCHANGED <<mtgjson, listCache, fileCache, catalog, queue, exec, faults, shellRuns>>
  BY DEF EnqueueFetch, cacheVars, boundVars
<1>3. job' \in [Jobs -> JobRow]
  BY <1>1 DEF EnqueueFetch, Sound, Typed, Data
<1>4. owed' \in [Jobs -> [Sets -> Nat]] /\ unsent' \subseteq Jobs
  BY DEF EnqueueFetch, Sound, Typed, Data
<1>5. Typed'
  BY <1>2, <1>3, <1>4 DEF Sound, Typed, Data
<1>6. Cache'
  BY <1>2, SameCache DEF Sound
<1> QED
  BY <1>2, <1>5, <1>6 DEF Sound, Stage, Fetches, Listed, Released

LEMMA SendSound ==
  ASSUME Sound, NEW j \in Jobs, SendFetch(j)
  PROVE  Sound'
<1>1. UNCHANGED <<mtgjson, owed, listCache, fileCache, catalog, job, exec, faults, shellRuns>>
  BY DEF SendFetch, cacheVars, boundVars, remoteVars
<1>2. Typed'
  BY <1>1 DEF SendFetch, Sound, Typed, Data
<1>3. Cache'
  BY <1>1, SameCache DEF Sound
<1> QED
  BY <1>1, <1>2, <1>3 DEF Sound, Stage, Fetches, Listed, Released

LEMMA RedeliverSound ==
  ASSUME Sound, NEW j \in Jobs, Redeliver(j)
  PROVE  Sound'
<1>1. UNCHANGED <<mtgjson, owed, listCache, fileCache, catalog, job, unsent, exec, shellRuns>>
  BY DEF Redeliver, cacheVars, remoteVars
<1>2. Typed'
  BY <1>1 DEF Redeliver, Fault, Sound, Typed, Data
<1>3. Cache'
  BY <1>1, SameCache DEF Sound
<1> QED
  BY <1>1, <1>2, <1>3 DEF Sound, Stage, Fetches, Listed, Released

LEMMA StartShellSound ==
  ASSUME Sound, NEW c \in Shells, NEW refresh \in Requests \cup {{}}, StartShell(c, refresh)
  PROVE  Sound'
<1> DEFINE new == [Idle EXCEPT !.pc = "list", !.refresh = refresh, !.existing = InCatalog]
<1>1. /\ new.pc = "list" /\ new.todo = {} /\ new.list = NoList /\ new.job = NoJob
  BY DEF Idle
<1>2. new \in Task
  BY IdleIsTask DEF Idle, Task, Steps, InCatalog, FetchAssumption
<1> HIDE DEF new
<1>3. Stage(c, new) /\ Fetches(new) /\ c \in Executors
  BY <1>1 DEF Stage, Fetches, Listed, FetchAssumption, AtSet, Executors
<1>4. Become(c, new) /\ UNCHANGED <<mtgjson, listCache, fileCache, catalog, job, unsent, queue, faults>>
  BY DEF StartShell, cacheVars, jobVars, new
<1>5. Data'
  BY <1>4 DEF StartShell, Sound, Typed, Data
<1>6. Cache'
  BY <1>4, SameCache DEF Sound
<1> QED
  BY <1>2, <1>3, <1>4, <1>5, <1>6, ExecutorStep

LEMMA StartJobSound ==
  ASSUME Sound, NEW w \in Workers, NEW j \in Jobs, StartJob(w, j)
  PROVE  Sound'
<1>1. UNCHANGED <<mtgjson, owed, listCache, fileCache, catalog, unsent, faults, shellRuns>>
  BY DEF StartJob, cacheVars, boundVars, remoteVars
<1>2. Cache'
  BY <1>1, SameCache DEF Sound
<1>3. CASE Over(j)
  <2>1. UNCHANGED <<job, exec>> /\ queue' \subseteq Jobs
    BY <1>3 DEF StartJob, Sound, Typed, Data
  <2>2. Typed'
    BY <1>1, <2>1 DEF Sound, Typed, Data
  <2> QED
    BY <1>1, <1>2, <2>1, <2>2 DEF Sound, Stage, Fetches, Listed, Released
<1>4. CASE ~Over(j)
  <2> DEFINE new == [Idle EXCEPT !.pc = "list", !.job = j]
  <2>1. new.pc = "list" /\ new.todo = {} /\ new.list = NoList /\ new.job = j
    BY DEF Idle
  <2>2. new \in Task
    BY IdleIsTask DEF Idle, Task, Steps
  <2> HIDE DEF new
  <2>3. Stage(w, new) /\ Fetches(new) /\ w \in Executors
    BY <2>1 DEF Stage, Fetches, Listed, FetchAssumption, AtSet, Executors
  <2>4. Become(w, new) /\ job' = [job EXCEPT ![j].stage = "started"] /\ queue' = queue \ {j}
    BY <1>4 DEF StartJob, new
  <2>5. job' \in [Jobs -> JobRow]
    <3>1. job \in [Jobs -> JobRow]
      BY DEF Sound, Typed, Data
    <3>2. job[j] \in JobRow
      BY <3>1
    <3>3. [job[j] EXCEPT !.stage = "started"] \in JobRow
      BY <3>2 DEF JobRow
    <3> QED
      BY <2>4, <3>1, <3>3
  <2>6. Data'
    BY <1>1, <2>4, <2>5 DEF Sound, Typed, Data
  <2> QED
    BY <1>1, <1>2, <2>2, <2>3, <2>4, <2>6, ExecutorStep
<1> QED
  BY <1>3, <1>4

LEMMA DownloadListSound ==
  ASSUME Sound, NEW a \in Executors, DownloadList(a)
  PROVE  Sound'
<1> DEFINE new == [exec[a] EXCEPT !.pc = "listing", !.list = mtgjson]
<1>1. exec[a] \in Task /\ Stage(a, exec[a]) /\ Fetches(exec[a]) /\ Data /\ Cache
  BY OfExecutor
<1>2. /\ new.pc = "listing" /\ new.todo = exec[a].todo /\ new.list = mtgjson /\ new.job = exec[a].job
      /\ new \in Task
  BY <1>1 DEF Task, Steps, Data
<1> HIDE DEF new
<1>3. exec[a].pc = "list"
  BY DEF DownloadList, At
<1>4. Stage(a, new) /\ Fetches(new)
  BY <1>1, <1>2, <1>3 DEF Stage, Fetches, Listed, AtSet, Data
<1>5. Become(a, new) /\ UNCHANGED <<mtgjson, owed, fileCache, catalog, job, unsent, queue, faults, shellRuns>>
      /\ listCache' = NoList
  BY DEF DownloadList, remoteVars, jobVars, boundVars, new
<1>6. Data' /\ Cache'
  BY <1>1, <1>5 DEF Data, Cache, Listed, Released
<1> QED
  BY <1>2, <1>4, <1>5, <1>6, ExecutorStep

LEMMA StoreListSound ==
  ASSUME Sound, NEW a \in Executors, StoreList(a)
  PROVE  Sound'
<1> DEFINE new == [exec[a] EXCEPT !.pc = "listed", !.list = NoList]
<1>1. exec[a] \in Task /\ Stage(a, exec[a]) /\ Fetches(exec[a]) /\ Data /\ Cache
  BY OfExecutor
<1>2. /\ new.pc = "listed" /\ new.todo = exec[a].todo /\ new.list = NoList /\ new.job = exec[a].job
      /\ new \in Task
  BY <1>1 DEF Task, Steps, Data
<1> HIDE DEF new
<1>3. exec[a].pc = "listing"
  BY DEF StoreList, At
<1>4. Stage(a, new) /\ Fetches(new)
  BY <1>1, <1>2, <1>3 DEF Stage, Fetches, Listed, AtSet, Data
<1>5. Become(a, new) /\ UNCHANGED <<mtgjson, owed, fileCache, catalog, job, unsent, queue, faults, shellRuns>>
      /\ listCache' = exec[a].list
  BY DEF StoreList, remoteVars, jobVars, boundVars, new
<1>6. Data' /\ Cache'
  BY <1>1, <1>5 DEF Data, Cache, Listed, Released, Task, Fetches
<1> QED
  BY <1>2, <1>4, <1>5, <1>6, ExecutorStep

LEMMA PlanSound ==
  ASSUME Sound, PreviewsEnd, NEW a \in Executors, Plan(a)
  PROVE  Sound'
<1>1. exec[a] \in Task /\ Stage(a, exec[a]) /\ Fetches(exec[a]) /\ Data /\ Cache /\ exec[a].pc = "listed"
  BY OfExecutor DEF Plan, At
<1>2. UNCHANGED <<mtgjson, owed, listCache, fileCache, catalog, job, unsent, queue, faults, shellRuns>>
  BY DEF Plan, remoteVars, cacheVars, jobVars, boundVars
<1>3. Data' /\ Cache'
  BY <1>1, <1>2, DataStep, SameCache DEF Data
<1>4. CASE listCache = NoList
  BY <1>1, <1>2, <1>3, <1>4, StopStep DEF Plan
<1>5. CASE listCache # NoList
  <2>1. PICK existing : Become(a, [exec[a] EXCEPT !.pc = "work", !.existing = {},
                                                  !.todo = Pending(a, listCache, existing)])
    BY <1>5 DEF Plan
  <2> DEFINE todo == Pending(a, listCache, existing)
             new == [exec[a] EXCEPT !.pc = "work", !.existing = {}, !.todo = todo]
  <2>2. todo \subseteq Editions(listCache)
    BY DEF Pending
  <2>3. ASSUME NEW s \in todo PROVE s \in Sets /\ Released(s, mtgjson[s])
    <3>1. s \in Sets /\ listCache[s] > 0 /\ ~Published[s][listCache[s]].preview
      BY <2>2 DEF Editions
    <3>2. listCache[s] \in Nat /\ mtgjson[s] \in Nat /\ listCache[s] <= mtgjson[s]
          /\ mtgjson[s] <= Len(Published[s])
      BY <1>1, <1>5, <3>1 DEF Data, Cache, Listed
    <3>3. listCache[s] \in 1..Len(Published[s]) /\ mtgjson[s] \in 1..Len(Published[s])
      BY <3>1, <3>2, PublishedType
    <3> QED
      BY <3>1, <3>2, <3>3 DEF PreviewsEnd, Released
  <2> HIDE DEF todo
  <2>4. new.pc = "work" /\ new.todo = todo /\ new.list = exec[a].list /\ new.job = exec[a].job /\ new \in Task
    BY <1>1, <2>3 DEF Task, Steps
  <2> HIDE DEF new
  <2>5. Stage(a, new) /\ Fetches(new)
    BY <1>1, <2>3, <2>4 DEF Stage, Fetches, AtSet
  <2> QED
    BY <1>2, <1>3, <2>1, <2>4, <2>5, ExecutorStep DEF new, todo
<1> QED
  BY <1>4, <1>5

LEMMA InProgressType ==
  ASSUME job \in [Jobs -> JobRow], NEW j \in Jobs, NEW s \in Sets
  PROVE  InProgress(j, s) \in [Jobs -> JobRow]
<1>1. [NoRow EXCEPT !.state = "inprogress"] \in EditionState
  BY DEF NoRow, EditionState
<1>2. job[j] \in JobRow /\ job[j].rows \in [Sets -> EditionState]
  BY DEF JobRow
<1>3. [job[j].rows EXCEPT ![s] = [NoRow EXCEPT !.state = "inprogress"]] \in [Sets -> EditionState]
  BY <1>1, <1>2
<1> DEFINE rows == [job[j].rows EXCEPT ![s] = [NoRow EXCEPT !.state = "inprogress"]]
<1> HIDE DEF rows
<1>4. [job[j] EXCEPT !.rows = rows] \in JobRow
  BY <1>2, <1>3 DEF JobRow, rows
<1>5. InProgress(j, s) = [job EXCEPT ![j] = [job[j] EXCEPT !.rows = rows]]
  BY DEF InProgress, rows
<1> QED
  BY <1>4, <1>5

LEMMA ReleasedIsPublished ==
  ASSUME Sound, NEW s \in Sets, NEW v, Released(s, v)
  PROVE  v \in 1..Len(Published[s]) /\ v \in Nat \ {0}
<1>1. mtgjson[s] \in Nat /\ mtgjson[s] <= Len(Published[s]) /\ Len(Published[s]) \in Nat
  BY PublishedType DEF Sound, Typed, Data, Cache
<1> QED
  BY <1>1 DEF Released

LEMMA TakeSetSound ==
  ASSUME Sound, NEW a \in Executors, TakeSet(a)
  PROVE  Sound'
<1> DEFINE s == First(exec[a].todo)
<1>1. exec[a] \in Task /\ Stage(a, exec[a]) /\ Fetches(exec[a]) /\ Data /\ Cache /\ exec[a].pc = "work"
      /\ exec[a].todo # {}
  BY OfExecutor DEF TakeSet, At
<1>2. s \in exec[a].todo /\ s \in Sets /\ Released(s, mtgjson[s])
  BY <1>1, FirstIsThere DEF Task, Fetches
<1>3. UNCHANGED <<mtgjson, owed, listCache, catalog, unsent, queue, faults, shellRuns>>
  BY DEF TakeSet, remoteVars, boundVars
<1>4. job' \in [Jobs -> JobRow] /\ fileCache' \in [Sets -> Nat]
      /\ (fileCache' = fileCache \/ fileCache' = [fileCache EXCEPT ![s] = 0])
  <2>1. a \in Workers => exec[a].job \in Jobs
    BY <1>1 DEF Stage
  <2>5. job \in [Jobs -> JobRow] /\ fileCache \in [Sets -> Nat]
    BY <1>1 DEF Data
  <2>2. a \in Workers => InProgress(exec[a].job, s) \in [Jobs -> JobRow]
    BY <1>2, <2>1, <2>5, InProgressType
  <2>3. job' = job \/ (a \in Workers /\ job' = InProgress(exec[a].job, s))
    BY DEF TakeSet
  <2>4. fileCache' = fileCache \/ fileCache' = [fileCache EXCEPT ![s] = 0]
    BY DEF TakeSet
  <2> QED
    BY <2>2, <2>3, <2>4, <2>5
<1>5. Data'
  BY <1>1, <1>3, <1>4 DEF Data
<1>6. Cache'
  BY <1>1, <1>3, <1>4 DEF Data, Cache, Listed, Released
<1>7. CASE Become(a, [exec[a] EXCEPT !.todo = @ \ {s}])
  <2> DEFINE new == [exec[a] EXCEPT !.todo = @ \ {s}]
  <2>1. /\ new.pc = "work" /\ new.todo = exec[a].todo \ {s} /\ new.list = exec[a].list
        /\ new.job = exec[a].job /\ new \in Task
    BY <1>1 DEF Task
  <2> HIDE DEF new
  <2>2. Stage(a, new) /\ Fetches(new)
    BY <1>1, <2>1 DEF Stage, Fetches, AtSet
  <2>3. Become(a, new)
    BY <1>7 DEF new
  <2> QED
    BY <1>3, <1>5, <1>6, <2>1, <2>2, <2>3, ExecutorStep
<1>8. CASE Become(a, [exec[a] EXCEPT !.pc = "fetched", !.set = s])
  <2> DEFINE new == [exec[a] EXCEPT !.pc = "fetched", !.set = s]
  <2>1. /\ new.pc = "fetched" /\ new.todo = exec[a].todo /\ new.list = exec[a].list
        /\ new.job = exec[a].job /\ new.set = s /\ new \in Task
    BY <1>1, <1>2 DEF Task, Steps
  <2> HIDE DEF new
  <2>2. Stage(a, new) /\ Fetches(new)
    BY <1>1, <1>2, <2>1 DEF Stage, Fetches, AtSet
  <2>3. Become(a, new)
    BY <1>8 DEF new
  <2> QED
    BY <1>3, <1>5, <1>6, <2>1, <2>2, <2>3, ExecutorStep
<1>9. CASE Become(a, [exec[a] EXCEPT !.pc = "fetching", !.set = s, !.body = mtgjson[s]])
  <2> DEFINE new == [exec[a] EXCEPT !.pc = "fetching", !.set = s, !.body = mtgjson[s]]
  <2>1. /\ new.pc = "fetching" /\ new.todo = exec[a].todo /\ new.list = exec[a].list
        /\ new.job = exec[a].job /\ new.set = s /\ new.body = mtgjson[s] /\ new \in Task
    BY <1>1, <1>2 DEF Task, Steps, Data
  <2> HIDE DEF new
  <2>2. Stage(a, new) /\ Fetches(new)
    BY <1>1, <1>2, <2>1 DEF Stage, Fetches, AtSet
  <2>3. Become(a, new)
    BY <1>9 DEF new
  <2> QED
    BY <1>3, <1>5, <1>6, <2>1, <2>2, <2>3, ExecutorStep
<1> QED
  BY <1>7, <1>8, <1>9 DEF TakeSet

LEMMA StoreFileSound ==
  ASSUME Sound, NEW a \in Executors, StoreFile(a)
  PROVE  Sound'
<1> DEFINE new == [exec[a] EXCEPT !.pc = "fetched", !.body = 0]
<1>1. exec[a] \in Task /\ Stage(a, exec[a]) /\ Fetches(exec[a]) /\ Data /\ Cache /\ exec[a].pc = "fetching"
  BY OfExecutor DEF StoreFile, At
<1>2. /\ new.pc = "fetched" /\ new.todo = exec[a].todo /\ new.list = exec[a].list
      /\ new.job = exec[a].job /\ new.set = exec[a].set /\ new \in Task
  BY <1>1 DEF Task, Steps
<1> HIDE DEF new
<1>3. Stage(a, new) /\ Fetches(new)
  BY <1>1, <1>2 DEF Stage, Fetches, AtSet
<1>4. Become(a, new) /\ UNCHANGED <<mtgjson, owed, listCache, catalog, job, unsent, queue, faults, shellRuns>>
      /\ fileCache' = [fileCache EXCEPT ![exec[a].set] = exec[a].body]
  BY DEF StoreFile, remoteVars, jobVars, boundVars, new
<1>5. exec[a].set \in Sets /\ exec[a].body \in Nat /\ Released(exec[a].set, exec[a].body)
  BY <1>1 DEF Stage, Fetches, Task, AtSet
<1>6. Data'
  BY <1>1, <1>4, <1>5 DEF Data
<1>7. Cache'
  BY <1>1, <1>4, <1>5 DEF Data, Cache, Listed, Released
<1> QED
  BY <1>2, <1>3, <1>4, <1>6, <1>7, ExecutorStep

LEMMA BeginIngestSound ==
  ASSUME Sound, NEW a \in Executors, BeginIngest(a)
  PROVE  Sound'
<1> DEFINE s == exec[a].set
           draft == [catalog[s] EXCEPT !.edition = TRUE]
           new == [exec[a] EXCEPT !.pc = "ingest", !.body = fileCache[s], !.chunk = 1, !.draft = draft]
<1>1. exec[a] \in Task /\ Stage(a, exec[a]) /\ Fetches(exec[a]) /\ Data /\ Cache /\ exec[a].pc = "fetched"
  BY OfExecutor DEF BeginIngest, At
<1>2. UNCHANGED <<mtgjson, owed, listCache, fileCache, catalog, job, unsent, queue, faults, shellRuns>>
  BY DEF BeginIngest, remoteVars, cacheVars, jobVars, boundVars
<1>3. Data' /\ Cache'
  BY <1>1, <1>2, DataStep, SameCache DEF Data
<1>4. s \in Sets /\ s \in exec[a].todo
  BY <1>1 DEF Stage, Task, AtSet
<1>5. CASE fileCache[s] = 0
  BY <1>1, <1>2, <1>3, <1>5, StopStep DEF BeginIngest
<1>6. CASE fileCache[s] # 0
  <2>1. Released(s, fileCache[s]) /\ fileCache[s] \in Nat
    BY <1>1, <1>4, <1>6 DEF Cache, Data
  <2>6. catalog[s] \in SetRows
    BY <1>1, <1>4 DEF Data
  <2>2. draft \in SetRows
    BY <2>6 DEF SetRows
  <2> HIDE DEF draft
  <2>3. /\ new.pc = "ingest" /\ new.todo = exec[a].todo /\ new.list = exec[a].list
        /\ new.job = exec[a].job /\ new.set = s /\ new.body = fileCache[s] /\ new.chunk = 1 /\ new \in Task
    BY <1>1, <2>1, <2>2 DEF Task, Steps
  <2> HIDE DEF new
  <2>4. Stage(a, new) /\ Fetches(new)
    BY <1>1, <1>4, <2>1, <2>3 DEF Stage, Fetches, AtSet
  <2>5. Become(a, new)
    BY <1>6 DEF BeginIngest, new, draft
  <2> QED
    BY <1>2, <1>3, <2>3, <2>4, <2>5, ExecutorStep
<1> QED
  BY <1>5, <1>6

LEMMA InsertChunkSound ==
  ASSUME Sound, FilesAreCards, NEW a \in Executors, InsertChunk(a)
  PROVE  Sound'
<1> DEFINE chunk == Chunk(exec[a].set, exec[a].body, exec[a].chunk)
           rows == Upserted(exec[a].draft, chunk, exec[a].body)
           draft == WithWords(rows, chunk)
           new == [exec[a] EXCEPT !.chunk = @ + 1, !.draft = draft]
<1>1. exec[a] \in Task /\ Stage(a, exec[a]) /\ Fetches(exec[a]) /\ Data /\ Cache /\ exec[a].pc = "ingest"
  BY OfExecutor DEF InsertChunk, At
<1>2. UNCHANGED <<mtgjson, owed, listCache, fileCache, catalog, job, unsent, queue, faults, shellRuns>>
  BY DEF InsertChunk, remoteVars, cacheVars, jobVars, boundVars
<1>3. Data' /\ Cache'
  BY <1>1, <1>2, DataStep, SameCache DEF Data
<1>4. exec[a].set \in Sets /\ exec[a].set \in exec[a].todo /\ Released(exec[a].set, exec[a].body)
      /\ exec[a].chunk \in Nat \ {0} /\ exec[a].body \in Nat /\ exec[a].draft \in SetRows
  BY <1>1 DEF Stage, Fetches, Task, AtSet
<1>5. exec[a].body \in 1..Len(Published[exec[a].set])
  BY <1>1, <1>4, ReleasedIsPublished
<1>6. chunk \in Seq(RawCard)
  BY <1>4, <1>5, ChunkType
<1> HIDE DEF chunk
<1>7. rows \in SetRows
  BY <1>4, <1>6, UpsertedType
<1> HIDE DEF rows
<1>8. draft \in SetRows
  BY <1>6, <1>7, WithWordsType
<1> HIDE DEF draft
<1>9. /\ new.pc = "ingest" /\ new.todo = exec[a].todo /\ new.list = exec[a].list
      /\ new.job = exec[a].job /\ new.set = exec[a].set /\ new.body = exec[a].body
      /\ new.chunk = exec[a].chunk + 1 /\ new \in Task
  <2>1. exec[a].chunk + 1 \in Nat
    BY <1>4
  <2> QED
    BY <1>1, <1>8, <2>1 DEF Task
<1> HIDE DEF new
<1>10. Stage(a, new) /\ Fetches(new)
  BY <1>1, <1>4, <1>9 DEF Stage, Fetches, AtSet
<1>11. Become(a, new) \/ Become(a, Failed(a))
  BY DEF InsertChunk, new, draft, rows, chunk
<1> QED
  BY <1>1, <1>2, <1>3, <1>9, <1>10, <1>11, ExecutorStep, StopStep

LEMMA EndIngestSound ==
  ASSUME Sound, FilesAreCards, NEW a \in Executors, EndIngest(a)
  PROVE  Sound'
<1> DEFINE e == exec[a]
           file == Content[e.set][e.body]
<1>1. exec[a] \in Task /\ Stage(a, exec[a]) /\ Fetches(exec[a]) /\ Data /\ Cache /\ exec[a].pc = "ingest"
  BY OfExecutor DEF EndIngest, At
<1>2. UNCHANGED <<mtgjson, owed, listCache, fileCache, job, unsent, queue, faults, shellRuns>>
  BY DEF EndIngest, remoteVars, cacheVars, jobVars, boundVars
<1>3. exec[a].set \in Sets /\ exec[a].set \in exec[a].todo /\ Released(exec[a].set, exec[a].body)
      /\ exec[a].body \in Nat /\ exec[a].draft \in SetRows
  BY <1>1 DEF Stage, Fetches, Task, AtSet
<1>4. exec[a].body \in 1..Len(Published[exec[a].set])
  BY <1>1, <1>3, ReleasedIsPublished
<1>5. Len(file.cards) \in Nat
  BY <1>3, <1>4, ContentType
<1> HIDE DEF file
<1>6. Cache'
  BY <1>1, <1>2, SameCache
<1>7. CASE UNCHANGED catalog /\ Become(a, Failed(a))
  <2>1. Data'
    BY <1>1, <1>2, <1>7, DataStep DEF Data
  <2> QED
    BY <1>1, <1>2, <1>6, <1>7, <2>1, StopStep
<1>8. CASE /\ catalog' = [catalog EXCEPT ![e.set] = e.draft]
           /\ Become(a, IF a \in Workers
                          THEN [e EXCEPT !.pc = "ingested", !.draft = NoRows, !.body = 0,
                                         !.chunk = Len(file.cards)]
                          ELSE [e EXCEPT !.pc = "work", !.draft = NoRows, !.body = 0, !.chunk = 0,
                                         !.set = 0, !.todo = @ \ {e.set}])
  <2>1. Data'
    BY <1>1, <1>2, <1>3, <1>8 DEF Data
  <2>2. CASE a \in Workers
    <3> DEFINE new == [e EXCEPT !.pc = "ingested", !.draft = NoRows, !.body = 0, !.chunk = Len(file.cards)]
    <3>1. /\ new.pc = "ingested" /\ new.todo = exec[a].todo /\ new.list = exec[a].list
          /\ new.job = exec[a].job /\ new.set = exec[a].set /\ new \in Task
      BY <1>1, <1>5, EmptyRows DEF Task, Steps
    <3> HIDE DEF new
    <3>2. Stage(a, new) /\ Fetches(new)
      BY <1>1, <1>3, <2>2, <3>1 DEF Stage, Fetches, AtSet
    <3>3. Become(a, new)
      BY <1>8, <2>2 DEF new
    <3> QED
      BY <1>2, <1>6, <2>1, <3>1, <3>2, <3>3, ExecutorStep
  <2>3. CASE a \notin Workers
    <3> DEFINE new == [e EXCEPT !.pc = "work", !.draft = NoRows, !.body = 0, !.chunk = 0,
                                !.set = 0, !.todo = @ \ {e.set}]
    <3>1. /\ new.pc = "work" /\ new.todo = exec[a].todo \ {exec[a].set} /\ new.list = exec[a].list
          /\ new.job = exec[a].job /\ new \in Task
      BY <1>1, EmptyRows DEF Task, Steps
    <3> HIDE DEF new
    <3>2. Stage(a, new) /\ Fetches(new)
      BY <1>1, <2>3, <3>1 DEF Stage, Fetches, AtSet
    <3>3. Become(a, new)
      BY <1>8, <2>3 DEF new
    <3> QED
      BY <1>2, <1>6, <2>1, <3>1, <3>2, <3>3, ExecutorStep
  <2> QED
    BY <2>2, <2>3
<1> QED
  BY <1>7, <1>8 DEF EndIngest, file

LEMMA MarkDoneSound ==
  ASSUME Sound, NEW w \in Executors, MarkDone(w)
  PROVE  Sound'
<1> DEFINE e == exec[w]
           new == [e EXCEPT !.pc = "work", !.todo = @ \ {e.set}, !.set = 0, !.chunk = 0]
<1>1. exec[w] \in Task /\ Stage(w, exec[w]) /\ Fetches(exec[w]) /\ Data /\ Cache /\ exec[w].pc = "ingested"
  BY OfExecutor DEF MarkDone, At
<1>2. UNCHANGED <<mtgjson, owed, listCache, fileCache, catalog, unsent, queue, faults, shellRuns>>
  BY DEF MarkDone, remoteVars, cacheVars, boundVars
<1>3. e.set \in Sets /\ e.job \in Jobs /\ e.chunk \in Nat /\ w \in Workers
  BY <1>1 DEF Stage, Task, AtSet
<1>4. job' = [job EXCEPT ![e.job].rows = [@ EXCEPT ![e.set] = [state |-> "done", count |-> e.chunk]]]
      /\ Become(w, new)
  BY DEF MarkDone
<1>5. job' \in [Jobs -> JobRow]
  <2>1. job \in [Jobs -> JobRow] /\ job[e.job] \in JobRow
    BY <1>1, <1>3 DEF Data
  <2>2. [state |-> "done", count |-> e.chunk] \in EditionState
    BY <1>3 DEF EditionState
  <2>3. [job[e.job].rows EXCEPT ![e.set] = [state |-> "done", count |-> e.chunk]] \in [Sets -> EditionState]
    BY <2>1, <2>2 DEF JobRow
  <2>4. [job[e.job] EXCEPT !.rows = [@ EXCEPT ![e.set] = [state |-> "done", count |-> e.chunk]]] \in JobRow
    BY <2>1, <2>3 DEF JobRow
  <2> QED
    BY <1>4, <2>1, <2>4
<1>6. Data' /\ Cache'
  BY <1>1, <1>2, <1>5, SameCache DEF Data
<1>7. /\ new.pc = "work" /\ new.todo = exec[w].todo \ {exec[w].set} /\ new.list = exec[w].list
      /\ new.job = exec[w].job /\ new \in Task
  BY <1>1 DEF Task, Steps
<1> HIDE DEF new
<1>8. Stage(w, new) /\ Fetches(new)
  BY <1>1, <1>7 DEF Stage, Fetches, AtSet
<1> QED
  BY <1>2, <1>4, <1>6, <1>7, <1>8, ExecutorStep

LEMMA FinishSound ==
  ASSUME Sound, NEW w \in Executors, Finish(w) \/ FinishCli(w)
  PROVE  Sound'
<1>1. exec[w] \in Task /\ Stage(w, exec[w]) /\ Data /\ Cache /\ exec[w].pc # "idle"
  BY OfExecutor DEF Finish, FinishCli, At
<1>2. UNCHANGED <<mtgjson, owed, listCache, fileCache, catalog, unsent, queue, faults, shellRuns>>
      /\ Become(w, Idle)
  BY DEF Finish, FinishCli, remoteVars, cacheVars, boundVars, jobVars
<1>3. job' \in [Jobs -> JobRow]
  <2>1. CASE Finish(w)
    <3>1. exec[w].job \in Jobs /\ exec[w].failed \in BOOLEAN
      BY <1>1, <2>1 DEF Finish, Stage, Task
    <3>2. Settled(exec[w].job) \in [Sets -> EditionState] /\ Orphans(exec[w].job) \subseteq Sets
      <4>1. job[exec[w].job].rows \in [Sets -> EditionState]
        BY <1>1, <3>1 DEF Data, JobRow
      <4>2. [state |-> "done", count |-> 0] \in EditionState
        BY DEF EditionState
      <4> QED
        BY <4>1, <4>2 DEF Settled, Orphans
    <3>3. Ended(exec[w].job, exec[w].failed) \in JobRow
      BY <3>1, <3>2 DEF Ended, JobRow
    <3> QED
      BY <1>1, <2>1, <3>3 DEF Finish, Data
  <2>2. CASE FinishCli(w)
    BY <1>1, <2>2 DEF FinishCli, jobVars, Data
  <2> QED
    BY <2>1, <2>2
<1>4. Data' /\ Cache'
  BY <1>1, <1>2, <1>3, SameCache DEF Data
<1> QED
  BY <1>1, <1>2, <1>4, StopStep

LEMMA FaultSound ==
  ASSUME Sound, NEW a \in Executors, Fails(a) \/ Crash(a)
  PROVE  Sound'
<1>1. exec[a] \in Task /\ Stage(a, exec[a]) /\ Data /\ Cache /\ exec[a].pc # "idle"
  BY OfExecutor DEF Fails, Crash, At
<1>2. UNCHANGED <<mtgjson, owed, listCache, fileCache, catalog, job, unsent, shellRuns>>
      /\ (Become(a, Idle) \/ Become(a, Failed(a))) /\ faults' = faults + 1
  BY DEF Fails, Crash, Fault, remoteVars, cacheVars, jobVars
<1>3. queue' \subseteq Jobs
  BY <1>1 DEF Fails, Crash, jobVars, Data, Unacked, Stage, At
<1>4. Data' /\ Cache'
  BY <1>1, <1>2, <1>3, SameCache DEF Data
<1> QED
  BY <1>1, <1>2, <1>4, StopStep

LEMMA SoundInvariant ==
  ASSUME FilesAreCards, PreviewsEnd
  PROVE  Sound /\ [Next]_vars => Sound'
<1> SUFFICES ASSUME Sound, [Next]_vars PROVE Sound'
  OBVIOUS
<1>1. CASE UNCHANGED vars
  BY <1>1 DEF vars, Sound, Typed, Data, Cache, Stage, Fetches, Listed, Released
<1>2. ASSUME NEW a \in Executors, Step(a) PROVE Sound'
  BY <1>2, DownloadListSound, StoreListSound, PlanSound, TakeSetSound, StoreFileSound, BeginIngestSound,
     InsertChunkSound, EndIngestSound, MarkDoneSound, FinishSound DEF Step
<1> QED
  BY <1>1, <1>2, PublishSound, EnqueueSound, SendSound, StartShellSound, StartJobSound, FaultSound,
     RedeliverSound DEF Next

(* Jobs, caches, catalog rows and executors keep their types.                *)
THEOREM FetchTypeCorrect ==
  ASSUME FilesAreCards, PreviewsEnd
  PROVE  Spec => []TypeOK
<1>1. Sound => TypeOK
  BY DEF Sound, Typed, Data, Task, TypeOK
<1> QED
  BY <1>1, InitSound, SoundInvariant, PTL DEF Spec

--------------------------------------------------------------------------------
(* The invariant of jobs: a job is run by one worker at most, is started     *)
(* while it is, and the set its worker is at is in progress.                 *)

Asked ==
  \A j \in Jobs : job[j].stage = "none" => job[j] = NoJobRow /\ j \notin unsent /\ j \notin queue

Running(e) ==
  e.pc # "idle" => /\ job[e.job].stage = "started"
                   /\ e.pc \in AtSet => job[e.job].rows[e.set].state = "inprogress"

Apart ==
  \A v, w \in Workers : v # w /\ exec[v].pc # "idle" /\ exec[w].pc # "idle" => exec[v].job # exec[w].job

Runs == Asked /\ Apart /\ \A w \in Workers : Running(exec[w])

LEMMA RunsOf ==
  ASSUME Sound, Runs, NEW w \in Workers
  PROVE  /\ w \in Executors /\ exec[w] \in Task /\ Stage(w, exec[w]) /\ Running(exec[w])
         /\ exec[w].pc # "idle" => exec[w].job \in Jobs
         /\ job \in [Jobs -> JobRow]
  BY OfExecutor DEF Runs, Stage, Executors, Data

(* What a step may do to a job.                                              *)
Keeps(j) ==
  \/ job'[j] = job[j]
  \/ /\ job[j].stage # "ended"
     /\ \A s \in Sets : job[j].rows[s].state = "done" => job'[j].rows[s] = job[j].rows[s]

LEMMA KeepsFinal ==
  ASSUME NEW j \in Jobs, Keeps(j)
  PROVE  StaysFinal(j)
<1>1. CASE job'[j] = job[j]
  BY <1>1 DEF StaysFinal, Status
<1>2. CASE /\ job[j].stage # "ended"
           /\ \A s \in Sets : job[j].rows[s].state = "done" => job'[j].rows[s] = job[j].rows[s]
  <2>1. ~Status(j).ended
    BY <1>2 DEF Status
  <2>2. ASSUME NEW s \in DOMAIN Status(j).editions, Status(j).editions[s].state = "done"
        PROVE  Status(j)'.editions[s] = Status(j).editions[s]
    <3>1. s \in Sets /\ Status(j).editions[s] = job[j].rows[s]
      BY DEF Status
    <3>2. job'[j].rows[s] = job[j].rows[s] /\ job'[j].rows[s].state # "none"
      BY <1>2, <2>2, <3>1
    <3>3. Status(j)'.editions[s] = job'[j].rows[s]
      BY <3>1, <3>2 DEF Status
    <3> QED
      BY <3>1, <3>2, <3>3
  <2> QED
    BY <2>1, <2>2 DEF StaysFinal
<1> QED
  BY <1>1, <1>2 DEF Keeps

(* A step of one executor that changes no job.                               *)
LEMMA QuietRun ==
  ASSUME Sound, Runs, NEW a \in Executors, NEW task, Become(a, task), UNCHANGED <<job, unsent>>,
         \A j \in queue' : j \in queue \/ job[j].stage # "none",
         \/ task.pc = "idle"
         \/ /\ exec[a].pc # "idle" /\ task.job = exec[a].job
            /\ task.pc \in AtSet => exec[a].pc \in AtSet /\ task.set = exec[a].set
         \/ a \notin Workers
  PROVE  Runs'
<1>1. exec'[a] = task /\ \A b \in Executors \ {a} : exec'[b] = exec[b]
  BY Becomes DEF Sound
<1>2. Asked'
  BY DEF Runs, Asked
<1>3. ASSUME NEW w \in Workers PROVE Running(exec[w])'
  <2>1. w \in Executors /\ Running(exec[w])
    BY RunsOf
  <2> QED
    BY <1>1, <2>1 DEF Running
<1>4. Apart'
  BY <1>1 DEF Runs, Apart, Executors
<1> QED
  BY <1>2, <1>3, <1>4 DEF Runs

DoneKept(old, new) == \A s \in Sets : old.rows[s].state = "done" => new.rows[s] = old.rows[s]

(* A step of one worker that changes its own job.                            *)
LEMMA OwnRun ==
  ASSUME Sound, Runs, NEW w \in Workers, NEW task, Become(w, task), UNCHANGED <<unsent, queue>>,
         exec[w].pc # "idle", NEW row, job' = [job EXCEPT ![exec[w].job] = row],
         row.stage \in {"started", "ended"},
         DoneKept(job[exec[w].job], row),
         \/ task.pc = "idle"
         \/ /\ task.job = exec[w].job /\ row.stage = "started"
            /\ task.pc \in AtSet => row.rows[task.set].state = "inprogress"
  PROVE  Runs' /\ \A j \in Jobs : Keeps(j)
<1>1. w \in Executors /\ exec[w].job \in Jobs /\ job[exec[w].job].stage = "started" /\ job \in [Jobs -> JobRow]
  BY RunsOf DEF Running
<1>2. exec'[w] = task /\ \A b \in Executors \ {w} : exec'[b] = exec[b]
  BY <1>1, Becomes DEF Sound
<1>3. job'[exec[w].job] = row /\ \A j \in Jobs \ {exec[w].job} : job'[j] = job[j]
  BY <1>1
<1>4. Asked'
  BY <1>1, <1>3 DEF Runs, Asked
<1>5. ASSUME NEW v \in Workers PROVE Running(exec[v])'
  <2>1. CASE v = w
    BY <1>1, <1>2, <1>3, <2>1 DEF Running
  <2>2. CASE v # w
    <3>1. v \in Executors /\ Running(exec[v]) /\ exec'[v] = exec[v]
      BY <1>2, <2>2, RunsOf
    <3>2. exec[v].pc # "idle" => exec[v].job \in Jobs \ {exec[w].job}
      BY <2>2, RunsOf DEF Runs, Apart
    <3> QED
      BY <1>3, <3>1, <3>2 DEF Running
  <2> QED
    BY <2>1, <2>2
<1>6. Apart'
  BY <1>1, <1>2 DEF Runs, Apart, Executors
<1>7. \A j \in Jobs : Keeps(j)
  BY <1>1, <1>3 DEF Keeps, DoneKept
<1> QED
  BY <1>4, <1>5, <1>6, <1>7 DEF Runs

LEMMA FailedRun ==
  ASSUME NEW a \in Executors, exec[a].pc # "idle"
  PROVE  \/ Failed(a).pc = "idle"
         \/ /\ exec[a].pc # "idle" /\ Failed(a).job = exec[a].job /\ Failed(a).pc = "finish"
  BY DEF Failed, Idle

LEMMA FailedQuiet ==
  ASSUME Sound, Runs, NEW a \in Executors, exec[a].pc # "idle", Become(a, Failed(a)),
         UNCHANGED <<job, unsent, queue>>
  PROVE  Runs'
<1>1. "finish" \notin AtSet
  BY DEF AtSet
<1> QED
  BY <1>1, FailedRun, QuietRun

LEMMA EnqueueRuns ==
  ASSUME Sound, Runs, NEW j \in Jobs, NEW codes \in Requests, EnqueueFetch(j, codes)
  PROVE  Runs' /\ \A i \in Jobs : Keeps(i)
<1>1. job[j].stage = "none" /\ job[j] = NoJobRow /\ job \in [Jobs -> JobRow]
  BY DEF EnqueueFetch, Runs, Asked, Sound, Typed, Data
<1>2. job' = [job EXCEPT ![j] = Created(codes)] /\ unsent' = unsent \cup {j} /\ UNCHANGED <<queue, exec>>
  BY DEF EnqueueFetch
<1>3. Created(codes).stage = "created"
  BY DEF Created, NoJobRow
<1>4. job'[j].stage = "created" /\ \A i \in Jobs \ {j} : job'[i] = job[i]
  BY <1>1, <1>2, <1>3
<1>5. Asked'
  BY <1>1, <1>2, <1>4 DEF Runs, Asked
<1>6. ASSUME NEW w \in Workers PROVE Running(exec[w])'
  <2>1. Running(exec[w]) /\ (exec[w].pc # "idle" => exec[w].job \in Jobs)
    BY RunsOf
  <2> QED
    BY <1>1, <1>2, <1>4, <2>1 DEF Running
<1>7. Apart'
  BY <1>2 DEF Runs, Apart
<1>8. \A s \in Sets : job[j].rows[s].state # "done"
  BY <1>1 DEF NoJobRow, NoRow
<1>9. Keeps(j)
  BY <1>1, <1>8 DEF Keeps
<1> QED
  BY <1>4, <1>5, <1>6, <1>7, <1>9 DEF Runs, Keeps

LEMMA SendRuns ==
  ASSUME Sound, Runs, NEW j \in Jobs, SendFetch(j) \/ Redeliver(j)
  PROVE  Runs' /\ job' = job
<1>1. UNCHANGED <<job, exec>> /\ queue' = queue \cup {j} /\ unsent' \subseteq unsent
  BY DEF SendFetch, Redeliver
<1>2. job[j].stage # "none"
  <2>1. CASE SendFetch(j)
    BY <2>1 DEF SendFetch, Runs, Asked
  <2>2. CASE Redeliver(j)
    <3>1. PICK w \in Workers : exec[w].job = j
      BY <2>2 DEF Redeliver
    <3>2. exec[w].pc # "idle"
      BY <3>1, RunsOf DEF Stage
    <3> QED
      BY <3>1, <3>2, RunsOf DEF Running
  <2> QED
    BY <2>1, <2>2
<1> QED
  BY <1>1, <1>2 DEF Runs, Asked, Running, Apart

LEMMA StartJobRuns ==
  ASSUME Sound, Runs, NEW w \in Workers, NEW j \in Jobs, StartJob(w, j)
  PROVE  Runs' /\ \A i \in Jobs : Keeps(i)
<1>1. unsent' = unsent /\ queue' = queue \ {j} /\ job \in [Jobs -> JobRow] /\ w \in Executors
  BY RunsOf DEF StartJob
<1>2. CASE Over(j)
  <2>1. UNCHANGED <<job, exec>>
    BY <1>2 DEF StartJob
  <2> QED
    BY <1>1, <2>1 DEF Runs, Asked, Running, Apart, Keeps
<1>3. CASE ~Over(j)
  <2> DEFINE new == [Idle EXCEPT !.pc = "list", !.job = j]
             row == [job[j] EXCEPT !.stage = "started"]
  <2>1. new.pc = "list" /\ new.job = j
    BY DEF Idle
  <2>2. Become(w, new) /\ job' = [job EXCEPT ![j] = row]
    BY <1>3 DEF StartJob
  <2>3. row.stage = "started" /\ row.rows = job[j].rows
    BY <1>1 DEF JobRow
  <2> HIDE DEF new, row
  <2>4. exec'[w] = new /\ \A b \in Executors \ {w} : exec'[b] = exec[b]
    BY <1>1, <2>2, Becomes DEF Sound
  <2>5. job'[j] = row /\ \A i \in Jobs \ {j} : job'[i] = job[i]
    BY <1>1, <2>2
  <2>6. \A v \in Workers : exec[v].job # j
    BY DEF StartJob
  <2>7. Asked'
    BY <1>1, <2>3, <2>5 DEF Runs, Asked
  <2>8. ASSUME NEW v \in Workers PROVE Running(exec[v])'
    <3>1. CASE v = w
      BY <2>1, <2>3, <2>4, <2>5, <3>1 DEF Running, AtSet
    <3>2. CASE v # w
      <4>1. v \in Executors /\ Running(exec[v]) /\ exec'[v] = exec[v]
        BY <2>4, <3>2, RunsOf
      <4>2. exec[v].pc # "idle" => exec[v].job \in Jobs \ {j}
        BY <2>6, RunsOf
      <4> QED
        BY <2>5, <4>1, <4>2 DEF Running
    <3> QED
      BY <3>1, <3>2
  <2>9. Apart'
    BY <2>1, <2>4, <2>6 DEF Runs, Apart, Executors
  <2>10. \A i \in Jobs : Keeps(i)
    BY <1>3, <2>3, <2>5 DEF Keeps, Over
  <2> QED
    BY <2>7, <2>8, <2>9, <2>10 DEF Runs
<1> QED
  BY <1>2, <1>3

LEMMA ListRuns ==
  ASSUME Sound, Runs, NEW a \in Executors, DownloadList(a) \/ StoreList(a) \/ Plan(a)
  PROVE  Runs' /\ job' = job
<1>1. UNCHANGED <<job, unsent, queue>> /\ exec[a] \in Task /\ exec[a].pc # "idle"
  BY OfExecutor DEF DownloadList, StoreList, Plan, At, jobVars
<1>2. CASE Become(a, Failed(a))
  BY <1>1, <1>2, FailedQuiet
<1>3. ASSUME NEW new, Become(a, new), new.job = exec[a].job, new.pc \notin AtSet PROVE Runs'
  BY <1>1, <1>3, QuietRun
<1>4. CASE DownloadList(a)
  <2> DEFINE new == [exec[a] EXCEPT !.pc = "listing", !.list = mtgjson]
  <2>1. Become(a, new) /\ new.job = exec[a].job /\ new.pc \notin AtSet
    BY <1>1, <1>4 DEF DownloadList, Task, AtSet
  <2> QED
    BY <1>1, <1>3, <2>1
<1>5. CASE StoreList(a)
  <2> DEFINE new == [exec[a] EXCEPT !.pc = "listed", !.list = NoList]
  <2>1. Become(a, new) /\ new.job = exec[a].job /\ new.pc \notin AtSet
    BY <1>1, <1>5 DEF StoreList, Task, AtSet
  <2> QED
    BY <1>1, <1>3, <2>1
<1>6. CASE Plan(a)
  <2>1. CASE listCache # NoList
    <3>1. PICK todo : Become(a, [exec[a] EXCEPT !.pc = "work", !.existing = {}, !.todo = todo])
      BY <1>6, <2>1 DEF Plan
    <3> DEFINE new == [exec[a] EXCEPT !.pc = "work", !.existing = {}, !.todo = todo]
    <3>2. Become(a, new) /\ new.job = exec[a].job /\ new.pc \notin AtSet
      BY <1>1, <3>1 DEF Task, AtSet
    <3> QED
      BY <1>1, <1>3, <3>2
  <2>2. CASE listCache = NoList
    BY <1>1, <1>2, <1>6, <2>2 DEF Plan
  <2> QED
    BY <2>1, <2>2
<1> QED
  BY <1>4, <1>5, <1>6

LEMMA IngestRuns ==
  ASSUME Sound, Runs, NEW a \in Executors, StoreFile(a) \/ BeginIngest(a) \/ InsertChunk(a) \/ EndIngest(a)
  PROVE  Runs' /\ job' = job
<1>1. UNCHANGED <<job, unsent, queue>> /\ exec[a] \in Task /\ exec[a].pc # "idle" /\ exec[a].pc \in AtSet
  BY OfExecutor DEF StoreFile, BeginIngest, InsertChunk, EndIngest, At, jobVars, AtSet
<1>2. CASE Become(a, Failed(a))
  BY <1>1, <1>2, FailedQuiet
<1>3. ASSUME NEW new, Become(a, new), new.job = exec[a].job, new.set = exec[a].set PROVE Runs'
  BY <1>1, <1>3, QuietRun
<1>4. ASSUME NEW new, Become(a, new), a \notin Workers PROVE Runs'
  BY <1>1, <1>4, QuietRun
<1>5. CASE StoreFile(a)
  <2> DEFINE new == [exec[a] EXCEPT !.pc = "fetched", !.body = 0]
  <2>1. Become(a, new) /\ new.job = exec[a].job /\ new.set = exec[a].set
    BY <1>1, <1>5 DEF StoreFile, Task
  <2> QED
    BY <1>1, <1>3, <2>1
<1>6. CASE BeginIngest(a)
  <2> DEFINE new == [exec[a] EXCEPT !.pc = "ingest", !.body = fileCache[exec[a].set], !.chunk = 1,
                                    !.draft = [catalog[exec[a].set] EXCEPT !.edition = TRUE]]
  <2>1. new.job = exec[a].job /\ new.set = exec[a].set
    BY <1>1 DEF Task
  <2>2. Become(a, new) \/ Become(a, Failed(a))
    BY <1>6 DEF BeginIngest
  <2> HIDE DEF new
  <2> QED
    BY <1>1, <1>2, <1>3, <2>1, <2>2
<1>7. CASE InsertChunk(a)
  <2>1. PICK draft : Become(a, [exec[a] EXCEPT !.chunk = @ + 1, !.draft = draft]) \/ Become(a, Failed(a))
    BY <1>7 DEF InsertChunk
  <2> DEFINE new == [exec[a] EXCEPT !.chunk = @ + 1, !.draft = draft]
  <2>2. new.job = exec[a].job /\ new.set = exec[a].set
    BY <1>1 DEF Task
  <2> HIDE DEF new
  <2> QED
    BY <1>1, <1>2, <1>3, <2>1, <2>2 DEF new
<1>8. CASE EndIngest(a)
  <2>1. PICK n : Become(a, [exec[a] EXCEPT !.pc = "ingested", !.draft = NoRows, !.body = 0, !.chunk = n])
                 \/ a \notin Workers \/ Become(a, Failed(a))
    BY <1>8 DEF EndIngest
  <2> DEFINE new == [exec[a] EXCEPT !.pc = "ingested", !.draft = NoRows, !.body = 0, !.chunk = n]
  <2>2. new.job = exec[a].job /\ new.set = exec[a].set
    BY <1>1 DEF Task
  <2>3. \E task : Become(a, task)
    BY <1>8 DEF EndIngest
  <2> HIDE DEF new
  <2> QED
    BY <1>1, <1>2, <1>3, <1>4, <2>1, <2>2, <2>3 DEF new
<1> QED
  BY <1>1, <1>5, <1>6, <1>7, <1>8

LEMMA TakeSetRuns ==
  ASSUME Sound, Runs, NEW a \in Executors, TakeSet(a)
  PROVE  Runs' /\ \A i \in Jobs : Keeps(i)
<1> DEFINE s == First(exec[a].todo)
<1>1. exec[a] \in Task /\ Stage(a, exec[a]) /\ exec[a].pc = "work" /\ exec[a].todo # {}
      /\ UNCHANGED <<unsent, queue>>
  BY OfExecutor DEF TakeSet, At
<1>2. s \in Sets
  BY <1>1, FirstIsThere DEF Task
<1>3. \E task : Become(a, task)
  BY DEF TakeSet
<1>4. CASE a \notin Workers
  <2>1. job' = job
    BY <1>4 DEF TakeSet
  <2> QED
    BY <1>1, <1>3, <1>4, <2>1, QuietRun DEF Keeps
<1>5. CASE a \in Workers /\ RowDone(a, s)
  <2> DEFINE new == [exec[a] EXCEPT !.todo = @ \ {s}]
  <2>1. job' = job /\ Become(a, new) /\ new.job = exec[a].job /\ new.pc = "work"
    BY <1>1, <1>5 DEF TakeSet, Task
  <2> HIDE DEF new
  <2>2. "work" \notin AtSet
    BY DEF AtSet
  <2> QED
    BY <1>1, <2>1, <2>2, QuietRun DEF Keeps
<1>6. CASE a \in Workers /\ ~RowDone(a, s)
  <2> DEFINE row == [job[exec[a].job] EXCEPT !.rows = [@ EXCEPT ![s] = [NoRow EXCEPT !.state = "inprogress"]]]
             new == [exec[a] EXCEPT !.pc = "fetching", !.set = s, !.body = mtgjson[s]]
             old == job[exec[a].job]
  <2>1. old \in JobRow /\ old.stage = "started" /\ old.rows[s].state # "done"
    BY <1>1, <1>6, RunsOf DEF Running, RowDone
  <2>2. job' = [job EXCEPT ![exec[a].job] = row]
    BY <1>6 DEF TakeSet, InProgress
  <2>3. [NoRow EXCEPT !.state = "inprogress"].state = "inprogress"
    BY DEF NoRow
  <2>4. /\ row.stage = "started" /\ row.rows[s].state = "inprogress"
        /\ \A t \in Sets \ {s} : row.rows[t] = old.rows[t]
    BY <1>2, <2>1, <2>3 DEF JobRow
  <2>5. Become(a, new)
    <3>1. ~Cached(a, s)
      BY <1>6 DEF Cached, FetchAssumption
    <3> QED
      BY <1>6, <3>1 DEF TakeSet
  <2>6. new.job = exec[a].job /\ new.set = s
    BY <1>1 DEF Task
  <2> HIDE DEF row, new
  <2>7. DoneKept(old, row)
    BY <2>1, <2>4 DEF DoneKept
  <2> QED
    BY <1>1, <1>6, <2>2, <2>4, <2>5, <2>6, <2>7, OwnRun
<1> QED
  BY <1>4, <1>5, <1>6

LEMMA MarkDoneRuns ==
  ASSUME Sound, Runs, NEW w \in Executors, MarkDone(w)
  PROVE  Runs' /\ \A i \in Jobs : Keeps(i)
<1> DEFINE e == exec[w]
           done == [state |-> "done", count |-> e.chunk]
           row == [job[e.job] EXCEPT !.rows = [@ EXCEPT ![e.set] = done]]
           new == [e EXCEPT !.pc = "work", !.todo = @ \ {e.set}, !.set = 0, !.chunk = 0]
<1>1. /\ exec[w] \in Task /\ Stage(w, exec[w]) /\ exec[w].pc = "ingested" /\ UNCHANGED <<unsent, queue>>
      /\ w \in Workers /\ exec[w].set \in Sets
  BY OfExecutor DEF MarkDone, At, Stage, Task, AtSet
<1>2. Running(exec[w]) /\ job[e.job] \in JobRow
  BY <1>1, RunsOf
<1>3. job[e.job].stage = "started" /\ job[e.job].rows[e.set].state = "inprogress"
  BY <1>1, <1>2 DEF Running, AtSet
<1>4. job' = [job EXCEPT ![e.job] = row] /\ Become(w, new)
  BY DEF MarkDone
<1>5. row.stage = "started" /\ \A t \in Sets \ {e.set} : row.rows[t] = job[e.job].rows[t]
  <2> DEFINE rows == [job[e.job].rows EXCEPT ![e.set] = done]
  <2>1. \A t \in Sets \ {e.set} : rows[t] = job[e.job].rows[t]
    BY <1>2 DEF JobRow
  <2>2. row = [job[e.job] EXCEPT !.rows = rows]
    OBVIOUS
  <2> HIDE DEF rows, row
  <2>3. row.stage = job[e.job].stage /\ row.rows = rows
    BY <1>2, <2>2 DEF JobRow
  <2> QED
    BY <1>3, <2>1, <2>3
<1>6. new.job = e.job /\ new.pc = "work"
  BY <1>1 DEF Task
<1>7. "work" \notin AtSet
  BY DEF AtSet
<1> HIDE DEF row, new
<1>8. DoneKept(job[exec[w].job], row)
  BY <1>3, <1>5 DEF DoneKept
<1>9. \/ new.pc = "idle"
      \/ /\ new.job = exec[w].job /\ row.stage = "started"
         /\ new.pc \in AtSet => row.rows[new.set].state = "inprogress"
  BY <1>5, <1>6, <1>7
<1>10. row.stage \in {"started", "ended"} /\ exec[w].pc # "idle" /\ w \in Workers
  BY <1>1, <1>5
<1> QED
  BY ONLY Sound, Runs, <1>1, <1>4, <1>8, <1>9, <1>10, OwnRun

LEMMA FinishRuns ==
  ASSUME Sound, Runs, NEW w \in Executors, Finish(w)
  PROVE  Runs' /\ \A i \in Jobs : Keeps(i)
<1> DEFINE j == exec[w].job
           row == Ended(j, exec[w].failed)
<1>1. /\ exec[w] \in Task /\ exec[w].pc # "idle" /\ UNCHANGED <<unsent, queue>> /\ w \in Workers
      /\ job' = [job EXCEPT ![j] = row] /\ Become(w, Idle)
  BY OfExecutor DEF Finish, At
<1>2. row.stage = "ended" /\ DoneKept(job[j], row)
  BY DEF Ended, Settled, Orphans, DoneKept
<1>3. Idle.pc = "idle"
  BY DEF Idle
<1> HIDE DEF row
<1> QED
  BY <1>1, <1>2, <1>3, OwnRun

LEMMA EndRuns ==
  ASSUME Sound, Runs, NEW a \in Executors, Fails(a) \/ Crash(a) \/ FinishCli(a)
  PROVE  Runs' /\ job' = job
<1>1. UNCHANGED <<job, unsent>> /\ exec[a].pc # "idle" /\ Idle.pc = "idle"
  BY DEF Fails, Crash, FinishCli, At, jobVars, Idle
<1>2. CASE Fails(a)
  BY <1>1, <1>2, FailedQuiet DEF Fails, jobVars
<1>3. CASE FinishCli(a)
  <2>1. Become(a, Idle) /\ queue' = queue
    BY <1>3 DEF FinishCli, jobVars
  <2> QED
    BY <1>1, <2>1, QuietRun
<1>4. CASE Crash(a)
  <2>1. Become(a, Idle)
    BY <1>4 DEF Crash
  <2>2. \A j \in queue' : j \in queue \/ job[j].stage # "none"
    BY <1>1, <1>4, RunsOf DEF Crash, Unacked, Running
  <2> QED
    BY <1>1, <2>1, <2>2, QuietRun
<1> QED
  BY <1>1, <1>2, <1>3, <1>4

LEMMA ElsewhereRuns ==
  ASSUME Sound, Runs, NEW c \in Shells, NEW refresh, StartShell(c, refresh)
  PROVE  Runs' /\ job' = job
<1>1. UNCHANGED <<job, unsent, queue>> /\ c \in Executors /\ c \notin Workers
  BY DEF StartShell, jobVars, Executors, FetchAssumption
<1>2. \E task : Become(c, task)
  BY DEF StartShell
<1> QED
  BY <1>1, <1>2, QuietRun

LEMMA InitRuns == Init => Runs
  BY DEF Init, Runs, Asked, Running, Apart, Idle, Executors

LEMMA RunsStep == Sound /\ Runs /\ [Next]_vars => Runs' /\ \A j \in Jobs : Keeps(j)
<1> SUFFICES ASSUME Sound, Runs, [Next]_vars PROVE Runs' /\ \A j \in Jobs : Keeps(j)
  OBVIOUS
<1>1. CASE UNCHANGED vars
  BY <1>1 DEF vars, Runs, Asked, Running, Apart, Keeps
<1>2. ASSUME Runs', job' = job PROVE Runs' /\ \A j \in Jobs : Keeps(j)
  BY <1>2 DEF Keeps
<1>3. ASSUME NEW a \in Executors, Step(a) PROVE Runs' /\ \A j \in Jobs : Keeps(j)
  BY <1>2, <1>3, ListRuns, TakeSetRuns, IngestRuns, MarkDoneRuns, FinishRuns, EndRuns DEF Step
<1>4. ASSUME Publish PROVE Runs' /\ job' = job
  BY <1>4 DEF Publish, jobVars, Runs, Asked, Running, Apart
<1>5. ASSUME NEW w \in Workers, NEW j \in Jobs, StartJob(w, j) PROVE Runs' /\ \A i \in Jobs : Keeps(i)
  BY <1>5, StartJobRuns
<1> QED
  BY <1>1, <1>2, <1>3, <1>4, <1>5, EnqueueRuns, SendRuns, EndRuns, ElsewhereRuns DEF Next

(* What a job has reported as final stays, for any jobs, workers, shells,    *)
(* crashes and redeliveries, whichever worker resumes the job (StartJob      *)
(* leaves out that two run one job at once).                                 *)
THEOREM FinalStays ==
  ASSUME FilesAreCards, PreviewsEnd
  PROVE  Spec => FinalStatus
<1>1. Init => Sound /\ Runs
  BY InitSound, InitRuns
<1>2. Sound /\ Runs /\ [Next]_vars => Sound' /\ Runs'
  BY SoundInvariant, RunsStep
<1>3. Sound /\ Runs /\ [Next]_vars => [\A j \in Jobs : StaysFinal(j)]_vars
  BY RunsStep, KeepsFinal
<1> QED
  BY <1>1, <1>2, <1>3, PTL DEF Spec, FinalStatus

--------------------------------------------------------------------------------
(* The catalog.  A transaction has in its draft what it has read of the file *)
(* so far, whatever an earlier version has left there.                       *)

HasCard(rows, raw, v) ==
  LET row == rows.cards[Key(raw)]
  IN row # NoCard /\ row.body = v /\ raw.words \subseteq rows.words[row.card_id]

HoldsUpTo(rows, s, v, n) ==
  \A i \in 1..Len(Content[s][v].cards) : i <= n => HasCard(rows, Content[s][v].cards[i], v)

(* All rows are of released versions, and have a uuid the file has given to  *)
(* their printing and side.                                                  *)
Bodies(rows, s) ==
  \A k \in Keys : rows.cards[k] # NoCard => Released(s, rows.cards[k].body) /\ Known(s, k, rows.cards[k].card_id)

Draft(e) ==
  e.pc = "ingest" => /\ e.draft.edition
                     /\ Bodies(e.draft, e.set)
                     /\ HoldsUpTo(e.draft, e.set, e.body, (e.chunk - 1) * BatchSize)

Whole(s) ==
  catalog[s].edition =>
    \E v \in 1..Len(Published[s]) : Released(s, v) /\ ~Content[s][v].raises /\ Holds(s, v)

Shelved ==
  /\ \A s \in Sets : Bodies(catalog[s], s) /\ Whole(s)
  /\ \A a \in Executors : Draft(exec[a])

LEMMA KeyType ==
  ASSUME NEW raw \in RawCard
  PROVE  Key(raw) \in Keys /\ raw.uuid \in Uuids
  BY DEF Key, Keys, RawCard, CardSide

(* What the rows are after an upsert.                                        *)
LEMMA UpsertedRows ==
  ASSUME NEW rows \in SetRows, NEW chunk \in Seq(RawCard), NEW body \in Nat, ~Refused(rows, chunk)
  PROVE  LET up == Upserted(rows, chunk, body)
         IN /\ up.edition = rows.edition /\ up.words = rows.words
            /\ \A k \in Keys : (\A i \in 1..Len(chunk) : Key(chunk[i]) # k) => up.cards[k] = rows.cards[k]
            /\ \A i \in 1..Len(chunk) :
                 up.cards[Key(chunk[i])] =
                   [card_id |-> IF rows.cards[Key(chunk[i])] = NoCard THEN chunk[i].uuid
                                ELSE rows.cards[Key(chunk[i])].card_id,
                    body |-> body]
<1> DEFINE Of(k) == {i \in 1..Len(chunk) : Key(chunk[i]) = k}
           Row(k, raw) == [card_id |-> IF rows.cards[k] = NoCard THEN raw.uuid ELSE rows.cards[k].card_id,
                           body |-> body]
           cards == [k \in Keys |->
             IF Of(k) = {} THEN rows.cards[k] ELSE Row(k, chunk[CHOOSE i \in Of(k) : TRUE])]
           up == Upserted(rows, chunk, body)
<1>1. up = [rows EXCEPT !.cards = cards]
  BY DEF Upserted
<1>2. ASSUME NEW i \in 1..Len(chunk) PROVE cards[Key(chunk[i])] = Row(Key(chunk[i]), chunk[i])
  <2> DEFINE k == Key(chunk[i])
  <2>1. i \in Of(k)
    OBVIOUS
  <2>2. (CHOOSE j \in Of(k) : TRUE) \in Of(k)
    BY <2>1
  <2>3. \A j \in Of(k) : j = i
    BY DEF Refused
  <2>4. (CHOOSE j \in Of(k) : TRUE) = i
    BY <2>2, <2>3
  <2>5. k \in Keys
    BY KeyType, ElementOfSeq
  <2>6. Of(k) # {}
    BY <2>1
  <2> HIDE DEF Of, Row, k
  <2>7. cards[k] = Row(k, chunk[CHOOSE j \in Of(k) : TRUE])
    BY <2>5, <2>6
  <2> QED
    BY <2>4, <2>7 DEF k
<1>3. ASSUME NEW k \in Keys, \A i \in 1..Len(chunk) : Key(chunk[i]) # k
      PROVE  cards[k] = rows.cards[k]
  <2>1. Of(k) = {}
    BY <1>3
  <2> QED
    BY <2>1
<1> HIDE DEF cards
<1>4. up.edition = rows.edition /\ up.words = rows.words /\ up.cards = cards
  BY <1>1 DEF SetRows
<1> HIDE DEF up
<1> QED
  BY <1>2, <1>3, <1>4 DEF up

LEMMA WordedRows ==
  ASSUME NEW rows \in SetRows, NEW chunk \in Seq(RawCard)
  PROVE  LET fin == WithWords(rows, chunk)
         IN /\ fin.edition = rows.edition /\ fin.cards = rows.cards
            /\ \A u \in Uuids : rows.words[u] \subseteq fin.words[u]
            /\ \A i \in 1..Len(chunk) : chunk[i].words \subseteq fin.words[chunk[i].uuid]
<1> DEFINE more(u) == {chunk[i].words : i \in {j \in 1..Len(chunk) : chunk[j].uuid = u}}
           words == [u \in Uuids |-> rows.words[u] \cup UNION more(u)]
           fin == WithWords(rows, chunk)
<1>1. fin = [rows EXCEPT !.words = words]
  BY DEF WithWords
<1>2. \A u \in Uuids : rows.words[u] \subseteq words[u]
  OBVIOUS
<1>3. ASSUME NEW i \in 1..Len(chunk) PROVE chunk[i].words \subseteq words[chunk[i].uuid]
  <2>1. chunk[i].uuid \in Uuids
    BY KeyType, ElementOfSeq
  <2>2. chunk[i].words \in more(chunk[i].uuid)
    OBVIOUS
  <2>3. chunk[i].words \subseteq UNION more(chunk[i].uuid)
    BY <2>2
  <2> HIDE DEF more
  <2> QED
    BY <2>1, <2>3
<1> HIDE DEF words
<1>4. fin.edition = rows.edition /\ fin.cards = rows.cards /\ fin.words = words
  BY <1>1 DEF SetRows
<1> HIDE DEF fin
<1> QED
  BY <1>2, <1>3, <1>4 DEF fin

(* What a chunk and the rows before it know.                                 *)
Stamped(rows, s) == \A k \in Keys : rows.cards[k] # NoCard => Known(s, k, rows.cards[k].card_id)

OfFile(chunk, s) == \A i \in 1..Len(chunk) : Known(s, Key(chunk[i]), chunk[i].uuid)

LEMMA OneKey ==
  ASSUME UuidsStay, NEW s \in Sets, NEW k \in Keys, NEW l \in Keys, NEW u \in Uuids, Known(s, k, u), Known(s, l, u)
  PROVE  k = l
  BY DEF UuidsStay

(* A chunk that is inserted is held, and nothing held of the same file is    *)
(* lost: dependent rows violate no foreign key only if there is a row of     *)
(* their uuid, which is then the row of their card.                          *)
LEMMA ChunkIsHeld ==
  ASSUME NEW rows \in SetRows, NEW chunk \in Seq(RawCard), NEW body \in Nat, ~Refused(rows, chunk),
         ~Dangling(Upserted(rows, chunk, body), chunk),
         NEW s \in Sets, UuidsStay, Stamped(rows, s), OfFile(chunk, s)
  PROVE  LET fin == WithWords(Upserted(rows, chunk, body), chunk)
         IN /\ fin.edition = rows.edition
            /\ \A i \in 1..Len(chunk) : HasCard(fin, chunk[i], body)
            /\ \A raw \in RawCard : HasCard(rows, raw, body) => HasCard(fin, raw, body)
            /\ \A k \in Keys : fin.cards[k] # NoCard =>
                 fin.cards[k].body = body \/ fin.cards[k] = rows.cards[k]
            /\ Stamped(fin, s)
<1> DEFINE up == Upserted(rows, chunk, body)
           fin == WithWords(up, chunk)
<1>1. up \in SetRows
  BY UpsertedType
<1>2. /\ up.edition = rows.edition /\ up.words = rows.words
      /\ \A k \in Keys : (\A i \in 1..Len(chunk) : Key(chunk[i]) # k) => up.cards[k] = rows.cards[k]
      /\ \A i \in 1..Len(chunk) :
           up.cards[Key(chunk[i])] =
             [card_id |-> IF rows.cards[Key(chunk[i])] = NoCard THEN chunk[i].uuid
                          ELSE rows.cards[Key(chunk[i])].card_id,
              body |-> body]
  BY UpsertedRows
<1>3. ~Dangling(up, chunk)
  OBVIOUS
<1> HIDE DEF up
<1>4. /\ fin.edition = up.edition /\ fin.cards = up.cards
      /\ \A u \in Uuids : up.words[u] \subseteq fin.words[u]
      /\ \A i \in 1..Len(chunk) : chunk[i].words \subseteq fin.words[chunk[i].uuid]
  BY <1>1, WordedRows
<1> HIDE DEF fin
<1>5. ASSUME NEW k \in Keys PROVE rows.cards[k] \in CardRow \cup {NoCard} /\ up.cards[k] \in CardRow \cup {NoCard}
  BY <1>1 DEF SetRows
<1>6. ASSUME NEW i \in 1..Len(chunk) PROVE chunk[i] \in RawCard /\ Key(chunk[i]) \in Keys /\ chunk[i].uuid \in Uuids
  BY KeyType, ElementOfSeq
<1>7. ASSUME NEW i \in 1..Len(chunk)
      PROVE  LET row == up.cards[Key(chunk[i])] IN row # NoCard /\ row.body = body
  <2> DEFINE k == Key(chunk[i])
             id == IF rows.cards[k] = NoCard THEN chunk[i].uuid ELSE rows.cards[k].card_id
  <2>1. k \in Keys /\ chunk[i].uuid \in Uuids /\ rows.cards[k] \in CardRow \cup {NoCard}
    BY <1>5, <1>6
  <2>2. id \in Uuids
    BY <2>1 DEF CardRow
  <2>3. up.cards[k] = [card_id |-> id, body |-> body]
    BY <1>2
  <2> HIDE DEF id, k
  <2>4. up.cards[k] \in [card_id: Uuids, body: Nat] /\ up.cards[k].body = body
    BY <2>2, <2>3
  <2> QED
    BY <2>4 DEF FileAssumption, k
<1>12. ASSUME NEW k \in Keys, up.cards[k] # NoCard PROVE Known(s, k, up.cards[k].card_id)
  <2>1. CASE \A i \in 1..Len(chunk) : Key(chunk[i]) # k
    <3>1. up.cards[k] = rows.cards[k]
      BY <1>2, <2>1
    <3> QED
      BY <1>12, <3>1 DEF Stamped
  <2>2. CASE \E i \in 1..Len(chunk) : Key(chunk[i]) = k
    <3>1. PICK i \in 1..Len(chunk) : Key(chunk[i]) = k
      BY <2>2
    <3>2. up.cards[k] = [card_id |-> IF rows.cards[k] = NoCard THEN chunk[i].uuid
                                     ELSE rows.cards[k].card_id, body |-> body]
      BY <1>2, <3>1
    <3>3. up.cards[k].card_id = IF rows.cards[k] = NoCard THEN chunk[i].uuid ELSE rows.cards[k].card_id
      BY <3>2
    <3>4. Known(s, k, chunk[i].uuid)
      BY <3>1 DEF OfFile
    <3> QED
      BY <3>3, <3>4 DEF Stamped
  <2> QED
    BY <2>1, <2>2
<1>8. ASSUME NEW i \in 1..Len(chunk) PROVE up.cards[Key(chunk[i])].card_id = chunk[i].uuid
  <2>1. PICK k \in Keys : up.cards[k] # NoCard /\ up.cards[k].card_id = chunk[i].uuid
    BY <1>3 DEF Dangling
  <2>2. Known(s, k, chunk[i].uuid) /\ Known(s, Key(chunk[i]), chunk[i].uuid)
    BY <1>12, <2>1 DEF OfFile
  <2>3. k = Key(chunk[i])
    BY <1>6, <2>2, OneKey
  <2> QED
    BY <2>1, <2>3
<1>9. ASSUME NEW i \in 1..Len(chunk) PROVE HasCard(fin, chunk[i], body)
  BY <1>4, <1>7, <1>8 DEF HasCard
<1>10. ASSUME NEW raw \in RawCard, HasCard(rows, raw, body) PROVE HasCard(fin, raw, body)
  <2> DEFINE k == Key(raw)
  <2>1. /\ k \in Keys /\ rows.cards[k] # NoCard /\ rows.cards[k].body = body
        /\ raw.words \subseteq rows.words[rows.cards[k].card_id]
    BY <1>10, KeyType DEF HasCard
  <2>2. rows.cards[k].card_id \in Uuids
    BY <1>5, <2>1 DEF CardRow
  <2>3. up.cards[k] # NoCard /\ up.cards[k].body = body /\ up.cards[k].card_id = rows.cards[k].card_id
    <3>1. CASE \A i \in 1..Len(chunk) : Key(chunk[i]) # k
      BY <1>2, <2>1, <3>1
    <3>2. CASE \E i \in 1..Len(chunk) : Key(chunk[i]) = k
      <4>1. PICK i \in 1..Len(chunk) : Key(chunk[i]) = k
        BY <3>2
      <4> HIDE DEF k
      <4>2. up.cards[k] = [card_id |-> IF rows.cards[k] = NoCard THEN chunk[i].uuid
                                       ELSE rows.cards[k].card_id, body |-> body]
        BY <1>2, <4>1
      <4>3. up.cards[k] # NoCard /\ up.cards[k].body = body
        BY <1>7, <4>1
      <4> QED
        BY <2>1, <4>2, <4>3
    <3> QED
      BY <3>1, <3>2
  <2>4. raw.words \subseteq fin.words[rows.cards[k].card_id]
    BY <1>2, <1>4, <2>1, <2>2
  <2> QED
    BY <1>4, <2>3, <2>4 DEF HasCard
<1>11. ASSUME NEW k \in Keys, fin.cards[k] # NoCard
       PROVE  fin.cards[k].body = body \/ fin.cards[k] = rows.cards[k]
  BY <1>2, <1>4, <1>7
<1>13. Stamped(fin, s)
  BY <1>4, <1>12 DEF Stamped
<1> QED
  BY <1>2, <1>4, <1>9, <1>10, <1>11, <1>13 DEF fin, up

(* Released versions stay released.                                          *)
Grows == \A s \in Sets : \A v : Released(s, v) => Released(s, v)'

LEMMA SameGrows ==
  ASSUME UNCHANGED mtgjson
  PROVE  Grows
  BY DEF Grows, Released

LEMMA BodiesKept ==
  ASSUME NEW s \in Sets, Bodies(catalog[s], s), catalog'[s] = catalog[s], Grows
  PROVE  Bodies(catalog[s], s)'
  BY DEF Bodies, Grows

LEMMA HoldsKept ==
  ASSUME NEW s \in Sets, NEW v, Holds(s, v), catalog'[s] = catalog[s]
  PROVE  Holds(s, v)'
  BY DEF Holds

LEMMA WholeKept ==
  ASSUME NEW s \in Sets, Whole(s), catalog'[s] = catalog[s], Grows
  PROVE  Whole(s)'
  BY HoldsKept DEF Whole, Grows

LEMMA DraftKept ==
  ASSUME NEW a, NEW task, Draft(task), exec'[a] = task, Grows, task.pc = "ingest" => task.set \in Sets
  PROVE  Draft(exec[a])'
<1>1. SUFFICES ASSUME task.pc = "ingest" PROVE Draft(exec[a])'
  BY DEF Draft
<1>2. Bodies(exec[a].draft, exec[a].set)'
  BY <1>1 DEF Draft, Bodies, Grows
<1>3. HoldsUpTo(exec[a].draft, exec[a].set, exec[a].body, (exec[a].chunk - 1) * BatchSize)'
  BY <1>1 DEF Draft, HoldsUpTo, HasCard
<1> QED
  BY <1>1, <1>2, <1>3 DEF Draft

LEMMA OtherDraft ==
  ASSUME Sound, Shelved, NEW b \in Executors, exec'[b] = exec[b], Grows
  PROVE  Draft(exec[b])'
<1>1. Draft(exec[b]) /\ (exec[b].pc = "ingest" => exec[b].set \in Sets)
  BY OfExecutor DEF Shelved, Stage, Task, AtSet
<1> QED
  BY <1>1, DraftKept

LEMMA ShelfStep ==
  ASSUME Sound, Shelved, NEW a \in Executors, NEW task, Become(a, task), Draft(task),
         task.pc = "ingest" => task.set \in Sets, UNCHANGED <<mtgjson, catalog>>
  PROVE  Shelved'
<1>1. exec'[a] = task /\ \A b \in Executors \ {a} : exec'[b] = exec[b]
  BY Becomes DEF Sound
<1>2. Grows
  BY SameGrows
<1>3. Draft(exec[a])'
  BY <1>1, <1>2, DraftKept
<1>4. \A b \in Executors : Draft(exec[b])'
  BY <1>1, <1>2, <1>3, OtherDraft
<1>5. \A s \in Sets : Bodies(catalog[s], s)' /\ Whole(s)'
  BY <1>2, BodiesKept, WholeKept DEF Shelved
<1> QED
  BY <1>4, <1>5 DEF Shelved

LEMMA NoDraft ==
  ASSUME NEW task, task.pc # "ingest"
  PROVE  Draft(task)
  BY DEF Draft

LEMMA FailedIsNoDraft ==
  ASSUME NEW a
  PROVE  Failed(a).pc # "ingest" /\ Idle.pc # "ingest"
  BY DEF Failed, Idle

(* A step that touches neither drafts nor the catalog.                       *)
LEMMA PlainShelf ==
  ASSUME Sound, Shelved, NEW a \in Executors, NEW task, Become(a, task), task.pc # "ingest",
         UNCHANGED <<mtgjson, catalog>>
  PROVE  Shelved'
  BY NoDraft, ShelfStep

LEMMA StopShelf ==
  ASSUME Sound, Shelved, NEW a \in Executors, Become(a, Idle) \/ Become(a, Failed(a)),
         UNCHANGED <<mtgjson, catalog>>
  PROVE  Shelved'
  BY FailedIsNoDraft, PlainShelf

LEMMA PublishShelf ==
  ASSUME Sound, Shelved, PreviewsEnd, Publish
  PROVE  Shelved' /\ UNCHANGED catalog /\ \A s \in Sets : mtgjson'[s] \in mtgjson[s]..Len(Published[s])
<1>1. UNCHANGED <<catalog, exec>>
  BY DEF Publish
<1>2. ASSUME NEW s \in Sets PROVE mtgjson'[s] \in mtgjson[s]..Len(Published[s]) /\ mtgjson[s] \in Nat
  <2>1. Smaller(mtgjson[s] + 1, Len(Published[s])) \in mtgjson[s]..Len(Published[s])
    BY PublishedType DEF Sound, Typed, Data, Cache, Smaller
  <2> QED
    BY <2>1 DEF Publish, Sound, Typed, Data
<1>3. Grows
  <2> SUFFICES ASSUME NEW s \in Sets, NEW v, Released(s, v) PROVE Released(s, v)'
    BY DEF Grows
  <2>1. mtgjson'[s] \in mtgjson[s]..Len(Published[s]) /\ mtgjson[s] \in Nat /\ Len(Published[s]) \in Nat
    BY <1>2, PublishedType
  <2> QED
    BY <2>1 DEF Released
<1>4. \A s \in Sets : Bodies(catalog[s], s)' /\ Whole(s)'
  BY <1>1, <1>3, BodiesKept, WholeKept DEF Shelved
<1>5. \A a \in Executors : Draft(exec[a])'
  BY <1>1, <1>3, OtherDraft
<1> QED
  BY <1>1, <1>2, <1>4, <1>5 DEF Shelved

LEMMA WorkShelf ==
  ASSUME Sound, Shelved, NEW a \in Executors,
         DownloadList(a) \/ StoreList(a) \/ Plan(a) \/ TakeSet(a) \/ StoreFile(a) \/ MarkDone(a)
           \/ Finish(a) \/ FinishCli(a) \/ Fails(a) \/ Crash(a)
  PROVE  Shelved' /\ UNCHANGED <<mtgjson, catalog>>
<1>1. UNCHANGED <<mtgjson, catalog>>
  BY DEF DownloadList, StoreList, Plan, TakeSet, StoreFile, MarkDone, Finish, FinishCli, Fails, Crash, remoteVars
<1>2. exec[a] \in Task
  BY OfExecutor
<1>3. CASE Become(a, Idle) \/ Become(a, Failed(a))
  BY <1>1, <1>3, StopShelf
<1>4. ASSUME NEW new, Become(a, new), new.pc # "ingest" PROVE Shelved'
  BY <1>1, <1>4, PlainShelf
<1>5. CASE DownloadList(a)
  <2> DEFINE new == [exec[a] EXCEPT !.pc = "listing", !.list = mtgjson]
  <2>1. Become(a, new) /\ new.pc # "ingest"
    BY <1>2, <1>5 DEF DownloadList, Task
  <2> QED
    BY <1>1, <1>4, <2>1
<1>6. CASE StoreList(a)
  <2> DEFINE new == [exec[a] EXCEPT !.pc = "listed", !.list = NoList]
  <2>1. Become(a, new) /\ new.pc # "ingest"
    BY <1>2, <1>6 DEF StoreList, Task
  <2> QED
    BY <1>1, <1>4, <2>1
<1>7. CASE Plan(a)
  <2>1. PICK todo : Become(a, Failed(a)) \/
                    Become(a, [exec[a] EXCEPT !.pc = "work", !.existing = {}, !.todo = todo])
    BY <1>7 DEF Plan
  <2> DEFINE new == [exec[a] EXCEPT !.pc = "work", !.existing = {}, !.todo = todo]
  <2>2. new.pc # "ingest"
    BY <1>2 DEF Task
  <2> HIDE DEF new
  <2> QED
    BY <1>1, <1>3, <1>4, <2>1, <2>2 DEF new
<1>8. CASE TakeSet(a)
  <2> DEFINE s == First(exec[a].todo)
             new1 == [exec[a] EXCEPT !.todo = @ \ {s}]
             new2 == [exec[a] EXCEPT !.pc = "fetched", !.set = s]
             new3 == [exec[a] EXCEPT !.pc = "fetching", !.set = s, !.body = mtgjson[s]]
  <2>1. Become(a, new1) \/ Become(a, new2) \/ Become(a, new3)
    BY <1>8 DEF TakeSet
  <2>2. new1.pc # "ingest" /\ new2.pc # "ingest" /\ new3.pc # "ingest"
    BY <1>2, <1>8 DEF Task, TakeSet, At
  <2> HIDE DEF new1, new2, new3
  <2> QED
    BY <1>1, <1>4, <2>1, <2>2
<1>9. CASE StoreFile(a)
  <2> DEFINE new == [exec[a] EXCEPT !.pc = "fetched", !.body = 0]
  <2>1. Become(a, new) /\ new.pc # "ingest"
    BY <1>2, <1>9 DEF StoreFile, Task
  <2> QED
    BY <1>1, <1>4, <2>1
<1>10. CASE MarkDone(a)
  <2> DEFINE new == [exec[a] EXCEPT !.pc = "work", !.todo = @ \ {exec[a].set}, !.set = 0, !.chunk = 0]
  <2>1. Become(a, new) /\ new.pc # "ingest"
    BY <1>2, <1>10 DEF MarkDone, Task
  <2> QED
    BY <1>1, <1>4, <2>1
<1>11. CASE Finish(a) \/ FinishCli(a) \/ Fails(a) \/ Crash(a)
  BY <1>1, <1>3, <1>11 DEF Finish, FinishCli, Fails, Crash
<1> QED
  BY <1>1, <1>5, <1>6, <1>7, <1>8, <1>9, <1>10, <1>11

LEMMA BeginShelf ==
  ASSUME Sound, Shelved, NEW a \in Executors, BeginIngest(a)
  PROVE  Shelved' /\ UNCHANGED <<mtgjson, catalog>>
<1> DEFINE s == exec[a].set
           draft == [catalog[s] EXCEPT !.edition = TRUE]
           new == [exec[a] EXCEPT !.pc = "ingest", !.body = fileCache[s], !.chunk = 1, !.draft = draft]
<1>1. UNCHANGED <<mtgjson, catalog>>
  BY DEF BeginIngest, remoteVars
<1>2. exec[a] \in Task /\ s \in Sets /\ catalog[s] \in SetRows
  BY OfExecutor DEF BeginIngest, At, Stage, Task, AtSet, Data
<1>3. CASE Become(a, Failed(a))
  BY <1>1, <1>3, StopShelf
<1>4. CASE Become(a, new)
  <2>1. draft.edition /\ draft.cards = catalog[s].cards
    BY <1>2 DEF SetRows
  <2>2. Bodies(draft, s)
    BY <1>2, <2>1 DEF Bodies, Shelved
  <2> HIDE DEF draft
  <2>3. new.draft = draft /\ new.set = s /\ new.chunk = 1
    BY <1>2 DEF Task
  <2> HIDE DEF new
  <2>4. \A n \in Nat : n >= 1 => ~(n <= (1 - 1) * BatchSize)
    BY DEF FileAssumption
  <2>5. HoldsUpTo(draft, s, new.body, (1 - 1) * BatchSize)
    BY <2>4 DEF HoldsUpTo
  <2>6. Draft(new)
    BY <2>1, <2>2, <2>3, <2>5 DEF Draft
  <2> QED
    BY <1>1, <1>2, <1>4, <2>3, <2>6, ShelfStep
<1> QED
  BY <1>1, <1>3, <1>4 DEF BeginIngest

LEMMA ChunkShelf ==
  ASSUME Sound, Shelved, FilesAreCards, UuidsStay, NEW a \in Executors, InsertChunk(a)
  PROVE  Shelved' /\ UNCHANGED <<mtgjson, catalog>>
<1> DEFINE s == exec[a].set
           v == exec[a].body
           n == exec[a].chunk
           old == exec[a].draft
           file == Content[s][v].cards
           chunk == Chunk(s, v, n)
           rows == Upserted(old, chunk, v)
           draft == WithWords(rows, chunk)
           new == [exec[a] EXCEPT !.chunk = @ + 1, !.draft = draft]
<1>1. UNCHANGED <<mtgjson, catalog>>
  BY DEF InsertChunk, remoteVars
<1>2. exec[a] \in Task /\ Stage(a, exec[a]) /\ Fetches(exec[a]) /\ Draft(exec[a]) /\ exec[a].pc = "ingest"
  BY OfExecutor DEF InsertChunk, At, Shelved
<1>3. CASE Become(a, Failed(a))
  BY <1>1, <1>3, StopShelf
<1>4. CASE ~Become(a, Failed(a))
  <2>1. Become(a, new) /\ ~Refused(old, chunk) /\ ~Dangling(rows, chunk)
    BY <1>4 DEF InsertChunk
  <2>2. /\ s \in Sets /\ Released(s, v) /\ n \in Nat \ {0} /\ v \in Nat /\ old \in SetRows
        /\ old.edition /\ Bodies(old, s) /\ HoldsUpTo(old, s, v, (n - 1) * BatchSize)
    BY <1>2 DEF Stage, Fetches, Draft, Task, AtSet
  <2>3. v \in 1..Len(Published[s])
    BY <2>2, ReleasedIsPublished
  <2>4. file \in Seq(RawCard) /\ Len(file) \in Nat /\ \A i \in 1..Len(file) : file[i] \in RawCard
    BY <2>2, <2>3, ContentType
  <2>5. /\ chunk \in Seq(RawCard)
        /\ Len(chunk) = (IF (n - 1) * BatchSize < Len(file)
                         THEN Smaller(n * BatchSize, Len(file)) - (n - 1) * BatchSize ELSE 0)
        /\ \A i \in 1..Len(chunk) : /\ chunk[i] \in RawCard
                                   /\ chunk[i] = file[(n - 1) * BatchSize + i]
    BY ONLY FilesAreCards, <2>2, <2>3, ChunkType
  <2>6. /\ new.pc = "ingest" /\ new.set = s /\ new.body = v /\ new.chunk = n + 1 /\ new.draft = draft
    BY <1>2 DEF Task
  <2> HIDE DEF chunk, new
  <2>12. Stamped(old, s)
    BY <2>2 DEF Bodies, Stamped
  <2>13. OfFile(chunk, s)
    <3> SUFFICES ASSUME NEW i \in 1..Len(chunk) PROVE Known(s, Key(chunk[i]), chunk[i].uuid)
      BY DEF OfFile
    <3> DEFINE j == (n - 1) * BatchSize + i
               lo == (n - 1) * BatchSize
    <3>1. chunk[i] = file[j]
      BY <2>5
    <3>0. BatchSize \in Nat \ {0} /\ n \in Nat \ {0}
      BY <2>2 DEF FileAssumption
    <3>2. lo \in Nat /\ n * BatchSize = lo + BatchSize
      BY ONLY <3>0, NextMultiple
    <3>4. Len(chunk) = (IF lo < Len(file) THEN Smaller(n * BatchSize, Len(file)) - lo ELSE 0)
      BY <2>5
    <3> HIDE DEF lo
    <3>5. lo + i \in 1..Len(file)
      <4> HIDE DEF file, j
      <4> QED
        BY <2>4, <3>0, <3>2, <3>4 DEF Smaller
    <3>6. file[lo + i] = chunk[i]
      BY <3>1 DEF lo
    <3> QED
      BY <2>3, <3>5, <3>6 DEF Known
  <2>7. /\ draft.edition = old.edition
        /\ \A i \in 1..Len(chunk) : HasCard(draft, chunk[i], v)
        /\ \A raw \in RawCard : HasCard(old, raw, v) => HasCard(draft, raw, v)
        /\ \A k \in Keys : draft.cards[k] # NoCard => draft.cards[k].body = v \/ draft.cards[k] = old.cards[k]
        /\ Stamped(draft, s)
    BY ONLY UuidsStay, <2>1, <2>2, <2>5, <2>12, <2>13, ChunkIsHeld DEF rows, draft
  <2> HIDE DEF rows, draft
  <2>8. Bodies(draft, s)
    BY <2>2, <2>7 DEF Bodies, Stamped
  <2>9. HoldsUpTo(draft, s, v, n * BatchSize)
    <3> DEFINE lo == (n - 1) * BatchSize
    <3>0. BatchSize \in Nat \ {0} /\ n \in Nat \ {0}
      BY <2>2 DEF FileAssumption
    <3>1. lo \in Nat /\ n * BatchSize = lo + BatchSize /\ BatchSize \in Nat \ {0}
      BY ONLY <3>0, NextMultiple
    <3>2. ASSUME NEW i \in 1..Len(file), i <= n * BatchSize PROVE HasCard(draft, file[i], v)
      <4>1. CASE i <= lo
        <5>1. HasCard(old, file[i], v)
          BY <2>2, <4>1 DEF HoldsUpTo
        <5> QED
          BY <2>4, <2>7, <5>1
      <4>2. CASE ~(i <= lo)
        <5> HIDE DEF lo, file
        <5>1. i - lo \in 1..Len(chunk) /\ lo + (i - lo) = i
          BY <2>4, <2>5, <3>1, <3>2, <4>2 DEF Smaller, lo
        <5>2. chunk[i - lo] = file[i]
          BY <2>5, <5>1 DEF lo
        <5> QED
          BY <2>7, <5>1, <5>2
      <4> QED
        BY <4>1, <4>2
    <3> QED
      BY <3>2 DEF HoldsUpTo
  <2>10. (n + 1) - 1 = n
    BY <2>2
  <2>11. Draft(new)
    BY <2>2, <2>6, <2>7, <2>8, <2>9, <2>10 DEF Draft
  <2> QED
    BY <1>1, <2>1, <2>2, <2>6, <2>11, ShelfStep
<1> QED
  BY <1>1, <1>3, <1>4

LEMMA EndShelf ==
  ASSUME Sound, Shelved, FilesAreCards, NEW a \in Executors, EndIngest(a),
         NEW s \in Sets, NEW v, exec[a].set = s, exec[a].body = v
  PROVE  /\ Shelved' /\ UNCHANGED mtgjson
         /\ \/ Content[s][v].raises /\ UNCHANGED catalog
            \/ /\ \A t \in Sets \ {s} : catalog'[t] = catalog[t]
               /\ catalog'[s].edition
               /\ Released(s, v) /\ ~Content[s][v].raises
               /\ Holds(s, v)'
<1> DEFINE e == exec[a]
           file == Content[s][v]
<1>1. UNCHANGED mtgjson
  BY DEF EndIngest, remoteVars
<1>2. exec[a] \in Task /\ Stage(a, exec[a]) /\ Fetches(exec[a]) /\ Draft(exec[a]) /\ exec[a].pc = "ingest"
      /\ catalog \in [Sets -> SetRows]
  BY OfExecutor DEF EndIngest, At, Shelved, Data
<1>5. Grows
  BY <1>1, SameGrows
<1>3. CASE file.raises
  <2>1. UNCHANGED catalog /\ Become(a, Failed(a))
    BY <1>3 DEF EndIngest
  <2> QED
    BY <1>1, <1>3, <2>1, StopShelf
<1>4. CASE ~file.raises
  <2>1. /\ catalog' = [catalog EXCEPT ![s] = e.draft]
        /\ ~HasChunk(s, v, e.chunk)
    BY <1>4 DEF EndIngest
  <2>2. /\ s \in Sets /\ Released(s, v) /\ e.chunk \in Nat \ {0} /\ e.draft.edition
        /\ Bodies(e.draft, s) /\ HoldsUpTo(e.draft, s, v, (e.chunk - 1) * BatchSize)
    BY <1>2 DEF Stage, Fetches, Draft, Task, AtSet
  <2>3. v \in 1..Len(Published[s])
    BY <2>2, ReleasedIsPublished
  <2>4. Len(file.cards) \in Nat
    BY <2>2, <2>3, ContentType
  <2>5. Len(file.cards) <= (e.chunk - 1) * BatchSize /\ (e.chunk - 1) * BatchSize \in Nat
    <3>1. (e.chunk - 1) * BatchSize \in Nat
      <4>1. e.chunk - 1 \in Nat /\ BatchSize \in Nat
        BY <2>2 DEF FileAssumption
      <4> HIDE DEF e
      <4> QED
        BY ONLY <4>1
    <3>2. ~((e.chunk - 1) * BatchSize < Len(file.cards))
      BY <1>4, <2>1 DEF HasChunk
    <3> QED
      BY <2>4, <3>1, <3>2
  <2>6. catalog'[s] = e.draft /\ \A t \in Sets \ {s} : catalog'[t] = catalog[t]
    BY <1>2, <2>1, <2>2
  <2>7. \A i \in 1..Len(file.cards) : HasCard(e.draft, file.cards[i], v)
    <3> DEFINE lo == (e.chunk - 1) * BatchSize
    <3>1. \A i \in 1..Len(file.cards) : i <= lo => HasCard(e.draft, file.cards[i], v)
      BY <2>2 DEF HoldsUpTo
    <3>2. Len(file.cards) <= lo /\ lo \in Nat
      BY <2>5
    <3> HIDE DEF lo, file
    <3>3. \A i \in 1..Len(file.cards) : i <= lo
      BY <2>4, <3>2
    <3> QED
      BY <3>1, <3>3
  <2>8. Holds(s, v)'
    BY <2>6, <2>7 DEF Holds, HasCard
  <2>9. Bodies(catalog[s], s)' /\ Whole(s)'
    <3>1. Bodies(catalog[s], s)'
      BY <1>1, <2>2, <2>6 DEF Bodies, Released
    <3>2. Released(s, v)'
      BY <1>1, <2>2 DEF Released
    <3> QED
      BY <1>4, <2>3, <2>8, <3>1, <3>2 DEF Whole
  <2>10. \A t \in Sets : Bodies(catalog[t], t)' /\ Whole(t)'
    BY <1>5, <2>6, <2>9, BodiesKept, WholeKept DEF Shelved
  <2>11. ASSUME NEW b \in Executors PROVE Draft(exec[b])'
    <3>1. PICK task : Become(a, task) /\ task.pc # "ingest"
      <4> DEFINE new1 == [e EXCEPT !.pc = "ingested", !.draft = NoRows, !.body = 0, !.chunk = Len(file.cards)]
                 new2 == [e EXCEPT !.pc = "work", !.draft = NoRows, !.body = 0, !.chunk = 0,
                                   !.set = 0, !.todo = @ \ {e.set}]
      <4>1. Become(a, new1) \/ Become(a, new2)
        BY <1>4 DEF EndIngest
      <4>2. new1.pc # "ingest" /\ new2.pc # "ingest"
        BY <1>2 DEF Task
      <4> HIDE DEF new1, new2
      <4> QED
        BY <4>1, <4>2
    <3>2. exec'[a] = task /\ (b # a => exec'[b] = exec[b])
      BY <3>1, Becomes DEF Sound
    <3>3. CASE b = a
      <4>1. exec'[b].pc # "ingest"
        BY <3>1, <3>2, <3>3
      <4> QED
        BY <4>1 DEF Draft
    <3>4. CASE b # a
      BY <1>5, <3>2, <3>4, OtherDraft
    <3> QED
      BY <3>3, <3>4
  <2>12. Shelved'
    BY <2>10, <2>11 DEF Shelved
  <2> QED
    BY <1>1, <1>4, <2>2, <2>6, <2>8, <2>12
<1> QED
  BY <1>3, <1>4

--------------------------------------------------------------------------------
(* The version of a set in the catalog.                                      *)

Versions(s) == {v \in 1..Len(Published[s]) : ~Content[s][v].raises /\ Holds(s, v)}

LEMMA ShelfIsNewest ==
  ASSUME NEW s \in Sets, catalog[s].edition, NEW v \in Versions(s)
  PROVE  Shelf(s) \in Versions(s) /\ \A u \in Versions(s) : u <= Shelf(s)
<1>1. Versions(s) \subseteq 1..Len(Published[s]) /\ Len(Published[s]) \in Nat
  BY PublishedType DEF Versions
<1> DEFINE B == {Len(Published[s]) - u : u \in Versions(s)}
<1>2. B \in SUBSET Nat /\ B # {}
  BY <1>1
<1>3. PICK n \in B : \A m \in B : n <= m
  BY <1>2, LeastNat
<1>4. PICK w \in Versions(s) : n = Len(Published[s]) - w
  BY <1>3
<1>5. \A u \in Versions(s) : u <= w
  <2> SUFFICES ASSUME NEW u \in Versions(s) PROVE u <= w
    OBVIOUS
  <2>1. n <= Len(Published[s]) - u
    BY <1>3
  <2> QED
    BY <1>1, <1>4, <2>1
<1>6. Shelf(s) = CHOOSE w0 \in Versions(s) : \A u \in Versions(s) : u <= w0
  BY DEF Shelf, Versions
<1> QED
  BY <1>5, <1>6

LEMMA ShelfIsReleased ==
  ASSUME FilesAreCards, PreviewsEnd, NoneIsEmpty
  PROVE  Sound /\ Shelved => \A s \in Sets : catalog[s].edition => Released(s, Shelf(s))
<1> SUFFICES ASSUME Sound, Shelved, NEW s \in Sets, catalog[s].edition PROVE Released(s, Shelf(s))
  OBVIOUS
<1>1. PICK v \in 1..Len(Published[s]) : Released(s, v) /\ ~Content[s][v].raises /\ Holds(s, v)
  BY DEF Shelved, Whole
<1>2. v \in Versions(s)
  BY <1>1 DEF Versions
<1>3. PICK u : u = Shelf(s)
  OBVIOUS
<1>4. u \in Versions(s) /\ v <= u
  BY <1>2, <1>3, ShelfIsNewest
<1>5. u \in 1..Len(Published[s]) /\ ~Content[s][u].raises /\ Holds(s, u)
  BY <1>4 DEF Versions
<1>6. ~Published[s][u].preview
  BY <1>1, <1>4, <1>5 DEF PreviewsEnd, Released
<1>7. Content[s][u].cards # <<>>
  BY <1>5, <1>6 DEF NoneIsEmpty
<1>8. Content[s][u].cards \in Seq(RawCard) /\ Len(Content[s][u].cards) \in Nat
  BY <1>5, ContentType
<1>9. 1 \in 1..Len(Content[s][u].cards)
  BY <1>7, <1>8, EmptySeq
<1> DEFINE raw == Content[s][u].cards[1]
<1>10. raw \in RawCard
  BY <1>8, <1>9, ElementOfSeq
<1>11. Key(raw) \in Keys
  BY <1>10, KeyType
<1>12. catalog[s].cards[Key(raw)] # NoCard /\ catalog[s].cards[Key(raw)].body = u
  BY <1>5, <1>9 DEF Holds
<1>14. Bodies(catalog[s], s)
  BY DEF Shelved
<1>13. Released(s, u)
  BY <1>11, <1>12, <1>14 DEF Bodies
<1> QED
  BY <1>3, <1>13

LEMMA InitShelved == Init => Shelved
<1> SUFFICES ASSUME Init PROVE Shelved
  OBVIOUS
<1>1. ASSUME NEW s \in Sets PROVE Bodies(catalog[s], s) /\ Whole(s)
  <2>1. ~catalog[s].edition /\ \A k \in Keys : catalog[s].cards[k] = NoCard
    BY DEF Init, NoRows
  <2> QED
    BY <2>1 DEF Bodies, Whole
<1>2. ASSUME NEW a \in Executors PROVE Draft(exec[a])
  BY DEF Init, Draft, Idle
<1> QED
  BY <1>1, <1>2 DEF Shelved

LEMMA FilingShelf ==
  ASSUME Sound, Shelved,
         \/ \E j \in Jobs, codes \in Requests : EnqueueFetch(j, codes)
         \/ \E j \in Jobs : SendFetch(j) \/ Redeliver(j)
         \/ \E c \in Shells, refresh \in Requests \cup {{}} : StartShell(c, refresh)
         \/ \E w \in Workers, j \in Jobs : StartJob(w, j)
         \/ UNCHANGED vars
  PROVE  Shelved' /\ UNCHANGED <<mtgjson, catalog>>
<1>1. UNCHANGED <<mtgjson, catalog>>
  BY DEF EnqueueFetch, SendFetch, Redeliver, StartShell, StartJob, remoteVars, vars
<1>2. ASSUME exec' = exec PROVE Shelved'
  <2>1. Grows
    BY <1>1, SameGrows
  <2>2. \A s \in Sets : Bodies(catalog[s], s)' /\ Whole(s)'
    BY <1>1, <2>1, BodiesKept, WholeKept DEF Shelved
  <2>3. \A b \in Executors : Draft(exec[b])'
    BY <1>2, <2>1, OtherDraft
  <2> QED
    BY <2>2, <2>3 DEF Shelved
<1>3. ASSUME NEW a \in Executors, NEW new, Become(a, new), new.pc = "list" PROVE Shelved'
  BY <1>1, <1>3, PlainShelf
<1>4. ASSUME NEW c \in Shells, NEW refresh \in Requests \cup {{}}, StartShell(c, refresh) PROVE Shelved'
  <2> DEFINE new == [Idle EXCEPT !.pc = "list", !.refresh = refresh, !.existing = InCatalog]
  <2>1. Become(c, new) /\ new.pc = "list" /\ c \in Executors
    BY <1>4 DEF StartShell, Idle, Executors
  <2> HIDE DEF new
  <2> QED
    BY <1>3, <2>1
<1>5. ASSUME NEW w \in Workers, NEW j \in Jobs, StartJob(w, j) PROVE Shelved'
  <2> DEFINE new == [Idle EXCEPT !.pc = "list", !.job = j]
  <2>1. (exec' = exec \/ Become(w, new)) /\ new.pc = "list" /\ w \in Executors
    BY <1>5 DEF StartJob, Idle, Executors
  <2> HIDE DEF new
  <2> QED
    BY <1>2, <1>3, <2>1
<1>6. ASSUME \/ \E j \in Jobs, codes \in Requests : EnqueueFetch(j, codes)
             \/ \E j \in Jobs : SendFetch(j) \/ Redeliver(j)
             \/ UNCHANGED vars
      PROVE  Shelved'
  <2>1. exec' = exec
    BY <1>6 DEF EnqueueFetch, SendFetch, Redeliver, vars
  <2> QED
    BY <1>2, <2>1
<1> QED
  BY <1>1, <1>4, <1>5, <1>6

OnlySet(s) == catalog'[s].edition /\ \A t \in Sets \ {s} : catalog'[t] = catalog[t]

LEMMA IngestShelf ==
  ASSUME Sound, Shelved, FilesAreCards, NEW a \in Executors, EndIngest(a)
  PROVE  /\ Shelved' /\ UNCHANGED mtgjson
         /\ UNCHANGED catalog \/ \E s \in Sets : OnlySet(s)
<1>1. exec[a].set \in Sets
  BY OfExecutor DEF EndIngest, At, Stage, Task, AtSet
<1> SUFFICES ASSUME NEW s \in Sets, NEW v, exec[a].set = s, exec[a].body = v
             PROVE  /\ Shelved' /\ UNCHANGED mtgjson
                    /\ UNCHANGED catalog \/ \E t \in Sets : OnlySet(t)
  BY <1>1
<1> QED
  BY EndShelf DEF OnlySet

(* The catalog changes by one set, or not at all.                            *)
LEMMA ShelvedStep ==
  ASSUME FilesAreCards, PreviewsEnd, UuidsStay, Sound, Shelved, [Next]_vars
  PROVE  /\ Shelved'
         /\ \/ UNCHANGED <<mtgjson, catalog>>
            \/ UNCHANGED catalog /\ \A s \in Sets : mtgjson'[s] \in mtgjson[s]..Len(Published[s])
            \/ UNCHANGED mtgjson /\ \E s \in Sets : OnlySet(s)
<1> DEFINE P == /\ Shelved'
                /\ \/ UNCHANGED <<mtgjson, catalog>>
                   \/ UNCHANGED catalog /\ \A s \in Sets : mtgjson'[s] \in mtgjson[s]..Len(Published[s])
                   \/ UNCHANGED mtgjson /\ \E s \in Sets : OnlySet(s)
<1>1. ASSUME Shelved', UNCHANGED <<mtgjson, catalog>> PROVE P
  BY <1>1
<1>2. ASSUME NEW a \in Executors, Step(a) \/ Fails(a) \/ Crash(a) PROVE P
  <2>1. ASSUME EndIngest(a) PROVE P
    BY <2>1, IngestShelf
  <2> HIDE DEF P
  <2> QED
    BY <1>1, <1>2, <2>1, WorkShelf, BeginShelf, ChunkShelf DEF Step
<1>3. ASSUME Publish PROVE P
  BY <1>3, PublishShelf
<1>4. ASSUME \/ \E j \in Jobs, codes \in Requests : EnqueueFetch(j, codes)
             \/ \E j \in Jobs : SendFetch(j) \/ Redeliver(j)
             \/ \E c \in Shells, refresh \in Requests \cup {{}} : StartShell(c, refresh)
             \/ \E w \in Workers, j \in Jobs : StartJob(w, j)
             \/ UNCHANGED vars
      PROVE  P
  BY <1>1, <1>4, FilingShelf
<1> HIDE DEF P
<1>5. P
  BY <1>2, <1>3, <1>4 DEF Next
<1> QED
  BY <1>5 DEF P

LEMMA SameVersion ==
  ASSUME NEW s \in Sets, catalog'[s] = catalog[s]
  PROVE  Shelf(s)' = Shelf(s)
<1>1. \A v : Holds(s, v)' <=> Holds(s, v)
  BY DEF Holds
<1>2. Versions(s)' = Versions(s)
  BY <1>1 DEF Versions
<1>3. Shelf(s) = IF ~catalog[s].edition THEN 0 ELSE IF Versions(s) = {} THEN -1
                 ELSE CHOOSE v \in Versions(s) : \A u \in Versions(s) : u <= v
  BY DEF Shelf, Versions
<1>4. Shelf(s)' = IF ~catalog'[s].edition THEN 0 ELSE IF Versions(s)' = {} THEN -1
                  ELSE CHOOSE v \in Versions(s)' : \A u \in Versions(s)' : u <= v
  BY DEF Shelf, Versions
<1> HIDE DEF Versions
<1> QED
  BY <1>2, <1>3, <1>4

LEMMA ShelvesStep ==
  ASSUME FilesAreCards, PreviewsEnd, NoneIsEmpty, UuidsStay, Sound, Shelved, [Next]_vars,
         \A s \in Sets : catalog'[s].edition => Released(s, Shelf(s))'
  PROVE  [Shelves!Next]_<<mtgjson, [s \in Sets |-> Shelf(s)]>>
<1> DEFINE shelf == [s \in Sets |-> Shelf(s)]
<1>1. ASSUME NEW s \in Sets, catalog'[s] = catalog[s] PROVE Shelf(s)' = Shelf(s)
  BY <1>1, SameVersion
<1>2. CASE UNCHANGED <<mtgjson, catalog>>
  <2>1. UNCHANGED shelf
    BY <1>1, <1>2
  <2> QED
    BY <1>2, <2>1
<1>3. CASE UNCHANGED catalog /\ \A s \in Sets : mtgjson'[s] \in mtgjson[s]..Len(Published[s])
  <2>1. UNCHANGED shelf
    BY <1>1, <1>3
  <2>2. Shelves!Publish
    BY <1>3, <2>1 DEF Shelves!Publish
  <2> QED
    BY <2>2 DEF Shelves!Next
<1>4. CASE UNCHANGED mtgjson /\ \E s \in Sets : OnlySet(s)
  <2>1. PICK s \in Sets : OnlySet(s)
    BY <1>4
  <2>2. \A t \in Sets \ {s} : Shelf(t)' = Shelf(t)
    BY <1>1, <2>1 DEF OnlySet
  <2>3. catalog'[s].edition
    BY <2>1 DEF OnlySet
  <2>4. Released(s, Shelf(s))'
    BY <2>3
  <2>5. Shelf(s)' \in {v \in 1..mtgjson[s] : ~Published[s][v].preview}
    BY <1>4, <2>4 DEF Released
  <2>6. Shelves!Ingest
    BY <1>4, <2>2, <2>5 DEF Shelves!Ingest
  <2> QED
    BY <2>6 DEF Shelves!Next
<1> QED
  BY <1>2, <1>3, <1>4, ShelvedStep

LEMMA InitShelves == Init => Shelves!Init
  BY DEF Init, Shelves!Init, Shelf, NoRows

(* Every set is in the catalog as one whole released version or not at all,  *)
(* for any files, jobs, workers, shells, crashes, redeliveries and failures, *)
(* and for two ingests of one set at once, as long as MTGJSON leaves a uuid  *)
(* with its printing and side: PostgreSQL does not look at the uuid of a     *)
(* card whose row is there, and its words would go to another.               *)
THEOREM FetchImplementsShelf ==
  ASSUME FilesAreCards, PreviewsEnd, NoneIsEmpty, UuidsStay
  PROVE  Spec => ImplementsShelf
<1> DEFINE Fine == \A s \in Sets : catalog[s].edition => Released(s, Shelf(s))
<1>1. Sound /\ Shelved => Fine
  BY ShelfIsReleased
<1>2. Sound /\ Shelved /\ [Next]_vars => Sound' /\ Shelved'
  BY SoundInvariant, ShelvedStep
<1>3. Sound /\ Shelved /\ [Next]_vars /\ Fine' => [Shelves!Next]_<<mtgjson, [s \in Sets |-> Shelf(s)]>>
  BY ShelvesStep
<1> HIDE DEF Fine
<1> QED
  BY <1>1, <1>2, <1>3, InitSound, InitShelved, InitShelves, PTL DEF Spec, ImplementsShelf, Shelves!Spec

--------------------------------------------------------------------------------
(* Delivery, with one worker.  No shell runs while a version is owed, so     *)
(* that the file the worker is about to ingest was downloaded after every    *)
(* request that is or will be told that the set is done.                     *)

OneWorker == \A v, w \in Workers : v = w

DoneWith(j, s) == job[j].rows[s].state = "done" /\ job[j].rows[s].count > 0

Met(j, s) == catalog[s].edition /\ owed[j][s] <= Shelf(s)

Newer(e, v) == \A j \in Jobs : j = e.job \/ DoneWith(j, e.set) => owed[j][e.set] <= v

Fresh(e) ==
  /\ e.pc \in {"fetching", "ingest"} => Newer(e, e.body)
  /\ e.pc = "fetched" => Newer(e, fileCache[e.set])
  /\ e.pc = "ingested" => Met(e.job, e.set)

NoneOwed == \A j \in Jobs, s \in Sets : owed[j][s] = 0

Delivery ==
  /\ \A j \in Jobs, s \in Sets : owed[j][s] <= mtgjson[s]
  /\ (\E c \in Shells : exec[c].pc # "idle") => NoneOwed
  /\ \A j \in Jobs, s \in Sets : DoneWith(j, s) => Met(j, s)
  /\ \A w \in Workers : Fresh(exec[w])

(* The version in the catalog is one that is there, or 0.                    *)
OnShelf == \A s \in Sets : catalog[s].edition => Released(s, Shelf(s))

LEMMA DoneIsMet == Sound /\ Delivery => DoneIsDelivered
  BY DEF Sound, Typed, Data, Delivery, DoneIsDelivered, DoneWith, Met, JobRow, EditionState

NewestHeld ==
  \A s \in Sets : \A v \in 1..Len(Published[s]) :
    catalog[s].edition /\ ~Content[s][v].raises /\ Holds(s, v) => v <= Shelf(s)

LEMMA ShelfHoldsNewest == NewestHeld
  BY ShelfIsNewest DEF NewestHeld, Versions

(* Nothing is owed: what is done has to be in the catalog, and stays there.  *)
LEMMA NoneOwedStep ==
  ASSUME Sound, Delivery, NoneOwed', Sound', OnShelf', UNCHANGED job,
         \A w \in Workers : exec'[w] = exec[w],
         \A s \in Sets : catalog[s].edition => catalog'[s].edition
  PROVE  Delivery'
<1>1. \A j \in Jobs, s \in Sets : owed'[j][s] = 0
  BY DEF NoneOwed
<1>2. \A s \in Sets : mtgjson'[s] \in Nat /\ fileCache'[s] \in Nat
  BY DEF Sound, Typed, Data
<1>3. ASSUME NEW j \in Jobs, NEW s \in Sets, catalog[s].edition PROVE Met(j, s)'
  <2>1. catalog'[s].edition /\ Released(s, Shelf(s))'
    BY <1>3 DEF OnShelf
  <2>2. Shelf(s)' >= 0
    BY <1>2, <2>1 DEF Released
  <2> QED
    BY <1>1, <2>1, <2>2 DEF Met
<1>4. \A j \in Jobs, s \in Sets : DoneWith(j, s)' => Met(j, s)'
  BY <1>3 DEF Delivery, DoneWith, Met
<1>5. ASSUME NEW w \in Workers PROVE Fresh(exec[w])'
  <2>1. Fresh(exec[w]) /\ exec'[w] = exec[w] /\ exec[w] \in Task /\ Stage(w, exec[w]) /\ w \in Executors
    BY OfExecutor DEF Delivery, Executors
  <2>2. exec[w].pc \in AtSet => exec[w].set \in Sets /\ exec[w].job \in Jobs
    BY <2>1 DEF Stage, Task, AtSet
  <2>3. exec[w].body \in Nat
    BY <2>1 DEF Task
  <2>4. exec[w].pc \in {"fetching", "ingest"} => Newer(exec[w], exec[w].body)'
    BY <1>1, <2>1, <2>2, <2>3 DEF Newer, AtSet
  <2>5. exec[w].pc = "fetched" => Newer(exec[w], fileCache[exec[w].set])'
    BY <1>1, <1>2, <2>1, <2>2 DEF Newer, AtSet
  <2>6. exec[w].pc = "ingested" => Met(exec[w].job, exec[w].set)'
    <3> SUFFICES ASSUME exec[w].pc = "ingested" PROVE Met(exec[w].job, exec[w].set)'
      OBVIOUS
    <3>1. PICK j \in Jobs, s \in Sets : exec[w].job = j /\ exec[w].set = s
      BY <2>2 DEF AtSet
    <3>2. catalog[s].edition
      BY <2>1, <3>1 DEF Fresh, Met
    <3>3. Met(j, s)'
      BY <1>3, <3>2
    <3>4. exec'[w].job = j /\ exec'[w].set = s
      BY <2>1, <3>1
    <3> QED
      BY <3>3, <3>4 DEF Met
  <2> QED
    BY <2>1, <2>4, <2>5, <2>6 DEF Fresh
<1> QED
  BY <1>1, <1>2, <1>4, <1>5 DEF Delivery, NoneOwed

(* A step of the worker, which is the only one.                              *)
LEMMA WorkerStep ==
  ASSUME Sound, Delivery, OneWorker, NEW w \in Workers, Fresh(exec[w])',
         \A b \in Executors \ {w} : exec'[b] = exec[b],
         UNCHANGED <<owed, mtgjson>>,
         \A j \in Jobs, s \in Sets : DoneWith(j, s)' => Met(j, s)'
  PROVE  Delivery'
<1>1. \A c \in Shells : exec'[c] = exec[c]
  BY DEF Executors, FetchAssumption
<1>2. \A v \in Workers : Fresh(exec[v])'
  <2>1. \A v \in Workers : v = w
    BY DEF OneWorker
  <2> QED
    BY <2>1
<1> QED
  BY <1>1, <1>2 DEF Delivery, NoneOwed

LEMMA AwayIsFresh ==
  ASSUME NEW w, exec'[w].pc \notin AtSet
  PROVE  Fresh(exec[w])'
  BY DEF Fresh, AtSet

(* Where the other steps leave an executor.                                  *)
LEMMA AwayFromSet ==
  ASSUME Sound, NEW a \in Executors,
         DownloadList(a) \/ StoreList(a) \/ Plan(a) \/ MarkDone(a) \/ Finish(a) \/ FinishCli(a)
           \/ Fails(a) \/ Crash(a) \/ Become(a, Failed(a))
  PROVE  exec'[a].pc \notin AtSet /\ \A b \in Executors \ {a} : exec'[b] = exec[b]
<1>1. exec[a] \in Task
  BY OfExecutor
<1>2. ASSUME NEW new, Become(a, new), new.pc \notin AtSet
      PROVE  exec'[a].pc \notin AtSet /\ \A b \in Executors \ {a} : exec'[b] = exec[b]
  BY <1>2, Becomes DEF Sound
<1>3. Idle.pc \notin AtSet /\ Failed(a).pc \notin AtSet
  BY DEF Idle, Failed, AtSet
<1>4. CASE DownloadList(a)
  <2> DEFINE new == [exec[a] EXCEPT !.pc = "listing", !.list = mtgjson]
  <2>1. Become(a, new) /\ new.pc \notin AtSet
    BY <1>1, <1>4 DEF DownloadList, Task, AtSet
  <2> QED
    BY <1>2, <2>1
<1>5. CASE StoreList(a)
  <2> DEFINE new == [exec[a] EXCEPT !.pc = "listed", !.list = NoList]
  <2>1. Become(a, new) /\ new.pc \notin AtSet
    BY <1>1, <1>5 DEF StoreList, Task, AtSet
  <2> QED
    BY <1>2, <2>1
<1>6. CASE Plan(a)
  <2>1. PICK todo : Become(a, Failed(a)) \/
                    Become(a, [exec[a] EXCEPT !.pc = "work", !.existing = {}, !.todo = todo])
    BY <1>6 DEF Plan
  <2> DEFINE new == [exec[a] EXCEPT !.pc = "work", !.existing = {}, !.todo = todo]
  <2>2. new.pc \notin AtSet
    BY <1>1 DEF Task, AtSet
  <2> HIDE DEF new
  <2> QED
    BY <1>2, <1>3, <2>1, <2>2 DEF new
<1>7. CASE MarkDone(a)
  <2> DEFINE new == [exec[a] EXCEPT !.pc = "work", !.todo = @ \ {exec[a].set}, !.set = 0, !.chunk = 0]
  <2>1. Become(a, new) /\ new.pc \notin AtSet
    BY <1>1, <1>7 DEF MarkDone, Task, AtSet
  <2> QED
    BY <1>2, <2>1
<1>8. CASE Finish(a) \/ FinishCli(a) \/ Fails(a) \/ Crash(a) \/ Become(a, Failed(a))
  <2>1. Become(a, Idle) \/ Become(a, Failed(a))
    BY <1>8 DEF Finish, FinishCli, Fails, Crash
  <2> HIDE DEF AtSet
  <2> QED
    BY <1>2, <1>3, <2>1
<1> QED
  BY <1>4, <1>5, <1>6, <1>7, <1>8

LEMMA StillMet ==
  ASSUME NEW j \in Jobs, NEW s \in Sets, Met(j, s), catalog'[s] = catalog[s], UNCHANGED owed
  PROVE  Met(j, s)'
  BY SameVersion DEF Met

(* A step of the worker away from a set, with the catalog as it is.          *)
LEMMA AwayDelivery ==
  ASSUME Sound, Delivery, OneWorker, NEW w \in Workers,
         DownloadList(w) \/ StoreList(w) \/ Plan(w) \/ MarkDone(w) \/ Finish(w) \/ FinishCli(w)
           \/ Fails(w) \/ Crash(w) \/ Become(w, Failed(w)),
         UNCHANGED <<owed, mtgjson, catalog>>,
         \A j \in Jobs, s \in Sets : DoneWith(j, s)' => Met(j, s)
  PROVE  Delivery'
<1>1. w \in Executors
  BY DEF Executors
<1>2. exec'[w].pc \notin AtSet /\ \A b \in Executors \ {w} : exec'[b] = exec[b]
  BY <1>1, AwayFromSet
<1>3. Fresh(exec[w])'
  BY <1>2, AwayIsFresh
<1>4. \A j \in Jobs, s \in Sets : DoneWith(j, s)' => Met(j, s)'
  BY StillMet
<1> QED
  BY <1>2, <1>3, <1>4, WorkerStep

LEMMA WorkDelivery ==
  ASSUME Sound, Delivery, OneWorker, NEW w \in Workers,
         DownloadList(w) \/ StoreList(w) \/ Plan(w) \/ Fails(w) \/ Crash(w) \/ FinishCli(w)
  PROVE  Delivery'
<1>1. UNCHANGED <<owed, mtgjson, catalog, job>>
  BY DEF DownloadList, StoreList, Plan, Fails, Crash, FinishCli, remoteVars, jobVars
<1>2. \A j \in Jobs, s \in Sets : DoneWith(j, s)' => Met(j, s)
  BY <1>1 DEF DoneWith, Delivery
<1> QED
  BY <1>1, <1>2, AwayDelivery

LEMMA FinishDelivery ==
  ASSUME Sound, Runs, Delivery, OneWorker, NEW w \in Workers, Finish(w)
  PROVE  Delivery'
<1>1. UNCHANGED <<owed, mtgjson, catalog>>
  BY DEF Finish, remoteVars
<1>2. job' = [job EXCEPT ![exec[w].job] = Ended(exec[w].job, exec[w].failed)]
  BY DEF Finish
<1>3. exec[w].job \in Jobs /\ job \in [Jobs -> JobRow]
  BY RunsOf DEF Finish, At
<1>4. ASSUME NEW j \in Jobs, NEW s \in Sets, DoneWith(j, s)' PROVE DoneWith(j, s)
  <2>1. CASE j # exec[w].job
    BY <1>2, <1>3, <1>4, <2>1 DEF DoneWith
  <2>2. CASE j = exec[w].job
    <3>1. job'[j].rows = Settled(j)
      BY <1>2, <1>3, <2>2 DEF Ended
    <3>2. Settled(j)[s] = IF s \in Orphans(j) THEN [state |-> "done", count |-> 0] ELSE job[j].rows[s]
      BY DEF Settled
    <3> QED
      BY <1>4, <3>1, <3>2 DEF DoneWith
  <2> QED
    BY <2>1, <2>2
<1>5. \A j \in Jobs, s \in Sets : DoneWith(j, s)' => Met(j, s)
  BY <1>4 DEF Delivery
<1> QED
  BY <1>1, <1>5, AwayDelivery

LEMMA MarkDoneDelivery ==
  ASSUME Sound, Runs, Delivery, OneWorker, NEW w \in Workers, MarkDone(w)
  PROVE  Delivery'
<1> DEFINE e == exec[w]
           done == [state |-> "done", count |-> e.chunk]
<1>1. UNCHANGED <<owed, mtgjson, catalog>>
  BY DEF MarkDone, remoteVars
<1>2. exec[w].job \in Jobs /\ job \in [Jobs -> JobRow] /\ exec[w].set \in Sets /\ Met(exec[w].job, exec[w].set)
  BY RunsOf DEF MarkDone, At, Delivery, Fresh, Stage, Task, AtSet
<1>3. job' = [job EXCEPT ![e.job].rows = [@ EXCEPT ![e.set] = done]]
  BY DEF MarkDone
<1>4. ASSUME NEW j \in Jobs, NEW s \in Sets, DoneWith(j, s)', j # e.job \/ s # e.set PROVE DoneWith(j, s)
  <2>1. job[j] \in JobRow
    BY <1>2
  <2>2. job'[j].rows[s] = job[j].rows[s]
    BY <1>2, <1>3, <1>4, <2>1 DEF JobRow
  <2> QED
    BY <1>4, <2>2 DEF DoneWith
<1>5. \A j \in Jobs, s \in Sets : DoneWith(j, s)' => Met(j, s)
  BY <1>2, <1>4 DEF Delivery
<1> QED
  BY <1>1, <1>5, AwayDelivery

(* The worker goes on with the set it is at.                                 *)
LEMMA NewerKept ==
  ASSUME NEW w, NEW v, Newer(exec[w], v), UNCHANGED <<owed, job>>,
         exec'[w].job = exec[w].job, exec'[w].set = exec[w].set
  PROVE  \A j \in Jobs : j = exec'[w].job \/ DoneWith(j, exec[w].set)' => owed'[j][exec'[w].set] <= v
  BY DEF Newer, DoneWith

LEMMA IngestDelivery ==
  ASSUME Sound, Delivery, OneWorker, NEW w \in Workers,
         StoreFile(w) \/ BeginIngest(w) \/ InsertChunk(w)
  PROVE  Delivery'
<1>1. UNCHANGED <<owed, mtgjson, catalog, job>>
  BY DEF StoreFile, BeginIngest, InsertChunk, remoteVars, jobVars
<1>2. \A j \in Jobs, s \in Sets : DoneWith(j, s)' => Met(j, s)
  BY <1>1 DEF DoneWith, Delivery
<1>3. w \in Executors /\ exec[w] \in Task /\ Fresh(exec[w]) /\ fileCache \in [Sets -> Nat]
      /\ (exec[w].pc \in AtSet => exec[w].set \in Sets)
  BY OfExecutor DEF Delivery, Executors, Data, Stage, Task, AtSet
<1>4. ASSUME Become(w, Failed(w)) PROVE Delivery'
  BY <1>1, <1>2, <1>4, AwayDelivery
<1>5. ASSUME NEW new, Become(w, new), Fresh(exec[w])' PROVE Delivery'
  <2>1. \A b \in Executors \ {w} : exec'[b] = exec[b]
    BY <1>3, <1>5, Becomes DEF Sound
  <2>2. \A j \in Jobs, s \in Sets : DoneWith(j, s)' => Met(j, s)'
    BY <1>1, <1>2, StillMet
  <2> QED
    BY <1>1, <1>5, <2>1, <2>2, WorkerStep
<1>6. CASE StoreFile(w)
  <2> DEFINE new == [exec[w] EXCEPT !.pc = "fetched", !.body = 0]
  <2>1. Become(w, new) /\ exec[w].pc = "fetching" /\ fileCache' = [fileCache EXCEPT ![exec[w].set] = exec[w].body]
    BY <1>6 DEF StoreFile, At
  <2>2. new.pc = "fetched" /\ new.set = exec[w].set /\ new.job = exec[w].job
    BY <1>3 DEF Task
  <2>3. exec'[w] = new
    BY <1>3, <2>1, Becomes DEF Sound
  <2> HIDE DEF new
  <2>4. fileCache'[exec'[w].set] = exec[w].body
    BY <1>3, <2>1, <2>2, <2>3 DEF AtSet
  <2>5. PICK v : v = exec[w].body
    OBVIOUS
  <2>6. Newer(exec[w], v)
    BY <1>3, <2>1, <2>5 DEF Fresh
  <2>7. \A j \in Jobs : j = exec'[w].job \/ DoneWith(j, exec[w].set)' => owed'[j][exec'[w].set] <= v
    BY <1>1, <2>2, <2>3, <2>6, NewerKept
  <2>8. Newer(exec[w], fileCache[exec[w].set])'
    BY <2>4, <2>5, <2>7 DEF Newer
  <2>9. Fresh(exec[w])'
    BY <2>2, <2>3, <2>8 DEF Fresh
  <2> QED
    BY <1>5, <2>1, <2>9
<1>7. CASE BeginIngest(w)
  <2> DEFINE new == [exec[w] EXCEPT !.pc = "ingest", !.body = fileCache[exec[w].set], !.chunk = 1,
                                    !.draft = [catalog[exec[w].set] EXCEPT !.edition = TRUE]]
  <2>1. (Become(w, new) \/ Become(w, Failed(w))) /\ exec[w].pc = "fetched"
    BY <1>7 DEF BeginIngest, At
  <2>2. new.pc = "ingest" /\ new.set = exec[w].set /\ new.job = exec[w].job /\ new.body = fileCache[exec[w].set]
    BY <1>3 DEF Task
  <2> HIDE DEF new
  <2>3. CASE Become(w, new)
    <3>1. exec'[w] = new
      BY <1>3, <2>3, Becomes DEF Sound
    <3>2. PICK v : v = fileCache[exec[w].set]
      OBVIOUS
    <3>3. Newer(exec[w], v)
      BY <1>3, <2>1, <3>2 DEF Fresh
    <3>4. \A j \in Jobs : j = exec'[w].job \/ DoneWith(j, exec[w].set)' => owed'[j][exec'[w].set] <= v
      BY <1>1, <2>2, <3>1, <3>3, NewerKept
    <3>5. Newer(exec[w], exec[w].body)'
      BY <2>2, <3>1, <3>2, <3>4 DEF Newer
    <3>6. Fresh(exec[w])'
      BY <2>2, <3>1, <3>5 DEF Fresh
    <3> QED
      BY <1>5, <2>3, <3>6
  <2> QED
    BY <1>4, <2>1, <2>3
<1>8. CASE InsertChunk(w)
  <2>1. PICK draft : Become(w, [exec[w] EXCEPT !.chunk = @ + 1, !.draft = draft]) \/ Become(w, Failed(w))
    BY <1>8 DEF InsertChunk
  <2> DEFINE new == [exec[w] EXCEPT !.chunk = @ + 1, !.draft = draft]
  <2>2. exec[w].pc = "ingest"
    BY <1>8 DEF InsertChunk, At
  <2>3. new.pc = "ingest" /\ new.set = exec[w].set /\ new.job = exec[w].job /\ new.body = exec[w].body
    BY <1>3, <2>2 DEF Task
  <2>4. Become(w, new) \/ Become(w, Failed(w))
    BY <2>1
  <2> HIDE DEF new
  <2>5. CASE Become(w, new)
    <3>1. exec'[w] = new
      BY <1>3, <2>5, Becomes DEF Sound
    <3>2. PICK v : v = exec[w].body
      OBVIOUS
    <3>3. Newer(exec[w], v)
      BY <1>3, <2>2, <3>2 DEF Fresh
    <3>4. \A j \in Jobs : j = exec'[w].job \/ DoneWith(j, exec[w].set)' => owed'[j][exec'[w].set] <= v
      BY <1>1, <2>3, <3>1, <3>3, NewerKept
    <3>5. Newer(exec[w], exec[w].body)'
      BY <2>3, <3>1, <3>2, <3>4 DEF Newer
    <3>6. Fresh(exec[w])'
      BY <2>3, <3>1, <3>5 DEF Fresh
    <3> QED
      BY <1>5, <2>5, <3>6
  <2> QED
    BY <1>4, <2>4, <2>5
<1> QED
  BY <1>6, <1>7, <1>8

LEMMA EndDelivery ==
  ASSUME Sound, Shelved, Delivery, FilesAreCards, OneWorker, NewestHeld', OnShelf', NEW w \in Workers, EndIngest(w)
  PROVE  Delivery'
<1>1. UNCHANGED <<owed, mtgjson, job>>
  BY DEF EndIngest, remoteVars, jobVars
<1>2. w \in Executors /\ exec[w] \in Task /\ Fresh(exec[w]) /\ exec[w].pc = "ingest" /\ exec[w].set \in Sets
      /\ exec[w].job \in Jobs /\ Released(exec[w].set, exec[w].body)
  BY OfExecutor DEF EndIngest, At, Delivery, Executors, Stage, Task, AtSet, Fetches
<1>3. PICK s \in Sets, v \in Nat : exec[w].set = s /\ exec[w].body = v
  BY <1>2 DEF Task
<1>4. v \in 1..Len(Published[s])
  BY <1>2, <1>3, ReleasedIsPublished
<1>5. CASE Content[s][v].raises
  <2>1. Become(w, Failed(w)) /\ UNCHANGED catalog
    BY <1>3, <1>5 DEF EndIngest
  <2>2. \A j \in Jobs, t \in Sets : DoneWith(j, t)' => Met(j, t)
    BY <1>1 DEF DoneWith, Delivery
  <2> QED
    BY <1>1, <2>1, <2>2, AwayDelivery
<1>6. CASE ~Content[s][v].raises
  <2> DEFINE new == [exec[w] EXCEPT !.pc = "ingested", !.draft = NoRows, !.body = 0,
                                    !.chunk = Len(Content[s][v].cards)]
  <2>1. Become(w, new)
    BY <1>3, <1>6 DEF EndIngest
  <2>2. new.pc = "ingested" /\ new.set = s /\ new.job = exec[w].job
    BY <1>2, <1>3 DEF Task
  <2> HIDE DEF new
  <2>3. exec'[w] = new /\ \A b \in Executors \ {w} : exec'[b] = exec[b]
    BY <1>2, <2>1, Becomes DEF Sound
  <2>4. /\ \A t \in Sets \ {s} : catalog'[t] = catalog[t]
        /\ catalog'[s].edition /\ Holds(s, v)'
    BY <1>2, <1>3, <1>6, EndShelf
  <2>5. v <= Shelf(s)'
    BY <1>3, <1>4, <1>6, <2>4 DEF NewestHeld
  <2>6. Released(s, Shelf(s))'
    BY <2>4 DEF OnShelf
  <2>7. Shelf(s)' \in Nat
    <3>1. mtgjson'[s] \in Nat
      BY <1>1 DEF Sound, Typed, Data
    <3> QED
      BY <2>6, <3>1 DEF Released
  <2>8. Newer(exec[w], v)
    BY <1>2, <1>3 DEF Fresh
  <2>9. ASSUME NEW j \in Jobs, j = exec[w].job \/ DoneWith(j, s) PROVE Met(j, s)'
    <3>1. owed[j][s] <= v /\ owed[j][s] \in Nat /\ owed'[j][s] = owed[j][s]
      BY <1>1, <1>3, <2>8, <2>9 DEF Newer, Sound, Typed, Data
    <3>2. owed'[j][s] <= Shelf(s)'
      BY <1>3, <2>5, <2>7, <3>1
    <3> QED
      BY <2>4, <3>2 DEF Met
  <2>10. ASSUME NEW j \in Jobs, NEW t \in Sets, DoneWith(j, t)' PROVE Met(j, t)'
    <3>1. DoneWith(j, t) /\ Met(j, t)
      BY <1>1, <2>10 DEF DoneWith, Delivery
    <3>2. CASE t = s
      BY <2>9, <3>1, <3>2
    <3>3. CASE t # s
      BY <1>1, <2>4, <3>1, <3>3, StillMet
    <3> QED
      BY <3>2, <3>3
  <2>11. Fresh(exec[w])'
    <3>1. PICK j \in Jobs : j = exec[w].job
      BY <1>2
    <3>2. Met(j, s)'
      BY <2>9, <3>1
    <3>3. exec'[w].pc = "ingested" /\ exec'[w].set = s /\ exec'[w].job = j
      BY <2>2, <2>3, <3>1
    <3> QED
      BY <3>2, <3>3 DEF Fresh, Met
  <2> QED
    BY <1>1, <2>3, <2>10, <2>11, WorkerStep
<1> QED
  BY <1>5, <1>6

LEMMA TakeSetDelivery ==
  ASSUME Sound, Runs, Delivery, OneWorker, NEW w \in Workers, TakeSet(w)
  PROVE  Delivery'
<1> DEFINE s == First(exec[w].todo)
<1>1. UNCHANGED <<owed, mtgjson, catalog>>
  BY DEF TakeSet, remoteVars
<1>2. w \in Executors /\ exec[w] \in Task /\ exec[w].pc = "work" /\ exec[w].todo # {} /\ exec[w].job \in Jobs
      /\ job \in [Jobs -> JobRow]
  BY OfExecutor, RunsOf DEF TakeSet, At, Executors
<1>3. s \in Sets
  BY <1>2, FirstIsThere DEF Task
<1>4. ASSUME NEW j \in Jobs, NEW t \in Sets, DoneWith(j, t)' PROVE DoneWith(j, t)
  <2>1. CASE job' = job
    BY <1>4, <2>1 DEF DoneWith
  <2>2. CASE job' = InProgress(exec[w].job, s)
    <3> DEFINE row == [NoRow EXCEPT !.state = "inprogress"]
    <3>1. row.state = "inprogress"
      BY DEF NoRow
    <3>2. job' = [job EXCEPT ![exec[w].job].rows = [@ EXCEPT ![s] = row]]
      BY <2>2 DEF InProgress
    <3> HIDE DEF row
    <3>3. job[j] \in JobRow
      BY <1>2
    <3>4. CASE j = exec[w].job /\ t = s
      <4>1. job'[j].rows[t] = row
        BY <1>2, <1>3, <3>2, <3>3, <3>4 DEF JobRow
      <4> QED
        BY <1>4, <3>1, <4>1 DEF DoneWith
    <3>5. CASE ~(j = exec[w].job /\ t = s)
      <4>1. job'[j].rows[t] = job[j].rows[t]
        BY <1>2, <1>3, <3>2, <3>3, <3>5 DEF JobRow
      <4> QED
        BY <1>4, <4>1 DEF DoneWith
    <3> QED
      BY <3>4, <3>5
  <2> QED
    BY <2>1, <2>2 DEF TakeSet
<1>5. \A j \in Jobs, t \in Sets : DoneWith(j, t)' => Met(j, t)'
  BY <1>1, <1>4, StillMet DEF Delivery
<1>6. ASSUME NEW new, Become(w, new), Fresh(exec[w])' PROVE Delivery'
  <2>1. \A b \in Executors \ {w} : exec'[b] = exec[b]
    BY <1>2, <1>6, Becomes DEF Sound
  <2> QED
    BY <1>1, <1>5, <1>6, <2>1, WorkerStep
<1>7. CASE RowDone(w, s)
  <2> DEFINE new == [exec[w] EXCEPT !.todo = @ \ {s}]
  <2>1. Become(w, new) /\ new.pc = "work"
    BY <1>2, <1>7 DEF TakeSet, Task
  <2> HIDE DEF new
  <2>2. exec'[w] = new
    BY <1>2, <2>1, Becomes DEF Sound
  <2>3. Fresh(exec[w])'
    BY <2>1, <2>2 DEF Fresh
  <2> QED
    BY <1>6, <2>1, <2>3
<1>8. CASE ~RowDone(w, s)
  <2> DEFINE new == [exec[w] EXCEPT !.pc = "fetching", !.set = s, !.body = mtgjson[s]]
  <2>1. ~Cached(w, s)
    BY DEF Cached, FetchAssumption
  <2>2. Become(w, new)
    BY <1>8, <2>1 DEF TakeSet
  <2>3. new.pc = "fetching" /\ new.set = s /\ new.body = mtgjson[s]
    BY <1>2 DEF Task
  <2> HIDE DEF new
  <2>4. exec'[w] = new
    BY <1>2, <2>2, Becomes DEF Sound
  <2>5. \A j \in Jobs : owed'[j][exec'[w].set] <= exec'[w].body
    BY <1>1, <1>3, <2>3, <2>4 DEF Delivery
  <2>6. Newer(exec[w], exec[w].body)'
    BY <2>5 DEF Newer
  <2>7. Fresh(exec[w])'
    BY <2>3, <2>4, <2>6 DEF Fresh
  <2> QED
    BY <1>6, <2>2, <2>7
<1> QED
  BY <1>7, <1>8

LEMMA EnqueueDelivery ==
  ASSUME Sound, Runs, Delivery, NEW j \in Jobs, NEW codes \in Requests, EnqueueFetch(j, codes)
  PROVE  Delivery'
<1>1. job[j].stage = "none" /\ job \in [Jobs -> JobRow] /\ owed \in [Jobs -> [Sets -> Nat]]
      /\ UNCHANGED <<mtgjson, fileCache, catalog, exec>>
  BY DEF EnqueueFetch, Sound, Typed, Data, cacheVars
<1>2. /\ job' = [job EXCEPT ![j] = Created(codes)]
      /\ owed' = [owed EXCEPT ![j] = [s \in Sets |-> IF ShellsAreIdle /\ s \in codes THEN mtgjson[s] ELSE 0]]
  BY DEF EnqueueFetch
<1>3. \A i \in Jobs \ {j} : job'[i] = job[i] /\ owed'[i] = owed[i]
  BY <1>1, <1>2
<1>4. \A s \in Sets : owed'[j][s] = IF ShellsAreIdle /\ s \in codes THEN mtgjson[s] ELSE 0
  BY <1>1, <1>2
<1>5. \A s \in Sets : ~DoneWith(j, s)'
  <2>1. job'[j] = Created(codes)
    BY <1>1, <1>2
  <2> QED
    BY <2>1 DEF DoneWith, Created, NoJobRow, NoRow
<1>6. ASSUME NEW i \in Jobs, NEW s \in Sets PROVE owed'[i][s] <= mtgjson'[s]
  <2>1. mtgjson'[s] = mtgjson[s] /\ mtgjson[s] \in Nat /\ owed[i][s] <= mtgjson[s]
    BY <1>1 DEF Delivery, Sound, Typed, Data
  <2>2. CASE i = j
    <3>1. owed'[i][s] = mtgjson[s] \/ owed'[i][s] = 0
      BY <1>4, <2>2
    <3> QED
      BY <2>1, <3>1
  <2>3. CASE i # j
    BY <1>3, <2>1, <2>3
  <2> QED
    BY <2>2, <2>3
<1>7. (\E c \in Shells : exec'[c].pc # "idle") => NoneOwed'
  BY <1>1, <1>3, <1>4 DEF Delivery, NoneOwed, ShellsAreIdle, At
<1>8. ASSUME NEW i \in Jobs, NEW s \in Sets, DoneWith(i, s)' PROVE Met(i, s)'
  <2>1. i # j
    BY <1>5, <1>8
  <2>2. DoneWith(i, s) /\ owed'[i] = owed[i]
    BY <1>3, <1>8, <2>1 DEF DoneWith
  <2> QED
    BY <1>1, <2>2, SameVersion DEF Delivery, Met
<1>9. ASSUME NEW w \in Workers PROVE Fresh(exec[w])'
  <2>1. Fresh(exec[w]) /\ exec'[w] = exec[w] /\ exec[w] \in Task /\ Stage(w, exec[w]) /\ Running(exec[w])
    BY <1>1, RunsOf DEF Delivery
  <2>2. exec[w].pc \in AtSet => exec[w].job \in Jobs \ {j} /\ exec[w].set \in Sets
    BY <1>1, <2>1, RunsOf DEF Running, Stage, Task, AtSet
  <2>3. ASSUME exec[w].pc \in AtSet, NEW v, Newer(exec[w], v)
        PROVE  \A i \in Jobs : i = exec'[w].job \/ DoneWith(i, exec[w].set)' => owed'[i][exec'[w].set] <= v
    <3> SUFFICES ASSUME NEW i \in Jobs, i = exec'[w].job \/ DoneWith(i, exec[w].set)'
                 PROVE  owed'[i][exec'[w].set] <= v
      OBVIOUS
    <3>1. PICK s \in Sets : s = exec[w].set
      BY <2>2, <2>3
    <3>2. exec'[w].job = exec[w].job /\ exec'[w].set = s
      BY <2>1, <3>1
    <3>3. i # j
      BY <1>5, <2>2, <2>3, <3>2 DEF DoneWith
    <3>4. i = exec[w].job \/ DoneWith(i, s)
      BY <1>3, <3>2, <3>3 DEF DoneWith
    <3> QED
      BY <1>3, <2>3, <3>1, <3>2, <3>3, <3>4 DEF Newer
  <2>4. exec[w].pc \in {"fetching", "ingest"} => Newer(exec[w], exec[w].body)'
    <3> SUFFICES ASSUME exec[w].pc \in {"fetching", "ingest"} PROVE Newer(exec[w], exec[w].body)'
      OBVIOUS
    <3>1. PICK v : v = exec[w].body
      OBVIOUS
    <3>2. Newer(exec[w], v) /\ exec[w].pc \in AtSet
      BY <2>1, <3>1 DEF Fresh, AtSet
    <3>3. \A i \in Jobs : i = exec'[w].job \/ DoneWith(i, exec[w].set)' => owed'[i][exec'[w].set] <= v
      BY <2>3, <3>2
    <3>4. exec'[w].body = v
      BY <2>1, <3>1
    <3> QED
      BY <3>3, <3>4 DEF Newer
  <2>5. exec[w].pc = "fetched" => Newer(exec[w], fileCache[exec[w].set])'
    <3> SUFFICES ASSUME exec[w].pc = "fetched" PROVE Newer(exec[w], fileCache[exec[w].set])'
      OBVIOUS
    <3>1. PICK v : v = fileCache[exec[w].set]
      OBVIOUS
    <3>2. Newer(exec[w], v) /\ exec[w].pc \in AtSet
      BY <2>1, <3>1 DEF Fresh, AtSet
    <3>3. \A i \in Jobs : i = exec'[w].job \/ DoneWith(i, exec[w].set)' => owed'[i][exec'[w].set] <= v
      BY <2>3, <3>2
    <3>4. fileCache'[exec'[w].set] = v
      BY <1>1, <2>1, <3>1
    <3> QED
      BY <3>3, <3>4 DEF Newer
  <2>6. exec[w].pc = "ingested" => Met(exec[w].job, exec[w].set)'
    <3> SUFFICES ASSUME exec[w].pc = "ingested" PROVE Met(exec[w].job, exec[w].set)'
      OBVIOUS
    <3>1. PICK i \in Jobs \ {j}, s \in Sets : i = exec[w].job /\ s = exec[w].set
      BY <2>2 DEF AtSet
    <3>2. Met(i, s) /\ owed'[i] = owed[i] /\ Shelf(s)' = Shelf(s) /\ catalog'[s] = catalog[s]
      BY <1>1, <1>3, <2>1, <3>1, SameVersion DEF Fresh
    <3>3. exec'[w].job = i /\ exec'[w].set = s
      BY <2>1, <3>1
    <3> QED
      BY <3>2, <3>3 DEF Met
  <2> QED
    BY <2>1, <2>4, <2>5, <2>6 DEF Fresh
<1> QED
  BY <1>6, <1>7, <1>8, <1>9 DEF Delivery

LEMMA StillDelivery ==
  ASSUME Sound, Delivery, UNCHANGED <<owed, fileCache, catalog, job, exec>>,
         \A s \in Sets : mtgjson[s] <= mtgjson'[s] /\ mtgjson'[s] \in Nat
  PROVE  Delivery'
<1>1. \A s \in Sets : Shelf(s)' = Shelf(s)
  BY SameVersion
<1>2. \A j \in Jobs, s \in Sets : owed'[j][s] <= mtgjson'[s]
  BY DEF Delivery, Sound, Typed, Data
<1>3. \A j \in Jobs, s \in Sets : DoneWith(j, s)' => Met(j, s)'
  BY <1>1 DEF Delivery, DoneWith, Met
<1>4. ASSUME NEW w \in Workers PROVE Fresh(exec[w])'
  <2>1. Fresh(exec[w]) /\ exec[w] \in Task /\ Stage(w, exec[w]) /\ exec'[w] = exec[w]
    BY OfExecutor DEF Delivery, Executors
  <2>2. exec[w].pc \in AtSet => exec[w].set \in Sets
    BY <2>1 DEF Stage, Task, AtSet
  <2>3. \A v : Newer(exec[w], v) => Newer(exec[w], v)'
    BY <2>1 DEF Newer, DoneWith
  <2>4. exec[w].pc = "ingested" => Met(exec[w].job, exec[w].set)'
    BY <1>1, <2>1, <2>2 DEF Fresh, Met, AtSet
  <2>5. exec[w].pc \in {"fetching", "ingest"} => Newer(exec[w], exec[w].body)'
    BY <2>1, <2>3 DEF Fresh, Newer
  <2>6. exec[w].pc = "fetched" => Newer(exec[w], fileCache[exec[w].set])'
    BY <2>1, <2>3 DEF Fresh, Newer
  <2> QED
    BY <2>1, <2>4, <2>5, <2>6 DEF Fresh
<1> QED
  BY <1>2, <1>3, <1>4 DEF Delivery, NoneOwed

LEMMA StartJobDelivery ==
  ASSUME Sound, Runs, Delivery, OneWorker, NEW w \in Workers, NEW j \in Jobs, StartJob(w, j)
  PROVE  Delivery'
<1>1. UNCHANGED <<owed, mtgjson, fileCache, catalog>> /\ job \in [Jobs -> JobRow] /\ w \in Executors
  BY RunsOf DEF StartJob, remoteVars, cacheVars
<1>2. CASE Over(j)
  <2>1. UNCHANGED <<job, exec>>
    BY <1>2 DEF StartJob
  <2>2. \A s \in Sets : mtgjson[s] <= mtgjson'[s] /\ mtgjson'[s] \in Nat
    BY <1>1 DEF Sound, Typed, Data
  <2> QED
    BY <1>1, <2>1, <2>2, StillDelivery
<1>3. CASE ~Over(j)
  <2> DEFINE new == [Idle EXCEPT !.pc = "list", !.job = j]
  <2>1. Become(w, new) /\ new.pc = "list" /\ job' = [job EXCEPT ![j].stage = "started"]
    BY <1>3 DEF StartJob, Idle
  <2> HIDE DEF new
  <2>2. exec'[w] = new /\ \A b \in Executors \ {w} : exec'[b] = exec[b]
    BY <1>1, <2>1, Becomes DEF Sound
  <2>3. Fresh(exec[w])'
    BY <2>1, <2>2 DEF Fresh
  <2>4. ASSUME NEW i \in Jobs PROVE job'[i].rows = job[i].rows
    <3>1. job[i] \in JobRow
      BY <1>1
    <3> QED
      BY <1>1, <2>1, <3>1 DEF JobRow
  <2>5. \A i \in Jobs, s \in Sets : DoneWith(i, s)' => Met(i, s)'
    BY <1>1, <2>4, StillMet DEF DoneWith, Delivery
  <2> QED
    BY <1>1, <2>2, <2>3, <2>5, WorkerStep
<1> QED
  BY <1>2, <1>3

LEMMA PublishDelivery ==
  ASSUME Sound, Delivery, Publish
  PROVE  Delivery'
<1>1. UNCHANGED <<owed, fileCache, catalog, job, exec>>
  BY DEF Publish, cacheVars, jobVars
<1>2. ASSUME NEW s \in Sets PROVE mtgjson[s] <= mtgjson'[s] /\ mtgjson'[s] \in Nat
  <2>1. mtgjson[s] \in Nat /\ mtgjson[s] <= Len(Published[s]) /\ Len(Published[s]) \in Nat
    BY PublishedType DEF Sound, Typed, Data, Cache
  <2>2. mtgjson'[s] = Smaller(mtgjson[s] + 1, Len(Published[s]))
    BY DEF Publish
  <2> QED
    BY <2>1, <2>2 DEF Smaller
<1> QED
  BY <1>1, <1>2, StillDelivery

LEMMA MessageDelivery ==
  ASSUME Sound, Delivery, UNCHANGED vars \/ \E j \in Jobs : SendFetch(j) \/ Redeliver(j)
  PROVE  Delivery'
<1>1. UNCHANGED <<owed, mtgjson, fileCache, catalog, job, exec>>
  BY DEF SendFetch, Redeliver, remoteVars, cacheVars, vars
<1>2. \A s \in Sets : mtgjson[s] <= mtgjson'[s] /\ mtgjson'[s] \in Nat
  BY <1>1 DEF Sound, Typed, Data
<1> QED
  BY <1>1, <1>2, StillDelivery

LEMMA StartShellDelivery ==
  ASSUME Sound, Delivery, Sound', OnShelf', NEW c \in Shells, NEW refresh, StartShell(c, refresh)
  PROVE  Delivery'
<1>1. UNCHANGED <<catalog, job>> /\ owed' = [j \in Jobs |-> [s \in Sets |-> 0]]
  BY DEF StartShell, jobVars
<1>2. NoneOwed'
  BY <1>1 DEF NoneOwed
<1>3. \E task : Become(c, task)
  BY DEF StartShell
<1>4. \A w \in Workers : exec'[w] = exec[w]
  BY <1>3, Becomes DEF Executors, Sound, FetchAssumption
<1> QED
  BY <1>1, <1>2, <1>4, NoneOwedStep

LEMMA ShellDelivery ==
  ASSUME Sound, Shelved, Delivery, FilesAreCards, UuidsStay, Sound', OnShelf', NEW c \in Shells,
         Step(c) \/ Fails(c) \/ Crash(c)
  PROVE  Delivery'
<1>1. c \in Executors /\ c \notin Workers /\ Stage(c, exec[c])
  BY OfExecutor DEF Executors, FetchAssumption
<1>2. exec[c].pc # "idle" /\ (\E task : Become(c, task))
  BY DEF Step, Fails, Crash, DownloadList, StoreList, Plan, TakeSet, StoreFile, BeginIngest, InsertChunk,
     EndIngest, MarkDone, Finish, FinishCli, At
<1>3. UNCHANGED <<owed, job>>
  <2>1. ~MarkDone(c) /\ ~Finish(c)
    BY <1>1 DEF MarkDone, Finish, At, Stage
  <2> QED
    BY <1>1, <2>1 DEF Step, Fails, Crash, DownloadList, StoreList, Plan, TakeSet, StoreFile, BeginIngest,
       InsertChunk, EndIngest, FinishCli, remoteVars, jobVars
<1>4. NoneOwed'
  BY <1>1, <1>2, <1>3 DEF Delivery, NoneOwed
<1>5. \A w \in Workers : exec'[w] = exec[w]
  BY <1>1, <1>2, Becomes DEF Executors, Sound
<1>6. \A s \in Sets : catalog[s].edition => catalog'[s].edition
  <2>1. CASE EndIngest(c)
    BY <1>1, <2>1, IngestShelf DEF OnlySet
  <2>2. CASE ~EndIngest(c)
    BY <1>1, <2>2, WorkShelf, BeginShelf, ChunkShelf DEF Step
  <2> QED
    BY <2>1, <2>2
<1> QED
  BY <1>3, <1>4, <1>5, <1>6, NoneOwedStep

LEMMA DeliveryStep ==
  ASSUME FilesAreCards, UuidsStay, OneWorker
  PROVE  Sound /\ Runs /\ Shelved /\ Delivery /\ [Next]_vars /\ Sound' /\ OnShelf' /\ NewestHeld' => Delivery'
<1> SUFFICES ASSUME Sound, Runs, Shelved, Delivery, [Next]_vars, Sound', OnShelf', NewestHeld'
             PROVE  Delivery'
  OBVIOUS
<1>1. ASSUME NEW a \in Executors, Step(a) \/ Fails(a) \/ Crash(a) PROVE Delivery'
  <2>1. CASE a \in Workers
    <3>1. a \in Executors
      OBVIOUS
    <3>2. ASSUME Step(a) PROVE Delivery'
      BY <2>1, <3>2, WorkDelivery, TakeSetDelivery, IngestDelivery, EndDelivery, MarkDoneDelivery,
         FinishDelivery DEF Step
    <3> QED
      BY <1>1, <2>1, <3>2, WorkDelivery
  <2>2. CASE a \in Shells
    BY <1>1, <2>2, ShellDelivery
  <2> QED
    BY <2>1, <2>2 DEF Executors
<1>2. ASSUME Publish PROVE Delivery'
  BY <1>2, PublishDelivery
<1>3. ASSUME NEW j \in Jobs, NEW codes \in Requests, EnqueueFetch(j, codes) PROVE Delivery'
  BY <1>3, EnqueueDelivery
<1>4. ASSUME UNCHANGED vars \/ \E j \in Jobs : SendFetch(j) \/ Redeliver(j) PROVE Delivery'
  BY <1>4, MessageDelivery
<1>5. ASSUME NEW c \in Shells, NEW refresh, StartShell(c, refresh) PROVE Delivery'
  BY <1>5, StartShellDelivery
<1>6. ASSUME NEW w \in Workers, NEW j \in Jobs, StartJob(w, j) PROVE Delivery'
  BY <1>6, StartJobDelivery
<1> QED
  BY <1>1, <1>2, <1>3, <1>4, <1>5, <1>6 DEF Next

LEMMA InitDelivery == Init => Delivery
<1> SUFFICES ASSUME Init PROVE Delivery
  OBVIOUS
<1>1. \A a \in Executors : exec[a].pc = "idle"
  BY DEF Init, Idle
<1>2. \A j \in Jobs, s \in Sets : ~DoneWith(j, s) /\ owed[j][s] = 0 /\ mtgjson[s] = 0
  BY DEF Init, DoneWith, NoJobRow, NoRow
<1>3. \A w \in Workers : Fresh(exec[w])
  BY <1>1 DEF Fresh, Executors
<1>4. \A j \in Jobs, s \in Sets : owed[j][s] <= mtgjson[s]
  BY ONLY <1>2
<1>5. NoneOwed
  BY ONLY <1>2 DEF NoneOwed
<1>6. \A j \in Jobs, s \in Sets : DoneWith(j, s) => Met(j, s)
  BY ONLY <1>2
<1> QED
  BY ONLY <1>3, <1>4, <1>5, <1>6 DEF Delivery

(* With one worker, a set that is done with cards is in the catalog in a     *)
(* version no older than what was published when the job was asked for,      *)
(* unless a shell run shared the cache and the catalog with it.              *)
THEOREM OneWorkerDelivers ==
  ASSUME FilesAreCards, PreviewsEnd, NoneIsEmpty, UuidsStay, OneWorker
  PROVE  Spec => []DoneIsDelivered
<1> DEFINE Inv == Sound /\ Runs /\ Shelved /\ Delivery
<1>1. Init => Inv
  BY InitSound, InitRuns, InitShelved, InitDelivery
<1>2. Sound /\ Runs /\ Shelved /\ [Next]_vars => Sound' /\ Runs' /\ Shelved'
  BY SoundInvariant, RunsStep, ShelvedStep
<1>3. Sound /\ Shelved => OnShelf
  BY ShelfIsReleased DEF OnShelf
<1>4. Inv => DoneIsDelivered
  BY DoneIsMet
<1> QED
  BY <1>1, <1>2, <1>3, <1>4, DeliveryStep, ShelfHoldsNewest, PTL DEF Spec
================================================================================
