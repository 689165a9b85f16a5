---------------------------- MODULE InventoryProofs ----------------------------
(* Theorems about Inventory, for every number of names, printings, lists,    *)
(* files, sessions and calls.                                                *)
EXTENDS Inventory, FiniteSetTheorems, SequenceTheorems, TLAPS

USE InventoryAssumption DEF InventoryAssumption

--------------------------------------------------------------------------------
(* The invariant.  Whatever sessions create, remove and delete at once: what *)
(* a call has written is locked by it alone, and is the committed count with *)
(* the copies asked for added or taken; a call writes each printing once; an *)
(* inventory without a row, or that is gone, has no cards.                   *)

Task == [pc: {"idle", "resolve", "write", "update", "finish", "delete"},
         kind: Kinds \cup {"none"}, name: Names \cup {"none"}, row: {0} \cup Inventories,
         fresh: BOOLEAN, asked: [Catalog -> Nat], ignored: Nat, left: Seq(Catalog),
         written: SUBSET Catalog, copies: [Catalog -> Nat], missed: SUBSET Catalog]

Typed ==
  /\ name \in [Inventories -> Names \cup {"none", "gone"}]
  /\ count \in [Inventories -> [Catalog -> Nat]]
  /\ call \in [Sessions -> Task]
  /\ calls \in 0..MaxCalls /\ faults \in 0..MaxFaults

Creating == {"create", "import", "ingest"}

(* What a call is about to write: each printing once, and not again.         *)
Pending(c) == {c.left[i] : i \in DOMAIN c.left}

Stages(s, c) ==
  /\ c.pc = "idle" => c = Idle
  /\ c.pc # "idle" => /\ c.kind \in Calls[s] /\ c.kind \in Kinds /\ c.row \in Inventories
                      /\ c.name \in Names /\ (c.kind = "remove" => c.name # Collection)
  /\ c.fresh => c.kind \in Creating /\ c.pc \in {"resolve", "write", "finish"}
  /\ c.pc = "resolve" => c.written = {} /\ c.kind # "create" /\ c.missed = {}
  /\ c.pc = "delete" => c.written = {} /\ c.kind = "delete"
  /\ c.pc = "update" => c.kind = "remove"
  /\ c.kind = "create" => c.pc = "finish" /\ c.asked = Zero
  /\ c.pc \in {"write", "update"} <=> c.left # <<>>
  /\ \A i, j \in DOMAIN c.left : c.left[i] = c.left[j] => i = j
  /\ Pending(c) \cap c.written = {}
  /\ \A p \in Pending(c) \cup c.written : c.asked[p] > 0

(* The rows of calls, and of inventories that are gone.                      *)
Placed(s, c) ==
  /\ c.pc # "idle" /\ ~c.fresh => name[c.row] \in {c.name, "gone"}
  /\ c.fresh => name[c.row] = "none"
  /\ c.pc # "idle" /\ Gone(c) => c.written = {}
  /\ \A t \in Sessions \ {s} :
       /\ c.fresh /\ call[t].pc # "idle" => call[t].row # c.row
       /\ c.pc # "idle" /\ call[t].pc # "idle" /\ c.row = call[t].row =>
            c.written \cap call[t].written = {}

Emptied == \A r \in Inventories : name[r] \in {"none", "gone"} => count[r] = Zero

Least(c, q) == IF c > q THEN c - q ELSE 0

(* What a call has written is the committed count changed as it was asked.   *)
Amounts(c) ==
  \A p \in c.written :
    c.copies[p] = IF c.kind = "remove" THEN Least(count[c.row][p], c.asked[p])
                  ELSE count[c.row][p] + c.asked[p]

(* A delivery leaves nothing out.                                            *)
Whole(c) ==
  c.kind # "remove" /\ c.pc \in {"write", "finish"} =>
    \A p \in Catalog : c.asked[p] > 0 => p \in Pending(c) \cup c.written

SoundCall(s) ==
  Stages(s, call[s]) /\ Placed(s, call[s]) /\ Amounts(call[s]) /\ Whole(call[s])

Sound == Typed /\ Emptied /\ \A s \in Sessions : SoundCall(s)

LEMMA IdleIsTask == Idle \in Task
  BY DEF Idle, Task, Zero

LEMMA Becomes ==
  ASSUME Typed, NEW s \in Sessions, NEW task, Become(s, task)
  PROVE  call'[s] = task /\ \A t \in Sessions \ {s} : call'[t] = call[t]
  BY DEF Become, Typed

(* A step of one call that commits nothing.                                  *)
LEMMA CallStep ==
  ASSUME Sound, NEW s \in Sessions, NEW task \in Task, Become(s, task),
         UNCHANGED <<name, count>>, calls' \in 0..MaxCalls, faults' \in 0..MaxFaults,
         Stages(s, task), Placed(s, task), Amounts(task), Whole(task),
         \A t \in Sessions \ {s} : call[t].fresh /\ task.pc # "idle" => task.row # call[t].row
  PROVE  Sound'
<1>1. call'[s] = task /\ \A t \in Sessions \ {s} : call'[t] = call[t]
  BY Becomes DEF Sound
<1>2. Typed' /\ Emptied'
  BY DEF Sound, Typed, Emptied, Become
<1>3. SoundCall(s)'
  <2>1. Stages(s, call[s])'
    BY <1>1 DEF Stages, Pending
  <2>2. Placed(s, call[s])'
    BY <1>1 DEF Placed, Gone
  <2>3. Amounts(call[s])' /\ Whole(call[s])'
    BY <1>1 DEF Amounts, Whole, Pending
  <2> QED
    BY <2>1, <2>2, <2>3 DEF SoundCall
<1>4. ASSUME NEW t \in Sessions \ {s} PROVE SoundCall(t)'
  <2>1. SoundCall(t) /\ call'[t] = call[t]
    BY <1>1 DEF Sound
  <2>2. Stages(t, call[t])' /\ Amounts(call[t])' /\ Whole(call[t])'
    BY <2>1 DEF SoundCall, Stages, Amounts, Whole, Pending
  <2>3. Placed(t, call[t])'
    BY <1>1, <2>1 DEF SoundCall, Placed, Gone
  <2> QED
    BY <2>2, <2>3 DEF SoundCall
<1> QED
  BY <1>2, <1>3, <1>4 DEF Sound

LEMMA EndOfCall ==
  ASSUME Sound, NEW s \in Sessions, Become(s, Idle), UNCHANGED <<name, count>>,
         calls' \in 0..MaxCalls, faults' \in 0..MaxFaults
  PROVE  Sound'
<1>1. Stages(s, Idle)
  BY DEF Stages, Idle, Pending
<1>2. Placed(s, Idle) /\ Amounts(Idle) /\ Whole(Idle) /\ Idle.pc = "idle"
  BY DEF Placed, Amounts, Whole, Idle
<1> QED
  BY <1>1, <1>2, IdleIsTask, CallStep

(* A call begins: with an inventory of its name, or with a key of its own.   *)
LEMMA CallBegins ==
  ASSUME Sound, NEW s \in Sessions, NEW task \in Task, Become(s, task),
         UNCHANGED <<name, count, faults>>, calls' \in 0..MaxCalls,
         task.pc \in {"resolve", "finish", "delete"}, task.kind \in Calls[s] \cap Kinds,
         task.name \in Names, task.row \in Inventories,
         task.kind = "remove" => task.name # Collection,
         task.written = {}, task.left = <<>>, task.missed = {},
         task.kind = "create" <=> task.pc = "finish", task.kind = "create" => task.asked = Zero,
         task.pc = "delete" => task.kind = "delete",
         task.fresh => task.kind \in Creating /\ task.pc # "delete" /\ task.row \notin InUse,
         ~task.fresh => task.row \in RowsOf(task.name)
  PROVE  Sound'
<1>1. Stages(s, task)
  BY DEF Stages, Pending, Zero
<1>2. \A t \in Sessions : /\ call[t].pc # "idle" /\ ~call[t].fresh => name[call[t].row] # "none"
                          /\ call[t].fresh => name[call[t].row] = "none"
  BY DEF Sound, SoundCall, Placed, Stages
<1>3. Placed(s, task)
  <2>1. task.fresh => name[task.row] = "none" /\ \A t \in Sessions : call[t].fresh => call[t].row # task.row
    BY DEF InUse
  <2>2. ~task.fresh => name[task.row] = task.name
    BY DEF RowsOf
  <2>3. name[task.row] # "gone" => ~Gone(task)
    BY DEF Gone
  <2> QED
    BY <1>2, <2>1, <2>2, <2>3 DEF Placed
<1>4. Amounts(task)
  BY DEF Amounts
<1>5. Whole(task)
  BY DEF Whole, Zero
<1>6. \A t \in Sessions \ {s} : call[t].fresh => task.row # call[t].row
  BY <1>2 DEF InUse, RowsOf
<1>7. faults' \in 0..MaxFaults
  BY DEF Sound, Typed
<1> QED
  BY <1>1, <1>3, <1>4, <1>5, <1>6, <1>7, CallStep

(* What GetOrCreate makes of a task.                                         *)
LEMMA GetsOrCreates ==
  ASSUME NEW s, NEW task \in Task, ~task.fresh, GetOrCreate(s, task)
  PROVE  \E new \in Task :
           /\ Become(s, new) /\ new.row \in Inventories
           /\ new.pc = task.pc /\ new.kind = task.kind /\ new.name = task.name
           /\ new.asked = task.asked /\ new.ignored = task.ignored /\ new.left = task.left
           /\ new.written = task.written /\ new.missed = task.missed
           /\ new.fresh => new.row \notin InUse /\ RowsOf(task.name) = {}
           /\ ~new.fresh => new.row \in RowsOf(task.name) /\ Cardinality(RowsOf(task.name)) = 1
<1>1. CASE /\ Cardinality(RowsOf(task.name)) = 1
           /\ \E r \in RowsOf(task.name) : Become(s, [task EXCEPT !.row = r])
  <2>1. PICK r \in RowsOf(task.name) : Become(s, [task EXCEPT !.row = r])
    BY <1>1
  <2> DEFINE new == [task EXCEPT !.row = r]
  <2>2. r \in Inventories
    BY DEF RowsOf
  <2>3. /\ new \in Task /\ Become(s, new) /\ new.row = r /\ ~new.fresh
        /\ new.pc = task.pc /\ new.kind = task.kind /\ new.name = task.name
        /\ new.asked = task.asked /\ new.ignored = task.ignored /\ new.left = task.left
        /\ new.written = task.written /\ new.missed = task.missed
    BY <2>1, <2>2 DEF Task
  <2> HIDE DEF new
  <2> QED
    BY <1>1, <2>2, <2>3
<1>2. CASE RowsOf(task.name) = {} /\ \E r \in Inventories \ InUse :
                                       Become(s, [task EXCEPT !.row = r, !.fresh = TRUE])
  <2>1. PICK r \in Inventories \ InUse : Become(s, [task EXCEPT !.row = r, !.fresh = TRUE])
    BY <1>2
  <2> DEFINE new == [task EXCEPT !.row = r, !.fresh = TRUE]
  <2>2. /\ new \in Task /\ Become(s, new) /\ new.row = r /\ new.fresh
        /\ new.pc = task.pc /\ new.kind = task.kind /\ new.name = task.name
        /\ new.asked = task.asked /\ new.ignored = task.ignored /\ new.left = task.left
        /\ new.written = task.written /\ new.missed = task.missed
    BY <2>1 DEF Task
  <2> HIDE DEF new
  <2> QED
    BY <1>2, <2>2
<1> QED
  BY <1>1, <1>2 DEF GetOrCreate

LEMMA AskedByListType ==
  ASSUME NEW list \in Lists
  PROVE  AskedByList(list) \in [Ids -> Nat]
<1>1. ASSUME NEW c \in Ids
      PROVE  Cardinality({i \in DOMAIN list : ~IsBlank(list[i]) /\ Canonical(list[i])[2] = c}) \in Nat
  <2>1. IsFiniteSet(DOMAIN list)
    OBVIOUS
  <2>2. IsFiniteSet({i \in DOMAIN list : ~IsBlank(list[i]) /\ Canonical(list[i])[2] = c})
    BY <2>1, FS_Subset
  <2> QED
    BY <2>2, FS_CardinalityType
<1> QED
  BY <1>1 DEF AskedByList

LEMMA AskedTypes ==
  ASSUME NEW asked \in [Ids -> Nat]
  PROVE  Known(asked) \in [Catalog -> Nat] /\ Cardinality(Missing(asked)) \in Nat
<1>1. Known(asked) \in [Catalog -> Nat]
  BY DEF Known, Ids
<1>2. IsFiniteSet(Missing(asked))
  <2>1. Missing(asked) \subseteq Ids
    BY DEF Missing, Ids
  <2> QED
    BY <2>1, FS_Subset
<1> QED
  BY <1>1, <1>2, FS_CardinalityType

LEMMA BeginTypes ==
  ASSUME Sound, NEW s, NEW kind, NEW n, Begin(s, kind, n)
  PROVE  /\ call[s].pc = "idle" /\ kind \in Calls[s] /\ calls' \in 0..MaxCalls
         /\ kind \in {"add", "remove", "create"} => n # Collection
  BY DEF Begin, At, Modifiable, Sound, Typed

(* The task a call begins with.                                              *)
LEMMA Beginnings ==
  ASSUME NEW kind \in Kinds, NEW n \in Names
  PROVE  /\ Started(kind, n) \in Task /\ ~Started(kind, n).fresh
         /\ Started(kind, n).kind = kind /\ Started(kind, n).name = n
         /\ Started(kind, n).left = <<>> /\ Started(kind, n).written = {}
         /\ Started(kind, n).missed = {} /\ Started(kind, n).asked = Zero
         /\ Started(kind, n).ignored = 0 /\ Started(kind, n).copies = Zero
<1>1. /\ Idle \in Task /\ ~Idle.fresh /\ Idle.left = <<>> /\ Idle.written = {}
      /\ Idle.missed = {} /\ Idle.asked = Zero /\ Idle.ignored = 0 /\ Idle.copies = Zero
  BY IdleIsTask DEF Idle
<1> QED
  BY <1>1 DEF Started, Task

LEMMA CreateIsSound ==
  ASSUME Sound, NEW s \in Sessions, NEW n \in Names, Create(s, n)
  PROVE  Sound'
<1> DEFINE task == [Started("create", n) EXCEPT !.pc = "finish"]
<1>1. call[s].pc = "idle" /\ "create" \in Calls[s] /\ calls' \in 0..MaxCalls
      /\ GetOrCreate(s, task) /\ UNCHANGED <<name, count, faults>>
  BY BeginTypes DEF Create
<1>0. /\ Started("create", n) \in Task /\ ~Started("create", n).fresh
      /\ Started("create", n).kind = "create" /\ Started("create", n).name = n
      /\ Started("create", n).left = <<>> /\ Started("create", n).written = {}
      /\ Started("create", n).missed = {} /\ Started("create", n).asked = Zero
  BY Beginnings DEF Kinds
<1>2. /\ task \in Task /\ ~task.fresh /\ task.pc = "finish" /\ task.kind = "create" /\ task.name = n
      /\ task.left = <<>> /\ task.written = {} /\ task.missed = {} /\ task.asked = Zero
  BY <1>0 DEF Task
<1> HIDE DEF task
<1>3. PICK new \in Task :
           /\ Become(s, new) /\ new.row \in Inventories
           /\ new.pc = task.pc /\ new.kind = task.kind /\ new.name = task.name
           /\ new.asked = task.asked /\ new.left = task.left
           /\ new.written = task.written /\ new.missed = task.missed
           /\ new.fresh => new.row \notin InUse
           /\ ~new.fresh => new.row \in RowsOf(task.name)
  BY <1>1, <1>2, GetsOrCreates
<1> QED
  BY <1>1, <1>2, <1>3, CallBegins DEF Kinds, Creating

LEMMA ImportIsSound ==
  ASSUME FilesAreCounts, Sound, NEW s \in Sessions, NEW n \in Names, NEW kind \in {"import", "ingest"},
         NEW file \in Files, ImportInventory(s, kind, n, file)
  PROVE  Sound'
<1> DEFINE asked == AskedByFile(file)
           task == [Started(kind, n) EXCEPT !.pc = "resolve", !.asked = Known(asked),
                                            !.ignored = Cardinality(Missing(asked))]
<1>1. call[s].pc = "idle" /\ kind \in Calls[s] /\ calls' \in 0..MaxCalls
      /\ GetOrCreate(s, task) /\ UNCHANGED <<name, count, faults>> /\ Importable(file)
  BY BeginTypes DEF ImportInventory
<1>2. Known(asked) \in [Catalog -> Nat] /\ Cardinality(Missing(asked)) \in Nat
  BY <1>1, AskedTypes DEF FilesAreCounts
<1>0. /\ Started(kind, n) \in Task /\ ~Started(kind, n).fresh
      /\ Started(kind, n).kind = kind /\ Started(kind, n).name = n
      /\ Started(kind, n).left = <<>> /\ Started(kind, n).written = {}
      /\ Started(kind, n).missed = {} /\ Started(kind, n).asked = Zero
  BY Beginnings DEF Kinds
<1>3. /\ task \in Task /\ ~task.fresh /\ task.pc = "resolve" /\ task.kind = kind /\ task.name = n
      /\ task.left = <<>> /\ task.written = {} /\ task.missed = {}
  BY <1>2, <1>0 DEF Task
<1> HIDE DEF task
<1>4. PICK new \in Task :
           /\ Become(s, new) /\ new.row \in Inventories
           /\ new.pc = task.pc /\ new.kind = task.kind /\ new.name = task.name
           /\ new.asked = task.asked /\ new.left = task.left
           /\ new.written = task.written /\ new.missed = task.missed
           /\ new.fresh => new.row \notin InUse
           /\ ~new.fresh => new.row \in RowsOf(task.name)
  BY <1>1, <1>3, GetsOrCreates
<1> QED
  BY <1>1, <1>3, <1>4, CallBegins DEF Kinds, Creating

LEMMA EditIsSound ==
  ASSUME Sound, NEW s \in Sessions, NEW n \in Names, NEW kind \in {"add", "remove"},
         NEW list \in Lists, Edit(s, kind, n, list)
  PROVE  Sound'
<1> DEFINE asked == AskedByList(list)
<1>1. call[s].pc = "idle" /\ kind \in Calls[s] /\ calls' \in 0..MaxCalls /\ n # Collection
      /\ UNCHANGED <<name, count, faults>>
  BY BeginTypes DEF Edit
<1>2. PICK r \in RowsOf(n) :
         Become(s, [Started(kind, n) EXCEPT !.pc = "resolve", !.row = r, !.asked = Known(asked)])
  BY DEF Edit
<1> DEFINE new == [Started(kind, n) EXCEPT !.pc = "resolve", !.row = r, !.asked = Known(asked)]
<1>3. Known(asked) \in [Catalog -> Nat] /\ r \in Inventories
  BY AskedByListType, AskedTypes DEF RowsOf
<1>0. /\ Started(kind, n) \in Task /\ ~Started(kind, n).fresh
      /\ Started(kind, n).kind = kind /\ Started(kind, n).name = n
      /\ Started(kind, n).left = <<>> /\ Started(kind, n).written = {}
      /\ Started(kind, n).missed = {} /\ Started(kind, n).asked = Zero
  BY Beginnings DEF Kinds
<1>4. /\ new \in Task /\ ~new.fresh /\ new.pc = "resolve" /\ new.kind = kind /\ new.name = n
      /\ new.left = <<>> /\ new.written = {} /\ new.missed = {} /\ new.row = r
      /\ Become(s, new)
  BY <1>2, <1>3, <1>0 DEF Task
<1> HIDE DEF new
<1> QED
  BY <1>1, <1>3, <1>4, CallBegins DEF Kinds

LEMMA DeleteIsSound ==
  ASSUME Sound, NEW s \in Sessions, NEW n \in Names, Delete(s, n)
  PROVE  Sound'
<1>1. call[s].pc = "idle" /\ "delete" \in Calls[s] /\ calls' \in 0..MaxCalls
      /\ UNCHANGED <<name, count, faults>>
  BY BeginTypes DEF Delete
<1>2. PICK r \in RowsOf(n) : Become(s, [Started("delete", n) EXCEPT !.pc = "delete", !.row = r])
  BY DEF Delete
<1> DEFINE new == [Started("delete", n) EXCEPT !.pc = "delete", !.row = r]
<1>3. r \in Inventories
  BY DEF RowsOf
<1>0. /\ Started("delete", n) \in Task /\ ~Started("delete", n).fresh
      /\ Started("delete", n).kind = "delete" /\ Started("delete", n).name = n
      /\ Started("delete", n).left = <<>> /\ Started("delete", n).written = {}
      /\ Started("delete", n).missed = {} /\ Started("delete", n).asked = Zero
  BY Beginnings DEF Kinds
<1>4. /\ new \in Task /\ ~new.fresh /\ new.pc = "delete" /\ new.kind = "delete" /\ new.name = n
      /\ new.left = <<>> /\ new.written = {} /\ new.missed = {} /\ new.row = r
      /\ Become(s, new)
  BY <1>2, <1>3, <1>0 DEF Task
<1> HIDE DEF new
<1> QED
  BY <1>1, <1>3, <1>4, CallBegins DEF Kinds

(* The order a call takes its rows in.                                       *)
LEMMA OrderOfRows ==
  ASSUME NEW S \in SUBSET Catalog, NEW order \in SetToSeqs(S)
  PROVE  /\ order \in Seq(Catalog)
         /\ \A i, j \in DOMAIN order : order[i] = order[j] => i = j
         /\ {order[i] : i \in DOMAIN order} = S
<1>1. IsFiniteSet(S) /\ Cardinality(S) \in Nat
  <2>1. S \subseteq Ids
    BY DEF Ids
  <2> QED
    BY <2>1, FS_Subset, FS_CardinalityType
<1> DEFINE D == 1..Cardinality(S)
<1>2. order \in [D -> S] /\ \A i, j \in D : order[i] = order[j] => i = j
  BY DEF SetToSeqs, IsInjective
<1>3. order \in Seq(Catalog) /\ DOMAIN order = D
  BY <1>1, <1>2
<1>4. {order[i] : i \in D} = S
  <2>1. order \in Injection(D, S)
    BY <1>2 DEF Injection, IsInjective
  <2>2. Cardinality(D) = Cardinality(S)
    BY <1>1, FS_Interval
  <2>3. order \in Surjection(D, S)
    BY <1>1, <2>1, <2>2, FS_Injection
  <2> QED
    BY <1>2, <2>3 DEF Surjection
<1> QED
  BY <1>2, <1>3, <1>4

(* The next row of a call.                                                   *)
LEMMA NextRow ==
  ASSUME NEW left \in Seq(Catalog), left # <<>>,
         \A i, j \in DOMAIN left : left[i] = left[j] => i = j
  PROVE  /\ Head(left) \in Catalog /\ Tail(left) \in Seq(Catalog)
         /\ Head(left) \in {left[i] : i \in DOMAIN left}
         /\ \A i, j \in DOMAIN Tail(left) : Tail(left)[i] = Tail(left)[j] => i = j
         /\ {Tail(left)[i] : i \in DOMAIN Tail(left)} = {left[i] : i \in DOMAIN left} \ {Head(left)}
         /\ Len(left) = 1 <=> Tail(left) = <<>>
<1>1. /\ Len(left) \in Nat /\ Len(left) > 0 /\ DOMAIN left = 1..Len(left)
      /\ Head(left) = left[1] /\ left[1] \in Catalog
      /\ Tail(left) \in Seq(Catalog) /\ DOMAIN Tail(left) = 1..(Len(left) - 1)
      /\ \A i \in 1..(Len(left) - 1) : Tail(left)[i] = left[i + 1]
  BY EmptySeq
<1>2. {Tail(left)[i] : i \in DOMAIN Tail(left)} = {left[i] : i \in DOMAIN left} \ {Head(left)}
  <2>1. ASSUME NEW i \in DOMAIN left, left[i] # left[1]
        PROVE  \E j \in DOMAIN Tail(left) : Tail(left)[j] = left[i]
    <3>1. i - 1 \in DOMAIN Tail(left) /\ Tail(left)[i - 1] = left[i]
      BY <1>1, <2>1
    <3> QED
      BY <3>1
  <2>2. ASSUME NEW j \in DOMAIN Tail(left)
        PROVE  j + 1 \in DOMAIN left /\ Tail(left)[j] = left[j + 1] /\ left[j + 1] # left[1]
    BY <1>1, <2>2
  <2> QED
    BY <1>1, <2>1, <2>2
<1>3. \A i, j \in DOMAIN Tail(left) : Tail(left)[i] = Tail(left)[j] => i = j
  BY <1>1
<1>4. Len(left) = 1 <=> Tail(left) = <<>>
  <2>1. Tail(left) = <<>> <=> Len(Tail(left)) = 0
    <3>1. Tail(left) \in Seq(Catalog)
      BY <1>1
    <3> QED
      BY ONLY <3>1, EmptySeq
  <2>2. Len(Tail(left)) = Len(left) - 1
    BY <1>1
  <2> QED
    BY <1>1, <2>1, <2>2
<1>5. Head(left) \in {left[i] : i \in DOMAIN left}
  <2>1. 1 \in DOMAIN left
    BY <1>1
  <2> QED
    BY <1>1, <2>1
<1>6. Head(left) \in Catalog /\ Tail(left) \in Seq(Catalog)
  BY <1>1
<1> QED
  BY ONLY <1>2, <1>3, <1>4, <1>5, <1>6

LEMMA OnwardDoes ==
  ASSUME NEW c \in Task, c.left # <<>>, \A i, j \in DOMAIN c.left : c.left[i] = c.left[j] => i = j
  PROVE  /\ Onward(c) \in Task /\ Onward(c).pc \in {"write", "finish"}
         /\ Onward(c).pc = "write" <=> Onward(c).left # <<>>
         /\ Onward(c).kind = c.kind /\ Onward(c).name = c.name /\ Onward(c).row = c.row
         /\ Onward(c).fresh = c.fresh /\ Onward(c).asked = c.asked /\ Onward(c).ignored = c.ignored
         /\ Onward(c).written = c.written /\ Onward(c).copies = c.copies /\ Onward(c).missed = c.missed
         /\ \A i, j \in DOMAIN Onward(c).left : Onward(c).left[i] = Onward(c).left[j] => i = j
         /\ Pending(Onward(c)) = Pending(c) \ {Head(c.left)}
         /\ Head(c.left) \in Pending(c) /\ Head(c.left) \in Catalog
<1> DEFINE n == Onward(c)
           next == IF Len(c.left) = 1 THEN "finish" ELSE "write"
<1>1. c.left \in Seq(Catalog)
  BY DEF Task
<1>2. /\ Head(c.left) \in Catalog /\ Tail(c.left) \in Seq(Catalog)
      /\ Head(c.left) \in Pending(c)
      /\ \A i, j \in DOMAIN Tail(c.left) : Tail(c.left)[i] = Tail(c.left)[j] => i = j
      /\ {Tail(c.left)[i] : i \in DOMAIN Tail(c.left)} = Pending(c) \ {Head(c.left)}
      /\ Len(c.left) = 1 <=> Tail(c.left) = <<>>
  BY <1>1, NextRow DEF Pending
<1>3. n = [c EXCEPT !.left = Tail(c.left), !.pc = next]
  BY DEF Onward, Task
<1>4. next \in {"write", "finish"} /\ (next = "write" <=> Tail(c.left) # <<>>)
  BY <1>2
<1> HIDE DEF n, next
<1>5. /\ n \in Task /\ n.pc = next /\ n.left = Tail(c.left)
      /\ n.kind = c.kind /\ n.name = c.name /\ n.row = c.row
      /\ n.fresh = c.fresh /\ n.asked = c.asked /\ n.ignored = c.ignored
      /\ n.written = c.written /\ n.copies = c.copies /\ n.missed = c.missed
  BY <1>2, <1>3, <1>4 DEF Task
<1>6. Pending(n) = {Tail(c.left)[i] : i \in DOMAIN Tail(c.left)}
  BY <1>5 DEF Pending
<1> QED
  BY <1>2, <1>4, <1>5, <1>6 DEF n

EachOnce(left) == \A i, j \in DOMAIN left : left[i] = left[j] => i = j

LEMMA WrittenDoes ==
  ASSUME NEW c \in Task, c.left # <<>>, EachOnce(c.left),
         NEW p \in Catalog, p = Head(c.left), NEW q \in Nat
  PROVE  /\ Written(c, p, q) \in Task /\ Written(c, p, q).pc \in {"write", "finish"}
         /\ (Written(c, p, q).pc = "write" <=> Written(c, p, q).left # <<>>)
         /\ Written(c, p, q).kind = c.kind /\ Written(c, p, q).name = c.name /\ Written(c, p, q).row = c.row
         /\ Written(c, p, q).fresh = c.fresh /\ Written(c, p, q).asked = c.asked /\ Written(c, p, q).ignored = c.ignored
         /\ Written(c, p, q).written = c.written \cup {p} /\ Written(c, p, q).missed = c.missed
         /\ Written(c, p, q).copies[p] = q /\ \A r \in Catalog \ {p} : Written(c, p, q).copies[r] = c.copies[r]
         /\ EachOnce(Written(c, p, q).left)
         /\ Pending(Written(c, p, q)) = Pending(c) \ {p} /\ p \in Pending(c)
<1> DEFINE m == [c EXCEPT !.written = @ \cup {p}, !.copies[p] = q]
           n == Written(c, p, q)
<1>1. /\ m \in Task /\ m.left = c.left /\ m.pc = c.pc
      /\ m.kind = c.kind /\ m.name = c.name /\ m.row = c.row
      /\ m.fresh = c.fresh /\ m.asked = c.asked /\ m.ignored = c.ignored
      /\ m.written = c.written \cup {p} /\ m.missed = c.missed
      /\ m.copies[p] = q /\ \A r \in Catalog \ {p} : m.copies[r] = c.copies[r]
  BY DEF Task
<1>2. n = Onward(m)
  BY DEF Written
<1> HIDE DEF m, n
<1>3. Pending(m) = Pending(c)
  BY <1>1 DEF Pending
<1>4. /\ m.left # <<>> /\ \A i, j \in DOMAIN m.left : m.left[i] = m.left[j] => i = j
  BY <1>1 DEF EachOnce
<1>5. /\ n \in Task /\ n.pc \in {"write", "finish"} /\ (n.pc = "write" <=> n.left # <<>>)
      /\ n.kind = m.kind /\ n.name = m.name /\ n.row = m.row
      /\ n.fresh = m.fresh /\ n.asked = m.asked /\ n.ignored = m.ignored
      /\ n.written = m.written /\ n.copies = m.copies /\ n.missed = m.missed
      /\ \A i, j \in DOMAIN n.left : n.left[i] = n.left[j] => i = j
      /\ Pending(n) = Pending(m) \ {Head(m.left)} /\ Head(m.left) \in Pending(m)
  BY <1>1, <1>2, <1>4, OnwardDoes
<1> QED
  BY <1>1, <1>3, <1>5 DEF n, EachOnce

LEMMA CallFacts ==
  ASSUME Sound, NEW s \in Sessions
  PROVE  /\ call[s] \in Task /\ SoundCall(s)
         /\ \A r \in Inventories, p \in Catalog : count[r][p] \in Nat
         /\ \A r \in Inventories : name[r] \in Names \cup {"none", "gone"}
         /\ calls \in 0..MaxCalls /\ faults \in 0..MaxFaults
  BY DEF Sound, Typed

(* A row is written: nobody else has it locked, and it is not gone.          *)
LEMMA WriteIsSound ==
  ASSUME Sound, NEW s \in Sessions, call[s].pc \in {"write", "update"},
         UNCHANGED <<name, count, calls, faults>>,
         NEW p \in Catalog, p = Head(call[s].left), Free(s, p), ~Gone(call[s]), NEW q \in Nat,
         q = (IF call[s].kind = "remove" THEN Least(count[call[s].row][p], call[s].asked[p])
              ELSE count[call[s].row][p] + call[s].asked[p]),
         Become(s, Written(call[s], p, q))
  PROVE  Sound'
<1> DEFINE c == call[s]
           n == Written(c, p, q)
<1>1. c \in Task /\ SoundCall(s)
  BY CallFacts
<1>2. c.left # <<>> /\ \A i, j \in DOMAIN c.left : c.left[i] = c.left[j] => i = j
  BY <1>1 DEF SoundCall, Stages
<1> HIDE DEF c, n
<1>3. /\ n \in Task /\ n.pc \in {"write", "finish"} /\ (n.pc = "write" <=> n.left # <<>>)
      /\ n.kind = c.kind /\ n.name = c.name /\ n.row = c.row
      /\ n.fresh = c.fresh /\ n.asked = c.asked /\ n.ignored = c.ignored
      /\ n.written = c.written \cup {p} /\ n.missed = c.missed
      /\ n.copies[p] = q /\ \A r \in Catalog \ {p} : n.copies[r] = c.copies[r]
      /\ \A i, j \in DOMAIN n.left : n.left[i] = n.left[j] => i = j
      /\ Pending(n) = Pending(c) \ {p} /\ p \in Pending(c)
  <2>1. c \in Task /\ p \in Catalog /\ q \in Nat /\ p = Head(c.left) /\ n = Written(c, p, q)
    BY <1>1 DEF c, n
  <2>2. c.left # <<>> /\ EachOnce(c.left)
    BY <1>2 DEF EachOnce
  <2>3. EachOnce(n.left) => \A i, j \in DOMAIN n.left : n.left[i] = n.left[j] => i = j
    BY DEF EachOnce
  <2> QED
    BY ONLY <2>1, <2>2, <2>3, WrittenDoes
<1>4. Become(s, n)
  BY DEF c, n
<1> USE DEF c
<1>5. Stages(s, n)
  <2>1. /\ c.kind \in Calls[s] /\ c.kind \in Kinds /\ c.row \in Inventories
        /\ c.name \in Names /\ (c.kind = "remove" => c.name # Collection)
        /\ c.fresh => c.kind \in Creating /\ c.pc \in {"resolve", "write", "finish"}
        /\ c.kind # "create" /\ (c.pc = "update" => ~c.fresh)
    BY <1>1 DEF SoundCall, Stages, Creating
  <2>2. /\ Pending(c) \cap c.written = {}
        /\ \A r \in Pending(c) \cup c.written : c.asked[r] > 0
    BY <1>1 DEF SoundCall, Stages
  <2>3. n.pc # "idle" /\ n.pc # "resolve" /\ n.pc # "delete" /\ n.pc # "update"
    BY <1>3
  <2>4. /\ Pending(n) \cap n.written = {}
        /\ \A r \in Pending(n) \cup n.written : n.asked[r] > 0
    BY <1>3, <2>2
  <2> QED
    BY <1>3, <2>1, <2>3, <2>4 DEF Stages
<1>6. Placed(s, n)
  <2>1. /\ ~Gone(n) /\ (n.fresh => name[n.row] = "none")
        /\ ~n.fresh => name[n.row] \in {n.name, "gone"}
    BY <1>1, <1>3 DEF SoundCall, Placed, Gone
  <2>2. ASSUME NEW t \in Sessions \ {s}, call[t].pc # "idle"
        PROVE  /\ n.fresh => call[t].row # n.row
               /\ n.row = call[t].row => n.written \cap call[t].written = {}
    <3>1. /\ c.fresh => call[t].row # c.row
          /\ c.row = call[t].row => c.written \cap call[t].written = {}
      BY <1>1, <2>2 DEF SoundCall, Placed
    <3>2. c.row = call[t].row => p \notin call[t].written
      BY DEF Free, LockedBy
    <3> QED
      BY <1>3, <3>1, <3>2
  <2> QED
    BY <1>3, <2>1, <2>2 DEF Placed
<1>7. Amounts(n)
  <2>1. n.written \subseteq Catalog
    BY <1>3 DEF Task
  <2>2. ASSUME NEW r \in c.written
        PROVE  c.copies[r] = IF c.kind = "remove" THEN Least(count[c.row][r], c.asked[r])
                             ELSE count[c.row][r] + c.asked[r]
    BY <1>1 DEF SoundCall, Amounts
  <2> QED
    BY <1>3, <2>1, <2>2 DEF Amounts
<1>8. Whole(n)
  BY <1>1, <1>3 DEF SoundCall, Whole, Stages
<1>9. \A t \in Sessions \ {s} : call[t].fresh => n.row # call[t].row
  BY <1>1, <1>3 DEF Sound, SoundCall, Placed
<1>10. calls' \in 0..MaxCalls /\ faults' \in 0..MaxFaults
  BY CallFacts
<1> QED
  BY <1>3, <1>4, <1>5, <1>6, <1>7, <1>8, <1>9, <1>10, CallStep

(* A step of a call that writes nothing.                                     *)
LEMMA MoveIsSound ==
  ASSUME Sound, NEW s \in Sessions, UNCHANGED <<name, count, calls, faults>>,
         NEW n \in Task, Become(s, n), call[s].pc # "idle", n.pc # "idle",
         n.kind = call[s].kind, n.name = call[s].name, n.row = call[s].row,
         n.fresh = call[s].fresh, n.asked = call[s].asked,
         n.written = call[s].written, n.copies = call[s].copies,
         Stages(s, n), Whole(n)
  PROVE  Sound'
<1>1. SoundCall(s) /\ calls' \in 0..MaxCalls /\ faults' \in 0..MaxFaults
  BY CallFacts
<1>2. Placed(s, n)
  BY <1>1 DEF SoundCall, Placed, Gone
<1>3. Amounts(n)
  BY <1>1 DEF SoundCall, Amounts
<1>4. \A t \in Sessions \ {s} : call[t].fresh => n.row # call[t].row
  BY <1>1 DEF Sound, SoundCall, Placed
<1> QED
  BY <1>1, <1>2, <1>3, <1>4, CallStep

(* What a call about to write a row finds.                                   *)
LEMMA AboutToWrite ==
  ASSUME Sound, NEW s \in Sessions, call[s].pc \in {"write", "update"}
  PROVE  /\ call[s] \in Task /\ call[s].left # <<>>
         /\ \A i, j \in DOMAIN call[s].left : call[s].left[i] = call[s].left[j] => i = j
         /\ Head(call[s].left) \in Pending(call[s]) /\ Head(call[s].left) \in Catalog
         /\ call[s].row \in Inventories /\ call[s].kind \in Kinds
         /\ count[call[s].row][Head(call[s].left)] \in Nat
         /\ call[s].asked[Head(call[s].left)] \in Nat
         /\ call[s].asked[Head(call[s].left)] > 0
         /\ count[call[s].row][Head(call[s].left)] > 0 => ~Gone(call[s])
<1> DEFINE c == call[s]
<1>1. c \in Task /\ SoundCall(s)
  BY CallFacts
<1>2. /\ c.left # <<>> /\ \A i, j \in DOMAIN c.left : c.left[i] = c.left[j] => i = j
      /\ c.row \in Inventories /\ c.kind \in Kinds
  BY <1>1 DEF SoundCall, Stages
<1>3. Head(c.left) \in Pending(c) /\ Head(c.left) \in Catalog
  BY <1>1, <1>2, OnwardDoes
<1>4. count[c.row][Head(c.left)] \in Nat /\ c.asked[Head(c.left)] \in Nat
  BY <1>1, <1>2, <1>3, CallFacts DEF Task
<1>5. c.asked[Head(c.left)] > 0
  BY <1>1, <1>3 DEF SoundCall, Stages
<1>6. Gone(c) => count[c.row] = Zero
  BY <1>2 DEF Sound, Emptied, Gone
<1>7. count[c.row][Head(c.left)] > 0 => ~Gone(c)
  BY <1>3, <1>6 DEF Zero
<1> QED
  BY <1>1, <1>2, <1>3, <1>4, <1>5, <1>7

LEMMA ResolveIsSound ==
  ASSUME Sound, NEW s \in Sessions, Resolve(s)
  PROVE  Sound'
<1> DEFINE c == call[s]
           needed == {p \in Catalog : c.asked[p] > 0}
<1>1. c \in Task /\ SoundCall(s) /\ c.pc = "resolve"
  BY CallFacts DEF Resolve, At
<1>2. CASE ~Gone(c)
  <2>1. PICK order \in SetToSeqs(needed) :
          /\ Become(s, [c EXCEPT !.pc = IF order = <<>> THEN "finish" ELSE "write", !.left = order])
          /\ UNCHANGED <<name, count, calls, faults>>
    BY <1>2 DEF Resolve
  <2> DEFINE pc == IF order = <<>> THEN "finish" ELSE "write"
             n == [c EXCEPT !.pc = pc, !.left = order]
  <2>2. /\ order \in Seq(Catalog) /\ \A i, j \in DOMAIN order : order[i] = order[j] => i = j
        /\ {order[i] : i \in DOMAIN order} = needed
    <3>1. needed \in SUBSET Catalog /\ order \in SetToSeqs(needed)
      BY <2>1
    <3> HIDE DEF needed
    <3> QED
      BY ONLY <3>1, OrderOfRows
  <2>3. pc \in {"finish", "write"} /\ (pc = "write" <=> order # <<>>)
    OBVIOUS
  <2>4. Become(s, n)
    BY <2>1
  <2> HIDE DEF pc
  <2>5. /\ n \in Task /\ n.pc = pc /\ n.left = order
        /\ n.kind = c.kind /\ n.name = c.name /\ n.row = c.row
        /\ n.fresh = c.fresh /\ n.asked = c.asked /\ n.ignored = c.ignored
        /\ n.written = c.written /\ n.copies = c.copies /\ n.missed = c.missed
    BY <1>1, <2>2, <2>3 DEF Task
  <2> HIDE DEF n
  <2>6. Pending(n) = needed
    BY <2>2, <2>5 DEF Pending
  <2>7. Stages(s, n)
    <3>1. /\ c.kind \in Calls[s] /\ c.kind \in Kinds /\ c.row \in Inventories
          /\ c.name \in Names /\ (c.kind = "remove" => c.name # Collection)
          /\ c.fresh => c.kind \in Creating
          /\ c.kind # "create" /\ c.written = {}
      BY <1>1 DEF SoundCall, Stages
    <3>2. /\ Pending(n) \cap n.written = {}
          /\ \A r \in Pending(n) \cup n.written : n.asked[r] > 0
      BY <2>5, <2>6, <3>1
    <3>3. \A i, j \in DOMAIN n.left : n.left[i] = n.left[j] => i = j
      BY <2>2, <2>5
    <3> QED
      BY <2>3, <2>5, <3>1, <3>2, <3>3 DEF Stages
  <2>8. Whole(n)
    BY <2>5, <2>6 DEF Whole
  <2>9. c.pc # "idle" /\ n.pc # "idle" /\ UNCHANGED <<name, count, calls, faults>>
    BY <1>1, <2>1, <2>3, <2>5
  <2> QED
    BY <2>4, <2>5, <2>7, <2>8, <2>9, MoveIsSound
<1>3. CASE Gone(c)
  <2>1. Become(s, Idle) /\ UNCHANGED <<name, count, calls, faults>>
    BY <1>3 DEF Resolve, Fails
  <2> QED
    BY <2>1, EndOfCall, CallFacts
<1> QED
  BY <1>2, <1>3

LEMMA UpsertIsSound ==
  ASSUME Sound, NEW s \in Sessions, Upsert(s)
  PROVE  Sound'
<1> DEFINE c == call[s]
           p == Head(c.left)
<1>1. c.pc = "write" /\ c.kind # "remove" /\ Free(s, p)
  BY DEF Upsert, At
<1>2. CASE Gone(c)
  <2>1. Become(s, Idle) /\ UNCHANGED <<name, count, calls, faults>>
    BY <1>2 DEF Upsert, Fails
  <2> QED
    BY <2>1, EndOfCall, CallFacts
<1>3. CASE ~Gone(c)
  <2> DEFINE q == count[c.row][p] + c.asked[p]
  <2>1. Become(s, Written(c, p, q)) /\ UNCHANGED <<name, count, calls, faults>>
    BY <1>3 DEF Upsert, Increased
  <2>2. p \in Catalog /\ q \in Nat
    BY <1>1, AboutToWrite
  <2> QED
    BY <1>1, <1>3, <2>1, <2>2, WriteIsSound
<1> QED
  BY <1>2, <1>3

(* A row is passed over.                                                     *)
LEMMA SkipIsSound ==
  ASSUME Sound, NEW s \in Sessions, call[s].pc = "update", Become(s, Onward(call[s])),
         UNCHANGED <<name, count, calls, faults>>
  PROVE  Sound'
<1> DEFINE c == call[s]
           n == Onward(c)
<1>1. c \in Task /\ SoundCall(s) /\ c.left # <<>>
      /\ \A i, j \in DOMAIN c.left : c.left[i] = c.left[j] => i = j
  BY CallFacts, AboutToWrite
<1>2. /\ n \in Task /\ n.pc \in {"write", "finish"} /\ (n.pc = "write" <=> n.left # <<>>)
      /\ n.kind = c.kind /\ n.name = c.name /\ n.row = c.row
      /\ n.fresh = c.fresh /\ n.asked = c.asked /\ n.ignored = c.ignored
      /\ n.written = c.written /\ n.copies = c.copies /\ n.missed = c.missed
      /\ \A i, j \in DOMAIN n.left : n.left[i] = n.left[j] => i = j
      /\ Pending(n) = Pending(c) \ {Head(c.left)}
  BY <1>1, OnwardDoes
<1>3. Become(s, n)
  OBVIOUS
<1> HIDE DEF n
<1>4. /\ c.kind \in Calls[s] /\ c.kind \in Kinds /\ c.row \in Inventories
      /\ c.name \in Names /\ c.kind = "remove" /\ c.name # Collection /\ ~c.fresh
      /\ Pending(c) \cap c.written = {}
      /\ \A r \in Pending(c) \cup c.written : c.asked[r] > 0
  BY <1>1 DEF SoundCall, Stages, Task, Creating
<1>5. /\ Pending(n) \cap n.written = {}
      /\ \A r \in Pending(n) \cup n.written : n.asked[r] > 0
  BY <1>2, <1>4
<1>6. Stages(s, n)
  BY <1>2, <1>4, <1>5 DEF Stages
<1>7. Whole(n)
  BY <1>2, <1>4 DEF Whole
<1> QED
  BY <1>2, <1>3, <1>6, <1>7, MoveIsSound

LEMMA DecrementIsSound ==
  ASSUME Sound, NEW s \in Sessions, Decrement(s)
  PROVE  Sound'
<1> DEFINE c == call[s]
           p == Head(c.left)
           has == count[c.row][p]
<1>1. c.pc = "write" /\ c.kind = "remove" /\ UNCHANGED <<name, count, calls, faults>>
  BY DEF Decrement, At
<1>2. /\ c \in Task /\ p \in Catalog /\ has \in Nat /\ c.asked[p] \in Nat
      /\ has > 0 => ~Gone(c)
  BY <1>1, AboutToWrite
<1>3. CASE has > 0 /\ has <= c.asked[p] /\ Free(s, p) /\ Become(s, Written(c, p, 0))
  <2>1. 0 \in Nat /\ 0 = Least(has, c.asked[p])
    BY <1>2, <1>3 DEF Least
  <2> QED
    BY <1>1, <1>2, <1>3, <2>1, WriteIsSound
<1>4. ASSUME NEW m, m = (IF has = 0 THEN c.missed \cup {p} ELSE c.missed),
             Become(s, [c EXCEPT !.pc = "update", !.missed = m])
      PROVE  Sound'
  <2> DEFINE n == [c EXCEPT !.pc = "update", !.missed = m]
  <2>1. m \subseteq Catalog
    BY <1>2, <1>4 DEF Task
  <2>2. Become(s, n)
    BY <1>4
  <2>3. /\ n \in Task /\ n.pc = "update" /\ n.left = c.left
        /\ n.kind = c.kind /\ n.name = c.name /\ n.row = c.row
        /\ n.fresh = c.fresh /\ n.asked = c.asked /\ n.ignored = c.ignored
        /\ n.written = c.written /\ n.copies = c.copies
    BY <1>2, <2>1 DEF Task
  <2> HIDE DEF n
  <2>4. SoundCall(s)
    BY CallFacts
  <2>5. /\ c.kind \in Calls[s] /\ c.kind \in Kinds /\ c.row \in Inventories
        /\ c.name \in Names /\ c.name # Collection /\ ~c.fresh /\ c.left # <<>>
        /\ Pending(c) \cap c.written = {}
        /\ \A r \in Pending(c) \cup c.written : c.asked[r] > 0
        /\ \A i, j \in DOMAIN c.left : c.left[i] = c.left[j] => i = j
    BY <1>1, <1>2, <2>4 DEF SoundCall, Stages, Task, Creating
  <2>6. Pending(n) = Pending(c)
    BY <2>3 DEF Pending
  <2>7. Stages(s, n)
    BY <1>1, <2>3, <2>5, <2>6 DEF Stages
  <2>8. Whole(n)
    BY <1>1, <2>3 DEF Whole
  <2> QED
    BY <1>1, <2>2, <2>3, <2>7, <2>8, MoveIsSound
<1>5. CASE Become(s, [c EXCEPT !.pc = "update", !.missed = IF has = 0 THEN c.missed \cup {p} ELSE c.missed])
  BY <1>4, <1>5
<1>6. \/ has > 0 /\ has <= c.asked[p] /\ Free(s, p) /\ Become(s, Written(c, p, 0))
      \/ Become(s, [c EXCEPT !.pc = "update", !.missed = IF has = 0 THEN @ \cup {p} ELSE @])
  BY DEF Decrement
<1> QED
  BY <1>3, <1>5, <1>6

LEMMA UpdateIsSound ==
  ASSUME Sound, NEW s \in Sessions, Update(s)
  PROVE  Sound'
<1> DEFINE c == call[s]
           p == Head(c.left)
           has == count[c.row][p]
<1>1. c.pc = "update" /\ UNCHANGED <<name, count, calls, faults>>
  BY DEF Update, At
<1>2. /\ c \in Task /\ p \in Catalog /\ has \in Nat /\ c.asked[p] \in Nat
      /\ (has > 0 => ~Gone(c)) /\ c.asked[p] > 0
  BY <1>1, AboutToWrite
<1>3. c.kind = "remove"
  BY <1>1, CallFacts DEF SoundCall, Stages
<1>4. CASE has > c.asked[p] /\ Free(s, p) /\ Become(s, Written(c, p, has - c.asked[p]))
  <2> DEFINE q == has - c.asked[p]
  <2>1. q \in Nat /\ q = Least(has, c.asked[p]) /\ ~Gone(c)
    BY <1>2, <1>4 DEF Least
  <2>2. Become(s, Written(c, p, q))
    BY <1>4
  <2> HIDE DEF q
  <2> QED
    BY <1>1, <1>2, <1>3, <1>4, <2>1, <2>2, WriteIsSound
<1>5. CASE Become(s, Onward(c))
  BY <1>1, <1>5, SkipIsSound
<1> QED
  BY <1>4, <1>5 DEF Update

LEMMA EndingsAreSound ==
  ASSUME Sound, NEW s \in Sessions, Victim(s) \/ Disconnect(s)
  PROVE  Sound'
<1>1. Become(s, Idle) /\ UNCHANGED <<name, count>> /\ calls' = calls
  BY DEF Victim, Disconnect, Fails
<1>2. calls' \in 0..MaxCalls /\ faults' \in 0..MaxFaults
  BY CallFacts DEF Victim, Disconnect, Fails
<1> QED
  BY <1>1, <1>2, EndOfCall

(* A step that commits and ends its call, as the other calls see it.         *)
LEMMA CommitStep ==
  ASSUME Sound, NEW s \in Sessions, Become(s, Idle), UNCHANGED <<calls, faults>>,
         name' \in [Inventories -> Names \cup {"none", "gone"}],
         count' \in [Inventories -> [Catalog -> Nat]], Emptied',
         \A t \in Sessions \ {s} : call[t].pc # "idle" =>
           LET c == call[t] IN
           /\ name'[c.row] \in {name[c.row], "gone"}
           /\ name'[c.row] = "gone" => c.written = {}
           /\ c.fresh => name'[c.row] = name[c.row]
           /\ \A p \in c.written : count'[c.row][p] = count[c.row][p]
  PROVE  Sound'
<1>1. call'[s] = Idle /\ \A t \in Sessions \ {s} : call'[t] = call[t]
  BY Becomes DEF Sound
<1>2. Typed'
  BY IdleIsTask DEF Sound, Typed, Become
<1>3. SoundCall(s)'
  <2>1. Stages(s, Idle)
    BY DEF Stages, Idle, Pending
  <2>2. Stages(s, call[s])'
    BY <1>1, <2>1 DEF Stages, Pending
  <2>3. Placed(s, call[s])' /\ Amounts(call[s])' /\ Whole(call[s])'
    BY <1>1 DEF Placed, Amounts, Whole, Idle
  <2> QED
    BY <2>2, <2>3 DEF SoundCall
<1>4. ASSUME NEW t \in Sessions \ {s} PROVE SoundCall(t)'
  <2> DEFINE c == call[t]
  <2>1. SoundCall(t) /\ call'[t] = call[t]
    BY <1>1 DEF Sound
  <2>2. Stages(t, call[t])' /\ Whole(call[t])'
    BY <2>1 DEF SoundCall, Stages, Whole, Pending
  <2>3. c.pc = "idle" => c.written = {} /\ ~c.fresh
    BY <2>1 DEF SoundCall, Stages, Idle
  <2>4. Amounts(call[t])'
    <3>1. ASSUME NEW p \in c.written PROVE count'[c.row][p] = count[c.row][p]
      BY <2>3, <3>1
    <3> QED
      BY <2>1, <3>1 DEF SoundCall, Amounts
  <2>5. Placed(t, call[t])'
    <3>1. /\ c.pc # "idle" /\ ~c.fresh => name'[c.row] \in {c.name, "gone"}
          /\ c.fresh => name'[c.row] = "none"
          /\ c.pc # "idle" /\ name'[c.row] = "gone" => c.written = {}
      BY <2>1, <2>3 DEF SoundCall, Placed
    <3>2. ASSUME NEW u \in Sessions \ {t}
          PROVE  /\ c.fresh /\ call'[u].pc # "idle" => call'[u].row # c.row
                 /\ c.pc # "idle" /\ call'[u].pc # "idle" /\ c.row = call'[u].row =>
                      c.written \cap call'[u].written = {}
      <4>1. CASE u = s
        BY <1>1, <4>1 DEF Idle
      <4>2. CASE u # s
        BY <1>1, <2>1, <4>2 DEF SoundCall, Placed
      <4> QED
        BY <4>1, <4>2
    <3> QED
      BY <2>1, <3>1, <3>2 DEF Placed, Gone
  <2> QED
    BY <2>2, <2>4, <2>5 DEF SoundCall
<1> QED
  BY <1>2, <1>3, <1>4 DEF Sound

(* What a commit makes of the counts.                                        *)
Committed(c) == [p \in Catalog |-> IF p \in c.written THEN c.copies[p] ELSE count[c.row][p]]

LEMMA FinishDoes ==
  ASSUME Sound, NEW s \in Sessions, Finish(s), ~TooMany(call[s])
  PROVE  /\ name' = IF call[s].fresh THEN [name EXCEPT ![call[s].row] = call[s].name] ELSE name
         /\ count' = [count EXCEPT ![call[s].row] = Committed(call[s])]
         /\ Become(s, Idle) /\ UNCHANGED <<calls, faults>>
         /\ Committed(call[s]) \in [Catalog -> Nat]
         /\ call[s].row \in Inventories /\ call[s].name \in Names /\ call[s].pc = "finish"
<1> DEFINE c == call[s]
<1>1. c \in Task /\ SoundCall(s) /\ c.pc = "finish"
  BY CallFacts DEF Finish, At
<1>2. c.row \in Inventories /\ c.name \in Names
  BY <1>1 DEF SoundCall, Stages
<1>3. Committed(c) \in [Catalog -> Nat]
  BY <1>1, <1>2, CallFacts DEF Committed, Task
<1>4. count' = [count EXCEPT ![c.row] = Committed(c)]
  BY <1>2 DEF Finish, Committed, Sound, Typed
<1> QED
  BY <1>1, <1>2, <1>3, <1>4 DEF Finish

LEMMA FinishIsSound ==
  ASSUME Sound, NEW s \in Sessions, Finish(s)
  PROVE  Sound'
<1> DEFINE c == call[s]
<1>1. CASE TooMany(c)
  <2>1. Become(s, Idle) /\ UNCHANGED <<name, count, calls, faults>>
    BY <1>1 DEF Finish, Fails
  <2> QED
    BY <2>1, EndOfCall, CallFacts
<1>2. CASE ~TooMany(c)
  <2>1. /\ name' = IF c.fresh THEN [name EXCEPT ![c.row] = c.name] ELSE name
        /\ count' = [count EXCEPT ![c.row] = Committed(c)]
        /\ Become(s, Idle) /\ UNCHANGED <<calls, faults>>
        /\ Committed(c) \in [Catalog -> Nat]
        /\ c.row \in Inventories /\ c.name \in Names /\ c.pc = "finish"
    BY <1>2, FinishDoes
  <2>2. SoundCall(s)
    BY CallFacts
  <2>3. name' \in [Inventories -> Names \cup {"none", "gone"}] /\ count' \in [Inventories -> [Catalog -> Nat]]
    BY <2>1 DEF Sound, Typed
  <2>4. ASSUME NEW r \in Inventories
        PROVE  /\ r # c.row => name'[r] = name[r] /\ count'[r] = count[r]
               /\ name'[c.row] = (IF c.fresh THEN c.name ELSE name[c.row])
               /\ count'[c.row] = Committed(c)
    BY <2>1 DEF Sound, Typed
  <2>5. Emptied'
    <3>1. ASSUME name'[c.row] \in {"none", "gone"} PROVE Committed(c) = Zero
      <4>1. ~c.fresh /\ name[c.row] = "gone"
        BY <2>1, <2>2, <2>4, <3>1 DEF SoundCall, Placed
      <4>2. c.written = {}
        BY <2>1, <2>2, <4>1 DEF SoundCall, Placed, Gone
      <4>3. count[c.row] = Zero
        BY <2>1, <4>1 DEF Sound, Emptied
      <4> QED
        BY <4>2, <4>3 DEF Committed, Zero
    <3> QED
      BY <2>4, <3>1 DEF Sound, Emptied
  <2>6. ASSUME NEW t \in Sessions \ {s}, call[t].pc # "idle"
        PROVE  LET d == call[t] IN
               /\ name'[d.row] \in {name[d.row], "gone"}
               /\ name'[d.row] = "gone" => d.written = {}
               /\ d.fresh => name'[d.row] = name[d.row]
               /\ \A p \in d.written : count'[d.row][p] = count[d.row][p]
    <3> DEFINE d == call[t]
    <3>1. /\ c.fresh => d.row # c.row
          /\ d.row = c.row => c.written \cap d.written = {}
      BY <2>1, <2>2, <2>6 DEF SoundCall, Placed
    <3>2. d.row \in Inventories /\ (name[d.row] = "gone" => d.written = {}) /\ d \in Task
      BY <2>6 DEF Sound, Typed, SoundCall, Placed, Stages, Gone
    <3>3. name'[d.row] = name[d.row]
      BY <2>4, <3>1, <3>2
    <3>4. ASSUME NEW p \in d.written PROVE count'[d.row][p] = count[d.row][p]
      <4>1. p \in Catalog
        BY <3>2 DEF Task
      <4>2. CASE d.row = c.row
        <5>1. p \notin c.written
          BY <3>1, <4>2
        <5>2. Committed(c)[p] = count[c.row][p]
          BY <4>1, <5>1 DEF Committed
        <5>3. count'[c.row] = Committed(c)
          BY <2>1, <2>4
        <5> QED
          BY <4>2, <5>2, <5>3
      <4>3. CASE d.row # c.row
        BY <2>4, <3>2, <4>3
      <4> QED
        BY <4>2, <4>3
    <3> QED
      BY <3>2, <3>3, <3>4
  <2> QED
    BY <2>1, <2>3, <2>5, <2>6, CommitStep
<1> QED
  BY <1>1, <1>2

LEMMA DeleteRowIsSound ==
  ASSUME Sound, NEW s \in Sessions, DeleteRow(s)
  PROVE  Sound'
<1> DEFINE c == call[s]
<1>1. /\ c.pc = "delete" /\ \A t \in Sessions \ {s} : call[t].row = c.row => call[t].written = {}
      /\ name' = [name EXCEPT ![c.row] = "gone"] /\ count' = [count EXCEPT ![c.row] = Zero]
      /\ Become(s, Idle) /\ UNCHANGED <<calls, faults>>
  BY DEF DeleteRow, At
<1>2. c.row \in Inventories
  BY <1>1 DEF Sound, SoundCall, Stages
<1>3. Zero \in [Catalog -> Nat]
  BY DEF Zero
<1>4. name' \in [Inventories -> Names \cup {"none", "gone"}] /\ count' \in [Inventories -> [Catalog -> Nat]]
  BY <1>1, <1>3 DEF Sound, Typed
<1>5. ASSUME NEW r \in Inventories
      PROVE  /\ r # c.row => name'[r] = name[r] /\ count'[r] = count[r]
             /\ name'[c.row] = "gone" /\ count'[c.row] = Zero
  BY <1>1, <1>2 DEF Sound, Typed
<1>6. Emptied'
  BY <1>5 DEF Sound, Emptied
<1>7. ASSUME NEW t \in Sessions \ {s}, call[t].pc # "idle"
      PROVE  LET d == call[t] IN
             /\ name'[d.row] \in {name[d.row], "gone"}
             /\ name'[d.row] = "gone" => d.written = {}
             /\ d.fresh => name'[d.row] = name[d.row]
             /\ \A p \in d.written : count'[d.row][p] = count[d.row][p]
  <2> DEFINE d == call[t]
  <2>1. d.row \in Inventories /\ (name[d.row] = "gone" => d.written = {}) /\ (d.fresh => d.row # c.row)
    BY <1>1, <1>7 DEF Sound, Typed, SoundCall, Placed, Stages, Gone
  <2> QED
    BY <1>1, <1>5, <2>1
<1> QED
  BY <1>1, <1>4, <1>6, <1>7, CommitStep

--------------------------------------------------------------------------------
LEMMA SoundInit == Init => Sound
<1> SUFFICES ASSUME Init PROVE Sound
  OBVIOUS
<1>1. Typed /\ Emptied
  BY IdleIsTask DEF Init, Typed, Emptied, Zero
<1>2. ASSUME NEW s \in Sessions PROVE SoundCall(s)
  <2>1. \A t \in Sessions : call[t] = Idle
    BY DEF Init
  <2>2. Stages(s, Idle)
    BY DEF Stages, Idle, Pending
  <2>3. Placed(s, Idle) /\ Amounts(Idle) /\ Whole(Idle)
    BY DEF Placed, Amounts, Whole, Idle
  <2> QED
    BY <2>1, <2>2, <2>3 DEF SoundCall
<1> QED
  BY <1>1, <1>2 DEF Sound

LEMMA SoundNext ==
  ASSUME FilesAreCounts, Sound, [Next]_vars
  PROVE  Sound'
<1>1. CASE UNCHANGED vars
  <2>1. Typed' /\ Emptied'
    BY <1>1 DEF Sound, Typed, Emptied, vars
  <2>2. ASSUME NEW s \in Sessions PROVE SoundCall(s)'
    BY <1>1 DEF Sound, SoundCall, Stages, Placed, Amounts, Whole, Pending, Gone, vars
  <2> QED
    BY <2>1, <2>2 DEF Sound
<1>2. ASSUME NEW s \in Sessions, NEW n \in Names, Create(s, n) PROVE Sound'
  BY <1>2, CreateIsSound
<1>3. ASSUME NEW s \in Sessions, NEW n \in Names, Delete(s, n) PROVE Sound'
  BY <1>3, DeleteIsSound
<1>4. ASSUME NEW s \in Sessions, NEW n \in Names, NEW file \in Files, Import(s, n, file) \/ Ingest(s, n, file)
      PROVE  Sound'
  BY <1>4, ImportIsSound DEF Import, Ingest
<1>5. ASSUME NEW s \in Sessions, NEW n \in Names, NEW list \in Lists, AddCards(s, n, list) \/ RemoveCards(s, n, list)
      PROVE  Sound'
  BY <1>5, EditIsSound DEF AddCards, RemoveCards
<1>6. ASSUME NEW s \in Sessions, Step(s) \/ Disconnect(s) PROVE Sound'
  BY <1>6, ResolveIsSound, UpsertIsSound, DecrementIsSound, UpdateIsSound, FinishIsSound,
     DeleteRowIsSound, EndingsAreSound DEF Step
<1> QED
  BY <1>1, <1>2, <1>3, <1>4, <1>5, <1>6 DEF Next

LEMMA SoundHolds ==
  ASSUME FilesAreCounts PROVE Spec => []Sound
<1>1. Sound /\ [Next]_vars => Sound'
  BY SoundNext
<1> QED
  BY <1>1, SoundInit, PTL DEF Spec

LEMMA SoundIsTyped == Sound => TypeOK
<1> SUFFICES ASSUME Sound PROVE TypeOK
  OBVIOUS
<1>1. ASSUME NEW s \in Sessions
      PROVE  LET c == call[s]
             IN /\ c.pc \in {"idle", "resolve", "write", "update", "finish", "delete"}
                /\ c.kind \in Kinds \cup {"none"} /\ c.name \in Names \cup {"none"}
                /\ c.row \in {0} \cup Inventories /\ c.fresh \in BOOLEAN
                /\ c.asked \in [Catalog -> Nat] /\ c.copies \in [Catalog -> Nat]
                /\ c.written \subseteq Catalog /\ c.missed \subseteq Catalog
                /\ \A i \in DOMAIN c.left : c.left[i] \in Catalog
  <2>1. call[s] \in Task
    BY CallFacts
  <2>2. \A i \in DOMAIN call[s].left : call[s].left[i] \in Catalog
    BY <2>1 DEF Task
  <2> QED
    BY <2>1, <2>2 DEF Task
<1> QED
  BY <1>1 DEF Sound, Typed, TypeOK

(* Names, counts and calls keep their types, whatever sessions do at once:   *)
(* no committed or pending count is negative or missing.                     *)
THEOREM InventoryTypeCorrect ==
  ASSUME FilesAreCounts PROVE Spec => []TypeOK
BY SoundHolds, SoundIsTyped, PTL

(* The steps of calls.  A call that begins asks what a list or a file asks.  *)
Ordered(c) ==
  /\ c.kind \in {"create", "delete"} => c.asked = Zero /\ c.ignored = 0
  /\ c.kind \in {"add", "remove"} => c.asked \in ListDeliveries /\ c.ignored = 0
  /\ c.kind \in {"import", "ingest"} =>
       \E f \in Files : /\ Importable(f) /\ c.asked = Known(AskedByFile(f))
                        /\ c.ignored = Cardinality(Missing(AskedByFile(f)))

(* The inventory of a call is the only one of its name, or a new one.        *)
Found(new) ==
  IF new.fresh THEN RowsOf(new.name) = {} /\ new.row \in Inventories \ InUse /\ new.kind \in Creating
  ELSE new.row \in Inventories /\ name[new.row] = new.name /\ \A q \in Inventories : name[q] = new.name => q = new.row

Starts(s, new) ==
  /\ call[s].pc = "idle" /\ new.pc \in {"resolve", "finish", "delete"}
  /\ new.kind \in Calls[s] /\ (new.pc = "finish" => new.kind = "create")
  /\ Ordered(new) /\ new.name \in Names /\ Found(new)

LEMMA OneRow ==
  ASSUME NEW n, Cardinality(RowsOf(n)) = 1, NEW r \in RowsOf(n)
  PROVE  r \in Inventories /\ name[r] = n /\ \A q \in Inventories : name[q] = n => q = r
<1>1. \A k, l \in Int : IsFiniteSet(k..l)
  BY FS_Interval
<1>2. IsFiniteSet(Inventories)
  BY <1>1 DEF Inventories
<1>3. IsFiniteSet(RowsOf(n))
  BY <1>2, FS_Subset DEF RowsOf
<1>4. PICK x : RowsOf(n) = {x}
  BY <1>3, FS_Singleton
<1> QED
  BY <1>4 DEF RowsOf

SameCall(c, d) ==
  /\ d.kind = c.kind /\ d.name = c.name /\ d.row = c.row /\ d.fresh = c.fresh
  /\ d.asked = c.asked /\ d.ignored = c.ignored

LEMMA CreateStarts ==
  ASSUME Sound, NEW s \in Sessions, NEW n \in Names, Create(s, n)
  PROVE  \E new : Become(s, new) /\ Starts(s, new)
<1> DEFINE task == [Started("create", n) EXCEPT !.pc = "finish"]
<1>1. call[s].pc = "idle" /\ "create" \in Calls[s] /\ GetOrCreate(s, task)
  BY BeginTypes DEF Create
<1>2. Started("create", n) \in Task /\ ~Started("create", n).fresh /\ Started("create", n).kind = "create"
      /\ Started("create", n).name = n /\ Started("create", n).asked = Zero /\ Started("create", n).ignored = 0
  BY Beginnings DEF Kinds
<1>3. /\ task \in Task /\ ~task.fresh /\ task.pc = "finish" /\ task.kind = "create" /\ task.name = n
      /\ task.asked = Zero /\ task.ignored = 0
  BY <1>2 DEF Task
<1> HIDE DEF task
<1>4. PICK new \in Task :
           /\ Become(s, new) /\ new.row \in Inventories
           /\ new.pc = task.pc /\ new.kind = task.kind /\ new.name = task.name
           /\ new.asked = task.asked /\ new.ignored = task.ignored
           /\ new.fresh => new.row \notin InUse /\ RowsOf(task.name) = {}
           /\ ~new.fresh => new.row \in RowsOf(task.name) /\ Cardinality(RowsOf(task.name)) = 1
  BY <1>1, <1>3, GetsOrCreates
<1>5. Found(new)
  BY <1>3, <1>4, OneRow DEF Found, Creating
<1>6. Starts(s, new)
  BY <1>1, <1>3, <1>4, <1>5 DEF Starts, Ordered
<1> QED
  BY <1>4, <1>6

LEMMA ImportStarts ==
  ASSUME FilesAreCounts, Sound, NEW s \in Sessions, NEW n \in Names, NEW kind \in {"import", "ingest"},
         NEW file \in Files, ImportInventory(s, kind, n, file)
  PROVE  \E new : Become(s, new) /\ Starts(s, new)
<1> DEFINE asked == AskedByFile(file)
           task == [Started(kind, n) EXCEPT !.pc = "resolve", !.asked = Known(asked),
                                            !.ignored = Cardinality(Missing(asked))]
<1>1. call[s].pc = "idle" /\ kind \in Calls[s] /\ GetOrCreate(s, task) /\ Importable(file)
  BY BeginTypes DEF ImportInventory
<1>2. Known(asked) \in [Catalog -> Nat] /\ Cardinality(Missing(asked)) \in Nat
  BY <1>1, AskedTypes DEF FilesAreCounts
<1>3. Started(kind, n) \in Task /\ ~Started(kind, n).fresh /\ Started(kind, n).kind = kind
      /\ Started(kind, n).name = n
  BY Beginnings DEF Kinds
<1>4. /\ task \in Task /\ ~task.fresh /\ task.pc = "resolve" /\ task.kind = kind /\ task.name = n
      /\ task.asked = Known(asked) /\ task.ignored = Cardinality(Missing(asked))
  BY <1>2, <1>3 DEF Task
<1> HIDE DEF task
<1>5. PICK new \in Task :
           /\ Become(s, new) /\ new.row \in Inventories
           /\ new.pc = task.pc /\ new.kind = task.kind /\ new.name = task.name
           /\ new.asked = task.asked /\ new.ignored = task.ignored
           /\ new.fresh => new.row \notin InUse /\ RowsOf(task.name) = {}
           /\ ~new.fresh => new.row \in RowsOf(task.name) /\ Cardinality(RowsOf(task.name)) = 1
  BY <1>1, <1>4, GetsOrCreates
<1>6. Ordered(new)
  BY <1>1, <1>4, <1>5 DEF Ordered
<1>8. Found(new)
  BY <1>4, <1>5, OneRow DEF Found, Creating
<1>7. Starts(s, new)
  BY <1>1, <1>4, <1>5, <1>6, <1>8 DEF Starts
<1> QED
  BY <1>5, <1>7

LEMMA EditStarts ==
  ASSUME Sound, NEW s \in Sessions, NEW n \in Names, NEW kind \in {"add", "remove"},
         NEW list \in Lists, Edit(s, kind, n, list)
  PROVE  \E new : Become(s, new) /\ Starts(s, new)
<1> DEFINE asked == AskedByList(list)
<1>1. call[s].pc = "idle" /\ kind \in Calls[s] /\ Missing(asked) = {} /\ Cardinality(RowsOf(n)) = 1
  BY BeginTypes DEF Edit
<1>2. PICK r \in RowsOf(n) :
         Become(s, [Started(kind, n) EXCEPT !.pc = "resolve", !.row = r, !.asked = Known(asked)])
  BY DEF Edit
<1> DEFINE new == [Started(kind, n) EXCEPT !.pc = "resolve", !.row = r, !.asked = Known(asked)]
<1>3. Started(kind, n) \in Task /\ ~Started(kind, n).fresh /\ Started(kind, n).kind = kind
      /\ Started(kind, n).ignored = 0 /\ Started(kind, n).name = n
  BY Beginnings DEF Kinds
<1>4. /\ ~new.fresh /\ new.pc = "resolve" /\ new.kind = kind /\ new.asked = Known(asked)
      /\ new.ignored = 0 /\ new.name = n /\ new.row = r /\ Become(s, new)
  BY <1>2, <1>3 DEF Task
<1>5. Known(asked) \in ListDeliveries
  BY <1>1 DEF ListDeliveries
<1> HIDE DEF new
<1>7. Found(new)
  BY <1>1, <1>4, OneRow DEF Found
<1>6. Starts(s, new)
  BY <1>1, <1>4, <1>5, <1>7 DEF Starts, Ordered
<1> QED
  BY <1>4, <1>6

LEMMA DeleteStarts ==
  ASSUME Sound, NEW s \in Sessions, NEW n \in Names, Delete(s, n)
  PROVE  \E new : Become(s, new) /\ Starts(s, new)
<1>1. call[s].pc = "idle" /\ "delete" \in Calls[s] /\ Cardinality(RowsOf(n)) = 1
  BY BeginTypes DEF Delete
<1>2. PICK r \in RowsOf(n) : Become(s, [Started("delete", n) EXCEPT !.pc = "delete", !.row = r])
  BY DEF Delete
<1> DEFINE new == [Started("delete", n) EXCEPT !.pc = "delete", !.row = r]
<1>3. Started("delete", n) \in Task /\ ~Started("delete", n).fresh /\ Started("delete", n).kind = "delete"
      /\ Started("delete", n).asked = Zero /\ Started("delete", n).ignored = 0 /\ Started("delete", n).name = n
  BY Beginnings DEF Kinds
<1>4. /\ ~new.fresh /\ new.pc = "delete" /\ new.kind = "delete" /\ new.asked = Zero /\ new.ignored = 0
      /\ new.name = n /\ new.row = r /\ Become(s, new)
  BY <1>2, <1>3 DEF Task
<1> HIDE DEF new
<1>6. Found(new)
  BY <1>1, <1>4, OneRow DEF Found
<1>5. Starts(s, new)
  BY <1>1, <1>4, <1>6 DEF Starts, Ordered
<1> QED
  BY <1>4, <1>5

(* What a call does while it lasts.                                          *)
LEMMA RowSteps ==
  ASSUME Sound, NEW s \in Sessions,
         Resolve(s) \/ Upsert(s) \/ Decrement(s) \/ Update(s) \/ Victim(s) \/ Disconnect(s)
  PROVE  /\ UNCHANGED <<name, count>>
         /\ \E new : Become(s, new) /\ (new = Idle \/ (call[s].pc # "idle" /\ SameCall(call[s], new)))
<1> DEFINE c == call[s]
           p == Head(c.left)
           Goes == \E new : Become(s, new) /\ (new = Idle \/ (c.pc # "idle" /\ SameCall(c, new)))
<1>0. c \in Task
  BY CallFacts
<1>1. ASSUME Become(s, Idle) PROVE Goes
  BY <1>1
<1>2. ASSUME NEW pc, NEW left, NEW missed, c.pc # "idle",
             Become(s, [c EXCEPT !.pc = pc, !.left = left, !.missed = missed])
      PROVE  Goes
  <2> DEFINE new == [c EXCEPT !.pc = pc, !.left = left, !.missed = missed]
  <2>1. SameCall(c, new)
    BY <1>0 DEF SameCall, Task
  <2> QED
    BY <1>2, <2>1
<1>3. ASSUME c.pc \in {"write", "update"}, NEW q \in Nat, Become(s, Written(c, p, q)) PROVE Goes
  <2>1. EachOnce(c.left) /\ c.left # <<>> /\ p \in Catalog
    BY <1>3, AboutToWrite DEF EachOnce
  <2>2. SameCall(c, Written(c, p, q))
    BY <1>0, <1>3, <2>1, WrittenDoes DEF SameCall
  <2> QED
    BY <1>3, <2>2
<1>4. ASSUME c.pc \in {"write", "update"}, Become(s, Onward(c)) PROVE Goes
  <2>1. SameCall(c, Onward(c))
    BY <1>0, <1>4, AboutToWrite, OnwardDoes DEF SameCall
  <2> QED
    BY <1>4, <2>1
<1>5. c.pc \in {"write", "update"} => count[c.row][p] \in Nat /\ c.asked[p] \in Nat
  BY AboutToWrite
<1> HIDE DEF Goes
<1>6. CASE Resolve(s)
  <2>1. CASE Gone(c)
    BY <1>1, <1>6, <2>1 DEF Resolve, Fails
  <2>2. CASE ~Gone(c)
    <3>1. PICK order \in SetToSeqs({r \in Catalog : c.asked[r] > 0}) :
            /\ Become(s, [c EXCEPT !.pc = IF order = <<>> THEN "finish" ELSE "write", !.left = order])
            /\ UNCHANGED <<name, count, calls, faults>>
      BY <1>6, <2>2 DEF Resolve
    <3> DEFINE pc == IF order = <<>> THEN "finish" ELSE "write"
    <3>2. [c EXCEPT !.pc = pc, !.left = order] = [c EXCEPT !.pc = pc, !.left = order, !.missed = c.missed]
      BY <1>0 DEF Task
    <3>4. Become(s, [c EXCEPT !.pc = pc, !.left = order, !.missed = c.missed])
      BY <3>1, <3>2
    <3>5. c.pc # "idle"
      BY <1>6 DEF Resolve, At
    <3> HIDE DEF pc
    <3>3. Goes
      BY <1>2, <3>4, <3>5
    <3> QED
      BY <3>1, <3>3 DEF Goes
  <2> QED
    BY <2>1, <2>2 DEF Goes
<1>7. CASE Upsert(s)
  <2>1. c.pc = "write"
    BY <1>7 DEF Upsert, At
  <2>2. CASE Gone(c)
    BY <1>1, <1>7, <2>2 DEF Upsert, Fails, Goes
  <2>3. CASE ~Gone(c)
    <3>1. Increased(c, p) \in Nat
      BY <1>5, <2>1 DEF Increased
    <3>2. Become(s, Written(c, p, Increased(c, p))) /\ UNCHANGED <<name, count>>
      BY <1>7, <2>3 DEF Upsert
    <3>3. Goes
      BY <1>3, <2>1, <3>1, <3>2
    <3> QED
      BY <3>2, <3>3 DEF Goes
  <2> QED
    BY <2>2, <2>3
<1>8. CASE Decrement(s)
  <2>1. c.pc = "write" /\ UNCHANGED <<name, count>>
    BY <1>8 DEF Decrement, At
  <2>2. ASSUME Become(s, Written(c, p, 0)) PROVE Goes
    BY <1>3, <2>1, <2>2
  <2>3. ASSUME NEW m, Become(s, [c EXCEPT !.pc = "update", !.missed = m]) PROVE Goes
    <3>1. [c EXCEPT !.pc = "update", !.missed = m] = [c EXCEPT !.pc = "update", !.left = c.left, !.missed = m]
      BY <1>0 DEF Task
    <3> QED
      BY <1>2, <2>1, <2>3, <3>1
  <2> DEFINE m == IF count[c.row][p] = 0 THEN c.missed \cup {p} ELSE c.missed
  <2>4. \/ Become(s, Written(c, p, 0))
        \/ Become(s, [c EXCEPT !.pc = "update", !.missed = m])
    BY <1>8 DEF Decrement
  <2> HIDE DEF m
  <2>5. Goes
    BY <2>2, <2>3, <2>4
  <2> QED
    BY <2>1, <2>5 DEF Goes
<1>9. CASE Update(s)
  <2>1. c.pc = "update" /\ UNCHANGED <<name, count>>
    BY <1>9 DEF Update, At
  <2>2. ASSUME count[c.row][p] > c.asked[p], Become(s, Written(c, p, count[c.row][p] - c.asked[p])) PROVE Goes
    <3> DEFINE q == count[c.row][p] - c.asked[p]
    <3>1. q \in Nat
      BY <1>5, <2>1, <2>2
    <3> HIDE DEF q
    <3>2. Become(s, Written(c, p, q))
      BY <2>2 DEF q
    <3> QED
      BY <1>3, <2>1, <3>1, <3>2
  <2>3. Goes
    BY <1>4, <1>9, <2>1, <2>2 DEF Update
  <2> QED
    BY <2>1, <2>3 DEF Goes
<1>10. CASE Victim(s) \/ Disconnect(s)
  BY <1>1, <1>10 DEF Victim, Disconnect, Fails, Goes
<1> QED
  BY <1>6, <1>7, <1>8, <1>9, <1>10

(* A step of a call that commits nothing: it begins, goes on or ends.        *)
Quiet(s) ==
  /\ UNCHANGED <<name, count>>
  /\ \E new : /\ Become(s, new)
              /\ Starts(s, new) \/ new = Idle \/ (call[s].pc # "idle" /\ SameCall(call[s], new))

LEMMA CallSteps ==
  ASSUME FilesAreCounts, Sound, Next
  PROVE  \E s \in Sessions : Quiet(s) \/ (Finish(s) /\ ~TooMany(call[s])) \/ DeleteRow(s)
<1>1. PICK s \in Sessions :
    \/ \E n \in Names :
         \/ Create(s, n) \/ Delete(s, n)
         \/ \E file \in Files : Import(s, n, file) \/ Ingest(s, n, file)
         \/ \E list \in Lists : AddCards(s, n, list) \/ RemoveCards(s, n, list)
    \/ Step(s)
    \/ Disconnect(s)
  BY Zenon DEF Next
<1>2. ASSUME NEW n \in Names, Create(s, n) PROVE Quiet(s)
  BY <1>2, CreateStarts DEF Quiet, Create
<1>3. ASSUME NEW n \in Names, Delete(s, n) PROVE Quiet(s)
  BY <1>3, DeleteStarts DEF Quiet, Delete
<1>4. ASSUME NEW n \in Names, NEW file \in Files, NEW kind \in {"import", "ingest"}, ImportInventory(s, kind, n, file)
      PROVE  Quiet(s)
  <2>1. UNCHANGED <<name, count>>
    BY <1>4 DEF ImportInventory
  <2> QED
    BY <1>4, <2>1, ImportStarts DEF Quiet
<1>5. ASSUME NEW n \in Names, NEW list \in Lists, NEW kind \in {"add", "remove"}, Edit(s, kind, n, list)
      PROVE  Quiet(s)
  <2>1. UNCHANGED <<name, count>>
    BY <1>5 DEF Edit
  <2> QED
    BY <1>5, <2>1, EditStarts DEF Quiet
<1>6. ASSUME Resolve(s) \/ Upsert(s) \/ Decrement(s) \/ Update(s) \/ Victim(s) \/ Disconnect(s)
      PROVE  Quiet(s)
  BY <1>6, RowSteps DEF Quiet
<1>7. ASSUME Finish(s), TooMany(call[s]) PROVE Quiet(s)
  BY <1>7 DEF Finish, Fails, Quiet
<1> QED
  BY <1>1, <1>2, <1>3, <1>4, <1>5, <1>6, <1>7 DEF Import, Ingest, AddCards, RemoveCards, Step

(* What the calls ask.                                                       *)
Orders == \A s \in Sessions : Ordered(call[s])

LEMMA OrdersHold ==
  ASSUME FilesAreCounts PROVE Spec => [](Sound /\ Orders)
<1>1. Init => Orders
  BY DEF Init, Orders, Ordered, Idle
<1>2. Sound /\ Orders /\ [Next]_vars => Orders'
  <2>1. ASSUME Orders, UNCHANGED vars PROVE Orders'
    BY <2>1 DEF vars, Orders
  <2>2. ASSUME Sound, Orders, Next PROVE Orders'
    <3>1. PICK s \in Sessions : Quiet(s) \/ (Finish(s) /\ ~TooMany(call[s])) \/ DeleteRow(s)
      BY <2>2, CallSteps
    <3>2. Ordered(Idle)
      BY DEF Ordered, Idle
    <3>3. \E new : Become(s, new) /\ Ordered(new)
      <4>1. CASE Quiet(s)
        <5>1. PICK new : /\ Become(s, new)
                         /\ Starts(s, new) \/ new = Idle \/ (call[s].pc # "idle" /\ SameCall(call[s], new))
          BY <4>1 DEF Quiet
        <5>2. SameCall(call[s], new) => Ordered(new)
          BY <2>2 DEF SameCall, Ordered, Orders
        <5> QED
          BY <3>2, <5>1, <5>2 DEF Starts
      <4>2. CASE Finish(s) /\ ~TooMany(call[s])
        BY <3>2, <4>2 DEF Finish
      <4>3. CASE DeleteRow(s)
        BY <3>2, <4>3 DEF DeleteRow
      <4> QED
        BY <3>1, <4>1, <4>2, <4>3
    <3>4. PICK new : Become(s, new) /\ Ordered(new)
      BY <3>3
    <3>5. call'[s] = new /\ \A t \in Sessions \ {s} : call'[t] = call[t]
      BY <2>2, <3>4, Becomes DEF Sound
    <3> QED
      BY <2>2, <3>4, <3>5 DEF Orders
  <2> QED
    BY <2>1, <2>2
<1> QED
  BY <1>1, <1>2, SoundHolds, PTL DEF Spec

--------------------------------------------------------------------------------
(* A removal takes effect, as long as one session removes: what it read of a *)
(* row nobody takes away before it writes.                                   *)
OneRemover == \A s, t \in Sessions : "remove" \in Calls[s] \cap Calls[t] => s = t

Accounted(c, p) == p \in c.missed \/ Gone(c)

Removing(c) ==
  c.kind = "remove" /\ c.pc \in {"write", "update", "finish"} =>
    /\ \A p \in Catalog : c.asked[p] > 0 => p \in Pending(c) \cup c.written \/ Accounted(c, p)
    /\ c.pc = "update" => count[c.row][Head(c.left)] > c.asked[Head(c.left)] \/ Accounted(c, Head(c.left))

(* What the step of another call leaves of a removal.                        *)
LEMMA RemovalKept ==
  ASSUME OneRemover, Sound, Sound', NEW s \in Sessions,
         Quiet(s) \/ (Finish(s) /\ ~TooMany(call[s])) \/ DeleteRow(s),
         NEW t \in Sessions \ {s}, Removing(call[t])
  PROVE  Removing(call[t])'
<1> DEFINE c == call[s]
           d == call[t]
<1>1. SUFFICES ASSUME d.kind = "remove", d.pc \in {"write", "update", "finish"}, call'[t] = d
               PROVE  Removing(d)'
  <2>1. call'[t] = d
    BY Becomes DEF Sound, Quiet, Finish, DeleteRow
  <2> QED
    BY <2>1 DEF Removing
<1>2. d \in Task /\ SoundCall(t) /\ d.row \in Inventories /\ "remove" \in Calls[t]
  BY <1>1, CallFacts DEF SoundCall, Stages
<1>3. SUFFICES /\ Gone(d) => name'[d.row] = "gone"
               /\ d.pc = "update" => \/ count'[d.row][Head(d.left)] >= count[d.row][Head(d.left)]
                                     \/ name'[d.row] = "gone"
  <2>1. /\ \A p \in Catalog : d.asked[p] > 0 => p \in Pending(d) \cup d.written \/ Accounted(d, p)
        /\ d.pc = "update" => count[d.row][Head(d.left)] > d.asked[Head(d.left)] \/ Accounted(d, Head(d.left))
    BY <1>1 DEF Removing
  <2>2. \A p : Accounted(d, p) => p \in d.missed \/ name'[d.row] = "gone"
    BY <1>3 DEF Accounted
  <2>3. ASSUME d.pc = "update"
        PROVE  count'[d.row][Head(d.left)] > d.asked[Head(d.left)] \/ Head(d.left) \in d.missed \/ name'[d.row] = "gone"
    <3>1. count[d.row][Head(d.left)] \in Nat /\ d.asked[Head(d.left)] \in Nat /\ Head(d.left) \in Catalog
      BY <2>3, AboutToWrite
    <3>2. count'[d.row][Head(d.left)] \in Nat
      BY <1>2, <3>1 DEF Sound, Typed
    <3> QED
      BY <1>3, <2>1, <2>2, <2>3, <3>1, <3>2
  <2> QED
    BY <1>1, <2>1, <2>2, <2>3 DEF Removing, Accounted, Gone, Pending
<1>4. d.pc = "update" => /\ count[d.row][Head(d.left)] \in Nat /\ d.asked[Head(d.left)] \in Nat
                         /\ Head(d.left) \in Catalog
  BY AboutToWrite
<1>5. CASE Quiet(s)
  BY <1>4, <1>5 DEF Quiet, Gone
<1>6. CASE Finish(s) /\ ~TooMany(call[s])
  <2>1. /\ name' = IF c.fresh THEN [name EXCEPT ![c.row] = c.name] ELSE name
        /\ count' = [count EXCEPT ![c.row] = Committed(c)]
        /\ c.row \in Inventories /\ c.pc = "finish"
    BY <1>6, FinishDoes
  <2>2. c \in Task /\ SoundCall(s) /\ c.kind # "remove"
    BY <1>2, <2>1, CallFacts DEF OneRemover, SoundCall, Stages
  <2>3. c.fresh => name[c.row] = "none" /\ d.row # c.row
    BY <1>1, <2>2 DEF SoundCall, Placed
  <2>4. Gone(d) => name'[d.row] = "gone"
    BY <1>2, <2>1, <2>3 DEF Gone, Sound, Typed
  <2>5. ASSUME NEW p \in Catalog PROVE count'[d.row][p] >= count[d.row][p]
    <3>1. count[d.row][p] \in Nat /\ count[c.row][p] \in Nat /\ c.asked[p] \in Nat
      BY <1>2, <2>1, <2>2, CallFacts DEF Task
    <3>2. CASE d.row = c.row
      <4>1. count'[d.row] = Committed(c)
        BY <1>2, <2>1, <3>2 DEF Sound, Typed
      <4>2. p \in c.written => Committed(c)[p] = count[c.row][p] + c.asked[p]
        BY <2>2 DEF SoundCall, Amounts, Committed
      <4>3. p \notin c.written => Committed(c)[p] = count[c.row][p]
        BY DEF Committed
      <4> QED
        BY <3>1, <3>2, <4>1, <4>2, <4>3
    <3>3. CASE d.row # c.row
      <4>1. count'[d.row] = count[d.row]
        BY <1>2, <2>1, <3>3 DEF Sound, Typed
      <4> QED
        BY <3>1, <4>1
    <3> QED
      BY <3>2, <3>3
  <2> QED
    BY <1>4, <2>4, <2>5
<1>7. CASE DeleteRow(s)
  <2>1. name' = [name EXCEPT ![c.row] = "gone"] /\ count' = [count EXCEPT ![c.row] = Zero]
    BY <1>7 DEF DeleteRow
  <2>2. CASE d.row = c.row
    BY <1>2, <2>1, <2>2 DEF Sound, Typed
  <2>3. CASE d.row # c.row
    <3>1. name'[d.row] = name[d.row] /\ count'[d.row] = count[d.row]
      BY <1>2, <2>1, <2>3 DEF Sound, Typed
    <3> QED
      BY <1>4, <3>1 DEF Gone
  <2> QED
    BY <2>2, <2>3
<1> QED
  BY <1>5, <1>6, <1>7

(* What its own step makes of a removal that goes on.                        *)
LEMMA RemovalGoesOn ==
  ASSUME Sound, NEW s \in Sessions, Removing(call[s]), Quiet(s),
         Resolve(s) \/ Upsert(s) \/ Decrement(s) \/ Update(s)
  PROVE  Removing(call[s])'
<1> DEFINE c == call[s]
           p == Head(c.left)
           Kept == /\ \A q \in Catalog : c.asked[q] > 0 => q \in Pending(c) \cup c.written \/ Accounted(c, q)
                   /\ c.pc = "update" => count[c.row][p] > c.asked[p] \/ Accounted(c, p)
<1>0. c \in Task /\ SoundCall(s) /\ name' = name /\ count' = count
  BY CallFacts DEF Quiet
<1>1. ASSUME NEW n, Become(s, n), n.kind # "remove" \/ n.pc \notin {"write", "update", "finish"}
      PROVE  Removing(call[s])'
  BY <1>1, Becomes DEF Removing, Sound
<1>2. ASSUME NEW n, Become(s, n), n.row = c.row, n.asked = c.asked,
             \A q \in Catalog : c.asked[q] > 0 => q \in Pending(n) \cup n.written \/ Accounted(n, q),
             n.pc = "update" => count[c.row][Head(n.left)] > c.asked[Head(n.left)] \/ Accounted(n, Head(n.left))
      PROVE  Removing(call[s])'
  <2>1. call'[s] = n
    BY <1>2, Becomes DEF Sound
  <2>2. \A q : Accounted(n, q) <=> Accounted(call[s], q)'
    BY <1>0, <2>1 DEF Accounted, Gone
  <2>3. Pending(call[s])' = Pending(n)
    BY <2>1 DEF Pending
  <2> QED
    BY <1>0, <1>2, <2>1, <2>2, <2>3 DEF Removing
<1>3. CASE Resolve(s)
  <2>1. CASE Gone(c)
    BY <1>1, <1>3, <2>1 DEF Resolve, Fails, Idle
  <2>2. CASE ~Gone(c)
    <3> DEFINE needed == {q \in Catalog : c.asked[q] > 0}
    <3>1. PICK order \in SetToSeqs(needed) :
            Become(s, [c EXCEPT !.pc = IF order = <<>> THEN "finish" ELSE "write", !.left = order])
      BY <1>3, <2>2 DEF Resolve
    <3> DEFINE pc == IF order = <<>> THEN "finish" ELSE "write"
               n == [c EXCEPT !.pc = pc, !.left = order]
    <3>2. {order[i] : i \in DOMAIN order} = needed
      <4>1. needed \in SUBSET Catalog /\ order \in SetToSeqs(needed)
        BY <3>1
      <4> HIDE DEF needed
      <4> QED
        BY ONLY <4>1, OrderOfRows
    <3>3. pc # "update" /\ Become(s, n)
      BY <3>1
    <3> HIDE DEF pc
    <3>4. n.pc = pc /\ n.left = order /\ n.row = c.row /\ n.asked = c.asked
      BY <1>0 DEF Task
    <3> HIDE DEF n
    <3>5. Pending(n) = needed
      BY <3>2, <3>4 DEF Pending
    <3> QED
      BY <1>2, <3>3, <3>4, <3>5
  <2> QED
    BY <2>1, <2>2
<1>4. CASE Upsert(s)
  <2>1. c.pc = "write" /\ c.kind # "remove"
    BY <1>4 DEF Upsert, At
  <2>2. call'[s].kind # "remove" \/ call'[s].pc = "idle"
    <3>1. PICK new : Become(s, new) /\ (new = Idle \/ (call[s].pc # "idle" /\ SameCall(call[s], new)))
      BY <1>4, RowSteps
    <3>2. call'[s] = new
      BY <3>1, Becomes DEF Sound
    <3> QED
      BY <2>1, <3>1, <3>2 DEF SameCall, Idle
  <2> QED
    BY <2>2 DEF Removing
<1>5. CASE Decrement(s) \/ Update(s)
  <2>1. c.pc \in {"write", "update"} /\ (Decrement(s) => c.pc = "write") /\ (Update(s) => c.pc = "update")
        /\ c.kind = "remove"
    BY <1>0, <1>5 DEF Decrement, Update, At, SoundCall, Stages
  <2>2. /\ c.left # <<>> /\ EachOnce(c.left) /\ p \in Catalog
        /\ \A i, j \in DOMAIN c.left : c.left[i] = c.left[j] => i = j
        /\ count[c.row][p] \in Nat /\ c.asked[p] \in Nat
    BY <2>1, AboutToWrite DEF EachOnce
  <2>3. Kept
    BY <2>1 DEF Removing
  <2>4. ASSUME NEW q \in Nat, Become(s, Written(c, p, q)) PROVE Removing(call[s])'
    <3> DEFINE n == Written(c, p, q)
    <3>1. /\ n.row = c.row /\ n.asked = c.asked /\ n.missed = c.missed
          /\ n.written = c.written \cup {p} /\ Pending(n) = Pending(c) \ {p} /\ n.pc # "update"
      <4>1. c \in Task /\ c.left # <<>> /\ EachOnce(c.left) /\ p \in Catalog /\ p = Head(c.left) /\ q \in Nat
        BY <1>0, <2>2, <2>4
      <4>2. n.pc \in {"write", "finish"} => n.pc # "update"
        OBVIOUS
      <4> HIDE DEF c, p
      <4> QED
        BY ONLY <4>1, <4>2, WrittenDoes
    <3>2. Become(s, n)
      BY <2>4
    <3> HIDE DEF n
    <3>3. \A r : Accounted(c, r) <=> Accounted(n, r)
      BY <3>1 DEF Accounted, Gone
    <3> QED
      BY <1>2, <2>3, <3>1, <3>2, <3>3
  <2>5. ASSUME Update(s), count[c.row][p] <= c.asked[p], Become(s, Onward(c)) PROVE Removing(call[s])'
    <3> DEFINE n == Onward(c)
    <3>1. /\ n.row = c.row /\ n.asked = c.asked /\ n.missed = c.missed
          /\ n.written = c.written /\ Pending(n) = Pending(c) \ {p} /\ n.pc # "update"
      BY <1>0, <2>2, OnwardDoes
    <3>2. Become(s, n)
      BY <2>5
    <3> HIDE DEF n
    <3>3. \A r : Accounted(c, r) <=> Accounted(n, r)
      BY <3>1 DEF Accounted, Gone
    <3>4. Accounted(c, p)
      BY <2>1, <2>2, <2>3, <2>5
    <3> QED
      BY <1>2, <2>3, <3>1, <3>2, <3>3, <3>4
  <2>6. ASSUME NEW m, m = (IF count[c.row][p] = 0 THEN c.missed \cup {p} ELSE c.missed),
               count[c.row][p] = 0 \/ count[c.row][p] > c.asked[p],
               Become(s, [c EXCEPT !.pc = "update", !.missed = m])
        PROVE  Removing(call[s])'
    <3> DEFINE n == [c EXCEPT !.pc = "update", !.missed = m]
    <3>1. /\ n.row = c.row /\ n.asked = c.asked /\ n.missed = m /\ n.left = c.left
          /\ n.written = c.written
      BY <1>0 DEF Task
    <3>2. Become(s, n)
      BY <2>6
    <3> HIDE DEF n
    <3>3. \A r : Accounted(c, r) => Accounted(n, r)
      BY <2>6, <3>1 DEF Accounted, Gone
    <3>4. Pending(n) = Pending(c)
      BY <3>1 DEF Pending
    <3>5. count[c.row][p] > c.asked[p] \/ Accounted(n, p)
      BY <2>6, <3>1 DEF Accounted
    <3> QED
      BY <1>2, <2>3, <3>1, <3>2, <3>3, <3>4, <3>5
  <2>7. CASE Decrement(s)
    <3> DEFINE m == IF count[c.row][p] = 0 THEN c.missed \cup {p} ELSE c.missed
    <3>1. \/ Become(s, Written(c, p, 0))
          \/ /\ count[c.row][p] = 0 \/ count[c.row][p] > c.asked[p]
             /\ Become(s, [c EXCEPT !.pc = "update", !.missed = m])
      BY <2>7 DEF Decrement
    <3> HIDE DEF m
    <3>2. m = (IF count[c.row][p] = 0 THEN c.missed \cup {p} ELSE c.missed)
      BY DEF m
    <3> QED
      BY <2>4, <2>6, <3>1, <3>2
  <2>8. CASE Update(s)
    <3>1. CASE count[c.row][p] > c.asked[p]
      <4> DEFINE q == count[c.row][p] - c.asked[p]
      <4>1. q \in Nat /\ Become(s, Written(c, p, q))
        BY <2>2, <2>8, <3>1 DEF Update
      <4> HIDE DEF q
      <4> QED
        BY <2>4, <4>1
    <3>2. CASE ~(count[c.row][p] > c.asked[p])
      BY <2>2, <2>5, <2>8, <3>2 DEF Update
    <3> QED
      BY <3>1, <3>2
  <2> QED
    BY <1>5, <2>7, <2>8
<1> QED
  BY <1>3, <1>4, <1>5

Removals == \A s \in Sessions : Removing(call[s])

LEMMA RemovalsNext ==
  ASSUME FilesAreCounts, OneRemover, Sound, Removals, Next
  PROVE  Removals'
<1>1. PICK s \in Sessions :
    \/ \E n \in Names :
         \/ Create(s, n) \/ Delete(s, n)
         \/ \E file \in Files : Import(s, n, file) \/ Ingest(s, n, file)
         \/ \E list \in Lists : AddCards(s, n, list) \/ RemoveCards(s, n, list)
    \/ Step(s)
    \/ Disconnect(s)
  BY Zenon DEF Next
<1>0. Sound'
  BY SoundNext
<1>2. ASSUME NEW new, Become(s, new), new.kind # "remove" \/ new.pc \notin {"write", "update", "finish"}
      PROVE  Removing(call[s])'
  BY <1>2, Becomes DEF Removing, Sound
<1>3. ASSUME Become(s, Idle) PROVE Removing(call[s])'
  BY <1>2, <1>3 DEF Idle
<1>4. (Quiet(s) \/ (Finish(s) /\ ~TooMany(call[s])) \/ DeleteRow(s)) /\ Removing(call[s])'
  <2>1. ASSUME \E new : Become(s, new) /\ Starts(s, new) PROVE Removing(call[s])'
    <3>1. PICK new : Become(s, new) /\ Starts(s, new)
      BY <2>1
    <3>2. new.kind # "remove" \/ new.pc \notin {"write", "update", "finish"}
      BY <3>1 DEF Starts
    <3> QED
      BY <1>2, <3>1, <3>2
  <2>2. CASE \E n \in Names : Create(s, n)
    <3>1. PICK n \in Names : Create(s, n)
      BY <2>2
    <3> QED
      BY <2>1, <3>1, CreateStarts DEF Quiet, Create
  <2>3. CASE \E n \in Names : Delete(s, n)
    <3>1. PICK n \in Names : Delete(s, n)
      BY <2>3
    <3> QED
      BY <2>1, <3>1, DeleteStarts DEF Quiet, Delete
  <2>4. CASE \E n \in Names, file \in Files, kind \in {"import", "ingest"} : ImportInventory(s, kind, n, file)
    <3>1. PICK n \in Names, file \in Files, kind \in {"import", "ingest"} : ImportInventory(s, kind, n, file)
      BY <2>4
    <3>2. UNCHANGED <<name, count>>
      BY <3>1 DEF ImportInventory
    <3>3. \E new : Become(s, new) /\ Starts(s, new)
      BY <3>1, ImportStarts
    <3> QED
      BY <2>1, <3>2, <3>3 DEF Quiet
  <2>5. CASE \E n \in Names, list \in Lists, kind \in {"add", "remove"} : Edit(s, kind, n, list)
    <3>1. PICK n \in Names, list \in Lists, kind \in {"add", "remove"} : Edit(s, kind, n, list)
      BY <2>5
    <3>2. UNCHANGED <<name, count>>
      BY <3>1 DEF Edit
    <3>3. \E new : Become(s, new) /\ Starts(s, new)
      BY <3>1, EditStarts
    <3> QED
      BY <2>1, <3>2, <3>3 DEF Quiet
  <2>6. CASE Resolve(s) \/ Upsert(s) \/ Decrement(s) \/ Update(s)
    <3>1. Quiet(s)
      BY <2>6, RowSteps DEF Quiet
    <3> QED
      BY <2>6, <3>1, RemovalGoesOn DEF Removals
  <2>7. CASE Victim(s) \/ Disconnect(s)
    <3>1. Quiet(s)
      BY <2>7, RowSteps DEF Quiet
    <3>2. Become(s, Idle)
      BY <2>7 DEF Victim, Disconnect, Fails
    <3> QED
      BY <1>3, <3>1, <3>2
  <2>8. CASE Finish(s)
    <3>1. CASE TooMany(call[s])
      BY <1>3, <2>8, <3>1 DEF Finish, Fails, Quiet
    <3>2. CASE ~TooMany(call[s])
      BY <1>3, <2>8, <3>2 DEF Finish
    <3> QED
      BY <3>1, <3>2
  <2>9. CASE DeleteRow(s)
    BY <1>3, <2>9 DEF DeleteRow
  <2> QED
    BY <1>1, <2>2, <2>3, <2>4, <2>5, <2>6, <2>7, <2>8, <2>9 DEF Import, Ingest, AddCards, RemoveCards, Step
<1>5. ASSUME NEW t \in Sessions \ {s} PROVE Removing(call[t])'
  BY <1>0, <1>4, RemovalKept DEF Removals
<1> QED
  BY <1>4, <1>5 DEF Removals

(* What a removal that ends well has done.                                   *)
LEMMA RemovalEnds ==
  ASSUME Sound, Removals, NEW s \in Sessions, Ordered(call[s]), Finish(s), call[s].kind = "remove",
         NEW p \in Catalog, call[s].asked[p] > 0
  PROVE  \/ count'[call[s].row][p] = (IF count[call[s].row][p] > call[s].asked[p]
                                      THEN count[call[s].row][p] - call[s].asked[p] ELSE 0)
         \/ p \in call[s].missed
<1> DEFINE c == call[s]
<1>1. ~TooMany(c)
  BY DEF Ordered, TooMany
<1>2. /\ count' = [count EXCEPT ![c.row] = Committed(c)] /\ c.row \in Inventories /\ c.pc = "finish"
  BY <1>1, FinishDoes
<1>3. c \in Task /\ SoundCall(s) /\ Removing(c) /\ count[c.row][p] \in Nat /\ c.asked[p] \in Nat
  BY <1>2, CallFacts DEF Removals, Task
<1>4. Pending(c) = {}
  <2>1. c.left = <<>>
    BY <1>2, <1>3 DEF SoundCall, Stages
  <2> QED
    BY <2>1 DEF Pending
<1>5. count'[c.row] = Committed(c)
  BY <1>2 DEF Sound, Typed
<1>6. p \in c.written \/ Accounted(c, p)
  BY <1>2, <1>3, <1>4 DEF Removing
<1>7. CASE p \in c.written
  <2>1. c.copies[p] = Least(count[c.row][p], c.asked[p])
    BY <1>3, <1>7 DEF SoundCall, Amounts
  <2>2. Committed(c)[p] = c.copies[p]
    BY <1>7 DEF Committed
  <2> QED
    BY <1>5, <2>1, <2>2 DEF Least
<1>8. CASE Gone(c)
  <2>1. count[c.row] = Zero
    BY <1>2, <1>8 DEF Gone, Sound, Emptied
  <2>2. c.written = {}
    BY <1>2, <1>3, <1>8 DEF SoundCall, Placed
  <2>3. count[c.row][p] = 0 /\ Committed(c)[p] = 0
    BY <2>1, <2>2 DEF Committed, Zero
  <2> QED
    BY <1>3, <1>5, <2>3
<1> QED
  BY <1>6, <1>7, <1>8 DEF Accounted

(* A call that is about to commit, and ends, commits: nobody waits for it to *)
(* give up a lock it needs, and it needs none.                               *)
LEMMA OnlyFinish ==
  ASSUME FilesAreCounts, Sound, [Next]_vars, NEW s \in Sessions, call[s].pc = "finish", call'[s] = Idle, faults' = faults
  PROVE  Finish(s)
<1>0. call[s] # Idle /\ call[s].left = <<>> /\ faults \in Nat
  BY DEF Idle, Sound, SoundCall, Stages, Typed
<1>1. PICK t \in Sessions :
    \/ \E n \in Names :
         \/ Create(t, n) \/ Delete(t, n)
         \/ \E file \in Files : Import(t, n, file) \/ Ingest(t, n, file)
         \/ \E list \in Lists : AddCards(t, n, list) \/ RemoveCards(t, n, list)
    \/ Step(t)
    \/ Disconnect(t)
  <2>1. Next
    BY <1>0 DEF vars
  <2> QED
    BY <2>1, Zenon DEF Next
<1>2. t = s
  <2>1. SUFFICES ASSUME t # s PROVE call'[s] = call[s]
    BY <1>0
  <2>2. ASSUME NEW new, Become(t, new) PROVE call'[s] = call[s]
    BY <2>1, <2>2, Becomes DEF Sound
  <2>3. ASSUME NEW n \in Names, Create(t, n) PROVE call'[s] = call[s]
    BY <2>2, <2>3, CreateStarts
  <2>4. ASSUME NEW n \in Names, Delete(t, n) PROVE call'[s] = call[s]
    BY <2>2, <2>4, DeleteStarts
  <2>5. ASSUME NEW n \in Names, NEW file \in Files, NEW kind \in {"import", "ingest"}, ImportInventory(t, kind, n, file)
        PROVE  call'[s] = call[s]
    <3>1. \E new : Become(t, new) /\ Starts(t, new)
      BY <2>5, ImportStarts
    <3> QED
      BY <2>2, <3>1
  <2>6. ASSUME NEW n \in Names, NEW list \in Lists, NEW kind \in {"add", "remove"}, Edit(t, kind, n, list)
        PROVE  call'[s] = call[s]
    <3>1. \E new : Become(t, new) /\ Starts(t, new)
      BY <2>6, EditStarts
    <3> QED
      BY <2>2, <3>1
  <2>7. ASSUME Resolve(t) \/ Upsert(t) \/ Decrement(t) \/ Update(t) \/ Victim(t) \/ Disconnect(t)
        PROVE  call'[s] = call[s]
    BY <2>2, <2>7, RowSteps
  <2>8. ASSUME Finish(t) \/ DeleteRow(t) PROVE call'[s] = call[s]
    BY <2>2, <2>8 DEF Finish, Fails, DeleteRow
  <2> QED
    BY <1>1, <2>3, <2>4, <2>5, <2>6, <2>7, <2>8 DEF Import, Ingest, AddCards, RemoveCards, Step
<1>3. ~Disconnect(s)
  BY <1>0 DEF Disconnect
<1>4. ~Victim(s)
  BY <1>0 DEF Victim, Waits, Needs
<1>5. \A kind, n : ~Begin(s, kind, n)
  BY DEF Begin, At
<1>6. ~(Resolve(s) \/ Upsert(s) \/ Decrement(s) \/ Update(s) \/ DeleteRow(s))
  BY DEF Resolve, Upsert, Decrement, Update, DeleteRow, At
<1> QED
  BY <1>1, <1>2, <1>3, <1>4, <1>5, <1>6
     DEF Step, Create, Delete, Import, Ingest, AddCards, RemoveCards, ImportInventory, Edit

(* As long as one session removes, and whatever others add, import and       *)
(* delete, a removal that reports success has taken the copies it names.     *)
THEOREM OneRemoverTakesEffect ==
  ASSUME FilesAreCounts, OneRemover PROVE Spec => RemovalTakesEffect
<1>1. Init => Removals
  BY DEF Init, Removals, Removing, Idle
<1>2. Sound /\ Removals /\ [Next]_vars => Removals'
  <2>1. ASSUME Removals, UNCHANGED vars PROVE Removals'
    BY <2>1 DEF Removals, Removing, Accounted, Pending, Gone, vars
  <2> QED
    BY <2>1, RemovalsNext
<1>3. /\ Sound /\ Removals /\ Orders
      /\ [Next]_vars
      => [\A s \in Sessions : TakesEffect(s)]_vars
  <2> SUFFICES ASSUME Sound, Removals, Orders, [Next]_vars,
                      NEW s \in Sessions, At(s, "finish"), call[s].kind = "remove",
                      call'[s] = Idle, faults' = faults
               PROVE  \A p \in Catalog :
                        call[s].asked[p] > 0 =>
                          \/ count'[call[s].row][p] = (IF count[call[s].row][p] > call[s].asked[p]
                                                       THEN count[call[s].row][p] - call[s].asked[p] ELSE 0)
                          \/ p \in call[s].missed
    BY DEF TakesEffect
  <2>1. Finish(s)
    BY OnlyFinish DEF At
  <2> QED
    BY <2>1, RemovalEnds DEF Orders
<1> QED
  BY <1>1, <1>2, <1>3, SoundHolds, OrdersHold, PTL DEF Spec, RemovalTakesEffect

(* What a commit makes of the counts of its inventory.                       *)
LEMMA WhatIsCommitted ==
  ASSUME Sound, NEW s \in Sessions, call[s].pc = "finish"
  PROVE  LET c == call[s] IN
         /\ c.asked = Zero => Committed(c) = count[c.row]
         /\ c.kind # "remove" =>
              Committed(c) = [p \in Catalog |-> count[c.row][p] + c.asked[p]]
         /\ c.kind = "remove" =>
              Committed(c) = [p \in Catalog |-> IF p \in c.written THEN Least(count[c.row][p], c.asked[p])
                                                ELSE count[c.row][p]]
<1> DEFINE c == call[s]
<1>1. /\ c \in Task /\ SoundCall(s) /\ c.row \in Inventories
      /\ \A p \in Catalog : count[c.row][p] \in Nat /\ c.asked[p] \in Nat
      /\ count[c.row] \in [Catalog -> Nat]
  BY CallFacts DEF SoundCall, Stages, Task, Sound, Typed
<1>2. Pending(c) = {}
  <2>1. c.left = <<>>
    BY <1>1 DEF SoundCall, Stages
  <2> QED
    BY <2>1 DEF Pending
<1>3. \A p \in c.written : c.asked[p] > 0
  BY <1>1 DEF SoundCall, Stages
<1>4. ASSUME c.asked = Zero PROVE Committed(c) = count[c.row]
  <2>1. \A p \in Catalog : p \notin c.written
    BY <1>3, <1>4 DEF Zero
  <2>2. Committed(c) = [p \in Catalog |-> count[c.row][p]]
    BY <2>1 DEF Committed
  <2> QED
    BY <1>1, <2>2
<1>5. ASSUME c.kind # "remove" PROVE Committed(c) = [p \in Catalog |-> count[c.row][p] + c.asked[p]]
  <2>1. ASSUME NEW p \in Catalog PROVE Committed(c)[p] = count[c.row][p] + c.asked[p]
    <3>1. CASE p \in c.written
      <4>1. c.copies[p] = count[c.row][p] + c.asked[p]
        BY <1>1, <1>5, <3>1 DEF SoundCall, Amounts
      <4> QED
        BY <3>1, <4>1 DEF Committed
    <3>2. CASE p \notin c.written
      <4>1. c.asked[p] = 0
        BY <1>1, <1>2, <1>5, <3>2 DEF SoundCall, Whole
      <4> QED
        BY <1>1, <3>2, <4>1 DEF Committed
    <3> QED
      BY <3>1, <3>2
  <2> QED
    BY <2>1 DEF Committed
<1>6. ASSUME c.kind = "remove"
      PROVE  Committed(c) = [p \in Catalog |-> IF p \in c.written THEN Least(count[c.row][p], c.asked[p])
                                               ELSE count[c.row][p]]
  <2>1. \A p \in c.written : c.copies[p] = Least(count[c.row][p], c.asked[p])
    BY <1>1, <1>6 DEF SoundCall, Amounts
  <2> QED
    BY <2>1 DEF Committed
<1> QED
  BY <1>4, <1>5, <1>6

--------------------------------------------------------------------------------
(* What the calls ask of the ledger.                                         *)
Requests == [s \in Sessions |-> Asking(call[s])]
NoRequest == [kind |-> "none", name |-> "none", row |-> 0, wanted |-> Zero]

LEMMA Deliveries ==
  ASSUME FilesAreCounts, FilesAddUp, NEW c, Ordered(c), ~TooMany(c),
         c.kind \in {"create", "add", "import", "ingest"}
  PROVE  c.asked \in FileDeliveries \cup ListDeliveries \cup {Zero}
<1>1. CASE c.kind \in {"create", "add"}
  BY <1>1 DEF Ordered
<1>2. CASE c.kind \in {"import", "ingest"}
  <2>1. PICK f \in Files : /\ Importable(f) /\ c.asked = Known(AskedByFile(f))
                           /\ c.ignored = Cardinality(Missing(AskedByFile(f)))
    BY <1>2 DEF Ordered
  <2>2. AskedByFile(f) = Stated(f)
    BY <2>1 DEF FilesAddUp
  <2>3. Cardinality(Missing(Stated(f))) \in Nat
    <3>1. AskedByFile(f) \in [Ids -> Nat]
      BY <2>1 DEF FilesAreCounts
    <3> QED
      BY <2>2, <3>1, AskedTypes
  <2>4. Cardinality(Missing(Stated(f))) <= MaxUnknown
    BY <2>1, <2>2, <2>3 DEF TooMany
  <2> QED
    BY <2>1, <2>2, <2>4 DEF FileDeliveries
<1> QED
  BY <1>1, <1>2

(* A step of one call changes what that call asks.                           *)
LEMMA Asked ==
  ASSUME Typed, NEW s \in Sessions, NEW new, Become(s, new)
  PROVE  /\ Requests' = [Requests EXCEPT ![s] = Asking(new)]
         /\ Requests[s] = Asking(call[s])
         /\ Asking(new) = Asking(call[s]) => Requests' = Requests
<1>1. call'[s] = new /\ \A t \in Sessions \ {s} : call'[t] = call[t]
  BY Becomes
<1>2. \A t \in Sessions : Requests[t] = Asking(call[t]) /\ Requests'[t] = Asking(call'[t])
  BY DEF Requests, Asking, TooMany
<1>3. Requests' = [t \in Sessions |-> IF t = s THEN Asking(new) ELSE Requests[t]]
  <2>1. Requests' = [t \in Sessions |-> Asking(call'[t])]
    BY DEF Requests, Asking, TooMany
  <2> QED
    BY <1>1, <1>2, <2>1
<1> QED
  BY <1>2, <1>3 DEF Requests

LEMMA AskingIs ==
  ASSUME NEW c
  PROVE  /\ c.pc = "idle" \/ TooMany(c) => Asking(c) = NoRequest
         /\ c.pc # "idle" /\ ~TooMany(c) =>
              /\ Asking(c) = [kind |-> IF c.kind = "remove" THEN "withdraw"
                                       ELSE IF c.kind = "delete" THEN "drop" ELSE "deliver",
                              name |-> c.name, row |-> c.row, wanted |-> c.asked]
              /\ Asking(c) # NoRequest
<1>1. c.pc # "idle" /\ ~TooMany(c) =>
        Asking(c) = [kind |-> IF c.kind = "remove" THEN "withdraw"
                              ELSE IF c.kind = "delete" THEN "drop" ELSE "deliver",
                     name |-> c.name, row |-> c.row, wanted |-> c.asked]
  BY DEF Asking
<1>2. c.pc = "idle" \/ TooMany(c) => Asking(c) = NoRequest
  BY DEF Asking, NoRequest
<1>3. c.pc # "idle" /\ ~TooMany(c) => Asking(c).kind # "none"
  BY <1>1
<1> QED
  BY <1>1, <1>2, <1>3 DEF NoRequest

Stutters == UNCHANGED <<name, count, Requests>>

LEMMA NothingAsked == Ledger!NoRequest = NoRequest /\ Ledger!Nothing = Zero /\ Asking(Idle) = NoRequest
<1>1. Idle.pc = "idle"
  BY DEF Idle
<1> QED
  BY <1>1, AskingIs DEF Ledger!NoRequest, Ledger!Nothing, NoRequest, Zero

(* A call that ends and commits nothing has abandoned what it asked.         *)
LEMMA Abandons ==
  ASSUME Sound, NEW s \in Sessions, Become(s, Idle), UNCHANGED <<name, count>>
  PROVE  Ledger!Next \/ Stutters
<1>1. /\ Requests' = [Requests EXCEPT ![s] = NoRequest]
      /\ Requests[s] = NoRequest => Requests' = Requests
  BY Asked, NothingAsked DEF Sound
<1>2. CASE Requests[s] = NoRequest
  BY <1>1, <1>2 DEF Stutters
<1>3. CASE Requests[s] # NoRequest
  <2>1. Ledger!Abandon(s)
    BY <1>1, <1>3, NothingAsked DEF Ledger!Abandon, Requests
  <2> QED
    BY <2>1 DEF Ledger!Next
<1> QED
  BY <1>2, <1>3

(* A call that begins asks for something, unless it will be refused.         *)
LEMMA Asks ==
  ASSUME FilesAreCounts, FilesAddUp, Sound, NEW s \in Sessions, NEW new, Become(s, new), Starts(s, new),
         new.kind \in Kinds, UNCHANGED <<name, count>>
  PROVE  Ledger!Next \/ Stutters
<1>1. /\ Requests' = [Requests EXCEPT ![s] = Asking(new)]
      /\ Requests[s] = NoRequest
      /\ Asking(new) = NoRequest => Requests' = Requests
  BY Asked, AskingIs DEF Sound, Starts
<1>2. CASE TooMany(new)
  BY <1>1, <1>2, AskingIs DEF Stutters
<1>3. CASE ~TooMany(new)
  <2> DEFINE kind == IF new.kind = "remove" THEN "withdraw" ELSE IF new.kind = "delete" THEN "drop" ELSE "deliver"
             n == new.name
             r == new.row
  <2>1. Asking(new) = [kind |-> kind, name |-> n, row |-> r, wanted |-> new.asked]
    BY <1>3, AskingIs DEF Starts
  <2>2. n \in Names /\ r \in Inventories /\ Found(new) /\ Ordered(new)
    BY DEF Starts, Found
  <2>3. \A q \in Inventories : name[q] = n => q = r
    BY <2>2 DEF Found, RowsOf
  <2>4. \/ name[r] = n
        \/ kind = "deliver" /\ name[r] = "none" /\ \A t \in Sessions : Requests[t].row # r
    <3>1. CASE ~new.fresh
      BY <2>2, <3>1 DEF Found
    <3>2. CASE new.fresh
      <4>1. r \notin InUse /\ name[r] = "none" /\ kind = "deliver"
        BY <2>2, <3>2 DEF Found, InUse, Creating
      <4>2. ASSUME NEW t \in Sessions PROVE Requests[t].row # r
        <5>1. Requests[t] = Asking(call[t]) /\ r # 0
          BY <2>2 DEF Requests, Inventories
        <5>2. CASE Asking(call[t]) = NoRequest
          BY <5>1, <5>2 DEF NoRequest
        <5>3. CASE Asking(call[t]) # NoRequest
          <6>1. call[t].pc # "idle" /\ Asking(call[t]).row = call[t].row
            BY <5>3, AskingIs
          <6>2. call[t].fresh => call[t].row # r
            BY <4>1 DEF InUse
          <6>3. ~call[t].fresh => name[call[t].row] # "none"
            BY <6>1, CallFacts DEF SoundCall, Placed, Stages
          <6> QED
            BY <4>1, <5>1, <6>1, <6>2, <6>3
        <5> QED
          BY <5>2, <5>3
      <4> QED
        BY <4>1, <4>2
    <3> QED
      BY <3>1, <3>2
  <2> HIDE DEF n, r
  <2>5. Ledger!Ask(s, kind, n, r, new.asked)
    BY <1>1, <2>1, <2>3, <2>4, NothingAsked DEF Ledger!Ask, Requests
  <2>6. CASE new.kind = "remove"
    <3>1. new.asked \in ListDeliveries /\ kind = "withdraw"
      BY <2>2, <2>6 DEF Ordered
    <3> QED
      BY <2>2, <2>5, <3>1 DEF Ledger!Next
  <2>7. CASE new.kind = "delete"
    <3>1. new.asked = Ledger!Nothing /\ kind = "drop"
      BY <2>2, <2>7, NothingAsked DEF Ordered
    <3> QED
      BY <2>2, <2>5, <3>1 DEF Ledger!Next
  <2>8. CASE new.kind \in {"create", "add", "import", "ingest"}
    <3>1. new.asked \in FileDeliveries \cup ListDeliveries \cup {Zero}
      BY <1>3, <2>2, <2>8, Deliveries
    <3>2. kind = "deliver"
      BY <2>8
    <3> QED
      BY <2>2, <2>5, <3>1, <3>2 DEF Ledger!Next
  <2> QED
    BY <2>6, <2>7, <2>8 DEF Kinds
<1> QED
  BY <1>2, <1>3

(* A call that goes on asks what it asked.                                   *)
LEMMA GoesOn ==
  ASSUME Sound, NEW s \in Sessions, NEW new, Become(s, new), SameCall(call[s], new),
         call[s].pc # "idle", new.pc # "idle", UNCHANGED <<name, count>>
  PROVE  Stutters
<1>1. TooMany(new) <=> TooMany(call[s])
  BY DEF SameCall, TooMany
<1>2. Asking(new) = Asking(call[s])
  BY <1>1, AskingIs DEF SameCall
<1> QED
  BY <1>2, Asked DEF Sound, Stutters

LEMMA Drops ==
  ASSUME Sound, Orders, NEW s \in Sessions, DeleteRow(s)
  PROVE  Ledger!Next \/ Stutters
<1> DEFINE c == call[s]
<1>1. /\ c.pc = "delete" /\ name' = [name EXCEPT ![c.row] = "gone"]
      /\ count' = [count EXCEPT ![c.row] = Zero] /\ Become(s, Idle)
  BY DEF DeleteRow, At
<1>2. SoundCall(s) /\ c.row \in Inventories /\ c.name \in Names /\ ~c.fresh /\ name[c.row] \in {c.name, "gone"}
  BY <1>1, CallFacts DEF SoundCall, Stages, Placed
<1>3. c.kind = "delete" /\ ~TooMany(c)
  BY <1>1, <1>2 DEF SoundCall, Stages, Orders, Ordered, TooMany
<1>4. CASE name[c.row] = "gone"
  <2>1. count[c.row] = Zero
    BY <1>2, <1>4 DEF Sound, Emptied
  <2>2. name' = name /\ count' = count
    BY <1>1, <1>2, <1>4, <2>1 DEF Sound, Typed
  <2> QED
    BY <1>1, <2>2, Abandons
<1>5. CASE name[c.row] = c.name
  <2>1. /\ Requests' = [Requests EXCEPT ![s] = NoRequest]
        /\ Requests[s] = [kind |-> "drop", name |-> c.name, row |-> c.row, wanted |-> c.asked]
    BY <1>1, <1>3, Asked, AskingIs, NothingAsked DEF Sound
  <2>3. Ledger!Answered(s, "drop")
    BY <2>1, NothingAsked DEF Ledger!Answered, Requests
  <2>2. Ledger!Drop(s)
    <3>1. /\ [t \in Sessions |-> Asking(call[t])][s].row = c.row
          /\ [t \in Sessions |-> Asking(call[t])][s].name = c.name
          /\ [t \in Sessions |-> Asking(call[t])][s].wanted = c.asked
      BY <2>1 DEF Requests
    <3> HIDE DEF c
    <3> QED
      BY <1>1, <1>5, <2>3, <3>1, NothingAsked DEF Ledger!Drop
  <2> QED
    BY <2>2 DEF Ledger!Next
<1> QED
  BY <1>2, <1>4, <1>5

LEMMA Commits ==
  ASSUME Sound, Orders, NEW s \in Sessions, Finish(s), ~TooMany(call[s])
  PROVE  Ledger!Next \/ Stutters
<1> DEFINE c == call[s]
<1>1. /\ name' = IF c.fresh THEN [name EXCEPT ![c.row] = c.name] ELSE name
      /\ count' = [count EXCEPT ![c.row] = Committed(c)]
      /\ Become(s, Idle) /\ c.row \in Inventories /\ c.name \in Names /\ c.pc = "finish"
  BY FinishDoes
<1>2. /\ c \in Task /\ SoundCall(s) /\ c.kind \in Kinds /\ (c.fresh => name[c.row] = "none")
      /\ (~c.fresh => name[c.row] \in {c.name, "gone"}) /\ (c.kind = "remove" => c.name # Collection)
      /\ (c.fresh => c.kind \in Creating)
  BY <1>1, CallFacts DEF SoundCall, Stages, Placed
<1>3. /\ c.asked = Zero => Committed(c) = count[c.row]
      /\ c.kind # "remove" => Committed(c) = [p \in Catalog |-> count[c.row][p] + c.asked[p]]
      /\ c.kind = "remove" =>
           Committed(c) = [p \in Catalog |-> IF p \in c.written THEN Least(count[c.row][p], c.asked[p])
                                             ELSE count[c.row][p]]
  BY <1>1, WhatIsCommitted
<1>4. ASSUME Committed(c) = count[c.row], ~c.fresh PROVE Ledger!Next \/ Stutters
  <2>1. name' = name /\ count' = count
    BY <1>1, <1>4 DEF Sound, Typed
  <2> QED
    BY <1>1, <2>1, Abandons
<1>5. CASE name[c.row] = "gone"
  <2>1. count[c.row] = Zero /\ c.written = {} /\ ~c.fresh
    BY <1>1, <1>2, <1>5 DEF Sound, Emptied, SoundCall, Placed, Gone
  <2>2. Committed(c) = Zero
    BY <2>1 DEF Committed, Zero
  <2> QED
    BY <1>4, <2>1, <2>2
<1>6. CASE c.kind = "delete"
  <2>1. c.asked = Zero /\ ~c.fresh
    BY <1>2, <1>6 DEF Orders, Ordered, Creating
  <2> QED
    BY <1>3, <1>4, <2>1
<1>7. ASSUME name[c.row] # "gone", c.kind # "delete"
      PROVE  /\ Requests' = [Requests EXCEPT ![s] = NoRequest]
             /\ Requests[s] = [kind |-> IF c.kind = "remove" THEN "withdraw" ELSE "deliver",
                               name |-> c.name, row |-> c.row, wanted |-> c.asked]
  <2>1. Requests' = [Requests EXCEPT ![s] = NoRequest] /\ Requests[s] = Asking(c)
    BY <1>1, Asked, NothingAsked DEF Sound
  <2> QED
    BY <1>1, <1>7, <2>1, AskingIs
<1>8. CASE name[c.row] # "gone" /\ c.kind = "remove"
  <2>1. ~c.fresh /\ name' = name /\ name[c.row] = c.name /\ c.name # Collection
    BY <1>1, <1>2, <1>8 DEF Creating
  <2>2. Requests' = [Requests EXCEPT ![s] = NoRequest]
        /\ Requests[s] = [kind |-> "withdraw", name |-> c.name, row |-> c.row, wanted |-> c.asked]
    BY <1>7, <1>8
  <2>3. c.written \in SUBSET Catalog
    BY <1>2 DEF Task
  <2>4. count' = [count EXCEPT ![c.row] = [p \in Catalog |-> IF p \in c.written THEN Least(@[p], c.asked[p]) ELSE @[p]]]
    BY <1>1, <1>3, <1>8
  <2>6. Ledger!Answered(s, "withdraw")
    BY <2>2, NothingAsked DEF Ledger!Answered, Requests
  <2>7. \A a, b : Ledger!Least(a, b) = Least(a, b)
    BY DEF Ledger!Least, Least
  <2>5. Ledger!Withdraw(s)
    <3>1. /\ [t \in Sessions |-> Asking(call[t])][s].row = c.row
          /\ [t \in Sessions |-> Asking(call[t])][s].name = c.name
          /\ [t \in Sessions |-> Asking(call[t])][s].wanted = c.asked
      BY <2>2 DEF Requests
    <3> HIDE DEF c
    <3> QED
      BY <2>1, <2>3, <2>4, <2>6, <2>7, <3>1 DEF Ledger!Withdraw
  <2> QED
    BY <2>5 DEF Ledger!Next
<1>9. CASE name[c.row] # "gone" /\ c.kind \notin {"remove", "delete"}
  <2>1. name[c.row] \in {"none", c.name} /\ name' = [name EXCEPT ![c.row] = c.name]
    BY <1>1, <1>2, <1>9 DEF Sound, Typed
  <2>2. Requests' = [Requests EXCEPT ![s] = NoRequest]
        /\ Requests[s] = [kind |-> "deliver", name |-> c.name, row |-> c.row, wanted |-> c.asked]
    BY <1>7, <1>9
  <2>3. count' = [count EXCEPT ![c.row] = [p \in Catalog |-> @[p] + c.asked[p]]]
    BY <1>1, <1>3, <1>9
  <2>5. Ledger!Answered(s, "deliver")
    BY <2>2, NothingAsked DEF Ledger!Answered, Requests
  <2>4. Ledger!Deliver(s)
    <3>1. /\ [t \in Sessions |-> Asking(call[t])][s].row = c.row
          /\ [t \in Sessions |-> Asking(call[t])][s].name = c.name
          /\ [t \in Sessions |-> Asking(call[t])][s].wanted = c.asked
      BY <2>2 DEF Requests
    <3> HIDE DEF c
    <3> QED
      BY <2>1, <2>3, <2>5, <3>1 DEF Ledger!Deliver
  <2> QED
    BY <2>4 DEF Ledger!Next
<1> QED
  BY <1>5, <1>6, <1>8, <1>9

LEMMA LedgerStep ==
  ASSUME FilesAreCounts, FilesAddUp, Sound, Orders, [Next]_vars
  PROVE  Ledger!Next \/ Stutters
<1>1. CASE UNCHANGED vars
  BY <1>1 DEF vars, Stutters, Requests, Asking, TooMany
<1>2. CASE Next
  <2>1. PICK s \in Sessions : Quiet(s) \/ (Finish(s) /\ ~TooMany(call[s])) \/ DeleteRow(s)
    BY <1>2, CallSteps
  <2>2. CASE Quiet(s)
    <3>1. PICK new : /\ UNCHANGED <<name, count>> /\ Become(s, new)
                     /\ Starts(s, new) \/ new = Idle \/ (call[s].pc # "idle" /\ SameCall(call[s], new))
      BY <2>2 DEF Quiet
    <3>2. /\ new.pc = "idle" => new = Idle
          /\ new.pc # "idle" => new.kind \in Kinds
      <4>1. Sound'
        BY SoundNext
      <4>2. Stages(s, call[s])'
        BY <4>1 DEF Sound, SoundCall
      <4>3. call'[s] = new
        BY <3>1, Becomes DEF Sound
      <4> QED
        BY <4>2, <4>3 DEF Stages
    <3>3. CASE new = Idle
      BY <3>1, <3>3, Abandons
    <3>4. CASE new # Idle /\ Starts(s, new)
      BY <3>1, <3>2, <3>4, Asks
    <3>5. CASE new # Idle /\ call[s].pc # "idle" /\ SameCall(call[s], new)
      BY <3>1, <3>2, <3>5, GoesOn
    <3> QED
      BY <3>1, <3>3, <3>4, <3>5
  <2> QED
    BY <2>1, <2>2, Commits, Drops
<1> QED
  BY <1>1, <1>2

(* Whatever calls overlap, fail or are cut off, with any number of sessions  *)
(* that create, edit and delete, what is committed follows InventoryLedger:  *)
(* each call takes effect once and as a whole, in the inventory it looked up *)
(* or made, or not at all.  All it needs of the files is that they add up,   *)
(* which TLC evaluates.                                                      *)
THEOREM CallsImplementLedger ==
  ASSUME FilesAreCounts, FilesAddUp PROVE Spec => ImplementsLedger
<1>1. Init => Ledger!Init
  <2> SUFFICES ASSUME Init PROVE Requests = [s \in Sessions |-> NoRequest] /\ count = [r \in Inventories |-> Zero]
                                 /\ name = [r \in Inventories |-> "none"]
    BY NothingAsked DEF Ledger!Init, Requests
  <2>1. \A s \in Sessions : Asking(call[s]) = NoRequest
    BY NothingAsked DEF Init
  <2> QED
    BY <2>1 DEF Init, Requests
<1>2. Sound /\ Orders /\ [Next]_vars => [Ledger!Next]_(Ledger!vars)
  <2>1. Stutters => UNCHANGED Ledger!vars
    BY DEF Stutters, Ledger!vars, Requests
  <2> QED
    BY <2>1, LedgerStep
<1> QED
  BY <1>1, <1>2, OrdersHold, PTL DEF Spec, ImplementsLedger, Ledger!Spec
================================================================================
