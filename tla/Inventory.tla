------------------------------- MODULE Inventory -------------------------------
(***************************************************************************)
(* Inventories: the tools, the CSV import and the commands create them,    *)
(* add and remove copies of printings and delete them.  Every call is one  *)
(* READ COMMITTED transaction: it reads what is committed, locks a row as  *)
(* it writes it, waits for a row somebody else has written, and commits or *)
(* rolls back as a whole.  No constraint keeps two inventories from having *)
(* one name.                                                               *)
(*                                                                         *)
(* A printing stands for the card its id resolves to; the catalog does not *)
(* change.  Bulk inserts lock their rows one after the other.              *)
(***************************************************************************)
EXTENDS InventoryCsv, FiniteSetsExt

CONSTANTS
  Names, Collection,   \* `_default`, which the tools do not edit
  Catalog,             \* the printings that are cards
  Unknown,             \* ids that no card has
  Lists,               \* lists of ids that are added or removed
  Files,               \* CSV files
  MaxUnknown,          \* inventory_import_max_unknown_scryfall_ids
  Sessions,
  Calls,               \* of each session the kinds of calls it makes
  MaxInventories,      \* bound: inventory rows over time
  MaxCalls, MaxFaults  \* bounds: calls, connections lost

Ids == Catalog \cup Unknown
Inventories == 1..MaxInventories

ASSUME InventoryAssumption ==
  /\ Collection \in Names
  /\ {"none", "gone"} \cap Names = {}
  /\ Catalog \cap Unknown = {} /\ IsFiniteSet(Ids)
  /\ \A list \in Lists : IsFiniteSet(DOMAIN list)
  /\ MaxUnknown \in Nat /\ MaxInventories \in Nat
  /\ MaxCalls \in Nat /\ MaxFaults \in Nat

VARIABLES
  name,    \* of each inventory row its name, "none" or "gone" without a row
  count,   \* `inventory_cards`: the committed copies, 0 without a row
  call,    \* what each session is doing
  calls, faults

vars == <<name, count, call, calls, faults>>

Zero == [c \in Catalog |-> 0]

Idle == [pc |-> "idle", kind |-> "none", name |-> "none", row |-> 0, fresh |-> FALSE,
         asked |-> Zero, ignored |-> 0, left |-> <<>>, written |-> {}, copies |-> Zero,
         missed |-> {}]

Kinds == {"create", "add", "remove", "import", "ingest", "delete"}

TypeOK ==
  /\ name \in [Inventories -> Names \cup {"none", "gone"}]
  /\ count \in [Inventories -> [Catalog -> Nat]]
  /\ \A s \in Sessions :
       LET c == call[s]
       IN /\ c.pc \in {"idle", "resolve", "write", "update", "finish", "delete"}
          /\ c.kind \in Kinds \cup {"none"} /\ c.name \in Names \cup {"none"}
          /\ c.row \in {0} \cup Inventories /\ c.fresh \in BOOLEAN
          /\ c.asked \in [Catalog -> Nat] /\ c.copies \in [Catalog -> Nat]
          /\ c.written \subseteq Catalog /\ c.missed \subseteq Catalog
          /\ \A i \in DOMAIN c.left : c.left[i] \in Catalog
  /\ calls \in 0..MaxCalls /\ faults \in 0..MaxFaults

Init ==
  /\ name = [r \in Inventories |-> "none"]
  /\ count = [r \in Inventories |-> Zero]
  /\ call = [s \in Sessions |-> Idle]
  /\ calls = 0 /\ faults = 0

At(s, pc) == call[s].pc = pc
Become(s, task) == call' = [call EXCEPT ![s] = task]
Fails(s) == Become(s, Idle) /\ UNCHANGED <<name, count, calls, faults>>

RowsOf(n) == {r \in Inventories : name[r] = n}
InUse == {r \in Inventories : name[r] # "none"} \cup {call[s].row : s \in {t \in Sessions : call[t].fresh}}

-----------------------------------------------------------------------------
(* A call looks its inventory up by name.  Two rows of one name make every *)
(* call on it fail.                                                        *)

Modifiable(kind, n) == kind \in {"import", "ingest", "delete"} \/ n # Collection

(* The ids of a list are trimmed and lowercased; blank ones are dropped.   *)
AskedByList(list) ==
  [c \in Ids |-> Cardinality({i \in DOMAIN list : ~IsBlank(list[i]) /\ Canonical(list[i])[2] = c})]

AskedByFile(file) ==
  LET sums == Merged(Rows(file))
  IN [c \in Ids |-> IF <<"id", c>> \in DOMAIN sums THEN sums[<<"id", c>>] ELSE 0]

(* Unknown ids are an error in a list, and left out of a file.             *)
Missing(asked) == {c \in Unknown : asked[c] > 0}
Known(asked) == [c \in Catalog |-> asked[c]]

Started(kind, n) == [Idle EXCEPT !.kind = kind, !.name = n]

Begin(s, kind, n) ==
  /\ At(s, "idle") /\ calls < MaxCalls
  /\ kind \in Calls[s] /\ Modifiable(kind, n)
  /\ calls' = calls + 1

GetOrCreate(s, task) ==
  \/ /\ Cardinality(RowsOf(task.name)) = 1
     /\ \E r \in RowsOf(task.name) : Become(s, [task EXCEPT !.row = r])
  \/ /\ RowsOf(task.name) = {}
     /\ \E r \in Inventories \ InUse :
          /\ \A q \in Inventories \ InUse : r <= q
          /\ Become(s, [task EXCEPT !.row = r, !.fresh = TRUE])

Create(s, n) ==
  /\ Begin(s, "create", n)
  /\ GetOrCreate(s, [Started("create", n) EXCEPT !.pc = "finish"])
  /\ UNCHANGED <<name, count, faults>>

ImportInventory(s, kind, n, file) ==
  /\ Begin(s, kind, n)
  /\ Importable(file)
  /\ LET asked == AskedByFile(file)
     IN GetOrCreate(s, [Started(kind, n) EXCEPT !.pc = "resolve", !.asked = Known(asked),
                                                !.ignored = Cardinality(Missing(asked))])
  /\ UNCHANGED <<name, count, faults>>

(* The tool, and the command.                                              *)
Import(s, n, file) == ImportInventory(s, "import", n, file)
Ingest(s, n, file) == ImportInventory(s, "ingest", n, file)

Edit(s, kind, n, list) ==
  /\ Begin(s, kind, n)
  /\ LET asked == AskedByList(list)
     IN /\ Missing(asked) = {} /\ \E c \in Catalog : asked[c] > 0
        /\ Cardinality(RowsOf(n)) = 1
        /\ \E r \in RowsOf(n) :
             Become(s, [Started(kind, n) EXCEPT !.pc = "resolve", !.row = r, !.asked = Known(asked)])
  /\ UNCHANGED <<name, count, faults>>

AddCards(s, n, list) == Edit(s, "add", n, list)
RemoveCards(s, n, list) == Edit(s, "remove", n, list)

Gone(task) == name[task.row] = "gone"

(* The inventory must still be there, unless it is the call's own; rows    *)
(* are written in the order of the ids, whatever that is.                  *)
Resolve(s) ==
  LET c == call[s]
      needed == {p \in Catalog : c.asked[p] > 0}
  IN /\ At(s, "resolve")
     /\ IF ~Gone(c)
          THEN \E order \in SetToSeqs(needed) :
                 /\ Become(s, [c EXCEPT !.pc = IF order = <<>> THEN "finish" ELSE "write", !.left = order])
                 /\ UNCHANGED <<name, count, calls, faults>>
          ELSE Fails(s)

-----------------------------------------------------------------------------
(* Writing a row.                                                          *)

LockedBy(t, row, p) == call[t].row = row /\ p \in call[t].written
Free(s, p) == \A t \in Sessions \ {s} : ~LockedBy(t, call[s].row, p)

Onward(task) == [task EXCEPT !.left = Tail(@), !.pc = IF Len(task.left) = 1 THEN "finish" ELSE "write"]
Written(task, p, n) == Onward([task EXCEPT !.written = @ \cup {p}, !.copies[p] = n])

Replaced(task, p) == task.asked[p]
Increased(task, p) == count[task.row][p] + task.asked[p]

(* INSERT .. ON CONFLICT DO UPDATE: the latest committed count, plus the   *)
(* copies asked for.  The foreign key fails if the inventory is gone.      *)
Upsert(s) ==
  LET c == call[s]
      p == Head(c.left)
  IN /\ At(s, "write") /\ c.kind # "remove"
     /\ Free(s, p)
     /\ IF Gone(c) THEN Fails(s)
        ELSE Become(s, Written(c, p, Increased(c, p))) /\ UNCHANGED <<name, count, calls, faults>>

DecrementInPlace(s) ==
  LET c == call[s]
      p == Head(c.left)
      has == count[c.row][p]
  IN /\ At(s, "write") /\ c.kind = "remove" /\ Free(s, p)
     /\ Become(s, IF has > 0 THEN Written(c, p, has - c.asked[p]) ELSE [Onward(c) EXCEPT !.missed = @ \cup {p}])
     /\ UNCHANGED <<name, count, calls, faults>>

(* DELETE .. WHERE count <= qty.  A row that has more is not waited for.   *)
Decrement(s) ==
  LET c == call[s]
      p == Head(c.left)
      has == count[c.row][p]
  IN /\ At(s, "write") /\ c.kind = "remove"
     /\ \/ /\ has > 0 /\ has <= c.asked[p] /\ Free(s, p)
           /\ Become(s, Written(c, p, 0))
        \/ /\ has = 0 \/ has > c.asked[p]
           /\ Become(s, [c EXCEPT !.pc = "update", !.missed = IF has = 0 THEN @ \cup {p} ELSE @])
     /\ UNCHANGED <<name, count, calls, faults>>

UpdateMore(s) ==
  LET c == call[s]
      p == Head(c.left)
      has == count[c.row][p]
  IN /\ At(s, "update")
     /\ \/ has > c.asked[p] + 1 /\ Free(s, p) /\ Become(s, Written(c, p, has - c.asked[p]))
        \/ has <= c.asked[p] + 1 /\ Become(s, Onward(c))
     /\ UNCHANGED <<name, count, calls, faults>>

UpdateRetries(s) ==
  LET c == call[s]
      p == Head(c.left)
      has == count[c.row][p]
  IN /\ At(s, "update")
     /\ \/ has > c.asked[p] /\ Free(s, p) /\ Become(s, Written(c, p, has - c.asked[p]))
        \/ has <= c.asked[p] /\ Become(s, [c EXCEPT !.pc = "write"])
     /\ UNCHANGED <<name, count, calls, faults>>

(* UPDATE .. WHERE count > qty, of the row as it is by then.               *)
Update(s) ==
  LET c == call[s]
      p == Head(c.left)
      has == count[c.row][p]
  IN /\ At(s, "update")
     /\ \/ has > c.asked[p] /\ Free(s, p) /\ Become(s, Written(c, p, has - c.asked[p]))
        \/ has <= c.asked[p] /\ Become(s, Onward(c))
     /\ UNCHANGED <<name, count, calls, faults>>

(* An import that left out too many ids raises inside its session.         *)
TooMany(task) == task.ignored > MaxUnknown

Finish(s) ==
  LET c == call[s]
  IN /\ At(s, "finish")
     /\ IF TooMany(c) THEN Fails(s)
        ELSE /\ name' = IF c.fresh THEN [name EXCEPT ![c.row] = c.name] ELSE name
             /\ count' = [count EXCEPT ![c.row] = [p \in Catalog |-> IF p \in c.written THEN c.copies[p] ELSE @[p]]]
             /\ Become(s, Idle)
             /\ UNCHANGED <<calls, faults>>

-----------------------------------------------------------------------------
(* `inventory.delete`: the cards go with the row, once nobody is writing   *)
(* them.                                                                   *)
Delete(s, n) ==
  /\ Begin(s, "delete", n)
  /\ Cardinality(RowsOf(n)) = 1
  /\ \E r \in RowsOf(n) : Become(s, [Started("delete", n) EXCEPT !.pc = "delete", !.row = r])
  /\ UNCHANGED <<name, count, faults>>

DeleteRow(s) ==
  LET r == call[s].row
  IN /\ At(s, "delete")
     /\ \A t \in Sessions \ {s} : call[t].row = r => call[t].written = {}
     /\ name' = [name EXCEPT ![r] = "gone"]
     /\ count' = [count EXCEPT ![r] = Zero]
     /\ Become(s, Idle)
     /\ UNCHANGED <<calls, faults>>

(* PostgreSQL ends one of the transactions that wait for each other.       *)
Needs(s, p) ==
  LET c == call[s]
      has == count[c.row][p]
  IN /\ c.left # <<>> /\ p = Head(c.left)
     /\ \/ c.pc = "write" /\ c.kind # "remove"
        \/ c.pc = "write" /\ c.kind = "remove" /\ has > 0 /\ has <= c.asked[p]
        \/ c.pc = "update" /\ has > c.asked[p]

Waits(s, t) == s # t /\ \E p \in Catalog : Needs(s, p) /\ LockedBy(t, call[s].row, p)

Victim(s) ==
  /\ \E T \in SUBSET Sessions : s \in T /\ \A t \in T : \E u \in T : Waits(t, u)
  /\ Fails(s)

Disconnect(s) ==
  /\ ~At(s, "idle") /\ faults < MaxFaults
  /\ faults' = faults + 1
  /\ Become(s, Idle)
  /\ UNCHANGED <<name, count, calls>>

-----------------------------------------------------------------------------
Step(s) == Resolve(s) \/ Upsert(s) \/ Decrement(s) \/ Update(s) \/ Finish(s) \/ DeleteRow(s) \/ Victim(s)

Next ==
  \E s \in Sessions :
    \/ \E n \in Names :
         \/ Create(s, n) \/ Delete(s, n)
         \/ \E file \in Files : Import(s, n, file) \/ Ingest(s, n, file)
         \/ \E list \in Lists : AddCards(s, n, list) \/ RemoveCards(s, n, list)
    \/ Step(s)
    \/ Disconnect(s)

Spec == Init /\ [][Next]_vars

(* A transaction that is not waiting goes on.                              *)
FairSpec == Spec /\ \A s \in Sessions : WF_vars(Step(s))

-----------------------------------------------------------------------------
(* What a file says of a printing, without the parser and the merger.      *)
Stated(file) ==
  [p \in Ids |->
     MapThenSumSet(LAMBDA i : LET line == file.lines[i]
                              IN IF /\ Canonical(Cell(line, IdColumn(file.header))) = <<"id", p>>
                                    /\ Count(file, line) > 0
                                 THEN Count(file, line) ELSE 0,
                   DOMAIN file.lines)]

(* The merger makes of a file a number of copies of each id, as stated.    *)
FilesAreCounts == \A f \in Files : Importable(f) => AskedByFile(f) \in [Ids -> Nat]
FilesAddUp == \A f \in Files : Importable(f) => AskedByFile(f) = Stated(f)

FileDeliveries ==
  {Known(Stated(f)) : f \in {g \in Files : Importable(g) /\ Cardinality(Missing(Stated(g))) <= MaxUnknown}}
ListDeliveries ==
  {Known(AskedByList(l)) : l \in {k \in Lists : Missing(AskedByList(k)) = {}}}

(* What a call asks of the ledger; nothing, if it will be refused.         *)
Asking(c) ==
  IF c.pc = "idle" \/ TooMany(c) THEN [kind |-> "none", name |-> "none", row |-> 0, wanted |-> Zero]
  ELSE [kind |-> CASE c.kind = "remove" -> "withdraw" [] c.kind = "delete" -> "drop" [] OTHER -> "deliver",
        name |-> c.name, row |-> c.row, wanted |-> c.asked]

(* Whatever calls overlap, fail or are cut off, and however many create    *)
(* inventories, what is committed follows InventoryLedger: each call takes *)
(* effect once, all of it, in the inventory it looked up or made, or not   *)
(* at all; no copy is lost, overwritten, or added twice by one call; a     *)
(* refused import leaves no inventory behind (get_or_create,               *)
(* upsert_card_counts, decrement_card_counts, session_scope).              *)
Ledger == INSTANCE InventoryLedger
  WITH Printings <- Catalog,
       Deliveries <- FileDeliveries \cup ListDeliveries \cup {Zero},
       Withdrawals <- ListDeliveries,
       copies <- count,
       request <- [s \in Sessions |-> Asking(call[s])]

ImplementsLedger == Ledger!Spec

(* There is one inventory of each name; with two every later call on the   *)
(* name fails (get_or_create, get_by_name).  Two calls that create can     *)
(* break it: InventoryTwins.cfg.                                           *)
OneOfEachName == \A n \in Names : Cardinality(RowsOf(n)) <= 1

TakesEffect(s) ==
  LET c == call[s]
  IN (At(s, "finish") /\ c.kind = "remove" /\ call'[s] = Idle /\ faults' = faults)
       => \A p \in Catalog :
            c.asked[p] > 0 => \/ count'[c.row][p] = (IF count[c.row][p] > c.asked[p]
                                                     THEN count[c.row][p] - c.asked[p] ELSE 0)
                              \/ p \in c.missed

(* A removal that reports success has removed the copies it names, as far  *)
(* as there were any: of each printing it took its copies or all there     *)
(* were, unless it found none (decrement_card_counts).                     *)
RemovalTakesEffect == [][\A s \in Sessions : TakesEffect(s)]_vars

(* Every call ends, also when two write the same cards in different orders *)
(* (upsert_card_counts, decrement_card_counts).                            *)
CallsEnd == \A s \in Sessions : []<>At(s, "idle")
================================================================================
