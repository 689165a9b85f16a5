------------------------------ MODULE ChunkVerdicts ----------------------------
(***************************************************************************)
(* How a sweep asks about cards and reads the answers.  The oracle ids are *)
(* cut into chunks and the chunks into batches; a chunk is one prompt with *)
(* a table of the cards that the catalog has, one row each, and its answer *)
(* is a list of <<row, letter>>, read against the positions of the chunk's *)
(* cards.                                                                  *)
(***************************************************************************)
EXTENDS Integers, SequencesExt

CONSTANTS
  ChunkSize,      \* tag_sweep_batch_size
  CardsPerBatch,  \* tag_sweep_cards_per_batch
  MaxRequests     \* batch_api_max_requests

ASSUME ChunkAssumption == {ChunkSize, CardsPerBatch, MaxRequests} \subseteq Nat \ {0}

AtMost(m, n) == IF m < n THEN m ELSE n
AtLeast(m, n) == IF m < n THEN n ELSE m

(* The n-th part of a sequence that is cut into parts of one size.         *)
Part(s, size, n) == SubSeq(s, (n - 1) * size + 1, AtMost(n * size, Len(s)))
Cut(s, size) == [n \in 1..((Len(s) + size - 1) \div size) |-> Part(s, size, n)]

ChunksPerBatchRounded == AtMost((CardsPerBatch + ChunkSize - 1) \div ChunkSize, MaxRequests)
ChunksPerBatch == AtMost(AtLeast(1, CardsPerBatch \div ChunkSize), MaxRequests)
Batches(oracles) == Cut(Cut(oracles, ChunkSize), ChunksPerBatch)

(* The table of a prompt: the cards of the chunk have rows, numbered from  *)
(* 0, in their order, but for those that have left the catalog.            *)
Table(known, chunk) ==
  LET listed == {i \in DOMAIN chunk : chunk[i] \in known}
  IN [i \in listed |-> Cardinality({j \in listed : j < i})]

-------------------------------------------------------------------------------
(* A result is <<"failed">> when Anthropic did not answer, <<"noise">>     *)
(* when the answer is no JSON or has no verdicts, as when it was cut off,  *)
(* or <<"list", items>>.  Verdicts that are no list are left out: the      *)
(* request's output schema excludes them.                                  *)
Meaning == [Y |-> "tag", N |-> "exclude", U |-> "unsure"]
IsVerdict(item) == item[2] \in DOMAIN Meaning

Verdicts(items, row) == {i \in DOMAIN items : IsVerdict(items[i]) /\ items[i][1] = row}

ParsedFirst(items, expected) ==
  [row \in {n \in 0..(expected - 1) : Verdicts(items, n) # {}} |->
     Meaning[items[CHOOSE i \in Verdicts(items, row) : \A j \in Verdicts(items, row) : i <= j][2]]]

(* Rows that are named twice are dropped, with those that do not exist.    *)
Parsed(items, expected) ==
  LET seen == {row \in 0..(expected - 1) : Verdicts(items, row) # {}}
      duplicates == {row \in seen : \E i, j \in Verdicts(items, row) : i # j}
  IN [row \in seen \ duplicates |-> Meaning[items[CHOOSE i \in Verdicts(items, row) : TRUE][2]]]

(* The bucket of each card of a chunk, by its position.                    *)
Classified(result, chunk) ==
  LET verdicts == IF result[1] = "list" THEN Parsed(result[2], Len(chunk)) ELSE <<>>
      Row(i) == i - 1
  IN [i \in DOMAIN chunk |->
        [oracle |-> chunk[i],
         bucket |-> IF result[1] = "list" /\ Row(i) \in DOMAIN verdicts THEN verdicts[Row(i)] ELSE "failed"]]
================================================================================
