--------------------------------- MODULE SetFile -------------------------------
(***************************************************************************)
(* What the MTGJSON mapper makes of a set's file, and what the upserts of  *)
(* one chunk make of a set's rows.  A file is read as a stream of raw      *)
(* cards and inserted in chunks of BatchSize; the transaction around the   *)
(* chunks is in MtgjsonFetch.                                              *)
(***************************************************************************)
EXTENDS Integers, Sequences, FiniteSets

CONSTANTS
  Sets,       \* set codes, numbered in their alphabetical order
  Published,  \* the versions of each set's file, in the order MTGJSON publishes them
  Uuids,      \* MTGJSON uuids, primary keys of `cards`
  Printings,  \* Scryfall ids
  Words,      \* keywords; they stand for every dependent row of a card
  BatchSize,  \* mtgjson_insert_batch_size
  NoCard

(* A raw card of `data.cards`.  `sound` says that its Scryfall id and      *)
(* oracle id are there and its rarity is known.                            *)
RawCard == [uuid: Uuids, printing: Printings, side: {"", "a", "b", "c"}, sound: BOOLEAN,
            words: SUBSET Words]

Version == [preview: BOOLEAN, cards: Seq(RawCard)]

ASSUME FileAssumption ==
  /\ Sets \subseteq Nat
  /\ Published \in [Sets -> Seq(Version)]
  /\ BatchSize \in Nat \ {0}
  /\ NoCard \notin [card_id: Uuids, body: Nat]

(* Rows are identified by printing and side; one update later the row may  *)
(* have the uuid of an older file.  `body` is the version of the file a    *)
(* row's columns come from.                                                *)
Keys == Printings \X {"a", "b"}
CardRow == [card_id: Uuids, body: Nat]

(* The rows of one set: `editions`, `cards`, and the tables that hang on   *)
(* the uuid of a card.                                                     *)
SetRows == [edition: BOOLEAN, cards: [Keys -> CardRow \cup {NoCard}], words: [Uuids -> SUBSET Words]]

NoRows == [edition |-> FALSE, cards |-> [k \in Keys |-> NoCard], words |-> [u \in Uuids |-> {}]]

Smaller(m, n) == IF m < n THEN m ELSE n

(* A side that is neither front nor back is skipped with a warning.        *)
Supported(raw) == raw.side # "c"

CardSide(raw) == IF raw.side = "b" THEN "b" ELSE "a"

Key(raw) == <<raw.printing, CardSide(raw)>>

Raises(file) == \E i \in 1..Len(file) : ~file[i].sound

(* The supported cards up to the first unsound one, at which the generator *)
(* raises: a chunk that is full before it has been handed over already.    *)
Readable(file) ==
  SelectSeq(SubSeq(file, 1,
              Cardinality({i \in 1..Len(file) : \A j \in 1..i : file[j].sound})), Supported)

(* What the mapper reads in each published file, the n-th chunk of it, and *)
(* whether there is one; the rest is handed over at the end of the file.   *)
Content == [s \in Sets |-> [v \in 1..Len(Published[s]) |->
              [cards |-> Readable(Published[s][v].cards), raises |-> Raises(Published[s][v].cards)]]]

(* Hypotheses of the theorems: that the cards read are among the cards of  *)
(* the file; and of MTGJSON, that a set it has released is not previewed   *)
(* again, that its file then has a card, and that a uuid stays with its    *)
(* printing and side.                                                      *)
FilesAreCards ==
  \A s \in Sets : \A v \in 1..Len(Published[s]) : Content[s][v].cards \in Seq(RawCard)

PreviewsEnd ==
  \A s \in Sets : \A v \in 1..Len(Published[s]), u \in 1..Len(Published[s]) :
    ~Published[s][u].preview /\ u <= v => ~Published[s][v].preview

NoneIsEmpty ==
  \A s \in Sets : \A v \in 1..Len(Published[s]) :
    ~Published[s][v].preview /\ ~Content[s][v].raises => Content[s][v].cards # <<>>

(* A card of some version of the file has that key and that uuid.          *)
Known(s, k, u) ==
  \E v \in 1..Len(Published[s]) : \E i \in 1..Len(Content[s][v].cards) :
    Key(Content[s][v].cards[i]) = k /\ Content[s][v].cards[i].uuid = u

UuidsStay ==
  \A s \in Sets, k \in Keys, l \in Keys, u \in Uuids : Known(s, k, u) /\ Known(s, l, u) => k = l

Chunk(s, v, n) ==
  SubSeq(Content[s][v].cards, (n - 1) * BatchSize + 1,
         Smaller(n * BatchSize, Len(Content[s][v].cards)))

HasChunk(s, v, n) ==
  IF Content[s][v].raises THEN n * BatchSize <= Len(Content[s][v].cards)
                          ELSE (n - 1) * BatchSize < Len(Content[s][v].cards)

(* ON CONFLICT (scryfall_id, side) every column but the primary key is     *)
(* overwritten.  PostgreSQL refuses a row that it has inserted or updated  *)
(* in the same statement, and to insert a uuid that is already a primary   *)
(* key; the uuid of a row that is there it does not look at.               *)
Refused(rows, chunk) ==
  LET New(i) == rows.cards[Key(chunk[i])] = NoCard
  IN \/ \E i, j \in 1..Len(chunk) : i # j /\ \/ Key(chunk[i]) = Key(chunk[j])
                                             \/ New(i) /\ New(j) /\ chunk[i].uuid = chunk[j].uuid
     \/ \E i \in 1..Len(chunk), k \in Keys :
          New(i) /\ rows.cards[k] # NoCard /\ rows.cards[k].card_id = chunk[i].uuid

Upserted(rows, chunk, body) ==
  LET Of(k) == {i \in 1..Len(chunk) : Key(chunk[i]) = k}
      Row(k, raw) == [card_id |-> IF rows.cards[k] = NoCard THEN raw.uuid ELSE rows.cards[k].card_id,
                      body |-> body]
  IN [rows EXCEPT !.cards = [k \in Keys |->
        IF Of(k) = {} THEN @[k] ELSE Row(k, chunk[CHOOSE i \in Of(k) : TRUE])]]

(* Dependent rows carry the uuid of the file and hang on whichever card    *)
(* has it; if none has, as where the row has kept an older one, they       *)
(* violate their foreign key.                                              *)
Dangling(rows, chunk) ==
  \E i \in 1..Len(chunk) : \A k \in Keys :
     rows.cards[k] # NoCard => rows.cards[k].card_id # chunk[i].uuid

(* They are upserted, never deleted: a word the file has dropped stays.    *)
WithWords(rows, chunk) ==
  [rows EXCEPT !.words = [u \in Uuids |->
     @[u] \cup UNION {chunk[i].words : i \in {j \in 1..Len(chunk) : chunk[j].uuid = u}}]]
================================================================================
