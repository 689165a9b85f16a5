------------------------------ MODULE CatalogReaders ---------------------------
(***************************************************************************)
(* Two readers of the card catalog while fetches import into it: a caller  *)
(* who walks through the pages of a search, each page a call of its own    *)
(* that counts the rows and then reads its share of them, and a sweep that *)
(* asks about all cards, reads the answers and asks again about those it   *)
(* got none for.  At READ COMMITTED every statement sees what has been     *)
(* committed by then.  The readers share nothing but the catalog: one runs *)
(* at a time.                                                              *)
(*                                                                         *)
(* Left out: inventories and tags that change meanwhile, the shape of the  *)
(* returned cards, the types a tag restricts its sweep to.                 *)
(***************************************************************************)
EXTENDS CardFilters, ChunkVerdicts, TLC

CONSTANTS
  Files,        \* for each card, what MTGJSON's files say of it, version by version
  Loaded,       \* the cards that the catalog has at first
  Tagged,       \* pairs of an oracle id and the name of a tag it has
  Inventories,  \* the name of each inventory
  Stock,        \* pairs of an inventory and a card in it
  Queries,      \* the searches that are made in this instance
  MaxPageSize,  \* CARD_CATALOG_MAX_PAGE_SIZE
  Answers,      \* the results that Anthropic gives in this instance
  MaxRounds     \* bound: how often the sweep asks

ASSUME ReadersAssumption ==
  /\ IsFiniteSet(DOMAIN Files) /\ IsFiniteSet(DOMAIN Inventories)
  /\ \A card \in DOMAIN Files : Files[card] \in Seq(Range(Files[card])) \ {<<>>}
  /\ Loaded \subseteq DOMAIN Files
  /\ Stock \subseteq (DOMAIN Inventories) \X (DOMAIN Files)
  /\ \A query \in Queries : query.page_size \in Nat \ {0} /\ query.distinct_oracle \in BOOLEAN
  /\ \A answer \in Answers : answer[1] = "list" => IsFiniteSet(DOMAIN answer[2])
  /\ {MaxPageSize, MaxRounds} \subseteq Nat \ {0}

(* MTGJSON's colours are pips and its collector numbers are not negative;  *)
(* inventories are stored under canonical names; ids are not blank.  A     *)
(* wildcard with blanks around it is not searched for.                     *)
IsRaw(raw) ==
  /\ {raw.name, raw.oracle} \subseteq Int
  /\ {word[1] : word \in Range(raw.colors)} \subseteq Pips
  /\ UNION {figure.digits : figure \in raw.number} \subseteq Nat

IsGiven(field, value) ==
  /\ field \in Fields
  /\ field[1] = "rarity" => value = <<value[1], value[2]>>
  /\ field[1] = "scryfall_id" => \A word \in GivenItems(field, value) : ~IsBlank(word)
  /\ field = <<"name", "like">> => ~(value[1] \in Wildcards /\ value[2] = "padded")

ASSUME WordsAssumption ==
  /\ "" \notin CardTypes \cup Supertypes \cup Rarities
  /\ \A card \in DOMAIN Files : \A v \in DOMAIN Files[card] : IsRaw(Files[card][v])
  /\ \A i \in DOMAIN Inventories : Inventories[i] = Lower(Inventories[i])
  /\ \A query \in Queries : \A field \in DOMAIN query.filters : IsGiven(field, query.filters[field])

VARIABLES
  catalog,  \* the version of each card's row; cards that were never imported are not in it
  walk,     \* the caller's walk
  sweep     \* the sweep's round

vars == <<catalog, walk, sweep>>

NoWalk == [stage |-> "none"]
NoRound == [stage |-> "none", number |-> 0, failed |-> {}]

(* The rows that the tables hold.                                          *)
Rows == [card \in DOMAIN Files |-> [v \in DOMAIN Files[card] |-> Stored(Files[card][v])]]
Row(card) == Rows[card][catalog[card]]
Known == {Row(card).oracle : card \in DOMAIN catalog}

Init ==
  /\ catalog = [card \in Loaded |-> 1]
  /\ walk = NoWalk
  /\ sweep = NoRound

(* A fetch commits a set with a new card in it, or with a newer version of *)
(* one: all columns but the key are overwritten.                           *)
Import(card) ==
  LET version == IF card \in DOMAIN catalog THEN catalog[card] + 1 ELSE 1
  IN /\ version \in DOMAIN Files[card]
     /\ catalog' = [c \in DOMAIN catalog \cup {card} |-> IF c = card THEN version ELSE catalog[c]]
     /\ UNCHANGED <<walk, sweep>>

-------------------------------------------------------------------------------
(* The inventory's join has a row for each inventory of the name that has  *)
(* the card.                                                               *)
Holding(search, card) ==
  IF <<"inventory_name", "is">> \in DOMAIN search
  THEN {i \in DOMAIN Inventories :
          Inventories[i] = search[<<"inventory_name", "is">>] /\ <<i, card>> \in Stock}
  ELSE {"catalog"}

Found(search) ==
  UNION {{card} \X Holding(search, card) :
           card \in {c \in DOMAIN catalog : Satisfies(Row(c), Tagged, search)}}

(* DISTINCT ON keeps one row of an oracle id, the first by name.  Rows     *)
(* that compare equal come in any order.                                   *)
FirstOfOracle(found) ==
  {kept \in SUBSET found :
     /\ \A pair \in found : \E other \in kept : Row(other[1]).oracle = Row(pair[1]).oracle
     /\ \A pair, other \in kept : Row(pair[1]).oracle = Row(other[1]).oracle => pair = other
     /\ \A pair \in found, other \in kept :
          Row(pair[1]).oracle = Row(other[1]).oracle => Row(other[1]).name <= Row(pair[1]).name}

OrderKeyNone(query, pair) == 0
OrderKey(query, pair) == IF query.distinct_oracle THEN Row(pair[1]).oracle ELSE Row(pair[1]).name

Orders(query, found) ==
  {order \in SetToSeqs(found) :
     \A i, j \in DOMAIN order : i < j => OrderKey(query, order[i]) <= OrderKey(query, order[j])}

Results(query, search) ==
  UNION {Orders(query, kept) :
           kept \in IF query.distinct_oracle THEN FirstOfOracle(Found(search)) ELSE {Found(search)}}

PageSizeAsAsked(query) == query.page_size
PageSize(query) == AtMost(query.page_size, MaxPageSize)

Total(query, search) ==
  IF query.distinct_oracle THEN Cardinality({Row(pair[1]).oracle : pair \in Found(search)})
                           ELSE Cardinality(Found(search))

(* A request with a filter out of range is refused before it gets here.    *)
Ask(query) ==
  /\ walk.stage = "none" /\ sweep.stage = "none"
  /\ walk' = IF Accepted(query.filters)
             THEN [stage |-> "count", query |-> query, search |-> Search(query.filters),
                   page |-> 1, total |-> 0, seen |-> <<>>, since |-> catalog]
             ELSE [stage |-> "refused", query |-> query]
  /\ UNCHANGED <<catalog, sweep>>

Walks(stage, page, total, seen) ==
  walk' = [stage |-> stage, query |-> walk.query, search |-> walk.search,
           page |-> page, total |-> total, seen |-> seen, since |-> walk.since]

CountRows ==
  /\ walk.stage = "count"
  /\ Walks("read", walk.page, Total(walk.query, walk.search), walk.seen)
  /\ UNCHANGED <<catalog, sweep>>

(* The caller goes on until a page comes back that is not full.            *)
ReadPage ==
  /\ walk.stage = "read"
  /\ \E order \in Results(walk.query, walk.search) :
       LET page == Part(order, PageSize(walk.query), walk.page)
       IN Walks(IF Len(page) < PageSize(walk.query) THEN "end" ELSE "count",
                walk.page + 1, walk.total, walk.seen \o [i \in DOMAIN page |-> page[i][1]])
  /\ UNCHANGED <<catalog, sweep>>

-------------------------------------------------------------------------------
(* The first round takes the oracle ids in order, a later one all that     *)
(* failed in a round before it, in any order: failed flags are not reset.  *)
Eligible == {order \in SetToSeqs(Known) : \A i, j \in DOMAIN order : i < j => order[i] < order[j]}

AskAbout(oracles) ==
  LET batches == Batches(oracles)
  IN sweep' = [stage |-> "sent", number |-> sweep.number + 1, failed |-> sweep.failed,
               asked |-> Range(oracles), batches |-> batches,
               tables |-> [b \in DOMAIN batches |-> [c \in DOMAIN batches[b] |-> Table(Known, batches[b][c])]]]

Chunks(batches) == UNION {{b} \X (DOMAIN batches[b]) : b \in DOMAIN batches}

Kickoff ==
  /\ walk.stage = "none" /\ sweep.stage = "none" /\ Known # {}
  /\ \E oracles \in Eligible : AskAbout(oracles)
  /\ UNCHANGED <<catalog, walk>>

Reenqueue ==
  /\ sweep.stage = "read" /\ sweep.number < MaxRounds /\ sweep.failed # {}
  /\ \E oracles \in SetToSeqs(sweep.failed) : AskAbout(oracles)
  /\ UNCHANGED <<catalog, walk>>

(* Every chunk gets a result; the results of all batches are read in one   *)
(* transaction.  It ends with an error, and the sweep stays as it is, if   *)
(* a card to tag has left the catalog.  This is a sweep without side tags. *)
Untaggable(outcome) == {entry \in outcome : entry.bucket = "tag" /\ entry.oracle \notin Known}
Failed(outcome) == {entry.oracle : entry \in {e \in outcome : e.bucket = "failed"}}

Process ==
  /\ sweep.stage = "sent"
  /\ \E results \in [Chunks(sweep.batches) -> Answers] :
       LET Read(chunk) == Range(Classified(results[chunk], sweep.batches[chunk[1]][chunk[2]]))
           outcome == UNION {Read(chunk) : chunk \in Chunks(sweep.batches)}
       IN sweep' = [stage |-> IF Untaggable(outcome) = {} THEN "read" ELSE "raised",
                    number |-> sweep.number, failed |-> sweep.failed \cup Failed(outcome),
                    asked |-> sweep.asked, batches |-> sweep.batches, tables |-> sweep.tables,
                    results |-> results, outcome |-> outcome]
  /\ UNCHANGED <<catalog, walk>>

Next ==
  \/ \E card \in DOMAIN Files : Import(card)
  \/ \E query \in Queries : Ask(query)
  \/ CountRows \/ ReadPage
  \/ Kickoff \/ Reenqueue \/ Process

Spec == Init /\ [][Next]_vars

-------------------------------------------------------------------------------
(* Properties.                                                             *)

TypeOK ==
  /\ DOMAIN catalog \subseteq DOMAIN Files
  /\ \A card \in DOMAIN catalog : catalog[card] \in DOMAIN Files[card]
  /\ walk.stage \in {"none", "refused", "count", "read", "end"}
  /\ walk.stage \in {"count", "read", "end"} =>
       /\ DOMAIN walk.search \subseteq DOMAIN walk.query.filters
       /\ Range(walk.seen) \subseteq DOMAIN catalog
       /\ Len(walk.seen) <= (walk.page - 1) * MaxPageSize
       /\ walk.stage = "end" => Len(walk.seen) < (walk.page - 1) * PageSize(walk.query)
  /\ sweep.stage \in {"none", "sent", "read", "raised"} /\ sweep.number \in 0..MaxRounds
  /\ sweep.stage # "none" =>
       \A chunk \in Chunks(sweep.batches) :
         IsInjective(sweep.batches[chunk[1]][chunk[2]])
  /\ sweep.stage = "read" => \A entry \in sweep.outcome : entry.bucket \in {"tag", "exclude", "unsure", "failed"}

(* What the fields say they mean (card_search.py:71-292), of the words of  *)
(* MTGJSON and of the request, however either is spelled.                  *)
Letters(words) == {word[1] : word \in words} \ {""}

Said(raw, column) ==
  CASE column = "card_type" -> Letters(Range(raw.types))
    [] column = "super_type" -> Letters(Range(raw.supertypes))
    [] column = "subtype" -> Letters(Range(raw.subtypes))
    [] column = "keyword" -> Letters(Range(raw.keywords))
    [] column = "color_identity" -> Letters(Range(raw.colors))
    [] column = "set_code" -> {raw.set[1]}
    [] column = "scryfall_id" -> {raw.printing[1]}
    [] column = "rarity" -> {raw.rarity[1]}
    [] column = "tag" -> Letters({pair[2] : pair \in {p \in Tagged : p[1] = raw.oracle}})

Wanted(field, value) ==
  IF field[1] = "color_identity" THEN GivenItems(field, value) ELSE Letters(GivenItems(field, value))

Number(raw, column) ==
  CASE column = "mana_value" -> IF raw.mana = {} THEN {0} ELSE {h \div 2 : h \in raw.mana}
    [] column = "number" -> UNION {figure.digits : figure \in raw.number}
    [] OTHER -> UNION {IF figure.whole THEN figure.digits ELSE {} : figure \in raw[column]}

TextOf(raw, column) ==
  CASE column = "name" -> {Names[raw.name]}
    [] column = "text" -> raw.text
    [] OTHER -> {figure.text : figure \in raw[column]}

MeansField(raw, card, field, value) ==
  CASE field = <<"name", "eq">> -> Names[raw.name] = value
    [] field = <<"oracle_id", "is">> -> raw.oracle = value
    [] field = <<"inventory_name", "is">> ->
         Letters({value}) = {} \/ \E pair \in Stock : pair[2] = card /\ Inventories[pair[1]][1] = value[1]
    [] field[2] = "eq" /\ field[1] # "name" -> value \in Number(raw, field[1])
    [] field[2] = "lt" -> \E n \in Number(raw, field[1]) : n < value
    [] field[2] = "gt" -> \E n \in Number(raw, field[1]) : n > value
    [] field[2] = "like" -> Letters({value}) = {} \/ \E text \in TextOf(raw, field[1]) : value[1] \in Letters(Range(text))
    [] field[2] = "only_of" -> Wanted(field, value) = {} \/ Said(raw, field[1]) \subseteq Wanted(field, value)
    [] field[2] = "all_of" -> Wanted(field, value) \subseteq Said(raw, field[1])
    [] OTHER -> Wanted(field, value) = {} \/ Wanted(field, value) \cap Said(raw, field[1]) # {}

MeansAll(raw, card, filters) == \A field \in DOMAIN filters : MeansField(raw, card, field, filters[field])
Means(card, filters) == MeansAll(Files[card][catalog[card]], card, filters)

MeantCards(cards) == {card \in cards : Means(card, walk.query.filters)}
OraclesOf(cards) == {Row(card).oracle : card \in cards}

(* Cards that share their name with no other card the search means: rows   *)
(* of one name change places from page to page.                            *)
Steady(cards) ==
  {card \in cards : \A other \in MeantCards(DOMAIN catalog) \ {card} : Row(other).name # Row(card).name}

(* A walk through an unchanged catalog returns what the descriptions of    *)
(* the fields mean and nothing else, whatever the spelling, as many rows   *)
(* as it was told, and with distinct_oracle each oracle id once.           *)
SearchIsMeant ==
  walk.stage = "end" /\ catalog = walk.since =>
    LET meant == MeantCards(DOMAIN catalog)
    IN /\ Range(walk.seen) \subseteq meant
       /\ Len(walk.seen) = walk.total
       /\ IF walk.query.distinct_oracle
          THEN OraclesOf(Range(walk.seen)) = OraclesOf(meant) /\ Len(walk.seen) = Cardinality(OraclesOf(meant))
          ELSE Steady(meant) \subseteq Range(walk.seen)

(* Imports during a walk that add cards and change none make it repeat     *)
(* rows but miss none (the catalog's order is fixed, the offsets only look *)
(* further ahead), up to rows of one name when the walk is not distinct.   *)
OnlyAdded ==
  \A card \in DOMAIN catalog : catalog[card] = IF card \in DOMAIN walk.since THEN walk.since[card] ELSE 1

NothingMissed ==
  walk.stage = "end" /\ OnlyAdded =>
    LET meant == MeantCards(DOMAIN walk.since)
    IN IF walk.query.distinct_oracle THEN OraclesOf(meant) \subseteq OraclesOf(Range(walk.seen))
                                     ELSE Steady(meant) \subseteq Range(walk.seen)

(* A round asks about every card once, in chunks and batches of the sizes  *)
(* that the settings allow.                                                *)
RoundsFitLimits ==
  sweep.stage # "none" =>
    LET chunks == Chunks(sweep.batches)
        CardsOf(b) == UNION {Range(sweep.batches[b][c]) : c \in DOMAIN sweep.batches[b]}
    IN /\ \A b \in DOMAIN sweep.batches :
            /\ Len(sweep.batches[b]) \in 1..MaxRequests
            /\ Cardinality(CardsOf(b)) <= AtLeast(CardsPerBatch, ChunkSize)
       /\ \A chunk \in chunks : Len(sweep.batches[chunk[1]][chunk[2]]) \in 1..ChunkSize
       /\ \A one, other \in chunks :
            Range(sweep.batches[one[1]][one[2]]) \cap Range(sweep.batches[other[1]][other[2]]) # {} => one = other
       /\ UNION {CardsOf(b) : b \in DOMAIN sweep.batches} = sweep.asked

(* A card goes where the one valid answer about its row of the table says, *)
(* and fails when there is none or more than one (sweep_run_batch_card_    *)
(* model.py:15-17: the position is the row index, used to zip the answers  *)
(* back to the cards).                                                     *)
Deserved(i, table, result) ==
  LET items == IF result[1] = "list" THEN result[2] ELSE <<>>
      about == {n \in DOMAIN items : IsVerdict(items[n]) /\ i \in DOMAIN table /\ items[n][1] = table[i]}
  IN IF Cardinality(about) = 1 THEN Meaning[items[CHOOSE n \in about : TRUE][2]] ELSE "failed"

EachAnswerLands ==
  sweep.stage = "read" =>
    \A chunk \in Chunks(sweep.batches) :
      LET cards == sweep.batches[chunk[1]][chunk[2]]
      IN \A i \in DOMAIN cards, entry \in sweep.outcome :
           entry.oracle = cards[i] =>
             entry.bucket = Deserved(i, sweep.tables[chunk[1]][chunk[2]], sweep.results[chunk])
================================================================================
