------------------------------- MODULE CardFilters -----------------------------
(***************************************************************************)
(* What the catalog stores of a printing that MTGJSON describes, what a    *)
(* search makes of the filters it is given, and which rows satisfy them.   *)
(*                                                                         *)
(* A word is <<letters, form>>: its form is "plain" (lower case),          *)
(* "shouted" (upper case) or "padded" (with blanks around it), its letters *)
(* are "" when there are none.  A text is a sequence of words.  A column   *)
(* that may be NULL is a set with at most one value.  Filters are a        *)
(* function whose domain are the fields that are given: <<column,          *)
(* operator>>, such as <<"mana_value", "lt">>.                             *)
(***************************************************************************)
EXTENDS Integers, SequencesExt

CONSTANTS
  Names,        \* card names as texts, in their alphabetical order
  CardTypes,    \* letters of the enum CardType
  Supertypes,   \* letters of the enum CardSupertype
  Rarities      \* letters of the enum CardRarity

Pips == {"W", "U", "B", "R", "G"}

Lower(word) == <<word[1], "plain">>
Upper(word) == <<word[1], "shouted">>
Trimmed(word) == IF word[2] = "padded" THEN Lower(word) ELSE word
IsBlank(word) == word[1] = ""

LoweredAll(words) == {Lower(word) : word \in Range(words)}
UpperedAll(words) == {Upper(word) : word \in Range(words)}
Nonblank(words) == {word \in words : ~IsBlank(word)}

-------------------------------------------------------------------------------
(* The catalog's row.  A figure such as a power or a collector number is   *)
(* [text, digits, whole]: its digits are the number it begins with, if     *)
(* any, and it is whole when nothing follows them.  Mana values come in    *)
(* halves.                                                                 *)
PlainInteger(figures) == UNION {figure.digits : figure \in {g \in figures : g.whole}}
CollectorNumber(figures) == {n \in UNION {figure.digits : figure \in figures} : n >= 0}
ManaValue(halves) == IF halves = {} THEN {0} ELSE {h \div 2 : h \in halves}

(* The canonical string has each pip once, in one order: a set.            *)
ColorIdentity(symbols) == {word[1] : word \in Range(symbols)} \cap Pips

Enumerated(words, letters) == {Lower(word) : word \in {w \in Range(words) : w[1] \in letters}}
Tokens(words) == Nonblank(LoweredAll(words))

Stored(raw) ==
  [name |-> raw.name, oracle |-> raw.oracle,
   printing |-> Lower(raw.printing), set |-> Upper(raw.set), rarity |-> Lower(raw.rarity),
   text |-> raw.text,
   figures |-> [column \in {"power", "toughness", "number"} |-> {figure.text : figure \in raw[column]}],
   colors |-> ColorIdentity(raw.colors),
   types |-> Enumerated(raw.types, CardTypes), supertypes |-> Enumerated(raw.supertypes, Supertypes),
   subtypes |-> Tokens(raw.subtypes), keywords |-> Tokens(raw.keywords),
   meta |-> [mana_value |-> ManaValue(raw.mana), power |-> PlainInteger(raw.power),
             toughness |-> PlainInteger(raw.toughness), number |-> CollectorNumber(raw.number)]]

-------------------------------------------------------------------------------
(* Filters as they are given.  Those of `Fields` exist; a request with a   *)
(* value outside its field's range is refused.                             *)
Lists == {"one_of", "all_of", "only_of", "any_of"}

ManaNameIdFields ==
  ({"mana_value"} \X {"eq", "lt", "gt"}) \cup ({"name"} \X {"eq", "like"})
    \cup {<<"scryfall_id", "is">>, <<"scryfall_id", "one_of">>, <<"oracle_id", "is">>,
          <<"inventory_name", "is">>, <<"rarity", "is">>}
TokenFields ==
  ({"subtype", "keyword", "tag"} \X {"is", "one_of", "all_of"})
    \cup {<<"super_type", "is">>, <<"set_code", "is">>, <<"set_code", "any_of">>}
PrintedFields == ({"power", "toughness", "number"} \X {"eq", "lt", "gt", "like"}) \cup {<<"text", "like">>}
ColorTypeFields ==
  ({"color_identity"} \X {"is", "one_of", "all_of", "only_of"}) \cup ({"card_type"} \X {"is", "one_of", "all_of"})

Fields == ManaNameIdFields \cup TokenFields \cup PrintedFields \cup ColorTypeFields

GivenItems(field, value) == IF field[2] \in Lists THEN Range(value) ELSE {value}

InRange(field, value) ==
  /\ field[1] \in {"power", "toughness", "number"} /\ field[2] \in {"eq", "lt", "gt"} => value >= 0
  /\ field[1] = "rarity" => value[1] \in Rarities /\ value[2] = "plain"
  /\ field[1] = "color_identity" => GivenItems(field, value) \subseteq Pips
  /\ field[1] = "card_type" => \A word \in GivenItems(field, value) : word[1] \in CardTypes
  /\ field[1] = "super_type" => value[1] \in Supertypes

Accepted(filters) == \A field \in DOMAIN filters : InRange(field, filters[field])

(* Each normaliser yields a set: empty when the field comes to nothing and *)
(* filters nothing, otherwise the one value that is searched for.  What a  *)
(* list comes to is the set of its members.                                *)
SearchToken(word) == IF IsBlank(word) THEN {} ELSE {Lower(word)}
SearchTokenList(words) == {Nonblank(LoweredAll(words))} \ {{}}
SetCode(word) == IF IsBlank(word) THEN {} ELSE {Upper(word)}
SetCodeList(words) == {Nonblank(UpperedAll(words))} \ {{}}
LikePattern(word) == IF IsBlank(word) THEN {} ELSE {Trimmed(word)}
InventoryName(word) == IF IsBlank(word) THEN {} ELSE {Lower(word)}
NonemptyList(list) == {list} \ {{}}

Normalised(field, value) ==
  LET column == field[1]
      many == field[2] \in Lists
  IN CASE column \in {"subtype", "keyword", "tag"} /\ ~many -> SearchToken(value)
       [] column \in {"subtype", "keyword", "tag"} /\ many -> SearchTokenList(value)
       [] column = "set_code" /\ ~many -> SetCode(value)
       [] column = "set_code" /\ many -> SetCodeList(value)
       [] column = "inventory_name" -> InventoryName(value)
       [] field[2] = "like" /\ column # "name" -> LikePattern(value)
       [] column \in {"card_type", "super_type"} /\ ~many -> {Lower(value)}
       [] column = "card_type" /\ many -> NonemptyList(LoweredAll(value))
       [] column \in {"color_identity", "scryfall_id"} /\ many -> NonemptyList(Range(value))
       [] OTHER -> {value}

Search(filters) ==
  LET given == {field \in DOMAIN filters : Normalised(field, filters[field]) # {}}
  IN [field \in given |-> CHOOSE value \in Normalised(field, filters[field]) : TRUE]

-------------------------------------------------------------------------------
(* The predicates of CardSearchQueryBuilder, on a stored row.              *)

(* EXISTS over `card_meta`: NULL compares with nothing.                    *)
Compares(column, operator, value) ==
  \E n \in column : \/ operator = "eq" /\ n = value
                    \/ operator = "lt" /\ n < value
                    \/ operator = "gt" /\ n > value

(* ILIKE '%pattern%'.  `%` and `_` in the pattern are not escaped.  Blanks *)
(* in a pattern are found between the words of a text; blanks without      *)
(* letters are one.                                                        *)
Wildcards == {"%", "_"}
Like(column, pattern) ==
  LET padded == pattern[2] = "padded"
  IN \E text \in column :
       \/ pattern[1] = "" /\ (padded => Len(text) > 1)
       \/ pattern[1] = "%" /\ (padded => Len(text) > 2)
       \/ \E i \in DOMAIN text : /\ pattern[1] \in {"_", text[i][1]}
                                 /\ padded => i # 1 /\ i # Len(text)

(* `any` over a junction table: one predicate for a list of alternatives,  *)
(* one for each member of a list of requirements.                          *)
AnyToken(tokens, operator, value) ==
  \/ operator = "is" /\ value \in tokens
  \/ operator = "one_of" /\ value \cap tokens # {}
  \/ operator = "all_of" /\ value \subseteq tokens

ManaValueHolds(row, field, value) == Compares(row.meta.mana_value, field[2], value)

NameHolds(row, field, value) ==
  \/ field[2] = "eq" /\ Names[row.name] = value
  \/ field[2] = "like" /\ Like({Names[row.name]}, value)

TextHolds(row, field, value) == Like(row.text, value)

IdentifierHolds(row, field, value) ==
  \/ field = <<"scryfall_id", "is">> /\ row.printing = Lower(value)
  \/ field = <<"scryfall_id", "one_of">> /\ row.printing \in {Lower(word) : word \in value}
  \/ field = <<"oracle_id", "is">> /\ row.oracle = value

RarityHolds(row, field, value) == row.rarity = value
SubtypeHolds(row, field, value) == AnyToken(row.subtypes, field[2], value)
KeywordHolds(row, field, value) == AnyToken(row.keywords, field[2], value)
SupertypeHolds(row, field, value) == AnyToken(row.supertypes, field[2], value)
CardTypeHolds(row, field, value) == AnyToken(row.types, field[2], value)

SetCodeHolds(row, field, value) ==
  \/ field[2] = "is" /\ row.set = value
  \/ field[2] = "any_of" /\ row.set \in value

PtMetaHolds(row, field, value) == Compares(row.meta[field[1]], field[2], value)
PtRawHolds(row, field, value) == Like(row.figures[field[1]], value)

NumberHolds(row, field, value) ==
  \/ field[2] = "like" /\ Like(row.figures.number, value)
  \/ field[2] # "like" /\ Compares(row.meta.number, field[2], value)

ColorsHoldOfAllowed(row, field, value) ==
  \/ field[2] = "is" /\ value \in row.colors
  \/ field[2] \in {"one_of", "only_of"} /\ value \cap row.colors # {}
  \/ field[2] = "all_of" /\ value \subseteq row.colors

(* LIKE '%pip%' on the canonical string; "only of" refuses every pip that  *)
(* is not allowed.                                                         *)
ColorsHold(row, field, value) ==
  \/ field[2] = "is" /\ value \in row.colors
  \/ field[2] = "one_of" /\ value \cap row.colors # {}
  \/ field[2] = "all_of" /\ value \subseteq row.colors
  \/ field[2] = "only_of" /\ (Pips \ value) \cap row.colors = {}

(* Tags hang on the oracle id, not on the printing.                        *)
TagsOf(row, tagged) == {Lower(pair[2]) : pair \in {p \in tagged : p[1] = row.oracle}}
TagHolds(row, tagged, field, value) == AnyToken(TagsOf(row, tagged), field[2], value)

Holds(row, tagged, field, value) ==
  LET column == field[1]
  IN CASE column = "mana_value" -> ManaValueHolds(row, field, value)
       [] column = "name" -> NameHolds(row, field, value)
       [] column = "text" -> TextHolds(row, field, value)
       [] column \in {"scryfall_id", "oracle_id"} -> IdentifierHolds(row, field, value)
       [] column = "rarity" -> RarityHolds(row, field, value)
       [] column = "subtype" -> SubtypeHolds(row, field, value)
       [] column = "keyword" -> KeywordHolds(row, field, value)
       [] column = "super_type" -> SupertypeHolds(row, field, value)
       [] column = "card_type" -> CardTypeHolds(row, field, value)
       [] column = "set_code" -> SetCodeHolds(row, field, value)
       [] column \in {"power", "toughness"} /\ field[2] # "like" -> PtMetaHolds(row, field, value)
       [] column \in {"power", "toughness"} /\ field[2] = "like" -> PtRawHolds(row, field, value)
       [] column = "number" -> NumberHolds(row, field, value)
       [] column = "color_identity" -> ColorsHold(row, field, value)
       [] column = "tag" -> TagHolds(row, tagged, field, value)

(* The predicates are joined by AND; the inventory is a join of its own.   *)
Satisfies(row, tagged, search) ==
  \A field \in DOMAIN search \ {<<"inventory_name", "is">>} : Holds(row, tagged, field, search[field])
================================================================================
