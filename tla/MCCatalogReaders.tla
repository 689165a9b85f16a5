---------------------------- MODULE MCCatalogReaders ---------------------------
(* Instances of CatalogReaders for TLC.                                    *)
EXTENDS CatalogReaders

W(letters) == <<letters, "plain">>
Up(letters) == <<letters, "shouted">>
Pad(letters) == <<letters, "padded">>
Blank == <<"", "padded">>

MCNames == << <<W("bear")>>, <<Up("bolt")>>, <<W("dark"), W("bear")>>, <<W("forest")>> >>

Whole(n) == {[text |-> <<W(ToString(n))>>, digits |-> {n}, whole |-> TRUE]}
Star == {[text |-> <<W("*")>>, digits |-> {}, whole |-> FALSE]}
Suffixed(n, letter) == {[text |-> <<W(ToString(n)), W(letter)>>, digits |-> {n}, whole |-> FALSE]}

(* A bear, a reprint of it, a bolt whose next file brings a keyword, a     *)
(* legend and a land.                                                      *)
Bear(printing, set) ==
  [name |-> 1, oracle |-> 2, printing |-> printing, set |-> set, rarity |-> Up("common"), text |-> {},
   colors |-> << W("G") >>, types |-> << Up("creature"), W("jumpstart") >>, supertypes |-> <<>>,
   subtypes |-> << Up("bear"), W("") >>, keywords |-> <<>>,
   power |-> Whole(2), toughness |-> Whole(2), number |-> Suffixed(7, "a"), mana |-> {4}]
Bolt(keywords) ==
  [name |-> 2, oracle |-> 1, printing |-> W("s3"), set |-> W("lea"), rarity |-> W("rare"),
   text |-> {<<W("deals"), Up("damage")>>},
   colors |-> << Up("R"), Pad("B"), W("R") >>, types |-> << W("instant") >>, supertypes |-> <<>>,
   subtypes |-> <<>>, keywords |-> keywords,
   power |-> {}, toughness |-> {}, number |-> Whole(7), mana |-> {1}]
Legend(oracle) ==
  [name |-> 3, oracle |-> oracle, printing |-> Up("s4"), set |-> Up("neo"), rarity |-> W("rare"),
   text |-> {<<W("draws")>>},
   colors |-> <<>>, types |-> << W("artifact"), Pad("creature") >>, supertypes |-> << W("legendary") >>,
   subtypes |-> << W("elf"), W("bear") >>, keywords |-> << Up("flying"), W("flying"), Pad("haste") >>,
   power |-> Star, toughness |-> Whole(3), number |-> {}, mana |-> {}]
Forest ==
  [name |-> 4, oracle |-> 5, printing |-> W("s5"), set |-> Up("lea"), rarity |-> W("common"),
   text |-> {<<>>},
   colors |-> << W("G") >>, types |-> << Up("land") >>, supertypes |-> << Up("basic") >>,
   subtypes |-> << Up("forest") >>, keywords |-> <<>>,
   power |-> {}, toughness |-> {}, number |-> Whole(290), mana |-> {0}]

MCFiles ==
  [bear |-> << Bear(W("s1"), W("lea")) >>,
   rebear |-> << Bear(W("s2"), W("neo")) >>,
   bolt |-> << Bolt(<< W("haste") >>), Bolt(<< W("flying") >>) >>,
   legend |-> << Legend(3) >>,
   forest |-> << Forest >>]

(* MTGJSON gives the legend another oracle id.                             *)
MovedFiles == [MCFiles EXCEPT !.legend = << Legend(0), Legend(4) >>]

MCTagged == { <<2, W("ramp")>>, <<2, W("green")>>, <<3, W("ramp")>> }
MCInventories == << W("deck"), W("trade"), W("trade") >>
MCStock == { <<1, "bear">>, <<1, "bolt">>, <<2, "bolt">>, <<3, "bolt">>, <<3, "legend">> }

F(column, op, value) == (<<column, op>> :> value)

Tests ==
  { <<>>,
    F("mana_value", "eq", 0), F("mana_value", "lt", 2), F("mana_value", "gt", -1),
    F("power", "eq", 2), F("power", "lt", 3), F("power", "lt", -1), F("toughness", "gt", 2), F("number", "eq", 7), F("number", "gt", 0),
    F("name", "eq", << W("bear") >>), F("name", "like", Up("bear")), F("name", "like", W("bolt")),
    F("text", "like", Pad("damage")), F("text", "like", Blank), F("power", "like", W("*")), F("number", "like", W("a")),
    F("scryfall_id", "is", Up("s1")), F("scryfall_id", "one_of", << W("s2"), Up("s4") >>), F("scryfall_id", "one_of", <<>>),
    F("oracle_id", "is", 2), F("rarity", "is", W("rare")), F("rarity", "is", Up("rare")),
    F("subtype", "is", Pad("bear")), F("subtype", "is", Blank), F("subtype", "one_of", << Blank, Up("elf") >>),
    F("subtype", "all_of", << W("elf"), Up("bear") >>), F("subtype", "all_of", << Blank >>),
    F("keyword", "is", Up("flying")), F("keyword", "one_of", << W("haste"), W("flying") >>), F("keyword", "all_of", << W("haste"), W("flying") >>),
    F("tag", "is", Pad("ramp")), F("tag", "one_of", << W("ramp"), W("green") >>), F("tag", "all_of", << W("ramp"), Up("green") >>),
    F("card_type", "is", Up("creature")), F("card_type", "is", W("goblin")), F("card_type", "one_of", << W("instant"), Pad("artifact") >>),
    F("card_type", "all_of", << W("creature"), Up("artifact") >>), F("super_type", "is", Up("legendary")),
    F("set_code", "is", W("lea")), F("set_code", "is", Blank), F("set_code", "any_of", << Pad("neo"), Blank >>),
    F("color_identity", "is", "R"), F("color_identity", "one_of", << "G", "B" >>), F("color_identity", "all_of", << "R", "B" >>),
    F("color_identity", "only_of", << "G", "W" >>), F("color_identity", "only_of", << "B", "R" >>), F("color_identity", "only_of", <<>>),
    F("inventory_name", "is", Pad("deck")), F("inventory_name", "is", W("trade")), F("inventory_name", "is", Blank),
    F("card_type", "is", W("creature")) @@ F("color_identity", "only_of", << "G" >>),
    F("inventory_name", "is", Up("trade")) @@ F("keyword", "is", W("haste")) }

MCQueries == [filters: Tests, distinct_oracle: BOOLEAN, page_size: {1, 2, 5}]

List(items) == <<"list", items>>
MCAnswers ==
  { <<"failed">>, <<"noise">>,
    List(<< <<0, "Y">> >>), List(<< <<1, "N">> >>), List(<< <<1, "U">>, <<0, "Y">> >>),
    List(<< <<0, "Y">>, <<1, "N">>, <<0, "N">> >>), List(<< <<0, "?">>, <<0, "U">>, <<2, "Y">>, <<-1, "Y">> >>) }
================================================================================
