-------------------------------- MODULE TagBook --------------------------------
(***************************************************************************)
(* What callers may rely on when several edit the tags at a time: a change *)
(* is the whole of one request.  A tag is renamed together with its side   *)
(* tags or not at all, a filter is replaced and never mixed with another,  *)
(* and a list of cards is tagged or untagged as a whole.                   *)
(***************************************************************************)
CONSTANTS
  Ids,
  Bases,       \* names are pairs of a base and the suffix of a side tag, or ""
  Texts, Filters,
  Lists,       \* the oracle ids that one request tags
  Takings,     \* and the ones that one untags
  First, FirstCards

VARIABLES
  tags,   \* of each tag its name, description and filter
  cards   \* the pairs of a tag and an oracle id

Init == tags = First /\ cards = FirstCards

Create(id) ==
  /\ id \notin DOMAIN tags
  /\ DOMAIN tags' = DOMAIN tags \cup {id} /\ \A other \in DOMAIN tags : tags'[other] = tags[other]
  /\ tags'[id] \in [name : (Bases \X {"", "unsure", "excluded"}) \ {tags[other].name : other \in DOMAIN tags},
                   text : Texts, types : Filters]
  /\ UNCHANGED cards

Rename(base, new) ==
  /\ \A t \in DOMAIN tags : tags[t].name # <<new, "">>
  /\ tags' = [t \in DOMAIN tags |->
                IF tags[t].name[1] = base THEN [tags[t] EXCEPT !.name = <<new, @[2]>>] ELSE tags[t]]
  /\ \A t, other \in DOMAIN tags : tags'[t].name = tags'[other].name => t = other
  /\ UNCHANGED cards

Describe(id) ==
  /\ \E text \in Texts, types \in Filters \cup {tags[id].types} :
       tags' = [tags EXCEPT ![id] = [name |-> tags[id].name, text |-> text, types |-> types]]
  /\ UNCHANGED cards

(* The tag alone or with all its side tags, and nothing of them is left.   *)
Delete(id) ==
  LET family == {t \in DOMAIN tags : tags[t].name[1] = tags[id].name[1]}
  IN \E gone \in {{id}, family} :
       /\ tags' = [t \in DOMAIN tags \ gone |-> tags[t]]
       /\ cards' = {pair \in cards : pair[1] \notin gone}

(* A card that had the tag when the request came may lose it to another    *)
(* request before the end.                                                 *)
Tag(id, list) ==
  /\ \E part \in SUBSET list : list \ part \subseteq UNION Takings /\ cards' = cards \cup ({id} \X part)
  /\ UNCHANGED tags

Untag(id, list) == cards' = cards \ ({id} \X list) /\ UNCHANGED tags

Next ==
  \/ \E id \in Ids : Create(id)
  \/ \E base, new \in Bases : Rename(base, new)
  \/ \E id \in DOMAIN tags : Describe(id) \/ Delete(id) \/ \E list \in Lists : Tag(id, list)
  \/ \E id \in DOMAIN tags, list \in Takings : Untag(id, list)

Spec == Init /\ [][Next]_<<tags, cards>>
================================================================================
