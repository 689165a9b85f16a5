--------------------------------- MODULE MCTags --------------------------------
(* Two tags, one with both its side tags, two cards, and calls about them. *)
EXTENDS Tags, TLC

A == [base |-> "ramp", suffix |-> "", spelling |-> "plain"]
ASpelt == [A EXCEPT !.spelling = "cased"]
AUnsure == [A EXCEPT !.suffix = "unsure"]
B == [base |-> "burn", suffix |-> "", spelling |-> "plain"]
BExcluded == [B EXCEPT !.suffix = "excluded"]
Creatures == <<"creature", "cased">>
Lands == <<"land", "plain">>
Sorceries == <<"sorcery", "plain">>
BlankWord == <<"", "spaced">>

MCOracles == {"o1", "o2"}
Tagged(name, types) == [name |-> name, text |-> "old", types |-> types]
MCFirst ==
  [main |-> Tagged(<<"ramp", "">>, {"creature"}),
   unsure |-> Tagged(<<"ramp", "unsure">>, {}),
   excluded |-> Tagged(<<"ramp", "excluded">>, {})]
MCFirstCards == {<<"main", "o1">>, <<"unsure", "o2">>}

TagBoth(name) == [kind |-> "tag", name |-> name, oracles |-> MCOracles]
TagStray(name) == [kind |-> "tag", name |-> name, oracles |-> {"o1", "o3"}]
UntagOne(name) == [kind |-> "untag", name |-> name, oracles |-> {"o1"}]
Verdicts(name) == [kind |-> "verdicts", name |-> name, oracles |-> MCOracles]
UpdateTo(name, text, types) == [kind |-> "update", name |-> name, text |-> text, types |-> types]
CreateTag(name, text, types) ==
  [kind |-> "create", command |-> TRUE, name |-> name, text |-> text, types |-> types]
RenameTo(name, to) == [kind |-> "rename", name |-> name, to |-> to]
DeleteTag(name, sides) == [kind |-> "delete", name |-> name, sides |-> sides]

(* One of everything that the tools and commands do.                       *)
MCCalls ==
  [s1 |-> TagBoth(ASpelt), s2 |-> Verdicts(A), s3 |-> UntagOne(A),
   s4 |-> UpdateTo(A, "new", <<Lands, BlankWord>>), s5 |-> RenameTo(A, B),
   s6 |-> CreateTag(BExcluded, "", <<Lands, Creatures, Sorceries>>), s7 |-> DeleteTag(A, TRUE)]
MCSessions == DOMAIN MCCalls

(* Two describe one tag; two rename it; one renames it while its sweep is  *)
(* processed.                                                              *)
TwoUpdaters == [s1 |-> UpdateTo(A, "new", <<Lands>>), s2 |-> UpdateTo(A, "newer", <<Sorceries>>)]
TwoRenamers == [s1 |-> RenameTo(A, B), s2 |-> RenameTo(A, [B EXCEPT !.base = "removal"])]
RenamedSweep == [s1 |-> RenameTo(A, B), s2 |-> Verdicts(A)]
Two == {"s1", "s2"}
================================================================================
