--------------------------------- MODULE SetShelf ------------------------------
(***************************************************************************)
(* What the ingest promises about the catalog: a set is there as a whole   *)
(* published version or not at all, whatever fails and whoever ingests it  *)
(* at the same time; and no version is put there that MTGJSON was still    *)
(* adding cards to, because a set that is there is not looked at again.    *)
(***************************************************************************)
EXTENDS Integers, Sequences

CONSTANTS Sets, Published

VARIABLES
  mtgjson,  \* the version of each set MTGJSON publishes; 0 stands for none
  shelf     \* the version of each set in the catalog; 0 stands for none

Init ==
  /\ mtgjson = [s \in Sets |-> 0]
  /\ shelf = [s \in Sets |-> 0]

(* MTGJSON rebuilds its files, all of them or some.                        *)
Publish ==
  /\ \A s \in Sets : mtgjson'[s] \in mtgjson[s]..Len(Published[s])
  /\ UNCHANGED shelf

(* Not always the last version: a slow ingest may be overtaken.            *)
Ingest ==
  /\ UNCHANGED mtgjson
  /\ \E s \in Sets :
       /\ shelf'[s] \in {v \in 1..mtgjson[s] : ~Published[s][v].preview}
       /\ \A t \in Sets \ {s} : shelf'[t] = shelf[t]

Next == Publish \/ Ingest

Spec == Init /\ [][Next]_<<mtgjson, shelf>>
================================================================================
