----------------------------- MODULE SweepCoverage -----------------------------
(***************************************************************************)
(* What a tag's sweeps promise about every card: it waits from the moment  *)
(* it is in the catalog, it is sent to the model, and it comes back judged *)
(* or failed.  A judged card is not sent again; a failed one is not given  *)
(* up without being sent again.  A waiting card goes behind the epoch      *)
(* without having been sent only if it was outside the tag's filter when   *)
(* the run that completed the sweep read it.  Only deleting the tag's      *)
(* history makes a card wait again, or leaves it behind the epoch with no  *)
(* record of its batch.                                                    *)
(***************************************************************************)
CONSTANT Cards

VARIABLES
  coverage,  \* the stage of each card
  filter,    \* the cards the tag asks for
  read       \* the filters that runs have read, and may complete a sweep by

vars == <<coverage, filter, read>>

Stages == {"outside", "waiting", "sent", "judged", "failed", "behind"}

TypeOK ==
  /\ coverage \in [Cards -> Stages]
  /\ filter \subseteq Cards
  /\ read \subseteq SUBSET Cards

Init ==
  /\ coverage = [c \in Cards |-> "outside"]
  /\ filter \subseteq Cards
  /\ read = {}

(* Stages a card may be in after it was in stage s; a card may also stay.  *)
After(s) ==
  CASE s = "outside" -> {"waiting"}
    [] s = "waiting" -> {"sent"}
    [] s = "failed" -> {"sent"}
    [] s = "sent" -> {"judged", "failed"}
    [] s \in {"judged", "behind"} -> {}

(* One transaction of the system may move several cards.                   *)
Move == \A c \in Cards : coverage'[c] \in {coverage[c]} \cup After(coverage[c])

(* A run that has read the filter F completes the sweep.                   *)
Complete(F) ==
  \A c \in Cards :
    \/ coverage'[c] \in {coverage[c]} \cup After(coverage[c])
    \/ c \notin F /\ coverage[c] = "waiting" /\ coverage'[c] = "behind"

(* Deleted history.                                                        *)
Forget == \A c \in Cards :
            \/ coverage'[c] = coverage[c]
            \/ coverage[c] # "outside" /\ coverage'[c] = "waiting"
            \/ coverage[c] \in {"sent", "judged", "failed"} /\ coverage'[c] = "behind"

Next ==
  /\ TypeOK'
  /\ read' \subseteq read \cup {filter}
  /\ Move \/ Forget \/ \E F \in read : Complete(F)

Spec == Init /\ [][Next]_vars
================================================================================
