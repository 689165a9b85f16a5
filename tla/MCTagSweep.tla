------------------------------- MODULE MCTagSweep ------------------------------
(* Instances of TagSweep for TLC.                                          *)
EXTENDS TagSweep, TLC

(* The tag asks for every card, or for the cards of one type.              *)
AllCards == {Cards}

AllOrOne == {Cards} \cup {{c} : c \in Cards}

(* Cards, rows and keys of sweeps are interchangeable.                     *)
Symmetry == Permutations(Cards) \cup Permutations(Batches) \cup Permutations(Sweeps)
================================================================================
