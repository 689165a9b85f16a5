------------------------------ MODULE MCMtgjsonFetch ---------------------------
(* Instances of MtgjsonFetch for TLC.                                      *)
EXTENDS MtgjsonFetch, TLC

Raw(u, p, sd, w) == [uuid |-> u, printing |-> p, side |-> sd, sound |-> TRUE, words |-> w]
File(preview, cards) == [preview |-> preview, cards |-> cards]

(* Set 1 is previewed with one face, published with two and a third that   *)
(* is skipped, and revised; a card of set 2 lacks its oracle id at first.  *)
MCPublished ==
  << << File(TRUE, << Raw("u1", "p1", "a", {}) >>),
        File(FALSE, << Raw("u1", "p1", "a", {}), Raw("u3", "p2", "c", {}), Raw("u2", "p1", "b", {}) >>),
        File(FALSE, << Raw("u1", "p1", "a", {"fly"}), Raw("u2", "p1", "b", {}) >>) >>,
     << File(TRUE, << >>),
        File(FALSE, << Raw("u3", "p2", "", {}), [Raw("u4", "p3", "", {}) EXCEPT !.sound = FALSE] >>),
        File(FALSE, << Raw("u3", "p2", "", {}) >>) >> >>

(* The last version of set 1 has its faces the other way round, with their *)
(* uuids: Published <- MCSwapped in FetchJobs.cfg.                         *)
MCSwapped ==
  << << MCPublished[1][1], MCPublished[1][2],
        File(FALSE, << Raw("u2", "p1", "a", {}), Raw("u1", "p1", "b", {"fly"}) >>) >>,
     MCPublished[2] >>

ASSUME MCFiles == Published # MCSwapped => FilesAreCards /\ PreviewsEnd /\ NoneIsEmpty /\ UuidsStay
================================================================================
