---------------------------- MODULE BatchLifecycle ----------------------------
(***************************************************************************)
(* What the pipeline promises about a row of `batches`: it is created      *)
(* pending, submitted once, follows Anthropic forwards, is processed only  *)
(* from `ended` and at most once, and is never revived after its deletion. *)
(***************************************************************************)
EXTENDS BatchStatus

CONSTANT Batches

VARIABLE status

Init == status = [b \in Batches |-> "unused"]

(* The statuses Anthropic may report for a row next.                       *)
Ahead(s) == CASE s = "submitted" -> {"in_progress", "canceling", "ended"}
              [] s = "in_progress" -> {"canceling", "ended"}
              [] s = "canceling" -> {"ended"}
              [] OTHER -> {}

(* Some rows, all of them in a status of From, move to the status To.      *)
Move(From, To) ==
  \E S \in SUBSET Batches :
     /\ \A b \in S : status[b] \in From
     /\ status' = [b \in Batches |-> IF b \in S THEN To ELSE status[b]]

Create == Move({"unused"}, "pending_submit")

Submit == Move({"pending_submit"}, "submitted")

(* One poll may bring news of several rows.                                *)
Follow == \E S \in SUBSET Batches : \E news \in [S -> RemoteStatuses] :
             /\ \A b \in S : news[b] \in Ahead(status[b])
             /\ status' = [b \in Batches |-> IF b \in S THEN news[b] ELSE status[b]]

Apply == Move({"ended"}, "processed")

Delete == Move(BatchStatuses, "deleted")

Next == Create \/ Submit \/ Follow \/ Apply \/ Delete

Spec == Init /\ [][Next]_status
================================================================================
