----------------------------- MODULE AuditProgress -----------------------------
(***************************************************************************)
(* What a requester of audits may rely on, looking at the status and the   *)
(* report of each: an audit is asked for once, gets a report once, the     *)
(* report of its own batch, and keeps it until the audit is deleted.  Only *)
(* an audit without a report may fall back to `pending`, when its batch is *)
(* deleted from under it.                                                  *)
(***************************************************************************)
EXTENDS Naturals

CONSTANTS Audits, Batches

VARIABLE seen  \* of each audit the status, and the batch its report is from

Absent == [status |-> "none", report |-> 0]

Init == seen = [a \in Audits |-> Absent]

Change(a, from, to, report) ==
  /\ seen[a].status \in from
  /\ seen' = [seen EXCEPT ![a] = [status |-> to, report |-> report]]

Request(a) == \E to \in {"pending", "in_progress"} : Change(a, {"none"}, to, 0)
Start(a) == Change(a, {"pending"}, "in_progress", 0)

(* No two audits ever show the report of one batch.                        *)
Complete(a) ==
  \E b \in Batches : /\ \A c \in Audits : seen[c].report # b
                     /\ Change(a, {"in_progress"}, "complete", b)

Withdrawn == {a \in Audits : seen[a].status = "in_progress"}

(* A deletion of batches, or of audits, may concern several at once.       *)
Withdraw ==
  \E S \in SUBSET Withdrawn :
    seen' = [a \in Audits |-> IF a \in S THEN [status |-> "pending", report |-> 0] ELSE seen[a]]

Delete ==
  \E S \in SUBSET Audits :
    seen' = [a \in Audits |->
               IF a \in S /\ seen[a].status # "none" THEN [status |-> "deleted", report |-> 0]
                                                     ELSE seen[a]]

Next ==
  \/ \E a \in Audits : Request(a) \/ Start(a) \/ Complete(a)
  \/ Withdraw
  \/ Delete

Spec == Init /\ [][Next]_seen
================================================================================
