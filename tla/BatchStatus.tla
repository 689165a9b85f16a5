------------------------------ MODULE BatchStatus ------------------------------
(***************************************************************************)
(* The status vocabulary of a row of the table magic_boto.batches, shared  *)
(* by every pipeline that sends work to the Anthropic Batch API            *)
(* (tools_api/app/models/sweep_status.py).                                 *)
(***************************************************************************)
EXTENDS Naturals, Sequences

(* The lifecycle order the code compares statuses with.                    *)
PipelineOrder ==
  <<"pending_submit", "submitted", "in_progress", "canceling", "ended",
    "processed", "errored", "expired", "canceled">>

BatchStatuses ==
  {"pending_submit", "submitted", "in_progress", "canceling", "ended",
   "processed", "errored", "expired", "canceled"}

TerminalStatusesUnprocessed ==  \* mutant: processed rows are polled again
  {"ended", "errored", "expired", "canceled"}

TerminalStatuses == {"ended", "processed", "errored", "expired", "canceled"}

ProcessableStatuses == {"ended"}

FailedStatuses == {"errored", "expired", "canceled"}

(* batch_statuses_at_or_before: the statuses a deletion with this ceiling   *)
(* takes.                                                                   *)
AtOrBefore(ceiling) ==
  {PipelineOrder[i] : i \in {j \in 1..Len(PipelineOrder) :
                               \E k \in j..Len(PipelineOrder) :
                                  PipelineOrder[k] = ceiling}}

(* The three values the remote API reports as processing_status.           *)
RemoteStatuses == {"in_progress", "canceling", "ended"}
================================================================================
