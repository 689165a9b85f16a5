------------------------------- MODULE MCTagAudit -------------------------------
(* Instances of TagAudit for TLC.                                          *)
EXTENDS TagAudit, TLC
================================================================================
