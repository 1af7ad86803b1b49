-------------------------- MODULE MCWorkflowLedger --------------------------
(* Two requests with the same key.                                          *)
EXTENDS WorkflowLedger

CONSTANTS w1, w2

TwoWorkers == {w1, w2}
=============================================================================
