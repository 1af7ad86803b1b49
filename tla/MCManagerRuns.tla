--------------------------- MODULE MCManagerRuns ---------------------------
(* Two tasks of any kind share the run's budget of retries, so that each can *)
(* use a retry the budget gave the other.                                    *)
EXTENDS ManagerRuns
=============================================================================
