------------------------ MODULE ApprovalsRefinement ------------------------
(***************************************************************************)
(* The approvals of Approvals, seen as the lifecycle of ApprovalLifecycle. *)
(* The phase follows the status; the decision is the owner's first commit. *)
(***************************************************************************)
EXTENDS Approvals

PhaseOf(st) == IF st = "absent" THEN "absent" ELSE IF st = "pending" THEN "open" ELSE "closed"

phaseBar == [a \in Approval |-> PhaseOf(status[a])]

decisionBar == [a \in Approval |-> IF a \in granted THEN "approved"
                                   ELSE IF a \in refused THEN "rejected"
                                   ELSE "none"]

\* The latest action, when the policy asks for an approval of it.
NeedsApproval(c) == RiskOf[ActionOf[c]] = "yellow"

actedBar == IF executed.content = NoContent THEN NoApproval
            ELSE IF NeedsApproval(executed.content) THEN executed.approval
            ELSE NoApproval

Lifecycle == INSTANCE ApprovalLifecycle
    WITH phase <- phaseBar, decision <- decisionBar, acted <- actedBar

\* Concurrent requests, sweeps, gates, crashes and the owner's racing decisions
\* implement the lifecycle: every commit is one step of it, or none.
ImplementsLifecycle == Lifecycle!Spec
=============================================================================
