------------------------------- MODULE Business -------------------------------
(***************************************************************************)
(* The parts of the business that share no rows in these models, one at a  *)
(* time: the initial state picks the part that is at work, and the others  *)
(* rest.                                                                   *)
(***************************************************************************)
EXTENDS OutboundEmail, Notifications, AgentRuns, Finance, Delivery, Scoring, Pipeline

VARIABLE subject \* the part at work

----------------------------------------------------------------------------
BusinessInit ==
    /\ subject \in {"email", "notices", "runs", "money", "delivery", "score", "pipeline"}
    /\ Init /\ NoticeInit /\ AgentRunsInit /\ FinanceInit /\ DeliveryInit /\ ScoringInit
    /\ PipelineInit
    /\ subject # "notices" => skipInfo
    /\ subject # "runs" => companies = {}

Mails ==
    /\ subject = "email" /\ Next
    /\ UNCHANGED <<noticeVars, agentRunsVars, financeVars, deliveryVars, facts, pipelineVars>>

Notifies ==
    /\ subject = "notices" /\ NoticeNext
    /\ UNCHANGED <<vars, agentRunsVars, financeVars, deliveryVars, facts, pipelineVars>>

RunsAgents ==
    /\ subject = "runs" /\ AgentRunsNext
    /\ UNCHANGED <<vars, noticeVars, financeVars, deliveryVars, facts, pipelineVars>>

KeepsBooks ==
    /\ subject = "money" /\ FinanceNext
    /\ UNCHANGED <<vars, noticeVars, agentRunsVars, deliveryVars, facts, pipelineVars>>

Delivers ==
    /\ subject = "delivery" /\ DeliveryNext
    /\ UNCHANGED <<vars, noticeVars, agentRunsVars, financeVars, facts, pipelineVars>>

Scores ==
    /\ subject = "score" /\ ScoringNext
    /\ UNCHANGED <<vars, noticeVars, agentRunsVars, financeVars, deliveryVars, pipelineVars>>

Manages ==
    /\ subject = "pipeline" /\ PipelineNext
    /\ UNCHANGED <<vars, noticeVars, agentRunsVars, financeVars, deliveryVars, facts>>

BusinessNext ==
    /\ Mails \/ Notifies \/ RunsAgents \/ KeepsBooks \/ Delivers \/ Scores \/ Manages
    /\ UNCHANGED subject

BusinessVars == <<subject, vars, noticeVars, agentRunsVars, financeVars, deliveryVars, facts,
                  pipelineVars>>

BusinessSpec == BusinessInit /\ [][BusinessNext]_BusinessVars

----------------------------------------------------------------------------
\* Type invariant of the part at work: every variable holds a value of its type.
BusinessTypeOK ==
    /\ subject = "email" => TypeOK
    /\ subject = "notices" => NoticeTypeOK
    /\ subject = "runs" => AgentRunsTypeOK
    /\ subject = "money" => FinanceTypeOK
    /\ subject = "delivery" => DeliveryTypeOK
    /\ subject = "score" => ScoringTypeOK
    /\ subject = "pipeline" => PipelineTypeOK

\* The limits of a day that are checked before the work and counted after it (companies
\* and audits, expenses) are passed by no more than the concurrent sessions had in hand.
LimitsOvershootBounded ==
    /\ DayOvershootBounded
    /\ SpendOvershootBounded
=============================================================================
