---------------------------- MODULE MCUnfinished ----------------------------
(***************************************************************************)
(* What others wait for and a crash may leave behind: workflow executions  *)
(* and pending approvals.  They share no rows, so the initial state picks  *)
(* the one that is at work, and the other rests.  The fairness is that of  *)
(* Approvals, while approvals are at work.                                 *)
(***************************************************************************)
EXTENDS WorkflowLedger

CONSTANTS a1, a2, s1, s2, s3, sweeper

ThreeSessions == {s1, s2, s3}

\* The constants and variables of Approvals; one action type, of yellow risk.
Approval == {a1, a2}
Sessions == {s1, s2}
Sweepers == {sweeper}
Contents == {"send"}
ActionOf == [c \in Contents |-> "sales.send_outreach"]
RiskOf   == [a \in {"sales.send_outreach"} |-> "yellow"]
TTL      == 1
MaxTime  == 2

VARIABLES status, content, expires, lock, session, now, granted, refused, executed

approvalVars == <<status, content, expires, lock, session, now, granted, refused, executed>>

Approvals == INSTANCE Approvals

VARIABLE subject \* the part at work

----------------------------------------------------------------------------
UnfinishedInit ==
    /\ subject \in {"approvals", "workflow"}
    /\ Approvals!Init /\ Init

UnfinishedVars == <<subject, approvalVars, vars>>

Approves(step) == subject = "approvals" /\ step /\ UNCHANGED <<subject, vars>>

Orchestrates(step) == subject = "workflow" /\ step /\ UNCHANGED <<subject, approvalVars>>

UnfinishedNext == Approves(Approvals!Next) \/ Orchestrates(Next)

UnfinishedFairness ==
    /\ WF_UnfinishedVars(Approves(Approvals!Tick))
    /\ \A s \in Sessions : SF_UnfinishedVars(Approves(Approvals!ResolveCommit(s)))
    /\ \A s \in Sweepers :
          /\ WF_UnfinishedVars(Approves(Approvals!SweepRead(s)))
          /\ SF_UnfinishedVars(Approves(Approvals!SweepCommit(s)))

UnfinishedSpec == UnfinishedInit /\ [][UnfinishedNext]_UnfinishedVars /\ UnfinishedFairness

----------------------------------------------------------------------------
\* No approval stays pending for ever: the owner resolves it or a sweep expires it
\* (approvals/service.py).
PendingEnds == Approvals!PendingEnds
=============================================================================
