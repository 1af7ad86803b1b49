-------------------------- MODULE ApprovalLifecycle --------------------------
(***************************************************************************)
(* What approvals promise, without sessions, locks, clocks or payloads: an *)
(* approval is requested once, decided at most once and only while it is   *)
(* open, and an action that needs one is performed on an approved one.     *)
(***************************************************************************)
CONSTANTS
    Approval,
    NoApproval

VARIABLES
    phase,     \* "absent", "open" or "closed"
    decision,  \* what the owner decided, or "none"
    acted      \* the approval the latest action was performed on, if it needed one

vars == <<phase, decision, acted>>

Init ==
    /\ phase = [a \in Approval |-> "absent"]
    /\ decision = [a \in Approval |-> "none"]
    /\ acted = NoApproval

Open == {a \in Approval : phase[a] = "open"}

\* A request opens an approval, and may close others that are overdue.
Request(a, overdue) ==
    /\ phase[a] = "absent"
    /\ overdue \subseteq Open
    /\ phase' = [b \in Approval |-> IF b = a THEN "open"
                                    ELSE IF b \in overdue THEN "closed"
                                    ELSE phase[b]]
    /\ UNCHANGED <<decision, acted>>

Close(overdue) ==
    /\ overdue \subseteq Open
    /\ phase' = [b \in Approval |-> IF b \in overdue THEN "closed" ELSE phase[b]]
    /\ UNCHANGED <<decision, acted>>

Decide(a, outcome) ==
    /\ phase[a] = "open"
    /\ decision[a] = "none"
    /\ phase' = [phase EXCEPT ![a] = "closed"]
    /\ decision' = [decision EXCEPT ![a] = outcome]
    /\ UNCHANGED acted

\* An action that needs an approval, and one that needs none.
Act(a) ==
    /\ decision[a] = "approved"
    /\ acted' = a
    /\ UNCHANGED <<phase, decision>>

ActFreely ==
    /\ acted' = NoApproval
    /\ UNCHANGED <<phase, decision>>

Next ==
    \/ \E a \in Approval, overdue \in SUBSET Approval : Request(a, overdue)
    \/ \E overdue \in SUBSET Approval : Close(overdue)
    \/ \E a \in Approval, outcome \in {"approved", "rejected"} : Decide(a, outcome)
    \/ \E a \in Approval : Act(a)
    \/ ActFreely

Spec == Init /\ [][Next]_vars
=============================================================================
