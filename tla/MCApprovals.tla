---------------------------- MODULE MCApprovals ----------------------------
(* Two approval rows; a send and another payload of the same action, a      *)
(* delivery action and a red one.                                           *)
EXTENDS ApprovalsRefinement, TLC

CONSTANTS a1, a2, s1, s2, w1

MCApproval == {a1, a2}
MCSessions == {s1, s2}
MCSweepers == {w1}
MCSymmetry == Permutations(MCApproval) \cup Permutations(MCSessions)

MCActionOf ==
    [send |-> "sales.send_outreach", send_changed |-> "sales.send_outreach",
     deliver |-> "delivery.execute_sensitive_task", transfer |-> "finance.money_transfer"]
MCContents == DOMAIN MCActionOf
MCRiskOf == [x \in {MCActionOf[c] : c \in MCContents} |->
    IF x = "finance.money_transfer" THEN "red" ELSE "yellow"]
=============================================================================
