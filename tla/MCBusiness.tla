----------------------------- MODULE MCBusiness -----------------------------
(***************************************************************************)
(* The parts of the business, with the same sessions and keys in every     *)
(* part, so that one symmetry set serves them all.                         *)
(***************************************************************************)
EXTENDS Business, TLC

CONSTANTS s1, s2, k1, k2, k3, x1, x2, urgent, income, month, company

TwoSessions == {s1, s2}
ThreeKeys   == {k1, k2, k3}
TwoKeys     == {k1, k2}
ThreeThings == {x1, x2, urgent}
NewsAndAlarm == {x1, urgent}
News        == {x1}
OneIncome   == {income}
OneMonth    == {month}
OneCompany  == {company}

SameLead   == [o \in TwoKeys |-> "lead1"]
\* Two expenses, a credit, and revenue that is dated earlier; no two sums of them are as
\* near as the cents they may be rounded by.
Amounts    == [k \in ThreeKeys \cup OneIncome |-> IF k = income THEN 29
                                                 ELSE IF k = k3 THEN -5 ELSE 11]
Dates      == [k \in ThreeKeys \cup OneIncome |-> IF k = income THEN "before" ELSE "today"]
LastWeek   == [costs |-> 101, revenue |-> 203]
TwoTasks   == {"kickoff", "handoff"}
AfterKickoff == [t \in TwoTasks |-> IF t = "handoff" THEN {"kickoff"} ELSE {}]
HandoffOnly  == {"handoff"}

MCSymmetry == Permutations(TwoSessions) \cup Permutations(TwoKeys)
=============================================================================
