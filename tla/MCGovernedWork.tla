--------------------------- MODULE MCGovernedWork ---------------------------
(* Two overlapping owner requests and one governed code path.               *)
EXTENDS GovernedWork, TLC

CONSTANTS s1, s2, w1

MCSessions == {s1, s2}
MCWorkers == {w1}
MCToggled == {"ai_operations", "outbound"}
MCSymmetry == Permutations(MCSessions)
=============================================================================
