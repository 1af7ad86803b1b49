----------------------------- MODULE MCFollowUps -----------------------------
(* Two sessions on one lead with two follow-ups.                            *)
EXTENDS FollowUps

CONSTANTS w1, w2

MCWorkers == {w1, w2}
MCEvents == {"reply", "customer"}
=============================================================================
