----------------------------- MODULE MCActionCards -----------------------------
(* A small instance of ActionCards for TLC: one card of several actions.    *)
EXTENDS ActionCards

ThreeActions == 1..3

=============================================================================
