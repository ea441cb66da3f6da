---------------------------- MODULE MCRuleArming ----------------------------
(* RuleArming on a small instance. *)
EXTENDS RuleArming, TLC

CONSTANTS a, b, x, u1, u2

MCNames == {a, b}
MCOneSource == {x}
MCUsers == {u1, u2}

\* Names are interchangeable, and so are users.
MCSymmetry == Permutations(MCNames) \cup Permutations(MCUsers)
=============================================================================
