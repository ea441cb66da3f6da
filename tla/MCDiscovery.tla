----------------------------- MODULE MCDiscovery -----------------------------
(* Discovery on a small instance, and the plausible bugs its properties find. *)
EXTENDS Discovery

CONSTANTS n1, n2, s1, s2, c1, c2, w

MCNames == {n1, n2}
MCOneName == {n1}
MCScanner == {s1}
MCScanners == {s1, s2}
MCCaller == {c1}
MCCallers == {c1, c2}
=============================================================================
