--------------------------- MODULE MCHttpRequests ---------------------------
(* HttpRequests on a small instance. *)
EXTENDS HttpRequests

CONSTANTS r1, r2, p

MCTokens == {r1, r2}
MCPaths == {p}
=============================================================================
