------------------------------- MODULE Answers -------------------------------
(***************************************************************************)
(* What the HTTP service promises about the requests it accepts: each is   *)
(* reported once or, when the service closes or dies, not at all; and a    *)
(* download path only ever changes from one whole content to another, in   *)
(* the very step that reports the request it was written for.              *)
(***************************************************************************)
CONSTANTS Tokens, Paths, NoPath

VARIABLES
    fate,       \* what has become of each request
    path,       \* where the answer of each is to go
    file        \* what each path holds: an answer, or what was there

vars == <<fate, path, file>>

Init == /\ fate = [t \in Tokens |-> "new"]
        /\ path = [t \in Tokens |-> NoPath]
        /\ file = [p \in Paths |-> "old"]

Are(ts, f) == [t \in Tokens |-> IF t \in ts THEN f ELSE fate[t]]
Accepted == {t \in Tokens : fate[t] = "accepted"}

Accept(t, p) ==
    /\ fate[t] = "new" /\ fate' = Are({t}, "accepted")
    /\ path' = [path EXCEPT ![t] = p]
    /\ UNCHANGED file

\* An answer in full reaches its path, or nothing does.
Report(t) ==
    /\ fate[t] = "accepted" /\ fate' = Are({t}, "reported")
    /\ \/ UNCHANGED file
       \/ path[t] # NoPath /\ file' = [file EXCEPT ![path[t]] = t]
    /\ UNCHANGED path

Drop == \E ts \in SUBSET Accepted :
            fate' = Are(ts, "dropped") /\ UNCHANGED <<path, file>>

Next == \/ Drop
        \/ \E t \in Tokens : Report(t) \/ \E p \in Paths \cup {NoPath} : Accept(t, p)

Spec == Init /\ [][Next]_vars
=============================================================================
