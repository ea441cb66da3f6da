------------------------------ MODULE Delivery ------------------------------
(***************************************************************************)
(* What a rule of the signal-action middleware promises about the signals  *)
(* it receives: each is received once, in order, and then either acted on  *)
(* once or given up.  An event that was acted on is never taken up again.  *)
(***************************************************************************)
EXTENDS Naturals

CONSTANT MaxEvents      \* bound: signals received

VARIABLE fate           \* what has become of each event

Events == 1..MaxEvents
Fates == {"new", "held", "acted", "lost"}

Init == fate = [e \in Events |-> "new"]

Are(es, f) == [e \in Events |-> IF e \in es THEN f ELSE fate[e]]
Held == {e \in Events : fate[e] = "held"}

\* The next event comes; to make room, the rule may drop one it held.
Receive(e) ==
    /\ fate[e] = "new"
    /\ \A d \in 1..(e - 1) : fate[d] # "new"
    /\ \/ fate' = Are({e}, "held")
       \/ \E old \in Held : fate' = [Are({e}, "held") EXCEPT ![old] = "lost"]

Act(e) == fate[e] = "held" /\ fate' = Are({e}, "acted")

\* Overflow, a failure that is not retried, or the end of the rule.
GiveUp == \E es \in SUBSET Held : fate' = Are(es, "lost")

Next == GiveUp \/ \E e \in Events : Receive(e) \/ Act(e)

Spec == Init /\ [][Next]_fate
=============================================================================
