----------------------------- MODULE FriendWatch -----------------------------
(***************************************************************************)
(* What wait_friend_changes() promises to whoever calls it again and again *)
(* and looks at the friends in between: DBusManager keeps the promise      *)
(* (Discovery), and the rearm task relies on it (RuleArming).              *)
(*                                                                         *)
(* A caller that waits is woken by the very step that changes the friends; *)
(* nothing else does, though a wakeup may come without a change.  What     *)
(* changes while it is away it is not told of.                             *)
(***************************************************************************)
VARIABLES
    friends,    \* what there is to look at
    watch       \* the caller is away, waits, or is woken and has yet to run

vars == <<friends, watch>>

Init == watch = "away"

\* The friends become others, or may have: who waits is woken.
Change == watch' = IF watch = "waiting" THEN "woken" ELSE watch

Listen == watch # "waiting" /\ watch' = "waiting" /\ UNCHANGED friends

\* Woken, the caller goes to look; or it is cancelled.
Leave == watch' = "away" /\ UNCHANGED friends

Next == Change \/ Listen \/ Leave

Spec == Init /\ [][Next]_vars
=============================================================================
