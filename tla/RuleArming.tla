----------------------------- MODULE RuleArming -----------------------------
(***************************************************************************)
(* The rules of the signal-action middleware (signal_action.py) and the    *)
(* subscriptions that arm them.                                            *)
(*                                                                         *)
(* _arm_rule() suspends while it looks for the rule's sources and again    *)
(* for each subscription it adds.  setup(), the rearm task and every       *)
(* register_rule() call run it, remove_rule() and teardown() run between,  *)
(* and setup and rearm walk the very dictionary the others change.         *)
(*                                                                         *)
(* A rule is an object, numbered as it is made: a name may be given to     *)
(* several, one after another or, as register_rule() tests the name long   *)
(* before it takes it, at the same time.                                   *)
(***************************************************************************)
EXTENDS Naturals, Sequences, FiniteSets

CONSTANTS
    Names,          \* names of rules
    Configured,     \* how many rules the configuration holds
    MaxRules,       \* bound: rules ever made
    Sources,        \* signal sources (friend, path, interface) to subscribe to
    Users           \* tasks that call register_rule()

ASSUME BoundAssumption == MaxRules \in Nat /\ Configured \in 0..MaxRules
ASSUME UserAssumption == {"setup", "rearm"} \cap Users = {}

VARIABLES
    up,             \* the sources there are
    rules,          \* the rules made so far: their names and persistent flags
    slot,           \* _rules: where the dictionary keeps each rule, 0 nowhere
    filled,         \* slots of the dictionary used so far
    subs,           \* rule.subscriptions: how many there are for each source
    active,         \* rule.active
    serving,        \* rules whose dispatcher task runs
    dispatcher,     \* _dispatcher_tasks: name -> rule, 0 for none
    task,           \* what setup(), the rearm task and each user's call do
    closed,         \* teardown() has run
    \* History of the run: nothing in the code reads or writes these.
    orphaned,       \* rules dropped or added where no later step drops them
    unserved,       \* rules listed while setup() was arming, after its dispatchers
    crowded,        \* rules that two tasks have armed at the same time
    undisturbed     \* since the last walk began nothing has changed or failed

dict == <<slot, filled>>
arms == <<subs, active>>
dispatch == <<serving, dispatcher, unserved>>
vars == <<up, rules, slot, filled, subs, active, serving, dispatcher, unserved,
          task, closed, orphaned, crowded, undisturbed>>

Rules == 1..MaxRules
Made == DOMAIN rules
Tasks == Users \cup {"setup", "rearm"}
NoSubs == [s \in Sources |-> 0]
Listed == {r \in Rules : slot[r] # 0}
Named(n) == {r \in Listed : rules[r].name = n}

\* A task works on one rule and has "todo" left to subscribe; one that walks
\* the dictionary stands at a slot and remembers the size it began with.
At(where) == [at |-> where, rule |-> 0, todo |-> {}, slot |-> 0, size |-> 0]
SetupDone == task["setup"].at = "done"

Arming == {"resolving", "subscribing"}
ArmedBy(r) == {t \in Tasks : task[t].at \in Arming /\ task[t].rule = r}

Init ==
    /\ up \in SUBSET Sources
    /\ rules \in [1..Configured -> [name: Names, persistent: BOOLEAN]]
    /\ \A r, q \in Made : rules[r].name = rules[q].name => r = q
    /\ slot = [r \in Rules |-> IF r \in Made THEN r ELSE 0]
    /\ filled = Configured
    /\ subs = [r \in Rules |-> NoSubs]
    /\ active = [r \in Rules |-> FALSE]
    /\ serving = {}
    /\ dispatcher = [n \in Names |-> 0]
    /\ task = [t \in Tasks |-> At(CASE t = "setup" -> "new"
                                    [] t = "rearm" -> "none"
                                    [] OTHER       -> "idle")]
    /\ closed = FALSE
    /\ orphaned = {} /\ unserved = {} /\ crowded = {} /\ undisturbed = FALSE

-----------------------------------------------------------------------------
\* Where a walk through _rules.values() goes after slot k, the rearm task past
\* the rules that do not persist.  A dictionary that has changed size raises.
WalkOn(t, k, size) ==
    LET ahead == {r \in Listed : /\ slot[r] > k
                                 /\ t = "rearm" => rules[r].persistent}
        next == CHOOSE r \in ahead : \A q \in ahead : slot[r] <= slot[q]
    IN IF Cardinality(Listed) # size THEN At("broken")
       ELSE IF ahead = {} THEN At(IF t = "rearm" THEN "waiting" ELSE "done")
       ELSE [at |-> "resolving", rule |-> next, todo |-> {},
             slot |-> slot[next], size |-> size]

\* The rearm task is created at the end of setup() if any rule persists, and
\* by a register_rule() of a persistent rule if there is none.
WithRearm(tasks, wanted) ==
    IF wanted /\ tasks["rearm"].at = "none"
    THEN [tasks EXCEPT !["rearm"] = At("created")] ELSE tasks

\* setup() or the rearm task goes on after slot k.
Walk(t, k, size) ==
    LET where == WalkOn(t, k, size) IN
    task' = WithRearm([task EXCEPT ![t] = where],
                      /\ t = "setup" /\ where.at = "done"
                      /\ \E r \in Listed : rules[r].persistent)

\* History: what two tasks arm at once, once this step is done.
Crowding ==
    crowded' = crowded \cup
        {r \in Rules : \E t, u \in Tasks :
            /\ t # u /\ task'[t].rule = r /\ task'[u].rule = r
            /\ task'[t].at \in Arming /\ task'[u].at \in Arming}

-----------------------------------------------------------------------------
(* The world: the friend set changes, and with it the sources, or not.     *)

\* The event wakes the rearm task if it waits; otherwise it will be cleared.
FriendChange ==
    /\ up' \in SUBSET Sources
    /\ IF task["rearm"].at = "waiting"
       THEN task' = [task EXCEPT !["rearm"] = At("woken")] /\ UNCHANGED undisturbed
       ELSE UNCHANGED task /\ undisturbed' = (undisturbed /\ up' = up)
    /\ UNCHANGED <<rules, dict, arms, dispatch, closed, orphaned, crowded>>

-----------------------------------------------------------------------------
(* setup(), _rearm_loop() and _rearm()                                     *)

\* A dispatcher for each rule, then _arm_all().
SetupStart ==
    /\ task["setup"].at = "new"
    /\ serving' = Listed
    /\ dispatcher' = [n \in Names |-> IF Named(n) = {} THEN 0
                                      ELSE CHOOSE r \in Named(n) : TRUE]
    /\ Walk("setup", 0, Cardinality(Listed))
    /\ undisturbed' = TRUE
    /\ Crowding
    /\ UNCHANGED <<up, rules, dict, arms, closed, orphaned, unserved>>

RearmWait ==
    /\ task["rearm"].at = "created"
    /\ task' = [task EXCEPT !["rearm"] = At("waiting")]
    /\ UNCHANGED <<up, rules, dict, arms, dispatch, closed, orphaned, crowded,
                   undisturbed>>

RearmStart ==
    /\ task["rearm"].at = "woken"
    /\ Walk("rearm", 0, Cardinality(Listed))
    /\ undisturbed' = TRUE
    /\ Crowding
    /\ UNCHANGED <<up, rules, dict, arms, dispatch, closed, orphaned>>

\* The rule's pending events have been retried.
RearmNext ==
    /\ task["rearm"].at = "retrying"
    /\ Walk("rearm", task["rearm"].slot, task["rearm"].size)
    /\ Crowding
    /\ UNCHANGED <<up, rules, dict, arms, dispatch, closed, orphaned, undisturbed>>

-----------------------------------------------------------------------------
(* _arm_rule()                                                             *)

\* Task t has armed its rule, whose subscriptions are now "held": status, then
\* whatever comes next in the task.
Armed(t, held) ==
    LET r == task[t].rule IN
    /\ subs' = [subs EXCEPT ![r] = held]
    /\ active' = [active EXCEPT ![r] = held # NoSubs]
    /\ CASE t = "setup" -> Walk(t, task[t].slot, task[t].size)
         [] t = "rearm" -> task' = [task EXCEPT ![t].at = "retrying"]
         [] OTHER       -> task' = WithRearm([task EXCEPT ![t] = At("idle")],
                                             rules[r].persistent)

\* Mutants of ArmResolved: a subscription is not looked for before it is added,
ArmResolvedAgain(t) ==
    /\ task[t].at = "resolving"
    /\ \E found \in SUBSET up :
          LET r == task[t].rule
              held == [s \in Sources |-> IF s \in found THEN subs[r][s] ELSE 0]
          IN /\ IF found = {}
                THEN Armed(t, held)
                ELSE /\ subs' = [subs EXCEPT ![r] = held]
                     /\ task' = [task EXCEPT ![t].at = "subscribing",
                                             ![t].todo = found]
                     /\ UNCHANGED active
             /\ undisturbed' = (undisturbed /\ found = up)
    /\ Crowding
    /\ UNCHANGED <<up, rules, dict, dispatch, closed, orphaned>>

\* or those to sources that have gone are kept.
ArmResolvedKeeps(t) ==
    /\ task[t].at = "resolving"
    /\ \E found \in SUBSET up :
          LET r == task[t].rule
              todo == {s \in found : subs[r][s] = 0}
          IN /\ IF todo = {}
                THEN Armed(t, subs[r])
                ELSE /\ task' = [task EXCEPT ![t].at = "subscribing",
                                             ![t].todo = todo]
                     /\ UNCHANGED arms
             /\ undisturbed' = (undisturbed /\ found = up)
    /\ Crowding
    /\ UNCHANGED <<up, rules, dict, dispatch, closed, orphaned>>

\* The sources are known, those that could be introspected: drop the
\* subscriptions to others, and list the sources that have none.
ArmResolved(t) ==
    /\ task[t].at = "resolving"
    /\ \E found \in SUBSET up :
          LET r == task[t].rule
              held == [s \in Sources |-> IF s \in found THEN subs[r][s] ELSE 0]
              todo == {s \in found : subs[r][s] = 0}
          IN /\ IF todo = {}
                THEN Armed(t, held)
                ELSE /\ subs' = [subs EXCEPT ![r] = held]
                     /\ task' = [task EXCEPT ![t].at = "subscribing",
                                             ![t].todo = todo]
                     /\ UNCHANGED active
             /\ undisturbed' = (undisturbed /\ found = up)
    /\ Crowding
    /\ UNCHANGED <<up, rules, dict, dispatch, closed, orphaned>>

\* The proxy for one source is there, or could not be had.
ArmSubscribed(t) ==
    /\ task[t].at = "subscribing"
    /\ \E s \in task[t].todo, ok \in BOOLEAN :
          LET r == task[t].rule
              held == IF ok THEN [subs[r] EXCEPT ![s] = @ + 1] ELSE subs[r]
          IN /\ IF task[t].todo = {s}
                THEN Armed(t, held)
                ELSE /\ subs' = [subs EXCEPT ![r] = held]
                     /\ task' = [task EXCEPT ![t].todo = @ \ {s}]
                     /\ UNCHANGED active
             /\ undisturbed' = (undisturbed /\ ok)
    /\ Crowding
    /\ UNCHANGED <<up, rules, dict, dispatch, closed, orphaned>>

-----------------------------------------------------------------------------
(* register_rule() and remove_rule()                                       *)

\* The name is free: make the rule and see whether it resolves.
Register(u, n, persists) ==
    /\ task[u].at = "idle" /\ ~closed
    /\ Named(n) = {}
    /\ Len(rules) < MaxRules
    /\ rules' = Append(rules, [name |-> n, persistent |-> persists])
    /\ task' = [task EXCEPT ![u] = [At("checking") EXCEPT !.rule = Len(rules) + 1]]
    /\ UNCHANGED <<up, dict, arms, dispatch, closed, orphaned, crowded,
                   undisturbed>>

\* It does not: the call returns False.
RegisterRefused(u) ==
    /\ task[u].at = "checking"
    /\ task' = [task EXCEPT ![u] = At("idle")]
    /\ UNCHANGED <<up, rules, dict, arms, dispatch, closed, orphaned, crowded,
                   undisturbed>>

\* Mutant of RegisterListed: the rules are a list, the name is not looked up.
RegisterAppended(u) ==
    LET r == task[u].rule IN
    /\ task[u].at = "checking"
    /\ slot' = [slot EXCEPT ![r] = filled + 1]
    /\ filled' = filled + 1
    /\ IF SetupDone
       THEN /\ serving' = serving \cup {r}
            /\ dispatcher' = [dispatcher EXCEPT ![rules[r].name] = r]
            /\ task' = [task EXCEPT ![u].at = "resolving"]
       ELSE /\ task' = [task EXCEPT ![u] = At("idle")]
            /\ UNCHANGED <<serving, dispatcher>>
    /\ undisturbed' = (undisturbed /\ SetupDone)
    /\ Crowding
    /\ UNCHANGED <<up, rules, arms, closed, orphaned, unserved>>

\* It does: _rules[name] = rule, which takes the slot of a rule that has got
\* the name meanwhile.  After setup() the rule is served and armed at once.
RegisterListed(u) ==
    LET r == task[u].rule
        n == rules[r].name
        old == Named(n)
    IN /\ task[u].at = "checking"
       /\ IF old = {}
          THEN /\ slot' = [slot EXCEPT ![r] = filled + 1]
               /\ filled' = filled + 1
          ELSE /\ slot' = [q \in Rules |-> CASE q = r -> slot[CHOOSE o \in old : TRUE]
                                             [] q \in old -> 0
                                             [] OTHER -> slot[q]]
               /\ UNCHANGED filled
       /\ orphaned' = orphaned \cup old
       /\ IF SetupDone
          THEN /\ serving' = serving \cup {r}
               /\ dispatcher' = [dispatcher EXCEPT ![n] = r]
               /\ task' = [task EXCEPT ![u].at = "resolving"]
          ELSE /\ task' = [task EXCEPT ![u] = At("idle")]
               /\ UNCHANGED <<serving, dispatcher>>
       /\ unserved' = IF task["setup"].at \in {"new", "done"} THEN unserved
                                                             ELSE unserved \cup {r}
       /\ undisturbed' = (undisturbed /\ SetupDone)
       /\ Crowding
       /\ UNCHANGED <<up, rules, arms, closed>>

\* Mutant of Remove: the dispatcher goes on.
RemoveUncancelled(r) ==
    /\ r \in Listed /\ ~closed
    /\ slot' = [slot EXCEPT ![r] = 0]
    /\ subs' = [subs EXCEPT ![r] = NoSubs]
    /\ active' = [active EXCEPT ![r] = FALSE]
    /\ dispatcher' = [dispatcher EXCEPT ![rules[r].name] = 0]
    /\ orphaned' = IF ArmedBy(r) = {} THEN orphaned ELSE orphaned \cup {r}
    /\ UNCHANGED <<up, rules, filled, serving, task, closed, unserved, crowded,
                   undisturbed>>

\* Unsubscribe, cancel the dispatcher the name stands for.
Remove(r) ==
    LET n == rules[r].name IN
    /\ r \in Listed /\ ~closed
    /\ slot' = [slot EXCEPT ![r] = 0]
    /\ subs' = [subs EXCEPT ![r] = NoSubs]
    /\ active' = [active EXCEPT ![r] = FALSE]
    /\ serving' = serving \ {dispatcher[n]}
    /\ dispatcher' = [dispatcher EXCEPT ![n] = 0]
    /\ orphaned' = IF ArmedBy(r) = {} THEN orphaned ELSE orphaned \cup {r}
    /\ UNCHANGED <<up, rules, filled, task, closed, unserved, crowded, undisturbed>>

\* The rearm task and every dispatcher are cancelled, every rule unsubscribed.
Teardown ==
    /\ task["setup"].at \in {"done", "broken"} /\ ~closed
    /\ closed' = TRUE
    /\ task' = [task EXCEPT !["rearm"] = At("none")]
    /\ serving' = serving \ {dispatcher[n] : n \in Names}
    /\ dispatcher' = [n \in Names |-> 0]
    /\ subs' = [r \in Rules |-> IF r \in Listed THEN NoSubs ELSE subs[r]]
    /\ active' = [r \in Rules |-> active[r] /\ r \notin Listed]
    /\ orphaned' = IF \A u \in Users : task[u].at = "idle" THEN orphaned ELSE Rules
    /\ undisturbed' = FALSE
    /\ UNCHANGED <<up, rules, dict, unserved, crowded>>

-----------------------------------------------------------------------------
Arm(t) == ArmResolved(t) \/ ArmSubscribed(t)

Call(u) == \/ \E n \in Names, persists \in BOOLEAN : Register(u, n, persists)
           \/ RegisterRefused(u) \/ RegisterListed(u)

Next == \/ FriendChange
        \/ SetupStart \/ RearmWait \/ RearmStart \/ RearmNext
        \/ \E t \in Tasks : Arm(t)
        \/ \E u \in Users : Call(u)
        \/ \E r \in Rules : Remove(r)
        \/ Teardown

Spec == Init /\ [][Next]_vars

-----------------------------------------------------------------------------
(* What makes arming correct.                                              *)

TaskType ==
    [at: {"new", "none", "idle", "created", "waiting", "woken", "checking",
          "resolving", "subscribing", "retrying", "done", "broken"},
     rule: 0..MaxRules, todo: SUBSET Sources, slot: 0..MaxRules,
     size: 0..MaxRules]

\* Every variable keeps its type, and no two rules share a slot or a name.
TypeOK ==
    /\ up \in SUBSET Sources
    /\ rules \in Seq([name: Names, persistent: BOOLEAN]) /\ Len(rules) <= MaxRules
    /\ slot \in [Rules -> 0..MaxRules] /\ filled \in 0..MaxRules
    /\ \A r, q \in Listed : slot[r] = slot[q] \/ rules[r].name = rules[q].name
                                => r = q
    /\ subs \in [Rules -> [Sources -> Nat]]
    /\ active \in [Rules -> BOOLEAN]
    /\ serving \in SUBSET Made
    /\ dispatcher \in [Names -> 0..MaxRules]
    /\ task \in [Tasks -> TaskType]
    /\ closed \in BOOLEAN
    /\ {orphaned, unserved, crowded} \subseteq SUBSET Rules
    /\ undisturbed \in BOOLEAN

\* get_rules() tells the truth: "active" is whether the rule is subscribed to
\* something, except while a task is still arming it or teardown() has
\* cancelled the task that armed it after its removal; and a signal reaches a
\* rule once: a source has two subscriptions only of a rule that two tasks
\* have armed at the same time.
SubscriptionsExact ==
    \A r \in Rules :
        /\ ArmedBy(r) = {} /\ (r \in Listed \/ ~closed) =>
               active[r] = (subs[r] # NoSubs)
        /\ r \notin crowded => \A s \in Sources : subs[r][s] <= 1

\* A rule removed has no subscription and no dispatcher left, unless it was
\* being armed or another rule took its name from it; nor has any rule after
\* teardown(), unless a register_rule() was still under way.  A rule that is
\* there has a dispatcher, whatever became of others of its name, unless it
\* was registered while setup() was arming, when nobody makes it one.
ServedExactly ==
    /\ \A r \in Made \ orphaned :
           r \notin Listed \/ closed => subs[r] = NoSubs /\ r \notin serving
    /\ SetupDone /\ ~closed => Listed \ unserved \subseteq serving

\* A walk that nothing disturbed has armed every persistent rule on exactly
\* the sources there are, whoever registered rules since.
RearmedExactly ==
    task["rearm"].at = "waiting" /\ undisturbed =>
        \A r \in Listed \ crowded :
            rules[r].persistent /\ ArmedBy(r) = {} =>
                {s \in Sources : subs[r][s] > 0} = up

\* Where the rearm task is, as far as wait_friend_changes() goes.
Watching == LET at == task["rearm"].at
            IN  IF at \in {"waiting", "woken"} THEN at ELSE "away"

W == INSTANCE FriendWatch WITH friends <- up, watch <- Watching

\* Of the friends the rearm task takes for granted what FriendWatch promises,
\* which is what DBusManager does (Discovery), and no more.
WatchRelied == W!Spec

-----------------------------------------------------------------------------
(* What the code and its documentation say and the code does not do.       *)

\* "re-arms automatically after peer restarts" (signal_action.md:164): no
\* register_rule() and no remove_rule() ends the task that does so.
RearmAlive == task["rearm"].at # "broken"
=============================================================================
