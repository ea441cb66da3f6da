-------------------------- MODULE RuleArming_proof --------------------------
(***************************************************************************)
(* Proofs about RuleArming for any names, sources, users and number of     *)
(* rules: that the slots of the dictionary suffice and are not shared, that *)
(* "active" and the subscriptions agree, that a removed rule is silent, and *)
(* that a walk which nothing disturbed leaves every rule armed.            *)
(***************************************************************************)
EXTENDS RuleArming, FiniteSetTheorems, SequenceTheorems, WellFoundedInduction, TLAPS

-----------------------------------------------------------------------------
(* The inductive invariant.                                                *)

Where(t) ==
    CASE t = "setup" -> {"new", "resolving", "subscribing", "done", "broken"}
      [] t = "rearm" -> {"none", "created", "waiting", "woken", "resolving",
                         "subscribing", "retrying", "broken"}
      [] OTHER       -> {"idle", "checking", "resolving", "subscribing"}

\* Each task does what its code does.  Until setup() is done nobody else arms.
Places ==
    /\ \A t \in Tasks : task[t].at \in Where(t)
    /\ task["setup"].at # "done" =>
           /\ task["rearm"].at = "none"
           /\ \A u \in Users : task[u].at \in {"idle", "checking"}

\* A rule that is not made yet is nowhere; one that register_rule() is still
\* checking is with that call alone.
Unlisted(r) == slot[r] = 0 /\ r \notin serving /\ subs[r] = NoSubs /\ ~active[r]

Unused ==
    /\ \A r \in Rules \ Made : Unlisted(r)
    /\ \A t \in Tasks :
           /\ task[t].rule # 0 => task[t].rule \in Made
           /\ task[t].at \in Arming => task[t].rule # 0
           /\ task[t].at = "checking" =>
                  /\ task[t].rule # 0 /\ Unlisted(task[t].rule)
                  /\ \A v \in Tasks \ {t} : task[v].rule # task[t].rule

\* Every slot in use and every call that may still take one has its own rule.
Checking == {u \in Tasks : task[u].at = "checking"}

Room ==
    /\ IsFiniteSet(Checking)
    /\ filled + Cardinality(Checking) <= Len(rules)
    /\ \A r \in Rules : slot[r] <= filled

\* A walk stands where the rule it arms is kept, while that is kept at all.
Stands ==
    \A t \in {"setup", "rearm"} :
        task[t].at \in Arming /\ task[t].rule \in Listed =>
            slot[task[t].rule] = task[t].slot

\* A rule that two tasks arm is known to be one; any other has no subscription
\* yet to the sources that its task has left to subscribe to.
Crowds ==
    \A r \in Rules \ crowded : \A t \in ArmedBy(r) :
        /\ ArmedBy(r) = {t}
        /\ task[t].at = "subscribing" => \A s \in task[t].todo : subs[r][s] = 0

\* A rule that nobody lost is silent once it is gone, and while it is there its
\* name leads to its dispatcher.
Silence ==
    \A r \in Rules \ orphaned :
        /\ r \notin Listed => ArmedBy(r) = {} /\ subs[r] = NoSubs /\ r \notin serving
        /\ r \in serving => dispatcher[rules[r].name] = r

\* After teardown() everything is quiet, unless a register_rule() is under way.
Ended ==
    closed => \/ orphaned = Rules
              \/ /\ \A u \in Users : task[u].at = "idle"
                 /\ task["rearm"].at = "none" /\ task["setup"].at \in {"done", "broken"}
                 /\ \A r \in Rules \ orphaned : subs[r] = NoSubs /\ r \notin serving

\* The walk, of setup() or of the rearm task, has come past the slot of r.
Reached(r) ==
    \/ /\ task["setup"].at \in Arming
       /\ slot[r] <= task["setup"].slot
    \/ /\ task["setup"].at = "done"
       /\ \/ task["rearm"].at \in {"none", "created", "waiting"}
          \/ /\ task["rearm"].at \in Arming \cup {"retrying"}
             /\ slot[r] <= task["rearm"].slot

On(r) == {s \in Sources : subs[r][s] > 0}

\* A rule the walk has come past is subscribed to the sources there are, or
\* will be once the task that arms it is done.
Tracked ==
    undisturbed =>
        \A r \in Listed \ crowded :
            rules[r].persistent /\ Reached(r) =>
                /\ ArmedBy(r) = {} => On(r) = up
                /\ \A t \in ArmedBy(r) :
                       task[t].at = "subscribing" => On(r) \cup task[t].todo = up

IInv == /\ TypeOK /\ Places /\ Unused /\ Room /\ Stands /\ Crowds
        /\ SubscriptionsExact /\ Silence /\ Ended /\ Tracked

-----------------------------------------------------------------------------
(* What the invariant says at once.                                        *)

LEMMA TheTasks == {"setup", "rearm"} \subseteq Tasks /\ Tasks \ {"setup", "rearm"} = Users
BY UserAssumption DEF Tasks

LEMMA Bounds == MaxRules \in Nat /\ Rules \subseteq Nat \ {0} /\ 0 \notin Rules
BY BoundAssumption DEF Rules

LEMMA AtType ==
    ASSUME NEW where \in {"new", "none", "idle", "created", "waiting", "woken", "checking",
                          "resolving", "subscribing", "retrying", "done", "broken"}
    PROVE  At(where) \in TaskType /\ At(where).at = where /\ At(where).rule = 0
BY Bounds DEF At, TaskType

LEMMA MadeSoFar ==
    ASSUME TypeOK
    PROVE  /\ Len(rules) \in 0 .. MaxRules /\ Made = 1 .. Len(rules) /\ Made \subseteq Rules
           /\ \A r \in Made : rules[r].name \in Names /\ rules[r].persistent \in BOOLEAN
<1>1. rules \in Seq([name : Names, persistent : BOOLEAN]) /\ Len(rules) <= MaxRules
  BY DEF TypeOK
<1>2. Len(rules) \in Nat /\ DOMAIN rules = 1 .. Len(rules)
  BY <1>1
<1>3. \A r \in 1 .. Len(rules) : rules[r] \in [name : Names, persistent : BOOLEAN]
  BY <1>1, ElementOfSeq
<1> QED
  BY <1>1, <1>2, <1>3, Bounds DEF Made, Rules

LEMMA ListedFinite ==
    ASSUME TypeOK
    PROVE  /\ Listed \subseteq Rules /\ Cardinality(Listed) \in 0 .. MaxRules
           /\ \A r \in Rules : r \in Listed <=> slot[r] # 0
<1>1. IsFiniteSet(Rules) /\ Cardinality(Rules) = MaxRules
  <2>1. /\ IsFiniteSet(1 .. MaxRules)
        /\ Cardinality(1 .. MaxRules) = IF 1 > MaxRules THEN 0 ELSE MaxRules - 1 + 1
    BY Bounds, FS_Interval
  <2> QED
    BY <2>1, Bounds DEF Rules
<1>2. Listed \subseteq Rules
  BY DEF Listed
<1>3. /\ IsFiniteSet(Listed) /\ Cardinality(Listed) <= Cardinality(Rules)
  BY <1>1, <1>2, FS_Subset
<1>4. Cardinality(Listed) \in Nat
  BY <1>3, FS_CardinalityType
<1> QED
  BY <1>1, <1>2, <1>3, <1>4, Bounds DEF Listed

LEMMA ListedMade ==
    ASSUME TypeOK, Unused
    PROVE  Listed \subseteq Made
BY ListedFinite DEF Unused, Unlisted

\* A set of rules has one in the lowest slot.
LEMMA Lowest ==
    ASSUME TypeOK, NEW S, S \subseteq Rules, S # {}
    PROVE  \E r \in S : \A q \in S : slot[r] <= slot[q]
<1> DEFINE T == {slot[r] : r \in S}
<1>1. \A r \in S : slot[r] \in Nat
  BY Bounds DEF TypeOK
<1>2. T \subseteq Nat /\ T # {}
  BY <1>1
<1>3. PICK x \in T : \A y \in T : ~(<<y, x>> \in OpToRel(<, Nat))
  <2> HIDE DEF T
  <2> QED
    BY <1>2, WFMin, NatLessThanWellFounded, Zenon
<1>4. \A y \in T : ~(y < x)
  BY <1>2, <1>3 DEF OpToRel
<1>5. PICK r \in S : x = slot[r]
  OBVIOUS
<1>6. ASSUME NEW q \in S PROVE slot[r] <= slot[q]
  <2>1. slot[q] \in T
    OBVIOUS
  <2> QED
    BY <1>1, <1>4, <1>5, <2>1
<1> QED
  BY <1>6

\* Where a walk gets to from slot k: nothing it must visit is left behind.
LEMMA WalkedOn ==
    ASSUME TypeOK, NEW t \in {"setup", "rearm"}, NEW k \in 0 .. MaxRules,
           NEW size \in 0 .. MaxRules
    PROVE  LET w == WalkOn(t, k, size) IN
           /\ w \in TaskType
           /\ w.at \in {"broken", "resolving", IF t = "rearm" THEN "waiting" ELSE "done"}
           /\ w.at # "resolving" => w.rule = 0
           /\ w.at = "resolving" => w.rule \in Listed /\ w.slot = slot[w.rule]
           /\ \A q \in Listed : (t = "rearm" => rules[q].persistent) /\ slot[q] > k =>
                  \/ w.at = "broken"
                  \/ w.at = "resolving" /\ (q = w.rule \/ slot[q] > w.slot)
<1> DEFINE w == WalkOn(t, k, size)
           ahead == {r \in Listed : slot[r] > k /\ (t = "rearm" => rules[r].persistent)}
           next == CHOOSE r \in ahead : \A q \in ahead : slot[r] <= slot[q]
           there == [at |-> "resolving", rule |-> next, todo |-> {},
                     slot |-> slot[next], size |-> size]
<1>0. w = IF Cardinality(Listed) # size THEN At("broken")
          ELSE IF ahead = {} THEN At(IF t = "rearm" THEN "waiting" ELSE "done")
          ELSE there
  BY DEF WalkOn
<1>1. CASE Cardinality(Listed) # size
  BY <1>0, <1>1, AtType
<1>2. CASE Cardinality(Listed) = size /\ ahead = {}
  <2>1. w = At(IF t = "rearm" THEN "waiting" ELSE "done")
    BY <1>0, <1>2
  <2>2. \A q \in Listed : ~((t = "rearm" => rules[q].persistent) /\ slot[q] > k)
    BY <1>2
  <2> HIDE DEF w, ahead
  <2> QED
    BY <2>1, <2>2, AtType DEF w
<1>3. CASE Cardinality(Listed) = size /\ ahead # {}
  <2>1. w = there
    BY <1>0, <1>3
  <2>2. next \in ahead /\ \A q \in ahead : slot[next] <= slot[q]
    <3>1. ahead \subseteq Rules
      BY ListedFinite
    <3>2. \E r \in ahead : \A q \in ahead : slot[r] <= slot[q]
      <4> HIDE DEF ahead
      <4> QED
        BY <1>3, <3>1, Lowest, Zenon
    <3> QED
      BY <3>2
  <2>3. next \in Listed /\ next \in Rules /\ slot[next] \in 0 .. MaxRules
    BY <2>2, ListedFinite DEF TypeOK
  <2>4. \A q \in ahead : q # next => slot[q] > slot[next]
    <3>0. \A q \in Listed : q \in Rules
      BY DEF Listed
    <3>1. \A q \in ahead : q \in Listed /\ slot[q] \in Nat
      <4>1. \A q \in Rules : slot[q] \in Nat
        BY Bounds DEF TypeOK
      <4> QED
        BY <3>0, <4>1
    <3>2. \A q \in ahead : slot[q] = slot[next] => q = next
      BY <2>2, <3>1 DEF TypeOK
    <3> QED
      BY <2>2, <2>3, <3>1, <3>2
  <2>5. there \in TaskType
    BY <2>3 DEF TaskType, Rules
  <2> HIDE DEF next
  <2>6. \A q \in Listed : (t = "rearm" => rules[q].persistent) /\ slot[q] > k =>
            q = next \/ slot[q] > slot[next]
    BY <2>4
  <2> HIDE DEF w
  <2> QED
    BY <2>1, <2>3, <2>5, <2>6 DEF w
<1> QED
  BY <1>1, <1>2, <1>3

-----------------------------------------------------------------------------
(* Steps of _arm_rule() and of the walks, in general: a task t that arms a  *)
(* rule or walks goes on to w.                                             *)

\* It stays with its rule, comes to the next one, or ends; the rearm task may
\* be created besides.
Moves(t, w) ==
    /\ t \in Tasks /\ task[t].at \in Arming \cup {"new", "woken", "retrying"}
    /\ w \in TaskType /\ w.at \in Where(t)
    /\ task' \in [Tasks -> TaskType] /\ task'[t] = w
    /\ \A v \in Tasks \ {t} :
           \/ task'[v] = task[v]
           \/ /\ v = "rearm" /\ task[v].at = "none" /\ task'[v] = At("created")
              /\ task'["setup"].at = "done"
    /\ \/ /\ w.at = "subscribing" /\ task[t].at \in Arming
          /\ w.rule = task[t].rule /\ w.slot = task[t].slot
       \/ /\ w.at = "resolving" /\ t \in {"setup", "rearm"}
          /\ w.rule \in Listed /\ w.slot = slot[w.rule]
       \/ w.at \notin Arming \cup {"checking"} /\ w.rule \in {0, task[t].rule}
    /\ Crowding

\* Only the rule it has armed changes: it is left with "active" right and, if
\* nobody else arms it, with one subscription to a source at most.
Holds(t, w) ==
    /\ subs' \in [Rules -> [Sources -> Nat]] /\ active' \in [Rules -> BOOLEAN]
    /\ \A q \in Rules : \/ task[t].at \in Arming /\ q = task[t].rule
                        \/ subs'[q] = subs[q] /\ active'[q] = active[q]
    /\ task[t].at \in Arming =>
           LET r == task[t].rule IN
           /\ w.at # "subscribing" => active'[r] = (subs'[r] # NoSubs)
           /\ r \notin crowded => \A s \in Sources : subs'[r][s] <= 1
           /\ r \notin crowded /\ w.at = "subscribing" =>
                  \A s \in w.todo : subs'[r][s] = 0

\* Dispatchers run for rules that are listed, under their names.
Serves ==
    /\ serving' \subseteq Made /\ dispatcher' \in [Names -> 0 .. MaxRules]
    /\ \A r \in serving' : r \in serving \/ r \in Listed
    /\ \A r \in Rules \ orphaned : r \in serving' => dispatcher'[rules[r].name] = r

Goes(t, w) ==
    /\ Moves(t, w) /\ Holds(t, w) /\ Serves
    /\ UNCHANGED <<up, rules, slot, filled, closed, orphaned, unserved>>
    /\ undisturbed' \in BOOLEAN

\* The other tasks arm and check what they did, and no other is new to it.
LEMMA OthersSame ==
    ASSUME NEW t, NEW w, Goes(t, w)
    PROVE  \A v \in Tasks \ {t} :
               /\ task'[v].at \in Arming \/ task[v].at \in Arming => task'[v] = task[v]
               /\ task'[v].at = "checking" \/ task[v].at = "checking" => task'[v] = task[v]
               /\ task'[v].rule \in {0, task[v].rule}
BY AtType DEF Goes, Moves, Arming

LEMMA GoesType ==
    ASSUME IInv, NEW t, NEW w, Goes(t, w)
    PROVE  TypeOK'
<1>1. crowded' \in SUBSET Rules
  BY DEF IInv, TypeOK, Goes, Moves, Crowding
<1>2. Listed' = Listed /\ Made' = Made
  BY DEF Goes, Listed, Made
<1> QED
  BY <1>1, <1>2 DEF IInv, TypeOK, Goes, Moves, Holds, Serves

LEMMA GoesPlaces ==
    ASSUME IInv, NEW t, NEW w, Goes(t, w)
    PROVE  Places'
<1>0. /\ "setup" \in Tasks /\ "rearm" \in Tasks /\ Users \subseteq Tasks
      /\ "setup" \notin Users /\ "rearm" \notin Users
  BY TheTasks
<1>1. \A v \in Tasks : task'[v].at \in Where(v)
  BY AtType DEF IInv, Places, Goes, Moves, Where
<1>2. ASSUME task'["setup"].at # "done"
      PROVE  /\ task'["rearm"].at = "none"
             /\ \A u \in Users : task'[u].at \in {"idle", "checking"}
  <2>1. t = "setup"
    <3>1. ASSUME t # "setup" PROVE FALSE
      <4>1. task["setup"].at # "done"
        BY <1>0, <1>2, <3>1 DEF Goes, Moves
      <4>2. task[t].at \in {"none", "idle", "checking"}
        BY <1>0, <3>1, <4>1, TheTasks DEF IInv, Places, Goes, Moves
      <4> QED
        BY <4>2 DEF Goes, Moves, Arming
    <3> QED
      BY <3>1
  <2>2. \A v \in Tasks \ {"setup"} : task'[v] = task[v]
    BY <1>2, <2>1 DEF Goes, Moves
  <2>3. task["setup"].at # "done"
    BY <2>1 DEF Goes, Moves, Arming
  <2> QED
    BY <1>0, <2>2, <2>3 DEF IInv, Places
<1> QED
  BY <1>1, <1>2 DEF Places

LEMMA GoesUnused ==
    ASSUME IInv, NEW t, NEW w, Goes(t, w)
    PROVE  Unused'
<1>1. /\ Made' = Made /\ Listed \subseteq Made /\ slot' = slot
      /\ t \in Tasks /\ task'[t] = w /\ task[t].at # "checking" /\ w.at # "checking"
  BY ListedMade DEF Goes, Moves, Made, IInv, Arming
<1>2. ASSUME NEW r \in Rules, Unlisted(r), ~(task[t].at \in Arming /\ r = task[t].rule)
      PROVE  Unlisted(r)'
  BY <1>2, ListedFinite DEF Unlisted, Goes, Holds, Serves, IInv
<1>3. \A r \in Rules \ Made : Unlisted(r)'
  BY <1>1, <1>2 DEF IInv, Unused
<1>4. w.rule = 0 \/ w.rule = task[t].rule \/ w.rule \in Listed
  BY DEF Goes, Moves
<1>5. w.at \in Arming => w.rule # 0
  BY ListedFinite, Bounds DEF Goes, Moves, IInv, Unused
<1>6. \A v \in Tasks : task'[v].rule # 0 => task'[v].rule \in Made
  BY <1>1, <1>4, OthersSame DEF IInv, Unused
<1>7. \A v \in Tasks : task'[v].at \in Arming => task'[v].rule # 0
  BY <1>1, <1>5, OthersSame DEF IInv, Unused
<1>8. ASSUME NEW v \in Tasks, task'[v].at = "checking"
      PROVE  /\ task'[v].rule # 0 /\ Unlisted(task[v].rule)' /\ task'[v] = task[v]
             /\ \A x \in Tasks \ {v} : task'[x].rule # task'[v].rule
  <2>1. v # t /\ task'[v] = task[v]
    BY <1>1, <1>8, OthersSame
  <2>2. /\ task[v].rule # 0 /\ Unlisted(task[v].rule) /\ task[v].rule \in Made
        /\ \A x \in Tasks \ {v} : task[x].rule # task[v].rule
    BY <1>8, <2>1 DEF IInv, Unused
  <2>3. task[v].rule \in Rules /\ task[v].rule \notin Listed
    BY <2>2, MadeSoFar, ListedFinite DEF IInv, Unlisted
  <2>4. \A x \in Tasks \ {v} : task'[x].rule # task[v].rule
    BY <1>1, <1>4, <2>1, <2>2, <2>3, OthersSame
  <2> QED
    BY <1>1, <1>2, <2>1, <2>2, <2>3, <2>4
<1>9. \A v \in Tasks : task'[v].at = "checking" =>
          /\ task'[v].rule # 0 /\ Unlisted(task[v].rule)' /\ task'[v] = task[v]
          /\ \A x \in Tasks \ {v} : task'[x].rule # task'[v].rule
  BY <1>8
<1> QED
  BY <1>1, <1>3, <1>6, <1>7, <1>9 DEF Unused, Unlisted

LEMMA GoesRoom ==
    ASSUME IInv, NEW t, NEW w, Goes(t, w)
    PROVE  Room'
<1>1. Checking' = Checking
  <2>1. task[t].at # "checking" /\ task'[t].at # "checking"
    BY DEF Goes, Moves, Arming
  <2> QED
    BY <2>1, OthersSame DEF Checking
<1> QED
  BY <1>1 DEF IInv, Room, Goes

LEMMA GoesStands ==
    ASSUME IInv, NEW t, NEW w, Goes(t, w)
    PROVE  Stands'
<1>1. Listed' = Listed /\ slot' = slot
  BY DEF Goes, Listed
<1> SUFFICES ASSUME NEW v \in {"setup", "rearm"}, task'[v].at \in Arming,
                    task'[v].rule \in Listed
             PROVE  slot[task'[v].rule] = task'[v].slot
  BY <1>1 DEF Stands, Arming
<1>2. CASE v # t
  BY <1>2, OthersSame, TheTasks DEF IInv, Stands
<1>3. CASE v = t
  BY <1>3 DEF IInv, Stands, Goes, Moves
<1> QED
  BY <1>2, <1>3

LEMMA GoesCrowds ==
    ASSUME IInv, NEW t, NEW w, Goes(t, w)
    PROVE  Crowds'
<1> SUFFICES ASSUME NEW r \in Rules \ crowded', NEW v \in Tasks,
                    task'[v].at \in Arming, task'[v].rule = r
             PROVE  /\ ArmedBy(r)' = {v}
                    /\ task'[v].at = "subscribing" =>
                           \A s \in task'[v].todo : subs'[r][s] = 0
  BY DEF Crowds, ArmedBy
<1>1. r \notin crowded /\ \A x, y \in Tasks :
          x # y /\ task'[x].rule = r /\ task'[y].rule = r =>
              ~(task'[x].at \in Arming /\ task'[y].at \in Arming)
  BY DEF Goes, Moves, Crowding
<1>2. ArmedBy(r)' = {v}
  BY <1>1 DEF ArmedBy
<1>3. ASSUME task'[v].at = "subscribing", NEW s \in task'[v].todo
      PROVE  subs'[r][s] = 0
  <2>1. CASE v = t
    <3>1. task'[v] = w /\ task[t].at \in Arming /\ task[t].rule = r
      BY <1>3, <2>1 DEF Goes, Moves
    <3> QED
      BY <1>1, <1>3, <3>1 DEF Goes, Holds
  <2>2. CASE v # t
    <3>1. task[v] = task'[v]
      BY <2>2, OthersSame
    <3>2. v \in ArmedBy(r)
      BY <3>1 DEF ArmedBy
    <3>3. ArmedBy(r) = {v} /\ subs[r][s] = 0
      BY <1>1, <1>3, <3>1, <3>2 DEF IInv, Crowds
    <3>4. ~(task[t].at \in Arming /\ task[t].rule = r)
      BY <2>2, <3>3 DEF ArmedBy, Goes, Moves
    <3> QED
      BY <3>3, <3>4 DEF Goes, Holds
  <2> QED
    BY <2>1, <2>2
<1> QED
  BY <1>2, <1>3

\* Who arms a rule that t does not arm goes on arming it, and nobody else
\* starts to but t.
LEMMA ArmersKept ==
    ASSUME IInv, NEW t, NEW w, Goes(t, w), NEW r
    PROVE  /\ \A v \in Tasks \ {t} : v \in ArmedBy(r)' <=> v \in ArmedBy(r)
           /\ ArmedBy(r)' = {} /\ ~(task[t].at \in Arming /\ task[t].rule = r)
                  => ArmedBy(r) = {}
<1>1. \A v \in Tasks \ {t} : v \in ArmedBy(r)' <=> v \in ArmedBy(r)
  BY OthersSame DEF ArmedBy
<1> QED
  BY <1>1 DEF ArmedBy

LEMMA GoesExact ==
    ASSUME IInv, NEW t, NEW w, Goes(t, w)
    PROVE  SubscriptionsExact'
<1>1. Listed' = Listed /\ closed' = closed
  BY DEF Goes, Listed
<1>2. ASSUME NEW r \in Rules, ArmedBy(r)' = {}, r \in Listed \/ ~closed
      PROVE  active'[r] = (subs'[r] # NoSubs)
  <2>1. CASE task[t].at \in Arming /\ task[t].rule = r
    <3>1. w.at # "subscribing"
      BY <1>2, <2>1 DEF ArmedBy, Goes, Moves, Arming
    <3> QED
      BY <2>1, <3>1 DEF Goes, Holds
  <2>2. CASE ~(task[t].at \in Arming /\ task[t].rule = r)
    <3>1. ArmedBy(r) = {} /\ subs'[r] = subs[r] /\ active'[r] = active[r]
      BY <1>2, <2>2, ArmersKept DEF Goes, Holds
    <3> QED
      BY <1>2, <3>1 DEF IInv, SubscriptionsExact
  <2> QED
    BY <2>1, <2>2
<1>3. ASSUME NEW r \in Rules, r \notin crowded', NEW s \in Sources
      PROVE  subs'[r][s] <= 1
  <2>1. r \notin crowded
    BY <1>3 DEF Goes, Moves, Crowding
  <2> QED
    BY <2>1 DEF IInv, SubscriptionsExact, Goes, Holds
<1> QED
  BY <1>1, <1>2, <1>3 DEF SubscriptionsExact, NoSubs

LEMMA GoesSilence ==
    ASSUME IInv, NEW t, NEW w, Goes(t, w)
    PROVE  Silence'
<1>1. Listed' = Listed /\ orphaned' = orphaned /\ rules' = rules
  BY DEF Goes, Listed
<1>2. ASSUME NEW r \in Rules \ orphaned, r \notin Listed
      PROVE  ArmedBy(r)' = {} /\ subs'[r] = NoSubs /\ r \notin serving'
  <2>1. ArmedBy(r) = {} /\ subs[r] = NoSubs /\ r \notin serving
    BY <1>2 DEF IInv, Silence
  <2>2. ~(task[t].at \in Arming /\ task[t].rule = r)
    BY <2>1 DEF ArmedBy, Goes, Moves
  <2>3. t \notin ArmedBy(r)'
    BY <1>2, <2>2 DEF ArmedBy, Goes, Moves
  <2>4. ArmedBy(r)' = {}
    BY <2>1, <2>3, ArmersKept DEF ArmedBy
  <2> QED
    BY <1>2, <2>1, <2>2, <2>4 DEF Goes, Holds, Serves
<1>3. \A r \in Rules \ orphaned : r \in serving' => dispatcher'[rules[r].name] = r
  BY DEF Goes, Serves
<1> QED
  BY <1>1, <1>2, <1>3 DEF Silence, NoSubs

\* After teardown() only a register_rule() that was under way goes on.
LEMMA GoesEnded ==
    ASSUME IInv, NEW t, NEW w, Goes(t, w)
    PROVE  Ended'
<1>1. ASSUME closed PROVE orphaned = Rules
  <2>1. /\ t \in Tasks /\ task[t].at \in Arming \cup {"new", "woken", "retrying"}
    BY DEF Goes, Moves
  <2> QED
    BY <1>1, <2>1, TheTasks DEF IInv, Ended, Arming
<1> QED
  BY <1>1 DEF Goes, Ended

\* What is known of the rules the walk has come past: the rule that t is done
\* with is subscribed to the sources there are, one that it still arms will be,
\* and the walk has come past no rule that it has not come to.
Follows(t, w) ==
    undisturbed' =>
        /\ \A r \in Listed \ crowded :
               task[t].at \in Arming /\ task[t].rule = r /\ rules[r].persistent
               /\ undisturbed /\ Reached(r) =>
                   /\ w.at = "subscribing" => On(r)' \cup w.todo = up
                   /\ w.at # "subscribing" => On(r)' = up
        /\ \A r \in Listed : rules[r].persistent /\ Reached(r)' =>
               \/ w.at = "resolving" /\ w.rule = r
               \/ undisturbed /\ Reached(r)

LEMMA GoesTracked ==
    ASSUME IInv, NEW t, NEW w, Goes(t, w), Follows(t, w)
    PROVE  Tracked'
<1>1. Listed' = Listed /\ rules' = rules /\ up' = up
  BY DEF Goes, Listed
<1> SUFFICES ASSUME undisturbed', NEW r \in Listed \ crowded', rules[r].persistent, Reached(r)'
             PROVE  /\ ArmedBy(r)' = {} => On(r)' = up
                    /\ \A v \in ArmedBy(r)' :
                           task'[v].at = "subscribing" => On(r)' \cup task'[v].todo = up
  BY <1>1 DEF Tracked
<1>2. /\ r \in Rules /\ r \notin crowded
      /\ t \in Tasks /\ task'[t] = w
      /\ \A v \in ArmedBy(r)' : ArmedBy(r)' = {v}
  BY GoesCrowds, ListedFinite DEF Goes, Moves, Crowding, Crowds, IInv
<1>3. CASE w.at = "resolving" /\ w.rule = r
  <2>1. t \in ArmedBy(r)'
    BY <1>2, <1>3 DEF ArmedBy, Arming
  <2>2. ArmedBy(r)' = {t}
    BY <1>2, <2>1
  <2> QED
    BY <1>2, <1>3, <2>2
<1>4. CASE ~(w.at = "resolving" /\ w.rule = r)
  <2>1. undisturbed /\ Reached(r)
    BY <1>4 DEF Follows
  <2>2. CASE task[t].at \in Arming /\ task[t].rule = r
    <3>1. t \in ArmedBy(r)
      BY <1>2, <2>2 DEF ArmedBy
    <3>2. ArmedBy(r) = {t}
      BY <1>2, <3>1 DEF IInv, Crowds
    <3>3. \A v \in ArmedBy(r)' : v = t
      BY <3>2, ArmersKept DEF ArmedBy
    <3>4. /\ w.at = "subscribing" => On(r)' \cup w.todo = up
          /\ w.at # "subscribing" => On(r)' = up
      BY <1>2, <2>1, <2>2 DEF Follows
    <3>5. CASE w.at = "subscribing"
      <4>1. t \in ArmedBy(r)'
        BY <1>2, <2>2, <3>5 DEF ArmedBy, Goes, Moves, Arming
      <4> QED
        BY <1>2, <3>3, <3>4, <3>5, <4>1
    <3>6. CASE w.at # "subscribing"
      <4>1. t \notin ArmedBy(r)'
        BY <1>2, <1>4, <3>6 DEF ArmedBy, Arming
      <4> QED
        BY <3>3, <3>4, <3>6, <4>1
    <3> QED
      BY <3>5, <3>6
  <2>3. CASE ~(task[t].at \in Arming /\ task[t].rule = r)
    <3>1. On(r)' = On(r)
      BY <1>2, <2>3 DEF On, Goes, Holds
    <3>2. t \notin ArmedBy(r)' /\ t \notin ArmedBy(r)
      BY <1>2, <1>4, <2>3 DEF ArmedBy, Goes, Moves, Arming
    <3>3. ArmedBy(r)' = {} => ArmedBy(r) = {}
      BY <2>3, ArmersKept
    <3>4. \A v \in ArmedBy(r)' : v \in ArmedBy(r) /\ task'[v] = task[v]
      <4>1. \A v \in ArmedBy(r)' : v \in Tasks \ {t} /\ task'[v].at \in Arming
        BY <3>2 DEF ArmedBy
      <4> QED
        BY <4>1, ArmersKept, OthersSame
    <3>5. /\ ArmedBy(r) = {} => On(r) = up
          /\ \A v \in ArmedBy(r) : task[v].at = "subscribing" => On(r) \cup task[v].todo = up
      BY <1>2, <2>1 DEF IInv, Tracked
    <3> QED
      BY <3>1, <3>3, <3>4, <3>5
  <2> QED
    BY <2>2, <2>3
<1> QED
  BY <1>3, <1>4

LEMMA GoesInv ==
    ASSUME IInv, NEW t, NEW w, Goes(t, w), Follows(t, w)
    PROVE  IInv'
<1>1. TypeOK' /\ Places' /\ Unused' /\ Room' /\ Stands' /\ Crowds'
  BY GoesType, GoesPlaces, GoesUnused, GoesRoom, GoesStands, GoesCrowds
<1>2. SubscriptionsExact' /\ Silence' /\ Ended' /\ Tracked'
  BY GoesExact, GoesSilence, GoesEnded, GoesTracked
<1> QED
  BY <1>1, <1>2 DEF IInv

-----------------------------------------------------------------------------
(* The steps of the walks and of _arm_rule() are of that kind.              *)

LEMMA Rearming ==
    ASSUME IInv, NEW t \in Tasks, NEW w \in TaskType, NEW wanted \in BOOLEAN, wanted => t # "rearm",
           task' = WithRearm([task EXCEPT ![t] = w], wanted)
    PROVE  /\ task' \in [Tasks -> TaskType] /\ task'[t] = w
           /\ \A v \in Tasks \ {t} :
                  \/ task'[v] = task[v]
                  \/ /\ v = "rearm" /\ task[v].at = "none" /\ task'[v] = At("created")
                     /\ wanted
<1> DEFINE now == [task EXCEPT ![t] = w]
<1>1. /\ now \in [Tasks -> TaskType] /\ now[t] = w
      /\ \A v \in Tasks \ {t} : now[v] = task[v]
  BY DEF IInv, TypeOK
<1> HIDE DEF now
<1>2. task' = WithRearm(now, wanted)
  BY DEF now
<1>3. "rearm" \in Tasks /\ At("created") \in TaskType
  BY TheTasks, AtType
<1>4. CASE wanted /\ now["rearm"].at = "none"
  <2>1. task' = [now EXCEPT !["rearm"] = At("created")]
    BY <1>2, <1>4 DEF WithRearm
  <2> QED
    BY <1>1, <1>3, <1>4, <2>1
<1>5. CASE ~(wanted /\ now["rearm"].at = "none")
  <2>1. task' = now
    BY <1>2, <1>5 DEF WithRearm
  <2> QED
    BY <1>1, <2>1
<1> QED
  BY <1>4, <1>5

LEMMA ServesOn == ASSUME IInv, UNCHANGED dispatch PROVE Serves /\ unserved' = unserved
<1>1. serving' = serving /\ dispatcher' = dispatcher /\ unserved' = unserved
  BY DEF dispatch
<1>2. serving \subseteq Made /\ dispatcher \in [Names -> 0 .. MaxRules]
  BY DEF IInv, TypeOK
<1>3. \A r \in Rules \ orphaned : r \in serving => dispatcher[rules[r].name] = r
  BY DEF IInv, Silence
<1> QED
  BY <1>1, <1>2, <1>3 DEF Serves

\* A walk goes on from slot k.
LEMMA WalkMoves ==
    ASSUME IInv, NEW t \in {"setup", "rearm"}, NEW k \in 0 .. MaxRules,
           NEW size \in 0 .. MaxRules, Walk(t, k, size), Crowding,
           task[t].at \in Arming \cup {"new", "woken", "retrying"}
    PROVE  LET w == WalkOn(t, k, size) IN
           /\ Moves(t, w) /\ w.at # "subscribing"
           /\ \A r \in Listed : UNCHANGED slot /\ rules[r].persistent /\ Reached(r)' =>
                  \/ w.at = "resolving" /\ w.rule = r
                  \/ slot[r] <= k
<1> DEFINE w == WalkOn(t, k, size)
           wanted == /\ t = "setup" /\ w.at = "done"
                     /\ \E r \in Listed : rules[r].persistent
<1>1. /\ w \in TaskType
      /\ w.at \in {"broken", "resolving", IF t = "rearm" THEN "waiting" ELSE "done"}
      /\ w.at # "resolving" => w.rule = 0
      /\ w.at = "resolving" => w.rule \in Listed /\ w.slot = slot[w.rule]
      /\ \A q \in Listed : (t = "rearm" => rules[q].persistent) /\ slot[q] > k =>
             \/ w.at = "broken"
             \/ w.at = "resolving" /\ (q = w.rule \/ slot[q] > w.slot)
  BY WalkedOn DEF IInv
<1>2. task' = WithRearm([task EXCEPT ![t] = w], wanted)
  BY DEF Walk
<1>3. (wanted => t # "rearm" /\ w.at = "done" /\ t = "setup") /\ wanted \in BOOLEAN
  OBVIOUS
<1>4. t \in Tasks
  BY TheTasks
<1> HIDE DEF w, wanted
<1>5. /\ task' \in [Tasks -> TaskType] /\ task'[t] = w
      /\ \A v \in Tasks \ {t} :
             \/ task'[v] = task[v]
             \/ /\ v = "rearm" /\ task[v].at = "none" /\ task'[v] = At("created")
                /\ wanted
  BY <1>1, <1>2, <1>3, <1>4, Rearming
<1>6. w.at \in Where(t)
  BY <1>1 DEF Where
<1>7. Moves(t, w)
  BY <1>1, <1>3, <1>4, <1>5, <1>6 DEF Moves, Arming
<1>8. ASSUME NEW r \in Listed, UNCHANGED slot, rules[r].persistent, Reached(r)'
      PROVE  (w.at = "resolving" /\ w.rule = r) \/ slot[r] <= k
  <2>1. slot[r] \in Nat /\ k \in Nat
    <3>1. r \in Rules
      BY DEF Listed
    <3> QED
      BY <3>1, Bounds DEF IInv, TypeOK
  <2>2. slot[r] > k => \/ w.at = "broken"
                       \/ w.at = "resolving" /\ (r = w.rule \/ slot[r] > w.slot)
    BY <1>1, <1>8
  <2>3. w.slot \in Nat
    BY <1>1, Bounds DEF TaskType
  <2>4. w.at = "resolving" => slot[r] <= w.slot
    <3>1. CASE t = "setup"
      BY <1>5, <1>8, <3>1 DEF Reached, Arming
    <3>2. CASE t = "rearm"
      <4>1. task["setup"].at = "done"
        BY <3>2, TheTasks DEF IInv, Places, Arming
      <4>2. task'["setup"] = task["setup"]
        BY <1>5, <3>2, TheTasks
      <4> QED
        BY <1>5, <1>8, <3>2, <4>1, <4>2 DEF Reached, Arming
    <3> QED
      BY <3>1, <3>2
  <2>5. w.at # "broken"
    <3>1. CASE t = "setup"
      BY <1>5, <1>8, <3>1 DEF Reached, Arming
    <3>2. CASE t = "rearm"
      <4>1. task["setup"].at = "done"
        BY <3>2, TheTasks DEF IInv, Places, Arming
      <4>2. task'["setup"] = task["setup"]
        BY <1>5, <3>2, TheTasks
      <4> QED
        BY <1>5, <1>8, <3>2, <4>1, <4>2 DEF Reached, Arming
    <3> QED
      BY <3>1, <3>2
  <2> QED
    BY <2>1, <2>2, <2>3, <2>4, <2>5
<1>9. w.at # "subscribing"
  BY <1>1
<1> QED
  BY <1>7, <1>8, <1>9 DEF w

LEMMA SetupStartStep == IInv /\ SetupStart => IInv'
<1> SUFFICES ASSUME IInv, SetupStart PROVE IInv'
  OBVIOUS
<1> DEFINE size == Cardinality(Listed)
           w == WalkOn("setup", 0, size)
<1>1. /\ task["setup"].at = "new" /\ Walk("setup", 0, size) /\ Crowding
      /\ serving' = Listed /\ undisturbed' = TRUE
      /\ dispatcher' = [n \in Names |-> IF Named(n) = {} THEN 0
                                        ELSE CHOOSE r \in Named(n) : TRUE]
      /\ UNCHANGED <<up, rules, slot, filled, subs, active, closed, orphaned, unserved>>
  BY DEF SetupStart, dict, arms
<1>2. size \in 0 .. MaxRules /\ 0 \in 0 .. MaxRules
  BY ListedFinite, Bounds DEF IInv
<1> HIDE DEF size
<1>3. /\ Moves("setup", w) /\ w.at # "subscribing"
      /\ \A r \in Listed : rules[r].persistent /\ Reached(r)' =>
             \/ w.at = "resolving" /\ w.rule = r
             \/ slot[r] <= 0
  BY <1>1, <1>2, WalkMoves
<1> HIDE DEF w
<1>4. Holds("setup", w)
  BY <1>1 DEF Holds, IInv, TypeOK, Arming
<1>5. Serves
  <2>1. Listed \subseteq Made /\ Listed \subseteq Rules /\ \A r \in Listed : rules[r].name \in Names
    BY ListedMade, MadeSoFar DEF IInv, Listed
  <2>2. \A n \in Names : Named(n) # {} => (CHOOSE r \in Named(n) : TRUE) \in Named(n)
    OBVIOUS
  <2>3. \A n \in Names : Named(n) \subseteq Rules
    BY <2>1 DEF Named
  <2>4. dispatcher' \in [Names -> 0 .. MaxRules]
    <3>1. \A n \in Names : (IF Named(n) = {} THEN 0 ELSE CHOOSE r \in Named(n) : TRUE)
                               \in 0 .. MaxRules
      BY <2>2, <2>3, Bounds DEF Rules
    <3> QED
      BY <1>1, <3>1
  <2>5. ASSUME NEW r \in Listed PROVE dispatcher'[rules[r].name] = r
    <3> DEFINE n == rules[r].name
    <3>1. n \in Names /\ r \in Named(n)
      BY <2>1 DEF Named
    <3>2. \A q \in Named(n) : q = r
      BY <3>1 DEF Named, IInv, TypeOK
    <3>3. dispatcher'[n] = CHOOSE q \in Named(n) : TRUE
      BY <1>1, <3>1
    <3> QED
      BY <2>2, <3>1, <3>2, <3>3
  <2> QED
    BY <1>1, <2>1, <2>4, <2>5 DEF Serves
<1>6. Goes("setup", w)
  BY <1>1, <1>3, <1>4, <1>5 DEF Goes
<1>7. Follows("setup", w)
  <2>1. \A r \in Listed : ~(slot[r] <= 0)
    BY ListedFinite, Bounds DEF IInv, TypeOK, Listed
  <2> QED
    BY <1>1, <1>3, <2>1 DEF Follows, Arming
<1> QED
  BY <1>6, <1>7, GoesInv

LEMMA RearmStartStep == IInv /\ RearmStart => IInv'
<1> SUFFICES ASSUME IInv, RearmStart PROVE IInv'
  OBVIOUS
<1> DEFINE size == Cardinality(Listed)
           w == WalkOn("rearm", 0, size)
<1>1. /\ task["rearm"].at = "woken" /\ Walk("rearm", 0, size) /\ Crowding
      /\ undisturbed' = TRUE /\ UNCHANGED dispatch
      /\ UNCHANGED <<up, rules, slot, filled, subs, active, closed, orphaned>>
  BY DEF RearmStart, dict, arms
<1>2. size \in 0 .. MaxRules /\ 0 \in 0 .. MaxRules
  BY ListedFinite, Bounds DEF IInv
<1> HIDE DEF size
<1>3. /\ Moves("rearm", w) /\ w.at # "subscribing"
      /\ \A r \in Listed : rules[r].persistent /\ Reached(r)' =>
             \/ w.at = "resolving" /\ w.rule = r
             \/ slot[r] <= 0
  BY <1>1, <1>2, WalkMoves
<1> HIDE DEF w
<1>4. Holds("rearm", w)
  BY <1>1 DEF Holds, IInv, TypeOK, Arming
<1>5. Goes("rearm", w)
  BY <1>1, <1>3, <1>4, ServesOn DEF Goes
<1>6. Follows("rearm", w)
  <2>1. \A r \in Listed : ~(slot[r] <= 0)
    BY ListedFinite, Bounds DEF IInv, TypeOK, Listed
  <2> QED
    BY <1>1, <1>3, <2>1 DEF Follows, Arming
<1> QED
  BY <1>5, <1>6, GoesInv

\* A task's own slot and size are in range.
LEMMA TaskTyped ==
    ASSUME IInv, NEW t \in Tasks
    PROVE  /\ task[t] \in TaskType
           /\ task[t].slot \in 0 .. MaxRules /\ task[t].size \in 0 .. MaxRules
           /\ task[t].todo \subseteq Sources
           /\ task[t].at \in Arming => task[t].rule \in Rules
<1>1. task[t] \in TaskType
  BY DEF IInv, TypeOK
<1>2. task[t].rule \in 0 .. MaxRules
  BY <1>1 DEF TaskType
<1> QED
  BY <1>1, <1>2, Bounds DEF TaskType, IInv, Unused, Rules

LEMMA RearmNextStep == IInv /\ RearmNext => IInv'
<1> SUFFICES ASSUME IInv, RearmNext PROVE IInv'
  OBVIOUS
<1> DEFINE k == task["rearm"].slot
           size == task["rearm"].size
           w == WalkOn("rearm", k, size)
<1>1. /\ task["rearm"].at = "retrying" /\ Walk("rearm", k, size) /\ Crowding
      /\ undisturbed' = undisturbed /\ UNCHANGED dispatch
      /\ UNCHANGED <<up, rules, slot, filled, subs, active, closed, orphaned>>
  BY DEF RearmNext, dict, arms
<1>2. size \in 0 .. MaxRules /\ k \in 0 .. MaxRules
  BY TaskTyped, TheTasks
<1> HIDE DEF size
<1>3. /\ Moves("rearm", w) /\ w.at # "subscribing"
      /\ \A r \in Listed : rules[r].persistent /\ Reached(r)' =>
             \/ w.at = "resolving" /\ w.rule = r
             \/ slot[r] <= k
  <2> HIDE DEF k
  <2> QED
    BY <1>1, <1>2, WalkMoves
<1> HIDE DEF w
<1>4. Holds("rearm", w)
  BY <1>1 DEF Holds, IInv, TypeOK, Arming
<1>5. Goes("rearm", w)
  BY <1>1, <1>3, <1>4, ServesOn DEF Goes, IInv, TypeOK
<1>6. Follows("rearm", w)
  <2>1. \A r : slot[r] <= k => Reached(r)
    BY <1>1, TheTasks DEF Reached, IInv, Places
  <2> QED
    BY <1>1, <1>3, <2>1 DEF Follows, Arming
<1> QED
  BY <1>5, <1>6, GoesInv

\* A register_rule() that returns may create the rearm task.
LEMMA UserArmed ==
    ASSUME IInv, NEW t \in Users, NEW wanted \in BOOLEAN,
           task' = WithRearm([task EXCEPT ![t] = At("idle")], wanted)
    PROVE  /\ task' \in [Tasks -> TaskType] /\ task'[t] = At("idle")
           /\ \A v \in Tasks \ {t} :
                  \/ task'[v] = task[v]
                  \/ v = "rearm" /\ task[v].at = "none" /\ task'[v] = At("created")
<1>1. t \in Tasks /\ At("idle") \in TaskType /\ t # "rearm"
  BY TheTasks, AtType
<1> DEFINE w == At("idle")
<1>2. w \in TaskType /\ task' = WithRearm([task EXCEPT ![t] = w], wanted)
  BY <1>1
<1> HIDE DEF w
<1>3. /\ task' \in [Tasks -> TaskType] /\ task'[t] = w
      /\ \A v \in Tasks \ {t} :
             \/ task'[v] = task[v]
             \/ /\ v = "rearm" /\ task[v].at = "none" /\ task'[v] = At("created")
                /\ wanted
  BY <1>1, <1>2, Rearming
<1> QED
  BY <1>3 DEF w

\* Task t has armed its rule: "active" is right, and the walk goes on.
LEMMA ArmedGoes ==
    ASSUME IInv, NEW t \in Tasks, task[t].at \in Arming,
           NEW held \in [Sources -> Nat], Armed(t, held), Crowding,
           UNCHANGED <<up, rules, dict, dispatch, closed, orphaned>>,
           undisturbed' \in BOOLEAN,
           task[t].rule \notin crowded => \A s \in Sources : held[s] <= 1,
           undisturbed' =>
               /\ undisturbed
               /\ \A r \in Listed \ crowded :
                      r = task[t].rule /\ rules[r].persistent /\ Reached(r) =>
                          {s \in Sources : held[s] > 0} = up
    PROVE  IInv'
<1> DEFINE r == task[t].rule
<1>0. r \in Rules /\ t \in Tasks
  BY TaskTyped
<1>1. /\ UNCHANGED <<up, rules, slot, filled, closed, orphaned>> /\ UNCHANGED dispatch
      /\ subs' = [subs EXCEPT ![r] = held]
      /\ active' = [active EXCEPT ![r] = held # NoSubs]
  BY DEF dict, Armed
<1>2. /\ subs' \in [Rules -> [Sources -> Nat]] /\ active' \in [Rules -> BOOLEAN]
      /\ subs'[r] = held /\ active'[r] = (subs'[r] # NoSubs)
      /\ \A q \in Rules : q # r => subs'[q] = subs[q] /\ active'[q] = active[q]
  BY <1>0, <1>1 DEF IInv, TypeOK
<1>3. \E w : /\ Moves(t, w) /\ w.at # "subscribing"
             /\ \A q \in Listed : rules[q].persistent /\ Reached(q)' =>
                    (w.at = "resolving" /\ w.rule = q) \/ Reached(q)
  <2>1. CASE t = "setup"
    <3> DEFINE k == task[t].slot
               size == task[t].size
               w == WalkOn("setup", k, size)
    <3>1. /\ Walk("setup", k, size) /\ k \in 0 .. MaxRules /\ size \in 0 .. MaxRules
      BY <2>1, TaskTyped DEF Armed
    <3> HIDE DEF size
    <3>2. /\ Moves("setup", w) /\ w.at # "subscribing"
          /\ \A q \in Listed : rules[q].persistent /\ Reached(q)' =>
                 \/ w.at = "resolving" /\ w.rule = q
                 \/ slot[q] <= k
      <4> HIDE DEF k
      <4> QED
        BY <1>1, <2>1, <3>1, WalkMoves
    <3> HIDE DEF w
    <3>3. \A q : slot[q] <= k => Reached(q)
      BY <2>1 DEF Reached
    <3> QED
      BY <2>1, <3>2, <3>3
  <2>2. CASE t = "rearm"
    <3> DEFINE w == [task[t] EXCEPT !.at = "retrying"]
    <3>1. task' = [task EXCEPT ![t] = w]
      BY <2>2 DEF Armed
    <3>2. /\ w \in TaskType /\ w.at = "retrying" /\ w.rule = task[t].rule
          /\ w.slot = task[t].slot
      BY TaskTyped DEF TaskType
    <3> HIDE DEF w
    <3>3. /\ task' \in [Tasks -> TaskType] /\ task'[t] = w
          /\ \A v \in Tasks \ {t} : task'[v] = task[v]
      BY <3>1, <3>2 DEF IInv, TypeOK
    <3>4. Moves(t, w)
      BY <2>2, <3>2, <3>3 DEF Moves, Where, Arming
    <3>5. \A q : Reached(q)' => Reached(q)
      <4>1. task'["setup"] = task["setup"] /\ task'["rearm"] = w /\ slot' = slot
        BY <1>1, <2>2, <3>3, TheTasks
      <4> QED
        BY <2>2, <3>2, <4>1 DEF Reached, Arming
    <3> QED
      BY <3>2, <3>4, <3>5
  <2>3. CASE t \in Users
    <3> DEFINE w == At("idle")
    <3>0. t # "setup" /\ t # "rearm" /\ "setup" \in Tasks /\ "rearm" \in Tasks
      BY <2>3, TheTasks
    <3>1. /\ task' = WithRearm([task EXCEPT ![t] = w], rules[r].persistent)
          /\ rules[r].persistent \in BOOLEAN
      <4>1. r \in Made
        BY DEF IInv, Unused
      <4> QED
        BY <3>0, <4>1, MadeSoFar DEF Armed, IInv
    <3>2. w \in TaskType /\ w.at = "idle" /\ w.rule = 0
      BY AtType
    <3> HIDE DEF w
    <3>3. /\ task' \in [Tasks -> TaskType] /\ task'[t] = w
          /\ \A v \in Tasks \ {t} :
                 \/ task'[v] = task[v]
                 \/ v = "rearm" /\ task[v].at = "none" /\ task'[v] = At("created")
      <4>1. PICK wanted \in BOOLEAN :
                task' = WithRearm([task EXCEPT ![t] = At("idle")], wanted)
        BY <3>1 DEF w
      <4> QED
        BY <2>3, <4>1, UserArmed DEF w
    <3>4. task["setup"].at = "done" /\ task'["setup"] = task["setup"]
      BY <2>3, <3>0, <3>3 DEF IInv, Places, Arming
    <3>5. Moves(t, w)
      BY <3>0, <3>2, <3>3, <3>4 DEF Moves, Where, Arming
    <3>6. \A q : Reached(q)' => Reached(q)
      BY <1>1, <3>0, <3>3, <3>4, AtType DEF Reached, Arming
    <3> QED
      BY <3>2, <3>5, <3>6
  <2> QED
    BY <2>1, <2>2, <2>3, TheTasks
<1>4. PICK w : /\ Moves(t, w) /\ w.at # "subscribing"
               /\ \A q \in Listed : rules[q].persistent /\ Reached(q)' =>
                      (w.at = "resolving" /\ w.rule = q) \/ Reached(q)
  BY <1>3
<1>5. Holds(t, w)
  BY <1>2, <1>4 DEF Holds
<1>6. Goes(t, w)
  BY <1>1, <1>4, <1>5, ServesOn DEF Goes
<1>7. Follows(t, w)
  <2>2. ASSUME undisturbed', NEW q \in Listed \ crowded, q = r, rules[q].persistent, Reached(q)
        PROVE  On(q)' = up
    BY <1>2, <2>2 DEF On
  <2> QED
    BY <1>4, <2>2 DEF Follows
<1> QED
  BY <1>6, <1>7, GoesInv

\* The sources are known: what is kept and what is left to subscribe are them.
LEMMA ArmResolvedStep == ASSUME NEW t \in Tasks, IInv, ArmResolved(t) PROVE IInv'
<1> DEFINE r == task[t].rule
           Held(found) == [s \in Sources |-> IF s \in found THEN subs[r][s] ELSE 0]
           Todo(found) == {s \in found : subs[r][s] = 0}
<1>1. /\ task[t].at = "resolving" /\ task[t].at \in Arming /\ r \in Rules
      /\ Crowding /\ UNCHANGED <<up, rules, slot, filled, closed, orphaned>>
      /\ UNCHANGED dispatch
  BY TaskTyped DEF ArmResolved, Arming, dict
<1>2. PICK found \in SUBSET up :
          /\ IF Todo(found) = {}
             THEN Armed(t, Held(found))
             ELSE /\ subs' = [subs EXCEPT ![r] = Held(found)]
                  /\ task' = [task EXCEPT ![t].at = "subscribing", ![t].todo = Todo(found)]
                  /\ UNCHANGED active
          /\ undisturbed' = (undisturbed /\ found = up)
  BY DEF ArmResolved
<1> DEFINE held == Held(found)
           todo == Todo(found)
<1>3. /\ found \subseteq Sources /\ subs[r] \in [Sources -> Nat]
      /\ subs \in [Rules -> [Sources -> Nat]] /\ active \in [Rules -> BOOLEAN]
      /\ undisturbed \in BOOLEAN /\ undisturbed' \in BOOLEAN
  BY <1>1, <1>2 DEF IInv, TypeOK
<1>4. /\ held \in [Sources -> Nat] /\ todo \subseteq Sources
      /\ {s \in Sources : held[s] > 0} \cup todo = found
      /\ \A s \in todo : held[s] = 0
      /\ r \notin crowded => \A s \in Sources : held[s] <= 1
  <2>1. held \in [Sources -> Nat] /\ todo \subseteq Sources
    BY <1>3
  <2>2. {s \in Sources : held[s] > 0} \cup todo = found
    BY <1>3
  <2>3. \A s \in todo : held[s] = 0
    BY <1>3
  <2>4. r \notin crowded => \A s \in Sources : held[s] <= 1
    BY <1>1, <1>3 DEF IInv, SubscriptionsExact
  <2> QED
    BY <2>1, <2>2, <2>3, <2>4
<1>5. CASE todo = {}
  <2>1. Armed(t, held)
    BY <1>2, <1>5
  <2>2. undisturbed' => undisturbed /\ {s \in Sources : held[s] > 0} = up
    BY <1>2, <1>4, <1>5
  <2>3. UNCHANGED <<up, rules, dict, dispatch, closed, orphaned>>
    BY <1>1 DEF dict
  <2> HIDE DEF held, todo
  <2> QED
    BY <1>1, <1>3, <1>4, <2>1, <2>2, <2>3, ArmedGoes
<1>6. CASE todo # {}
  <2> DEFINE w == [task[t] EXCEPT !.at = "subscribing", !.todo = todo]
  <2>1. /\ subs' = [subs EXCEPT ![r] = held] /\ active' = active
        /\ task' = [task EXCEPT ![t].at = "subscribing", ![t].todo = todo]
    BY <1>2, <1>6
  <2> HIDE DEF held, todo
  <2>2. task' = [task EXCEPT ![t] = w]
    BY <2>1 DEF IInv, TypeOK, TaskType
  <2>3. /\ w \in TaskType /\ w.at = "subscribing" /\ w.rule = task[t].rule
        /\ w.slot = task[t].slot /\ w.todo = todo
    BY <1>4, TaskTyped DEF TaskType
  <2> HIDE DEF w
  <2>4. /\ task' \in [Tasks -> TaskType] /\ task'[t] = w
        /\ \A v \in Tasks \ {t} : task'[v] = task[v]
    BY <2>2, <2>3 DEF IInv, TypeOK
  <2>5. w.at \in Where(t)
    BY <2>3 DEF Where
  <2>6. Moves(t, w)
    BY <1>1, <2>3, <2>4, <2>5 DEF Moves
  <2>7. /\ subs' \in [Rules -> [Sources -> Nat]] /\ subs'[r] = held
        /\ \A q \in Rules : q # r => subs'[q] = subs[q]
    BY <1>1, <1>3, <1>4, <2>1
  <2>8. Holds(t, w)
    BY <1>1, <1>3, <1>4, <2>1, <2>3, <2>7 DEF Holds
  <2>9. Goes(t, w)
    BY <1>1, <1>3, <2>6, <2>8, ServesOn DEF Goes
  <2>10. \A q : Reached(q)' => Reached(q)
    <3>1. /\ task'["setup"].at = task["setup"].at
             \/ (t = "setup" /\ task'["setup"].at = "subscribing")
          /\ task'["rearm"].at = task["rearm"].at
             \/ (t = "rearm" /\ task'["rearm"].at = "subscribing")
          /\ task'["setup"].slot = task["setup"].slot
          /\ task'["rearm"].slot = task["rearm"].slot
      BY <2>3, <2>4, TheTasks
    <3> QED
      BY <1>1, <3>1 DEF Reached, Arming
  <2>11. Follows(t, w)
    <3>1. ASSUME undisturbed', NEW q \in Listed \ crowded, r = q
          PROVE  On(q)' \cup w.todo = up
      BY <1>2, <1>4, <2>3, <2>7, <3>1 DEF On
    <3> QED
      BY <1>2, <2>3, <2>10, <3>1 DEF Follows
  <2> QED
    BY <2>9, <2>11, GoesInv
<1> QED
  BY <1>5, <1>6

\* One source less to subscribe to; what failed disturbs the walk.
LEMMA ArmSubscribedStep == ASSUME NEW t \in Tasks, IInv, ArmSubscribed(t) PROVE IInv'
<1> DEFINE r == task[t].rule
           Held(s, ok) == IF ok THEN [subs[r] EXCEPT ![s] = @ + 1] ELSE subs[r]
<1>1. /\ task[t].at = "subscribing" /\ task[t].at \in Arming /\ r \in Rules
      /\ Crowding /\ UNCHANGED <<up, rules, slot, filled, closed, orphaned>>
      /\ UNCHANGED dispatch
  BY TaskTyped DEF ArmSubscribed, Arming, dict
<1>2. PICK s \in task[t].todo, ok \in BOOLEAN :
          /\ IF task[t].todo = {s}
             THEN Armed(t, Held(s, ok))
             ELSE /\ subs' = [subs EXCEPT ![r] = Held(s, ok)]
                  /\ task' = [task EXCEPT ![t].todo = @ \ {s}]
                  /\ UNCHANGED active
          /\ undisturbed' = (undisturbed /\ ok)
  BY DEF ArmSubscribed
<1> DEFINE held == Held(s, ok)
<1>3. /\ task[t].todo \subseteq Sources /\ s \in Sources /\ subs[r] \in [Sources -> Nat]
      /\ subs \in [Rules -> [Sources -> Nat]] /\ active \in [Rules -> BOOLEAN]
      /\ undisturbed \in BOOLEAN /\ undisturbed' \in BOOLEAN
  BY <1>1, <1>2, TaskTyped DEF IInv, TypeOK
<1>4. r \notin crowded => \A x \in task[t].todo : subs[r][x] = 0
  <2>1. t \in ArmedBy(r)
    BY <1>1 DEF ArmedBy
  <2> QED
    BY <1>1, <2>1 DEF IInv, Crowds
<1>5. /\ held \in [Sources -> Nat]
      /\ \A x \in Sources \ {s} : held[x] = subs[r][x]
      /\ ok => held[s] > 0
      /\ r \notin crowded => \A x \in Sources : held[x] <= 1
  <2>1. CASE ok
    <3>1. held = [subs[r] EXCEPT ![s] = subs[r][s] + 1]
      BY <2>1
    <3>2. /\ held \in [Sources -> Nat] /\ held[s] = subs[r][s] + 1
          /\ \A x \in Sources \ {s} : held[x] = subs[r][x]
      BY <1>3, <3>1
    <3>3. r \notin crowded => subs[r][s] = 0 /\ \A x \in Sources : subs[r][x] <= 1
      BY <1>1, <1>2, <1>4 DEF IInv, SubscriptionsExact
    <3> HIDE DEF held
    <3> QED
      BY <1>3, <3>2, <3>3
  <2>2. CASE ~ok
    <3>1. held = subs[r]
      BY <2>2
    <3>2. r \notin crowded => \A x \in Sources : subs[r][x] <= 1
      BY <1>1 DEF IInv, SubscriptionsExact
    <3> HIDE DEF held
    <3> QED
      BY <1>3, <2>2, <3>1, <3>2
  <2> QED
    BY <2>1, <2>2
<1>6. ok => {x \in Sources : held[x] > 0} = On(r) \cup {s}
  <2> HIDE DEF held
  <2> QED
    BY <1>3, <1>5 DEF On
<1>7. \A q \in Listed \ crowded :
          undisturbed' /\ q = r /\ rules[q].persistent /\ Reached(q) =>
              {x \in Sources : held[x] > 0} \cup (task[t].todo \ {s}) = up
  <2> SUFFICES ASSUME undisturbed', r \in Listed \ crowded, rules[r].persistent, Reached(r)
               PROVE  {x \in Sources : held[x] > 0} \cup (task[t].todo \ {s}) = up
    OBVIOUS
  <2>1. undisturbed /\ ok
    BY <1>2
  <2>2. t \in ArmedBy(r)
    BY <1>1 DEF ArmedBy
  <2>3. On(r) \cup task[t].todo = up
    BY <1>1, <2>1, <2>2 DEF IInv, Tracked
  <2> HIDE DEF held
  <2> QED
    BY <1>2, <1>6, <2>1, <2>3
<1> HIDE DEF held
<1>8. CASE task[t].todo = {s}
  <2>1. Armed(t, held)
    BY <1>2, <1>8 DEF held
  <2>2. undisturbed' =>
            /\ undisturbed
            /\ \A q \in Listed \ crowded :
                   q = r /\ rules[q].persistent /\ Reached(q) =>
                       {x \in Sources : held[x] > 0} = up
    BY <1>2, <1>7, <1>8
  <2>3. UNCHANGED <<up, rules, dict, dispatch, closed, orphaned>>
    BY <1>1 DEF dict
  <2> QED
    BY <1>1, <1>3, <1>5, <2>1, <2>2, <2>3, ArmedGoes
<1>9. CASE task[t].todo # {s}
  <2> DEFINE w == [task[t] EXCEPT !.todo = @ \ {s}]
  <2>1. /\ subs' = [subs EXCEPT ![r] = held] /\ active' = active
        /\ task' = [task EXCEPT ![t].todo = @ \ {s}]
    BY <1>2, <1>9 DEF held
  <2>2. task' = [task EXCEPT ![t] = w]
    BY <2>1
  <2>3. /\ w \in TaskType /\ w.at = "subscribing" /\ w.rule = task[t].rule
        /\ w.slot = task[t].slot /\ w.todo = task[t].todo \ {s}
    BY <1>1, <1>3, TaskTyped DEF TaskType
  <2> HIDE DEF w
  <2>4. /\ task' \in [Tasks -> TaskType] /\ task'[t] = w
        /\ \A v \in Tasks \ {t} : task'[v] = task[v]
    BY <2>2, <2>3 DEF IInv, TypeOK
  <2>5. w.at \in Where(t)
    BY <2>3 DEF Where
  <2>6. Moves(t, w)
    BY <1>1, <2>3, <2>4, <2>5 DEF Moves
  <2>7. /\ subs' \in [Rules -> [Sources -> Nat]] /\ subs'[r] = held
        /\ \A q \in Rules : q # r => subs'[q] = subs[q]
    BY <1>1, <1>3, <1>5, <2>1
  <2>8. r \notin crowded => \A x \in w.todo : held[x] = 0
    BY <1>3, <1>4, <1>5, <2>3
  <2>9. Holds(t, w)
    BY <1>1, <1>3, <1>5, <2>1, <2>3, <2>7, <2>8 DEF Holds
  <2>10. Goes(t, w)
    BY <1>1, <1>3, <2>6, <2>9, ServesOn DEF Goes
  <2>11. \A q : Reached(q)' => Reached(q)
    <3>1. /\ task'["setup"].at = task["setup"].at /\ task'["rearm"].at = task["rearm"].at
          /\ task'["setup"].slot = task["setup"].slot
          /\ task'["rearm"].slot = task["rearm"].slot
      BY <1>1, <2>3, <2>4, TheTasks
    <3> QED
      BY <1>1, <3>1 DEF Reached
  <2>12. Follows(t, w)
    <3>1. ASSUME undisturbed', NEW q \in Listed \ crowded, q = r, rules[q].persistent,
                 Reached(q)
          PROVE  On(q)' \cup w.todo = up
      BY <1>7, <2>3, <2>7, <3>1 DEF On
    <3> QED
      BY <1>2, <2>3, <2>11, <3>1 DEF Follows
  <2> QED
    BY <2>10, <2>12, GoesInv
<1> QED
  BY <1>8, <1>9

-----------------------------------------------------------------------------
(* Steps that arm nothing and change no rule.                               *)

RulesKept == UNCHANGED <<rules, slot, filled, subs, active, serving, dispatcher,
                         unserved, closed, orphaned, crowded>>

\* One task goes from one state in which it arms nothing to another.
Idles(x, w) ==
    /\ x \in Tasks /\ w \in TaskType /\ w.rule = 0 /\ w.at \notin Arming \cup {"checking"}
    /\ w.at \in Where(x) /\ task[x].at \notin Arming
    /\ task' \in [Tasks -> TaskType] /\ task'[x] = w
    /\ \A v \in Tasks \ {x} : task'[v] = task[v]

LEMMA IdlesKeeps ==
    ASSUME IInv, NEW x, NEW w, Idles(x, w), RulesKept,
           up' \in SUBSET Sources, undisturbed' \in BOOLEAN
    PROVE  /\ TypeOK' /\ Unused' /\ Stands' /\ Crowds' /\ SubscriptionsExact' /\ Silence'
           /\ \A r : ArmedBy(r)' = ArmedBy(r) /\ On(r)' = On(r)
           /\ Listed' = Listed /\ Made' = Made
<1>1. /\ rules' = rules /\ slot' = slot /\ filled' = filled /\ subs' = subs
      /\ active' = active /\ serving' = serving /\ dispatcher' = dispatcher
      /\ closed' = closed /\ orphaned' = orphaned /\ crowded' = crowded
      /\ unserved' = unserved
      /\ Listed' = Listed /\ Made' = Made
  BY DEF RulesKept, Listed, Made
<1>2. \A r : ArmedBy(r)' = ArmedBy(r) /\ On(r)' = On(r)
  BY <1>1 DEF ArmedBy, On, Idles
<1>3. TypeOK'
  BY <1>1 DEF IInv, TypeOK, Idles
<1>4. Unused'
  <2>1. \A r : Unlisted(r)' <=> Unlisted(r)
    BY <1>1 DEF Unlisted, NoSubs
  <2>2. \A v \in Tasks : /\ task'[v].rule \in {0, task[v].rule}
                         /\ task'[v].at \in Arming \cup {"checking"} => task'[v] = task[v]
    BY DEF Idles
  <2>3. \A v \in Tasks : task'[v].at = "checking" =>
            /\ task'[v].rule # 0 /\ Unlisted(task[v].rule)
            /\ \A y \in Tasks \ {v} : task'[y].rule # task'[v].rule
    BY <2>2 DEF IInv, Unused
  <2>4. \A r \in Rules \ Made : Unlisted(r)
    BY DEF IInv, Unused
  <2>5. \A v \in Tasks : /\ task'[v].rule # 0 => task'[v].rule \in Made
                         /\ task'[v].at \in Arming => task'[v].rule # 0
    BY <2>2 DEF IInv, Unused
  <2> QED
    BY <1>1, <2>1, <2>2, <2>3, <2>4, <2>5 DEF Unused, Unlisted, NoSubs
<1>5. Stands'
  <2>1. \A v \in Tasks : task'[v].at \in Arming => task'[v] = task[v]
    BY DEF Idles
  <2> QED
    BY <1>1, <2>1, TheTasks DEF IInv, Stands, Arming
<1>6. Crowds'
  <2> SUFFICES ASSUME NEW r \in Rules \ crowded, NEW v \in ArmedBy(r)
               PROVE  /\ ArmedBy(r) = {v}
                      /\ task'[v].at = "subscribing" =>
                             \A s \in task'[v].todo : subs[r][s] = 0
    BY <1>1, <1>2 DEF Crowds
  <2>1. task'[v] = task[v]
    BY DEF ArmedBy, Idles
  <2> QED
    BY <2>1 DEF IInv, Crowds
<1>7. SubscriptionsExact'
  BY <1>1, <1>2 DEF IInv, SubscriptionsExact, NoSubs
<1>8. Silence'
  BY <1>1, <1>2 DEF IInv, Silence, NoSubs
<1> QED
  BY <1>1, <1>2, <1>3, <1>4, <1>5, <1>6, <1>7, <1>8

\* Nothing but the sources changes.
LEMMA SameTasks ==
    ASSUME IInv, RulesKept, task' = task, up' \in SUBSET Sources,
           undisturbed' \in BOOLEAN, undisturbed' => undisturbed /\ up' = up
    PROVE  IInv'
<1>1. /\ rules' = rules /\ slot' = slot /\ filled' = filled /\ subs' = subs
      /\ active' = active /\ serving' = serving /\ dispatcher' = dispatcher
      /\ closed' = closed /\ orphaned' = orphaned /\ crowded' = crowded
      /\ unserved' = unserved
      /\ Listed' = Listed /\ Made' = Made /\ Checking' = Checking /\ NoSubs' = NoSubs
      /\ \A r : ArmedBy(r)' = ArmedBy(r) /\ On(r)' = On(r) /\ (Reached(r)' <=> Reached(r))
      /\ \A r : Unlisted(r)' <=> Unlisted(r)
  BY DEF RulesKept, Listed, Made, Checking, NoSubs, ArmedBy, On, Reached, Unlisted
<1>2. TypeOK' /\ Places' /\ Room' /\ Stands'
  BY <1>1 DEF IInv, TypeOK, Places, Room, Stands
<1>3. Unused'
  BY <1>1 DEF IInv, Unused, Unlisted, NoSubs
<1>4. Crowds' /\ SubscriptionsExact'
  BY <1>1 DEF IInv, Crowds, SubscriptionsExact
<1>5. Silence' /\ Ended'
  BY <1>1 DEF IInv, Silence, Ended
<1>6. Tracked'
  BY <1>1 DEF IInv, Tracked
<1> QED
  BY <1>2, <1>3, <1>4, <1>5, <1>6 DEF IInv

LEMMA FriendChangeStep == IInv /\ FriendChange => IInv'
<1> SUFFICES ASSUME IInv, FriendChange PROVE IInv'
  OBVIOUS
<1>1. /\ up' \in SUBSET Sources /\ RulesKept /\ undisturbed \in BOOLEAN
  BY DEF FriendChange, RulesKept, dict, arms, dispatch, IInv, TypeOK
<1>2. CASE task["rearm"].at = "waiting"
  <2> DEFINE w == At("woken")
  <2>1. task' = [task EXCEPT !["rearm"] = w] /\ undisturbed' = undisturbed
    BY <1>2 DEF FriendChange
  <2>2. w \in TaskType /\ w.at = "woken" /\ w.rule = 0
    BY AtType
  <2> HIDE DEF w
  <2>3. /\ task' \in [Tasks -> TaskType] /\ task'["rearm"] = w
        /\ \A v \in Tasks \ {"rearm"} : task'[v] = task[v]
    BY <2>1, <2>2, TheTasks DEF IInv, TypeOK
  <2>4. Idles("rearm", w)
    BY <1>2, <2>2, <2>3, TheTasks DEF Idles, Where, Arming
  <2>5. /\ TypeOK' /\ Unused' /\ Stands' /\ Crowds' /\ SubscriptionsExact' /\ Silence'
    BY <1>1, <2>1, <2>4, IdlesKeeps
  <2>6. task["setup"].at = "done" /\ task'["setup"] = task["setup"]
    BY <1>2, <2>3, TheTasks DEF IInv, Places
  <2>7. Places'
    BY <2>2, <2>3, <2>6, TheTasks DEF IInv, Places, Where
  <2>8. Room'
    <3>1. Checking' = Checking
      BY <1>2, <2>2, <2>3, TheTasks DEF Checking
    <3> QED
      BY <1>1, <3>1 DEF IInv, Room, RulesKept
  <2>9. Ended'
    BY <1>1, <1>2 DEF IInv, Ended, RulesKept
  <2>10. \A r : ~Reached(r)'
    BY <2>2, <2>3, <2>6 DEF Reached, Arming
  <2>11. Tracked'
    BY <2>10 DEF Tracked
  <2> QED
    BY <2>5, <2>7, <2>8, <2>9, <2>11 DEF IInv
<1>3. CASE task["rearm"].at # "waiting"
  BY <1>1, <1>3, SameTasks DEF FriendChange
<1> QED
  BY <1>2, <1>3

LEMMA RearmWaitStep == IInv /\ RearmWait => IInv'
<1> SUFFICES ASSUME IInv, RearmWait PROVE IInv'
  OBVIOUS
<1>1. /\ up' = up /\ undisturbed' = undisturbed /\ RulesKept
      /\ task["rearm"].at = "created"
  BY DEF RearmWait, RulesKept, dict, arms, dispatch
<1> DEFINE w == At("waiting")
<1>2. task' = [task EXCEPT !["rearm"] = w]
  BY DEF RearmWait
<1>3. w \in TaskType /\ w.at = "waiting" /\ w.rule = 0
  BY AtType
<1> HIDE DEF w
<1>4. /\ task' \in [Tasks -> TaskType] /\ task'["rearm"] = w
      /\ \A v \in Tasks \ {"rearm"} : task'[v] = task[v]
  BY <1>2, <1>3, TheTasks DEF IInv, TypeOK
<1>5. Idles("rearm", w)
  BY <1>1, <1>3, <1>4, TheTasks DEF Idles, Where, Arming
<1>6. up \in SUBSET Sources /\ undisturbed \in BOOLEAN
  BY DEF IInv, TypeOK
<1>7. /\ TypeOK' /\ Unused' /\ Stands' /\ Crowds' /\ SubscriptionsExact' /\ Silence'
      /\ \A r : ArmedBy(r)' = ArmedBy(r) /\ On(r)' = On(r)
      /\ Listed' = Listed
  BY <1>1, <1>5, <1>6, IdlesKeeps
<1>8. task["setup"].at = "done" /\ task'["setup"] = task["setup"]
  BY <1>1, <1>4, TheTasks DEF IInv, Places
<1>9. Places'
  BY <1>3, <1>4, <1>8, TheTasks DEF IInv, Places, Where
<1>10. Room'
  <2>1. Checking' = Checking
    BY <1>1, <1>3, <1>4, TheTasks DEF Checking
  <2> QED
    BY <1>1, <2>1 DEF IInv, Room, RulesKept
<1>11. Ended'
  BY <1>1 DEF IInv, Ended, RulesKept
<1>12. Tracked'
  <2>1. \A r : Reached(r)
    BY <1>1, <1>8 DEF Reached
  <2>2. \A r : \A v \in ArmedBy(r) : task'[v] = task[v]
    BY <1>5 DEF ArmedBy, Idles
  <2> QED
    BY <1>1, <1>7, <2>1, <2>2 DEF IInv, Tracked, RulesKept
<1> QED
  BY <1>7, <1>9, <1>10, <1>11, <1>12 DEF IInv

LEMMA RegisterRefusedStep == ASSUME NEW u \in Users, IInv, RegisterRefused(u) PROVE IInv'
<1>0. u \in Tasks /\ u # "setup" /\ u # "rearm" /\ "setup" \in Tasks /\ "rearm" \in Tasks
  BY TheTasks
<1>1. /\ up' = up /\ undisturbed' = undisturbed /\ RulesKept
      /\ task[u].at = "checking"
  BY DEF RegisterRefused, RulesKept, dict, arms, dispatch
<1> DEFINE w == At("idle")
<1>2. task' = [task EXCEPT ![u] = w]
  BY DEF RegisterRefused
<1>3. w \in TaskType /\ w.at = "idle" /\ w.rule = 0
  BY AtType
<1> HIDE DEF w
<1>4. /\ task' \in [Tasks -> TaskType] /\ task'[u] = w
      /\ \A v \in Tasks \ {u} : task'[v] = task[v]
  BY <1>0, <1>2, <1>3 DEF IInv, TypeOK
<1>5. Idles(u, w)
  BY <1>0, <1>1, <1>3, <1>4 DEF Idles, Where, Arming
<1>6. up \in SUBSET Sources /\ undisturbed \in BOOLEAN
  BY DEF IInv, TypeOK
<1>7. /\ TypeOK' /\ Unused' /\ Stands' /\ Crowds' /\ SubscriptionsExact' /\ Silence'
      /\ \A r : ArmedBy(r)' = ArmedBy(r) /\ On(r)' = On(r)
      /\ Listed' = Listed
  BY <1>1, <1>5, <1>6, IdlesKeeps
<1>8. Places'
  BY <1>0, <1>3, <1>4, TheTasks DEF IInv, Places, Where
<1>9. Room'
  <2>1. Checking' = Checking \ {u} /\ u \in Checking
    BY <1>0, <1>1, <1>3, <1>4 DEF Checking
  <2>2. /\ IsFiniteSet(Checking \ {u})
        /\ Cardinality(Checking \ {u}) = Cardinality(Checking) - 1
    BY <2>1, FS_RemoveElement DEF IInv, Room
  <2>3. /\ Cardinality(Checking) \in Nat /\ Len(rules) \in Nat /\ filled \in Nat
    BY FS_CardinalityType, MadeSoFar, Bounds DEF IInv, Room, TypeOK
  <2> QED
    BY <1>1, <2>1, <2>2, <2>3 DEF IInv, Room, RulesKept
<1>10. Ended'
  BY <1>1 DEF IInv, Ended, RulesKept
<1>11. Tracked'
  <2>1. \A r : Reached(r)' <=> Reached(r)
    BY <1>0, <1>1, <1>4 DEF Reached, RulesKept
  <2>2. \A r : \A v \in ArmedBy(r) : task'[v] = task[v]
    BY <1>5 DEF ArmedBy, Idles
  <2> QED
    BY <1>1, <1>7, <2>1, <2>2 DEF IInv, Tracked, RulesKept
<1> QED
  BY <1>7, <1>8, <1>9, <1>10, <1>11 DEF IInv

-----------------------------------------------------------------------------
(* register_rule(), remove_rule() and teardown().                           *)

\* A rule is made, and is with the call that made it.
LEMMA RegisterStep ==
    ASSUME NEW u \in Users, NEW n \in Names, NEW persists \in BOOLEAN,
           IInv, Register(u, n, persists)
    PROVE  IInv'
<1> DEFINE new == Len(rules) + 1
           rule == [name |-> n, persistent |-> persists]
           w == [At("checking") EXCEPT !.rule = new]
<1>0. /\ u \in Tasks /\ u # "setup" /\ u # "rearm" /\ "setup" \in Tasks /\ "rearm" \in Tasks
  BY TheTasks
<1>1. /\ task[u].at = "idle" /\ ~closed /\ Len(rules) < MaxRules
      /\ rules' = Append(rules, rule) /\ task' = [task EXCEPT ![u] = w]
      /\ up' = up /\ slot' = slot /\ filled' = filled /\ subs' = subs /\ active' = active
      /\ serving' = serving /\ dispatcher' = dispatcher /\ closed' = closed
      /\ orphaned' = orphaned /\ unserved' = unserved
      /\ crowded' = crowded /\ undisturbed' = undisturbed
  BY DEF Register, dict, arms, dispatch
<1>2. /\ rules \in Seq([name : Names, persistent : BOOLEAN])
      /\ Len(rules) \in 0 .. MaxRules /\ Made = 1 .. Len(rules) /\ Made \subseteq Rules
  BY MadeSoFar DEF IInv, TypeOK
<1>3. /\ rules' \in Seq([name : Names, persistent : BOOLEAN])
      /\ Len(rules') = Len(rules) + 1 /\ Len(rules') <= MaxRules
      /\ \A r \in Made : rules'[r] = rules[r]
      /\ Made' = Made \cup {new} /\ new \in Rules \ Made /\ new # 0
  <2>1. rule \in [name : Names, persistent : BOOLEAN]
    OBVIOUS
  <2> HIDE DEF rule
  <2>2. /\ Append(rules, rule) \in Seq([name : Names, persistent : BOOLEAN])
        /\ Len(Append(rules, rule)) = Len(rules) + 1
        /\ \A r \in 1 .. Len(rules) : Append(rules, rule)[r] = rules[r]
    BY <1>2, <2>1, AppendProperties
  <2>3. DOMAIN rules' = 1 .. Len(rules) + 1
    BY <1>1, <2>2
  <2> QED
    BY <1>1, <1>2, <2>2, <2>3, Bounds DEF Made, Rules
<1>4. /\ w \in TaskType /\ w.at = "checking" /\ w.rule = new
  <2>1. At("checking") \in TaskType /\ At("checking").at = "checking"
    BY AtType
  <2>2. new \in 0 .. MaxRules
    BY <1>3, Bounds DEF Rules
  <2> HIDE DEF new
  <2> QED
    BY <2>1, <2>2 DEF TaskType
<1> HIDE DEF w, new, rule
<1>5. /\ task' \in [Tasks -> TaskType] /\ task'[u] = w
      /\ \A v \in Tasks \ {u} : task'[v] = task[v]
  BY <1>0, <1>1, <1>4 DEF IInv, TypeOK
<1>6. /\ Listed' = Listed /\ Listed \subseteq Made
  BY <1>1, ListedMade DEF Listed, IInv
<1>7. \A r : ArmedBy(r)' = ArmedBy(r) /\ On(r)' = On(r)
  BY <1>1, <1>4, <1>5 DEF ArmedBy, On, Arming
<1>8. TypeOK'
  <2>1. \A r, q \in Listed : slot[r] = slot[q] \/ rules'[r].name = rules'[q].name => r = q
    BY <1>3, <1>6 DEF IInv, TypeOK
  <2> QED
    BY <1>1, <1>3, <1>5, <1>6, <2>1 DEF IInv, TypeOK
<1>9. Places'
  BY <1>0, <1>1, <1>4, <1>5, TheTasks DEF IInv, Places, Where
<1>10. Unused'
  <2>1. \A r : Unlisted(r)' <=> Unlisted(r)
    BY <1>1 DEF Unlisted, NoSubs
  <2>2. Unlisted(new) /\ \A v \in Tasks : task[v].rule # new
    BY <1>3 DEF IInv, Unused
  <2>3. \A v \in Tasks : /\ task'[v].rule # 0 => task'[v].rule \in Made'
                         /\ task'[v].at \in Arming => task'[v].rule # 0
    BY <1>3, <1>4, <1>5 DEF IInv, Unused, Arming
  <2>4. ASSUME NEW v \in Tasks, task'[v].at = "checking"
        PROVE  /\ task'[v].rule # 0 /\ Unlisted(task'[v].rule)
               /\ \A y \in Tasks \ {v} : task'[y].rule # task'[v].rule
    <3>1. CASE v = u
      BY <1>3, <1>4, <1>5, <2>2, <3>1
    <3>2. CASE v # u
      <4>1. /\ task'[v] = task[v] /\ task[v].rule # 0 /\ Unlisted(task[v].rule)
            /\ \A y \in Tasks \ {v} : task[y].rule # task[v].rule
        BY <1>5, <2>4, <3>2 DEF IInv, Unused
      <4> QED
        BY <1>4, <1>5, <2>2, <4>1
    <3> QED
      BY <3>1, <3>2
  <2>5. \A r \in Rules \ Made' : Unlisted(r)
    BY <1>3 DEF IInv, Unused
  <2>6. \A v \in Tasks : task'[v].at = "checking" =>
            /\ task'[v].rule # 0 /\ Unlisted(task'[v].rule)
            /\ \A y \in Tasks \ {v} : task'[y].rule # task'[v].rule
    BY <2>4
  <2> HIDE DEF Unlisted
  <2> QED
    BY <1>1, <2>3, <2>5, <2>6 DEF Unused, Unlisted, NoSubs
<1>11. Room'
  <2>1. Checking' = Checking \cup {u} /\ u \notin Checking
    BY <1>0, <1>1, <1>4, <1>5 DEF Checking
  <2>2. /\ IsFiniteSet(Checking \cup {u})
        /\ Cardinality(Checking \cup {u}) = Cardinality(Checking) + 1
    BY <2>1, FS_AddElement DEF IInv, Room
  <2>3. /\ Cardinality(Checking) \in Nat /\ Len(rules) \in Nat /\ filled \in Nat
    BY <1>2, FS_CardinalityType, Bounds DEF IInv, Room, TypeOK
  <2> QED
    BY <1>1, <1>3, <2>1, <2>2, <2>3 DEF IInv, Room
<1>12. Stands'
  <2>1. task'["setup"] = task["setup"] /\ task'["rearm"] = task["rearm"]
    BY <1>0, <1>5
  <2> QED
    BY <1>1, <1>6, <2>1 DEF IInv, Stands, Arming
<1>13. Crowds'
  <2>1. \A r : \A v \in ArmedBy(r) : task'[v] = task[v]
    BY <1>1, <1>5 DEF ArmedBy, Arming
  <2> QED
    BY <1>1, <1>7, <2>1 DEF IInv, Crowds
<1>14. SubscriptionsExact'
  BY <1>1, <1>6, <1>7 DEF IInv, SubscriptionsExact, NoSubs
<1>15. Silence'
  <2>1. serving \subseteq Made
    BY DEF IInv, TypeOK
  <2> QED
    BY <1>1, <1>3, <1>6, <1>7, <2>1 DEF IInv, Silence, NoSubs
<1>16. Ended'
  BY <1>1 DEF Ended
<1>17. Tracked'
  <2> SUFFICES ASSUME undisturbed, NEW r \in Listed \ crowded, rules'[r].persistent,
                      Reached(r)'
               PROVE  /\ ArmedBy(r) = {} => On(r) = up
                      /\ \A v \in ArmedBy(r) :
                             task'[v].at = "subscribing" => On(r) \cup task'[v].todo = up
    BY <1>1, <1>6, <1>7 DEF Tracked
  <2>1. Reached(r)
    BY <1>0, <1>1, <1>5 DEF Reached
  <2>2. \A v \in ArmedBy(r) : task'[v] = task[v]
    BY <1>1, <1>5 DEF ArmedBy, Arming
  <2>3. rules[r].persistent
    BY <1>3, <1>6
  <2> QED
    BY <2>1, <2>2, <2>3 DEF IInv, Tracked
<1> QED
  BY <1>8, <1>9, <1>10, <1>11, <1>12, <1>13, <1>14, <1>15, <1>16, <1>17 DEF IInv

\* The rule that gets a name takes a slot no other rule keeps.
LEMMA SlotTaken ==
    ASSUME NEW u \in Users, IInv, RegisterListed(u)
    PROVE  LET r == task[u].rule
               old == Named(rules[r].name)
           IN  /\ r \in Rules /\ r \in Made /\ r \notin Listed /\ old \subseteq Listed
               /\ slot' \in [Rules -> 0 .. MaxRules]
               /\ filled' \in {filled, filled + 1} /\ filled' \in 0 .. MaxRules
               /\ Listed' = (Listed \ old) \cup {r}
               /\ \A q \in Listed \ old : slot'[q] = slot[q] /\ slot'[q] # slot'[r]
               /\ \A q \in Rules : slot'[q] <= filled'
<1> DEFINE r == task[u].rule
           old == Named(rules[r].name)
<1>0. u \in Tasks
  BY TheTasks
<1>1. /\ task[u].at = "checking"
      /\ IF old = {}
         THEN slot' = [slot EXCEPT ![r] = filled + 1] /\ filled' = filled + 1
         ELSE /\ slot' = [q \in Rules |-> CASE q = r -> slot[CHOOSE o \in old : TRUE]
                                            [] q \in old -> 0
                                            [] OTHER -> slot[q]]
              /\ filled' = filled
  BY DEF RegisterListed
<1>2. /\ r \in Rules /\ r \in Made /\ slot[r] = 0 /\ r \notin Listed
      /\ old \subseteq Listed /\ Listed \subseteq Rules
  BY <1>0, <1>1, MadeSoFar, ListedFinite DEF IInv, Unused, Unlisted, Named
<1>3. /\ slot \in [Rules -> 0 .. MaxRules] /\ filled \in 0 .. MaxRules /\ MaxRules \in Nat
      /\ \A q \in Rules : slot[q] \in Nat /\ slot[q] <= filled
      /\ \A q \in Rules : q \in Listed <=> slot[q] # 0
  BY Bounds, ListedFinite DEF IInv, TypeOK, Room
<1>4. filled + 1 <= MaxRules
  <2>1. u \in Checking
    BY <1>0, <1>1 DEF Checking
  <2>2. /\ IsFiniteSet(Checking) /\ filled + Cardinality(Checking) <= Len(rules)
        /\ Len(rules) <= MaxRules /\ Len(rules) \in Nat
    BY MadeSoFar DEF IInv, Room, TypeOK
  <2>3. Cardinality(Checking) \in Nat /\ Cardinality(Checking) # 0
    BY <2>1, <2>2, FS_CardinalityType, FS_EmptySet
  <2> QED
    BY <1>3, <2>2, <2>3
<1> HIDE DEF r, old
<1>5. CASE old = {}
  <2>1. slot' = [slot EXCEPT ![r] = filled + 1] /\ filled' = filled + 1
    BY <1>1, <1>5
  <2>2. /\ slot' \in [Rules -> 0 .. MaxRules] /\ slot'[r] = filled + 1
        /\ \A q \in Rules \ {r} : slot'[q] = slot[q]
    BY <1>2, <1>3, <1>4, <2>1
  <2>3. Listed' = Listed \cup {r}
    BY <1>2, <1>3, <2>2 DEF Listed
  <2>4. \A q \in Listed : slot'[q] = slot[q] /\ slot'[q] # slot'[r]
    BY <1>2, <1>3, <2>2
  <2>5. \A q \in Rules : slot'[q] <= filled'
    BY <1>2, <1>3, <2>1, <2>2
  <2> QED
    BY <1>2, <1>3, <1>4, <1>5, <2>1, <2>2, <2>3, <2>4, <2>5 DEF r, old
<1>6. CASE old # {}
  <2> DEFINE o == CHOOSE q \in old : TRUE
  <2>1. o \in old /\ o \in Listed /\ o \in Rules
    BY <1>2, <1>6
  <2>2. /\ filled' = filled
        /\ slot' = [q \in Rules |-> CASE q = r -> slot[o]
                                      [] q \in old -> 0
                                      [] OTHER -> slot[q]]
    BY <1>1, <1>6
  <2> HIDE DEF o
  <2>3. /\ slot'[r] = slot[o] /\ \A q \in old : slot'[q] = 0
        /\ \A q \in Rules \ (old \cup {r}) : slot'[q] = slot[q]
        /\ slot' \in [Rules -> 0 .. MaxRules]
    <3>1. r \notin old /\ old \subseteq Rules
      BY <1>2
    <3>2. \A q \in Rules : slot'[q] = CASE q = r -> slot[o]
                                        [] q \in old -> 0
                                        [] OTHER -> slot[q]
      BY <2>2
    <3>3. slot'[r] = slot[o]
      BY <1>2, <3>2
    <3>4. \A q \in old : slot'[q] = 0
      BY <3>1, <3>2
    <3>5. \A q \in Rules \ (old \cup {r}) : slot'[q] = slot[q]
      BY <3>2
    <3>6. \A q \in Rules : slot'[q] \in 0 .. MaxRules
      BY <1>3, <2>1, <3>3, <3>4, <3>5
    <3> QED
      BY <2>2, <3>3, <3>4, <3>5, <3>6
  <2>4. Listed' = (Listed \ old) \cup {r}
    <3>1. slot[o] # 0
      BY <1>3, <2>1
    <3> QED
      BY <1>2, <1>3, <2>3, <3>1 DEF Listed
  <2>5. \A q \in Listed \ old : slot'[q] = slot[q] /\ slot'[q] # slot'[r]
    <3>1. \A q \in Listed : slot[q] = slot[o] => q = o
      BY <2>1 DEF IInv, TypeOK
    <3> QED
      BY <1>2, <2>1, <2>3, <3>1
  <2>6. \A q \in Rules : slot'[q] <= filled'
    BY <1>3, <2>1, <2>2, <2>3
  <2> QED
    BY <1>2, <1>3, <2>2, <2>3, <2>4, <2>5, <2>6 DEF r, old
<1> QED
  BY <1>5, <1>6

LEMMA RuleListed ==
    ASSUME NEW u \in Users, IInv, RegisterListed(u),
           NEW r, r = task[u].rule, NEW n, n = rules[r].name, NEW old, old = Named(n)
    PROVE  IInv'
<1>0. /\ u \in Tasks /\ u # "setup" /\ u # "rearm" /\ "setup" \in Tasks /\ "rearm" \in Tasks
  BY TheTasks
<1>1. /\ r \in Rules /\ r \in Made /\ r \notin Listed /\ old \subseteq Listed
      /\ slot' \in [Rules -> 0 .. MaxRules]
      /\ filled' \in {filled, filled + 1} /\ filled' \in 0 .. MaxRules
      /\ Listed' = (Listed \ old) \cup {r}
      /\ \A q \in Listed \ old : slot'[q] = slot[q] /\ slot'[q] # slot'[r]
      /\ \A q \in Rules : slot'[q] <= filled'
  BY SlotTaken
<1>2. /\ task[u].at = "checking" /\ Crowding
      /\ rules' = rules /\ up' = up /\ subs' = subs /\ active' = active /\ closed' = closed
      /\ orphaned' = orphaned \cup old /\ undisturbed' = (undisturbed /\ SetupDone)
      /\ unserved' \in {unserved, unserved \cup {r}}
      /\ IF SetupDone
         THEN /\ serving' = serving \cup {r} /\ dispatcher' = [dispatcher EXCEPT ![n] = r]
              /\ task' = [task EXCEPT ![u].at = "resolving"]
         ELSE /\ task' = [task EXCEPT ![u] = At("idle")]
              /\ serving' = serving /\ dispatcher' = dispatcher
  BY DEF RegisterListed, arms, dispatch
<1>3. /\ n \in Names /\ Listed \subseteq Made /\ Listed \subseteq Rules
      /\ \A q \in Listed \ old : rules[q].name # n
  BY <1>1, MadeSoFar, ListedMade, ListedFinite DEF IInv, Named
<1>4. /\ Unlisted(r) /\ \A v \in Tasks \ {u} : task[v].rule # r
  BY <1>0, <1>2 DEF IInv, Unused
<1> DEFINE w == IF SetupDone THEN [task[u] EXCEPT !.at = "resolving"] ELSE At("idle")
<1>5. /\ w \in TaskType /\ w.at = (IF SetupDone THEN "resolving" ELSE "idle")
      /\ w.rule = (IF SetupDone THEN r ELSE 0)
  BY <1>0, TaskTyped, AtType DEF TaskType
<1>6. task' = [task EXCEPT ![u] = w]
  BY <1>2
<1> HIDE DEF w
<1>7. /\ task' \in [Tasks -> TaskType] /\ task'[u] = w
      /\ \A v \in Tasks \ {u} : task'[v] = task[v]
  BY <1>0, <1>5, <1>6 DEF IInv, TypeOK
<1>8. /\ serving' \subseteq serving \cup {r} /\ (r \in serving' => SetupDone)
      /\ dispatcher' \in [Names -> 0 .. MaxRules]
      /\ r \in serving' => dispatcher'[n] = r
      /\ \A m \in Names \ {n} : dispatcher'[m] = dispatcher[m]
  <2>1. /\ dispatcher \in [Names -> 0 .. MaxRules] /\ r \in 0 .. MaxRules
        /\ r \notin serving
    BY <1>1, <1>4, Bounds DEF IInv, TypeOK, Rules, Unlisted
  <2>2. CASE SetupDone
    BY <1>2, <1>3, <2>1, <2>2
  <2>3. CASE ~SetupDone
    BY <1>2, <2>1, <2>3
  <2> QED
    BY <2>2, <2>3
<1>9. \A q : q # r => (ArmedBy(q)' = ArmedBy(q) /\ u \notin ArmedBy(q))
  BY <1>2, <1>5, <1>7, Bounds, <1>1 DEF ArmedBy, Arming
<1>10. \A v \in ArmedBy(r)' : v = u /\ task'[v].at = "resolving"
  BY <1>4, <1>5, <1>7 DEF ArmedBy, Arming
<1>11. \A q : \A v \in ArmedBy(q) : task'[v] = task[v]
  BY <1>2, <1>7 DEF ArmedBy, Arming
<1>12. TypeOK'
  <2>1. \A q, p \in Listed' : slot'[q] = slot'[p] \/ rules[q].name = rules[p].name => q = p
    <3>1. rules[r].name = n
      OBVIOUS
    <3>2. \A q, p \in Listed \ old : slot'[q] = slot'[p] \/ rules[q].name = rules[p].name => q = p
      BY <1>1 DEF IInv, TypeOK
    <3>3. \A q \in Listed \ old : slot'[q] # slot'[r] /\ rules[q].name # rules[r].name
      BY <1>1, <1>3, <3>1
    <3> QED
      BY <1>1, <3>2, <3>3
  <2>2. serving' \subseteq Made /\ Made' = Made
    BY <1>1, <1>2, <1>8 DEF IInv, TypeOK, Made
  <2>3. {orphaned', unserved', crowded'} \subseteq SUBSET Rules
    BY <1>1, <1>2, <1>3 DEF IInv, TypeOK, Crowding
  <2>4. undisturbed' \in BOOLEAN
    BY <1>2 DEF IInv, TypeOK, SetupDone
  <2> QED
    BY <1>1, <1>2, <1>7, <1>8, <2>1, <2>2, <2>3, <2>4 DEF IInv, TypeOK
<1>13. Places'
  BY <1>0, <1>5, <1>7, TheTasks DEF IInv, Places, Where, SetupDone
<1>14. Unused'
  <2>1. ASSUME NEW q \in Rules, Unlisted(q), q # r PROVE Unlisted(q)'
    <3>1. q \notin Listed /\ q \notin Listed'
      BY <1>1, <2>1, ListedFinite DEF Unlisted, IInv
    <3>2. slot'[q] = 0
      BY <3>1 DEF Listed
    <3> QED
      BY <1>2, <1>8, <2>1, <3>2 DEF Unlisted, NoSubs
  <2>2. Made' = Made
    BY <1>2 DEF Made
  <2>3. \A q \in Rules \ Made : Unlisted(q)'
    BY <1>1, <2>1 DEF IInv, Unused
  <2>4. \A v \in Tasks : task'[v].rule \in {0, task[v].rule}
    BY <1>5, <1>7
  <2>5. \A v \in Tasks : /\ task'[v].rule # 0 => task'[v].rule \in Made
                         /\ task'[v].at \in Arming => task'[v].rule # 0
    BY <1>1, <1>5, <1>7, <2>4, Bounds DEF IInv, Unused, Arming
  <2>6. ASSUME NEW v \in Tasks, task'[v].at = "checking", NEW q, q = task'[v].rule
        PROVE  /\ q # 0 /\ Unlisted(q)'
               /\ \A y \in Tasks \ {v} : task'[y].rule # q
    <3>1. v # u /\ task'[v] = task[v]
      BY <1>5, <1>7, <2>6
    <3>2. /\ q # 0 /\ Unlisted(q) /\ q \in Made
          /\ \A y \in Tasks \ {v} : task[y].rule # q
      BY <2>6, <3>1 DEF IInv, Unused
    <3>3. q \in Rules /\ q # r
      BY <1>4, <2>6, <3>1, <3>2, MadeSoFar DEF IInv
    <3>4. Unlisted(q)'
      BY <2>1, <3>2, <3>3
    <3> QED
      BY <2>4, <3>1, <3>2, <3>4
  <2>7. \A v \in Tasks : task'[v].at = "checking" =>
            /\ task'[v].rule # 0
            /\ /\ slot'[task'[v].rule] = 0 /\ task'[v].rule \notin serving'
               /\ subs'[task'[v].rule] = NoSubs /\ ~active'[task'[v].rule]
            /\ \A y \in Tasks \ {v} : task'[y].rule # task'[v].rule
    BY <2>6 DEF Unlisted, NoSubs
  <2> QED
    BY <2>2, <2>3, <2>5, <2>7 DEF Unused, Unlisted, NoSubs
<1>15. Room'
  <2>1. Checking' = Checking \ {u} /\ u \in Checking
    BY <1>0, <1>2, <1>5, <1>7 DEF Checking
  <2>2. /\ IsFiniteSet(Checking \ {u})
        /\ Cardinality(Checking \ {u}) = Cardinality(Checking) - 1
    BY <2>1, FS_RemoveElement DEF IInv, Room
  <2>3. /\ Cardinality(Checking) \in Nat /\ Len(rules) \in Nat /\ filled \in Nat
    BY FS_CardinalityType, MadeSoFar, Bounds DEF IInv, Room, TypeOK
  <2> QED
    BY <1>1, <1>2, <2>1, <2>2, <2>3 DEF IInv, Room
<1>16. Stands'
  <2> SUFFICES ASSUME NEW v \in {"setup", "rearm"}, task'[v].at \in Arming,
                      task'[v].rule \in Listed'
               PROVE  slot'[task'[v].rule] = task'[v].slot
    BY DEF Stands, Arming
  <2>1. v \in Tasks /\ v # u /\ task'[v] = task[v]
    BY <1>0, <1>7
  <2>2. task[v].rule # r
    BY <1>4, <2>1
  <2>3. task[v].rule \in Listed \ old
    BY <1>1, <2>1, <2>2
  <2> QED
    BY <1>1, <2>1, <2>3 DEF IInv, Stands
<1>17. Crowds'
  <2> SUFFICES ASSUME NEW q \in Rules \ crowded', NEW v \in ArmedBy(q)'
               PROVE  /\ ArmedBy(q)' = {v}
                      /\ task'[v].at = "subscribing" =>
                             \A s \in task'[v].todo : subs'[q][s] = 0
    BY DEF Crowds
  <2>1. ArmedBy(q)' = {v}
    BY <1>2 DEF Crowding, ArmedBy
  <2>2. CASE q = r
    BY <1>10, <2>1, <2>2
  <2>3. CASE q # r
    <3>1. q \notin crowded /\ v \in ArmedBy(q) /\ task'[v] = task[v]
      BY <1>2, <1>9, <1>11, <2>3 DEF Crowding
    <3> QED
      BY <1>2, <2>1, <3>1 DEF IInv, Crowds
  <2> QED
    BY <2>2, <2>3
<1>18. SubscriptionsExact'
  <2>1. ASSUME NEW q \in Rules, ArmedBy(q)' = {}, q \in Listed' \/ ~closed
        PROVE  active'[q] = (subs'[q] # NoSubs)
    <3>1. CASE q = r
      BY <1>2, <1>4, <3>1 DEF Unlisted, IInv, TypeOK
    <3>2. CASE q # r
      BY <1>1, <1>2, <1>9, <2>1, <3>2 DEF IInv, SubscriptionsExact
    <3> QED
      BY <3>1, <3>2
  <2>2. ASSUME NEW q \in Rules, q \notin crowded', NEW s \in Sources
        PROVE  subs'[q][s] <= 1
    <3>1. q \notin crowded
      BY <1>2, <2>2 DEF Crowding
    <3> QED
      BY <1>2, <3>1 DEF IInv, SubscriptionsExact
  <2> QED
    BY <1>2, <2>1, <2>2 DEF SubscriptionsExact, NoSubs
<1>19. Silence'
  <2> SUFFICES ASSUME NEW q \in Rules \ orphaned'
               PROVE  /\ q \notin Listed' =>
                             ArmedBy(q)' = {} /\ subs'[q] = NoSubs /\ q \notin serving'
                      /\ q \in serving' => dispatcher'[rules[q].name] = q
    BY <1>2 DEF Silence, NoSubs
  <2>1. q \notin orphaned /\ q \notin old
    BY <1>2
  <2>2. CASE q = r
    BY <1>1, <1>8, <2>2
  <2>3. CASE q # r
    <3>1. q \in Listed' <=> q \in Listed
      BY <1>1, <2>1, <2>3
    <3>2. q \notin Listed => ArmedBy(q) = {} /\ subs[q] = NoSubs /\ q \notin serving
      BY <2>1 DEF IInv, Silence
    <3>3. ASSUME q \in serving' PROVE dispatcher'[rules[q].name] = q
      <4>1. q \in serving /\ q \in Listed \ old
        BY <1>8, <2>1, <2>3, <3>2, <3>3
      <4>2. rules[q].name \in Names \ {n}
        BY <1>3, <4>1, MadeSoFar DEF IInv
      <4> QED
        BY <1>8, <2>1, <4>1, <4>2 DEF IInv, Silence
    <3> QED
      BY <1>2, <1>8, <1>9, <2>3, <3>1, <3>2, <3>3
  <2> QED
    BY <2>2, <2>3
<1>20. Ended'
  <2>1. closed => orphaned = Rules
    BY <1>0, <1>2 DEF IInv, Ended
  <2>2. closed => orphaned' = Rules
    BY <1>2, <1>1, <1>3, <2>1
  <2> QED
    BY <1>2, <2>2 DEF Ended
<1>21. Tracked'
  <2> SUFFICES ASSUME undisturbed', NEW q \in Listed' \ crowded', rules[q].persistent,
                      Reached(q)'
               PROVE  /\ ArmedBy(q)' = {} => On(q)' = up
                      /\ \A v \in ArmedBy(q)' :
                             task'[v].at = "subscribing" => On(q)' \cup task'[v].todo = up
    BY <1>2 DEF Tracked
  <2>1. undisturbed /\ SetupDone
    BY <1>2
  <2>2. CASE q = r
    <3>1. u \in ArmedBy(r)'
      BY <1>0, <1>5, <1>7, <2>1 DEF ArmedBy, Arming
    <3> QED
      BY <1>10, <2>2, <3>1
  <2>3. CASE q # r
    <3>1. q \in Listed \ old /\ slot'[q] = slot[q] /\ q \notin crowded
      BY <1>1, <1>2, <2>3 DEF Crowding
    <3>2. Reached(q)
      BY <1>0, <1>7, <3>1 DEF Reached
    <3>3. /\ ArmedBy(q) = {} => On(q) = up
          /\ \A v \in ArmedBy(q) : task[v].at = "subscribing" => On(q) \cup task[v].todo = up
      BY <2>1, <3>1, <3>2 DEF IInv, Tracked
    <3>4. On(q)' = On(q)
      BY <1>2 DEF On
    <3> QED
      BY <1>9, <1>11, <2>3, <3>3, <3>4
  <2> QED
    BY <2>2, <2>3
<1> QED
  BY <1>12, <1>13, <1>14, <1>15, <1>16, <1>17, <1>18, <1>19, <1>20, <1>21 DEF IInv

LEMMA RegisterListedStep == ASSUME NEW u \in Users, IInv, RegisterListed(u) PROVE IInv'
BY RuleListed

\* A rule is removed: nothing is left of it but the task that arms it.
LEMMA RuleRemoved ==
    ASSUME NEW r \in Rules, NEW n, n = rules[r].name, IInv, Remove(r)
    PROVE  IInv'
<1>1. /\ r \in Listed /\ ~closed
      /\ slot' = [slot EXCEPT ![r] = 0] /\ subs' = [subs EXCEPT ![r] = NoSubs]
      /\ active' = [active EXCEPT ![r] = FALSE]
      /\ serving' = serving \ {dispatcher[n]} /\ dispatcher' = [dispatcher EXCEPT ![n] = 0]
      /\ orphaned' = IF ArmedBy(r) = {} THEN orphaned ELSE orphaned \cup {r}
      /\ unserved' = unserved
      /\ up' = up /\ rules' = rules /\ filled' = filled /\ task' = task
      /\ closed' = closed /\ crowded' = crowded /\ undisturbed' = undisturbed
  BY DEF Remove
<1>2. /\ slot \in [Rules -> 0 .. MaxRules] /\ subs \in [Rules -> [Sources -> Nat]]
      /\ active \in [Rules -> BOOLEAN] /\ dispatcher \in [Names -> 0 .. MaxRules]
      /\ NoSubs \in [Sources -> Nat] /\ MaxRules \in Nat
  BY Bounds DEF IInv, TypeOK, NoSubs
<1>3. /\ slot' \in [Rules -> 0 .. MaxRules] /\ slot'[r] = 0
      /\ subs' \in [Rules -> [Sources -> Nat]] /\ subs'[r] = NoSubs
      /\ active' \in [Rules -> BOOLEAN] /\ active'[r] = FALSE
      /\ \A q \in Rules \ {r} :
             slot'[q] = slot[q] /\ subs'[q] = subs[q] /\ active'[q] = active[q]
  BY <1>1, <1>2
<1>4. /\ Listed \subseteq Made /\ Made \subseteq Rules /\ Made' = Made
      /\ Listed' = Listed \ {r} /\ \A q \in Made : rules[q].name \in Names
  <2>1. /\ Listed \subseteq Made /\ Made \subseteq Rules /\ Made' = Made
        /\ \A q \in Made : rules[q].name \in Names
    BY <1>1, ListedMade, MadeSoFar DEF IInv, Made
  <2>2. Listed' = Listed \ {r}
    BY <1>3 DEF Listed
  <2> QED
    BY <2>1, <2>2
<1>5. /\ n \in Names /\ serving' \subseteq serving /\ dispatcher' \in [Names -> 0 .. MaxRules]
      /\ \A m \in Names \ {n} : dispatcher'[m] = dispatcher[m]
      /\ orphaned \subseteq orphaned' /\ orphaned' \subseteq orphaned \cup {r}
  BY <1>1, <1>2, <1>4
<1>6. /\ \A q : ArmedBy(q)' = ArmedBy(q)
      /\ \A q \in Rules \ {r} : On(q)' = On(q) /\ (Reached(q)' <=> Reached(q))
      /\ NoSubs' = NoSubs /\ Checking' = Checking
  BY <1>1, <1>3 DEF ArmedBy, On, Reached, NoSubs, Checking
<1>7. TypeOK'
  <2>1. \A q, p \in Listed' : slot'[q] = slot'[p] \/ rules[q].name = rules[p].name => q = p
    <3>1. Listed' \subseteq Rules \ {r} /\ Listed' \subseteq Listed
      BY <1>4
    <3>2. \A q \in Listed' : slot'[q] = slot[q]
      BY <1>3, <3>1
    <3> QED
      BY <3>1, <3>2 DEF IInv, TypeOK
  <2>2. orphaned' \subseteq Rules /\ serving' \subseteq Made
    BY <1>5 DEF IInv, TypeOK
  <2> QED
    BY <1>1, <1>3, <1>4, <1>5, <2>1, <2>2 DEF IInv, TypeOK
<1>8. Places'
  BY <1>1 DEF IInv, Places
<1>9. Unused'
  <2>1. ASSUME NEW q \in Rules, Unlisted(q) PROVE Unlisted(q)'
    <3>1. q # r
      BY <1>1, <2>1 DEF Unlisted, Listed
    <3> QED
      BY <1>3, <1>5, <1>6, <2>1, <3>1 DEF Unlisted
  <2>2. \A q \in Rules \ Made : Unlisted(q)'
    BY <2>1 DEF IInv, Unused
  <2>3. ASSUME NEW t \in Tasks, task[t].at = "checking", NEW q, q = task[t].rule
        PROVE  /\ q # 0 /\ Unlisted(q)'
               /\ \A v \in Tasks \ {t} : task[v].rule # q
    <3>1. q # 0 /\ Unlisted(q) /\ q \in Made /\ \A v \in Tasks \ {t} : task[v].rule # q
      BY <2>3 DEF IInv, Unused
    <3> QED
      BY <1>4, <2>1, <3>1
  <2>4. \A t \in Tasks : task[t].at = "checking" =>
            /\ task[t].rule # 0
            /\ /\ slot'[task[t].rule] = 0 /\ task[t].rule \notin serving'
               /\ subs'[task[t].rule] = NoSubs /\ ~active'[task[t].rule]
            /\ \A v \in Tasks \ {t} : task[v].rule # task[t].rule
    BY <2>3 DEF Unlisted, NoSubs
  <2>5. \A t \in Tasks : /\ task[t].rule # 0 => task[t].rule \in Made
                         /\ task[t].at \in Arming => task[t].rule # 0
    BY DEF IInv, Unused
  <2> QED
    BY <1>1, <1>4, <2>2, <2>4, <2>5 DEF Unused, Unlisted, NoSubs
<1>10. Room'
  <2>1. \A q \in Rules : slot'[q] <= filled
    BY <1>2, <1>3 DEF IInv, Room, TypeOK
  <2> QED
    BY <1>1, <1>6, <2>1 DEF IInv, Room
<1>11. Stands'
  <2>1. \A q \in Listed' : q \in Listed /\ slot'[q] = slot[q]
    BY <1>3, <1>4
  <2> QED
    BY <1>1, <2>1 DEF IInv, Stands, Arming
<1>12. Crowds'
  <2> SUFFICES ASSUME NEW q \in Rules \ crowded, NEW t \in ArmedBy(q)
               PROVE  /\ ArmedBy(q) = {t}
                      /\ task[t].at = "subscribing" =>
                             \A s \in task[t].todo : subs'[q][s] = 0
    BY <1>1, <1>6 DEF Crowds
  <2>1. /\ ArmedBy(q) = {t}
        /\ task[t].at = "subscribing" => \A s \in task[t].todo : subs[q][s] = 0
    BY DEF IInv, Crowds
  <2>2. task[t].todo \subseteq Sources
    BY TaskTyped DEF ArmedBy
  <2> QED
    BY <1>3, <2>1, <2>2 DEF NoSubs
<1>13. SubscriptionsExact'
  <2>1. ASSUME NEW q \in Rules, ArmedBy(q) = {}, q \in Listed' \/ ~closed
        PROVE  active'[q] = (subs'[q] # NoSubs)
    BY <1>1, <1>3, <2>1 DEF IInv, SubscriptionsExact
  <2>2. ASSUME NEW q \in Rules, q \notin crowded, NEW s \in Sources
        PROVE  subs'[q][s] <= 1
    <3>1. CASE q = r
      BY <1>3, <2>2, <3>1 DEF NoSubs
    <3>2. CASE q # r
      BY <1>3, <2>2, <3>2 DEF IInv, SubscriptionsExact
    <3> QED
      BY <3>1, <3>2
  <2> QED
    BY <1>1, <1>6, <2>1, <2>2 DEF SubscriptionsExact
<1>14. Silence'
  <2> SUFFICES ASSUME NEW q \in Rules \ orphaned'
               PROVE  /\ q \notin Listed' =>
                             ArmedBy(q) = {} /\ subs'[q] = NoSubs /\ q \notin serving'
                      /\ q \in serving' => dispatcher'[rules[q].name] = q
    BY <1>1, <1>6 DEF Silence
  <2>1. /\ q \notin orphaned
        /\ q \notin Listed => ArmedBy(q) = {} /\ subs[q] = NoSubs /\ q \notin serving
        /\ q \in serving => dispatcher[rules[q].name] = q
    BY <1>5 DEF IInv, Silence
  <2>2. CASE q = r
    <3>1. ArmedBy(q) = {}
      BY <1>1, <2>2
    <3>2. q \notin serving'
      BY <1>1, <2>1, <2>2
    <3> QED
      BY <1>3, <2>2, <3>1, <3>2
  <2>3. CASE q # r
    <3>1. q \notin Listed' => ArmedBy(q) = {} /\ subs'[q] = NoSubs /\ q \notin serving'
      BY <1>3, <1>4, <1>5, <2>1, <2>3
    <3>2. ASSUME q \in serving' PROVE dispatcher'[rules[q].name] = q
      <4>1. q \in serving /\ q \in Listed
        BY <1>5, <2>1, <3>2
      <4>2. rules[q].name # n /\ rules[q].name \in Names
        BY <1>1, <1>4, <2>3, <4>1 DEF IInv, TypeOK
      <4> QED
        BY <1>5, <2>1, <4>1, <4>2
    <3> QED
      BY <3>1, <3>2
  <2> QED
    BY <2>2, <2>3
<1>15. Ended'
  BY <1>1 DEF Ended
<1>16. Tracked'
  <2> SUFFICES ASSUME undisturbed, NEW q \in Listed' \ crowded, rules[q].persistent,
                      Reached(q)'
               PROVE  /\ ArmedBy(q) = {} => On(q)' = up
                      /\ \A t \in ArmedBy(q) :
                             task[t].at = "subscribing" => On(q)' \cup task[t].todo = up
    BY <1>1, <1>6 DEF Tracked
  <2>1. q \in Listed /\ q \in Rules \ {r}
    BY <1>4
  <2> QED
    BY <1>6, <2>1 DEF IInv, Tracked
<1> QED
  BY <1>7, <1>8, <1>9, <1>10, <1>11, <1>12, <1>13, <1>14, <1>15, <1>16 DEF IInv

LEMMA RemoveStep == ASSUME NEW r \in Rules, IInv, Remove(r) PROVE IInv'
BY RuleRemoved

\* teardown() leaves no rule subscribed and no dispatcher that a name leads to;
\* what a register_rule() still under way does afterwards is its own.
LEMMA TeardownStep == IInv /\ Teardown => IInv'
<1> SUFFICES ASSUME IInv, Teardown PROVE IInv'
  OBVIOUS
<1>0. "setup" \in Tasks /\ "rearm" \in Tasks
  BY TheTasks
<1> DEFINE w == At("none")
<1>1. /\ task["setup"].at \in {"done", "broken"} /\ ~closed /\ closed'
      /\ task' = [task EXCEPT !["rearm"] = w]
      /\ serving' = serving \ {dispatcher[n] : n \in Names}
      /\ dispatcher' = [n \in Names |-> 0]
      /\ subs' = [r \in Rules |-> IF r \in Listed THEN NoSubs ELSE subs[r]]
      /\ active' = [r \in Rules |-> active[r] /\ r \notin Listed]
      /\ orphaned' = IF \A u \in Users : task[u].at = "idle" THEN orphaned ELSE Rules
      /\ unserved' = unserved
      /\ undisturbed' = FALSE /\ closed' = TRUE
      /\ up' = up /\ rules' = rules /\ slot' = slot /\ filled' = filled /\ crowded' = crowded
  BY DEF Teardown, dict
<1>2. w \in TaskType /\ w.at = "none" /\ w.rule = 0
  BY AtType
<1> HIDE DEF w
<1>3. /\ task' \in [Tasks -> TaskType] /\ task'["rearm"] = w
      /\ \A v \in Tasks \ {"rearm"} : task'[v] = task[v]
  BY <1>0, <1>1, <1>2 DEF IInv, TypeOK
<1>4. /\ Listed' = Listed /\ Made' = Made /\ Listed \subseteq Rules /\ NoSubs' = NoSubs
  BY <1>1 DEF Listed, Made, NoSubs
<1>5. /\ subs' \in [Rules -> [Sources -> Nat]] /\ active' \in [Rules -> BOOLEAN]
      /\ \A r \in Listed : subs'[r] = NoSubs /\ active'[r] = FALSE
      /\ \A r \in Rules \ Listed : subs'[r] = subs[r] /\ active'[r] = active[r]
  <2>1. NoSubs \in [Sources -> Nat]
    BY DEF NoSubs
  <2>2. \A r \in Rules : subs[r] \in [Sources -> Nat] /\ active[r] \in BOOLEAN
    BY DEF IInv, TypeOK
  <2>3. subs' \in [Rules -> [Sources -> Nat]]
    BY <1>1, <2>1, <2>2
  <2>4. active' \in [Rules -> BOOLEAN]
    BY <1>1, <2>2
  <2>5. \A r \in Listed : subs'[r] = NoSubs /\ active'[r] = FALSE
    BY <1>1, <1>4
  <2>6. \A r \in Rules \ Listed : subs'[r] = subs[r] /\ active'[r] = active[r]
    BY <1>1, <2>2
  <2> QED
    BY <2>3, <2>4, <2>5, <2>6
<1>6. /\ \A r : r # 0 => ArmedBy(r)' = ArmedBy(r) \ {"rearm"}
      /\ Checking' = Checking
  <2>1. task["rearm"].at # "checking"
    BY <1>0 DEF IInv, Places, Where
  <2> QED
    BY <1>0, <1>2, <1>3, <2>1 DEF ArmedBy, Checking, Arming
<1>7. TypeOK'
  <2>1. dispatcher' \in [Names -> 0 .. MaxRules]
    BY <1>1, Bounds
  <2>2. orphaned' \in SUBSET Rules /\ serving' \in SUBSET Made /\ unserved' \in SUBSET Rules
    BY <1>1 DEF IInv, TypeOK
  <2>3. /\ up \in SUBSET Sources /\ rules \in Seq([name : Names, persistent : BOOLEAN])
        /\ Len(rules) <= MaxRules /\ slot \in [Rules -> 0 .. MaxRules]
        /\ filled \in 0 .. MaxRules /\ crowded \in SUBSET Rules
        /\ \A r, q \in Listed : slot[r] = slot[q] \/ rules[r].name = rules[q].name => r = q
    BY DEF IInv, TypeOK
  <2>4. closed' \in BOOLEAN /\ undisturbed' \in BOOLEAN
    BY <1>1
  <2>5. up' = up /\ rules' = rules /\ slot' = slot /\ filled' = filled /\ crowded' = crowded
    BY <1>1
  <2> QED
    BY <1>3, <1>4, <1>5, <2>1, <2>2, <2>3, <2>4, <2>5 DEF TypeOK
<1>8. Places'
  <2>1. "setup" \notin Users /\ "rearm" \notin Users /\ Users \subseteq Tasks
    BY TheTasks
  <2> QED
    BY <1>0, <1>2, <1>3, <2>1 DEF IInv, Places, Where
<1>9. Unused'
  <2>1. ASSUME NEW q \in Rules, Unlisted(q) PROVE Unlisted(q)'
    <3>1. q \notin Listed
      BY <2>1 DEF Unlisted, Listed
    <3> QED
      BY <1>1, <1>4, <1>5, <2>1, <3>1 DEF Unlisted
  <2>2. \A q \in Rules \ Made : Unlisted(q)'
    BY <2>1 DEF IInv, Unused
  <2>3. \A v \in Tasks : \/ task'[v] = task[v]
                         \/ v = "rearm" /\ task'[v].at = "none" /\ task'[v].rule = 0
    BY <1>2, <1>3
  <2>4. ASSUME NEW t \in Tasks, task'[t].at = "checking", NEW q, q = task'[t].rule
        PROVE  /\ q # 0 /\ Unlisted(q)'
               /\ \A v \in Tasks \ {t} : task'[v].rule # q
    <3>1. task'[t] = task[t]
      BY <2>3, <2>4
    <3>2. q # 0 /\ Unlisted(q) /\ q \in Made /\ \A v \in Tasks \ {t} : task[v].rule # q
      BY <2>4, <3>1 DEF IInv, Unused
    <3>3. q \in Rules
      BY <3>2, MadeSoFar DEF IInv
    <3> QED
      BY <2>1, <2>3, <3>2, <3>3
  <2>5. \A t \in Tasks : task'[t].at = "checking" =>
            /\ task'[t].rule # 0
            /\ /\ slot'[task'[t].rule] = 0 /\ task'[t].rule \notin serving'
               /\ subs'[task'[t].rule] = NoSubs /\ ~active'[task'[t].rule]
            /\ \A v \in Tasks \ {t} : task'[v].rule # task'[t].rule
    BY <2>4 DEF Unlisted, NoSubs
  <2>6. \A t \in Tasks : /\ task'[t].rule # 0 => task'[t].rule \in Made
                         /\ task'[t].at \in Arming => task'[t].rule # 0
    BY <2>3 DEF IInv, Unused, Arming
  <2> QED
    BY <1>4, <2>2, <2>5, <2>6 DEF Unused, Unlisted, NoSubs
<1>10. Room'
  BY <1>1, <1>6 DEF IInv, Room
<1>11. Stands'
  <2>1. task'["setup"] = task["setup"]
    BY <1>0, <1>3
  <2> QED
    BY <1>1, <1>2, <1>3, <2>1 DEF Stands, Arming
<1>12. Crowds'
  <2> SUFFICES ASSUME NEW q \in Rules \ crowded, NEW t \in ArmedBy(q)'
               PROVE  /\ ArmedBy(q)' = {t}
                      /\ task'[t].at = "subscribing" =>
                             \A s \in task'[t].todo : subs'[q][s] = 0
    BY <1>1 DEF Crowds
  <2>0. q # 0
    BY Bounds
  <2>1. t \in ArmedBy(q) /\ t # "rearm" /\ t \in Tasks /\ task'[t] = task[t]
    BY <1>3, <1>6, <2>0 DEF ArmedBy
  <2>2. /\ ArmedBy(q) = {t}
        /\ task[t].at = "subscribing" => \A s \in task[t].todo : subs[q][s] = 0
    BY <2>1 DEF IInv, Crowds
  <2>3. ArmedBy(q)' = {t}
    BY <1>6, <2>0, <2>1, <2>2
  <2>4. task[t].todo \subseteq Sources
    BY <2>1, TaskTyped DEF ArmedBy
  <2> QED
    BY <1>5, <2>1, <2>2, <2>3, <2>4 DEF NoSubs
<1>13. SubscriptionsExact'
  <2>1. \A q \in Listed : active'[q] = (subs'[q] # NoSubs)
    BY <1>5
  <2>2. ASSUME NEW q \in Rules, q \notin crowded, NEW s \in Sources
        PROVE  subs'[q][s] <= 1
    <3>1. CASE q \in Listed
      BY <1>5, <2>2, <3>1 DEF NoSubs
    <3>2. CASE q \notin Listed
      BY <1>5, <2>2, <3>2 DEF IInv, SubscriptionsExact
    <3> QED
      BY <3>1, <3>2
  <2> QED
    BY <1>1, <1>4, <2>1, <2>2 DEF SubscriptionsExact
<1>14. ASSUME NEW q \in Rules \ orphaned'
       PROVE  subs'[q] = NoSubs /\ q \notin serving'
  <2>1. q \notin orphaned
    BY <1>1
  <2>2. /\ q \notin Listed => subs[q] = NoSubs /\ q \notin serving
        /\ q \in serving => dispatcher[rules[q].name] = q
    BY <2>1 DEF IInv, Silence
  <2>3. subs'[q] = NoSubs
    BY <1>5, <2>2
  <2>4. q \in serving => rules[q].name \in Names
    BY MadeSoFar DEF IInv, TypeOK
  <2> QED
    BY <1>1, <2>2, <2>3, <2>4
<1>15. Silence'
  <2>1. ASSUME NEW q \in Rules \ orphaned', q \notin Listed
        PROVE  ArmedBy(q)' = {}
    <3>1. ArmedBy(q) = {} /\ q # 0
      BY <1>1, <2>1, Bounds DEF IInv, Silence
    <3> QED
      BY <1>6, <3>1
  <2> QED
    BY <1>4, <1>14, <2>1 DEF Silence
<1>16. Ended'
  <2>1. CASE \A u \in Users : task[u].at = "idle"
    <3>1. \A u \in Users : task'[u].at = "idle"
      BY <1>3, <2>1, TheTasks
    <3>2. task'["rearm"].at = "none" /\ task'["setup"].at \in {"done", "broken"}
      BY <1>0, <1>1, <1>2, <1>3
    <3> QED
      BY <1>4, <1>14, <3>1, <3>2 DEF Ended
  <2>2. CASE ~(\A u \in Users : task[u].at = "idle")
    BY <1>1, <2>2 DEF Ended
  <2> QED
    BY <2>1, <2>2
<1>17. Tracked'
  BY <1>1 DEF Tracked
<1> QED
  BY <1>7, <1>8, <1>9, <1>10, <1>11, <1>12, <1>13, <1>15, <1>16, <1>17 DEF IInv

-----------------------------------------------------------------------------
(* The theorems.                                                           *)

LEMMA StutterStep == IInv /\ UNCHANGED vars => IInv'
<1> SUFFICES ASSUME IInv, UNCHANGED vars PROVE IInv'
  OBVIOUS
<1>1. RulesKept /\ task' = task /\ up' = up /\ undisturbed' = undisturbed
  BY DEF vars, RulesKept
<1>2. up \in SUBSET Sources /\ undisturbed \in BOOLEAN
  BY DEF IInv, TypeOK
<1> QED
  BY <1>1, <1>2, SameTasks

LEMMA InitInv == Init => IInv
<1> SUFFICES ASSUME Init PROVE IInv
  OBVIOUS
<1>1. /\ Configured \in 0 .. MaxRules /\ MaxRules \in Nat
      /\ rules \in [1 .. Configured -> [name : Names, persistent : BOOLEAN]]
      /\ \A r, q \in Made : rules[r].name = rules[q].name => r = q
      /\ slot = [r \in Rules |-> IF r \in Made THEN r ELSE 0] /\ filled = Configured
      /\ subs = [r \in Rules |-> NoSubs] /\ active = [r \in Rules |-> FALSE]
      /\ serving = {} /\ dispatcher = [n \in Names |-> 0] /\ closed = FALSE
      /\ orphaned = {} /\ unserved = {} /\ crowded = {} /\ undisturbed = FALSE
      /\ up \in SUBSET Sources
  BY BoundAssumption DEF Init
<1>2. \A t \in Tasks :
          /\ task[t] = At(task[t].at) /\ task[t] \in TaskType /\ task[t].rule = 0
          /\ task[t].at = CASE t = "setup" -> "new"
                            [] t = "rearm" -> "none"
                            [] OTHER       -> "idle"
  BY AtType DEF Init
<1>3. task \in [Tasks -> TaskType]
  BY <1>2 DEF Init
<1>4. Made = 1 .. Configured /\ Made \subseteq Rules /\ Len(rules) = Configured
      /\ rules \in Seq([name : Names, persistent : BOOLEAN])
  <2>1. Configured \in Nat /\ Configured <= MaxRules /\ DOMAIN rules = 1 .. Configured
    BY <1>1
  <2>2. rules \in Seq([name : Names, persistent : BOOLEAN])
    <3> DEFINE S == [name : Names, persistent : BOOLEAN]
    <3>1. rules \in [1 .. Configured -> S]
      BY <1>1
    <3> HIDE DEF S
    <3>2. rules \in Seq(S)
      BY <2>1, <3>1, SeqDef
    <3> QED
      BY <3>2 DEF S
  <2>3. Len(rules) = Configured
    BY <2>1, <2>2
  <2>4. Made \subseteq Rules
    BY <1>1, <2>1 DEF Made, Rules
  <2> QED
    BY <2>1, <2>2, <2>3, <2>4 DEF Made
<1>5. /\ slot \in [Rules -> 0 .. MaxRules] /\ \A r \in Rules : slot[r] <= filled
      /\ \A r \in Rules : slot[r] = IF r \in Made THEN r ELSE 0
  BY <1>1, <1>4 DEF Rules
<1>6. Listed = Made
  BY <1>4, <1>5, Bounds DEF Listed
<1>7. /\ subs \in [Rules -> [Sources -> Nat]] /\ NoSubs \in [Sources -> Nat]
      /\ \A r \in Rules : subs[r] = NoSubs /\ ~active[r] /\ active[r] = FALSE
  BY <1>1 DEF NoSubs
<1>8. \A r : ArmedBy(r) = {}
  BY <1>2 DEF ArmedBy, Arming
<1>9. TypeOK
  <2>1. \A r, q \in Listed : slot[r] = slot[q] \/ rules[r].name = rules[q].name => r = q
    BY <1>1, <1>4, <1>5, <1>6
  <2>2. dispatcher \in [Names -> 0 .. MaxRules] /\ active \in [Rules -> BOOLEAN]
    BY <1>1
  <2>3. closed \in BOOLEAN /\ undisturbed \in BOOLEAN
    BY <1>1
  <2>4. Len(rules) <= MaxRules /\ filled \in 0 .. MaxRules
    BY <1>1, <1>4
  <2>5. /\ {orphaned, unserved, crowded} \subseteq SUBSET Rules
        /\ serving \in SUBSET Made /\ up \in SUBSET Sources
    BY <1>1
  <2> QED
    BY <1>3, <1>4, <1>5, <1>7, <2>1, <2>2, <2>3, <2>4, <2>5 DEF TypeOK
<1>10. Places
  BY <1>2, TheTasks DEF Places, Where
<1>11. Unused
  <2>1. \A r \in Rules \ Made : Unlisted(r)
    BY <1>1, <1>5, <1>7 DEF Unlisted
  <2> QED
    BY <1>2, <2>1 DEF Unused, Arming
<1>12. Room
  <2>1. Checking = {}
    BY <1>2 DEF Checking
  <2> QED
    BY <1>1, <1>4, <1>5, <2>1, FS_EmptySet DEF Room
<1>13. Stands
  BY <1>2, TheTasks DEF Stands, Arming
<1>14. Crowds
  BY <1>8 DEF Crowds
<1>15. SubscriptionsExact
  <2>1. \A r \in Rules : \A s \in Sources : subs[r][s] <= 1
    BY <1>7 DEF NoSubs
  <2>2. \A r \in Rules : active[r] = (subs[r] # NoSubs)
    BY <1>7
  <2> QED
    BY <2>1, <2>2 DEF SubscriptionsExact
<1>16. Silence
  BY <1>1, <1>7, <1>8 DEF Silence
<1>17. Ended /\ Tracked
  BY <1>1 DEF Ended, Tracked
<1> QED
  BY <1>9, <1>10, <1>11, <1>12, <1>13, <1>14, <1>15, <1>16, <1>17 DEF IInv

LEMMA NextInv == IInv /\ [Next]_vars => IInv'
<1> SUFFICES ASSUME IInv, [Next]_vars PROVE IInv'
  OBVIOUS
<1>1. CASE FriendChange
  BY <1>1, FriendChangeStep
<1>2. CASE SetupStart
  BY <1>2, SetupStartStep
<1>3. CASE RearmWait
  BY <1>3, RearmWaitStep
<1>4. CASE RearmStart
  BY <1>4, RearmStartStep
<1>5. CASE RearmNext
  BY <1>5, RearmNextStep
<1>6. CASE \E t \in Tasks : Arm(t)
  BY <1>6, ArmResolvedStep, ArmSubscribedStep DEF Arm
<1>7. CASE \E u \in Users : Call(u)
  BY <1>7, RegisterStep, RegisterRefusedStep, RegisterListedStep DEF Call
<1>8. CASE \E r \in Rules : Remove(r)
  BY <1>8, RemoveStep
<1>9. CASE Teardown
  BY <1>9, TeardownStep
<1>10. CASE UNCHANGED vars
  BY <1>10, StutterStep
<1> QED
  BY <1>1, <1>2, <1>3, <1>4, <1>5, <1>6, <1>7, <1>8, <1>9, <1>10 DEF Next

-----------------------------------------------------------------------------
(* Who has a dispatcher.                                                    *)

\* The dispatcher kept under a name is one of a rule of that name; once setup()
\* has made dispatchers, every rule that is there has its own, except those
\* that were listed while it was arming.
Served ==
    /\ \A n \in Names : dispatcher[n] # 0 =>
           dispatcher[n] \in Made /\ rules[dispatcher[n]].name = n
    /\ task["setup"].at # "new" /\ ~closed =>
           \A r \in Listed \ unserved : r \in serving /\ dispatcher[rules[r].name] = r

LEMMA ServedInit == Init => Served
BY TheTasks DEF Init, Served, At

\* A step that changes neither the rules nor their dispatchers.
LEMMA ServedOn ==
    ASSUME IInv, Served, UNCHANGED <<rules, slot, serving, dispatcher, unserved, closed>>,
           task'["setup"].at # "new" => task["setup"].at # "new"
    PROVE  Served'
BY DEF Served, Listed, Made

\* setup() makes a dispatcher for every rule that is listed.
LEMMA ServedStart == ASSUME IInv, SetupStart PROVE Served'
<1>1. /\ serving' = Listed
      /\ dispatcher' = [n \in Names |-> IF Named(n) = {} THEN 0
                                        ELSE CHOOSE r \in Named(n) : TRUE]
      /\ rules' = rules /\ slot' = slot /\ Listed' = Listed /\ Made' = Made
  BY DEF SetupStart, dict, Listed, Made
<1>2. Listed \subseteq Made /\ Listed \subseteq Rules /\ \A r \in Listed : rules[r].name \in Names
  BY ListedMade, MadeSoFar DEF IInv, Listed
<1>3. ASSUME NEW n \in Names, dispatcher'[n] # 0
      PROVE  dispatcher'[n] \in Made /\ rules[dispatcher'[n]].name = n
  <2>1. Named(n) # {} /\ dispatcher'[n] = CHOOSE r \in Named(n) : TRUE
    BY <1>1, <1>3
  <2>2. dispatcher'[n] \in Named(n)
    BY <2>1
  <2> QED
    BY <1>2, <2>2 DEF Named
<1>4. ASSUME NEW r \in Listed PROVE dispatcher'[rules[r].name] = r
  <2> DEFINE n == rules[r].name
  <2>1. n \in Names /\ r \in Named(n)
    BY <1>2 DEF Named
  <2>2. \A q \in Named(n) : q = r
    BY <2>1 DEF Named, IInv, TypeOK
  <2>3. dispatcher'[n] = CHOOSE q \in Named(n) : TRUE
    BY <1>1, <2>1
  <2> QED
    BY <2>1, <2>2, <2>3
<1> QED
  BY <1>1, <1>3, <1>4 DEF Served

\* A rule that is made gets a number no dispatcher has.
LEMMA ServedMade ==
    ASSUME NEW u \in Users, NEW n \in Names, NEW p \in BOOLEAN,
           IInv, IInv', Served, Register(u, n, p)
    PROVE  Served'
<1>1. /\ rules' = Append(rules, [name |-> n, persistent |-> p])
      /\ slot' = slot /\ serving' = serving /\ dispatcher' = dispatcher
      /\ unserved' = unserved /\ closed' = closed /\ Listed' = Listed
      /\ task'["setup"] = task["setup"]
  BY TheTasks, UserAssumption DEF Register, dict, dispatch, Listed, IInv, TypeOK
<1>2. \A q \in Made : q \in Made' /\ rules'[q] = rules[q]
  BY <1>1, MadeSoFar DEF IInv, TypeOK, Made
<1>3. Listed \subseteq Made
  BY ListedMade DEF IInv
<1> QED
  BY <1>1, <1>2, <1>3 DEF Served

LEMMA ServedListed ==
    ASSUME NEW u \in Users, IInv, Served, RegisterListed(u),
           NEW r, r = task[u].rule, NEW n, n = rules[r].name, NEW old, old = Named(n)
    PROVE  Served'
<1>1. /\ r \in Rules /\ r \in Made /\ old \subseteq Listed
      /\ Listed' = (Listed \ old) \cup {r}
  BY SlotTaken
<1>2. /\ rules' = rules /\ closed' = closed /\ Made' = Made
      /\ IF SetupDone
         THEN serving' = serving \cup {r} /\ dispatcher' = [dispatcher EXCEPT ![n] = r]
         ELSE serving' = serving /\ dispatcher' = dispatcher
      /\ unserved' = IF task["setup"].at \in {"new", "done"} THEN unserved
                                                            ELSE unserved \cup {r}
  BY DEF RegisterListed, Made
<1>3. task'["setup"] = task["setup"]
  BY TheTasks, UserAssumption DEF RegisterListed, IInv, TypeOK
<1>4. /\ n \in Names /\ \A q \in Listed \ old : rules[q].name \in Names \ {n}
      /\ dispatcher \in [Names -> 0 .. MaxRules]
  BY <1>1, MadeSoFar, ListedMade DEF IInv, Named, TypeOK
<1>5. ASSUME NEW m \in Names, dispatcher'[m] # 0
      PROVE  dispatcher'[m] \in Made /\ rules[dispatcher'[m]].name = m
  <2>1. CASE SetupDone /\ m = n
    BY <1>1, <1>2, <1>4, <2>1
  <2>2. CASE ~(SetupDone /\ m = n)
    <3>1. dispatcher'[m] = dispatcher[m]
      BY <1>2, <1>4, <2>2
    <3> QED
      BY <1>5, <3>1 DEF Served
  <2> QED
    BY <2>1, <2>2
<1>6. ASSUME task["setup"].at # "new", ~closed, NEW q \in Listed' \ unserved'
      PROVE  q \in serving' /\ dispatcher'[rules[q].name] = q
  <2>1. CASE q = r
    <3>1. SetupDone
      BY <1>2, <1>6, <2>1 DEF SetupDone
    <3> QED
      BY <1>2, <1>4, <2>1, <3>1
  <2>2. CASE q # r
    <3>1. q \in Listed \ old /\ q \notin unserved
      BY <1>1, <1>2, <1>6, <2>2
    <3>2. q \in serving /\ dispatcher[rules[q].name] = q
      BY <1>6, <3>1 DEF Served
    <3>3. rules[q].name \in Names \ {n}
      BY <1>4, <3>1
    <3>4. dispatcher'[rules[q].name] = dispatcher[rules[q].name]
      BY <1>2, <1>4, <3>3
    <3> QED
      BY <1>2, <3>2, <3>4
  <2> QED
    BY <2>1, <2>2
<1> QED
  BY <1>2, <1>3, <1>5, <1>6 DEF Served

\* The dispatcher that remove_rule() cancels is of the rule's name.
LEMMA ServedRemoved ==
    ASSUME NEW r \in Rules, IInv, Served, Remove(r), NEW n, n = rules[r].name
    PROVE  Served'
<1>1. /\ r \in Listed /\ slot' = [slot EXCEPT ![r] = 0] /\ rules' = rules
      /\ serving' = serving \ {dispatcher[n]}
      /\ dispatcher' = [dispatcher EXCEPT ![n] = 0]
      /\ closed' = closed /\ unserved' = unserved /\ task' = task /\ Made' = Made
  BY DEF Remove, Made
<1>2. /\ slot \in [Rules -> 0 .. MaxRules] /\ dispatcher \in [Names -> 0 .. MaxRules]
      /\ Listed \subseteq Made /\ \A q \in Listed : rules[q].name \in Names
      /\ \A q \in Listed : rules[q].name = n => q = r
  BY <1>1, ListedMade, MadeSoFar DEF IInv, TypeOK
<1>3. Listed' = Listed \ {r}
  BY <1>1, <1>2 DEF Listed
<1>4. ASSUME NEW m \in Names, dispatcher'[m] # 0
      PROVE  dispatcher'[m] \in Made /\ rules[dispatcher'[m]].name = m
  BY <1>1, <1>2, <1>4 DEF Served
<1>5. ASSUME task["setup"].at # "new", ~closed, NEW q \in Listed \ {r}, q \notin unserved
      PROVE  q \in serving' /\ dispatcher'[rules[q].name] = q
  <2>1. q \in serving /\ dispatcher[rules[q].name] = q
    BY <1>5 DEF Served
  <2>2. rules[q].name # n /\ rules[q].name \in Names /\ n \in Names
    BY <1>1, <1>2, <1>5
  <2>3. dispatcher[n] # q
    <3>1. q # 0
      BY <1>5, Bounds DEF Listed
    <3> QED
      BY <2>2, <3>1 DEF Served
  <2> QED
    BY <1>1, <1>2, <2>1, <2>2, <2>3
<1> QED
  BY <1>1, <1>3, <1>4, <1>5 DEF Served

LEMMA ServedNext == IInv /\ IInv' /\ Served /\ [Next]_vars => Served'
<1> SUFFICES ASSUME IInv, IInv', Served, [Next]_vars PROVE Served'
  OBVIOUS
<1>0. /\ "setup" \in Tasks /\ "rearm" \in Tasks /\ "setup" \notin Users
      /\ task \in [Tasks -> TaskType]
  BY TheTasks, UserAssumption DEF IInv, TypeOK
<1>1. CASE FriendChange
  BY <1>0, <1>1, ServedOn DEF FriendChange, dict, dispatch
<1>2. CASE SetupStart
  BY <1>2, ServedStart
<1>3. CASE RearmWait
  BY <1>0, <1>3, ServedOn DEF RearmWait, dict, dispatch
<1>4. CASE RearmStart \/ RearmNext
  <2>1. task["rearm"].at # "none"
    BY <1>4 DEF RearmStart, RearmNext
  <2>2. task["setup"].at = "done"
    BY <2>1 DEF IInv, Places
  <2> QED
    BY <1>4, <2>2, ServedOn DEF RearmStart, RearmNext, dict, dispatch
<1>5. ASSUME NEW t \in Tasks, Arm(t) PROVE Served'
  <2>1. task[t].at \in Arming
    BY <1>5 DEF Arm, ArmResolved, ArmSubscribed, Arming
  <2>2. task["setup"].at # "new"
    BY <2>1, TheTasks DEF IInv, Places, Arming
  <2> QED
    BY <1>5, <2>2, ServedOn DEF Arm, ArmResolved, ArmSubscribed, dict, dispatch
<1>6. ASSUME NEW u \in Users, Call(u) PROVE Served'
  <2>1. ASSUME RegisterRefused(u) PROVE Served'
    <3>1. task'["setup"] = task["setup"]
      BY <1>0, <2>1 DEF RegisterRefused
    <3> QED
      BY <2>1, <3>1, ServedOn DEF RegisterRefused, dict, dispatch
  <2> QED
    BY <1>6, <2>1, ServedMade, ServedListed DEF Call
<1>7. ASSUME NEW r \in Rules, Remove(r) PROVE Served'
  BY <1>7, ServedRemoved
<1>8. CASE Teardown
  <2>1. closed' = TRUE /\ dispatcher' = [n \in Names |-> 0]
    BY <1>8 DEF Teardown
  <2> QED
    BY <2>1 DEF Served
<1>9. CASE UNCHANGED vars
  BY <1>9, ServedOn DEF vars
<1> QED
  BY <1>1, <1>2, <1>3, <1>4, <1>5, <1>6, <1>7, <1>8, <1>9 DEF Next

\* The inductive invariant holds of every behaviour.
THEOREM InvCorrect == Spec => []IInv
BY InitInv, NextInv, PTL DEF Spec

\* Every variable keeps its type; the slots of the dictionary never run out and
\* no two rules share one, nor a name.
THEOREM TypeCorrect == Spec => []TypeOK
<1>1. IInv => TypeOK
  BY DEF IInv
<1> QED
  BY <1>1, InvCorrect, PTL

\* "active" is whether the rule is subscribed to something unless a task still
\* arms it, and no source has two subscriptions of one that a single task arms.
THEOREM ExactSafe == Spec => []SubscriptionsExact
<1>1. IInv => SubscriptionsExact
  BY DEF IInv
<1> QED
  BY <1>1, InvCorrect, PTL

\* A removed rule is silent unless it was being armed or lost its name to
\* another, and so is every rule after teardown(); a rule that is there has a
\* dispatcher unless it was registered while setup() was arming.
THEOREM ServedSafe == Spec => []ServedExactly
<1>1. IInv /\ Served => ServedExactly
  <2> SUFFICES ASSUME IInv, Served PROVE ServedExactly
    OBVIOUS
  <2>1. ASSUME NEW r \in Made \ orphaned, r \notin Listed \/ closed
        PROVE  subs[r] = NoSubs /\ r \notin serving
    <3>1. r \in Rules \ orphaned
      BY <2>1, MadeSoFar DEF IInv
    <3>2. CASE r \notin Listed
      BY <3>1, <3>2 DEF IInv, Silence
    <3>3. CASE closed
      BY <3>1, <3>3 DEF IInv, Ended
    <3> QED
      BY <2>1, <3>2, <3>3
  <2>2. SetupDone /\ ~closed => Listed \ unserved \subseteq serving
    BY DEF Served, SetupDone
  <2> QED
    BY <2>1, <2>2 DEF ServedExactly
<1>2. Spec => []Served
  BY InvCorrect, ServedInit, ServedNext, PTL DEF Spec
<1> QED
  BY <1>1, <1>2, InvCorrect, PTL

\* A walk that nothing disturbed has armed every persistent rule on exactly the
\* sources there are.
THEOREM RearmedSafe == Spec => []RearmedExactly
<1>1. IInv => RearmedExactly
  <2> SUFFICES ASSUME IInv, task["rearm"].at = "waiting", undisturbed,
                      NEW r \in Listed \ crowded, rules[r].persistent, ArmedBy(r) = {}
               PROVE  On(r) = up
    BY DEF RearmedExactly, On
  <2>1. task["setup"].at = "done"
    BY DEF IInv, Places
  <2>2. Reached(r)
    BY <2>1 DEF Reached
  <2> QED
    BY <2>2 DEF IInv, Tracked
<1> QED
  BY <1>1, InvCorrect, PTL

-----------------------------------------------------------------------------
(* The friends, as the rearm task sees them.                                *)

\* Only a change of the friends wakes the rearm task.
Woken == task["rearm"].at = "woken"

LEMMA WalkWakesNot ==
    ASSUME NEW t \in Tasks, NEW k, NEW size, task \in [Tasks -> TaskType],
           Walk(t, k, size)
    PROVE  Woken' => Woken
<1> DEFINE w == WalkOn(t, k, size)
<1>0. "rearm" \in Tasks
  BY TheTasks
<1>1. w.at # "woken"
  BY DEF WalkOn, At
<1> HIDE DEF w
<1>2. /\ [task EXCEPT ![t] = w]["rearm"].at = "woken" => Woken
      /\ [task EXCEPT ![t] = w] \in [Tasks -> TaskType \cup {w}]
  BY <1>0, <1>1 DEF Woken
<1>3. \E wanted : task' = WithRearm([task EXCEPT ![t] = w], wanted)
  BY DEF Walk, w
<1> QED
  BY <1>0, <1>2, <1>3 DEF WithRearm, Woken, At

LEMMA ArmedWakesNot ==
    ASSUME NEW t \in Tasks, NEW held, task \in [Tasks -> TaskType],
           Armed(t, held)
    PROVE  Woken' => Woken
<1>0. "rearm" \in Tasks
  BY TheTasks
<1>1. CASE t = "setup"
  <2>1. Walk(t, task[t].slot, task[t].size)
    BY <1>1 DEF Armed
  <2> QED
    BY <2>1, WalkWakesNot
<1>2. CASE t = "rearm"
  <2>1. task' = [task EXCEPT ![t].at = "retrying"]
    BY <1>2 DEF Armed
  <2> QED
    BY <1>0, <1>2, <2>1 DEF Woken, TaskType
<1>3. CASE t \notin {"setup", "rearm"}
  <2>1. \E wanted : task' = WithRearm([task EXCEPT ![t] = At("idle")], wanted)
    BY <1>3 DEF Armed
  <2> QED
    BY <1>0, <1>3, <2>1 DEF WithRearm, Woken, At
<1> QED
  BY <1>1, <1>2, <1>3

LEMMA OthersWakeNot ==
    ASSUME task \in [Tasks -> TaskType], Next, ~FriendChange
    PROVE  up' = up /\ (Woken' => Woken)
<1>0. /\ "setup" \in Tasks /\ "rearm" \in Tasks /\ "rearm" \notin Users
      /\ Users \subseteq Tasks
  BY TheTasks, UserAssumption
<1>1. CASE SetupStart \/ RearmStart \/ RearmNext
  BY <1>0, <1>1, WalkWakesNot DEF SetupStart, RearmStart, RearmNext
<1>2. CASE RearmWait \/ Teardown
  BY <1>0, <1>2 DEF RearmWait, Teardown, Woken, At
<1>3. ASSUME NEW t \in Tasks, Arm(t) PROVE up' = up /\ (Woken' => Woken)
  <2>1. ASSUME NEW held, Armed(t, held) PROVE Woken' => Woken
    BY <2>1, ArmedWakesNot
  <2>2. ASSUME NEW todo, task' = [task EXCEPT ![t].at = "subscribing", ![t].todo = todo]
        PROVE  Woken' => Woken
    BY <1>0, <2>2 DEF Woken, TaskType
  <2>3. ASSUME NEW todo, task' = [task EXCEPT ![t].todo = todo] PROVE Woken' => Woken
    BY <1>0, <2>3 DEF Woken, TaskType
  <2>4. CASE ArmResolved(t)
    BY <2>1, <2>2, <2>4 DEF ArmResolved
  <2>5. CASE ArmSubscribed(t)
    BY <2>1, <2>3, <2>5 DEF ArmSubscribed
  <2> QED
    BY <1>3, <2>4, <2>5 DEF Arm
<1>4. ASSUME NEW u \in Users, Call(u) PROVE up' = up /\ (Woken' => Woken)
  <2>1. u # "rearm" /\ u \in Tasks
    BY <1>0
  <2> QED
    BY <1>0, <1>4, <2>1 DEF Call, Register, RegisterRefused, RegisterListed, Woken
<1>5. ASSUME NEW r \in Rules, Remove(r) PROVE up' = up /\ (Woken' => Woken)
  BY <1>5 DEF Remove, Woken
<1> QED
  BY <1>1, <1>2, <1>3, <1>4, <1>5 DEF Next

LEMMA WatchStep == TypeOK /\ [Next]_vars => [W!Next]_(W!vars)
<1> SUFFICES ASSUME TypeOK, [Next]_vars PROVE [W!Next]_(W!vars)
  OBVIOUS
<1>0. task \in [Tasks -> TaskType] /\ "rearm" \in Tasks
  BY TheTasks DEF TypeOK
<1>1. CASE FriendChange
  BY <1>0, <1>1 DEF FriendChange, Watching, At, W!Next, W!Change
<1>2. CASE UNCHANGED vars
  BY <1>2 DEF vars, Watching, W!vars
<1>3. ASSUME up' = up, Woken' => Woken PROVE [W!Next]_(W!vars)
  <2>1. \/ Watching' = "away" \/ Watching' = Watching
        \/ Watching' = "waiting" /\ Watching # "waiting"
    BY <1>3 DEF Watching, Woken
  <2> QED
    BY <1>3, <2>1 DEF W!Next, W!Listen, W!Leave, W!vars
<1> QED
  BY <1>0, <1>1, <1>2, <1>3, OthersWakeNot

\* The rearm task relies on no more of wait_friend_changes() than FriendWatch
\* promises, through registration, removal and teardown: the promise that the
\* friend set of Discovery keeps.
THEOREM ReliesOnWatch == Spec => WatchRelied
<1>1. Init => W!Init
  BY TheTasks DEF Init, W!Init, Watching, At
<1> QED
  BY <1>1, WatchStep, TypeCorrect, PTL DEF Spec, WatchRelied, W!Spec
=============================================================================
