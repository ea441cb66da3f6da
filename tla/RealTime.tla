------------------------------ MODULE RealTime ------------------------------
(***************************************************************************)
(* The [rt] section (realtime.py) as functions: what load_rt() makes of    *)
(* the texts of its keys, which errors it finds, the directives systemd is *)
(* given, and the report of what is in force.                              *)
(*                                                                         *)
(* The text of a value is <<"int", n>>, the decimal text of n, or          *)
(* <<"word", w>>, any other text.  CPU lists and lock limits stay texts.   *)
(***************************************************************************)
EXTENDS Integers

CONSTANTS
    CpuLists,   \* texts that have the shape of a list of CPUs
    Countable,  \* those _parse_cpu_list() can take apart
    Unset       \* no value: a directive that is absent, a key that is not there

Word(w) == <<"word", w>>
None == Word("")

Policies == {"other", "fifo", "rr", "batch", "idle", "deadline"}

\* A directive that is absent is told from every one that is there.
ASSUME UnsetAssumption ==
    /\ Unset \notin {Word(p) : p \in Policies} \cup {"CAP_SYS_NICE"}
    /\ Unset \notin Int
IoClasses == {"realtime", "best-effort", "idle"}
TruthTexts == {<<"int", 1>>, Word("true"), Word("yes"), Word("on")}
FalseTexts == {<<"int", 0>>, Word("false"), Word("no"), Word("off")}

IntKeys == {"nice", "sched_priority", "sched_runtime_ns", "sched_deadline_ns",
            "sched_period_ns", "io_sched_priority", "oom_score_adjust",
            "timer_slack_ns"}
BoolKeys == {"sched_reset_on_fork", "mlockall"}
TextKeys == {"sched_policy", "cpu_affinity", "io_sched_class", "memlock"}
Keys == IntKeys \cup BoolKeys \cup TextKeys

Defaults ==
    [nice |-> 0, sched_policy |-> Word("other"), sched_priority |-> 0,
     sched_runtime_ns |-> 0, sched_deadline_ns |-> 0, sched_period_ns |-> 0,
     sched_reset_on_fork |-> FALSE, cpu_affinity |-> None,
     io_sched_class |-> None, io_sched_priority |-> -1, memlock |-> None,
     mlockall |-> FALSE, oom_score_adjust |-> 0, timer_slack_ns |-> -1]

\* A text that the key's type cannot hold is an error, and is dropped.
Coercible(key, text) ==
    CASE key \in IntKeys -> text[1] = "int"
      [] key \in BoolKeys -> text \in TruthTexts \cup FalseTexts
      [] OTHER -> TRUE
Coerce(key, text) ==
    CASE key \in IntKeys -> text[2]
      [] key \in BoolKeys -> text \in TruthTexts
      [] OTHER -> text

\* The texts of a section, the environment's before the file's.
Texts(ini, env) == [k \in DOMAIN ini \cup DOMAIN env |->
                        IF k \in DOMAIN env THEN env[k] ELSE ini[k]]
Parsed(texts) ==
    [k \in Keys |-> IF k \in DOMAIN texts /\ Coercible(k, texts[k])
                    THEN Coerce(k, texts[k]) ELSE Defaults[k]]
Uncoercible(texts) == {k \in DOMAIN texts \cap Keys : ~Coercible(k, texts[k])}

-----------------------------------------------------------------------------
(* _validate(): each check resets what it finds wrong.                     *)

NsKeys == {"sched_runtime_ns", "sched_deadline_ns", "sched_period_ns"}
ZeroNs(c) == [c EXCEPT !.sched_runtime_ns = 0, !.sched_deadline_ns = 0,
                       !.sched_period_ns = 0]
Other(c) == [c EXCEPT !.sched_policy = Word("other")]

ValidTriple(c) == /\ 0 < c.sched_runtime_ns
                  /\ c.sched_runtime_ns <= c.sched_deadline_ns
                  /\ c.sched_deadline_ns <= c.sched_period_ns

ValidateNice(c) == IF c.nice \in -20 .. 19 THEN c ELSE [c EXCEPT !.nice = 0]
ValidatePolicy(c) ==
    IF c.sched_policy \in {Word(p) : p \in Policies} THEN c ELSE Other(c)

\* The priority that was out of range stays: only the policy is reset.
ValidateRtPolicy(c) ==
    ZeroNs(IF c.sched_priority \in 1 .. 99 THEN c ELSE Other(c))
ValidateDeadline(c) ==
    LET p == [c EXCEPT !.sched_priority = 0]
    IN IF ValidTriple(c) THEN p ELSE Other(ZeroNs(p))
ValidateOtherPolicy(c) == ZeroNs([c EXCEPT !.sched_priority = 0])

\* Mutant: a priority out of range keeps its policy.
ValidateSchedLoose(c) ==
    IF c.sched_policy \in {Word("fifo"), Word("rr")} THEN ZeroNs(c)
    ELSE IF c.sched_policy = Word("deadline") THEN ValidateDeadline(c)
    ELSE ValidateOtherPolicy(ValidatePolicy(c))

ValidateSched(c) ==
    IF c.sched_policy \in {Word("fifo"), Word("rr")} THEN ValidateRtPolicy(c)
    ELSE IF c.sched_policy = Word("deadline") THEN ValidateDeadline(c)
    ELSE ValidateOtherPolicy(ValidatePolicy(c))

ValidateIo(c) ==
    LET class == IF c.io_sched_class \in {Word(x) : x \in IoClasses}
                 THEN c.io_sched_class ELSE None
        valid == c.io_sched_priority \in 0 .. 7 /\ class # None
    IN [c EXCEPT !.io_sched_class = class,
                 !.io_sched_priority = IF valid THEN @ ELSE -1]

LockLimit(text) == text = Word("infinity") \/ (text[1] = "int" /\ text[2] >= 0)
ValidateMemlock(c) ==
    LET limit == IF LockLimit(c.memlock) THEN c.memlock ELSE None
    IN [c EXCEPT !.memlock = limit, !.mlockall = @ /\ limit # None]

ValidateAffinity(c) ==
    IF c.cpu_affinity \in CpuLists THEN c ELSE [c EXCEPT !.cpu_affinity = None]

ValidateOomTimer(c) ==
    [c EXCEPT !.oom_score_adjust = IF @ \in -1000 .. 1000 THEN @ ELSE 0,
              !.timer_slack_ns = IF @ >= 0 THEN @ ELSE -1]

Sanitized(c) == ValidateOomTimer(ValidateAffinity(ValidateMemlock(
                    ValidateIo(ValidateSched(ValidateNice(c))))))

\* A check that changes a value has recorded an error; none records one and
\* leaves everything as it was.
HasErrors(texts) == Uncoercible(texts) # {} \/
                    Sanitized(Parsed(texts)) # Parsed(texts)

\* load_rt() of a section that is there.
LoadRt(ini, env) == Sanitized(Parsed(Texts(ini, env)))

-----------------------------------------------------------------------------
(* emit_systemd(): the drop-in, as the settings it asks systemd for.       *)

IsDeadline(c) == c.sched_policy = Word("deadline")
IsFixed(c) == c.sched_policy \in {Word("fifo"), Word("rr")}

EmitSystemd(c) ==
    [Nice |-> c.nice,
     AmbientCapabilities |-> IF IsDeadline(c) THEN "CAP_SYS_NICE" ELSE Unset,
     RestrictRealtime |-> IF IsDeadline(c) \/ IsFixed(c) THEN "no" ELSE Unset,
     CPUSchedulingPolicy |-> IF IsDeadline(c) THEN Unset ELSE c.sched_policy,
     CPUSchedulingPriority |-> IF IsFixed(c) THEN c.sched_priority ELSE Unset,
     CPUSchedulingResetOnFork |-> ~IsDeadline(c) /\ c.sched_reset_on_fork,
     CPUAffinity |-> c.cpu_affinity,
     IOSchedulingClass |-> c.io_sched_class,
     IOSchedulingPriority |->
        IF c.io_sched_class # None /\ c.io_sched_priority # -1
        THEN c.io_sched_priority ELSE Unset,
     LimitMEMLOCK |-> c.memlock,
     OOMScoreAdjust |-> c.oom_score_adjust,
     TimerSlackNSec |-> c.timer_slack_ns]

-----------------------------------------------------------------------------
(* What a process runs with, read back and compared: status_object().      *)

\* A process that nothing configured.
Plain ==
    [nice |-> 0, policy |-> "other", priority |-> 0, reset |-> FALSE,
     runtime |-> 0, deadline |-> 0, period |-> 0, affinity |-> Word("all"),
     class |-> "best-effort", data |-> 0, memlock |-> <<"int", 8>>,
     locked |-> FALSE, oom |-> 0, slack |-> 50]

\* sched_getscheduler() answers with the reset-on-fork flag in the policy:
\* the number has no name then.
ReadPolicy(e) == IF e.reset THEN Unset ELSE Word(e.policy)

\* No limit reads as -1, which is less than any number of bytes.
MemlockMatches(e, c) ==
    IF c.memlock = Word("infinity") THEN e.memlock = Word("infinity")
    ELSE e.memlock # Word("infinity") /\ e.memlock[2] >= c.memlock[2]

\* What verify() reads; "attr" is sched_getattr(), "locked" is VmLck.
Readings == {"nice", "policy", "priority", "attr", "affinity", "memlock",
             "locked", "oom", "slack", "ioprio"}
\* A reading that fails is a mismatch for some levers, and passes for the
\* others, which then cannot be verified.
Counted == {"nice", "policy", "priority", "attr", "oom"}

\* unread is the set of the readings that failed.
Matches(key, e, c, unread) ==
    LET known(reading, matches) == reading \notin unread /\ matches
        unless(reading, matches) == reading \in unread \/ matches
    IN CASE key = "nice" -> known("nice", e.nice = c.nice)
         [] key = "sched_policy" -> known("policy", ReadPolicy(e) = c.sched_policy)
         [] key = "sched_priority" ->
                known("priority", e.priority = c.sched_priority)
         [] key = "sched_reset_on_fork" ->
                known("attr", e.reset) = c.sched_reset_on_fork
         [] key = "sched_runtime_ns" ->
                known("attr", e.runtime = c.sched_runtime_ns)
         [] key = "sched_deadline_ns" ->
                known("attr", e.deadline = c.sched_deadline_ns)
         [] key = "sched_period_ns" -> known("attr", e.period = c.sched_period_ns)
         [] key = "cpu_affinity" -> unless("affinity", e.affinity = c.cpu_affinity)
         [] key = "io_sched_class" ->
                unless("ioprio", Word(e.class) = c.io_sched_class)
         [] key = "io_sched_priority" ->
                unless("ioprio", e.data = c.io_sched_priority)
         [] key = "memlock" -> unless("memlock", MemlockMatches(e, c))
         [] key = "mlockall" -> unless("locked", e.locked = c.mlockall)
         [] key = "oom_score_adjust" -> known("oom", e.oom = c.oom_score_adjust)
         [] key = "timer_slack_ns" -> unless("slack", e.slack = c.timer_slack_ns)

\* Mutant: only the keys that are set are looked at.
LeversSet(c) == {k \in Keys : c[k] # Defaults[k]}

\* The policy and the nice value are always looked at.
Levers(c) == {"sched_policy", "nice"} \cup {k \in Keys : c[k] # Defaults[k]}

\* A list of the right shape that cannot be taken apart, such as 2-3-4,
\* raises instead of matching.
StatusRaises(c, unread) ==
    c.cpu_affinity \notin {None} \cup Countable /\ "affinity" \notin unread
StatusOk(e, c, unread) == \A k \in Levers(c) : Matches(k, e, c, unread)
=============================================================================
