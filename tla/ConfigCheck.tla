---------------------------- MODULE ConfigCheck ----------------------------
(***************************************************************************)
(* What a configuration is, and who accepts it: configparser as the code   *)
(* uses it, set-up of a starting service (ProcessBase.setup in process.py: *)
(* its checks, its log, its reading of [rt]) and the checks that           *)
(* `pympacds-admin config validate` repeats (cli.py and ConfigManager in   *)
(* config.py).                                                             *)
(*                                                                         *)
(* A configuration maps sections to options, an option is a plain key and  *)
(* the text of its value, abstracted to what the checks tell apart.  As it *)
(* was read from a file, no text has white space around it:                *)
(*    <<"int", n>>    the decimal text of n                                *)
(*    <<"half", n>>   the text of n + 1/2                                  *)
(*    <<"word", w>>   any other text without a percent sign                *)
(*    <<"pct", w>>    one with a single percent sign, %s: interpolation    *)
(*                    cannot read it (InterpolationSyntaxError)            *)
(*    <<"ref", w>>    a reference %(w)s to an option that is not there:    *)
(*                    it may be set, but not read (one that is there reads *)
(*                    as some other text; no such reference is modelled)   *)
(*    <<"esc", t>>    one of these two with its percent signs doubled      *)
(* A check answers "ok", "error" or "raises": nothing catches the last.    *)
(***************************************************************************)
EXTENDS Integers

CONSTANTS
    Schemas,    \* the JSON schema in each file that can be loaded
    Patterns,   \* the words that match each pattern of a schema
    Formats,    \* the texts that logging.Formatter takes for a format
    LogFiles    \* <<logfile, logfilesuffix>> of a log that can be opened,
                \* where it says or in /tmp

Kinds == {"int", "half", "word", "esc", "pct", "ref"}

Levels == {<<"word", w>> : w \in {"DEBUG", "INFO", "WARN", "WARNING",
                                  "ERROR", "CRITICAL", "debug", "warn"}}
Booleans == {<<"int", 0>>, <<"int", 1>>} \cup
    {<<"word", w>> : w \in {"yes", "no", "true", "false", "on", "off",
                            "True", "False"}}
NaN == <<"word", "nan">>

\* A value as configparser holds it, and a configuration of such values.
IsText(v) == /\ v = <<v[1], v[2]>> /\ v[1] \in Kinds
             /\ v[1] = "int" => v[2] \in Int
             /\ v[1] = "esc" => v[2][1] \in {"pct", "ref"}
IsConfig(cfg) ==
    /\ "DEFAULT" \in DOMAIN cfg
    /\ \A s \in DOMAIN cfg : \A k \in DOMAIN cfg[s] : IsText(cfg[s][k])

\* Two sets of options, where the first speaks for a key of both.
Over(f, g) == [k \in DOMAIN f \cup DOMAIN g |-> IF k \in DOMAIN f THEN f[k] ELSE g[k]]

\* The options of a section, with those of [DEFAULT] behind them.
Options(cfg, s) == IF s \in DOMAIN cfg THEN Over(cfg[s], cfg["DEFAULT"])
                                       ELSE <<>>
Readable(v) == v[1] \notin {"pct", "ref"}
Read(v) == IF v[1] = "esc" THEN v[2] ELSE v
Get(o, k, default) == IF k \in DOMAIN o THEN o[k] ELSE default

\* A check of one option, where a default in its place would pass it.
Check(o, k, passes) ==
    IF k \notin DOMAIN o THEN "ok"
    ELSE IF ~Readable(o[k]) THEN "raises"
    ELSE IF passes THEN "ok" ELSE "error"

\* The same for an option that has to be one of a set of values.
CheckIn(o, k, values) == Check(o, k, o[k] \in values)

OneOf(words) == {<<"word", w>> : w \in words}
TextOf(numbers) == {"int"} \X numbers

\* Every check is made; the first that raises ends them all.
Verdict(answers) == IF "raises" \in answers THEN "raises"
                    ELSE IF "error" \in answers THEN "error" ELSE "ok"

-----------------------------------------------------------------------------
(* The service's own checks.                                               *)

ValidateDefaultSection(o) ==
    {CheckIn(o, "loglevel", Levels), CheckIn(o, "logstdout", Booleans),
     CheckIn(o, "logmaxsize", TextOf(Nat \ {0})),
     CheckIn(o, "logmaxcount", TextOf(Nat))}

ContractFlags == {"contract_health", "contract_metrics",
                  "contract_lifecycle", "contract_config"}

ValidateDbusSection(o) ==
    {CheckIn(o, "bus_type", OneOf({"system", "session"})),
     CheckIn(o, "drain_timeout_ms", TextOf(Nat)),
     CheckIn(o, "heartbeat_interval_s", TextOf(5 .. 3600)),
     CheckIn(o, "discovery_enabled", Booleans)}
        \cup {CheckIn(o, k, Booleans) : k \in ContractFlags}

\* The number a text stands for is below or above a bound of the schema.
Below(v, n) == v # NaN /\ v[2] < n
Above(v, n) == v # NaN /\ (v[2] > n \/ (v[1] = "half" /\ v[2] = n))

\* Mutant: the lower bound itself is out.
InRangeOpen(v, kspec) == /\ "min" \in DOMAIN kspec => Above(v, kspec.min)
                         /\ "max" \in DOMAIN kspec => ~Above(v, kspec.max)

InRange(v, kspec) == /\ "min" \in DOMAIN kspec => ~Below(v, kspec.min)
                     /\ "max" \in DOMAIN kspec => ~Above(v, kspec.max)

CheckUserKey(v, kspec) ==
    CASE kspec.type = "int"   -> v[1] = "int" /\ InRange(v, kspec)
      [] kspec.type = "float" -> (v[1] \in {"int", "half"} \/ v = NaN)
                                 /\ InRange(v, kspec)
      [] kspec.type = "bool"  -> v \in Booleans
      [] OTHER -> kspec.type = "str" /\ "pattern" \in DOMAIN kspec
                      => v \in Patterns[kspec.pattern]

Checked(cfg, spec) == {s \in DOMAIN spec \ {"DEFAULT", "dbus"} :
                           s \in DOMAIN cfg}
Missing(cfg, spec, s) == DOMAIN spec[s].keys \ DOMAIN Options(cfg, s)
Defaulted(cfg, spec, s) == {k \in Missing(cfg, spec, s) :
                                "default" \in DOMAIN spec[s].keys[k]}

ValidateUserSection(cfg, spec, s) ==
    LET o == Options(cfg, s)
        keys == spec[s].keys
        Unset(k) == IF Readable(keys[k].default) THEN "ok" ELSE "raises"
        One(k) == Check(o, k, CheckUserKey(Read(o[k]), keys[k]))
    IN {IF k \in DOMAIN o THEN "ok" ELSE "error" : k \in spec[s].required}
           \cup {Unset(k) : k \in Defaulted(cfg, spec, s)}
           \cup {One(k) : k \in DOMAIN keys}

\* Validating fills in the defaults, which are not checked themselves.
Filled(cfg, spec) ==
    [s \in DOMAIN cfg |->
        IF s \notin Checked(cfg, spec) THEN cfg[s]
        ELSE Over(cfg[s], [k \in Defaulted(cfg, spec, s) |->
                               spec[s].keys[k].default])]

\* [dbus] says which schema applies, and whether one does.
NoSchema == <<>>
Enabled(o) == Get(o, "validate_user_schema", <<"word", "true">>)
                  \in {<<"int", 1>>} \cup OneOf({"yes", "true", "on", "True"})
SchemaFile(o) == Get(o, "schema_file", <<"word", "">>)
ApplyDbusConfig(o) ==
    {Check(o, k, TRUE) : k \in {"bus_prefix"}
        \cup IF Enabled(o) THEN {"schema_file"} ELSE {}}
    \cup {IF CheckIn(o, "validate_user_schema", Booleans) = "ok" THEN "ok"
                                                          ELSE "raises"}
SchemaOf(o) == IF Enabled(o) /\ SchemaFile(o) \in DOMAIN Schemas
               THEN Schemas[SchemaFile(o)] ELSE NoSchema
SchemaLoads(o) == (Enabled(o) /\ SchemaFile(o) # <<"word", "">>)
                      => SchemaFile(o) \in DOMAIN Schemas

\* _apply_dbus_config() and _validate_config().
ValidateConfig(cfg) ==
    LET o == Options(cfg, "dbus")
    IN Verdict(ApplyDbusConfig(o)
        \cup ValidateDefaultSection(cfg["DEFAULT"])
        \cup ValidateDbusSection(o)
        \cup {IF SchemaLoads(o) THEN "ok" ELSE "error"}
        \cup UNION {ValidateUserSection(cfg, SchemaOf(o), s) :
                        s \in Checked(cfg, SchemaOf(o))})
Loaded(cfg) == Filled(cfg, SchemaOf(Options(cfg, "dbus")))

\* _setup_logging() comes after the checks, and nothing catches what it
\* raises: a text it cannot read, a format without a field, a file that
\* cannot be opened.
Needs(o, k, usable) == IF Check(o, k, usable) = "ok" THEN "ok" ELSE "raises"
SetupLogging(o) ==
    LET name == Get(o, "logfile", <<"word", "">>)
        suffix == Get(o, "logfilesuffix", <<"word", "">>)
    IN {Needs(o, "logformat", Read(o["logformat"]) \in Formats),
        Needs(o, "logdate", TRUE), Needs(o, "logfile", TRUE)}
       \cup IF name = <<"word", "">> THEN {}
            ELSE {Needs(o, "logfilesuffix", TRUE),
                  Needs(o, "logfile", <<Read(name), Read(suffix)>> \in LogFiles)}

\* load_rt() reads each key it knows; the values themselves, which a service
\* only logs when they are wrong, are RealTime's.  No PYMPACDS_RT_* variable
\* is set, which would spare the service the text it replaces.
RtKeys == {"nice", "sched_policy", "sched_priority", "sched_runtime_ns",
           "sched_deadline_ns", "sched_period_ns", "sched_reset_on_fork",
           "cpu_affinity", "io_sched_class", "io_sched_priority", "memlock",
           "mlockall", "oom_score_adjust", "timer_slack_ns"}
ReadRt(cfg) == {Check(Options(cfg, "rt"), k, TRUE) : k \in RtKeys}

\* ProcessBase.setup(): what becomes of a configuration that was read.
SetupService(cfg) ==
    IF ValidateConfig(cfg) # "ok" THEN ValidateConfig(cfg)
    ELSE Verdict(SetupLogging(cfg["DEFAULT"]) \cup ReadRt(cfg))

-----------------------------------------------------------------------------
(* The command line's checks of the same file, given the same schema.  It  *)
(* reports the errors of [rt] as well, which are RealTime's.               *)

AdminDefault(o) ==
    {Check(o, "loglevel", o.loglevel \in Levels),
     Check(o, "logstdout", o.logstdout \in Booleans),
     Check(o, "logmaxsize", o.logmaxsize[1] = "int" /\ ~(o.logmaxsize[2] <= 0)),
     Check(o, "logmaxcount", o.logmaxcount[1] = "int" /\ ~(o.logmaxcount[2] < 0))}

AdminDbus(o) ==
    LET wait == o.drain_timeout_ms beat == o.heartbeat_interval_s
    IN {CheckIn(o, "bus_type", OneOf({"system", "session"})),
        Check(o, "drain_timeout_ms", wait[1] = "int" /\ ~(wait[2] < 0)),
        Check(o, "heartbeat_interval_s",
              beat[1] = "int" /\ ~(beat[2] < 5 \/ beat[2] > 3600)),
        CheckIn(o, "discovery_enabled", Booleans)}
           \cup {CheckIn(o, k, Booleans) : k \in ContractFlags}

CheckKey(v, kspec) ==
    /\ kspec.type = "int" => v[1] = "int"
    /\ kspec.type = "float" => v[1] \in {"int", "half"} \/ v = NaN
    /\ kspec.type = "bool" => v \in Booleans
    /\ kspec.type \in {"int", "float"} =>
           /\ "min" \in DOMAIN kspec => ~Below(v, kspec.min)
           /\ "max" \in DOMAIN kspec => ~Above(v, kspec.max)
    /\ kspec.type = "str" /\ "pattern" \in DOMAIN kspec
           => v \in Patterns[kspec.pattern]

ValidateSection(cfg, spec, s) ==
    LET o == Options(cfg, s)
        Answer(k) ==
            IF k \in DOMAIN o
            THEN Check(o, k, CheckKey(Read(o[k]), spec[s].keys[k]))
            ELSE IF k \in Defaulted(cfg, spec, s) /\
                    ~Readable(spec[s].keys[k].default)
            THEN "raises" ELSE "ok"
    IN {Answer(k) : k \in DOMAIN spec[s].keys}
           \cup IF spec[s].required \subseteq DOMAIN o THEN {"ok"}
                                                       ELSE {"error"}

AdminValidate(cfg, spec) ==
    Verdict(AdminDefault(cfg["DEFAULT"])
        \cup AdminDbus(Options(cfg, "dbus"))
        \cup ReadRt(cfg)
        \cup UNION {ValidateSection(cfg, spec, s) : s \in Checked(cfg, spec)})
=============================================================================
