---------------------------- MODULE Provisioning ----------------------------
(***************************************************************************)
(* Zero-touch provisioning: a service under systemd whose configuration    *)
(* file is checked when it starts (process.py) and rewritten by the        *)
(* httpconfprov middleware (HttpConfigMiddleware, middleware.py) when the  *)
(* document a server answers with differs from what the service has in     *)
(* memory; it then restarts to read it.  Beside it, calls on the bus       *)
(* change the memory (Config.Set), an operator edits the file              *)
(* (`pympacds-admin config set` and `remove`), the disk fills up and the   *)
(* process crashes.                                                        *)
(*                                                                         *)
(* A document has the shape of a configuration; its numbers are            *)
(* <<"json", n>>, its nulls <<"null", 0>>, and no [DEFAULT] is implied.    *)
(* Documents and edits may hold texts that a file does not keep as they    *)
(* are, for white space around them or a line that reads as a comment:     *)
(* <<"pad", t>> is such a text, and t what a file makes of it.             *)
(***************************************************************************)
EXTENDS ConfigCheck

CONSTANTS
    Files,      \* what the file may hold when the device first boots
    Docs,       \* the documents the server may answer with
    Edits,      \* <<section, key, value>> the operator, or a call, may set
    Probes,     \* <<section, key, value>>: values at the edges of the checks
    LowerCase,  \* the lower-case form of the keys that are not
    MaxMishaps  \* bound of the model: how often anything unforeseen happens

\* The kinds of text that a file gives back as they were.
Verbatim == {"int", "half", "word"}
IsPadded(v) == /\ v = <<v[1], v[2]>> /\ v[1] = "pad"
               /\ IsText(v[2]) /\ v[2][1] \in Verbatim
IsJson(v) == \/ IsText(v) \/ IsPadded(v)
             \/ v \in {"json"} \X Int \/ v = <<"null", 0>>

\* Files, documents and edits are texts; a document has numbers and nulls too.
Inputs ==
    /\ \A f \in Files : IsConfig(f)
    /\ \A d \in Docs :
           /\ d = [s \in DOMAIN d |-> [k \in DOMAIN d[s] |-> d[s][k]]]
           /\ \A s \in DOMAIN d : \A k \in DOMAIN d[s] : IsJson(d[s][k])
    /\ \A e \in Edits : IsText(e[3]) \/ IsPadded(e[3])
    /\ \A p \in Probes : IsText(p[3])
ASSUME InputAssumption == Inputs
ASSUME MishapAssumption == MaxMishaps \in Nat

Empty == [s \in {"DEFAULT"} |-> <<>>]   \* an empty file: a configuration
Garbled == [s \in {"garbled"} |-> <<>>]  \* bytes that configparser rejects

VARIABLES
    file,       \* the configuration file
    pc,         \* where the service is
    mem,        \* self.config of the running process
    doc,        \* what the server answers with
    reply,      \* the document the service is writing to the file
    op,         \* the operator's command: its phase and what it will write
    mishaps,    \* how many unforeseen events are left
    \* History: nothing in the code reads or writes these.
    spoilt,     \* a write was cut short, or another one came in between
    edited      \* file or memory was edited since the service started

deviceVars == <<file, pc, mem, doc, reply, op, mishaps, spoilt, edited>>
service == <<pc, mem, reply>>

Idle == [phase |-> "idle", text |-> Empty]
Mishap == mishaps > 0 /\ mishaps' = mishaps - 1

DeviceInit ==
    /\ file \in Files /\ doc \in Docs
    /\ pc = "starting" /\ mem = Empty /\ reply = Empty /\ op = Idle
    /\ mishaps = MaxMishaps
    /\ spoilt = FALSE /\ edited = FALSE

Writing == pc = "writing" \/ op.phase = "open"

-----------------------------------------------------------------------------
(* Starting: setup(), then the middleware named in [middleware].           *)

\* What setup() makes of the file: reading it may raise as well.
Setup(f) == IF f = Garbled THEN "raises" ELSE SetupService(f)

\* setup() fails or raises, and the process exits.
SetupRefuses ==
    /\ pc = "starting"
    /\ Setup(file) # "ok"
    /\ pc' = "exited"
    /\ UNCHANGED <<file, mem, doc, reply, op, mishaps, spoilt, edited>>

SetupAccepts ==
    /\ pc = "starting"
    /\ Setup(file) = "ok"
    /\ mem' = Loaded(file)
    /\ pc' = "setup"
    /\ edited' = FALSE
    /\ UNCHANGED <<file, doc, reply, op, mishaps, spoilt>>

AllReadable(o) == \A k \in DOMAIN o : Readable(o[k])

\* strip(), and what reading a file amounts to.
Bare(v) == IF v[1] = "pad" THEN v[2] ELSE v

Activated(cfg) == "httpconfprov" \in DOMAIN Options(cfg, "middleware")
\* The section that [middleware] names, as _init_middleware() finds it.
Section(cfg) ==
    Options(cfg, Bare(Options(cfg, "middleware")["httpconfprov"])[2])
Url(cfg) == Bare(Get(Section(cfg), "url", <<"word", "">>))

\* Reading [middleware], or the provider's own section, may raise.
Fails(cfg) ==
    \/ ~AllReadable(Options(cfg, "middleware"))
    \/ /\ Activated(cfg)
       /\ \/ ~Readable(Url(cfg))
          \/ /\ Url(cfg) # <<"word", "">>
             /\ \E k \in {"timeout_s", "tls_verify"} \cap
                         DOMAIN Section(cfg) : ~Readable(Section(cfg)[k])
Provides(cfg) == Activated(cfg) /\ Url(cfg) # <<"word", "">>

\* on_error() is not overridden: a setup that raises aborts the service.
ProviderRaises ==
    /\ pc = "setup" /\ Fails(mem)
    /\ pc' = "exited"
    /\ UNCHANGED <<file, mem, doc, reply, op, mishaps, spoilt, edited>>

ProviderSkips ==
    /\ pc = "setup" /\ ~Fails(mem) /\ ~Provides(mem)
    /\ pc' = "running"
    /\ UNCHANGED <<file, mem, doc, reply, op, mishaps, spoilt, edited>>

Request ==
    /\ pc = "setup" /\ ~Fails(mem) /\ Provides(mem)
    /\ pc' = "fetching"
    /\ UNCHANGED <<file, mem, doc, reply, op, mishaps, spoilt, edited>>

-----------------------------------------------------------------------------
(* The answer: compared with the memory as it is now, then written.        *)

FetchFails ==
    /\ pc = "fetching"
    /\ pc' = "running"
    /\ UNCHANGED <<file, mem, doc, reply, op, mishaps, spoilt, edited>>

\* Every section but [DEFAULT], each with the options of [DEFAULT].
Current(cfg) ==
    [s \in DOMAIN cfg \ {"DEFAULT"} |->
        [k \in DOMAIN Options(cfg, s) |-> Read(Options(cfg, s)[k])]]
CurrentReadable(cfg) ==
    \A s \in DOMAIN cfg \ {"DEFAULT"} : AllReadable(Options(cfg, s))

\* What configparser makes of a document: it refuses nulls, single percent
\* signs and keys that differ in case only; keys become lower-case, numbers
\* become text, and reading strips what was written.
Lower(k) == IF k \in DOMAIN LowerCase THEN LowerCase[k] ELSE k
Applicable(d) ==
    \A s \in DOMAIN d :
        /\ \A k \in DOMAIN d[s] : d[s][k][1] \notin {"null", "pct"}
        /\ \A x, y \in DOMAIN d[s] : Lower(x) = Lower(y) => x = y
Text(v) == IF v[1] = "json" THEN <<"int", v[2]>> ELSE Bare(v)

Written(d) ==
    Over([s \in DOMAIN d |->
             [k \in {Lower(x) : x \in DOMAIN d[s]} |->
                 Text(d[s][CHOOSE x \in DOMAIN d[s] : Lower(x) = k])]], Empty)

AppliesNothing(d) ==
    \/ ~CurrentReadable(mem)
    \/ Current(mem) # d /\ ~Applicable(d)

\* Mutant: the service restarts all the same.
FetchedSameRestarts ==
    /\ pc = "fetching"
    /\ CurrentReadable(mem) /\ Current(mem) = doc
    /\ pc' = "closing"
    /\ UNCHANGED <<file, mem, doc, reply, op, mishaps, spoilt, edited>>

FetchedSame ==
    /\ pc = "fetching"
    /\ CurrentReadable(mem) /\ Current(mem) = doc
    /\ pc' = "running"
    /\ UNCHANGED <<file, mem, doc, reply, op, mishaps, spoilt, edited>>

\* Applying fails before the file is opened: the service goes on.
FetchedUnusable ==
    /\ pc = "fetching" /\ AppliesNothing(doc)
    /\ pc' = "running"
    /\ UNCHANGED <<file, mem, doc, reply, op, mishaps, spoilt, edited>>

\* open(configfile, "w"): the file is empty until it is written.
FetchedNew ==
    /\ pc = "fetching" /\ ~AppliesNothing(doc) /\ Current(mem) # doc
    /\ pc' = "writing" /\ reply' = doc
    /\ file' = Empty
    /\ spoilt' = (spoilt \/ op.phase = "open")
    /\ UNCHANGED <<mem, doc, op, mishaps, edited>>

\* A text laid over whatever reached the file since it was truncated.
Laid(text) == IF file = Empty THEN {text} ELSE {text, Garbled}

\* Mutant: the service is not told to restart.
WriteDoneQuietly ==
    /\ pc = "writing"
    /\ file' \in Laid(Written(reply))
    /\ pc' = "running"
    /\ UNCHANGED <<mem, doc, reply, op, mishaps, spoilt, edited>>

WriteDone ==
    /\ pc = "writing"
    /\ file' \in Laid(Written(reply))
    /\ pc' = "closing"          \* exitevent.set()
    /\ UNCHANGED <<mem, doc, reply, op, mishaps, spoilt, edited>>

\* A text that does not reach the file, or one whose last section (a
\* document has them in any order) is lost.
Partial(text) == {Empty} \cup
    {Over([x \in DOMAIN text \ {s} |-> text[x]], Empty) : s \in DOMAIN text}

\* The disk fills up: a warning, and the service goes on.
WriteFails ==
    /\ pc = "writing" /\ Mishap
    /\ file' \in Partial(Written(reply))
    /\ pc' = "running"
    /\ spoilt' = TRUE
    /\ UNCHANGED <<mem, doc, reply, op, edited>>

-----------------------------------------------------------------------------
(* The end of a process, and Restart=always.                               *)

\* The main loop sees the exit event, and close_loop() ends the process.
Exit ==
    /\ pc = "closing"
    /\ pc' = "exited"
    /\ UNCHANGED <<file, mem, doc, reply, op, mishaps, spoilt, edited>>

OperatorRestarts ==
    /\ pc = "running" /\ Mishap
    /\ pc' = "closing"
    /\ UNCHANGED <<file, mem, doc, reply, op, spoilt, edited>>

Crash ==
    /\ pc # "exited" /\ Mishap
    /\ pc' = "exited"
    /\ IF pc = "writing"
       THEN file' \in Partial(Written(reply)) /\ spoilt' = TRUE
       ELSE UNCHANGED <<file, spoilt>>
    /\ UNCHANGED <<mem, doc, reply, op, edited>>

SystemdStarts ==
    /\ pc = "exited"
    /\ pc' = "starting"
    /\ UNCHANGED <<file, mem, doc, reply, op, mishaps, spoilt, edited>>

-----------------------------------------------------------------------------
(* What happens beside the service.                                        *)

Set(cfg, s, k, v) ==
    [x \in DOMAIN cfg \cup {s} |->
        IF x # s THEN cfg[x]
        ELSE Over([y \in {k} |-> v], IF s \in DOMAIN cfg THEN cfg[s] ELSE <<>>)]
Remove(cfg, s, k) ==
    [cfg EXCEPT ![s] = [y \in DOMAIN @ \ {k} |-> @[y]]]

\* configparser refuses the value, or the section: nothing is set.
Settable(e) == e[3][1] # "pct" /\ e[1] # "DEFAULT"

\* dbus_config_set() of a service that is on the bus.
ConfigSet(e) ==
    /\ pc \in {"setup", "fetching", "running"} /\ Mishap
    /\ Settable(e)
    /\ mem' = Set(mem, e[1], e[2], e[3])
    /\ edited' = TRUE
    /\ UNCHANGED <<file, pc, doc, reply, op, spoilt>>

\* The command reads the file, changes its copy ...
OperatorReads(text) ==
    /\ op.phase = "idle" /\ file # Garbled /\ Mishap
    /\ op' = [phase |-> "read", text |-> text]
    /\ spoilt' = (spoilt \/ pc = "writing")
    /\ UNCHANGED <<file, pc, mem, doc, reply, edited>>

CmdConfigSet(e) ==
    Settable(e) /\ OperatorReads(Set(file, e[1], e[2], Bare(e[3])))
CmdConfigRemove(e) ==
    e[1] \in DOMAIN file /\ OperatorReads(Remove(file, e[1], e[2]))

\* ... opens it, which empties it, and writes the copy.
OperatorOpens ==
    /\ op.phase = "read"
    /\ file' = Empty
    /\ op' = [op EXCEPT !.phase = "open"]
    /\ spoilt' = (spoilt \/ pc = "writing")
    /\ edited' = TRUE
    /\ UNCHANGED <<pc, mem, doc, reply, mishaps>>

OperatorWrites ==
    /\ op.phase = "open"
    /\ file' \in Laid(op.text)
    /\ op' = Idle
    /\ edited' = TRUE
    /\ UNCHANGED <<pc, mem, doc, reply, mishaps, spoilt>>

ServerChanges ==
    /\ Mishap
    /\ doc' \in Docs \ {doc}
    /\ UNCHANGED <<file, pc, mem, reply, op, spoilt, edited>>

-----------------------------------------------------------------------------
Service ==
    \/ SetupRefuses \/ SetupAccepts
    \/ ProviderRaises \/ ProviderSkips \/ Request
    \/ FetchFails \/ FetchedSame \/ FetchedUnusable \/ FetchedNew
    \/ WriteDone \/ Exit \/ SystemdStarts

Surroundings ==
    \/ WriteFails \/ OperatorRestarts \/ Crash \/ ServerChanges
    \/ \E e \in Edits : ConfigSet(e) \/ CmdConfigSet(e) \/ CmdConfigRemove(e)

Operator == OperatorOpens \/ OperatorWrites

DeviceNext == Service \/ Operator \/ Surroundings

\* The coroutine runs on, systemd restarts, a command that began ends.
Fairness == WF_deviceVars(Service) /\ WF_deviceVars(Operator)

DeviceSpec == DeviceInit /\ [][DeviceNext]_deviceVars /\ Fairness
-----------------------------------------------------------------------------
(* Properties.                                                             *)

\* What `config validate` says of a file, of the file at hand and of it with
\* any one option at the edge of a check, is what the service will do with
\* it: an error it reports makes the service refuse the file, a file it
\* raises at is not started with, and one it passes is, unless the log cannot
\* be set up, which it does not look at.  The two repeat each other's checks
\* (process.py and cli.py, config.py).  Only the service reads where the
\* schema is, and may fail at that.
AdminAgrees ==
    (file # Garbled /\ pc = "starting") =>
        \A f \in {file} \cup {Set(file, p[1], p[2], p[3]) : p \in Probes} :
            LET o == Options(f, "dbus")
                says == AdminValidate(f, SchemaOf(o))
            IN (Verdict(ApplyDbusConfig(o)) = "ok" /\ SchemaLoads(o)) =>
                   /\ says = "error" => Setup(f) = "error"
                   /\ says = "raises" => Setup(f) # "ok"
                   /\ says = "ok" => Setup(f) = Verdict(SetupLogging(f["DEFAULT"]))

\* A document that survives being written and read back: lower-case keys,
\* texts that have neither percent signs nor white space around them, no
\* [DEFAULT], every default spelt out.
ReadsBack(d) ==
    /\ "DEFAULT" \notin DOMAIN d
    /\ \A s \in DOMAIN d : \A k \in DOMAIN d[s] :
           d[s][k][1] \in Verbatim /\ Lower(k) = k
    /\ LET w == Written(d) spec == SchemaOf(Options(w, "dbus"))
       IN \A s \in Checked(w, spec) : Defaulted(w, spec, s) = {}

\* A file a service runs with, and a document that makes one.
Accepted(f) == Setup(f) = "ok" /\ ~Fails(Loaded(f))
Sound(d) == ReadsBack(d) /\ Accepted(Written(d))

\* The service has come to what the server wants: the file is the document
\* as it was written, and a service that compares has read it.
Settled ==
    /\ Sound(doc) /\ file = Written(doc) /\ op.phase = "idle"
    /\ pc # "writing"
    /\ pc \in {"setup", "fetching"} => mem = Loaded(file)

\* A settled device stays so until the server changes its mind or somebody
\* edits the configuration: the service neither writes the file again nor
\* leaves unasked, however often it is restarted or crashes.
StaysSettled ==
    [][Settled =>
           \/ Settled' /\ (pc' \in {"closing", "exited"} =>
                              pc \in {"closing", "exited"} \/ mishaps' < mishaps)
           \/ doc' # doc \/ op' # op \/ (edited' /\ mem' # mem)]_deviceVars

\* Nobody else is at a file that the service writes, unless it shows.
WritesAlone ==
    (pc = "writing" /\ ~spoilt) => file = Empty /\ op.phase # "open"

\* A sound document, still the one served, that is written through with nobody
\* in between settles the device before the restart it asks for.
WriteSettles ==
    [][(/\ pc = "writing" /\ pc' = "closing" /\ op.phase = "idle"
        /\ ~spoilt /\ reply = doc /\ Sound(doc)) => Settled']_deviceVars

\* With a server that settles on a sound document and a file that stays
\* acceptable, the restarts come to an end.
Settles ==
    <>[](Sound(doc) /\ ~spoilt /\ Accepted(file)) => <>[](pc = "running")

\* A sound document that is being written takes effect: the service comes
\* to run with it, unless the write is cut short, the server changes its
\* mind or someone edits the configuration.
Provisions ==
    (pc = "writing" /\ reply = doc /\ Sound(reply) /\ op.phase = "idle")
        ~> (\/ pc = "running" /\ Current(mem) = reply
            \/ doc # reply \/ spoilt \/ edited \/ op.phase # "idle")
=============================================================================
