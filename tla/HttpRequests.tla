---------------------------- MODULE HttpRequests ----------------------------
(***************************************************************************)
(* The HTTP service (service.py): requests that other services ask for     *)
(* over D-Bus, answered at once with a token, run as tasks, and reported   *)
(* by the signal request_completed.                                        *)
(*                                                                         *)
(* The handlers are exported before the session exists and stay exported   *)
(* until the bus stops, after the session is gone: a request may be        *)
(* accepted in every phase, and every await of close_loop() lets requests  *)
(* go on or come in.  The server, the file system and the process itself   *)
(* may fail; systemd starts the service again.                             *)
(***************************************************************************)
EXTENDS Integers, FiniteSets

CONSTANTS
    Tokens,         \* the requests of a run, by their tokens
    Paths,          \* files downloads are written to
    NoPath,         \* the download path of a request that asks for the body
    MaxRetries      \* bound of [http] retries

ASSUME RetriesAssumption == MaxRetries \in Nat
ASSUME PathAssumption == NoPath \notin Paths

VARIABLES
    phase,          \* how far the service has started or closed
    session,        \* _session: not built or dropped, open, or closed
    config,         \* [http]: is there a default_url, and the retries
    stage,          \* what the task of each request is doing
    wants,          \* what each request asked for: which URL, which path
    limit,          \* the retries it read when it began
    tries,          \* the attempts it has made
    cancelled,      \* tasks close_loop() has cancelled and gathers
    file,           \* what each path holds: a download, or what was there
    \* History of the run: nothing in the code reads or writes these.
    signals,        \* request_completed signals by token
    late            \* requests accepted while the service was closing

task == <<wants, limit, tries>>
vars == <<phase, session, config, stage, wants, limit, tries, cancelled, file,
          signals, late>>

Active == {"spawned", "attempt", "backoff", "writing"}
Configs == [url : BOOLEAN, retries : 0 .. MaxRetries]
Wishes == [url : {"default", "given"}, path : Paths \cup {NoPath}]

Init ==
    /\ phase = "off" /\ session = "none"
    /\ config \in Configs
    /\ stage = [t \in Tokens |-> "free"]
    /\ wants = [t \in Tokens |-> [url |-> "default", path |-> NoPath]]
    /\ limit = [t \in Tokens |-> 0] /\ tries = [t \in Tokens |-> 0]
    /\ cancelled = {}
    /\ file = [p \in Paths |-> "old"]
    /\ signals = [t \in Tokens |-> 0] /\ late = {}

Running == {t \in Tokens : stage[t] \in Active}

\* A file is written without a suspension: nothing runs beside it.
LoopFree == \A t \in Tokens : stage[t] # "writing"

-----------------------------------------------------------------------------
(* Starting and stopping                                                   *)

\* start_dbus() up to bus.start(): the handlers are exported from here on.
StartDbus ==
    /\ phase = "off"
    /\ phase' = "starting"
    /\ UNCHANGED <<session, config, stage, task, cancelled, file, signals, late>>

BuildSession ==
    /\ phase = "starting" /\ LoopFree
    /\ phase' = "running" /\ session' = "open"
    /\ UNCHANGED <<config, stage, task, cancelled, file, signals, late>>

\* close_loop() up to its first await: cancel every task there is.
CloseLoop ==
    /\ phase = "running" /\ LoopFree
    /\ phase' = "draining"
    /\ cancelled' = Running
    /\ UNCHANGED <<session, config, stage, task, file, signals, late>>

\* Mutant: the tasks are cancelled and not waited for.
DrainedAtOnce ==
    /\ phase = "draining" /\ LoopFree
    /\ phase' = "dropping" /\ session' = "closed"
    /\ UNCHANGED <<config, stage, task, cancelled, file, signals, late>>

\* All of them have ended; session.close() begins.
Drained ==
    /\ phase = "draining" /\ cancelled = {} /\ LoopFree
    /\ phase' = "dropping" /\ session' = "closed"
    /\ UNCHANGED <<config, stage, task, cancelled, file, signals, late>>

SessionDropped ==
    /\ phase = "dropping" /\ LoopFree
    /\ phase' = "stopping" /\ session' = "none"
    /\ UNCHANGED <<config, stage, task, cancelled, file, signals, late>>

\* What a run that ends leaves: no task, no connection.
Ends ==
    /\ phase' = "off" /\ session' = "none" /\ cancelled' = {}
    /\ stage' = [t \in Tokens |-> IF t \in Running THEN "lost" ELSE stage[t]]
    /\ UNCHANGED <<config, task, file, signals, late>>

\* ProcessBase.close_loop() stops the bus; asyncio.run() ends what is left.
StopBus == phase = "stopping" /\ LoopFree /\ Ends

Crash == phase # "off" /\ Ends

-----------------------------------------------------------------------------
(* Calls                                                                   *)

\* send(), download() and request() with a URL of their own or the default.
Call(t, wish) ==
    /\ phase # "off" /\ LoopFree
    /\ stage[t] = "free"
    /\ stage' = [stage EXCEPT ![t] = "spawned"]
    /\ wants' = [wants EXCEPT ![t] = wish]
    /\ late' = IF phase \in {"starting", "running"} THEN late ELSE late \cup {t}
    /\ UNCHANGED <<phase, session, config, limit, tries, cancelled, file, signals>>

\* config_set(): in memory, read by the next request that begins.
ConfigSet(c) ==
    /\ phase # "off" /\ LoopFree
    /\ config' = c
    /\ UNCHANGED <<phase, session, stage, task, cancelled, file, signals, late>>

-----------------------------------------------------------------------------
(* The task of a request                                                   *)

\* _complete(): the task ends with its signal.
Complete(t) ==
    /\ stage' = [stage EXCEPT ![t] = "completed"]
    /\ signals' = [signals EXCEPT ![t] = @ + 1]

Runs(t) == phase # "off" /\ LoopFree /\ t \notin cancelled

\* send() and download() use the default URL of the moment the task begins.
HasUrl(t) == wants[t].url = "given" \/ config.url

\* _execute() has nothing to do without a URL or a session.
Refused(t) ==
    /\ Runs(t) /\ stage[t] = "spawned"
    /\ ~HasUrl(t) \/ session = "none"
    /\ Complete(t)
    /\ UNCHANGED <<phase, session, config, task, cancelled, file, late>>

\* The retries are read once, the session is kept for all attempts.
Execute(t) ==
    /\ Runs(t) /\ stage[t] = "spawned"
    /\ HasUrl(t) /\ session # "none"
    /\ stage' = [stage EXCEPT ![t] = "attempt"]
    /\ limit' = [limit EXCEPT ![t] = config.retries]
    /\ tries' = [tries EXCEPT ![t] = 1]
    /\ UNCHANGED <<phase, session, config, wants, cancelled, file, signals, late>>

MayRetry(t) == tries[t] <= limit[t]

\* Mutant: every failure is reported, the last one is not the only one.
AttemptFailsAloud(t) ==
    /\ Runs(t) /\ stage[t] = "attempt"
    /\ stage' = [stage EXCEPT ![t] = IF MayRetry(t) THEN "backoff" ELSE "completed"]
    /\ signals' = [signals EXCEPT ![t] = @ + 1]
    /\ UNCHANGED <<phase, session, config, task, cancelled, file, late>>

\* A network error, a timeout or a 5xx answer; the last one is the result.
AttemptFails(t) ==
    /\ Runs(t) /\ stage[t] = "attempt"
    /\ IF MayRetry(t)
       THEN stage' = [stage EXCEPT ![t] = "backoff"] /\ UNCHANGED signals
       ELSE Complete(t)
    /\ UNCHANGED <<phase, session, config, task, cancelled, file, late>>

\* Mutant: what the handler does not expect ends the task without a signal.
AttemptRaisesSilently(t) ==
    /\ Runs(t) /\ stage[t] = "attempt"
    /\ stage' = [stage EXCEPT ![t] = "lost"]
    /\ UNCHANGED <<phase, session, config, task, cancelled, file, signals, late>>

\* Any other exception, as a closed session raises: an internal error.
AttemptRaises(t) ==
    /\ Runs(t) /\ stage[t] = "attempt"
    /\ Complete(t)
    /\ UNCHANGED <<phase, session, config, task, cancelled, file, late>>

BackoffEnds(t) ==
    /\ Runs(t) /\ stage[t] = "backoff"
    /\ stage' = [stage EXCEPT ![t] = "attempt"]
    /\ tries' = [tries EXCEPT ![t] = @ + 1]
    /\ UNCHANGED <<phase, session, config, wants, limit, cancelled, file,
                   signals, late>>

\* An answer below 500 on a session that was open to its end.
Answered(t) ==
    /\ Runs(t) /\ stage[t] = "attempt" /\ session = "open"
    /\ IF wants[t].path = NoPath
       THEN Complete(t)
       ELSE stage' = [stage EXCEPT ![t] = "writing"] /\ UNCHANGED signals
    /\ UNCHANGED <<phase, session, config, task, cancelled, file, late>>

\* Mutant: the file itself is opened and written.
WriteInPlace(t) ==
    /\ stage[t] = "writing"
    /\ file[wants[t].path] # "partial"
    /\ file' = [file EXCEPT ![wants[t].path] = "partial"]
    /\ UNCHANGED <<phase, session, config, stage, task, cancelled, signals, late>>

\* _write_atomic(): the temporary file, written in full, replaces the path.
WriteAtomic(t) ==
    /\ stage[t] = "writing"
    /\ file' = [file EXCEPT ![wants[t].path] = t]
    /\ Complete(t)
    /\ UNCHANGED <<phase, session, config, task, cancelled, late>>

\* An OSError on the way removes the temporary file and is reported.
WriteFails(t) ==
    /\ stage[t] = "writing"
    /\ Complete(t)
    /\ UNCHANGED <<phase, session, config, task, cancelled, file, late>>

\* Mutant: a cancelled attempt is taken for one that failed.
CancelledRetries(t) ==
    /\ LoopFree /\ t \in cancelled
    /\ stage' = [stage EXCEPT ![t] = "backoff"]
    /\ UNCHANGED <<phase, session, config, task, cancelled, file, signals, late>>

\* CancelledError, at whatever await the task was.
Cancelled(t) ==
    /\ LoopFree /\ t \in cancelled
    /\ stage' = [stage EXCEPT ![t] = "cancelled"]
    /\ cancelled' = cancelled \ {t}
    /\ UNCHANGED <<phase, session, config, task, file, signals, late>>

-----------------------------------------------------------------------------
Request(t) == \/ Refused(t) \/ Execute(t)
              \/ AttemptFails(t) \/ AttemptRaises(t) \/ Answered(t)
              \/ BackoffEnds(t) \/ WriteAtomic(t) \/ WriteFails(t)
              \/ Cancelled(t)

Closing == CloseLoop \/ Drained \/ SessionDropped \/ StopBus

Next == \/ StartDbus \/ BuildSession \/ Closing \/ Crash
        \/ \E c \in Configs : ConfigSet(c)
        \/ \E t \in Tokens : Request(t)
        \/ \E t \in Tokens, wish \in Wishes : Call(t, wish)

Spec == Init /\ [][Next]_vars

\* Every attempt is bounded by the session's timeout, every backoff ends, and
\* a close that has begun goes on.
Fairness == /\ \A t \in Tokens : WF_vars(Request(t))
            /\ WF_vars(Drained \/ SessionDropped \/ StopBus)

FairSpec == Spec /\ Fairness

-----------------------------------------------------------------------------
(* What makes the service correct.                                         *)

\* Every variable keeps its type and only requests that run are cancelled; a
\* token is reported once when its task came to its end and otherwise never,
\* and it is tried once and then at most as often as it read in [http],
\* whatever config_set() does while it runs.
TypeOK ==
    /\ phase \in {"off", "starting", "running", "draining", "dropping", "stopping"}
    /\ session \in {"none", "open", "closed"}
    /\ config \in Configs
    /\ stage \in [Tokens -> Active \cup {"free", "completed", "cancelled", "lost"}]
    /\ wants \in [Tokens -> Wishes]
    /\ limit \in [Tokens -> 0 .. MaxRetries]
    /\ tries \in [Tokens -> 0 .. MaxRetries + 1]
    /\ cancelled \subseteq Running
    /\ file \in [Paths -> Tokens \cup {"old", "partial"}]
    /\ signals = [t \in Tokens |-> IF stage[t] = "completed" THEN 1 ELSE 0]
    /\ \A t \in Tokens : tries[t] <= limit[t] + 1
    /\ late \subseteq Tokens

\* No request that the service accepted before it began to close touches the
\* session once that is closed.
SessionOutlivesRequests ==
    phase \in {"dropping", "stopping"} => Running \subseteq late

\* What a stage is to whoever asked.
StageFate(s) == CASE s = "free"      -> "new"
                  [] s \in Active    -> "accepted"
                  [] s = "completed" -> "reported"
                  [] OTHER           -> "dropped"

\* What has become of a request; "odd" is a fate Answers does not know: a
\* second report, or a report of a request that did not come to its end.
Fate(t) == IF signals[t] = (IF stage[t] = "completed" THEN 1 ELSE 0)
           THEN StageFate(stage[t]) ELSE "odd"

A == INSTANCE Answers WITH fate <- [t \in Tokens |-> Fate(t)],
                           path <- [t \in Tokens |-> wants[t].path]

\* Whatever fails, is retried, cancelled or cut short by a crash: a token is
\* reported at most once, nothing comes after its report, and a download path
\* holds what was there or one answer in full, put there in the step that
\* reports its own request, also when downloads race for the path.
AnswersOnce == A!Spec

\* The signal is "never lost" while the service runs: every accepted token is
\* reported, unless the service closes or crashes first.
NeverLost ==
    \A t \in Tokens : stage[t] = "spawned"
                        ~> (signals[t] = 1 \/ phase \notin {"starting", "running"})

\* close_loop() ends although requests keep coming in.
CloseEnds == phase = "draining" ~> phase = "off"
=============================================================================
