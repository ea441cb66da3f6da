----------------------------- MODULE GpioLines -----------------------------
(***************************************************************************)
(* The GPIO service (service.py) and its shim over libgpiod (shim.py): how *)
(* [gpio] becomes a line request, how edges become line_changed signals,   *)
(* and what closing leaves on the outputs.                                 *)
(*                                                                         *)
(* The hardware moves whenever it likes, between the kernel calls of one   *)
(* step of the service as well.  The kernel queues the edges of watched    *)
(* lines and drops the oldest when the queue is full; a call to it may     *)
(* fail.  The D-Bus handlers are exported from bus.start() until the bus   *)
(* stops, which is after the lines are released.                           *)
(***************************************************************************)
EXTENDS Integers, SequencesExt

CONSTANTS
    Offsets,        \* lines of the chip
    Aliases,        \* names [gpio.linemap] may give them
    Configs,        \* the [gpio] sections considered
    QueueSize       \* edges the kernel keeps

Values == {"low", "high"}

ASSUME QueueAssumption == QueueSize \in Nat \ {0}
ASSUME AliasAssumption == Aliases \cap Offsets = {}
ASSUME ConfigAssumption ==
    \A c \in Configs :
        /\ c.lines \cup c.watch_lines \cup c.output_lines \subseteq Offsets \cup Aliases
        /\ DOMAIN c.linemap \subseteq Aliases
        /\ c.default_values \in Seq((Offsets \cup Aliases) \X Values)
        /\ c.edge \in {"both", "rising", "falling"}

VARIABLES
    phase,          \* how far the service has come
    config,         \* the [gpio] section
    inputs, watched, outputs,   \* the line sets resolved from it
    default,        \* _default_values
    held,           \* the shim holds the line request
    level,          \* what each line is at
    edges,          \* edges of watched lines that the kernel has queued
    watch,          \* the watch task
    batch,          \* edges it has taken and not looked at
    reads,          \* the last value it read for each of them
    \* History of the run: nothing in the code reads or writes these.
    reported,       \* the value last signalled, or at the request
    missed,         \* watched lines whose last edges the kernel dropped
    resetTo         \* what close_loop() set each output to

lines == <<config, inputs, watched, outputs>>
task == <<watch, batch, reads>>
vars == <<phase, config, inputs, watched, outputs, default, held, level, edges,
          watch, batch, reads, reported, missed, resetTo>>
history == <<reported, missed, resetTo>>

Unread == [o \in Offsets |-> "none"]

Init ==
    /\ phase = "setup"
    /\ config \in Configs
    /\ inputs = {} /\ watched = {} /\ outputs = {}
    /\ default = [o \in Offsets |-> "none"]
    /\ held = FALSE
    /\ level \in [Offsets -> Values]
    /\ edges = <<>>
    /\ watch = "none" /\ batch = <<>> /\ reads = Unread
    /\ reported = level /\ missed = {} /\ resetTo = Unread

-----------------------------------------------------------------------------
(* [gpio] into line sets.                                                  *)

\* _parse_linemap(): the names given to a number.
LineMap == {a \in DOMAIN config.linemap : config.linemap[a] \in Offsets}

\* _resolve_reference(): a number is an offset, anything else a name.
Resolve(ref) == IF ref \in Offsets THEN {ref}
                ELSE {config.linemap[a] : a \in LineMap \cap {ref}}

ResolveAll(refs) == UNION {Resolve(ref) : ref \in refs}

Resolvable ==
    \A ref \in config.lines \cup config.watch_lines \cup config.output_lines
                \cup {d[1] : d \in ToSet(config.default_values)} : Resolve(ref) # {}

Outputs == ResolveAll(config.output_lines)

\* Mutant: an output that is watched is requested twice.
WatchedAsListed == ResolveAll(config.watch_lines)

Watched == ResolveAll(config.watch_lines) \ Outputs
Inputs == ResolveAll(config.lines) \ (ResolveAll(config.watch_lines) \cup Outputs)

\* default_values: of the entries for one line the last in the file wins;
\* entries for lines that are no output are skipped.
Entries(o) == {i \in DOMAIN config.default_values :
                   o \in Resolve(config.default_values[i][1])}

Defaults ==
    [o \in Offsets |-> IF o \notin Outputs \/ Entries(o) = {} THEN "none"
                       ELSE config.default_values[Max(Entries(o))][2]]

\* The value an output has by default.
Default(o) == IF default[o] = "none" THEN "low" ELSE default[o]

\* request_lines(): the outputs are driven to their defaults at once.
RequestLines ==
    [o \in Offsets |-> IF o \notin Outputs THEN level[o]
                       ELSE IF Defaults[o] = "none" THEN "low" ELSE Defaults[o]]

\* setup(): resolve, open the chip, request the lines.  From here on the
\* kernel queues edges.
Setup ==
    /\ phase = "setup" /\ Resolvable
    /\ inputs' = Inputs /\ watched' = Watched /\ outputs' = Outputs
    /\ default' = Defaults
    /\ held' = TRUE
    /\ level' = RequestLines /\ reported' = level'
    /\ phase' = "starting"
    /\ UNCHANGED <<config, edges, task, missed, resetTo>>

\* A reference that means nothing, no chip, or lines that cannot be requested.
SetupFails ==
    /\ phase = "setup"
    /\ phase' = "off"
    /\ UNCHANGED <<lines, default, held, level, edges, task, history>>

-----------------------------------------------------------------------------
(* The hardware and the kernel                                             *)

Queue(o) == IF Len(edges) < QueueSize THEN Append(edges, o)
                                      ELSE Append(Tail(edges), o)

\* A line that the service does not drive changes.
LevelChange(o) ==
    /\ phase # "off" /\ o \notin outputs
    /\ level' = [level EXCEPT ![o] = IF @ = "low" THEN "high" ELSE "low"]
    /\ edges' = IF held /\ o \in watched
                   /\ config.edge \in {"both", IF level'[o] = "high" THEN "rising"
                                                                     ELSE "falling"}
                THEN Queue(o) ELSE edges
    /\ missed' = (missed \cup ToSet(edges)) \ ToSet(edges')
    /\ UNCHANGED <<phase, lines, default, held, task, reported, resetTo>>

-----------------------------------------------------------------------------
(* The watch task: between two of its sleeps nothing else runs.            *)

LoopFree == watch # "reading"

\* bus.start() has returned.
StartDbus ==
    /\ phase = "starting"
    /\ phase' = "running"
    /\ watch' = IF watched = {} THEN "none" ELSE "asleep"
    /\ UNCHANGED <<lines, default, held, level, edges, batch, reads, history>>

\* There is no bus: start_dbus() raises, and nothing is closed.
StartDbusRaises ==
    /\ phase = "starting"
    /\ phase' = "off" /\ held' = FALSE
    /\ UNCHANGED <<lines, default, level, edges, task, history>>

\* wait_events() takes what the kernel has queued: the chip is modelled as the
\* tests' fake chip behaves, whose wait_edge_events() returns the events...
WaitEvents ==
    /\ phase = "running" /\ watch = "asleep" /\ edges # <<>>
    /\ batch' = edges /\ edges' = <<>>
    /\ reads' = Unread
    /\ watch' = "reading"
    /\ UNCHANGED <<phase, lines, default, held, level, history>>

\* Mutant: an edge is taken for the opposite of what was signalled.
ReadValueToggled ==
    /\ watch = "reading" /\ batch # <<>>
    /\ reads' = [reads EXCEPT ![Head(batch)] =
          IF "low" \in {@, IF @ = "none" THEN reported[Head(batch)] ELSE @}
          THEN "high" ELSE "low"]
    /\ batch' = Tail(batch)
    /\ UNCHANGED <<phase, lines, default, held, level, edges, watch, history>>

\* ... and reads the line of each edge, as it is by now...
ReadValue ==
    /\ watch = "reading" /\ batch # <<>>
    /\ reads' = [reads EXCEPT ![Head(batch)] = level[Head(batch)]]
    /\ batch' = Tail(batch)
    /\ UNCHANGED <<phase, lines, default, held, level, edges, watch, history>>

\* Mutant: one batch and no more.
EmitChangesOnce ==
    /\ watch = "reading" /\ batch = <<>>
    /\ reported' = [o \in Offsets |-> IF reads[o] = "none" THEN reported[o]
                                                           ELSE reads[o]]
    /\ watch' = "ended"
    /\ UNCHANGED <<phase, lines, default, held, level, edges, batch, reads, missed, resetTo>>

\* ... and when all are read they are signalled.
EmitChanges ==
    /\ watch = "reading" /\ batch = <<>>
    /\ reported' = [o \in Offsets |-> IF reads[o] = "none" THEN reported[o]
                                                           ELSE reads[o]]
    /\ watch' = "asleep"
    /\ UNCHANGED <<phase, lines, default, held, level, edges, batch, reads, missed, resetTo>>

\* The kernel refuses a call: the exception ends the task, unseen.
WatchRaises ==
    /\ watch = "reading" \/ (watch = "asleep" /\ phase = "running")
    /\ watch' = "failed" /\ batch' = <<>>
    /\ UNCHANGED <<phase, lines, default, held, level, edges, reads, history>>

-----------------------------------------------------------------------------
(* Calls from D-Bus; without the request they raise.                       *)

Exported == phase \in {"starting", "running", "closing", "stopping"} /\ LoopFree

SetValue(o, v) ==
    /\ Exported /\ held /\ o \in outputs
    /\ level' = [level EXCEPT ![o] = v]
    /\ UNCHANGED <<phase, lines, default, held, edges, task, history>>

SetDefaultValue(o, v) ==
    /\ Exported /\ o \in outputs
    /\ default' = [default EXCEPT ![o] = v]
    /\ UNCHANGED <<phase, lines, held, level, edges, task, history>>

-----------------------------------------------------------------------------
(* close_loop()                                                            *)

\* Cancel the watch task and await it, if there is one.
CloseLoop ==
    /\ phase = "running" /\ LoopFree
    /\ phase' = "closing"
    /\ UNCHANGED <<lines, default, held, level, edges, task, history>>

WatchCancelled ==
    /\ phase = "closing" /\ watch = "asleep"
    /\ watch' = "ended"
    /\ UNCHANGED <<phase, lines, default, held, level, edges, batch, reads,
                   history>>

\* A watch task that failed raises its exception here: close_loop() ends, and
\* with it the process, which takes the request along.
CloseRaises ==
    /\ phase = "closing" /\ watch = "failed"
    /\ phase' = "off" /\ held' = FALSE
    /\ UNCHANGED <<lines, default, level, edges, task, history>>

\* Mutant: the lines are released when the process ends.
ResetHeld(refused) ==
    /\ phase = "closing" /\ watch \in {"none", "ended"}
    /\ level' = [o \in Offsets |-> IF o \in outputs \ refused THEN Default(o)
                                                              ELSE level[o]]
    /\ resetTo' = [o \in Offsets |-> IF o \in outputs \ refused THEN Default(o)
                                                                ELSE "none"]
    /\ phase' = "stopping"
    /\ UNCHANGED <<lines, default, held, edges, task, reported, missed>>

\* Every output to its default, whatever the kernel says; then release.
Reset(refused) ==
    /\ phase = "closing" /\ watch \in {"none", "ended"}
    /\ level' = [o \in Offsets |-> IF o \in outputs \ refused THEN Default(o)
                                                              ELSE level[o]]
    /\ resetTo' = [o \in Offsets |-> IF o \in outputs \ refused THEN Default(o)
                                                                ELSE "none"]
    /\ held' = FALSE
    /\ phase' = "stopping"
    /\ UNCHANGED <<lines, default, edges, task, reported, missed>>

StopBus ==
    /\ phase = "stopping"
    /\ phase' = "off"
    /\ UNCHANGED <<lines, default, held, level, edges, task, history>>

-----------------------------------------------------------------------------
Watch == WaitEvents \/ ReadValue \/ EmitChanges

Next ==
    \/ Setup \/ SetupFails \/ StartDbus \/ StartDbusRaises
    \/ Watch \/ WatchRaises
    \/ \E o \in Offsets : LevelChange(o)
    \/ \E o \in Offsets, v \in Values : SetValue(o, v) \/ SetDefaultValue(o, v)
    \/ CloseLoop \/ WatchCancelled \/ CloseRaises \/ StopBus
    \/ \E refused \in SUBSET outputs : Reset(refused)

Spec == Init /\ [][Next]_vars

\* The task is polled every few milliseconds, and bus.start() returns or raises.
FairSpec == Spec /\ WF_vars(Watch) /\ WF_vars(StartDbus \/ StartDbusRaises)

-----------------------------------------------------------------------------
(* What makes the service correct.                                         *)

\* Every variable keeps its type, and a line is requested once: what is listed
\* several times, or under a name and a number, is an output before it is
\* watched and watched before it is read.
TypeOK ==
    /\ phase \in {"setup", "starting", "running", "closing", "stopping", "off"}
    /\ config \in Configs
    /\ inputs \cup watched \cup outputs \subseteq Offsets
    /\ default \in [Offsets -> Values \cup {"none"}]
    /\ held \in BOOLEAN
    /\ level \in [Offsets -> Values]
    /\ edges \in Seq(watched) /\ Len(edges) <= QueueSize
    /\ watch \in {"none", "asleep", "reading", "failed", "ended"}
    /\ batch \in Seq(watched)
    /\ reads \in [Offsets -> Values \cup {"none"}]
    /\ reported \in [Offsets -> Values] /\ missed \subseteq watched
    /\ resetTo \in [Offsets -> Values \cup {"none"}]
    /\ held =>
           /\ inputs \cap watched = {} /\ inputs \cap outputs = {}
           /\ watched \cap outputs = {}
           /\ inputs \cup watched \cup outputs =
                  ResolveAll(config.lines \cup config.watch_lines \cup config.output_lines)
           /\ \A o \in Offsets \ outputs : default[o] = "none"

\* Once every edge has been looked at, the value last signalled is the value
\* of the line, whatever happened between an edge and the reading of its line
\* and even if the kernel dropped edges, as long as a later one was left.
ReportedCurrent ==
    config.edge = "both" /\ held /\ watch = "asleep" /\ edges = <<>> =>
        \A o \in watched \ missed : reported[o] = level[o]

\* Closing leaves every output at its default, as set_default_value() last set
\* it before the reset, although set_value() is served until the bus stops;
\* and the kernel is not asked about lines that have been released.
OutputsReset ==
    /\ watch \in {"asleep", "reading"} => held
    /\ phase = "stopping" =>
        \A o \in outputs : resetTo[o] # "none" => level[o] = resetTo[o]

\* A change is signalled at last, or undone, while the service runs and the
\* kernel does not refuse.
ChangesReported ==
    \A o \in Offsets :
        (config.edge = "both" /\ o \in watched /\ reported[o] # level[o])
            ~> \/ reported[o] = level[o] \/ o \in missed
               \/ watch = "failed" \/ phase \notin {"starting", "running"}
=============================================================================
