-------------------------- MODULE ProcessLifecycle --------------------------
(***************************************************************************)
(* The life of a service after its configuration was accepted: ProcessBase *)
(* (process.py) from init_loop() to the end of asyncio.run(), with the     *)
(* middleware it loads, the tasks it watches and the signals that end it.  *)
(*                                                                         *)
(* One coroutine, main_loop(), does everything in order; what happens      *)
(* beside it are the tasks that run or end, the handlers of termination    *)
(* signals, which set the exit event a turn of the loop after the signal,  *)
(* and the bus, which may drop.  What a subclass or a middleware overrides *)
(* (start_dbus, update_tasks, setup, teardown, on_error) may do whatever   *)
(* the base class reacts to.                                               *)
(***************************************************************************)
EXTENDS Integers, SequencesExt

CONSTANTS
    Classes,        \* middleware classes
    Programmatic,   \* register_middleware(): entries, in order
    Configured,     \* [middleware]: entries, in order
    Jobs,           \* names of the tasks update_tasks() keeps running
    NoName          \* an entry that names a class, not an entry point

\* An entry names a class by an entry point, and the section it reads.
EntryShape(e) == DOMAIN e = {"name", "class", "section"} /\ e.class \in Classes

ASSUME EntryAssumption ==
    /\ \A i \in DOMAIN Programmatic : EntryShape(Programmatic[i])
    /\ \A i \in DOMAIN Configured : EntryShape(Configured[i])
                                    /\ Configured[i].name # NoName
ASSUME ListAssumption == /\ Programmatic \in Seq(ToSet(Programmatic))
                         /\ Configured \in Seq(ToSet(Configured))
ASSUME NameAssumption ==
    Classes \cap Jobs = {} /\ "WaitExit" \notin Classes \cup Jobs

\* The names tasks go by: a middleware's own task has the name of its class.
Names == Classes \cup Jobs \cup {"WaitExit"}
Declared == Programmatic \o Configured

VARIABLES
    pc,             \* where main_loop() is
    fate,           \* what becomes of each declared entry when it is loaded
    loaded,         \* _middleware_instances, _middleware_names, their sections
    next,           \* entries loaded so far; then the instance that is set up,
                    \* or torn down, next
    failed,         \* instances whose setup failed and was tolerated, by index
    task,           \* tasklist: what the task under each name is doing
    orphans,        \* running tasks that the list no longer holds
    cancelled,      \* the task close_loop() has cancelled and waits for
    todo,           \* tasks of the list that close_loop() has not dealt with
    exit,           \* exitevent
    signalled,      \* a signal's handler has not run yet
    bus,            \* the connection of self.bus
    \* History of the run: nothing in the code reads or writes these.
    ready,          \* instances whose setup succeeded
    torn            \* instances torn down, in order

vars == <<pc, fate, loaded, next, failed, task, orphans, cancelled, todo,
          exit, signalled, bus, ready, torn>>
middleware == <<fate, loaded, next, failed, ready, torn>>

\* What may become of an entry; a class given as such is not looked up.
Fates(entry) == {"loads", "broken"}
                    \cup IF entry.name = NoName THEN {} ELSE {"unknown"}

NoTask == [n \in Names |-> "absent"]
Nothing == [instances |-> <<>>, names |-> {}, section |-> <<>>]

Init ==
    /\ pc = "init"
    /\ fate \in [DOMAIN Declared -> {"loads", "unknown", "broken"}]
    /\ \A i \in DOMAIN Declared : fate[i] \in Fates(Declared[i])
    /\ loaded = Nothing /\ next = 0 /\ failed = {}
    /\ task = NoTask /\ orphans = {} /\ cancelled = {} /\ todo = {}
    /\ exit = FALSE /\ signalled = FALSE
    /\ bus = "none"
    /\ ready = {} /\ torn = <<>>

-----------------------------------------------------------------------------
(* Loading: declared middleware first, then configured, one instance each. *)

Has(acc, class) == class \in ToSet(acc.instances)

Named(acc, entry) == [acc EXCEPT !.names = @ \cup
    (IF entry.name = NoName THEN {} ELSE {<<entry.name, entry.class>>})]

Sectioned(acc, entry) ==
    [acc EXCEPT !.section = [c \in DOMAIN @ \cup {entry.class} |->
        IF c = entry.class THEN entry.section ELSE @[c]]]

Instantiated(acc, entry) ==
    [Sectioned(Named(acc, entry), entry) EXCEPT
        !.instances = Append(@, entry.class)]

LoadProgrammatic(acc, i) ==
    IF fate[i] # "loads" \/ Has(acc, Declared[i].class) THEN acc
    ELSE Instantiated(acc, Declared[i])

\* Mutant: the instance already there keeps its section.
LoadConfigKeepsSection(acc, i) ==
    IF fate[i] = "unknown" THEN acc
    ELSE IF Has(acc, Declared[i].class) THEN Named(acc, Declared[i])
    ELSE IF fate[i] = "broken" THEN acc
    ELSE Instantiated(acc, Declared[i])

\* The instance already there is updated, whatever its constructor would do.
LoadConfig(acc, i) ==
    IF fate[i] = "unknown" THEN acc
    ELSE IF Has(acc, Declared[i].class)
         THEN Sectioned(Named(acc, Declared[i]), Declared[i])
    ELSE IF fate[i] = "broken" THEN acc
    ELSE Instantiated(acc, Declared[i])

Load(acc, i) == IF i <= Len(Programmatic) THEN LoadProgrammatic(acc, i)
                                          ELSE LoadConfig(acc, i)

\* The exit event and the handlers exist; the next entry is loaded.
LoadNext ==
    /\ pc = "init" /\ next < Len(Declared)
    /\ loaded' = Load(loaded, next + 1)
    /\ next' = next + 1
    /\ UNCHANGED <<pc, fate, failed, task, orphans, cancelled, todo, exit,
                   signalled, bus, ready, torn>>

InitMiddleware ==
    /\ pc = "init" /\ next = Len(Declared)
    /\ pc' = "dbus"
    /\ UNCHANGED <<middleware, task, orphans, cancelled, todo, exit, signalled,
                   bus>>

\* get_middleware() of an entry point's name: one instance at most.
GetMiddleware(name) == {n[2] : n \in {m \in loaded.names : m[1] = name}}

-----------------------------------------------------------------------------
(* The parts of main_loop() that run without a break.                      *)

\* close_loop() starts from a copy of the list.
BeginClose(list) == {n \in Names : list[n] # "absent"}

Close(list) == pc' = "closing" /\ task' = list /\ todo' = BeginClose(list)

\* Mutant: only jobs that never ran are started.
UpdateTasksOnce(list) ==
    [n \in Names |-> IF n \in Jobs /\ list[n] = "absent" /\ task[n] = "absent"
                     THEN "running" ELSE list[n]]

\* update_tasks() as every service writes it: start what is not in the list.
UpdateTasks(list) ==
    [n \in Names |-> IF n \in Jobs /\ list[n] = "absent" THEN "running"
                                                         ELSE list[n]]

\* The head of the loop, with "list" for the task list; what update_tasks()
\* raises leaves main_loop() without close_loop().
LoopHead(list) ==
    IF exit THEN Close(list)
    ELSE \/ pc' = "waiting" /\ task' = UpdateTasks(list) /\ UNCHANGED todo
         \/ pc' = "crashed" /\ task' = list /\ UNCHANGED todo

-----------------------------------------------------------------------------
(* init_loop()                                                             *)

StartDbus ==
    /\ pc = "dbus"
    /\ bus' = "up"
    /\ pc' = "setup" /\ next' = 1
    /\ UNCHANGED <<fate, loaded, failed, task, orphans, cancelled, todo, exit,
                   signalled, ready, torn>>

\* start_dbus() returns False, with or without a connection.
StartDbusRefused ==
    /\ pc = "dbus"
    /\ bus' \in {"none", "up"}
    /\ exit' = TRUE
    /\ Close(task)
    /\ UNCHANGED <<middleware, orphans, cancelled, signalled>>

\* start_dbus() raises, typically because there is no bus.
StartDbusRaises ==
    /\ pc = "dbus"
    /\ pc' = "crashed"
    /\ UNCHANGED <<middleware, task, orphans, cancelled, todo, exit, signalled,
                   bus>>

Current == loaded.instances[next]

\* What setup() of an instance may do before it returns or raises: add a task
\* of its own, and ask for a restart.
SetupEffects ==
    /\ \E t \in {task, [task EXCEPT ![Current] = "running"]} : task' = t
    /\ exit' \in {exit, TRUE}

SetupOk ==
    /\ pc = "setup" /\ next <= Len(loaded.instances)
    /\ SetupEffects
    /\ ready' = ready \cup {Current}
    /\ next' = next + 1
    /\ UNCHANGED <<pc, fate, loaded, failed, orphans, cancelled, todo,
                   signalled, bus, torn>>

\* on_error() returns True.
SetupTolerated ==
    /\ pc = "setup" /\ next <= Len(loaded.instances)
    /\ SetupEffects
    /\ failed' = failed \cup {next}
    /\ next' = next + 1
    /\ UNCHANGED <<pc, fate, loaded, orphans, cancelled, todo, signalled, bus,
                   ready, torn>>

\* on_error() returns False: init_loop() gives up, main_loop() closes.
SetupAborts ==
    /\ pc = "setup" /\ next <= Len(loaded.instances)
    /\ \E t \in {task, [task EXCEPT ![Current] = "running"]} : Close(t)
    /\ UNCHANGED <<middleware, orphans, cancelled, exit, signalled, bus>>

\* Every setup() has returned or was tolerated.
SetupEnds ==
    /\ pc = "setup" /\ next > Len(loaded.instances)
    /\ pc' = "dropping"
    /\ UNCHANGED <<middleware, task, orphans, cancelled, todo, exit, signalled,
                   bus>>

\* The instance at index i goes, and every name it has.
WithoutFailed(i) ==
    [loaded EXCEPT !.instances = RemoveAt(@, i),
                   !.names = {n \in @ : n[2] # loaded.instances[i]}]

\* Mutant: removed from the front, each removal shifts the ones after it.
DropFromFront(i) ==
    /\ pc = "dropping" /\ i \in failed /\ \A k \in failed : i <= k
    /\ loaded' = IF i <= Len(loaded.instances) THEN WithoutFailed(i) ELSE loaded
    /\ failed' = failed \ {i}
    /\ UNCHANGED <<pc, fate, next, task, orphans, cancelled, todo, exit,
                   signalled, bus, ready, torn>>

\* The failed instances are removed by index, from the back.
DropFailed(i) ==
    /\ pc = "dropping" /\ i \in failed /\ \A k \in failed : k <= i
    /\ loaded' = WithoutFailed(i)
    /\ failed' = failed \ {i}
    /\ UNCHANGED <<pc, fate, next, task, orphans, cancelled, todo, exit,
                   signalled, bus, ready, torn>>

\* Mutant: nothing in the list waits for the exit event.
FirstListEmpty == NoTask

FirstList == [NoTask EXCEPT !["WaitExit"] = "running"]

\* tasklist.clear() forgets what setup() added; then WaitExit, and the loop.
SetupDone ==
    /\ pc = "dropping" /\ failed = {}
    /\ orphans' = orphans \cup {n \in Names : task[n] = "running"}
    /\ LoopHead(FirstList)
    /\ UNCHANGED <<middleware, cancelled, exit, signalled, bus>>

-----------------------------------------------------------------------------
(* main_loop() and close_loop()                                            *)

Done == {n \in Names : task[n] = "finished"}

\* asyncio.wait() returns; what has finished leaves the list.
WakeUp ==
    /\ pc = "waiting" /\ Done # {}
    /\ LET list == [n \in Names |-> IF n \in Done THEN "absent" ELSE task[n]]
       IN  IF "WaitExit" \in Done THEN Close(list) ELSE LoopHead(list)
    /\ UNCHANGED <<middleware, orphans, cancelled, exit, signalled, bus>>

\* Mutant: a task that is cancelled is taken to be gone.
CancelTaskNoWait(n) ==
    /\ pc = "closing" /\ n \in todo /\ cancelled = {}
    /\ todo' = todo \ {n}
    /\ UNCHANGED <<pc, middleware, task, orphans, cancelled, exit, signalled,
                   bus>>

\* _cancel_task(): wait_for() and then cancel() tell a running task to end...
CancelTask(n) ==
    /\ pc = "closing" /\ n \in todo /\ cancelled = {}
    /\ IF task[n] = "finished"
       THEN todo' = todo \ {n} /\ UNCHANGED cancelled
       ELSE cancelled' = {n} /\ UNCHANGED todo
    /\ UNCHANGED <<pc, middleware, task, orphans, exit, signalled, bus>>

\* ... and both wait until it has.
TaskGone(n) ==
    /\ pc = "closing" /\ n \in cancelled /\ task[n] = "finished"
    /\ todo' = todo \ {n} /\ cancelled' = {}
    /\ UNCHANGED <<pc, middleware, task, orphans, exit, signalled, bus>>

\* Every instance is torn down, the ones setup() never reached too.
TeardownBegin ==
    /\ pc = "closing" /\ todo = {}
    /\ pc' = "teardown" /\ next' = Len(loaded.instances)
    /\ UNCHANGED <<fate, loaded, failed, task, orphans, cancelled, todo, exit,
                   signalled, bus, ready, torn>>

\* teardown() of the last instance left; an exception is logged.
Teardown ==
    /\ pc = "teardown" /\ next > 0
    /\ torn' = Append(torn, Current)
    /\ next' = next - 1
    /\ UNCHANGED <<pc, fate, loaded, failed, task, orphans, cancelled, todo,
                   exit, signalled, bus, ready>>

\* bus.stop(); on a connection that was lost it raises.
StopBus ==
    /\ pc = "teardown" /\ next = 0
    /\ bus' = IF bus = "up" THEN "stopped" ELSE bus
    /\ pc' = IF bus = "lost" THEN "crashed" ELSE "closed"
    /\ UNCHANGED <<middleware, task, orphans, cancelled, todo, exit, signalled>>

\* asyncio.run() cancels whatever still runs and waits for it.
RunEnds ==
    /\ pc \in {"closed", "crashed"}
    /\ pc' = "exited"
    /\ task' = [n \in Names |-> IF task[n] = "running" THEN "finished"
                                                       ELSE task[n]]
    /\ orphans' = {}
    /\ UNCHANGED <<middleware, cancelled, todo, exit, signalled, bus>>

-----------------------------------------------------------------------------
(* What happens beside the main coroutine.                                 *)

\* A step that does not await leaves no room for it.
Alive == pc \notin {"init", "dropping", "exited"}

\* do_waitexit(): the event is set, or the task is cancelled.
WaitExitEnds ==
    /\ Alive /\ task["WaitExit"] = "running"
    /\ exit \/ "WaitExit" \in cancelled
    /\ task' = [task EXCEPT !["WaitExit"] = "finished"]
    /\ UNCHANGED <<pc, middleware, orphans, cancelled, todo, exit, signalled, bus>>

\* A task returns, raises, or ends because it was cancelled.
TaskEnds(n) ==
    /\ Alive /\ n # "WaitExit" /\ task[n] = "running"
    /\ task' = [task EXCEPT ![n] = "finished"]
    /\ UNCHANGED <<pc, middleware, orphans, cancelled, todo, exit, signalled, bus>>

OrphanEnds(n) ==
    /\ Alive /\ n \in orphans
    /\ orphans' = orphans \ {n}
    /\ UNCHANGED <<pc, middleware, task, cancelled, todo, exit, signalled, bus>>

\* SIGHUP, SIGTERM or SIGINT: the handler is a task of its own.
Signal ==
    /\ Alive /\ ~signalled
    /\ signalled' = TRUE
    /\ UNCHANGED <<pc, middleware, task, orphans, cancelled, todo, exit, bus>>

SignalTermHandler ==
    /\ Alive /\ signalled
    /\ signalled' = FALSE /\ exit' = TRUE
    /\ UNCHANGED <<pc, middleware, task, orphans, cancelled, todo, bus>>

BusLost ==
    /\ Alive /\ bus = "up"
    /\ bus' = "lost"
    /\ UNCHANGED <<pc, middleware, task, orphans, cancelled, todo, exit, signalled>>

-----------------------------------------------------------------------------
InitLoop == \/ LoadNext \/ InitMiddleware
            \/ StartDbus \/ StartDbusRefused \/ StartDbusRaises
            \/ SetupOk \/ SetupTolerated \/ SetupAborts
            \/ SetupEnds \/ SetupDone
            \/ \E i \in failed : DropFailed(i)

CloseLoop == \/ \E n \in Names : CancelTask(n) \/ TaskGone(n)
             \/ TeardownBegin \/ Teardown \/ StopBus

Main == InitLoop \/ WakeUp \/ CloseLoop \/ RunEnds

Beside == \/ WaitExitEnds
          \/ \E n \in Names : TaskEnds(n) \/ OrphanEnds(n)
          \/ Signal \/ SignalTermHandler \/ BusLost

Next == Main \/ Beside

Spec == Init /\ [][Next]_vars

\* The event loop runs what is ready, what a subclass overrides returns or
\* raises, and a task that is cancelled ends.
Fairness == /\ WF_vars(Main)
            /\ WF_vars(WaitExitEnds) /\ WF_vars(SignalTermHandler)
            /\ \A n \in Names : WF_vars(n \in cancelled /\ TaskEnds(n))

FairSpec == Spec /\ Fairness

-----------------------------------------------------------------------------
(* What makes the lifecycle correct.                                       *)

Stages == {"init", "dbus", "setup", "dropping", "waiting", "closing",
           "teardown", "closed", "crashed", "exited"}

\* Every variable keeps its type; and once the service runs, the instances are
\* the ones that were set up: get_middleware() returns none whose setup failed.
TypeOK ==
    /\ pc \in Stages
    /\ ToSet(loaded.instances) \subseteq Classes
    /\ DOMAIN loaded.section \subseteq Classes
    /\ \A n \in loaded.names : n[2] \in Classes
    /\ next \in 0 .. Len(Declared) + 1
    /\ failed \subseteq 1 .. Len(Declared)
    /\ task \in [Names -> {"absent", "running", "finished"}]
    /\ orphans \subseteq Classes
    /\ cancelled \subseteq todo /\ todo \subseteq Names
    /\ exit \in BOOLEAN /\ signalled \in BOOLEAN
    /\ bus \in {"none", "up", "lost", "stopped"}
    /\ ready \subseteq Classes /\ ToSet(torn) \subseteq Classes
    /\ pc = "waiting" =>
           /\ \A i \in DOMAIN Declared : GetMiddleware(Declared[i].name) \subseteq ready
           /\ ToSet(loaded.instances) = ready

\* The singleton rule of _init_middleware(): once the entries are loaded there
\* is one instance of a class at most, and it uses the section of the last
\* [middleware] entry of its class that could be loaded, even if the service
\* declared the class with another section or the entry's own instance would
\* have failed.  (doc/config.md:117 and doc/middleware.md:18 promise one
\* instance for each of several keys; the code keeps one and the last section.)
ConfigWins ==
    pc # "init" =>
        /\ IsInjective(loaded.instances)
        /\ \A i \in DOMAIN Declared :
              /\ i > Len(Programmatic) /\ fate[i] # "unknown"
              /\ \A j \in DOMAIN Declared :
                    j > i /\ Declared[j].class = Declared[i].class
                        => fate[j] = "unknown"
              /\ Declared[i].class \in DOMAIN loaded.section
              => loaded.section[Declared[i].class] = Declared[i].section

\* No middleware is torn down while a task of the list still runs, and the
\* bus is there, if it was not lost, until the last one is.  In the end every
\* middleware that was set up is torn down, once, and in the reverse order,
\* whatever way the run ended that went through close_loop().
TornDown ==
    /\ torn # <<>> => \/ pc \in {"closed", "crashed", "exited"}
                      \/ \A n \in Names : task[n] # "running"
    /\ bus = "stopped" => ToSet(torn) = ToSet(loaded.instances)
    /\ pc = "closed" => /\ ready \subseteq ToSet(torn)
                        /\ torn = Reverse(loaded.instances)
                        /\ IsInjective(torn)

\* A termination signal ends the process, whenever it arrives.
SignalEnds == signalled ~> pc = "exited"

\* A task that ends while the service runs is started again.
JobsRestart ==
    \A n \in Jobs : (pc = "waiting" /\ task[n] = "finished")
                        ~> (task[n] = "running" \/ exit \/ pc = "crashed")
=============================================================================
