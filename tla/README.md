# A TLA+ model of pympacds

pympacds is a small framework for Linux services that talk to each other over D-Bus. A service is one asyncio
process: it owns a well-known bus name with a common prefix, finds its *friends* (services with the same prefix) by
itself, exports contracts, and may wire a friend's signal to another friend's method by a *signal-action rule*.
Three services come with it: MQTT, HTTP and GPIO.

Nothing here runs in parallel, and everything interleaves. All code of a service runs on one event loop; what can go
wrong goes wrong at an `await`, where any number of callbacks and other coroutines run before the code goes on with
what it read before. That is what these modules are about.

The source is under `src/` of the repository root; paths below are relative to it.

## 1. The system's parts

| part | state it keeps | operations | talks to | what is hard | what makes it correct |
|---|---|---|---|---|---|
| **peer discovery**, `src/pympacds/dbus.py` | `friendbus`, the `friendchanges` event, `_introspect_cache`, `_proxy_cache`, `_dbusif` | `update_friendbus`, three name-owner handlers, `introspect_tree`, `get_interface`, `wait_friend_changes` | bus daemon, friends | a reply's continuation runs later than the signals read after it; walks suspended while their friend goes; clear-then-wait | the friend set is the bus's; no cache entry of a former owner; no missed wakeup |
| **signal-action rules**, `src/pympacds/signal_action.py` | the dictionary of rules, each rule's subscriptions and `active`, dispatcher tasks, the rearm task | `setup`, `register_rule`, `remove_rule`, `_arm_rule`, `_rearm`, `teardown` | discovery (sources, `wait_friend_changes`) | a dictionary walked across awaits while it changes; names tested long before they are taken; two tasks arming one rule | one subscription per source, none left after removal, `active` true, rearming complete |
| **signal-action dispatch**, same file | per rule: bounded queue, dispatcher, `pending` | `_enqueue`, `_dispatch_loop`, `_dispatch_signal`, `_retry_pending` | friends' methods | dispatcher and retry run at once; overflow; partial success | no event twice, none retaken once acted on, none held for ever |
| **MQTT connection**, `services/mqtt/src/pympacds_mqtt/` | paho client, `_connected`, `_connect_result`, `_graceful`, `_shutdown`, `_subscribed`, the reconnection task, the message queue | `connect`, `_reconnect_loop`, `disconnect`, `reconnect`, `stop`, `subscribe`, `unsubscribe`, paho's callbacks | broker through paho | three kinds of task share one future and the flags; late answers; callbacks of a replaced client; a full queue | topics survive reconnections; `stop()` is final; retries end only with success; the latest messages are kept |
| **process lifecycle**, `src/pympacds/process.py`, `middleware.py` | `tasklist`, `exitevent`, middleware instances, names and sections | `init_loop`, `main_loop`, `close_loop`, loading, set-up and teardown of middleware | every other part | failing steps, order of teardown, a signal while starting, tasks that end | what was set up is torn down, in reverse, once; a signal always ends the process; jobs are restarted |
| **HTTP provisioning**, `middleware.py` | the configuration file, the configuration in memory | `HttpConfigMiddleware.setup` | a server, systemd, an operator | every start may end in a write and a restart; a file emptied before it is written | restarts come to an end; a sound document takes effect |
| **configuration checks**, `process.py`, `config.py`, `cli.py` | none | `setup`, `config validate` | the file and its schema | two copies of every check; what the service does besides | what one refuses the other does not start with, what it passes starts as far as the log can be set up |
| **HTTP requests**, `services/http/` | running requests by token, the session | `http_request`, attempts and retries, downloads, `config_set`, `close_loop` | remote servers, the file system | requests accepted in every phase; cancellation; retries that read a configuration that changes; a crash in a download | each token reports once, the session outlives its requests, a file holds one answer in full |
| **GPIO**, `services/gpio/` | the requested lines, the watch task, default values | `setup`, `request_lines`, `set_value`, edge events, `close_loop` | kernel chip | a value read at another time than its edge; one queue for all lines; calls after release | the value last reported is current, outputs end at their defaults |
| **installation**, `cli.py`, `security.py` | unit and drop-in files, what systemd has loaded | `install` | systemd, the file system | killed or failing between two of its steps; `[rt]` read twice | files and systemd agree with what was asked when it reports success |
| **real-time settings**, `realtime.py` | requested, applied, verified | `load_rt`, `emit_systemd`, `apply_in_process`, `status_object` | kernel, systemd | fourteen keys whose resets depend on each other; the file is not what was installed | only consistent directives; a report that tells the truth |
| friend subscriptions, `service_discovery.py`; contracts and introspection; the other commands; glue | none, or one shot | | | | |

The components and their status are in `PROJECT.json` under `components`, the hazards, each at its line, under `hazards`.

## 2. What is modelled

### `Discovery` and the interface `FriendWatch` (with `MCDiscovery`, `Discovery_proof`)

The event loop is modelled as far as the code depends on it. The reader handles messages one after the other; a
signal runs its handler at once, a reply only makes a task `ready`. When the reader has read what there is (`EndRead`),
the tasks that are ready *then* run (`turn`), before anything else is read: this is `_run_once()` with its fixed number
of entries. A connection is FIFO and the service sees the bus only through it, so a bus event is modelled at the
moment its message is read, and a `ListNames` reply holds the names owned at that point of the stream.

| action | code |
|---|---|
| `NameAppears`, `NameVanishes`, `NameHandedOver` | the daemon's `NameOwnerChanged`, handled in the same step by `_signal_name_owner_changed` (349-357) and `_signal_name_acquired` or `_signal_name_lost` |
| `ScanStart`, `ScanReply`, `ScanError`, `ScanConnect`, `ScanApply`, `ScanGiveUp` | `update_friendbus` (217-237) with `_connect_dbusif` (318-329), cut at its awaits |
| `FillStart`, `FillReply`, `TreeNext`, `TreeStore` | a walk of `introspect_tree` (181-211): one call per path, the tree stored at the end |
| `FillStart`, `FillReply`, `ProxyStore`, `ProxyFail` | a miss in `get_interface` (146-166) |
| `WatchStart`, `WatchWait`, `WatchWake` | `wait_friend_changes` (278-281) as `_rearm_loop` uses it |

An owner of a name is a fresh number, and a cached tree is the set of owners that sent its parts: what the properties
need to tell a current entry from a stale one. Some variables (`doubtful`, `suspect`) are history.
`doubtful` holds the names whose signal was read between a reply and the `ScanApply` that used it, `suspect` the cache
entries whose fill an ownership change crossed, or whose name went straight from owner to owner: the windows the code
leaves open. The properties say that these are the only ones.

`FriendWatch` is the promise of `wait_friend_changes()`, between the module that keeps it and the one that relies on it:
a caller that waits is woken by the very step that changes the friends, and is told nothing of what changes while it is
away. `WatchKept` is the refinement here, `WatchRelied` the one in `RuleArming`.

Not in this module: `NameAcquired`/`NameLost` sent to the service for its own name (the general signal reports the
same change), the connection's loss, draining in `stop()`, `get_friend_tags`.

### `SignalDispatch` and its abstract specification `Delivery` (with `MCSignalDispatch`, `SignalDispatch_proof`)

One rule. `Signal` is the subscription callback and `_enqueue`; `Take` the dispatcher's `queue.get`; `NoTarget`, `Call`
and `Outcome` cut `_dispatch_signal` at its two awaits and are taken by both tasks that run it, the dispatcher and the
rearm task (`Retry`, `GoOn`, which goes through the copied list); `End` is `remove_rule` or `teardown`. What a target
answers is a choice. Calls that run when the rule ends are cancelled with their task; `Outcome` of the rearm task can
still come after `remove_rule`, as in the code.

`Delivery` is what a rule promises, with no queue, task or retry in it: events are received once and in order, held,
then acted on once or lost. `DeliversOnce` is the refinement: each concrete state maps to the `fate` of each event. An
event that is acted on and still kept for another try maps to a fate `Delivery` does not have.

### `RuleArming` (with `MCRuleArming`, `RuleArming_proof`)

All rules together, their subscriptions, and the tasks that arm them; what is dispatched is left to `SignalDispatch`.
A rule is an object with a number, since a name may stand for several objects at once. `slot` is the dictionary: where
it keeps a rule, with the semantics of a Python dictionary under iteration (an overwritten name keeps its slot, an
added one takes a new one, a walk that finds another size than it began with raises). `ArmResolved` and `ArmSubscribed`
cut `_arm_rule` (564-586) at its awaits; `Walk` is the `for` of `_arm_all` and `_rearm`; `Register`,
`RegisterRefused`, `RegisterListed` are `register_rule` (309-343). Resolving may find any part of the sources there
are: one that cannot be introspected is skipped. `FriendChange` wakes the rearm task only if it waits, and may do so
without a change of the sources: that is what `FriendWatch` promises, and `Discovery` keeps. That the sources
change with the friend set alone is an assumption; a friend that exports a signal late is one whose sources were not found
(`found` in `ArmResolved`), and no event tells the rearm task of them.

### `MqttShim` (with `MCMqttShim`, `MqttShim_proof`)

`connect()` (236-271) is cut at the resolution of the host name and at `wait_for`. Its tasks are the service's start
(`init`), the reconnection loop (`retry`) and D-Bus `reconnect()` calls (`Users`). `result` holds the future each call
created, `pending` is `_connect_result`, which a later call replaces while an earlier one resolves its host name, and
`waitsOn` the future a call really awaits: the one `_connect_result` named when it came to `wait_for`. A timeout
cancels that future, and so every call that shares it. paho and the broker are external: a client's link opens, comes
up, is refused or drops, each with its callback, and a replaced client goes on calling back. paho is modelled as the
shim's own tests' fake client behaves: `connect_async()` starts a connection whose outcome comes by a callback.

A future is identified by the task that created it, so `ConnectBegin` has a guard the code does not: a task begins
anew only when nobody else awaits its earlier future. This is a bound of the model; with it, two tasks still share a
future, and a third call still replaces it.

The reconnection delay outlasts the turn or two of the loop after which a task with an answered future runs on
(`RetryWake`). Not modelled: sockets, TLS, `publish()`, `run_loop()` (external cadence) and the length of the back-off.

### `MqttMessages` over `MqttShim` (with `MCMqttMessages`, `MqttShim_proof`)

`MqttMessages` extends `MqttShim` with what comes in: `OnMessage` is `_on_message` (209-218), on the current client or on
one replaced since, and `ConsumeMessages` the service's task `mqtt_messages`. The queue belongs to the shim, so links and
clients change beneath it. `NextMessages` interleaves the two; no action of `MqttShim` touches the queue.

### `ProcessLifecycle` (with `MCProcessLifecycle`, `ProcessLifecycle_proof`)

`main_loop()` is one coroutine that does everything in order, so `pc` says where it is. `LoadNext` is
one entry of `_init_middleware` and `InitMiddleware` its end, with the fate of each entry a choice: it loads, is broken,
or is an entry point nobody knows. `StartDbus`, `SetupOk`, `SetupTolerated`, `SetupAborts`, `SetupEnds`, `DropFailed` and
`SetupDone` are the rest of `init_loop`: `DropFailed` removes one failed instance, by index and from the end, and
`SetupDone` clears the task list as the code does (line 509). Loading and dropping do not await, so no other step comes
between theirs (`Alive`). `LoopHead` is the head of the loop: the exit event, `update_tasks`, the wait.
`CancelTask`, `TaskGone`, `TeardownBegin`, `Teardown`, `StopBus` are `close_loop`. Beside the coroutine, tasks end or
run on (`orphans` are those the cleared list no longer holds), a termination signal sets the event a turn later, and the
bus may drop. What a subclass overrides may do whatever the base class reacts to.

### `HttpRequests` and its abstract specification `Answers` (with `MCHttpRequests`, `HttpRequests_proof`)

Each token is a request with a stage. `Call` is the D-Bus method, which accepts in every phase from `bus.start()` until
the bus stops; `Execute`, `AttemptFails`, `AttemptRaises`, `Answered`, `BackoffEnds`, `WriteAtomic`, `WriteFails`,
`Refused` and `Cancelled` are `_execute` and `_attempt`, cut at their awaits; `Complete` sends the signal. `CloseLoop`
cancels the tasks there are *then*, `Drained` is the end of the `gather`, `SessionDropped` the end of the session's
`close`. A download is written with the loop blocked (`LoopFree`); a crash in it leaves the temporary file.

`Answers` is what a caller may rely on, with no task, attempt, session or cancellation in it: a request is accepted, then
reported once or dropped, and a path only ever changes from one whole content to another, in the step that reports the
request it was written for. `AnswersOnce` is the refinement: `Fate` maps the stage of each request to what has become of it.

### `GpioLines` (with `MCGpioLines`, `GpioLines_proof`)

`Setup` resolves the three lists of `[gpio]` through the line map and requests the lines; `WaitEvents`, `ReadValue` and
`EmitChanges` are the watch task, with the hardware (`LevelChange`) moving between any two kernel calls. The kernel's
queue is shared by all watched lines and drops its oldest edge (`missed` is history). `SetValue` and `SetDefaultValue` are
served until the bus stops, which is after `Reset`. The chip is modelled as the tests' fake chip behaves, whose
`wait_edge_events()` returns the events themselves. `WatchRaises` and `CloseRaises` are the code's way out when the
kernel refuses: the watch task's error is raised again by `close_loop`.

### `ConfigCheck` and `Provisioning` (with `MCProvisioning`, `Admin_proof`)

`ConfigCheck` has no state: what a configuration is (sections, options behind `[DEFAULT]`, texts abstracted to what a
check tells apart, interpolation of `%`), what a starting service makes of it and the command line's copies of the
checks. `SetupService` is `ProcessBase.setup()`: `ValidateConfig`, then `SetupLogging`, where nothing catches what a
format, a date format or a log file raises, then `ReadRt`, the reading of `[rt]`. A check answers "ok", "error" or
"raises"; nothing catches the last. `AdminValidate` is `config validate`, given the schema the service uses; the errors
it reports of the values in `[rt]`, which a service only logs, are in `RealTime`.

A text is one that configparser has read: without white space around it. `Provisioning` adds the texts a document or an
edit may hold besides (`<<"pad", t>>`), numbers and nulls; `Written` is what a file makes of a document, read again:
numbers become text, keys lower-case, white space goes.

`Provisioning` is a service with the `httpconfprov` middleware under `Restart=always`: `SetupAccepts` and `SetupRefuses`
read and check the file, `Request` to `WriteDone` are `HttpConfigMiddleware.setup`, cut where the file or the memory may
change: at the fetch, and between `open("w")`, which empties the file, and the text that reaches it. Beside it,
`config_set` over the bus changes the memory (the HTTP service's method stands for any service's), `config set` and
`config remove` rewrite the file, the disk fills up, the process crashes, the server changes its mind.

### `RealTime` and `AdminInstall` (with `MCAdminInstall`, `Admin_proof`)

`RealTime` is `[rt]` as functions: `LoadRt` with every check and reset of `_validate`, `EmitSystemd` (systemd's
directives), `Matches`, `Levers` and `StatusOk` (the report). Bounds such as 1 to 99 are the code's. A reading of the
kernel may fail (`unread`), and what the code answers then depends on the lever: affinity, memlock, mlockall, slack and
the two of ioprio pass, the others are mismatches (`Readings`).

`AdminInstall` is `install` for one service, one action per check, per file written and per `systemctl` call, in the
code's order; any step may fail and the command may be killed between two of them. A file is opened with "w", which
empties it, and then written: killed in between, the command leaves the empty file (`WriteCut`); systemd reads an empty
unit as a masked one and an empty drop-in as none. `disk` is the unit and its drop-ins,
`loaded` what systemd read last. The service runs with `loaded`, applies the rest of `[rt]` from the file as it is when
it starts (`Started`), and compares. An edit of `[rt]` may come between the two places where `install` reads it.

## 3. What the runs check

Each run is listed in `PROJECT.json` with its properties; each property is broken by a mutant of the code (operators
beside the definition they mutate, marked as such).

| run | instance | shows |
|---|---|---|
| `discovery_friends` | two names, two scans, the watcher, three owners; with fairness | `FriendSetExact`, `WatchKept`, `FriendSetConverges` |
| `discovery_caches` | one name, one scan, two fills, two owners, two paths, discovery off at start | `TypeOK`, `CachesCurrent` |
| `dispatch_once` | five signals, queue of two, persistent rule that may end; with fairness | `TypeOK`, `EachEventOnce`, `DeliversOnce`, `EveryEventSettles` |
| `rules` | one configured rule and two more, two names, one source, two registering tasks | `TypeOK`, `SubscriptionsExact`, `ServedExactly`, `RearmedExactly` |
| `rules_rearm` (violation) | the same | `RearmAlive`: a rule removed during a rearm ends the rearm task for good |
| `mqtt_topics` | two clients, one topic, one user, direct `disconnect()` allowed | `TypeOK`, `TopicsKept`, `LinkServed` |
| `mqtt_stop` | no user, one client, two topics, four messages, queue of two; with fairness | `StopFinal`, `InboxLatest`, `RetrySucceeds` |
| `lifecycle` | three middleware classes, two declared by the service, three entries in the file, two of them of one class, one job; with fairness | `TypeOK`, `ConfigWins`, `TornDown`, `SignalEnds`, `JobsRestart` |
| `http` | two requests, one path, one retry; with fairness | `TypeOK`, `SessionOutlivesRequests`, `AnswersOnce`, `NeverLost`, `CloseEnds` |
| `gpio` | two lines and a name, 324 sections, a kernel queue of two; with fairness | `TypeOK`, `ReportedCurrent`, `OutputsReset`, `ChangesReported` |
| `provisioning` | four boot files, ten documents, two edits, two unforeseen events; with fairness | `AdminAgrees`, `Settles`, `Provisions` |
| `install` | seven `[rt]` sections, six argument sets, no reading that fails or five, two commands, two unforeseen events | `TypeOK`, `RtSound`, `Installed`, `ReportTrue` |

The bounds. Discovery: interference needs two scans, or a scan and signals; two names are enough for a reply to be
overtaken for one and right for another, three owners for a loss, a return and a handover. The caches treat names
independently, so one name with two fills covers the races; a walk of two paths is the shortest that can be crossed in
the middle. Dispatch: a queue of two overflows while one event is under way in each task and another is pending, with
five signals. Rules: a walk that is disturbed needs one rule to stand on and one to add or remove, a lost name needs
two rules of the same name. MQTT: two clients are one in use and one replaced; a further `reconnect()` waits until a
client has been let go, which bounds clients alive at a time and not calls. `QueueSize` and `MaxMessages`: two and four
let the queue overflow twice. Lifecycle: three classes are a class declared three
times (by the service and under two keys of the file) and a neighbour on each side of an instance that fails, which is
what removal by index needs. HTTP: two downloads race for one path, and one retry makes
two attempts. GPIO: two lines share a queue of two. Provisioning: two mishaps (`MaxMishaps`) are an edit and a crash, or
two edits that meet. Of the ten documents two are sound; the others have a number and an upper-case key,
two keys that differ in case, white space around a text, doubled percent signs and a default left out, a single percent
sign, a reference, a value that is out of range, and a `[DEFAULT]` section. The edits set an option, with white space
around it, to a value that no service accepts and to one that it does. `AdminAgrees` tries, on every file reached, options at both sides of their bounds, and formats and log
files that set-up takes and does not take. Install: a second
command (`MaxCommands`) meets what the first left, and two events are a kill and an edit, or an edit and a reboot; the
readings that fail are none, or the five that the report does without (the others are in the proof alone).

Some qualifications in the properties deserve a word: `doubtful`, `suspect` (Discovery), `crossed`, `unattended`
(MqttShim), `orphaned`, `unserved`, `crowded`, `undisturbed` (RuleArming), `late` (HttpRequests), `missed` (GpioLines), `spoilt`,
`edited` (Provisioning), `quiet` (AdminInstall) name the windows in which the code does not keep its promise, or nobody
could. The property says that outside exactly these windows it does; the hazards and the next section say what happens
inside.

### Fairness

`Discovery`: the loop runs on; a scan is started again and again (`examples/collector.py` calls `update_friendbus()`
every five seconds) and not every `ListNames` fails (strong fairness of the reply). Nothing is assumed of the bus.
`SignalDispatch`: tasks run on, the friend set changes again and again (`Retry`), and a target that is called again and
again answers at last; without this last assumption an event may well fail for ever, which is what `pending` is for.
`MqttShim`: tasks and timers run on and a broker that is asked again and again answers in time at last.
`ProcessLifecycle`: the loop runs on, what a subclass overrides returns or raises, a cancelled task ends.
`HttpRequests`: an attempt is bounded by the session's timeout, a back-off ends, a close that began goes on.
`GpioLines`: the watch task is polled every few milliseconds. `Provisioning`: the coroutine runs on, systemd restarts
what has exited, a command that began ends; a fetch answers or fails. No fairness is assumed of users, of removal, of
shutdown, of crashes, or of what fails.

### Where the code departs from what it says

`rules_rearm` is a run of its own: `_rearm()` walks the dictionary of rules across awaits, and a rule registered or
removed meanwhile ends the task that `doc/signal_action.md:164` relies on. Others were met while modelling; they are the
windows named above, or choices the models make as the code does:

- discovery: a walk suspended while its friend goes caches the dead tree (dbus.py:210, but 186); an overtaken reply makes
  a departed name a friend again (dbus.py:229); a change made while the watcher works is cleared (dbus.py:280);
- MQTT: a first connection that times out is never tried again (shim.py:261, but service.py:61 "will keep retrying"), and
  the configured topics are subscribed to only if it succeeds; a link lost before `connect()` resumes costs every topic
  (shim.py:337, but services/mqtt/README.md:10); `reconnect()` after `stop()` revives a closing service;
- lifecycle: tasks that middleware adds in `setup()`, as middleware.py:60 suggests, are dropped by the `clear()` at
  process.py:509 (`orphans`); an exception from `update_tasks()` or `start_dbus()` ends the process without
  `close_loop()` (`crashed`); doc/config.md:117 and doc/middleware.md:18,121 promise several instances of a middleware
  listed under several keys, but one instance per class is kept, with the section of the last key (process.py:771,
  `ConfigWins` says what the code does, and the code's own comment calls it the singleton rule), and two
  `httpconfprov` keys, the "primary + fallback" of doc/middleware.md:121, are refused by configparser as a duplicate;
- rules: `teardown()` cancels the task that is arming a rule removed meanwhile, and leaves what it had subscribed to;
  a rule that is registered while `setup()` arms is listed, but gets neither queue nor dispatcher (signal_action.py:339,
  `if self._setup_done`), and mostly ends `setup()` with the `RuntimeError` of `rules_rearm` besides (line 557); where a
  walk arms it all the same, its first signal fails the assertion on the queue (`unserved`);
- GPIO: a watch task that failed raises again in `close_loop()`, and no output is reset (`CloseRaises`);
- provisioning: the documented `url = .../%s` is a syntax error of interpolation, so set-up raises and the service
  aborts; doubled percent signs, numbers, upper-case keys, white space around a text, a `[DEFAULT]` section or a missing key
  with a default never compare equal to the file written from them, so that the service rewrites its file and restarts at every start,
  although doc/middleware.md:109 promises no action (`ReadsBack` excludes all of these); a crash between `open("w")` and the
  text leaves a valid file without `[middleware]`; `config set` cannot set anything in `[DEFAULT]`;
- configuration: `logformat` and `logdate` written as doc/config.md:40 and 47 print them have single percent signs or
  references, which set-up of the log cannot read (process.py:157-162): the service raises on a file that
  `config validate` calls valid (`AdminAgrees` says that the log is the only reason for that); the environment
  variables that doc/config.md:123 promises for every value exist for `[rt]` alone;
- real time: `cpu_affinity = 2-3-4` passes the check and then raises in the report, which ends the set-up of the service
  (`StatusRaises`), contrary to realtime.py:14; `SCHED_RESET_ON_FORK` is part of what `sched_getscheduler` answers, so the
  policy is never recognised; a rejected `sched_priority` resets the policy and stays itself; an unlimited memlock reads
  as -1 and compares below any number; a lever whose reading fails is reported as applied if it is affinity, memlock,
  mlockall, timer slack or one of ioprio (realtime.py:768-824, tests/test_realtime_coverage.py:243-272), so
  `ReportTrue` says of those only what was read;
- install: `systemctl start` leaves a running service with its old settings; a packaged reinstall leaves an earlier
  `hardening.conf` and `user.conf`, which no property here forbids; a kill between `open("w")` and the text leaves an
  empty unit or drop-in (`WriteCut`); `_rt_is_deadline()` ignores case where `load_rt()` does not.

## 4. What is proved

Checked by TLAPS for every value of the constants, from the named assumptions of the modules alone.

`Discovery_proof`, for any number of names, scans, callers, owners and paths:

- `TypeCorrect`: `Spec => []TypeOK`, one step per action (`NextType`). The part that is not routine is the ready queue:
  a turn never owes more entries than the queue holds (`turn <= Len(ready)`), since only `Resumed` consumes.
- `KeepsWatch`: `Spec => WatchKept`, that `Discovery` implements `FriendWatch`. It needs no invariant: whatever changes
  `friendbus` also sets the event, which takes a waiting watcher out of "waiting" in the same step.
- `FriendSetSafe`: `Spec => []FriendSetExact`. It is not inductive: a reply that waits to be applied may be anything. The
  strengthening `FriendInv` adds `ReplyExact`, that a waiting reply is right about every name no signal has touched
  since it was read, and `Unclaimed`, that nothing is claimed before the handlers are registered. Then `ScanApply` moves
  exactly the overtaken names into `doubtful`, and a signal takes its name out again.
- `CachesSafe`: `Spec => []CachesCurrent`. The strengthening `CacheInv` adds `FillExact`, that a fill no ownership change
  has crossed holds nothing but what the present owner sent; `Fresh`, that owners are numbered in order, excludes that a
  new owner is mistaken for an old one.

`Admin_proof`, for any sections, commands, environments and bounds of `AdminInstall`, and any schema, files, documents and
edits of `Provisioning`:

- `TypeCorrect`: `Spec => []TypeOK`, strengthened by the shape of `cmd` (`CmdType`), which is no record of three before
  the first command began; `WriteType`, `GotoType` and `RemoveType` are the steps every action is made of.
- `RtSafe`: `Spec => []RtSound`. The state part is short: files only ever hold what `EmitSystemd` made of a section. The
  content is in the lemmas about `_validate()`: each check leaves what it is about in range (`SchedChecked`,
  `IoChecked`, `OomTimerChecked`) and does not undo what an earlier one established, so that the directives of *any*
  section belong together (`LoadedWellFormed`), an invalid one included.
- `InstallSafe`: `Spec => []Installed`. `Installed` speaks of ends only, so the invariant `InstallInv` says what holds on
  the way: no file is touched before the checks have passed (`Untouched`), what is written and told to systemd stays so
  until the end (`WrittenLasts`), and, while nobody edits the file, `rt.conf` and the hardening drop-in are those of the same
  `[rt]` although it is read twice (`TwiceRead`). That the two readings agree on what a deadline policy is rests on
  `CapabilityAsked`: no check of `_validate()` makes a deadline policy of another one.
- `ReportSafe`: `Spec => []ReportTrue`. The invariant is inductive with the types, and all of the work is in the one step
  that starts a service: checking a checked configuration again changes nothing it needs (`SanitizedRest`,
  `LoadedSound`), the kernel settles with what it is given (`KernelSettles`, `StartedWith`, `Applied`), so that no mismatch
  means what was configured (`OkIsTrue`) and all granted means no mismatch (`NoFalseAlarm`). Both speak of readings: a
  policy, priority or niceness that cannot be read counts as a mismatch, a lock that cannot be read passes for one, and
  the property says the first of a report that is ok and excepts the second.

- `AgreeSafe`: `DeviceSpec => []AdminAgrees`, if files, documents and edits are texts (`Inputs`, which `Provisioning`
  assumes of its constants). `SectionAgrees` and its like compare the two copies answer by answer, for a key of any type
  with any bounds, `CopiesAgree` says so of *every* configuration, not only of those within reach, and `ServiceAgrees`
  adds what a service does after the checks: what the run can try at the edges of each check holds of all values.
  `FileInv` is what is left: only texts get into the file, through documents, edits, crashes and full disks
  (`WrittenIsConfig`, `SetIsConfig`, `PartialIsConfig`).
- `RoundTrip`: a document that `ReadsBack` allows is, once written, read with its defaults and its interpolation, checked
  and turned into a dictionary again, the document it was. `ReadsBack` is sufficient and not necessary; what fails the
  round trip is written again at every start.
- `SettledLasts`: `DeviceSpec => StaysSettled`, that a device whose file, memory and server agree on such a document stays
  so, through crashes and restarts, until the server changes its mind or somebody edits the configuration. It is an
  action property, proved from `RoundTrip`; no run has it.
- `WritingSettles`: `DeviceSpec => WriteSettles`, that a service which writes such a document through, with nobody in
  between, has settled on it before the restart it asks for. The invariant is `WritesAlone`: while the service writes, its
  file is empty and nobody else has it open, or `spoilt` says so. With `SettledLasts`: a document costs one restart.
  TLC agrees with the theorem and its invariant on the instance of `provisioning`, where a model that forgets that the operator has the
  file open violates it; no run has it either.

The assumptions of `AdminInstall` say that a numeric text holds a number (`SectionAssumption`) and that an absent drop-in is no drop-in
(`UnsetAssumption`, `DropinAssumption`).

`SignalDispatch_proof`, for any queue size and number of signals, persistent rules or not, removed or not. The inductive
invariant `IInv` has, beside the types and what `EachEventOnce` says: a task is idle exactly if it has no event
(`Busy`), nothing is held before its signal came, and nothing that was acted on is still held (`Past`); without `Past`
a retry could bring a finished event back.

- `InvCorrect`: `Spec => []IInv`; from it `TypeCorrect` (`[]TypeOK`, with both lists within `queue_size`) and
  `OnceCorrect` (`[]EachEventOnce`).
- `Delivers`: `Spec => DeliversOnce`, that `SignalDispatch` implements `Delivery`. Every step has one of three effects on
  what the rule holds (`Effect`: events are dropped, one is acted on, one comes and may push one out), proved with the
  invariant (`NextStep`); each effect is a step of `Delivery` (`DropsDelivers`, `ActsDelivers`, `ComesDelivers`).
- The step most of it rests on is `Gone`: whichever task is done with its event, and whether it takes the next of its
  batch or becomes idle, what the rearm task's batch and the two tasks hold is what they held without that event.

`RuleArming_proof`, for any names, sources, callers and number of rules. `IInv` has ten parts, of which three
carry the rest: `Room`, that every call still on its way to the dictionary has a slot of its own left; `Stands`, that a
walk stands where the rule it arms is kept, as long as that is kept; `Crowds`, that a rule is subscribed twice only if
two tasks arm it. That a task is done with one rule and goes on to the next, or ends, is one
argument for all tasks that arm (`Goes`).

- `ExactSafe`: `Spec => []SubscriptionsExact`; `ServedSafe`: `Spec => []ServedExactly`, with `Silence` and `Ended` (after
  `teardown()` nobody is left to subscribe again); `RearmedSafe`: `Spec => []RearmedExactly`, with `Tracked`, that each
  rule a walk has come past is subscribed to all sources or has a task that still owes it the missing ones;
  `TypeCorrect`: `Spec => []TypeOK`.
- `ReliesOnWatch`: `Spec => WatchRelied`, that nothing but a change of the friends wakes the rearm task and that it sees no
  change while it waits without being woken (`OthersWakeNot`). With `KeepsWatch` the two modules fit: what `RuleArming` takes
  for granted of the friend set, `Discovery` provides. `WatchRelied` is proved and not in a run.
- That nobody who is listed goes without a dispatcher needs `Served` on top: a dispatcher kept under a name is one of a
  rule of that name. Otherwise `remove_rule()`, which cancels by name, could stop a rule that stays.
- The proof refuted an earlier form of `SubscriptionsExact`, which the instance with one source could not: a rule that
  is removed while the rearm task has armed half of its sources keeps what that task subscribes to, and if `teardown()`
  then cancels the task, a subscription stays whose rule has `active` false. The property now says so: it holds of
  listed rules, and of all until `teardown()`.

`MqttShim_proof`, for any clients, topics and D-Bus callers:

- `TopicsSafe`, `LinkSafe`, `StopSafe`, `TypeCorrect`: `TopicsKept`, `LinkServed`, `StopFinal` and `TypeOK` from one
  invariant. It says that only the current client's link can come up (`OnlyCurrent`), that a broker knows no topic on a
  link that is not up (`NoneEarly`), that a success somebody has yet to see is that of the present link unless `crossed`
  (`FreshAnswer`), and that a live link lacks a topic only until the task that waits for its future has resubscribed
  (`Served1`).
- `MessagesRefine`: `MessagesSpec => Spec`, so all of these hold with messages coming in. `InboxCorrect`:
  `MessagesSpec => []InboxLatest`, for any queue size, none included.

`HttpRequests_proof`, for any requests, paths and retries: `SessionSafe` (`SessionOutlivesRequests`), `TypeCorrect`, which
has the one report of each token, and `Implements`: `Spec => AnswersOnce`, that `HttpRequests` implements `Answers`, one
lemma per action. `DownloadsWhole`, that a path holds what was there or one answer in full, is then a matter of `Answers`
alone. The invariant adds that a request waits
for another attempt only if it has one left (`AttemptLeft`), that what runs while `close_loop()` gathers is cancelled or
came in since (`DrainCovers`), and that no request is cancelled in the middle of a file (`WritesFree`): that one needs
the loop to be blocked while a file is written.

`GpioLines_proof`, for any lines, names, sections and kernel queue: `ReportsSafe` (`ReportedCurrent`), `ResetSafe`
(`OutputsReset`) and `TypeCorrect`. The invariant is `Accounted`: a watched line has an edge in the kernel's queue or in
the batch, or its level is the one last reported, or its edge was pushed out by later ones; and `Course`, which phase
goes with which state of the watch task and the request.

`ProcessLifecycle_proof`, for any list of middleware, any configuration file and any jobs; the assumptions say what an
entry and a list are, and that a task's name tells what it is.

- `ConfigSafe`: `Spec => []ConfigWins`, by `LastWins`, which says of the entries loaded so far what `ConfigWins` says of
  all of them.
- `TornSafe`: `Spec => []TornDown`. The invariant says that the instances are those set up, those that failed and those
  to come (`SetUp`), that dropping the failed ones by index takes no other one along because it goes from the back, that
  teardown has come down to `next` (`Unwound`), and that `close_loop()` has every task that still runs before it
  (`Settled`). `TypeCorrect` has, beside the types, that a service's loop starts with the middleware that was set up and
  finds no other (`Served`).

Every invariant of the passing runs is proved. Only model-checked: all liveness (the prover has no rule for fairness),
and what the violation run shows, which is a counterexample. The proofs take the constants as
they come, whereas the bounds of an instance (`MaxGen`, `MaxRules`, `MaxEvents`, ...) are constants of the module and any
number will do. What recursion computes is not proved anywhere, and no module with a theorem uses it.

## 5. Not modelled, and what is left

Not modelled: friend subscriptions (`connect_friendbus`, the race of `RuleArming` in a smaller shape); contracts,
introspection XML, rule and argument-map syntax (parsing, no behaviour over time); D-Bus policy files, the scaffold of
`new`, the commands that call a service once and print its answer (text and one-shot I/O); sockets, TLS, system calls
(external); references of one option to another that exists, and texts that the file's encoding cannot hold;
`PYMPACDS_RT_*` variables in the checks (where one is set, the service does not read the text it replaces; `RealTime` has
them); the copy of a D-Bus policy by `install`.

Left, in this order:

1. `FriendSubscriptions`: `connect_friendbus` over `Discovery`'s friend set.
2. Composition: `RuleArming` over `Discovery`, to show what a stale tree does to an armed rule.
