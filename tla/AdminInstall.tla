---------------------------- MODULE AdminInstall ----------------------------
(***************************************************************************)
(* `pympacds-admin install` (cli.py, security.py) for one service, and the *)
(* service it installs: a command checks, then writes the unit and its     *)
(* drop-ins one file after the other, then calls systemctl; any step may   *)
(* fail, and the command may be killed between two of them or while a file *)
(* is open.  A file is shorter than a buffer: what is written reaches the  *)
(* disk as a whole, or leaves the file empty that open("w") made.  systemd *)
(* runs the service with the files it loaded last; the service applies the *)
(* rest of [rt] itself and reports what is in force (process.py,           *)
(* realtime.py).  The configuration file is edited whenever someone likes. *)
(***************************************************************************)
EXTENDS RealTime, FiniteSets

CONSTANTS
    Sections,   \* what [rt] may hold; NoSection is none of them
    NoSection,
    Environs,   \* PYMPACDS_RT_* overrides the service may start with
    Unreadable, \* sets of readings that may fail in one process
    Commands,   \* arguments of the installs the operator may run
    Ships,      \* the package ships a unit of its own
    MaxCommands, MaxEvents     \* bounds of the model

\* A program or configuration path: the file and the directories above it.
EntryOk(st, uid) == (st.owner = 0 \/ st.owner = uid) /\ ~st.writable
CheckTarget(target, uid, require_exec) ==
    /\ target.found /\ target.regular
    /\ require_exec => target.exec
    /\ EntryOk(target.file, uid)
    /\ \A st \in target.above : st.accessible /\ EntryOk(st, uid)

ASSUME ReadingAssumption == Unreadable \subseteq SUBSET Readings
ASSUME BoundAssumption == MaxCommands \in Nat /\ MaxEvents \in Nat
\* The texts of a section, or of the environment: "int" stands before a number.
ASSUME SectionAssumption ==
    \A texts \in Sections \cup Environs : \A k \in DOMAIN texts :
        texts[k][1] = "int" => texts[k][2] \in Int
\* A file that open("w") has just emptied: a drop-in without a directive.
Blank == [directive \in {} |-> Unset]

\* A drop-in that is there is none that is absent.
ASSUME DropinAssumption ==
    \A section \in Sections, env \in Environs :
        Unset # EmitSystemd(LoadRt(section, env))

VARIABLES
    ini,        \* the [rt] section of the configuration file
    disk,       \* the unit and its drop-ins, as files
    loaded,     \* the same as systemd has loaded them
    enabled,    \* the unit starts when the system does
    svc,        \* the running service, its settings and its report
    cmd,        \* the command that is running: its arguments and its step
    left,       \* bounds that are left
    \* History: nothing in the code reads or writes these.
    before,     \* the files when the command began
    quiet       \* [rt] has not been edited since the command began

vars == <<ini, disk, loaded, enabled, svc, cmd, left, before, quiet>>

NoFiles == [unit |-> "none", user |-> "none", hardening |-> "none",
            rt |-> Unset]
Down == [up |-> FALSE]
NoCommand == [step |-> "none"]

Init ==
    /\ ini \in Sections \cup {NoSection}
    /\ disk = NoFiles /\ loaded = NoFiles /\ before = NoFiles
    /\ enabled = FALSE /\ svc = Down /\ cmd = NoCommand
    /\ left = [command |-> MaxCommands, event |-> MaxEvents]
    /\ quiet = TRUE

At(step) == cmd.step = step
Goto(step) == cmd' = [cmd EXCEPT !.step = step]
Event == left.event > 0 /\ left' = [left EXCEPT !.event = @ - 1]
\* A command that has not ended.
Running == cmd.step \notin {"none", "refused", "done", "failed", "killed"}

-----------------------------------------------------------------------------
(* The checks: nothing is written before all of them have passed.          *)

Begin(args) ==
    /\ ~Running /\ left.command > 0
    /\ left' = [left EXCEPT !.command = @ - 1]
    /\ cmd' = [step |-> "check", args |-> args, failed |-> FALSE]
    /\ before' = disk /\ quiet' = TRUE
    /\ UNCHANGED <<ini, disk, loaded, enabled, svc>>

\* The user and the groups have sound names and exist; the program and the
\* configuration are safe for that user; root is confirmed at a terminal.
ValidatedIdentity(args) == args.named /\ (args.user # "none" => args.exists)
RefusesTargets(args) ==
    \/ args.program /\ ~CheckTarget(args.exec, args.uid, TRUE)
    \/ args.config.found /\ ~CheckTarget(args.config, args.uid, FALSE)
ConfirmsRoot(args) == args.uid = 0 => (args.dry \/ args.confirmed)

Preflight(args) == /\ ValidatedIdentity(args) /\ ConfirmsRoot(args)
                   /\ ~RefusesTargets(args)

Refuse ==
    /\ At("check") /\ ~Preflight(cmd.args)
    /\ Goto("refused")
    /\ UNCHANGED <<ini, disk, loaded, enabled, svc, left, before, quiet>>

Proceed ==
    /\ At("check") /\ Preflight(cmd.args)
    /\ Goto("unit")
    /\ UNCHANGED <<ini, disk, loaded, enabled, svc, left, before, quiet>>

-----------------------------------------------------------------------------
(* The files, one after the other; a dry run goes the same way.            *)

Write(files) == IF cmd.args.dry THEN disk' = disk ELSE disk' = files

InstallGeneratedUnit ==
    /\ At("unit") /\ cmd.args.program
    /\ Write([disk EXCEPT !.unit = "generated"])
    /\ Goto("user")
    /\ UNCHANGED <<ini, loaded, enabled, svc, left, before, quiet>>

\* Without a program the package has to ship the unit: copying it raises.
InstallPackagedUnit ==
    /\ At("unit") /\ ~cmd.args.program
    /\ IF Ships \/ cmd.args.dry
       THEN Write([disk EXCEPT !.unit = "packaged"]) /\ Goto("user")
       ELSE Goto("failed") /\ UNCHANGED disk
    /\ UNCHANGED <<ini, loaded, enabled, svc, left, before, quiet>>

InstallUser ==
    /\ At("user")
    /\ IF cmd.args.user = "none" THEN UNCHANGED disk
       ELSE Write([disk EXCEPT !.user = cmd.args.user])
    /\ Goto("hardening")
    /\ UNCHANGED <<ini, loaded, enabled, svc, left, before, quiet>>

\* Read from the file as it is now, without the case that load_rt() minds.
RtIsDeadline(section) ==
    section # NoSection /\ "sched_policy" \in DOMAIN section
        /\ section.sched_policy \in {Word("deadline"), Word("DEADLINE")}

Hardening(args) == IF ~args.strict THEN "none"
                   ELSE IF RtIsDeadline(ini) THEN "deadline" ELSE "strict"

\* A packaged unit is hardened by its package: a drop-in stays as it is.
InstallHardening ==
    /\ At("hardening")
    /\ IF cmd.args.program
       THEN Write([disk EXCEPT !.hardening = Hardening(cmd.args)])
       ELSE UNCHANGED disk
    /\ Goto("rt")
    /\ UNCHANGED <<ini, loaded, enabled, svc, left, before, quiet>>

\* The second reading of [rt], without the environment.
NoOverrides == [k \in {} |-> None]
Errors == HasErrors(ini)

\* Mutant: the environment of the command is taken for the service's.
AskedWithEnv ==
    EmitSystemd(LoadRt(ini, CHOOSE env \in Environs : env # NoOverrides))

Asked == EmitSystemd(LoadRt(ini, NoOverrides))

RemoveRt(failed) ==
    /\ Write([disk EXCEPT !.rt = Unset])
    /\ cmd' = [cmd EXCEPT !.step = "reload", !.failed = failed]

InstallRealtimeNone ==
    /\ At("rt") /\ ini = NoSection
    /\ RemoveRt(FALSE)
    /\ UNCHANGED <<ini, loaded, enabled, svc, left, before, quiet>>

InstallRealtimeInvalid ==
    /\ At("rt") /\ ini # NoSection /\ Errors
    /\ RemoveRt(TRUE)
    /\ UNCHANGED <<ini, loaded, enabled, svc, left, before, quiet>>

WriteRtDropin ==
    /\ At("rt") /\ ini # NoSection /\ ~Errors
    /\ Write([disk EXCEPT !.rt = Asked])
    /\ Goto(IF cmd.args.dry THEN "reload" ELSE "verify")
    /\ UNCHANGED <<ini, loaded, enabled, svc, left, before, quiet>>

\* The file that is open when the command is killed, or when the disk is
\* full (which raises), is left empty.
Truncated ==
    [disk EXCEPT
        !.unit = IF At("unit") THEN "empty" ELSE @,
        !.user = IF At("user") THEN "empty" ELSE @,
        !.hardening = IF At("hardening") THEN "empty" ELSE @,
        !.rt = IF At("rt") THEN Blank ELSE @]
Writes ==
    \/ At("unit") /\ (cmd.args.program \/ Ships)
    \/ At("user") /\ cmd.args.user # "none"
    \/ At("hardening") /\ cmd.args.program /\ cmd.args.strict
    \/ At("rt") /\ ini # NoSection /\ ~Errors

WriteCut ==
    /\ Writes /\ ~cmd.args.dry /\ Event
    /\ disk' = Truncated
    /\ Goto("killed") \/ Goto("failed")
    /\ UNCHANGED <<ini, loaded, enabled, svc, before, quiet>>

\* systemd-analyze passes the unit, or is not there.
VerifyPasses ==
    /\ At("verify")
    /\ Goto("reload")
    /\ UNCHANGED <<ini, disk, loaded, enabled, svc, left, before, quiet>>

VerifyFails ==
    /\ At("verify") /\ Event
    /\ RemoveRt(TRUE)
    /\ UNCHANGED <<ini, loaded, enabled, svc, before, quiet>>

-----------------------------------------------------------------------------
(* systemctl; a command of it that fails ends the install.                 *)

End == Goto(IF cmd.failed THEN "failed" ELSE "done")

DryRunEnds ==
    /\ At("reload") /\ cmd.args.dry
    /\ End
    /\ UNCHANGED <<ini, disk, loaded, enabled, svc, left, before, quiet>>

\* Mutant: systemd is not told of the files.
ReloadForgotten ==
    /\ At("reload") /\ ~cmd.args.dry
    /\ Goto("enable")
    /\ UNCHANGED <<ini, disk, loaded, enabled, svc, left, before, quiet>>

Reload ==
    /\ At("reload") /\ ~cmd.args.dry
    /\ loaded' = disk
    /\ Goto("enable")
    /\ UNCHANGED <<ini, disk, enabled, svc, left, before, quiet>>

Enable ==
    /\ At("enable")
    /\ enabled' = (enabled \/ cmd.args.enable)
    /\ Goto("start")
    /\ UNCHANGED <<ini, disk, loaded, svc, left, before, quiet>>

SystemctlFails ==
    /\ cmd.step \in {"reload", "enable", "start"} /\ ~cmd.args.dry /\ Event
    /\ Goto("failed")
    /\ UNCHANGED <<ini, disk, loaded, enabled, svc, before, quiet>>

-----------------------------------------------------------------------------
(* The service: systemd sets what the loaded drop-in says, the service the *)
(* rest, and it compares.                                                  *)

\* What systemd starts a process of the loaded unit with.
Directs(dropin) == dropin \notin {Unset, Blank}
AsLoaded ==
    IF ~Directs(loaded.rt) THEN Plain
    ELSE LET d == loaded.rt
             given(v, default) == IF v = Unset THEN default ELSE v
         IN [Plain EXCEPT
                !.nice = d.Nice,
                !.policy = IF d.CPUSchedulingPolicy = Unset THEN @
                           ELSE d.CPUSchedulingPolicy[2],
                !.priority = given(d.CPUSchedulingPriority, @),
                !.reset = d.CPUSchedulingResetOnFork,
                !.affinity = IF d.CPUAffinity \in Countable
                             THEN d.CPUAffinity ELSE @,
                !.class = IF d.IOSchedulingClass = None THEN @
                          ELSE d.IOSchedulingClass[2],
                !.data = given(d.IOSchedulingPriority, @),
                !.memlock = IF d.LimitMEMLOCK = None THEN @
                            ELSE d.LimitMEMLOCK,
                !.oom = d.OOMScoreAdjust,
                !.slack = IF d.TimerSlackNSec = -1 THEN @
                          ELSE d.TimerSlackNSec]

Capable == Directs(loaded.rt) /\ loaded.rt.AmbientCapabilities = "CAP_SYS_NICE"

\* apply_in_process(): locked and granted are the kernel's answers; a
\* deadline that it rejects is given up for SCHED_OTHER.
SetDeadline(e, c, granted) ==
    IF ~IsDeadline(c) THEN e
    ELSE IF granted
    THEN [e EXCEPT !.policy = "deadline", !.priority = 0,
                   !.reset = c.sched_reset_on_fork,
                   !.runtime = c.sched_runtime_ns,
                   !.deadline = c.sched_deadline_ns,
                   !.period = c.sched_period_ns]
    ELSE [e EXCEPT !.policy = "other", !.priority = 0]
ApplyInProcess(e, c, locked, granted) ==
    SetDeadline([e EXCEPT !.locked = locked /\ c.mlockall], c, granted)

\* setup() of a service whose file has no [rt], or whose report raises.
Started(section, env, locked, granted, unread) ==
    IF section = NoSection
    THEN [up |-> TRUE, eff |-> AsLoaded, cfg |-> Unset, ok |-> TRUE,
          granted |-> TRUE, unread |-> unread, rt |-> loaded.rt]
    ELSE LET c == LoadRt(section, env)
             e == ApplyInProcess(AsLoaded, c, locked, granted)
         IN IF StatusRaises(c, unread) THEN Down
            ELSE [up |-> TRUE, eff |-> e, cfg |-> c,
                  ok |-> StatusOk(e, c, unread),
                  granted |-> (c.mlockall => locked) /\
                              (IsDeadline(c) => granted),
                  unread |-> unread, rt |-> loaded.rt]

\* The unit starts: nothing happens to a service that runs already.
Boots == \E env \in Environs, locked \in BOOLEAN, granted \in BOOLEAN,
            unread \in Unreadable :
             /\ granted => Capable
             /\ svc' = Started(ini, env, locked, granted, unread)

Start ==
    /\ At("start")
    /\ IF cmd.args.start /\ ~svc.up THEN Boots ELSE UNCHANGED svc
    /\ End
    /\ UNCHANGED <<ini, disk, loaded, enabled, left, before, quiet>>

\* Restart=always, or systemctl restart: with the files loaded last.
ServiceRestarts ==
    /\ svc.up /\ Event
    /\ Boots
    /\ UNCHANGED <<ini, disk, loaded, enabled, cmd, before, quiet>>

-----------------------------------------------------------------------------
(* What happens beside the command.                                        *)

Killed ==
    /\ Running /\ Event
    /\ Goto("killed")
    /\ UNCHANGED <<ini, disk, loaded, enabled, svc, before, quiet>>

\* systemd reads the files anew, and starts what is enabled.
Reboot ==
    /\ ~Running /\ Event
    /\ loaded' = disk
    /\ svc' = Down
    /\ UNCHANGED <<ini, disk, enabled, cmd, before, quiet>>
BootStarts ==
    /\ enabled /\ ~svc.up /\ ~Running
    /\ loaded.unit \notin {"none", "empty"}   \* an empty unit is masked
    /\ Boots
    /\ UNCHANGED <<ini, disk, loaded, enabled, cmd, left, before, quiet>>

Edit(section) ==
    /\ section # ini /\ Event
    /\ ini' = section
    /\ quiet' = FALSE
    /\ UNCHANGED <<disk, loaded, enabled, svc, cmd, before>>

-----------------------------------------------------------------------------
Install ==
    \/ \E args \in Commands : Begin(args)
    \/ Refuse \/ Proceed
    \/ InstallGeneratedUnit \/ InstallPackagedUnit \/ InstallUser
    \/ InstallHardening
    \/ InstallRealtimeNone \/ InstallRealtimeInvalid \/ WriteRtDropin
    \/ WriteCut
    \/ VerifyPasses \/ VerifyFails
    \/ DryRunEnds \/ Reload \/ Enable \/ Start \/ SystemctlFails

Environment ==
    \/ ServiceRestarts \/ Killed \/ Reboot \/ BootStarts
    \/ \E section \in Sections \cup {NoSection} : Edit(section)

Next == Install \/ Environment

Spec == Init /\ [][Next]_vars
-----------------------------------------------------------------------------
(* Properties.                                                             *)

Steps == {"none", "check", "refused", "unit", "user", "hardening", "rt",
          "verify", "reload", "enable", "start", "done", "failed", "killed"}
FileSets == [unit : {"none", "empty", "generated", "packaged"},
             user : {"none", "empty"} \cup {args.user : args \in Commands},
             hardening : {"none", "empty", "strict", "deadline"},
             rt : {Unset, Blank} \cup
                  {EmitSystemd(LoadRt(section, NoOverrides)) :
                       section \in Sections}]

TypeOK ==
    /\ ini \in Sections \cup {NoSection}
    /\ {disk, loaded, before} \subseteq FileSets
    /\ enabled \in BOOLEAN /\ quiet \in BOOLEAN
    /\ cmd.step \in Steps
    /\ cmd.step # "none" => cmd.args \in Commands /\ cmd.failed \in BOOLEAN
    /\ left \in [command : 0 .. MaxCommands, event : 0 .. MaxEvents]

\* Directives that systemd accepts and that belong together.
WellFormed(d) ==
    /\ d.Nice \in -20 .. 19
    /\ (d.CPUSchedulingPolicy = Unset) <=> (d.AmbientCapabilities # Unset)
    /\ IF d.CPUSchedulingPolicy \in {Word("fifo"), Word("rr")}
       THEN d.CPUSchedulingPriority \in 1 .. 99
       ELSE d.CPUSchedulingPriority = Unset
    /\ d.IOSchedulingPriority # Unset =>
           d.IOSchedulingClass # None /\ d.IOSchedulingPriority \in 0 .. 7
    /\ d.OOMScoreAdjust \in -1000 .. 1000 /\ d.TimerSlackNSec >= -1

\* Whatever the file, an edit, a kill or a failed step: rt.conf, as it is on
\* disk and as systemd runs the service with it, holds no directive at all or
\* directives that are in range and consistent (realtime.py, _validate).
RtSound ==
    /\ Directs(disk.rt) => WellFormed(disk.rt)
    /\ Directs(loaded.rt) => WellFormed(loaded.rt)

\* What [rt] asks for, when nobody edits it.
RtAsked == IF ini = NoSection \/ (ini # NoSection /\ Errors) THEN Unset
                                                             ELSE Asked

\* A service that was granted CAP_SYS_NICE for its deadline is not denied
\* new privileges by the baseline written beside it, although the two read
\* [rt] apart, and differently (cli.py, _rt_is_deadline).
DeadlineHardening ==
    cmd.args.program /\ Directs(disk.rt) /\ disk.rt.AmbientCapabilities # Unset
        => disk.hardening # "strict"

\* How an install ends: refused, or dry, it leaves every file alone; with
\* success, systemd has loaded what it wrote, and rt.conf is what [rt] asks
\* for and not what an earlier install left; when [rt] or its verification
\* failed there is no rt.conf (cli.py, _cmd_install).
Installed ==
    /\ At("refused") => disk = before
    /\ (cmd.step # "none" /\ cmd.args.dry) => disk = before
    /\ (At("done") /\ ~cmd.args.dry) =>
           /\ loaded = disk
           /\ disk.unit = IF cmd.args.program THEN "generated" ELSE "packaged"
           /\ cmd.args.enable => enabled
           /\ quiet => disk.rt = RtAsked /\ DeadlineHardening
    /\ (At("failed") /\ cmd.failed /\ ~cmd.args.dry) => disk.rt = Unset

\* The report tells the truth: a service that runs with the directives its
\* own configuration maps to, was granted the rest and can read it back
\* reports no mismatch; one that reports none runs under the policy, priority
\* and nice value it was configured for, and with its memory locked unless
\* VmLck cannot be read (realtime.py, _match_mlockall: nothing is verified
\* then, and nothing reported).  Reset-on-fork is left out: the policy is
\* then never recognised.
ReportTrue ==
    (svc.up /\ svc.cfg # Unset) =>
        /\ (/\ svc.granted /\ svc.rt = EmitSystemd(svc.cfg)
            /\ svc.unread \cap Counted = {}
            /\ Sanitized(svc.cfg) = svc.cfg
            /\ ~svc.cfg.sched_reset_on_fork) => svc.ok
        /\ svc.ok => /\ Word(svc.eff.policy) = svc.cfg.sched_policy
                     /\ svc.eff.priority = svc.cfg.sched_priority
                     /\ svc.eff.nice = svc.cfg.nice
                     /\ svc.cfg.mlockall =>
                            svc.eff.locked \/ "locked" \in svc.unread
=============================================================================
