---------------------------- MODULE Admin_proof ----------------------------
(***************************************************************************)
(* Proofs about the command line tool for every value of the constants.    *)
(* `install` (AdminInstall): whatever a file says, what systemd is given is *)
(* in range and consistent; an install ends with nothing changed or with   *)
(* all of it written and loaded; and the report of a running service is    *)
(* true.  `config validate` (Provisioning): it says of every file what the *)
(* service will do with it.  Provisioning itself: what was written is read *)
(* back as it was, a document written through settles the device, and what *)
(* has settled stays settled.                                              *)
(***************************************************************************)
EXTENDS AdminInstall, Provisioning, TLAPS

-----------------------------------------------------------------------------
(* What each check of realtime.py leaves behind.                           *)

\* A parsed section has every key, and numbers where they are compared.
Parsable(c) == DOMAIN c = Keys /\ c.timer_slack_ns \in Int

LEMMA ParsedParsable ==
    ASSUME NEW texts,
           \A k \in DOMAIN texts : texts[k][1] = "int" => texts[k][2] \in Int
    PROVE  Parsable(Parsed(texts))
<1> DEFINE k == "timer_slack_ns"
<1>1. k \in Keys /\ k \in IntKeys /\ k \notin BoolKeys
  BY DEF Keys, IntKeys, BoolKeys
<1>2. Defaults[k] \in Int
  BY DEF Defaults
<1>3. ASSUME k \in DOMAIN texts, Coercible(k, texts[k])
      PROVE  Coerce(k, texts[k]) \in Int
  BY <1>1, <1>3 DEF Coercible, Coerce
<1>4. Parsed(texts)[k] \in Int
  BY <1>1, <1>2, <1>3 DEF Parsed
<1> QED
  BY <1>4 DEF Parsable, Parsed

\* _validate_sched(): a known policy, and a priority for those that need one.
SchedSound(c) ==
    /\ c.nice \in -20 .. 19
    /\ c.sched_policy \in {Word(p) : p \in Policies}
    /\ c.sched_policy \in {Word("fifo"), Word("rr")} => c.sched_priority \in 1 .. 99

LEMMA NiceChecked ==
    ASSUME NEW c, Parsable(c)
    PROVE  Parsable(ValidateNice(c)) /\ ValidateNice(c).nice \in -20 .. 19
BY DEF ValidateNice, Parsable, Keys, IntKeys

LEMMA SchedChecked ==
    ASSUME NEW c, Parsable(c), c.nice \in -20 .. 19
    PROVE  Parsable(ValidateSched(c)) /\ SchedSound(ValidateSched(c))
<1> USE DEF Parsable, SchedSound, Keys, IntKeys, TextKeys, Word, Policies
<1>1. CASE c.sched_policy \in {Word("fifo"), Word("rr")}
  <2>1. ValidateSched(c) = ValidateRtPolicy(c)
    BY <1>1 DEF ValidateSched
  <2>2. CASE c.sched_priority \in 1 .. 99
    BY <1>1, <2>1, <2>2 DEF ValidateRtPolicy, ZeroNs
  <2>3. CASE c.sched_priority \notin 1 .. 99
    BY <2>1, <2>3 DEF ValidateRtPolicy, ZeroNs, Other
  <2> QED
    BY <2>2, <2>3
<1>2. CASE c.sched_policy = Word("deadline")
  <2>1. ValidateSched(c) = ValidateDeadline(c)
    BY <1>2 DEF ValidateSched
  <2>2. CASE ValidTriple(c)
    BY <1>2, <2>1, <2>2 DEF ValidateDeadline
  <2>3. CASE ~ValidTriple(c)
    BY <2>1, <2>3 DEF ValidateDeadline, ZeroNs, Other
  <2> QED
    BY <2>2, <2>3
<1>3. CASE c.sched_policy \notin {Word("fifo"), Word("rr"), Word("deadline")}
  <2>1. ValidateSched(c) = ValidateOtherPolicy(ValidatePolicy(c))
    BY <1>3 DEF ValidateSched
  <2>2. CASE c.sched_policy \in {Word(p) : p \in Policies}
    BY <1>3, <2>1, <2>2 DEF ValidateOtherPolicy, ValidatePolicy, ZeroNs
  <2>3. CASE c.sched_policy \notin {Word(p) : p \in Policies}
    BY <2>1, <2>3 DEF ValidateOtherPolicy, ValidatePolicy, ZeroNs, Other
  <2> QED
    BY <2>2, <2>3
<1> QED
  BY <1>1, <1>2, <1>3

\* The checks that follow leave the scheduling alone.
IoSound(c) == c.io_sched_priority # -1 =>
                  c.io_sched_class # None /\ c.io_sched_priority \in 0 .. 7

LEMMA IoChecked ==
    ASSUME NEW c, Parsable(c), SchedSound(c)
    PROVE  LET s == ValidateIo(c) IN Parsable(s) /\ SchedSound(s) /\ IoSound(s)
BY DEF ValidateIo, Parsable, SchedSound, IoSound, Keys, IntKeys, TextKeys

LEMMA MemlockChecked ==
    ASSUME NEW c, Parsable(c), SchedSound(c), IoSound(c)
    PROVE  LET s == ValidateMemlock(c)
           IN Parsable(s) /\ SchedSound(s) /\ IoSound(s)
BY DEF ValidateMemlock, Parsable, SchedSound, IoSound, Keys, IntKeys, TextKeys,
   BoolKeys

LEMMA AffinityChecked ==
    ASSUME NEW c, Parsable(c), SchedSound(c), IoSound(c)
    PROVE  LET s == ValidateAffinity(c)
           IN Parsable(s) /\ SchedSound(s) /\ IoSound(s)
BY DEF ValidateAffinity, Parsable, SchedSound, IoSound, Keys, IntKeys, TextKeys

LEMMA OomTimerChecked ==
    ASSUME NEW c, Parsable(c), SchedSound(c), IoSound(c)
    PROVE  LET s == ValidateOomTimer(c)
           IN /\ SchedSound(s) /\ IoSound(s)
              /\ s.oom_score_adjust \in -1000 .. 1000
              /\ s.timer_slack_ns >= -1
BY DEF ValidateOomTimer, Parsable, SchedSound, IoSound, Keys, IntKeys, TextKeys

\* What the other checks leave behind.
RestSound(c) ==
    /\ c.io_sched_class \in {Word(x) : x \in IoClasses} \cup {None}
    /\ c.memlock = None \/ LockLimit(c.memlock)
    /\ c.mlockall \in BOOLEAN

SchedKeys == {"sched_policy", "sched_priority", "sched_runtime_ns",
              "sched_deadline_ns", "sched_period_ns"}

LEMMA SanitizedRest ==
    ASSUME NEW c, DOMAIN c = Keys
    PROVE  /\ DOMAIN Sanitized(c) = Keys /\ RestSound(Sanitized(c))
           /\ Sanitized(c).memlock \in {c.memlock, None}
           /\ Sanitized(c).sched_reset_on_fork = c.sched_reset_on_fork
           /\ \A k \in SchedKeys :
                 Sanitized(c)[k] = ValidateSched(ValidateNice(c))[k]
<1> DEFINE c0 == ValidateNice(c)
           c1 == ValidateSched(c0)
           c2 == ValidateIo(c1)
           c3 == ValidateMemlock(c2)
           c4 == ValidateAffinity(c3)
           c5 == ValidateOomTimer(c4)
<1> USE DEF Keys, IntKeys, TextKeys, BoolKeys
<1>1. /\ DOMAIN c0 = Keys /\ c0.memlock = c.memlock
      /\ c0.sched_reset_on_fork = c.sched_reset_on_fork
  BY DEF ValidateNice
<1> HIDE DEF c0
<1>2. /\ DOMAIN c1 = Keys /\ c1.memlock = c0.memlock
      /\ c1.sched_reset_on_fork = c0.sched_reset_on_fork
  BY <1>1 DEF ValidateSched, ValidateRtPolicy, ValidateDeadline,
     ValidateOtherPolicy, ValidatePolicy, ZeroNs, Other
<1> HIDE DEF c1
<1>3. /\ DOMAIN c2 = Keys /\ c2.memlock = c1.memlock
      /\ c2.io_sched_class \in {Word(x) : x \in IoClasses} \cup {None}
      /\ \A k \in SchedKeys : c2[k] = c1[k]
      /\ c2.sched_reset_on_fork = c1.sched_reset_on_fork
  BY <1>2 DEF ValidateIo, SchedKeys
<1> HIDE DEF c2
<1>4. /\ DOMAIN c3 = Keys /\ c3.memlock \in {c2.memlock, None}
      /\ c3.memlock = None \/ LockLimit(c3.memlock)
      /\ c3.mlockall \in BOOLEAN
      /\ c3.io_sched_class = c2.io_sched_class
      /\ \A k \in SchedKeys : c3[k] = c2[k]
      /\ c3.sched_reset_on_fork = c2.sched_reset_on_fork
  BY <1>3 DEF ValidateMemlock, SchedKeys
<1> HIDE DEF c3
<1>5. /\ DOMAIN c4 = Keys /\ c4.memlock = c3.memlock /\ c4.mlockall = c3.mlockall
      /\ c4.io_sched_class = c3.io_sched_class
      /\ \A k \in SchedKeys : c4[k] = c3[k]
      /\ c4.sched_reset_on_fork = c3.sched_reset_on_fork
  BY <1>4 DEF ValidateAffinity, SchedKeys
<1> HIDE DEF c4
<1>6. /\ DOMAIN c5 = Keys /\ c5.memlock = c4.memlock /\ c5.mlockall = c4.mlockall
      /\ c5.io_sched_class = c4.io_sched_class
      /\ \A k \in SchedKeys : c5[k] = c4[k]
      /\ c5.sched_reset_on_fork = c4.sched_reset_on_fork
  BY <1>5 DEF ValidateOomTimer, SchedKeys
<1>7. Sanitized(c) = c5
  BY DEF Sanitized, c0, c1, c2, c3, c4
<1> HIDE DEF c5
<1>8. RestSound(c5)
  BY <1>3, <1>4, <1>5, <1>6 DEF RestSound
<1>9. /\ c5.memlock \in {c.memlock, None}
      /\ c5.sched_reset_on_fork = c.sched_reset_on_fork
  BY <1>1, <1>2, <1>3, <1>4, <1>5, <1>6
<1>10. \A k \in SchedKeys : c5[k] = c1[k]
  BY <1>3, <1>4, <1>5, <1>6
<1> QED
  BY <1>6, <1>7, <1>8, <1>9, <1>10 DEF c0, c1

-----------------------------------------------------------------------------
(* From a section to the directives.                                       *)

LEMMA EmittedWellFormed ==
    ASSUME NEW c, SchedSound(c), IoSound(c),
           c.oom_score_adjust \in -1000 .. 1000, c.timer_slack_ns >= -1
    PROVE  WellFormed(EmitSystemd(c))
<1> DEFINE d == EmitSystemd(c)
<1>1. Unset # c.sched_policy /\ Unset # "CAP_SYS_NICE"
  BY UnsetAssumption DEF SchedSound
<1>2. (d.CPUSchedulingPolicy = Unset) <=> (d.AmbientCapabilities # Unset)
  BY <1>1 DEF EmitSystemd
<1>3. IF d.CPUSchedulingPolicy \in {Word("fifo"), Word("rr")}
      THEN d.CPUSchedulingPriority \in 1 .. 99
      ELSE d.CPUSchedulingPriority = Unset
  <2>1. CASE IsDeadline(c)
    <3>1. ~IsFixed(c)
      BY <2>1 DEF IsDeadline, IsFixed, Word
    <3>2. Unset \notin {Word("fifo"), Word("rr")}
      BY UnsetAssumption DEF Policies
    <3> QED
      BY <2>1, <3>1, <3>2 DEF EmitSystemd
  <2>2. CASE ~IsDeadline(c)
    BY <2>2 DEF EmitSystemd, IsFixed, SchedSound
  <2> QED
    BY <2>1, <2>2
<1>4. d.IOSchedulingPriority # Unset =>
          d.IOSchedulingClass # None /\ d.IOSchedulingPriority \in 0 .. 7
  BY DEF EmitSystemd, IoSound
<1>5. /\ d.Nice \in -20 .. 19 /\ d.OOMScoreAdjust \in -1000 .. 1000
      /\ d.TimerSlackNSec >= -1
  BY DEF EmitSystemd, SchedSound
<1> QED
  BY <1>2, <1>3, <1>4, <1>5 DEF WellFormed

\* Whatever the texts of a section, its directives are well-formed.
LEMMA LoadedWellFormed ==
    ASSUME NEW section \in Sections
    PROVE  WellFormed(EmitSystemd(LoadRt(section, NoOverrides)))
<1> DEFINE texts == Texts(section, NoOverrides)
           c0 == ValidateNice(Parsed(texts))
           c1 == ValidateSched(c0)
           c2 == ValidateIo(c1)
           c3 == ValidateMemlock(c2)
           c4 == ValidateAffinity(c3)
           c5 == ValidateOomTimer(c4)
<1>1. texts = [k \in DOMAIN section |-> section[k]]
  BY DEF Texts, NoOverrides
<1>2. \A k \in DOMAIN texts : texts[k][1] = "int" => texts[k][2] \in Int
  BY <1>1, SectionAssumption
<1>3. Parsable(Parsed(texts))
  BY <1>2, ParsedParsable
<1>4. Parsable(c1) /\ SchedSound(c1)
  BY <1>3, NiceChecked, SchedChecked
<1>5. Parsable(c2) /\ SchedSound(c2) /\ IoSound(c2)
  BY <1>4, IoChecked
<1>6. Parsable(c3) /\ SchedSound(c3) /\ IoSound(c3)
  BY <1>5, MemlockChecked
<1>7. Parsable(c4) /\ SchedSound(c4) /\ IoSound(c4)
  BY <1>6, AffinityChecked
<1>8. /\ SchedSound(c5) /\ IoSound(c5)
      /\ c5.oom_score_adjust \in -1000 .. 1000 /\ c5.timer_slack_ns >= -1
  BY <1>7, OomTimerChecked
<1>9. LoadRt(section, NoOverrides) = c5
  BY DEF LoadRt, Sanitized
<1> HIDE DEF c5
<1> QED
  BY <1>8, <1>9, EmittedWellFormed

-----------------------------------------------------------------------------
(* Types.  A command is no record of three before the first one began.     *)

Begun == Steps \ {"none"}
CmdType == cmd = NoCommand \/ cmd \in [step : Begun, args : Commands, failed : BOOLEAN]
TypeInv == TypeOK /\ CmdType

LEMMA UnderWay ==
    ASSUME TypeInv, cmd.step # "none"
    PROVE  cmd \in [step : Begun, args : Commands, failed : BOOLEAN]
BY DEF TypeInv, CmdType, NoCommand

\* Every step of a command that has begun leads to one.
LEMMA GotoType ==
    ASSUME TypeInv, cmd.step # "none", NEW s \in Begun, Goto(s)
    PROVE  CmdType' /\ cmd'.step = s
BY UnderWay DEF Goto, CmdType

LEMMA WriteType ==
    ASSUME disk \in FileSets, NEW files \in FileSets, Write(files)
    PROVE  disk' \in FileSets
BY DEF Write

LEMMA RemoveType ==
    ASSUME TypeInv, cmd.step # "none", NEW failed \in BOOLEAN, RemoveRt(failed)
    PROVE  disk' \in FileSets /\ CmdType' /\ cmd'.step = "reload"
<1>1. [disk EXCEPT !.rt = Unset] \in FileSets
  BY DEF TypeInv, TypeOK, FileSets
<1>2. disk' \in FileSets
  BY <1>1, WriteType DEF TypeInv, TypeOK, RemoveRt
<1> QED
  BY <1>2, UnderWay DEF RemoveRt, CmdType, Begun, Steps

\* An event counts the bound down.
LEMMA EventType ==
    ASSUME TypeInv, Event
    PROVE  left' \in [command : 0 .. MaxCommands, event : 0 .. MaxEvents]
BY BoundAssumption DEF TypeInv, TypeOK, Event

LEMMA InitType == Init => TypeInv
<1> SUFFICES ASSUME Init PROVE TypeInv
  OBVIOUS
<1>1. NoFiles \in FileSets
  BY DEF NoFiles, FileSets
<1>2. left \in [command : 0 .. MaxCommands, event : 0 .. MaxEvents]
  BY BoundAssumption DEF Init
<1>3. cmd.step = "none" /\ CmdType
  BY DEF Init, CmdType, NoCommand
<1> QED
  BY <1>1, <1>2, <1>3 DEF Init, TypeInv, TypeOK, Steps

LEMMA NextType == TypeInv /\ [Next]_vars => TypeInv'
<1> SUFFICES ASSUME TypeInv, [Next]_vars PROVE TypeInv'
  OBVIOUS
<1> USE DEF TypeInv, TypeOK
<1> DEFINE Sets == disk' \in FileSets /\ loaded' \in FileSets /\ before' \in FileSets
           Rest == /\ ini' \in Sections \cup {NoSection}
                   /\ enabled' \in BOOLEAN /\ quiet' \in BOOLEAN
                   /\ left' \in [command : 0 .. MaxCommands, event : 0 .. MaxEvents]
<1>0. ASSUME Sets, Rest, CmdType' PROVE TypeInv'
  BY <1>0 DEF CmdType, NoCommand, Begun, Steps
<1>1. ASSUME NEW args \in Commands, Begin(args) PROVE TypeInv'
  <2>1. CmdType'
    BY <1>1 DEF Begin, CmdType, Begun, Steps
  <2>2. Rest
    BY <1>1, BoundAssumption DEF Begin
  <2> QED
    BY <1>0, <1>1, <2>1, <2>2 DEF Begin
<1>2. CASE Refuse \/ Proceed
  <2>1. CmdType'
    BY <1>2, GotoType DEF Refuse, Proceed, At, Begun, Steps
  <2> QED
    BY <1>0, <1>2, <2>1 DEF Refuse, Proceed
<1>3. CASE InstallGeneratedUnit \/ InstallPackagedUnit
  <2>1. CmdType'
    BY <1>3, GotoType DEF InstallGeneratedUnit, InstallPackagedUnit, At, Begun, Steps
  <2>2. /\ [disk EXCEPT !.unit = "generated"] \in FileSets
        /\ [disk EXCEPT !.unit = "packaged"] \in FileSets
    BY DEF FileSets
  <2>3. disk' \in FileSets
    BY <1>3, <2>2, WriteType DEF InstallGeneratedUnit, InstallPackagedUnit
  <2> QED
    BY <1>0, <1>3, <2>1, <2>3 DEF InstallGeneratedUnit, InstallPackagedUnit
<1>4. CASE InstallUser
  <2>1. CmdType'
    BY <1>4, GotoType DEF InstallUser, At, Begun, Steps
  <2>2. cmd.args \in Commands
    BY <1>4, UnderWay DEF InstallUser, At
  <2>3. [disk EXCEPT !.user = cmd.args.user] \in FileSets
    BY <2>2 DEF FileSets
  <2>4. disk' \in FileSets
    BY <1>4, <2>3, WriteType DEF InstallUser
  <2> QED
    BY <1>0, <1>4, <2>1, <2>4 DEF InstallUser
<1>5. CASE InstallHardening
  <2>1. CmdType'
    BY <1>5, GotoType DEF InstallHardening, At, Begun, Steps
  <2>2. [disk EXCEPT !.hardening = Hardening(cmd.args)] \in FileSets
    BY DEF FileSets, Hardening
  <2>3. disk' \in FileSets
    BY <1>5, <2>2, WriteType DEF InstallHardening
  <2> QED
    BY <1>0, <1>5, <2>1, <2>3 DEF InstallHardening
<1>6. CASE InstallRealtimeNone \/ InstallRealtimeInvalid
  <2>1. disk' \in FileSets /\ CmdType'
    BY <1>6, RemoveType DEF InstallRealtimeNone, InstallRealtimeInvalid, At
  <2> QED
    BY <1>0, <1>6, <2>1 DEF InstallRealtimeNone, InstallRealtimeInvalid
<1>7. CASE WriteRtDropin
  <2>1. CmdType'
    BY <1>7, GotoType DEF WriteRtDropin, At, Begun, Steps
  <2>2. ini \in Sections
    BY <1>7 DEF WriteRtDropin
  <2>3. [disk EXCEPT !.rt = Asked] \in FileSets
    BY <2>2 DEF FileSets, Asked
  <2>4. disk' \in FileSets
    BY <1>7, <2>3, WriteType DEF WriteRtDropin
  <2> QED
    BY <1>0, <1>7, <2>1, <2>4 DEF WriteRtDropin
<1>8. CASE VerifyPasses
  <2>1. CmdType'
    BY <1>8, GotoType DEF VerifyPasses, At, Begun, Steps
  <2> QED
    BY <1>0, <1>8, <2>1 DEF VerifyPasses
<1>9. CASE VerifyFails
  <2>1. disk' \in FileSets /\ CmdType'
    BY <1>9, RemoveType DEF VerifyFails, At
  <2> QED
    BY <1>0, <1>9, <2>1, EventType DEF VerifyFails
<1>10. CASE DryRunEnds \/ Reload \/ Enable
  <2>1. CmdType'
    BY <1>10, GotoType DEF DryRunEnds, Reload, Enable, End, At, Begun, Steps
  <2>2. Sets
    BY <1>10 DEF DryRunEnds, Reload, Enable
  <2>3. Rest
    BY <1>10 DEF DryRunEnds, Reload, Enable
  <2> QED
    BY <1>0, <2>1, <2>2, <2>3
<1>11. CASE Start
  <2>1. CmdType'
    BY <1>11, GotoType DEF Start, End, At, Begun, Steps
  <2> QED
    BY <1>0, <1>11, <2>1 DEF Start
<1>12. CASE SystemctlFails \/ Killed
  <2>1. CmdType'
    BY <1>12, GotoType DEF SystemctlFails, Killed, Running, Begun, Steps
  <2> QED
    BY <1>0, <1>12, <2>1, EventType DEF SystemctlFails, Killed
<1>13. CASE ServiceRestarts \/ Reboot \/ BootStarts
  <2>1. CmdType'
    BY <1>13 DEF ServiceRestarts, Reboot, BootStarts, CmdType
  <2> QED
    BY <1>0, <1>13, <2>1, EventType DEF ServiceRestarts, Reboot, BootStarts
<1>14. ASSUME NEW section \in Sections \cup {NoSection}, Edit(section) PROVE TypeInv'
  <2>1. CmdType'
    BY <1>14 DEF Edit, CmdType
  <2> QED
    BY <1>0, <1>14, <2>1, EventType DEF Edit
<1>cut. CASE WriteCut
  <2>1. CmdType'
    BY <1>cut, GotoType DEF WriteCut, Writes, At, Begun, Steps
  <2>2. disk' \in FileSets
    BY <1>cut DEF WriteCut, Truncated, FileSets
  <2> QED
    BY <1>0, <1>cut, <2>1, <2>2, EventType DEF WriteCut
<1>15. CASE UNCHANGED vars
  <2>1. CmdType'
    BY <1>15 DEF vars, CmdType
  <2> QED
    BY <1>0, <1>15, <2>1 DEF vars
<1> QED
  BY <1>1, <1>2, <1>3, <1>4, <1>5, <1>6, <1>7, <1>8, <1>9, <1>10, <1>11, <1>12,
     <1>13, <1>14, <1>15, <1>cut DEF Next, Install, Environment

LEMMA TypeInvariant == Spec => []TypeInv
BY InitType, NextType, PTL DEF Spec

\* Every variable keeps its type through refused, failed, killed and
\* interrupted installs, restarts and reboots (cli.py, _cmd_install).
THEOREM TypeCorrect == Spec => []TypeOK
<1>1. TypeInv => TypeOK
  BY DEF TypeInv
<1> QED
  BY <1>1, TypeInvariant, PTL

-----------------------------------------------------------------------------
(* The directives.                                                         *)

\* rt.conf, on disk and as loaded, only ever holds directives that are in
\* range and consistent, for every section, argument and sequence of failures
\* (realtime.py, _validate and emit_systemd).
THEOREM RtSafe == Spec => []RtSound
<1>1. TypeInv => RtSound
  <2> SUFFICES ASSUME TypeInv PROVE RtSound
    OBVIOUS
  <2>1. \A f \in FileSets : Directs(f.rt) => WellFormed(f.rt)
    BY LoadedWellFormed DEF FileSets, Directs
  <2> QED
    BY <2>1 DEF TypeInv, TypeOK, RtSound
<1> QED
  BY <1>1, TypeInvariant, PTL

-----------------------------------------------------------------------------
(* How an install ends.                                                    *)

AtOneOf(steps) == cmd.step \in steps
FromRt == {"rt", "verify", "reload", "enable", "start", "done"}

\* Until the checks have passed, and in a dry run, no file is touched.
Untouched ==
    /\ AtOneOf({"check", "unit", "refused"}) => disk = before
    /\ cmd.step # "none" /\ cmd.args.dry => disk = before

\* What is written and told to systemd stays so until the end.
WrittenLasts ==
    cmd.step # "none" /\ ~cmd.args.dry =>
        /\ AtOneOf(FromRt \cup {"user", "hardening"}) =>
               disk.unit = IF cmd.args.program THEN "generated" ELSE "packaged"
        /\ AtOneOf({"enable", "start", "done"}) => loaded = disk
        /\ AtOneOf({"start", "done"}) => (cmd.args.enable => enabled)

\* The two readings of [rt], while nobody edits it; when one finds an error,
\* there is no rt.conf for the rest of the command.
TwiceRead ==
    cmd.step # "none" =>
        /\ cmd.failed => AtOneOf({"reload", "enable", "start", "failed", "killed"})
        /\ ~cmd.args.dry =>
              /\ cmd.failed => disk.rt = Unset
              /\ quiet /\ cmd.args.program /\ AtOneOf(FromRt) =>
                     disk.hardening = Hardening(cmd.args)
              /\ quiet /\ ~cmd.failed /\ AtOneOf(FromRt \ {"rt"}) => disk.rt = RtAsked

InstallInv == TypeInv /\ Untouched /\ WrittenLasts /\ TwiceRead

\* No check makes a deadline of another policy: who has the capability asked
\* for it in so many letters.
LEMMA CapabilityAsked ==
    ASSUME NEW section \in Sections,
           EmitSystemd(LoadRt(section, NoOverrides)).AmbientCapabilities # Unset
    PROVE  "sched_policy" \in DOMAIN section /\ section.sched_policy = Word("deadline")
<1> DEFINE texts == Texts(section, NoOverrides)
           p == Parsed(texts)
           c == LoadRt(section, NoOverrides)
           key == "sched_policy"
<1>1. texts = [k \in DOMAIN section |-> section[k]]
  BY DEF Texts, NoOverrides
<1>2. DOMAIN p = Keys
  BY DEF Parsed
<1>3. IsDeadline(p) => key \in DOMAIN section /\ section[key] = Word("deadline")
  <2>1. key \in Keys /\ key \notin IntKeys /\ key \notin BoolKeys
        /\ Defaults[key] = Word("other") /\ Word("other") # Word("deadline")
    BY DEF Keys, IntKeys, BoolKeys, TextKeys, Defaults, Word
  <2>2. p[key] = IF key \in DOMAIN texts THEN texts[key] ELSE Word("other")
    BY <2>1 DEF Parsed, Coercible, Coerce
  <2> QED
    BY <1>1, <2>1, <2>2 DEF IsDeadline
<1>4. IsDeadline(c)
  <2> HIDE DEF c
  <2> QED
    BY DEF EmitSystemd, c
<1> HIDE DEF p
<1>5. c.sched_policy = ValidateSched(ValidateNice(p)).sched_policy
  BY <1>2, SanitizedRest DEF LoadRt, SchedKeys, p
<1>6. DOMAIN ValidateNice(p) = Keys /\ ValidateNice(p).sched_policy = p.sched_policy
  BY <1>2 DEF ValidateNice
<1>7. ASSUME NEW n, DOMAIN n = Keys, IsDeadline(ValidateSched(n)) PROVE IsDeadline(n)
  BY <1>7 DEF ValidateSched, ValidateRtPolicy, ValidateOtherPolicy, ValidatePolicy,
     ZeroNs, Other, IsDeadline, Keys, IntKeys, TextKeys, Word
<1> QED
  BY <1>3, <1>4, <1>5, <1>6, <1>7 DEF IsDeadline

LEMMA GotoKeeps ==
    ASSUME TypeInv, cmd.step # "none", NEW s, Goto(s)
    PROVE  cmd'.step = s /\ cmd'.args = cmd.args /\ cmd'.failed = cmd.failed
<1>1. cmd \in [step : Begun, args : Commands, failed : BOOLEAN]
  BY UnderWay
<1>2. cmd' = [cmd EXCEPT !.step = s]
  BY DEF Goto
<1> QED
  BY <1>1, <1>2

LEMMA RemoveKeeps ==
    ASSUME TypeInv, cmd.step # "none", NEW failed \in BOOLEAN, RemoveRt(failed)
    PROVE  /\ cmd'.step = "reload" /\ cmd'.args = cmd.args /\ cmd'.failed = failed
           /\ cmd.args.dry => disk' = disk
           /\ ~cmd.args.dry => disk' = [disk EXCEPT !.rt = Unset]
<1>1. cmd \in [step : Begun, args : Commands, failed : BOOLEAN]
  BY UnderWay
<1>2. cmd' = [cmd EXCEPT !.step = "reload", !.failed = failed]
  BY DEF RemoveRt
<1>3. /\ cmd.args.dry => disk' = disk
      /\ ~cmd.args.dry => disk' = [disk EXCEPT !.rt = Unset]
  BY DEF RemoveRt, Write
<1> QED
  BY <1>1, <1>2, <1>3

LEMMA SameIni ==
    ASSUME ini' = ini
    PROVE  RtAsked' = RtAsked /\ \A args : Hardening(args)' = Hardening(args)
BY DEF RtAsked, Errors, Asked, Hardening, RtIsDeadline

LEMMA TheFiles ==
    ASSUME TypeInv
    PROVE  DOMAIN disk = {"unit", "user", "hardening", "rt"}
BY DEF TypeInv, TypeOK, FileSets

\* A step that leaves the files, what began and [rt] alone, and moves the
\* command on without a failure.
LEMMA MovesOn ==
    ASSUME InstallInv, cmd.step # "none", NEW s, Goto(s), disk' = disk,
           before' = before, ini' = ini, quiet' = quiet,
           s \in {"check", "unit", "refused"} => AtOneOf({"check", "unit"}),
           s \in FromRt => AtOneOf(FromRt \ {"rt"}) /\ ~(s = "rt"),
           s \notin {"user", "hardening"},
           cmd.failed => s \in {"reload", "enable", "start", "failed", "killed"},
           ~cmd.args.dry /\ s \in {"enable", "start", "done"} => loaded' = disk,
           ~cmd.args.dry /\ s \in {"start", "done"} => (cmd.args.enable => enabled')
    PROVE  Untouched' /\ WrittenLasts' /\ TwiceRead'
<1> USE DEF InstallInv
<1>1. cmd'.step = s /\ cmd'.args = cmd.args /\ cmd'.failed = cmd.failed
  BY GotoKeeps
<1>2. RtAsked' = RtAsked /\ Hardening(cmd.args)' = Hardening(cmd.args)
  BY <1>1, SameIni DEF Hardening, RtIsDeadline
<1>3. Untouched'
  BY <1>1 DEF Untouched, AtOneOf
<1>4. WrittenLasts'
  BY <1>1 DEF WrittenLasts, AtOneOf, FromRt
<1>5. TwiceRead'
  BY <1>1, <1>2 DEF TwiceRead, AtOneOf, FromRt
<1> QED
  BY <1>3, <1>4, <1>5

\* A step of the installed service, or of nobody: the command and the files stay.
LEMMA Bystander ==
    ASSUME InstallInv, cmd' = cmd, disk' = disk, before' = before,
           enabled' = enabled, loaded' \in {loaded, disk},
           quiet' => quiet /\ ini' = ini
    PROVE  Untouched' /\ WrittenLasts' /\ TwiceRead'
<1> USE DEF InstallInv
<1>1. Untouched'
  BY DEF Untouched, AtOneOf
<1>2. WrittenLasts'
  BY DEF WrittenLasts, AtOneOf, FromRt
<1>3. TwiceRead'
  <2>1. CASE quiet'
    <3>1. RtAsked' = RtAsked /\ Hardening(cmd.args)' = Hardening(cmd.args)
      BY <2>1, SameIni DEF Hardening, RtIsDeadline
    <3> QED
      BY <2>1, <3>1 DEF TwiceRead, AtOneOf, FromRt
  <2>2. CASE ~quiet'
    BY <2>2 DEF TwiceRead, AtOneOf, FromRt
  <2> QED
    BY <2>1, <2>2
<1> QED
  BY <1>1, <1>2, <1>3

LEMMA ChecksStep ==
    ASSUME InstallInv, \/ \E args \in Commands : Begin(args)
                       \/ Refuse \/ Proceed
    PROVE  Untouched' /\ WrittenLasts' /\ TwiceRead'
<1>1. CASE \E args \in Commands : Begin(args)
  <2>1. /\ cmd'.step = "check" /\ cmd'.failed = FALSE
        /\ disk' = disk /\ before' = disk
    BY <1>1 DEF Begin
  <2> QED
    BY <2>1 DEF Untouched, WrittenLasts, TwiceRead, AtOneOf, FromRt
<1>2. CASE Refuse \/ Proceed
  <2>1. PICK s \in {"refused", "unit"} : Goto(s)
    BY <1>2 DEF Refuse, Proceed
  <2>2. /\ cmd.step = "check" /\ disk' = disk /\ before' = before
        /\ ini' = ini /\ quiet' = quiet
    BY <1>2 DEF Refuse, Proceed, At
  <2>3. ~cmd.failed
    BY <2>2 DEF InstallInv, TwiceRead, AtOneOf
  <2> QED
    BY <2>1, <2>2, <2>3, MovesOn DEF AtOneOf, FromRt
<1> QED
  BY <1>1, <1>2

LEMMA FilesStep ==
    ASSUME InstallInv, \/ InstallGeneratedUnit \/ InstallPackagedUnit
                       \/ InstallUser \/ InstallHardening
    PROVE  Untouched' /\ WrittenLasts' /\ TwiceRead'
<1> USE DEF InstallInv
<1>1. PICK s \in {"user", "hardening", "rt", "failed"} : Goto(s)
  BY DEF InstallGeneratedUnit, InstallPackagedUnit, InstallUser, InstallHardening
<1>2. /\ cmd.step \in {"unit", "user", "hardening"}
      /\ before' = before /\ ini' = ini /\ quiet' = quiet
  BY DEF InstallGeneratedUnit, InstallPackagedUnit, InstallUser, InstallHardening, At
<1>3. cmd'.step = s /\ cmd'.args = cmd.args /\ cmd'.failed = cmd.failed
  BY <1>1, <1>2, GotoKeeps
<1>4. ~cmd.failed
  BY <1>2 DEF TwiceRead, AtOneOf
<1>5. cmd.args.dry => disk' = disk
  BY DEF InstallGeneratedUnit, InstallPackagedUnit, InstallUser, InstallHardening, Write
<1>6. Untouched'
  BY <1>1, <1>2, <1>3, <1>5 DEF Untouched, AtOneOf
<1>7. ASSUME ~cmd.args.dry, s # "failed"
      PROVE  disk'.unit = IF cmd.args.program THEN "generated" ELSE "packaged"
  <2>1. CASE InstallGeneratedUnit
    BY <1>7, <2>1, TheFiles DEF InstallGeneratedUnit, Write
  <2>2. CASE InstallPackagedUnit
    <3>1. CASE Ships \/ cmd.args.dry
      BY <1>7, <2>2, <3>1, TheFiles DEF InstallPackagedUnit, Write
    <3>2. CASE ~(Ships \/ cmd.args.dry)
      <4>1. Goto("failed")
        BY <2>2, <3>2 DEF InstallPackagedUnit
      <4>2. cmd'.step = "failed"
        BY <1>2, <4>1, GotoKeeps
      <4> QED
        BY <1>3, <1>7, <4>2
    <3> QED
      BY <3>1, <3>2
  <2>3. CASE InstallUser \/ InstallHardening
    <3>1. disk'.unit = disk.unit
      BY <1>7, <2>3, TheFiles DEF InstallUser, InstallHardening, Write
    <3>2. cmd.step \in {"user", "hardening"}
      BY <2>3 DEF InstallUser, InstallHardening, At
    <3> QED
      BY <1>7, <3>1, <3>2 DEF WrittenLasts, AtOneOf
  <2> QED
    BY <2>1, <2>2, <2>3
<1>8. WrittenLasts'
  BY <1>1, <1>3, <1>7 DEF WrittenLasts, AtOneOf, FromRt
<1>9. ASSUME ~cmd.args.dry, cmd.args.program, s = "rt"
      PROVE  disk'.hardening = Hardening(cmd.args)
  <2>1. ASSUME Goto("user") \/ Goto("hardening") \/ Goto("failed") PROVE FALSE
    <3>1. cmd'.step \in {"user", "hardening", "failed"}
      BY <1>2, <2>1, GotoKeeps
    <3> QED
      BY <1>3, <1>9, <3>1
  <2>2. InstallHardening
    BY <2>1 DEF InstallGeneratedUnit, InstallPackagedUnit, InstallUser
  <2> QED
    BY <1>9, <2>2, TheFiles DEF InstallHardening, Write
<1>10. TwiceRead'
  <2>1. Hardening(cmd.args)' = Hardening(cmd.args)
    BY <1>2, <1>3, SameIni DEF Hardening, RtIsDeadline
  <2> QED
    BY <1>1, <1>3, <1>4, <1>9, <2>1 DEF TwiceRead, AtOneOf, FromRt
<1> QED
  BY <1>6, <1>8, <1>10

LEMMA RtRemovedStep ==
    ASSUME InstallInv, InstallRealtimeNone \/ InstallRealtimeInvalid \/ VerifyFails
    PROVE  Untouched' /\ WrittenLasts' /\ TwiceRead'
<1> USE DEF InstallInv
<1>1. PICK f \in BOOLEAN : RemoveRt(f) /\ (f \/ InstallRealtimeNone)
  BY DEF InstallRealtimeNone, InstallRealtimeInvalid, VerifyFails
<1>2. /\ cmd.step \in {"rt", "verify"} /\ before' = before /\ ini' = ini
      /\ quiet' = quiet
  BY DEF InstallRealtimeNone, InstallRealtimeInvalid, VerifyFails, At
<1>3. /\ cmd'.step = "reload" /\ cmd'.args = cmd.args /\ cmd'.failed = f
      /\ cmd.args.dry => disk' = disk
      /\ ~cmd.args.dry => disk' = [disk EXCEPT !.rt = Unset]
  BY <1>1, <1>2, RemoveKeeps
<1>4. ~cmd.args.dry => /\ disk'.rt = Unset /\ disk'.unit = disk.unit
                       /\ disk'.hardening = disk.hardening
  BY <1>3, TheFiles
<1>5. Untouched'
  BY <1>2, <1>3 DEF Untouched, AtOneOf
<1>6. WrittenLasts'
  BY <1>2, <1>3, <1>4 DEF WrittenLasts, AtOneOf, FromRt
<1>7. TwiceRead'
  <2>1. Hardening(cmd.args)' = Hardening(cmd.args) /\ RtAsked' = RtAsked
    BY <1>2, <1>3, SameIni DEF Hardening, RtIsDeadline
  <2>2. ~f => RtAsked = Unset
    BY <1>1 DEF InstallRealtimeNone, RtAsked
  <2> QED
    BY <1>2, <1>3, <1>4, <2>1, <2>2 DEF TwiceRead, AtOneOf, FromRt
<1> QED
  BY <1>5, <1>6, <1>7

LEMMA RtWrittenStep ==
    ASSUME InstallInv, WriteRtDropin
    PROVE  Untouched' /\ WrittenLasts' /\ TwiceRead'
<1> USE DEF InstallInv
<1>1. PICK s \in {"reload", "verify"} : Goto(s)
  BY DEF WriteRtDropin
<1>2. /\ cmd.step = "rt" /\ before' = before /\ ini' = ini /\ quiet' = quiet
      /\ ini # NoSection /\ ~Errors
  BY DEF WriteRtDropin, At
<1>3. cmd'.step = s /\ cmd'.args = cmd.args /\ cmd'.failed = cmd.failed
  BY <1>1, <1>2, GotoKeeps
<1>4. /\ cmd.args.dry => disk' = disk
      /\ ~cmd.args.dry => disk' = [disk EXCEPT !.rt = Asked]
  BY <1>2 DEF WriteRtDropin, Write
<1>5. ~cmd.args.dry => /\ disk'.rt = Asked /\ disk'.unit = disk.unit
                       /\ disk'.hardening = disk.hardening
  BY <1>4, TheFiles
<1>6. ~cmd.failed
  BY <1>2 DEF TwiceRead, AtOneOf
<1>7. Untouched'
  BY <1>1, <1>2, <1>3, <1>4, <1>6 DEF Untouched, AtOneOf
<1>8. WrittenLasts'
  BY <1>1, <1>2, <1>3, <1>5 DEF WrittenLasts, AtOneOf, FromRt
<1>9. TwiceRead'
  <2>1. Hardening(cmd.args)' = Hardening(cmd.args) /\ RtAsked' = RtAsked
    BY <1>2, <1>3, SameIni DEF Hardening, RtIsDeadline
  <2>2. RtAsked = Asked
    BY <1>2 DEF RtAsked
  <2> QED
    BY <1>1, <1>2, <1>3, <1>5, <1>6, <2>1, <2>2 DEF TwiceRead, AtOneOf, FromRt
<1> QED
  BY <1>7, <1>8, <1>9

LEMMA SystemctlStep ==
    ASSUME InstallInv, \/ VerifyPasses \/ DryRunEnds \/ Reload \/ Enable \/ Start
                       \/ SystemctlFails \/ Killed
    PROVE  Untouched' /\ WrittenLasts' /\ TwiceRead'
<1> USE DEF InstallInv
<1>0. /\ cmd.step # "none" /\ disk' = disk /\ before' = before
      /\ ini' = ini /\ quiet' = quiet
  BY DEF VerifyPasses, DryRunEnds, Reload, Enable, Start, SystemctlFails, Killed,
     At, Running
<1>1. CASE VerifyPasses
  <2>1. Goto("reload") /\ cmd.step = "verify"
    BY <1>1 DEF VerifyPasses, At
  <2> QED
    BY <1>0, <2>1, MovesOn DEF AtOneOf, FromRt
<1>2. CASE DryRunEnds
  <2>1. PICK s \in {"failed", "done"} : Goto(s) /\ (s = "failed" <=> cmd.failed)
    BY <1>2, UnderWay DEF DryRunEnds, End, At
  <2>2. cmd.step = "reload" /\ cmd.args.dry
    BY <1>2 DEF DryRunEnds, At
  <2> QED
    BY <1>0, <2>1, <2>2, MovesOn DEF AtOneOf, FromRt
<1>3. CASE Reload
  <2>1. Goto("enable") /\ cmd.step = "reload" /\ loaded' = disk
    BY <1>3 DEF Reload, At
  <2> QED
    BY <1>0, <2>1, MovesOn DEF AtOneOf, FromRt
<1>4. CASE Enable
  <2>1. /\ Goto("start") /\ cmd.step = "enable" /\ loaded' = loaded
        /\ cmd.args.enable => enabled'
    BY <1>4 DEF Enable, At
  <2>2. ~cmd.args.dry => loaded = disk
    BY <2>1 DEF WrittenLasts, AtOneOf
  <2> QED
    BY <1>0, <2>1, <2>2, MovesOn DEF AtOneOf, FromRt
<1>5. CASE Start
  <2>1. PICK s \in {"failed", "done"} : Goto(s) /\ (s = "failed" <=> cmd.failed)
    BY <1>5, UnderWay DEF Start, End, At
  <2>2. cmd.step = "start" /\ loaded' = loaded /\ enabled' = enabled
    BY <1>5 DEF Start, At
  <2>3. ~cmd.args.dry => loaded = disk /\ (cmd.args.enable => enabled)
    BY <2>2 DEF WrittenLasts, AtOneOf
  <2> QED
    BY <1>0, <2>1, <2>2, <2>3, MovesOn DEF AtOneOf, FromRt
<1>6. CASE SystemctlFails \/ Killed
  <2>1. PICK s \in {"failed", "killed"} : Goto(s)
    BY <1>6 DEF SystemctlFails, Killed
  <2> QED
    BY <1>0, <2>1, MovesOn DEF AtOneOf, FromRt
<1> QED
  BY <1>1, <1>2, <1>3, <1>4, <1>5, <1>6

\* A write that is cut short ends the command, and no other file changes.
LEMMA CutStep ==
    ASSUME InstallInv, WriteCut
    PROVE  Untouched' /\ WrittenLasts' /\ TwiceRead'
<1> USE DEF InstallInv
<1>1. PICK s \in {"failed", "killed"} : Goto(s)
  BY DEF WriteCut
<1>2. cmd.step \in {"unit", "user", "hardening", "rt"} /\ ~cmd.args.dry
  BY DEF WriteCut, Writes, At
<1>3. cmd'.step = s /\ cmd'.args = cmd.args /\ cmd'.failed = cmd.failed
  BY <1>1, <1>2, GotoKeeps
<1>4. ~cmd.failed
  BY <1>2 DEF TwiceRead, AtOneOf
<1> QED
  BY <1>1, <1>2, <1>3, <1>4 DEF Untouched, WrittenLasts, TwiceRead, AtOneOf, FromRt

LEMMA InstallInductive == InstallInv /\ [Next]_vars => InstallInv'
<1> SUFFICES ASSUME InstallInv, [Next]_vars PROVE Untouched' /\ WrittenLasts' /\ TwiceRead'
  BY NextType DEF InstallInv
<1>1. CASE \/ ServiceRestarts \/ Reboot \/ BootStarts \/ UNCHANGED vars
           \/ \E section \in Sections \cup {NoSection} : Edit(section)
  <2>1. /\ cmd' = cmd /\ disk' = disk /\ before' = before /\ enabled' = enabled
        /\ loaded' \in {loaded, disk} /\ (quiet' => quiet /\ ini' = ini)
    BY <1>1 DEF ServiceRestarts, Reboot, BootStarts, Edit, vars
  <2> QED
    BY <2>1, Bystander
<1> QED
  BY <1>1, ChecksStep, FilesStep, RtRemovedStep, RtWrittenStep, SystemctlStep, CutStep
  DEF Next, Install, Environment

LEMMA InstallInvariant == Spec => []InstallInv
<1>1. Init => InstallInv
  BY InitType DEF Init, NoCommand, InstallInv, Untouched, WrittenLasts, TwiceRead, AtOneOf
<1> QED
  BY <1>1, InstallInductive, PTL DEF Spec

\* How an install ends, for every command, section, edit, kill and failure: it
\* leaves the files alone or systemd has loaded all it wrote; rt.conf is what
\* [rt] asks for, beside a baseline that lets a deadline be set (_cmd_install).
THEOREM InstallSafe == Spec => []Installed
<1>1. InstallInv => Installed
  <2> SUFFICES ASSUME InstallInv PROVE Installed
    OBVIOUS
  <2> USE DEF InstallInv
  <2>1. ASSUME cmd.step = "done", ~cmd.args.dry
        PROVE  /\ loaded = disk
               /\ disk.unit = IF cmd.args.program THEN "generated" ELSE "packaged"
               /\ cmd.args.enable => enabled
               /\ quiet => disk.rt = RtAsked
    BY <2>1 DEF WrittenLasts, TwiceRead, AtOneOf, FromRt
  <2>2. ASSUME cmd.step = "done", ~cmd.args.dry, quiet PROVE DeadlineHardening
    <3> SUFFICES ASSUME cmd.args.program, Directs(disk.rt),
                        disk.rt.AmbientCapabilities # Unset
                 PROVE  disk.hardening # "strict"
      BY DEF DeadlineHardening
    <3>1. disk.hardening = Hardening(cmd.args) /\ disk.rt = RtAsked
      BY <2>2 DEF TwiceRead, AtOneOf, FromRt
    <3>2. disk.rt = Asked /\ ini \in Sections /\ ini # NoSection
      BY <3>1 DEF RtAsked, Directs, TypeInv, TypeOK
    <3>3. "sched_policy" \in DOMAIN ini /\ ini.sched_policy = Word("deadline")
      BY <3>2, CapabilityAsked DEF Asked
    <3>4. RtIsDeadline(ini)
      BY <3>2, <3>3 DEF RtIsDeadline
    <3> QED
      BY <3>1, <3>4 DEF Hardening
  <2>3. cmd.step = "failed" /\ cmd.failed /\ ~cmd.args.dry => disk.rt = Unset
    BY DEF TwiceRead
  <2>4. /\ cmd.step = "refused" => disk = before
        /\ cmd.step # "none" /\ cmd.args.dry => disk = before
    BY DEF Untouched, AtOneOf
  <2> QED
    BY <2>1, <2>2, <2>3, <2>4 DEF Installed, At
<1> QED
  BY <1>1, InstallInvariant, PTL

-----------------------------------------------------------------------------
(* The report.                                                             *)

LEMMA NoNumber == None[1] # "int"
BY DEF None, Word

\* A service's own settings, whatever its file and its environment say.
LEMMA LoadedSound ==
    ASSUME NEW section \in Sections, NEW env \in Environs
    PROVE  LET c == LoadRt(section, env)
           IN  /\ DOMAIN c = Keys /\ SchedSound(c) /\ IoSound(c) /\ RestSound(c)
               /\ c.memlock[1] = "int" => c.memlock[2] \in Int
               /\ c.sched_reset_on_fork \in BOOLEAN
<1> DEFINE texts == Texts(section, env)
           p == Parsed(texts)
           c0 == ValidateNice(p)
           c1 == ValidateSched(c0)
           c2 == ValidateIo(c1)
           c3 == ValidateMemlock(c2)
           c4 == ValidateAffinity(c3)
           c5 == ValidateOomTimer(c4)
<1>1. \A k \in DOMAIN texts : texts[k][1] = "int" => texts[k][2] \in Int
  <2>1. /\ \A k \in DOMAIN section : section[k][1] = "int" => section[k][2] \in Int
        /\ \A k \in DOMAIN env : env[k][1] = "int" => env[k][2] \in Int
    BY SectionAssumption
  <2> QED
    BY <2>1 DEF Texts
<1>2. Parsable(p)
  BY <1>1, ParsedParsable
<1>memlock. p.memlock[1] = "int" => p.memlock[2] \in Int
  <2> DEFINE key == "memlock"
  <2>1. key \in Keys /\ key \notin IntKeys /\ key \notin BoolKeys
        /\ Defaults[key] = None
    BY DEF Keys, IntKeys, BoolKeys, TextKeys, Defaults
  <2>2. p[key] = IF key \in DOMAIN texts THEN texts[key] ELSE None
    BY <2>1 DEF Parsed, Coercible, Coerce
  <2> HIDE DEF p, texts
  <2> QED
    BY <1>1, <2>2, NoNumber
<1>flag. p.sched_reset_on_fork \in BOOLEAN
  <2> DEFINE flag == "sched_reset_on_fork"
  <2>1. flag \in Keys /\ flag \notin IntKeys /\ flag \in BoolKeys
        /\ Defaults[flag] = FALSE
    BY DEF Keys, IntKeys, BoolKeys, Defaults
  <2>2. p[flag] = IF flag \in DOMAIN texts /\ Coercible(flag, texts[flag])
                  THEN texts[flag] \in TruthTexts ELSE FALSE
    BY <2>1 DEF Parsed, Coerce
  <2> HIDE DEF p, texts
  <2>3. PICK t : t = (texts[flag] \in TruthTexts)
    OBVIOUS
  <2>4. t \in BOOLEAN
    <3>1. CASE texts[flag] \in TruthTexts
      BY <2>3, <3>1
    <3>2. CASE texts[flag] \notin TruthTexts
      BY <2>3, <3>2
    <3> QED
      BY <3>1, <3>2
  <2>5. p[flag] \in {t, FALSE}
    BY <2>2, <2>3
  <2> QED
    BY <2>4, <2>5
<1> HIDE DEF p
<1>4. Parsable(c1) /\ SchedSound(c1)
  BY <1>2, NiceChecked, SchedChecked
<1>5. Parsable(c2) /\ SchedSound(c2) /\ IoSound(c2)
  BY <1>4, IoChecked
<1>6. Parsable(c3) /\ SchedSound(c3) /\ IoSound(c3)
  BY <1>5, MemlockChecked
<1>7. Parsable(c4) /\ SchedSound(c4) /\ IoSound(c4)
  BY <1>6, AffinityChecked
<1>8. SchedSound(c5) /\ IoSound(c5)
  BY <1>7, OomTimerChecked
<1>9. LoadRt(section, env) = c5 /\ c5 = Sanitized(p)
  BY DEF LoadRt, Sanitized, p
<1> HIDE DEF c5
<1>10. /\ DOMAIN c5 = Keys /\ RestSound(c5) /\ c5.memlock \in {p.memlock, None}
       /\ c5.sched_reset_on_fork = p.sched_reset_on_fork
  BY <1>2, <1>9, SanitizedRest DEF Parsable
<1>11. c5.memlock[1] = "int" => c5.memlock[2] \in Int
  BY <1>memlock, <1>10, NoNumber
<1> QED
  BY <1>8, <1>9, <1>10, <1>11, <1>flag

\* What one more check would change is what the first one left wrong.
LEMMA KernelSettles ==
    ASSUME NEW c, DOMAIN c = Keys, SchedSound(c), Sanitized(c) = c
    PROVE  /\ ~IsFixed(c) => c.sched_priority = 0
           /\ ~IsDeadline(c) => /\ c.sched_runtime_ns = 0 /\ c.sched_deadline_ns = 0
                                /\ c.sched_period_ns = 0
<1>1. ValidateNice(c) = c
  BY DEF ValidateNice, SchedSound
<1>2. \A k \in SchedKeys : c[k] = ValidateSched(c)[k]
  BY <1>1, SanitizedRest
<1>3. ~IsFixed(c) => ValidateSched(c).sched_priority = 0
  BY DEF IsFixed, ValidateSched, ValidateDeadline, ValidateOtherPolicy,
     ValidatePolicy, ZeroNs, Other, Keys, IntKeys
<1>4. ~IsDeadline(c) => /\ ValidateSched(c).sched_runtime_ns = 0
                        /\ ValidateSched(c).sched_deadline_ns = 0
                        /\ ValidateSched(c).sched_period_ns = 0
  BY DEF IsDeadline, ValidateSched, ValidateRtPolicy, ValidateOtherPolicy,
     ValidatePolicy, ZeroNs, Other, Keys, IntKeys
<1> QED
  BY <1>2, <1>3, <1>4 DEF SchedKeys

\* What systemd starts the service with, and what the service adds.
LEMMA StartedWith ==
    ASSUME NEW d, loaded.rt = d, Directs(d)
    PROVE  /\ AsLoaded.nice = d.Nice
           /\ AsLoaded.policy = IF d.CPUSchedulingPolicy = Unset THEN "other"
                                ELSE d.CPUSchedulingPolicy[2]
           /\ AsLoaded.priority = IF d.CPUSchedulingPriority = Unset THEN 0
                                  ELSE d.CPUSchedulingPriority
           /\ AsLoaded.reset = d.CPUSchedulingResetOnFork
           /\ d.CPUAffinity \in Countable => AsLoaded.affinity = d.CPUAffinity
           /\ d.IOSchedulingClass # None => AsLoaded.class = d.IOSchedulingClass[2]
           /\ d.IOSchedulingPriority # Unset => AsLoaded.data = d.IOSchedulingPriority
           /\ d.LimitMEMLOCK # None => AsLoaded.memlock = d.LimitMEMLOCK
           /\ AsLoaded.oom = d.OOMScoreAdjust
           /\ d.TimerSlackNSec # -1 => AsLoaded.slack = d.TimerSlackNSec
           /\ AsLoaded.runtime = 0 /\ AsLoaded.deadline = 0 /\ AsLoaded.period = 0
BY DEF AsLoaded, Plain

LEMMA AsLoadedDomain == DOMAIN AsLoaded = DOMAIN Plain
BY DEF AsLoaded, Plain

LEMMA Applied ==
    ASSUME NEW a, DOMAIN a = DOMAIN Plain, NEW c, NEW locked, NEW granted
    PROVE  LET e == ApplyInProcess(a, c, locked, granted)
           IN  /\ e.nice = a.nice /\ e.affinity = a.affinity /\ e.class = a.class
               /\ e.data = a.data /\ e.memlock = a.memlock /\ e.oom = a.oom
               /\ e.slack = a.slack /\ e.locked = (locked /\ c.mlockall)
               /\ ~IsDeadline(c) =>
                      /\ e.policy = a.policy /\ e.priority = a.priority
                      /\ e.reset = a.reset /\ e.runtime = a.runtime
                      /\ e.deadline = a.deadline /\ e.period = a.period
               /\ IsDeadline(c) => e.priority = 0
               /\ IsDeadline(c) /\ granted =>
                      /\ e.policy = "deadline" /\ e.reset = c.sched_reset_on_fork
                      /\ e.runtime = c.sched_runtime_ns
                      /\ e.deadline = c.sched_deadline_ns
                      /\ e.period = c.sched_period_ns
<1> DEFINE b == [a EXCEPT !.locked = locked /\ c.mlockall]
<1>1. /\ DOMAIN b = DOMAIN Plain /\ b.locked = (locked /\ c.mlockall)
      /\ b.nice = a.nice /\ b.affinity = a.affinity /\ b.class = a.class
      /\ b.data = a.data /\ b.memlock = a.memlock /\ b.oom = a.oom
      /\ b.slack = a.slack /\ b.policy = a.policy /\ b.priority = a.priority
      /\ b.reset = a.reset /\ b.runtime = a.runtime
      /\ b.deadline = a.deadline /\ b.period = a.period
  BY DEF Plain
<1> HIDE DEF b
<1>2. ApplyInProcess(a, c, locked, granted) = SetDeadline(b, c, granted)
  BY DEF ApplyInProcess, b
<1> QED
  BY <1>1, <1>2 DEF SetDeadline, Plain

\* A report without a mismatch: the keys that matter are always looked at, or
\* are what a process starts with.
LEMMA OkIsTrue ==
    ASSUME TypeInv, NEW section \in Sections, NEW env \in Environs,
           NEW locked \in BOOLEAN, NEW granted \in BOOLEAN,
           NEW c, c = LoadRt(section, env),
           NEW e, e = ApplyInProcess(AsLoaded, c, locked, granted),
           NEW unread, StatusOk(e, c, unread)
    PROVE  /\ Word(e.policy) = c.sched_policy /\ e.priority = c.sched_priority
           /\ e.nice = c.nice
           /\ c.mlockall => e.locked \/ "locked" \in unread
<1>1. DOMAIN c = Keys /\ SchedSound(c) /\ RestSound(c)
  BY LoadedSound
<1>2. \A k \in Levers(c) : Matches(k, e, c, unread)
  BY DEF StatusOk
<1>3. e.nice = c.nice
  BY <1>2 DEF Levers, Matches
<1>4. Word(e.policy) = c.sched_policy
  <2>1. ReadPolicy(e) = c.sched_policy
    BY <1>2 DEF Levers, Matches
  <2>2. c.sched_policy # Unset
    BY <1>1, UnsetAssumption DEF SchedSound
  <2> QED
    BY <2>1, <2>2 DEF ReadPolicy
<1>5. c.mlockall => e.locked \/ "locked" \in unread
  <2>1. c.mlockall => "mlockall" \in Levers(c)
    BY <1>1 DEF Levers, Keys, BoolKeys, Defaults
  <2>2. c.mlockall => "locked" \in unread \/ e.locked = c.mlockall
    BY <1>2, <2>1 DEF Matches
  <2> QED
    BY <2>2
<1>6. e.priority = c.sched_priority
  <2>1. CASE c.sched_priority # 0
    <3>1. "sched_priority" \in Levers(c)
      BY <2>1 DEF Levers, Keys, IntKeys, Defaults
    <3> QED
      BY <1>2, <3>1 DEF Matches
  <2>2. CASE c.sched_priority = 0
    <3>1. c.sched_policy \notin {Word("fifo"), Word("rr")}
      BY <1>1, <2>2 DEF SchedSound
    <3>2. /\ IsDeadline(c) => e.priority = 0
          /\ ~IsDeadline(c) => e.policy = AsLoaded.policy /\ e.priority = AsLoaded.priority
      BY Applied, AsLoadedDomain
    <3>3. ASSUME ~IsDeadline(c) PROVE AsLoaded.priority = 0
      <4>1. Word(AsLoaded.policy) \notin {Word("fifo"), Word("rr")}
        BY <1>4, <3>1, <3>2, <3>3
      <4>2. CASE ~Directs(loaded.rt)
        BY <4>2 DEF AsLoaded, Plain
      <4>3. CASE Directs(loaded.rt)
        <5>1. PICK d : d = loaded.rt
          OBVIOUS
        <5>2. WellFormed(d)
          BY <4>3, <5>1, LoadedWellFormed DEF TypeInv, TypeOK, FileSets, Directs
        <5>3. /\ AsLoaded.policy = IF d.CPUSchedulingPolicy = Unset THEN "other"
                                   ELSE d.CPUSchedulingPolicy[2]
              /\ AsLoaded.priority = IF d.CPUSchedulingPriority = Unset THEN 0
                                     ELSE d.CPUSchedulingPriority
          BY <4>3, <5>1, StartedWith
        <5>4. ASSUME d.CPUSchedulingPolicy \in {Word("fifo"), Word("rr")} PROVE FALSE
          <6>1. d.CPUSchedulingPolicy # Unset
            BY <5>4, UnsetAssumption DEF Policies
          <6>2. AsLoaded.policy \in {"fifo", "rr"}
            BY <5>3, <5>4, <6>1 DEF Word
          <6> QED
            BY <4>1, <6>2
        <5> QED
          BY <5>2, <5>3, <5>4 DEF WellFormed
      <4> QED
        BY <4>2, <4>3
    <3> QED
      BY <2>2, <3>2, <3>3
  <2> QED
    BY <2>1, <2>2
<1> QED
  BY <1>3, <1>4, <1>5, <1>6

\* Nothing is reported of a service that was given what it asked for.
LEMMA NoFalseAlarm ==
    ASSUME NEW section \in Sections, NEW env \in Environs,
           NEW locked \in BOOLEAN, NEW granted \in BOOLEAN,
           NEW c, c = LoadRt(section, env),
           NEW e, e = ApplyInProcess(AsLoaded, c, locked, granted),
           NEW unread, ~StatusRaises(c, unread), unread \cap Counted = {},
           c.mlockall => locked, IsDeadline(c) => granted,
           loaded.rt = EmitSystemd(c), Sanitized(c) = c, ~c.sched_reset_on_fork
    PROVE  StatusOk(e, c, unread)
<1>1. /\ DOMAIN c = Keys /\ SchedSound(c) /\ IoSound(c) /\ RestSound(c)
      /\ c.memlock[1] = "int" => c.memlock[2] \in Int
      /\ c.sched_reset_on_fork = FALSE
  BY LoadedSound
<1>2. PICK d : d = EmitSystemd(c)
  OBVIOUS
<1>3. Directs(d) /\ loaded.rt = d
  <2>1. "Nice" \in DOMAIN d /\ DOMAIN Blank = {}
    BY <1>2 DEF EmitSystemd, Blank
  <2>2. d # Unset /\ d # Blank
    BY <1>2, <2>1, DropinAssumption
  <2> QED
    BY <1>2, <2>2 DEF Directs
<1>4. PICK a : a = AsLoaded
  OBVIOUS
<1>5. /\ a.nice = d.Nice
      /\ a.policy = IF d.CPUSchedulingPolicy = Unset THEN "other"
                    ELSE d.CPUSchedulingPolicy[2]
      /\ a.priority = IF d.CPUSchedulingPriority = Unset THEN 0
                      ELSE d.CPUSchedulingPriority
      /\ a.reset = d.CPUSchedulingResetOnFork
      /\ d.CPUAffinity \in Countable => a.affinity = d.CPUAffinity
      /\ d.IOSchedulingClass # None => a.class = d.IOSchedulingClass[2]
      /\ d.IOSchedulingPriority # Unset => a.data = d.IOSchedulingPriority
      /\ d.LimitMEMLOCK # None => a.memlock = d.LimitMEMLOCK
      /\ a.oom = d.OOMScoreAdjust
      /\ d.TimerSlackNSec # -1 => a.slack = d.TimerSlackNSec
      /\ a.runtime = 0 /\ a.deadline = 0 /\ a.period = 0
  BY <1>3, <1>4, StartedWith
<1>6. /\ d.Nice = c.nice /\ d.CPUAffinity = c.cpu_affinity
      /\ d.IOSchedulingClass = c.io_sched_class /\ d.LimitMEMLOCK = c.memlock
      /\ d.OOMScoreAdjust = c.oom_score_adjust /\ d.TimerSlackNSec = c.timer_slack_ns
      /\ ~IsDeadline(c) => d.CPUSchedulingPolicy = c.sched_policy
      /\ d.CPUSchedulingPriority = IF IsFixed(c) THEN c.sched_priority ELSE Unset
      /\ d.CPUSchedulingResetOnFork = FALSE
      /\ d.IOSchedulingPriority = IF c.io_sched_class # None /\ c.io_sched_priority # -1
                                  THEN c.io_sched_priority ELSE Unset
  BY <1>1, <1>2 DEF EmitSystemd
<1>7. /\ e.nice = a.nice /\ e.affinity = a.affinity /\ e.class = a.class
      /\ e.data = a.data /\ e.memlock = a.memlock /\ e.oom = a.oom
      /\ e.slack = a.slack /\ e.locked = (locked /\ c.mlockall)
      /\ ~IsDeadline(c) =>
             /\ e.policy = a.policy /\ e.priority = a.priority
             /\ e.reset = a.reset /\ e.runtime = a.runtime
             /\ e.deadline = a.deadline /\ e.period = a.period
      /\ IsDeadline(c) =>
             /\ e.priority = 0 /\ e.policy = "deadline"
             /\ e.reset = c.sched_reset_on_fork
             /\ e.runtime = c.sched_runtime_ns /\ e.deadline = c.sched_deadline_ns
             /\ e.period = c.sched_period_ns
  BY <1>4, Applied, AsLoadedDomain
<1>8. /\ ~IsFixed(c) => c.sched_priority = 0
      /\ ~IsDeadline(c) => /\ c.sched_runtime_ns = 0 /\ c.sched_deadline_ns = 0
                           /\ c.sched_period_ns = 0
  BY <1>1, KernelSettles
<1>9. ~(IsDeadline(c) /\ IsFixed(c))
  BY DEF IsDeadline, IsFixed, Word
<1>10. e.reset = FALSE
  BY <1>1, <1>5, <1>6, <1>7
<1>11. ReadPolicy(e) = c.sched_policy
  <2>1. CASE IsDeadline(c)
    BY <1>7, <1>10, <2>1 DEF ReadPolicy, IsDeadline
  <2>2. CASE ~IsDeadline(c)
    <3>1. c.sched_policy # Unset
      BY <1>1, UnsetAssumption DEF SchedSound
    <3>2. e.policy = c.sched_policy[2]
      BY <1>5, <1>6, <1>7, <2>2, <3>1
    <3>3. Word(c.sched_policy[2]) = c.sched_policy
      BY <1>1 DEF SchedSound, Word
    <3> QED
      BY <1>10, <3>2, <3>3 DEF ReadPolicy
  <2> QED
    BY <2>1, <2>2
<1>12. e.priority = c.sched_priority
  <2>1. CASE IsFixed(c)
    <3>1. c.sched_priority # Unset
      BY <1>1, <2>1, UnsetAssumption DEF SchedSound, IsFixed
    <3> QED
      BY <1>5, <1>6, <1>7, <1>9, <2>1, <3>1
  <2>2. CASE ~IsFixed(c)
    BY <1>5, <1>6, <1>7, <1>8, <2>2
  <2> QED
    BY <2>1, <2>2
<1>13. /\ e.runtime = c.sched_runtime_ns /\ e.deadline = c.sched_deadline_ns
       /\ e.period = c.sched_period_ns
  BY <1>5, <1>7, <1>8
<1>14. c.cpu_affinity # None =>
           e.affinity = c.cpu_affinity \/ "affinity" \in unread
  BY <1>5, <1>6, <1>7 DEF StatusRaises
<1>15. c.io_sched_class # None => Word(e.class) = c.io_sched_class
  <2>1. c.io_sched_class # None => Word(c.io_sched_class[2]) = c.io_sched_class
    BY <1>1 DEF RestSound, Word
  <2> QED
    BY <1>5, <1>6, <1>7, <2>1
<1>16. c.io_sched_priority # -1 => e.data = c.io_sched_priority
  <2>1. c.io_sched_priority # -1 =>
            c.io_sched_class # None /\ c.io_sched_priority # Unset
    BY <1>1, UnsetAssumption DEF IoSound
  <2> QED
    BY <1>5, <1>6, <1>7, <2>1
<1>17. c.memlock # None => MemlockMatches(e, c)
  <2> SUFFICES ASSUME c.memlock # None PROVE MemlockMatches(e, c)
    OBVIOUS
  <2>1. e.memlock = c.memlock /\ LockLimit(c.memlock)
    BY <1>1, <1>5, <1>6, <1>7 DEF RestSound
  <2>2. c.memlock # Word("infinity") => c.memlock[2] >= c.memlock[2]
    BY <1>1, <2>1 DEF LockLimit
  <2> QED
    BY <2>1, <2>2 DEF MemlockMatches
<1>18. c.mlockall # FALSE => e.locked = c.mlockall
  BY <1>1, <1>7 DEF RestSound
<1>19. c.timer_slack_ns # -1 => e.slack = c.timer_slack_ns
  BY <1>5, <1>6, <1>7
<1>20. e.nice = c.nice /\ e.oom = c.oom_score_adjust
  BY <1>5, <1>6, <1>7
<1>counted. \A r \in Counted : r \notin unread
  OBVIOUS
<1>21. ASSUME NEW k \in Levers(c) PROVE Matches(k, e, c, unread)
  <2>1. \/ k \in {"sched_policy", "nice"}
        \/ k \in Keys /\ c[k] # Defaults[k]
    BY DEF Levers
  <2>2. CASE k \in {"sched_policy", "nice"}
    BY <1>11, <1>20, <1>counted, <2>2 DEF Matches, Counted
  <2>3. CASE k \in NsKeys \cup {"sched_priority", "oom_score_adjust"}
    BY <1>12, <1>13, <1>20, <1>counted, <2>3 DEF Matches, NsKeys, Counted
  <2>4. /\ Defaults.io_sched_priority = -1 /\ Defaults.timer_slack_ns = -1
        /\ Defaults.io_sched_class = None /\ Defaults.cpu_affinity = None
        /\ Defaults.memlock = None /\ Defaults.mlockall = FALSE
        /\ Defaults.sched_reset_on_fork = FALSE
    BY DEF Defaults
  <2>5. CASE k = "io_sched_priority" /\ c[k] # Defaults[k]
    BY <1>16, <2>4, <2>5 DEF Matches
  <2>6. CASE k = "timer_slack_ns" /\ c[k] # Defaults[k]
    BY <1>19, <2>4, <2>6 DEF Matches
  <2>7. CASE k = "io_sched_class" /\ c[k] # Defaults[k]
    BY <1>15, <2>4, <2>7 DEF Matches
  <2>8. CASE k = "cpu_affinity" /\ c[k] # Defaults[k]
    BY <1>14, <2>4, <2>8 DEF Matches
  <2>9. CASE k = "memlock" /\ c[k] # Defaults[k]
    BY <1>17, <2>4, <2>9 DEF Matches
  <2>10. CASE k = "mlockall" /\ c[k] # Defaults[k]
    BY <1>18, <2>4, <2>10 DEF Matches
  <2>11. CASE k = "sched_reset_on_fork" /\ c[k] # Defaults[k]
    BY <1>1, <2>4, <2>11
  <2> QED
    BY <2>1, <2>2, <2>3, <2>5, <2>6, <2>7, <2>8, <2>9, <2>10, <2>11
    DEF Keys, IntKeys, BoolKeys, TextKeys, NsKeys
<1> QED
  BY <1>21 DEF StatusOk

\* The report is about the service as it started: only a start changes it.
LEMMA StartedTrue ==
    ASSUME TypeInv, NEW env \in Environs, NEW locked \in BOOLEAN,
           NEW granted \in BOOLEAN, NEW unread,
           svc' = Started(ini, env, locked, granted, unread)
    PROVE  ReportTrue'
<1>1. CASE ini = NoSection
  BY <1>1 DEF Started, ReportTrue
<1>2. CASE ini # NoSection
  <2>1. ini \in Sections
    BY <1>2 DEF TypeInv, TypeOK
  <2>2. PICK c, e : c = LoadRt(ini, env) /\ e = ApplyInProcess(AsLoaded, c, locked, granted)
    OBVIOUS
  <2>3. svc' = IF StatusRaises(c, unread) THEN Down
               ELSE [up |-> TRUE, eff |-> e, cfg |-> c,
                     ok |-> StatusOk(e, c, unread),
                     granted |-> (c.mlockall => locked) /\ (IsDeadline(c) => granted),
                     unread |-> unread, rt |-> loaded.rt]
    BY <1>2, <2>2 DEF Started
  <2>4. CASE StatusRaises(c, unread)
    BY <2>3, <2>4 DEF ReportTrue, Down
  <2>5. CASE ~StatusRaises(c, unread)
    <3>1. /\ svc'.eff = e /\ svc'.cfg = c /\ svc'.rt = loaded.rt
          /\ svc'.ok = StatusOk(e, c, unread) /\ svc'.unread = unread
          /\ svc'.granted = ((c.mlockall => locked) /\ (IsDeadline(c) => granted))
      BY <2>3, <2>5
    <3>2. StatusOk(e, c, unread) =>
              /\ Word(e.policy) = c.sched_policy /\ e.priority = c.sched_priority
              /\ e.nice = c.nice
              /\ c.mlockall => e.locked \/ "locked" \in unread
      BY <2>1, <2>2, OkIsTrue
    <3>3. /\ (c.mlockall => locked) /\ (IsDeadline(c) => granted)
          /\ loaded.rt = EmitSystemd(c) /\ Sanitized(c) = c
          /\ unread \cap Counted = {} /\ ~c.sched_reset_on_fork
          => StatusOk(e, c, unread)
      BY <2>1, <2>2, <2>5, NoFalseAlarm
    <3> QED
      BY <3>1, <3>2, <3>3 DEF ReportTrue
  <2> QED
    BY <2>4, <2>5
<1> QED
  BY <1>1, <1>2

\* The report of a running service tells the truth, for every section, every
\* environment, whatever rt.conf systemd had loaded and whichever readings
\* fail (realtime.py, status_object): no mismatch without a cause, and none
\* overlooked in the policy, its priority and the nice value, nor in the
\* memory lock of a process whose VmLck can be read.
THEOREM ReportSafe == Spec => []ReportTrue
<1>1. Init => ReportTrue
  BY DEF Init, Down, ReportTrue
<1>2. TypeInv /\ ReportTrue /\ [Next]_vars => ReportTrue'
  <2> SUFFICES ASSUME TypeInv, ReportTrue, [Next]_vars PROVE ReportTrue'
    OBVIOUS
  <2>1. CASE svc' = svc
    BY <2>1 DEF ReportTrue
  <2>2. CASE Boots
    BY <2>2, StartedTrue DEF Boots
  <2>3. CASE svc' = Down
    BY <2>3 DEF ReportTrue, Down
  <2> QED
    BY <2>1, <2>2, <2>3 DEF Next, Install, Environment, vars, Begin, Refuse,
       Proceed, InstallGeneratedUnit, InstallPackagedUnit, InstallUser,
       InstallHardening, InstallRealtimeNone, InstallRealtimeInvalid,
       WriteRtDropin, WriteCut, VerifyPasses, VerifyFails, DryRunEnds, Reload, Enable,
       Start, SystemctlFails, ServiceRestarts, Killed, Reboot, BootStarts, Edit
<1> QED
  BY <1>1, <1>2, TypeInvariant, PTL DEF Spec

-----------------------------------------------------------------------------
(* The two copies of the checks.                                           *)

\* Options are texts, those that [DEFAULT] stands behind included.
LEMMA OptionsAreTexts ==
    ASSUME NEW cfg, IsConfig(cfg), NEW s
    PROVE  \A k \in DOMAIN Options(cfg, s) : IsText(Options(cfg, s)[k])
<1>1. DOMAIN <<>> = {}
  OBVIOUS
<1>2. CASE s \in DOMAIN cfg
  BY <1>2 DEF Options, IsConfig, Over
<1>3. CASE s \notin DOMAIN cfg
  BY <1>1, <1>3 DEF Options
<1> QED
  BY <1>2, <1>3

\* A range as the service puts it, and as the command line does.
LEMMA NumbersAgree ==
    ASSUME NEW v, IsText(v)
    PROVE  /\ v \in TextOf(Nat \ {0}) <=> v[1] = "int" /\ ~(v[2] <= 0)
           /\ v \in TextOf(Nat) <=> v[1] = "int" /\ ~(v[2] < 0)
           /\ v \in TextOf(5 .. 3600) <=> v[1] = "int" /\ ~(v[2] < 5 \/ v[2] > 3600)
<1>1. v = <<v[1], v[2]>> /\ (v[1] = "int" => v[2] \in Int)
  BY DEF IsText
<1>2. \A N : v \in TextOf(N) <=> v[1] = "int" /\ v[2] \in N
  BY <1>1 DEF TextOf
<1>3. CASE v[1] = "int"
  <2>1. \A n \in Int : /\ n \in Nat \ {0} <=> ~(n <= 0)
                       /\ n \in Nat <=> ~(n < 0)
                       /\ n \in 5 .. 3600 <=> ~(n < 5 \/ n > 3600)
    OBVIOUS
  <2> DEFINE n == v[2]
  <2>2. n \in Int
    BY <1>1, <1>3
  <2>3. /\ v \in TextOf(Nat \ {0}) <=> n \in Nat \ {0}
        /\ v \in TextOf(Nat) <=> n \in Nat
        /\ v \in TextOf(5 .. 3600) <=> n \in 5 .. 3600
    <3>1. v \in TextOf(Nat \ {0}) <=> n \in Nat \ {0}
      BY <1>2, <1>3
    <3>2. v \in TextOf(Nat) <=> n \in Nat
      BY <1>2, <1>3
    <3>3. v \in TextOf(5 .. 3600) <=> n \in 5 .. 3600
      BY <1>2, <1>3
    <3> QED
      BY <3>1, <3>2, <3>3
  <2> HIDE DEF n
  <2>4. /\ v \in TextOf(Nat \ {0}) <=> ~(n <= 0)
        /\ v \in TextOf(Nat) <=> ~(n < 0)
        /\ v \in TextOf(5 .. 3600) <=> ~(n < 5 \/ n > 3600)
    BY <2>1, <2>2, <2>3
  <2> QED
    BY <1>3, <2>4 DEF n
<1>4. CASE v[1] # "int"
  BY <1>2, <1>4
<1> QED
  BY <1>3, <1>4

\* [DEFAULT] and [dbus] are checked alike, answer by answer.
LEMMA DefaultAgrees ==
    ASSUME NEW o, \A k \in DOMAIN o : IsText(o[k])
    PROVE  ValidateDefaultSection(o) = AdminDefault(o)
<1>1. CheckIn(o, "logmaxsize", TextOf(Nat \ {0}))
      = Check(o, "logmaxsize", o.logmaxsize[1] = "int" /\ ~(o.logmaxsize[2] <= 0))
  BY NumbersAgree DEF CheckIn, Check
<1>2. CheckIn(o, "logmaxcount", TextOf(Nat))
      = Check(o, "logmaxcount", o.logmaxcount[1] = "int" /\ ~(o.logmaxcount[2] < 0))
  BY NumbersAgree DEF CheckIn, Check
<1>3. /\ CheckIn(o, "loglevel", Levels)
         = Check(o, "loglevel", o.loglevel \in Levels)
      /\ CheckIn(o, "logstdout", Booleans)
         = Check(o, "logstdout", o.logstdout \in Booleans)
  BY DEF CheckIn
<1> QED
  BY <1>1, <1>2, <1>3 DEF ValidateDefaultSection, AdminDefault

LEMMA DbusAgrees ==
    ASSUME NEW o, \A k \in DOMAIN o : IsText(o[k])
    PROVE  ValidateDbusSection(o) = AdminDbus(o)
<1> DEFINE flags == {CheckIn(o, k, Booleans) : k \in ContractFlags}
           type == CheckIn(o, "bus_type", OneOf({"system", "session"}))
           discovery == CheckIn(o, "discovery_enabled", Booleans)
           wait == Check(o, "drain_timeout_ms",
                         o.drain_timeout_ms[1] = "int" /\ ~(o.drain_timeout_ms[2] < 0))
           beat == Check(o, "heartbeat_interval_s",
                         /\ o.heartbeat_interval_s[1] = "int"
                         /\ ~(\/ o.heartbeat_interval_s[2] < 5
                              \/ o.heartbeat_interval_s[2] > 3600))
<1>1. CheckIn(o, "drain_timeout_ms", TextOf(Nat)) = wait
  BY NumbersAgree DEF CheckIn, Check
<1>2. CheckIn(o, "heartbeat_interval_s", TextOf(5 .. 3600)) = beat
  BY NumbersAgree DEF CheckIn, Check
<1>3. AdminDbus(o) = {type, wait, beat, discovery} \cup flags
  BY DEF AdminDbus
<1>4. ValidateDbusSection(o)
      = {type, CheckIn(o, "drain_timeout_ms", TextOf(Nat)),
         CheckIn(o, "heartbeat_interval_s", TextOf(5 .. 3600)), discovery}
            \cup flags
  BY DEF ValidateDbusSection
<1> HIDE DEF flags, type, discovery, wait, beat
<1> QED
  BY <1>1, <1>2, <1>3, <1>4

\* A key of any type, known or not, with any bounds and pattern.
LEMMA KeyAgrees ==
    ASSUME NEW v, NEW kspec
    PROVE  CheckUserKey(v, kspec) <=> CheckKey(v, kspec)
<1>1. CASE kspec.type = "int"
  BY <1>1 DEF CheckUserKey, CheckKey, InRange
<1>2. CASE kspec.type = "float"
  BY <1>2 DEF CheckUserKey, CheckKey, InRange
<1>3. CASE kspec.type = "bool"
  BY <1>3 DEF CheckUserKey, CheckKey
<1>4. CASE kspec.type \notin {"int", "float", "bool"}
  BY <1>4 DEF CheckUserKey, CheckKey
<1> QED
  BY <1>1, <1>2, <1>3, <1>4

\* Both make the same complaints about a section, in another order.
Complaints == {"raises", "error"}

LEMMA SectionAgrees ==
    ASSUME NEW cfg, NEW spec, NEW s
    PROVE  ValidateUserSection(cfg, spec, s) \cap Complaints
               = ValidateSection(cfg, spec, s) \cap Complaints
<1> DEFINE o == Options(cfg, s)
           keys == spec[s].keys
           Absent(k) == IF Readable(keys[k].default) THEN "ok" ELSE "raises"
           One(k) == Check(o, k, CheckUserKey(Read(o[k]), keys[k]))
           Answer(k) ==
               IF k \in DOMAIN o
               THEN Check(o, k, CheckKey(Read(o[k]), keys[k]))
               ELSE IF k \in Defaulted(cfg, spec, s) /\ ~Readable(keys[k].default)
               THEN "raises" ELSE "ok"
           U == ValidateUserSection(cfg, spec, s)
           A == ValidateSection(cfg, spec, s)
<1>1. U = {IF k \in DOMAIN o THEN "ok" ELSE "error" : k \in spec[s].required}
              \cup {Absent(k) : k \in Defaulted(cfg, spec, s)}
              \cup {One(k) : k \in DOMAIN keys}
  BY DEF ValidateUserSection
<1>2. A = {Answer(k) : k \in DOMAIN keys}
              \cup IF spec[s].required \subseteq DOMAIN o THEN {"ok"} ELSE {"error"}
  BY DEF ValidateSection
<1>3. Defaulted(cfg, spec, s) \subseteq DOMAIN keys \ DOMAIN o
  BY DEF Defaulted, Missing
<1>4. \A k \in DOMAIN keys \cap DOMAIN o : Answer(k) = One(k)
  BY KeyAgrees DEF Check
<1>5. \A k \in DOMAIN keys \ DOMAIN o :
          /\ One(k) = "ok"
          /\ Answer(k) = IF k \in Defaulted(cfg, spec, s) THEN Absent(k) ELSE "ok"
  BY DEF Check
<1> HIDE DEF One, Answer, Absent, U, A, keys
<1>6. ASSUME NEW x \in Complaints PROVE x \in U <=> x \in A
  <2>1. x # "ok"
    BY DEF Complaints
  <2>2. x \in {One(k) : k \in DOMAIN keys} =>
            x \in {Answer(k) : k \in DOMAIN keys}
    BY <1>4, <1>5, <2>1
  <2>3. x \in {Absent(k) : k \in Defaulted(cfg, spec, s)} =>
            x \in {Answer(k) : k \in DOMAIN keys}
    BY <1>3, <1>5
  <2>4. x \in {Answer(k) : k \in DOMAIN keys} =>
            \/ x \in {One(k) : k \in DOMAIN keys}
            \/ x \in {Absent(k) : k \in Defaulted(cfg, spec, s)}
    BY <1>3, <1>4, <1>5, <2>1
  <2>5. x \in {IF k \in DOMAIN o THEN "ok" ELSE "error" : k \in spec[s].required}
            <=> x \in IF spec[s].required \subseteq DOMAIN o THEN {"ok"} ELSE {"error"}
    BY <2>1
  <2> QED
    BY <1>1, <1>2, <2>2, <2>3, <2>4, <2>5
<1> QED
  BY <1>6 DEF U, A

\* A verdict depends on the complaints alone.
LEMMA SameVerdict ==
    ASSUME NEW S, NEW T, S \cap Complaints = T \cap Complaints
    PROVE  Verdict(S) = Verdict(T)
BY DEF Verdict, Complaints

LEMMA VerdictOfVerdicts ==
    ASSUME NEW S, NEW T
    PROVE  Verdict(S \cup T) = Verdict({Verdict(S)} \cup T)
BY DEF Verdict

\* For any schema and any file whose [dbus] the service can use: the command
\* line adds to the answers of the service that the text of [rt] is read.
LEMMA CopiesAgree ==
    ASSUME NEW cfg, IsConfig(cfg),
           Verdict(ApplyDbusConfig(Options(cfg, "dbus"))) = "ok",
           SchemaLoads(Options(cfg, "dbus"))
    PROVE  AdminValidate(cfg, SchemaOf(Options(cfg, "dbus")))
               = Verdict({ValidateConfig(cfg)} \cup ReadRt(cfg))
<1> DEFINE o == Options(cfg, "dbus")
           spec == SchemaOf(o)
           default == ValidateDefaultSection(cfg["DEFAULT"])
           dbus == ValidateDbusSection(o)
           user == UNION {ValidateUserSection(cfg, spec, s) :
                              s \in Checked(cfg, spec)}
           admin == UNION {ValidateSection(cfg, spec, s) :
                               s \in Checked(cfg, spec)}
           loads == {IF SchemaLoads(o) THEN "ok" ELSE "error"}
           rt == ReadRt(cfg)
<1>1. default = AdminDefault(cfg["DEFAULT"])
  BY DefaultAgrees DEF IsConfig
<1>2. dbus = AdminDbus(o)
  BY DbusAgrees, OptionsAreTexts
<1>3. ApplyDbusConfig(o) \cap Complaints = {}
  BY DEF Verdict, Complaints
<1>4. user \cap Complaints = admin \cap Complaints
  <2>1. ASSUME NEW x \in Complaints PROVE x \in user <=> x \in admin
    BY SectionAgrees
  <2> QED
    BY <2>1
<1>5. loads \cap Complaints = {}
  BY DEF Complaints
<1>6. ValidateConfig(cfg) = Verdict(ApplyDbusConfig(o) \cup default \cup dbus
                                        \cup loads \cup user)
  BY DEF ValidateConfig
<1>7. AdminValidate(cfg, spec) = Verdict(default \cup dbus \cup rt \cup admin)
  BY <1>1, <1>2 DEF AdminValidate
<1> HIDE DEF default, dbus, user, admin, loads, rt, spec, o
<1>8. (ApplyDbusConfig(o) \cup default \cup dbus \cup loads \cup user) \cap Complaints
          = (default \cup dbus \cup admin) \cap Complaints
  BY <1>3, <1>4, <1>5
<1>9. Verdict(ApplyDbusConfig(o) \cup default \cup dbus \cup loads \cup user)
          = Verdict(default \cup dbus \cup admin)
  BY <1>8, SameVerdict
<1>10. Verdict(default \cup dbus \cup rt \cup admin)
           = Verdict({Verdict(default \cup dbus \cup admin)} \cup rt)
  <2>1. default \cup dbus \cup rt \cup admin = (default \cup dbus \cup admin) \cup rt
    OBVIOUS
  <2> QED
    BY <2>1, VerdictOfVerdicts
<1> QED
  BY <1>6, <1>7, <1>9, <1>10 DEF spec, o, rt

\* What the service makes of the same file.
LEMMA ServiceAgrees ==
    ASSUME NEW cfg, NEW says,
           says = Verdict({ValidateConfig(cfg)} \cup ReadRt(cfg))
    PROVE  /\ says = "error" => SetupService(cfg) = "error"
           /\ says = "raises" => SetupService(cfg) # "ok"
           /\ says = "ok" => SetupService(cfg) = Verdict(SetupLogging(cfg["DEFAULT"]))
<1> DEFINE V == ValidateConfig(cfg)
           R == ReadRt(cfg)
           L == SetupLogging(cfg["DEFAULT"])
<1>1. V \in {"ok", "error", "raises"}
  BY DEF ValidateConfig, Verdict
<1>2. "error" \notin R
  BY DEF ReadRt, Check
<1>3. SetupService(cfg) = IF V # "ok" THEN V ELSE Verdict(L \cup R)
  BY DEF SetupService
<1>4. says = Verdict({V} \cup R)
  OBVIOUS
<1> HIDE DEF V, R, L
<1>5. says = "ok" => V = "ok" /\ (L \cup R) \cap Complaints = L \cap Complaints
  BY <1>1, <1>2, <1>4 DEF Verdict, Complaints
<1>6. says = "ok" => SetupService(cfg) = Verdict(L)
  BY <1>3, <1>5, SameVerdict
<1> QED
  BY <1>1, <1>2, <1>3, <1>4, <1>6 DEF Verdict, L

-----------------------------------------------------------------------------
(* What the file may hold.                                                 *)

\* Only texts get into the file, whatever the documents and edits.
FileInv ==
    /\ file = Garbled \/ IsConfig(file)
    /\ DOMAIN op = {"phase", "text"} /\ IsConfig(op.text)
    /\ doc \in Docs
    /\ pc = "writing" => reply \in Docs /\ Applicable(reply)

\* Where the service is when it is not writing.
Resting == {"starting", "setup", "fetching", "running", "closing", "exited"}

LEMMA EmptyIsConfig == IsConfig(Empty)
<1>1. DOMAIN <<>> = {}
  OBVIOUS
<1> QED
  BY <1>1 DEF Empty, IsConfig

LEMMA SetIsConfig ==
    ASSUME NEW cfg, IsConfig(cfg), NEW s, NEW k, NEW v, IsText(v)
    PROVE  IsConfig(Set(cfg, s, k, v))
<1> DEFINE old == IF s \in DOMAIN cfg THEN cfg[s] ELSE <<>>
           new == Over([y \in {k} |-> v], old)
<1>1. Set(cfg, s, k, v) = [x \in DOMAIN cfg \cup {s} |-> IF x # s THEN cfg[x] ELSE new]
  BY DEF Set
<1>2. \A y \in DOMAIN old : IsText(old[y])
  <2>1. DOMAIN <<>> = {}
    OBVIOUS
  <2> QED
    BY <2>1 DEF IsConfig
<1>3. \A y \in DOMAIN new : IsText(new[y])
  <2> HIDE DEF old
  <2> QED
    BY <1>2 DEF Over
<1> HIDE DEF new
<1> QED
  BY <1>1, <1>3 DEF IsConfig

LEMMA RemoveIsConfig ==
    ASSUME NEW cfg, IsConfig(cfg), NEW s \in DOMAIN cfg, NEW k
    PROVE  IsConfig(Remove(cfg, s, k))
BY DEF Remove, IsConfig

\* A document configparser accepts leaves only texts behind.
LEMMA WrittenIsConfig ==
    ASSUME NEW d \in Docs, Applicable(d)
    PROVE  IsConfig(Written(d))
<1> DEFINE Name(s, k) == CHOOSE x \in DOMAIN d[s] : Lower(x) = k
           Lines(s) == [k \in {Lower(x) : x \in DOMAIN d[s]} |->
                            Text(d[s][Name(s, k)])]
           all == [s \in DOMAIN d |-> Lines(s)]
<1>1. ASSUME NEW s \in DOMAIN d, NEW k \in DOMAIN Lines(s) PROVE IsText(Lines(s)[k])
  <2>1. Name(s, k) \in DOMAIN d[s]
    BY <1>1
  <2>2. IsJson(d[s][Name(s, k)]) /\ d[s][Name(s, k)][1] # "null"
    BY <2>1, InputAssumption DEF Applicable, Inputs
  <2>3. ASSUME NEW v, IsJson(v), v[1] # "null" PROVE IsText(Text(v))
    BY <2>3 DEF IsJson, IsText, IsPadded, Text, Bare, Kinds
  <2> QED
    BY <1>1, <2>2, <2>3
<1> HIDE DEF Lines
<1>2. IsConfig(Over(all, Empty))
  BY <1>1, EmptyIsConfig DEF IsConfig, Over, Empty
<1> QED
  BY <1>2 DEF Written, Lines

LEMMA PartialIsConfig ==
    ASSUME NEW text, IsConfig(text), NEW f \in Partial(text)
    PROVE  IsConfig(f)
BY EmptyIsConfig DEF Partial, IsConfig, Over, Empty

LEMMA LaidIsFile ==
    ASSUME NEW text, IsConfig(text), NEW f \in Laid(text)
    PROVE  f = Garbled \/ IsConfig(f)
BY DEF Laid

LEMMA WrittenReply ==
    ASSUME FileInv, pc = "writing"
    PROVE  IsConfig(Written(reply))
BY WrittenIsConfig DEF FileInv

\* The invariant holds of every behaviour, crashes and full disks included.
LEMMA FileInvariant == DeviceSpec => []FileInv
<1>1. DeviceInit => FileInv
  BY EmptyIsConfig, InputAssumption DEF Inputs, DeviceInit, FileInv, Idle
<1>2. FileInv /\ [DeviceNext]_deviceVars => FileInv'
  <2> SUFFICES ASSUME FileInv, [DeviceNext]_deviceVars PROVE FileInv'
    OBVIOUS
  <2> USE DEF FileInv
  <2>1. CASE UNCHANGED <<file, doc, op, reply>> /\ pc' \in {pc} \cup Resting
    BY <2>1 DEF Resting
  <2>2. CASE FetchedNew
    <3>1. reply' \in Docs /\ Applicable(reply')
      BY <2>2 DEF FetchedNew, AppliesNothing
    <3> QED
      BY <2>2, <3>1, EmptyIsConfig DEF FetchedNew
  <2>3. CASE WriteDone
    BY <2>3, WrittenReply, LaidIsFile DEF WriteDone
  <2>4. CASE WriteFails
    BY <2>4, WrittenReply, PartialIsConfig DEF WriteFails
  <2>5. CASE Crash
    BY <2>5, WrittenReply, PartialIsConfig DEF Crash
  <2>6. ASSUME NEW e \in Edits, CmdConfigSet(e) PROVE FileInv'
    <3>1. IsText(Bare(e[3]))
      BY InputAssumption DEF Inputs, IsText, IsPadded, Bare, Kinds
    <3>2. IsConfig(Set(file, e[1], e[2], Bare(e[3])))
      BY <2>6, <3>1, SetIsConfig DEF CmdConfigSet, OperatorReads
    <3> QED
      BY <2>6, <3>2 DEF CmdConfigSet, OperatorReads
  <2>7. ASSUME NEW e \in Edits, CmdConfigRemove(e) PROVE FileInv'
    <3>1. IsConfig(Remove(file, e[1], e[2]))
      BY <2>7, RemoveIsConfig DEF CmdConfigRemove, OperatorReads
    <3> QED
      BY <2>7, <3>1 DEF CmdConfigRemove, OperatorReads
  <2>8. CASE OperatorOpens
    BY <2>8, EmptyIsConfig DEF OperatorOpens
  <2>9. CASE OperatorWrites
    BY <2>9, LaidIsFile, EmptyIsConfig DEF OperatorWrites, Idle
  <2>10. CASE ServerChanges
    BY <2>10 DEF ServerChanges
  <2> QED
    BY <2>1, <2>2, <2>3, <2>4, <2>5, <2>6, <2>7, <2>8, <2>9, <2>10
       DEF DeviceNext, Service, Surroundings, Operator, deviceVars,
       SetupRefuses, SetupAccepts, ProviderRaises, ProviderSkips,
       Request, FetchFails, FetchedSame, FetchedUnusable,
       Exit, SystemdStarts, OperatorRestarts, ConfigSet, Resting
<1> QED
  BY <1>1, <1>2, PTL DEF DeviceSpec

\* What `config validate` says of every file a device may come to, with any
\* text in any of its options and for any schema, is what set-up of the service
\* comes to, up to the log that it does not look at (_validate_config,
\* _setup_logging in process.py; cli.py and ConfigManager in config.py).
THEOREM AgreeSafe == DeviceSpec => []AdminAgrees
<1>1. FileInv => AdminAgrees
  <2> SUFFICES ASSUME FileInv, file # Garbled,
                      NEW f \in {file} \cup
                          {Set(file, p[1], p[2], p[3]) : p \in Probes},
                      NEW says, says = AdminValidate(f, SchemaOf(Options(f, "dbus"))),
                      Verdict(ApplyDbusConfig(Options(f, "dbus"))) = "ok",
                      SchemaLoads(Options(f, "dbus"))
               PROVE  /\ says = "error" => Setup(f) = "error"
                      /\ says = "raises" => Setup(f) # "ok"
                      /\ says = "ok" => Setup(f) = Verdict(SetupLogging(f["DEFAULT"]))
    BY DEF AdminAgrees
  <2>1. IsConfig(f)
    BY SetIsConfig, InputAssumption DEF FileInv, Inputs
  <2>2. says = Verdict({ValidateConfig(f)} \cup ReadRt(f))
    BY <2>1, CopiesAgree
  <2>3. Setup(f) = SetupService(f)
    <3>1. f # Garbled
      <4>1. "DEFAULT" \in DOMAIN f /\ "DEFAULT" \notin DOMAIN Garbled
        BY <2>1 DEF IsConfig, Garbled
      <4> QED
        BY <4>1
    <3> QED
      BY <3>1 DEF Setup
  <2> QED
    BY <2>2, <2>3, ServiceAgrees
<1> QED
  BY <1>1, FileInvariant, PTL

-----------------------------------------------------------------------------
(* What a document becomes by way of the file.                             *)

\* The defaults of a section that spells them all out change nothing.
LEMMA NothingOver ==
    ASSUME NEW f, f = [k \in DOMAIN f |-> f[k]], NEW g, DOMAIN g = {}
    PROVE  Over(f, g) = f
<1>1. DOMAIN f \cup DOMAIN g = DOMAIN f
  OBVIOUS
<1>2. Over(f, g) = [k \in DOMAIN f |-> f[k]]
  BY <1>1 DEF Over
<1> QED
  BY <1>2

\* A document that reads back is written as it is, and an empty [DEFAULT].
LEMMA WrittenAsIs ==
    ASSUME NEW d \in Docs, ReadsBack(d)
    PROVE  /\ DOMAIN Written(d) = DOMAIN d \cup {"DEFAULT"}
           /\ Written(d)["DEFAULT"] = <<>>
           /\ \A s \in DOMAIN d : Written(d)[s] = d[s]
<1> DEFINE Name(s, k) == CHOOSE x \in DOMAIN d[s] : Lower(x) = k
           Lines(s) == [k \in {Lower(x) : x \in DOMAIN d[s]} |-> Text(d[s][Name(s, k)])]
           all == [s \in DOMAIN d |-> Lines(s)]
<1>1. ASSUME NEW s \in DOMAIN d PROVE Lines(s) = d[s]
  <2>1. \A x \in DOMAIN d[s] : Lower(x) = x /\ Text(d[s][x]) = d[s][x]
    BY DEF ReadsBack, Text, Bare, Verbatim
  <2>2. {Lower(x) : x \in DOMAIN d[s]} = DOMAIN d[s]
    BY <2>1
  <2>3. \A k \in DOMAIN d[s] : Name(s, k) = k
    BY <2>1
  <2>4. Lines(s) = [k \in DOMAIN d[s] |-> d[s][k]]
    <3> HIDE DEF Name
    <3>1. \A k \in DOMAIN d[s] : Text(d[s][Name(s, k)]) = d[s][k]
      BY <2>1, <2>3
    <3> QED
      BY <2>2, <3>1
  <2>5. d[s] = [k \in DOMAIN d[s] |-> d[s][k]]
    BY InputAssumption DEF Inputs
  <2> QED
    BY <2>4, <2>5
<1> HIDE DEF Lines
<1>2. Written(d) = Over(all, Empty)
  BY DEF Written, Lines
<1>3. "DEFAULT" \notin DOMAIN d
  BY DEF ReadsBack
<1> QED
  BY <1>1, <1>2, <1>3 DEF Over, Empty

\* Written, read, checked and compared, such a document is what it was: only
\* what does not read back makes the service write and restart once more.
THEOREM RoundTrip ==
    ASSUME NEW d \in Docs, ReadsBack(d)
    PROVE  LET cfg == Loaded(Written(d))
           IN CurrentReadable(cfg) /\ Current(cfg) = d
<1> DEFINE w == Written(d)
           spec == SchemaOf(Options(w, "dbus"))
           cfg == Loaded(w)
<1>1. /\ DOMAIN w = DOMAIN d \cup {"DEFAULT"} /\ w["DEFAULT"] = <<>>
      /\ \A s \in DOMAIN d : w[s] = d[s]
  BY WrittenAsIs
<1>2. /\ "DEFAULT" \notin DOMAIN d
      /\ \A s \in DOMAIN d : \A k \in DOMAIN d[s] : d[s][k][1] \in {"int", "half", "word"}
      /\ \A s \in Checked(w, spec) : Defaulted(w, spec, s) = {}
  BY DEF ReadsBack, Verbatim
<1>3. \A s \in DOMAIN d : d[s] = [k \in DOMAIN d[s] |-> d[s][k]]
  BY InputAssumption DEF Inputs
<1>4. DOMAIN <<>> = {}
  OBVIOUS
<1>5. cfg = Filled(w, spec)
  BY DEF Loaded
<1> HIDE DEF w, spec, cfg
<1>6. DOMAIN cfg = DOMAIN w
  BY <1>5 DEF Filled
<1>7. \A s \in DOMAIN d : cfg[s] = d[s]
  <2> SUFFICES ASSUME NEW s \in DOMAIN d PROVE cfg[s] = d[s]
    OBVIOUS
  <2>1. CASE s \notin Checked(w, spec)
    BY <1>1, <1>5, <2>1 DEF Filled
  <2>2. CASE s \in Checked(w, spec)
    <3> DEFINE g == [k \in Defaulted(w, spec, s) |-> spec[s].keys[k].default]
    <3>1. cfg[s] = Over(w[s], g)
      BY <1>1, <1>5, <2>2 DEF Filled
    <3>2. DOMAIN g = {}
      BY <1>2, <2>2
    <3> HIDE DEF g
    <3> QED
      BY <1>1, <1>3, <3>1, <3>2, NothingOver
  <2> QED
    BY <2>1, <2>2
<1>8. cfg["DEFAULT"] = <<>>
  BY <1>1, <1>5 DEF Filled, Checked
<1>9. \A s \in DOMAIN d : Options(cfg, s) = d[s]
  BY <1>1, <1>3, <1>4, <1>6, <1>7, <1>8, NothingOver DEF Options
<1>10. DOMAIN cfg \ {"DEFAULT"} = DOMAIN d
  BY <1>1, <1>2, <1>6
<1>11. CurrentReadable(cfg)
  BY <1>2, <1>9, <1>10 DEF CurrentReadable, AllReadable, Readable
<1>12. Current(cfg) = d
  <2>1. \A s \in DOMAIN d : [k \in DOMAIN d[s] |-> Read(d[s][k])] = d[s]
    <3> SUFFICES ASSUME NEW s \in DOMAIN d
                 PROVE  [k \in DOMAIN d[s] |-> Read(d[s][k])] = d[s]
      OBVIOUS
    <3>1. \A k \in DOMAIN d[s] : Read(d[s][k]) = d[s][k]
      BY <1>2 DEF Read
    <3> QED
      BY <1>3, <3>1
  <2>2. Current(cfg) = [s \in DOMAIN d |-> d[s]]
    <3> DEFINE Seen(s) == [k \in DOMAIN Options(cfg, s) |-> Read(Options(cfg, s)[k])]
    <3>1. \A s \in DOMAIN d : Seen(s) = d[s]
      BY <1>9, <2>1
    <3>2. Current(cfg) = [s \in DOMAIN d |-> Seen(s)]
      BY <1>10 DEF Current
    <3> HIDE DEF Seen
    <3> QED
      BY <3>1, <3>2
  <2>3. d = [s \in DOMAIN d |-> d[s]]
    BY InputAssumption DEF Inputs
  <2> QED
    BY <2>2, <2>3
<1> QED
  BY <1>11, <1>12 DEF cfg, w

\* A step of a settled device, that leaves the document and the command alone.
LEMMA SettledStep ==
    ASSUME FileInv, mishaps \in Nat, Settled, DeviceNext,
           doc' = doc, op' = op, ~(edited' /\ mem' # mem)
    PROVE  Settled' /\ (pc' \in {"closing", "exited"} =>
                            pc \in {"closing", "exited"} \/ mishaps' < mishaps)
<1>1. doc \in Docs /\ Sound(doc) /\ file = Written(doc) /\ op.phase = "idle"
  BY DEF FileInv, Settled
<1>2. Setup(file) = "ok" /\ ~Fails(Loaded(file))
  BY <1>1 DEF Sound, Accepted
<1>3. CurrentReadable(Loaded(file)) /\ Current(Loaded(file)) = doc
  BY <1>1, RoundTrip DEF Sound
<1>4. pc # "writing" /\ (pc \in {"setup", "fetching"} => mem = Loaded(file))
  BY DEF Settled
<1> USE <1>1, <1>2, <1>4 DEF Settled
<1>5. CASE SetupRefuses \/ ProviderRaises
  BY <1>5 DEF SetupRefuses, ProviderRaises
<1>6. CASE SetupAccepts
  BY <1>6 DEF SetupAccepts
<1>7. CASE ProviderSkips \/ Request \/ FetchFails \/ FetchedSame \/ FetchedUnusable
  BY <1>7 DEF ProviderSkips, Request, FetchFails, FetchedSame, FetchedUnusable
<1>8. CASE FetchedNew
  BY <1>3, <1>8 DEF FetchedNew
<1>9. CASE WriteDone \/ WriteFails
  BY <1>9 DEF WriteDone, WriteFails
<1>10. CASE Exit \/ SystemdStarts
  BY <1>10 DEF Exit, SystemdStarts
<1>11. CASE Operator
  BY <1>11 DEF Operator, OperatorOpens, OperatorWrites
<1>12. CASE OperatorRestarts \/ Crash
  BY <1>12 DEF OperatorRestarts, Crash, Mishap
<1>13. CASE ServerChanges
  BY <1>13 DEF ServerChanges
<1>14. ASSUME NEW e \in Edits, ConfigSet(e) PROVE Settled' /\ pc' = pc
  BY <1>14 DEF ConfigSet
<1>15. ASSUME NEW e \in Edits, CmdConfigSet(e) \/ CmdConfigRemove(e) PROVE FALSE
  <2>1. op'.phase = "read"
    BY <1>15 DEF CmdConfigSet, CmdConfigRemove, OperatorReads
  <2> QED
    BY <2>1
<1>16. CASE Service
  BY <1>5, <1>6, <1>7, <1>8, <1>9, <1>10, <1>16 DEF Service
<1>17. CASE Surroundings
  BY <1>9, <1>12, <1>13, <1>14, <1>15, <1>17 DEF Surroundings
<1> QED
  BY <1>11, <1>16, <1>17 DEF DeviceNext

\* What a device has settled on lasts: only the server, or somebody who edits
\* the configuration, makes the service write the file again or restart
\* (HttpConfigMiddleware.setup compares what it fetched with what it read).
THEOREM SettledLasts == DeviceSpec => StaysSettled
<1>1. DeviceSpec => [](mishaps \in Nat)
  <2>1. DeviceInit => mishaps \in Nat
    BY MishapAssumption DEF DeviceInit
  <2>2. mishaps \in Nat /\ [DeviceNext]_deviceVars => (mishaps \in Nat)'
    BY DEF DeviceNext, Service, Operator, Surroundings, deviceVars, Mishap,
       SetupRefuses, SetupAccepts, ProviderRaises, ProviderSkips, Request,
       FetchFails, FetchedSame, FetchedUnusable, FetchedNew, WriteDone, WriteFails,
       Exit, SystemdStarts, OperatorRestarts, Crash, ServerChanges, ConfigSet,
       CmdConfigSet, CmdConfigRemove, OperatorReads, OperatorOpens, OperatorWrites
  <2> QED
    BY <2>1, <2>2, PTL DEF DeviceSpec
<1> DEFINE Lasts == \/ Settled' /\ (pc' \in {"closing", "exited"} =>
                              pc \in {"closing", "exited"} \/ mishaps' < mishaps)
                    \/ doc' # doc \/ op' # op \/ (edited' /\ mem' # mem)
<1>2. FileInv /\ mishaps \in Nat /\ [DeviceNext]_deviceVars
          => [Settled => Lasts]_deviceVars
  BY SettledStep
<1> QED
  BY <1>1, <1>2, FileInvariant, PTL DEF DeviceSpec, StaysSettled

LEMMA AloneInvariant == DeviceSpec => []WritesAlone
<1>1. DeviceInit => WritesAlone
  BY DEF DeviceInit, WritesAlone
<1>2. WritesAlone /\ [DeviceNext]_deviceVars => WritesAlone'
  <2> SUFFICES ASSUME WritesAlone, [DeviceNext]_deviceVars,
                      pc' = "writing", ~spoilt'
               PROVE  file' = Empty /\ op'.phase # "open"
    BY DEF WritesAlone
  <2> USE DEF WritesAlone
  <2>1. CASE FetchedNew
    BY <2>1 DEF FetchedNew
  <2>2. CASE Operator
    BY <2>2 DEF Operator, OperatorOpens, OperatorWrites
  <2>3. CASE Surroundings
    BY <2>3 DEF Surroundings, WriteFails, OperatorRestarts, Crash, ServerChanges,
                ConfigSet, CmdConfigSet, CmdConfigRemove, OperatorReads
  <2>4. CASE Service /\ ~FetchedNew
    BY <2>4 DEF Service, SetupRefuses, SetupAccepts, ProviderRaises, ProviderSkips,
                Request, FetchFails, FetchedSame, FetchedUnusable, WriteDone,
                Exit, SystemdStarts
  <2>5. CASE UNCHANGED deviceVars
    BY <2>5 DEF deviceVars
  <2> QED
    BY <2>1, <2>2, <2>3, <2>4, <2>5 DEF DeviceNext
<1> QED
  BY <1>1, <1>2, PTL DEF DeviceSpec

\* A document costs one restart: once a sound one is written with nobody in
\* between (HttpConfigMiddleware.setup), the device has settled on it, and what
\* it settled on lasts (SettledLasts).
THEOREM WritingSettles == DeviceSpec => WriteSettles
<1> DEFINE Through == /\ pc = "writing" /\ pc' = "closing" /\ op.phase = "idle"
                      /\ ~spoilt /\ reply = doc /\ Sound(doc)
<1>1. WritesAlone /\ [DeviceNext]_deviceVars => [Through => Settled']_deviceVars
  <2> SUFFICES ASSUME WritesAlone, DeviceNext, Through
               PROVE  Settled'
    OBVIOUS
  <2>1. WriteDone
    BY DEF DeviceNext, Service, Operator, Surroundings,
       SetupRefuses, SetupAccepts, ProviderRaises, ProviderSkips, Request,
       FetchFails, FetchedSame, FetchedUnusable, FetchedNew, WriteFails,
       Exit, SystemdStarts, OperatorRestarts, Crash, ServerChanges, ConfigSet,
       CmdConfigSet, CmdConfigRemove, OperatorReads, OperatorOpens, OperatorWrites
  <2>2. file' = Written(doc)
    BY <2>1 DEF WriteDone, Laid, WritesAlone
  <2>3. doc' = doc /\ op' = op /\ pc' = "closing"
    BY <2>1 DEF WriteDone
  <2> QED
    BY <2>2, <2>3 DEF Settled
<1> QED
  BY <1>1, AloneInvariant, PTL DEF DeviceSpec, WriteSettles
=============================================================================
