-------------------------- MODULE GpioLines_proof --------------------------
(***************************************************************************)
(* Proofs about GpioLines for any lines, names, [gpio] sections and queue: *)
(* that a line has one role, that no change of a line is lost between the  *)
(* kernel's queue and the signal, and what closing leaves on the outputs.  *)
(***************************************************************************)
EXTENDS GpioLines, WellFoundedInduction, TLAPS

-----------------------------------------------------------------------------
(* Queues of lines.                                                        *)

LEMMA EmptyQueue == ASSUME NEW S PROVE <<>> \in Seq(S) /\ ToSet(<<>>) = {} /\ Len(<<>>) = 0
BY DEF ToSet

LEMMA HeadAndTail ==
    ASSUME NEW S, NEW s \in Seq(S), s # <<>>
    PROVE  /\ Head(s) \in S /\ Tail(s) \in Seq(S)
           /\ Len(Tail(s)) = Len(s) - 1 /\ Len(s) \in Nat \ {0}
           /\ ToSet(s) = {Head(s)} \cup ToSet(Tail(s))
<1>1. /\ Head(s) \in S /\ Tail(s) \in Seq(S)
      /\ Len(Tail(s)) = Len(s) - 1 /\ Len(s) \in Nat \ {0}
      /\ Head(s) = s[1]
      /\ \A i \in 1 .. Len(s) - 1 : Tail(s)[i] = s[i + 1]
  OBVIOUS
<1>2. DOMAIN s = 1 .. Len(s) /\ DOMAIN Tail(s) = 1 .. Len(s) - 1
  BY <1>1
<1>3. \A i \in 2 .. Len(s) : i - 1 \in DOMAIN Tail(s) /\ Tail(s)[i - 1] = s[i]
  BY <1>1, <1>2
<1>4. \A i \in DOMAIN s : i = 1 \/ i \in 2 .. Len(s)
  BY <1>1, <1>2
<1>5. \A i \in DOMAIN Tail(s) : i + 1 \in DOMAIN s /\ 1 \in DOMAIN s
  BY <1>1, <1>2
<1>6. 1 \in DOMAIN s
  BY <1>1, <1>2
<1>7. ToSet(s) \subseteq {Head(s)} \cup ToSet(Tail(s))
  <2> SUFFICES ASSUME NEW i \in DOMAIN s
               PROVE  s[i] \in {Head(s)} \cup ToSet(Tail(s))
    BY DEF ToSet
  <2>1. CASE i = 1
    BY <1>1, <2>1
  <2>2. CASE i \in 2 .. Len(s)
    BY <1>3, <2>2 DEF ToSet
  <2> QED
    BY <1>4, <2>1, <2>2
<1>8. {Head(s)} \cup ToSet(Tail(s)) \subseteq ToSet(s)
  BY <1>1, <1>2, <1>5, <1>6 DEF ToSet
<1> QED
  BY <1>1, <1>7, <1>8

LEMMA Appended ==
    ASSUME NEW S, NEW s \in Seq(S), NEW e \in S
    PROVE  /\ Append(s, e) \in Seq(S) /\ Len(Append(s, e)) = Len(s) + 1
           /\ ToSet(Append(s, e)) = ToSet(s) \cup {e}
<1> DEFINE t == Append(s, e)
<1>1. /\ t \in Seq(S) /\ Len(t) = Len(s) + 1 /\ Len(s) \in Nat
      /\ \A i \in 1 .. Len(s) : t[i] = s[i]
      /\ t[Len(s) + 1] = e
  OBVIOUS
<1>2. DOMAIN s = 1 .. Len(s) /\ DOMAIN t = 1 .. Len(s) + 1
  BY <1>1
<1> HIDE DEF t
<1>3. \A i \in DOMAIN t : i \in DOMAIN s \/ i = Len(s) + 1
  BY <1>1, <1>2
<1>4. DOMAIN s \subseteq DOMAIN t /\ Len(s) + 1 \in DOMAIN t
  BY <1>1, <1>2
<1>5. ToSet(t) \subseteq ToSet(s) \cup {e}
  BY <1>1, <1>2, <1>3 DEF ToSet
<1>6. ToSet(s) \cup {e} \subseteq ToSet(t)
  BY <1>1, <1>2, <1>4 DEF ToSet
<1> QED
  BY <1>1, <1>5, <1>6 DEF t

LEMMA OfTheSet == ASSUME NEW S, NEW s \in Seq(S) PROVE ToSet(s) \subseteq S
BY DEF ToSet

\* The kernel's queue keeps the edge that came last.
LEMMA Queued ==
    ASSUME NEW S, edges \in Seq(S), Len(edges) <= QueueSize, NEW o \in S
    PROVE  /\ Queue(o) \in Seq(S) /\ Len(Queue(o)) <= QueueSize
           /\ o \in ToSet(Queue(o))
<1>0. Len(edges) \in Nat /\ QueueSize \in Nat \ {0}
  BY QueueAssumption
<1>1. CASE Len(edges) < QueueSize
  BY <1>0, <1>1, Appended DEF Queue
<1>2. CASE ~(Len(edges) < QueueSize)
  <2>1. edges # <<>>
    BY <1>0, <1>2, EmptyQueue
  <2> DEFINE rest == Tail(edges)
  <2>2. rest \in Seq(S) /\ Len(rest) = Len(edges) - 1
    BY <2>1, HeadAndTail
  <2>3. Queue(o) = Append(rest, o)
    BY <1>2 DEF Queue
  <2> HIDE DEF rest
  <2>4. /\ Append(rest, o) \in Seq(S) /\ Len(Append(rest, o)) = Len(rest) + 1
        /\ ToSet(Append(rest, o)) = ToSet(rest) \cup {o}
    BY <2>2, Appended
  <2> QED
    BY <1>0, <2>2, <2>3, <2>4
<1> QED
  BY <1>1, <1>2

-----------------------------------------------------------------------------
(* [gpio] into line sets.                                                  *)

\* A set of positions in a list has a last one.
LEMMA LastOne ==
    ASSUME NEW n \in Nat, NEW S, S \subseteq 1 .. n, S # {}
    PROVE  Max(S) \in S
<1> DEFINE T == {n - i : i \in S}
<1>1. T \subseteq Nat /\ T # {}
  <2>1. \A i \in S : n - i \in Nat
    OBVIOUS
  <2> QED
    BY <2>1
<1>2. PICK x \in T : \A y \in T : ~(<<y, x>> \in OpToRel(<, Nat))
  <2> HIDE DEF T
  <2> QED
    BY <1>1, WFMin, NatLessThanWellFounded, Zenon
<1>3. \A y \in T : ~(y < x)
  BY <1>1, <1>2 DEF OpToRel
<1>4. PICK i \in S : x = n - i
  OBVIOUS
<1>5. \A j \in S : i >= j
  <2> SUFFICES ASSUME NEW j \in S PROVE i >= j
    OBVIOUS
  <2>1. n - j \in T /\ i \in Int /\ j \in Int
    OBVIOUS
  <2> QED
    BY <1>3, <1>4, <2>1
<1> QED
  BY <1>5 DEF Max

LEMMA ResolvesToLines ==
    ASSUME config \in Configs
    PROVE  /\ \A refs : ResolveAll(refs) \subseteq Offsets
           /\ \A r, s : ResolveAll(r \cup s) = ResolveAll(r) \cup ResolveAll(s)
<1>1. \A ref : Resolve(ref) \subseteq Offsets
  BY DEF Resolve, LineMap
<1> QED
  BY <1>1 DEF ResolveAll

LEMMA DefaultsAreValues ==
    ASSUME config \in Configs
    PROVE  /\ Defaults \in [Offsets -> Values \cup {"none"}]
           /\ \A o \in Offsets \ Outputs : Defaults[o] = "none"
<1> DEFINE dv == config.default_values
<1>1. dv \in Seq((Offsets \cup Aliases) \X Values)
  BY ConfigAssumption
<1>2. Len(dv) \in Nat /\ DOMAIN dv = 1 .. Len(dv)
  BY <1>1
<1>3. \A i \in DOMAIN dv : dv[i][2] \in Values
  BY <1>1
<1>4. ASSUME NEW o \in Offsets, Entries(o) # {}
      PROVE  dv[Max(Entries(o))][2] \in Values
  <2>1. Entries(o) \subseteq 1 .. Len(dv)
    BY <1>2 DEF Entries
  <2>2. Max(Entries(o)) \in DOMAIN dv
    BY <1>2, <1>4, <2>1, LastOne
  <2> QED
    BY <1>3, <2>2
<1> HIDE DEF dv
<1>5. Defaults = [o \in Offsets |-> IF o \notin Outputs \/ Entries(o) = {} THEN "none"
                                    ELSE dv[Max(Entries(o))][2]]
  BY DEF Defaults, dv
<1> QED
  BY <1>4, <1>5

-----------------------------------------------------------------------------
(* The inductive invariant: where the service stands, and where the last   *)
(* change of each watched line is.                                         *)

\* Before setup() there is nothing to watch or to release; the task that sleeps
\* or reads has the request, and the close that awaits it keeps it.
Course ==
    /\ phase = "setup" => /\ ~held /\ watch = "none" /\ edges = <<>>
                          /\ watched = {} /\ outputs = {} /\ missed = {}
    /\ phase = "starting" => held /\ watch = "none"
    /\ held => phase \in {"starting", "running", "closing"}
    /\ watch = "reading" => phase = "running"
    /\ watch \in {"asleep", "reading"} => held /\ phase \in {"running", "closing"}
    /\ watch # "reading" => batch = <<>>

\* The value that the next signal of a line will carry, or that the last carried.
Known(o) == IF watch = "reading" /\ reads[o] # "none" THEN reads[o] ELSE reported[o]

\* A watched line has an edge in the kernel's queue or in the batch, or its
\* value is known, or a later edge of others pushed its own out.
Accounted ==
    config.edge = "both" /\ held /\ watch \in {"none", "asleep", "reading"} =>
        \A o \in watched \ missed :
            o \in ToSet(edges) \/ o \in ToSet(batch) \/ Known(o) = level[o]

IInv == TypeOK /\ Course /\ Accounted /\ OutputsReset

LEMMA InitInv == Init => IInv
<1> SUFFICES ASSUME Init PROVE IInv
  OBVIOUS
<1>1. TypeOK
  <2>1. <<>> \in Seq({}) /\ Len(<<>>) = 0
    OBVIOUS
  <2>2. edges \in Seq(watched) /\ batch \in Seq(watched) /\ Len(edges) <= QueueSize
    BY <2>1, QueueAssumption DEF Init
  <2>3. /\ Unread \in [Offsets -> Values \cup {"none"}] /\ default = Unread
        /\ reads = Unread /\ resetTo = Unread
    BY DEF Init, Unread
  <2>4. missed \subseteq watched /\ inputs \cup watched \cup outputs \subseteq Offsets
    BY DEF Init
  <2> QED
    BY <2>2, <2>3, <2>4 DEF Init, TypeOK
<1>2. Course
  BY DEF Init, Course
<1>3. Accounted
  BY DEF Init, Accounted
<1>4. OutputsReset
  BY DEF Init, OutputsReset
<1> QED
  BY <1>1, <1>2, <1>3, <1>4 DEF IInv

-----------------------------------------------------------------------------
(* Setting up.                                                             *)

\* The roles that setup() gives do not overlap, and every line has one.
LEMMA RolesGiven ==
    ASSUME config \in Configs
    PROVE  /\ Inputs \cup Watched \cup Outputs \subseteq Offsets
           /\ Inputs \cap Watched = {} /\ Inputs \cap Outputs = {}
           /\ Watched \cap Outputs = {}
           /\ Inputs \cup Watched \cup Outputs =
                  ResolveAll(config.lines \cup config.watch_lines \cup config.output_lines)
<1>1. ResolveAll(config.lines \cup config.watch_lines \cup config.output_lines) =
          ResolveAll(config.lines \cup config.watch_lines)
              \cup ResolveAll(config.output_lines)
  BY ResolvesToLines, Zenon
<1>2. ResolveAll(config.lines \cup config.watch_lines) =
          ResolveAll(config.lines) \cup ResolveAll(config.watch_lines)
  BY ResolvesToLines, Zenon
<1>3. \A refs : ResolveAll(refs) \subseteq Offsets
  BY ResolvesToLines
<1> QED
  BY <1>1, <1>2, <1>3 DEF Inputs, Watched, Outputs

LEMMA SetupStep == IInv /\ Setup => IInv'
<1> SUFFICES ASSUME IInv, Setup PROVE IInv'
  OBVIOUS
<1>1. /\ config \in Configs /\ config' = config
      /\ inputs' = Inputs /\ watched' = Watched /\ outputs' = Outputs
      /\ default' = Defaults /\ level' = RequestLines
      /\ held' = TRUE /\ reported' = level' /\ phase' = "starting"
      /\ edges = <<>> /\ batch = <<>> /\ missed = {} /\ watch = "none"
      /\ edges' = edges /\ batch' = batch /\ missed' = missed /\ watch' = watch
      /\ reads' = reads /\ resetTo' = resetTo
  BY DEF IInv, TypeOK, Course, Setup, task
<1>2. RequestLines \in [Offsets -> Values]
  BY <1>1, DefaultsAreValues DEF IInv, TypeOK, RequestLines, Values
<1>3. TypeOK'
  <2>1. /\ Defaults \in [Offsets -> Values \cup {"none"}]
        /\ \A o \in Offsets \ Outputs : Defaults[o] = "none"
    BY <1>1, DefaultsAreValues
  <2>2. ResolveAll(config.lines \cup config.watch_lines \cup config.output_lines)' =
            ResolveAll(config.lines \cup config.watch_lines \cup config.output_lines)
    BY <1>1 DEF ResolveAll, Resolve, LineMap
  <2>3. <<>> \in Seq(Watched) /\ Len(<<>>) <= QueueSize
    BY EmptyQueue, QueueAssumption
  <2> QED
    BY <1>1, <1>2, <2>1, <2>2, <2>3, RolesGiven DEF IInv, TypeOK
<1>4. Course'
  BY <1>1 DEF Course
<1>5. Accounted'
  BY <1>1 DEF Accounted, Known
<1>6. OutputsReset'
  BY <1>1 DEF OutputsReset
<1> QED
  BY <1>3, <1>4, <1>5, <1>6 DEF IInv

-----------------------------------------------------------------------------
(* Steps that leave the lines, their levels and both queues alone: only how *)
(* far the service and its task have come.                                 *)

Elsewhere == <<config, inputs, watched, outputs, default, level, edges, batch,
               reads, reported, missed, resetTo>>

LEMMA TypeKept ==
    ASSUME IInv, UNCHANGED Elsewhere, held' \in BOOLEAN, held' => held,
           phase' \in {"setup", "starting", "running", "closing", "stopping", "off"},
           watch' \in {"none", "asleep", "reading", "failed", "ended"}
    PROVE  TypeOK'
<1>1. ResolveAll(config.lines \cup config.watch_lines \cup config.output_lines)' =
          ResolveAll(config.lines \cup config.watch_lines \cup config.output_lines)
  BY DEF Elsewhere, ResolveAll, Resolve, LineMap
<1>2. /\ config' = config /\ inputs' = inputs /\ watched' = watched
      /\ outputs' = outputs /\ default' = default /\ level' = level
      /\ edges' = edges /\ batch' = batch /\ reads' = reads
      /\ reported' = reported /\ missed' = missed /\ resetTo' = resetTo
  BY DEF Elsewhere
<1> QED
  BY <1>1, <1>2 DEF IInv, TypeOK

\* The service starts, fails to start, begins to close, or ends.
LEMMA ServiceStep ==
    IInv /\ (SetupFails \/ StartDbus \/ StartDbusRaises \/ CloseLoop
             \/ WatchCancelled \/ CloseRaises \/ StopBus) => IInv'
<1> SUFFICES ASSUME IInv, SetupFails \/ StartDbus \/ StartDbusRaises \/ CloseLoop
                          \/ WatchCancelled \/ CloseRaises \/ StopBus
             PROVE  IInv'
  OBVIOUS
<1> DEFINE Progress == /\ UNCHANGED Elsewhere
                       /\ held' \in BOOLEAN /\ (held' => held)
                       /\ phase' \in {"starting", "running", "closing", "stopping", "off"}
                       /\ watch' \in {"none", "asleep", "reading", "failed", "ended"}
                       /\ Course' /\ OutputsReset'
<1> USE DEF Elsewhere, lines, task, history, IInv, Course, OutputsReset, TypeOK
<1>1. ASSUME SetupFails PROVE Progress
  BY <1>1 DEF SetupFails
<1>2. ASSUME StartDbus PROVE Progress
  BY <1>2 DEF StartDbus
<1>3. ASSUME StartDbusRaises PROVE Progress
  BY <1>3 DEF StartDbusRaises
<1>4. ASSUME CloseLoop PROVE Progress
  BY <1>4 DEF CloseLoop, LoopFree
<1>5. ASSUME WatchCancelled PROVE Progress
  BY <1>5 DEF WatchCancelled
<1>6. ASSUME CloseRaises PROVE Progress
  BY <1>6 DEF CloseRaises
<1>7. ASSUME StopBus PROVE Progress
  BY <1>7 DEF StopBus
<1>8. Progress
  BY <1>1, <1>2, <1>3, <1>4, <1>5, <1>6, <1>7
<1>9. TypeOK'
  BY <1>8, TypeKept
<1>10. Accounted'
  <2>1. (held /\ watch \in {"none", "asleep", "reading"})' =>
            /\ held /\ watch \in {"none", "asleep"} /\ watch' \in {"none", "asleep"}
    BY DEF SetupFails, StartDbus, StartDbusRaises, CloseLoop, WatchCancelled,
           CloseRaises, StopBus, LoopFree
  <2> QED
    BY <1>8, <2>1 DEF Accounted, Known
<1> QED
  BY <1>8, <1>9, <1>10
-----------------------------------------------------------------------------
(* The hardware and the watch task.                                        *)

LEMMA SameLines ==
    ASSUME config' = config
    PROVE  ResolveAll(config.lines \cup config.watch_lines \cup config.output_lines)' =
               ResolveAll(config.lines \cup config.watch_lines \cup config.output_lines)
BY DEF ResolveAll, Resolve, LineMap

\* A change on a line that is watched for both edges leaves an edge of it; of
\* another line at most the last edge goes, and that is counted.
LEMMA LevelChangeStep == ASSUME NEW o \in Offsets, IInv, LevelChange(o) PROVE IInv'
<1>1. /\ phase' = phase /\ config' = config /\ inputs' = inputs /\ watched' = watched
      /\ outputs' = outputs /\ default' = default /\ held' = held /\ watch' = watch
      /\ batch' = batch /\ reads' = reads /\ reported' = reported /\ resetTo' = resetTo
      /\ phase # "off" /\ o \notin outputs
      /\ missed' = (missed \cup ToSet(edges)) \ ToSet(edges')
  BY DEF LevelChange, lines, task
<1>2. /\ level \in [Offsets -> Values] /\ edges \in Seq(watched)
      /\ Len(edges) <= QueueSize /\ missed \subseteq watched
      /\ watched \subseteq Offsets
  BY DEF IInv, TypeOK
<1>3. /\ level' \in [Offsets -> Values]
      /\ \A p \in Offsets : p # o => level'[p] = level[p]
  BY <1>2 DEF LevelChange, Values
<1>4. edges' = edges \/ (o \in watched /\ edges' = Queue(o))
  BY DEF LevelChange
<1>5. /\ edges' \in Seq(watched) /\ Len(edges') <= QueueSize
  BY <1>2, <1>4, Queued
<1>6. missed' \subseteq watched
  BY <1>1, <1>2, OfTheSet
<1>7. TypeOK'
  BY <1>1, <1>3, <1>5, <1>6, SameLines DEF IInv, TypeOK
<1>8. Course'
  <2>1. phase = "setup" => edges' = <<>> /\ missed' = {}
    BY <1>1, <1>4, EmptyQueue DEF IInv, Course
  <2> QED
    BY <1>1, <2>1 DEF IInv, Course
<1>9. Accounted'
  <2> SUFFICES ASSUME config.edge = "both", held, watch \in {"none", "asleep", "reading"},
                      NEW p \in watched, p \notin missed'
               PROVE  p \in ToSet(edges') \/ p \in ToSet(batch) \/ Known(p) = level'[p]
    BY <1>1 DEF Accounted, Known
  <2>1. CASE p = o
    <3>1. edges' = Queue(o)
      BY <2>1, <1>2, <1>3 DEF LevelChange
    <3> QED
      BY <1>2, <2>1, <3>1, Queued
  <2>2. CASE p # o
    <3>1. level'[p] = level[p]
      BY <1>2, <1>3, <2>2
    <3>2. p \in ToSet(edges') \/ (p \notin missed /\ p \notin ToSet(edges))
      BY <1>1
    <3> QED
      BY <3>1, <3>2 DEF IInv, Accounted
  <2> QED
    BY <2>1, <2>2
<1>10. OutputsReset'
  BY <1>1, <1>2, <1>3 DEF IInv, TypeOK, OutputsReset
<1> QED
  BY <1>7, <1>8, <1>9, <1>10 DEF IInv

\* The task takes the queue: what was in it is in the batch.
LEMMA WaitEventsStep == IInv /\ WaitEvents => IInv'
<1> SUFFICES ASSUME IInv, WaitEvents PROVE IInv'
  OBVIOUS
<1>1. /\ phase' = phase /\ config' = config /\ inputs' = inputs /\ watched' = watched
      /\ outputs' = outputs /\ default' = default /\ held' = held /\ level' = level
      /\ reported' = reported /\ missed' = missed /\ resetTo' = resetTo
      /\ phase = "running" /\ watch = "asleep" /\ watch' = "reading"
      /\ batch' = edges /\ edges' = <<>> /\ reads' = Unread /\ batch = <<>>
  BY DEF WaitEvents, lines, history, IInv, Course
<1>2. Unread \in [Offsets -> Values \cup {"none"}] /\ \A o \in Offsets : Unread[o] = "none"
  BY DEF Unread
<1>3. /\ <<>> \in Seq(watched) /\ Len(<<>>) <= QueueSize /\ ToSet(<<>>) = {}
  BY EmptyQueue, QueueAssumption
<1>4. TypeOK'
  BY <1>1, <1>2, <1>3, SameLines DEF IInv, TypeOK
<1>5. Course'
  BY <1>1 DEF IInv, Course
<1>6. Accounted'
  <2> SUFFICES ASSUME config.edge = "both", held, NEW o \in watched, o \notin missed
               PROVE  o \in ToSet(batch') \/ Known(o)' = level[o]
    BY <1>1 DEF Accounted
  <2>1. o \in ToSet(edges) \/ reported[o] = level[o]
    BY <1>1, <1>3 DEF IInv, Accounted, Known
  <2>2. Known(o)' = reported[o]
    BY <1>1, <1>2 DEF Known, IInv, TypeOK
  <2> QED
    BY <1>1, <2>1, <2>2
<1>7. OutputsReset'
  BY <1>1 DEF IInv, Course, OutputsReset
<1> QED
  BY <1>4, <1>5, <1>6, <1>7 DEF IInv

\* The line of the edge that is taken from the batch is known from here on.
LEMMA ReadValueStep == IInv /\ ReadValue => IInv'
<1> SUFFICES ASSUME IInv, ReadValue PROVE IInv'
  OBVIOUS
<1>1. /\ phase' = phase /\ config' = config /\ inputs' = inputs /\ watched' = watched
      /\ outputs' = outputs /\ default' = default /\ held' = held /\ level' = level
      /\ edges' = edges /\ watch' = watch
      /\ reported' = reported /\ missed' = missed /\ resetTo' = resetTo
      /\ watch = "reading" /\ batch # <<>> /\ batch' = Tail(batch)
      /\ reads' = [reads EXCEPT ![Head(batch)] = level[Head(batch)]]
  BY DEF ReadValue, lines, history
<1>2. /\ batch \in Seq(watched) /\ watched \subseteq Offsets
      /\ reads \in [Offsets -> Values \cup {"none"}] /\ level \in [Offsets -> Values]
  BY DEF IInv, TypeOK
<1>3. /\ Head(batch) \in watched /\ Tail(batch) \in Seq(watched)
      /\ ToSet(batch) = {Head(batch)} \cup ToSet(Tail(batch))
  BY <1>1, <1>2, HeadAndTail
<1>4. /\ reads' \in [Offsets -> Values \cup {"none"}]
      /\ reads'[Head(batch)] = level[Head(batch)]
      /\ \A o \in Offsets : o # Head(batch) => reads'[o] = reads[o]
  BY <1>1, <1>2, <1>3
<1>5. TypeOK'
  BY <1>1, <1>3, <1>4, SameLines DEF IInv, TypeOK
<1>6. Course'
  BY <1>1 DEF IInv, Course
<1>7. Accounted'
  <2> SUFFICES ASSUME config.edge = "both", held, NEW o \in watched, o \notin missed
               PROVE  o \in ToSet(edges) \/ o \in ToSet(batch') \/ Known(o)' = level[o]
    BY <1>1 DEF Accounted
  <2>1. CASE o = Head(batch)
    <3>1. level[o] # "none"
      BY <1>2 DEF Values
    <3> QED
      BY <1>1, <1>4, <2>1, <3>1 DEF Known
  <2>2. CASE o # Head(batch)
    <3>1. o \in ToSet(edges) \/ o \in ToSet(batch) \/ Known(o) = level[o]
      BY <1>1 DEF IInv, Accounted
    <3>2. Known(o)' = Known(o)
      BY <1>1, <1>2, <1>4, <2>2 DEF Known
    <3> QED
      BY <1>1, <1>3, <2>2, <3>1, <3>2
  <2> QED
    BY <2>1, <2>2
<1>8. OutputsReset'
  BY <1>1 DEF IInv, OutputsReset
<1> QED
  BY <1>5, <1>6, <1>7, <1>8 DEF IInv

\* What is known is signalled.
LEMMA EmitChangesStep == IInv /\ EmitChanges => IInv'
<1> SUFFICES ASSUME IInv, EmitChanges PROVE IInv'
  OBVIOUS
<1>1. /\ phase' = phase /\ config' = config /\ inputs' = inputs /\ watched' = watched
      /\ outputs' = outputs /\ default' = default /\ held' = held /\ level' = level
      /\ edges' = edges /\ batch' = batch /\ reads' = reads /\ watch' = "asleep"
      /\ missed' = missed /\ resetTo' = resetTo
      /\ watch = "reading" /\ batch = <<>>
      /\ reported' = [o \in Offsets |-> IF reads[o] = "none" THEN reported[o]
                                                             ELSE reads[o]]
  BY DEF EmitChanges, lines
<1>2. /\ reads \in [Offsets -> Values \cup {"none"}] /\ watched \subseteq Offsets
      /\ reported \in [Offsets -> Values]
  BY DEF IInv, TypeOK
<1>3. /\ reported' \in [Offsets -> Values]
      /\ \A o \in watched : reported'[o] = Known(o)
  BY <1>1, <1>2 DEF Known
<1>4. TypeOK'
  BY <1>1, <1>3, SameLines DEF IInv, TypeOK
<1>5. Course'
  BY <1>1 DEF IInv, Course
<1>6. Accounted'
  BY <1>1, <1>3 DEF IInv, Accounted, Known
<1>7. OutputsReset'
  BY <1>1 DEF IInv, Course, OutputsReset
<1> QED
  BY <1>4, <1>5, <1>6, <1>7 DEF IInv

\* A task that failed knows nothing any more.
LEMMA WatchRaisesStep == IInv /\ WatchRaises => IInv'
<1> SUFFICES ASSUME IInv, WatchRaises PROVE IInv'
  OBVIOUS
<1>1. /\ phase' = phase /\ config' = config /\ inputs' = inputs /\ watched' = watched
      /\ outputs' = outputs /\ default' = default /\ held' = held /\ level' = level
      /\ edges' = edges /\ reads' = reads /\ reported' = reported
      /\ missed' = missed /\ resetTo' = resetTo
      /\ watch \in {"asleep", "reading"} /\ watch' = "failed" /\ batch' = <<>>
  BY DEF WatchRaises, lines, history
<1>2. TypeOK'
  BY <1>1, EmptyQueue, SameLines DEF IInv, TypeOK
<1>3. Course'
  BY <1>1 DEF IInv, Course
<1>4. Accounted'
  BY <1>1 DEF Accounted
<1>5. OutputsReset'
  BY <1>1 DEF IInv, OutputsReset
<1> QED
  BY <1>2, <1>3, <1>4, <1>5 DEF IInv

-----------------------------------------------------------------------------
(* D-Bus and the reset.                                                    *)

\* set_value() drives outputs, and those are not watched.
LEMMA SetValueStep ==
    ASSUME NEW o \in Offsets, NEW v \in Values, IInv, SetValue(o, v)
    PROVE  IInv'
<1>1. /\ phase' = phase /\ config' = config /\ inputs' = inputs /\ watched' = watched
      /\ outputs' = outputs /\ default' = default /\ held' = held /\ edges' = edges
      /\ watch' = watch /\ batch' = batch /\ reads' = reads /\ reported' = reported
      /\ missed' = missed /\ resetTo' = resetTo
      /\ held /\ o \in outputs /\ level' = [level EXCEPT ![o] = v]
  BY DEF SetValue, lines, task, history
<1>2. /\ level \in [Offsets -> Values] /\ watched \subseteq Offsets
      /\ watched \cap outputs = {}
  BY <1>1 DEF IInv, TypeOK
<1>3. /\ level' \in [Offsets -> Values]
      /\ \A p \in watched : level'[p] = level[p]
  BY <1>1, <1>2
<1>4. TypeOK'
  BY <1>1, <1>3, SameLines DEF IInv, TypeOK
<1>5. Course'
  BY <1>1 DEF IInv, Course
<1>6. Accounted'
  BY <1>1, <1>3 DEF IInv, Accounted, Known
<1>7. OutputsReset'
  BY <1>1 DEF IInv, Course, OutputsReset
<1> QED
  BY <1>4, <1>5, <1>6, <1>7 DEF IInv

LEMMA SetDefaultValueStep ==
    ASSUME NEW o \in Offsets, NEW v \in Values, IInv, SetDefaultValue(o, v)
    PROVE  IInv'
<1>1. /\ phase' = phase /\ config' = config /\ inputs' = inputs /\ watched' = watched
      /\ outputs' = outputs /\ held' = held /\ level' = level /\ edges' = edges
      /\ watch' = watch /\ batch' = batch /\ reads' = reads /\ reported' = reported
      /\ missed' = missed /\ resetTo' = resetTo
      /\ o \in outputs /\ default' = [default EXCEPT ![o] = v]
  BY DEF SetDefaultValue, lines, task, history
<1>2. default \in [Offsets -> Values \cup {"none"}]
  BY DEF IInv, TypeOK
<1>3. /\ default' \in [Offsets -> Values \cup {"none"}]
      /\ \A p \in Offsets \ outputs : default'[p] = default[p]
  BY <1>1, <1>2
<1>4. TypeOK'
  BY <1>1, <1>3, SameLines DEF IInv, TypeOK
<1>5. Course'
  BY <1>1 DEF IInv, Course
<1>6. Accounted'
  BY <1>1 DEF IInv, Accounted, Known
<1>7. OutputsReset'
  BY <1>1 DEF IInv, OutputsReset
<1> QED
  BY <1>4, <1>5, <1>6, <1>7 DEF IInv

\* An output that the kernel does not refuse is at its default, and the lines
\* are nobody's: set_value() raises from here on.
LEMMA ResetStep ==
    ASSUME NEW refused \in SUBSET outputs, IInv, Reset(refused)
    PROVE  IInv'
<1>1. /\ phase' = "stopping" /\ config' = config /\ inputs' = inputs
      /\ watched' = watched /\ outputs' = outputs /\ default' = default
      /\ held' = FALSE /\ edges' = edges /\ watch' = watch /\ batch' = batch
      /\ reads' = reads /\ reported' = reported /\ missed' = missed
      /\ watch \in {"none", "ended"}
      /\ level' = [o \in Offsets |-> IF o \in outputs \ refused THEN Default(o)
                                                                ELSE level[o]]
      /\ resetTo' = [o \in Offsets |-> IF o \in outputs \ refused THEN Default(o)
                                                                  ELSE "none"]
  BY DEF Reset, lines, task
<1>2. /\ level \in [Offsets -> Values] /\ outputs \subseteq Offsets
      /\ default \in [Offsets -> Values \cup {"none"}]
  BY DEF IInv, TypeOK
<1>3. \A o \in Offsets : Default(o) \in Values
  BY <1>2 DEF Default, Values
<1>4. /\ level' \in [Offsets -> Values] /\ resetTo' \in [Offsets -> Values \cup {"none"}]
      /\ \A o \in outputs : resetTo'[o] # "none" => level'[o] = resetTo'[o]
  BY <1>1, <1>2, <1>3
<1>5. TypeOK'
  BY <1>1, <1>4, SameLines DEF IInv, TypeOK
<1>6. Course'
  BY <1>1 DEF IInv, Course
<1>7. Accounted'
  BY <1>1 DEF Accounted
<1>8. OutputsReset'
  BY <1>1, <1>4 DEF OutputsReset
<1> QED
  BY <1>5, <1>6, <1>7, <1>8 DEF IInv

-----------------------------------------------------------------------------
(* The theorems.                                                           *)

LEMMA StutterStep == IInv /\ UNCHANGED vars => IInv'
<1> SUFFICES ASSUME IInv, UNCHANGED vars PROVE IInv'
  OBVIOUS
<1>1. UNCHANGED Elsewhere /\ phase' = phase /\ held' = held /\ watch' = watch
  BY DEF vars, Elsewhere
<1>2. TypeOK'
  BY <1>1, TypeKept DEF IInv, TypeOK
<1>3. Course' /\ Accounted' /\ OutputsReset'
  BY <1>1 DEF IInv, Course, Accounted, Known, OutputsReset, Elsewhere
<1> QED
  BY <1>2, <1>3 DEF IInv

LEMMA NextInv == IInv /\ [Next]_vars => IInv'
<1> SUFFICES ASSUME IInv, [Next]_vars PROVE IInv'
  OBVIOUS
<1>1. CASE Watch
  BY <1>1, WaitEventsStep, ReadValueStep, EmitChangesStep DEF Watch
<1>2. CASE \E o \in Offsets : LevelChange(o)
  BY <1>2, LevelChangeStep
<1>3. CASE \E o \in Offsets, v \in Values : SetValue(o, v) \/ SetDefaultValue(o, v)
  BY <1>3, SetValueStep, SetDefaultValueStep
<1>4. CASE \E refused \in SUBSET outputs : Reset(refused)
  BY <1>4, ResetStep
<1> QED
  BY <1>1, <1>2, <1>3, <1>4, SetupStep, ServiceStep, WatchRaisesStep, StutterStep
     DEF Next

\* The strengthened invariant holds in every behaviour, fair or not.
THEOREM InvCorrect == Spec => []IInv
BY InitInv, NextInv, PTL DEF Spec

\* A line has one role, and every line of [gpio] has one, whatever the lists
\* repeat under numbers and names.
THEOREM TypeCorrect == Spec => []TypeOK
<1>1. IInv => TypeOK
  BY DEF IInv
<1> QED
  BY <1>1, InvCorrect, PTL

\* No change of a watched line is lost, for any number of lines and queue of
\* edges: what is signalled is what the line is at once all edges are read,
\* unless the kernel dropped the last edge of that very line.
THEOREM ReportsSafe == Spec => []ReportedCurrent
<1>1. IInv => ReportedCurrent
  <2> SUFFICES ASSUME IInv, config.edge = "both", held, watch = "asleep", edges = <<>>,
                      NEW o \in watched \ missed
               PROVE  reported[o] = level[o]
    BY DEF ReportedCurrent
  <2>1. batch = <<>>
    BY DEF IInv, Course
  <2>2. ToSet(edges) = {} /\ ToSet(batch) = {}
    BY <2>1, EmptyQueue
  <2> QED
    BY <2>2 DEF IInv, Accounted, Known
<1> QED
  BY <1>1, InvCorrect, PTL

\* A close that gets to the reset leaves every output that the kernel took at
\* its default until the bus stops.
THEOREM ResetSafe == Spec => []OutputsReset
<1>1. IInv => OutputsReset
  BY DEF IInv
<1> QED
  BY <1>1, InvCorrect, PTL
=============================================================================
