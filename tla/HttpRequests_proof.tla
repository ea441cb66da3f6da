------------------------- MODULE HttpRequests_proof -------------------------
(***************************************************************************)
(* Proofs about HttpRequests for any requests, paths and retries: types    *)
(* and one report per token, a session that outlives the requests, and     *)
(* that the service implements Answers.                                    *)
(***************************************************************************)
EXTENDS HttpRequests, TLAPS

-----------------------------------------------------------------------------
(* The inductive invariant.                                                *)

\* A task that waits for its next attempt has one left.
AttemptLeft == \A t \in Tokens : stage[t] = "backoff" => tries[t] <= limit[t]

\* While close_loop() gathers, what runs is cancelled or came in since.
DrainCovers == phase = "draining" => Running \subseteq cancelled \cup late

\* close_loop() finds no request in the middle of a file.
WritesFree == \A t \in Tokens : stage[t] = "writing" => t \notin cancelled

IInv == /\ TypeOK /\ AttemptLeft /\ WritesFree
        /\ DrainCovers /\ SessionOutlivesRequests

Stages == Active \cup {"free", "completed", "cancelled", "lost"}

\* A service that is off has no request.
LEMMA InitInv == Init => IInv
<1> SUFFICES ASSUME Init PROVE IInv
  OBVIOUS
<1>1. Running = {}
  BY DEF Init, Running, Active
<1>2. /\ wants \in [Tokens -> Wishes]
      /\ limit \in [Tokens -> 0 .. MaxRetries]
      /\ tries \in [Tokens -> 0 .. MaxRetries + 1]
      /\ \A t \in Tokens : tries[t] <= limit[t] + 1
  BY RetriesAssumption DEF Init, Wishes
<1>3. TypeOK
  BY <1>1, <1>2 DEF Init, TypeOK
<1> QED
  BY <1>1, <1>3 DEF Init, IInv, AttemptLeft, WritesFree,
                    DrainCovers, SessionOutlivesRequests

-----------------------------------------------------------------------------
(* A step of one request.                                                  *)

\* What a step of request t's task leaves alone, and where it takes the task.
Goes(t, to) ==
    /\ stage' = [stage EXCEPT ![t] = to]
    /\ signals' = IF to = "completed" THEN [signals EXCEPT ![t] = @ + 1]
                                      ELSE signals
    /\ UNCHANGED <<phase, session, config, wants, late>>

\* Such a step keeps whatever concerns the set of running requests.
LEMMA GoesOn ==
    ASSUME IInv, NEW t \in Running, NEW to \in Stages \ {"free"}, Goes(t, to),
           cancelled' = cancelled \/ (to \notin Active /\ cancelled' = cancelled \ {t}),
           to \notin Active => t \notin cancelled'
    PROVE  /\ stage' \in [Tokens -> Stages]
           /\ cancelled' \subseteq Running'
           /\ signals' = [u \in Tokens |-> IF stage'[u] = "completed" THEN 1 ELSE 0]
           /\ DrainCovers' /\ SessionOutlivesRequests'
<1>1. stage \in [Tokens -> Stages] /\ t \in Tokens /\ stage[t] \in Active
  BY DEF IInv, TypeOK, Stages, Running
<1>2. /\ stage' \in [Tokens -> Stages] /\ stage'[t] = to
      /\ \A u \in Tokens \ {t} : stage'[u] = stage[u]
  BY <1>1 DEF Goes
<1>3. Running' = IF to \in Active THEN Running ELSE Running \ {t}
  BY <1>1, <1>2 DEF Running
<1>4. cancelled' \subseteq Running'
  BY <1>3 DEF IInv, TypeOK
<1>5. signals' = [u \in Tokens |-> IF stage'[u] = "completed" THEN 1 ELSE 0]
  <2>1. /\ signals = [u \in Tokens |-> IF stage[u] = "completed" THEN 1 ELSE 0]
        /\ signals[t] = 0
    BY <1>1 DEF IInv, TypeOK, Active
  <2> QED
    BY <1>1, <1>2, <2>1 DEF Goes
<1>6. DrainCovers' /\ SessionOutlivesRequests'
  BY <1>3 DEF IInv, DrainCovers, SessionOutlivesRequests, Goes
<1> QED
  BY <1>2, <1>4, <1>5, <1>6

\* A step that changes no more than that keeps the invariant.
LEMMA PlainStep ==
    ASSUME IInv, NEW t \in Running, NEW to \in Stages \ {"free"}, Goes(t, to),
           cancelled' = cancelled \/ (to \notin Active /\ cancelled' = cancelled \ {t}),
           to \notin Active => t \notin cancelled',
           to = "backoff" => tries[t] <= limit[t],
           to = "writing" => t \notin cancelled,
           UNCHANGED <<limit, tries>>,
           file' = file \/ \E p \in Paths : file' = [file EXCEPT ![p] = t]
    PROVE  IInv'
<1>1. t \in Tokens
  BY DEF Running
<1>2. file' \in [Paths -> Tokens \cup {"old", "partial"}]
  BY <1>1 DEF IInv, TypeOK
<1>3. AttemptLeft' /\ WritesFree'
  BY <1>1 DEF IInv, TypeOK, AttemptLeft, WritesFree, Goes
<1> QED
  BY <1>2, <1>3, GoesOn DEF IInv, TypeOK, Goes, Stages

\* Every step of a request's task keeps the invariant.
LEMMA RequestStep ==
    ASSUME IInv, NEW t \in Tokens, Request(t)
    PROVE  IInv'
<1> USE DEF Active, Stages
<1>1. CASE Refused(t)
  <2>1. t \in Running /\ t \notin cancelled /\ Goes(t, "completed")
    BY <1>1 DEF Refused, Runs, Running, Complete, Goes, task
  <2> QED
    BY <1>1, <2>1, PlainStep DEF Refused, task
<1>2. CASE Execute(t)
  <2>1. t \in Running /\ t \notin cancelled /\ Goes(t, "attempt")
    BY <1>2 DEF Execute, Runs, Running, Goes
  <2>2. /\ stage' \in [Tokens -> Stages]
        /\ cancelled' \subseteq Running'
        /\ signals' = [u \in Tokens |-> IF stage'[u] = "completed" THEN 1 ELSE 0]
        /\ DrainCovers' /\ SessionOutlivesRequests'
    BY <1>2, <2>1, GoesOn DEF Execute
  <2>3. config.retries \in 0 .. MaxRetries
    BY DEF IInv, TypeOK, Configs
  <2>4. /\ limit' \in [Tokens -> 0 .. MaxRetries]
        /\ tries' \in [Tokens -> 0 .. MaxRetries + 1]
        /\ \A u \in Tokens : tries'[u] <= limit'[u] + 1
    BY <1>2, <2>3, RetriesAssumption DEF IInv, TypeOK, Execute
  <2>5. AttemptLeft' /\ WritesFree'
    BY <1>2, <2>1 DEF IInv, TypeOK, AttemptLeft, WritesFree, Execute
  <2> QED
    BY <1>2, <2>2, <2>4, <2>5 DEF IInv, TypeOK, Execute
<1>3. CASE AttemptFails(t)
  <2> DEFINE to == IF MayRetry(t) THEN "backoff" ELSE "completed"
  <2>1. t \in Running /\ t \notin cancelled /\ Goes(t, to)
    BY <1>3 DEF AttemptFails, Runs, Running, Complete, Goes, task
  <2>2. to = "backoff" => tries[t] <= limit[t]
    BY DEF MayRetry
  <2> QED
    BY <1>3, <2>1, <2>2, PlainStep DEF AttemptFails, task
<1>4. CASE AttemptRaises(t)
  <2>1. t \in Running /\ t \notin cancelled /\ Goes(t, "completed")
    BY <1>4 DEF AttemptRaises, Runs, Running, Complete, Goes, task
  <2> QED
    BY <1>4, <2>1, PlainStep DEF AttemptRaises, task
<1>5. CASE Answered(t)
  <2> DEFINE to == IF wants[t].path = NoPath THEN "completed" ELSE "writing"
  <2>1. t \in Running /\ t \notin cancelled /\ Goes(t, to)
    BY <1>5 DEF Answered, Runs, Running, Complete, Goes, task
  <2> QED
    BY <1>5, <2>1, PlainStep DEF Answered, task
<1>6. CASE BackoffEnds(t)
  <2>1. t \in Running /\ t \notin cancelled /\ Goes(t, "attempt")
    BY <1>6 DEF BackoffEnds, Runs, Running, Goes
  <2>2. /\ stage' \in [Tokens -> Stages]
        /\ cancelled' \subseteq Running'
        /\ signals' = [u \in Tokens |-> IF stage'[u] = "completed" THEN 1 ELSE 0]
        /\ DrainCovers' /\ SessionOutlivesRequests'
    BY <1>6, <2>1, GoesOn DEF BackoffEnds
  <2>3. tries[t] <= limit[t] /\ limit[t] \in 0 .. MaxRetries /\ tries[t] \in Nat
    BY <1>6, RetriesAssumption DEF BackoffEnds, IInv, TypeOK, AttemptLeft
  <2>4. /\ tries' \in [Tokens -> 0 .. MaxRetries + 1]
        /\ \A u \in Tokens : tries'[u] <= limit'[u] + 1
    BY <1>6, <2>3, RetriesAssumption DEF IInv, TypeOK, BackoffEnds
  <2>5. AttemptLeft' /\ WritesFree'
    BY <1>6, <2>1 DEF IInv, TypeOK, AttemptLeft, WritesFree, BackoffEnds
  <2> QED
    BY <1>6, <2>2, <2>4, <2>5 DEF IInv, TypeOK, BackoffEnds
<1>7. CASE WriteAtomic(t)
  <2>1. t \in Running /\ t \notin cancelled /\ Goes(t, "completed")
    BY <1>7 DEF WriteAtomic, Running, Complete, Goes, task, IInv, WritesFree
  <2>2. file' = file \/ \E p \in Paths : file' = [file EXCEPT ![p] = t]
    <3>1. CASE wants[t].path \in Paths
      BY <1>7, <3>1 DEF WriteAtomic
    <3>2. CASE wants[t].path \notin Paths
      BY <1>7, <3>2 DEF WriteAtomic, IInv, TypeOK
    <3> QED
      BY <3>1, <3>2
  <2> QED
    BY <1>7, <2>1, <2>2, PlainStep DEF WriteAtomic, task
<1>8. CASE WriteFails(t)
  <2>1. t \in Running /\ t \notin cancelled /\ Goes(t, "completed")
    BY <1>8 DEF WriteFails, Running, Complete, Goes, task, IInv, WritesFree
  <2> QED
    BY <1>8, <2>1, PlainStep DEF WriteFails, task
<1>9. CASE Cancelled(t)
  <2>1. t \in Running /\ Goes(t, "cancelled")
    BY <1>9 DEF Cancelled, Goes, task, IInv, TypeOK
  <2> QED
    BY <1>9, <2>1, PlainStep DEF Cancelled, task
<1> QED
  BY <1>1, <1>2, <1>3, <1>4, <1>5, <1>6, <1>7, <1>8, <1>9 DEF Request

-----------------------------------------------------------------------------
(* The steps of the service.                                               *)

LEMMA ServiceStep ==
    IInv /\ (StartDbus \/ BuildSession \/ Closing \/ Crash
             \/ \E c \in Configs : ConfigSet(c)) => IInv'
<1> SUFFICES ASSUME IInv, StartDbus \/ BuildSession \/ Closing \/ Crash
                          \/ \E c \in Configs : ConfigSet(c)
             PROVE  IInv'
  OBVIOUS
<1> USE DEF IInv, AttemptLeft, WritesFree, DrainCovers,
            SessionOutlivesRequests, task
<1>1. CASE StartDbus
  BY <1>1 DEF StartDbus, TypeOK, Running
<1>2. CASE BuildSession
  BY <1>2 DEF BuildSession, TypeOK, Running
<1>3. CASE CloseLoop
  BY <1>3 DEF CloseLoop, LoopFree, TypeOK, Running
<1>4. CASE Drained
  BY <1>4 DEF Drained, TypeOK, Running
<1>5. CASE SessionDropped
  BY <1>5 DEF SessionDropped, TypeOK, Running
<1>6. CASE Ends
  <2>1. /\ stage' \in [Tokens -> Stages]
        /\ \A t \in Tokens : stage'[t] \notin Active
        /\ \A t \in Tokens : stage'[t] = "completed" <=> stage[t] = "completed"
    BY <1>6 DEF Ends, TypeOK, Running, Stages, Active
  <2>2. Running' = {} /\ AttemptLeft' /\ WritesFree'
    BY <1>6, <2>1 DEF Running, Active, Ends
  <2>3. signals' = [t \in Tokens |-> IF stage'[t] = "completed" THEN 1 ELSE 0]
    BY <1>6, <2>1 DEF Ends, TypeOK
  <2> QED
    BY <1>6, <2>1, <2>2, <2>3 DEF Ends, TypeOK, Stages
<1>7. ASSUME NEW c \in Configs, ConfigSet(c) PROVE IInv'
  BY <1>7 DEF ConfigSet, TypeOK, Running
<1> QED
  BY <1>1, <1>2, <1>3, <1>4, <1>5, <1>6, <1>7 DEF Closing, StopBus, Crash

LEMMA CallStep ==
    ASSUME IInv, NEW t \in Tokens, NEW wish \in Wishes, Call(t, wish)
    PROVE  IInv'
<1>1. /\ stage \in [Tokens -> Stages] /\ stage[t] = "free"
      /\ stage' = [stage EXCEPT ![t] = "spawned"]
  BY DEF IInv, TypeOK, Call, Stages
<1>2. /\ stage' \in [Tokens -> Stages] /\ stage'[t] = "spawned"
      /\ \A u \in Tokens \ {t} : stage'[u] = stage[u]
  BY <1>1 DEF Stages, Active
<1>3. Running' = Running \cup {t} /\ t \notin Running
  BY <1>1, <1>2 DEF Running, Active
<1>4. late \subseteq late' /\ late' \subseteq Tokens
  BY DEF Call, IInv, TypeOK
<1>5. phase \notin {"starting", "running"} => t \in late'
  BY DEF Call
<1>6. DrainCovers' /\ SessionOutlivesRequests'
  BY <1>3, <1>4, <1>5 DEF Call, IInv, DrainCovers, SessionOutlivesRequests
<1>7. AttemptLeft' /\ WritesFree'
  BY <1>1, <1>2 DEF Call, IInv, AttemptLeft, WritesFree
<1>8. signals' = [u \in Tokens |-> IF stage'[u] = "completed" THEN 1 ELSE 0]
  BY <1>1, <1>2 DEF Call, IInv, TypeOK
<1>9. wants' \in [Tokens -> Wishes] /\ cancelled' \subseteq Running'
  BY <1>3 DEF Call, IInv, TypeOK
<1> QED
  BY <1>2, <1>4, <1>6, <1>7, <1>8, <1>9 DEF Call, IInv, TypeOK, Stages

LEMMA NextInv == IInv /\ [Next]_vars => IInv'
<1> SUFFICES ASSUME IInv, [Next]_vars PROVE IInv'
  OBVIOUS
<1>1. CASE UNCHANGED vars
  BY <1>1 DEF vars, task, IInv, TypeOK, AttemptLeft, WritesFree, DrainCovers,
              SessionOutlivesRequests, Running
<1>2. ASSUME NEW t \in Tokens, Request(t) PROVE IInv'
  BY <1>2, RequestStep
<1>3. ASSUME NEW t \in Tokens, NEW wish \in Wishes, Call(t, wish) PROVE IInv'
  BY <1>3, CallStep
<1> QED
  BY <1>1, <1>2, <1>3, ServiceStep DEF Next

\* The strengthened invariant holds in every behaviour, fair or not.
THEOREM InvCorrect == Spec => []IInv
BY InitInv, NextInv, PTL DEF Spec

\* Every variable keeps its type; a token is reported once if its task came to
\* its end and otherwise never, and tried at most as often as [http] allowed
\* when it began, through closes, crashes and config_set().
THEOREM TypeCorrect == Spec => []TypeOK
<1>1. IInv => TypeOK
  BY DEF IInv
<1> QED
  BY <1>1, InvCorrect, PTL

\* close_loop() waits for every request accepted before it began: none of them
\* runs on once the session is closed.
THEOREM SessionSafe == Spec => []SessionOutlivesRequests
<1>1. IInv => SessionOutlivesRequests
  BY DEF IInv
<1> QED
  BY <1>1, InvCorrect, PTL

-----------------------------------------------------------------------------
(* Answers is implemented.                                                 *)

FateOf == [t \in Tokens |-> Fate(t)]
PathOf == [t \in Tokens |-> wants[t].path]

LEMMA StageFates ==
    /\ StageFate("free") = "new" /\ StageFate("completed") = "reported"
    /\ StageFate("cancelled") = "dropped" /\ StageFate("lost") = "dropped"
    /\ \A s \in Active : StageFate(s) = "accepted"
<1>1. StageFate("free") = "new"
  BY DEF StageFate, Active
<1>2. StageFate("completed") = "reported"
  BY DEF StageFate, Active
<1>3. StageFate("cancelled") = "dropped"
  BY DEF StageFate, Active
<1>4. StageFate("lost") = "dropped"
  BY DEF StageFate, Active
<1>5. ASSUME NEW s \in Active PROVE StageFate(s) = "accepted"
  <2>1. s # "free" /\ s # "completed"
    BY DEF Active
  <2> QED
    BY <2>1 DEF StageFate
<1> QED
  BY <1>1, <1>2, <1>3, <1>4, <1>5

\* No report is odd: the stage alone is a request's fate.
LEMMA FateIs == TypeOK => FateOf = [t \in Tokens |-> StageFate(stage[t])]
<1> SUFFICES ASSUME TypeOK, NEW t \in Tokens PROVE Fate(t) = StageFate(stage[t])
  BY DEF FateOf
<1>1. signals[t] = IF stage[t] = "completed" THEN 1 ELSE 0
  BY DEF TypeOK
<1> QED
  BY <1>1 DEF Fate

LEMMA FatesAre ==
    IInv /\ IInv' => /\ FateOf = [t \in Tokens |-> StageFate(stage[t])]
                     /\ (FateOf = [t \in Tokens |-> StageFate(stage[t])])'
<1>1. IInv => FateOf = [t \in Tokens |-> StageFate(stage[t])]
  BY FateIs DEF IInv
<1> QED
  BY <1>1, PTL

LEMMA InitAnswers == Init => A!Init
<1> SUFFICES ASSUME Init PROVE A!Init
  OBVIOUS
<1>1. FateOf = [t \in Tokens |-> "new"]
  BY InitInv, FateIs, StageFates DEF Init, IInv
<1> QED
  BY <1>1 DEF Init, A!Init, FateOf

\* What the step of a request does to it, and to the file it may write.
LEMMA RequestEffect ==
    ASSUME IInv, NEW t \in Tokens, Request(t)
    PROVE  /\ stage[t] \in Active
           /\ \E to \in Active \cup {"completed", "cancelled"} : Goes(t, to)
           /\ \/ UNCHANGED file
              \/ stage'[t] = "completed" /\ file' = [file EXCEPT ![wants[t].path] = t]
<1> USE DEF Active, Runs, Complete, Goes, task
<1>1. CASE Refused(t)
  BY <1>1 DEF Refused
<1>2. CASE Execute(t)
  BY <1>2 DEF Execute
<1>3. CASE AttemptFails(t)
  BY <1>3 DEF AttemptFails
<1>4. CASE AttemptRaises(t)
  BY <1>4 DEF AttemptRaises
<1>5. CASE Answered(t)
  BY <1>5 DEF Answered
<1>6. CASE BackoffEnds(t)
  BY <1>6 DEF BackoffEnds
<1>7. CASE WriteAtomic(t)
  BY <1>7 DEF WriteAtomic, IInv, TypeOK
<1>8. CASE WriteFails(t)
  BY <1>8 DEF WriteFails
<1>9. CASE Cancelled(t)
  BY <1>9 DEF Cancelled, IInv, TypeOK, Running
<1> QED
  BY <1>1, <1>2, <1>3, <1>4, <1>5, <1>6, <1>7, <1>8, <1>9 DEF Request

LEMMA RequestAnswers ==
    ASSUME IInv, IInv', NEW t \in Tokens, Request(t)
    PROVE  [A!Next]_(A!vars)
<1>1. stage[t] \in Active /\ stage \in [Tokens -> Stages]
  BY RequestEffect DEF IInv, TypeOK, Stages
<1>2. PICK to \in Active \cup {"completed", "cancelled"} : Goes(t, to)
  BY RequestEffect
<1>3. /\ FateOf = [u \in Tokens |-> StageFate(stage[u])]
      /\ FateOf' = [u \in Tokens |-> StageFate(stage'[u])]
  BY FatesAre
<1>4. FateOf[t] = "accepted"
  BY <1>1, <1>3, StageFates
<1>5. FateOf' = [u \in Tokens |-> IF u \in {t} THEN StageFate(to) ELSE FateOf[u]]
  BY <1>1, <1>2, <1>3 DEF Goes
<1>6. PathOf' = PathOf /\ PathOf[t] = wants[t].path
  BY <1>2 DEF Goes, PathOf
<1>7. stage'[t] = to
  BY <1>1, <1>2 DEF Goes
<1>8. CASE to \in Active
  <2>1. FateOf' = FateOf
    BY <1>3, <1>4, <1>5, <1>8, StageFates
  <2>2. file' = file
    BY <1>7, <1>8, RequestEffect DEF Active
  <2> QED
    BY <1>6, <2>1, <2>2 DEF A!vars, FateOf, PathOf
<1>9. CASE to = "completed"
  <2>1. FateOf' = A!Are({t}, "reported")
    BY <1>5, <1>9, StageFates DEF A!Are, FateOf
  <2>2. file' = file \/ (PathOf[t] # NoPath /\ file' = [file EXCEPT ![PathOf[t]] = t])
    <3>1. DOMAIN file = Paths /\ NoPath \notin Paths
      BY PathAssumption DEF IInv, TypeOK
    <3> QED
      BY <1>6, <3>1, RequestEffect DEF IInv, TypeOK
  <2>3. A!Report(t)
    BY <1>4, <1>6, <2>1, <2>2 DEF A!Report, FateOf, PathOf
  <2> QED
    BY <2>3 DEF A!Next
<1>10. CASE to = "cancelled"
  <2>1. FateOf' = A!Are({t}, "dropped")
    BY <1>5, <1>10, StageFates DEF A!Are, FateOf
  <2>2. {t} \in SUBSET A!Accepted
    BY <1>4 DEF A!Accepted, FateOf
  <2>3. file' = file
    BY <1>7, <1>10, RequestEffect
  <2>4. A!Drop
    BY <1>6, <2>1, <2>2, <2>3 DEF A!Drop, FateOf, PathOf
  <2> QED
    BY <2>4 DEF A!Next
<1> QED
  BY <1>2, <1>8, <1>9, <1>10

LEMMA CallAnswers ==
    ASSUME IInv, IInv', NEW t \in Tokens, NEW wish \in Wishes, Call(t, wish)
    PROVE  A!Next
<1>1. /\ stage[t] = "free" /\ stage' = [stage EXCEPT ![t] = "spawned"]
      /\ wants' = [wants EXCEPT ![t] = wish] /\ file' = file
  BY DEF Call
<1>2. stage \in [Tokens -> Stages] /\ wants \in [Tokens -> Wishes]
  BY DEF IInv, TypeOK, Stages
<1>3. /\ FateOf = [u \in Tokens |-> StageFate(stage[u])]
      /\ FateOf' = [u \in Tokens |-> StageFate(stage'[u])]
  BY FatesAre
<1>4. FateOf[t] = "new"
  BY <1>1, <1>3, StageFates
<1>5. FateOf' = A!Are({t}, "accepted")
  <2>1. StageFate("spawned") = "accepted"
    BY StageFates DEF Active
  <2>2. \A u \in Tokens : stage'[u] = IF u = t THEN "spawned" ELSE stage[u]
    BY <1>1, <1>2
  <2>3. FateOf' = [u \in Tokens |-> IF u \in {t} THEN "accepted" ELSE FateOf[u]]
    BY <1>3, <2>1, <2>2
  <2> QED
    BY <2>3 DEF A!Are, FateOf
<1>6. PathOf' = [PathOf EXCEPT ![t] = wish.path]
  BY <1>1, <1>2 DEF PathOf
<1>7. wish.path \in Paths \cup {NoPath}
  BY DEF Wishes
<1>8. A!Accept(t, wish.path)
  BY <1>1, <1>4, <1>5, <1>6 DEF A!Accept, FateOf, PathOf
<1> QED
  BY <1>7, <1>8 DEF A!Next

\* The end of a run, by a close or a crash, drops what still runs.
LEMMA EndsAnswers ==
    ASSUME IInv, IInv', Ends
    PROVE  A!Next
<1>1. stage \in [Tokens -> Stages]
  BY DEF IInv, TypeOK, Stages
<1>2. /\ FateOf = [u \in Tokens |-> StageFate(stage[u])]
      /\ FateOf' = [u \in Tokens |-> StageFate(stage'[u])]
  BY FatesAre
<1>3. A!Accepted = Running
  <2>1. \A u \in Tokens : StageFate(stage[u]) = "accepted" <=> stage[u] \in Active
    BY <1>1, StageFates DEF Stages
  <2> QED
    BY <1>2, <2>1 DEF A!Accepted, FateOf, Running
<1>4. FateOf' = [u \in Tokens |-> IF u \in Running THEN "dropped" ELSE FateOf[u]]
  <2>1. \A u \in Tokens : stage'[u] = IF u \in Running THEN "lost" ELSE stage[u]
    BY DEF Ends
  <2>2. StageFate("lost") = "dropped"
    BY StageFates
  <2>3. \A u \in Tokens : StageFate(stage'[u]) =
            IF u \in Running THEN "dropped" ELSE StageFate(stage[u])
    BY <2>1, <2>2
  <2> QED
    BY <1>2, <2>3
<1>5. FateOf' = A!Are(Running, "dropped")
  BY <1>4 DEF A!Are, FateOf
<1>6. PathOf' = PathOf /\ file' = file
  BY DEF Ends, PathOf, task
<1>7. A!Drop
  BY <1>3, <1>5, <1>6 DEF A!Drop, FateOf, PathOf
<1> QED
  BY <1>7 DEF A!Next

LEMMA StepAnswers == IInv /\ IInv' /\ [Next]_vars => [A!Next]_(A!vars)
<1> SUFFICES ASSUME IInv, IInv', [Next]_vars PROVE [A!Next]_(A!vars)
  OBVIOUS
<1>1. CASE UNCHANGED <<stage, signals, wants, file>>
  BY <1>1 DEF A!vars, Fate
<1>2. ASSUME NEW t \in Tokens, Request(t) PROVE [A!Next]_(A!vars)
  BY <1>2, RequestAnswers
<1>3. ASSUME NEW t \in Tokens, NEW wish \in Wishes, Call(t, wish)
      PROVE  [A!Next]_(A!vars)
  BY <1>3, CallAnswers
<1>4. CASE Ends
  BY <1>4, EndsAnswers
<1> QED
  BY <1>1, <1>2, <1>3, <1>4 DEF Next, vars, task, StartDbus, BuildSession, Closing,
     CloseLoop, Drained, SessionDropped, StopBus, Crash, ConfigSet

\* Tasks, retries, cancellation, the closing of the service and its crashes
\* together implement Answers: a token is reported at most once, nothing comes
\* after its report, and a path changes only as a whole, with the report of
\* the request that asked for it.
THEOREM Implements == Spec => AnswersOnce
<1>1. Init => A!Init
  BY InitAnswers
<1>2. IInv /\ IInv' /\ [Next]_vars => [A!Next]_(A!vars)
  BY StepAnswers
<1> QED
  BY <1>1, <1>2, InvCorrect, PTL DEF Spec, AnswersOnce, A!Spec

\* It follows of the abstract specification alone that no interleaving of
\* downloads, cancellations and crashes leaves a part of an answer on a path.
THEOREM DownloadsWhole == Spec => [](file \in [Paths -> Tokens \cup {"old"}])
<1> DEFINE Whole == file \in [Paths -> Tokens \cup {"old"}]
<1>1. A!Init => Whole
  BY DEF A!Init
<1>2. Whole /\ [A!Next]_(A!vars) => Whole'
  <2> SUFFICES ASSUME Whole, [A!Next]_(A!vars) PROVE Whole'
    OBVIOUS
  <2>1. CASE UNCHANGED A!vars \/ A!Drop
    BY <2>1 DEF A!vars, A!Drop
  <2>2. ASSUME NEW t \in Tokens, A!Report(t) PROVE Whole'
    BY <2>2 DEF A!Report
  <2>3. ASSUME NEW t \in Tokens, NEW p, A!Accept(t, p) PROVE Whole'
    BY <2>3 DEF A!Accept
  <2> QED
    BY <2>1, <2>2, <2>3 DEF A!Next
<1> QED
  BY <1>1, <1>2, Implements, PTL DEF AnswersOnce, A!Spec
=============================================================================
