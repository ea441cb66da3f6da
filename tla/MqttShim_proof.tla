--------------------------- MODULE MqttShim_proof ---------------------------
(***************************************************************************)
(* Proofs about MqttShim and MqttMessages for any clients, topics and      *)
(* users: which client can still come up, that no topic is forgotten, that *)
(* a live link serves what status() lists, that stop() is final, and that  *)
(* the inbox holds the latest messages.                                    *)
(***************************************************************************)
EXTENDS MqttMessages, SequenceTheorems, TLAPS

-----------------------------------------------------------------------------
(* The inductive invariant.                                                *)

\* Only the current client's link can come up; the others close or are down.
OnlyCurrent == \A c \in Clients \ {client} : link[c] \in {"down", "closing"}

\* The broker knows no topic on a link that is not up yet, or no longer.
NoneEarly == \A c \in Clients : link[c] \in {"down", "opening"} => active[c] = {}

\* A success that some task has yet to see is that of the present link.
FreshAnswer == Answered /\ ~crossed => connected /\ link[client] = "up"

\* Some task waits for a future that holds a success already.
WakesUp == \E t \in Tasks : at[t] = "waiting" /\ result[waitsOn[t]] = "yes"

\* A live link lacks a topic only until the task that waits has resubscribed.
Served1 ==
    link[client] = "up" /\ ~crossed /\ connected /\ ~unattended
        => WakesUp \/ subscribed \subseteq active[client]

\* The broker sends nothing that status() does not list.
Listed == link[client] = "up" /\ ~crossed => active[client] \subseteq subscribed

\* After stop(), when nobody can call reconnect(), nothing can come up.
Over ==
    Users = {} /\ stopped =>
        /\ ~connected /\ graceful /\ shutdown
        /\ \A t \in Tasks : at[t] = "idle"
        /\ \A c \in Clients : link[c] \in {"down", "closing"}

IInv == /\ TypeOK /\ OnlyCurrent /\ NoneEarly /\ FreshAnswer
        /\ TopicsKept /\ Served1 /\ Listed /\ Over

LEMMA TheTasks == {"init", "retry"} \subseteq Tasks /\ Tasks \ {"init", "retry"} = Users
BY TaskAssumption DEF Tasks

LEMMA Implied == IInv => LinkServed /\ StopFinal
BY DEF IInv, Served1, Listed, Over, LinkServed, StopFinal, Answered, WakesUp

\* The service before its first connect() has a host name.
LEMMA InitInv == Init => IInv
<1> SUFFICES ASSUME Init PROVE IInv
  OBVIOUS
<1>1. TypeOK
  <2>1. /\ "init" \in Tasks
        /\ at = [t \in Tasks |-> IF t = "init" THEN "resolving" ELSE "idle"]
        /\ result = [t \in Tasks |-> IF t = "init" THEN "pending" ELSE "none"]
        /\ waitsOn = [t \in Tasks |-> t] /\ pending = "init"
    BY TheTasks DEF Init
  <2>2. /\ at \in [Tasks -> Stages] /\ result \in [Tasks -> Results]
        /\ waitsOn \in [Tasks -> Tasks] /\ pending \in Tasks
        /\ \A t \in Tasks : at[t] \notin {"created", "sleeping"}
    BY <2>1 DEF Stages, Results
  <2>3. /\ link \in [Clients -> {"down", "opening", "up", "closing"}]
        /\ active \in [Clients -> SUBSET Topics]
    BY DEF Init
  <2> QED
    BY <2>2, <2>3, Zenon DEF Init, TypeOK
<1>2. ~Answered
  BY TheTasks DEF Init, Answered
<1> QED
  BY <1>1, <1>2 DEF Init, IInv, OnlyCurrent, NoneEarly, FreshAnswer, TopicsKept,
                    Served1, Listed, Over

-----------------------------------------------------------------------------
(* Answers.                                                                *)

\* Resolving the pending future keeps its type and answers nobody else.
LEMMA Resolved ==
    ASSUME TypeOK, NEW answer \in {"yes", "no"}, ResolveConnect(answer)
    PROVE  /\ result' \in [Tasks -> Results]
           /\ \A t \in Tasks : result'[t] = "yes" =>
                  result[t] = "yes" \/ (answer = "yes" /\ t = pending)
           /\ \A t \in Tasks : result[t] = "yes" => result'[t] = "yes"
           /\ answer = "yes" /\ result[pending] = "pending" => result'[pending] = "yes"
BY DEF ResolveConnect, TypeOK, Results

\* So does cancelling the future that a task awaits.
LEMMA CancelledAwait ==
    ASSUME TypeOK, NEW t \in Tasks, CancelAwaited(t)
    PROVE  /\ result' \in [Tasks -> Results]
           /\ \A u \in Tasks : result'[u] = "yes" <=> result[u] = "yes"
BY DEF CancelAwaited, TypeOK, Results

\* Scheduling the loop answers nobody.
LEMMA Scheduled ==
    ASSUME NEW where \in [Tasks -> Stages], ScheduleReconnect(where),
           \A t \in Tasks \ {"retry"} : where[t] \notin {"created", "sleeping"}
    PROVE  /\ at' \in [Tasks -> Stages]
           /\ \A t \in Tasks \ {"retry"} : at'[t] \notin {"created", "sleeping"}
           /\ \A t \in Tasks : at'[t] \in {"waiting", "resolving"} => at'[t] = where[t]
           /\ \A t \in Tasks : where[t] \in {"waiting", "resolving"} => at'[t] = where[t]
BY TheTasks DEF ScheduleReconnect, Stages

\* A step after which nobody waits for or goes for a success who did not.
LEMMA NotAnswered ==
    ASSUME TypeOK, pending' = pending,
           \A t \in Tasks : result'[t] = "yes" => result[t] = "yes",
           \A t \in Tasks : at'[t] = "waiting" => at[t] = "waiting" /\ waitsOn'[t] = waitsOn[t],
           \A t \in Tasks : at'[t] = "resolving" => at[t] = "resolving"
    PROVE  Answered' => Answered
BY DEF TypeOK, Answered

-----------------------------------------------------------------------------
(* paho's callbacks.                                                       *)

LEMMA OnConnectStep == ASSUME IInv, NEW c \in Clients, OnConnect(c) PROVE IInv'
<1>1. c = client
  BY DEF OnConnect, IInv, OnlyCurrent
<1>2. /\ result' \in [Tasks -> Results]
      /\ result[pending] = "pending" => result'[pending] = "yes"
  BY Resolved DEF OnConnect, IInv
<1>3. link' = [link EXCEPT ![client] = "up"] /\ connected'
  BY <1>1 DEF OnConnect
<1>4. TypeOK'
  BY <1>1, <1>2 DEF OnConnect, IInv, TypeOK
<1>5. OnlyCurrent' /\ NoneEarly' /\ FreshAnswer' /\ TopicsKept'
  BY <1>3 DEF OnConnect, IInv, TypeOK, OnlyCurrent, NoneEarly, FreshAnswer, TopicsKept
<1>6. Served1'
  <2>1. ASSUME ~unattended' PROVE WakesUp'
    <3>1. PICK t \in Tasks : at[t] = "waiting" /\ waitsOn[t] = pending
                             /\ result[pending] = "pending"
      BY <2>1 DEF OnConnect
    <3>2. at'[t] = "waiting" /\ waitsOn'[t] = pending
      BY <3>1 DEF OnConnect
    <3> QED
      BY <1>2, <3>1, <3>2 DEF WakesUp
  <2> QED
    BY <2>1 DEF Served1
<1>7. Listed'
  BY <1>1 DEF OnConnect, IInv, TypeOK, NoneEarly, Listed
<1>8. Over'
  BY <1>1 DEF OnConnect, IInv, TypeOK, Over
<1> QED
  BY <1>4, <1>5, <1>6, <1>7, <1>8 DEF IInv

\* A link that was opening is refused, or does not open.
LEMMA RefusedStep ==
    ASSUME IInv, NEW c \in Clients, OnRejected(c) \/ OnConnectFail(c)
    PROVE  IInv'
<1>1. c = client /\ link[c] = "opening"
  BY DEF OnRejected, OnConnectFail, IInv, OnlyCurrent
<1>2. /\ result' \in [Tasks -> Results]
      /\ \A t \in Tasks : result'[t] = "yes" => result[t] = "yes"
  BY Resolved DEF OnRejected, OnConnectFail, IInv
<1>3. /\ UNCHANGED <<shim, active, at, pending, waitsOn, stopped, history>>
      /\ \E to \in {"closing", "down"} : link' = [link EXCEPT ![c] = to]
  BY DEF OnRejected, OnConnectFail
<1>4. TypeOK'
  BY <1>2, <1>3 DEF IInv, TypeOK, shim, history
<1>5. Answered' => Answered
  BY <1>2, <1>3, NotAnswered DEF IInv
<1>6. Answered => crossed
  BY <1>1 DEF IInv, FreshAnswer
<1>7. link'[client] # "up" /\ client' = client
  BY <1>1, <1>3 DEF IInv, TypeOK, shim
<1>8. FreshAnswer' /\ Served1' /\ Listed' /\ TopicsKept'
  BY <1>3, <1>5, <1>6, <1>7 DEF IInv, FreshAnswer, Served1, Listed, TopicsKept,
                                shim, history
<1>9. OnlyCurrent' /\ NoneEarly'
  BY <1>1, <1>3 DEF IInv, TypeOK, OnlyCurrent, NoneEarly, shim
<1>10. Over'
  BY <1>1, <1>3 DEF IInv, TypeOK, Over, shim
<1> QED
  BY <1>4, <1>8, <1>9, <1>10 DEF IInv

LEMMA OnDisconnectStep == ASSUME IInv, NEW c \in Clients, OnDisconnect(c) PROVE IInv'
<1>1. /\ result' \in [Tasks -> Results]
      /\ \A t \in Tasks : result'[t] = "yes" => result[t] = "yes"
  BY Resolved DEF OnDisconnect, IInv
<1>2. /\ at' \in [Tasks -> Stages]
      /\ \A t \in Tasks \ {"retry"} : at'[t] \notin {"created", "sleeping"}
      /\ \A t \in Tasks : at'[t] \in {"waiting", "resolving"} => at'[t] = at[t]
  BY Scheduled DEF OnDisconnect, IInv, TypeOK
<1>3. TypeOK'
  BY <1>1, <1>2 DEF OnDisconnect, Disturb, IInv, TypeOK
<1>4. Answered' => Answered
  BY <1>1, <1>2, NotAnswered DEF OnDisconnect, IInv
<1>5. FreshAnswer'
  BY <1>4 DEF OnDisconnect, Disturb, FreshAnswer
<1>6. OnlyCurrent' /\ NoneEarly'
  BY DEF OnDisconnect, IInv, TypeOK, OnlyCurrent, NoneEarly
<1>7. TopicsKept' /\ Served1'
  BY DEF OnDisconnect, Disturb, IInv, TopicsKept, Served1
<1>8. Listed'
  BY DEF OnDisconnect, Disturb, IInv, TypeOK, Listed
<1>9. Over'
  BY DEF OnDisconnect, IInv, TypeOK, Over
<1> QED
  BY <1>3, <1>5, <1>6, <1>7, <1>8, <1>9 DEF IInv

-----------------------------------------------------------------------------
(* connect() and the loop around it.                                       *)

LEMMA ConnectOpenStep == ASSUME IInv, NEW t \in Tasks, ConnectOpen(t) PROVE IInv'
<1>1. TypeOK'
  BY DEF ConnectOpen, Disturb, IInv, TypeOK, Stages, shim
<1>2. Answered' => Answered
  BY DEF ConnectOpen, IInv, TypeOK, Answered, shim
<1>3. client' = client /\ link'[client] = "opening"
  BY DEF ConnectOpen, IInv, TypeOK, shim
<1>4. FreshAnswer' /\ TopicsKept' /\ Served1' /\ Listed'
  BY <1>2, <1>3 DEF ConnectOpen, Disturb, IInv, FreshAnswer, TopicsKept, Served1,
                    Listed, shim
<1>5. OnlyCurrent' /\ NoneEarly'
  BY <1>3 DEF ConnectOpen, IInv, TypeOK, OnlyCurrent, NoneEarly, shim
<1>6. Over'
  BY DEF ConnectOpen, IInv, Over, shim
<1> QED
  BY <1>1, <1>4, <1>5, <1>6 DEF IInv

\* A task whose connect() ends and that starts no other: nothing but its place
\* changes, and perhaps the loop's, or it leaves a success unseen.
LEMMA EndsHere ==
    ASSUME IInv, NEW t \in Tasks, at[t] # "idle",
           UNCHANGED <<shim, wire, pending, waitsOn, stopped, wanted, crossed>>,
           at' \in [Tasks -> Stages],
           \A u \in Tasks \ {"retry"} : at'[u] \notin {"created", "sleeping"},
           \A u \in Tasks : at'[u] \in {"waiting", "resolving"} => at'[u] = at[u],
           \A u \in Tasks \ {t} : at[u] = "waiting" => at'[u] = at[u],
           result' \in [Tasks -> Results],
           \A u \in Tasks : result'[u] = "yes" <=> result[u] = "yes",
           unattended' \in BOOLEAN, unattended => unattended',
           at[t] = "waiting" /\ result[waitsOn[t]] = "yes" => unattended'
    PROVE  IInv'
<1>1. TypeOK'
  BY DEF IInv, TypeOK, shim, wire
<1>2. Answered' => Answered
  BY NotAnswered DEF IInv
<1>3. ~unattended' /\ WakesUp => WakesUp'
  <2>1. SUFFICES ASSUME ~unattended', NEW u \in Tasks,
                        at[u] = "waiting" /\ result[waitsOn[u]] = "yes"
                 PROVE  WakesUp'
    BY DEF WakesUp
  <2>2. u # t
    BY <2>1
  <2>3. at'[u] = "waiting" /\ waitsOn'[u] = waitsOn[u] /\ waitsOn[u] \in Tasks
    BY <2>1, <2>2 DEF IInv, TypeOK
  <2> QED
    BY <2>1, <2>3 DEF WakesUp
<1>4. FreshAnswer' /\ TopicsKept' /\ Served1' /\ Listed'
  BY <1>2, <1>3 DEF IInv, FreshAnswer, TopicsKept, Served1, Listed, shim, wire
<1>5. OnlyCurrent' /\ NoneEarly'
  BY DEF IInv, OnlyCurrent, NoneEarly, shim, wire
<1>6. Over'
  BY DEF IInv, Over
<1> QED
  BY <1>1, <1>4, <1>5, <1>6 DEF IInv

\* Where a connect() that has failed leaves its task.
LEMMA Failing ==
    ASSUME TypeOK, NEW t \in Tasks, NEW where, where = AfterFailure(t)
    PROVE  /\ where \in [Tasks -> Stages]
           /\ \A u \in Tasks \ {"retry"} : where[u] \notin {"created", "sleeping"}
           /\ \A u \in Tasks \ {t} : where[u] = at[u]
           /\ where[t] \in {"idle", "sleeping"}
BY TheTasks DEF AfterFailure, TypeOK, Stages

LEMMA ConnectStep == ASSUME IInv, NEW t \in Tasks, Connect(t) PROVE IInv'
<1> USE DEF history
<1>1. CASE ConnectOpen(t)
  BY <1>1, ConnectOpenStep
<1>2. CASE ConnectError(t)
  <2>1. /\ at' \in [Tasks -> Stages]
        /\ \A u \in Tasks \ {"retry"} : at'[u] \notin {"created", "sleeping"}
        /\ \A u \in Tasks \ {t} : at'[u] = at[u]
        /\ at'[t] \in {"idle", "sleeping"}
    BY <1>2, Failing DEF ConnectError, IInv
  <2>2. /\ at[t] = "resolving"
        /\ UNCHANGED <<shim, wire, result, pending, waitsOn, stopped, history>>
    BY <1>2 DEF ConnectError
  <2>3. \A u \in Tasks : at'[u] \in {"waiting", "resolving"} => at'[u] = at[u]
    BY <2>1
  <2>4. result' \in [Tasks -> Results] /\ unattended' \in BOOLEAN
    BY <2>2 DEF IInv, TypeOK
  <2> QED
    BY <2>1, <2>2, <2>3, <2>4, EndsHere
<1>3. CASE ConnectTimeout(t)
  <2>1. /\ at' \in [Tasks -> Stages]
        /\ \A u \in Tasks \ {"retry"} : at'[u] \notin {"created", "sleeping"}
        /\ \A u \in Tasks \ {t} : at'[u] = at[u]
        /\ at'[t] \in {"idle", "sleeping"}
    BY <1>3, Failing DEF ConnectTimeout, IInv
  <2>2. /\ result' \in [Tasks -> Results]
        /\ \A u \in Tasks : result'[u] = "yes" <=> result[u] = "yes"
    BY <1>3, CancelledAwait DEF ConnectTimeout, IInv
  <2>3. /\ at[t] = "waiting"
        /\ UNCHANGED <<shim, wire, pending, waitsOn, stopped, wanted, crossed>>
        /\ unattended' = (unattended \/ result[waitsOn[t]] = "yes")
    BY <1>3 DEF ConnectTimeout
  <2>4. \A u \in Tasks : at'[u] \in {"waiting", "resolving"} => at'[u] = at[u]
    BY <2>1
  <2>5. unattended' \in BOOLEAN
    BY <2>3
  <2> QED
    BY <2>1, <2>2, <2>3, <2>4, <2>5, EndsHere
<1>4. CASE ConnectCancelled(t)
  <2>1. /\ at[t] = "waiting" /\ result[waitsOn[t]] = "cancelled"
        /\ at' = [at EXCEPT ![t] = "idle"]
        /\ UNCHANGED <<shim, wire, result, pending, waitsOn, stopped, history>>
    BY <1>4 DEF ConnectCancelled
  <2>2. /\ at' \in [Tasks -> Stages]
        /\ \A u \in Tasks \ {"retry"} : at'[u] \notin {"created", "sleeping"}
        /\ \A u \in Tasks \ {t} : at'[u] = at[u]
        /\ at'[t] = "idle"
    BY <2>1 DEF IInv, TypeOK, Stages
  <2>3. \A u \in Tasks : at'[u] \in {"waiting", "resolving"} => at'[u] = at[u]
    BY <2>2
  <2>4. result' \in [Tasks -> Results] /\ unattended' \in BOOLEAN
    BY <2>1 DEF IInv, TypeOK
  <2> QED
    BY <2>1, <2>2, <2>3, <2>4, EndsHere
<1>5. CASE ConnectNo(t)
  <2> DEFINE where == AfterFailure(t)
  <2>1. /\ where \in [Tasks -> Stages]
        /\ \A u \in Tasks \ {"retry"} : where[u] \notin {"created", "sleeping"}
        /\ \A u \in Tasks \ {t} : where[u] = at[u]
        /\ where[t] \in {"idle", "sleeping"}
    BY Failing DEF IInv
  <2> HIDE DEF where
  <2>2. /\ at[t] = "waiting" /\ result[waitsOn[t]] = "no"
        /\ at' = where \/ ScheduleReconnect(where)
        /\ UNCHANGED <<shim, wire, result, pending, waitsOn, stopped, history>>
    BY <1>5 DEF ConnectNo, where
  <2>3. /\ at' \in [Tasks -> Stages]
        /\ \A u \in Tasks \ {"retry"} : at'[u] \notin {"created", "sleeping"}
        /\ \A u \in Tasks : at'[u] \in {"waiting", "resolving"} => at'[u] = where[u]
        /\ \A u \in Tasks : where[u] \in {"waiting", "resolving"} => at'[u] = where[u]
    BY <2>1, <2>2, Scheduled
  <2>4. /\ \A u \in Tasks : at'[u] \in {"waiting", "resolving"} => at'[u] = at[u]
        /\ \A u \in Tasks \ {t} : at[u] = "waiting" => at'[u] = at[u]
    BY <2>1, <2>3
  <2>5. result' \in [Tasks -> Results] /\ unattended' \in BOOLEAN
    BY <2>2 DEF IInv, TypeOK
  <2> QED
    BY <2>2, <2>3, <2>4, <2>5, EndsHere
<1>6. CASE ConnectYes(t)
  <2> DEFINE fresh == IF t = "init" /\ Accepts(TRUE) THEN Configured ELSE {}
             all == Resubscribed \cup fresh
  <2>1. fresh \subseteq Topics /\ all \subseteq Topics
    BY ConfigAssumption DEF Resubscribed, IInv, TypeOK
  <2>2. ~crossed => connected /\ link[client] = "up" /\ Resubscribed = subscribed
    BY <1>6 DEF ConnectYes, IInv, FreshAnswer, Answered, Resubscribed, Accepts
  <2>3. /\ subscribed' = all /\ active' = Served(all) /\ connected' = TRUE
        /\ at' = [at EXCEPT ![t] = "idle"] /\ wanted' = wanted \cup fresh
        /\ UNCHANGED <<client, graceful, shutdown, link, result, pending, waitsOn,
                       stopped, crossed, unattended>>
    BY <1>6 DEF ConnectYes
  <2> HIDE DEF fresh, all
  <2>4. /\ active' \in [Clients -> SUBSET Topics]
        /\ link[client] = "up" => active'[client] = active[client] \cup all
        /\ \A c \in Clients : link[c] # "up" => active'[c] = active[c]
    BY <2>1, <2>3 DEF IInv, TypeOK, Served
  <2>5. /\ at' \in [Tasks -> Stages] /\ at[t] = "waiting"
        /\ \A u \in Tasks \ {"retry"} : at'[u] \notin {"created", "sleeping"}
        /\ \A u \in Tasks : at'[u] \in {"waiting", "resolving"} => at'[u] = at[u]
    BY <1>6, <2>3 DEF IInv, TypeOK, Stages, ConnectYes
  <2>6. TypeOK'
    BY <2>1, <2>3, <2>4, <2>5 DEF IInv, TypeOK
  <2>7. Answered' => Answered
    BY <2>3, <2>5, NotAnswered DEF IInv
  <2>8. FreshAnswer' /\ OnlyCurrent' /\ NoneEarly'
    BY <2>2, <2>3, <2>4 DEF IInv, FreshAnswer, OnlyCurrent, NoneEarly
  <2>9. TopicsKept'
    BY <2>2, <2>3 DEF IInv, TopicsKept, all
  <2>10. Served1'
    BY <2>3, <2>4 DEF Served1
  <2>11. Listed'
    BY <2>2, <2>3, <2>4 DEF IInv, Listed, all
  <2>12. Over'
    BY <2>3, <2>5 DEF IInv, Over
  <2> QED
    BY <2>6, <2>8, <2>9, <2>10, <2>11, <2>12 DEF IInv
<1> QED
  BY <1>1, <1>2, <1>3, <1>4, <1>5, <1>6 DEF Connect

\* The loop's task starts, or gives up because the service ends.
LEMMA RetryStartStep == ASSUME IInv, RetryStart PROVE IInv'
<1>1. /\ "retry" \in Tasks /\ at["retry"] = "created"
      /\ UNCHANGED <<shim, wire, result, pending, waitsOn, stopped, history>>
  BY TheTasks DEF RetryStart
<1>2. /\ at' \in [Tasks -> Stages]
      /\ \A u \in Tasks \ {"retry"} : at'[u] \notin {"created", "sleeping"}
      /\ \A u \in Tasks : at'[u] \in {"waiting", "resolving"} => at'[u] = at[u]
      /\ \A u \in Tasks \ {"retry"} : at'[u] = at[u]
  BY <1>1 DEF RetryStart, IInv, TypeOK, Stages
<1>3. result' \in [Tasks -> Results] /\ unattended' \in BOOLEAN
  BY <1>1 DEF IInv, TypeOK, history
<1> QED
  BY <1>1, <1>2, <1>3, EndsHere DEF history

\* A connect() that begins takes over the pending future and answers nobody.
LEMMA Begins ==
    ASSUME TypeOK, NEW t \in Tasks, ConnectBegin(t), waitsOn' = waitsOn,
           at[t] \in {"idle", "sleeping"}
    PROVE  /\ at' \in [Tasks -> Stages] /\ at'[t] = "resolving"
           /\ \A u \in Tasks \ {"retry"} : at'[u] \notin {"created", "sleeping"}
           /\ \A u \in Tasks \ {t} : at'[u] = at[u]
           /\ result' \in [Tasks -> Results] /\ pending' \in Tasks
           /\ graceful' \in BOOLEAN /\ shutdown' \in BOOLEAN
           /\ Answered' => WakesUp
           /\ WakesUp => WakesUp'
<1>1. /\ at' = [at EXCEPT ![t] = "resolving"]
      /\ result' = [result EXCEPT ![t] = "pending"] /\ pending' = t
      /\ \A u \in Tasks \ {t} : ~(at[u] = "waiting" /\ waitsOn[u] = t)
  BY DEF ConnectBegin
<1>2. /\ at' \in [Tasks -> Stages] /\ at'[t] = "resolving"
      /\ \A u \in Tasks \ {t} : at'[u] = at[u]
      /\ result' \in [Tasks -> Results] /\ result'[t] = "pending"
      /\ \A u \in Tasks \ {t} : result'[u] = result[u]
  BY <1>1 DEF TypeOK, Stages, Results
<1>3. Answered' => WakesUp
  BY <1>1, <1>2 DEF TypeOK, Answered, WakesUp
<1>4. WakesUp => WakesUp'
  <2>1. SUFFICES ASSUME NEW u \in Tasks, at[u] = "waiting", result[waitsOn[u]] = "yes"
                 PROVE  WakesUp'
    BY DEF WakesUp
  <2>2. u # t /\ waitsOn[u] # t /\ waitsOn[u] \in Tasks
    BY <1>1, <2>1 DEF TypeOK
  <2> QED
    BY <1>2, <2>1, <2>2 DEF WakesUp
<1>5. \A u \in Tasks \ {"retry"} : at'[u] \notin {"created", "sleeping"}
  BY <1>2 DEF TypeOK
<1> QED
  BY <1>1, <1>2, <1>3, <1>4, <1>5 DEF ConnectBegin

LEMMA RetryWakeStep == ASSUME IInv, RetryWake PROVE IInv'
<1>1. /\ "retry" \in Tasks /\ at["retry"] = "sleeping"
      /\ ConnectBegin("retry")
      /\ UNCHANGED <<client, connected, subscribed, wire, waitsOn, stopped, history>>
  BY TheTasks DEF RetryWake
<1>2. /\ at' \in [Tasks -> Stages]
      /\ \A u \in Tasks \ {"retry"} : at'[u] \notin {"created", "sleeping"}
      /\ result' \in [Tasks -> Results] /\ pending' \in Tasks
      /\ graceful' \in BOOLEAN /\ shutdown' \in BOOLEAN
      /\ Answered' => WakesUp
      /\ WakesUp => WakesUp'
  BY <1>1, Begins DEF IInv
<1>3. TypeOK'
  BY <1>1, <1>2 DEF IInv, TypeOK, wire, history
<1>4. WakesUp => Answered
  BY DEF WakesUp, Answered
<1>5. FreshAnswer' /\ TopicsKept' /\ Served1' /\ Listed'
  BY <1>1, <1>2, <1>4 DEF IInv, FreshAnswer, TopicsKept, Served1, Listed, wire, history
<1>6. OnlyCurrent' /\ NoneEarly'
  BY <1>1 DEF IInv, OnlyCurrent, NoneEarly, wire
<1>7. Over'
  BY <1>1 DEF IInv, Over
<1> QED
  BY <1>3, <1>5, <1>6, <1>7 DEF IInv

-----------------------------------------------------------------------------
(* Calls.                                                                  *)

\* What client.disconnect() leaves of the links.
LEMMA Closed ==
    ASSUME IInv, link' = Closing
    PROVE  /\ link' \in [Clients -> {"down", "opening", "up", "closing"}]
           /\ \A c \in Clients : link'[c] \in {"down", "closing"}
           /\ \A c \in Clients : link'[c] = "down" => link[c] = "down"
BY DEF IInv, TypeOK, OnlyCurrent, Closing

LEMMA ReconnectStep == ASSUME IInv, NEW u \in Users, Reconnect(u) PROVE IInv'
<1>1. /\ u \in Tasks /\ at[u] = "idle" /\ ConnectBegin(u) /\ Disturb
      /\ link' = Closing /\ connected' = FALSE
      /\ UNCHANGED <<subscribed, active, waitsOn, stopped, wanted, unattended>>
  BY TheTasks DEF Reconnect
<1>2. /\ at' \in [Tasks -> Stages]
      /\ \A v \in Tasks \ {"retry"} : at'[v] \notin {"created", "sleeping"}
      /\ result' \in [Tasks -> Results] /\ pending' \in Tasks
      /\ graceful' \in BOOLEAN /\ shutdown' \in BOOLEAN
      /\ Answered' => WakesUp
  BY <1>1, Begins DEF IInv
<1>3. /\ link' \in [Clients -> {"down", "opening", "up", "closing"}]
      /\ \A c \in Clients : link'[c] \in {"down", "closing"}
      /\ \A c \in Clients : link'[c] = "down" => link[c] = "down"
      /\ client' \in Clients
  BY <1>1, Closed DEF Reconnect
<1>4. TypeOK'
  BY <1>1, <1>2, <1>3 DEF IInv, TypeOK, Disturb
<1>5. FreshAnswer' /\ TopicsKept' /\ Served1' /\ Listed'
  BY <1>1, <1>2, <1>3 DEF IInv, FreshAnswer, TopicsKept, Served1, Listed,
                          Disturb, WakesUp, Answered
<1>6. OnlyCurrent' /\ NoneEarly' /\ Over'
  BY <1>1, <1>3 DEF IInv, OnlyCurrent, NoneEarly, Over
<1> QED
  BY <1>4, <1>5, <1>6 DEF IInv

LEMMA DisconnectStep == ASSUME IInv, Disconnect PROVE IInv'
<1>1. /\ link' = Closing /\ connected' = FALSE /\ Disturb /\ graceful' = TRUE
      /\ UNCHANGED <<client, shutdown, subscribed, active, conn, stopped, wanted,
                     unattended>>
  BY DEF Disconnect
<1>2. /\ link' \in [Clients -> {"down", "opening", "up", "closing"}]
      /\ \A c \in Clients : link'[c] \in {"down", "closing"}
      /\ \A c \in Clients : link'[c] = "down" => link[c] = "down"
  BY <1>1, Closed
<1>3. TypeOK'
  BY <1>1, <1>2 DEF IInv, TypeOK, Disturb, conn
<1>4. Answered' = Answered
  BY <1>1 DEF Answered, conn
<1>5. FreshAnswer' /\ TopicsKept' /\ Served1' /\ Listed'
  BY <1>1, <1>2, <1>4 DEF IInv, TypeOK, FreshAnswer, TopicsKept, Served1, Listed, Disturb
<1>6. OnlyCurrent' /\ NoneEarly' /\ Over'
  BY <1>1, <1>2 DEF IInv, OnlyCurrent, NoneEarly, Over, conn
<1> QED
  BY <1>3, <1>5, <1>6 DEF IInv

LEMMA SubscribeStep ==
    ASSUME IInv, NEW topic \in Topics, Subscribe(topic) \/ Unsubscribe(topic)
    PROVE  IInv'
<1>1. /\ connected
      /\ UNCHANGED <<client, connected, graceful, shutdown, link, conn, stopped,
                     crossed, unattended>>
  BY DEF Subscribe, Unsubscribe, Accepts
<1>2. \/ /\ subscribed' = subscribed \cup {topic} /\ wanted' = wanted \cup {topic}
         /\ \A c \in Clients : active'[c] = IF c = client /\ link[c] = "up"
                                            THEN active[c] \cup {topic} ELSE active[c]
      \/ /\ subscribed' = subscribed \ {topic} /\ wanted' = wanted \ {topic}
         /\ \A c \in Clients : active'[c] = IF c = client
                                            THEN active[c] \ {topic} ELSE active[c]
  BY DEF Subscribe, Unsubscribe, Served, IInv, TypeOK
<1>3. active' \in [Clients -> SUBSET Topics]
  BY DEF Subscribe, Unsubscribe, Served, IInv, TypeOK
<1>4. TypeOK'
  BY <1>1, <1>2, <1>3 DEF IInv, TypeOK, conn
<1>5. Answered' = Answered /\ WakesUp' = WakesUp
  BY <1>1 DEF Answered, WakesUp, conn
<1>6. client \in Clients
  BY DEF IInv, TypeOK
<1>7. FreshAnswer' /\ TopicsKept' /\ Served1' /\ Listed'
  BY <1>1, <1>2, <1>5, <1>6 DEF IInv, FreshAnswer, TopicsKept, Served1, Listed
<1>8. OnlyCurrent' /\ NoneEarly' /\ Over'
  BY <1>1, <1>2 DEF IInv, OnlyCurrent, NoneEarly, Over, conn
<1> QED
  BY <1>4, <1>7, <1>8 DEF IInv

LEMMA StopStep == ASSUME IInv, Stop PROVE IInv'
<1>1. /\ at["init"] = "idle" /\ stopped' = TRUE /\ shutdown' = TRUE /\ graceful' = TRUE
      /\ CancelAwaited("retry") /\ at' = [at EXCEPT !["retry"] = "idle"]
      /\ link' = Closing /\ connected' = FALSE /\ Disturb
      /\ UNCHANGED <<client, pending, waitsOn, unattended>>
      /\ \/ /\ subscribed' = {} /\ wanted' = {}
            /\ active' = [active EXCEPT ![client] = {}]
         \/ UNCHANGED <<subscribed, wanted, active>>
  BY DEF Stop
<1>2. /\ link' \in [Clients -> {"down", "opening", "up", "closing"}]
      /\ \A c \in Clients : link'[c] \in {"down", "closing"}
      /\ \A c \in Clients : link'[c] = "down" => link[c] = "down"
  BY <1>1, Closed
<1>3. /\ result' \in [Tasks -> Results]
      /\ \A u \in Tasks : result'[u] = "yes" <=> result[u] = "yes"
  BY <1>1, TheTasks, CancelledAwait DEF IInv
<1>4. /\ at' \in [Tasks -> Stages] /\ at'["retry"] = "idle"
      /\ \A u \in Tasks \ {"retry"} : at'[u] = at[u]
  BY <1>1, TheTasks DEF IInv, TypeOK, Stages
<1>5. TypeOK'
  BY <1>1, <1>2, <1>3, <1>4 DEF IInv, TypeOK, Disturb
<1>6. Answered' => Answered
  BY <1>1, <1>3, <1>4, NotAnswered DEF IInv
<1>7. FreshAnswer' /\ TopicsKept' /\ Served1' /\ Listed'
  BY <1>1, <1>2, <1>6 DEF IInv, TypeOK, FreshAnswer, TopicsKept, Served1, Listed, Disturb
<1>8. OnlyCurrent' /\ NoneEarly'
  BY <1>1, <1>2 DEF IInv, TypeOK, OnlyCurrent, NoneEarly
<1>9. Over'
  BY <1>1, <1>2, <1>4, TheTasks DEF Over
<1> QED
  BY <1>5, <1>7, <1>8, <1>9 DEF IInv

-----------------------------------------------------------------------------
(* Theorems about the connection.                                          *)

LEMMA NextInv == IInv /\ [Next]_vars => IInv'
<1> SUFFICES ASSUME IInv, [Next]_vars PROVE IInv'
  OBVIOUS
<1>1. CASE UNCHANGED vars
  BY <1>1 DEF vars, IInv, TypeOK, OnlyCurrent, NoneEarly, FreshAnswer, Answered,
              TopicsKept, Served1, WakesUp, Listed, Over
<1>2. CASE Paho
  BY <1>2, OnConnectStep, RefusedStep, OnDisconnectStep DEF Paho
<1>3. ASSUME NEW t \in Tasks, Connect(t) PROVE IInv'
  BY <1>3, ConnectStep
<1>4. CASE RetryStart \/ RetryWake
  BY <1>4, RetryStartStep, RetryWakeStep
<1>5. CASE Calls
  BY <1>5, ReconnectStep, SubscribeStep, DisconnectStep, StopStep DEF Calls
<1> QED
  BY <1>1, <1>2, <1>3, <1>4, <1>5 DEF Next

\* The strengthened invariant holds in every behaviour, fair or not.
THEOREM InvCorrect == Spec => []IInv
BY InitInv, NextInv, PTL DEF Spec

\* Every variable keeps its type, and only the loop's task sleeps.
THEOREM TypeCorrect == Spec => []TypeOK
<1>1. IInv => TypeOK
  BY DEF IInv
<1> QED
  BY <1>1, InvCorrect, PTL

\* However often clients are replaced and links drop, no topic is forgotten and
\* none comes back, unless the link went before a success was seen.
THEOREM TopicsSafe == Spec => []TopicsKept
<1>1. IInv => TopicsKept
  BY DEF IInv
<1> QED
  BY <1>1, InvCorrect, PTL

\* The broker sends what status() lists on a link that is up, for any number of
\* clients, connect() calls and topics.
THEOREM LinkSafe == Spec => []LinkServed
BY Implied, InvCorrect, PTL

\* Nothing brings the connection or its loop back after stop().
THEOREM StopSafe == Spec => []StopFinal
BY Implied, InvCorrect, PTL

-----------------------------------------------------------------------------
(* Messages.                                                               *)

\* Messages do not disturb the connection: MqttMessages implements MqttShim.
THEOREM MessagesRefine == MessagesSpec => Spec
<1>1. [NextMessages]_allVars => [Next]_vars
  BY DEF NextMessages, allVars, OnMessage, ConsumeMessages
<1> QED
  BY <1>1, PTL DEF MessagesSpec, InitMessages, Spec

InboxInv == inbox \in Seq(Nat) /\ arrived \in Nat /\ InboxLatest

\* A message for a full queue takes the place of the oldest one.
LEMMA FullQueue == ASSUME InboxInv, Full, arrived' = arrived + 1,
                          inbox' = Append(Tail(inbox), arrived + 1)
                   PROVE  InboxInv'
<1>1. inbox \in Seq(Nat) /\ arrived \in Nat /\ Len(inbox) \in Nat /\ QueueSize \in Nat
  BY LenProperties, QueueAssumption DEF InboxInv
<1>2. inbox # <<>> /\ Len(inbox) > 0 /\ Len(inbox) <= QueueSize
  BY <1>1 DEF Full, InboxInv, InboxLatest
<1>3. /\ Tail(inbox) \in Seq(Nat) /\ Len(Tail(inbox)) = Len(inbox) - 1
      /\ \A i \in 1 .. Len(inbox) - 1 : Tail(inbox)[i] = inbox[i + 1]
  BY <1>1, <1>2
<1>4. inbox' \in Seq(Nat) /\ Len(inbox') = Len(inbox) /\ DOMAIN inbox' = 1 .. Len(inbox)
  BY <1>1, <1>3
<1>5. inbox'[Len(inbox)] = arrived + 1
  BY <1>1, <1>2, <1>3
<1>6. ASSUME NEW i \in 1 .. Len(inbox), i # Len(inbox)
      PROVE  inbox'[i] = arrived' - Len(inbox) + i
  <2>1. i \in 1 .. Len(inbox) - 1 /\ i + 1 \in DOMAIN inbox
    BY <1>1, <1>6
  <2>2. inbox'[i] = inbox[i + 1]
    BY <1>1, <1>3, <2>1
  <2>3. inbox[i + 1] = arrived - Len(inbox) + (i + 1)
    BY <2>1 DEF InboxInv, InboxLatest
  <2> QED
    BY <1>1, <2>1, <2>2, <2>3
<1>7. \A i \in 1 .. Len(inbox) : inbox'[i] = arrived' - Len(inbox) + i
  BY <1>1, <1>5, <1>6
<1>8. InboxLatest'
  BY <1>2, <1>4, <1>7 DEF InboxLatest
<1> QED
  BY <1>1, <1>4, <1>8 DEF InboxInv

\* A message for a queue with room goes to its end.
LEMMA RoomInQueue == ASSUME InboxInv, ~Full, arrived' = arrived + 1,
                            inbox' = Append(inbox, arrived + 1)
                     PROVE  InboxInv'
<1>1. /\ inbox \in Seq(Nat) /\ arrived \in Nat /\ Len(inbox) \in Nat /\ QueueSize \in Nat
      /\ DOMAIN inbox = 1 .. Len(inbox)
  BY LenProperties, QueueAssumption DEF InboxInv
<1>2. /\ inbox' \in Seq(Nat) /\ Len(inbox') = Len(inbox) + 1
      /\ DOMAIN inbox' = 1 .. Len(inbox) + 1
      /\ inbox'[Len(inbox) + 1] = arrived + 1
  BY <1>1
<1>3. ASSUME NEW i \in 1 .. Len(inbox) + 1, i # Len(inbox) + 1
      PROVE  inbox'[i] = arrived' - Len(inbox') + i
  <2>1. i \in DOMAIN inbox
    BY <1>1, <1>3
  <2>2. inbox'[i] = inbox[i]
    BY <1>1, <2>1
  <2>3. inbox[i] = arrived - Len(inbox) + i
    BY <2>1 DEF InboxInv, InboxLatest
  <2> QED
    BY <1>1, <1>2, <2>1, <2>2, <2>3
<1>4. \A i \in DOMAIN inbox' : inbox'[i] = arrived' - Len(inbox') + i
  BY <1>1, <1>2, <1>3
<1>5. QueueSize # 0 => Len(inbox') <= QueueSize
  BY <1>1, <1>2 DEF Full
<1>6. InboxLatest'
  BY <1>4, <1>5 DEF InboxLatest
<1> QED
  BY <1>1, <1>2, <1>6 DEF InboxInv

LEMMA InboxStep == InboxInv /\ [NextMessages]_allVars => InboxInv'
<1> SUFFICES ASSUME InboxInv, [NextMessages]_allVars PROVE InboxInv'
  OBVIOUS
<1>0. /\ inbox \in Seq(Nat) /\ arrived \in Nat /\ Len(inbox) \in Nat
      /\ DOMAIN inbox = 1 .. Len(inbox) /\ QueueSize \in Nat
  BY LenProperties, QueueAssumption DEF InboxInv
<1>1. ASSUME NEW c \in Clients, OnMessage(c) PROVE InboxInv'
  <2>1. arrived' = arrived + 1
        /\ inbox' = Append(IF Full THEN Tail(inbox) ELSE inbox, arrived + 1)
    BY <1>1 DEF OnMessage
  <2>2. CASE Full
    BY <2>1, <2>2, FullQueue
  <2>3. CASE ~Full
    BY <2>1, <2>3, RoomInQueue
  <2> QED
    BY <2>2, <2>3
<1>2. CASE ConsumeMessages
  <2>1. inbox # <<>> /\ inbox' = Tail(inbox) /\ arrived' = arrived
    BY <1>2 DEF ConsumeMessages
  <2>2. /\ inbox' \in Seq(Nat) /\ Len(inbox') = Len(inbox) - 1 /\ Len(inbox) > 0
        /\ DOMAIN inbox' = 1 .. Len(inbox) - 1
        /\ \A i \in 1 .. Len(inbox) - 1 : inbox'[i] = inbox[i + 1]
    BY <1>0, <2>1
  <2> QED
    BY <1>0, <2>1, <2>2 DEF InboxInv, InboxLatest
<1>3. CASE UNCHANGED messages
  BY <1>3 DEF messages, InboxInv, InboxLatest
<1> QED
  BY <1>1, <1>2, <1>3 DEF NextMessages, allVars

\* The inbox holds the latest messages in order and no more than queue_size of
\* them, for any queue size, zero for none included.
THEOREM InboxCorrect == MessagesSpec => []InboxLatest
<1>1. InitMessages => InboxInv
  BY QueueAssumption DEF InitMessages, InboxInv, InboxLatest
<1>2. InboxInv => InboxLatest
  BY DEF InboxInv
<1> QED
  BY <1>1, <1>2, InboxStep, PTL DEF MessagesSpec

=============================================================================
