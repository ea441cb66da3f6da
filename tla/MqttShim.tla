------------------------------ MODULE MqttShim ------------------------------
(***************************************************************************)
(* The MQTT service's connection: MqttShim (shim.py), the adapter between  *)
(* paho's callbacks and asyncio, and the service that starts, uses and     *)
(* stops it.                                                               *)
(*                                                                         *)
(* connect() is a coroutine that suspends twice, for the host name and for *)
(* the broker's answer.  Three kinds of task run it: the service's start,  *)
(* the reconnection loop and every D-Bus reconnect() call.  All of them    *)
(* share _client, _connect_result and the flags, and paho calls back       *)
(* whenever a socket of any client built so far has something to say.      *)
(*                                                                         *)
(* paho and the broker are external: a client's link opens, comes up, is   *)
(* refused or drops, and disconnect() is confirmed by a later callback.    *)
(***************************************************************************)
EXTENDS FiniteSets

CONSTANTS
    Users,          \* D-Bus reconnect() calls in flight at most
    Clients,        \* paho clients alive at a time at most
    Topics,         \* topics subscribed to at run time or in the configuration
    Configured,     \* [mqtt] subscribe_topics
    DirectUse       \* disconnect() is also called by itself

ASSUME ConfigAssumption == Configured \subseteq Topics
ASSUME DirectUseAssumption == DirectUse \in BOOLEAN
ASSUME TaskAssumption == {"init", "retry"} \cap Users = {}

Tasks == Users \cup {"init", "retry"}

VARIABLES
    client,         \* _client
    link,           \* what each paho client's connection is doing
    active,         \* topics the broker sends on each link
    connected,      \* _connected
    graceful,       \* _graceful
    shutdown,       \* _shutdown
    subscribed,     \* _subscribed
    at,             \* where each task is in its connect()
    result,         \* the future each task's connect() created last
    pending,        \* _connect_result: the task whose future it is
    waitsOn,        \* the task whose future each waiting task awaits
    stopped,        \* stop() has run
    \* History of the run: nothing in the code reads or writes these.
    wanted,         \* topics subscribed and not unsubscribed, as users saw it
    crossed,        \* the link was lost between an answer and its connect()
    unattended      \* no connect() saw the answer that the link came up with

shim == <<client, connected, graceful, shutdown, subscribed>>
conn == <<at, result, pending, waitsOn>>
wire == <<link, active>>
history == <<wanted, crossed, unattended>>
vars == <<client, link, active, connected, graceful, shutdown, subscribed,
          at, result, pending, waitsOn, stopped, wanted, crossed, unattended>>

Init ==
    \E c \in Clients :
        /\ client = c
        /\ link = [d \in Clients |-> "down"]
        /\ active = [d \in Clients |-> {}]
        /\ connected = FALSE /\ graceful = FALSE /\ shutdown = FALSE
        /\ subscribed = {}
        \* start_dbus() has called connect(), which awaits the host name.
        /\ at = [t \in Tasks |-> IF t = "init" THEN "resolving" ELSE "idle"]
        /\ result = [t \in Tasks |-> IF t = "init" THEN "pending" ELSE "none"]
        /\ pending = "init"
        /\ waitsOn = [t \in Tasks |-> t]
        /\ stopped = FALSE
        /\ wanted = {} /\ crossed = FALSE /\ unattended = FALSE

-----------------------------------------------------------------------------
(* Helpers of the shim.                                                    *)

\* _resolve_connect(): the first answer counts.
ResolveConnect(answer) ==
    result' = IF result[pending] = "pending"
              THEN [result EXCEPT ![pending] = answer] ELSE result

\* _schedule_reconnect(), within a step that leaves the tasks at "where".
ScheduleReconnect(where) ==
    at' = IF where["retry"] = "idle" THEN [where EXCEPT !["retry"] = "created"]
                                     ELSE where

\* A task awaits, or will await, a future that already holds a success.
Answered ==
    \E t \in Tasks : \/ at[t] = "waiting" /\ result[waitsOn[t]] = "yes"
                     \/ at[t] = "resolving" /\ result[pending] = "yes"

\* The connection is lost or replaced; a success not yet seen is now stale.
Disturb == crossed' = (crossed \/ Answered)

\* The links and topics after subscribe() of "ts" on the current client: paho
\* takes a request on any open socket, the broker honours it on a live link.
Accepts(isConnected) == isConnected /\ link[client] # "down"

Served(ts) == IF link[client] = "up"
              THEN [active EXCEPT ![client] = @ \cup ts] ELSE active

-----------------------------------------------------------------------------
(* paho's callbacks, on the current client or on one replaced since.       *)

\* _on_connect with a success code.
OnConnect(c) ==
    /\ link[c] = "opening"
    /\ link' = [link EXCEPT ![c] = "up"]
    /\ connected' = TRUE
    /\ ResolveConnect("yes")
    /\ unattended' = ~\E t \in Tasks : at[t] = "waiting" /\ waitsOn[t] = pending
                                       /\ result[pending] = "pending"
    /\ UNCHANGED <<client, graceful, shutdown, subscribed, active, at, pending,
                   waitsOn, stopped, wanted, crossed>>

\* _on_connect with a failure code; the broker then closes the connection.
OnRejected(c) ==
    /\ link[c] = "opening"
    /\ link' = [link EXCEPT ![c] = "closing"]
    /\ ResolveConnect("no")
    /\ UNCHANGED <<shim, active, at, pending, waitsOn, stopped, history>>

OnConnectFail(c) ==
    /\ link[c] = "opening"
    /\ link' = [link EXCEPT ![c] = "down"]
    /\ ResolveConnect("no")
    /\ UNCHANGED <<shim, active, at, pending, waitsOn, stopped, history>>

\* Mutant: the loop is scheduled whatever the flags say.
OnDisconnectRetries(c) ==
    /\ link[c] \in {"up", "closing"}
    /\ link' = [link EXCEPT ![c] = "down"]
    /\ active' = [active EXCEPT ![c] = {}]
    /\ connected' = FALSE
    /\ ResolveConnect("no")
    /\ ScheduleReconnect(at)
    /\ Disturb
    /\ UNCHANGED <<client, graceful, shutdown, subscribed, pending, waitsOn,
                   stopped, wanted, unattended>>

OnDisconnect(c) ==
    /\ link[c] \in {"up", "closing"}
    /\ link' = [link EXCEPT ![c] = "down"]
    /\ active' = [active EXCEPT ![c] = {}]
    /\ connected' = FALSE
    /\ ResolveConnect("no")
    /\ IF graceful \/ shutdown THEN UNCHANGED at ELSE ScheduleReconnect(at)
    /\ Disturb
    /\ UNCHANGED <<client, graceful, shutdown, subscribed, pending, waitsOn,
                   stopped, wanted, unattended>>

-----------------------------------------------------------------------------
(* connect()                                                               *)

\* Up to its first await: clear the flags, create the future.  A bound of the
\* model, not of the code: a future goes by the name of the task that created
\* it, so a task begins anew only when nobody else awaits its earlier one.
ConnectBegin(t) ==
    /\ \A u \in Tasks \ {t} : ~(at[u] = "waiting" /\ waitsOn[u] = t)
    /\ graceful' = FALSE /\ shutdown' = FALSE
    /\ result' = [result EXCEPT ![t] = "pending"]
    /\ pending' = t
    /\ at' = [at EXCEPT ![t] = "resolving"]

\* The host name is known: open the socket and await _connect_result, which
\* by now may be the future of a later call.
ConnectOpen(t) ==
    /\ at[t] = "resolving"
    /\ link' = [link EXCEPT ![client] = "opening"]
    /\ active' = [active EXCEPT ![client] = {}]
    /\ at' = [at EXCEPT ![t] = "waiting"]
    /\ waitsOn' = [waitsOn EXCEPT ![t] = pending]
    /\ Disturb
    /\ UNCHANGED <<shim, result, pending, stopped, wanted, unattended>>

\* Mutants of AfterFailure: nobody goes on, or everybody does.
AfterFailureGiveUp(t) == [at EXCEPT ![t] = "idle"]
AfterFailureLoop(t) ==
    [at EXCEPT ![t] = IF ~graceful /\ ~shutdown THEN "sleeping" ELSE "idle"]

\* Where a connect() that has failed leaves its task: only the loop goes on.
AfterFailure(t) ==
    [at EXCEPT ![t] = IF t = "retry" /\ ~graceful /\ ~shutdown
                      THEN "sleeping" ELSE "idle"]

\* The name does not resolve, or the socket does not open.
ConnectError(t) ==
    /\ at[t] = "resolving"
    /\ at' = AfterFailure(t)
    /\ UNCHANGED <<shim, wire, result, pending, waitsOn, stopped, history>>

\* Cancelling a task that awaits a future cancels the future as well.
CancelAwaited(t) ==
    result' = IF at[t] = "waiting" /\ result[waitsOn[t]] = "pending"
              THEN [result EXCEPT ![waitsOn[t]] = "cancelled"] ELSE result

\* connect_timeout_s has passed: wait_for() cancels what it awaits.  An answer
\* read in the same turn of the loop is not looked at any more.
ConnectTimeout(t) ==
    /\ at[t] = "waiting"
    /\ result[waitsOn[t]] # "cancelled"
    /\ CancelAwaited(t)
    /\ at' = AfterFailure(t)
    /\ unattended' = (unattended \/ result[waitsOn[t]] = "yes")
    /\ UNCHANGED <<shim, wire, pending, waitsOn, stopped, wanted, crossed>>

\* Another task's timeout cancelled the future: CancelledError ends this task.
ConnectCancelled(t) ==
    /\ at[t] = "waiting"
    /\ result[waitsOn[t]] = "cancelled"
    /\ at' = [at EXCEPT ![t] = "idle"]
    /\ UNCHANGED <<shim, wire, result, pending, waitsOn, stopped, history>>

\* Refused: keep trying, unless this was not to be a connection any more.
ConnectNo(t) ==
    /\ at[t] = "waiting"
    /\ result[waitsOn[t]] = "no"
    /\ IF graceful \/ shutdown THEN at' = AfterFailure(t)
                               ELSE ScheduleReconnect(AfterFailure(t))
    /\ UNCHANGED <<shim, wire, result, pending, waitsOn, stopped, history>>

\* Mutant: the topics are read after they have been cleared.
ResubscribedToNone == {}

\* _resubscribe(): forget every topic, then subscribe to each again.
Resubscribed == IF Accepts(connected) THEN subscribed ELSE {}

\* Mutant: the topics subscribed before are not asked for again.
ConnectYesNoResubscribe(t) ==
    LET fresh == IF t = "init" /\ Accepts(TRUE) THEN Configured ELSE {} IN
    /\ at[t] = "waiting"
    /\ result[waitsOn[t]] = "yes"
    /\ subscribed' = subscribed \cup fresh
    /\ active' = Served(fresh)
    /\ connected' = TRUE
    /\ at' = [at EXCEPT ![t] = "idle"]
    /\ wanted' = wanted \cup fresh
    /\ UNCHANGED <<client, graceful, shutdown, link, result, pending, waitsOn,
                   stopped, crossed, unattended>>

\* Connected.  start_dbus() subscribes to the configured topics as well.
ConnectYes(t) ==
    LET fresh == IF t = "init" /\ Accepts(TRUE) THEN Configured ELSE {} IN
    /\ at[t] = "waiting"
    /\ result[waitsOn[t]] = "yes"
    /\ subscribed' = Resubscribed \cup fresh
    /\ active' = Served(Resubscribed \cup fresh)
    /\ connected' = TRUE
    /\ at' = [at EXCEPT ![t] = "idle"]
    /\ wanted' = wanted \cup fresh
    /\ UNCHANGED <<client, graceful, shutdown, link, result, pending, waitsOn,
                   stopped, crossed, unattended>>

-----------------------------------------------------------------------------
(* The reconnection loop around connect().                                 *)

\* The loop's condition is tested when the task starts and after a failure...
RetryStart ==
    /\ at["retry"] = "created"
    /\ at' = [at EXCEPT !["retry"] =
                 IF graceful \/ shutdown THEN "idle" ELSE "sleeping"]
    /\ UNCHANGED <<shim, wire, result, pending, waitsOn, stopped, history>>

\* ... but not when the delay has passed.  It outlasts the turn or two of the
\* loop that a task with an answered future waits for.
RetryWake ==
    /\ at["retry"] = "sleeping"
    /\ \A t \in Tasks : at[t] = "waiting" => result[waitsOn[t]] = "pending"
    /\ ConnectBegin("retry")
    /\ UNCHANGED <<client, connected, subscribed, wire, waitsOn, stopped,
                   history>>

-----------------------------------------------------------------------------
(* Calls from D-Bus and from the service.                                  *)

\* client.disconnect(): the callback that confirms it comes later.
Closing == [link EXCEPT ![client] = IF @ = "down" THEN "down" ELSE "closing"]

\* reconnect(): disconnect, take a new client, and connect up to its await.
Reconnect(u) ==
    /\ at[u] = "idle"
    /\ \E c \in Clients \ {client} : link[c] = "down" /\ client' = c
    /\ link' = Closing
    /\ connected' = FALSE
    /\ ConnectBegin(u)
    /\ Disturb
    /\ UNCHANGED <<subscribed, active, waitsOn, stopped, wanted, unattended>>

Disconnect ==
    /\ DirectUse
    /\ graceful' = TRUE
    /\ link' = Closing
    /\ connected' = FALSE
    /\ Disturb
    /\ UNCHANGED <<client, shutdown, subscribed, active, conn, stopped, wanted,
                   unattended>>

Subscribe(topic) ==
    /\ Accepts(connected)
    /\ subscribed' = subscribed \cup {topic}
    /\ active' = Served({topic})
    /\ wanted' = wanted \cup {topic}
    /\ UNCHANGED <<client, connected, graceful, shutdown, link, conn, stopped,
                   crossed, unattended>>

Unsubscribe(topic) ==
    /\ Accepts(connected)
    /\ subscribed' = subscribed \ {topic}
    /\ active' = [active EXCEPT ![client] = @ \ {topic}]
    /\ wanted' = wanted \ {topic}
    /\ UNCHANGED <<client, connected, graceful, shutdown, link, conn, stopped,
                   crossed, unattended>>

\* close_loop(): cancel the loop, unsubscribe, disconnect.
Stop ==
    /\ at["init"] = "idle"
    /\ ~stopped
    /\ stopped' = TRUE
    /\ shutdown' = TRUE /\ graceful' = TRUE
    /\ CancelAwaited("retry")
    /\ at' = [at EXCEPT !["retry"] = "idle"]
    /\ IF Accepts(connected)
       THEN subscribed' = {} /\ wanted' = {}
            /\ active' = [active EXCEPT ![client] = {}]
       ELSE UNCHANGED <<subscribed, wanted, active>>
    /\ link' = Closing
    /\ connected' = FALSE
    /\ Disturb
    /\ UNCHANGED <<client, pending, waitsOn, unattended>>

-----------------------------------------------------------------------------
Paho == \E c \in Clients : \/ OnConnect(c) \/ OnRejected(c)
                           \/ OnConnectFail(c) \/ OnDisconnect(c)

Connect(t) == \/ ConnectOpen(t) \/ ConnectError(t) \/ ConnectTimeout(t)
              \/ ConnectCancelled(t) \/ ConnectNo(t) \/ ConnectYes(t)

Calls == \/ \E u \in Users : Reconnect(u)
         \/ \E topic \in Topics : Subscribe(topic) \/ Unsubscribe(topic)
         \/ Disconnect
         \/ Stop

Next == \/ Paho
        \/ \E t \in Tasks : Connect(t)
        \/ RetryStart \/ RetryWake
        \/ Calls

Spec == Init /\ [][Next]_vars

\* The event loop keeps running, timers expire, and a broker that is asked
\* again and again answers in time at last; nobody else has to act.
Fairness ==
    /\ WF_vars(RetryStart) /\ WF_vars(RetryWake)
    /\ \A t \in Tasks : /\ WF_vars(Connect(t))
                        /\ SF_vars(ConnectOpen(t)) /\ SF_vars(ConnectYes(t))
    /\ \A c \in Clients : SF_vars(OnConnect(c))

FairSpec == Spec /\ Fairness

-----------------------------------------------------------------------------
(* What makes the connection correct.                                      *)

Stages == {"idle", "resolving", "waiting", "created", "sleeping"}
Results == {"none", "pending", "yes", "no", "cancelled"}

\* Every variable keeps its type, and only the loop's task sleeps.
TypeOK ==
    /\ client \in Clients
    /\ link \in [Clients -> {"down", "opening", "up", "closing"}]
    /\ active \in [Clients -> SUBSET Topics]
    /\ connected \in BOOLEAN /\ graceful \in BOOLEAN /\ shutdown \in BOOLEAN
    /\ subscribed \in SUBSET Topics
    /\ at \in [Tasks -> Stages]
    /\ \A t \in Tasks \ {"retry"} : at[t] \notin {"created", "sleeping"}
    /\ result \in [Tasks -> Results]
    /\ pending \in Tasks
    /\ waitsOn \in [Tasks -> Tasks]
    /\ stopped \in BOOLEAN
    /\ wanted \in SUBSET Topics
    /\ crossed \in BOOLEAN /\ unattended \in BOOLEAN

\* No topic a user subscribed to is forgotten, and none comes back, however
\* many times the link drops and comes up again: _resubscribe() may lose the
\* set only if the link went while a success was waiting to be seen.
TopicsKept == ~crossed => wanted = subscribed

\* Once connect() has finished its work on a live link the broker sends every
\* topic of the set, unless no connect() saw that the link came up; and it
\* never sends one that status() does not list.
LinkServed ==
    link[client] = "up" /\ ~crossed =>
        /\ connected /\ ~Answered /\ ~unattended
               => subscribed \subseteq active[client]
        /\ active[client] \subseteq subscribed

\* stop() is final when nobody calls reconnect(): no loop, no connection, and
\* no late callback brings either back.
StopFinal ==
    Users = {} /\ stopped =>
        /\ ~connected
        /\ \A t \in Tasks : at[t] = "idle"

\* The loop gives up on nothing but a connection or the end of the service.
RetrySucceeds == at["retry"] # "idle" ~> connected \/ stopped
=============================================================================
