---------------------------- MODULE MqttMessages ----------------------------
(***************************************************************************)
(* What the MQTT service receives: paho hands each message to              *)
(* _on_message() (shim.py), which queues it, and the task mqtt_messages    *)
(* (service.py) announces one after the other.  The queue belongs to the   *)
(* shim and not to a connection: links and clients come and go beneath it. *)
(***************************************************************************)
EXTENDS MqttShim, Naturals, Sequences

CONSTANTS
    QueueSize,      \* [mqtt] queue_size, 0 for no limit
    MaxMessages     \* bound: messages the broker sends

ASSUME QueueAssumption == QueueSize \in Nat /\ MaxMessages \in Nat

VARIABLES
    inbox,          \* _messages
    arrived         \* history: how many messages have come in

messages == <<inbox, arrived>>
allVars == <<vars, messages>>

Full == QueueSize # 0 /\ Len(inbox) >= QueueSize

\* Mutant: the message that finds the queue full is dropped.
OnMessageDropNewest(c) ==
    /\ link[c] \in {"up", "closing"} /\ active[c] # {}
    /\ arrived < MaxMessages
    /\ arrived' = arrived + 1
    /\ inbox' = IF Full THEN inbox ELSE Append(inbox, arrived')
    /\ UNCHANGED vars

\* _on_message(), on the current client or one replaced since, until its
\* connection is closed: a full queue drops its oldest message.
OnMessage(c) ==
    /\ link[c] \in {"up", "closing"} /\ active[c] # {}
    /\ arrived < MaxMessages
    /\ arrived' = arrived + 1
    /\ inbox' = Append(IF Full THEN Tail(inbox) ELSE inbox, arrived')
    /\ UNCHANGED vars

\* update_tasks() starts mqtt_messages once start_dbus() has returned.
ConsumeMessages ==
    /\ at["init"] = "idle" /\ inbox # <<>>
    /\ inbox' = Tail(inbox)
    /\ UNCHANGED <<vars, arrived>>

InitMessages == Init /\ inbox = <<>> /\ arrived = 0

NextMessages ==
    \/ Next /\ UNCHANGED messages
    \/ \E c \in Clients : OnMessage(c)
    \/ ConsumeMessages

\* The service's tasks run on, as in MqttShim.
MessagesSpec ==
    InitMessages /\ [][NextMessages]_allVars /\ Fairness /\ WF_allVars(ConsumeMessages)

-----------------------------------------------------------------------------
(* What makes the queue correct.                                           *)

\* The queue holds the latest messages, all of them and in order, and no more
\* than queue_size of them, whatever happens to the connection.
InboxLatest ==
    /\ QueueSize # 0 => Len(inbox) <= QueueSize
    /\ \A i \in DOMAIN inbox : inbox[i] = arrived - Len(inbox) + i
=============================================================================
