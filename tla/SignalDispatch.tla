--------------------------- MODULE SignalDispatch ---------------------------
(***************************************************************************)
(* How one rule of the signal-action middleware (signal_action.py) handles *)
(* the signals it receives: the bounded queue, the rule's dispatcher task, *)
(* the list of events whose action failed, and the rearm task that retries *)
(* them when the friend set changes.                                       *)
(*                                                                         *)
(* Both tasks run _dispatch_signal(), which suspends while it resolves the *)
(* targets and again while it calls them, so the two interleave.  Events   *)
(* are numbered in the order their signals arrive.                         *)
(***************************************************************************)
EXTENDS Naturals, Sequences, Functions

CONSTANTS
    MaxEvents,      \* bound: signals received
    QueueSize,      \* the rule's queue_size
    Persistent,     \* the rule's persistent flag
    MayEnd          \* the rule may be removed, or the service shut down

ASSUME SizeAssumption == MaxEvents \in Nat /\ QueueSize \in Nat \ {0}
ASSUME FlagAssumption == Persistent \in BOOLEAN /\ MayEnd \in BOOLEAN

VARIABLES
    received,   \* how many signals have arrived
    queue,      \* rule.queue
    pending,    \* rule.pending
    work,       \* what each task is doing, and with which event
    batch,      \* what is left of the copy of pending the rearm task retries
    ended,      \* the dispatcher has been cancelled
    acted       \* history: the events for which some action succeeded

vars == <<received, queue, pending, work, batch, ended, acted>>

Events == 1..MaxEvents
Workers == {"dispatcher", "rearm"}
Idle == [at |-> "idle", event |-> 0]
Resolving(e) == [at |-> "resolving", event |-> e]

Init ==
    /\ received = 0
    /\ queue = <<>> /\ pending = <<>>
    /\ work = [w \in Workers |-> Idle]
    /\ batch = <<>>
    /\ ended = FALSE
    /\ acted = {}

-----------------------------------------------------------------------------
\* Mutant: one element too many.
PushOneMore(s, e) == Append(IF Len(s) > QueueSize THEN Tail(s) ELSE s, e)

\* The sequence with e at its end and, if it was full, without its oldest.
PushDropOldest(s, e) ==
    Append(IF Len(s) >= QueueSize THEN Tail(s) ELSE s, e)

\* The signal callback: _enqueue() never blocks.
Signal ==
    /\ ~ended
    /\ received < MaxEvents
    /\ received' = received + 1
    /\ queue' = PushDropOldest(queue, received + 1)
    /\ UNCHANGED <<pending, work, batch, ended, acted>>

\* Mutant: the last event of the queue is left there.
TakeFromTwo ==
    /\ ~ended
    /\ work["dispatcher"] = Idle
    /\ Len(queue) > 1
    /\ work' = [work EXCEPT !["dispatcher"] = Resolving(Head(queue))]
    /\ queue' = Tail(queue)
    /\ UNCHANGED <<received, pending, batch, ended, acted>>

\* The dispatcher takes the next event and begins to resolve its targets.
Take ==
    /\ ~ended
    /\ work["dispatcher"] = Idle
    /\ queue # <<>>
    /\ work' = [work EXCEPT !["dispatcher"] = Resolving(Head(queue))]
    /\ queue' = Tail(queue)
    /\ UNCHANGED <<received, pending, batch, ended, acted>>

\* What task w does when it has done with its event: the dispatcher awaits
\* the queue, _retry_pending() goes on with its copy.
GoOn(w) ==
    IF w = "rearm" /\ batch # <<>>
    THEN /\ work' = [work EXCEPT ![w] = Resolving(Head(batch))]
         /\ batch' = Tail(batch)
    ELSE /\ work' = [work EXCEPT ![w] = Idle]
         /\ UNCHANGED batch

\* Only a persistent rule keeps the event for a retry.
Failed(w) ==
    /\ pending' = IF Persistent THEN PushDropOldest(pending, work[w].event)
                                ELSE pending
    /\ GoOn(w)
    /\ UNCHANGED <<received, queue, ended, acted>>

NoTarget(w) ==
    /\ work[w].at = "resolving"
    /\ Failed(w)

\* The targets are known: call them all at once.
Call(w) ==
    /\ work[w].at = "resolving"
    /\ work' = [work EXCEPT ![w].at = "acting"]
    /\ UNCHANGED <<received, queue, pending, batch, ended, acted>>

\* Mutant: the event is kept for a retry unless every target succeeded.
OutcomeOfAll(w, any, every) ==
    /\ work[w].at = "acting"
    /\ every => any
    /\ acted' = IF any THEN acted \cup {work[w].event} ELSE acted
    /\ pending' = IF Persistent /\ ~every
                  THEN PushDropOldest(pending, work[w].event) ELSE pending
    /\ GoOn(w)
    /\ UNCHANGED <<received, queue, ended>>

\* Every call has returned: "any" tells whether one of them succeeded, and
\* "every" whether all did.
Outcome(w, any, every) ==
    /\ work[w].at = "acting"
    /\ every => any
    /\ IF any
       THEN /\ acted' = acted \cup {work[w].event}
            /\ GoOn(w)
            /\ UNCHANGED <<received, queue, pending, ended>>
       ELSE Failed(w)

\* Mutant: the events retried stay in the list.
RetryWithoutClear ==
    /\ work["rearm"] = Idle
    /\ pending # <<>>
    /\ work' = [work EXCEPT !["rearm"] = Resolving(Head(pending))]
    /\ batch' = Tail(pending)
    /\ UNCHANGED <<received, queue, pending, ended, acted>>

\* The friend set has changed and the rule is armed again: retry what failed.
Retry ==
    /\ work["rearm"] = Idle
    /\ pending # <<>>
    /\ work' = [work EXCEPT !["rearm"] = Resolving(Head(pending))]
    /\ batch' = Tail(pending)
    /\ pending' = <<>>
    /\ UNCHANGED <<received, queue, ended, acted>>

\* remove_rule() cancels the dispatcher, teardown() the rearm task as well.
End(rearmToo) ==
    /\ MayEnd /\ ~ended
    /\ ended' = TRUE
    /\ work' = [w \in Workers |-> IF w = "dispatcher" \/ rearmToo
                                  THEN Idle ELSE work[w]]
    /\ batch' = IF rearmToo THEN <<>> ELSE batch
    /\ UNCHANGED <<received, queue, pending, acted>>

Step(w) == \/ NoTarget(w) \/ Call(w)
           \/ \E any, every \in BOOLEAN : Outcome(w, any, every)

Next == \/ Signal \/ Take \/ Retry
        \/ \E w \in Workers : Step(w)
        \/ \E rearmToo \in BOOLEAN : End(rearmToo)

Spec == Init /\ [][Next]_vars

\* Tasks run on, peers come and go again and again, and a target that is
\* called again and again is there and succeeds at last.
Fairness ==
    /\ WF_vars(Take) /\ WF_vars(Retry)
    /\ \A w \in Workers : /\ WF_vars(Step(w)) /\ SF_vars(Call(w))
                          /\ SF_vars(Outcome(w, TRUE, TRUE))

FairSpec == Spec /\ Fairness

-----------------------------------------------------------------------------
(* What makes dispatching correct.                                         *)

InWork == {work[w].event : w \in Workers} \ {0}
Kept == Range(queue) \cup Range(pending) \cup Range(batch) \cup InWork

\* Every variable keeps its type; queue and pending stay within queue_size,
\* whichever task adds to them while the other one is suspended.
TypeOK ==
    /\ received \in 0..MaxEvents
    /\ queue \in Seq(Events) /\ Len(queue) <= QueueSize
    /\ pending \in Seq(Events) /\ Len(pending) <= QueueSize
    /\ batch \in Seq(Events)
    /\ work \in [Workers -> [at: {"idle", "resolving", "acting"},
                             event: 0..MaxEvents]]
    /\ ended \in BOOLEAN
    /\ acted \in SUBSET Events

\* The queue always holds the latest signals, all of them and in their order:
\* overflow drops the oldest, and no retry is put back in front of them.  No
\* event is in two places: a failed event is not retried while a copy of
\* it is queued, under way or waiting for another retry.
EachEventOnce ==
    /\ \A i \in DOMAIN queue : queue[i] = received - Len(queue) + i
    /\ \A i, j \in DOMAIN pending : pending[i] = pending[j] => i = j
    /\ \A i, j \in DOMAIN batch : batch[i] = batch[j] => i = j
    /\ Range(queue) \cap (Range(pending) \cup Range(batch) \cup InWork) = {}
    /\ Range(pending) \cap (Range(batch) \cup InWork) = {}
    /\ Range(batch) \cap InWork = {}
    /\ work["dispatcher"] # Idle =>
           work["dispatcher"].event # work["rearm"].event

\* What has become of an event; "retaken" is a fate Delivery does not know.
Fate(e) == CASE e > received              -> "new"
             [] e \in acted \cap Kept     -> "retaken"
             [] e \in acted \ Kept        -> "acted"
             [] e \in Kept \ acted        -> "held"
             [] OTHER                     -> "lost"

D == INSTANCE Delivery WITH fate <- [e \in Events |-> Fate(e)]

\* Each event is received once and in order, acted on at most once, and once
\* acted on or lost it is never taken up again, whichever task handled it,
\* whatever failed before and whichever target failed beside one that succeeded.
DeliversOnce == D!Spec

\* As long as the rule lives, every event of a persistent rule is acted on or
\* dropped for newer ones: none is held for ever.
EveryEventSettles ==
    \A e \in Events : e \in Kept ~> e \notin Kept \/ ended

=============================================================================
