------------------------ MODULE SignalDispatch_proof ------------------------
(***************************************************************************)
(* Proofs about SignalDispatch for every queue size and any number of      *)
(* signals: no event is in two places, and a rule delivers what Delivery   *)
(* promises.                                                               *)
(***************************************************************************)
EXTENDS SignalDispatch, SequenceTheorems, TLAPS

-----------------------------------------------------------------------------
(* Sequences of events, as the sets of what they hold.                     *)

Distinct(s) == \A i, j \in DOMAIN s : s[i] = s[j] => i = j

LEMMA EmptySequence ==
    /\ <<>> \in Seq(Events) /\ Len(<<>>) = 0
    /\ Distinct(<<>>) /\ Range(<<>>) = {}
BY DEF Distinct, Range

LEMMA HeadAndTail ==
    ASSUME NEW s \in Seq(Events), s # <<>>
    PROVE  /\ Head(s) \in Events /\ Tail(s) \in Seq(Events)
           /\ Len(Tail(s)) = Len(s) - 1
           /\ Range(s) = {Head(s)} \cup Range(Tail(s))
           /\ Distinct(s) => Distinct(Tail(s)) /\ Head(s) \notin Range(Tail(s))
<1>1. /\ Head(s) \in Events /\ Tail(s) \in Seq(Events)
      /\ Len(Tail(s)) = Len(s) - 1 /\ Len(s) > 0
      /\ Head(s) = s[1]
      /\ \A i \in 1 .. Len(s) - 1 : Tail(s)[i] = s[i + 1]
  OBVIOUS
<1>2. DOMAIN s = 1 .. Len(s) /\ DOMAIN Tail(s) = 1 .. Len(s) - 1
  BY <1>1
<1>3. \A i \in 2 .. Len(s) : Tail(s)[i - 1] = s[i]
  BY <1>1
<1>4. Range(s) = {Head(s)} \cup Range(Tail(s))
  <2>1. ASSUME NEW i \in 1 .. Len(s) PROVE s[i] \in {Head(s)} \cup Range(Tail(s))
    <3>1. CASE i = 1
      BY <1>1, <3>1
    <3>2. CASE i # 1
      <4>1. i - 1 \in DOMAIN Tail(s) /\ Tail(s)[i - 1] = s[i]
        BY <1>2, <1>3, <3>2
      <4> QED
        BY <4>1 DEF Range
    <3> QED
      BY <3>1, <3>2
  <2>2. ASSUME NEW i \in 1 .. Len(s) - 1 PROVE Tail(s)[i] \in Range(s)
    <3>1. i + 1 \in DOMAIN s /\ Tail(s)[i] = s[i + 1]
      BY <1>1, <1>2
    <3> QED
      BY <3>1 DEF Range
  <2>3. Head(s) \in Range(s)
    BY <1>1, <1>2 DEF Range
  <2> QED
    BY <1>2, <2>1, <2>2, <2>3 DEF Range
<1>5. ASSUME Distinct(s) PROVE Distinct(Tail(s)) /\ Head(s) \notin Range(Tail(s))
  <2>1. \A i \in DOMAIN Tail(s) : i + 1 \in DOMAIN s /\ i + 1 # 1 /\ Tail(s)[i] = s[i + 1]
    BY <1>1, <1>2
  <2>2. Distinct(Tail(s))
    BY <1>2, <1>5, <2>1 DEF Distinct
  <2>3. ASSUME NEW i \in DOMAIN Tail(s) PROVE Tail(s)[i] # Head(s)
    BY <1>1, <1>2, <1>5, <2>1 DEF Distinct
  <2> QED
    BY <2>2, <2>3 DEF Range
<1> QED
  BY <1>1, <1>4, <1>5

LEMMA Appended ==
    ASSUME NEW s \in Seq(Events), NEW e \in Events
    PROVE  /\ Append(s, e) \in Seq(Events) /\ Len(Append(s, e)) = Len(s) + 1
           /\ Range(Append(s, e)) = Range(s) \cup {e}
           /\ Distinct(s) /\ e \notin Range(s) => Distinct(Append(s, e))
<1> DEFINE t == Append(s, e)
<1>1. /\ t \in Seq(Events) /\ Len(t) = Len(s) + 1 /\ Len(s) \in Nat
      /\ \A i \in 1 .. Len(s) : t[i] = s[i]
      /\ t[Len(s) + 1] = e
  BY AppendProperties, LenProperties
<1>2. DOMAIN s = 1 .. Len(s) /\ DOMAIN t = 1 .. Len(s) + 1
  BY <1>1, LenProperties
<1> HIDE DEF t
<1>3. Range(t) = Range(s) \cup {e}
  <2>1. \A i \in DOMAIN t : i \in DOMAIN s \/ i = Len(s) + 1
    BY <1>1, <1>2
  <2>2. Len(s) + 1 \in DOMAIN t /\ DOMAIN s \subseteq DOMAIN t
    BY <1>1, <1>2
  <2> QED
    BY <1>1, <1>2, <2>1, <2>2 DEF Range
<1>4. ASSUME Distinct(s), e \notin Range(s) PROVE Distinct(t)
  <2>1. \A i \in DOMAIN s : t[i] # e
    BY <1>1, <1>2, <1>4 DEF Range
  <2> QED
    BY <1>1, <1>2, <1>4, <2>1 DEF Distinct
<1> QED
  BY <1>1, <1>3, <1>4 DEF t

\* What room is made for: all but the oldest, if the sequence is full.
Room(s) == IF Len(s) >= QueueSize THEN Tail(s) ELSE s

LEMMA Roomy ==
    ASSUME NEW s \in Seq(Events), Len(s) <= QueueSize
    PROVE  /\ Room(s) \in Seq(Events) /\ Len(Room(s)) < QueueSize
           /\ Range(Room(s)) \subseteq Range(s)
           /\ Distinct(s) => Distinct(Room(s))
           /\ \/ Range(s) = Range(Room(s))
              \/ \E old \in Range(s) : Range(s) = {old} \cup Range(Room(s))
<1>1. Len(s) \in Nat /\ QueueSize \in Nat \ {0}
  BY SizeAssumption, LenProperties
<1>2. CASE Len(s) >= QueueSize
  <2>1. s # <<>>
    BY <1>1, <1>2, EmptySequence
  <2>2. /\ Tail(s) \in Seq(Events) /\ Len(Tail(s)) < QueueSize
        /\ Range(s) = {Head(s)} \cup Range(Tail(s))
        /\ Distinct(s) => Distinct(Tail(s))
    BY <1>1, <1>2, <2>1, HeadAndTail
  <2>3. Head(s) \in Range(s) /\ Room(s) = Tail(s)
    BY <1>2, <2>2 DEF Room
  <2> QED
    BY <2>2, <2>3, Zenon
<1>3. CASE ~(Len(s) >= QueueSize)
  BY <1>1, <1>3 DEF Room
<1> QED
  BY <1>2, <1>3

LEMMA Pushed ==
    ASSUME NEW s \in Seq(Events), Len(s) <= QueueSize, NEW e \in Events
    PROVE  LET t == PushDropOldest(s, e)
           IN /\ t \in Seq(Events) /\ Len(t) <= QueueSize
              /\ Range(t) = Range(Room(s)) \cup {e}
              /\ Distinct(s) /\ e \notin Range(s) => Distinct(t)
<1>1. PushDropOldest(s, e) = Append(Room(s), e)
  BY DEF PushDropOldest, Room
<1>2. Len(Room(s)) \in Nat /\ QueueSize \in Nat
  BY Roomy, SizeAssumption, LenProperties
<1> QED
  BY <1>1, <1>2, Roomy, Appended

-----------------------------------------------------------------------------
(* The inductive invariant: a task that works has an event, nothing is held *)
(* before its signal came or after it was acted on, and nothing twice.     *)

Latest == \A i \in DOMAIN queue : queue[i] = received - Len(queue) + i

Apart ==
    /\ Distinct(pending) /\ Distinct(batch)
    /\ Range(queue) \cap (Range(pending) \cup Range(batch) \cup InWork) = {}
    /\ Range(pending) \cap (Range(batch) \cup InWork) = {}
    /\ Range(batch) \cap InWork = {}
    /\ work["dispatcher"].event # 0 =>
           work["dispatcher"].event # work["rearm"].event

Busy == \A w \in Workers : work[w].at = "idle" <=> work[w].event = 0

Past == /\ Kept \subseteq 1 .. received
        /\ acted \subseteq 1 .. received
        /\ Kept \cap acted = {}

IInv == TypeOK /\ Latest /\ Apart /\ Busy /\ Past

LEMMA Hands == InWork = {work["dispatcher"].event, work["rearm"].event} \ {0}
BY DEF InWork, Workers

LEMMA HandsPrime == InWork' = {work'["dispatcher"].event, work'["rearm"].event} \ {0}
BY DEF InWork, Workers

\* A task is idle exactly if it has no event.
LEMMA IdleExact ==
    ASSUME TypeOK, Busy, NEW w \in Workers
    PROVE  work[w] = Idle <=> work[w].event = 0
BY DEF TypeOK, Busy, Idle

LEMMA Implied == IInv => EachEventOnce
<1> SUFFICES ASSUME IInv PROVE EachEventOnce
  OBVIOUS
<1>1. work["dispatcher"] # Idle => work["dispatcher"].event # 0
  BY IdleExact DEF IInv, Workers
<1> QED
  BY <1>1 DEF IInv, Latest, Apart, Distinct, EachEventOnce

\* Nothing has happened to a rule that was just armed.
LEMMA InitInv == Init => IInv
<1> SUFFICES ASSUME Init PROVE IInv
  OBVIOUS
<1>1. TypeOK
  <2>1. Idle \in [at: {"idle", "resolving", "acting"}, event: 0..MaxEvents]
    BY SizeAssumption DEF Idle
  <2>2. 0 \in 0..MaxEvents /\ 0 <= QueueSize
    BY SizeAssumption
  <2> QED
    BY <2>1, <2>2, EmptySequence DEF Init, TypeOK
<1>2. InWork = {}
  BY Hands DEF Init, Idle, Workers
<1>3. Latest /\ Apart
  BY <1>2, EmptySequence DEF Init, Latest, Apart, Idle, Workers
<1>4. Busy
  BY DEF Init, Busy, Idle
<1>5. Past
  BY <1>2, EmptySequence DEF Init, Past, Kept
<1> QED
  BY <1>1, <1>3, <1>4, <1>5 DEF IInv

LEMMA LastHeld ==
    ASSUME TypeOK, Latest, Past, queue # <<>>
    PROVE  /\ Distinct(queue)
           /\ Head(queue) \in Events
<1>1. Len(queue) \in Nat /\ DOMAIN queue = 1 .. Len(queue) /\ received \in Nat
  BY SizeAssumption, LenProperties DEF TypeOK
<1>2. Distinct(queue)
  BY <1>1 DEF Latest, Distinct
<1> QED
  BY <1>2, HeadAndTail DEF TypeOK

-----------------------------------------------------------------------------
(* A task that is done with its event.                                     *)

\* The events in the rearm task's hands are those before without this one.
LEMMA Gone ==
    ASSUME TypeOK, Apart, Busy, NEW w \in Workers, work[w].event # 0, GoOn(w)
    PROVE  /\ work' \in [Workers -> [at: {"idle", "resolving", "acting"},
                                     event: 0..MaxEvents]]
           /\ batch' \in Seq(Events) /\ Distinct(batch')
           /\ Busy'
           /\ Range(batch') \cup InWork'
                  = (Range(batch) \cup InWork) \ {work[w].event}
           /\ Range(batch') \cap InWork' = {}
           /\ work'["dispatcher"].event # 0 =>
                  work'["dispatcher"].event # work'["rearm"].event
<1> DEFINE Type == [at: {"idle", "resolving", "acting"}, event: 0..MaxEvents]
           e == work[w].event
<1>1. work \in [Workers -> Type] /\ e \in InWork /\ e \notin Range(batch)
  BY DEF TypeOK, Apart, InWork
<1>2. CASE w = "rearm" /\ batch # <<>>
  <2>1. /\ Head(batch) \in Events /\ Tail(batch) \in Seq(Events)
        /\ Range(batch) = {Head(batch)} \cup Range(Tail(batch))
        /\ Distinct(Tail(batch)) /\ Head(batch) \notin Range(Tail(batch))
    BY <1>2, HeadAndTail DEF TypeOK, Apart
  <2>2. /\ batch' = Tail(batch)
        /\ work' = [work EXCEPT !["rearm"] = Resolving(Head(batch))]
    BY <1>2 DEF GoOn
  <2>3. Resolving(Head(batch)) \in Type /\ Head(batch) # 0
    BY <2>1, SizeAssumption DEF Resolving, Events
  <2>4. /\ work' \in [Workers -> Type]
        /\ work'["rearm"] = Resolving(Head(batch))
        /\ work'["dispatcher"] = work["dispatcher"]
    BY <1>1, <2>2, <2>3 DEF Workers
  <2>5. /\ work'["rearm"].event = Head(batch)
        /\ work'["rearm"].at = "resolving"
    BY <2>4 DEF Resolving
  <2>6. Busy'
    BY <2>3, <2>4, <2>5 DEF Busy, Workers
  <2>7. /\ InWork = {work["dispatcher"].event, e} \ {0}
        /\ InWork' = {work["dispatcher"].event, Head(batch)} \ {0}
        /\ work["dispatcher"].event # 0 => work["dispatcher"].event # e
    BY <1>2, <2>4, <2>5, Hands, HandsPrime DEF Apart
  <2>8. work["dispatcher"].event # 0 => work["dispatcher"].event \notin Range(batch)
    BY <2>7 DEF Apart
  <2> QED
    BY <1>1, <2>1, <2>2, <2>3, <2>4, <2>5, <2>6, <2>7, <2>8
<1>3. CASE ~(w = "rearm" /\ batch # <<>>)
  <2>1. batch' = batch /\ work' = [work EXCEPT ![w] = Idle]
    BY <1>3 DEF GoOn
  <2>2. Idle \in Type /\ Idle.at = "idle" /\ Idle.event = 0
    BY SizeAssumption DEF Idle
  <2>3. /\ work' \in [Workers -> Type] /\ work'[w] = Idle
        /\ \A v \in Workers \ {w} : work'[v] = work[v]
    BY <1>1, <2>1, <2>2
  <2>4. Busy'
    BY <2>2, <2>3 DEF Busy
  <2>5. InWork' = InWork \ {e}
    <3>1. CASE w = "dispatcher"
      BY <2>2, <2>3, <3>1, Hands, HandsPrime DEF Apart, Workers
    <3>2. CASE w = "rearm"
      BY <2>2, <2>3, <3>2, Hands, HandsPrime DEF Apart, Workers
    <3> QED
      BY <3>1, <3>2 DEF Workers
  <2>6. work'["dispatcher"].event # 0 =>
            work'["dispatcher"].event # work'["rearm"].event
    BY <2>2, <2>3 DEF Apart, Workers
  <2> QED
    BY <1>1, <2>1, <2>3, <2>4, <2>5, <2>6 DEF Apart, TypeOK
<1> QED
  BY <1>2, <1>3

\* Whatever became of the event: acted on, kept for a retry, or given up.
LEMMA DoneWith ==
    ASSUME IInv, NEW w \in Workers, work[w].event # 0, GoOn(w),
           UNCHANGED <<received, queue, ended>>,
           pending' \in Seq(Events), Len(pending') <= QueueSize,
           work[w].event \notin Range(pending) => Distinct(pending'),
           \/ /\ acted' = acted
              /\ Range(pending') \subseteq Range(pending) \cup {work[w].event}
           \/ /\ acted' = acted \cup {work[w].event}
              /\ pending' = pending
    PROVE  IInv' /\ (acted' = acted => Kept' \subseteq Kept)
                 /\ (acted' # acted => Kept' = Kept \ {work[w].event})
<1> DEFINE e == work[w].event
           Rest == Range(batch) \cup InWork
<1>1. e \in InWork /\ e \in Events
  BY SizeAssumption DEF IInv, TypeOK, InWork, Events
<1>2. e \notin Range(pending) /\ e \notin Range(queue)
  BY <1>1 DEF IInv, Apart
<1>3. /\ Range(batch') \cup InWork' = Rest \ {e}
      /\ Range(batch') \cap InWork' = {}
      /\ Busy' /\ Distinct(batch')
  BY Gone DEF IInv
<1>4. TypeOK'
  <2>1. acted' \in SUBSET Events
    BY <1>1 DEF IInv, TypeOK
  <2> QED
    BY <2>1, Gone DEF IInv, TypeOK
<1>5. Latest'
  BY DEF IInv, Latest
<1>6. Apart'
  <2>1. /\ Range(queue) \cap (Range(pending) \cup Rest) = {}
        /\ Range(pending) \cap Rest = {}
    BY DEF IInv, Apart
  <2>2. Range(pending') \subseteq Range(pending) \cup {e}
    OBVIOUS
  <2>3. Range(queue') \cap (Range(pending') \cup Range(batch') \cup InWork') = {}
    BY <1>2, <1>3, <2>1, <2>2
  <2>4. Range(pending') \cap (Range(batch') \cup InWork') = {}
    BY <1>3, <2>1, <2>2
  <2>5. Distinct(pending')
    BY <1>2
  <2> QED
    BY <1>3, <2>3, <2>4, <2>5, Gone DEF IInv, Apart
<1>7. /\ acted' = acted => Kept' \subseteq Kept
      /\ acted' # acted => Kept' = Kept \ {e}
  <2>1. Kept = Range(queue) \cup Range(pending) \cup Rest
    BY DEF Kept
  <2>2. Kept' = Range(queue) \cup Range(pending') \cup (Rest \ {e})
    BY <1>3 DEF Kept
  <2> QED
    BY <1>1, <1>2, <2>1, <2>2
<1>8. Past'
  <2>1. e \in Kept /\ acted' \subseteq acted \cup {e}
    BY <1>1 DEF Kept
  <2>2. Kept' \subseteq Kept
    BY <1>7
  <2>3. Kept' \cap acted' = {}
    BY <1>7, <2>1, <2>2 DEF IInv, Past
  <2> QED
    BY <2>1, <2>2, <2>3 DEF IInv, Past
<1> QED
  BY <1>3, <1>4, <1>5, <1>6, <1>7, <1>8 DEF IInv

-----------------------------------------------------------------------------
(* Every step keeps the invariant, and its effect on what is held.         *)

\* Some held event is no longer held, or none.
Drops == received' = received /\ acted' = acted /\ Kept' \subseteq Kept

\* A held event was acted on.
Acts(e) == /\ e \in Kept
           /\ received' = received /\ acted' = acted \cup {e}
           /\ Kept' = Kept \ {e}

\* A signal came, and may have pushed one out.
Comes(e) == /\ e = received + 1 /\ e \in Events
            /\ received' = e /\ acted' = acted
            /\ \/ Kept' = Kept \cup {e}
               \/ \E old \in Kept : Kept' = (Kept \ {old}) \cup {e}

Effect == Drops \/ \E e \in Events : Acts(e) \/ Comes(e)

LEMMA SignalStep == IInv /\ Signal => IInv' /\ Effect
<1> SUFFICES ASSUME IInv, Signal PROVE IInv' /\ Effect
  OBVIOUS
<1> DEFINE e == received + 1
           Others == Range(pending) \cup Range(batch) \cup InWork
<1>1. received \in Nat /\ e \in Events /\ e \notin Kept /\ e \notin acted
  BY SizeAssumption DEF IInv, TypeOK, Signal, Past, Events
<1>2. /\ queue' \in Seq(Events) /\ Len(queue') <= QueueSize
      /\ Range(queue') = Range(Room(queue)) \cup {e}
  BY <1>1, Pushed DEF IInv, TypeOK, Signal
<1>3. TypeOK'
  BY <1>1, <1>2, SizeAssumption DEF IInv, TypeOK, Signal, Events
<1>4. Latest'
  <2>1. /\ Len(queue) \in Nat /\ QueueSize \in Nat \ {0}
        /\ DOMAIN queue = 1 .. Len(queue)
    BY SizeAssumption, LenProperties DEF IInv, TypeOK
  <2>2. CASE Len(queue) >= QueueSize
    <3>1. queue # <<>>
      BY <2>1, <2>2, EmptySequence
    <3>2. /\ Tail(queue) \in Seq(Events) /\ Len(Tail(queue)) = Len(queue) - 1
          /\ \A i \in 1 .. Len(queue) - 1 : Tail(queue)[i] = queue[i + 1]
      BY <2>1, <3>1 DEF IInv, TypeOK
    <3>3. /\ queue' = Append(Tail(queue), e)
      BY <2>2 DEF Signal, PushDropOldest
    <3>4. /\ DOMAIN queue' = 1 .. Len(queue) /\ Len(queue') = Len(queue)
          /\ \A i \in 1 .. Len(queue) - 1 : queue'[i] = queue[i + 1]
          /\ queue'[Len(queue)] = e
      BY <1>1, <2>1, <3>1, <3>2, <3>3
    <3> QED
      BY <1>1, <2>1, <3>4 DEF IInv, Latest, Signal
  <2>3. CASE ~(Len(queue) >= QueueSize)
    <3>1. queue' = Append(queue, e)
      BY <2>3 DEF Signal, PushDropOldest
    <3>2. /\ DOMAIN queue' = 1 .. Len(queue) + 1 /\ Len(queue') = Len(queue) + 1
          /\ \A i \in 1 .. Len(queue) : queue'[i] = queue[i]
          /\ queue'[Len(queue) + 1] = e
      BY <1>1, <2>1, <3>1 DEF IInv, TypeOK
    <3>3. received' = received + 1 /\ received' - Len(queue') = received - Len(queue)
      BY <1>1, <2>1, <3>2 DEF Signal
    <3>4. \A i \in 1 .. Len(queue) : queue'[i] = received - Len(queue) + i
      BY <2>1, <3>2 DEF IInv, Latest
    <3>5. \A i \in DOMAIN queue' : i \in 1 .. Len(queue) \/ i = Len(queue) + 1
      BY <2>1, <3>2
    <3>6. e = received - Len(queue) + (Len(queue) + 1)
      BY <1>1, <2>1
    <3> QED
      BY <3>2, <3>3, <3>4, <3>5, <3>6 DEF Latest
  <2> QED
    BY <2>2, <2>3
<1>5. InWork' = InWork
  BY DEF Signal, InWork
<1>6. /\ Range(Room(queue)) \subseteq Range(queue)
      /\ \/ Range(queue) = Range(Room(queue))
         \/ \E old \in Range(queue) : Range(queue) = {old} \cup Range(Room(queue))
  BY Roomy DEF IInv, TypeOK
<1>7. Apart'
  <2>1. e \notin Others
    BY <1>1 DEF Kept
  <2>2. Range(queue') \cap Others = {}
    BY <1>2, <1>6, <2>1 DEF IInv, Apart
  <2> QED
    BY <1>5, <2>2 DEF IInv, Apart, Signal
<1>8. Busy'
  BY DEF IInv, Busy, Signal
<1>9. /\ Kept = Range(queue) \cup Others
      /\ Kept' = Range(Room(queue)) \cup {e} \cup Others
  BY <1>2, <1>5 DEF Kept, Signal
<1>10. Past'
  <2>1. Kept' \subseteq Kept \cup {e}
    BY <1>6, <1>9
  <2> QED
    BY <1>1, <2>1 DEF IInv, Past, Signal
<1>11. Comes(e)
  <2>1. CASE Range(queue) = Range(Room(queue))
    BY <1>1, <1>9, <2>1 DEF Comes, Signal
  <2>2. ASSUME NEW old \in Range(queue),
               Range(queue) = {old} \cup Range(Room(queue))
        PROVE  Comes(e)
    <3>1. old \in Kept /\ old # e
      BY <1>1, <1>9
    <3>2. CASE old \in Kept'
      <4>1. Kept' = Kept \cup {e}
        BY <1>9, <2>2, <3>2
      <4> QED
        BY <1>1, <4>1 DEF Comes, Signal
    <3>3. CASE old \notin Kept'
      <4>1. Kept' = (Kept \ {old}) \cup {e}
        BY <1>9, <2>2, <3>1, <3>3
      <4> QED
        BY <1>1, <3>1, <4>1 DEF Comes, Signal
    <3> QED
      BY <3>2, <3>3
  <2> QED
    BY <1>6, <2>1, <2>2
<1> QED
  BY <1>1, <1>3, <1>4, <1>7, <1>8, <1>10, <1>11 DEF IInv, Effect

LEMMA TakeStep == IInv /\ Take => IInv' /\ Effect
<1> SUFFICES ASSUME IInv, Take PROVE IInv' /\ Effect
  OBVIOUS
<1> DEFINE e == Head(queue)
<1>1. /\ e \in Events /\ Tail(queue) \in Seq(Events)
      /\ Len(queue) \in Nat /\ Len(queue) > 0
      /\ Len(Tail(queue)) = Len(queue) - 1
      /\ Range(queue) = {e} \cup Range(Tail(queue))
      /\ e \notin Range(Tail(queue))
  BY LastHeld, HeadAndTail, LenProperties DEF IInv, TypeOK, Take
<1>2. /\ work["dispatcher"].event = 0 /\ e # 0
      /\ Resolving(e) \in [at: {"idle", "resolving", "acting"},
                           event: 0..MaxEvents]
  BY <1>1, SizeAssumption DEF Take, Idle, Resolving, Events
<1>3. /\ work' \in [Workers -> [at: {"idle", "resolving", "acting"},
                                event: 0..MaxEvents]]
      /\ work'["dispatcher"] = Resolving(e)
      /\ work'["rearm"] = work["rearm"]
      /\ work'["dispatcher"].event = e /\ work'["dispatcher"].at = "resolving"
  BY <1>2 DEF IInv, TypeOK, Take, Workers, Resolving
<1>4. InWork' = InWork \cup {e}
  BY <1>2, <1>3, Hands, HandsPrime
<1>5. e \notin Range(pending) \cup Range(batch) \cup InWork
  BY <1>1 DEF IInv, Apart
<1>6. TypeOK'
  BY <1>1, <1>3, SizeAssumption DEF IInv, TypeOK, Take
<1>7. Latest'
  <2>1. /\ DOMAIN queue = 1 .. Len(queue)
        /\ DOMAIN Tail(queue) = 1 .. Len(queue) - 1
        /\ \A i \in 1 .. Len(queue) - 1 : Tail(queue)[i] = queue[i + 1]
    BY <1>1 DEF IInv, TypeOK
  <2>2. received \in Nat /\ received' = received /\ queue' = Tail(queue)
    BY SizeAssumption DEF IInv, TypeOK, Take
  <2>3. \A i \in 1 .. Len(queue) - 1 : queue[i + 1] = received - Len(queue) + (i + 1)
    BY <1>1, <2>1 DEF IInv, Latest
  <2> QED
    BY <1>1, <2>1, <2>2, <2>3 DEF Latest
<1>8. Apart'
  <2>1. work["rearm"].event # e
    BY <1>2, <1>5, Hands
  <2>2. /\ Range(queue') \cap (Range(pending') \cup Range(batch') \cup InWork') = {}
        /\ Range(pending') \cap (Range(batch') \cup InWork') = {}
        /\ Range(batch') \cap InWork' = {}
    BY <1>1, <1>4, <1>5 DEF IInv, Apart, Take
  <2> QED
    BY <1>3, <2>1, <2>2 DEF IInv, Apart, Take
<1>9. Busy'
  BY <1>2, <1>3 DEF IInv, Busy, Workers
<1>10. Kept' = Kept
  BY <1>1, <1>4 DEF Kept, Take
<1> QED
  BY <1>6, <1>7, <1>8, <1>9, <1>10 DEF IInv, Past, Take, Effect, Drops

LEMMA FailedStep ==
    ASSUME IInv, NEW w \in Workers, work[w].event # 0, Failed(w)
    PROVE  IInv' /\ Effect
<1> DEFINE e == work[w].event
<1>1. e \in Events
  BY SizeAssumption DEF IInv, TypeOK, Events
<1>2. /\ pending' \in Seq(Events) /\ Len(pending') <= QueueSize
      /\ Range(pending') \subseteq Range(pending) \cup {e}
      /\ e \notin Range(pending) => Distinct(pending')
  <2>1. CASE Persistent
    <3>1. pending' = PushDropOldest(pending, e)
      BY <2>1 DEF Failed
    <3>2. /\ pending \in Seq(Events) /\ Len(pending) <= QueueSize
          /\ Distinct(pending)
      BY DEF IInv, TypeOK, Apart
    <3>3. Range(Room(pending)) \subseteq Range(pending)
      BY <3>2, Roomy
    <3> QED
      BY <1>1, <3>1, <3>2, <3>3, Pushed
  <2>2. CASE ~Persistent
    BY <2>2 DEF Failed, IInv, TypeOK, Apart
  <2> QED
    BY <2>1, <2>2
<1>3. GoOn(w) /\ acted' = acted /\ UNCHANGED <<received, queue, ended>>
  BY DEF Failed
<1>4. IInv' /\ Kept' \subseteq Kept
  BY <1>2, <1>3, DoneWith
<1> QED
  BY <1>3, <1>4 DEF Effect, Drops

LEMMA WorkStep ==
    ASSUME IInv, NEW w \in Workers, Step(w)
    PROVE  IInv' /\ Effect
<1>1. work[w].at # "idle" /\ work[w].event # 0 /\ work[w].event \in Events
  <2>1. work[w].at # "idle"
    BY DEF Step, NoTarget, Call, Outcome
  <2> QED
    BY <2>1, SizeAssumption DEF IInv, TypeOK, Busy, Events
<1>2. CASE NoTarget(w)
  BY <1>1, <1>2, FailedStep DEF NoTarget
<1>3. CASE Call(w)
  <2> DEFINE Type == [at: {"idle", "resolving", "acting"}, event: 0..MaxEvents]
  <2>1. work \in [Workers -> Type] /\ work' = [work EXCEPT ![w].at = "acting"]
    BY <1>3 DEF IInv, TypeOK, Call
  <2>2. /\ work' \in [Workers -> Type]
        /\ work'[w].at = "acting"
        /\ \A v \in Workers \ {w} : work'[v] = work[v]
        /\ \A v \in Workers : work'[v].event = work[v].event
    BY <2>1
  <2>3. Busy'
    BY <1>1, <2>2 DEF IInv, Busy
  <2>4. InWork' = InWork
    BY <2>2, Hands, HandsPrime DEF Workers
  <2>5. TypeOK' /\ Latest'
    BY <1>3, <2>2 DEF IInv, TypeOK, Latest, Call
  <2>6. Apart'
    BY <1>3, <2>2, <2>4 DEF IInv, Apart, Call, Workers
  <2>7. Kept' = Kept
    BY <1>3, <2>4 DEF Kept, Call
  <2> QED
    BY <1>3, <2>3, <2>5, <2>6, <2>7 DEF IInv, Past, Call, Effect, Drops
<1>4. ASSUME NEW any \in BOOLEAN, NEW every \in BOOLEAN, Outcome(w, any, every)
      PROVE  IInv' /\ Effect
  <2>1. CASE any
    <3>1. /\ acted' = acted \cup {work[w].event} /\ GoOn(w)
          /\ UNCHANGED <<received, queue, pending, ended>>
      BY <1>4, <2>1 DEF Outcome
    <3>2. /\ pending' \in Seq(Events) /\ Len(pending') <= QueueSize
          /\ Distinct(pending')
      BY <3>1 DEF IInv, TypeOK, Apart
    <3>3. work[w].event \in Kept
      BY <1>1 DEF Kept, InWork
    <3>4. acted' # acted
      BY <3>1, <3>3 DEF IInv, Past
    <3>5. IInv' /\ Kept' = Kept \ {work[w].event}
      BY <1>1, <3>1, <3>2, <3>4, DoneWith
    <3> QED
      BY <1>1, <3>1, <3>3, <3>5 DEF Effect, Acts
  <2>2. CASE ~any
    BY <1>1, <1>4, <2>2, FailedStep DEF Outcome
  <2> QED
    BY <2>1, <2>2
<1> QED
  BY <1>2, <1>3, <1>4 DEF Step

LEMMA RetryStep == IInv /\ Retry => IInv' /\ Effect
<1> SUFFICES ASSUME IInv, Retry PROVE IInv' /\ Effect
  OBVIOUS
<1> DEFINE e == Head(pending)
<1>1. /\ e \in Events /\ Tail(pending) \in Seq(Events)
      /\ Range(pending) = {e} \cup Range(Tail(pending))
      /\ Distinct(Tail(pending)) /\ e \notin Range(Tail(pending))
  BY HeadAndTail DEF IInv, TypeOK, Apart, Retry
<1>2. /\ work["rearm"].event = 0 /\ e # 0
      /\ Resolving(e) \in [at: {"idle", "resolving", "acting"},
                           event: 0..MaxEvents]
  BY <1>1, SizeAssumption DEF Retry, Idle, Resolving, Events
<1>3. /\ work' \in [Workers -> [at: {"idle", "resolving", "acting"},
                                event: 0..MaxEvents]]
      /\ work'["rearm"] = Resolving(e)
      /\ work'["dispatcher"] = work["dispatcher"]
      /\ work'["rearm"].event = e /\ work'["rearm"].at = "resolving"
  BY <1>2 DEF IInv, TypeOK, Retry, Workers, Resolving
<1>4. InWork' = InWork \cup {e}
  BY <1>2, <1>3, Hands, HandsPrime
<1>5. e \notin Range(queue) \cup Range(batch) \cup InWork
  BY <1>1 DEF IInv, Apart
<1>6. /\ pending' = <<>> /\ Range(pending') = {} /\ Distinct(pending')
      /\ pending' \in Seq(Events) /\ Len(pending') <= QueueSize
      /\ batch' = Tail(pending)
  BY EmptySequence, SizeAssumption DEF Retry
<1>7. TypeOK' /\ Latest'
  BY <1>1, <1>3, <1>6 DEF IInv, TypeOK, Latest, Retry
<1>8. Apart'
  <2>1. work["dispatcher"].event # e
    BY <1>2, <1>5, Hands
  <2>2. /\ Range(queue') \cap (Range(pending') \cup Range(batch') \cup InWork') = {}
        /\ Range(pending') \cap (Range(batch') \cup InWork') = {}
        /\ Range(batch') \cap InWork' = {}
    BY <1>1, <1>4, <1>6 DEF IInv, Apart, Retry
  <2> QED
    BY <1>1, <1>3, <1>6, <2>1, <2>2 DEF Apart
<1>9. Busy'
  BY <1>2, <1>3 DEF IInv, Busy, Workers
<1>10. Kept' \subseteq Kept
  BY <1>1, <1>4, <1>6 DEF Kept, Retry
<1> QED
  BY <1>7, <1>8, <1>9, <1>10 DEF IInv, Past, Retry, Effect, Drops

LEMMA EndStep ==
    ASSUME IInv, NEW rearmToo \in BOOLEAN, End(rearmToo)
    PROVE  IInv' /\ Effect
<1> DEFINE Type == [at: {"idle", "resolving", "acting"}, event: 0..MaxEvents]
<1>1. /\ work \in [Workers -> Type] /\ Idle \in Type
      /\ Idle.at = "idle" /\ Idle.event = 0
  BY SizeAssumption DEF IInv, TypeOK, Idle
<1>2. \A v \in Workers : work'[v] = Idle \/ work'[v] = work[v]
  BY DEF End
<1>3. work' \in [Workers -> Type]
  BY <1>1 DEF End
<1>4. InWork' \subseteq InWork
  BY <1>1, <1>2 DEF InWork
<1>5. /\ batch' \in Seq(Events) /\ Distinct(batch')
      /\ Range(batch') \subseteq Range(batch)
  BY EmptySequence DEF End, IInv, TypeOK, Apart
<1>6. TypeOK' /\ Latest'
  BY <1>3, <1>5 DEF IInv, TypeOK, Latest, End
<1>7. Apart'
  <2>1. work'["dispatcher"].event # 0 =>
            work'["dispatcher"].event # work'["rearm"].event
    BY <1>1, <1>2 DEF IInv, Apart, Workers
  <2>2. /\ Range(queue') \cap (Range(pending') \cup Range(batch') \cup InWork') = {}
        /\ Range(pending') \cap (Range(batch') \cup InWork') = {}
        /\ Range(batch') \cap InWork' = {}
    BY <1>4, <1>5 DEF IInv, Apart, End
  <2> QED
    BY <1>5, <2>1, <2>2 DEF IInv, Apart, End
<1>8. Busy'
  BY <1>1, <1>2 DEF IInv, Busy
<1>9. Kept' \subseteq Kept
  BY <1>4, <1>5 DEF Kept, End
<1> QED
  BY <1>6, <1>7, <1>8, <1>9 DEF IInv, Past, End, Effect, Drops

\* A step that changes nothing drops nothing.
LEMMA StutterStep == IInv /\ UNCHANGED vars => IInv' /\ Effect
<1> SUFFICES ASSUME IInv, UNCHANGED vars PROVE IInv' /\ Effect
  OBVIOUS
<1>1. InWork' = InWork
  BY DEF InWork, vars
<1>2. Kept' = Kept
  BY <1>1 DEF Kept, vars
<1>3. TypeOK' /\ Latest' /\ Apart' /\ Busy'
  BY <1>1 DEF IInv, TypeOK, Latest, Apart, Busy, vars
<1> QED
  BY <1>2, <1>3 DEF IInv, Past, vars, Effect, Drops

LEMMA NextStep == IInv /\ [Next]_vars => IInv' /\ Effect
<1> SUFFICES ASSUME IInv, [Next]_vars PROVE IInv' /\ Effect
  OBVIOUS
<1>1. CASE Signal
  BY <1>1, SignalStep
<1>2. CASE Take
  BY <1>2, TakeStep
<1>3. CASE Retry
  BY <1>3, RetryStep
<1>4. ASSUME NEW w \in Workers, Step(w) PROVE IInv' /\ Effect
  BY <1>4, WorkStep
<1>5. ASSUME NEW rearmToo \in BOOLEAN, End(rearmToo) PROVE IInv' /\ Effect
  BY <1>5, EndStep
<1>6. CASE UNCHANGED vars
  BY <1>6, StutterStep
<1> QED
  BY <1>1, <1>2, <1>3, <1>4, <1>5, <1>6 DEF Next

\* In every behaviour of a rule's two tasks its events stay apart.
THEOREM InvCorrect == Spec => []IInv
BY InitInv, NextStep, PTL DEF Spec

\* Every variable keeps its type, and queue and pending stay within
\* queue_size, whatever that is.
THEOREM TypeCorrect == Spec => []TypeOK
<1>1. IInv => TypeOK
  BY DEF IInv
<1> QED
  BY <1>1, InvCorrect, PTL

\* The queue holds the latest signals in order, and no event is in two of
\* queue, pending, a retried batch and the two tasks' hands.
THEOREM OnceCorrect == Spec => []EachEventOnce
BY Implied, InvCorrect, PTL

-----------------------------------------------------------------------------
(* A rule delivers what Delivery promises.                                 *)

\* The fates of all events, as the refinement sees them.
FateOf == [e \in Events |-> Fate(e)]

\* No event is ever "retaken": what is held was not acted on.
FateExact ==
    \A e \in Events : Fate(e) = IF e > received THEN "new"
                                ELSE IF e \in acted THEN "acted"
                                ELSE IF e \in Kept THEN "held" ELSE "lost"

LEMMA FateIs == IInv => FateExact
<1> SUFFICES ASSUME IInv, NEW e \in Events
             PROVE  Fate(e) = IF e > received THEN "new"
                              ELSE IF e \in acted THEN "acted"
                              ELSE IF e \in Kept THEN "held" ELSE "lost"
  BY DEF FateExact
<1>1. received \in Nat /\ e \in Nat
  BY SizeAssumption DEF IInv, TypeOK, Events
<1>2. /\ e > received => e \notin acted /\ e \notin Kept
      /\ ~(e \in acted /\ e \in Kept)
  BY <1>1 DEF IInv, Past
<1>3. CASE e > received
  BY <1>2, <1>3 DEF Fate
<1>4. CASE ~(e > received) /\ e \in acted
  BY <1>2, <1>4 DEF Fate
<1>5. CASE ~(e > received) /\ e \notin acted /\ e \in Kept
  BY <1>5 DEF Fate
<1>6. CASE ~(e > received) /\ e \notin acted /\ e \notin Kept
  BY <1>6 DEF Fate
<1> QED
  BY <1>3, <1>4, <1>5, <1>6

LEMMA FateIsNext == IInv' => FateExact'
BY FateIs, PTL

LEMMA HeldIs ==
    ASSUME IInv
    PROVE  \A e \in Kept : e \in Events /\ FateOf[e] = "held"
<1>1. \A e \in Kept : e \in Events /\ e <= received /\ e \notin acted
  BY SizeAssumption DEF IInv, Past, TypeOK, Events
<1>2. \A e \in Kept : ~(e > received)
  BY <1>1 DEF IInv, TypeOK, Events
<1> QED
  BY <1>1, <1>2, FateIs DEF FateExact, FateOf

LEMMA InitDelivers == Init => D!Init
<1> SUFFICES ASSUME Init PROVE D!Init
  OBVIOUS
<1>1. \A e \in Events : e > received
  BY SizeAssumption DEF Init, Events
<1>2. \A e \in Events : Fate(e) = "new"
  BY <1>1, InitInv, FateIs DEF FateExact
<1> QED
  BY <1>2 DEF D!Init, D!Events, Events

LEMMA DropsDelivers ==
    ASSUME IInv, IInv', Drops
    PROVE  D!GiveUp
<1> DEFINE es == Kept \ Kept'
<1>1. es \in SUBSET D!Held
  BY HeldIs DEF D!Held, D!Events, Events, FateOf
<1>2. \A e \in Events :
          Fate(e)' = IF e \in es THEN "lost" ELSE FateOf[e]
  <2>1. \A e \in Events : Fate(e)' = IF e > received THEN "new"
                                     ELSE IF e \in acted THEN "acted"
                                     ELSE IF e \in Kept' THEN "held" ELSE "lost"
    BY FateIsNext DEF FateExact, Drops
  <2>2. \A e \in es : ~(e > received) /\ e \notin acted
    BY SizeAssumption DEF IInv, Past, TypeOK
  <2> QED
    BY <2>1, <2>2, FateIs DEF FateExact, FateOf, Drops
<1>3. FateOf' = D!Are(es, "lost")
  BY <1>2 DEF FateOf, D!Are, D!Events, Events
<1> QED
  BY <1>1, <1>3 DEF D!GiveUp, FateOf

LEMMA ActsDelivers ==
    ASSUME IInv, IInv', NEW e \in Events, Acts(e)
    PROVE  D!Act(e)
<1>1. \A d \in Events :
          Fate(d)' = IF d \in {e} THEN "acted" ELSE FateOf[d]
  <2>1. \A d \in Events : Fate(d)' = IF d > received THEN "new"
                                     ELSE IF d \in acted \cup {e} THEN "acted"
                                     ELSE IF d \in Kept \ {e} THEN "held" ELSE "lost"
    BY FateIsNext DEF FateExact, Acts
  <2>2. ~(e > received)
    BY SizeAssumption DEF IInv, Past, TypeOK, Acts
  <2> QED
    BY <2>1, <2>2, FateIs DEF FateExact, FateOf
<1>2. FateOf' = D!Are({e}, "acted")
  BY <1>1 DEF FateOf, D!Are, D!Events, Events
<1>3. FateOf[e] = "held"
  BY HeldIs DEF Acts
<1> QED
  BY <1>2, <1>3 DEF D!Act, FateOf

LEMMA ComesDelivers ==
    ASSUME IInv, IInv', NEW e \in Events, Comes(e)
    PROVE  D!Receive(e)
<1>1. received \in Nat /\ e = received + 1 /\ received' = e /\ acted' = acted
  BY SizeAssumption DEF IInv, TypeOK, Comes
<1>2. /\ \A d \in Kept : d <= received
      /\ \A d \in acted : d <= received
      /\ e \notin Kept /\ e \notin acted
  BY <1>1 DEF IInv, Past
<1>3. FateOf[e] = "new" /\ \A d \in 1..(e - 1) : FateOf[d] # "new"
  <2>1. \A d \in 1..(e - 1) : d \in Events /\ ~(d > received)
    BY <1>1, SizeAssumption DEF Events
  <2> QED
    BY <1>1, <2>1, FateIs DEF FateExact, FateOf
<1>4. \A d \in Events : Fate(d)' = IF d > e THEN "new"
                                   ELSE IF d \in acted THEN "acted"
                                   ELSE IF d \in Kept' THEN "held" ELSE "lost"
  BY <1>1, FateIsNext DEF FateExact
<1>5. \A d \in Events : d > received <=> d > e \/ d = e
  BY <1>1 DEF Events
<1>6. CASE Kept' = Kept \cup {e}
  <2>1. \A d \in Events : Fate(d)' = IF d \in {e} THEN "held" ELSE FateOf[d]
    BY <1>1, <1>2, <1>4, <1>5, <1>6, FateIs DEF FateExact, FateOf
  <2>2. FateOf' = D!Are({e}, "held")
    BY <2>1 DEF FateOf, D!Are, D!Events, Events
  <2> QED
    BY <1>3, <2>2 DEF D!Receive, FateOf, D!Events, Events
<1>7. ASSUME NEW old \in Kept, Kept' = (Kept \ {old}) \cup {e}
      PROVE  D!Receive(e)
  <2>1. old \in D!Held /\ old # e /\ old \in Events
    BY <1>2, HeldIs DEF D!Held, D!Events, Events, FateOf
  <2>2. old \notin acted /\ ~(old > e)
    BY <1>1, <1>2, <2>1 DEF IInv, Past, Events
  <2>3. \A d \in Events : Fate(d)' = IF d = old THEN "lost"
                                     ELSE IF d \in {e} THEN "held" ELSE FateOf[d]
    BY <1>1, <1>2, <1>4, <1>5, <1>7, <2>1, <2>2, FateIs DEF FateExact, FateOf
  <2>4. FateOf' = [D!Are({e}, "held") EXCEPT ![old] = "lost"]
    BY <2>1, <2>3 DEF FateOf, D!Are, D!Events, Events
  <2> QED
    BY <1>3, <2>1, <2>4 DEF D!Receive, FateOf, D!Events, Events
<1> QED
  BY <1>6, <1>7 DEF Comes

LEMMA StepDelivers == IInv /\ IInv' /\ Effect => D!Next
<1> SUFFICES ASSUME IInv, IInv', Effect PROVE D!Next
  OBVIOUS
<1>1. CASE Drops
  BY <1>1, DropsDelivers DEF D!Next
<1>2. ASSUME NEW e \in Events, Acts(e) PROVE D!Next
  BY <1>2, ActsDelivers DEF D!Next, D!Events, Events
<1>3. ASSUME NEW e \in Events, Comes(e) PROVE D!Next
  BY <1>3, ComesDelivers DEF D!Next, D!Events, Events
<1> QED
  BY <1>1, <1>2, <1>3 DEF Effect

\* The two tasks, the overflowing queues, the retries and the end of the rule
\* together implement Delivery: each event is received once and in order, acted
\* on at most once, and never taken up again once it was acted on or lost.
THEOREM Delivers == Spec => DeliversOnce
<1>1. Init => D!Init
  BY InitDelivers
<1>2. IInv /\ IInv' /\ [Next]_vars => [D!Next]_FateOf
  BY NextStep, StepDelivers
<1> QED
  BY <1>1, <1>2, InvCorrect, PTL DEF Spec, DeliversOnce, D!Spec, FateOf

=============================================================================
