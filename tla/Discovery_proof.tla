--------------------------- MODULE Discovery_proof ---------------------------
(***************************************************************************)
(* Proofs about Discovery for every value of its constants: types, an      *)
(* exact friend set, current caches and no missed wakeup.                  *)
(***************************************************************************)
EXTENDS Discovery, TLAPS

-----------------------------------------------------------------------------
(* Types.                                                                  *)

\* Taking the head of a ready queue that owes "turn" entries to the loop.
LEMMA ResumedType ==
    ASSUME TypeOK, NEW t \in Tasks, Resumed(t)
    PROVE  /\ Tail(ready) \in Seq(Tasks)
           /\ turn' \in Nat
           /\ turn' <= Len(Tail(ready))
           /\ Append(Tail(ready), Watcher) \in Seq(Tasks)
           /\ turn' <= Len(Append(Tail(ready), Watcher))
<1>1. ready # <<>> /\ Len(ready) > 0
  BY DEF TypeOK, Resumed
<1>2. Tail(ready) \in Seq(Tasks) /\ Len(Tail(ready)) = Len(ready) - 1
  BY <1>1 DEF TypeOK
<1>3. Watcher \in Tasks
  BY DEF Tasks
<1> QED
  BY <1>1, <1>2, <1>3 DEF TypeOK, Resumed

\* Reading a reply, or a signal that may wake the watcher, extends the queue.
LEMMA ExtendedType ==
    ASSUME TypeOK, turn = 0, NEW t \in Tasks
    PROVE  /\ Append(ready, t) \in Seq(Tasks)
           /\ turn <= Len(Append(ready, t))
  BY DEF TypeOK

\* The manager as __init__() leaves it has its types.
THEOREM InitType == Init => TypeOK
<1> SUFFICES ASSUME Init PROVE TypeOK
  OBVIOUS
<1>1. NoScan \in ScanType /\ NoFill \in FillType
  BY DEF NoScan, ScanType, NoFill, FillType, Kinds
<1>2. ready \in Seq(Tasks) /\ turn <= Len(ready)
  BY DEF Init
<1> QED
  BY <1>1, <1>2 DEF Init, TypeOK

\* A change of owner and its handler keep every type.
LEMMA OwnerChangeType ==
    ASSUME TypeOK, NEW n \in Names, NEW new \in Nat, OwnerChange(n, new)
    PROVE  /\ owner' \in [Names -> Nat]
           /\ listening' \in BOOLEAN /\ friendbus' \in SUBSET Names
           /\ friendchanges' \in BOOLEAN
           /\ introspect_cache' \in [Names -> (SUBSET (Nat \ {0})) \cup {NoEntry}]
           /\ proxy_cache' \in [Names -> (Nat \ {0}) \cup {NoEntry}]
           /\ fill' \in [Callers -> FillType]
           /\ watch' \in {"unstarted", "busy", "waiting", "woken"}
           /\ ready' \in Seq(Tasks)
           /\ turn' \in Nat /\ turn' <= Len(ready')
           /\ suspect' \in SUBSET (Kinds \X Names)
<1>1. turn = 0 /\ turn' = 0
  BY DEF OwnerChange
<1>2. ready' \in {ready, Append(ready, Watcher)}
  BY DEF OwnerChange, NameOwnerChanged, NameLost, NameAcquired, SignalChange,
         Unheard
<1>3. ready' \in Seq(Tasks) /\ turn' <= Len(ready')
  BY <1>1, <1>2, ExtendedType DEF TypeOK, Tasks
<1>4. fill' \in [Callers -> FillType]
  <2> SUFFICES ASSUME NEW c \in Callers, fill[c].name = n
               PROVE  [fill[c] EXCEPT !.crossed = TRUE] \in FillType
    BY DEF OwnerChange, Crossed, TypeOK
  <2>1. fill[c] # NoFill
    BY NoEntryAssumption DEF NoFill
  <2> QED
    BY <2>1 DEF TypeOK, FillType
<1>5. /\ friendbus' \in SUBSET Names /\ friendchanges' \in BOOLEAN
      /\ introspect_cache' \in [Names -> (SUBSET (Nat \ {0})) \cup {NoEntry}]
      /\ proxy_cache' \in [Names -> (Nat \ {0}) \cup {NoEntry}]
      /\ watch' \in {"unstarted", "busy", "waiting", "woken"}
  BY DEF TypeOK, OwnerChange, NameOwnerChanged, NameLost, NameAcquired,
         SignalChange, Unheard, caches
<1>6. suspect' \in SUBSET (Kinds \X Names)
  BY DEF TypeOK, OwnerChange
<1> QED
  BY <1>1, <1>3, <1>4, <1>5, <1>6 DEF TypeOK, OwnerChange

\* Marking the replies that a signal overtook keeps the scans' type.
LEMMA OvertakenType ==
    ASSUME TypeOK, NEW n \in Names, Overtaken(n)
    PROVE  scan' \in [Scanners -> ScanType]
<1> SUFFICES ASSUME NEW s \in Scanners
             PROVE  [scan[s] EXCEPT !.overtaken = @ \cup {n}] \in ScanType
  BY DEF Overtaken, TypeOK
<1> QED
  BY DEF TypeOK, ScanType

\* Every step keeps every type.
THEOREM NextType == TypeOK /\ [Next]_vars => TypeOK'
<1> SUFFICES ASSUME TypeOK, [Next]_vars PROVE TypeOK'
  OBVIOUS
<1> USE DEF bus, friends, caches, loop
<1>1. CASE UNCHANGED vars
  BY <1>1 DEF vars, TypeOK
<1>2. ASSUME NEW n \in Names, NameAppears(n) PROVE TypeOK'
  <2>1. generation + 1 \in Nat
    BY DEF TypeOK
  <2> QED
    BY <1>2, <2>1, OwnerChangeType, OvertakenType DEF NameAppears, TypeOK
<1>3. ASSUME NEW n \in Names, NameVanishes(n) PROVE TypeOK'
  BY <1>3, OwnerChangeType, OvertakenType DEF NameVanishes, TypeOK
<1>4. ASSUME NEW n \in Names, NameHandedOver(n) PROVE TypeOK'
  <2>1. generation + 1 \in Nat
    BY DEF TypeOK
  <2> QED
    BY <1>4, <2>1, OwnerChangeType DEF NameHandedOver, TypeOK
<1>5. CASE EndRead
  BY <1>5 DEF EndRead, TypeOK
<1>6. ASSUME NEW s \in Scanners PROVE s \in Tasks
  BY DEF Tasks
<1>7. ASSUME NEW c \in Callers PROVE c \in Tasks
  BY DEF Tasks
<1>8. ASSUME NEW s \in Scanners, ScanStart(s) PROVE TypeOK'
  <2>1. scan' \in [Scanners -> ScanType]
    BY <1>8 DEF ScanStart, TypeOK, ScanType
  <2> QED
    BY <1>8, <2>1 DEF ScanStart, TypeOK
<1>9. ASSUME NEW s \in Scanners, ScanReply(s) PROVE TypeOK'
  <2>0. [at |-> "replied", names |-> Owned, overtaken |-> {}] \in ScanType
    BY DEF ScanType, Owned
  <2>1. scan' \in [Scanners -> ScanType]
    <3>1. CASE scan[s].at = "connecting"
      BY <1>9, <3>1 DEF ScanReply, TypeOK, ScanType
    <3>2. CASE scan[s].at = "listing"
      BY <1>9, <2>0, <3>2 DEF ScanReply, TypeOK
    <3> QED
      BY <1>9, <3>1, <3>2 DEF ScanReply
  <2>2. ready' \in Seq(Tasks) /\ turn' \in Nat /\ turn' <= Len(ready')
    BY <1>6, <1>9, ExtendedType DEF ScanReply, Resolved, TypeOK
  <2> QED
    BY <1>9, <2>1, <2>2 DEF ScanReply, TypeOK
<1>10. ASSUME NEW s \in Scanners, ScanError(s) PROVE TypeOK'
  <2>1. scan' \in [Scanners -> ScanType]
    BY <1>10 DEF ScanError, TypeOK, ScanType
  <2>2. ready' \in Seq(Tasks) /\ turn' \in Nat /\ turn' <= Len(ready')
    BY <1>6, <1>10, ExtendedType DEF ScanError, Resolved, TypeOK
  <2> QED
    BY <1>10, <2>1, <2>2 DEF ScanError, TypeOK
<1>11. ASSUME NEW s \in Scanners, ScanConnect(s) PROVE TypeOK'
  <2>1. scan' \in [Scanners -> ScanType]
    BY <1>11 DEF ScanConnect, TypeOK, ScanType
  <2>2. ready' \in Seq(Tasks) /\ turn' \in Nat /\ turn' <= Len(ready')
    BY <1>6, <1>11, ResumedType DEF ScanConnect
  <2> QED
    BY <1>11, <2>1, <2>2 DEF ScanConnect, TypeOK
<1>12. ASSUME NEW s \in Scanners, ScanApply(s) PROVE TypeOK'
  <2>1. scan' \in [Scanners -> ScanType]
    BY <1>12 DEF ScanApply, TypeOK, ScanType, NoScan
  <2>2. ready' \in Seq(Tasks) /\ turn' \in Nat /\ turn' <= Len(ready')
    BY <1>6, <1>12, ResumedType DEF ScanApply, SignalChange, NoChange
  <2>3. friendchanges' \in BOOLEAN
        /\ watch' \in {"unstarted", "busy", "waiting", "woken"}
    BY <1>12 DEF ScanApply, SignalChange, NoChange, TypeOK
  <2>4. friendbus' \in SUBSET Names /\ doubtful' \in SUBSET Names
    BY <1>12 DEF ScanApply, TypeOK, ScanType
  <2> QED
    BY <1>12, <2>1, <2>2, <2>3, <2>4 DEF ScanApply, TypeOK
<1>13. ASSUME NEW s \in Scanners, ScanGiveUp(s) PROVE TypeOK'
  <2>1. scan' \in [Scanners -> ScanType]
    BY <1>13 DEF ScanGiveUp, TypeOK, ScanType, NoScan
  <2>2. ready' \in Seq(Tasks) /\ turn' \in Nat /\ turn' <= Len(ready')
    BY <1>6, <1>13, ResumedType DEF ScanGiveUp
  <2> QED
    BY <1>13, <2>1, <2>2 DEF ScanGiveUp, TypeOK
<1>14. ASSUME NEW c \in Callers, NEW kind \in Kinds, NEW n \in Names,
              FillStart(c, kind, n)
       PROVE  TypeOK'
  <2>1. fill' \in [Callers -> FillType]
    BY <1>14 DEF FillStart, TypeOK, FillType, NoFill
  <2> QED
    BY <1>14, <2>1 DEF FillStart, TypeOK
<1>15. ASSUME NEW c \in Callers, FillReply(c) PROVE TypeOK'
  <2>1. PICK got \in {0, owner[fill[c].name]} :
           fill' = [fill EXCEPT ![c].at = "replied", ![c].got = got]
    BY <1>15 DEF FillReply
  <2>2. fill[c] \in FillType \ {NoFill}
    BY <1>15 DEF FillReply, TypeOK, NoFill
  <2>3. got \in Nat
    BY <2>2 DEF TypeOK, FillType
  <2>4. fill' \in [Callers -> FillType]
    BY <2>1, <2>2, <2>3 DEF TypeOK, FillType
  <2>5. ready' \in Seq(Tasks) /\ turn' \in Nat /\ turn' <= Len(ready')
    BY <1>7, <1>15, ExtendedType DEF FillReply, Resolved, TypeOK
  <2> QED
    BY <1>15, <2>4, <2>5 DEF FillReply, TypeOK
<1>16. ASSUME NEW c \in Callers, fill[c].at = "replied"
       PROVE  /\ fill[c] \in FillType \ {NoFill}
              /\ TreeSoFar(fill[c]) \in SUBSET (Nat \ {0})
  BY <1>16 DEF TypeOK, FillType, NoFill, TreeSoFar
<1>17. ASSUME NEW c \in Callers, TreeNext(c) PROVE TypeOK'
  <2>1. fill[c] \in FillType \ {NoFill}
    BY <1>16, <1>17 DEF TreeNext
  <2>2. PICK new \in Children(fill[c]) :
           /\ fill[c].todo + new > 0
           /\ fill' = [fill EXCEPT ![c].at = "asked",
                          ![c].tree = TreeSoFar(fill[c]), ![c].got = 0,
                          ![c].todo = fill[c].todo + new - 1,
                          ![c].visited = @ + 1]
    BY <1>17 DEF TreeNext
  <2>3. new \in Nat /\ fill[c].todo + new - 1 \in Nat
    BY <2>1, <2>2 DEF Children, FillType
  <2>4. fill' \in [Callers -> FillType]
    <3>1. TreeSoFar(fill[c]) \in SUBSET (Nat \ {0})
      BY <1>16, <1>17 DEF TreeNext
    <3>2. fill[c].visited + 1 \in Nat
      BY <2>1 DEF FillType
    <3>3. [fill[c] EXCEPT !.at = "asked", !.tree = TreeSoFar(fill[c]),
                          !.got = 0, !.todo = fill[c].todo + new - 1,
                          !.visited = @ + 1] \in FillType
      BY <2>1, <2>3, <3>1, <3>2 DEF FillType
    <3>4. fill' = [fill EXCEPT ![c] =
                     [fill[c] EXCEPT !.at = "asked", !.tree = TreeSoFar(fill[c]),
                          !.got = 0, !.todo = fill[c].todo + new - 1,
                          !.visited = @ + 1]]
      BY <2>2 DEF TypeOK
    <3> QED
      BY <3>3, <3>4 DEF TypeOK
  <2>5. ready' \in Seq(Tasks) /\ turn' \in Nat /\ turn' <= Len(ready')
    BY <1>7, <1>17, ResumedType DEF TreeNext
  <2> QED
    BY <1>17, <2>4, <2>5 DEF TreeNext, TypeOK
<1>18. ASSUME NEW c \in Callers, TreeStore(c) PROVE TypeOK'
  <2>1. fill[c] \in FillType \ {NoFill} /\ TreeSoFar(fill[c]) \in SUBSET (Nat \ {0})
    BY <1>16, <1>18 DEF TreeStore
  <2>2. fill' \in [Callers -> FillType]
    BY <1>18 DEF TreeStore, TypeOK, FillType
  <2>3. introspect_cache' \in [Names -> (SUBSET (Nat \ {0})) \cup {NoEntry}]
    BY <1>18, <2>1 DEF TreeStore, TypeOK
  <2>4. suspect' \in SUBSET (Kinds \X Names)
    BY <1>18, <2>1 DEF TreeStore, MarkSuspect, TypeOK, FillType
  <2>5. ready' \in Seq(Tasks) /\ turn' \in Nat /\ turn' <= Len(ready')
    BY <1>7, <1>18, ResumedType DEF TreeStore
  <2> QED
    BY <1>18, <2>2, <2>3, <2>4, <2>5 DEF TreeStore, TypeOK
<1>19. ASSUME NEW c \in Callers, ProxyStore(c) PROVE TypeOK'
  <2>1. fill[c] \in FillType \ {NoFill}
    BY <1>16, <1>19 DEF ProxyStore
  <2>2. fill' \in [Callers -> FillType]
    BY <1>19 DEF ProxyStore, TypeOK, FillType
  <2>3. proxy_cache' \in [Names -> (Nat \ {0}) \cup {NoEntry}]
    BY <1>19, <2>1 DEF ProxyStore, TypeOK, FillType
  <2>4. suspect' \in SUBSET (Kinds \X Names)
    BY <1>19, <2>1 DEF ProxyStore, MarkSuspect, TypeOK, FillType
  <2>5. ready' \in Seq(Tasks) /\ turn' \in Nat /\ turn' <= Len(ready')
    BY <1>7, <1>19, ResumedType DEF ProxyStore
  <2> QED
    BY <1>19, <2>2, <2>3, <2>4, <2>5 DEF ProxyStore, TypeOK
<1>20. ASSUME NEW c \in Callers, ProxyFail(c) PROVE TypeOK'
  <2>1. fill' \in [Callers -> FillType]
    BY <1>20 DEF ProxyFail, TypeOK, FillType
  <2>2. ready' \in Seq(Tasks) /\ turn' \in Nat /\ turn' <= Len(ready')
    BY <1>7, <1>20, ResumedType DEF ProxyFail
  <2> QED
    BY <1>20, <2>1, <2>2 DEF ProxyFail, TypeOK
<1>21. CASE WatchStart
  BY <1>21 DEF WatchStart, TypeOK
<1>22. CASE WatchWait
  BY <1>22 DEF WatchWait, TypeOK
<1>23. CASE WatchWake
  <2>1. ready' \in Seq(Tasks) /\ turn' \in Nat /\ turn' <= Len(ready')
    BY <1>23, ResumedType DEF WatchWake, Tasks
  <2> QED
    BY <1>23, <2>1 DEF WatchWake, TypeOK
<1> QED
  BY <1>1, <1>2, <1>3, <1>4, <1>5, <1>8, <1>9, <1>10, <1>11, <1>12, <1>13,
     <1>14, <1>15, <1>17, <1>18, <1>19, <1>20, <1>21, <1>22, <1>23
     DEF Next, Bus, Read, Continue, Call

\* Every variable of DBusManager, of the loop and of the bus keeps its type.
THEOREM TypeCorrect == Spec => []TypeOK
  BY InitType, NextType, PTL DEF Spec

-----------------------------------------------------------------------------
(* No missed wakeup.  Whatever changes friendbus sets the event, and the   *)
(* event wakes a waiting watcher: no invariant is needed.                  *)

\* A signal's handler, or a scan that applies its reply, sets the event.
LEMMA EventKept ==
    ASSUME NEW rest, SignalChange(rest)
    PROVE  Watching' = IF Watching = "waiting" THEN "woken" ELSE Watching
  BY DEF SignalChange, Watching

LEMMA WatchStep == [Next]_vars => [W!Next]_(W!vars)
<1> SUFFICES ASSUME [Next]_vars PROVE [W!Next]_(W!vars)
  OBVIOUS
<1> USE DEF bus, friends, caches, loop
<1>1. ASSUME UNCHANGED <<friendbus, watch>> PROVE [W!Next]_(W!vars)
  BY <1>1 DEF W!vars, Watching
<1>2. ASSUME NEW rest, SignalChange(rest) PROVE [W!Next]_(W!vars)
  BY <1>2, EventKept DEF W!Next, W!Change
<1>3. ASSUME NEW n \in Names, NEW new, OwnerChange(n, new)
      PROVE  [W!Next]_(W!vars)
  BY <1>1, <1>2, <1>3
     DEF OwnerChange, NameOwnerChanged, NameLost, NameAcquired, Unheard
<1>4. CASE Bus
  BY <1>3, <1>4 DEF Bus, NameAppears, NameVanishes, NameHandedOver
<1>5. CASE Read
  BY <1>1, <1>5 DEF Read, ScanReply, ScanError, FillReply
<1>6. CASE EndRead
  BY <1>1, <1>6 DEF EndRead
<1>7. ASSUME NEW s \in Scanners, ScanStart(s) \/ ScanConnect(s) \/ ScanGiveUp(s)
      PROVE  [W!Next]_(W!vars)
  BY <1>1, <1>7 DEF ScanStart, ScanConnect, ScanGiveUp
<1>8. ASSUME NEW s \in Scanners, ScanApply(s) PROVE [W!Next]_(W!vars)
  BY <1>1, <1>2, <1>8 DEF ScanApply, NoChange
<1>9. ASSUME NEW c \in Callers,
             \/ TreeNext(c) \/ TreeStore(c) \/ ProxyStore(c) \/ ProxyFail(c)
             \/ \E kind \in Kinds, n \in Names : FillStart(c, kind, n)
      PROVE  [W!Next]_(W!vars)
  BY <1>1, <1>9 DEF FillStart, TreeNext, TreeStore, ProxyStore, ProxyFail
<1>10. CASE WatchStart
  BY <1>10 DEF WatchStart, Watching, W!vars
<1>11. CASE WatchWait
  BY <1>11 DEF WatchWait, Watching, W!Next, W!Listen
<1>12. CASE WatchWake
  BY <1>12 DEF WatchWake, Watching, W!Next, W!Leave
<1>13. CASE UNCHANGED vars
  BY <1>1, <1>13 DEF vars
<1> QED
  BY <1>4, <1>5, <1>6, <1>7, <1>8, <1>9, <1>10, <1>11, <1>12, <1>13
     DEF Next, Continue, Call

\* wait_friend_changes() keeps what FriendWatch promises: a caller that waits is
\* woken by the step that changes the friend set, signal or scan.
THEOREM KeepsWatch == Spec => WatchKept
<1>1. Init => W!Init
  BY DEF Init, W!Init, Watching
<1> QED
  BY <1>1, WatchStep, PTL DEF Spec, WatchKept, W!Spec

-----------------------------------------------------------------------------
(* The friend set.  A reply that waits to be applied is right about every  *)
(* name that no signal has touched since it was read, and until the        *)
(* handlers are registered nothing is claimed about any name.              *)

Unclaimed == ~listening => doubtful = Names

ReplyExact ==
    \A s \in Scanners :
        /\ scan[s].at = "listing" => listening
        /\ scan[s].at = "replied" =>
              /\ listening
              /\ \A n \in Names \ scan[s].overtaken :
                    n \in scan[s].names <=> owner[n] # 0

FriendInv == FriendSetExact /\ Unclaimed /\ ReplyExact

\* A name that appears or vanishes: the handler, if registered, settles it,
\* and every reply that waits is overtaken for it.
LEMMA OwnershipStep ==
    ASSUME TypeOK, FriendInv, NEW n \in Names, NEW new \in Nat,
           OwnerChange(n, new), Overtaken(n), owner[n] = 0 <=> new # 0,
           doubtful' = IF listening THEN doubtful \ {n} ELSE doubtful
    PROVE  FriendInv'
<1>1. /\ owner' = [owner EXCEPT ![n] = new]
      /\ listening' = listening
      /\ owner \in [Names -> Nat]
  BY DEF OwnerChange, TypeOK
<1>2. CASE ~listening
  <2>1. FriendSetExact' /\ Unclaimed'
    BY <1>1, <1>2 DEF FriendInv, FriendSetExact, Unclaimed
  <2>2. ReplyExact'
    BY <1>1, <1>2 DEF FriendInv, ReplyExact, Overtaken
  <2> QED
    BY <2>1, <2>2 DEF FriendInv
<1>3. CASE listening
  <2>1. friendbus' = IF new = 0 THEN friendbus \ {n} ELSE friendbus \cup {n}
    BY <1>3 DEF OwnerChange, NameOwnerChanged, NameLost, NameAcquired
  <2>2. FriendSetExact' /\ Unclaimed'
    BY <1>1, <1>3, <2>1 DEF FriendInv, FriendSetExact, Unclaimed
  <2>3. ReplyExact'
    <3> SUFFICES ASSUME NEW s \in Scanners, scan'[s].at = "replied",
                        NEW m \in Names \ scan'[s].overtaken
                 PROVE  m \in scan'[s].names <=> owner'[m] # 0
      BY <1>1, <1>3 DEF ReplyExact
    <3>1. scan[s].at = "replied"
      BY DEF Overtaken, TypeOK, ScanType
    <3>2. /\ scan'[s].overtaken = scan[s].overtaken \cup {n}
          /\ scan'[s].names = scan[s].names
      BY <3>1 DEF Overtaken, TypeOK, ScanType
    <3> QED
      BY <1>1, <3>1, <3>2 DEF FriendInv, ReplyExact
  <2> QED
    BY <2>2, <2>3 DEF FriendInv
<1> QED
  BY <1>2, <1>3

\* The steps of a scan: the reply is read exact, applied as it stands.
LEMMA ScanStep ==
    ASSUME TypeOK, FriendInv, NEW s \in Scanners,
           \/ ScanStart(s) \/ ScanReply(s) \/ ScanError(s)
           \/ ScanConnect(s) \/ ScanApply(s) \/ ScanGiveUp(s)
    PROVE  FriendInv'
<1> USE DEF bus, friends, caches, loop, FriendInv, FriendSetExact,
            Unclaimed, ReplyExact
<1>1. scan \in [Scanners -> ScanType]
  BY DEF TypeOK
<1>2. CASE ScanStart(s)
  BY <1>1, <1>2 DEF ScanStart, ScanType
<1>3. CASE ScanReply(s)
  <2>1. CASE scan[s].at = "connecting"
    BY <1>1, <1>3, <2>1 DEF ScanReply, ScanType
  <2>2. CASE scan[s].at = "listing"
    BY <1>1, <1>3, <2>2 DEF ScanReply, Owned
  <2> QED
    BY <1>3, <2>1, <2>2 DEF ScanReply
<1>4. CASE ScanError(s)
  BY <1>1, <1>4 DEF ScanError, ScanType
<1>5. CASE ScanConnect(s)
  BY <1>1, <1>5 DEF ScanConnect, ScanType
<1>6. CASE ScanApply(s)
  BY <1>1, <1>6 DEF ScanApply, NoScan
<1>7. CASE ScanGiveUp(s)
  BY <1>1, <1>7 DEF ScanGiveUp, NoScan
<1> QED
  BY <1>2, <1>3, <1>4, <1>5, <1>6, <1>7

\* The friend set's invariant is inductive.
LEMMA FriendStep == TypeOK /\ FriendInv /\ [Next]_vars => FriendInv'
<1> SUFFICES ASSUME TypeOK, FriendInv, [Next]_vars PROVE FriendInv'
  OBVIOUS
<1>1. ASSUME UNCHANGED <<owner, listening, friendbus, scan, doubtful>>
      PROVE  FriendInv'
  BY <1>1 DEF FriendInv, FriendSetExact, Unclaimed, ReplyExact
<1> USE DEF bus, friends, caches, loop
<1>2. CASE UNCHANGED vars
  BY <1>1, <1>2 DEF vars
<1>3. ASSUME NEW n \in Names, NameAppears(n) PROVE FriendInv'
  <2>1. generation + 1 \in Nat /\ generation + 1 # 0
    BY DEF TypeOK
  <2> QED
    BY <1>3, <2>1, OwnershipStep DEF NameAppears
<1>4. ASSUME NEW n \in Names, NameVanishes(n) PROVE FriendInv'
  BY <1>4, OwnershipStep DEF NameVanishes
<1>5. ASSUME NEW n \in Names, NameHandedOver(n) PROVE FriendInv'
  <2>1. generation + 1 # 0 /\ owner[n] # 0 /\ owner \in [Names -> Nat]
    BY <1>5 DEF NameHandedOver, TypeOK
  <2>2. /\ owner' = [owner EXCEPT ![n] = generation + 1]
        /\ UNCHANGED <<friendbus, listening, scan, doubtful>>
    BY <1>5, <2>1 DEF NameHandedOver, OwnerChange, NameOwnerChanged, Unheard
  <2>3. \A m \in Names : owner'[m] = 0 <=> owner[m] = 0
    BY <2>1, <2>2
  <2> QED
    BY <2>2, <2>3 DEF FriendInv, FriendSetExact, Unclaimed, ReplyExact
<1>6. CASE EndRead
  BY <1>1, <1>6 DEF EndRead
<1>7. ASSUME NEW c \in Callers,
             \/ FillReply(c) \/ TreeNext(c) \/ TreeStore(c)
             \/ ProxyStore(c) \/ ProxyFail(c)
             \/ \E kind \in Kinds, n \in Names : FillStart(c, kind, n)
      PROVE  FriendInv'
  BY <1>1, <1>7 DEF FillStart, FillReply, TreeNext, TreeStore, ProxyStore,
                    ProxyFail
<1>8. CASE WatchStart \/ WatchWait \/ WatchWake
  BY <1>1, <1>8 DEF WatchStart, WatchWait, WatchWake
<1> QED
  BY <1>2, <1>3, <1>4, <1>5, <1>6, <1>7, <1>8, ScanStep
     DEF Next, Bus, Read, Continue, Call

\* Signals and scans, in whatever order they come, leave the friend set in
\* step with the bus, except for names whose signal overtook a scan's reply.
THEOREM FriendSetSafe == Spec => []FriendSetExact
<1>1. Init => FriendInv
  BY DEF Init, FriendInv, FriendSetExact, Unclaimed, ReplyExact, NoScan
<1>2. FriendInv => FriendSetExact
  BY DEF FriendInv
<1> QED
  BY <1>1, <1>2, TypeCorrect, FriendStep, PTL DEF Spec

-----------------------------------------------------------------------------
(* The caches.  A fill that no ownership change has crossed holds nothing  *)
(* but what the present owner sent.                                        *)

FillExact ==
    \A c \in Callers : fill[c].at # "idle" /\ ~fill[c].crossed =>
        /\ fill[c].tree \subseteq {owner[fill[c].name]}
        /\ fill[c].got # 0 => fill[c].got = owner[fill[c].name]

\* Owners are numbered in the order they come.
Fresh == \A n \in Names : owner[n] <= generation

CacheInv == TreeCurrent /\ ProxyCurrent /\ FillExact

\* An ownership change crosses every fill that holds something of its name,
\* and drops or suspects every entry.
LEMMA OwnerChangeCaches ==
    ASSUME TypeOK, CacheInv, NEW n \in Names, NEW new \in Nat,
           owner[n] # new, OwnerChange(n, new)
    PROVE  CacheInv'
<1>1. owner \in [Names -> Nat] /\ owner' = [owner EXCEPT ![n] = new]
  BY DEF TypeOK, OwnerChange
<1>2. FillExact'
  <2> SUFFICES ASSUME NEW c \in Callers, fill'[c].at # "idle",
                      ~fill'[c].crossed
               PROVE  /\ fill'[c].tree \subseteq {owner'[fill'[c].name]}
                      /\ fill'[c].got # 0 =>
                            fill'[c].got = owner'[fill'[c].name]
    BY DEF FillExact
  <2>1. fill[c] \in FillType
    BY DEF TypeOK
  <2>2. CASE fill[c].name = n /\ HasRead(fill[c])
    <3>1. fill'[c] = [fill[c] EXCEPT !.crossed = TRUE]
      BY <2>2 DEF OwnerChange, Crossed
    <3>2. fill[c] # NoFill
      BY <2>2, NoEntryAssumption DEF NoFill
    <3>3. fill'[c].crossed
      BY <2>1, <3>1, <3>2 DEF FillType
    <3> QED
      BY <3>3
  <2>3. CASE fill[c].name = n /\ ~HasRead(fill[c])
    <3>1. fill'[c] = fill[c]
      BY <2>3 DEF OwnerChange, Crossed
    <3> QED
      BY <2>3, <3>1 DEF HasRead
  <2>4. CASE fill[c].name # n
    <3>1. fill'[c] = fill[c]
      BY <2>4 DEF OwnerChange, Crossed
    <3>2. fill[c].name \in Names
      BY <2>1, <3>1 DEF FillType, NoFill
    <3>3. owner'[fill[c].name] = owner[fill[c].name]
      BY <1>1, <2>4, <3>2
    <3> QED
      BY <3>1, <3>3 DEF CacheInv, FillExact
  <2> QED
    BY <2>2, <2>3, <2>4
<1>3. ASSUME NEW m \in Names, m # n
      PROVE  /\ owner'[m] = owner[m]
             /\ introspect_cache'[m] = introspect_cache[m]
             /\ proxy_cache'[m] = proxy_cache[m]
             /\ \A k \in Kinds : <<k, m>> \in suspect' <=> <<k, m>> \in suspect
  BY <1>1, <1>3 DEF OwnerChange, NameOwnerChanged, NameLost, NameAcquired,
                    Unheard, caches, TypeOK
<1>4. "tree" \in Kinds /\ "proxy" \in Kinds
  BY DEF Kinds
<1>5. CASE listening /\ new = 0
  <2>1. introspect_cache'[n] = NoEntry /\ proxy_cache'[n] = NoEntry
    BY <1>5 DEF OwnerChange, NameOwnerChanged, NameLost, TypeOK
  <2> QED
    BY <1>2, <1>3, <1>4, <2>1 DEF CacheInv, TreeCurrent, ProxyCurrent
<1>6. CASE ~(listening /\ new = 0) /\ owner[n] # 0
  <2>1. suspect' = suspect \cup (Kinds \X {n})
    BY <1>6 DEF OwnerChange
  <2>2. <<"tree", n>> \in suspect' /\ <<"proxy", n>> \in suspect'
    BY <1>4, <2>1
  <2> QED
    BY <1>2, <1>3, <1>4, <2>2 DEF CacheInv, TreeCurrent, ProxyCurrent
<1>7. CASE ~(listening /\ new = 0) /\ owner[n] = 0
  <2>1. suspect' = suspect /\ UNCHANGED caches
    BY <1>7 DEF OwnerChange, NameOwnerChanged, NameAcquired, Unheard, caches
  <2>2. <<"tree", n>> \notin suspect /\ introspect_cache[n] # NoEntry
           => introspect_cache[n] = {}
    BY <1>7 DEF TypeOK, CacheInv, TreeCurrent
  <2>3. <<"proxy", n>> \notin suspect => proxy_cache[n] = NoEntry
    BY <1>7 DEF CacheInv, ProxyCurrent
  <2> QED
    BY <1>2, <1>3, <1>4, <2>1, <2>2, <2>3
       DEF CacheInv, TreeCurrent, ProxyCurrent, caches
<1> QED
  BY <1>5, <1>6, <1>7

\* The steps of a fill: what it stores is marked if the fill was crossed.
LEMMA FillStep ==
    ASSUME TypeOK, CacheInv, NEW c \in Callers,
           \/ FillReply(c) \/ TreeNext(c) \/ TreeStore(c)
           \/ ProxyStore(c) \/ ProxyFail(c)
           \/ \E kind \in Kinds, n \in Names : FillStart(c, kind, n)
    PROVE  CacheInv'
<1> USE DEF bus, friends, caches, loop
<1>1. fill \in [Callers -> FillType]
  BY DEF TypeOK
<1>2. ASSUME fill[c].at # "idle"
      PROVE  fill[c].name \in Names /\ fill[c].kind \in Kinds
  BY <1>1, <1>2 DEF FillType, NoFill
<1>3. ASSUME UNCHANGED <<owner, caches, suspect>>, FillExact' PROVE CacheInv'
  BY <1>3 DEF CacheInv, TreeCurrent, ProxyCurrent
<1>4. ASSUME NEW kind \in Kinds, NEW n \in Names, FillStart(c, kind, n)
      PROVE  CacheInv'
  <2>1. FillExact'
    BY <1>1, <1>4 DEF FillStart, NoFill, CacheInv, FillExact
  <2> QED
    BY <1>3, <1>4, <2>1 DEF FillStart
<1>5. CASE FillReply(c)
  <2>1. PICK got \in {0, owner[fill[c].name]} :
           fill' = [fill EXCEPT ![c].at = "replied", ![c].got = got]
    BY <1>5 DEF FillReply
  <2>2. fill' = [fill EXCEPT ![c] =
                   [fill[c] EXCEPT !.at = "replied", !.got = got]]
    BY <1>1, <2>1
  <2>3. fill[c] \in FillType \ {NoFill}
    BY <1>1, <1>5 DEF FillReply, NoFill
  <2>4. FillExact'
    BY <1>1, <1>5, <2>2, <2>3 DEF FillReply, CacheInv, FillExact, FillType
  <2> QED
    BY <1>3, <1>5, <2>4 DEF FillReply
<1>6. ASSUME fill[c].at = "replied", ~fill[c].crossed
      PROVE  TreeSoFar(fill[c]) \subseteq {owner[fill[c].name]}
  BY <1>6 DEF CacheInv, FillExact, TreeSoFar
<1>7. CASE TreeNext(c)
  <2>1. PICK new \in Children(fill[c]) :
           fill' = [fill EXCEPT ![c].at = "asked",
                       ![c].tree = TreeSoFar(fill[c]), ![c].got = 0,
                       ![c].todo = fill[c].todo + new - 1,
                       ![c].visited = @ + 1]
    BY <1>7 DEF TreeNext
  <2>2. fill[c] \in FillType \ {NoFill}
    <3>1. fill[c].at = "replied"
      BY <1>7 DEF TreeNext
    <3> QED
      BY <1>1, <3>1 DEF NoFill
  <2>3. /\ fill'[c].tree = TreeSoFar(fill[c]) /\ fill'[c].got = 0
        /\ fill'[c].name = fill[c].name /\ fill'[c].crossed = fill[c].crossed
        /\ \A d \in Callers \ {c} : fill'[d] = fill[d]
    BY <1>1, <2>1, <2>2 DEF FillType
  <2>4. FillExact'
    BY <1>6, <1>7, <2>3 DEF TreeNext, CacheInv, FillExact
  <2> QED
    BY <1>3, <1>7, <2>4 DEF TreeNext
<1>8. CASE TreeStore(c)
  <2>1. fill[c].name \in Names /\ fill[c].kind = "tree"
    BY <1>2, <1>8 DEF TreeStore
  <2>2. FillExact'
    BY <1>1, <1>8 DEF TreeStore, NoFill, CacheInv, FillExact
  <2>3. TreeCurrent'
    BY <1>6, <1>8, <2>1 DEF TreeStore, MarkSuspect, CacheInv, TreeCurrent,
                            TypeOK
  <2>4. ProxyCurrent'
    BY <1>8, <2>1 DEF TreeStore, MarkSuspect, CacheInv, ProxyCurrent
  <2> QED
    BY <2>2, <2>3, <2>4 DEF CacheInv
<1>9. CASE ProxyStore(c)
  <2>1. fill[c].name \in Names /\ fill[c].kind = "proxy"
    BY <1>2, <1>9 DEF ProxyStore
  <2>2. FillExact'
    BY <1>1, <1>9 DEF ProxyStore, NoFill, CacheInv, FillExact
  <2>3. ~fill[c].crossed => fill[c].got = owner[fill[c].name]
    BY <1>9 DEF ProxyStore, CacheInv, FillExact
  <2>4. ProxyCurrent'
    BY <1>9, <2>1, <2>3 DEF ProxyStore, MarkSuspect, CacheInv, ProxyCurrent,
                            TypeOK
  <2>5. TreeCurrent'
    BY <1>9, <2>1 DEF ProxyStore, MarkSuspect, CacheInv, TreeCurrent
  <2> QED
    BY <2>2, <2>4, <2>5 DEF CacheInv
<1>10. CASE ProxyFail(c)
  <2>1. FillExact'
    BY <1>1, <1>10 DEF ProxyFail, NoFill, CacheInv, FillExact
  <2> QED
    BY <1>3, <1>10, <2>1 DEF ProxyFail
<1> QED
  BY <1>4, <1>5, <1>7, <1>8, <1>9, <1>10

\* No owner is numbered above those handed out.
LEMMA FreshStep == TypeOK /\ Fresh /\ [Next]_vars => Fresh'
<1> SUFFICES ASSUME TypeOK, Fresh, [Next]_vars PROVE Fresh'
  OBVIOUS
<1> USE DEF bus, friends, caches, loop, Fresh
<1>1. ASSUME UNCHANGED bus PROVE Fresh'
  BY <1>1
<1>2. ASSUME NEW n \in Names, NameVanishes(n) PROVE Fresh'
  BY <1>2 DEF NameVanishes, OwnerChange, TypeOK
<1>3. ASSUME NEW n \in Names, NameAppears(n) \/ NameHandedOver(n) PROVE Fresh'
  BY <1>3 DEF NameAppears, NameHandedOver, OwnerChange, TypeOK
<1>4. CASE ~Bus
  <2>1. UNCHANGED bus
    BY <1>4 DEF vars, Next, Read, EndRead, Continue, Call, ScanStart,
       ScanReply, ScanError, ScanConnect, ScanApply, ScanGiveUp, FillStart,
       FillReply, TreeNext, TreeStore, ProxyStore, ProxyFail, WatchStart,
       WatchWait, WatchWake
  <2> QED
    BY <1>1, <2>1
<1> QED
  BY <1>2, <1>3, <1>4 DEF Bus

\* The caches' invariant is inductive.
LEMMA CacheStep == TypeOK /\ Fresh /\ CacheInv /\ [Next]_vars => CacheInv'
<1> SUFFICES ASSUME TypeOK, Fresh, CacheInv, [Next]_vars PROVE CacheInv'
  OBVIOUS
<1>1. ASSUME UNCHANGED <<owner, caches, fill, suspect>> PROVE CacheInv'
  BY <1>1 DEF CacheInv, TreeCurrent, ProxyCurrent, FillExact, caches
<1> USE DEF bus, friends, loop
<1>2. CASE UNCHANGED vars
  BY <1>1, <1>2 DEF vars, caches
<1>3. ASSUME NEW n \in Names, NameAppears(n) PROVE CacheInv'
  <2>1. generation + 1 \in Nat /\ owner[n] # generation + 1
    BY <1>3 DEF TypeOK, NameAppears
  <2> QED
    BY <1>3, <2>1, OwnerChangeCaches DEF NameAppears
<1>4. ASSUME NEW n \in Names, NameVanishes(n) PROVE CacheInv'
  BY <1>4, OwnerChangeCaches DEF NameVanishes
<1>5. ASSUME NEW n \in Names, NameHandedOver(n) PROVE CacheInv'
  <2>1. generation + 1 \in Nat /\ owner[n] # generation + 1
    BY DEF TypeOK, Fresh
  <2> QED
    BY <1>5, <2>1, OwnerChangeCaches DEF NameHandedOver
<1>6. CASE EndRead
  BY <1>1, <1>6 DEF EndRead
<1>7. ASSUME NEW s \in Scanners,
             \/ ScanStart(s) \/ ScanReply(s) \/ ScanError(s)
             \/ ScanConnect(s) \/ ScanApply(s) \/ ScanGiveUp(s)
      PROVE  CacheInv'
  BY <1>1, <1>7 DEF ScanStart, ScanReply, ScanError, ScanConnect, ScanApply,
                    ScanGiveUp
<1>8. CASE WatchStart \/ WatchWait \/ WatchWake
  BY <1>1, <1>8 DEF WatchStart, WatchWait, WatchWake
<1> QED
  BY <1>2, <1>3, <1>4, <1>5, <1>6, <1>7, <1>8, FillStep
     DEF Next, Bus, Read, Continue, Call

\* No cache entry outlives the owner it describes, unless ownership changed
\* while it was being read or went from owner to owner: trees and proxies.
THEOREM CachesSafe == Spec => []CachesCurrent
<1>1. Init => CacheInv /\ Fresh
  BY DEF Init, CacheInv, TreeCurrent, ProxyCurrent, FillExact, NoFill, Fresh
<1>2. CacheInv => CachesCurrent
  BY DEF CacheInv, CachesCurrent
<1> QED
  BY <1>1, <1>2, TypeCorrect, FreshStep, CacheStep, PTL DEF Spec
=============================================================================
