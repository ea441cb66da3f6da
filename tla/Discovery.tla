------------------------------ MODULE Discovery ------------------------------
(***************************************************************************)
(* Peer discovery of pympacds: the part of DBusManager (dbus.py) that      *)
(* keeps the set of friend bus names and the two per-friend caches.        *)
(*                                                                         *)
(* Everything runs on one asyncio loop.  Its reader callback handles       *)
(* incoming messages one after the other: a NameOwnerChanged signal runs   *)
(* its handler at once, but a method reply only resolves a future, and the *)
(* coroutine that awaits it continues in a later turn of the loop.  What   *)
(* the reader handles between the two is what can overtake a reply.        *)
(*                                                                         *)
(* The connection is FIFO and the service sees the bus only through it, so *)
(* a bus event is modelled at the moment its message is read.              *)
(***************************************************************************)
EXTENDS Naturals, Sequences

CONSTANTS
    Names,      \* well-known bus names that share the service's prefix
    Scanners,   \* tasks that call update_friendbus()
    Callers,    \* tasks that call introspect_tree() or get_interface()
    Watcher,    \* the task that calls wait_friend_changes()
    MaxGen,     \* bound: how many times some name may get an owner
    MaxPaths,   \* bound: object paths of one service's tree
    DiscoveryEnabled,   \* the configuration key: start() scans by itself
    NoEntry     \* what a cache holds for a name it does not know

ASSUME BoundAssumption == MaxGen \in Nat /\ MaxPaths \in Nat \ {0}
ASSUME TaskAssumption ==
    /\ Scanners \cap Callers = {}
    /\ Watcher \notin Scanners \cup Callers
ASSUME DiscoveryAssumption == DiscoveryEnabled \in BOOLEAN
ASSUME NoEntryAssumption == NoEntry \notin Names

VARIABLES
    owner,          \* the bus daemon: which owner each name has, 0 for none
    generation,     \* owners handed out so far: each owner is a fresh number
    listening,      \* _dbusif is set and its three signal handlers registered
    friendbus,      \* DBusManager.friendbus
    friendchanges,  \* DBusManager.friendchanges, the flag of the Event
    introspect_cache,   \* name -> the owners its cached tree describes
    proxy_cache,        \* name -> the owner its cached proxy was built from
    scan,           \* progress of each update_friendbus() call
    fill,           \* progress of each introspect_tree()/get_interface() call
    watch,          \* progress of the watcher
    ready,          \* asyncio's ready queue: tasks whose future is resolved
    turn,           \* entries of ready that run before the next read
    \* History of the run: nothing in the code reads or writes these.
    doubtful,       \* names a scan may have reported wrongly
    suspect         \* cache entries that an ownership change crossed

bus == <<owner, generation>>
friends == <<listening, friendbus, friendchanges>>
caches == <<introspect_cache, proxy_cache>>
loop == <<ready, turn>>
vars == <<owner, generation, listening, friendbus, friendchanges,
          introspect_cache, proxy_cache, scan, fill, watch, ready, turn,
          doubtful, suspect>>

Tasks == Scanners \cup Callers \cup {Watcher}
Kinds == {"tree", "proxy"}

\* A scan is idle, waits for a reply, or has a reply it has not yet handled.
\* "overtaken": the names whose ownership changed since the reply was read.
NoScan == [at |-> "idle", names |-> {}, overtaken |-> {}]
\* A fill works on one name.  "got" is the owner that sent the last reply (0
\* for an error), "todo" the length of to_visit, "visited" the size of seen.
\* "crossed": the name's ownership changed since an owner of it answered.
NoFill == [at |-> "idle", kind |-> "tree", name |-> NoEntry, tree |-> {},
           got |-> 0, todo |-> 0, visited |-> 0, crossed |-> FALSE]

Owned == {n \in Names : owner[n] # 0}

Init ==
    /\ owner = [n \in Names |-> 0]
    /\ generation = 0
    /\ listening = FALSE
    /\ friendbus = {}
    /\ friendchanges = FALSE
    /\ introspect_cache = [n \in Names |-> NoEntry]
    /\ proxy_cache = [n \in Names |-> NoEntry]
    /\ scan = [s \in Scanners |-> NoScan]
    /\ fill = [c \in Callers |-> NoFill]
    /\ watch = "unstarted"
    /\ ready = <<>> /\ turn = 0
    /\ doubtful = Names
    /\ suspect = {}

-----------------------------------------------------------------------------
(* The event loop.                                                         *)

\* The reader has nothing more to read: what is ready now runs next.
EndRead ==
    /\ turn = 0
    /\ ready # <<>>
    /\ turn' = Len(ready)
    /\ UNCHANGED <<bus, friends, caches, scan, fill, watch, ready,
                   doubtful, suspect>>

\* Task t is the next to run; its action says what the queue becomes.
Resumed(t) ==
    /\ turn > 0
    /\ Head(ready) = t
    /\ turn' = turn - 1

\* The reply to t's call is read: its future resolves.
Resolved(t) ==
    /\ turn = 0
    /\ ready' = Append(ready, t)
    /\ UNCHANGED turn

\* friendchanges.set(), leaving the ready queue as "rest" plus the watcher.
SignalChange(rest) ==
    /\ friendchanges' = TRUE
    /\ IF watch = "waiting"
       THEN watch' = "woken" /\ ready' = Append(rest, Watcher)
       ELSE UNCHANGED watch /\ ready' = rest

\* No change to report.
NoChange(rest) ==
    /\ ready' = rest
    /\ UNCHANGED <<friendchanges, watch>>

-----------------------------------------------------------------------------
(* NameOwnerChanged and its handler.                                       *)

NameAcquired(n) ==
    /\ friendbus' = friendbus \cup {n}
    /\ SignalChange(ready)
    /\ UNCHANGED caches

\* Mutant: one of the two caches is not popped.
NameLostKeepsTree(n) ==
    /\ friendbus' = friendbus \ {n}
    /\ proxy_cache' = [proxy_cache EXCEPT ![n] = NoEntry]
    /\ SignalChange(ready)
    /\ UNCHANGED introspect_cache

NameLost(n) ==
    /\ friendbus' = friendbus \ {n}
    /\ introspect_cache' = [introspect_cache EXCEPT ![n] = NoEntry]
    /\ proxy_cache' = [proxy_cache EXCEPT ![n] = NoEntry]
    /\ SignalChange(ready)

\* A change of owner the handler ignores, or that no handler hears.
Unheard == UNCHANGED <<friendbus, friendchanges, caches, watch, ready>>

\* Mutant: the old owner is tested first, so a handover counts as a loss.
HandoverIsLoss(n, old, new) ==
    CASE listening /\ old # 0 -> NameLost(n)
      [] listening /\ old = 0 -> NameAcquired(n)
      [] OTHER                -> Unheard

NameOwnerChanged(n, old, new) ==
    CASE listening /\ new = 0             -> NameLost(n)
      [] listening /\ new # 0 /\ old = 0  -> NameAcquired(n)
      [] OTHER                            -> Unheard

\* The fill holds something an owner of its name has sent.
HasRead(f) == f.tree # {} \/ f.got # 0

Crossed(n) ==
    fill' = [c \in Callers |-> IF fill[c].name = n /\ HasRead(fill[c])
                               THEN [fill[c] EXCEPT !.crossed = TRUE]
                               ELSE fill[c]]

Overtaken(n) ==
    scan' = [s \in Scanners |->
                IF scan[s].at = "replied"
                THEN [scan[s] EXCEPT !.overtaken = @ \cup {n}]
                ELSE scan[s]]

\* Name n gets the owner "new" (0: none); the reader handles the signal.
OwnerChange(n, new) ==
    /\ turn = 0
    /\ owner' = [owner EXCEPT ![n] = new]
    /\ NameOwnerChanged(n, owner[n], new)
    /\ Crossed(n)
    /\ suspect' = IF listening /\ new = 0
                  THEN suspect \ (Kinds \X {n})
                  ELSE IF owner[n] # 0 THEN suspect \cup (Kinds \X {n})
                                       ELSE suspect
    /\ UNCHANGED <<listening, turn>>

NameAppears(n) ==
    /\ owner[n] = 0
    /\ generation < MaxGen
    /\ generation' = generation + 1
    /\ OwnerChange(n, generation + 1)
    /\ Overtaken(n)
    /\ doubtful' = IF listening THEN doubtful \ {n} ELSE doubtful

NameVanishes(n) ==
    /\ owner[n] # 0
    /\ OwnerChange(n, 0)
    /\ Overtaken(n)
    /\ doubtful' = IF listening THEN doubtful \ {n} ELSE doubtful
    /\ UNCHANGED generation

\* The owner goes and a queued one takes the name in the same instant.
NameHandedOver(n) ==
    /\ owner[n] # 0
    /\ generation < MaxGen
    /\ generation' = generation + 1
    /\ OwnerChange(n, generation + 1)
    /\ UNCHANGED <<scan, doubtful>>

-----------------------------------------------------------------------------
(* update_friendbus()                                                      *)

\* _connect_dbusif() asks for the daemon's introspection the first time; a
\* later scan calls ListNames at once.
ScanStart(s) ==
    /\ scan[s].at = "idle"
    /\ scan' = [scan EXCEPT ![s].at =
                    IF listening THEN "listing" ELSE "connecting"]
    /\ UNCHANGED <<bus, friends, caches, fill, watch, loop,
                   doubtful, suspect>>

\* The reply is read.  A ListNames reply holds the names owned at that point
\* of the stream.
ScanReply(s) ==
    /\ \/ /\ scan[s].at = "connecting"
          /\ scan' = [scan EXCEPT ![s].at = "connected"]
       \/ /\ scan[s].at = "listing"
          /\ scan' = [scan EXCEPT ![s] = [at |-> "replied", names |-> Owned,
                                          overtaken |-> {}]]
    /\ Resolved(s)
    /\ UNCHANGED <<bus, friends, caches, fill, watch,
                   doubtful, suspect>>

\* Either call may fail instead.
ScanError(s) ==
    /\ scan[s].at \in {"connecting", "listing"}
    /\ scan' = [scan EXCEPT ![s].at = "failed"]
    /\ Resolved(s)
    /\ UNCHANGED <<bus, friends, caches, fill, watch,
                   doubtful, suspect>>

\* The proxy is there: register the handlers, then call ListNames.
ScanConnect(s) ==
    /\ scan[s].at = "connected"
    /\ Resumed(s)
    /\ listening' = TRUE
    /\ scan' = [scan EXCEPT ![s].at = "listing"]
    /\ ready' = Tail(ready)
    /\ UNCHANGED <<bus, friendbus, friendchanges, caches, fill, watch,
                   doubtful, suspect>>

\* Mutants of ScanApply: names gone without a signal stay friends...
ScanAppliedAsUnion(s) ==
    /\ scan[s].at = "replied"
    /\ Resumed(s)
    /\ friendbus' = friendbus \cup scan[s].names
    /\ IF friendbus' # friendbus
       THEN SignalChange(Tail(ready))
       ELSE NoChange(Tail(ready))
    /\ scan' = [scan EXCEPT ![s] = NoScan]
    /\ doubtful' = scan[s].overtaken
    /\ UNCHANGED <<bus, listening, caches, fill, suspect>>

\* ... or only new names set the event.
ScanAppliedOnGrowth(s) ==
    /\ scan[s].at = "replied"
    /\ Resumed(s)
    /\ friendbus' = scan[s].names
    /\ IF ~ scan[s].names \subseteq friendbus
       THEN SignalChange(Tail(ready))
       ELSE NoChange(Tail(ready))
    /\ scan' = [scan EXCEPT ![s] = NoScan]
    /\ doubtful' = scan[s].overtaken
    /\ UNCHANGED <<bus, listening, caches, fill, suspect>>

\* The reply's names replace the friend set.
ScanApply(s) ==
    /\ scan[s].at = "replied"
    /\ Resumed(s)
    /\ friendbus' = scan[s].names
    /\ IF scan[s].names # friendbus
       THEN SignalChange(Tail(ready))
       ELSE NoChange(Tail(ready))
    /\ scan' = [scan EXCEPT ![s] = NoScan]
    /\ doubtful' = scan[s].overtaken
    /\ UNCHANGED <<bus, listening, caches, fill, suspect>>

ScanGiveUp(s) ==
    /\ scan[s].at = "failed"
    /\ Resumed(s)
    /\ scan' = [scan EXCEPT ![s] = NoScan]
    /\ ready' = Tail(ready)
    /\ UNCHANGED <<bus, friends, caches, fill, watch,
                   doubtful, suspect>>

-----------------------------------------------------------------------------
(* introspect_tree() and get_interface(): fill a cache on a miss.          *)

Cached(kind, n) ==
    IF kind = "tree" THEN introspect_cache[n] ELSE proxy_cache[n]

\* With discovery enabled, start() has scanned before anything else runs.
Started == DiscoveryEnabled => listening

\* A hit returns at once and changes nothing; a miss asks for the first path.
FillStart(c, kind, n) ==
    /\ Started
    /\ fill[c].at = "idle"
    /\ Cached(kind, n) = NoEntry
    /\ fill' = [fill EXCEPT ![c] = [NoFill EXCEPT !.at = "asked",
                    !.kind = kind, !.name = n, !.visited = 1]]
    /\ UNCHANGED <<bus, friends, caches, scan, watch, loop,
                   doubtful, suspect>>

\* The name's owner answers, or the call fails (always, without an owner).
FillReply(c) ==
    /\ fill[c].at = "asked"
    /\ \E got \in {0, owner[fill[c].name]} :
          fill' = [fill EXCEPT ![c].at = "replied", ![c].got = got]
    /\ Resolved(c)
    /\ UNCHANGED <<bus, friends, caches, scan, watch,
                   doubtful, suspect>>

\* What the walk has read with this reply; a failed path is left out.
TreeSoFar(f) == IF f.got = 0 THEN f.tree ELSE f.tree \cup {f.got}

\* Child paths a reply may announce.
Children(f) == IF f.got = 0 THEN {0} ELSE 0..(MaxPaths - f.visited - f.todo)

\* The walk goes on to another path of to_visit.
TreeNext(c) ==
    /\ fill[c].at = "replied" /\ fill[c].kind = "tree"
    /\ Resumed(c)
    /\ \E new \in Children(fill[c]) :
          /\ fill[c].todo + new > 0
          /\ fill' = [fill EXCEPT ![c].at = "asked",
                         ![c].tree = TreeSoFar(fill[c]), ![c].got = 0,
                         ![c].todo = fill[c].todo + new - 1,
                         ![c].visited = @ + 1]
    /\ ready' = Tail(ready)
    /\ UNCHANGED <<bus, friends, caches, scan, watch,
                   doubtful, suspect>>

MarkSuspect(c) ==
    LET entry == <<fill[c].kind, fill[c].name>> IN
    suspect' = IF fill[c].crossed THEN suspect \cup {entry}
                                  ELSE suspect \ {entry}

\* Nothing is left to visit: the tree is cached, whatever has happened since.
TreeStore(c) ==
    /\ fill[c].at = "replied" /\ fill[c].kind = "tree"
    /\ fill[c].todo = 0
    /\ Resumed(c)
    /\ introspect_cache' =
           [introspect_cache EXCEPT ![fill[c].name] = TreeSoFar(fill[c])]
    /\ MarkSuspect(c)
    /\ fill' = [fill EXCEPT ![c] = NoFill]
    /\ ready' = Tail(ready)
    /\ UNCHANGED <<bus, friends, proxy_cache, scan, watch,
                   doubtful>>

\* Mutant: a failed introspection is cached like any other.
ProxyStoredAlways(c) ==
    /\ fill[c].at = "replied" /\ fill[c].kind = "proxy"
    /\ Resumed(c)
    /\ proxy_cache' = [proxy_cache EXCEPT ![fill[c].name] = fill[c].got]
    /\ MarkSuspect(c)
    /\ fill' = [fill EXCEPT ![c] = NoFill]
    /\ ready' = Tail(ready)
    /\ UNCHANGED <<bus, friends, introspect_cache, scan, watch,
                   doubtful>>

ProxyStore(c) ==
    /\ fill[c].at = "replied" /\ fill[c].kind = "proxy"
    /\ fill[c].got # 0
    /\ Resumed(c)
    /\ proxy_cache' = [proxy_cache EXCEPT ![fill[c].name] = fill[c].got]
    /\ MarkSuspect(c)
    /\ fill' = [fill EXCEPT ![c] = NoFill]
    /\ ready' = Tail(ready)
    /\ UNCHANGED <<bus, friends, introspect_cache, scan, watch,
                   doubtful>>

\* The introspection failed: its exception leaves get_interface().
ProxyFail(c) ==
    /\ fill[c].at = "replied" /\ fill[c].kind = "proxy"
    /\ fill[c].got = 0
    /\ Resumed(c)
    /\ fill' = [fill EXCEPT ![c] = NoFill]
    /\ ready' = Tail(ready)
    /\ UNCHANGED <<bus, friends, caches, scan, watch,
                   doubtful, suspect>>

-----------------------------------------------------------------------------
(* wait_friend_changes(), as SignalAction._rearm_loop calls it: look at    *)
(* the friends, work for a while, wait for the next change.                *)

\* setup() arms the rules on the friends of that moment.
WatchStart ==
    /\ Started
    /\ watch = "unstarted"
    /\ watch' = "busy"
    /\ UNCHANGED <<bus, friends, caches, scan, fill, loop,
                   doubtful, suspect>>

WatchWait ==
    /\ watch = "busy"
    /\ watch' = "waiting"
    /\ friendchanges' = FALSE
    /\ UNCHANGED <<bus, listening, friendbus, caches, scan, fill, loop,
                   doubtful, suspect>>

WatchWake ==
    /\ watch = "woken"
    /\ Resumed(Watcher)
    /\ watch' = "busy"
    /\ ready' = Tail(ready)
    /\ UNCHANGED <<bus, friends, caches, scan, fill,
                   doubtful, suspect>>

-----------------------------------------------------------------------------
\* A task runs on from its await.
Continue == \/ \E s \in Scanners : ScanConnect(s) \/ ScanApply(s) \/ ScanGiveUp(s)
            \/ \E c \in Callers : \/ TreeNext(c) \/ TreeStore(c)
                                  \/ ProxyStore(c) \/ ProxyFail(c)
            \/ WatchWake

\* A task runs from somewhere else: its own start, or the end of its work.
Call == \/ \E s \in Scanners : ScanStart(s)
        \/ \E c \in Callers, kind \in Kinds, n \in Names : FillStart(c, kind, n)
        \/ WatchStart \/ WatchWait

Bus == \E n \in Names : NameAppears(n) \/ NameVanishes(n) \/ NameHandedOver(n)

Read == \/ \E s \in Scanners : ScanReply(s) \/ ScanError(s)
        \/ \E c \in Callers : FillReply(c)

Next == Bus \/ Read \/ EndRead \/ Continue \/ Call

Spec == Init /\ [][Next]_vars

\* The loop keeps running, the daemon answers, and some task scans again and
\* again, as examples/collector.py does every five seconds.  A scan may fail,
\* but not every one of them for ever.
Fairness ==
    /\ WF_vars(EndRead)
    /\ WF_vars(Continue)
    /\ \A s \in Scanners : WF_vars(ScanStart(s)) /\ SF_vars(ScanReply(s))
    /\ \A c \in Callers : SF_vars(FillReply(c))
    /\ WF_vars(WatchWait)

FairSpec == Spec /\ Fairness

-----------------------------------------------------------------------------
(* What makes discovery correct.                                           *)

ScanType == [at: {"idle", "connecting", "connected", "listing", "replied",
                  "failed"},
             names: SUBSET Names, overtaken: SUBSET Names]
FillType ==
    {NoFill} \cup [at: {"asked", "replied"}, kind: Kinds, name: Names,
                  tree: SUBSET (Nat \ {0}), got: Nat, todo: Nat,
                  visited: Nat, crossed: BOOLEAN]

\* Every variable of DBusManager, of the loop and of the bus keeps its type;
\* the loop never owes more entries than its ready queue holds.
TypeOK ==
    /\ owner \in [Names -> Nat]
    /\ generation \in Nat
    /\ listening \in BOOLEAN
    /\ friendbus \in SUBSET Names
    /\ friendchanges \in BOOLEAN
    /\ introspect_cache \in [Names -> (SUBSET (Nat \ {0})) \cup {NoEntry}]
    /\ proxy_cache \in [Names -> (Nat \ {0}) \cup {NoEntry}]
    /\ scan \in [Scanners -> ScanType]
    /\ fill \in [Callers -> FillType]
    /\ watch \in {"unstarted", "busy", "waiting", "woken"}
    /\ ready \in Seq(Tasks)
    /\ turn \in Nat /\ turn <= Len(ready)
    /\ doubtful \in SUBSET Names
    /\ suspect \in SUBSET (Kinds \X Names)

\* The friend set is exact for every name, except a name whose signal was
\* read between a ListNames reply and the scan that applies it: signals and
\* scans, in whatever order they come, otherwise agree with the bus.
FriendSetExact ==
    \A n \in Names \ doubtful : n \in friendbus <=> owner[n] # 0

\* A cached tree describes the present owner of its name and no earlier one,
\* unless ownership changed during the walk that filled it, or passed from
\* owner to owner since: losing a friend drops what was cached of it.
TreeCurrent ==
    \A n \in Names :
        introspect_cache[n] # NoEntry /\ <<"tree", n>> \notin suspect
            => introspect_cache[n] \subseteq {owner[n]}

\* The same of a cached proxy, which a failed introspection never leaves.
ProxyCurrent ==
    \A n \in Names :
        proxy_cache[n] # NoEntry /\ <<"proxy", n>> \notin suspect
            => owner[n] # 0 /\ proxy_cache[n] = owner[n]

\* What is cached of a friend is the friend's, and not its predecessor's.
CachesCurrent == TreeCurrent /\ ProxyCurrent

\* Where the watcher is, as far as wait_friend_changes() goes.
Watching == IF watch \in {"waiting", "woken"} THEN watch ELSE "away"

W == INSTANCE FriendWatch WITH friends <- friendbus, watch <- Watching

\* wait_friend_changes() sleeps through no change made after it was called,
\* whether a signal or a scan made it.
WatchKept == W!Spec

\* Once ownership settles, repeated scans bring the friend set to the bus's
\* state and keep it there, whatever an overtaken reply did before.
FriendSetConverges == <>[](friendbus = Owned)
=============================================================================
