------------------------ MODULE ProcessLifecycle_proof ------------------------
(***************************************************************************)
(* Proofs about ProcessLifecycle for any middleware the service declares   *)
(* and the file configures, in any number and order, and any jobs: that the *)
(* last entry of a class decides its section, that only instances that were *)
(* set up are found once the service runs, and that what was set up is torn *)
(* down in reverse, with no task running and the bus still there.          *)
(***************************************************************************)
EXTENDS ProcessLifecycle, SequenceTheorems, TLAPS

-----------------------------------------------------------------------------
(* The inductive invariant.                                                *)

Instances == loaded.instances

\* Among the first k entries, the last one of a class decides its section, if
\* it is one of the file's.
LastWins(k) ==
    \A i \in 1 .. k :
        /\ i > Len(Programmatic) /\ fate[i] # "unknown"
        /\ \A j \in 1 .. k :
              j > i /\ Declared[j].class = Declared[i].class => fate[j] = "unknown"
        /\ Declared[i].class \in DOMAIN loaded.section
        => loaded.section[Declared[i].class] = Declared[i].section

\* One instance of a class at most, and a name for none that is not there.
OneEach ==
    /\ DOMAIN loaded = {"instances", "names", "section"}
    /\ Instances \in Seq(Classes) /\ IsInjective(Instances)
    /\ Len(Instances) <= Len(Declared)
    /\ \A n \in loaded.names : n[2] \in ToSet(Instances)
    /\ pc = "init" => /\ next <= Len(Declared) /\ Len(Instances) <= next
                      /\ DOMAIN loaded.section = ToSet(Instances)
                      /\ LastWins(next)

\* The instances are the ones that were set up, those that failed and, while
\* setup() still runs, those to come.
SetUp ==
    /\ ready \subseteq ToSet(Instances)
    /\ pc \in {"init", "dbus"} => ready = {} /\ failed = {}
    /\ pc = "setup" =>
           /\ next \in 1 .. Len(Instances) + 1 /\ failed \subseteq 1 .. next - 1
           /\ ready = {Instances[i] : i \in (1 .. next - 1) \ failed}
    /\ pc = "dropping" =>
           /\ failed \subseteq 1 .. Len(Instances)
           /\ ready = {Instances[i] : i \in (1 .. Len(Instances)) \ failed}

\* Teardown goes from the last instance to the first, and the bus goes last.
Unwound ==
    /\ torn \in Seq(Classes)
    /\ pc \notin {"teardown", "closed", "crashed", "exited"} => torn = <<>>
    /\ pc = "teardown" =>
           /\ next \in 0 .. Len(Instances) /\ Len(torn) = Len(Instances) - next
           /\ \A k \in 1 .. Len(torn) : torn[k] = Instances[Len(Instances) - k + 1]
    /\ pc = "closed" => torn = Reverse(Instances)
    /\ bus = "stopped" => pc \in {"closed", "exited"} /\ torn = Reverse(Instances)

\* Before the loop only middleware has tasks; close_loop() has each task that
\* still runs before it, and teardown finds none.
Settled ==
    /\ todo # {} => pc = "closing"
    /\ pc \in {"init", "dbus", "setup", "dropping"} =>
           \A n \in Names \ Classes : task[n] = "absent"
    /\ pc = "closing" => \A n \in Names : task[n] = "running" => n \in todo
    /\ pc = "teardown" => \A n \in Names : task[n] # "running"

IInv == TypeOK /\ OneEach /\ SetUp /\ Unwound /\ Settled /\ ConfigWins

-----------------------------------------------------------------------------
(* Sequences in which nothing occurs twice.                                *)

LEMMA Extended ==
    ASSUME NEW S, NEW s \in Seq(S), NEW c \in S
    PROVE  /\ Append(s, c) \in Seq(S) /\ Len(Append(s, c)) = Len(s) + 1
           /\ ToSet(Append(s, c)) = ToSet(s) \cup {c}
           /\ IsInjective(s) /\ c \notin ToSet(s) => IsInjective(Append(s, c))
<1> DEFINE t == Append(s, c)
<1>1. /\ t \in Seq(S) /\ Len(t) = Len(s) + 1 /\ Len(s) \in Nat
      /\ DOMAIN s = 1 .. Len(s) /\ DOMAIN t = 1 .. Len(s) + 1
      /\ t[Len(s) + 1] = c /\ \A k \in 1 .. Len(s) : t[k] = s[k]
  BY AppendProperties
<1> HIDE DEF t
<1>2. ToSet(t) = ToSet(s) \cup {c}
  <2>1. \A k \in 1 .. Len(s) : k \in 1 .. Len(s) + 1
    BY <1>1
  <2>2. \A k \in 1 .. Len(s) + 1 : k \in 1 .. Len(s) \/ k = Len(s) + 1
    BY <1>1
  <2>3. ToSet(t) \subseteq ToSet(s) \cup {c}
    BY <1>1, <2>2 DEF ToSet
  <2>4. ToSet(s) \cup {c} \subseteq ToSet(t)
    BY <1>1, <2>1 DEF ToSet
  <2> QED
    BY <2>3, <2>4
<1>3. ASSUME IsInjective(s), c \notin ToSet(s) PROVE IsInjective(t)
  <2>1. \A k \in 1 .. Len(s) : s[k] # c
    BY <1>1, <1>3 DEF ToSet
  <2>2. \A k, l \in 1 .. Len(s) : s[k] = s[l] => k = l
    BY <1>1, <1>3 DEF IsInjective
  <2> QED
    BY <1>1, <2>1, <2>2 DEF IsInjective
<1> QED
  BY <1>1, <1>2, <1>3 DEF t

LEMMA Removed ==
    ASSUME NEW S, NEW s \in Seq(S), IsInjective(s), NEW i \in 1 .. Len(s)
    PROVE  /\ RemoveAt(s, i) \in Seq(S) /\ Len(RemoveAt(s, i)) = Len(s) - 1
           /\ \A k \in 1 .. Len(s) - 1 : RemoveAt(s, i)[k] = IF k < i THEN s[k] ELSE s[k + 1]
           /\ ToSet(RemoveAt(s, i)) = ToSet(s) \ {s[i]}
           /\ IsInjective(RemoveAt(s, i))
<1> DEFINE t == RemoveAt(s, i)
           p == SubSeq(s, 1, i - 1)
           q == SubSeq(s, i + 1, Len(s))
<1>0. Len(s) \in Nat /\ DOMAIN s = 1 .. Len(s) /\ i \in Nat /\ i >= 1 /\ i <= Len(s)
  OBVIOUS
<1>1. p \in Seq(S) /\ Len(p) = i - 1 /\ \A k \in 1 .. i - 1 : p[k] = s[k]
  <2>1. /\ SubSeq(s, 1, i - 1) \in Seq(S)
        /\ Len(SubSeq(s, 1, i - 1)) = IF 1 <= i - 1 THEN i - 1 - 1 + 1 ELSE 0
        /\ \A k \in 1 .. i - 1 - 1 + 1 : SubSeq(s, 1, i - 1)[k] = s[1 + k - 1]
    <3>1. \A k \in 1 .. i - 1 : s[k] \in S
      BY <1>0, ElementOfSeq
    <3> QED
      BY <1>0, <3>1, SubSeqProperties
  <2> HIDE DEF p
  <2>2. p = SubSeq(s, 1, i - 1)
    BY DEF p
  <2> QED
    BY <1>0, <2>1, <2>2
<1>2. q \in Seq(S) /\ Len(q) = Len(s) - i /\ \A k \in 1 .. Len(s) - i : q[k] = s[i + k]
  <2>1. /\ SubSeq(s, i + 1, Len(s)) \in Seq(S)
        /\ Len(SubSeq(s, i + 1, Len(s))) =
               IF i + 1 <= Len(s) THEN Len(s) - (i + 1) + 1 ELSE 0
        /\ \A k \in 1 .. Len(s) - (i + 1) + 1 :
               SubSeq(s, i + 1, Len(s))[k] = s[i + 1 + k - 1]
    <3>1. \A k \in i + 1 .. Len(s) : s[k] \in S
      BY <1>0, ElementOfSeq
    <3> QED
      BY <1>0, <3>1, SubSeqProperties
  <2> HIDE DEF p, q
  <2>2. q = SubSeq(s, i + 1, Len(s))
    BY DEF q
  <2>3. /\ (IF i + 1 <= Len(s) THEN Len(s) - (i + 1) + 1 ELSE 0) = Len(s) - i
        /\ Len(s) - (i + 1) + 1 = Len(s) - i
    <3>1. ASSUME NEW n \in Nat, NEW m \in Nat, m <= n
          PROVE  /\ (IF m + 1 <= n THEN n - (m + 1) + 1 ELSE 0) = n - m
                 /\ n - (m + 1) + 1 = n - m
      BY <3>1
    <3> QED
      BY <1>0, <3>1
  <2>4. \A k \in 1 .. Len(s) - i : i + 1 + k - 1 = i + k
    BY <1>0
  <2> QED
    BY <2>1, <2>2, <2>3, <2>4
<1>3. /\ t \in Seq(S) /\ Len(t) = Len(s) - 1 /\ DOMAIN t = 1 .. Len(s) - 1
      /\ \A k \in 1 .. Len(s) - 1 : t[k] = IF k <= i - 1 THEN p[k] ELSE q[k - (i - 1)]
  <2> HIDE DEF p, q
  <2>1. t = p \o q
    BY DEF RemoveAt, p, q
  <2>2. /\ p \o q \in Seq(S) /\ Len(p \o q) = Len(p) + Len(q)
        /\ \A k \in 1 .. Len(p) + Len(q) :
               (p \o q)[k] = IF k <= Len(p) THEN p[k] ELSE q[k - Len(p)]
    BY <1>1, <1>2, ConcatProperties
  <2>3. Len(p) + Len(q) = Len(s) - 1 /\ Len(p) = i - 1
    BY <1>0, <1>1, <1>2
  <2> HIDE DEF t
  <2>4. t \in Seq(S) /\ Len(t) = Len(s) - 1
    BY <2>1, <2>2, <2>3
  <2>5. DOMAIN t = 1 .. Len(s) - 1
    BY <2>4, LenProperties
  <2> QED
    BY <2>1, <2>2, <2>3, <2>4, <2>5
<1> HIDE DEF t, p, q
<1>4. \A k \in 1 .. Len(s) - 1 : t[k] = IF k < i THEN s[k] ELSE s[k + 1]
  <2> SUFFICES ASSUME NEW k \in 1 .. Len(s) - 1
               PROVE  t[k] = IF k < i THEN s[k] ELSE s[k + 1]
    OBVIOUS
  <2>1. CASE k < i
    <3>1. k \in 1 .. i - 1 /\ k <= i - 1
      BY <1>0, <2>1
    <3> QED
      BY <1>1, <1>3, <2>1, <3>1
  <2>2. CASE ~(k < i)
    <3>1. k - (i - 1) \in 1 .. Len(s) - i /\ i + (k - (i - 1)) = k + 1 /\ ~(k <= i - 1)
      BY <1>0, <2>2
    <3>2. q[k - (i - 1)] = s[i + (k - (i - 1))]
      BY <1>2, <3>1
    <3>3. t[k] = q[k - (i - 1)]
      BY <1>3, <3>1
    <3> QED
      BY <2>2, <3>1, <3>2, <3>3
  <2> QED
    BY <2>1, <2>2
<1>5. \A k, l \in 1 .. Len(s) : s[k] = s[l] => k = l
  BY <1>0 DEF IsInjective
<1>6. IsInjective(t)
  BY <1>0, <1>3, <1>4, <1>5 DEF IsInjective
<1>7. ToSet(t) \subseteq ToSet(s) \ {s[i]}
  <2> SUFFICES ASSUME NEW k \in 1 .. Len(s) - 1 PROVE t[k] \in ToSet(s) /\ t[k] # s[i]
    BY <1>3 DEF ToSet
  <2>1. CASE k < i
    BY <1>0, <1>4, <1>5, <2>1 DEF ToSet
  <2>2. CASE ~(k < i)
    BY <1>0, <1>4, <1>5, <2>2 DEF ToSet
  <2> QED
    BY <2>1, <2>2
<1>8. ToSet(s) \ {s[i]} \subseteq ToSet(t)
  <2> SUFFICES ASSUME NEW k \in 1 .. Len(s), k # i PROVE s[k] \in ToSet(t)
    BY <1>0 DEF ToSet
  <2>1. CASE k < i
    <3>1. k \in 1 .. Len(s) - 1 /\ t[k] = s[k]
      BY <1>0, <1>4, <2>1
    <3> QED
      BY <1>3, <3>1 DEF ToSet
  <2>2. CASE k > i
    <3>1. k - 1 \in 1 .. Len(s) - 1 /\ ~(k - 1 < i) /\ (k - 1) + 1 = k
      BY <1>0, <2>2
    <3>2. t[k - 1] = s[k]
      BY <1>4, <3>1
    <3> QED
      BY <1>3, <3>1, <3>2 DEF ToSet
  <2> QED
    BY <1>0, <2>1, <2>2
<1> QED
  BY <1>3, <1>4, <1>6, <1>7, <1>8 DEF t

LEMMA Reversed ==
    ASSUME NEW S, NEW s \in Seq(S), IsInjective(s)
    PROVE  ToSet(Reverse(s)) = ToSet(s) /\ IsInjective(Reverse(s))
<1>1. /\ Len(s) \in Nat /\ DOMAIN s = 1 .. Len(s) /\ DOMAIN Reverse(s) = 1 .. Len(s)
      /\ \A k \in 1 .. Len(s) : Reverse(s)[k] = s[Len(s) - k + 1]
  BY DEF Reverse
<1>2. \A k \in 1 .. Len(s) : Len(s) - k + 1 \in 1 .. Len(s)
  BY <1>1
<1>3. \A k \in 1 .. Len(s) : s[k] = Reverse(s)[Len(s) - k + 1]
  BY <1>1, <1>2
<1>4. ToSet(Reverse(s)) \subseteq ToSet(s)
  BY <1>1, <1>2 DEF ToSet
<1>5. ToSet(s) \subseteq ToSet(Reverse(s))
  BY <1>1, <1>2, <1>3 DEF ToSet
<1>6. IsInjective(Reverse(s))
  <2> SUFFICES ASSUME NEW k \in 1 .. Len(s), NEW l \in 1 .. Len(s),
                      Reverse(s)[k] = Reverse(s)[l]
               PROVE  k = l
    BY <1>1 DEF IsInjective
  <2>1. Len(s) - k + 1 = Len(s) - l + 1
    BY <1>1, <1>2 DEF IsInjective
  <2> QED
    BY <1>1, <2>1
<1> QED
  BY <1>4, <1>5, <1>6

-----------------------------------------------------------------------------
(* Loading.                                                                *)

LEMMA TheDeclared ==
    /\ Len(Programmatic) \in Nat /\ Len(Declared) \in Nat
    /\ DOMAIN Declared = 1 .. Len(Declared)
    /\ \A i \in 1 .. Len(Declared) : Declared[i].class \in Classes
<1> DEFINE S == ToSet(Programmatic) \cup ToSet(Configured)
<1>1. /\ \A i \in DOMAIN Programmatic : Programmatic[i].class \in Classes
      /\ \A i \in DOMAIN Configured : Configured[i].class \in Classes
  BY EntryAssumption DEF EntryShape
<1>2. \A e \in S : e.class \in Classes
  BY <1>1 DEF ToSet
<1>3. Programmatic \in Seq(S) /\ Configured \in Seq(S)
  <2>1. ToSet(Programmatic) \subseteq S /\ ToSet(Configured) \subseteq S
    OBVIOUS
  <2> HIDE DEF S
  <2> QED
    BY <2>1, ListAssumption, SeqMonotonic
<1> HIDE DEF S
<1>4. Declared \in Seq(S) /\ Len(Programmatic) \in Nat
  BY <1>3 DEF Declared
<1>5. Len(Declared) \in Nat /\ \A i \in 1 .. Len(Declared) : Declared[i] \in S
  BY <1>4, ElementOfSeq
<1>6. DOMAIN Declared = 1 .. Len(Declared)
  BY <1>4
<1> QED
  BY <1>2, <1>4, <1>5, <1>6

\* An entry adds an instance of its class, changes its section, or nothing; the
\* file's has its way.
LEMMA Loads ==
    ASSUME NEW k \in 1 .. Len(Declared), NEW acc,
           DOMAIN acc = {"instances", "names", "section"},
           acc.instances \in Seq(Classes), IsInjective(acc.instances),
           DOMAIN acc.section = ToSet(acc.instances),
           \A n \in acc.names : n[2] \in ToSet(acc.instances)
    PROVE  LET l == Load(acc, k)
               c == Declared[k].class
           IN  /\ DOMAIN l = {"instances", "names", "section"}
               /\ l.instances \in Seq(Classes) /\ IsInjective(l.instances)
               /\ Len(l.instances) <= Len(acc.instances) + 1
               /\ DOMAIN l.section = ToSet(l.instances)
               /\ \A n \in l.names : n[2] \in ToSet(l.instances)
               /\ \A d \in Classes : d # c =>
                      /\ d \in DOMAIN l.section <=> d \in DOMAIN acc.section
                      /\ d \in DOMAIN l.section => l.section[d] = acc.section[d]
               /\ k > Len(Programmatic) =>
                      /\ fate[k] = "unknown" => l = acc
                      /\ fate[k] # "unknown" /\ c \in DOMAIN l.section =>
                             l.section[c] = Declared[k].section
<1> DEFINE e == Declared[k]
           c == Declared[k].class
           l == Load(acc, k)
           named == Named(acc, e)
           only == Sectioned(named, e)
           made == Instantiated(acc, e)
<1>0. c \in Classes /\ Len(acc.instances) \in Nat
  BY TheDeclared
<1>1. /\ DOMAIN named = {"instances", "names", "section"}
      /\ named.instances = acc.instances /\ named.section = acc.section
      /\ \A n \in named.names : n \in acc.names \/ n = <<e.name, c>>
  BY DEF Named
<1>2. /\ DOMAIN only = {"instances", "names", "section"}
      /\ only.instances = acc.instances /\ only.names = named.names
      /\ only.section = [d \in DOMAIN acc.section \cup {c} |->
                             IF d = c THEN e.section ELSE acc.section[d]]
  <2> HIDE DEF named
  <2> QED
    BY <1>1 DEF Sectioned
<1>3. /\ DOMAIN made = {"instances", "names", "section"}
      /\ made.instances = Append(acc.instances, c) /\ made.names = named.names
      /\ made.section = only.section
  <2>1. made = [only EXCEPT !.instances = Append(@, c)]
    BY DEF Instantiated
  <2> HIDE DEF only, made, named
  <2> QED
    BY <1>2, <2>1
<1>4. \/ l = acc /\ (k > Len(Programmatic) => fate[k] = "unknown" \/ c \notin ToSet(acc.instances))
      \/ l = only /\ c \in ToSet(acc.instances) /\ fate[k] # "unknown"
      \/ l = made /\ c \notin ToSet(acc.instances) /\ fate[k] # "unknown"
  <2>1. CASE k <= Len(Programmatic)
    <3>1. Len(Programmatic) \in Nat
      BY TheDeclared
    <3>2. ~(k > Len(Programmatic))
      BY <2>1, <3>1
    <3> QED
      BY <2>1, <3>2 DEF Load, LoadProgrammatic, Has
  <2>2. CASE ~(k <= Len(Programmatic))
    BY <2>2 DEF Load, LoadConfig, Has
  <2> QED
    BY <2>1, <2>2
<1>5. k > Len(Programmatic) /\ fate[k] = "unknown" => l = acc
  BY <1>4
<1> HIDE DEF l, only, made, named
<1>6. CASE l = acc /\ (k > Len(Programmatic) =>
                        fate[k] = "unknown" \/ c \notin ToSet(acc.instances))
  <2>1. Len(l.instances) <= Len(acc.instances) + 1
    BY <1>0, <1>6
  <2> QED
    BY <1>6, <2>1 DEF l
<1>7. CASE l = only /\ c \in ToSet(acc.instances) /\ fate[k] # "unknown"
  <2>1. Len(l.instances) <= Len(acc.instances) + 1
    BY <1>0, <1>2, <1>7
  <2>2. DOMAIN l.section = ToSet(l.instances)
    BY <1>2, <1>7
  <2>3. \A n \in l.names : n[2] \in ToSet(l.instances)
    BY <1>1, <1>2, <1>7
  <2>4. /\ l.section[c] = e.section
        /\ \A d \in Classes : d # c =>
              /\ d \in DOMAIN l.section <=> d \in DOMAIN acc.section
              /\ d \in DOMAIN l.section => l.section[d] = acc.section[d]
    BY <1>2, <1>7
  <2> QED
    BY <1>2, <1>7, <2>1, <2>2, <2>3, <2>4 DEF l
<1>8. CASE l = made /\ c \notin ToSet(acc.instances) /\ fate[k] # "unknown"
  <2>1. /\ l.instances \in Seq(Classes) /\ Len(l.instances) = Len(acc.instances) + 1
        /\ ToSet(l.instances) = ToSet(acc.instances) \cup {c}
        /\ IsInjective(l.instances)
    <3>1. /\ Append(acc.instances, c) \in Seq(Classes)
          /\ Len(Append(acc.instances, c)) = Len(acc.instances) + 1
          /\ ToSet(Append(acc.instances, c)) = ToSet(acc.instances) \cup {c}
          /\ c \notin ToSet(acc.instances) => IsInjective(Append(acc.instances, c))
      BY <1>0, Extended
    <3> QED
      BY <1>3, <1>8, <3>1
  <2>2. DOMAIN l.section = ToSet(l.instances)
    BY <1>2, <1>3, <1>8, <2>1
  <2>3. \A n \in l.names : n[2] \in ToSet(l.instances)
    BY <1>1, <1>3, <1>8, <2>1
  <2>4. /\ l.section[c] = e.section
        /\ \A d \in Classes : d # c =>
              /\ d \in DOMAIN l.section <=> d \in DOMAIN acc.section
              /\ d \in DOMAIN l.section => l.section[d] = acc.section[d]
    BY <1>2, <1>3, <1>8
  <2>5. Len(l.instances) <= Len(acc.instances) + 1
    BY <1>0, <2>1
  <2> QED
    BY <1>3, <1>8, <2>1, <2>2, <2>3, <2>4, <2>5 DEF l
<1> QED
  BY <1>4, <1>6, <1>7, <1>8

-----------------------------------------------------------------------------
(* Steps that leave the middleware alone.                                  *)

\* What the service is given once setup() has ended.
Served ==
    /\ \A i \in DOMAIN Declared : GetMiddleware(Declared[i].name) \subseteq ready
    /\ ToSet(Instances) = ready

LEMMA Typed ==
    ASSUME TypeOK, UNCHANGED middleware, pc' \in Stages,
           task' \in [Names -> {"absent", "running", "finished"}],
           orphans' \subseteq Classes, cancelled' \subseteq todo',
           todo' \subseteq Names, exit' \in BOOLEAN, signalled' \in BOOLEAN,
           bus' \in {"none", "up", "lost", "stopped"},
           pc' = "waiting" => pc = "waiting" \/ Served
    PROVE  TypeOK'
<1>1. /\ loaded' = loaded /\ next' = next /\ failed' = failed
      /\ ready' = ready /\ torn' = torn
  BY DEF middleware
<1>2. pc' = "waiting" =>
        /\ \A i \in DOMAIN Declared : GetMiddleware(Declared[i].name)' \subseteq ready
        /\ ToSet(loaded.instances) = ready
  BY <1>1 DEF TypeOK, Served, Instances, GetMiddleware
<1>3. /\ ToSet(loaded'.instances) \subseteq Classes
      /\ DOMAIN loaded'.section \subseteq Classes
      /\ \A n \in loaded'.names : n[2] \in Classes
      /\ next' \in 0 .. Len(Declared) + 1 /\ failed' \subseteq 1 .. Len(Declared)
      /\ ready' \subseteq Classes /\ ToSet(torn') \subseteq Classes
  BY <1>1 DEF TypeOK
<1> QED
  BY <1>1, <1>2, <1>3 DEF TypeOK

LEMMA MiddlewareKept ==
    ASSUME OneEach, SetUp, Unwound, ConfigWins, UNCHANGED middleware,
           bus' = "stopped" => bus = "stopped",
           \/ pc' = pc
           \/ /\ pc \in {"dbus", "setup", "dropping", "waiting"}
              /\ pc' \in {"waiting", "closing", "crashed"}
           \/ pc \in {"closed", "crashed"} /\ pc' = "exited"
    PROVE  OneEach' /\ SetUp' /\ Unwound' /\ ConfigWins'
<1>1. /\ fate' = fate /\ loaded' = loaded /\ next' = next /\ failed' = failed
      /\ ready' = ready /\ torn' = torn /\ Instances' = Instances
  BY DEF middleware, Instances
<1>2. pc' = "init" => pc = "init"
  OBVIOUS
<1>3. OneEach'
  BY <1>1, <1>2 DEF OneEach, LastWins
<1>4. SetUp'
  BY <1>1 DEF SetUp
<1>5. Unwound'
  BY <1>1 DEF Unwound
<1>6. ConfigWins'
  <2>1. pc' # "init" => pc # "init"
    OBVIOUS
  <2> QED
    BY <1>1, <2>1 DEF ConfigWins
<1> QED
  BY <1>3, <1>4, <1>5, <1>6

\* close_loop() starts with each task that runs, whatever came before it.
LEMMA Closes ==
    ASSUME TypeOK, Settled, NEW list \in [Names -> {"absent", "running", "finished"}],
           pc \in {"dbus", "setup", "dropping", "waiting"}, Close(list),
           UNCHANGED cancelled
    PROVE  /\ task' \in [Names -> {"absent", "running", "finished"}]
           /\ todo' \subseteq Names /\ cancelled' \subseteq todo'
           /\ pc' = "closing" /\ Settled'
<1>1. pc' = "closing" /\ task' = list /\ todo' = {n \in Names : list[n] # "absent"}
  BY DEF Close, BeginClose
<1>2. cancelled' = {}
  BY DEF TypeOK, Settled
<1>3. Settled'
  BY <1>1 DEF Settled
<1> QED
  BY <1>1, <1>2, <1>3

LEMMA LoopHeads ==
    ASSUME TypeOK, Settled, NEW list \in [Names -> {"absent", "running", "finished"}],
           pc \in {"dropping", "waiting"}, LoopHead(list), UNCHANGED cancelled
    PROVE  /\ task' \in [Names -> {"absent", "running", "finished"}]
           /\ todo' \subseteq Names /\ cancelled' \subseteq todo'
           /\ pc' \in {"waiting", "closing", "crashed"} /\ Settled'
<1>1. CASE Close(list)
  BY <1>1, Closes
<1>2. CASE pc' \in {"waiting", "crashed"} /\ task' \in {list, UpdateTasks(list)}
           /\ UNCHANGED todo
  <2>1. UpdateTasks(list) \in [Names -> {"absent", "running", "finished"}]
    BY DEF UpdateTasks
  <2>2. Settled'
    BY <1>2 DEF Settled
  <2> QED
    BY <1>2, <2>1, <2>2 DEF TypeOK
<1> QED
  BY <1>1, <1>2 DEF LoopHead

-----------------------------------------------------------------------------
(* init_loop()                                                             *)

LEMMA InitInv == Init => IInv
<1> SUFFICES ASSUME Init PROVE IInv
  OBVIOUS
<1> USE DEF Init, Nothing
<1>1. Instances = <<>> /\ Instances \in Seq(Classes) /\ Len(Instances) = 0
  BY DEF Instances
<1>2. DOMAIN Instances = {} /\ ToSet(Instances) = {} /\ IsInjective(Instances)
  BY <1>1 DEF ToSet, IsInjective
<1>3. ToSet(torn) = {} /\ torn \in Seq(Classes)
  BY DEF ToSet
<1>4. DOMAIN loaded = {"instances", "names", "section"} /\ loaded.names = {}
      /\ DOMAIN loaded.section = {}
  OBVIOUS
<1>5. Len(Declared) \in Nat
  BY TheDeclared
<1>6. TypeOK
  <2>1. ToSet(loaded.instances) = {}
    BY <1>2 DEF Instances
  <2>2. pc \in Stages /\ pc # "waiting" /\ next \in 0 .. Len(Declared) + 1
    BY <1>5 DEF Stages
  <2>3. task \in [Names -> {"absent", "running", "finished"}]
    BY DEF NoTask
  <2>4. exit \in BOOLEAN /\ signalled \in BOOLEAN
    OBVIOUS
  <2>5. /\ failed = {} /\ orphans = {} /\ cancelled = {} /\ todo = {}
        /\ ready = {} /\ bus \in {"none", "up", "lost", "stopped"}
    OBVIOUS
  <2> HIDE DEF Init
  <2> QED
    BY <1>3, <1>4, <2>1, <2>2, <2>3, <2>4, <2>5 DEF TypeOK
<1>7. LastWins(0)
  BY DEF LastWins
<1>8. OneEach
  BY <1>1, <1>2, <1>4, <1>5, <1>7 DEF OneEach
<1>9. SetUp /\ Unwound /\ Settled /\ ConfigWins
  BY <1>3 DEF SetUp, Unwound, Settled, ConfigWins, NoTask
<1> QED
  BY <1>6, <1>8, <1>9 DEF IInv

LEMMA LoadNextSafe == IInv /\ LoadNext => IInv'
<1> SUFFICES ASSUME IInv, LoadNext PROVE IInv'
  OBVIOUS
<1> USE DEF IInv, LoadNext
<1>1. /\ Len(Declared) \in Nat /\ Len(Programmatic) \in Nat /\ next \in Nat
      /\ next + 1 \in 1 .. Len(Declared) /\ next' = next + 1
      /\ \A i \in 1 .. Len(Declared) : Declared[i].class \in Classes
  <2>1. next \in 0 .. Len(Declared) + 1
    BY DEF TypeOK
  <2> QED
    BY <2>1, TheDeclared
<1>2. \E k, l : k = next + 1 /\ l = loaded'
  OBVIOUS
<1>3. PICK k, l : k = next + 1 /\ l = loaded'
  BY <1>2
<1>4. /\ DOMAIN loaded = {"instances", "names", "section"}
      /\ loaded.instances \in Seq(Classes) /\ IsInjective(loaded.instances)
      /\ DOMAIN loaded.section = ToSet(loaded.instances)
      /\ \A n \in loaded.names : n[2] \in ToSet(loaded.instances)
      /\ Len(loaded.instances) <= next /\ Len(loaded.instances) \in Nat
      /\ LastWins(next)
  BY DEF OneEach, Instances
<1>5. /\ DOMAIN l = {"instances", "names", "section"}
      /\ l.instances \in Seq(Classes) /\ IsInjective(l.instances)
      /\ Len(l.instances) <= Len(loaded.instances) + 1
      /\ DOMAIN l.section = ToSet(l.instances)
      /\ \A n \in l.names : n[2] \in ToSet(l.instances)
      /\ \A d \in Classes : d # Declared[k].class =>
            /\ d \in DOMAIN l.section <=> d \in DOMAIN loaded.section
            /\ d \in DOMAIN l.section => l.section[d] = loaded.section[d]
      /\ k > Len(Programmatic) =>
            /\ fate[k] = "unknown" => l = loaded
            /\ fate[k] # "unknown" /\ Declared[k].class \in DOMAIN l.section =>
                   l.section[Declared[k].class] = Declared[k].section
  BY <1>1, <1>3, <1>4, Loads
<1>6. ASSUME NEW i \in 1 .. k, i > Len(Programmatic), fate[i] # "unknown",
             \A j \in 1 .. k :
                j > i /\ Declared[j].class = Declared[i].class => fate[j] = "unknown",
             Declared[i].class \in DOMAIN l.section
      PROVE  l.section[Declared[i].class] = Declared[i].section
  <2>1. CASE i = k
    BY <1>5, <1>6, <2>1
  <2>2. CASE i # k
    <3>1. /\ i \in 1 .. next /\ k > i /\ k \in 1 .. k /\ k > Len(Programmatic)
          /\ Declared[i].class \in Classes
          /\ \A j \in 1 .. next : j \in 1 .. k
      BY <1>1, <1>3, <1>6, <2>2
    <3>2. Declared[i].class \in DOMAIN loaded.section =>
              loaded.section[Declared[i].class] = Declared[i].section
      BY <1>4, <1>6, <3>1 DEF LastWins
    <3>3. CASE Declared[k].class = Declared[i].class
      <4>1. fate[k] = "unknown"
        BY <1>6, <3>1, <3>3
      <4>2. l = loaded
        BY <1>5, <3>1, <4>1
      <4> QED
        BY <1>6, <3>2, <4>2
    <3>4. CASE Declared[k].class # Declared[i].class
      <4>1. /\ Declared[i].class \in DOMAIN loaded.section
            /\ l.section[Declared[i].class] = loaded.section[Declared[i].class]
        BY <1>5, <1>6, <3>1, <3>4
      <4> QED
        BY <3>2, <4>1
    <3> QED
      BY <3>3, <3>4
  <2> QED
    BY <2>1, <2>2
<1>7. LastWins(next)'
  BY <1>1, <1>3, <1>6 DEF LastWins
<1>8. Len(l.instances) \in Nat /\ Len(l.instances) <= next + 1
      /\ Len(l.instances) <= Len(Declared)
  BY <1>1, <1>4, <1>5
<1>9. OneEach'
  <2>1. /\ DOMAIN loaded' = {"instances", "names", "section"}
        /\ loaded'.instances \in Seq(Classes) /\ IsInjective(loaded'.instances)
        /\ Len(loaded'.instances) <= Len(Declared)
        /\ \A n \in loaded'.names : n[2] \in ToSet(loaded'.instances)
        /\ next' <= Len(Declared) /\ Len(loaded'.instances) <= next'
        /\ DOMAIN loaded'.section = ToSet(loaded'.instances)
    BY <1>1, <1>3, <1>5, <1>8
  <2> QED
    BY <1>7, <2>1 DEF OneEach, Instances
<1>10. SetUp'
  <2>1. ready' = {} /\ failed' = {} /\ pc' = "init"
    BY DEF SetUp
  <2> QED
    BY <2>1 DEF SetUp
<1>11. Unwound' /\ Settled' /\ ConfigWins'
  BY DEF Unwound, Settled, ConfigWins
<1>12. TypeOK'
  <2>1. /\ ToSet(l.instances) \subseteq Classes
    <3>1. \A i \in 1 .. Len(l.instances) : l.instances[i] \in Classes
      BY <1>5, ElementOfSeq
    <3> QED
      BY <1>5, <3>1 DEF ToSet
  <2>2. /\ ToSet(loaded'.instances) \subseteq Classes
        /\ DOMAIN loaded'.section \subseteq Classes
        /\ \A n \in loaded'.names : n[2] \in Classes
    BY <1>3, <1>5, <2>1
  <2>3. next' \in 0 .. Len(Declared) + 1
    BY <1>1
  <2> QED
    BY <2>2, <2>3 DEF TypeOK, Stages
<1> QED
  BY <1>9, <1>10, <1>11, <1>12

LEMMA InitMiddlewareSafe == IInv /\ InitMiddleware => IInv'
<1> SUFFICES ASSUME IInv, InitMiddleware PROVE IInv'
  OBVIOUS
<1> USE DEF IInv, InitMiddleware
<1>1. /\ fate' = fate /\ loaded' = loaded /\ next' = next /\ failed' = failed
      /\ ready' = ready /\ torn' = torn /\ Instances' = Instances
  BY DEF middleware, Instances
<1>2. TypeOK'
  <2>1. pc' # "waiting" /\ pc' \in Stages
    BY DEF Stages
  <2> QED
    BY <2>1, Typed DEF TypeOK
<1>3. OneEach'
  BY <1>1 DEF OneEach
<1>4. SetUp' /\ Unwound' /\ Settled'
  BY <1>1 DEF SetUp, Unwound, Settled
<1>5. ConfigWins'
  <2>1. /\ LastWins(Len(Declared)) /\ DOMAIN Declared = 1 .. Len(Declared)
        /\ IsInjective(loaded.instances)
    BY TheDeclared DEF OneEach, Instances
  <2> QED
    BY <1>1, <2>1 DEF LastWins, ConfigWins
<1> QED
  BY <1>2, <1>3, <1>4, <1>5

LEMMA StartDbusSafe == IInv /\ StartDbus => IInv'
<1> SUFFICES ASSUME IInv, StartDbus PROVE IInv'
  OBVIOUS
<1> USE DEF IInv, StartDbus
<1>1. Len(Instances) \in Nat /\ Instances' = Instances /\ Len(Declared) \in Nat
  BY TheDeclared DEF OneEach, Instances
<1>2. TypeOK'
  <2>1. next' \in 0 .. Len(Declared) + 1
    BY <1>1
  <2> QED
    BY <2>1 DEF TypeOK, Stages
<1>3. OneEach' /\ Unwound' /\ Settled' /\ ConfigWins'
  BY <1>1 DEF OneEach, Unwound, Settled, ConfigWins
<1>4. SetUp'
  <2>1. ready = {} /\ failed = {} /\ next' = 1
    BY DEF SetUp
  <2>2. next' \in 1 .. Len(Instances) + 1 /\ (1 .. next' - 1) \ failed = {}
    BY <1>1, <2>1
  <2>3. {Instances[i] : i \in (1 .. next' - 1) \ failed} = {}
    BY <2>2
  <2> QED
    BY <1>1, <2>1, <2>2, <2>3 DEF SetUp
<1> QED
  BY <1>2, <1>3, <1>4

LEMMA StartDbusRefusedSafe == IInv /\ StartDbusRefused => IInv'
<1> SUFFICES ASSUME IInv, StartDbusRefused PROVE IInv'
  OBVIOUS
<1> USE DEF IInv, StartDbusRefused
<1>1. task \in [Names -> {"absent", "running", "finished"}]
  BY DEF TypeOK
<1>2. /\ task' \in [Names -> {"absent", "running", "finished"}]
      /\ todo' \subseteq Names /\ cancelled' \subseteq todo'
      /\ pc' = "closing" /\ Settled'
  BY <1>1, Closes
<1>3. OneEach' /\ SetUp' /\ Unwound' /\ ConfigWins'
  BY <1>2, MiddlewareKept
<1>4. TypeOK'
  <2>1. exit' \in BOOLEAN /\ signalled' \in BOOLEAN
    BY DEF TypeOK
  <2> QED
    BY <1>2, <2>1, Typed DEF TypeOK, Stages
<1> QED
  BY <1>2, <1>3, <1>4

LEMMA StartDbusRaisesSafe == IInv /\ StartDbusRaises => IInv'
<1> SUFFICES ASSUME IInv, StartDbusRaises PROVE IInv'
  OBVIOUS
<1> USE DEF IInv, StartDbusRaises
<1>1. OneEach' /\ SetUp' /\ Unwound' /\ ConfigWins'
  BY MiddlewareKept
<1>2. TypeOK'
  BY Typed DEF TypeOK, Stages
<1>3. Settled'
  BY DEF Settled
<1> QED
  BY <1>1, <1>2, <1>3

\* What setup() may do to the task list is done for an instance's class.
LEMMA SetupTask ==
    ASSUME TypeOK, OneEach, Settled, pc = "setup", next \in 1 .. Len(Instances)
    PROVE  /\ Current = Instances[next] /\ Current \in Classes
           /\ \A t \in {task, [task EXCEPT ![Current] = "running"]} :
                 /\ t \in [Names -> {"absent", "running", "finished"}]
                 /\ \A n \in Names \ Classes : t[n] = "absent"
<1>1. Current = Instances[next] /\ Current \in Classes
  BY ElementOfSeq DEF OneEach, Instances, Current
<1>2. /\ task \in [Names -> {"absent", "running", "finished"}]
      /\ \A n \in Names \ Classes : task[n] = "absent"
  BY DEF TypeOK, Settled
<1>3. Current \in Names
  BY <1>1 DEF Names
<1> HIDE DEF Current
<1> QED
  BY <1>1, <1>2, <1>3

\* The instance at "next" is set up, or its setup fails: either way the
\* instances before it are accounted for.
LEMMA OneMoreSetUp ==
    ASSUME OneEach, SetUp, pc = "setup", next \in 1 .. Len(Instances), NEW d, NEW r,
           \/ d = failed /\ r = ready \cup {Instances[next]}
           \/ d = failed \cup {next} /\ r = ready
    PROVE  /\ next + 1 \in 1 .. Len(Instances) + 1
           /\ d \subseteq 1 .. (next + 1) - 1
           /\ r = {Instances[i] : i \in (1 .. (next + 1) - 1) \ d}
           /\ r \subseteq ToSet(Instances)
<1>1. /\ Len(Instances) \in Nat /\ next \in Nat
      /\ DOMAIN Instances = 1 .. Len(Instances)
      /\ (next + 1) - 1 = next
  BY DEF OneEach
<1>2. /\ failed \subseteq 1 .. next - 1 /\ next \notin failed
      /\ ready = {Instances[i] : i \in (1 .. next - 1) \ failed}
      /\ ready \subseteq ToSet(Instances)
  BY <1>1 DEF SetUp
<1>3. 1 .. next = 1 .. next - 1 \cup {next} /\ next \notin 1 .. next - 1
  BY <1>1
<1>4. r = {Instances[i] : i \in (1 .. next) \ d}
  <2>1. CASE d = failed /\ r = ready \cup {Instances[next]}
    <3>1. (1 .. next) \ d = (1 .. next - 1 \ failed) \cup {next}
      BY <1>2, <1>3, <2>1
    <3> QED
      BY <1>2, <2>1, <3>1
  <2>2. CASE d = failed \cup {next} /\ r = ready
    <3>1. (1 .. next) \ d = (1 .. next - 1) \ failed
      BY <1>3, <2>2
    <3> QED
      BY <1>2, <2>2, <3>1
  <2> QED
    BY <2>1, <2>2
<1>5. r \subseteq ToSet(Instances)
  BY <1>1, <1>2 DEF ToSet
<1> QED
  BY <1>1, <1>2, <1>3, <1>4, <1>5

LEMMA SetupOkSafe == IInv /\ (SetupOk \/ SetupTolerated) => IInv'
<1> SUFFICES ASSUME IInv, SetupOk \/ SetupTolerated PROVE IInv'
  OBVIOUS
<1> USE DEF IInv
<1>1. /\ pc = "setup" /\ pc' = pc /\ next' = next + 1
      /\ next \in 1 .. Len(Instances)
      /\ fate' = fate /\ loaded' = loaded /\ Instances' = Instances
      /\ SetupEffects /\ orphans' = orphans /\ cancelled' = cancelled
      /\ todo' = todo /\ signalled' = signalled /\ bus' = bus /\ torn' = torn
  <2>1. /\ pc = "setup" /\ next <= Len(loaded.instances)
        /\ Len(loaded.instances) \in Nat
    BY DEF SetupOk, SetupTolerated, OneEach, Instances
  <2>2. next \in 1 .. Len(Instances)
    BY <2>1 DEF SetUp, Instances
  <2> QED
    BY <2>1, <2>2 DEF SetupOk, SetupTolerated, Instances
<1>2. /\ Current = Instances[next] /\ Current \in Classes
      /\ task' \in [Names -> {"absent", "running", "finished"}]
      /\ \A n \in Names \ Classes : task'[n] = "absent"
  BY <1>1, SetupTask DEF SetupEffects
<1>3. \/ failed' = failed /\ ready' = ready \cup {Instances[next]}
      \/ failed' = failed \cup {next} /\ ready' = ready
  BY <1>2 DEF SetupOk, SetupTolerated
<1>4. /\ next + 1 \in 1 .. Len(Instances) + 1
      /\ failed' \subseteq 1 .. (next + 1) - 1
      /\ ready' = {Instances[i] : i \in (1 .. (next + 1) - 1) \ failed'}
      /\ ready' \subseteq ToSet(Instances)
  BY <1>1, <1>3, OneMoreSetUp
<1>5. /\ Len(Instances) \in Nat /\ Len(Declared) \in Nat
      /\ Len(Instances) <= Len(Declared)
  BY TheDeclared DEF OneEach
<1>6. TypeOK'
  <2>1. next' \in 0 .. Len(Declared) + 1
    BY <1>1, <1>4, <1>5
  <2>2. failed' \subseteq 1 .. Len(Declared)
    BY <1>1, <1>4, <1>5
  <2>3. exit' \in BOOLEAN /\ signalled' \in BOOLEAN
    <3>1. exit' \in {exit, TRUE}
      BY <1>1 DEF SetupEffects
    <3> QED
      BY <1>1, <3>1 DEF TypeOK
  <2>4. ready' \subseteq Classes
    BY <1>4 DEF TypeOK, Instances
  <2> QED
    BY <1>1, <1>2, <2>1, <2>2, <2>3, <2>4 DEF TypeOK
<1>7. OneEach' /\ ConfigWins'
  BY <1>1 DEF OneEach, ConfigWins
<1>8. SetUp'
  BY <1>1, <1>4 DEF SetUp
<1>9. Unwound' /\ Settled'
  BY <1>1, <1>2 DEF Unwound, Settled
<1> QED
  BY <1>6, <1>7, <1>8, <1>9

LEMMA SetupAbortsSafe == IInv /\ SetupAborts => IInv'
<1> SUFFICES ASSUME IInv, SetupAborts PROVE IInv'
  OBVIOUS
<1> USE DEF IInv
<1>1. /\ pc = "setup" /\ next \in 1 .. Len(Instances)
  <2>1. /\ pc = "setup" /\ next <= Len(loaded.instances)
        /\ Len(loaded.instances) \in Nat
    BY DEF SetupAborts, OneEach, Instances
  <2> QED
    BY <2>1 DEF SetUp, Instances
<1>2. PICK t \in {task, [task EXCEPT ![Current] = "running"]} : Close(t)
  BY DEF SetupAborts
<1>3. t \in [Names -> {"absent", "running", "finished"}]
  BY <1>1, <1>2, SetupTask
<1>4. /\ UNCHANGED middleware /\ orphans' = orphans /\ cancelled' = cancelled
      /\ exit' = exit /\ signalled' = signalled /\ bus' = bus
  BY DEF SetupAborts
<1>5. /\ task' \in [Names -> {"absent", "running", "finished"}]
      /\ todo' \subseteq Names /\ cancelled' \subseteq todo'
      /\ pc' = "closing" /\ Settled'
  BY <1>1, <1>2, <1>3, <1>4, Closes
<1>6. OneEach' /\ SetUp' /\ Unwound' /\ ConfigWins'
  BY <1>1, <1>4, <1>5, MiddlewareKept
<1>7. TypeOK'
  BY <1>4, <1>5, Typed DEF TypeOK, Stages
<1> QED
  BY <1>5, <1>6, <1>7

LEMMA SetupEndsSafe == IInv /\ SetupEnds => IInv'
<1> SUFFICES ASSUME IInv, SetupEnds PROVE IInv'
  OBVIOUS
<1> USE DEF IInv, SetupEnds
<1>1. /\ fate' = fate /\ loaded' = loaded /\ next' = next /\ failed' = failed
      /\ ready' = ready /\ torn' = torn /\ Instances' = Instances
  BY DEF middleware, Instances
<1>2. Len(Instances) \in Nat /\ next = Len(Instances) + 1
  BY DEF OneEach, SetUp, Instances
<1>3. TypeOK'
  BY Typed DEF TypeOK, Stages
<1>4. SetUp'
  <2>1. next - 1 = Len(Instances)
    BY <1>2
  <2>2. /\ failed \subseteq 1 .. Len(Instances) /\ ready \subseteq ToSet(Instances)
        /\ ready = {Instances[i] : i \in (1 .. Len(Instances)) \ failed}
    BY <2>1 DEF SetUp
  <2> QED
    BY <1>1, <2>2 DEF SetUp
<1>5. OneEach' /\ Unwound' /\ Settled' /\ ConfigWins'
  BY <1>1 DEF OneEach, Unwound, Settled, ConfigWins
<1> QED
  BY <1>3, <1>4, <1>5

\* What a sequence has at the given places.
At(s, places) == {s[k] : k \in places}

\* Removing the last of the failed leaves the others where they were.
LEMMA Drops ==
    ASSUME NEW S, NEW s \in Seq(S), IsInjective(s),
           NEW f, f \subseteq 1 .. Len(s), NEW i \in f, \A k \in f : k <= i
    PROVE  /\ f \ {i} \subseteq 1 .. Len(RemoveAt(s, i))
           /\ At(RemoveAt(s, i), (1 .. Len(RemoveAt(s, i))) \ (f \ {i})) =
                  At(s, (1 .. Len(s)) \ f)
<1> DEFINE t == RemoveAt(s, i)
<1>1. /\ Len(t) = Len(s) - 1 /\ Len(s) \in Nat /\ i \in 1 .. Len(s)
      /\ \A k \in 1 .. Len(s) - 1 : t[k] = IF k < i THEN s[k] ELSE s[k + 1]
  BY Removed
<1> HIDE DEF t
<1>2. f \ {i} \subseteq 1 .. Len(t)
  BY <1>1
<1>3. ASSUME NEW k \in 1 .. Len(t), k \notin f \ {i}
      PROVE  \E l \in (1 .. Len(s)) \ f : t[k] = s[l]
  <2>1. CASE k < i
    <3>1. k \in (1 .. Len(s)) \ f /\ t[k] = s[k]
      BY <1>1, <1>3, <2>1
    <3> QED
      BY <3>1
  <2>2. CASE ~(k < i)
    <3>1. k + 1 \in (1 .. Len(s)) \ f /\ t[k] = s[k + 1]
      BY <1>1, <1>3, <2>2
    <3> QED
      BY <3>1
  <2> QED
    BY <2>1, <2>2
<1>4. ASSUME NEW l \in (1 .. Len(s)) \ f
      PROVE  \E k \in (1 .. Len(t)) \ (f \ {i}) : s[l] = t[k]
  <2>1. CASE l < i
    <3>1. l \in (1 .. Len(t)) \ (f \ {i}) /\ t[l] = s[l]
      BY <1>1, <1>4, <2>1
    <3> QED
      BY <3>1
  <2>2. CASE l > i
    <3>1. l - 1 \in (1 .. Len(t)) /\ ~(l - 1 < i) /\ (l - 1) + 1 = l
      BY <1>1, <1>4, <2>2
    <3>2. l - 1 \notin f \ {i}
      BY <1>1, <1>4, <2>2
    <3>3. t[l - 1] = s[l]
      BY <1>1, <3>1
    <3> QED
      BY <3>1, <3>2, <3>3
  <2> QED
    BY <1>1, <2>1, <2>2
<1>5. At(t, (1 .. Len(t)) \ (f \ {i})) = At(s, (1 .. Len(s)) \ f)
  <2> DEFINE A == (1 .. Len(t)) \ (f \ {i})
             B == (1 .. Len(s)) \ f
  <2>1. \A k \in A : \E l \in B : t[k] = s[l]
    BY <1>3
  <2>2. \A l \in B : \E k \in A : s[l] = t[k]
    BY <1>4
  <2> HIDE DEF A, B
  <2>3. At(t, A) = At(s, B)
    BY <2>1, <2>2 DEF At
  <2> QED
    BY <2>3 DEF A, B
<1> QED
  BY <1>2, <1>5 DEF t

LEMMA DropFailedSafe ==
    ASSUME NEW i \in failed, IInv, DropFailed(i) PROVE IInv'
<1> USE DEF IInv
<1>1. /\ pc = "dropping" /\ pc' = pc /\ \A k \in failed : k <= i
      /\ failed' = failed \ {i} /\ loaded' = WithoutFailed(i)
      /\ fate' = fate /\ next' = next /\ task' = task /\ orphans' = orphans
      /\ cancelled' = cancelled /\ todo' = todo /\ exit' = exit
      /\ signalled' = signalled /\ bus' = bus /\ ready' = ready /\ torn' = torn
  BY DEF DropFailed
<1>2. /\ DOMAIN loaded = {"instances", "names", "section"}
      /\ Instances \in Seq(Classes) /\ IsInjective(Instances)
      /\ Len(Instances) \in Nat /\ Len(Declared) \in Nat
      /\ Len(Instances) <= Len(Declared)
      /\ \A n \in loaded.names : n[2] \in ToSet(Instances)
  BY TheDeclared DEF OneEach
<1>3. /\ failed \subseteq 1 .. Len(Instances) /\ i \in 1 .. Len(Instances)
      /\ ready = {Instances[k] : k \in (1 .. Len(Instances)) \ failed}
  BY <1>1 DEF SetUp
<1>4. /\ DOMAIN loaded' = {"instances", "names", "section"}
      /\ Instances' = RemoveAt(Instances, i)
      /\ loaded'.names = {n \in loaded.names : n[2] # Instances[i]}
      /\ loaded'.section = loaded.section
  BY <1>1, <1>2 DEF WithoutFailed, Instances
<1>5. /\ Instances' \in Seq(Classes) /\ Len(Instances') = Len(Instances) - 1
      /\ ToSet(Instances') = ToSet(Instances) \ {Instances[i]}
      /\ IsInjective(Instances')
  <2>1. /\ RemoveAt(Instances, i) \in Seq(Classes)
        /\ Len(RemoveAt(Instances, i)) = Len(Instances) - 1
        /\ ToSet(RemoveAt(Instances, i)) = ToSet(Instances) \ {Instances[i]}
        /\ IsInjective(RemoveAt(Instances, i))
    BY <1>2, <1>3, Removed
  <2> QED
    BY <1>4, <2>1
<1>6. /\ failed' \subseteq 1 .. Len(Instances')
      /\ {Instances'[k] : k \in (1 .. Len(Instances')) \ failed'} = ready
  <2>1. /\ failed \ {i} \subseteq 1 .. Len(RemoveAt(Instances, i))
        /\ At(RemoveAt(Instances, i),
              (1 .. Len(RemoveAt(Instances, i))) \ (failed \ {i})) =
           At(Instances, (1 .. Len(Instances)) \ failed)
    BY <1>1, <1>2, <1>3, Drops
  <2>2. ready = At(Instances, (1 .. Len(Instances)) \ failed)
    BY <1>3 DEF At
  <2>3. {Instances'[k] : k \in (1 .. Len(Instances')) \ failed'} =
        At(Instances', (1 .. Len(Instances')) \ failed')
    BY DEF At
  <2> QED
    BY <1>1, <1>4, <2>1, <2>2, <2>3
<1>7. OneEach'
  <2>1. Len(Instances') <= Len(Declared)
    BY <1>2, <1>5
  <2>2. \A n \in loaded'.names : n[2] \in ToSet(Instances')
    BY <1>2, <1>4, <1>5
  <2> QED
    BY <1>1, <1>4, <1>5, <2>1, <2>2 DEF OneEach
<1>8. SetUp'
  <2>1. ready \subseteq ToSet(Instances')
    <3>1. DOMAIN Instances' = 1 .. Len(Instances')
      BY <1>5, LenProperties
    <3> QED
      BY <1>6, <3>1 DEF ToSet
  <2> QED
    BY <1>1, <1>6, <2>1 DEF SetUp
<1>9. Unwound' /\ Settled'
  BY <1>1 DEF Unwound, Settled
<1>10. ConfigWins'
  <2>1. IsInjective(loaded.instances) /\ IsInjective(loaded'.instances)
    BY <1>7 DEF OneEach, Instances
  <2> QED
    BY <1>1, <1>4, <2>1 DEF ConfigWins
<1>11. TypeOK'
  <2>1. /\ ToSet(loaded'.instances) \subseteq Classes
        /\ \A n \in loaded'.names : n[2] \in Classes
    BY <1>4, <1>5 DEF TypeOK, Instances
  <2>2. DOMAIN loaded'.section \subseteq Classes /\ failed' \subseteq 1 .. Len(Declared)
    BY <1>1, <1>4 DEF TypeOK
  <2> QED
    BY <1>1, <2>1, <2>2 DEF TypeOK
<1> QED
  BY <1>7, <1>8, <1>9, <1>10, <1>11

LEMMA SetupDoneSafe == IInv /\ SetupDone => IInv'
<1> SUFFICES ASSUME IInv, SetupDone PROVE IInv'
  OBVIOUS
<1> USE DEF IInv
<1>1. /\ pc = "dropping" /\ failed = {} /\ LoopHead(FirstList)
      /\ orphans' = orphans \cup {n \in Names : task[n] = "running"}
      /\ UNCHANGED middleware /\ cancelled' = cancelled /\ exit' = exit
      /\ signalled' = signalled /\ bus' = bus
  BY DEF SetupDone
<1>2. FirstList \in [Names -> {"absent", "running", "finished"}]
  BY DEF FirstList, NoTask, Names
<1>3. /\ task' \in [Names -> {"absent", "running", "finished"}]
      /\ todo' \subseteq Names /\ cancelled' \subseteq todo'
      /\ pc' \in {"waiting", "closing", "crashed"} /\ Settled'
  BY <1>1, <1>2, LoopHeads
<1>4. Served
  <2>1. DOMAIN Instances = 1 .. Len(Instances)
    BY LenProperties DEF OneEach
  <2>2. ready = ToSet(Instances)
    BY <1>1, <2>1 DEF SetUp, ToSet
  <2>3. \A n \in loaded.names : n[2] \in ready
    BY <2>2 DEF OneEach
  <2> QED
    BY <2>2, <2>3 DEF Served, GetMiddleware
<1>5. orphans' \subseteq Classes
  <2>1. \A n \in Names : task[n] = "running" => n \in Classes
    BY <1>1 DEF Settled
  <2> QED
    BY <1>1, <2>1 DEF TypeOK
<1>6. TypeOK'
  BY <1>1, <1>3, <1>4, <1>5, Typed DEF TypeOK, Stages
<1>7. OneEach' /\ SetUp' /\ Unwound' /\ ConfigWins'
  BY <1>1, <1>3, MiddlewareKept
<1> QED
  BY <1>3, <1>6, <1>7

-----------------------------------------------------------------------------
(* main_loop(), close_loop() and the end of the run.                       *)

LEMMA WakeUpSafe == IInv /\ WakeUp => IInv'
<1> SUFFICES ASSUME IInv, WakeUp PROVE IInv'
  OBVIOUS
<1> USE DEF IInv
<1>1. /\ pc = "waiting" /\ UNCHANGED middleware /\ orphans' = orphans
      /\ cancelled' = cancelled /\ exit' = exit /\ signalled' = signalled
      /\ bus' = bus
  BY DEF WakeUp
<1>2. PICK list : /\ list = [n \in Names |-> IF n \in Done THEN "absent" ELSE task[n]]
                  /\ Close(list) \/ LoopHead(list)
  BY DEF WakeUp
<1>3. list \in [Names -> {"absent", "running", "finished"}]
  BY <1>2 DEF TypeOK
<1>4. /\ task' \in [Names -> {"absent", "running", "finished"}]
      /\ todo' \subseteq Names /\ cancelled' \subseteq todo'
      /\ pc' \in {"waiting", "closing", "crashed"} /\ Settled'
  <2>1. CASE Close(list)
    BY <1>1, <1>3, <2>1, Closes
  <2>2. CASE LoopHead(list)
    BY <1>1, <1>3, <2>2, LoopHeads
  <2> QED
    BY <1>2, <2>1, <2>2
<1>5. TypeOK'
  BY <1>1, <1>4, Typed DEF TypeOK, Stages
<1>6. OneEach' /\ SetUp' /\ Unwound' /\ ConfigWins'
  BY <1>1, <1>4, MiddlewareKept
<1> QED
  BY <1>4, <1>5, <1>6

LEMMA CancelSafe ==
    ASSUME NEW n \in Names, IInv, CancelTask(n) \/ TaskGone(n) PROVE IInv'
<1> USE DEF IInv
<1>1. /\ pc = "closing" /\ pc' = pc /\ UNCHANGED middleware /\ task' = task
      /\ orphans' = orphans /\ exit' = exit /\ signalled' = signalled /\ bus' = bus
  BY DEF CancelTask, TaskGone
<1>2. \/ task[n] = "finished" /\ todo' = todo \ {n} /\ cancelled' = {}
      \/ n \in todo /\ todo' = todo /\ cancelled' = {n}
  BY DEF CancelTask, TaskGone
<1>3. todo' \subseteq Names /\ cancelled' \subseteq todo'
  BY <1>2 DEF TypeOK
<1>4. Settled'
  BY <1>1, <1>2 DEF Settled
<1>5. TypeOK'
  BY <1>1, <1>3, Typed DEF TypeOK
<1>6. OneEach' /\ SetUp' /\ Unwound' /\ ConfigWins'
  BY <1>1, MiddlewareKept
<1> QED
  BY <1>4, <1>5, <1>6

LEMMA TeardownBeginSafe == IInv /\ TeardownBegin => IInv'
<1> SUFFICES ASSUME IInv, TeardownBegin PROVE IInv'
  OBVIOUS
<1> USE DEF IInv, TeardownBegin
<1>1. /\ Len(Instances) \in Nat /\ Instances' = Instances
      /\ Len(Declared) \in Nat /\ Len(Instances) <= Len(Declared)
      /\ next' = Len(Instances)
  BY TheDeclared DEF OneEach, Instances
<1>2. TypeOK'
  <2>1. next' \in 0 .. Len(Declared) + 1
    BY <1>1
  <2> QED
    BY <2>1 DEF TypeOK, Stages
<1>3. Unwound'
  <2>1. torn = <<>> /\ bus # "stopped"
    BY DEF Unwound
  <2>2. Len(torn) = 0 /\ Len(torn) = Len(Instances) - next'
        /\ next' \in 0 .. Len(Instances)
    BY <1>1, <2>1
  <2> QED
    BY <1>1, <2>1, <2>2 DEF Unwound
<1>4. Settled'
  BY DEF Settled
<1>5. OneEach' /\ SetUp' /\ ConfigWins'
  BY <1>1 DEF OneEach, SetUp, ConfigWins
<1> QED
  BY <1>2, <1>3, <1>4, <1>5

LEMMA TeardownSafe == IInv /\ Teardown => IInv'
<1> SUFFICES ASSUME IInv, Teardown PROVE IInv'
  OBVIOUS
<1> USE DEF IInv, Teardown
<1>1. /\ Len(Instances) \in Nat /\ Instances' = Instances
      /\ Len(Declared) \in Nat /\ Len(Instances) <= Len(Declared)
      /\ next \in 1 .. Len(Instances) /\ torn \in Seq(Classes)
      /\ Len(torn) = Len(Instances) - next /\ bus # "stopped"
      /\ \A k \in 1 .. Len(torn) : torn[k] = Instances[Len(Instances) - k + 1]
  BY TheDeclared DEF OneEach, Unwound, Instances
<1>2. Current = Instances[next] /\ Current \in Classes
  BY <1>1, ElementOfSeq DEF OneEach, Instances, Current
<1>3. PICK u : u = Append(torn, Instances[next]) /\ torn' = u
  BY <1>2
<1>4. /\ u \in Seq(Classes) /\ Len(u) = Len(torn) + 1
      /\ ToSet(u) = ToSet(torn) \cup {Instances[next]}
      /\ u[Len(torn) + 1] = Instances[next]
      /\ \A k \in 1 .. Len(torn) : u[k] = torn[k]
  <2>1. Instances[next] \in Classes
    BY <1>2
  <2>2. /\ Append(torn, Instances[next]) \in Seq(Classes)
        /\ Len(Append(torn, Instances[next])) = Len(torn) + 1
        /\ ToSet(Append(torn, Instances[next])) = ToSet(torn) \cup {Instances[next]}
    BY <1>1, <2>1, Extended
  <2>3. /\ Append(torn, Instances[next])[Len(torn) + 1] = Instances[next]
        /\ \A k \in 1 .. Len(torn) : Append(torn, Instances[next])[k] = torn[k]
    BY <1>1, <2>1, AppendProperties
  <2> QED
    BY <1>3, <2>2, <2>3
<1>5. \A k \in 1 .. Len(u) : u[k] = Instances[Len(Instances) - k + 1]
  <2> SUFFICES ASSUME NEW k \in 1 .. Len(u)
               PROVE  u[k] = Instances[Len(Instances) - k + 1]
    OBVIOUS
  <2>1. CASE k = Len(torn) + 1
    <3>1. Len(Instances) - k + 1 = next
      BY <1>1, <2>1
    <3> QED
      BY <1>4, <2>1, <3>1
  <2>2. CASE k \in 1 .. Len(torn)
    BY <1>1, <1>4, <2>2
  <2> QED
    BY <1>1, <1>4, <2>1, <2>2
<1>6. Unwound'
  <2>1. next' \in 0 .. Len(Instances) /\ Len(u) = Len(Instances) - next'
    BY <1>1, <1>4
  <2> QED
    BY <1>1, <1>3, <1>4, <1>5, <2>1 DEF Unwound
<1>7. TypeOK'
  <2>1. next' \in 0 .. Len(Declared) + 1
    BY <1>1
  <2>2. ToSet(torn') \subseteq Classes
    BY <1>2, <1>3, <1>4 DEF TypeOK
  <2> QED
    BY <2>1, <2>2 DEF TypeOK, Stages
<1>8. OneEach' /\ SetUp' /\ Settled' /\ ConfigWins'
  BY <1>1 DEF OneEach, SetUp, Settled, ConfigWins
<1> QED
  BY <1>6, <1>7, <1>8

LEMMA StopBusSafe == IInv /\ StopBus => IInv'
<1> SUFFICES ASSUME IInv, StopBus PROVE IInv'
  OBVIOUS
<1> USE DEF IInv, StopBus
<1>1. /\ fate' = fate /\ loaded' = loaded /\ next' = next /\ failed' = failed
      /\ ready' = ready /\ torn' = torn /\ Instances' = Instances
  BY DEF middleware, Instances
<1>2. pc' \in {"crashed", "closed"} /\ (bus' = "stopped" => pc' = "closed")
  BY DEF Unwound
<1>3. torn = Reverse(Instances)
  <2>1. /\ Instances \in Seq(Classes) /\ torn \in Seq(Classes)
        /\ Len(Instances) \in Nat /\ Len(torn) = Len(Instances) - 0
        /\ \A k \in 1 .. Len(torn) : torn[k] = Instances[Len(Instances) - k + 1]
    BY DEF OneEach, Unwound
  <2>2. Len(torn) = Len(Instances) /\ torn = [k \in 1 .. Len(torn) |-> torn[k]]
    BY <2>1
  <2> QED
    BY <2>1, <2>2 DEF Reverse
<1>4. TypeOK'
  <2>1. bus' \in {"none", "up", "lost", "stopped"}
    BY DEF TypeOK
  <2> QED
    BY <1>2, <2>1, Typed DEF TypeOK, Stages
<1>5. Unwound'
  BY <1>1, <1>2, <1>3 DEF Unwound
<1>6. OneEach' /\ SetUp' /\ Settled' /\ ConfigWins'
  BY <1>1, <1>2 DEF OneEach, SetUp, Settled, ConfigWins
<1> QED
  BY <1>4, <1>5, <1>6

LEMMA RunEndsSafe == IInv /\ RunEnds => IInv'
<1> SUFFICES ASSUME IInv, RunEnds PROVE IInv'
  OBVIOUS
<1> USE DEF IInv, RunEnds
<1>1. task' \in [Names -> {"absent", "running", "finished"}]
  BY DEF TypeOK
<1>2. TypeOK'
  BY <1>1, Typed DEF TypeOK, Stages
<1>3. OneEach' /\ SetUp' /\ Unwound' /\ ConfigWins'
  BY MiddlewareKept
<1>4. Settled'
  BY DEF Settled
<1> QED
  BY <1>2, <1>3, <1>4

-----------------------------------------------------------------------------
(* What happens beside the main coroutine.                                 *)

LEMMA TaskGoesSafe ==
    ASSUME NEW n \in Names, IInv, Alive, task[n] = "running",
           task' = [task EXCEPT ![n] = "finished"],
           UNCHANGED <<pc, middleware, orphans, cancelled, todo, exit, signalled, bus>>
    PROVE  IInv'
<1> USE DEF IInv
<1>1. /\ task \in [Names -> {"absent", "running", "finished"}]
      /\ task' \in [Names -> {"absent", "running", "finished"}]
      /\ \A m \in Names : m # n => task'[m] = task[m]
      /\ task'[n] = "finished"
  BY DEF TypeOK
<1>2. TypeOK'
  BY <1>1, Typed DEF TypeOK
<1>3. OneEach' /\ SetUp' /\ Unwound' /\ ConfigWins'
  BY MiddlewareKept
<1>4. Settled'
  <2>1. pc \in {"init", "dbus", "setup", "dropping"} => n \in Classes
    BY DEF Settled
  <2> QED
    BY <1>1, <2>1 DEF Settled
<1> QED
  BY <1>2, <1>3, <1>4

LEMMA BesideSafe == IInv /\ Beside => IInv'
<1> SUFFICES ASSUME IInv, Beside PROVE IInv'
  OBVIOUS
<1>1. CASE WaitExitEnds
  <2>1. "WaitExit" \in Names
    BY DEF Names
  <2> QED
    BY <1>1, <2>1, TaskGoesSafe DEF WaitExitEnds
<1>2. CASE \E n \in Names : TaskEnds(n)
  BY <1>2, TaskGoesSafe DEF TaskEnds
<1>3. CASE \/ \E n \in Names : OrphanEnds(n)
           \/ Signal \/ SignalTermHandler \/ BusLost
  <2> USE DEF IInv
  <2>1. /\ UNCHANGED <<pc, middleware, task, cancelled, todo>>
        /\ orphans' \subseteq orphans
        /\ exit' \in {exit, TRUE} /\ signalled' \in {signalled, TRUE, FALSE}
        /\ bus' \in {bus, "lost"}
    BY <1>3 DEF OrphanEnds, Signal, SignalTermHandler, BusLost
  <2>2. exit' \in BOOLEAN
    BY <2>1 DEF TypeOK
  <2>3. signalled' \in BOOLEAN
    BY <2>1 DEF TypeOK
  <2>4. TypeOK'
    BY <2>1, <2>2, <2>3, Typed DEF TypeOK
  <2>5. OneEach' /\ SetUp' /\ Unwound' /\ ConfigWins'
    BY <2>1, MiddlewareKept
  <2>6. Settled'
    BY <2>1 DEF Settled
  <2> QED
    BY <2>4, <2>5, <2>6
<1> QED
  BY <1>1, <1>2, <1>3 DEF Beside

-----------------------------------------------------------------------------

LEMMA StutterSafe == IInv /\ UNCHANGED vars => IInv'
<1> SUFFICES ASSUME IInv, UNCHANGED vars PROVE IInv'
  OBVIOUS
<1> USE DEF IInv, vars
<1>1. TypeOK'
  BY DEF TypeOK, GetMiddleware
<1>2. OneEach' /\ SetUp' /\ Unwound' /\ Settled' /\ ConfigWins'
  BY DEF OneEach, SetUp, Unwound, Settled, ConfigWins, LastWins, Instances
<1> QED
  BY <1>1, <1>2

\* One case per action of the module.
LEMMA NextSafe == IInv /\ Next => IInv'
<1> SUFFICES ASSUME IInv, Next PROVE IInv'
  OBVIOUS
<1>1. CASE LoadNext
  BY <1>1, LoadNextSafe
<1>2. CASE InitMiddleware
  BY <1>2, InitMiddlewareSafe
<1>3. CASE StartDbus \/ StartDbusRefused \/ StartDbusRaises
  BY <1>3, StartDbusSafe, StartDbusRefusedSafe, StartDbusRaisesSafe
<1>4. CASE SetupOk \/ SetupTolerated
  BY <1>4, SetupOkSafe
<1>5. CASE SetupAborts \/ SetupEnds \/ SetupDone
  BY <1>5, SetupAbortsSafe, SetupEndsSafe, SetupDoneSafe
<1>6. CASE \E i \in failed : DropFailed(i)
  BY <1>6, DropFailedSafe
<1>7. CASE WakeUp
  BY <1>7, WakeUpSafe
<1>8. CASE \E n \in Names : CancelTask(n) \/ TaskGone(n)
  BY <1>8, CancelSafe
<1>9. CASE TeardownBegin \/ Teardown \/ StopBus
  BY <1>9, TeardownBeginSafe, TeardownSafe, StopBusSafe
<1>10. CASE RunEnds
  BY <1>10, RunEndsSafe
<1>11. CASE Beside
  BY <1>11, BesideSafe
<1> QED
  BY <1>1, <1>2, <1>3, <1>4, <1>5, <1>6, <1>7, <1>8, <1>9, <1>10, <1>11
  DEF Next, Main, InitLoop, CloseLoop

\* The invariant holds in every state of main_loop(), whatever is declared,
\* configured and overridden, and however tasks, signals and the bus behave.
THEOREM InvCorrect == Spec => []IInv
<1>1. IInv /\ [Next]_vars => IInv'
  BY NextSafe, StutterSafe
<1> QED
  BY InitInv, <1>1, PTL DEF Spec

-----------------------------------------------------------------------------
(* The invariants of the runs.                                             *)

\* Every variable keeps its type, and once the service runs get_middleware()
\* returns only instances whose setup() succeeded, and all of those are there,
\* for any number of failed ones (_setup_middleware).
THEOREM TypeCorrect == Spec => []TypeOK
<1>1. IInv => TypeOK
  BY DEF IInv
<1> QED
  BY InvCorrect, <1>1, PTL

\* One instance of a class at most, which uses the section of the last
\* [middleware] entry of its class, for any declarations and any configured
\* list (REQ-MIDW-015).
THEOREM ConfigSafe == Spec => []ConfigWins
<1>1. IInv => ConfigWins
  BY DEF IInv
<1> QED
  BY InvCorrect, <1>1, PTL

\* Middleware is torn down in reverse, each instance once, while no task of the
\* list runs and before the bus is stopped (close_loop).
THEOREM TornSafe == Spec => []TornDown
<1>1. IInv => TornDown
  <2> SUFFICES ASSUME IInv PROVE TornDown
    OBVIOUS
  <2> USE DEF IInv
  <2>1. torn # <<>> => \/ pc \in {"closed", "crashed", "exited"}
                       \/ \A n \in Names : task[n] # "running"
    BY DEF Unwound, Settled
  <2>2. ToSet(Reverse(Instances)) = ToSet(Instances) /\ IsInjective(Reverse(Instances))
    BY Reversed DEF OneEach
  <2>3. bus = "stopped" => ToSet(torn) = ToSet(loaded.instances)
    BY <2>2 DEF Unwound, Instances
  <2>4. pc = "closed" => /\ ready \subseteq ToSet(torn)
                         /\ torn = Reverse(loaded.instances)
                         /\ IsInjective(torn)
    BY <2>2 DEF Unwound, SetUp, Instances
  <2> QED
    BY <2>1, <2>3, <2>4 DEF TornDown
<1> QED
  BY InvCorrect, <1>1, PTL
=============================================================================
