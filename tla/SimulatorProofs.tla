--------------------------- MODULE SimulatorProofs ---------------------------
(***************************************************************************)
(* simulator_t, for any number of cores, threads and cpus and any trace:   *)
(* the counts of both simulators are right, their assertions hold, and     *)
(* what the report and the placement of threads rest on.  And for any      *)
(* knobs and counter width: how long a warm-up lasts, what the statistics  *)
(* cover after it, and which references are dropped.                       *)
(***************************************************************************)
EXTENDS ThreadScheduling, SimulationPhases, FiniteSetTheorems, WellFoundedInduction, TLAPS

----------------------------------------------------------------------------
(* Threads and cores.                                                       *)

\* A set of naturals that is not empty has a least element.
LEMMA LeastExists ==
  ASSUME NEW S \in SUBSET Nat, S # {} PROVE \E x \in S : \A y \in S : x <= y
  <1>1. OpToRel(<, Nat) = {ss \in Nat \X Nat : ss[1] < ss[2]}
    BY Zenon DEF OpToRel
  <1>2. PICK x \in S : \A y \in S : ~ (<<y, x>> \in OpToRel(<, Nat))
    BY NatLessThanWellFounded, WFMin
  <1>3. ASSUME NEW y \in S PROVE ~ (y < x)
    <2>1. y < x => <<y, x>> \in {ss \in Nat \X Nat : ss[1] < ss[2]}
      BY Zenon
    <2> QED BY <1>1, <1>2, <2>1, Zenon
  <1>4. \A y \in S : x <= y
    BY <1>3
  <1> QED BY <1>2, <1>4

\* Cores are numbers, from 0.
LEMMA CoresNat == Cores \in SUBSET Nat /\ 0 \in Cores
  BY SchedulingAssumption DEF Cores

\* find_emptiest_core finds a core, and none has a smaller count.
LEMMA EmptiestOK ==
  ASSUME NEW load \in [Cores -> Nat]
  PROVE  Emptiest(load) \in Cores /\ \A d \in Cores : load[Emptiest(load)] <= load[d]
  <1> DEFINE V == {load[c] : c \in Cores}
             S == {c \in Cores : \A d \in Cores : load[c] <= load[d]}
  <1>1. V \in SUBSET Nat /\ V # {}
    BY CoresNat, Zenon
  <1>2. \E x \in V : \A y \in V : x <= y
    BY <1>1, LeastExists, Zenon
  <1>3. S # {}
    BY <1>2
  <1>4. S \in SUBSET Nat
    BY CoresNat, Zenon
  <1>5. \E x \in S : \A y \in S : x <= y
    BY <1>3, <1>4, LeastExists, Zenon
  <1>6. Min(S) \in S
    BY <1>5 DEF Min
  <1> QED BY <1>6 DEF Emptiest

-----------------------------------------------------------------------------
(* Counting the threads on a core.                                         *)

On(f, c) == {t \in DOMAIN f : f[t] = c}

\* The threads on a core are finitely many.
LEMMA OnFinite == ASSUME NEW f \in PartialMaps(Threads), NEW c PROVE On(f, c) \subseteq Threads /\ IsFiniteSet(On(f, c))
  <1>1. On(f, c) \in SUBSET Threads
    BY DEF On, PartialMaps
  <1> QED BY <1>1, FS_Subset, SchedulingAssumption

\* What a partial map is.
LEMMA Maps ==
  ASSUME NEW S, NEW f
  PROVE  f \in PartialMaps(S) <=> DOMAIN f \subseteq S /\ f \in [DOMAIN f -> Cores]
  BY DEF PartialMaps

\* A map with one thread more is a map.
LEMMA WithThread ==
  ASSUME NEW f \in PartialMaps(Threads), NEW x \in Threads, NEW c \in Cores
  PROVE  With(f, x, c) \in PartialMaps(Threads)
  <1> DEFINE g == With(f, x, c)
  <1>1. DOMAIN f \subseteq Threads /\ f \in [DOMAIN f -> Cores]
    BY Maps
  <1>2. DOMAIN g = DOMAIN f \cup {x} /\ g \in [DOMAIN f \cup {x} -> Cores]
    BY <1>1 DEF With
  <1>3. DOMAIN g \subseteq Threads /\ g \in [DOMAIN g -> Cores]
    BY <1>1, <1>2
  <1> QED BY <1>3, Maps

\* So is one with one cpu more.
LEMMA WithCpu ==
  ASSUME NEW f \in PartialMaps(Cpus), NEW x \in Cpus, NEW c \in Cores
  PROVE  With(f, x, c) \in PartialMaps(Cpus)
  <1> DEFINE g == With(f, x, c)
  <1>1. DOMAIN f \subseteq Cpus /\ f \in [DOMAIN f -> Cores]
    BY Maps
  <1>2. DOMAIN g = DOMAIN f \cup {x} /\ g \in [DOMAIN f \cup {x} -> Cores]
    BY <1>1 DEF With
  <1>3. DOMAIN g \subseteq Cpus /\ g \in [DOMAIN g -> Cores]
    BY <1>1, <1>2
  <1> QED BY <1>3, Maps

\* A thread that was on no core is put on core c.
LEMMA OnAdded ==
  ASSUME NEW f \in PartialMaps(Threads), NEW t \in Threads, t \notin DOMAIN f, NEW c \in Cores, NEW d \in Cores
  PROVE  Cardinality(On(With(f, t, c), d)) = IF d = c THEN Cardinality(On(f, d)) + 1 ELSE Cardinality(On(f, d))
  <1>1. On(With(f, t, c), d) = IF d = c THEN On(f, d) \cup {t} ELSE On(f, d)
    <2> DEFINE g == With(f, t, c)
    <2>1. DOMAIN g = DOMAIN f \cup {t} /\ g[t] = c /\ \A y \in DOMAIN f : g[y] = f[y]
      <3>1. DOMAIN g = DOMAIN f \cup {t} /\ g[t] = c /\ \A y \in DOMAIN f : y # t => g[y] = f[y]
        BY DEF With
      <3> QED BY <3>1
    <2> HIDE DEF g
    <2>2. On(g, d) = IF d = c THEN On(f, d) \cup {t} ELSE On(f, d)
      BY <2>1 DEF On
    <2> QED BY <2>2 DEF g
  <1>2. t \notin On(f, d)
    BY DEF On
  <1> QED BY <1>1, <1>2, OnFinite, FS_AddElement, Zenon

\* A thread leaves the core it is on.
LEMMA OnRemoved ==
  ASSUME NEW f \in PartialMaps(Threads), NEW t \in DOMAIN f, NEW d \in Cores
  PROVE  LET g == Restrict(f, DOMAIN f \ {t})
         IN  /\ g \in PartialMaps(Threads) /\ DOMAIN g = DOMAIN f \ {t}
             /\ \A u \in DOMAIN g : g[u] = f[u]
             /\ Cardinality(On(g, d)) = IF d = f[t] THEN Cardinality(On(f, d)) - 1 ELSE Cardinality(On(f, d))
  <1> DEFINE g == Restrict(f, DOMAIN f \ {t})
  <1>1. g \in PartialMaps(Threads) /\ DOMAIN g = DOMAIN f \ {t} /\ \A u \in DOMAIN g : g[u] = f[u]
    <2>1. DOMAIN f \subseteq Threads /\ f \in [DOMAIN f -> Cores]
      BY Maps
    <2>2. DOMAIN g = DOMAIN f \ {t} /\ g \in [DOMAIN f \ {t} -> Cores] /\ \A u \in DOMAIN g : g[u] = f[u]
      BY <2>1 DEF Restrict
    <2>3. DOMAIN g \subseteq Threads /\ g \in [DOMAIN g -> Cores]
      BY <2>1, <2>2
    <2> QED BY <2>2, <2>3, Maps, Zenon
  <1>2. On(g, d) = On(f, d) \ {t}
    BY <1>1 DEF On
  <1>3. t \in On(f, d) <=> d = f[t]
    BY DEF On
  <1> QED BY <1>1, <1>2, <1>3, OnFinite, FS_RemoveElement, Zenon

\* A thread that is on a core has been counted there.
LEMMA Counted ==
  ASSUME NEW f \in PartialMaps(Threads), NEW t \in DOMAIN f PROVE Cardinality(On(f, f[t])) \in Nat \ {0}
  <1>1. t \in On(f, f[t]) /\ IsFiniteSet(On(f, f[t]))
    BY OnFinite, Zenon DEF On
  <1> QED BY <1>1, FS_CardinalityType, FS_EmptySet

\* A thread moves from its core to core c.
LEMMA OnMoved ==
  ASSUME NEW f \in PartialMaps(Threads), NEW t \in DOMAIN f, NEW c \in Cores, NEW d \in Cores
  PROVE  LET n == IF d = f[t] THEN Cardinality(On(f, d)) - 1 ELSE Cardinality(On(f, d))
         IN  Cardinality(On(With(f, t, c), d)) = IF d = c THEN n + 1 ELSE n
  <1> DEFINE g == Restrict(f, DOMAIN f \ {t})
  <1>1. /\ g \in PartialMaps(Threads) /\ t \notin DOMAIN g
        /\ Cardinality(On(g, d)) = IF d = f[t] THEN Cardinality(On(f, d)) - 1 ELSE Cardinality(On(f, d))
    BY OnRemoved
  <1>2. t \in Threads
    BY DEF PartialMaps
  <1>3. With(f, t, c) = With(g, t, c)
    BY DEF With, Restrict
  <1>4. Cardinality(On(With(g, t, c), d)) =
          IF d = c THEN Cardinality(On(g, d)) + 1 ELSE Cardinality(On(g, d))
    BY <1>1, <1>2, OnAdded
  <1> QED BY <1>1, <1>3, <1>4

-----------------------------------------------------------------------------
(* One simulator_t.                                                        *)

Counts(s) == \A c \in Cores : s.thread_counts[c] = Cardinality(On(s.thread2core, c))

Good(s) ==
  /\ s \in Schedulers /\ Counts(s)
  /\ s.last_thread # NoThread => s.last_thread \in DOMAIN s.thread2core /\ s.last_core \in s.ever
  /\ \A t \in DOMAIN s.thread2core : s.thread2core[t] \in s.ever

\* The fields of a scheduler have their types.
LEMMA SchedulerFields ==
  ASSUME NEW s \in Schedulers
  PROVE  /\ s.thread2core \in PartialMaps(Threads) /\ s.thread_counts \in [Cores -> Nat]
         /\ s.ever \subseteq Cores /\ s.cpu2core \in PartialMaps(Cpus) /\ s.cpu_counts \in [Cores -> Nat]
         /\ s.last_thread \in Threads \cup {NoThread} /\ s.last_core \in Cores
  BY DEF Schedulers

\* core_for_thread: a new thread goes to an emptiest core and is counted there.
LEMMA CoreForThreadOK ==
  ASSUME NEW s, Good(s), NEW t \in Threads
  PROVE  LET r == CoreForThread(s, t)
         IN  /\ Good(r) /\ DOMAIN r.thread2core = DOMAIN s.thread2core \cup {t}
             /\ \A u \in DOMAIN s.thread2core : r.thread2core[u] = s.thread2core[u]
             /\ r.cpu2core = s.cpu2core /\ s.ever \subseteq r.ever
             /\ r.last_thread = s.last_thread /\ r.last_core = s.last_core
             /\ t \notin DOMAIN s.thread2core => r.thread2core[t] = Emptiest(s.thread_counts)
  <1>1. CASE t \in DOMAIN s.thread2core
    BY <1>1 DEF CoreForThread
  <1>2. CASE t \notin DOMAIN s.thread2core
    <2> DEFINE c == Emptiest(s.thread_counts)
               r == CoreForThread(s, t)
    <2>0. s \in Schedulers /\ Counts(s)
      BY DEF Good
    <2>1. c \in Cores
      BY <2>0, SchedulerFields, EmptiestOK
    <2>2. r = [s EXCEPT !.thread2core = With(@, t, c), !.thread_counts[c] = @ + 1, !.ever = @ \cup {c}]
      BY <1>2 DEF CoreForThread
    <2> HIDE DEF c, r
    <2>3. /\ r.thread2core = With(s.thread2core, t, c)
          /\ r.thread_counts = [s.thread_counts EXCEPT ![c] = @ + 1]
          /\ r.ever = s.ever \cup {c}
          /\ r.cpu2core = s.cpu2core /\ r.cpu_counts = s.cpu_counts
          /\ r.last_thread = s.last_thread /\ r.last_core = s.last_core
      BY <2>0, <2>2 DEF Schedulers
    <2>4. /\ r.thread2core \in PartialMaps(Threads)
          /\ DOMAIN r.thread2core = DOMAIN s.thread2core \cup {t}
          /\ r.thread2core[t] = c
          /\ \A u \in DOMAIN s.thread2core : u # t => r.thread2core[u] = s.thread2core[u]
      <3>1. s.thread2core \in PartialMaps(Threads)
        BY <2>0, SchedulerFields
      <3>2. /\ With(s.thread2core, t, c) \in PartialMaps(Threads)
            /\ DOMAIN With(s.thread2core, t, c) = DOMAIN s.thread2core \cup {t}
            /\ With(s.thread2core, t, c)[t] = c
            /\ \A u \in DOMAIN s.thread2core : u # t => With(s.thread2core, t, c)[u] = s.thread2core[u]
        BY <2>1, <3>1, WithThread DEF With
      <3> QED BY <2>3, <3>2
    <2>5. r.thread_counts \in [Cores -> Nat]
      BY <2>0, <2>1, <2>3, SchedulerFields
    <2>6. r \in Schedulers
      <3>1. DOMAIN r = DOMAIN s
        BY <2>2
      <3> QED BY <2>0, <2>1, <2>2, <2>3, <2>4, <2>5, SchedulerFields, Zenon DEF Schedulers
    <2>7. Counts(r)
      <3> SUFFICES ASSUME NEW d \in Cores PROVE r.thread_counts[d] = Cardinality(On(r.thread2core, d))
        BY DEF Counts
      <3>1. s.thread_counts[d] = Cardinality(On(s.thread2core, d))
        BY <2>0 DEF Counts
      <3>2. Cardinality(On(r.thread2core, d)) =
              IF d = c THEN Cardinality(On(s.thread2core, d)) + 1 ELSE Cardinality(On(s.thread2core, d))
        BY <1>2, <2>0, <2>1, <2>3, SchedulerFields, OnAdded
      <3>3. r.thread_counts[d] = IF d = c THEN s.thread_counts[d] + 1 ELSE s.thread_counts[d]
        BY <2>0, <2>1, <2>3, SchedulerFields
      <3> QED BY <3>1, <3>2, <3>3
    <2>8. \A u \in DOMAIN r.thread2core : r.thread2core[u] \in r.ever
      BY <2>3, <2>4 DEF Good
    <2>9. Good(r)
      BY <2>3, <2>4, <2>6, <2>7, <2>8 DEF Good
    <2> QED BY <1>2, <2>3, <2>4, <2>9 DEF c, r
  <1> QED BY <1>1, <1>2

\* The core of a reference, through the cached last_core or not.
LEMMA PlacedOK ==
  ASSUME NEW s, Good(s), NEW t \in Threads
  PROVE  LET r == Placed(s, t)
         IN  /\ Good(r) /\ r.last_thread = t
             /\ DOMAIN r.thread2core = DOMAIN s.thread2core \cup {t}
             /\ \A u \in DOMAIN s.thread2core : r.thread2core[u] = s.thread2core[u]
             /\ r.cpu2core = s.cpu2core /\ s.ever \subseteq r.ever
             /\ t # s.last_thread => r.last_core = r.thread2core[t]
  <1>0. t # NoThread
    BY SchedulingAssumption
  <1>1. CASE t = s.last_thread
    <2>1. Placed(s, t) = s
      BY <1>1 DEF Placed
    <2>2. t \in DOMAIN s.thread2core
      BY <1>0, <1>1 DEF Good
    <2> QED BY <1>1, <2>1, <2>2
  <1>2. CASE t # s.last_thread
    <2> DEFINE q == CoreForThread(s, t)
               r == Placed(s, t)
    <2>1. /\ Good(q) /\ DOMAIN q.thread2core = DOMAIN s.thread2core \cup {t}
          /\ \A u \in DOMAIN s.thread2core : q.thread2core[u] = s.thread2core[u]
          /\ q.cpu2core = s.cpu2core /\ s.ever \subseteq q.ever
      BY CoreForThreadOK
    <2>2. r = [q EXCEPT !.last_thread = t, !.last_core = q.thread2core[t]]
      BY <1>2 DEF Placed
    <2> HIDE DEF q, r
    <2>3. q \in Schedulers /\ Counts(q)
      BY <2>1 DEF Good
    <2>4. /\ r.thread2core = q.thread2core /\ r.thread_counts = q.thread_counts /\ r.ever = q.ever
          /\ r.cpu2core = q.cpu2core /\ r.cpu_counts = q.cpu_counts
          /\ r.last_thread = t /\ r.last_core = q.thread2core[t]
      BY <2>2, <2>3 DEF Schedulers
    <2>5. q.thread2core[t] \in Cores /\ q.thread2core[t] \in q.ever
      BY <2>1, <2>3, SchedulerFields, Maps DEF Good
    <2>6. r \in Schedulers
      BY <2>2, <2>3, <2>5, Zenon DEF Schedulers
    <2>7. Counts(r)
      BY <2>3, <2>4 DEF Counts
    <2>8. Good(r)
      BY <2>1, <2>4, <2>5, <2>6, <2>7 DEF Good
    <2> QED BY <2>1, <2>4, <2>8 DEF r
  <1> QED BY <1>1, <1>2

\* The counts when t goes to core c.
Shifted(s, t, c, r) ==
  \A d \in Cores :
    r.thread_counts[d] =
      s.thread_counts[d] + (IF d = c THEN 1 ELSE 0)
        - (IF t \in DOMAIN s.thread2core /\ d = s.thread2core[t] THEN 1 ELSE 0)

Moved(s, t, c, r) ==
  /\ r.thread2core = With(s.thread2core, t, c) /\ r.ever = s.ever \cup {c}
  /\ r.last_thread = s.last_thread /\ r.last_core = s.last_core
  /\ r \in Schedulers /\ Shifted(s, t, c, r)

\* A thread is put on core c, which another core no longer counts.
LEMMA MoveOK ==
  ASSUME NEW s, NEW t \in Threads, NEW c \in Cores, NEW r, Good(s), Moved(s, t, c, r)
  PROVE  Good(r)
  <1>0. /\ r.thread2core = With(s.thread2core, t, c) /\ r.ever = s.ever \cup {c}
        /\ r.last_thread = s.last_thread /\ r.last_core = s.last_core
        /\ r \in Schedulers /\ Shifted(s, t, c, r)
    BY DEF Moved
  <1>1. s.thread2core \in PartialMaps(Threads) /\ s.thread_counts \in [Cores -> Nat]
    BY SchedulerFields DEF Good
  <1>2. /\ DOMAIN r.thread2core = DOMAIN s.thread2core \cup {t} /\ r.thread2core[t] = c
        /\ \A u \in DOMAIN s.thread2core : u # t => r.thread2core[u] = s.thread2core[u]
    BY <1>0, <1>1 DEF With
  <1>3. Counts(r)
    <2> SUFFICES ASSUME NEW d \in Cores PROVE r.thread_counts[d] = Cardinality(On(r.thread2core, d))
      BY DEF Counts
    <2> DEFINE n == Cardinality(On(s.thread2core, d))
    <2>1. s.thread_counts[d] = n /\ n \in Nat
      BY <1>1 DEF Good, Counts
    <2>2. CASE t \in DOMAIN s.thread2core
      <3>1. Cardinality(On(r.thread2core, d)) =
              IF d = c THEN (IF d = s.thread2core[t] THEN n - 1 ELSE n) + 1
                       ELSE (IF d = s.thread2core[t] THEN n - 1 ELSE n)
        BY <1>0, <1>1, <2>2, OnMoved
      <3> HIDE DEF n
      <3> QED BY <1>0, <2>1, <2>2, <3>1 DEF Shifted
    <2>3. CASE t \notin DOMAIN s.thread2core
      <3>1. Cardinality(On(r.thread2core, d)) = IF d = c THEN n + 1 ELSE n
        BY <1>0, <1>1, <2>3, OnAdded
      <3> HIDE DEF n
      <3> QED BY <1>0, <2>1, <2>3, <3>1 DEF Shifted
    <2> QED BY <2>2, <2>3
  <1>4. \A u \in DOMAIN r.thread2core : r.thread2core[u] \in r.ever
    BY <1>0, <1>2 DEF Good
  <1>5. Good(r)
    BY <1>0, <1>2, <1>3, <1>4 DEF Good
  <1> QED BY <1>5

\* A CPU marker moves the thread and its count to the cpu's core.
LEMMA OnCpuOK ==
  ASSUME NEW s, Good(s), NEW t \in Threads, NEW p \in Cpus
  PROVE  LET r == OnCpu(s, t, p)
         IN  /\ Good(r) /\ p \in DOMAIN r.cpu2core /\ s.ever \subseteq r.ever
             /\ DOMAIN r.thread2core = DOMAIN s.thread2core \cup {t}
             /\ r.thread2core[t] = r.cpu2core[p]
             /\ \A u \in DOMAIN s.thread2core : u # t => r.thread2core[u] = s.thread2core[u]
             /\ DOMAIN s.cpu2core \subseteq DOMAIN r.cpu2core
             /\ \A x \in DOMAIN s.cpu2core : r.cpu2core[x] = s.cpu2core[x]
  <1> DEFINE new == p \notin DOMAIN s.cpu2core
             c == IF new THEN Emptiest(s.cpu_counts) ELSE s.cpu2core[p]
             s1 == IF new THEN [s EXCEPT !.cpu_counts[c] = @ + 1, !.cpu2core = With(@, p, c)] ELSE s
             s2 == IF t \in DOMAIN s.thread2core
                   THEN [s1 EXCEPT !.thread_counts[s.thread2core[t]] = @ - 1] ELSE s1
             r == [s2 EXCEPT !.thread2core = With(@, t, c), !.thread_counts[c] = @ + 1,
                             !.ever = @ \cup {c}]
  <1>0. s \in Schedulers /\ s.thread2core \in PartialMaps(Threads) /\ s.thread_counts \in [Cores -> Nat]
        /\ s.ever \subseteq Cores /\ s.cpu2core \in PartialMaps(Cpus) /\ s.cpu_counts \in [Cores -> Nat]
    BY SchedulerFields DEF Good
  <1>1. c \in Cores
    BY <1>0, EmptiestOK, Maps
  <1>2. OnCpu(s, t, p) = r
    BY DEF OnCpu
  <1> HIDE DEF c
  <1>3. /\ s1 \in Schedulers /\ p \in DOMAIN s1.cpu2core /\ s1.cpu2core[p] = c
        /\ DOMAIN s.cpu2core \subseteq DOMAIN s1.cpu2core
        /\ \A x \in DOMAIN s.cpu2core : s1.cpu2core[x] = s.cpu2core[x]
        /\ s1.thread2core = s.thread2core /\ s1.thread_counts = s.thread_counts /\ s1.ever = s.ever
        /\ s1.last_thread = s.last_thread /\ s1.last_core = s.last_core
    <2>1. CASE new
      <3>1. With(s.cpu2core, p, c) \in PartialMaps(Cpus)
            /\ DOMAIN With(s.cpu2core, p, c) = DOMAIN s.cpu2core \cup {p}
            /\ With(s.cpu2core, p, c)[p] = c
            /\ \A x \in DOMAIN s.cpu2core : x # p => With(s.cpu2core, p, c)[x] = s.cpu2core[x]
        BY <1>0, <1>1, WithCpu, Zenon DEF With
      <3>2. [s.cpu_counts EXCEPT ![c] = @ + 1] \in [Cores -> Nat]
        BY <1>0, <1>1
      <3>3. s1 = [s EXCEPT !.cpu_counts = [s.cpu_counts EXCEPT ![c] = @ + 1],
                           !.cpu2core = With(s.cpu2core, p, c)]
        BY <1>0, <2>1 DEF Schedulers
      <3> HIDE DEF s1
      <3> QED BY <1>0, <2>1, <3>1, <3>2, <3>3, Zenon DEF Schedulers
    <2>2. CASE ~new
      BY <1>0, <2>2 DEF c
    <2> QED BY <2>1, <2>2
  <1> HIDE DEF s1
  <1> DEFINE k == IF t \in DOMAIN s.thread2core
                  THEN [s.thread_counts EXCEPT ![s.thread2core[t]] = @ - 1] ELSE s.thread_counts
  <1>4. k \in [Cores -> Nat] /\ \A d \in Cores : k[d] = s.thread_counts[d]
              - (IF t \in DOMAIN s.thread2core /\ d = s.thread2core[t] THEN 1 ELSE 0)
    <2>1. CASE t \in DOMAIN s.thread2core
      <3>1. s.thread2core[t] \in Cores
        BY <1>0, <2>1, Maps
      <3>2. s.thread_counts[s.thread2core[t]] \in Nat \ {0}
        BY <1>0, <2>1, <3>1, Counted DEF Good, Counts
      <3> QED BY <1>0, <2>1, <3>1, <3>2
    <2>2. CASE t \notin DOMAIN s.thread2core
      BY <1>0, <2>2
    <2> QED BY <2>1, <2>2
  <1>5. s2 = [s1 EXCEPT !.thread_counts = k]
    BY <1>3 DEF Schedulers
  <1> HIDE DEF s2, k
  <1>6. s2 \in Schedulers /\ s2.thread_counts = k /\ s2.cpu2core = s1.cpu2core
        /\ s2.thread2core = s.thread2core /\ s2.ever = s.ever
        /\ s2.last_thread = s.last_thread /\ s2.last_core = s.last_core
    BY <1>3, <1>4, <1>5 DEF Schedulers
  <1>7. r.thread2core = With(s.thread2core, t, c) /\ r.ever = s.ever \cup {c}
        /\ r.thread_counts = [k EXCEPT ![c] = @ + 1] /\ r.cpu2core = s1.cpu2core
        /\ r.last_thread = s.last_thread /\ r.last_core = s.last_core
    BY <1>6 DEF Schedulers
  <1>8. r \in Schedulers
    <2>1. With(s.thread2core, t, c) \in PartialMaps(Threads)
      BY <1>0, <1>1, WithThread
    <2>2. [k EXCEPT ![c] = @ + 1] \in [Cores -> Nat]
      BY <1>1, <1>4
    <2>3. s.ever \cup {c} \subseteq Cores
      BY <1>0, <1>1
    <2>4. r = [s2 EXCEPT !.thread2core = With(s.thread2core, t, c),
                         !.thread_counts = [k EXCEPT ![c] = @ + 1], !.ever = s.ever \cup {c}]
      BY <1>6, Zenon DEF Schedulers
    <2> HIDE DEF r
    <2> QED BY <1>6, <2>1, <2>2, <2>3, <2>4, Zenon DEF Schedulers
  <1> HIDE DEF r
  <1>9. Shifted(s, t, c, r)
    BY <1>0, <1>1, <1>4, <1>7 DEF Shifted
  <1>10. Good(r)
    <2>1. Moved(s, t, c, r)
      BY <1>7, <1>8, <1>9 DEF Moved
    <2> QED BY <1>1, <2>1, MoveOK, Zenon
  <1>11. /\ DOMAIN r.thread2core = DOMAIN s.thread2core \cup {t} /\ r.thread2core[t] = c
         /\ \A u \in DOMAIN s.thread2core : u # t => r.thread2core[u] = s.thread2core[u]
    BY <1>0, <1>7 DEF With
  <1> QED BY <1>2, <1>3, <1>7, <1>10, <1>11

\* handle_thread_exit for a thread that is on a core.
LEMMA ExitedOK ==
  ASSUME NEW s, Good(s), NEW t \in DOMAIN s.thread2core
  PROVE  LET r == Exited(s, t)
         IN  Good(r) /\ DOMAIN r.thread2core = DOMAIN s.thread2core \ {t} /\ r.ever = s.ever
  <1> DEFINE r == Exited(s, t)
             g == Restrict(s.thread2core, DOMAIN s.thread2core \ {t})
             a == s.thread2core[t]
             k == [s.thread_counts EXCEPT ![a] = @ - 1]
  <1>0. s \in Schedulers /\ s.thread2core \in PartialMaps(Threads) /\ s.thread_counts \in [Cores -> Nat]
        /\ Counts(s)
    BY SchedulerFields DEF Good
  <1>1. a \in Cores
    BY <1>0, Maps
  <1>2. s.thread_counts[a] \in Nat \ {0}
    BY <1>0, <1>1, Counted DEF Counts
  <1>3. k \in [Cores -> Nat]
    BY <1>0, <1>1, <1>2
  <1>4. /\ g \in PartialMaps(Threads) /\ DOMAIN g = DOMAIN s.thread2core \ {t}
        /\ \A u \in DOMAIN g : g[u] = s.thread2core[u]
        /\ \A d \in Cores : Cardinality(On(g, d)) =
              IF d = a THEN Cardinality(On(s.thread2core, d)) - 1 ELSE Cardinality(On(s.thread2core, d))
    BY <1>0, <1>1, OnRemoved
  <1>5. r = [s EXCEPT !.thread_counts = k, !.thread2core = g, !.last_thread = NoThread]
    BY <1>0 DEF Exited, Schedulers
  <1> HIDE DEF r, g, k
  <1>6. /\ r.thread2core = g /\ r.thread_counts = k /\ r.ever = s.ever /\ r.cpu2core = s.cpu2core
        /\ r.cpu_counts = s.cpu_counts /\ r.last_thread = NoThread /\ r.last_core = s.last_core
    BY <1>0, <1>5 DEF Schedulers
  <1>7. r \in Schedulers
    BY <1>0, <1>3, <1>4, <1>5, Zenon DEF Schedulers
  <1>8. Counts(r)
    <2> SUFFICES ASSUME NEW d \in Cores PROVE k[d] = Cardinality(On(g, d))
      BY <1>6 DEF Counts
    <2>1. k[d] = IF d = a THEN s.thread_counts[d] - 1 ELSE s.thread_counts[d]
      BY <1>0, <1>1 DEF k
    <2>2. s.thread_counts[d] = Cardinality(On(s.thread2core, d))
      BY <1>0 DEF Counts
    <2> QED BY <1>4, <2>1, <2>2
  <1>9. \A u \in DOMAIN g : g[u] \in s.ever
    BY <1>4 DEF Good
  <1>10. Good(r)
    BY <1>6, <1>7, <1>8, <1>9 DEF Good
  <1> QED BY <1>4, <1>6, <1>10 DEF r

-----------------------------------------------------------------------------
(* Both simulators.                                                        *)

\* The core of the cpu recorded last for a thread is the thread's core.
CpusOK == \A t \in DOMAIN cpu : /\ t \in DOMAIN cs.thread2core
                               /\ cpu[t] \in DOMAIN cs.cpu2core
                               /\ cs.thread2core[t] = cs.cpu2core[cpu[t]]

IInv ==
  /\ Good(cs) /\ Good(ts) /\ TypeOK /\ ReportCoversUsed /\ CpusOK
  /\ DOMAIN ts.thread2core \cap gone = {}
  /\ gone = {} /\ cpu = EmptyMap => cs = ts /\ ran.cache = ran.tlb

\* No thread is mapped.
LEMMA InitOK == Init => IInv
  <1> SUFFICES ASSUME Init PROVE IInv
    OBVIOUS
  <1> DEFINE i == InitScheduler
  <1>1. /\ EmptyMap \in PartialMaps(Threads) /\ EmptyMap \in PartialMaps(Cpus) /\ DOMAIN EmptyMap = {}
    BY DEF PartialMaps, EmptyMap
  <1>2. i \in Schedulers
    BY <1>1, CoresNat DEF InitScheduler, Schedulers
  <1>3. i.thread2core = EmptyMap /\ i.last_thread = NoThread /\ i.thread_counts = [c \in Cores |-> 0] /\ i.ever = {}
    BY DEF InitScheduler
  <1> HIDE DEF i
  <1>4. Counts(i)
    <2>1. \A c \in Cores : On(EmptyMap, c) = {}
      BY <1>1 DEF On
    <2> QED BY <1>3, <2>1, FS_EmptySet DEF Counts
  <1>5. Good(i)
    BY <1>1, <1>2, <1>3, <1>4 DEF Good
  <1>6. cs = i /\ ts = i
    BY DEF Init, i
  <1>7. TypeOK
    BY <1>1, <1>2, <1>6, CoresNat DEF Init, TypeOK
  <1>8. ReportCoversUsed /\ CpusOK /\ DOMAIN ts.thread2core \cap gone = {} /\ ran.cache = ran.tlb
    BY <1>1, <1>3, <1>6 DEF Init, ReportCoversUsed, CpusOK
  <1> QED BY <1>5, <1>6, <1>7, <1>8 DEF IInv

\* A marker reaches the cache simulator alone.
LEMMA CpuMarkerOK ==
  ASSUME IInv, NEW t \in Threads, NEW p \in Cpus, CpuMarker(t, p) PROVE IInv'
  <1> DEFINE r == OnCpu(cs, t, p)
  <1>0. Good(cs) /\ Good(ts) /\ TypeOK /\ ReportCoversUsed /\ CpusOK /\ DOMAIN ts.thread2core \cap gone = {}
    BY DEF IInv
  <1>1. /\ Good(r) /\ p \in DOMAIN r.cpu2core /\ cs.ever \subseteq r.ever
        /\ DOMAIN r.thread2core = DOMAIN cs.thread2core \cup {t}
        /\ r.thread2core[t] = r.cpu2core[p]
        /\ \A u \in DOMAIN cs.thread2core : u # t => r.thread2core[u] = cs.thread2core[u]
        /\ DOMAIN cs.cpu2core \subseteq DOMAIN r.cpu2core
        /\ \A x \in DOMAIN cs.cpu2core : r.cpu2core[x] = cs.cpu2core[x]
    BY <1>0, OnCpuOK
  <1> HIDE DEF r
  <1>2. cs' = r /\ ts' = ts /\ ran' = ran /\ gone' = gone /\ used' = used
    BY DEF CpuMarker, r
  <1>3. /\ DOMAIN cpu' = DOMAIN cpu \cup {t} /\ cpu'[t] = p
        /\ \A u \in DOMAIN cpu : u # t => cpu'[u] = cpu[u]
    BY DEF CpuMarker, With
  <1>4. cpu' # EmptyMap
    <2>1. DOMAIN EmptyMap = {}
      BY DEF EmptyMap
    <2> QED BY <1>3, <2>1
  <1>5. r \in Schedulers
    BY <1>1 DEF Good
  <1>6. TypeOK'
    BY <1>0, <1>2, <1>3, <1>5 DEF TypeOK
  <1>7. ReportCoversUsed'
    BY <1>0, <1>1, <1>2 DEF ReportCoversUsed
  <1>8. CpusOK'
    BY <1>0, <1>1, <1>2, <1>3 DEF CpusOK
  <1>9. Good(cs') /\ Good(ts') /\ DOMAIN ts'.thread2core \cap gone' = {}
    BY <1>0, <1>1, <1>2
  <1>10. Good(cs)' /\ Good(ts)'
    BY <1>9 DEF Good, Counts
  <1> QED BY <1>4, <1>6, <1>7, <1>8, <1>9, <1>10 DEF IInv

\* What both kinds of reference do to the cache simulator.
LEMMA PlacedCpus ==
  ASSUME IInv, NEW t \in Threads, cs' = Placed(cs, t), cpu' = cpu
  PROVE  Good(cs') /\ cs'.last_thread = t /\ cs.ever \subseteq cs'.ever /\ CpusOK'
  <1>1. Good(cs) /\ CpusOK
    BY DEF IInv
  <1>2. /\ Good(cs') /\ cs'.last_thread = t
        /\ DOMAIN cs'.thread2core = DOMAIN cs.thread2core \cup {t}
        /\ \A u \in DOMAIN cs.thread2core : cs'.thread2core[u] = cs.thread2core[u]
        /\ cs'.cpu2core = cs.cpu2core /\ cs.ever \subseteq cs'.ever
    BY <1>1, PlacedOK
  <1>3. CpusOK'
    BY <1>1, <1>2 DEF CpusOK
  <1> QED BY <1>2, <1>3

\* A reference reaches both.
LEMMA MemrefOK ==
  ASSUME IInv, NEW t \in Threads, Memref(t) PROVE IInv'
  <1>0. /\ Good(cs) /\ Good(ts) /\ TypeOK /\ ReportCoversUsed /\ DOMAIN ts.thread2core \cap gone = {}
        /\ gone = {} /\ cpu = EmptyMap => cs = ts
    BY DEF IInv
  <1>1. /\ t \notin gone /\ cs' = Placed(cs, t) /\ ts' = Placed(ts, t) /\ gone' = gone /\ cpu' = cpu
        /\ ran' = [thread |-> t, cache |-> cs'.last_core, tlb |-> ts'.last_core]
        /\ used' = [cache |-> used.cache \cup {cs'.last_core}, tlb |-> used.tlb \cup {ts'.last_core}]
    BY DEF Memref
  <1>2. Good(cs') /\ cs'.last_thread = t /\ cs.ever \subseteq cs'.ever /\ CpusOK'
    BY <1>1, PlacedCpus
  <1>3. Good(ts') /\ ts'.last_thread = t /\ ts.ever \subseteq ts'.ever
        /\ DOMAIN ts'.thread2core = DOMAIN ts.thread2core \cup {t}
    BY <1>0, <1>1, PlacedOK
  <1>4. t # NoThread
    BY SchedulingAssumption
  <1>5. /\ cs' \in Schedulers /\ ts' \in Schedulers
        /\ cs'.last_core \in cs'.ever /\ ts'.last_core \in ts'.ever
    BY <1>2, <1>3, <1>4 DEF Good
  <1>6. cs'.last_core \in Cores /\ ts'.last_core \in Cores
    BY <1>5 DEF Schedulers
  <1>7. TypeOK'
    BY <1>0, <1>1, <1>5, <1>6 DEF TypeOK
  <1>8. ReportCoversUsed'
    BY <1>0, <1>1, <1>2, <1>3, <1>5 DEF ReportCoversUsed
  <1>9. Good(cs)' /\ Good(ts)'
    BY <1>2, <1>3 DEF Good, Counts
  <1>10. gone' = {} /\ cpu' = EmptyMap => cs' = ts' /\ ran'.cache = ran'.tlb
    BY <1>0, <1>1
  <1>11. DOMAIN ts'.thread2core \cap gone' = {}
    BY <1>0, <1>1, <1>3
  <1>12. (EmptyMap)' = EmptyMap
    BY DEF EmptyMap
  <1> QED BY <1>2, <1>7, <1>8, <1>9, <1>10, <1>11, <1>12 DEF IInv

\* An exit is acted on by the TLB simulator alone.
LEMMA ThreadExitOK ==
  ASSUME IInv, NEW t \in Threads, ThreadExit(t) PROVE IInv'
  <1> DEFINE q == Placed(ts, t)
  <1>0. /\ Good(cs) /\ Good(ts) /\ TypeOK /\ ReportCoversUsed /\ DOMAIN ts.thread2core \cap gone = {}
    BY DEF IInv
  <1>1. /\ cs' = Placed(cs, t) /\ ts' = Exited(q, t) /\ gone' = gone \cup {t}
        /\ cpu' = cpu /\ ran' = ran /\ used' = used
    BY DEF ThreadExit
  <1>2. Good(cs') /\ cs.ever \subseteq cs'.ever /\ CpusOK'
    BY <1>1, PlacedCpus
  <1>3. Good(q) /\ ts.ever \subseteq q.ever /\ DOMAIN q.thread2core = DOMAIN ts.thread2core \cup {t}
    BY <1>0, PlacedOK
  <1> HIDE DEF q
  <1>4. Good(ts') /\ DOMAIN ts'.thread2core = DOMAIN q.thread2core \ {t} /\ ts'.ever = q.ever
    BY <1>1, <1>3, ExitedOK
  <1>5. cs' \in Schedulers /\ ts' \in Schedulers
    BY <1>2, <1>4 DEF Good
  <1>6. TypeOK'
    BY <1>0, <1>1, <1>5 DEF TypeOK
  <1>7. ReportCoversUsed'
    BY <1>0, <1>1, <1>2, <1>3, <1>4 DEF ReportCoversUsed
  <1>8. Good(cs)' /\ Good(ts)'
    BY <1>2, <1>4 DEF Good, Counts
  <1>9. DOMAIN ts'.thread2core \cap gone' = {} /\ gone' # {}
    BY <1>0, <1>1, <1>3, <1>4
  <1> QED BY <1>2, <1>6, <1>7, <1>8, <1>9 DEF IInv

\* Every record keeps the invariant.
LEMMA NextOK == IInv /\ [Next]_vars => IInv'
  <1> SUFFICES ASSUME IInv, [Next]_vars PROVE IInv'
    OBVIOUS
  <1>1. CASE Next
    BY <1>1, CpuMarkerOK, MemrefOK, ThreadExitOK DEF Next
  <1>2. CASE UNCHANGED vars
    BY <1>2 DEF vars, IInv, Good, Counts, TypeOK, ReportCoversUsed, CpusOK
  <1> QED BY <1>1, <1>2

\* The invariant holds always.
LEMMA Invariance == Spec => []IInv
  BY InitOK, NextOK, PTL DEF Spec
-----------------------------------------------------------------------------
\* The maps and counts of both simulators keep their types for every trace: in
\* particular no thread count is taken below zero by a marker or an exit.
THEOREM TypeCorrect == Spec => []TypeOK
  <1>1. IInv => TypeOK
    BY DEF IInv
  <1> QED BY <1>1, Invariance, PTL

\* The assertions of handle_thread_exit hold for every trace and number of
\* cores: a core counts the threads mapped to it.
THEOREM CountsAreRight == Spec => []CountsMatch
  <1>1. IInv => CountsMatch
    BY DEF IInv, Good, Counts, On, CountsMatch
  <1> QED BY <1>1, Invariance, PTL

\* print_results never leaves out a core that served a reference.
THEOREM ReportIsComplete == Spec => []ReportCoversUsed
  <1>1. IInv => ReportCoversUsed
    BY DEF IInv
  <1> QED BY <1>1, Invariance, PTL

\* Before the first exit and the first CPU marker a reference uses the TLBs and
\* the caches of one core.
THEOREM OneCoreUntilExit == Spec => []SameCoreUntilExit
  <1>1. IInv => SameCoreUntilExit
    BY DEF IInv, SameCoreUntilExit
  <1> QED BY <1>1, Invariance, PTL

\* The next reference of a thread runs on the core of the cpu recorded last for
\* it, unless the thread also made the previous reference.
THEOREM RunsOnRecordedCpu == Spec => []OnRecordedCpu
  <1>1. ASSUME IInv PROVE OnRecordedCpu
    <2> SUFFICES ASSUME NEW t \in DOMAIN cpu \ gone, t # cs.last_thread
                 PROVE  Placed(cs, t).last_core = cs.cpu2core[cpu[t]]
      BY DEF OnRecordedCpu
    <2>1. Good(cs) /\ CpusOK /\ t \in Threads
      BY <1>1 DEF IInv, TypeOK
    <2>2. t \in DOMAIN cs.thread2core /\ cs.thread2core[t] = cs.cpu2core[cpu[t]]
      BY <2>1 DEF CpusOK
    <2>3. Placed(cs, t).last_core = cs.thread2core[t]
      BY <2>1, <2>2, PlacedOK
    <2> QED BY <2>2, <2>3
  <1>2. IInv => OnRecordedCpu
    BY <1>1
  <1> QED BY <1>2, Invariance, PTL

\* The TLB simulator, which sees threads exit, puts a new thread on a core with
\* the fewest live threads.
THEOREM NewThreadOnLeastLoaded == Spec => []TlbLeastLoaded
  <1>1. ASSUME IInv PROVE TlbLeastLoaded
    <2> SUFFICES ASSUME NEW t \in Threads \ gone, t \notin DOMAIN ts.thread2core, NEW c \in Cores
                 PROVE  Load(ts, CoreForThread(ts, t).thread2core[t]) <= Load(ts, c)
      BY DEF TlbLeastLoaded, LeastLoaded
    <2> DEFINE e == Emptiest(ts.thread_counts)
    <2>1. Good(ts) /\ ts \in Schedulers /\ Counts(ts) /\ DOMAIN ts.thread2core \cap gone = {}
      BY <1>1 DEF IInv, Good
    <2>2. CoreForThread(ts, t).thread2core[t] = e
      BY <2>1, CoreForThreadOK
    <2>3. e \in Cores /\ ts.thread_counts[e] <= ts.thread_counts[c]
      BY <2>1, SchedulerFields, EmptiestOK
    <2> HIDE DEF e
    <2>4. ASSUME NEW d \in Cores PROVE Load(ts, d) = ts.thread_counts[d]
      <3>1. DOMAIN ts.thread2core \ gone = DOMAIN ts.thread2core
        BY <2>1
      <3> QED BY <2>1, <3>1 DEF Load, Counts, On
    <2> QED BY <2>2, <2>3, <2>4
  <1>2. IInv => TlbLeastLoaded
    BY <1>1
  <1> QED BY <1>2, Invariance, PTL

----------------------------------------------------------------------------
(* The phases of a simulation.                                             *)

\* The counters have the width of the code's integers.
LEMMA KnobFields ==
  ASSUME NEW k \in Knobs
  PROVE  k.skip \in 0 .. Width - 1 /\ k.warm \in 0 .. Width - 1 /\ k.sim \in 0 .. Width - 1
  BY DEF Knobs

\* So have the options.
LEMMA GivenFields ==
  ASSUME given \in Given
  PROVE  given.skip \in 0 .. Width - 1 /\ given.warm \in 0 .. Width - 1 /\ given.sim \in 0 .. Width - 1
  BY PhasesAssumption, Zenon DEF Given

\* A decrement wraps within the width.
LEMMA DecOK == ASSUME NEW n \in 0 .. Width - 1 PROVE Dec(n) \in 0 .. Width - 1
  BY PhasesAssumption DEF Dec

\* check_warmed_up takes one from the warm-up counter, and no more than there
\* is.
LEMMA CheckOK ==
  ASSUME NEW k \in Knobs
  PROVE  LET r == WarmAfterCheck(k)
         IN  /\ r \in Knobs /\ r.skip = k.skip /\ r.sim = k.sim
             /\ r.warm = IF k.warm > 0 THEN k.warm - 1 ELSE 0
  <1>1. CASE k.warm > 0
    <2>1. WarmAfterCheck(k) = [k EXCEPT !.warm = k.warm - 1]
      BY <1>1 DEF WarmAfterCheck
    <2>2. k.warm - 1 \in 0 .. Width - 1
      BY <1>1, KnobFields, PhasesAssumption
    <2> QED BY <1>1, <2>1, <2>2 DEF Knobs
  <1>2. CASE ~(k.warm > 0)
    BY <1>2, KnobFields, PhasesAssumption DEF WarmAfterCheck
  <1> QED BY <1>1, <1>2

\* A set of records that have been read, and the next record.
LEMMA Records ==
  ASSUME pos \in Nat, NEW S \in SUBSET (1 .. pos)
  PROVE  /\ IsFiniteSet(S) /\ Cardinality(S) \in 0 .. pos
         /\ Cardinality(S \cup {pos + 1}) = Cardinality(S) + 1
         /\ S \subseteq 1 .. pos + 1 /\ S \cup {pos + 1} \subseteq 1 .. pos + 1
  <1>1. IsFiniteSet(1 .. pos) /\ Cardinality(1 .. pos) = pos
    BY FS_Interval
  <1>2. IsFiniteSet(S) /\ Cardinality(S) <= pos
    BY <1>1, FS_Subset, Zenon
  <1>3. pos + 1 \notin S
    OBVIOUS
  <1>4. Cardinality(S) \in Nat
    BY <1>2, FS_CardinalityType
  <1>5. Cardinality(S \cup {pos + 1}) = Cardinality(S) + 1
    BY <1>2, <1>3, FS_AddElement
  <1> QED BY <1>2, <1>4, <1>5

\* The records that were simulated, and the ones that ended early.
LEMMA PhasesCounted ==
  ASSUME PhasesTypeOK
  PROVE  /\ Cardinality(full) \in 0 .. pos /\ Cardinality(early) \in 0 .. pos
         /\ Cardinality(full \cup {pos + 1}) = Cardinality(full) + 1
         /\ Cardinality(early \cup {pos + 1}) = Cardinality(early) + 1
  <1>1. pos \in Nat /\ full \in SUBSET (1 .. pos) /\ early \in SUBSET (1 .. pos)
    BY DEF PhasesTypeOK
  <1>2. Cardinality(full) \in 0 .. pos /\ Cardinality(full \cup {pos + 1}) = Cardinality(full) + 1
    BY <1>1, Records, Zenon
  <1>3. Cardinality(early) \in 0 .. pos /\ Cardinality(early \cup {pos + 1}) = Cardinality(early) + 1
    BY <1>1, Records
  <1> QED BY <1>2, <1>3

-----------------------------------------------------------------------------
\* The warm-up counter, and the end of a warm-up by -warmup_fraction.
Warming ==
  /\ given.fraction = "yes" => given.warm = 0 /\ warmed # "top" /\ (warmed = "no" => loaded = "no")
  /\ given.warm = 0 => knobs.warm = 0
  /\ given.warm > 0 /\ warmed = "no" =>
       knobs.warm > 0 /\ knobs.warm + 2 * Cardinality(full) + Cardinality(early) = given.warm

\* What is left of -sim_refs.
Left == IF Cardinality(Charged) <= given.sim THEN given.sim - Cardinality(Charged)
        ELSE given.sim - Cardinality(Charged) + Width

Cleared == warmed = "tail" => \A n \in walks \cup counts : n > end

PhasesInv == PhasesTypeOK /\ pos <= MaxRecords /\ Warming /\ Cleared /\ TlbClearedAtWarmup
Sims == MaxRecords < Width => knobs.sim = Left

\* Before the first record.
LEMMA PhasesInitOK == PhasesInit => PhasesInv /\ Sims
  <1> SUFFICES ASSUME PhasesInit PROVE PhasesInv /\ Sims
    OBVIOUS
  <1>1. given \in Given /\ (given.fraction = "yes" => given.warm = 0)
    BY DEF PhasesInit
  <1>2. InitKnobs \in Knobs /\ InitKnobs.warm = given.warm /\ InitKnobs.sim = given.sim
    BY <1>1, GivenFields DEF InitKnobs, Knobs
  <1>3. knobs \in Knobs /\ tlb \in Knobs /\ knobs.warm = given.warm /\ tlb.warm = given.warm /\ knobs.sim = given.sim
    BY <1>2 DEF PhasesInit
  <1>4. PhasesTypeOK
    BY <1>1, <1>3 DEF PhasesTypeOK, PhasesInit
  <1>5. pos <= MaxRecords /\ Cleared /\ TlbClearedAtWarmup
    BY <1>1, <1>3, GivenFields, PhasesAssumption DEF PhasesInit, Cleared, TlbClearedAtWarmup
  <1>6. Cardinality(full) = 0 /\ Cardinality(early) = 0 /\ Cardinality(Charged) = 0
    BY FS_EmptySet DEF PhasesInit, Charged
  <1>7. Warming
    BY <1>1, <1>3, <1>6, GivenFields DEF Warming, PhasesInit
  <1>8. Sims
    BY <1>1, <1>3, <1>6, GivenFields DEF Sims, Left
  <1> QED BY <1>4, <1>5, <1>7, <1>8 DEF PhasesInv

\* The check at the top of process_memref.
LEMMA TopOK ==
  ASSUME PhasesInv
  PROVE  /\ Top \in Knobs /\ Top.skip = knobs.skip /\ Top.sim = knobs.sim
         /\ TopWarmed \in {"no", "top", "tail"}
         /\ warmed # "no" => TopWarmed = warmed
         /\ TopWarmed # warmed => TopWarmed = "top"
         /\ given.fraction = "yes" => TopWarmed # "top"
         /\ given.warm = 0 => Top.warm = 0
         /\ given.warm > 0 /\ TopWarmed = "no" =>
              /\ warmed = "no" /\ Top.warm > 0
              /\ Top.warm + 1 + 2 * Cardinality(full) + Cardinality(early) = given.warm
  <1>0. knobs \in Knobs /\ given \in Given /\ warmed \in {"no", "top", "tail"} /\ Warming
        /\ pos \in Nat /\ PhasesTypeOK
    BY DEF PhasesInv, PhasesTypeOK
  <1>1. Cardinality(full) \in Nat /\ Cardinality(early) \in Nat
    BY <1>0, PhasesCounted
  <1>2. CASE warmed # "no"
    <2>1. Top = knobs /\ TopWarmed = warmed
      BY <1>2 DEF Top, TopWarmed
    <2> QED BY <1>0, <1>2, <2>1 DEF Warming
  <1>3. CASE warmed = "no"
    <2>1. Top \in Knobs /\ Top.skip = knobs.skip /\ Top.sim = knobs.sim
          /\ Top.warm = IF knobs.warm > 0 THEN knobs.warm - 1 ELSE 0
      BY <1>0, <1>3, CheckOK DEF Top
    <2>2. TopWarmed = IF Checked(knobs, loaded) THEN "top" ELSE "no"
      BY <1>3 DEF TopWarmed
    <2>3. given.fraction = "yes" => ~Checked(knobs, loaded)
      BY <1>0, <1>3 DEF Warming, Checked
    <2>4. knobs.warm = 1 => Checked(knobs, loaded)
      BY DEF Checked
    <2>5. knobs.warm \in Nat /\ given.warm \in Nat
      BY <1>0, KnobFields, GivenFields, PhasesAssumption
    <2>6. given.warm = 0 => Top.warm = 0
      BY <1>0, <2>1, <2>5 DEF Warming
    <2>7. given.warm > 0 /\ TopWarmed = "no" =>
              /\ Top.warm > 0
              /\ Top.warm + 1 + 2 * Cardinality(full) + Cardinality(early) = given.warm
      BY <1>0, <1>1, <1>3, <2>1, <2>2, <2>4, <2>5 DEF Warming
    <2>8. TopWarmed \in {"no", "top", "tail"} /\ (TopWarmed # warmed => TopWarmed = "top")
          /\ (given.fraction = "yes" => TopWarmed # "top")
      BY <1>3, <2>2, <2>3
    <2> QED BY <1>3, <2>1, <2>6, <2>7, <2>8
  <1> QED BY <1>2, <1>3

\* One call of the TLB simulator.
LEMMA TlbStepOK ==
  ASSUME PhasesInv, NEW asked \in BOOLEAN, TlbStep(pos + 1, asked), pos' = pos + 1, given' = given
  PROVE  tlb' \in Knobs /\ tcounts' \subseteq 1 .. pos' /\ tend' \in 0 .. pos' /\ TlbClearedAtWarmup'
  <1>0. /\ tlb \in Knobs /\ tcounts \subseteq 1 .. pos /\ tend \in 0 .. pos /\ pos \in Nat
        /\ tlb.warm \in Nat /\ tlb.sim \in 0 .. Width - 1 /\ tlb.skip \in Nat /\ given.warm \in Nat
        /\ TlbClearedAtWarmup
    BY KnobFields, GivenFields, PhasesAssumption DEF PhasesInv, PhasesTypeOK
  <1>1. /\ tcounts' = IF ~TlbActive THEN tcounts
                      ELSE IF tlb.warm = 1 THEN {}
                      ELSE IF asked THEN tcounts \cup {pos + 1} ELSE tcounts
        /\ tend' = IF TlbActive /\ tlb.warm = 1 THEN pos + 1 ELSE tend
    BY DEF TlbStep
  <1>2. tcounts' \subseteq 1 .. pos' /\ tend' \in 0 .. pos'
    BY <1>0, <1>1
  <1>3. /\ tlb' \in Knobs
        /\ tlb'.warm = IF TlbActive /\ tlb.warm > 0 THEN tlb.warm - 1 ELSE tlb.warm
    <2>0. tlb' = IF tlb.skip > 0 THEN [tlb EXCEPT !.skip = @ - 1]
                 ELSE IF ~TlbActive THEN tlb
                 ELSE IF tlb.warm > 0 THEN [tlb EXCEPT !.warm = @ - 1]
                 ELSE [tlb EXCEPT !.sim = Dec(@)]
      BY DEF TlbStep
    <2>1. CASE tlb.skip > 0
      <3>1. ~TlbActive
        BY <2>1, <1>0 DEF TlbActive
      <3>2. tlb' = [tlb EXCEPT !.skip = tlb.skip - 1]
        BY <2>0, <2>1
      <3>3. tlb.skip - 1 \in 0 .. Width - 1
        BY <1>0, <2>1, KnobFields, PhasesAssumption
      <3> QED BY <1>0, <3>1, <3>2, <3>3 DEF Knobs
    <2>2. CASE ~(tlb.skip > 0) /\ ~TlbActive
      BY <1>0, <2>0, <2>2
    <2>3. CASE ~(tlb.skip > 0) /\ TlbActive /\ tlb.warm > 0
      <3>2. tlb' = [tlb EXCEPT !.warm = tlb.warm - 1]
        BY <2>0, <2>3
      <3>3. tlb.warm - 1 \in 0 .. Width - 1
        BY <1>0, <2>3, KnobFields, PhasesAssumption
      <3> QED BY <1>0, <2>3, <3>2, <3>3 DEF Knobs
    <2>4. CASE ~(tlb.skip > 0) /\ TlbActive /\ ~(tlb.warm > 0)
      <3>2. tlb' = [tlb EXCEPT !.sim = Dec(tlb.sim)]
        BY <2>0, <2>4
      <3>3. Dec(tlb.sim) \in 0 .. Width - 1
        BY <1>0, DecOK
      <3> QED BY <1>0, <2>4, <3>2, <3>3 DEF Knobs
    <2> QED BY <2>1, <2>2, <2>3, <2>4
  <1>4. TlbClearedAtWarmup'
    <2> SUFFICES ASSUME tlb'.warm = 0, given.warm > 0, NEW n \in tcounts' PROVE n > tend'
      BY DEF TlbClearedAtWarmup
    <2>1. CASE tlb.warm = 0
      <3>1. n \in tcounts \/ n = pos + 1
        BY <1>1
      <3>2. tend' = tend
        BY <1>1, <2>1
      <3>3. \A m \in tcounts : m > tend
        BY <1>0, <2>1 DEF TlbClearedAtWarmup
      <3>4. pos + 1 > tend
        BY <1>0
      <3> QED BY <3>1, <3>2, <3>3, <3>4
    <2>2. CASE tlb.warm # 0
      <3>1. TlbActive /\ tlb.warm = 1
        BY <1>0, <1>3, <2>2
      <3> QED BY <1>1, <3>1
    <2> QED BY <2>1, <2>2
  <1> QED BY <1>2, <1>3, <1>4

\* A step that simulates nothing charges nothing.
LEMMA ChargedSame ==
  ASSUME full' = full, given' = given, knobs'.sim = knobs.sim, Sims,
         (warmed' = warmed /\ end' = end) \/ (warmed = "no" /\ warmed' = "top")
  PROVE  Sims'
  <1>1. Charged' = Charged
    BY DEF Charged
  <1>2. Left' = Left
    BY <1>1 DEF Left
  <1> QED BY <1>2 DEF Sims

\* The part of a step that is the check at the top.
LEMMA TopDoneOK ==
  ASSUME PhasesInv, TopDone, pos' = pos + 1, given' = given
  PROVE  /\ knobs' \in Knobs /\ warmed' \in {"no", "top", "tail"} /\ end' \in 0 .. pos'
         /\ knobs'.sim = knobs.sim
         /\ (warmed' = warmed /\ end' = end) \/ (warmed = "no" /\ warmed' = "top")
         /\ given.fraction = "yes" => warmed' # "top" /\ warmed' = warmed
         /\ given.warm = 0 => knobs'.warm = 0
         /\ given.warm > 0 /\ warmed' = "no" =>
              /\ warmed = "no" /\ knobs'.warm > 0
              /\ knobs'.warm + 1 + 2 * Cardinality(full) + Cardinality(early) = given.warm
  <1>1. knobs' = Top /\ warmed' = TopWarmed /\ end' = IF TopWarmed # warmed THEN pos ELSE end
    BY DEF TopDone
  <1>2. pos \in Nat /\ end \in 0 .. pos /\ warmed \in {"no", "top", "tail"}
    BY DEF PhasesInv, PhasesTypeOK
  <1>3. end' \in 0 .. pos'
    BY <1>1, <1>2
  <1> QED BY <1>1, <1>2, <1>3, TopOK, Zenon

\* The steps that simulate nothing keep the statistics.
LEMMA QuietOK ==
  ASSUME PhasesInv, Sims, pos' = pos + 1, pos < MaxRecords, given' = given,
         loaded' = loaded, walks' = walks, counts' = counts, full' = full,
         knobs' \in Knobs, knobs'.sim = knobs.sim, warmed' \in {"no", "top", "tail"}, end' \in 0 .. pos',
         (warmed' = warmed /\ end' = end) \/ (warmed = "no" /\ warmed' = "top"),
         early' \subseteq 1 .. pos', Warming',
         tlb' \in Knobs /\ tcounts' \subseteq 1 .. pos' /\ tend' \in 0 .. pos' /\ TlbClearedAtWarmup'
  PROVE  PhasesInv' /\ Sims'
  <1>1. Sims'
    BY ChargedSame
  <1>2. PhasesTypeOK'
    BY DEF PhasesInv, PhasesTypeOK
  <1>3. Cleared'
    <2>1. CASE warmed' = warmed /\ end' = end
      BY <2>1 DEF PhasesInv, Cleared
    <2>2. CASE warmed' = "top"
      BY <2>2 DEF Cleared
    <2> QED BY <2>1, <2>2
  <1>4. pos' <= MaxRecords
    BY PhasesAssumption DEF PhasesInv, PhasesTypeOK
  <1> QED BY <1>1, <1>2, <1>3, <1>4 DEF PhasesInv

\* The TLB simulator is not called.
LEMMA NoTlb ==
  ASSUME PhasesInv, pos' = pos + 1, given' = given, tlb' = tlb, tcounts' = tcounts, tend' = tend
  PROVE  tlb' \in Knobs /\ tcounts' \subseteq 1 .. pos' /\ tend' \in 0 .. pos' /\ TlbClearedAtWarmup'
  <1>1. tlb' \in Knobs /\ tcounts' \subseteq 1 .. pos' /\ tend' \in 0 .. pos'
    BY DEF PhasesInv, PhasesTypeOK
  <1>2. TlbClearedAtWarmup'
    BY DEF PhasesInv, TlbClearedAtWarmup
  <1> QED BY <1>1, <1>2

\* A skipped record.
LEMMA SkipOK == ASSUME PhasesInv, Sims, Skip PROVE PhasesInv' /\ Sims'
  <1>0. /\ pos \in Nat /\ knobs \in Knobs /\ knobs.skip \in 0 .. Width - 1 /\ Width \in Nat
        /\ warmed \in {"no", "top", "tail"} /\ end \in 0 .. pos /\ early \subseteq 1 .. pos /\ Warming
    BY KnobFields, PhasesAssumption DEF PhasesInv, PhasesTypeOK
  <1>1. /\ pos' = pos + 1 /\ pos < MaxRecords /\ given' = given /\ knobs.skip > 0
        /\ knobs' = [knobs EXCEPT !.skip = knobs.skip - 1]
    BY DEF Skip, Read
  <1>2. /\ loaded' = loaded /\ walks' = walks /\ counts' = counts /\ full' = full /\ early' = early
        /\ tlb' = tlb /\ tcounts' = tcounts /\ tend' = tend /\ warmed' = warmed /\ end' = end
    BY DEF Skip, stats, history
  <1>3. knobs.skip - 1 \in 0 .. Width - 1
    BY <1>0, <1>1
  <1>4. knobs' \in Knobs /\ knobs'.sim = knobs.sim /\ knobs'.warm = knobs.warm
    BY <1>0, <1>1, <1>3 DEF Knobs
  <1>5. Warming'
    BY <1>0, <1>1, <1>2, <1>4 DEF Warming
  <1>6. early' \subseteq 1 .. pos' /\ end' \in 0 .. pos' /\ warmed' \in {"no", "top", "tail"}
    BY <1>0, <1>1, <1>2
  <1> QED BY <1>1, <1>2, <1>4, <1>5, <1>6, NoTlb, QuietOK

\* A record after the simulated ones.
LEMMA DropOK == ASSUME PhasesInv, Sims, Drop PROVE PhasesInv' /\ Sims'
  <1>0. /\ pos \in Nat /\ knobs \in Knobs
        /\ warmed \in {"no", "top", "tail"} /\ end \in 0 .. pos /\ early \subseteq 1 .. pos /\ Warming
    BY DEF PhasesInv, PhasesTypeOK
  <1>1. pos' = pos + 1 /\ pos < MaxRecords /\ given' = given
    BY DEF Drop, Read
  <1>2. /\ loaded' = loaded /\ walks' = walks /\ counts' = counts /\ full' = full /\ early' = early
        /\ tlb' = tlb /\ tcounts' = tcounts /\ tend' = tend
    BY DEF Drop, stats
  <1>3. early' \subseteq 1 .. pos'
    BY <1>0, <1>1, <1>2
  <1>4. CASE NothingLeft /\ UNCHANGED <<knobs, warmed, end>>
    <2>1. Warming' /\ end' \in 0 .. pos'
      BY <1>0, <1>1, <1>2, <1>4 DEF Warming
    <2> QED BY <1>0, <1>1, <1>2, <1>3, <1>4, <2>1, NoTlb, QuietOK
  <1>5. CASE TopWarmed # "no" /\ TopDone
    <2>1. warmed' # "no"
      BY <1>5 DEF TopDone
    <2>2. /\ knobs' \in Knobs /\ warmed' \in {"no", "top", "tail"} /\ end' \in 0 .. pos'
          /\ knobs'.sim = knobs.sim
          /\ (warmed' = warmed /\ end' = end) \/ (warmed = "no" /\ warmed' = "top")
          /\ given.fraction = "yes" => warmed' # "top" /\ warmed' = warmed
          /\ given.warm = 0 => knobs'.warm = 0
      BY <1>1, <1>5, TopDoneOK
    <2>3. Warming'
      BY <1>0, <1>1, <1>2, <2>1, <2>2 DEF Warming
    <2> QED BY <1>1, <1>2, <1>3, <2>2, <2>3, NoTlb, QuietOK
  <1> QED BY <1>4, <1>5 DEF Drop

\* A record that ends between the two checks.
LEMMA EarlyOK ==
  ASSUME PhasesInv, Sims, Entered, TopDone, early' = early \cup {pos + 1}, loaded' = loaded,
         walks' = walks, counts' = counts, full' = full,
         tlb' \in Knobs /\ tcounts' \subseteq 1 .. pos' /\ tend' \in 0 .. pos' /\ TlbClearedAtWarmup'
  PROVE  PhasesInv' /\ Sims'
  <1>0. PhasesTypeOK /\ pos \in Nat /\ early \subseteq 1 .. pos /\ Warming
    BY DEF PhasesInv, PhasesTypeOK
  <1>1. pos' = pos + 1 /\ pos < MaxRecords /\ given' = given
    BY DEF Entered, Read
  <1>2. /\ knobs' \in Knobs /\ warmed' \in {"no", "top", "tail"} /\ end' \in 0 .. pos'
        /\ knobs'.sim = knobs.sim
        /\ (warmed' = warmed /\ end' = end) \/ (warmed = "no" /\ warmed' = "top")
        /\ given.fraction = "yes" => warmed' # "top" /\ warmed' = warmed
        /\ given.warm = 0 => knobs'.warm = 0
        /\ given.warm > 0 /\ warmed' = "no" =>
              /\ warmed = "no" /\ knobs'.warm > 0
              /\ knobs'.warm + 1 + 2 * Cardinality(full) + Cardinality(early) = given.warm
    BY <1>1, TopDoneOK
  <1>3. Cardinality(early') = Cardinality(early) + 1 /\ Cardinality(early) \in Nat /\ Cardinality(full) \in Nat
    BY <1>0, PhasesCounted
  <1>4. early' \subseteq 1 .. pos'
    BY <1>0, <1>1
  <1>5. knobs'.warm \in Int /\ given.warm \in Int
    BY <1>0, <1>2, KnobFields, GivenFields, PhasesAssumption DEF PhasesTypeOK
  <1>6. Warming'
    <2>1. given.warm > 0 /\ warmed' = "no" =>
            knobs'.warm > 0 /\ knobs'.warm + 2 * Cardinality(full') + Cardinality(early') = given.warm
      BY <1>2, <1>3, <1>5
    <2>2. given.fraction = "yes" => given.warm = 0 /\ warmed' # "top" /\ (warmed' = "no" => loaded' = "no")
      BY <1>0, <1>2 DEF Warming
    <2> QED BY <1>1, <1>2, <2>1, <2>2 DEF Warming
  <1> QED BY <1>1, <1>2, <1>4, <1>6, QuietOK

\* A marker ends early, after the first check.
LEMMA MarkerOK == ASSUME PhasesInv, Sims, Marker PROVE PhasesInv' /\ Sims'
  <1>1. /\ Entered /\ TopDone /\ early' = early \cup {pos + 1} /\ loaded' = loaded
        /\ walks' = walks /\ counts' = counts /\ full' = full
        /\ tlb' = tlb /\ tcounts' = tcounts /\ tend' = tend
    BY DEF Marker, stats
  <1>2. pos' = pos + 1 /\ given' = given
    BY <1>1 DEF Entered, Read
  <1> QED BY <1>1, <1>2, NoTlb, EarlyOK

\* So does a reference without a translation.
LEMMA UntranslatedOK == ASSUME PhasesInv, Sims, Untranslated PROVE PhasesInv' /\ Sims'
  <1>1. /\ Entered /\ TopDone /\ early' = early \cup {pos + 1} /\ loaded' = loaded
        /\ walks' = walks /\ counts' = counts /\ full' = full
        /\ \E asked \in BOOLEAN : TlbStep(pos + 1, asked)
    BY DEF Untranslated
  <1>2. pos' = pos + 1 /\ given' = given
    BY <1>1 DEF Entered, Read
  <1>3. tlb' \in Knobs /\ tcounts' \subseteq 1 .. pos' /\ tend' \in 0 .. pos' /\ TlbClearedAtWarmup'
    BY <1>1, <1>2, TlbStepOK
  <1> QED BY <1>1, <1>3, EarlyOK

\* The end of process_memref when it ends the warm-up.
LEMMA TailOver ==
  ASSUME PhasesInv, Sims, Entered, NEW missed \in BOOLEAN, NEW ld, MemrefTail(pos + 1, missed, ld),
         TopWarmed = "no" /\ Checked(Top, ld), full' = full \cup {pos + 1}
  PROVE  /\ knobs' \in Knobs /\ warmed' = "tail" /\ end' = pos + 1 /\ counts' = {} /\ walks' = {}
         /\ given.warm = 0 => knobs'.warm = 0
         /\ Sims'
  <1>1. /\ knobs' = WarmAfterCheck(Top) /\ warmed' = "tail" /\ end' = pos + 1 /\ counts' = {} /\ walks' = {}
    BY DEF MemrefTail
  <1>2. /\ Top \in Knobs /\ Top.sim = knobs.sim /\ warmed = "no" /\ (given.warm = 0 => Top.warm = 0)
    BY TopOK, Zenon
  <1>3. knobs' \in Knobs /\ knobs'.sim = knobs.sim /\ (given.warm = 0 => knobs'.warm = 0)
    BY <1>1, <1>2, CheckOK
  <1>4. Charged' = Charged
    <2>1. full \subseteq 1 .. pos /\ pos \in Nat
      BY DEF PhasesInv, PhasesTypeOK
    <2>2. Charged = full
      BY <1>2 DEF Charged
    <2>3. Charged' = {n \in full \cup {pos + 1} : n # pos + 1}
      BY <1>1 DEF Charged
    <2> QED BY <2>1, <2>2, <2>3
  <1>5. Left' = Left
    BY <1>4 DEF Left, Entered, Read
  <1> QED BY <1>1, <1>3, <1>5 DEF Sims

\* The end of process_memref otherwise.
LEMMA TailGoesOn ==
  ASSUME PhasesInv, Sims, Entered, NEW missed \in BOOLEAN, NEW ld, MemrefTail(pos + 1, missed, ld),
         ~(TopWarmed = "no" /\ Checked(Top, ld)), full' = full \cup {pos + 1}
  PROVE  /\ knobs' \in Knobs /\ warmed' = TopWarmed /\ end' = (IF TopWarmed # warmed THEN pos ELSE end)
         /\ counts' = counts \cup {pos + 1} /\ walks' \subseteq walks \cup {pos + 1}
         /\ given.warm = 0 => knobs'.warm = 0
         /\ given.warm > 0 /\ warmed' = "no" =>
              knobs'.warm > 0 /\ knobs'.warm + 2 * (Cardinality(full) + 1) + Cardinality(early) = given.warm
         /\ Sims'
  <1> DEFINE b == IF TopWarmed = "no" THEN WarmAfterCheck(Top) ELSE Top
  <1>0. PhasesTypeOK /\ pos \in Nat /\ full \subseteq 1 .. pos /\ end \in 0 .. pos /\ given \in Given
        /\ knobs \in Knobs /\ pos < MaxRecords /\ given' = given /\ MaxRecords \in Nat /\ Width \in Nat \ {0}
    BY PhasesAssumption DEF PhasesInv, PhasesTypeOK, Entered, Read
  <1>1. /\ knobs' = [b EXCEPT !.sim = Dec(b.sim)] /\ warmed' = TopWarmed
        /\ end' = (IF TopWarmed # warmed THEN pos ELSE end)
        /\ counts' = counts \cup {pos + 1} /\ walks' \subseteq walks \cup {pos + 1}
    <2>1. /\ knobs' = [b EXCEPT !.sim = Dec(b.sim)] /\ warmed' = TopWarmed /\ counts' = counts \cup {pos + 1}
      BY DEF MemrefTail
    <2>2. end' = IF TopWarmed # warmed THEN (pos + 1) - 1 ELSE end
      BY DEF MemrefTail
    <2>3. walks' = IF missed THEN walks \cup {pos + 1} ELSE walks
      BY DEF MemrefTail
    <2> QED BY <1>0, <2>1, <2>2, <2>3
  <1>2. /\ Top \in Knobs /\ Top.sim = knobs.sim /\ (given.warm = 0 => Top.warm = 0)
        /\ (TopWarmed # warmed => TopWarmed = "top")
        /\ warmed # "no" => TopWarmed = warmed
        /\ given.warm > 0 /\ TopWarmed = "no" =>
              Top.warm > 0 /\ Top.warm + 1 + 2 * Cardinality(full) + Cardinality(early) = given.warm
    BY TopOK, Zenon
  <1>3. /\ b \in Knobs /\ b.sim = knobs.sim
        /\ b.warm = IF TopWarmed = "no" /\ Top.warm > 0 THEN Top.warm - 1 ELSE Top.warm
    <2>1. CASE TopWarmed = "no"
      <3>1. Top.warm \in Nat
        BY <1>0, <1>2, KnobFields
      <3> QED BY <1>2, <2>1, <3>1, CheckOK
    <2>2. CASE TopWarmed # "no"
      BY <1>2, <2>2
    <2> QED BY <2>1, <2>2
  <1> HIDE DEF b
  <1>4. knobs' \in Knobs /\ knobs'.warm = b.warm /\ knobs'.sim = Dec(knobs.sim)
    <2>1. Dec(b.sim) \in 0 .. Width - 1
      BY <1>3, KnobFields, DecOK
    <2> QED BY <1>1, <1>3, <2>1 DEF Knobs
  <1>5. given.warm > 0 /\ warmed' = "no" =>
          knobs'.warm > 0 /\ knobs'.warm + 2 * (Cardinality(full) + 1) + Cardinality(early) = given.warm
    <2>1. TopWarmed = "no" => Top.warm # 1
      BY DEF Checked
    <2>2. Top.warm \in Nat /\ Cardinality(full) \in Nat /\ Cardinality(early) \in Nat /\ given.warm \in Nat
      BY <1>0, <1>2, KnobFields, GivenFields, PhasesCounted
    <2> QED BY <1>1, <1>2, <1>3, <1>4, <2>1, <2>2
  <1>6. Charged' = Charged \cup {pos + 1} /\ Charged \in SUBSET (1 .. pos)
    <2>1. CASE warmed = "tail"
      <3>1. warmed' = "tail" /\ end' = end /\ pos + 1 # end
        BY <1>0, <1>1, <1>2, <2>1
      <3> QED BY <1>0, <2>1, <3>1, Zenon DEF Charged
    <2>2. CASE warmed # "tail"
      <3>1. warmed' # "tail"
        BY <1>1, <1>2, <2>2
      <3> QED BY <1>0, <2>2, <3>1, Zenon DEF Charged
    <2> QED BY <2>1, <2>2
  <1>7. Sims'
    <2> SUFFICES ASSUME MaxRecords < Width PROVE knobs'.sim = Left'
      BY DEF Sims
    <2> DEFINE n == Cardinality(Charged)
    <2>1. n \in 0 .. pos /\ Cardinality(Charged') = n + 1
      BY <1>0, <1>6, Records, Zenon
    <2>2. knobs.sim = IF n <= given.sim THEN given.sim - n ELSE given.sim - n + Width
      BY DEF Sims, Left
    <2>3. Left' = IF n + 1 <= given.sim THEN given.sim - (n + 1) ELSE given.sim - (n + 1) + Width
      BY <1>0, <2>1 DEF Left
    <2>4. given.sim \in Nat
      BY <1>0, GivenFields
    <2> HIDE DEF n
    <2>5. Dec(knobs.sim) = IF n + 1 <= given.sim THEN given.sim - (n + 1) ELSE given.sim - (n + 1) + Width
      BY <1>0, <2>1, <2>2, <2>4 DEF Dec
    <2> QED BY <1>4, <2>3, <2>5
  <1> QED BY <1>1, <1>2, <1>3, <1>4, <1>5, <1>7

\* A simulated reference comes to both checks, and is charged.
LEMMA SimulateOK == ASSUME PhasesInv, Sims, Simulate PROVE PhasesInv' /\ Sims'
  <1>0. /\ PhasesTypeOK /\ Warming /\ Cleared /\ pos \in Nat /\ pos < MaxRecords /\ MaxRecords \in Nat
        /\ given' = given /\ pos' = pos + 1 /\ early' = early /\ full' = full \cup {pos + 1} /\ Entered
    BY PhasesAssumption DEF PhasesInv, PhasesTypeOK, Simulate, Entered, Read
  <1>1. PICK asked \in BOOLEAN, missed \in BOOLEAN, ld \in {loaded, "yes"} :
          TlbStep(pos + 1, asked) /\ loaded' = ld /\ MemrefTail(pos + 1, missed, ld)
    BY DEF Simulate
  <1>2. tlb' \in Knobs /\ tcounts' \subseteq 1 .. pos' /\ tend' \in 0 .. pos' /\ TlbClearedAtWarmup'
    BY <1>0, <1>1, TlbStepOK
  <1>3. /\ full \subseteq 1 .. pos /\ early \subseteq 1 .. pos /\ walks \subseteq 1 .. pos
        /\ counts \subseteq 1 .. pos /\ end \in 0 .. pos /\ loaded \in {"no", "yes"}
        /\ given \in Given /\ warmed \in {"no", "top", "tail"}
    BY <1>0 DEF PhasesTypeOK
  <1>4. full' \subseteq 1 .. pos' /\ early' \subseteq 1 .. pos' /\ loaded' \in {"no", "yes"} /\ pos' \in Nat
        /\ pos' <= MaxRecords
    BY <1>0, <1>1, <1>3
  <1>5. CASE TopWarmed = "no" /\ Checked(Top, ld)
    <2>1. /\ knobs' \in Knobs /\ warmed' = "tail" /\ end' = pos + 1 /\ counts' = {} /\ walks' = {}
          /\ given.warm = 0 => knobs'.warm = 0
          /\ Sims'
      BY <1>0, <1>1, <1>5, TailOver
    <2>2. PhasesTypeOK'
      BY <1>0, <1>2, <1>3, <1>4, <2>1 DEF PhasesTypeOK
    <2>3. Warming' /\ Cleared'
      BY <1>0, <2>1 DEF Warming, Cleared
    <2> QED BY <1>2, <1>4, <2>1, <2>2, <2>3 DEF PhasesInv
  <1>6. CASE ~(TopWarmed = "no" /\ Checked(Top, ld))
    <2>1. /\ knobs' \in Knobs /\ warmed' = TopWarmed /\ end' = (IF TopWarmed # warmed THEN pos ELSE end)
          /\ counts' = counts \cup {pos + 1} /\ walks' \subseteq walks \cup {pos + 1}
          /\ given.warm = 0 => knobs'.warm = 0
          /\ given.warm > 0 /\ warmed' = "no" =>
               knobs'.warm > 0 /\ knobs'.warm + 2 * (Cardinality(full) + 1) + Cardinality(early) = given.warm
          /\ Sims'
      BY <1>0, <1>1, <1>6, TailGoesOn
    <2>2. /\ TopWarmed \in {"no", "top", "tail"} /\ (TopWarmed # warmed => TopWarmed = "top")
          /\ given.fraction = "yes" => TopWarmed # "top"
      BY TopOK, Zenon
    <2>3. counts' \subseteq 1 .. pos' /\ walks' \subseteq 1 .. pos' /\ end' \in 0 .. pos'
      BY <1>0, <1>3, <2>1
    <2>4. PhasesTypeOK'
      BY <1>0, <1>2, <1>3, <1>4, <2>1, <2>2, <2>3 DEF PhasesTypeOK
    <2>5. Warming'
      <3>1. given.fraction = "yes" /\ warmed' = "no" => loaded' = "no"
        BY <1>1, <1>3, <1>6, <2>1 DEF Checked
      <3>2. Cardinality(full') = Cardinality(full) + 1
        BY <1>0, PhasesCounted
      <3>3. given.warm > 0 /\ warmed' = "no" =>
              knobs'.warm > 0 /\ knobs'.warm + 2 * Cardinality(full') + Cardinality(early') = given.warm
        BY <1>0, <2>1, <3>2
      <3>4. given.fraction = "yes" => given.warm = 0
        BY <1>0 DEF Warming
      <3> QED BY <1>0, <2>1, <2>2, <3>1, <3>3, <3>4 DEF Warming
    <2>6. Cleared'
      <3> SUFFICES ASSUME warmed' = "tail", NEW n \in walks' \cup counts' PROVE n > end'
        BY DEF Cleared
      <3>1. warmed = "tail" /\ end' = end
        BY <2>1, <2>2
      <3>2. n \in walks \cup counts \/ n = pos + 1
        BY <2>1
      <3>3. \A m \in walks \cup counts : m > end
        BY <1>0, <3>1 DEF Cleared
      <3>4. pos + 1 > end
        BY <1>0, <1>3
      <3> QED BY <3>1, <3>2, <3>3, <3>4
    <2> QED BY <1>2, <1>4, <2>1, <2>4, <2>5, <2>6 DEF PhasesInv
  <1> QED BY <1>5, <1>6

\* Every record keeps the invariant.
LEMMA PhasesNextOK == (PhasesInv /\ Sims) /\ [PhasesNext]_phasesVars => (PhasesInv /\ Sims)'
  <1> SUFFICES ASSUME PhasesInv, Sims, [PhasesNext]_phasesVars PROVE PhasesInv' /\ Sims'
    OBVIOUS
  <1>1. CASE PhasesNext
    BY <1>1, SkipOK, DropOK, MarkerOK, UntranslatedOK, SimulateOK DEF PhasesNext
  <1>2. CASE UNCHANGED phasesVars
    BY <1>2 DEF phasesVars, stats, history, PhasesInv, Sims, PhasesTypeOK, Warming, Cleared, TlbClearedAtWarmup, Left, Charged
  <1> QED BY <1>1, <1>2

\* The invariant holds always.
LEMMA PhasesInvariance == PhasesSpec => [](PhasesInv /\ Sims)
  BY PhasesInitOK, PhasesNextOK, PTL DEF PhasesSpec
-----------------------------------------------------------------------------
\* The counters of both simulators stay within their width and the statistics
\* within the records read, for any knobs and trace.
THEOREM PhasesTypeCorrect == PhasesSpec => []PhasesTypeOK
  <1>1. PhasesInv => PhasesTypeOK
    BY DEF PhasesInv
  <1> QED BY <1>1, PhasesInvariance, PTL

\* A warm-up counted in references is used up by two for a reference that is
\* simulated and by one for a record that ends between the two checks.
THEOREM WarmupIsAccounted == PhasesSpec => []WarmupAccounting
  <1>1. PhasesInv => WarmupAccounting
    BY DEF PhasesInv, Warming, WarmupAccounting
  <1> QED BY <1>1, PhasesInvariance, PTL

\* No statistic covers a record of a warm-up that ends in the second check, and
\* a warm-up by -warmup_fraction always ends there.
THEOREM StatisticsCleared == PhasesSpec => []ClearedAtTail
  <1>1. PhasesInv => ClearedAtTail
    BY DEF PhasesInv, Warming, Cleared, ClearedAtTail
  <1> QED BY <1>1, PhasesInvariance, PTL

\* The TLB statistics cover no record of the warm-up of the TLB simulator.
THEOREM TlbStatisticsCleared == PhasesSpec => []TlbClearedAtWarmup
  <1>1. PhasesInv => TlbClearedAtWarmup
    BY DEF PhasesInv
  <1> QED BY <1>1, PhasesInvariance, PTL

\* With a trace shorter than the counter's range (2^64), a reference is dropped
\* exactly when -sim_refs references have been charged.
THEOREM DroppedWhenCharged ==
  ASSUME MaxRecords < Width PROVE PhasesSpec => SimRefsCharged
  <1>1. ASSUME PhasesInv, Sims, [PhasesNext]_phasesVars PROVE [DropsWhenCharged]_phasesVars
    <2> DEFINE n == Cardinality(Charged)
    <2>1. n \in 0 .. pos /\ pos \in Nat /\ pos <= MaxRecords /\ given.sim \in Nat /\ Width \in Nat /\ MaxRecords \in Nat
      <3>1. Charged \in SUBSET (1 .. pos) /\ pos \in Nat
        BY <1>1, Zenon DEF PhasesInv, PhasesTypeOK, Charged
      <3>2. n \in 0 .. pos
        BY <3>1, Records, Zenon
      <3>3. given.sim \in Nat
        BY <1>1, GivenFields DEF PhasesInv, PhasesTypeOK
      <3> QED BY <1>1, <3>1, <3>2, <3>3, PhasesAssumption DEF PhasesInv
    <2>2. knobs.sim = IF n <= given.sim THEN given.sim - n ELSE given.sim - n + Width
      BY <1>1 DEF Sims, Left
    <2> HIDE DEF n
    <2>3. knobs.sim = 0 <=> n = given.sim
      BY <2>1, <2>2
    <2>4. Drop => n = given.sim
      <3>1. Drop => knobs.sim = 0
        BY DEF Drop, NothingLeft
      <3> QED BY <2>3, <3>1
    <2>5. Simulate /\ warmed # "no" => n # given.sim
      <3>1. Simulate /\ warmed # "no" => knobs.sim # 0
        BY DEF Simulate, Entered, TopWarmed
      <3> QED BY <2>3, <3>1
    <2> QED BY <2>4, <2>5 DEF DropsWhenCharged, n
  <1>2. PhasesInv /\ Sims /\ [PhasesNext]_phasesVars => [DropsWhenCharged]_phasesVars
    BY <1>1
  <1> QED BY <1>2, PhasesInvariance, PTL DEF PhasesSpec, SimRefsCharged
=============================================================================
