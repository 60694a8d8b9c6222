------------------------ MODULE CachingDeviceProofs ------------------------
(***************************************************************************)
(* Proofs about CachingDevice for every geometry, policy and set of blocks *)
(* a device may have.  The inductive invariant is a condition on one set   *)
(* of the device at a time (LineOK) plus the synchronisation of last_tag.  *)
(* Two more are kept beside it.  The counters of cache_lru_t may tie, so   *)
(* they are no permutation of the ways: what bounds them is how many ways  *)
(* of a set reach each value.  And loaded_blocks is the number of valid    *)
(* blocks (Counts).                                                        *)
(***************************************************************************)
EXTENDS CachingDevice, FiniteSetTheorems, WellFoundedInduction, TLAPS

\* A way carries the FIFO pointer of its set.
PointerAt(c, w) == c = [v \in Ways |-> IF v = w THEN 1 ELSE 0]

\* What holds of the tags tg and counters c of set s between two operations.
\* The bound on the counters is what makes a largest one exist.
LineOK(s, tg, c) ==
    /\ tg \in [Ways -> Nat \cup {Invalid}]
    /\ c \in [Ways -> Nat]
    /\ \E k \in Nat : \A w \in Ways : c[w] <= k
    /\ \A w \in Ways : tg[w] # Invalid =>
          /\ SetOf(tg[w]) = s
          /\ \A v \in Ways : tg[v] = tg[w] => v = w
    /\ Policy = "LRU" =>
          \A v, w \in Ways : tg[v] # Invalid /\ tg[w] # Invalid /\ c[v] = 0 /\ c[w] = 0
                                => v = w
    /\ Policy = "FIFO" => \E w \in Ways : PointerAt(c, w)

DevOK(d) == d \in Device /\ \A s \in Sets : LineOK(s, d.tag[s], d.ctr[s])

\* Way w of set s is not the victim of an LRU set: another way is empty, or was
\* referenced longer ago.
Spared(d, s, w) ==
    \E v \in Ways : v # w /\ (d.tag[s][v] = Invalid \/ d.ctr[s][v] > d.ctr[s][w])

\* The remembered slot holds last_tag, and a prefetch that finds last_tag in
\* the fast path can rely on it: the demand miss just before did not take it.
LastSafe(d) ==
    d.last_tag # Invalid =>
        /\ d.tag[SetOf(d.last_tag)][d.last_way] = d.last_tag
        /\ Policy = "LRU" /\ Assoc >= 3 => Spared(d, SetOf(d.last_tag), d.last_way)

\* A set of naturals that is not empty has a least element.
LEMMA LeastExists ==
    ASSUME NEW S \in SUBSET Nat, S # {}
    PROVE  \E x \in S : \A y \in S : x <= y
<1>0. OpToRel(<, Nat) = {ss \in Nat \X Nat : ss[1] < ss[2]}
  BY Zenon DEF OpToRel
<1>1. PICK x \in S : \A y \in S : ~ (<<y, x>> \in OpToRel(<, Nat))
  BY NatLessThanWellFounded, WFMin
<1>2. ASSUME NEW y \in S PROVE ~ (y < x)
  <2>1. y < x => <<y, x>> \in {ss \in Nat \X Nat : ss[1] < ss[2]}
    BY Zenon
  <2> QED
    BY <1>0, <1>1, <2>1, Zenon
<1>3. \A y \in S : x <= y
  BY <1>2
<1> QED
  BY <1>1, <1>3

\* Min of a set of ways is one of them.
LEMMA MinInSet ==
    ASSUME NEW S \in SUBSET Ways, S # {}
    PROVE  Min(S) \in S
<1>1. S \in SUBSET Nat
  BY GeometryAssumption DEF Ways
<1>2. \E x \in S : \A y \in S : x <= y
  BY <1>1, LeastExists
<1> QED
  BY <1>2 DEF Min

\* Counters that are bounded have a largest and a smallest one.
LEMMA ExtremesExist ==
    ASSUME NEW c \in [Ways -> Nat], NEW k \in Nat, \A w \in Ways : c[w] <= k
    PROVE  /\ \E w \in Ways : \A v \in Ways : c[v] <= c[w]
           /\ \E w \in Ways : \A v \in Ways : c[w] <= c[v]
<1> DEFINE B == {n \in Nat : \A w \in Ways : c[w] <= n}
           C == {c[w] : w \in Ways}
<1>0. 0 \in Ways
  BY GeometryAssumption DEF Ways
<1>1. PICK m \in B : \A n \in B : m <= n
  <2>1. B \in SUBSET Nat /\ B # {}
    BY Zenon
  <2> QED
    BY <2>1, LeastExists, Zenon
<1>2. \E w \in Ways : c[w] = m
  <2>1. SUFFICES ASSUME \A w \in Ways : c[w] # m PROVE FALSE
    OBVIOUS
  <2>2. \A w \in Ways : c[w] < m
    BY <1>1, <2>1
  <2>3. m # 0
    BY <2>2, <1>0
  <2>4. m - 1 \in B
    BY <2>2, <2>3, <1>1
  <2> QED
    BY <2>4, <1>1
<1>3. PICK l \in C : \A n \in C : l <= n
  <2>1. C \in SUBSET Nat /\ C # {}
    BY <1>0
  <2> QED
    BY <2>1, LeastExists, Zenon
<1> QED
  BY <1>1, <1>2, <1>3

\* replace_which_way always finds a way, and one of its candidates.
LEMMA VictimInCandidates ==
    ASSUME NEW s \in Sets, NEW tg, NEW c, LineOK(s, tg, c)
    PROVE  Victim(tg, c) \in Ways /\ Victim(tg, c) \in Candidates(tg, c)
<1>1. Candidates(tg, c) \in SUBSET Ways
  BY GeometryAssumption DEF Candidates
<1>2. Candidates(tg, c) # {}
  <2>1. CASE Policy = "FIFO"
    BY <2>1 DEF Candidates, LineOK, PointerAt
  <2>2. CASE Policy = "LRU"
    BY <2>2, ExtremesExist DEF Candidates, LineOK
  <2>3. CASE Policy = "LFU"
    BY <2>3, ExtremesExist DEF Candidates, LineOK
  <2> QED
    BY <2>1, <2>2, <2>3, GeometryAssumption
<1>3. Min(Candidates(tg, c)) \in Candidates(tg, c)
  BY <1>1, <1>2, MinInSet
<1> QED
  BY <1>1, <1>2, <1>3 DEF Victim

\* access_update on a valid block keeps a set in order, and under LRU makes
\* that block the one with counter 0.
LEMMA HitLine ==
    ASSUME NEW s \in Sets, NEW tg, NEW c, LineOK(s, tg, c),
           NEW w \in Ways, tg[w] # Invalid
    PROVE  /\ LineOK(s, tg, AccessUpdate(c, w))
           /\ Policy = "LRU" => AccessUpdate(c, w)[w] = 0
<1> DEFINE c2 == AccessUpdate(c, w)
<1>1. PICK k \in Nat : \A v \in Ways : c[v] <= k
  BY DEF LineOK
<1>2. CASE Policy = "LRU"
  <2>1. c2 = LruAccess(c, w)
    BY <1>2 DEF AccessUpdate
  <2>2. c \in [Ways -> Nat]
    BY DEF LineOK
  <2>3. c2 \in [Ways -> Nat] /\ \A v \in Ways : c2[v] <= k + 1
    BY <1>1, <2>1, <2>2 DEF LruAccess
  <2>4. c2[w] = 0 /\ \A v \in Ways : v # w /\ tg[v] # Invalid => c2[v] # 0
    BY <1>2, <2>1, <2>2 DEF LruAccess, LineOK
  <2>5. Policy # "FIFO"
    BY <1>2
  <2>6. \E n \in Nat : \A v \in Ways : c2[v] <= n
    BY <2>3
  <2>7. \A u, v \in Ways : tg[u] # Invalid /\ tg[v] # Invalid /\ c2[u] = 0 /\ c2[v] = 0
                              => u = v
    BY <2>4
  <2> QED
    BY <2>3, <2>4, <2>5, <2>6, <2>7 DEF LineOK
<1>3. CASE Policy = "LFU"
  <2>1. c2 = [c EXCEPT ![w] = @ + 1]
    BY <1>3 DEF AccessUpdate
  <2>2. c \in [Ways -> Nat]
    BY DEF LineOK
  <2>3. c2 \in [Ways -> Nat] /\ \A v \in Ways : c2[v] <= k + 1
    BY <1>1, <2>1, <2>2
  <2>4. \E n \in Nat : \A v \in Ways : c2[v] <= n
    BY <2>3
  <2> QED
    BY <1>3, <2>3, <2>4 DEF LineOK
<1>4. CASE Policy = "FIFO"
  BY <1>4 DEF LineOK, AccessUpdate
<1> QED
  BY <1>2, <1>3, <1>4, GeometryAssumption

\* A fill of the victim way with a block that is not in the set yet.
LEMMA FillLine ==
    ASSUME NEW s \in Sets, NEW tg, NEW c, LineOK(s, tg, c),
           NEW t \in Nat, SetOf(t) = s, \A v \in Ways : tg[v] # t
    PROVE  LET w == Victim(tg, c)
               c2 == AccessUpdate(Replaced(c, w), w)
           IN /\ w \in Ways
              /\ LineOK(s, [tg EXCEPT ![w] = t], c2)
              /\ Policy = "LRU" => c2[w] = 0
<1> DEFINE w == Victim(tg, c)
           tg2 == [tg EXCEPT ![w] = t]
           c1 == Replaced(c, w)
           c2 == AccessUpdate(c1, w)
<1>1. w \in Ways /\ w \in Candidates(tg, c)
  BY VictimInCandidates
<1>2. PICK k \in Nat : \A v \in Ways : c[v] <= k
  BY DEF LineOK
<1>3. c \in [Ways -> Nat] /\ tg \in [Ways -> Nat \cup {Invalid}]
  BY DEF LineOK
<1>4. t # Invalid
  BY DEF Invalid
<1>5. /\ tg2 \in [Ways -> Nat \cup {Invalid}]
      /\ \A v \in Ways : tg2[v] # Invalid =>
            /\ SetOf(tg2[v]) = s
            /\ \A u \in Ways : tg2[u] = tg2[v] => u = v
  BY <1>1, <1>3, <1>4 DEF LineOK
<1>6. CASE Policy = "LRU"
  <2> HIDE DEF w
  <2>1. c1 = [c EXCEPT ![w] = 1]
    BY <1>6 DEF Replaced
  <2>2. c2 = LruAccess(c1, w)
    BY <1>6 DEF AccessUpdate
  <2>3. c1 \in [Ways -> Nat] /\ c1[w] = 1 /\ \A v \in Ways : c1[v] <= k + 1
    BY <1>1, <1>2, <1>3, <2>1
  <2> HIDE DEF c1
  <2>4. /\ c2 \in [Ways -> Nat]
        /\ c2[w] = 0
        /\ \A v \in Ways : v # w => c2[v] # 0
        /\ \A v \in Ways : c2[v] <= k + 2
    BY <1>1, <2>2, <2>3 DEF LruAccess
  <2>5. \E n \in Nat : \A v \in Ways : c2[v] <= n
    BY <2>4
  <2>6. \A u, v \in Ways : tg2[u] # Invalid /\ tg2[v] # Invalid /\ c2[u] = 0 /\ c2[v] = 0
                              => u = v
    BY <2>4
  <2>7. Policy # "FIFO"
    BY <1>6
  <2> HIDE DEF c2, tg2
  <2>8. LineOK(s, tg2, c2)
    BY <1>5, <2>4, <2>5, <2>6, <2>7 DEF LineOK
  <2> QED
    BY <1>1, <2>4, <2>8 DEF w, tg2, c2, c1
<1>7. CASE Policy = "LFU"
  <2> HIDE DEF w
  <2>1. c1 = [c EXCEPT ![w] = 0] /\ c2 = [c1 EXCEPT ![w] = @ + 1]
    BY <1>7 DEF Replaced, AccessUpdate
  <2>2. c2 \in [Ways -> Nat] /\ \A v \in Ways : c2[v] <= k + 1
    BY <1>1, <1>2, <1>3, <2>1
  <2>3. \E n \in Nat : \A v \in Ways : c2[v] <= n
    BY <2>2
  <2> HIDE DEF c2, tg2
  <2>4. LineOK(s, tg2, c2)
    BY <1>5, <1>7, <2>2, <2>3 DEF LineOK
  <2> QED
    BY <1>1, <1>7, <2>4 DEF w, tg2, c2, c1
<1>8. CASE Policy = "FIFO"
  <2> HIDE DEF w
  <2>1. c2 = [c EXCEPT ![w] = 0, ![(w + 1) % Assoc] = 1]
    BY <1>8 DEF Replaced, AccessUpdate
  <2>2. (w + 1) % Assoc \in Ways
    BY <1>1, GeometryAssumption DEF Ways
  <2>3. PointerAt(c, w)
    BY <1>1, <1>8 DEF Candidates, LineOK, PointerAt
  <2>4. PointerAt(c2, (w + 1) % Assoc)
    BY <1>1, <2>1, <2>2, <2>3 DEF PointerAt
  <2>5. c2 \in [Ways -> Nat] /\ \A v \in Ways : c2[v] <= 1
    BY <2>4 DEF PointerAt
  <2> HIDE DEF c2, tg2
  <2>6. LineOK(s, tg2, c2)
    BY <1>5, <1>8, <2>2, <2>4, <2>5 DEF LineOK
  <2> QED
    BY <1>1, <1>8, <2>6 DEF w, tg2, c2, c1
<1> QED
  BY <1>6, <1>7, <1>8, GeometryAssumption

\* Invalidating the blocks of V in one set.
LEMMA InvalidLine ==
    ASSUME NEW s \in Sets, NEW tg, NEW c, LineOK(s, tg, c), Policy # "FIFO", NEW V
    PROVE  LineOK(s, [w \in Ways |-> IF tg[w] \in V THEN Invalid ELSE tg[w]],
                     [w \in Ways |-> IF tg[w] \in V THEN 0 ELSE c[w]])
<1>1. PICK k \in Nat : \A v \in Ways : c[v] <= k
  BY DEF LineOK
<1> DEFINE tg2 == [w \in Ways |-> IF tg[w] \in V THEN Invalid ELSE tg[w]]
           c2 == [w \in Ways |-> IF tg[w] \in V THEN 0 ELSE c[w]]
<1>2. tg2 \in [Ways -> Nat \cup {Invalid}] /\ c2 \in [Ways -> Nat]
  BY DEF LineOK
<1>3. \A v \in Ways : c2[v] <= k
  BY <1>1 DEF LineOK
<1>4. \A w \in Ways : tg2[w] # Invalid =>
          /\ SetOf(tg2[w]) = s
          /\ \A v \in Ways : tg2[v] = tg2[w] => v = w
  BY DEF LineOK
<1>5. Policy = "LRU" =>
          \A v, w \in Ways : tg2[v] # Invalid /\ tg2[w] # Invalid /\ c2[v] = 0 /\ c2[w] = 0
                                => v = w
  BY DEF LineOK
<1> HIDE DEF tg2, c2
<1>6. LineOK(s, tg2, c2)
  BY <1>2, <1>3, <1>4, <1>5 DEF LineOK
<1> QED
  BY <1>6 DEF tg2, c2

\* A block has a set, and the next block has another one.
LEMMA SetOfType ==
    ASSUME NEW t \in Nat
    PROVE  SetOf(t) \in Sets
BY GeometryAssumption DEF SetOf, Sets

\* With two sets, the prefetched block is in another set.
LEMMA NextBlockElsewhere ==
    ASSUME NEW t \in Nat, NumSets >= 2
    PROVE  SetOf(t + 1) # SetOf(t)
<1>0. NumSets \in Nat /\ NumSets > 0
  BY GeometryAssumption
<1>1. SUFFICES ASSUME SetOf(t + 1) = SetOf(t) PROVE FALSE
  OBVIOUS
<1> DEFINE p == t \div NumSets
           q == (t + 1) \div NumSets
<1>2. p \in Int /\ q \in Int
  BY <1>0
<1>3. t = NumSets * p + SetOf(t) /\ t + 1 = NumSets * q + SetOf(t + 1)
  BY <1>0 DEF SetOf
<1>4. SetOf(t) \in Nat
  BY <1>0 DEF SetOf
<1> HIDE DEF p, q
<1>5. NumSets * q = NumSets * p + 1
  BY <1>0, <1>1, <1>2, <1>3, <1>4
<1>6. CASE q <= p
  <2>1. NumSets * q <= NumSets * p
    BY <1>0, <1>2, <1>6
  <2> QED
    BY <1>0, <1>2, <1>5, <2>1
<1>7. CASE q > p
  <2>1. NumSets * q >= NumSets * (p + 1)
    BY <1>0, <1>2, <1>7
  <2>2. NumSets * (p + 1) = NumSets * p + NumSets
    BY <1>0, <1>2
  <2> QED
    BY <1>0, <1>2, <1>5, <2>1, <2>2
<1> QED
  BY <1>2, <1>6, <1>7

\* Search, replacement and access_update keep every set in order, put t in the
\* way they use and, under LRU, make it the block with counter 0.
LEMMA AccessOK ==
    ASSUME NEW d, DevOK(d), NEW t \in Nat
    PROVE  LET a == Access(d, t)
               w == WayOf(d, t)
           IN /\ w \in Ways
              /\ DevOK(a)
              /\ a.tag[SetOf(t)][w] = t
              /\ Policy = "LRU" => a.ctr[SetOf(t)][w] = 0
              /\ a.last_tag = d.last_tag
              /\ a.last_way = d.last_way
              /\ a.asserts = d.asserts
              /\ \A s \in Sets : s # SetOf(t) => a.tag[s] = d.tag[s] /\ a.ctr[s] = d.ctr[s]
<1> DEFINE s == SetOf(t)
           w == WayOf(d, t)
           a == Access(d, t)
           tg == d.tag[s]
           c == d.ctr[s]
<1>1. s \in Sets
  BY SetOfType
<1>2. d \in Device /\ LineOK(s, tg, c)
  BY <1>1 DEF DevOK
<1>3. CASE Hit(d, t)
  <2>1. w \in Ways /\ tg[w] = t
    <3>1. HitWays(d, t) \in SUBSET Ways /\ HitWays(d, t) # {}
      BY <1>3 DEF HitWays, Hit
    <3>2. Min(HitWays(d, t)) \in HitWays(d, t)
      BY <3>1, MinInSet
    <3> QED
      BY <1>3, <3>2 DEF WayOf, HitWays
  <2>2. t # Invalid
    BY DEF Invalid
  <2>3. /\ LineOK(s, tg, AccessUpdate(c, w))
        /\ Policy = "LRU" => AccessUpdate(c, w)[w] = 0
    BY <1>1, <1>2, <2>1, <2>2, HitLine
  <2>4. a = [d EXCEPT !.ctr[s] = AccessUpdate(@, w)]
    BY <1>3 DEF Access
  <2> DEFINE c2 == AccessUpdate(c, w)
  <2> DEFINE ctr2 == [d.ctr EXCEPT ![s] = c2]
  <2>8. c2 \in [Ways -> Nat] /\ a = [d EXCEPT !.ctr = ctr2]
    BY <1>1, <1>2, <2>3, <2>4 DEF Device, LineOK
  <2> HIDE DEF w, s, c2
  <2>9. ctr2 \in [Sets -> [Ways -> Nat]]
    BY <1>1, <1>2, <2>8 DEF Device
  <2> HIDE DEF a, ctr2
  <2>10. a = [tag |-> d.tag, ctr |-> ctr2, last_tag |-> d.last_tag,
              last_way |-> d.last_way, loaded |-> d.loaded, asserts |-> d.asserts]
    BY <1>2, <2>8 DEF Device
  <2>5. /\ a \in Device
        /\ a.tag = d.tag
        /\ a.ctr = [d.ctr EXCEPT ![s] = c2]
        /\ a.last_tag = d.last_tag /\ a.last_way = d.last_way /\ a.asserts = d.asserts
    <3>1. a \in Device
      BY <1>2, <2>9, <2>10 DEF Device
    <3> QED
      BY <3>1, <2>10 DEF ctr2
  <2>6. a.ctr[s] = AccessUpdate(c, w) /\ \A r \in Sets : r # s => a.ctr[r] = d.ctr[r]
    BY <1>1, <1>2, <2>5 DEF Device, c2
  <2>7. DevOK(a)
    BY <1>2, <2>3, <2>5, <2>6 DEF DevOK
  <2> QED
    BY <2>1, <2>3, <2>5, <2>6, <2>7 DEF a, w, s
<1>4. CASE ~Hit(d, t)
  <2>1. w = Victim(tg, c) /\ \A v \in Ways : tg[v] # t
    BY <1>4 DEF WayOf, Hit, HitWays
  <2> DEFINE c2 == AccessUpdate(Replaced(c, w), w)
             tg2 == [tg EXCEPT ![w] = t]
  <2>2. /\ w \in Ways
        /\ LineOK(s, tg2, c2)
        /\ Policy = "LRU" => c2[w] = 0
    BY <1>1, <1>2, <2>1, FillLine, SMTT(30)
  <2>3. a = [d EXCEPT !.tag[s][w] = t,
                      !.ctr[s] = AccessUpdate(Replaced(@, w), w),
                      !.loaded = IF d.tag[s][w] = Invalid THEN @ + 1 ELSE @]
    BY <1>4 DEF Access
  <2> HIDE DEF w, s
  <2>4. tg2[w] = t /\ tg2 \in [Ways -> Nat \cup {Invalid}] /\ c2 \in [Ways -> Nat]
    BY <1>1, <1>2, <2>2 DEF LineOK
  <2>5. /\ a.tag = [d.tag EXCEPT ![s] = tg2]
        /\ a.ctr = [d.ctr EXCEPT ![s] = c2]
        /\ a.last_tag = d.last_tag /\ a.last_way = d.last_way /\ a.asserts = d.asserts
    BY <1>1, <1>2, <2>3 DEF Device
  <2>9. a = [tag |-> [d.tag EXCEPT ![s] = tg2], ctr |-> [d.ctr EXCEPT ![s] = c2],
             last_tag |-> d.last_tag, last_way |-> d.last_way,
             loaded |-> IF d.tag[s][w] = Invalid THEN d.loaded + 1 ELSE d.loaded,
             asserts |-> d.asserts]
    BY <1>1, <1>2, <2>3, Zenon DEF Device
  <2>6. a \in Device
    BY <1>1, <1>2, <2>4, <2>9 DEF Device
  <2> HIDE DEF a, tg2, c2
  <2>7. /\ a.tag[s] = tg2
        /\ a.ctr[s] = c2
        /\ \A r \in Sets : r # s => a.tag[r] = d.tag[r] /\ a.ctr[r] = d.ctr[r]
    BY <1>1, <1>2, <2>5 DEF Device
  <2>8. DevOK(a)
    BY <1>2, <2>2, <2>6, <2>7 DEF DevOK
  <2> QED
    BY <2>2, <2>4, <2>5, <2>7, <2>8 DEF a, w, s
<1> QED
  BY <1>3, <1>4

\* A reference to n leaves a block alone that is in another set, or that the
\* LRU policy spares.
LEMMA AccessKeeps ==
    ASSUME NEW d, DevOK(d), NEW n \in Nat, NEW s \in Sets, NEW w \in Ways,
           d.tag[s][w] # Invalid,
           s # SetOf(n) \/ (Policy = "LRU" /\ Spared(d, s, w))
    PROVE  Access(d, n).tag[s][w] = d.tag[s][w]
<1>1. CASE s # SetOf(n)
  BY <1>1, AccessOK
<1>2. CASE s = SetOf(n) /\ Hit(d, n)
  BY <1>2 DEF Access, DevOK, Device
<1>3. CASE s = SetOf(n) /\ ~Hit(d, n) /\ Policy = "LRU" /\ Spared(d, s, w)
  <2> DEFINE x == WayOf(d, n)
  <2>1. LineOK(s, d.tag[s], d.ctr[s]) /\ d \in Device
    BY DEF DevOK
  <2>2. x = Victim(d.tag[s], d.ctr[s])
    BY <1>3 DEF WayOf
  <2>3. x \in Ways /\ x \in Candidates(d.tag[s], d.ctr[s])
    BY <2>1, <2>2, VictimInCandidates
  <2>4. x # w
    <3>1. CASE \E v \in Ways : d.tag[s][v] = Invalid
      BY <1>3, <2>3, <3>1 DEF Candidates
    <3>2. CASE \A v \in Ways : d.tag[s][v] # Invalid
      <4>1. \A v \in Ways : d.ctr[s][v] <= d.ctr[s][x]
        BY <1>3, <2>3, <3>2 DEF Candidates
      <4>2. PICK v \in Ways : d.ctr[s][v] > d.ctr[s][w]
        BY <1>3, <3>2 DEF Spared
      <4>3. d.ctr[s] \in [Ways -> Nat]
        BY <2>1 DEF LineOK
      <4> QED
        BY <4>1, <4>2, <4>3
    <3> QED
      BY <3>1, <3>2
  <2> HIDE DEF x
  <2>5. Access(d, n).tag = [d.tag EXCEPT ![s] = [d.tag[s] EXCEPT ![x] = n]]
    BY <1>3, <2>1 DEF Access, Device, x
  <2> QED
    BY <2>1, <2>3, <2>4, <2>5 DEF Device
<1> QED
  BY <1>1, <1>2, <1>3

\* What a parent's invalidations do: blocks outside V stay as they are.
LEMMA InvalidatedOK ==
    ASSUME NEW d, DevOK(d), NEW V, Policy # "FIFO" \/ V = {}
    PROVE  LET a == Invalidated(d, V)
           IN /\ DevOK(a)
              /\ LastSafe(d) => LastSafe(a)
              /\ a.asserts = d.asserts
              /\ a.last_tag = IF d.last_tag \in V THEN Invalid ELSE d.last_tag
              /\ a.last_way = d.last_way
              /\ \A s \in Sets, w \in Ways :
                    d.tag[s][w] \notin V => a.tag[s][w] = d.tag[s][w] /\ a.ctr[s][w] = d.ctr[s][w]
              /\ \A s \in Sets, w \in Ways : d.tag[s][w] \in V => a.tag[s][w] = Invalid
<1> DEFINE a == Invalidated(d, V)
           tg2(s) == [w \in Ways |-> IF d.tag[s][w] \in V THEN Invalid ELSE d.tag[s][w]]
           c2(s) == [w \in Ways |-> IF d.tag[s][w] \in V THEN 0 ELSE d.ctr[s][w]]
<1>1. d \in Device
  BY DEF DevOK
<1>2. a = [tag |-> [s \in Sets |-> tg2(s)], ctr |-> [s \in Sets |-> c2(s)],
           last_tag |-> IF d.last_tag \in V THEN Invalid ELSE d.last_tag,
           last_way |-> d.last_way, loaded |-> d.loaded, asserts |-> d.asserts]
  <2> DEFINE T == [s \in Sets |-> tg2(s)]
             C == [s \in Sets |-> c2(s)]
             L == IF d.last_tag \in V THEN Invalid ELSE d.last_tag
  <2>1. a = [d EXCEPT !.tag = T, !.ctr = C, !.last_tag = L]
    BY Zenon DEF Invalidated
  <2> HIDE DEF T, C, L, a
  <2>2. a = [tag |-> T, ctr |-> C, last_tag |-> L, last_way |-> d.last_way,
             loaded |-> d.loaded, asserts |-> d.asserts]
    BY <1>1, <2>1, Zenon DEF Device
  <2> QED
    BY <2>2 DEF T, C, L
<1>3. ASSUME NEW s \in Sets PROVE LineOK(s, tg2(s), c2(s))
  <2>1. LineOK(s, d.tag[s], d.ctr[s])
    BY DEF DevOK
  <2>2. CASE Policy # "FIFO"
    BY <2>1, <2>2, InvalidLine
  <2>3. CASE V = {}
    <3>1. tg2(s) = d.tag[s] /\ c2(s) = d.ctr[s]
      BY <2>1, <2>3 DEF LineOK
    <3> QED
      BY <2>1, <3>1
  <2> QED
    BY <2>2, <2>3
<1>4. \A s \in Sets : tg2(s) \in [Ways -> Nat \cup {Invalid}] /\ c2(s) \in [Ways -> Nat]
  BY <1>1 DEF Device
<1>5. \A s \in Sets, w \in Ways :
         /\ d.tag[s][w] \notin V => tg2(s)[w] = d.tag[s][w] /\ c2(s)[w] = d.ctr[s][w]
         /\ d.tag[s][w] \in V => tg2(s)[w] = Invalid
  OBVIOUS
<1> HIDE DEF tg2, c2, a
<1>6. a \in Device
  BY <1>1, <1>2, <1>4 DEF Device
<1>7. \A s \in Sets : a.tag[s] = tg2(s) /\ a.ctr[s] = c2(s)
  BY <1>2
<1>8. DevOK(a)
  BY <1>3, <1>6, <1>7 DEF DevOK
<1>9. /\ a.asserts = d.asserts
      /\ a.last_tag = IF d.last_tag \in V THEN Invalid ELSE d.last_tag
      /\ a.last_way = d.last_way
      /\ \A s \in Sets, w \in Ways :
            /\ d.tag[s][w] \notin V => a.tag[s][w] = d.tag[s][w] /\ a.ctr[s][w] = d.ctr[s][w]
            /\ d.tag[s][w] \in V => a.tag[s][w] = Invalid
  BY <1>2, <1>5, <1>7
<1>10. ASSUME LastSafe(d) PROVE LastSafe(a)
  <2>1. SUFFICES ASSUME a.last_tag # Invalid PROVE LastSafe(a)
    BY DEF LastSafe
  <2>2. d.last_tag \in Nat /\ d.last_tag \notin V /\ a.last_tag = d.last_tag /\ d.last_way \in Ways
    BY <1>1, <1>9, <2>1 DEF Device
  <2> DEFINE s == SetOf(d.last_tag)
             w == d.last_way
  <2>3. s \in Sets
    BY <2>2, SetOfType
  <2>4. /\ d.tag[s][w] = d.last_tag
        /\ Policy = "LRU" /\ Assoc >= 3 => Spared(d, s, w)
    BY <1>10, <2>1, <2>2 DEF LastSafe
  <2> HIDE DEF s, w
  <2>5. a.tag[s][w] = d.last_tag /\ a.ctr[s][w] = d.ctr[s][w]
    BY <1>9, <2>2, <2>3, <2>4 DEF w
  <2>6. Spared(d, s, w) => Spared(a, s, w)
    BY <1>9, <2>3, <2>5 DEF Spared
  <2> QED
    BY <1>9, <2>2, <2>4, <2>5, <2>6 DEF LastSafe, s, w
<1> QED
  BY <1>8, <1>9, <1>10 DEF a

\* The block with counter 0 is spared.
LEMMA NewestSpared ==
    ASSUME NEW d, DevOK(d), NEW s \in Sets, NEW w \in Ways,
           Policy = "LRU", Assoc >= 2, d.tag[s][w] # Invalid, d.ctr[s][w] = 0
    PROVE  Spared(d, s, w)
<1>1. PICK v \in Ways : v # w
  <2>1. 0 \in Ways /\ 1 \in Ways
    BY GeometryAssumption DEF Ways
  <2> QED
    BY <2>1
<1>2. LineOK(s, d.tag[s], d.ctr[s])
  BY DEF DevOK
<1> QED
  BY <1>1, <1>2 DEF Spared, LineOK

\* After another reference to its set the newest block of before is still
\* spared, when the set has three ways: c holds the counters as the search or
\* the replacement leaves them, x is the way the other reference uses.
LEMMA SecondNewest ==
    ASSUME NEW s \in Sets, NEW tg, NEW c0, LineOK(s, tg, c0),
           Policy = "LRU", Assoc >= 3,
           NEW w \in Ways, NEW x \in Ways, x # w,
           tg[w] # Invalid, c0[w] = 0,
           NEW c, \/ c = c0 /\ tg[x] # Invalid
                  \/ c = Replaced(c0, x)
    PROVE  \E v \in Ways : /\ v # w /\ v # x
                           /\ \/ tg[v] = Invalid
                              \/ AccessUpdate(c, x)[v] > AccessUpdate(c, x)[w]
<1>1. PICK v \in Ways : v # w /\ v # x
  <2>1. 0 \in Ways /\ 1 \in Ways /\ 2 \in Ways
    BY GeometryAssumption DEF Ways
  <2> QED
    BY <2>1
<1>2. SUFFICES ASSUME tg[v] # Invalid
               PROVE  AccessUpdate(c, x)[v] > AccessUpdate(c, x)[w]
  BY <1>1
<1>3. c0 \in [Ways -> Nat] /\ c0[v] # 0 /\ (tg[x] # Invalid => c0[x] # 0)
  BY <1>1, <1>2 DEF LineOK
<1>4. c \in [Ways -> Nat] /\ c[w] = 0 /\ c[v] = c0[v] /\ c[x] > 0
  <2>1. CASE c = c0 /\ tg[x] # Invalid
    BY <1>3, <2>1
  <2>2. CASE c = Replaced(c0, x)
    <3>1. c = [c0 EXCEPT ![x] = 1]
      BY <2>2 DEF Replaced
    <3> QED
      BY <1>1, <1>3, <3>1
  <2> QED
    BY <2>1, <2>2
<1>5. AccessUpdate(c, x) =
         [u \in Ways |-> IF u = x THEN 0 ELSE IF c[u] <= c[x] THEN c[u] + 1 ELSE c[u]]
  BY <1>4 DEF AccessUpdate, LruAccess
<1>6. AccessUpdate(c, x)[w] = 1
  BY <1>4, <1>5
<1>7. AccessUpdate(c, x)[v] > 1
  BY <1>1, <1>3, <1>4, <1>5
<1> QED
  BY <1>6, <1>7

\* What the fast path does.
LEMMA TouchLastOK ==
    ASSUME NEW d, DevOK(d), d.last_tag # Invalid,
           d.tag[SetOf(d.last_tag)][d.last_way] = d.last_tag
    PROVE  LET a == TouchLast(d)
               s == SetOf(d.last_tag)
           IN /\ DevOK(a)
              /\ LastSafe(a)
              /\ a.asserts = d.asserts
              /\ a.tag = d.tag
              /\ a.last_tag = d.last_tag /\ a.last_way = d.last_way
              /\ a.ctr[s] = AccessUpdate(d.ctr[s], d.last_way)
              /\ \A r \in Sets : r # s => a.ctr[r] = d.ctr[r]
<1> DEFINE a == TouchLast(d)
           s == SetOf(d.last_tag)
           w == d.last_way
           c == d.ctr[s]
           c2 == AccessUpdate(c, w)
<1>1. d \in Device /\ d.last_tag \in Nat /\ w \in Ways
  BY DEF DevOK, Device
<1>2. s \in Sets
  BY <1>1, SetOfType
<1>3. LineOK(s, d.tag[s], c) /\ d.tag[s][w] = d.last_tag
  BY <1>2 DEF DevOK
<1>4. LineOK(s, d.tag[s], c2) /\ (Policy = "LRU" => c2[w] = 0)
  BY <1>1, <1>2, <1>3, HitLine
<1>5. c2 \in [Ways -> Nat]
  BY <1>4 DEF LineOK
<1>6. a = [d EXCEPT !.ctr[s] = AccessUpdate(@, w),
                    !.asserts = IF d.tag[s][w] = d.last_tag THEN @ ELSE "failed"]
  BY DEF TouchLast
<1> HIDE DEF s, w
<1>7. a = [tag |-> d.tag, ctr |-> [d.ctr EXCEPT ![s] = c2], last_tag |-> d.last_tag,
           last_way |-> d.last_way, loaded |-> d.loaded, asserts |-> d.asserts]
  BY <1>1, <1>2, <1>3, <1>6, Zenon DEF Device
<1> HIDE DEF c2, a
<1>8. a \in Device
  BY <1>1, <1>2, <1>5, <1>7 DEF Device
<1>9. /\ a.tag = d.tag /\ a.asserts = d.asserts
      /\ a.last_tag = d.last_tag /\ a.last_way = d.last_way
      /\ a.ctr[s] = c2
      /\ \A r \in Sets : r # s => a.ctr[r] = d.ctr[r]
  BY <1>1, <1>2, <1>7 DEF Device
<1>10. DevOK(a)
  BY <1>4, <1>8, <1>9 DEF DevOK
<1>11. LastSafe(a)
  <2>1. Policy = "LRU" /\ Assoc >= 3 => Spared(a, s, w)
    <3>1. SUFFICES ASSUME Policy = "LRU", Assoc >= 3 PROVE Spared(a, s, w)
      OBVIOUS
    <3>2. a.tag[s][w] # Invalid /\ a.ctr[s][w] = 0
      BY <1>3, <1>4, <1>9, <3>1
    <3>3. Assoc >= 2 /\ w \in Ways
      BY GeometryAssumption, <1>1, <3>1 DEF w
    <3> QED
      BY <1>2, <1>10, <3>1, <3>2, <3>3, NewestSpared
  <2> QED
    BY <1>3, <1>9, <2>1 DEF LastSafe, s, w
<1> QED
  BY <1>9, <1>10, <1>11 DEF a, s, w, c2, c

\* One block of a reference, whatever an inclusive parent invalidates
\* meanwhile.  Prefetching asks for a second set, or for three LRU ways: with
\* less the prefetched block may push out the one that is about to be
\* remembered.
PrefetchSafe == NumSets >= 2 \/ (Policy = "LRU" /\ Assoc >= 3)

\* After a reference to t its block is at (SetOf(t), w), and spared.
Served(d, t, w) ==
    /\ DevOK(d)
    /\ d.asserts = "hold"
    /\ d.tag[SetOf(t)][w] = t
    /\ Policy = "LRU" /\ Assoc >= 3 => Spared(d, SetOf(t), w)

\* A later reference to another block n of the same set, three LRU ways.
LEMMA SecondAccess ==
    ASSUME NEW d, DevOK(d), NEW t \in Nat, NEW n \in Nat, n # t, SetOf(n) = SetOf(t),
           NEW w \in Ways, d.tag[SetOf(t)][w] = t, d.ctr[SetOf(t)][w] = 0,
           Policy = "LRU", Assoc >= 3
    PROVE  Spared(Access(d, n), SetOf(t), w)
<1> DEFINE s == SetOf(t)
           x == WayOf(d, n)
           a == Access(d, n)
<1>1. s \in Sets
  BY SetOfType
<1>2. d \in Device /\ LineOK(s, d.tag[s], d.ctr[s])
  BY <1>1 DEF DevOK
<1>3. x \in Ways /\ a.tag[s][x] = n
  BY AccessOK
<1>4. Spared(d, s, w) /\ t # Invalid
  <2>1. t # Invalid /\ Assoc >= 2
    BY GeometryAssumption DEF Invalid
  <2> QED
    BY <1>1, <2>1, NewestSpared
<1>5. a.tag[s][w] = t
  BY <1>1, <1>4, AccessKeeps
<1>6. x # w
  BY <1>3, <1>5
<1>7. CASE Hit(d, n)
  <2>1. a = [d EXCEPT !.ctr[s] = AccessUpdate(@, x)]
    BY <1>7 DEF Access
  <2> HIDE DEF x, s
  <2>2. a.tag = d.tag /\ a.ctr[s] = AccessUpdate(d.ctr[s], x)
    BY <1>1, <1>2, <2>1 DEF Device
  <2>3. d.tag[s][x] # Invalid
    BY <1>3, <2>2 DEF Invalid
  <2>4. PICK v \in Ways : /\ v # w /\ v # x
                          /\ \/ d.tag[s][v] = Invalid
                             \/ AccessUpdate(d.ctr[s], x)[v] > AccessUpdate(d.ctr[s], x)[w]
    BY <1>1, <1>2, <1>3, <1>4, <1>6, <2>3, SecondNewest, SMTT(30) DEF s
  <2> QED
    BY <2>2, <2>4 DEF Spared, s
<1>8. CASE ~Hit(d, n)
  <2> DEFINE c == Replaced(d.ctr[s], x)
  <2>1. a = [d EXCEPT !.tag[s][x] = n,
                      !.ctr[s] = AccessUpdate(Replaced(@, x), x),
                      !.loaded = IF d.tag[s][x] = Invalid THEN @ + 1 ELSE @]
    BY <1>8 DEF Access
  <2>0. PICK v \in Ways : /\ v # w /\ v # x
                          /\ \/ d.tag[s][v] = Invalid
                             \/ AccessUpdate(c, x)[v] > AccessUpdate(c, x)[w]
    <3>1. d.tag[s][w] # Invalid /\ d.ctr[s][w] = 0
      BY <1>4
    <3> HIDE DEF x, s
    <3> QED
      BY <1>1, <1>2, <1>3, <1>6, <3>1, SecondNewest, SMTT(30)
  <2> HIDE DEF x, s
  <2>2. /\ a.tag = [d.tag EXCEPT ![s] = [d.tag[s] EXCEPT ![x] = n]]
        /\ a.ctr = [d.ctr EXCEPT ![s] = AccessUpdate(c, x)]
    BY <1>1, <1>2, <2>1 DEF Device
  <2>3. a.tag[s][v] = d.tag[s][v] /\ a.ctr[s] = AccessUpdate(c, x)
    BY <1>1, <1>2, <1>3, <2>0, <2>2, SMTT(30) DEF Device
  <2> QED
    BY <2>0, <2>3 DEF Spared, s
<1> QED
  BY <1>7, <1>8

\* The nested request of the prefetcher leaves t where it is.
LEMMA PrefetchOK ==
    ASSUME NEW d, DevOK(d), d.asserts = "hold", NEW t \in Nat, NEW w \in Ways,
           d.tag[SetOf(t)][w] = t, Policy = "LRU" => d.ctr[SetOf(t)][w] = 0,
           d.last_tag = t + 1 => d.tag[SetOf(t + 1)][d.last_way] = t + 1,
           NEW V, t \notin V, Policy # "FIFO" \/ V = {}, PrefetchSafe
    PROVE  Served(PrefetchNext(d, t, V), t, w)
<1> DEFINE n == t + 1
           s == SetOf(t)
           e == AfterParent(d, n, V)
           p == PrefetchNext(d, t, V)
<1>1. n \in Nat /\ n # t /\ n # Invalid /\ t # Invalid /\ s \in Sets
  BY SetOfType DEF Invalid
<1>2. NumSets >= 2 => SetOf(n) # s
  BY NextBlockElsewhere
<1>3. SetOf(n) # s \/ (Policy = "LRU" /\ Assoc >= 3)
  BY <1>2 DEF PrefetchSafe
<1>4. d \in Device /\ LineOK(s, d.tag[s], d.ctr[s])
  BY <1>1 DEF DevOK
<1>5. CASE n = d.last_tag
  <2>1. p = TouchLast(d)
    BY <1>5 DEF PrefetchNext
  <2>2. /\ DevOK(p) /\ p.asserts = "hold" /\ p.tag = d.tag
        /\ p.ctr[SetOf(n)] = AccessUpdate(d.ctr[SetOf(n)], d.last_way)
        /\ \A r \in Sets : r # SetOf(n) => p.ctr[r] = d.ctr[r]
    BY <1>1, <1>5, <2>1, TouchLastOK, SMTT(30)
  <2> HIDE DEF p
  <2>3. ASSUME Policy = "LRU", Assoc >= 3 PROVE Spared(p, s, w)
    <3>1. CASE SetOf(n) # s
      <4>1. p.tag[s][w] # Invalid /\ p.ctr[s][w] = 0
        BY <1>1, <2>2, <2>3, <3>1
      <4>2. Assoc >= 2
        BY <2>3, GeometryAssumption
      <4> QED
        BY <1>1, <2>2, <2>3, <4>1, <4>2, NewestSpared
    <3>2. CASE SetOf(n) = s
      <4> DEFINE x == d.last_way
      <4>1. x \in Ways /\ d.tag[s][x] = n
        BY <1>4, <1>5, <3>2 DEF Device
      <4> HIDE DEF x
      <4>2. x # w /\ d.tag[s][x] # Invalid /\ d.tag[s][w] # Invalid /\ d.ctr[s][w] = 0
        BY <1>1, <2>3, <4>1
      <4>3. PICK v \in Ways : /\ v # w /\ v # x
                              /\ \/ d.tag[s][v] = Invalid
                                 \/ AccessUpdate(d.ctr[s], x)[v] > AccessUpdate(d.ctr[s], x)[w]
        <5> HIDE DEF s
        <5> QED
          BY <1>1, <1>4, <2>3, <4>1, <4>2, SecondNewest, SMTT(30)
      <4> QED
        BY <2>2, <3>2, <4>3 DEF Spared, x
    <3> QED
      BY <3>1, <3>2
  <2> QED
    BY <2>2, <2>3 DEF Served, p
<1>6. CASE n # d.last_tag
  <2>1. p = Remember(Access(e, n), n, WayOf(e, n))
    BY <1>6 DEF PrefetchNext
  <2>2. /\ DevOK(e) /\ e.asserts = "hold"
        /\ e.tag[s][w] = t
        /\ Policy = "LRU" => e.ctr[s][w] = 0
    <3>1. CASE Hit(d, n)
      BY <3>1 DEF AfterParent
    <3>2. CASE ~Hit(d, n)
      <4> DEFINE i == Invalidated(d, V)
      <4>1. /\ DevOK(i) /\ i.asserts = d.asserts
            /\ \A r \in Sets, v \in Ways :
                 d.tag[r][v] \notin V => i.tag[r][v] = d.tag[r][v] /\ i.ctr[r][v] = d.ctr[r][v]
        <5> HIDE DEF n, s, e, p
        <5> QED
          BY InvalidatedOK
      <4>2. e = i
        BY <3>2 DEF AfterParent
      <4> HIDE DEF i, e, s
      <4> QED
        BY <1>1, <4>1, <4>2 DEF s
    <3> QED
      BY <3>1, <3>2
  <2> DEFINE a == Access(e, n)
             x == WayOf(e, n)
  <2> HIDE DEF e
  <2>3. Policy = "LRU" /\ Assoc >= 3 => Spared(e, s, w)
    <3>1. SUFFICES ASSUME Policy = "LRU", Assoc >= 3 PROVE Spared(e, s, w)
      OBVIOUS
    <3>2. Assoc >= 2
      BY <3>1, GeometryAssumption
    <3> QED
      BY <1>1, <2>2, <3>1, <3>2, NewestSpared
  <2>4. /\ x \in Ways /\ DevOK(a) /\ a.asserts = "hold"
        /\ \A r \in Sets : r # SetOf(n) => a.tag[r] = e.tag[r] /\ a.ctr[r] = e.ctr[r]
    BY <1>1, <2>2, AccessOK
  <2>5. a.tag[s][w] = t
    <3>1. e.tag[s][w] # Invalid
      BY <1>1, <2>2
    <3> QED
      BY <1>1, <1>3, <2>2, <2>3, <3>1, AccessKeeps, SMTT(30)
  <2>6. ASSUME Policy = "LRU", Assoc >= 3 PROVE Spared(a, s, w)
    <3>1. CASE SetOf(n) # s
      BY <1>1, <2>3, <2>4, <2>6, <3>1 DEF Spared
    <3>2. CASE SetOf(n) = s
      BY <1>1, <2>2, <2>6, <3>2, SecondAccess
    <3> QED
      BY <3>1, <3>2
  <2>7. p = [a EXCEPT !.last_tag = n, !.last_way = x]
    BY <2>1 DEF Remember
  <2> HIDE DEF a, x, p, n
  <2>8. a \in Device
    BY <2>4 DEF DevOK
  <2>9. /\ p \in Device /\ p.tag = a.tag /\ p.ctr = a.ctr /\ p.asserts = a.asserts
    BY <1>1, <2>4, <2>7, <2>8, Zenon DEF Device
  <2>10. DevOK(p)
    BY <2>4, <2>9 DEF DevOK
  <2> QED
    BY <2>4, <2>5, <2>6, <2>9, <2>10 DEF Served, Spared, p
<1> QED
  BY <1>5, <1>6

\* The inductive invariant.
Good(d) == DevOK(d) /\ LastSafe(d) /\ d.asserts = "hold"
IInv == Good(dev)

\* The configurations the theorems are about: FIFO is neither flushed nor below
\* an inclusive parent, and a prefetcher has room for the block it fetches.
Configured ==
    /\ Policy # "FIFO" \/ (~Inclusive /\ ~Flushes)
    /\ Prefetcher => PrefetchSafe

\* A device that has served a block is good.
LEMMA ServedIsGood ==
    ASSUME NEW d, NEW t \in Nat, NEW w \in Ways, Served(d, t, w)
    PROVE  Good(Remember(d, t, w))
<1> DEFINE r == Remember(d, t, w)
<1>1. d \in Device
  BY DEF Served, DevOK
<1>2. r = [d EXCEPT !.last_tag = t, !.last_way = w]
  BY DEF Remember
<1> HIDE DEF r
<1>3. /\ r \in Device /\ r.tag = d.tag /\ r.ctr = d.ctr /\ r.asserts = d.asserts
      /\ r.last_tag = t /\ r.last_way = w
  BY <1>1, <1>2, Zenon DEF Device
<1>4. DevOK(r) /\ r.asserts = "hold"
  BY <1>3 DEF DevOK, Served
<1>5. LastSafe(r)
  BY <1>3 DEF LastSafe, Served, Spared
<1> QED
  BY <1>4, <1>5 DEF Good, r

\* One block of a request, with its prefetch.
LEMMA RequestBlockOK ==
    ASSUME NEW d, Good(d), NEW t \in Nat, NEW demand \in BOOLEAN,
           NEW U, t \notin U, NEW V, t \notin V,
           Policy # "FIFO" \/ (U = {} /\ V = {}), Prefetcher => PrefetchSafe
    PROVE  Good(RequestBlock(d, t, demand, U, V))
<1> DEFINE e == AfterParent(d, t, U)
           a == Access(e, t)
           w == WayOf(e, t)
           s == SetOf(t)
<1> HIDE DEF e, a, w, s
<1>0. /\ DevOK(d) /\ LastSafe(d) /\ d.asserts = "hold"
      /\ Policy # "FIFO" \/ U = {}
      /\ Policy # "FIFO" \/ V = {}
  BY DEF Good
<1>1. DevOK(e) /\ LastSafe(e) /\ e.asserts = "hold"
  <2>1. CASE Hit(d, t)
    BY <1>0, <2>1 DEF AfterParent, e
  <2>2. CASE ~Hit(d, t)
    <3>1. e = Invalidated(d, U)
      BY <2>2 DEF AfterParent, e
    <3>2. /\ DevOK(Invalidated(d, U)) /\ LastSafe(Invalidated(d, U))
          /\ Invalidated(d, U).asserts = d.asserts
      BY <1>0, InvalidatedOK, ZenonT(60)
    <3> QED
      BY <1>0, <3>1, <3>2
  <2> QED
    BY <2>1, <2>2
<1>2. s \in Sets /\ t # Invalid
  BY SetOfType DEF Invalid, s
<1>3. /\ w \in Ways /\ DevOK(a) /\ a.asserts = "hold"
      /\ a.tag[s][w] = t
      /\ Policy = "LRU" => a.ctr[s][w] = 0
      /\ a.last_tag = e.last_tag /\ a.last_way = e.last_way
  BY <1>1, AccessOK, ZenonT(60) DEF a, w, s
<1>4. Served(a, t, w)
  <2>1. ASSUME Policy = "LRU", Assoc >= 3 PROVE Spared(a, s, w)
    <3>1. a.tag[s][w] # Invalid /\ a.ctr[s][w] = 0 /\ Assoc >= 2
      BY <1>2, <1>3, <2>1, GeometryAssumption
    <3> QED
      BY <1>2, <1>3, <2>1, <3>1, NewestSpared
  <2> QED
    BY <1>3, <2>1 DEF Served, s
<1>5. ASSUME PrefetchSafe PROVE Served(PrefetchNext(a, t, V), t, w)
  <2>1. ASSUME a.last_tag = t + 1 PROVE a.tag[SetOf(t + 1)][a.last_way] = t + 1
    <3> DEFINE r == SetOf(t + 1)
               x == e.last_way
    <3>0. e \in Device
      BY <1>1 DEF DevOK
    <3>1. /\ t + 1 \in Nat /\ t + 1 # Invalid /\ r \in Sets /\ x \in Ways
          /\ e.last_tag = t + 1
      BY <1>3, <2>1, <3>0, SetOfType DEF Device, Invalid
    <3>2. e.tag[r][x] = t + 1 /\ (Policy = "LRU" /\ Assoc >= 3 => Spared(e, r, x))
      BY <1>1, <3>1 DEF LastSafe
    <3>3. r # s \/ (Policy = "LRU" /\ Assoc >= 3)
      BY <1>5, NextBlockElsewhere DEF PrefetchSafe, s
    <3> HIDE DEF r, x
    <3>4. a.tag[r][x] = e.tag[r][x]
      <4>1. e.tag[r][x] # Invalid /\ (r # s \/ (Policy = "LRU" /\ Spared(e, r, x)))
        BY <3>1, <3>2, <3>3
      <4> QED
        BY <1>1, <3>1, <4>1, AccessKeeps, ZenonT(60) DEF a, s
    <3> QED
      BY <1>3, <3>2, <3>4 DEF r, x
  <2> QED
    BY <1>0, <1>3, <1>5, <2>1, PrefetchOK DEF s
<1>6. RequestBlock(d, t, demand, U, V) =
        Remember(IF ~Hit(d, t) /\ demand /\ Prefetcher THEN PrefetchNext(a, t, V) ELSE a, t, w)
  BY DEF RequestBlock, e, a, w
<1>7. CASE ~Hit(d, t) /\ demand /\ Prefetcher
  BY <1>3, <1>5, <1>6, <1>7, ServedIsGood
<1>8. CASE ~(~Hit(d, t) /\ demand /\ Prefetcher)
  BY <1>3, <1>4, <1>6, <1>8, ServedIsGood
<1> QED
  BY <1>7, <1>8

\* The outcome e is that of what the parent has invalidated meanwhile: not the
\* block asked for, and nothing unless it is inclusive.
OutcomeOf(e, d, t, demand) ==
    \E U, V : /\ e = RequestBlock(d, t, demand, U, V)
              /\ t \notin U /\ (Inclusive \/ U = {})
              /\ t \notin V /\ (Inclusive \/ V = {})

\* Every outcome is one of these.
LEMMA Outcomes ==
    ASSUME NEW d, NEW t, NEW demand, NEW e \in BlockOutcomes(d, t, demand)
    PROVE  OutcomeOf(e, d, t, demand)
<1>1. PICK U \in ParentEvictions(~Hit(d, t), {t}),
           V \in ParentEvictions(~Hit(d, t) /\ demand /\ Prefetcher, {t, t + 1}) :
         e = RequestBlock(d, t, demand, U, V)
  BY DEF BlockOutcomes
<1>2. t \notin U /\ (Inclusive \/ U = {})
  BY DEF ParentEvictions
<1>3. t \notin V /\ (Inclusive \/ V = {})
  BY DEF ParentEvictions
<1> QED
  BY <1>1, <1>2, <1>3, Zenon DEF OutcomeOf

\* The same, whatever the parent invalidates.
LEMMA OutcomesOK ==
    ASSUME NEW d, Good(d), NEW t \in Nat, NEW demand \in BOOLEAN, Configured,
           NEW e \in BlockOutcomes(d, t, demand)
    PROVE  Good(e)
<1>1. PICK U, V : /\ e = RequestBlock(d, t, demand, U, V)
                  /\ t \notin U /\ (Inclusive \/ U = {})
                  /\ t \notin V /\ (Inclusive \/ V = {})
  BY Outcomes, Zenon DEF OutcomeOf
<1> QED
  BY <1>1, RequestBlockOK DEF Configured

\* An empty device is good.
LEMMA InitGood == Init => IInv
<1> SUFFICES ASSUME Init PROVE Good(dev)
  BY DEF IInv
<1>1. dev = InitDevice /\ 0 \in Ways
  BY GeometryAssumption DEF Init, Ways
<1>2. dev \in Device
  BY <1>1 DEF InitDevice, Device, Invalid
<1>3. ASSUME NEW s \in Sets PROVE LineOK(s, dev.tag[s], dev.ctr[s])
  <2>1. /\ dev.tag[s] = [w \in Ways |-> Invalid]
        /\ dev.ctr[s] = [w \in Ways |-> IF Policy = "FIFO" /\ w = 0 THEN 1 ELSE 0]
    BY <1>1 DEF InitDevice
  <2>2. \A w \in Ways : dev.ctr[s][w] <= 1
    BY <2>1
  <2>3. Policy = "FIFO" => PointerAt(dev.ctr[s], 0)
    BY <2>1 DEF PointerAt
  <2> QED
    BY <1>1, <2>1, <2>2, <2>3, SMTT(30) DEF LineOK, Invalid
<1> QED
  BY <1>1, <1>2, <1>3 DEF Good, DevOK, LastSafe, InitDevice

\* Every operation keeps it good.
LEMMA NextGood ==
    ASSUME Configured, IInv, [Next]_dev
    PROVE  IInv'
<1>1. CASE UNCHANGED dev
  BY <1>1 DEF IInv, Good, DevOK, LastSafe, Spared
<1>2. ASSUME NEW t \in Blocks, NEW demand \in BOOLEAN, Request(t, demand) PROVE IInv'
  <2>1. t \in Nat /\ t # Invalid
    BY DeviceAssumption DEF Invalid
  <2>2. CASE t = dev.last_tag /\ dev' = TouchLast(dev)
    <3>1. Good(dev) /\ dev.tag[SetOf(dev.last_tag)][dev.last_way] = dev.last_tag
      BY <2>1, <2>2 DEF IInv, Good, LastSafe
    <3>2. Good(TouchLast(dev))
      BY <2>1, <2>2, <3>1, TouchLastOK DEF Good
    <3> QED
      BY <2>2, <3>2 DEF IInv
  <2>3. CASE t # dev.last_tag /\ dev' \in BlockOutcomes(dev, t, demand)
    BY <2>1, <2>3, OutcomesOK DEF IInv
  <2> QED
    BY <1>2, <2>2, <2>3 DEF Request
<1>3. ASSUME NEW t \in Blocks, NEW demand \in BOOLEAN, RequestCrossing(t, demand) PROVE IInv'
  <2>1. t \in Nat /\ t + 1 \in Nat
    BY DeviceAssumption
  <2>2. PICK d \in BlockOutcomes(dev, t, demand) : dev' \in BlockOutcomes(d, t + 1, demand)
    BY <1>3 DEF RequestCrossing
  <2>3. Good(d)
    BY <2>1, OutcomesOK DEF IInv
  <2> QED
    BY <2>1, <2>2, <2>3, OutcomesOK DEF IInv
<1>4. ASSUME NEW t \in Blocks, Invalidate(t) PROVE IInv'
  <2>1. Policy # "FIFO" /\ dev' = Invalidated(dev, {t})
    BY <1>4 DEF Invalidate, Configured
  <2>2. Good(Invalidated(dev, {t}))
    BY <2>1, InvalidatedOK DEF IInv, Good
  <2> QED
    BY <2>1, <2>2 DEF IInv
<1>5. ASSUME NEW t \in Blocks, Flush(t) PROVE IInv'
  <2>1. PICK V \in {{t}, {t, t + 1}} : dev' = Flushed(dev, V)
    BY <1>5 DEF Flush
  <2> DEFINE a == Invalidated(dev, V)
  <2>2. Policy # "FIFO"
    BY <1>5 DEF Flush, Configured
  <2>3. DevOK(a) /\ a.asserts = "hold"
    BY <2>2, InvalidatedOK DEF IInv, Good
  <2>4. dev' = [a EXCEPT !.last_tag = Invalid]
    BY <2>1 DEF Flushed
  <2> HIDE DEF a
  <2>5. a \in Device
    BY <2>3 DEF DevOK
  <2>6. /\ dev' \in Device /\ dev'.tag = a.tag /\ dev'.ctr = a.ctr
        /\ dev'.asserts = a.asserts /\ dev'.last_tag = Invalid
    BY <2>4, <2>5, Zenon DEF Device
  <2> QED
    BY <2>3, <2>6 DEF IInv, Good, DevOK, LastSafe
<1> QED
  BY <1>1, <1>2, <1>3, <1>4, <1>5 DEF Next

\* The invariant holds always.
LEMMA Inductive ==
    ASSUME Configured
    PROVE  Spec => []IInv
<1>1. IInv /\ [Next]_dev => IInv'
  BY NextGood
<1> QED
  BY InitGood, <1>1, PTL DEF Spec

\* Every device state the calls reach has the shape Device gives it: the way
\* that is remembered exists, whatever the geometry and the blocks referenced.
THEOREM TypeCorrect ==
    ASSUME Configured
    PROVE  Spec => []TypeOK
<1>1. IInv => TypeOK
  BY DEF IInv, Good, DevOK, TypeOK
<1> QED
  BY Inductive, <1>1, PTL

\* The fast path of caching_device_t::request never looks at a slot that has
\* been given to another block, with prefetching and an inclusive parent.
THEOREM FastPathInSync ==
    ASSUME Configured
    PROVE  Spec => []LastTagInSync
<1>1. IInv => LastTagInSync
  BY DEF IInv, Good, LastSafe, LastTagInSync
<1> QED
  BY Inductive, <1>1, PTL

\* No block is in two places, so that the searches of request() and
\* invalidate() may stop at the first match.
THEOREM UniquePlace ==
    ASSUME Configured
    PROVE  Spec => []BlockInOnePlace
<1>1. IInv => BlockInOnePlace
  BY DEF IInv, Good, DevOK, LineOK, BlockInOnePlace
<1> QED
  BY Inductive, <1>1, PTL

\* Counter 0 marks one block of a set at most, under the LRU policy.
THEOREM UniqueMostRecent ==
    ASSUME Configured
    PROVE  Spec => []OneMostRecent
<1>1. IInv => OneMostRecent
  BY DEF IInv, Good, DevOK, LineOK, OneMostRecent
<1> QED
  BY Inductive, <1>1, PTL

\* A FIFO set never loses its replacement pointer and never has two.
THEOREM UniqueFifoPointer ==
    ASSUME Configured
    PROVE  Spec => []OneFifoPointer
<1>1. IInv => OneFifoPointer
  BY DEF IInv, Good, DevOK, LineOK, PointerAt, OneFifoPointer
<1> QED
  BY Inductive, <1>1, PTL

-----------------------------------------------------------------------------
\* The ways of a set whose counter has reached j.
Reached(c, j) == {w \in Ways : c[w] >= j}

\* At most Assoc - j + 1 of them.
Ranks(c) == c \in [Ways -> Nat] /\ \A j \in 1 .. Assoc + 1 : Cardinality(Reached(c, j)) <= Assoc - j + 1

\* A set has Assoc ways, at least one.
LEMMA WaysFinite == IsFiniteSet(Ways) /\ Cardinality(Ways) = Assoc /\ Assoc \in Nat \ {0} /\ 0 \in Ways
  BY GeometryAssumption, FS_Interval DEF Ways

\* Of Assoc ways, no more than Assoc reach a value.
LEMMA ReachedFinite ==
  ASSUME NEW c, NEW j
  PROVE  IsFiniteSet(Reached(c, j)) /\ Cardinality(Reached(c, j)) \in 0 .. Assoc
  <1>1. Reached(c, j) \in SUBSET Ways
    BY DEF Reached
  <1>2. IsFiniteSet(Reached(c, j)) /\ Cardinality(Reached(c, j)) <= Cardinality(Ways)
    BY <1>1, WaysFinite, FS_Subset
  <1>3. Cardinality(Reached(c, j)) \in Nat
    BY <1>2, FS_CardinalityType
  <1> QED BY <1>2, <1>3, WaysFinite

\* No way reaches Assoc + 1.
LEMMA RanksBound == ASSUME NEW c, Ranks(c) PROVE \A w \in Ways : c[w] <= Assoc
  <1> DEFINE S == Reached(c, Assoc + 1)
  <1>1. Assoc + 1 \in 1 .. Assoc + 1
    BY WaysFinite
  <1>2. Cardinality(S) <= Assoc - (Assoc + 1) + 1
    BY <1>1 DEF Ranks
  <1>3. Cardinality(S) = 0 /\ IsFiniteSet(S)
    BY <1>2, ReachedFinite, WaysFinite
  <1>4. S = {}
    BY <1>3, FS_EmptySet
  <1> QED BY <1>4, WaysFinite DEF Reached, Ranks

\* A counter that is set to 0 or 1 reaches no further than before, beyond 1.
LEMMA LoweredRanks ==
  ASSUME NEW c, Ranks(c), NEW e \in [Ways -> Nat],
         \A w \in Ways : e[w] <= c[w] \/ e[w] <= 1
  PROVE  Ranks(e)
  <1> SUFFICES ASSUME NEW j \in 1 .. Assoc + 1 PROVE Cardinality(Reached(e, j)) <= Assoc - j + 1
    BY DEF Ranks
  <1>1. CASE j = 1
    BY <1>1, ReachedFinite, WaysFinite
  <1>2. CASE j # 1
    <2>1. j > 1 /\ c \in [Ways -> Nat]
      BY <1>2, WaysFinite DEF Ranks
    <2>2. Reached(e, j) \in SUBSET Reached(c, j)
      BY <2>1 DEF Reached
    <2>3. Cardinality(Reached(e, j)) <= Cardinality(Reached(c, j))
      BY <2>2, ReachedFinite, FS_Subset
    <2>4. Cardinality(Reached(c, j)) <= Assoc - j + 1
      BY DEF Ranks
    <2> QED BY <2>3, <2>4, ReachedFinite, WaysFinite
  <1> QED BY <1>1, <1>2

\* access_update: the ways that reach j are, up to the accessed counter, those
\* that reached j - 1 without the accessed one.
LEMMA AccessRanks ==
  ASSUME NEW c, Ranks(c), NEW w \in Ways PROVE Ranks(LruAccess(c, w))
  <1>0. c \in [Ways -> Nat]
    BY DEF Ranks
  <1>1. CASE c[w] = 0
    BY <1>1 DEF LruAccess
  <1>2. CASE c[w] # 0
    <2> DEFINE e == LruAccess(c, w)
    <2>1. e = [v \in Ways |-> IF v = w THEN 0 ELSE IF c[v] <= c[w] THEN c[v] + 1 ELSE c[v]]
      BY <1>2 DEF LruAccess
    <2> HIDE DEF e
    <2>2. e \in [Ways -> Nat]
      BY <1>0, <2>1
    <2> SUFFICES ASSUME NEW j \in 1 .. Assoc + 1 PROVE Cardinality(Reached(e, j)) <= Assoc - j + 1
      BY <2>2 DEF Ranks, e
    <2>3. CASE j = 1
      BY <2>3, ReachedFinite, WaysFinite
    <2>4. CASE j # 1 /\ j <= c[w] + 1
      <3>1. j \in Nat /\ j - 1 \in 1 .. Assoc + 1
        BY <2>4, WaysFinite
      <3>2. Reached(e, j) = Reached(c, j - 1) \ {w}
        BY <1>0, <2>1, <2>4, <3>1 DEF Reached
      <3>3. w \in Reached(c, j - 1)
        BY <1>0, <2>4, <3>1 DEF Reached
      <3>4. Cardinality(Reached(e, j)) = Cardinality(Reached(c, j - 1)) - 1
        <4> DEFINE S == Reached(c, j - 1)
        <4>1. IsFiniteSet(S)
          BY ReachedFinite
        <4> HIDE DEF S
        <4>2. Cardinality(S \ {w}) = IF w \in S THEN Cardinality(S) - 1 ELSE Cardinality(S)
          BY <4>1, FS_RemoveElement
        <4> QED BY <3>2, <3>3, <4>2 DEF S
      <3>5. Cardinality(Reached(c, j - 1)) <= Assoc - (j - 1) + 1
        BY <3>1 DEF Ranks
      <3> QED BY <3>1, <3>4, <3>5, ReachedFinite, WaysFinite
    <2>5. CASE j > c[w] + 1
      <3>1. Reached(e, j) = Reached(c, j)
        BY <1>0, <2>1, <2>5 DEF Reached
      <3> QED BY <3>1 DEF Ranks
    <2>6. j \in Nat /\ c[w] \in Nat
      BY <1>0, WaysFinite
    <2> QED BY <2>3, <2>4, <2>5, <2>6
  <1> QED BY <1>1, <1>2

-----------------------------------------------------------------------------
(* An LRU device.                                                          *)

Ranked(d) == d \in Device /\ \A s \in Sets : Ranks(d.ctr[s])

\* Counters in rank have a largest one, so that a way is found.
LEMMA VictimFound ==
  ASSUME Policy = "LRU", NEW tg, NEW c, Ranks(c) PROVE Victim(tg, c) \in Ways
  <1>1. c \in [Ways -> Nat] /\ (\A w \in Ways : c[w] <= Assoc) /\ Assoc \in Nat
    BY RanksBound, WaysFinite DEF Ranks
  <1>2. \E w \in Ways : \A v \in Ways : c[v] <= c[w]
    BY <1>1, ExtremesExist
  <1>3. Candidates(tg, c) \in SUBSET Ways /\ Candidates(tg, c) # {}
    BY <1>2 DEF Candidates
  <1>4. Min(Candidates(tg, c)) \in Candidates(tg, c)
    BY <1>3, MinInSet
  <1> QED BY <1>3, <1>4 DEF Victim

\* Other counters for one set.
LEMMA OneSet ==
  ASSUME NEW d, Ranked(d), NEW s \in Sets, NEW c, Ranks(c), NEW e \in Device,
         e.ctr = [d.ctr EXCEPT ![s] = c]
  PROVE  Ranked(e)
  <1>1. d.ctr \in [Sets -> [Ways -> Nat]]
    BY DEF Ranked, Device
  <1>2. \A r \in Sets : e.ctr[r] = IF r = s THEN c ELSE d.ctr[r]
    BY <1>1
  <1> QED BY <1>2 DEF Ranked

\* The fast path is an access.
LEMMA TouchRanked ==
  ASSUME Policy = "LRU", NEW d, Ranked(d), d.last_tag \in Nat PROVE Ranked(TouchLast(d))
  <1> DEFINE s == SetOf(d.last_tag)
             c == LruAccess(d.ctr[s], d.last_way)
             e == TouchLast(d)
  <1>1. d \in Device /\ d.last_way \in Ways /\ s \in Sets
    BY SetOfType DEF Ranked, Device
  <1>2. Ranks(c)
    BY <1>1, AccessRanks DEF Ranked
  <1>3. PICK x \in {"hold", "failed"} : e = [d EXCEPT !.ctr = [d.ctr EXCEPT ![s] = c], !.asserts = x]
    BY <1>1, Zenon DEF TouchLast, AccessUpdate, Device
  <1> HIDE DEF c, e, s
  <1>4. [d.ctr EXCEPT ![s] = c] \in [Sets -> [Ways -> Nat]]
    BY <1>1, <1>2 DEF Device, Ranks
  <1>5. e \in Device /\ e.ctr = [d.ctr EXCEPT ![s] = c]
    BY <1>1, <1>3, <1>4, Zenon DEF Device
  <1>6. Ranked(e)
    BY <1>1, <1>2, <1>5, OneSet
  <1> QED BY <1>6 DEF e

\* A hit is an access, a fill sets the victim's counter and is one.
LEMMA AccessRanked ==
  ASSUME Policy = "LRU", NEW d, Ranked(d), NEW t \in Nat
  PROVE  Ranked(Access(d, t)) /\ WayOf(d, t) \in Ways
  <1> DEFINE s == SetOf(t)
             w == WayOf(d, t)
             c == d.ctr[s]
             a == Access(d, t)
  <1>1. d \in Device /\ s \in Sets
    BY SetOfType DEF Ranked
  <1>2. Ranks(c)
    BY <1>1 DEF Ranked
  <1>3. w \in Ways
    <2>1. CASE Hit(d, t)
      <3>1. HitWays(d, t) \in SUBSET Ways /\ HitWays(d, t) # {}
        BY <2>1 DEF HitWays, Hit
      <3> QED BY <2>1, <3>1, MinInSet DEF WayOf
    <2>2. CASE ~Hit(d, t)
      BY <1>2, <2>2, VictimFound DEF WayOf
    <2> QED BY <2>1, <2>2
  <1>4. CASE Hit(d, t)
    <2>1. a = [d EXCEPT !.ctr = [d.ctr EXCEPT ![s] = LruAccess(c, w)]]
      BY <1>1, <1>4 DEF Access, AccessUpdate, Device
    <2>2. Ranks(LruAccess(c, w))
      BY <1>2, <1>3, AccessRanks
    <2> DEFINE n == LruAccess(c, w)
    <2> HIDE DEF n, a, s
    <2>3. [d.ctr EXCEPT ![s] = n] \in [Sets -> [Ways -> Nat]]
      BY <1>1, <2>2 DEF Device, Ranks, n
    <2>4. a \in Device /\ a.ctr = [d.ctr EXCEPT ![s] = n]
      BY <1>1, <2>1, <2>3, Zenon DEF Device, n
    <2>5. Ranked(a)
      BY <1>1, <2>2, <2>4, OneSet DEF n
    <2> QED BY <1>3, <2>5 DEF a
  <1>5. CASE ~Hit(d, t)
    <2> DEFINE n == LruAccess([c EXCEPT ![w] = 1], w)
    <2>1. Ranks([c EXCEPT ![w] = 1])
      <3>1. c \in [Ways -> Nat]
        BY <1>2 DEF Ranks
      <3>2. [c EXCEPT ![w] = 1] \in [Ways -> Nat]
            /\ \A v \in Ways : [c EXCEPT ![w] = 1][v] <= c[v] \/ [c EXCEPT ![w] = 1][v] <= 1
        BY <1>3, <3>1
      <3> HIDE DEF c, w
      <3> QED BY <1>2, <3>2, LoweredRanks, Zenon
    <2>2. Ranks(n)
      BY <1>3, <2>1, AccessRanks
    <2>3. PICK x \in Nat : a = [d EXCEPT !.tag = [d.tag EXCEPT ![s] = [d.tag[s] EXCEPT ![w] = t]],
                                          !.ctr = [d.ctr EXCEPT ![s] = n], !.loaded = x]
      <3> DEFINE x == IF d.tag[s][w] = Invalid THEN d.loaded + 1 ELSE d.loaded
      <3>1. x \in Nat /\ AccessUpdate(Replaced(c, w), w) = n
        BY <1>1 DEF Device, AccessUpdate, Replaced
      <3>2. a = [d EXCEPT !.tag[s][w] = t, !.ctr[s] = AccessUpdate(Replaced(c, w), w), !.loaded = x]
        BY <1>5 DEF Access
      <3> HIDE DEF x, n, a, w, s
      <3>3. a = [d EXCEPT !.tag = [d.tag EXCEPT ![s] = [d.tag[s] EXCEPT ![w] = t]],
                          !.ctr = [d.ctr EXCEPT ![s] = n], !.loaded = x]
        BY <1>1, <3>1, <3>2 DEF Device
      <3> QED BY <3>1, <3>3
    <2> HIDE DEF n, a, s, w
    <2>4. [d.ctr EXCEPT ![s] = n] \in [Sets -> [Ways -> Nat]]
      BY <1>1, <2>2 DEF Device, Ranks
    <2>5. [d.tag EXCEPT ![s] = [d.tag[s] EXCEPT ![w] = t]] \in [Sets -> [Ways -> Nat \cup {Invalid}]]
      BY <1>1, <1>3 DEF Device
    <2>6. a \in Device /\ a.ctr = [d.ctr EXCEPT ![s] = n]
      BY <1>1, <2>3, <2>4, <2>5, Zenon DEF Device
    <2>7. Ranked(a)
      BY <1>1, <2>2, <2>6, OneSet
    <2> QED BY <1>3, <2>7 DEF a, w
  <1> QED BY <1>4, <1>5

\* An invalidation sets counters to 0.
LEMMA InvalidatedRanked ==
  ASSUME NEW d, Ranked(d), NEW V PROVE Ranked(Invalidated(d, V))
  <1> DEFINE e == Invalidated(d, V)
             f == [s \in Sets |-> [w \in Ways |-> IF d.tag[s][w] \in V THEN Invalid ELSE d.tag[s][w]]]
             g == [s \in Sets |-> [w \in Ways |-> IF d.tag[s][w] \in V THEN 0 ELSE d.ctr[s][w]]]
  <1>1. d \in Device
    BY DEF Ranked
  <1>2. PICK x \in Nat \cup {Invalid} : e = [d EXCEPT !.tag = f, !.ctr = g, !.last_tag = x]
    BY <1>1 DEF Invalidated, Device
  <1>3. f \in [Sets -> [Ways -> Nat \cup {Invalid}]] /\ g \in [Sets -> [Ways -> Nat]]
    BY <1>1 DEF Device
  <1>4. ASSUME NEW s \in Sets PROVE Ranks(g[s])
    <2>1. Ranks(d.ctr[s]) /\ d.ctr[s] \in [Ways -> Nat]
      BY <1>1 DEF Ranked, Ranks
    <2>2. g[s] \in [Ways -> Nat] /\ \A w \in Ways : g[s][w] = 0 \/ g[s][w] = d.ctr[s][w]
      BY <1>3
    <2>3. \A w \in Ways : g[s][w] <= d.ctr[s][w] \/ g[s][w] <= 1
      BY <2>1, <2>2
    <2> HIDE DEF g
    <2> QED BY <2>1, <2>2, <2>3, LoweredRanks
  <1> HIDE DEF e, f, g
  <1>5. e \in Device /\ e.ctr = g
    BY <1>1, <1>2, <1>3, Zenon DEF Device
  <1>6. Ranked(e)
    BY <1>4, <1>5 DEF Ranked
  <1> QED BY <1>6 DEF e

\* Remembering a slot touches no counter.
LEMMA RememberRanked ==
  ASSUME NEW d, Ranked(d), NEW t \in Nat, NEW w \in Ways PROVE Ranked(Remember(d, t, w))
  <1>1. d \in Device
    BY DEF Ranked
  <1>2. Remember(d, t, w) \in Device /\ Remember(d, t, w).ctr = d.ctr
    BY <1>1, Zenon DEF Remember, Device
  <1> QED BY <1>2 DEF Ranked

\* A parent changes counters by invalidations only.
LEMMA AfterParentRanked ==
  ASSUME NEW d, Ranked(d), NEW t, NEW V PROVE Ranked(AfterParent(d, t, V))
  BY InvalidatedRanked DEF AfterParent

\* A prefetch is a request of its own.
LEMMA PrefetchRanked ==
  ASSUME Policy = "LRU", NEW d, Ranked(d), NEW t \in Nat, NEW V PROVE Ranked(PrefetchNext(d, t, V))
  <1> DEFINE n == t + 1
             e == AfterParent(d, n, V)
  <1>1. n \in Nat /\ Ranked(e)
    BY AfterParentRanked
  <1>2. CASE n = d.last_tag
    BY <1>1, <1>2, TouchRanked DEF PrefetchNext
  <1>3. CASE n # d.last_tag
    <2>1. PrefetchNext(d, t, V) = Remember(Access(e, n), n, WayOf(e, n))
      BY <1>3 DEF PrefetchNext
    <2> HIDE DEF n, e
    <2>2. Ranked(Access(e, n)) /\ WayOf(e, n) \in Ways
      BY <1>1, AccessRanked
    <2> QED BY <1>1, <2>1, <2>2, RememberRanked
  <1> QED BY <1>2, <1>3

\* A request, with all that happens in it.
LEMMA OutcomesRanked ==
  ASSUME Policy = "LRU", NEW d, Ranked(d), NEW t \in Nat, NEW demand, NEW e \in BlockOutcomes(d, t, demand)
  PROVE  Ranked(e)
  <1>1. PICK U \in ParentEvictions(~Hit(d, t), {t}),
             V \in ParentEvictions(~Hit(d, t) /\ demand /\ Prefetcher, {t, t + 1}) :
           e = RequestBlock(d, t, demand, U, V)
    BY DEF BlockOutcomes
  <1> DEFINE d0 == AfterParent(d, t, U)
             d1 == Access(d0, t)
             w == WayOf(d0, t)
  <1>2. Ranked(d0)
    BY AfterParentRanked
  <1>3. Ranked(d1) /\ w \in Ways
    BY <1>2, AccessRanked
  <1>4. Ranked(PrefetchNext(d1, t, V))
    BY <1>3, PrefetchRanked
  <1>5. e = Remember(PrefetchNext(d1, t, V), t, w) \/ e = Remember(d1, t, w)
    BY <1>1 DEF RequestBlock
  <1> HIDE DEF d0, d1, w
  <1> QED BY <1>3, <1>4, <1>5, RememberRanked

RankInv == Policy = "LRU" => Ranked(dev)

\* The counters init gives to the ways.
LEMMA InitRanked == Init => RankInv
  <1> SUFFICES ASSUME Init, Policy = "LRU" PROVE Ranked(dev)
    BY DEF RankInv
  <1>1. dev = InitDevice
    BY DEF Init
  <1>2. dev \in Device /\ \A s \in Sets : dev.ctr[s] = [w \in Ways |-> 0]
    BY <1>1, WaysFinite DEF InitDevice, Device
  <1>3. Ranks([w \in Ways |-> 0])
    <2> DEFINE z == [w \in Ways |-> 0]
    <2>1. z \in [Ways -> Nat]
      OBVIOUS
    <2>2. ASSUME NEW j \in 1 .. Assoc + 1 PROVE Cardinality(Reached(z, j)) <= Assoc - j + 1
      <3>1. Reached(z, j) = {}
        BY DEF Reached
      <3>2. Cardinality(Reached(z, j)) = 0
        BY <3>1, FS_EmptySet
      <3>3. 0 <= Assoc - j + 1
        BY WaysFinite
      <3> QED BY <3>2, <3>3
    <2> QED BY <2>1, <2>2 DEF Ranks
  <1> QED BY <1>2, <1>3 DEF Ranked

\* Every operation of the device.
LEMMA NextRanked == RankInv /\ [Next]_dev => RankInv'
  <1> SUFFICES ASSUME Policy = "LRU", Ranked(dev), [Next]_dev PROVE Ranked(dev')
    <2>1. Ranked(dev') <=> Ranked(dev)'
      BY DEF Ranked, Ranks, Reached
    <2> QED BY <2>1 DEF RankInv
  <1>1. CASE UNCHANGED dev
    BY <1>1
  <1>2. ASSUME NEW t \in Blocks, NEW demand \in BOOLEAN, Request(t, demand) PROVE Ranked(dev')
    <2>1. t \in Nat
      BY DeviceAssumption
    <2> QED BY <1>2, <2>1, TouchRanked, OutcomesRanked DEF Request
  <1>3. ASSUME NEW t \in Blocks, NEW demand \in BOOLEAN, RequestCrossing(t, demand) PROVE Ranked(dev')
    <2>1. t \in Nat /\ t + 1 \in Nat
      BY DeviceAssumption
    <2>2. PICK d \in BlockOutcomes(dev, t, demand) : dev' \in BlockOutcomes(d, t + 1, demand)
      BY <1>3 DEF RequestCrossing
    <2>3. Ranked(d)
      BY <2>1, OutcomesRanked
    <2> QED BY <2>1, <2>2, <2>3, OutcomesRanked
  <1>4. ASSUME NEW t \in Blocks, Invalidate(t) PROVE Ranked(dev')
    BY <1>4, InvalidatedRanked DEF Invalidate
  <1>5. ASSUME NEW t \in Blocks, Flush(t) PROVE Ranked(dev')
    <2>1. PICK V : dev' = [Invalidated(dev, V) EXCEPT !.last_tag = Invalid]
      BY <1>5 DEF Flush, Flushed
    <2> DEFINE a == Invalidated(dev, V)
    <2>2. Ranked(a)
      BY InvalidatedRanked
    <2> HIDE DEF a
    <2>3. dev' \in Device /\ dev'.ctr = a.ctr
      BY <2>1, <2>2, Zenon DEF Ranked, Device, a
    <2> QED BY <2>2, <2>3 DEF Ranked
  <1> QED BY <1>1, <1>2, <1>3, <1>4, <1>5 DEF Next

\* cache_lru_t: no counter of an LRU device exceeds its associativity, so the
\* int never overflows, whatever the geometry, prefetcher, parent and trace.
THEOREM CountersBounded == Spec => []LruCounterBound
  <1>1. ASSUME RankInv, Policy = "LRU", NEW s \in Sets, NEW w \in Ways PROVE dev.ctr[s][w] <= Assoc
    <2>1. Ranks(dev.ctr[s])
      BY <1>1 DEF RankInv, Ranked
    <2> QED BY <2>1, RanksBound
  <1>2. RankInv => LruCounterBound
    BY <1>1 DEF LruCounterBound
  <1> QED BY <1>2, InitRanked, NextRanked, PTL DEF Spec

-----------------------------------------------------------------------------
(* loaded_blocks: where nothing is invalidated, every fill of an empty way   *)
(* is counted once.                                                          *)

\* The valid slots of a device, and the count it keeps of them.
Valid(d) == {p \in Sets \X Ways : d.tag[p[1]][p[2]] # Invalid}
Counts(d) == d.loaded = Cardinality(Valid(d))
Fields(d) == {"tag", "loaded"} \subseteq DOMAIN d

\* There are only so many slots.
LEMMA ValidFinite == ASSUME NEW d PROVE IsFiniteSet(Valid(d))
  <1>1. IsFiniteSet(Sets) /\ IsFiniteSet(Ways)
    BY GeometryAssumption, FS_Interval DEF Sets, Ways
  <1>2. IsFiniteSet(Sets \X Ways)
    BY <1>1, FS_Product
  <1> QED BY <1>2, FS_Subset DEF Valid

\* A step that leaves the tags and the count alone.
LEMMA SameCount ==
  ASSUME NEW d, NEW e, Counts(d), e.tag = d.tag, e.loaded = d.loaded PROVE Counts(e)
  <1>1. Valid(e) = Valid(d)
    BY DEF Valid
  <1> QED BY <1>1 DEF Counts

\* A hit fills nothing, a miss one slot: it is counted when it was empty.
LEMMA AccessCounts ==
  ASSUME NEW d, DevOK(d), Counts(d), NEW t \in Nat PROVE Counts(Access(d, t))
  <1> DEFINE s == SetOf(t)
             w == WayOf(d, t)
             a == Access(d, t)
  <1>1. d \in Device /\ s \in Sets /\ w \in Ways
    BY SetOfType, AccessOK DEF DevOK
  <1>2. CASE Hit(d, t)
    <2>1. a = [d EXCEPT !.ctr[s] = AccessUpdate(@, w)]
      BY <1>2 DEF Access
    <2> HIDE DEF a, s, w
    <2>2. a.tag = d.tag /\ a.loaded = d.loaded
      BY <1>1, <2>1 DEF Device
    <2>3. Counts(a)
      BY <2>2, SameCount
    <2> QED BY <2>3 DEF a
  <1>3. CASE ~Hit(d, t)
    <2>1. a = [d EXCEPT !.tag[s][w] = t,
                        !.ctr[s] = AccessUpdate(Replaced(@, w), w),
                        !.loaded = IF d.tag[s][w] = Invalid THEN @ + 1 ELSE @]
      BY <1>3 DEF Access
    <2> HIDE DEF a, s, w
    <2>2. /\ a.tag = [d.tag EXCEPT ![s] = [d.tag[s] EXCEPT ![w] = t]]
          /\ a.loaded = IF d.tag[s][w] = Invalid THEN d.loaded + 1 ELSE d.loaded
      BY <1>1, <2>1 DEF Device
    <2>3. \A p \in Sets \X Ways :
             a.tag[p[1]][p[2]] = IF p = <<s, w>> THEN t ELSE d.tag[p[1]][p[2]]
      <3>1. SUFFICES ASSUME NEW r \in Sets, NEW v \in Ways
                     PROVE  a.tag[r][v] = IF r = s /\ v = w THEN t ELSE d.tag[r][v]
        OBVIOUS
      <3> QED BY <1>1, <2>2 DEF Device
    <2>4. Valid(a) = Valid(d) \cup {<<s, w>>}
      BY <1>1, <2>3 DEF Valid, Invalid
    <2>5. <<s, w>> \in Valid(d) <=> d.tag[s][w] # Invalid
      BY <1>1 DEF Valid
    <2>6. Cardinality(Valid(a)) = IF <<s, w>> \in Valid(d) THEN Cardinality(Valid(d))
                                  ELSE Cardinality(Valid(d)) + 1
      BY <2>4, ValidFinite, FS_AddElement
    <2>7. Counts(a)
      BY <2>2, <2>5, <2>6 DEF Counts
    <2> QED BY <2>7 DEF a
  <1> QED BY <1>2, <1>3

\* No invalidation at all.
LEMMA NoEvictionCounts ==
  ASSUME NEW d, DevOK(d), Counts(d), NEW t
  PROVE  DevOK(AfterParent(d, t, {})) /\ Counts(AfterParent(d, t, {}))
  <1> DEFINE a == Invalidated(d, {})
  <1>0. d \in Device
    BY DEF DevOK
  <1>1. DevOK(a)
    BY InvalidatedOK, ZenonT(60)
  <1>2. \A s \in Sets, w \in Ways : a.tag[s][w] = d.tag[s][w]
    <2>1. a.tag = [s \in Sets |-> [w \in Ways |->
                      IF d.tag[s][w] \in {} THEN Invalid ELSE d.tag[s][w]]]
      BY <1>0 DEF Invalidated, Device
    <2> HIDE DEF a
    <2> QED BY <2>1
  <1>3. a.loaded = d.loaded
    BY <1>0 DEF Invalidated, Device
  <1> HIDE DEF a
  <1>4. Valid(a) = Valid(d)
    BY <1>2 DEF Valid
  <1>5. Counts(a)
    BY <1>3, <1>4 DEF Counts
  <1> QED BY <1>1, <1>5 DEF AfterParent, a

\* Remembering a block fills nothing.
LEMMA RememberCounts ==
  ASSUME NEW d, Fields(d), Counts(d), NEW t, NEW w
  PROVE  Fields(Remember(d, t, w)) /\ Counts(Remember(d, t, w))
  <1> DEFINE e == Remember(d, t, w)
  <1>1. e = [d EXCEPT !.last_tag = t, !.last_way = w]
    BY DEF Remember
  <1> HIDE DEF e
  <1>2. Fields(e) /\ e.tag = d.tag /\ e.loaded = d.loaded
    BY <1>1 DEF Fields
  <1>3. Counts(e)
    BY <1>2, SameCount
  <1> QED BY <1>2, <1>3 DEF e

\* Neither does the fast path.
LEMMA TouchCounts ==
  ASSUME NEW d, Fields(d), Counts(d) PROVE Fields(TouchLast(d)) /\ Counts(TouchLast(d))
  <1> DEFINE e == TouchLast(d)
  <1>1. PICK s, c, x : e = [d EXCEPT !.ctr[s] = c, !.asserts = x]
    BY DEF TouchLast
  <1> HIDE DEF e
  <1>2. Fields(e) /\ e.tag = d.tag /\ e.loaded = d.loaded
    BY <1>1 DEF Fields
  <1>3. Counts(e)
    BY <1>2, SameCount
  <1> QED BY <1>2, <1>3 DEF e

\* A device has the two fields.
LEMMA DeviceFields == ASSUME NEW d, DevOK(d) PROVE Fields(d)
  BY DEF DevOK, Device, Fields

\* The request of the prefetcher.
LEMMA PrefetchCounts ==
  ASSUME NEW d, DevOK(d), Counts(d), NEW t \in Nat
  PROVE  Fields(PrefetchNext(d, t, {})) /\ Counts(PrefetchNext(d, t, {}))
  <1> DEFINE n == t + 1
             e == AfterParent(d, n, {})
             a == Access(e, n)
  <1>1. CASE n = d.last_tag
    BY <1>1, DeviceFields, TouchCounts DEF PrefetchNext
  <1>2. CASE n # d.last_tag
    <2>1. PrefetchNext(d, t, {}) = Remember(a, n, WayOf(e, n))
      BY <1>2 DEF PrefetchNext
    <2>2. DevOK(e) /\ Counts(e) /\ n \in Nat
      BY NoEvictionCounts
    <2> HIDE DEF e, n
    <2>3. DevOK(a) /\ Counts(a)
      BY <2>2, AccessOK, AccessCounts
    <2> HIDE DEF a
    <2> QED BY <2>1, <2>3, DeviceFields, RememberCounts
  <1> QED BY <1>1, <1>2

\* One block of a request below a parent that invalidates nothing.
LEMMA OutcomesCount ==
  ASSUME NEW d, DevOK(d), Counts(d), NEW t \in Nat, NEW demand \in BOOLEAN, ~Inclusive,
         NEW e \in BlockOutcomes(d, t, demand)
  PROVE  Counts(e)
  <1>1. e = RequestBlock(d, t, demand, {}, {})
    <2>1. PICK U, V : /\ e = RequestBlock(d, t, demand, U, V)
                      /\ Inclusive \/ U = {}
                      /\ Inclusive \/ V = {}
      BY Outcomes, Zenon DEF OutcomeOf
    <2> QED BY <2>1
  <1> DEFINE f == AfterParent(d, t, {})
             a == Access(f, t)
             p == IF ~Hit(d, t) /\ demand /\ Prefetcher THEN PrefetchNext(a, t, {}) ELSE a
  <1>2. e = Remember(p, t, WayOf(f, t))
    BY <1>1 DEF RequestBlock
  <1>3. DevOK(f) /\ Counts(f)
    BY NoEvictionCounts
  <1> HIDE DEF f
  <1>4. DevOK(a) /\ Counts(a)
    BY <1>3, AccessOK, AccessCounts
  <1> HIDE DEF a
  <1>5. Fields(p) /\ Counts(p)
    BY <1>4, DeviceFields, PrefetchCounts
  <1> HIDE DEF p
  <1> QED BY <1>2, <1>5, RememberCounts

\* Every operation, where none invalidates.
LEMMA NextCounts ==
  ASSUME Configured, ~Inclusive, ~Flushes, IInv, Counts(dev), [Next]_dev PROVE Counts(dev')
  <1>0. DevOK(dev) /\ Fields(dev)
    BY DeviceFields DEF IInv, Good
  <1>1. CASE UNCHANGED dev
    BY <1>1
  <1>2. ASSUME NEW t \in Blocks, NEW demand \in BOOLEAN, Request(t, demand) PROVE Counts(dev')
    <2>1. t \in Nat
      BY DeviceAssumption
    <2> QED BY <1>0, <1>2, <2>1, TouchCounts, OutcomesCount DEF Request
  <1>3. ASSUME NEW t \in Blocks, NEW demand \in BOOLEAN, RequestCrossing(t, demand)
        PROVE  Counts(dev')
    <2>1. t \in Nat /\ t + 1 \in Nat
      BY DeviceAssumption
    <2>2. PICK d \in BlockOutcomes(dev, t, demand) : dev' \in BlockOutcomes(d, t + 1, demand)
      BY <1>3 DEF RequestCrossing
    <2>3. DevOK(d)
      BY <2>1, OutcomesOK DEF IInv, Good
    <2>4. Counts(d)
      BY <1>0, <2>1, OutcomesCount
    <2> QED BY <2>1, <2>2, <2>3, <2>4, OutcomesCount
  <1> QED BY <1>1, <1>2, <1>3 DEF Next, Invalidate, Flush

\* An empty device has loaded nothing.
LEMMA InitCounts == Init => Counts(dev)
  <1> SUFFICES ASSUME Init PROVE Counts(dev)
    OBVIOUS
  <1>1. dev.loaded = 0 /\ Valid(dev) = {}
    BY DEF Init, InitDevice, Valid
  <1> QED BY <1>1, FS_EmptySet DEF Counts

\* loaded_blocks, "Current valid blocks in the cache": it is their number as
\* long as no block is invalidated, below a parent that is not inclusive and on
\* a trace without flushes.  invalidate() does not count down.
THEOREM LoadedIsValid ==
  ASSUME Configured, ~Inclusive, ~Flushes
  PROVE  Spec => []LoadedCountsValid
  <1> DEFINE CInv == IInv /\ Counts(dev)
  <1>1. Init => CInv
    BY InitGood, InitCounts
  <1>2. CInv /\ [Next]_dev => CInv'
    <2>1. ASSUME CInv, [Next]_dev PROVE Counts(dev')
      BY <2>1, NextCounts
    <2>2. Counts(dev') => Counts(dev)'
      BY DEF Counts, Valid
    <2> QED BY <2>1, <2>2, NextGood
  <1>3. CInv => LoadedCountsValid
    BY DEF Counts, Valid, LoadedCountsValid
  <1> HIDE DEF CInv
  <1> QED BY <1>1, <1>2, <1>3, PTL DEF Spec
=============================================================================
