--------------------------- MODULE HostStageProofs ---------------------------
(***************************************************************************)
(* Proofs about the host stage: it implements HostTable, a session without *)
(* allocation failures being its one step; and what it delivers was        *)
(* translated in the process the script chose, the levels filled in are    *)
(* fresh, and the simulator loads what arrived.  SInv carries the latter   *)
(* from step to step of the script.                                        *)
(***************************************************************************)
EXTENDS HostTranslatorProofs, FiniteSetTheorems

-----------------------------------------------------------------------------
\* Of a finite set of numbers the elements have the ranks 1, 2, .. up to its
\* size: counting is one to one, and so reaches every rank.
LEMMA RankOnto ==
  ASSUME NEW S \in SUBSET Int, IsFiniteSet(S), NEW n \in 1..Cardinality(S)
  PROVE  \E x \in S : Cardinality({y \in S : y <= x}) = n
<1> DEFINE upTo(x) == {y \in S : y <= x}
           f == [x \in S |-> Cardinality(upTo(x))]
           T == 1..Cardinality(S)
<1>1. Cardinality(S) \in Nat
  BY FS_CardinalityType
<1>2. ASSUME NEW x \in S
      PROVE  IsFiniteSet(upTo(x)) /\ Cardinality(upTo(x)) \in T
  <2>1. upTo(x) \in SUBSET S /\ x \in upTo(x)
    OBVIOUS
  <2>2. IsFiniteSet(upTo(x)) /\ Cardinality(upTo(x)) <= Cardinality(S)
    BY <2>1, FS_Subset
  <2>3. Cardinality(upTo(x)) \in Nat /\ Cardinality(upTo(x)) # 0
    BY <2>1, <2>2, FS_CardinalityType, FS_EmptySet
  <2> QED
    BY <1>1, <2>2, <2>3
<1>3. ASSUME NEW x \in S, NEW z \in S, x < z PROVE f[x] # f[z]
  <2>0. \A y \in S : y <= x => y <= z
    BY <1>3
  <2>1. /\ upTo(x) \in SUBSET upTo(z)
        /\ z \in upTo(z) /\ z \notin upTo(x)
    <3>1. upTo(x) \in SUBSET upTo(z)
      BY <2>0
    <3>2. z <= z /\ ~(z <= x)
      BY <1>3
    <3> QED
      BY <3>1, <3>2
  <2>2. IsFiniteSet(upTo(z))
    BY <1>2
  <2>3. Cardinality(upTo(z)) = Cardinality(upTo(x)) => upTo(z) = upTo(x)
    BY <2>1, <2>2, FS_Subset
  <2> QED
    BY <2>1, <2>3
<1>4. f \in Injection(S, T)
  <2>1. f \in [S -> T]
    BY <1>2
  <2>2. \A x, z \in S : x < z \/ x = z \/ z < x
    OBVIOUS
  <2>3. \A x, z \in S : f[x] = f[z] => x = z
    BY <2>2, <1>3
  <2> HIDE DEF f
  <2> QED
    BY <2>1, <2>3 DEF Injection, IsInjective
<1>5. IsFiniteSet(T) /\ Cardinality(T) = Cardinality(S)
  BY <1>1, FS_Interval
<1>6. f \in Surjection(S, T)
  <2> HIDE DEF f, T
  <2> QED
    BY <1>4, <1>5, FS_Injection
<1> QED
  BY <1>6 DEF Surjection

\* A set of naturals that is not empty has a least element.
LEMMA LeastNumber ==
  ASSUME NEW S \in SUBSET Nat, S # {}
  PROVE  \E x \in S : \A y \in S : x <= y
<1>1. PICK s \in S : TRUE
  OBVIOUS
<1> DEFINE T == {y \in S : y <= s}
<1>2. T \in SUBSET Nat /\ T \in SUBSET Int /\ T # {} /\ \A y \in T : y <= s
  <2>1. s \in Nat /\ s <= s
    BY <1>1
  <2>2. s \in T
    BY <1>1, <2>1
  <2>3. T \in SUBSET Nat /\ \A y \in T : y <= s
    OBVIOUS
  <2> QED
    BY <2>2, <2>3
<1>3. IsFiniteSet(T)
  BY <1>1, <1>2, FS_BoundedSetOfNaturals
<1>4. 1 \in 1..Cardinality(T)
  <2>1. Cardinality(T) \in Nat /\ Cardinality(T) # 0
    BY <1>2, <1>3, FS_CardinalityType, FS_EmptySet
  <2> QED
    BY <2>1
<1> HIDE DEF T
<1>5. PICK x \in T : Cardinality({y \in T : y <= x}) = 1
  BY <1>2, <1>3, <1>4, RankOnto
<1> DEFINE U == {y \in T : y <= x}
<1>6. U \in SUBSET T /\ x \in U
  BY <1>2
<1>7. \E z : U = {z}
  BY <1>3, <1>5, <1>6, FS_Subset, FS_Singleton
<1>8. ASSUME NEW y \in S PROVE x <= y
  <2>1. x \in Nat /\ y \in Nat /\ s \in Nat /\ x <= s
    BY <1>1, <1>2
  <2>2. ASSUME y < x PROVE FALSE
    <3>1. y \in U
      BY <2>1, <2>2 DEF T
    <3> QED
      BY <1>6, <1>7, <2>1, <2>2, <3>1
  <2> QED
    BY <2>1, <2>2
<1> QED
  BY <1>8 DEF T

\* A set of places that is not empty has an earliest one.
LEMMA EarliestPlace ==
  ASSUME NEW S \in SUBSET (Nat \X Nat), S # {}
  PROVE  \E c \in S : \A e \in S : e = c \/ Atomic!Earlier(c, e)
<1> DEFINE rows == {i \in Nat : \E k \in Nat : <<i, k>> \in S}
<1>1. \A e \in S : e = <<e[1], e[2]>> /\ e[1] \in rows /\ e[2] \in Nat
  OBVIOUS
<1>2. rows \in SUBSET Nat /\ rows # {}
  BY <1>1
<1>3. PICK i \in rows : \A y \in rows : i <= y
  BY <1>2, LeastNumber
<1> DEFINE fields == {k \in Nat : <<i, k>> \in S}
<1>4. fields \in SUBSET Nat /\ fields # {}
  OBVIOUS
<1>5. PICK k \in fields : \A y \in fields : k <= y
  BY <1>4, LeastNumber
<1>6. ASSUME NEW e \in S PROVE e = <<i, k>> \/ Atomic!Earlier(<<i, k>>, e)
  <2>1. i <= e[1] /\ i \in Nat /\ e[1] \in Nat /\ k \in Nat /\ e[2] \in Nat
    BY <1>1, <1>3, <1>5
  <2>2. CASE i = e[1]
    <3>1. k <= e[2]
      BY <1>1, <1>5, <2>2
    <3> QED
      BY <1>1, <2>1, <2>2, <3>1 DEF Atomic!Earlier
  <2>3. CASE i < e[1]
    BY <2>3 DEF Atomic!Earlier
  <2> QED
    BY <2>1, <2>2, <2>3
<1> QED
  BY <1>5, <1>6

\* A set listed without repetition has as many elements as the list.
LEMMA ListedOnce ==
  ASSUME NEW T, NEW k \in Nat, NEW f \in Surjection(1..k, T), \A a, b \in 1..k : f[a] = f[b] => a = b
  PROVE  Cardinality(T) = k
<1>1. IsFiniteSet(1..k) /\ Cardinality(1..k) = k
  BY FS_Interval
<1>2. f \in Injection(1..k, T)
  BY DEF Injection, Surjection, IsInjective
<1> QED
  BY <1>1, <1>2, FS_Surjection

\* The instance counts as the library does.
LEMMA SameCardinality == \A S : Atomic!Cardinality(S) = Cardinality(S)
BY DEF Atomic!Cardinality, Cardinality

\* g lists F by rank.
Ranked(F, n, g) == Cardinality(F) = n /\ \A k \in 1..n : Atomic!Nth(F, k) = g[k]

\* Places listed in order have their index for rank.
LEMMA SortedPlaces ==
  ASSUME NEW F \in SUBSET (Nat \X Nat), NEW n \in Nat, NEW g \in Surjection(1..n, F),
         \A a, b \in 1..n : a < b => Atomic!Earlier(g[a], g[b])
  PROVE  Ranked(F, n, g)
<1>1. /\ g \in [1..n -> F] /\ \A c \in F : \E a \in 1..n : g[a] = c
      /\ \A a \in 1..n : g[a] \in Nat \X Nat
  BY DEF Surjection
<1>2. ASSUME NEW a \in 1..n, NEW b \in 1..n, g[a] = g[b] PROVE a = b
  <2>1. ~Atomic!Earlier(g[a], g[b]) /\ ~Atomic!Earlier(g[b], g[a])
    BY <1>1, <1>2, EarlierOrder
  <2> QED
    BY <2>1
<1>4. Cardinality(F) = n
  BY <1>2, ListedOnce
<1>5. ASSUME NEW k \in 1..n PROVE Atomic!Rank(F, g[k]) = k
  <2> DEFINE T == {e \in F : e = g[k] \/ Atomic!Earlier(e, g[k])}
             f == [a \in 1..k |-> g[a]]
  <2>1. \A a \in 1..k : a \in 1..n /\ (a = k \/ a < k)
    OBVIOUS
  <2>2. \A a \in 1..k : g[a] \in T
    BY <1>1, <2>1
  <2>3. ASSUME NEW e \in T PROVE \E a \in 1..k : g[a] = e
    <3>1. PICK a \in 1..n : g[a] = e
      BY <1>1
    <3>2. ~Atomic!Earlier(g[k], e)
      BY <1>1, <2>3, EarlierOrder
    <3>3. ~(k < a)
      BY <3>1, <3>2
    <3> QED
      BY <3>1, <3>3
  <2>4. f \in Surjection(1..k, T)
    <3>1. f \in [1..k -> T] /\ \A e \in T : \E a \in 1..k : f[a] = e
      BY <2>2, <2>3
    <3> QED
      BY <3>1 DEF Surjection
  <2>5. \A a, b \in 1..k : f[a] = f[b] => a = b
    BY <1>2, <2>1
  <2>6. k \in Nat
    OBVIOUS
  <2> HIDE DEF f, T
  <2>7. Cardinality(T) = k
    BY <2>4, <2>5, <2>6, ListedOnce
  <2>8. Atomic!Rank(F, g[k]) = Cardinality(T)
    BY SameCardinality DEF Atomic!Rank, T
  <2> QED
    BY <2>7, <2>8
<1>6. ASSUME NEW k \in 1..n PROVE Atomic!Nth(F, k) = g[k]
  <2>1. g[k] \in F /\ Atomic!Rank(F, g[k]) = k
    BY <1>1, <1>5
  <2>2. ASSUME NEW c \in F, Atomic!Rank(F, c) = k PROVE c = g[k]
    <3>1. PICK a \in 1..n : g[a] = c
      BY <1>1
    <3> QED
      BY <1>5, <2>2, <3>1
  <2> DEFINE R(c) == Atomic!Rank(F, c) = k
  <2>3. g[k] \in F /\ R(g[k]) /\ \A c \in F : R(c) => c = g[k]
    BY <2>1, <2>2
  <2> HIDE DEF R
  <2>4. (CHOOSE c \in F : R(c)) = g[k]
    BY <2>3
  <2> QED
    BY <2>4 DEF R, Atomic!Nth
<1> QED
  BY <1>4, <1>6 DEF Ranked

\* A frame of the dump is named for the first time somewhere.
LEMMA FirstPlace ==
  ASSUME dump \in Dumps, NEW c \in Atomic!Places(dump), Atomic!Frame(dump, c) # 0
  PROVE  \E f \in Atomic!Firsts(dump) :
           /\ Atomic!Frame(dump, f) = Atomic!Frame(dump, c)
           /\ \A e \in Atomic!Places(dump) :
                Atomic!Frame(dump, e) = Atomic!Frame(dump, c) => e = f \/ Atomic!Earlier(f, e)
<1> DEFINE P == Atomic!Places(dump)
           Fr(e) == Atomic!Frame(dump, e)
           S == {e \in P : Fr(e) = Fr(c)}
<1>1. \A e \in P : e \in Nat \X Nat
  BY PlacesOf
<1> HIDE DEF P, Fr
<1>2. S \in SUBSET (Nat \X Nat) /\ S # {}
  BY <1>1 DEF P
<1>3. PICK f \in S : \A e \in S : e = f \/ Atomic!Earlier(f, e)
  <2> HIDE DEF S
  <2> QED
    BY <1>2, EarliestPlace
<1>4. ASSUME NEW e \in P, Atomic!Earlier(e, f) PROVE Fr(e) # Fr(f)
  <2>1. e # f /\ ~Atomic!Earlier(f, e)
    BY <1>1, <1>3, <1>4, EarlierOrder
  <2> QED
    BY <1>3, <2>1
<1>5. f \in P /\ Fr(f) = Fr(c) /\ Fr(c) # 0
  BY <1>3 DEF Fr
<1>6. f \in Atomic!Firsts(dump)
  BY <1>4, <1>5 DEF Atomic!Firsts, P, Fr
<1> QED
  BY <1>3, <1>5, <1>6 DEF P, Fr

\* After a session that no allocation failure disturbed the table is the
\* frames of the dump in the order in which it first names them.
AsFirstSeen == Whole => [i \in DOMAIN entries |-> entries[i].pfn] = Atomic!FirstSeen(dump)

\* It is so, since every frame of the dump has a row, no frame two, and the
\* rows are in order.
LEMMA WholeIsFirstSeen == OInv => AsFirstSeen
<1> SUFFICES ASSUME OInv, Whole
             PROVE  [i \in DOMAIN entries |-> entries[i].pfn] = Atomic!FirstSeen(dump)
  BY DEF AsFirstSeen
<1> DEFINE P == Atomic!Places(dump)
           F == Atomic!Firsts(dump)
           Fr(c) == Atomic!Frame(dump, c)
           n == Len(entries)
           pf(a) == entries[a].pfn
           First(a, c) == Fr(c) = pf(a) /\ \A e \in P : Fr(e) = pf(a) => e = c \/ Atomic!Earlier(c, e)
           g == [a \in 1..n |-> CHOOSE c \in F : First(a, c)]
<1>1. /\ IInv /\ NamedFrames /\ Placed /\ Ordered /\ TypeOK /\ FrameOnce /\ dump \in Dumps
      /\ entries \in Seq(Entry) /\ faults = {} /\ pc = "idle" /\ pos = Size
  BY DEF OInv, TInv, IInv, TypeOK, Whole, Entry
<1>2. n \in Nat /\ DOMAIN entries = 1..n
  BY <1>1
<1>3. Len(dump) \in Nat /\ DOMAIN dump = 1..Len(dump)
  BY <1>1, DumpType
<1>4. Underway
  BY <1>1, <1>3 DEF Underway, Size, LineEnd
<1>5. \A c \in P : c \in Nat \X Nat
  BY <1>1, PlacesOf
<1>6. ASSUME NEW c \in P, Fr(c) # 0 PROVE \E a \in 1..n : pf(a) = Fr(c)
  <2>1. c[1] \in DOMAIN dump /\ c[2] \in DOMAIN dump[c[1]]
    BY <1>1, PlacesOf
  <2>2. LineEnd(c[1]) <= pos
    BY <1>1, <1>3, <2>1 DEF Size, LineEnd
  <2>3. Covered(c[1])
    BY <1>1, <2>1, <2>2, DoneWhenIdle DEF WrittenIsDone
  <2>4. Fr(c) \in Row(c[1]) \ {0}
    BY <1>6, <2>1 DEF Row, Atomic!Frame
  <2>5. Fr(c) \in Keys
    BY <1>1, <2>3, <2>4 DEF Covered
  <2> QED
    BY <1>2, <2>5 DEF Keys
<1> HIDE DEF n
<1>7. ASSUME NEW a \in 1..n PROVE \E c \in F : First(a, c)
  <2>1. pf(a) # 0
    BY <1>1, <1>2 DEF NamedFrames
  <2>2. PICK c \in P : Fr(c) = pf(a)
    BY <1>1, <1>2, <1>4 DEF Placed, NamedAt
  <2> QED
    BY <1>1, <2>1, <2>2, FirstPlace
<1> HIDE DEF First
<1>8. ASSUME NEW a \in 1..n PROVE g[a] \in F /\ First(a, g[a])
  <2>1. g[a] = CHOOSE c \in F : First(a, c)
    OBVIOUS
  <2> QED
    BY <1>7, <2>1
<1> HIDE DEF g
<1>9. F \in SUBSET P /\ F \in SUBSET (Nat \X Nat)
  BY <1>5 DEF Atomic!Firsts
<1>10. \A c, e \in F : Fr(c) = Fr(e) => ~Atomic!Earlier(c, e)
  BY DEF Atomic!Firsts
<1>11. \A c \in F : Fr(c) # 0
  BY DEF Atomic!Firsts
<1>12. \A a \in 1..n : Fr(g[a]) = pf(a)
  BY <1>8 DEF First
<1>13. ASSUME NEW c \in F PROVE \E a \in 1..n : g[a] = c
  <2>1. PICK a \in 1..n : pf(a) = Fr(c)
    BY <1>6, <1>9, <1>11
  <2>2. ~Atomic!Earlier(c, g[a]) /\ ~Atomic!Earlier(g[a], c)
    BY <1>8, <1>10, <1>12, <2>1
  <2> QED
    BY <1>8, <1>9, <2>2, EarlierOrder
<1>14. ASSUME NEW a \in 1..n, NEW b \in 1..n, a < b PROVE Atomic!Earlier(g[a], g[b])
  <2>1. PICK c \in P : NamedAt(c, a) /\ \A e \in P : NamedAt(e, b) => Atomic!Earlier(c, e)
    BY <1>1, <1>2, <1>4, <1>14 DEF Ordered
  <2>2. NamedAt(g[b], b) /\ g[a] \in P /\ g[b] \in P
    BY <1>8, <1>9, <1>12 DEF NamedAt
  <2>3. Atomic!Earlier(c, g[b])
    BY <2>1, <2>2
  <2>4. c = g[a] \/ Atomic!Earlier(g[a], c)
    BY <1>8, <2>1 DEF First, NamedAt
  <2> QED
    BY <1>5, <2>2, <2>3, <2>4, EarlierOrder
<1>15. g \in Surjection(1..n, F)
  <2>1. g \in [1..n -> F]
    BY <1>8 DEF g
  <2> QED
    BY <1>13, <2>1 DEF Surjection
<1>16. Ranked(F, n, g)
  <2> HIDE DEF F
  <2> QED
    BY <1>2, <1>9, <1>14, <1>15, SortedPlaces
<1>17. \A k \in 1..n : Atomic!Frame(dump, Atomic!Nth(F, k)) = pf(k)
  BY <1>12, <1>16 DEF Ranked
<1>18. Atomic!Cardinality(F) = n
  BY <1>16, SameCardinality DEF Ranked
<1> QED
  BY <1>2, <1>17, <1>18 DEF Atomic!FirstSeen

\* A session that no allocation failure disturbed is one step: the chunks it
\* was written in, the lines they cut and the cache of seen frames do not show
\* in the table, which holds the frames of the dump once each and in order.
THEOREM StageImplementsHostTable == StageSpec => ImplementsHostTable
<1> DEFINE rows == [i \in DOMAIN entries |-> entries[i].pfn]
           shown == IF Whole THEN rows ELSE <<>>
<1>1. StageInit => Atomic!Init
  BY DEF StageInit, Atomic!Init, Whole
<1>2. ASSUME OInv, OInv', AsFirstSeen', [StageNext]_stageVars PROVE [Atomic!Next]_shown
  <2>1. CASE ~Whole'
    BY <2>1 DEF Atomic!Next, Atomic!Clear
  <2>2. CASE Whole' /\ ~Whole
    <3>1. dump' \in Dumps
      BY <1>2 DEF OInv, TInv, IInv, TypeOK
    <3>2. PICK d \in Dumps : d = dump'
      BY <3>1
    <3>3. rows' = Atomic!FirstSeen(d)
      BY <1>2, <2>2, <3>2 DEF AsFirstSeen
    <3>4. Atomic!Translate(d)
      BY <2>2, <3>3 DEF Atomic!Translate
    <3> QED
      BY <3>4 DEF Atomic!Next
  <2>3. CASE Whole' /\ Whole
    <3>1. UNCHANGED entries
      BY <1>2, <2>3, WholeStays DEF OInv, TInv
    <3> QED
      BY <2>3, <3>1
  <2> QED
    BY <2>1, <2>2, <2>3
<1> QED
  BY <1>1, <1>2, OrderInvariance, WholeIsFirstSeen, PTL DEF StageSpec, ImplementsHostTable, Atomic!Spec

-----------------------------------------------------------------------------
\* From load_module on the module holds nothing of another process: the base
\* is the target's or none, and every row was made with it.
FromTarget ==
  /\ step = "config" => entries = <<>> /\ guest_ram_base = NoQemu
  /\ step \in Translating =>
       /\ qemu_pid = target /\ guest_ram_base \in {target, NoQemu}
       /\ \A i \in DOMAIN entries : entries[i].mm = target /\ entries[i].base = guest_ram_base

\* What the script holds is what the module showed, and the file what the
\* augmentor made of it.
AsShown == step \in {"augment", "ready"} => raw.rows = [i \in DOMAIN entries |-> Shown(entries[i])]
AsFilled ==
  step = "ready" =>
    /\ out = [count |-> Len(Filled(raw.rows)), rows |-> Filled(raw.rows)]
    /\ Absent(out.rows) = {} /\ out.rows # <<>>

SInv == IInv /\ StageTypes /\ FromTarget /\ NamedFrames /\ AsShown /\ AsFilled /\ LoadedUpToCut

-----------------------------------------------------------------------------
\* The n-th smallest element is one, and its rank is n.
LEMMA NthIsNth ==
  ASSUME NEW S \in SUBSET Int, IsFiniteSet(S), NEW n \in 1..Cardinality(S)
  PROVE  NthOf(S, n) \in S /\ Cardinality({y \in S : y <= NthOf(S, n)}) = n
BY RankOnto DEF NthOf

\* Places of a file, row and column, are told apart by how many come before.
LEMMA OrdinalApart ==
  ASSUME NEW S \in SUBSET (Nat \X Nat), IsFiniteSet(S), NEW c \in S, NEW d \in S, c # d
  PROVE  /\ Ordinal(S, c) # Ordinal(S, d)
         /\ Ordinal(S, c) \in Nat \ {0}
<1> DEFINE upTo(x) == {y \in S : y = x \/ Before(y, x)}
<1>1. \A x \in S : upTo(x) \in SUBSET S /\ x \in upTo(x)
  OBVIOUS
<1>2. \A x \in S : IsFiniteSet(upTo(x))
  BY <1>1, FS_Subset
<1>3. ASSUME NEW x \in S, NEW z \in S, Before(x, z)
      PROVE  Cardinality(upTo(x)) # Cardinality(upTo(z))
  <2>1. \A y \in S : Before(y, x) => Before(y, z)
    BY <1>3 DEF Before
  <2>2. upTo(x) \in SUBSET upTo(z)
    BY <1>3, <2>1
  <2>3. z \notin upTo(x)
    <3>1. z # x /\ ~Before(z, x)
      BY <1>3 DEF Before
    <3> QED
      BY <3>1
  <2>4. Cardinality(upTo(z)) = Cardinality(upTo(x)) => upTo(z) = upTo(x)
    BY <1>2, <2>2, FS_Subset
  <2> QED
    BY <1>1, <2>3, <2>4
<1>4. Before(c, d) \/ Before(d, c)
  BY DEF Before
<1>5. Cardinality(upTo(c)) \in Nat /\ Cardinality(upTo(c)) # 0
  BY <1>1, <1>2, FS_CardinalityType, FS_EmptySet
<1> QED
  BY <1>3, <1>4, <1>5 DEF Ordinal

\* A first cell has an ordinal too.
LEMMA OrdinalPositive ==
  ASSUME NEW S, IsFiniteSet(S), NEW c \in S PROVE Ordinal(S, c) \in Nat \ {0}
<1> DEFINE upTo == {y \in S : y = c \/ Before(y, c)}
<1>1. upTo \in SUBSET S /\ c \in upTo
  OBVIOUS
<1>2. IsFiniteSet(upTo)
  BY <1>1, FS_Subset
<1>3. Cardinality(upTo) \in Nat /\ Cardinality(upTo) # 0
  BY <1>1, <1>2, FS_CardinalityType, FS_EmptySet
<1> QED
  BY <1>3 DEF Ordinal

\* The unallocated PFNs are none of those in use, and finitely many.
LEMMA UnallocatedApart ==
  ASSUME NEW U \in SUBSET Nat, IsFiniteSet(U)
  PROVE  /\ Unallocated(U) \in SUBSET Nat /\ IsFiniteSet(Unallocated(U))
         /\ Unallocated(U) \cap U = {}
         /\ U = {} => Unallocated(U) = {}
<1> DEFINE between(a, b) == {n \in (a + 1)..(b - 1) : Gap(U, a, b)}
           f == [c \in U \X U |-> between(c[1], c[2])]
           T == {f[c] : c \in U \X U}
<1>1. Unallocated(U) \in SUBSET UNION T
  <2> SUFFICES ASSUME NEW n \in Unallocated(U) PROVE \E t \in T : n \in t
    OBVIOUS
  <2>1. PICK a \in U, b \in U : n \in between(a, b)
    BY DEF Unallocated
  <2>2. <<a, b>> \in U \X U /\ f[<<a, b>>] = between(a, b)
    OBVIOUS
  <2> HIDE DEF f, between
  <2> QED
    BY <2>1, <2>2
<1>2. \A n \in Unallocated(U) : n \in Nat /\ n \notin U
  BY DEF Gap, Unallocated
<1>3. IsFiniteSet(U \X U)
  BY FS_Product
<1>4. f \in Surjection(U \X U, T)
  <2>1. f \in [U \X U -> T] /\ \A t \in T : \E c \in U \X U : f[c] = t
    OBVIOUS
  <2> HIDE DEF f, T
  <2> QED
    BY <2>1 DEF Surjection
<1>5. IsFiniteSet(T)
  <2> HIDE DEF f, T
  <2> QED
    BY <1>3, <1>4, FS_Surjection
<1>6. \A t \in T : IsFiniteSet(t)
  <2>1. ASSUME NEW a \in U, NEW b \in U PROVE IsFiniteSet(between(a, b))
    <3>1. IsFiniteSet((a + 1)..(b - 1))
      BY FS_Interval
    <3>2. between(a, b) \in SUBSET ((a + 1)..(b - 1))
      OBVIOUS
    <3> QED
      BY <3>1, <3>2, FS_Subset
  <2>2. \A c \in U \X U : c[1] \in U /\ c[2] \in U /\ f[c] = between(c[1], c[2])
    OBVIOUS
  <2> HIDE DEF between, f
  <2>3. \A c \in U \X U : IsFiniteSet(f[c])
    BY <2>1, <2>2, Zenon
  <2> QED
    BY <2>3
<1>7. IsFiniteSet(UNION T)
  <2> HIDE DEF T
  <2> QED
    BY <1>5, <1>6, FS_UNION
<1>8. IsFiniteSet(Unallocated(U))
  <2> HIDE DEF T
  <2> QED
    BY <1>1, <1>7, FS_Subset
<1>9. U = {} => Unallocated(U) = {}
  BY DEF Unallocated
<1> QED
  BY <1>2, <1>8, <1>9

-----------------------------------------------------------------------------
\* A row of /proc/host_gpa_output.
Row5 == [gpa : Nat, pfns : [1..5 -> Nat \cup {NAN}]]

\* What a row of a file holds.
LEMMA RowOf ==
  ASSUME NEW rows \in Seq(Row5), NEW i \in DOMAIN rows
  PROVE  rows[i].gpa \in Nat /\ rows[i].pfns \in [1..5 -> Nat \cup {NAN}]
<1>1. rows[i] \in Row5
  OBVIOUS
<1> QED
  BY <1>1 DEF Row5

InParts(r, s, t, u) ==
  /\ DOMAIN r = 1..(Len(s) + Len(t) + Len(u))
  /\ \A i \in 1..Len(s) : r[i] = s[i]
  /\ \A i \in 1..Len(t) : r[Len(s) + i] = t[i]
  /\ \A i \in 1..Len(u) : r[Len(s) + Len(t) + i] = u[i]

\* Where the elements of three sequences in a row are.
LEMMA ThreeParts ==
  ASSUME NEW R, NEW s \in Seq(R), NEW t \in Seq(R), NEW u \in Seq(R)
  PROVE  InParts((s \o t) \o u, s, t, u)
<1>1. /\ s \o t \in Seq(R) /\ Len(s \o t) = Len(s) + Len(t)
      /\ \A i \in 1..Len(s) : (s \o t)[i] = s[i]
      /\ \A i \in 1..Len(t) : (s \o t)[Len(s) + i] = t[i]
  OBVIOUS
<1> DEFINE h == s \o t
<1> HIDE DEF h
<1>2. h \in Seq(R)
  BY <1>1 DEF h
<1>3. /\ DOMAIN (h \o u) = 1..(Len(h) + Len(u))
      /\ \A i \in 1..Len(h) : (h \o u)[i] = h[i]
      /\ \A i \in 1..Len(u) : (h \o u)[Len(h) + i] = u[i]
  BY <1>2
<1>4. Len(h) = Len(s) + Len(t) /\ Len(s) \in Nat /\ Len(t) \in Nat /\ Len(u) \in Nat
  BY <1>1 DEF h
<1>5. (\A i \in 1..Len(s) : h[i] = s[i]) /\ (\A i \in 1..Len(t) : h[Len(s) + i] = t[i])
  BY <1>1 DEF h
<1> DEFINE r == h \o u
           a == Len(s)
           b == Len(t)
           c == Len(u)
           l == Len(h)
<1>6. a \in Nat /\ b \in Nat /\ c \in Nat /\ l = a + b
  BY <1>4
<1>7. DOMAIN r = 1..(l + c) /\ (\A i \in 1..l : r[i] = h[i]) /\ (\A i \in 1..c : r[l + i] = u[i])
  BY <1>3
<1>8. (\A i \in 1..a : h[i] = s[i]) /\ (\A i \in 1..b : h[a + i] = t[i])
  BY <1>5
<1> HIDE DEF r, a, b, c, l
<1>9. /\ DOMAIN r = 1..(a + b + c) /\ (\A i \in 1..a : r[i] = s[i])
      /\ (\A i \in 1..b : r[a + i] = t[i]) /\ (\A i \in 1..c : r[a + b + i] = u[i])
  <2>1. DOMAIN r = 1..(a + b + c) /\ l = a + b
    BY <1>6, <1>7
  <2>2. ASSUME NEW i \in 1..a PROVE r[i] = s[i]
    <3>1. i \in 1..l
      BY <1>6
    <3> QED
      BY <1>7, <1>8, <3>1
  <2>3. ASSUME NEW i \in 1..b PROVE r[a + i] = t[i]
    <3>1. a + i \in 1..l
      BY <1>6
    <3> QED
      BY <1>7, <1>8, <3>1
  <2>4. ASSUME NEW i \in 1..c PROVE r[a + b + i] = u[i]
    BY <1>7, <2>1
  <2> QED
    BY <2>1, <2>2, <2>3, <2>4
<1> QED
  BY <1>9 DEF InParts, r, a, b, c, h

\* The cells of a file are pairs of a row and a level, and finitely many.
LEMMA CellsOf ==
  ASSUME NEW rows \in Seq(Row5)
  PROVE  /\ Cells(rows) = (DOMAIN rows) \X (1..5)
         /\ Cells(rows) \in SUBSET (Nat \X Nat) /\ IsFiniteSet(Cells(rows))
         /\ \A c \in Cells(rows) : rows[c[1]].pfns[c[2]] \in Nat \cup {NAN}
<1>1. DOMAIN rows = 1..Len(rows) /\ Len(rows) \in Nat
  OBVIOUS
<1>2. Cells(rows) = (DOMAIN rows) \X (1..5)
  BY DEF Cells
<1>3. \A c \in (DOMAIN rows) \X (1..5) : c[1] \in DOMAIN rows /\ c[2] \in 1..5
  OBVIOUS
<1>4. \A c \in Cells(rows) : rows[c[1]].pfns[c[2]] \in Nat \cup {NAN}
  <2>1. \A i \in DOMAIN rows : rows[i].pfns \in [1..5 -> Nat \cup {NAN}]
    BY RowOf
  <2> QED
    BY <1>2, <1>3, <2>1
<1>5. IsFiniteSet(1..Len(rows)) /\ IsFiniteSet(1..5)
  <2>1. 1 \in Int /\ 5 \in Int /\ Len(rows) \in Int
    BY <1>1
  <2> QED
    BY <2>1, FS_Interval, Zenon
<1>6. IsFiniteSet((DOMAIN rows) \X (1..5))
  BY <1>1, <1>5, FS_Product
<1>7. (DOMAIN rows) \X (1..5) \in SUBSET (Nat \X Nat)
  BY <1>1
<1> QED
  BY <1>2, <1>4, <1>6, <1>7

\* So are the absent ones and the PFNs in use.
LEMMA InUseFinite ==
  ASSUME NEW rows \in Seq(Row5)
  PROVE  /\ InUse(rows) \in SUBSET Nat /\ IsFiniteSet(InUse(rows))
         /\ Absent(rows) \in SUBSET (Nat \X Nat) /\ IsFiniteSet(Absent(rows))
<1> DEFINE C == Cells(rows)
           f == [c \in C |-> rows[c[1]].pfns[c[2]]]
           T == {rows[c[1]].pfns[c[2]] : c \in C}
<1>1. /\ C \in SUBSET (Nat \X Nat) /\ IsFiniteSet(C)
      /\ \A c \in C : rows[c[1]].pfns[c[2]] \in Nat \cup {NAN}
  BY CellsOf
<1> HIDE DEF C
<1>2. f \in Surjection(C, T)
  <2>1. f \in [C -> T] /\ \A t \in T : \E c \in C : f[c] = t
    OBVIOUS
  <2> HIDE DEF f, T
  <2> QED
    BY <2>1 DEF Surjection
<1>3. IsFiniteSet(T)
  <2> HIDE DEF f, T
  <2> QED
    BY <1>1, <1>2, FS_Surjection
<1>4. InUse(rows) = T \ {NAN}
  BY DEF InUse, C
<1>5. IsFiniteSet(T \ {NAN})
  <2> HIDE DEF T
  <2> QED
    BY <1>3, FS_Difference
<1>6. T \ {NAN} \in SUBSET Nat
  BY <1>1
<1>7. Absent(rows) \in SUBSET C
  BY DEF Absent, C
<1>8. IsFiniteSet(Absent(rows))
  BY <1>1, <1>7, FS_Subset
<1> QED
  BY <1>1, <1>4, <1>5, <1>6, <1>7, <1>8

\* What host_pt_augmentor writes for a level: what was there, or the free PFN
\* whose rank is the ordinal of the absent level.
LEMMA FilledLevel ==
  ASSUME NEW rows \in Seq(Row5), NEW c \in Cells(rows)
  PROVE  LET v == Filled(rows)[c[1]].pfns[c[2]]
             free == Unallocated(InUse(rows))
             n == Ordinal(Absent(rows), c)
         IN  /\ c \notin Absent(rows) => v = rows[c[1]].pfns[c[2]]
             /\ c \in Absent(rows) /\ n <= Cardinality(free) =>
                  v \in free /\ Cardinality({y \in free : y <= v}) = n
             /\ c \in Absent(rows) /\ ~(n <= Cardinality(free)) => v = NAN
<1> DEFINE v == Filled(rows)[c[1]].pfns[c[2]]
           free == Unallocated(InUse(rows))
           n == Ordinal(Absent(rows), c)
<1>1. c = <<c[1], c[2]>> /\ c[1] \in DOMAIN rows /\ c[2] \in 1..5
  BY CellsOf
<1>2. v = IF c \in Absent(rows) /\ n <= Cardinality(free) THEN NthOf(free, n) ELSE rows[c[1]].pfns[c[2]]
  BY <1>1 DEF Filled
<1>3. free \in SUBSET Int /\ IsFiniteSet(free)
  BY InUseFinite, UnallocatedApart
<1>4. Cardinality(free) \in Nat
  BY <1>3, FS_CardinalityType
<1>5. c \in Absent(rows) => n \in Nat \ {0} /\ rows[c[1]].pfns[c[2]] = NAN
  BY InUseFinite, OrdinalPositive DEF Absent
<1> HIDE DEF v, free, n
<1>6. c \in Absent(rows) /\ n <= Cardinality(free) =>
        NthOf(free, n) \in free /\ Cardinality({y \in free : y <= NthOf(free, n)}) = n
  BY <1>3, <1>4, <1>5, NthIsNth
<1>7. /\ c \notin Absent(rows) => v = rows[c[1]].pfns[c[2]]
      /\ c \in Absent(rows) /\ n <= Cardinality(free) =>
           v \in free /\ Cardinality({y \in free : y <= v}) = n
      /\ c \in Absent(rows) /\ ~(n <= Cardinality(free)) => v = NAN
  BY <1>2, <1>5, <1>6
<1> QED
  BY <1>7 DEF v, free, n

\* The augmentor keeps the rows, their order and their GPAs.
LEMMA FilledRows ==
  ASSUME NEW rows \in Seq(Row5)
  PROVE  /\ Filled(rows) \in Seq(Row5) /\ DOMAIN Filled(rows) = DOMAIN rows
         /\ Len(Filled(rows)) = Len(rows)
         /\ \A i \in DOMAIN rows : Filled(rows)[i].gpa = rows[i].gpa
<1>1. /\ DOMAIN rows = 1..Len(rows) /\ Len(rows) \in Nat
      /\ \A i \in DOMAIN rows : rows[i].gpa \in Nat
  BY RowOf
<1>2. /\ DOMAIN Filled(rows) = DOMAIN rows
      /\ \A i \in DOMAIN rows : Filled(rows)[i].gpa = rows[i].gpa
  BY DEF Filled
<1>3. ASSUME NEW i \in DOMAIN rows PROVE Filled(rows)[i] \in Row5
  <2>1. ASSUME NEW k \in 1..5 PROVE Filled(rows)[i].pfns[k] \in Nat \cup {NAN}
    <3> DEFINE c == <<i, k>>
               free == Unallocated(InUse(rows))
    <3>1. c \in Cells(rows) /\ c[1] = i /\ c[2] = k /\ rows[i].pfns[k] \in Nat \cup {NAN}
      BY CellsOf
    <3>2. free \in SUBSET Nat
      BY InUseFinite, UnallocatedApart
    <3> HIDE DEF c, free
    <3>3. \/ Filled(rows)[i].pfns[k] = rows[i].pfns[k]
          \/ Filled(rows)[i].pfns[k] \in free
          \/ Filled(rows)[i].pfns[k] = NAN
      BY <3>1, FilledLevel DEF free
    <3> QED
      BY <3>1, <3>2, <3>3
  <2>2. Filled(rows)[i] = [gpa |-> rows[i].gpa, pfns |-> Filled(rows)[i].pfns]
    BY DEF Filled
  <2>3. Filled(rows)[i].pfns = [k \in 1..5 |-> Filled(rows)[i].pfns[k]]
    BY DEF Filled
  <2>4. Filled(rows)[i].pfns \in [1..5 -> Nat \cup {NAN}]
    BY <2>1, <2>3
  <2> QED
    BY <1>1, <2>2, <2>4 DEF Row5
<1>4. Filled(rows) = [i \in 1..Len(rows) |-> Filled(rows)[i]]
  BY <1>1 DEF Filled
<1>5. Filled(rows) \in [1..Len(rows) -> Row5]
  BY <1>1, <1>3, <1>4
<1> QED
  BY <1>1, <1>2, <1>5

\* In new the level c has a PFN of its own that rows has not.
Fresh(rows, new, c) ==
  LET v == new[c[1]].pfns[c[2]]
  IN  /\ v \notin InUse(rows)
      /\ \A d \in Absent(rows) \ {c} : new[d[1]].pfns[d[2]] # v

\* A file without absent levels left gives every level that was absent a free
\* PFN of its own.
LEMMA FillsApart ==
  ASSUME NEW rows \in Seq(Row5), Absent(Filled(rows)) = {}, NEW c \in Absent(rows)
  PROVE  Fresh(rows, Filled(rows), c)
<1> DEFINE v(d) == Filled(rows)[d[1]].pfns[d[2]]
           free == Unallocated(InUse(rows))
           n(d) == Ordinal(Absent(rows), d)
<1>1. ASSUME NEW d \in Absent(rows)
      PROVE  v(d) \in free /\ Cardinality({y \in free : y <= v(d)}) = n(d)
  <2>1. d \in Cells(rows)
    BY DEF Absent
  <2>2. d \in Cells(Filled(rows))
    BY <2>1, FilledRows DEF Cells
  <2>3. v(d) # NAN
    BY <2>2 DEF Absent
  <2> QED
    BY <2>1, <2>3, FilledLevel
<1>2. free \cap InUse(rows) = {}
  BY InUseFinite, UnallocatedApart
<1>3. Absent(rows) \in SUBSET (Nat \X Nat) /\ IsFiniteSet(Absent(rows))
  BY InUseFinite
<1>4. \A d \in Absent(rows) \ {c} : n(d) # n(c)
  BY <1>3, OrdinalApart
<1> HIDE DEF v, free, n
<1>5. v(c) \notin InUse(rows) /\ \A d \in Absent(rows) \ {c} : v(d) # v(c)
  BY <1>1, <1>2, <1>4
<1> QED
  BY <1>5 DEF v, Fresh

\* A file whose levels are all absent has no gaps to fill them from.
LEMMA NothingToFillFrom ==
  ASSUME NEW rows \in Seq(Row5), rows # <<>>,
         \A i \in DOMAIN rows : \A k \in 1..5 : rows[i].pfns[k] = NAN
  PROVE  Absent(Filled(rows)) # {}
<1> DEFINE c == <<1, 1>>
<1>1. c \in Cells(rows) /\ c[1] = 1 /\ c[2] = 1
  BY CellsOf
<1>2. \A d \in Cells(rows) : rows[d[1]].pfns[d[2]] = NAN
  BY CellsOf
<1>3. InUse(rows) = {}
  BY <1>2 DEF InUse
<1>4. Unallocated(InUse(rows)) = {} /\ Cardinality({}) = 0
  BY <1>3, FS_EmptySet DEF Unallocated
<1>5. c \in Absent(rows)
  BY <1>1, <1>2 DEF Absent
<1>6. Ordinal(Absent(rows), c) \in Nat \ {0}
  BY <1>5, InUseFinite, OrdinalPositive
<1>7. ~(Ordinal(Absent(rows), c) <= Cardinality(Unallocated(InUse(rows))))
  BY <1>4, <1>6
<1>8. Filled(rows)[c[1]].pfns[c[2]] = NAN
  BY <1>1, <1>5, <1>7, FilledLevel
<1>9. c \in Cells(Filled(rows))
  BY <1>1, FilledRows DEF Cells
<1> QED
  BY <1>8, <1>9 DEF Absent

-----------------------------------------------------------------------------
\* The constructor keeps of a GPA the row that is read first.
LEMMA KeptFirst ==
  ASSUME NEW read, NEW m \in Nat, DOMAIN read = 1..m, NEW i \in 1..m,
         \A j \in 1..(i - 1) : read[j].gpa # read[i].gpa
  PROVE  /\ DOMAIN Kept(read) = {read[j].gpa : j \in 1..m}
         /\ read[i].gpa \in DOMAIN Kept(read) /\ Kept(read)[read[i].gpa] = read[i].pfns
<1> DEFINE g == read[i].gpa
           first == CHOOSE j \in DOMAIN read : read[j].gpa = g /\ \A l \in 1..(j - 1) : read[l].gpa # g
<1>1. first \in 1..m /\ read[first].gpa = g /\ \A l \in 1..(first - 1) : read[l].gpa # g
  OBVIOUS
<1> HIDE DEF first
<1>2. first = i
  <2>1. ~(first < i)
    BY <1>1
  <2>2. ~(i < first)
    BY <1>1
  <2> QED
    BY <1>1, <2>1, <2>2
<1>3. DOMAIN Kept(read) = {read[j].gpa : j \in 1..m} /\ g \in {read[j].gpa : j \in 1..m}
  BY DEF Kept
<1>4. Kept(read)[g] = read[first].pfns
  BY <1>3 DEF Kept, first
<1> QED
  BY <1>2, <1>3, <1>4

\* As many GPAs as rows, when no two rows have the same.
LEMMA GpasCounted ==
  ASSUME NEW read, NEW m \in Nat, DOMAIN read = 1..m,
         \A i, j \in 1..m : read[i].gpa = read[j].gpa => i = j
  PROVE  Cardinality({read[j].gpa : j \in 1..m}) = m
<1> DEFINE f == [j \in 1..m |-> read[j].gpa]
           T == {read[j].gpa : j \in 1..m}
<1>1. f \in [1..m -> T] /\ (\A t \in T : \E j \in 1..m : f[j] = t)
  OBVIOUS
<1>2. \A i, j \in 1..m : f[i] = f[j] => i = j
  OBVIOUS
<1> HIDE DEF f, T
<1>3. f \in Bijection(1..m, T)
  BY <1>1, <1>2 DEF Bijection, Injection, Surjection, IsInjective
<1>4. ExistsBijection(1..m, T)
  BY <1>3 DEF ExistsBijection
<1> QED
  BY <1>4, FS_CountingElements DEF T

\* A part of a row that the download left, as fscanf completes it.
TornRow(x, rows, n) ==
  \/ x = <<>>
  \/ n < Len(rows) /\ x \in {<<Junk>>, <<[rows[n + 1] EXCEPT !.pfns = Junk.pfns]>>}

\* read has the first n rows, and then junk up to m.
CutAt(read, rows, n, m) ==
  /\ n <= m /\ m <= n + 2 /\ DOMAIN read = 1..m
  /\ \A i \in 1..n : read[i] = rows[i]
  /\ \A i \in (n + 1)..m : read[i].pfns = Junk.pfns
  /\ Len(rows) <= n => m <= n

\* What is read of a cut file: its whole rows, and after them at most two that
\* are junk in every level.
LEMMA ReadRows ==
  ASSUME NEW rows \in Seq(Row5), NEW n \in Nat, n <= Len(rows), NEW torn, TornRow(torn, rows, n),
         NEW b \in BOOLEAN, Len(rows) <= n => ~b
  PROVE  \E m \in Nat : CutAt((SubSeq(rows, 1, n) \o torn) \o PastEnd(b), rows, n, m)
<1> DEFINE AnyRow == [gpa : Int, pfns : [1..5 -> Int]]
           head == SubSeq(rows, 1, n)
           tail == PastEnd(b)
           read == (head \o torn) \o tail
<1>0. NAN \in Int /\ Nat \cup {NAN} \subseteq Int
  BY DEF NAN
<1>1. rows \in Seq(AnyRow) /\ Len(rows) \in Nat
  <2>1. Row5 \subseteq AnyRow
    BY <1>0 DEF Row5
  <2> HIDE DEF AnyRow
  <2> QED
    BY <2>1
<1>2. Junk \in AnyRow
  BY <1>0 DEF Junk
<1>3. n < Len(rows) => /\ [rows[n + 1] EXCEPT !.pfns = Junk.pfns] \in AnyRow
                       /\ [rows[n + 1] EXCEPT !.pfns = Junk.pfns].pfns = Junk.pfns
  <2> SUFFICES ASSUME n < Len(rows)
               PROVE  /\ [rows[n + 1] EXCEPT !.pfns = Junk.pfns] \in AnyRow
                      /\ [rows[n + 1] EXCEPT !.pfns = Junk.pfns].pfns = Junk.pfns
    OBVIOUS
  <2>1. rows[n + 1] \in AnyRow
    <3> HIDE DEF AnyRow
    <3> QED
      BY <1>1
  <2>2. Junk.pfns \in [1..5 -> Int]
    BY <1>0 DEF Junk
  <2> QED
    BY <2>1, <2>2
<1>4. /\ torn \in Seq(AnyRow) /\ Len(torn) \in 0..1
      /\ \A i \in 1..Len(torn) : torn[i].pfns = Junk.pfns
      /\ Len(rows) <= n => Len(torn) = 0
  <2>1. CASE torn = <<>>
    BY <2>1
  <2>2. CASE torn = <<Junk>> /\ n < Len(rows)
    <3> HIDE DEF AnyRow
    <3> QED
      BY <2>2, <1>1, <1>2
  <2>3. CASE torn = <<[rows[n + 1] EXCEPT !.pfns = Junk.pfns]>> /\ n < Len(rows)
    <3> DEFINE x == [rows[n + 1] EXCEPT !.pfns = Junk.pfns]
    <3>1. x \in AnyRow /\ x.pfns = Junk.pfns /\ torn = <<x>>
      BY <1>3, <2>3
    <3> HIDE DEF AnyRow, x
    <3>2. n < Len(rows) /\ Len(rows) \in Nat
      BY <1>1, <2>3
    <3>3. <<x>> \in Seq(AnyRow) /\ Len(<<x>>) = 1 /\ <<x>>[1] = x
      BY <3>1
    <3>4. \A i \in 1..1 : i = 1
      OBVIOUS
    <3> QED
      BY <3>1, <3>2, <3>3, <3>4
  <2> QED
    BY <2>1, <2>2, <2>3 DEF TornRow
<1>5. /\ tail \in Seq(AnyRow) /\ Len(tail) \in 0..1
      /\ \A i \in 1..Len(tail) : tail[i].pfns = Junk.pfns
      /\ ~b => Len(tail) = 0
  <2> HIDE DEF AnyRow
  <2> QED
    BY <1>2 DEF PastEnd
<1>6. /\ head \in Seq(AnyRow) /\ Len(head) = n
      /\ \A i \in 1..n : head[i] = rows[i]
  <2> HIDE DEF AnyRow
  <2> QED
    BY <1>1
<1> HIDE DEF AnyRow, head, tail
<1> DEFINE m == n + Len(torn) + Len(tail)
<1>7. /\ DOMAIN read = 1..m
      /\ \A i \in 1..n : read[i] = head[i]
      /\ \A i \in (n + 1)..m : read[i].pfns = Junk.pfns
  <2> DEFINE l == Len(head)
             a == Len(torn)
             c == Len(tail)
  <2>1. a \in Nat /\ c \in Nat /\ l = n
    BY <1>4, <1>5, <1>6
  <2>2. /\ DOMAIN read = 1..(l + a + c)
        /\ \A i \in 1..l : read[i] = head[i]
        /\ \A i \in 1..a : read[l + i] = torn[i]
        /\ \A i \in 1..c : read[l + a + i] = tail[i]
    <3>1. head \in Seq(AnyRow) /\ torn \in Seq(AnyRow) /\ tail \in Seq(AnyRow)
      BY <1>4, <1>5, <1>6
    <3>2. InParts(read, head, torn, tail)
      BY ONLY <3>1, ThreeParts DEF read
    <3> QED
      BY <3>2 DEF InParts
  <2>3. (\A i \in 1..a : torn[i].pfns = Junk.pfns) /\ (\A i \in 1..c : tail[i].pfns = Junk.pfns)
    BY <1>4, <1>5
  <2>4. m = n + a + c
    OBVIOUS
  <2> HIDE DEF read, l, a, c, m
  <2>5. ASSUME NEW i \in (n + 1)..m PROVE read[i].pfns = Junk.pfns
    <3>1. CASE i <= n + a
      <4>1. i - n \in 1..a /\ l + (i - n) = i
        BY <2>1, <2>4, <3>1
      <4> QED
        BY <2>2, <2>3, <4>1
    <3>2. CASE ~(i <= n + a)
      <4>1. i - (n + a) \in 1..c /\ l + a + (i - (n + a)) = i
        BY <2>1, <2>4, <3>2
      <4> QED
        BY <2>2, <2>3, <4>1
    <3> QED
      BY <3>1, <3>2
  <2> QED
    BY <2>1, <2>2, <2>4, <2>5
<1>8. m \in Nat /\ n <= m /\ m <= n + 2 /\ (Len(rows) <= n /\ ~b => m <= n)
  BY <1>4, <1>5
<1> HIDE DEF m, read
<1>9. CutAt(read, rows, n, m)
  BY <1>6, <1>7, <1>8 DEF CutAt
<1> QED
  BY <1>8, <1>9 DEF read, head, tail

\* tbl holds the first n rows as they are, no later one, and for n all rows
\* nothing else.
LoadedTo(tbl, rows, n) ==
  /\ {i \in DOMAIN rows : rows[i].gpa \in DOMAIN tbl /\ tbl[rows[i].gpa] = rows[i].pfns} = 1..n
  /\ n = Len(rows) => Cardinality(DOMAIN tbl) = n
Apart(rows) == \A i, j \in DOMAIN rows : rows[i].gpa = rows[j].gpa => i = j

\* The table of the simulator holds the rows before the cut as they are, no
\* later one, and nothing else when nothing was cut off.
LEMMA KeptToCut ==
  ASSUME NEW rows \in Seq(Row5), NEW n \in Nat, n <= Len(rows), Apart(rows), Absent(rows) = {},
         NEW read, NEW m \in Nat, CutAt(read, rows, n, m)
  PROVE  LoadedTo(Kept(read), rows, n)
<1>1. /\ DOMAIN rows = 1..Len(rows) /\ Len(rows) \in Nat
      /\ n <= m /\ m <= n + 2 /\ DOMAIN read = 1..m
      /\ \A i \in 1..n : read[i] = rows[i]
      /\ \A i \in (n + 1)..m : read[i].pfns = Junk.pfns
      /\ Len(rows) <= n => m <= n
  BY DEF CutAt
<1>2. ASSUME NEW i \in 1..m, \A j \in 1..(i - 1) : read[j].gpa # read[i].gpa
      PROVE  read[i].gpa \in DOMAIN Kept(read) /\ Kept(read)[read[i].gpa] = read[i].pfns
  BY <1>1, <1>2, KeptFirst
<1>3. ASSUME NEW i \in 1..n
      PROVE  rows[i].gpa \in DOMAIN Kept(read) /\ Kept(read)[rows[i].gpa] = rows[i].pfns
  <2>1. i \in 1..m /\ read[i] = rows[i]
    BY <1>1
  <2>2. \A j \in 1..(i - 1) : read[j].gpa # read[i].gpa
    <3> SUFFICES ASSUME NEW j \in 1..(i - 1) PROVE read[j].gpa # read[i].gpa
      OBVIOUS
    <3>1. j \in 1..n /\ j # i /\ j \in DOMAIN rows /\ i \in DOMAIN rows
      BY <1>1
    <3> QED
      BY <1>1, <2>1, <3>1 DEF Apart
  <2> QED
    BY <1>2, <2>1, <2>2
<1>4. ASSUME NEW i \in DOMAIN rows, ~(i \in 1..n), rows[i].gpa \in DOMAIN Kept(read),
             Kept(read)[rows[i].gpa] = rows[i].pfns
      PROVE  FALSE
  <2> DEFINE g == rows[i].gpa
  <2>1. DOMAIN Kept(read) = {read[j].gpa : j \in 1..m}
    BY <1>1 DEF Kept
  <2>2. PICK j \in 1..m : read[j].gpa = g
    BY <1>4, <2>1
  <2>3. \A l \in 1..n : read[l].gpa # g
    BY <1>1, <1>4 DEF Apart
  <2>4. j \in (n + 1)..m /\ j \in {n + 1, n + 2}
    BY <1>1, <2>2, <2>3
  <2>5. \E l \in (n + 1)..m : read[l].gpa = g /\ \A o \in 1..(l - 1) : read[o].gpa # g
    <3>1. CASE read[n + 1].gpa = g
      <4>1. n + 1 \in (n + 1)..m /\ 1..((n + 1) - 1) = 1..n
        BY <1>1, <2>4
      <4> QED
        BY <2>3, <3>1, <4>1
    <3>2. CASE read[n + 1].gpa # g
      <4>1. j = n + 2
        BY <2>2, <2>4, <3>2
      <4>2. \A o \in 1..(j - 1) : o \in 1..n \/ o = n + 1
        BY <1>1, <4>1
      <4> QED
        BY <2>2, <2>3, <2>4, <3>2, <4>2
    <3> QED
      BY <3>1, <3>2
  <2>6. PICK l \in (n + 1)..m : read[l].gpa = g /\ \A o \in 1..(l - 1) : read[o].gpa # g
    BY <2>5
  <2>7. l \in 1..m
    BY <1>1
  <2>8. Kept(read)[g] = read[l].pfns
    BY <1>2, <2>6, <2>7
  <2>9. rows[i].pfns = Junk.pfns
    BY <1>1, <1>4, <2>6, <2>8
  <2>10. rows[i].pfns[1] = NAN
    BY <2>9 DEF Junk
  <2>11. <<i, 1>> \in Cells(rows)
    BY CellsOf
  <2> QED
    BY <2>10, <2>11 DEF Absent
<1>5. n = Len(rows) => Cardinality(DOMAIN Kept(read)) = n
  <2> SUFFICES ASSUME n = Len(rows) PROVE Cardinality(DOMAIN Kept(read)) = n
    OBVIOUS
  <2>1. m = n
    BY <1>1
  <2>3. ASSUME NEW i \in 1..m, NEW j \in 1..m, read[i].gpa = read[j].gpa PROVE i = j
    <3>1. i \in DOMAIN rows /\ j \in DOMAIN rows /\ read[i] = rows[i] /\ read[j] = rows[j]
      BY <1>1, <2>1
    <3> QED
      BY <2>3, <3>1 DEF Apart
  <2>2. DOMAIN Kept(read) = {read[j].gpa : j \in 1..m}
    BY <1>1 DEF Kept
  <2>4. Cardinality({read[j].gpa : j \in 1..m}) = m
    <3>1. m \in Nat /\ DOMAIN read = 1..m
      BY <1>1
    <3> QED
      BY <2>3, <3>1, GpasCounted
  <2> QED
    BY <2>1, <2>2, <2>4
<1>6. 1..n \subseteq DOMAIN rows
  BY <1>1
<1> QED
  BY <1>3, <1>4, <1>5, <1>6 DEF LoadedTo

-----------------------------------------------------------------------------
\* A step that keeps the process and the base, and whatever rows it keeps or
\* adds.
LEMMA FromTargetKeeps ==
  ASSUME IInv, FromTarget, step \in Translating, step' \in Translating, target' = target,
         UNCHANGED <<qemu_pid, guest_ram_base>>,
         \/ entries' = entries
         \/ entries' = <<>>
         \/ \E p \in Nat \ {0} : entries' = Append(entries, Translated(p))
  PROVE  FromTarget'
<1>1. /\ qemu_pid' = target' /\ guest_ram_base' \in {target', NoQemu}
      /\ \A i \in DOMAIN entries : entries[i].mm = target' /\ entries[i].base = guest_ram_base'
  BY DEF FromTarget
<1>2. step' # "config"
  BY DEF Translating
<1>3. \A i \in DOMAIN entries' : entries'[i].mm = target' /\ entries'[i].base = guest_ram_base'
  <2>1. ASSUME NEW p \in Nat \ {0}, entries' = Append(entries, Translated(p))
        PROVE  \A i \in DOMAIN entries' : entries'[i].mm = target' /\ entries'[i].base = guest_ram_base'
    <3> DEFINE e == Translated(p)
    <3>1. e.mm = target' /\ e.base = guest_ram_base'
      BY <1>1 DEF Translated
    <3>2. entries \in Seq(Entry)
      BY DEF IInv, TypeOK, Entry
    <3> HIDE DEF e
    <3>3. /\ DOMAIN Append(entries, e) = 1..(Len(entries) + 1) /\ DOMAIN entries = 1..Len(entries)
          /\ Append(entries, e)[Len(entries) + 1] = e /\ Len(entries) \in Nat
          /\ \A i \in 1..Len(entries) : Append(entries, e)[i] = entries[i]
      BY <3>2
    <3>4. \A i \in 1..(Len(entries) + 1) : i \in 1..Len(entries) \/ i = Len(entries) + 1
      BY <3>3
    <3>5. entries' = Append(entries, e)
      BY <2>1 DEF e
    <3> QED
      BY <1>1, <3>1, <3>3, <3>4, <3>5
  <2>2. CASE entries' = <<>>
    BY <2>2
  <2>3. CASE entries' = entries
    BY <2>3, <1>1
  <2> QED
    BY <2>1, <2>2, <2>3
<1> QED
  BY <1>1, <1>2, <1>3 DEF FromTarget

\* load_module and config_write bring the module to the target; the session is
\* all with it.
LEMMA FromTargetStep ==
  ASSUME IInv, StageTypes, FromTarget, [StageNext]_stageVars
  PROVE  FromTarget'
<1>0. [Next]_vars
  BY StageStep
<1>1. \/ entries' = entries
      \/ entries' = <<>>
      \/ \E p \in Nat \ {0} : pc = "lines" /\ entries' = Append(entries, Translated(p))
  BY <1>0, EntriesChange
<1>2. CASE step' \notin Translating \cup {"config"}
  BY <1>2 DEF FromTarget
<1>3. ASSUME NEW q \in Qemus, Stop(q) PROVE FromTarget'
  <2>1. UNCHANGED <<step, target, qemu_pid, guest_ram_base, entries>>
    BY <1>3 DEF Stop, QemuExits, script, table
  <2> QED
    BY <2>1 DEF FromTarget
<1>4. CASE UNCHANGED stageVars
  BY <1>4 DEF stageVars, vars, config, table, script, FromTarget
<1>5. CASE LoadModule
  BY <1>5 DEF LoadModule, Go, Reload, FromTarget, Translating
<1>6. ASSUME NEW found \in BOOLEAN, Configure(found) PROVE FromTarget'
  <2>1. /\ step = "config" /\ step' = "open" /\ target' = target /\ qemu_pid' = target
        /\ guest_ram_base' \in {target, guest_ram_base} /\ entries' = entries
    BY <1>6 DEF Configure, Go, ConfigWrite, table
  <2>2. entries' = <<>> /\ guest_ram_base = NoQemu
    BY <2>1 DEF FromTarget
  <2>3. DOMAIN entries' = {}
    BY <2>2
  <2> QED
    BY <2>1, <2>2, <2>3 DEF FromTarget
<1>7. ASSUME step \in Translating, step' \in Translating, target' = target,
             UNCHANGED <<qemu_pid, guest_ram_base>>
      PROVE  FromTarget'
  BY <1>1, <1>7, FromTargetKeeps
<1>8. CASE Open
  <2>1. step \in Translating /\ step' \in Translating /\ target' = target /\ UNCHANGED <<qemu_pid, guest_ram_base>>
    BY <1>8 DEF Open, Go, OpenInput, config, Translating
  <2> QED
    BY <1>7, <2>1
<1>9. ASSUME pc' # pc \/ pc = "lines" \/ step = "feed", UNCHANGED script,
             UNCHANGED <<qemu_pid, guest_ram_base>>, pc = "idle" => step = "feed"
      PROVE  FromTarget'
  BY <1>7, <1>9 DEF script, StageTypes, Translating
<1>10. ASSUME NEW n \in 1..Size, NEW kept \in BOOLEAN, Feed(n, kept) PROVE FromTarget'
  BY <1>9, <1>10 DEF Feed, InputWrite, config
<1>11. ASSUME NEW cacheOk \in BOOLEAN, NEW growOk \in BOOLEAN, FeedPfn(cacheOk, growOk) PROVE FromTarget'
  BY <1>9, <1>11 DEF FeedPfn, TranslatePfn, config
<1>12. CASE FeedHeader \/ FeedReturn
  BY <1>9, <1>12 DEF FeedHeader, FeedReturn, Header, Return, config
<1>13. CASE ReadOutput \/ Augment
  <2>1. step \in Translating /\ target' = target /\ UNCHANGED <<qemu_pid, guest_ram_base>>
        /\ step' \in Translating \cup {"failed"}
    BY <1>13 DEF ReadOutput, Augment, Go, vars, config, Translating
  <2>2. CASE step' = "failed"
    BY <1>2, <2>2 DEF Translating
  <2> QED
    BY <1>7, <2>1, <2>2
<1>14. CASE Die \/ FeedFailed
  BY <1>2, <1>14 DEF Die, FeedFailed, Go, Translating
<1>15. ASSUME NEW q \in Qemus, Detect(q) PROVE FromTarget'
  BY <1>2, <1>15 DEF Detect, Go, Translating
<1>16. ASSUME NEW n, NEW torn, NEW junk, Fetch(n, torn, junk) PROVE FromTarget'
  BY <1>2, <1>16 DEF Fetch, Go, Translating
<1>17. ASSUME NEW d \in Dumps, Again(d) PROVE FromTarget'
  BY <1>2, <1>17 DEF Again, Translating
<1> QED
  BY <1>3, <1>4, <1>5, <1>6, <1>8, <1>10, <1>11, <1>12, <1>13, <1>14, <1>15, <1>16, <1>17 DEF StageNext

\* Rows as the module shows them: of a file, for frames that differ, and absent
\* where there is no base.
ShownFile(rows) ==
  /\ rows \in Seq(Row5)
  /\ \A i, j \in DOMAIN rows : rows[i].gpa = rows[j].gpa => i = j
  /\ guest_ram_base = NoQemu => \A i \in DOMAIN rows : \A k \in 1..5 : rows[i].pfns[k] = NAN

\* What the module shows is such.
LEMMA ShownRows ==
  ASSUME IInv, StageTypes, FromTarget, NamedFrames, step \in Translating
  PROVE  ShownFile([i \in DOMAIN entries |-> Shown(entries[i])])
<1> DEFINE rows == [i \in DOMAIN entries |-> Shown(entries[i])]
<1>1. entries \in Seq(Entry) /\ DOMAIN entries = 1..Len(entries) /\ Len(entries) \in Nat
  BY DEF IInv, TypeOK, Entry
<1>2. ASSUME NEW i \in DOMAIN entries PROVE Shown(entries[i]) \in Row5 /\ Shown(entries[i]).gpa = entries[i].pfn
  <2>1. entries[i] \in Entry
    BY <1>1
  <2>2. entries[i].pfn \in Nat /\ entries[i].pfn # 0 /\ Named(entries[i].pfn)
    BY <2>1 DEF NamedFrames, Entry
  <2>3. entries[i].mm \in Qemus
    BY <2>1 DEF Entry
  <2>4. Chain[entries[i].mm][entries[i].pfn] \in [1..5 -> Nat \cup {NAN}]
    BY <2>2, <2>3, ChainAssumption DEF Named
  <2>5. [k \in 1..5 |-> NAN] \in [1..5 -> Nat \cup {NAN}]
    OBVIOUS
  <2> QED
    BY <2>2, <2>4, <2>5 DEF Shown, Row5
<1>3. rows \in [1..Len(entries) -> Row5]
  BY <1>1, <1>2
<1>4. rows \in Seq(Row5) /\ DOMAIN rows = DOMAIN entries
  BY <1>1, <1>3
<1>5. ASSUME NEW i \in DOMAIN rows, NEW j \in DOMAIN rows, rows[i].gpa = rows[j].gpa PROVE i = j
  <2>1. FrameOnce
    BY DEF IInv
  <2> QED
    BY <1>2, <1>5, <2>1 DEF FrameOnce
<1>6. ASSUME guest_ram_base = NoQemu, NEW i \in DOMAIN rows, NEW k \in 1..5 PROVE rows[i].pfns[k] = NAN
  <2>1. entries[i].base = NoQemu
    BY <1>6 DEF FromTarget
  <2> QED
    BY <2>1 DEF Shown
<1> QED
  BY <1>4, <1>5, <1>6 DEF ShownFile

\* The download and the constructor, from a file as the augmentor wrote it.
LEMMA FetchOK ==
  ASSUME SInv, NEW n \in 0..Len(out.rows), NEW junk \in BOOLEAN, NEW torn \in Torn(n + 1),
         Fetch(n, torn, junk)
  PROVE  LoadedUpToCut'
<1> DEFINE rows == Filled(raw.rows)
<1>1. step = "ready" /\ out' = out
  BY DEF Fetch, Go
<1>2. /\ out = [count |-> Len(rows), rows |-> rows] /\ Absent(rows) = {}
      /\ raw.rows = [i \in DOMAIN entries |-> Shown(entries[i])]
  <2>1. AsFilled /\ AsShown
    BY DEF SInv
  <2> QED
    BY <1>1, <2>1 DEF AsFilled, AsShown
<1>3. /\ raw.rows \in Seq(Row5)
      /\ \A i, j \in DOMAIN raw.rows : raw.rows[i].gpa = raw.rows[j].gpa => i = j
  <2>1. IInv /\ StageTypes /\ FromTarget /\ NamedFrames /\ step \in Translating
    BY <1>1 DEF SInv, Translating
  <2>2. ShownFile(raw.rows)
    BY <1>2, <2>1, ShownRows
  <2> QED
    BY <2>2 DEF ShownFile
<1>4. rows \in Seq(Row5) /\ Apart(rows)
  BY <1>3, FilledRows DEF Apart
<1> HIDE DEF rows
<1>5. out.rows = rows /\ out.count = Len(rows)
  BY <1>2
<1>6. n \in Nat /\ n <= Len(rows) /\ Len(rows) \in Nat /\ DOMAIN rows = 1..Len(rows)
  BY <1>4, <1>5
<1>7. TornRow(torn, rows, n)
  <2>1. n + 1 \in DOMAIN rows => n < Len(rows)
    BY <1>6
  <2> QED
    BY <1>5, <2>1 DEF Torn, TornRow
<1> DEFINE part == SubSeq(rows, 1, n) \o torn
           b == junk /\ Len(rows) > Len(part)
           read == part \o PastEnd(b)
<1>8. loaded' = Kept(read)
  <2>1. [out EXCEPT !.rows = SubSeq(@, 1, n) \o torn] = [count |-> Len(rows), rows |-> part]
    <3>1. SubSeq(out.rows, 1, n) \o torn = part
      BY <1>5
    <3> HIDE DEF part
    <3>2. [out EXCEPT !.rows = part] = [count |-> Len(rows), rows |-> part]
      BY <1>2
    <3> QED
      BY <3>1, <3>2
  <2>2. loaded' = Loaded([count |-> Len(rows), rows |-> part], junk)
    BY <2>1 DEF Fetch
  <2> QED
    BY <2>2 DEF Loaded
<1>9. Len(rows) <= n => ~b
  <2> SUFFICES ASSUME Len(rows) <= n PROVE ~b
    OBVIOUS
  <2>1. torn = <<>>
    BY <1>6, <1>7 DEF TornRow
  <2>2. Len(SubSeq(rows, 1, n)) = n /\ SubSeq(rows, 1, n) \in Seq(Row5)
    BY <1>4, <1>6
  <2>3. part = SubSeq(rows, 1, n)
    BY <2>1, <2>2
  <2> QED
    BY <1>6, <2>2, <2>3
<1>10. b \in BOOLEAN
  OBVIOUS
<1> HIDE DEF b
<1>11. PICK m \in Nat : CutAt(read, rows, n, m)
  BY <1>4, <1>6, <1>7, <1>9, <1>10, ReadRows
<1> HIDE DEF read
<1>12. LoadedTo(Kept(read), rows, n)
  BY <1>2, <1>4, <1>6, <1>11, KeptToCut
<1>13. out'.rows = rows
  BY <1>1, <1>5
<1>14. n \in 0..Len(rows)
  BY <1>5
<1> QED
  BY <1>8, <1>12, <1>13, <1>14 DEF LoadedUpToCut, LoadedTo

\* The rest of the script's invariant.
LEMMA FilesStep ==
  ASSUME SInv, [StageNext]_stageVars
  PROVE  AsShown' /\ AsFilled' /\ LoadedUpToCut'
<1>1. AsShown /\ AsFilled /\ LoadedUpToCut
  BY DEF SInv
<1>2. ASSUME step' \notin {"augment", "ready", "simulate"} PROVE AsShown' /\ AsFilled' /\ LoadedUpToCut'
  BY <1>2 DEF AsShown, AsFilled, LoadedUpToCut
<1>3. ASSUME UNCHANGED <<step, raw, out, loaded, entries>> PROVE AsShown' /\ AsFilled' /\ LoadedUpToCut'
  BY <1>1, <1>3 DEF AsShown, AsFilled, LoadedUpToCut
<1>4. ASSUME NEW q \in Qemus, Stop(q) PROVE AsShown' /\ AsFilled' /\ LoadedUpToCut'
  BY <1>3, <1>4 DEF Stop, QemuExits, script, table
<1>5. CASE UNCHANGED stageVars
  BY <1>3, <1>5 DEF stageVars, vars, script, table
<1>6. CASE Die \/ LoadModule \/ Open \/ FeedFailed
  BY <1>2, <1>6 DEF Die, LoadModule, Open, FeedFailed, Go
<1>7. ASSUME NEW q \in Qemus, Detect(q) PROVE AsShown' /\ AsFilled' /\ LoadedUpToCut'
  BY <1>2, <1>7 DEF Detect, Go
<1>8. ASSUME NEW found \in BOOLEAN, Configure(found) PROVE AsShown' /\ AsFilled' /\ LoadedUpToCut'
  BY <1>2, <1>8 DEF Configure, Go
<1>9. ASSUME UNCHANGED script, pc = "lines" \/ step = "feed" PROVE AsShown' /\ AsFilled' /\ LoadedUpToCut'
  BY <1>2, <1>9 DEF script, SInv, StageTypes
<1>10. ASSUME NEW n \in 1..Size, NEW kept \in BOOLEAN, Feed(n, kept)
       PROVE  AsShown' /\ AsFilled' /\ LoadedUpToCut'
  BY <1>9, <1>10 DEF Feed
<1>11. ASSUME NEW cacheOk \in BOOLEAN, NEW growOk \in BOOLEAN, FeedPfn(cacheOk, growOk)
       PROVE  AsShown' /\ AsFilled' /\ LoadedUpToCut'
  BY <1>9, <1>11 DEF FeedPfn, TranslatePfn
<1>12. CASE FeedHeader \/ FeedReturn
  BY <1>9, <1>12 DEF FeedHeader, FeedReturn, Header, Return
<1>13. CASE ReadOutput
  <2>1. /\ step' = "augment" /\ entries' = entries
        /\ raw' = [count |-> guest_pid, rows |-> [i \in DOMAIN entries |-> Shown(entries[i])]]
    BY <1>13 DEF ReadOutput, Go, vars, table
  <2> QED
    BY <2>1 DEF AsShown, AsFilled, LoadedUpToCut
<1>14. CASE Augment
  <2> DEFINE rows == Filled(raw.rows)
  <2>1. /\ step = "augment" /\ out' = [count |-> Len(rows), rows |-> rows]
        /\ step' = (IF Absent(rows) = {} /\ rows # <<>> THEN "ready" ELSE "failed")
        /\ entries' = entries /\ raw' = raw
    BY <1>14 DEF Augment, vars, table
  <2>2. AsShown'
    BY <1>1, <2>1 DEF AsShown
  <2>3. Filled(raw'.rows) = rows
    BY <2>1
  <2>4. step' = "ready" => Absent(rows) = {} /\ rows # <<>>
    BY <2>1
  <2> HIDE DEF rows
  <2>5. AsFilled'
    BY <2>1, <2>3, <2>4 DEF AsFilled
  <2> QED
    BY <2>1, <2>2, <2>5 DEF LoadedUpToCut
<1>15. ASSUME NEW n \in 0..Len(out.rows), NEW junk \in BOOLEAN, NEW torn \in Torn(n + 1),
              Fetch(n, torn, junk)
       PROVE  AsShown' /\ AsFilled' /\ LoadedUpToCut'
  <2>1. LoadedUpToCut'
    BY <1>15, FetchOK
  <2> QED
    BY <1>15, <2>1 DEF Fetch, Go, AsShown, AsFilled
<1>16. ASSUME NEW d \in Dumps, Again(d) PROVE AsShown' /\ AsFilled' /\ LoadedUpToCut'
  BY <1>2, <1>16 DEF Again
<1> QED
  BY <1>4, <1>5, <1>6, <1>7, <1>8, <1>10, <1>11, <1>12, <1>13, <1>14, <1>15, <1>16 DEF StageNext

\* The invariant of the stage holds at the start.
LEMMA StageInitOK == StageInit => SInv
<1> SUFFICES ASSUME StageInit PROVE SInv
  OBVIOUS
<1>1. TInv
  BY ScriptInitOK
<1>2. entries = <<>> /\ step = "input"
  BY DEF StageInit, Init
<1>3. FromTarget
  BY <1>2 DEF FromTarget, Translating
<1>4. AsShown /\ AsFilled /\ LoadedUpToCut
  BY <1>2 DEF AsShown, AsFilled, LoadedUpToCut
<1> QED
  BY <1>1, <1>3, <1>4 DEF SInv, TInv

\* Every step keeps it.
LEMMA StageNextOK == SInv /\ [StageNext]_stageVars => SInv'
<1> SUFFICES ASSUME SInv, [StageNext]_stageVars PROVE SInv'
  OBVIOUS
<1>1. TInv /\ IInv /\ StageTypes /\ FromTarget
  BY DEF SInv, TInv
<1>2. TInv'
  BY <1>1, ScriptNextOK
<1>3. FromTarget'
  BY <1>1, FromTargetStep
<1>4. AsShown' /\ AsFilled' /\ LoadedUpToCut'
  BY FilesStep
<1> QED
  BY <1>2, <1>3, <1>4 DEF SInv, TInv

\* It holds throughout.
LEMMA StageInvariance == StageSpec => []SInv
BY StageInitOK, StageNextOK, PTL DEF StageSpec

-----------------------------------------------------------------------------
\* host_pt_augmentor gives every level that was absent a PFN of its own that no
\* row of the translation has, whatever the tables of the QEMU process hold.
THEOREM FilledLevelsAreFresh == StageSpec => []FillsAreFresh
<1>1. SInv => FillsAreFresh
  <2> SUFFICES ASSUME SInv, step = "ready", NEW c \in Absent(raw.rows)
               PROVE  Fresh(raw.rows, out.rows, c)
    BY DEF FillsAreFresh, Fresh
  <2>1. /\ out.rows = Filled(raw.rows) /\ Absent(Filled(raw.rows)) = {}
        /\ raw.rows = [i \in DOMAIN entries |-> Shown(entries[i])]
    BY DEF SInv, AsFilled, AsShown
  <2>2. IInv /\ StageTypes /\ FromTarget /\ NamedFrames /\ step \in Translating
    BY DEF SInv, Translating
  <2>3. ShownFile(raw.rows)
    BY <2>1, <2>2, ShownRows
  <2>4. raw.rows \in Seq(Row5)
    BY <2>3 DEF ShownFile
  <2> QED
    BY <2>1, <2>4, FillsApart
<1> QED
  BY <1>1, StageInvariance, PTL

\* A table that reaches the guest was translated in the process the script
\* chose, from that process's own base: a translation without a base leaves the
\* augmentor nothing to fill from, and is not delivered.
THEOREM TablesComeFromTarget == StageSpec => []DeliveredFromTarget
<1>1. SInv => DeliveredFromTarget
  <2> SUFFICES ASSUME SInv, step = "ready"
               PROVE  \A i \in DOMAIN entries : entries[i].mm = target /\ entries[i].base = target
    BY DEF DeliveredFromTarget
  <2>1. /\ out.rows = Filled(raw.rows) /\ Absent(Filled(raw.rows)) = {} /\ Filled(raw.rows) # <<>>
        /\ raw.rows = [i \in DOMAIN entries |-> Shown(entries[i])]
    BY DEF SInv, AsFilled, AsShown
  <2>2. /\ raw.rows \in Seq(Row5)
        /\ guest_ram_base = NoQemu => \A i \in DOMAIN raw.rows : \A k \in 1..5 : raw.rows[i].pfns[k] = NAN
    <3>1. IInv /\ StageTypes /\ FromTarget /\ NamedFrames /\ step \in Translating
      BY DEF SInv, Translating
    <3>2. ShownFile(raw.rows)
      BY <2>1, <3>1, ShownRows
    <3> QED
      BY <3>2 DEF ShownFile
  <2>3. raw.rows # <<>>
    <3>1. Filled(raw.rows) \in Seq(Row5) /\ Len(Filled(raw.rows)) = Len(raw.rows)
      BY <2>2, FilledRows
    <3> QED
      BY <2>1, <3>1
  <2>4. guest_ram_base # NoQemu
    BY <2>1, <2>2, <2>3, NothingToFillFrom
  <2> QED
    BY <2>4 DEF SInv, FromTarget, Translating
<1> QED
  BY <1>1, StageInvariance, PTL

\* The constructor of cache_simulator_t loads a file that arrived whole row for
\* row and nothing else, and of one cut short the rows before the cut.
THEOREM LoadsUpToTheCut == StageSpec => []LoadedUpToCut
<1>1. SInv => LoadedUpToCut
  BY DEF SInv
<1> QED
  BY <1>1, StageInvariance, PTL
==============================================================================
