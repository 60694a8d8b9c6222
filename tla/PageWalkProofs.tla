--------------------------- MODULE PageWalkProofs ---------------------------
(***************************************************************************)
(* For any pair of page tables and any geometry of the page walk caches:   *)
(* how long a page walk is, which entry each of its references reads, and  *)
(* what a hit in a PWC means.                                              *)
(*                                                                         *)
(* TlbMiss builds a walk level by level, so it is laid out in blocks       *)
(* (Shape): five tokens for each guest level whose table has a row in the  *)
(* host's dump, none for one that has not (Lost), and four tokens for the  *)
(* data page.  Length, labels and hits follow from the layout.  The        *)
(* inductive invariant WInv adds that a PWC only holds tags of pages that  *)
(* were walked.                                                            *)
(***************************************************************************)
EXTENDS PageWalk, FiniteSetTheorems, TLAPS

\* A walk in progress: a record of the host PWCs and the n tokens so far.
Row(s, n) == s = [k \in 1 .. n |-> s[k]]
Walking(w, n) == w = [pwc |-> w.pwc, tokens |-> w.tokens] /\ Row(w.tokens, n)

\* The sequence t is s, of length n, and m more elements; the walk v is w and m
\* more tokens.
Longer(s, t, n, m) == Row(t, n + m) /\ \A k \in 1 .. n : t[k] = s[k]
Grown(w, v, n, m) == Walking(v, n + m) /\ Longer(w.tokens, v.tokens, n, m)

\* Elements n + 1 to n + m of t are x.
Filled(t, n, m, x) == \A k \in n + 1 .. n + m : t[k] = x

\* One more element.
LEMMA AppendRow ==
    ASSUME NEW n \in Nat, NEW s, Row(s, n), NEW x
    PROVE  Longer(s, Append(s, x), n, 1) /\ Append(s, x)[n + 1] = x
<1> DEFINE S == {s[k] : k \in 1 .. n} \cup {x}
<1>1. s \in [1 .. n -> S]
  BY DEF Row
<1>2. x \in S
  OBVIOUS
<1> HIDE DEF S
<1>3. s \in Seq(S) /\ Len(s) = n
  BY <1>1
<1> QED
  BY <1>2, <1>3 DEF Row, Longer

\* Several elements, all alike.
LEMMA ConcatRow ==
    ASSUME NEW n \in Nat, NEW s, Row(s, n), NEW m \in Nat, NEW x
    PROVE  /\ Longer(s, s \o [k \in 1 .. m |-> x], n, m)
           /\ Filled(s \o [k \in 1 .. m |-> x], n, m, x)
<1> DEFINE S == {s[k] : k \in 1 .. n} \cup {x}
           b == [k \in 1 .. m |-> x]
<1>1. s \in [1 .. n -> S]
  BY DEF Row
<1>2. x \in S
  OBVIOUS
<1> HIDE DEF S
<1>3. s \in Seq(S) /\ Len(s) = n
  BY <1>1
<1>4. b \in Seq(S) /\ Len(b) = m /\ \A k \in 1 .. m : b[k] = x
  BY <1>2
<1> HIDE DEF b
<1>5. (s \o b) \in Seq(S) /\ Len(s \o b) = n + m
  BY <1>3, <1>4
<1>6. \A k \in 1 .. n + m : (s \o b)[k] = IF k <= n THEN s[k] ELSE b[k - n]
  BY <1>3, <1>4
<1>7. \A k \in n + 1 .. n + m : (s \o b)[k] = x
  <2>1. SUFFICES ASSUME NEW k \in n + 1 .. n + m PROVE (s \o b)[k] = x
    BY Zenon
  <2>2. k \in 1 .. n + m /\ ~(k <= n) /\ k - n \in 1 .. m
    OBVIOUS
  <2> QED
    BY <1>4, <1>6, <2>2, Zenon
<1>8. \A k \in 1 .. n : (s \o b)[k] = s[k]
  <2>1. \A k \in 1 .. n : k \in 1 .. n + m /\ k <= n
    OBVIOUS
  <2> QED
    BY <1>6, <2>1, Zenon
<1>9. Row(s \o b, n + m)
  BY <1>5 DEF Row
<1> QED
  BY <1>7, <1>8, <1>9, Zenon DEF Longer, Filled, b

\* A walk with other tokens.
LEMMA WithTokens ==
    ASSUME NEW w, NEW n \in Nat, NEW m \in Nat, Walking(w, n), NEW t, Longer(w.tokens, t, n, m)
    PROVE  /\ Grown(w, [w EXCEPT !.tokens = t], n, m)
           /\ [w EXCEPT !.tokens = t].tokens = t
           /\ [w EXCEPT !.tokens = t].pwc = w.pwc
<1> DEFINE v == [w EXCEPT !.tokens = t]
<1>1. v = [pwc |-> w.pwc, tokens |-> t]
  BY DEF Walking
<1> HIDE DEF v
<1>2. v.pwc = w.pwc /\ v.tokens = t /\ v = [pwc |-> v.pwc, tokens |-> v.tokens]
  BY <1>1
<1>3. Grown(w, v, n, m)
  BY <1>2 DEF Grown, Walking, Longer
<1> QED
  BY <1>2, <1>3 DEF v

\* Tokens without a reference.
LEMMA PushGrows ==
    ASSUME NEW w, NEW n \in Nat, Walking(w, n), NEW m \in Nat, NEW what
    PROVE  /\ Grown(w, Push(w, what, m), n, m)
           /\ Filled(Push(w, what, m).tokens, n, m, [what |-> what, at |-> 0])
<1> DEFINE x == [what |-> what, at |-> 0]
           t == w.tokens \o [k \in 1 .. m |-> x]
<1>1. Push(w, what, m) = [w EXCEPT !.tokens = t]
  BY Zenon DEF Push
<1>2. Row(w.tokens, n)
  BY DEF Walking
<1> HIDE DEF x
<1>3. Longer(w.tokens, t, n, m) /\ Filled(t, n, m, x)
  BY <1>2, ConcatRow, Zenon
<1> HIDE DEF t
<1>4. Grown(w, [w EXCEPT !.tokens = t], n, m) /\ [w EXCEPT !.tokens = t].tokens = t
  BY <1>3, WithTokens
<1> QED
  BY <1>1, <1>3, <1>4, Zenon DEF x

\* The token of a reference to an address.
Reads(x, at) == x.what = "REF" /\ x.at = at

\* One reference.
LEMMA RequestGrows ==
    ASSUME NEW w, NEW n \in Nat, Walking(w, n), NEW base, NEW a, NEW l
    PROVE  /\ Grown(w, MakeRequest(w, base, a, l), n, 1)
           /\ Reads(MakeRequest(w, base, a, l).tokens[n + 1], base + Index(a, l))
<1> DEFINE x == [what |-> "REF", at |-> base + Index(a, l)]
           t == Append(w.tokens, x)
<1>1. MakeRequest(w, base, a, l) = [w EXCEPT !.tokens = t]
  BY Zenon DEF MakeRequest
<1>2. Row(w.tokens, n)
  BY DEF Walking
<1> HIDE DEF x
<1>3. Longer(w.tokens, t, n, 1) /\ t[n + 1] = x
  BY <1>2, AppendRow, Zenon
<1> HIDE DEF t
<1>4. Grown(w, [w EXCEPT !.tokens = t], n, 1) /\ [w EXCEPT !.tokens = t].tokens = t
  BY <1>3, WithTokens
<1>5. Reads(x, base + Index(a, l))
  BY DEF Reads, x
<1> QED
  BY <1>1, <1>3, <1>4, <1>5, Zenon

\* The tokens n + 1 to n + m of the walk v are still in w.
Kept(v, w, n, m) == \A j \in n + 1 .. n + m : w.tokens[j] = v.tokens[j]

\* A walk that has grown twice.
LEMMA GrownTwice ==
    ASSUME NEW u, NEW v, NEW w, NEW n \in Nat, NEW m \in Nat, NEW k \in Nat,
           Grown(u, v, n, m), Grown(v, w, n + m, k)
    PROVE  Grown(u, w, n, m + k) /\ Kept(v, w, n, m)
<1>1. Walking(w, n + (m + k))
  <2>1. (n + m) + k = n + (m + k)
    OBVIOUS
  <2> QED
    BY <2>1 DEF Grown
<1>2. \A j \in 1 .. n + m : w.tokens[j] = v.tokens[j]
  BY DEF Grown, Longer
<1>3. \A j \in 1 .. n : w.tokens[j] = u.tokens[j]
  BY <1>2 DEF Grown, Longer
<1> QED
  BY <1>1, <1>2, <1>3 DEF Grown, Longer, Walking, Kept

----------------------------------------------------------------------------
(* What each level of a walk adds.                                           *)

\* A token of host level h in the walk for guest page a, and the token of the
\* guest entry found in that page.
HostToken(x, a, h) == x.what = "REF" => x.at = HostTable[a].pe[h] * Fanout + Index(a, h)
EntryToken(x, va, g) == Reads(x, HostTable[GuestTable[va].pe[g]].pa * Fanout + Index(va, g))

\* The spans are positive, so an index is a number below Fanout.
LEMMA SpanType == \A i \in Levels : Span(i) \in Nat \ {0}
<1>1. Fanout \in Nat \ {0}
  BY WalkAssumption
<1>2. Fanout * Fanout \in Nat \ {0}
  BY <1>1
<1>3. Fanout * Fanout * Fanout \in Nat \ {0}
  BY <1>1, <1>2
<1> QED
  BY <1>1, <1>2, <1>3 DEF Span, Levels, NumLevels

\* The index of an entry.
LEMMA IndexType ==
    /\ \A a \in Nat, i \in Levels : Index(a, i) \in Nat
    /\ Index(0, 1) = 0
<1>1. Fanout \in Nat \ {0}
  BY WalkAssumption
<1>2. ASSUME NEW a \in Nat, NEW i \in Levels PROVE Index(a, i) \in Nat
  <2>1. a \div Span(i) \in Nat
    BY SpanType
  <2> QED
    BY <1>1, <2>1 DEF Index
<1>3. 0 \div Span(1) = 0
  BY SpanType DEF Levels, NumLevels
<1> QED
  BY <1>1, <1>2, <1>3 DEF Index

\* A host level adds one token.
LEMMA HostLevelGrows ==
    ASSUME NEW w, NEW n \in Nat, Walking(w, n), NEW hit, NEW a, NEW h
    PROVE  /\ Grown(w, HostLevel(w, hit, HostTable[a], a, h), n, 1)
           /\ HostToken(HostLevel(w, hit, HostTable[a], a, h).tokens[n + 1], a, h)
<1> DEFINE v == HostLevel(w, hit, HostTable[a], a, h)
<1>1. CASE hit < h
  <2>1. v = MakeRequest(w, HostTable[a].pe[h] * Fanout, a, h)
    BY <1>1 DEF HostLevel
  <2> HIDE DEF v
  <2>2. /\ Grown(w, v, n, 1)
        /\ Reads(v.tokens[n + 1], HostTable[a].pe[h] * Fanout + Index(a, h))
    BY <2>1, RequestGrows, Zenon
  <2> QED
    BY <2>2 DEF HostToken, Reads, v
<1>2. ASSUME NEW what \in {"PWC", "ZERO"}, v = Push(w, what, 1)
      PROVE  Grown(w, v, n, 1) /\ HostToken(v.tokens[n + 1], a, h)
  <2> HIDE DEF v
  <2>1. Grown(w, v, n, 1) /\ Filled(v.tokens, n, 1, [what |-> what, at |-> 0])
    BY <1>2, PushGrows
  <2>2. v.tokens[n + 1] = [what |-> what, at |-> 0]
    BY <2>1 DEF Filled
  <2> QED
    BY <2>1, <2>2 DEF HostToken
<1>3. CASE ~(hit < h)
  <2>1. v = Push(w, "PWC", 1) \/ v = Push(w, "ZERO", 1)
    BY <1>3 DEF HostLevel
  <2> QED
    BY <1>2, <2>1
<1> QED
  BY <1>1, <1>3

\* Tokens n + 1 to n + i of t are those of a host walk for page a.
HostTokens(t, n, a, i) == \A h \in 1 .. i : HostToken(t[n + h], a, h)

\* A host level after the i levels that x has gone through since w.
LEMMA OneHostLevel ==
    ASSUME NEW w, NEW x, NEW n \in Nat, NEW i \in Nat, NEW j, j = i + 1, NEW hit, NEW a,
           Grown(w, x, n, i), HostTokens(x.tokens, n, a, i)
    PROVE  /\ Grown(w, HostLevel(x, hit, HostTable[a], a, j), n, j)
           /\ HostTokens(HostLevel(x, hit, HostTable[a], a, j).tokens, n, a, j)
<1> DEFINE v == HostLevel(x, hit, HostTable[a], a, j)
<1>1. Walking(x, n + i) /\ n + i \in Nat
  BY DEF Grown
<1>2. Grown(x, v, n + i, 1) /\ HostToken(v.tokens[n + i + 1], a, j)
  BY <1>1, HostLevelGrows, Zenon
<1> HIDE DEF v
<1>0. 1 \in Nat
  OBVIOUS
<1>3. Grown(w, v, n, i + 1) /\ Kept(x, v, n, i)
  BY <1>0, <1>2, GrownTwice, Zenon
<1>4. n + i + 1 = n + j
  OBVIOUS
<1>5. ASSUME NEW h \in 1 .. j PROVE HostToken(v.tokens[n + h], a, h)
  <2>1. CASE h = j
    BY <1>2, <1>4, <2>1
  <2>2. CASE h # j
    <3>1. h \in 1 .. i /\ n + h \in n + 1 .. n + i
      BY <2>2
    <3> QED
      BY <1>3, <3>1 DEF HostTokens, Kept
  <2> QED
    BY <2>1, <2>2
<1> QED
  BY <1>3, <1>5 DEF HostTokens, v

\* Nothing has happened yet.
LEMMA GrownNot == ASSUME NEW w, NEW n \in Nat, Walking(w, n) PROVE Grown(w, w, n, 0)
  BY DEF Grown, Longer, Walking

\* The four host levels.
LEMMA HostLevelsGrow ==
    ASSUME NEW w, NEW n \in Nat, Walking(w, n), NEW hit, NEW a
    PROVE  /\ Grown(w, HostLevels(w, hit, HostTable[a], a), n, 4)
           /\ HostTokens(HostLevels(w, hit, HostTable[a], a).tokens, n, a, 4)
<1> DEFINE Step(x, h) == HostLevel(x, hit, HostTable[a], a, h)
           w1 == Step(w, 1)
           w2 == Step(w1, 2)
           w3 == Step(w2, 3)
           w4 == Step(w3, 4)
<1>0. HostLevels(w, hit, HostTable[a], a) = w4
  BY Zenon DEF HostLevels, InTurn
<1>1. Grown(w, w, n, 0) /\ HostTokens(w.tokens, n, a, 0)
  BY GrownNot DEF HostTokens
<1>2. Grown(w, w1, n, 1) /\ HostTokens(w1.tokens, n, a, 1)
  BY <1>1, OneHostLevel
<1> HIDE DEF w1
<1>3. Grown(w, w2, n, 2) /\ HostTokens(w2.tokens, n, a, 2)
  BY <1>2, OneHostLevel
<1> HIDE DEF w2
<1>4. Grown(w, w3, n, 3) /\ HostTokens(w3.tokens, n, a, 3)
  BY <1>3, OneHostLevel
<1> HIDE DEF w3
<1>5. Grown(w, w4, n, 4) /\ HostTokens(w4.tokens, n, a, 4)
  BY <1>4, OneHostLevel
<1> QED
  BY <1>0, <1>5, Zenon

\* Another set of PWCs.
LEMMA WithPwc ==
    ASSUME NEW w, NEW n \in Nat, Walking(w, n), NEW p
    PROVE  /\ Walking([w EXCEPT !.pwc = p], n)
           /\ [w EXCEPT !.pwc = p].tokens = w.tokens
<1> DEFINE v == [w EXCEPT !.pwc = p]
<1>1. v = [pwc |-> p, tokens |-> w.tokens]
  BY DEF Walking
<1> HIDE DEF v
<1>2. v.pwc = p /\ v.tokens = w.tokens
  BY <1>1
<1>3. Walking(v, n)
  BY <1>1, <1>2 DEF Walking
<1> QED
  BY <1>2, <1>3 DEF v

\* one_pw_at_host for a page with a row: the tokens of the four host levels, then
\* the one of the entry.
LEMMA OnePwAtHostGrows ==
    ASSUME NEW w, NEW n \in Nat, Walking(w, n), NEW a \in DOMAIN HostTable, NEW entry \in Nat
    PROVE  /\ Grown(w, OnePwAtHost(w, a, entry), n, 5)
           /\ HostTokens(OnePwAtHost(w, a, entry).tokens, n, a, 4)
           /\ Reads(OnePwAtHost(w, a, entry).tokens[n + 5], HostTable[a].pa * Fanout + entry)
<1> DEFINE row == HostTable[a]
           look == Look(w.pwc, a)
           w1 == [w EXCEPT !.pwc = look.pw]
           w2 == HostLevels(w1, look.level, row, a)
           base == row.pa * Fanout + entry
           v == MakeRequest(w2, base, 0, 1)
<1>1. OnePwAtHost(w, a, entry) = v
  BY Zenon DEF OnePwAtHost
<1>2. base + Index(0, 1) = base
  <2>1. row.pa \in Nat /\ Fanout \in Nat
    BY WalkAssumption DEF IsTable
  <2>2. row.pa * Fanout \in Nat
    BY <2>1
  <2>3. base \in Nat
    BY <2>2
  <2> HIDE DEF base
  <2> QED
    BY <2>3, IndexType
<1>3. Walking(w1, n) /\ w1.tokens = w.tokens
  BY WithPwc
<1> HIDE DEF look, w1
<1>4. Grown(w1, w2, n, 4) /\ HostTokens(w2.tokens, n, a, 4)
  BY <1>3, HostLevelsGrow, Zenon
<1> HIDE DEF w2, base, row
<1>5. Grown(w, w2, n, 4)
  BY <1>3, <1>4 DEF Grown
<1>6. Walking(w2, n + 4) /\ n + 4 \in Nat /\ 4 \in Nat /\ 1 \in Nat
  BY <1>5 DEF Grown
<1>7. /\ Grown(w2, v, n + 4, 1)
      /\ Reads(v.tokens[n + 4 + 1], base + Index(0, 1))
  BY <1>6, RequestGrows, Zenon
<1> HIDE DEF v
<1>8. Grown(w, v, n, 4 + 1) /\ Kept(w2, v, n, 4)
  BY <1>5, <1>6, <1>7, GrownTwice, Zenon
<1>9. HostTokens(v.tokens, n, a, 4)
  <2>1. ASSUME NEW h \in 1 .. 4 PROVE v.tokens[n + h] = w2.tokens[n + h]
    <3>1. n + h \in n + 1 .. n + 4
      OBVIOUS
    <3> QED
      BY <1>8, <3>1 DEF Kept
  <2> QED
    BY <1>4, <2>1 DEF HostTokens
<1>10. n + 4 + 1 = n + 5 /\ 4 + 1 = 5
  OBVIOUS
<1>11. Reads(v.tokens[n + 5], base)
  BY <1>2, <1>7, <1>10, Zenon
<1> QED
  BY <1>1, <1>8, <1>9, <1>10, <1>11, Zenon DEF base, row

\* The walk for va that finds guest level hit in a PWC loses level g when it has
\* to read the table and the page of the table has no row.
Lost(hit, va, g) == hit < g /\ GuestTable[va].pe[g] \notin DOMAIN HostTable
Size(hit, va, g) == IF Lost(hit, va, g) THEN 0 ELSE 5

\* Tokens n + 1 to n + 5 of t are those of guest level g.
GuestBlock(t, n, hit, va, g) ==
    /\ hit < g => HostTokens(t, n, GuestTable[va].pe[g], 4) /\ EntryToken(t[n + 5], va, g)
    /\ hit >= g => \A h \in 1 .. 4 : t[n + h].what = "ZERO"
    /\ hit = g => t[n + 5].what = "PWC"
    /\ hit > g => t[n + 5].what = "ZERO"

\* A guest level that the PWCs spare the walk.
LEMMA SparedLevel ==
    ASSUME NEW w, NEW n \in Nat, Walking(w, n), NEW hit \in Nat, NEW va, NEW g \in Levels, g <= hit
    PROVE  /\ Grown(w, GuestLevel(w, hit, va, g), n, 5)
           /\ GuestBlock(GuestLevel(w, hit, va, g).tokens, n, hit, va, g)
<1> DEFINE v == GuestLevel(w, hit, va, g)
<1>0. g \in Nat /\ 5 \in Nat /\ 4 \in Nat /\ 1 \in Nat /\ n + 4 \in Nat
  BY DEF Levels, NumLevels
<1>1. CASE hit = g
  <2> DEFINE u == Push(w, "ZERO", 4)
  <2>1. v = Push(u, "PWC", 1)
    BY <1>0, <1>1 DEF GuestLevel, NumLevels
  <2> HIDE DEF v
  <2>2. Grown(w, u, n, 4) /\ Filled(u.tokens, n, 4, [what |-> "ZERO", at |-> 0])
    BY <1>0, PushGrows, Zenon
  <2> HIDE DEF u
  <2>3. Walking(u, n + 4)
    BY <2>2 DEF Grown
  <2>4. Grown(u, v, n + 4, 1) /\ Filled(v.tokens, n + 4, 1, [what |-> "PWC", at |-> 0])
    BY <1>0, <2>1, <2>3, PushGrows, Zenon
  <2>5. Grown(w, v, n, 4 + 1) /\ Kept(u, v, n, 4)
    BY <1>0, <2>2, <2>4, GrownTwice, Zenon
  <2>6. v.tokens[n + 5] = [what |-> "PWC", at |-> 0]
    BY <2>4 DEF Filled
  <2>7. \A h \in 1 .. 4 : v.tokens[n + h] = [what |-> "ZERO", at |-> 0]
    <3>1. SUFFICES ASSUME NEW h \in 1 .. 4 PROVE v.tokens[n + h] = [what |-> "ZERO", at |-> 0]
      OBVIOUS
    <3>2. n + h \in n + 1 .. n + 4
      OBVIOUS
    <3> QED
      BY <2>2, <2>5, <3>2 DEF Kept, Filled
  <2>8. GuestBlock(v.tokens, n, hit, va, g)
    BY <1>0, <1>1, <2>6, <2>7 DEF GuestBlock
  <2>9. 4 + 1 = 5
    OBVIOUS
  <2> QED
    BY <2>5, <2>8, <2>9, Zenon DEF v
<1>2. CASE hit # g
  <2>1. v = Push(w, "ZERO", 5) /\ hit > g
    BY <1>0, <1>2 DEF GuestLevel, NumLevels
  <2> HIDE DEF v
  <2>2. Grown(w, v, n, 5) /\ Filled(v.tokens, n, 5, [what |-> "ZERO", at |-> 0])
    BY <1>0, <2>1, PushGrows, Zenon
  <2>3. \A h \in 1 .. 5 : v.tokens[n + h] = [what |-> "ZERO", at |-> 0]
    <3>1. SUFFICES ASSUME NEW h \in 1 .. 5 PROVE v.tokens[n + h] = [what |-> "ZERO", at |-> 0]
      OBVIOUS
    <3>2. n + h \in n + 1 .. n + 5
      OBVIOUS
    <3> QED
      BY <2>2, <3>2 DEF Filled
  <2>4. GuestBlock(v.tokens, n, hit, va, g)
    BY <1>0, <2>1, <2>3 DEF GuestBlock
  <2> QED
    BY <2>2, <2>4 DEF v
<1> QED
  BY <1>1, <1>2

\* A guest level adds five tokens, or is lost.
LEMMA GuestLevelGrows ==
    ASSUME NEW w, NEW n \in Nat, Walking(w, n), NEW hit \in Nat, NEW va \in Nat, NEW g \in Levels
    PROVE  /\ Grown(w, GuestLevel(w, hit, va, g), n, Size(hit, va, g))
           /\ ~Lost(hit, va, g) => GuestBlock(GuestLevel(w, hit, va, g).tokens, n, hit, va, g)
<1> DEFINE v == GuestLevel(w, hit, va, g)
           a == GuestTable[va].pe[g]
<1>0. g \in Nat
  BY DEF Levels, NumLevels
<1>1. CASE ~(hit < g)
  <2>1. g <= hit /\ ~Lost(hit, va, g) /\ Size(hit, va, g) = 5
    BY <1>0, <1>1 DEF Lost, Size
  <2> QED
    BY <2>1, SparedLevel, Zenon
<1>2. CASE hit < g
  <2>1. v = OnePwAtHost(w, a, Index(va, g))
    BY <1>2 DEF GuestLevel
  <2> HIDE DEF v
  <2>2. CASE a \notin DOMAIN HostTable
    <3>1. v = w /\ Size(hit, va, g) = 0 /\ Lost(hit, va, g)
      BY <1>2, <2>1, <2>2 DEF OnePwAtHost, Size, Lost
    <3> QED
      BY <3>1, GrownNot, Zenon DEF v
  <2>3. CASE a \in DOMAIN HostTable
    <3>1. Size(hit, va, g) = 5
      BY <2>3 DEF Size, Lost
    <3>2. Index(va, g) \in Nat
      BY IndexType
    <3>3. /\ Grown(w, v, n, 5)
          /\ HostTokens(v.tokens, n, a, 4)
          /\ Reads(v.tokens[n + 5], HostTable[a].pa * Fanout + Index(va, g))
      <4> HIDE DEF a
      <4> QED
        BY <2>1, <2>3, <3>2, OnePwAtHostGrows, Zenon
    <3>4. EntryToken(v.tokens[n + 5], va, g)
      BY <3>3 DEF EntryToken
    <3>5. GuestBlock(v.tokens, n, hit, va, g)
      BY <1>0, <1>2, <3>3, <3>4 DEF GuestBlock
    <3> QED
      BY <3>1, <3>3, <3>5, Zenon DEF v
  <2> QED
    BY <2>2, <2>3
<1> QED
  BY <1>1, <1>2

----------------------------------------------------------------------------
(* The whole walk: where each guest level begins.                            *)

\* The tokens before guest level g.
Begin(hit, va, g) ==
    LET Before(i) == IF i < g THEN Size(hit, va, i) ELSE 0
    IN Before(1) + Before(2) + Before(3) + Before(4)

\* The levels follow each other.
LEMMA Begins ==
    ASSUME NEW hit, NEW va
    PROVE  /\ Begin(hit, va, 1) = 0
           /\ Begin(hit, va, 2) = Begin(hit, va, 1) + Size(hit, va, 1)
           /\ Begin(hit, va, 3) = Begin(hit, va, 2) + Size(hit, va, 2)
           /\ Begin(hit, va, 4) = Begin(hit, va, 3) + Size(hit, va, 3)
           /\ Begin(hit, va, 5) = Begin(hit, va, 4) + Size(hit, va, 4)
           /\ Size(hit, va, 1) \in {0, 5} /\ Size(hit, va, 2) \in {0, 5}
           /\ Size(hit, va, 3) \in {0, 5} /\ Size(hit, va, 4) \in {0, 5}
<1>1. \A g : Size(hit, va, g) \in {0, 5}
  BY DEF Size
<1> QED
  BY <1>1 DEF Begin

\* A level that is not lost ends before the levels after it begin.
LEMMA BeginStep ==
    ASSUME NEW hit, NEW va, NEW g \in Levels
    PROVE  /\ Begin(hit, va, g) \in Nat
           /\ Begin(hit, va, g + 1) = Begin(hit, va, g) + Size(hit, va, g)
           /\ \A i \in 1 .. g - 1 : ~Lost(hit, va, i) => Begin(hit, va, i) + 5 <= Begin(hit, va, g)
<1>1. g = 1 \/ g = 2 \/ g = 3 \/ g = 4
  BY DEF Levels, NumLevels
<1>2. \A i : ~Lost(hit, va, i) => Size(hit, va, i) = 5
  BY DEF Size
<1>3. Begin(hit, va, g) \in Nat /\ Begin(hit, va, g + 1) = Begin(hit, va, g) + Size(hit, va, g)
  BY <1>1, Begins
<1>4. ASSUME NEW i \in 1 .. g - 1, Size(hit, va, i) = 5
      PROVE  Begin(hit, va, i) + 5 <= Begin(hit, va, g)
  <2>1. i = 1 \/ i = 2 \/ i = 3
    BY <1>1
  <2>2. CASE i = 1
    BY <1>1, <1>4, <2>2, Begins
  <2>3. CASE i = 2
    BY <1>1, <1>4, <2>3, Begins
  <2>4. CASE i = 3
    BY <1>1, <1>4, <2>4, Begins
  <2> QED
    BY <2>1, <2>2, <2>3, <2>4
<1> QED
  BY <1>2, <1>3, <1>4

\* The guest levels up to i of a walk with tokens t.
Blocks(t, hit, va, i) ==
    \A g \in 1 .. i : ~Lost(hit, va, g) => GuestBlock(t, Begin(hit, va, g), hit, va, g)

\* More tokens change no block.
LEMMA BlockKept ==
    ASSUME NEW s, NEW t, NEW n \in Nat, NEW m \in Nat, Longer(s, t, n, m),
           NEW b \in Nat, b + 5 <= n, NEW hit, NEW va, NEW g, GuestBlock(s, b, hit, va, g)
    PROVE  GuestBlock(t, b, hit, va, g)
<1>1. ASSUME NEW h \in 1 .. 5 PROVE t[b + h] = s[b + h]
  <2>1. b + h \in 1 .. n
    OBVIOUS
  <2> QED
    BY <2>1 DEF Longer
<1>2. t[b + 5] = s[b + 5] /\ \A h \in 1 .. 4 : t[b + h] = s[b + h]
  BY <1>1
<1>3. ASSUME NEW a PROVE HostTokens(t, b, a, 4) <=> HostTokens(s, b, a, 4)
  BY <1>2 DEF HostTokens
<1> QED
  BY <1>2, <1>3 DEF GuestBlock

\* One more guest level.
LEMMA OneGuestLevel ==
    ASSUME NEW x, NEW hit \in Nat, NEW va \in Nat, NEW g \in Levels,
           Walking(x, Begin(hit, va, g)), Blocks(x.tokens, hit, va, g - 1)
    PROVE  /\ Walking(GuestLevel(x, hit, va, g), Begin(hit, va, g + 1))
           /\ Blocks(GuestLevel(x, hit, va, g).tokens, hit, va, g)
<1> DEFINE v == GuestLevel(x, hit, va, g)
           n == Begin(hit, va, g)
           m == Size(hit, va, g)
<1>1. n \in Nat /\ m \in Nat /\ Begin(hit, va, g + 1) = n + m
  BY BeginStep DEF Size
<1>2. Grown(x, v, n, m) /\ (~Lost(hit, va, g) => GuestBlock(v.tokens, n, hit, va, g))
  BY <1>1, GuestLevelGrows, Zenon
<1>3. Walking(v, n + m) /\ Longer(x.tokens, v.tokens, n, m)
  BY <1>2, Zenon DEF Grown
<1>4. ASSUME NEW i \in 1 .. g - 1, ~Lost(hit, va, i)
      PROVE  GuestBlock(v.tokens, Begin(hit, va, i), hit, va, i)
  <2>1. Begin(hit, va, i) + 5 <= n
    BY <1>4, BeginStep
  <2>2. i \in Levels
    BY DEF Levels, NumLevels
  <2>3. Begin(hit, va, i) \in Nat
    BY <2>2, BeginStep
  <2>4. GuestBlock(x.tokens, Begin(hit, va, i), hit, va, i)
    BY <1>4 DEF Blocks
  <2> HIDE DEF n, m, v
  <2> QED
    BY <1>1, <1>3, <2>1, <2>3, <2>4, BlockKept
<1> HIDE DEF n, m, v
<1>5. ASSUME NEW i \in 1 .. g, ~Lost(hit, va, i)
      PROVE  GuestBlock(v.tokens, Begin(hit, va, i), hit, va, i)
  <2>1. i = g \/ i \in 1 .. g - 1
    BY DEF Levels, NumLevels
  <2> QED
    BY <1>2, <1>4, <1>5, <2>1 DEF n
<1> QED
  BY <1>1, <1>3, <1>5 DEF Blocks, v

\* The four guest levels of a walk.
LEMMA GuestLevelsGrow ==
    ASSUME NEW w, Walking(w, 0), NEW hit \in Nat, NEW va \in Nat
    PROVE  /\ Walking(GuestLevels(w, hit, va), Begin(hit, va, 5))
           /\ Blocks(GuestLevels(w, hit, va).tokens, hit, va, 4)
<1> DEFINE Step(x, g) == GuestLevel(x, hit, va, g)
           w1 == Step(w, 1)
           w2 == Step(w1, 2)
           w3 == Step(w2, 3)
           w4 == Step(w3, 4)
<1>0. GuestLevels(w, hit, va) = w4
  BY Zenon DEF GuestLevels, InTurn
<1>l. 1 \in Levels /\ 2 \in Levels /\ 3 \in Levels /\ 4 \in Levels
  BY DEF Levels, NumLevels
<1>1. Walking(w, Begin(hit, va, 1)) /\ Blocks(w.tokens, hit, va, 0)
  BY Begins DEF Blocks
<1>2. Walking(w1, Begin(hit, va, 2)) /\ Blocks(w1.tokens, hit, va, 1)
  BY <1>l, <1>1, OneGuestLevel
<1> HIDE DEF w1
<1>3. Walking(w2, Begin(hit, va, 3)) /\ Blocks(w2.tokens, hit, va, 2)
  BY <1>l, <1>2, OneGuestLevel
<1> HIDE DEF w2
<1>4. Walking(w3, Begin(hit, va, 4)) /\ Blocks(w3.tokens, hit, va, 3)
  BY <1>l, <1>3, OneGuestLevel
<1> HIDE DEF w3
<1>5. Walking(w4, Begin(hit, va, 5)) /\ Blocks(w4.tokens, hit, va, 4)
  BY <1>l, <1>4, OneGuestLevel
<1> QED
  BY <1>0, <1>5, Zenon

\* The tokens of a walk for va that finds guest level hit, 0 when it finds none.
Shape(t, hit, va) ==
    /\ Row(t, Begin(hit, va, 5) + 4)
    /\ Blocks(t, hit, va, 4)
    /\ HostTokens(t, Begin(hit, va, 5), GuestTable[va].pa, 4)

\* The last host walk is one that no PWC cuts short.
LEMMA FinalIsHostWalk ==
    ASSUME NEW w, NEW a
    PROVE  FinalHostWalk(w, a) = HostLevels(w, 0, HostTable[a], a)
<1>1. \A x : \A h \in 1 .. 4 :
         HostLevel(x, 0, HostTable[a], a, h) = MakeRequest(x, HostTable[a].pe[h] * Fanout, a, h)
  BY DEF HostLevel
<1>2. 1 \in 1 .. 4 /\ 2 \in 1 .. 4 /\ 3 \in 1 .. 4 /\ 4 \in 1 .. 4
  OBVIOUS
<1> QED
  BY <1>1, <1>2, Zenon DEF FinalHostWalk, HostLevels, InTurn

\* Every level of the guest, then the last host walk.
LEMMA WalkShape ==
    ASSUME NEW p, NEW hit \in Nat, NEW va \in Nat
    PROVE  LET w0 == [pwc |-> p, tokens |-> <<>>]
               w2 == FinalHostWalk(GuestLevels(w0, hit, va), GuestTable[va].pa)
           IN Shape(w2.tokens, hit, va)
<1> DEFINE w0 == [pwc |-> p, tokens |-> <<>>]
           w1 == GuestLevels(w0, hit, va)
           n == Begin(hit, va, 5)
           w2 == FinalHostWalk(w1, GuestTable[va].pa)
<1>1. Walking(w0, 0)
  BY DEF Walking, Row
<1> HIDE DEF w0
<1>2. Walking(w1, n) /\ Blocks(w1.tokens, hit, va, 4)
  BY <1>1, GuestLevelsGrow, Zenon
<1>3. n \in Nat
  BY Begins
<1> HIDE DEF w1
<1>4. Grown(w1, w2, n, 4) /\ HostTokens(w2.tokens, n, GuestTable[va].pa, 4)
  BY <1>2, <1>3, HostLevelsGrow, FinalIsHostWalk, Zenon
<1> HIDE DEF w2
<1>5. Row(w2.tokens, n + 4) /\ Longer(w1.tokens, w2.tokens, n, 4)
  BY <1>4 DEF Grown, Walking
<1>6. ASSUME NEW g \in 1 .. 4, ~Lost(hit, va, g)
      PROVE  GuestBlock(w2.tokens, Begin(hit, va, g), hit, va, g)
  <2>1. g \in Levels /\ Size(hit, va, g) = 5
    BY <1>6 DEF Levels, NumLevels, Size
  <2>2. Begin(hit, va, g) \in Nat /\ Begin(hit, va, g) + 5 <= n
    <3>1. g = 1 \/ g = 2 \/ g = 3 \/ g = 4
      OBVIOUS
    <3> QED
      BY <2>1, <3>1, Begins
  <2>3. GuestBlock(w1.tokens, Begin(hit, va, g), hit, va, g)
    BY <1>2, <1>6 DEF Blocks
  <2> HIDE DEF n
  <2> QED
    BY <1>3, <1>5, <2>2, <2>3, BlockKept
<1> QED
  BY <1>4, <1>5, <1>6 DEF Shape, Blocks, w0, w1, w2, n

\* The largest of some levels.
LEMMA MaxLevel ==
    ASSUME NEW S \in SUBSET (0 .. 3), S # {}
    PROVE  Max(S) \in S /\ \A x \in S : x <= Max(S)
<1>1. \E x \in S : \A y \in S : x >= y
  <2>1. CASE 3 \in S
    BY <2>1
  <2>2. CASE 3 \notin S /\ 2 \in S
    BY <2>2
  <2>3. CASE 3 \notin S /\ 2 \notin S /\ 1 \in S
    BY <2>3
  <2>4. CASE 3 \notin S /\ 2 \notin S /\ 1 \notin S
    <3>1. \A y \in S : y = 0
      BY <2>4
    <3>2. 0 \in S
      BY <3>1, Zenon
    <3> QED
      BY <3>1, <3>2
  <2> QED
    BY <2>1, <2>2, <2>3, <2>4
<1>2. Max(S) \in S /\ \A y \in S : Max(S) >= y
  BY <1>1, Zenon DEF Max
<1> QED
  BY <1>2

\* PWC i reports a hit for page a.
Reports(pw, a, i) ==
    PwcTag(a, i) # pw[i].last_tag /\ Pwc(i)!Hit(pw[i], PwcTag(a, i))

\* The level a lookup returns is the deepest that reports a hit.
LEMMA LookLevel ==
    ASSUME NEW pw, NEW a
    PROVE  /\ Look(pw, a).level \in 0 .. 3
           /\ Look(pw, a).level # 0 => Reports(pw, a, Look(pw, a).level)
           /\ \A i \in 1 .. 3 : Reports(pw, a, i) => i <= Look(pw, a).level
<1> DEFINE S == {0} \cup {i \in 1 .. 3 : Reports(pw, a, i)}
<1>1. \A i : Asked(pw[i], i, PwcTag(a, i)).found <=> Reports(pw, a, i)
  BY DEF Asked, Reports
<1>2. Look(pw, a).level = Max(S)
  <2> DEFINE r == [i \in 1 .. NumPwc |-> Asked(pw[i], i, PwcTag(a, i))]
  <2>1. Look(pw, a).level = Max({0} \cup {i \in 1 .. NumPwc : r[i].found})
    BY DEF Look
  <2>2. {i \in 1 .. NumPwc : r[i].found} = {i \in 1 .. 3 : Reports(pw, a, i)}
    BY <1>1 DEF NumPwc
  <2> QED
    BY <2>1, <2>2, Zenon
<1>3. S \in SUBSET (0 .. 3) /\ S # {}
  OBVIOUS
<1> HIDE DEF S
<1>4. Max(S) \in S /\ \A x \in S : x <= Max(S)
  BY <1>3, MaxLevel
<1> QED
  BY <1>2, <1>4 DEF S

\* The guest levels of the PWC tokens of t.
HitsIn(t) ==
    {GuestLevelOf(k) : k \in {j \in DOMAIN t : t[j].what = "PWC" /\ HostLevelOf(j) = NumLevels + 1}}

\* Where the levels that the PWCs spare begin: none of them is lost.
LEMMA SparedBegin ==
    ASSUME NEW hit \in 1 .. 3, NEW va
    PROVE  ~Lost(hit, va, hit) /\ Begin(hit, va, hit) = 5 * (hit - 1)
<1>1. ASSUME NEW g \in 1 .. 3, g <= hit PROVE ~Lost(hit, va, g) /\ Size(hit, va, g) = 5
  BY <1>1 DEF Lost, Size
<1>2. CASE hit = 1
  BY <1>1, <1>2, Begins
<1>3. CASE hit = 2
  BY <1>1, <1>3, Begins
<1>4. CASE hit = 3
  <2>1. Size(hit, va, 1) = 5 /\ Size(hit, va, 2) = 5 /\ ~Lost(hit, va, hit)
    BY <1>1, <1>4
  <2> QED
    BY <1>4, <2>1, Begins
<1> QED
  BY <1>2, <1>3, <1>4

\* The fifth places are those at the end of a guest level.
LEMMA FifthPlaces ==
    ASSUME NEW hit, NEW va, NEW j \in 1 .. Begin(hit, va, 5) + 4, HostLevelOf(j) = NumLevels + 1
    PROVE  \E g \in 1 .. 4 : ~Lost(hit, va, g) /\ j = Begin(hit, va, g) + 5
<1> DEFINE b1 == Begin(hit, va, 1)
           b2 == Begin(hit, va, 2)
           b3 == Begin(hit, va, 3)
           b4 == Begin(hit, va, 4)
           b5 == Begin(hit, va, 5)
           z1 == Size(hit, va, 1)
           z2 == Size(hit, va, 2)
           z3 == Size(hit, va, 3)
           z4 == Size(hit, va, 4)
<1>1. /\ b1 = 0 /\ b2 = b1 + z1 /\ b3 = b2 + z2 /\ b4 = b3 + z3 /\ b5 = b4 + z4
      /\ z1 \in {0, 5} /\ z2 \in {0, 5} /\ z3 \in {0, 5} /\ z4 \in {0, 5}
  BY Begins
<1>2. \A g : Size(hit, va, g) = 5 => ~Lost(hit, va, g)
  BY DEF Size
<1> HIDE DEF b1, b2, b3, b4, b5, z1, z2, z3, z4
<1>3. j \in Nat /\ j <= b5 + 4 /\ j > 0 /\ (j - 1) % 5 = 4
  BY <1>1 DEF HostLevelOf, NumLevels, b5
<1>4. j = 5 \/ j = 10 \/ j = 15 \/ j = 20
  BY <1>1, <1>3
<1>5. \/ z1 = 5 /\ j = b1 + 5
      \/ z2 = 5 /\ j = b2 + 5
      \/ z3 = 5 /\ j = b3 + 5
      \/ z4 = 5 /\ j = b4 + 5
  BY <1>1, <1>3, <1>4
<1> QED
  BY <1>2, <1>5 DEF b1, b2, b3, b4, z1, z2, z3, z4

\* A PWC token at the end of a guest level is that of the level that was found.
LEMMA ShapeHits ==
    ASSUME NEW t, NEW hit \in 0 .. 3, NEW va, Shape(t, hit, va)
    PROVE  HitsIn(t) = IF hit = 0 THEN {} ELSE {hit}
<1> DEFINE n == Begin(hit, va, 5)
<1>1. DOMAIN t = 1 .. n + 4
  BY DEF Shape, Row
<1>2. ASSUME NEW j \in DOMAIN t, t[j].what = "PWC", HostLevelOf(j) = NumLevels + 1
      PROVE  hit # 0 /\ GuestLevelOf(j) = hit
  <2>1. PICK g \in 1 .. 4 : ~Lost(hit, va, g) /\ j = Begin(hit, va, g) + 5
    BY <1>1, <1>2, FifthPlaces
  <2>2. GuestBlock(t, Begin(hit, va, g), hit, va, g)
    BY <2>1 DEF Shape, Blocks
  <2>3. ~(hit < g)
    <3>1. hit < g => t[j].what = "REF"
      BY <2>1, <2>2 DEF GuestBlock, EntryToken, Reads
    <3> QED
      BY <1>2, <3>1
  <2>4. ~(hit > g)
    <3>1. hit > g => t[j].what = "ZERO"
      BY <2>1, <2>2 DEF GuestBlock
    <3> QED
      BY <1>2, <3>1
  <2>5. hit = g /\ hit \in 1 .. 3
    BY <2>3, <2>4
  <2>6. j = 5 * (hit - 1) + 5
    BY <2>1, <2>5, SparedBegin
  <2>7. (j - 1) \div 5 + 1 = hit
    BY <2>5, <2>6
  <2> QED
    BY <2>5, <2>7 DEF GuestLevelOf, NumLevels
<1>3. ASSUME hit # 0 PROVE hit \in HitsIn(t)
  <2>1. hit \in 1 .. 3 /\ hit \in 1 .. 4
    BY <1>3
  <2>2. ~Lost(hit, va, hit) /\ Begin(hit, va, hit) = 5 * (hit - 1)
    BY <2>1, SparedBegin
  <2> DEFINE j == Begin(hit, va, hit) + 5
  <2>3. j = 5 * hit
    BY <2>1, <2>2
  <2>4. t[j].what = "PWC"
    BY <2>1, <2>2 DEF Shape, Blocks, GuestBlock
  <2>5. j \in DOMAIN t
    <3>1. Size(hit, va, hit) = 5 /\ (hit = 1 \/ hit = 2 \/ hit = 3)
      BY <2>1, <2>2 DEF Size
    <3>2. j <= n /\ n \in Nat
      BY <3>1, Begins
    <3> QED
      BY <1>1, <2>1, <2>3, <3>2
  <2>6. HostLevelOf(j) = NumLevels + 1 /\ GuestLevelOf(j) = hit
    BY <2>1, <2>3 DEF HostLevelOf, GuestLevelOf, NumLevels
  <2> HIDE DEF j
  <2> QED
    BY <2>4, <2>5, <2>6 DEF HitsIn
<1>4. \A x \in HitsIn(t) : hit # 0 /\ x = hit
  BY <1>2 DEF HitsIn
<1> QED
  BY <1>3, <1>4

\* The number of some of the levels.
LEMMA CountLevels ==
    ASSUME NEW L \in SUBSET (1 .. 4)
    PROVE  LET One(g) == IF g \in L THEN 1 ELSE 0
           IN Cardinality(L) = One(1) + One(2) + One(3) + One(4)
<1> DEFINE One(g) == IF g \in L THEN 1 ELSE 0
           L1 == L \cap {1}
           L2 == L \cap {1, 2}
           L3 == L \cap {1, 2, 3}
<1>1. ASSUME NEW S, IsFiniteSet(S), NEW T, NEW g, g \notin S, T = IF g \in L THEN S \cup {g} ELSE S
      PROVE  IsFiniteSet(T) /\ Cardinality(T) = Cardinality(S) + One(g) /\ Cardinality(S) \in Nat
  <2>1. Cardinality(S) \in Nat
    BY <1>1, FS_CardinalityType
  <2>2. /\ IsFiniteSet(S \cup {g})
        /\ Cardinality(S \cup {g}) = Cardinality(S) + 1
    BY <1>1, FS_AddElement
  <2>3. CASE g \in L
    BY <1>1, <2>1, <2>2, <2>3
  <2>4. CASE g \notin L
    BY <1>1, <2>1, <2>4
  <2> QED
    BY <2>3, <2>4
<1>2. IsFiniteSet({}) /\ Cardinality({}) = 0
  BY FS_EmptySet
<1> HIDE DEF One
<1>3. IsFiniteSet(L1) /\ Cardinality(L1) = 0 + One(1)
  <2>1. L1 = IF 1 \in L THEN {} \cup {1} ELSE {}
    OBVIOUS
  <2> QED
    BY <1>1, <1>2, <2>1
<1>4. IsFiniteSet(L2) /\ Cardinality(L2) = Cardinality(L1) + One(2)
  <2>1. L2 = (IF 2 \in L THEN L1 \cup {2} ELSE L1) /\ 2 \notin L1
    OBVIOUS
  <2> QED
    BY <1>1, <1>3, <2>1
<1>5. IsFiniteSet(L3) /\ Cardinality(L3) = Cardinality(L2) + One(3)
  <2>1. L3 = (IF 3 \in L THEN L2 \cup {3} ELSE L2) /\ 3 \notin L2
    OBVIOUS
  <2> QED
    BY <1>1, <1>4, <2>1
<1>6. Cardinality(L) = Cardinality(L3) + One(4)
  <2>1. \A x \in L : x \in {1, 2, 3} \/ x = 4
    OBVIOUS
  <2>2. 4 \in L => L = L3 \cup {4}
    BY <2>1, Zenon
  <2>3. 4 \notin L => L = L3
    BY <2>1, Zenon
  <2>4. L = (IF 4 \in L THEN L3 \cup {4} ELSE L3) /\ 4 \notin L3
    BY <2>2, <2>3
  <2> QED
    BY <1>1, <1>5, <2>4
<1> HIDE DEF L1, L2, L3
<1> QED
  BY <1>3, <1>4, <1>5, <1>6 DEF One

\* A walk is short by five tokens for each guest level it loses.
LEMMA ShapeLength ==
    ASSUME NEW t, NEW hit \in 0 .. 3, NEW va, Shape(t, hit, va)
    PROVE  Len(t) = 24 - 5 * Cardinality({g \in Levels : Lost(hit, va, g)})
<1> DEFINE L == {g \in Levels : Lost(hit, va, g)}
           One(g) == IF g \in L THEN 1 ELSE 0
<1>1. Len(t) = Begin(hit, va, 5) + 4
  <2>1. t = [k \in 1 .. Begin(hit, va, 5) + 4 |-> t[k]] /\ Begin(hit, va, 5) + 4 \in Nat
    BY Begins DEF Shape, Row
  <2> DEFINE m == Begin(hit, va, 5) + 4
  <2> HIDE DEF m
  <2>2. t = [k \in 1 .. m |-> t[k]] /\ m \in Nat
    BY <2>1 DEF m
  <2>3. t \in [1 .. m -> {t[k] : k \in 1 .. m}]
    BY <2>2
  <2>4. Len(t) = m
    BY <2>2, <2>3
  <2> QED
    BY <2>4 DEF m
<1>2. \A g \in 1 .. 4 : Size(hit, va, g) = 5 - 5 * One(g)
  BY DEF Size, Levels, NumLevels
<1>3. L \in SUBSET (1 .. 4)
  BY DEF Levels, NumLevels
<1> HIDE DEF L
<1>4. Cardinality(L) = One(1) + One(2) + One(3) + One(4)
  BY <1>3, CountLevels
<1>5. One(1) \in Nat /\ One(2) \in Nat /\ One(3) \in Nat /\ One(4) \in Nat
  OBVIOUS
<1>6. /\ Size(hit, va, 1) = 5 - 5 * One(1) /\ Size(hit, va, 2) = 5 - 5 * One(2)
      /\ Size(hit, va, 3) = 5 - 5 * One(3) /\ Size(hit, va, 4) = 5 - 5 * One(4)
  BY <1>2
<1> HIDE DEF One
<1>7. Begin(hit, va, 5) = 20 - 5 * Cardinality(L)
  BY <1>4, <1>5, <1>6, Begins
<1>8. Cardinality(L) \in Nat
  BY <1>4, <1>5
<1> QED
  BY <1>1, <1>7, <1>8 DEF L

\* A walk of 24 tokens has lost nothing, and its labels name what it read.
LEMMA ShapeLabels ==
    ASSUME NEW t, NEW hit \in 0 .. 3, NEW va, Shape(t, hit, va), Len(t) \in {24, 15}
    PROVE  Len(t) = 24 /\ \A k \in 1 .. 24 : t[k].what = "REF" => t[k].at = EntryOf(va, k)
<1> DEFINE b == Begin(hit, va, 5)
<1>1. Len(t) = b + 4
  <2>1. t = [k \in 1 .. b + 4 |-> t[k]] /\ b + 4 \in Nat
    BY Begins DEF Shape, Row
  <2> HIDE DEF b
  <2>2. t \in [1 .. b + 4 -> {t[k] : k \in 1 .. b + 4}]
    BY <2>1
  <2> QED
    BY <2>1, <2>2
<1>2. /\ b = 20
      /\ Size(hit, va, 1) = 5 /\ Size(hit, va, 2) = 5 /\ Size(hit, va, 3) = 5 /\ Size(hit, va, 4) = 5
  <2> DEFINE z1 == Size(hit, va, 1)
             z2 == Size(hit, va, 2)
             z3 == Size(hit, va, 3)
             z4 == Size(hit, va, 4)
  <2>1. b = z1 + z2 + z3 + z4 /\ z1 \in {0, 5} /\ z2 \in {0, 5} /\ z3 \in {0, 5} /\ z4 \in {0, 5}
    BY Begins
  <2> HIDE DEF b, z1, z2, z3, z4
  <2>2. b = 20 \/ b = 11
    BY <1>1, <2>1
  <2>3. b = 20
    BY <2>1, <2>2
  <2>4. z1 = 5 /\ z2 = 5 /\ z3 = 5 /\ z4 = 5
    BY <2>1, <2>3
  <2> QED
    BY <2>3, <2>4 DEF z1, z2, z3, z4
<1>3. \A g \in 1 .. 4 : ~Lost(hit, va, g)
  BY <1>2 DEF Size
<1>4. \A g \in 1 .. 4 : Begin(hit, va, g) = 5 * (g - 1)
  <2>1. /\ Begin(hit, va, 1) = 0 /\ Begin(hit, va, 2) = 5
        /\ Begin(hit, va, 3) = 10 /\ Begin(hit, va, 4) = 15
    BY <1>2, Begins
  <2> QED
    BY <2>1
<1>5. ASSUME NEW k \in 1 .. 24, t[k].what = "REF" PROVE t[k].at = EntryOf(va, k)
  <2> DEFINE g == (k - 1) \div 5 + 1
             h == ((k - 1) % 5) + 1
             a == IF g <= 4 THEN GuestTable[va].pe[g] ELSE GuestTable[va].pa
  <2>1. EntryOf(va, k) = IF h <= 4 THEN HostTable[a].pe[h] * Fanout + Index(a, h)
                         ELSE HostTable[a].pa * Fanout + Index(va, g)
    BY DEF EntryOf, GuestLevelOf, HostLevelOf, NumLevels
  <2>2. g \in 1 .. 5 /\ h \in 1 .. 5 /\ k = 5 * (g - 1) + h /\ (g = 5 => h <= 4)
    OBVIOUS
  <2> HIDE DEF g, h
  <2>3. CASE g = 5
    <3>1. k = b + h /\ h \in 1 .. 4 /\ a = GuestTable[va].pa
      BY <1>2, <2>2, <2>3
    <3>2. HostToken(t[k], GuestTable[va].pa, h)
      BY <3>1 DEF Shape, HostTokens
    <3>3. h <= 4
      BY <3>1
    <3>4. EntryOf(va, k) = HostTable[a].pe[h] * Fanout + Index(a, h)
      BY <2>1, <3>3, Zenon
    <3> QED
      BY <1>5, <3>1, <3>2, <3>4 DEF HostToken
  <2>4. CASE g # 5
    <3>1. g \in 1 .. 4 /\ k = Begin(hit, va, g) + h /\ a = GuestTable[va].pe[g]
      BY <1>4, <2>2, <2>4
    <3>2. GuestBlock(t, Begin(hit, va, g), hit, va, g)
      BY <1>3, <3>1 DEF Shape, Blocks
    <3>3. hit < g
      <4>1. SUFFICES ASSUME ~(hit < g) PROVE FALSE
        OBVIOUS
      <4>2. hit >= g /\ (hit = g \/ hit > g)
        BY <3>1, <4>1
      <4>3. h \in 1 .. 4 \/ h = 5
        BY <2>2
      <4>4. t[k].what = "ZERO" \/ t[k].what = "PWC"
        BY <3>1, <3>2, <4>2, <4>3 DEF GuestBlock
      <4> QED
        BY <1>5, <4>4
    <3>4. HostTokens(t, Begin(hit, va, g), a, 4) /\ EntryToken(t[Begin(hit, va, g) + 5], va, g)
      BY <3>1, <3>2, <3>3 DEF GuestBlock
    <3>5. CASE h <= 4
      <4>1. h \in 1 .. 4
        BY <2>2, <3>5
      <4>2. HostToken(t[k], a, h)
        BY <3>1, <3>4, <4>1 DEF HostTokens
      <4> QED
        BY <1>5, <2>1, <3>5, <4>2 DEF HostToken
    <3>6. CASE ~(h <= 4)
      <4>1. h = 5
        BY <2>2, <3>6
      <4>2. t[k].at = HostTable[a].pa * Fanout + Index(va, g)
        BY <3>1, <3>4, <4>1 DEF EntryToken, Reads
      <4> QED
        BY <2>1, <3>6, <4>2
    <3> QED
      BY <3>5, <3>6
  <2> QED
    BY <2>3, <2>4
<1> QED
  BY <1>1, <1>2, <1>5

----------------------------------------------------------------------------
(* What the guest PWCs hold.                                                 *)

\* The tags of PWC i are those of pages of S.
HoldsOnly(d, i, S) ==
    /\ "tag" \in DOMAIN d
    /\ d.tag \in [Pwc(i)!Sets -> [Pwc(i)!Ways -> {Pwc(i)!Invalid} \cup {PwcTag(u, i) : u \in S}]]

\* A request for page a adds the tag of a at most.
LEMMA AskedHoldsOnly ==
    ASSUME NEW d, NEW i, NEW S, NEW a \in S, HoldsOnly(d, i, S)
    PROVE  HoldsOnly(Asked(d, i, PwcTag(a, i)).dev, i, S)
<1> DEFINE t == PwcTag(a, i)
           T == {Pwc(i)!Invalid} \cup {PwcTag(u, i) : u \in S}
           e == Asked(d, i, t).dev
<1>1. t \in T
  OBVIOUS
<1>2. "tag" \in DOMAIN d /\ d.tag \in [Pwc(i)!Sets -> [Pwc(i)!Ways -> T]]
  BY DEF HoldsOnly
<1> HIDE DEF t, T
<1>3. SUFFICES "tag" \in DOMAIN e /\ e.tag \in [Pwc(i)!Sets -> [Pwc(i)!Ways -> T]]
  BY DEF HoldsOnly, t, T
<1>4. CASE t = d.last_tag
  <2>1. PICK s, c, x : e = [d EXCEPT !.ctr[s] = c, !.asserts = x]
    BY <1>4 DEF Asked, Pwc!TouchLast
  <2> HIDE DEF e
  <2> QED
    BY <1>2, <2>1
<1>5. CASE t # d.last_tag
  <2>1. PICK w : e = [Pwc(i)!Access(d, t) EXCEPT !.last_tag = t, !.last_way = w]
    BY <1>5 DEF Asked, Pwc!Remember
  <2> DEFINE f == Pwc(i)!Access(d, t)
  <2>2. "tag" \in DOMAIN f /\ f.tag \in [Pwc(i)!Sets -> [Pwc(i)!Ways -> T]]
    <3>1. CASE Pwc(i)!Hit(d, t)
      <4>1. PICK s, c : f = [d EXCEPT !.ctr[s] = c]
        BY <3>1, Zenon DEF Pwc!Access
      <4> HIDE DEF f
      <4> QED
        BY <1>2, <4>1
    <3>2. CASE ~Pwc(i)!Hit(d, t)
      <4>1. PICK s, v, c, n : f = [d EXCEPT !.tag[s][v] = t, !.ctr[s] = c, !.loaded = n]
        BY <3>2 DEF Pwc!Access
      <4> HIDE DEF f
      <4>2. "tag" \in DOMAIN f /\ f.tag = [d.tag EXCEPT ![s] = [d.tag[s] EXCEPT ![v] = t]]
        BY <1>2, <4>1
      <4>3. CASE s \in Pwc(i)!Sets
        <5>1. [d.tag[s] EXCEPT ![v] = t] \in [Pwc(i)!Ways -> T]
          BY <1>1, <1>2, <4>3, Zenon
        <5> QED
          BY <1>2, <4>2, <5>1, Zenon
      <4>4. CASE s \notin Pwc(i)!Sets
        <5>1. f.tag = d.tag
          BY <1>2, <4>2, <4>4
        <5> QED
          BY <1>2, <4>2, <5>1, Zenon
      <4> QED
        BY <4>3, <4>4
    <3> QED
      BY <3>1, <3>2
  <2> HIDE DEF e, f
  <2> QED
    BY <2>1, <2>2 DEF f
<1> QED
  BY <1>4, <1>5

\* A hit is on the tag of a page of S.
LEMMA HitHeld ==
    ASSUME NEW d, NEW i \in 1 .. 3, NEW S, NEW a \in Nat, HoldsOnly(d, i, S),
           Pwc(i)!Hit(d, PwcTag(a, i))
    PROVE  \E u \in S : PwcTag(u, i) = PwcTag(a, i)
<1> DEFINE t == PwcTag(a, i)
           N == PwcGeometry[i].sets
<1>1. t \in Nat
  <2>1. Span(i) \in Nat \ {0} /\ Grain \in Nat \ {0}
    BY SpanType, WalkAssumption DEF Levels, NumLevels
  <2>2. Span(i) * Grain \in Nat \ {0}
    BY <2>1
  <2> QED
    BY <2>2 DEF PwcTag
<1>2. N \in Nat \ {0}
  BY WalkAssumption DEF NumPwc
<1> HIDE DEF t, N
<1>3. Pwc(i)!SetOf(t) \in Pwc(i)!Sets
  <2>1. t % N \in 0 .. N - 1
    BY <1>1, <1>2
  <2> QED
    BY <2>1 DEF Pwc!SetOf, Pwc!Sets, N
<1>4. PICK w \in Pwc(i)!Ways : d.tag[Pwc(i)!SetOf(t)][w] = t
  BY DEF Pwc!Hit, Pwc!HitWays, t
<1>5. t # Pwc(i)!Invalid
  BY <1>1 DEF Pwc!Invalid
<1>6. t \in {Pwc(i)!Invalid} \cup {PwcTag(u, i) : u \in S}
  BY <1>3, <1>4 DEF HoldsOnly
<1> QED
  BY <1>5, <1>6 DEF t

\* The pages walked so far.
Seen == IF walk = NoWalk THEN {} ELSE walked \cup {walk.va}

\* The last walk has its shape, and the guest level it found is one that it
\* shares with an earlier walk; the guest PWCs hold nothing else.
WInv ==
    /\ walk # NoWalk =>
          /\ walk.va \in DOMAIN GuestTable
          /\ \E hit \in 0 .. 3 :
                /\ Shape(walk.tokens, hit, walk.va)
                /\ hit # 0 => \E u \in walked : PwcTag(u, hit) = PwcTag(walk.va, hit)
    /\ \A i \in 1 .. 3 : HoldsOnly(gpwc[i], i, Seen)

\* Before the first walk.
LEMMA WalkInitOK == WalkInit => WInv
<1> SUFFICES ASSUME WalkInit PROVE WInv
  OBVIOUS
<1>1. walk = NoWalk
  BY DEF WalkInit
<1>2. ASSUME NEW i \in 1 .. 3 PROVE HoldsOnly(gpwc[i], i, Seen)
  <2>1. gpwc[i] = Pwc(i)!InitDevice
    BY DEF WalkInit, NumPwc
  <2> QED
    BY <2>1 DEF HoldsOnly, Pwc!InitDevice
<1> QED
  BY <1>1, <1>2 DEF WInv

\* What a TLB miss does to the walk and to the guest PWCs.
LEMMA MissStep ==
    ASSUME NEW va \in DOMAIN GuestTable, TlbMiss(va)
    PROVE  /\ va \in Nat
           /\ walk'.va = va /\ walk' # NoWalk
           /\ walked' = Seen
           /\ gpwc' = Look(gpwc, va).pw
           /\ Look(gpwc, va).level \in 0 .. 3
           /\ Shape(walk'.tokens, Look(gpwc, va).level, va)
<1> DEFINE hit == Look(gpwc, va).level
           w0 == [pwc |-> pwc, tokens |-> <<>>]
           w2 == FinalHostWalk(GuestLevels(w0, hit, va), GuestTable[va].pa)
<1>1. va \in Nat
  BY WalkAssumption DEF IsTable
<1>2. hit \in 0 .. 3
  BY LookLevel
<1>3. Shape(w2.tokens, hit, va)
  <2>1. hit \in Nat
    BY <1>2
  <2> HIDE DEF hit
  <2> QED
    BY <1>1, <2>1, WalkShape, Zenon
<1>4. /\ walk' = [va |-> va, tokens |-> w2.tokens, flag |-> "RANGE_HIT"]
      /\ gpwc' = Look(gpwc, va).pw
      /\ walked' = Seen
  BY Zenon DEF TlbMiss, Seen
<1> HIDE DEF w2, hit
<1>5. walk'.va = va /\ walk'.tokens = w2.tokens /\ walk'.flag = "RANGE_HIT"
  BY <1>4
<1>6. walk' # NoWalk
  BY <1>5 DEF NoWalk
<1> QED
  BY <1>1, <1>2, <1>3, <1>4, <1>5, <1>6, Zenon DEF hit

\* A TLB miss keeps the invariant.
LEMMA WalkNextOK == WInv /\ [WalkNext]_walkVars => WInv'
<1> SUFFICES ASSUME WInv, [WalkNext]_walkVars PROVE WInv'
  OBVIOUS
<1>1. CASE UNCHANGED walkVars
  <2>1. gpwc' = gpwc /\ walk' = walk /\ walked' = walked
    BY <1>1 DEF walkVars
  <2> QED
    BY <2>1 DEF WInv, Seen, Shape, HoldsOnly
<1>2. ASSUME NEW va \in DOMAIN GuestTable, TlbMiss(va) PROVE WInv'
  <2> DEFINE hit == Look(gpwc, va).level
  <2>1. /\ va \in Nat
        /\ walk'.va = va /\ walk' # NoWalk
        /\ walked' = Seen
        /\ gpwc' = Look(gpwc, va).pw
        /\ hit \in 0 .. 3
        /\ Shape(walk'.tokens, hit, va)
    BY <1>2, MissStep, Zenon
  <2>2. Seen' = Seen \cup {va}
    BY <2>1 DEF Seen
  <2>3. ASSUME hit # 0 PROVE \E u \in Seen : PwcTag(u, hit) = PwcTag(va, hit)
    <3>1. Pwc(hit)!Hit(gpwc[hit], PwcTag(va, hit))
      BY <2>3, LookLevel DEF Reports
    <3>2. hit \in 1 .. 3
      BY <2>1, <2>3
    <3>3. HoldsOnly(gpwc[hit], hit, Seen)
      BY <3>2 DEF WInv
    <3> HIDE DEF hit
    <3> QED
      BY <2>1, <3>1, <3>2, <3>3, HitHeld
  <2>4. ASSUME NEW i \in 1 .. 3 PROVE HoldsOnly(gpwc'[i], i, Seen \cup {va})
    <3>1. gpwc'[i] = Asked(gpwc[i], i, PwcTag(va, i)).dev
      BY <2>1 DEF Look, NumPwc
    <3>2. HoldsOnly(gpwc[i], i, Seen)
      BY DEF WInv
    <3>3. HoldsOnly(gpwc[i], i, Seen \cup {va})
      BY <3>2 DEF HoldsOnly
    <3>4. va \in Seen \cup {va}
      OBVIOUS
    <3> QED
      BY <3>1, <3>3, <3>4, AskedHoldsOnly, Zenon
  <2> HIDE DEF hit
  <2>5. ASSUME NEW i \in 1 .. 3 PROVE HoldsOnly(gpwc[i], i, Seen)'
    BY <2>2, <2>4 DEF HoldsOnly
  <2>6. \E h \in 0 .. 3 :
           /\ Shape(walk'.tokens, h, walk'.va)
           /\ h # 0 => \E u \in walked' : PwcTag(u, h) = PwcTag(walk'.va, h)
    BY <2>1, <2>3
  <2>7. ASSUME NEW h, Shape(walk'.tokens, h, walk'.va)
        PROVE  Shape(walk.tokens, h, walk.va)'
    BY <2>7 DEF Shape
  <2> QED
    BY <2>1, <2>5, <2>6, <2>7 DEF WInv
<1> QED
  BY <1>1, <1>2 DEF WalkNext

\* The invariant holds always.
LEMMA WalkInvariance == WalkSpec => []WInv
  BY WalkInitOK, WalkNextOK, PTL DEF WalkSpec

\* "performs the complete 24-reference nested page walk", for every pair of page
\* tables and every PWC geometry: a walk is short only by the guest tables it
\* reads whose pages have no row in the host's dump.
THEOREM WalksShortByMissingRows == WalkSpec => []ShortByMissingRows
<1>1. WInv => ShortByMissingRows
  <2> SUFFICES ASSUME WInv, walk # NoWalk
               PROVE  LET read == {g \in Levels : \A h \in GuestHits : h < g}
                          lost == {g \in read : GuestTable[walk.va].pe[g] \notin DOMAIN HostTable}
                      IN Len(walk.tokens) = 24 - (NumLevels + 1) * Cardinality(lost)
    BY DEF ShortByMissingRows
  <2>1. PICK hit \in 0 .. 3 : Shape(walk.tokens, hit, walk.va)
    BY DEF WInv
  <2>2. GuestHits = IF hit = 0 THEN {} ELSE {hit}
    BY <2>1, ShapeHits, Zenon DEF GuestHits, HitsIn
  <2>3. {g \in Levels : \A h \in GuestHits : h < g} = {g \in Levels : hit < g}
    BY <2>2 DEF Levels, NumLevels
  <2>4. {g \in {g \in Levels : hit < g} : GuestTable[walk.va].pe[g] \notin DOMAIN HostTable}
          = {g \in Levels : Lost(hit, walk.va, g)}
    BY DEF Lost
  <2>5. Len(walk.tokens) = 24 - 5 * Cardinality({g \in Levels : Lost(hit, walk.va, g)})
    BY <2>1, ShapeLength, Zenon
  <2>6. NumLevels + 1 = 5
    BY DEF NumLevels
  <2> QED
    BY <2>3, <2>4, <2>5, <2>6, Zenon
<1> QED
  BY <1>1, WalkInvariance, PTL

\* The walks the parser keeps are those it can name, for every pair of page
\* tables: no lost guest level makes a walk as long as one of its shapes, and in
\* a walk of 24 every reference is the one its label says.
THEOREM LabelsNameReferences == WalkSpec => []ParsedWalksAlign
<1>1. WInv => ParsedWalksAlign
  <2> SUFFICES ASSUME WInv, Len(walk.tokens) \in {24, 15}
               PROVE  /\ Len(walk.tokens) = 24
                      /\ \A k \in 1 .. 24 : walk.tokens[k].what = "REF" =>
                            walk.tokens[k].at = EntryOf(walk.va, k)
    BY DEF ParsedWalksAlign
  <2>1. walk # NoWalk
    <3>1. NoWalk.tokens = <<>>
      BY DEF NoWalk
    <3>2. Len(<<>>) = 0
      OBVIOUS
    <3> QED
      BY <3>1, <3>2
  <2>2. PICK hit \in 0 .. 3 : Shape(walk.tokens, hit, walk.va)
    BY <2>1 DEF WInv
  <2> QED
    BY <2>2, ShapeLabels
<1> QED
  BY <1>1, WalkInvariance, PTL

\* "PWC = page-walk-cache hit at that level": a guest PWC hit is the return to
\* the group of regions of an earlier walk, whatever the tables and the geometry.
THEOREM PwcHitsRevisit == WalkSpec => []HitsRevisitGroup
<1>1. WInv => HitsRevisitGroup
  <2> SUFFICES ASSUME WInv, NEW g \in GuestHits
               PROVE  \E u \in walked : u \div (Span(g) * Grain) = walk.va \div (Span(g) * Grain)
    BY DEF HitsRevisitGroup
  <2>1. walk # NoWalk
    <3>1. NoWalk.tokens = <<>> /\ DOMAIN <<>> = {}
      BY DEF NoWalk
    <3> QED
      BY <3>1 DEF GuestHits
  <2>2. PICK hit \in 0 .. 3 :
           /\ Shape(walk.tokens, hit, walk.va)
           /\ hit # 0 => \E u \in walked : PwcTag(u, hit) = PwcTag(walk.va, hit)
    BY <2>1 DEF WInv
  <2>3. GuestHits = IF hit = 0 THEN {} ELSE {hit}
    BY <2>2, ShapeHits, Zenon DEF GuestHits, HitsIn
  <2>4. hit # 0 /\ g = hit
    BY <2>3
  <2> QED
    BY <2>2, <2>4 DEF PwcTag
<1> QED
  BY <1>1, WalkInvariance, PTL

\* "if found in the PWC, indicate PWC_LAT": the deepest guest PWC that holds the
\* region, and was not asked for it just before, is the one the walk records.
THEOREM HeldLevelsAreReported == WalkSpec => HeldIsReported
<1> DEFINE Reported(va) ==
       LET held == {i \in 1 .. NumPwc : /\ Pwc(i)!Hit(gpwc[i], PwcTag(va, i))
                                       /\ gpwc[i].last_tag # PwcTag(va, i)}
           missing == {g \in Levels : GuestTable[va].pe[g] \notin DOMAIN HostTable}
       IN held # {} /\ missing = {} =>
             walk'.tokens[(NumLevels + 1) * Max(held)].what = "PWC"
<1>1. ASSUME NEW va \in DOMAIN GuestTable, TlbMiss(va) PROVE Reported(va)
  <2> DEFINE held == {i \in 1 .. NumPwc : /\ Pwc(i)!Hit(gpwc[i], PwcTag(va, i))
                                         /\ gpwc[i].last_tag # PwcTag(va, i)}
             hit == Look(gpwc, va).level
  <2>1. SUFFICES ASSUME held # {}
                 PROVE  walk'.tokens[(NumLevels + 1) * Max(held)].what = "PWC"
    OBVIOUS
  <2>2. held = {i \in 1 .. 3 : Reports(gpwc, va, i)}
    BY DEF NumPwc, Reports
  <2> HIDE DEF held
  <2>3. /\ hit \in 0 .. 3
        /\ hit # 0 => Reports(gpwc, va, hit)
        /\ \A i \in 1 .. 3 : Reports(gpwc, va, i) => i <= hit
    BY LookLevel
  <2>4. Shape(walk'.tokens, hit, va)
    BY <1>1, MissStep
  <2> HIDE DEF hit
  <2>5. held \in SUBSET (0 .. 3) /\ held \in SUBSET (1 .. 3)
    BY <2>2
  <2>6. Max(held) \in held /\ \A x \in held : x <= Max(held)
    BY <2>1, <2>5, MaxLevel
  <2>7. Max(held) = hit /\ hit \in 1 .. 3
    <3> DEFINE m == Max(held)
    <3>1. m \in 1 .. 3 /\ m <= hit
      BY <2>2, <2>3, <2>6
    <3>2. hit \in held
      BY <2>2, <2>3, <3>1
    <3>3. hit <= m
      BY <2>6, <3>2
    <3> HIDE DEF m
    <3> QED
      BY <2>3, <3>1, <3>3 DEF m
  <2>8. ~Lost(hit, va, hit) /\ Begin(hit, va, hit) = 5 * (hit - 1)
    BY <2>7, SparedBegin
  <2>9. walk'.tokens[Begin(hit, va, hit) + 5].what = "PWC"
    BY <2>4, <2>7, <2>8 DEF Shape, Blocks, GuestBlock
  <2>10. (NumLevels + 1) * hit = Begin(hit, va, hit) + 5
    BY <2>7, <2>8 DEF NumLevels
  <2> QED
    BY <2>7, <2>9, <2>10
<1>2. [WalkNext]_walkVars => [\A va \in DOMAIN GuestTable : TlbMiss(va) => Reported(va)]_walkVars
  BY <1>1
<1> QED
  BY <1>2, PTL DEF WalkSpec, HeldIsReported
=============================================================================
