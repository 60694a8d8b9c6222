--------------------------- MODULE GuestDumpProofs ---------------------------
(***************************************************************************)
(* For any number of processes and readers, any size of table and buffer   *)
(* and any number of changes: the rows of a dump are in order, are of the  *)
(* process it was asked for unless another was selected meanwhile, and lie *)
(* between the pages mapped all the time and those mapped at some time.    *)
(* For the latter BInv says which pages the reader has settled: those      *)
(* below its position, wherever in the walk a read was interrupted.        *)
(***************************************************************************)
EXTENDS GuestDump, TLAPS

Row == [va : Nat, of : Pids]

Types ==
  /\ upper \in [Pids -> [Groups -> {"none", "huge", "table"}]]
  /\ present \in [Pids -> SUBSET Pages]
  /\ mm \subseteq Pids /\ selected \in Pids
  /\ pc \in [Pids -> {"start", "read", "convert", "done", "failed"}]
  /\ pos \in [Pids -> Nat] /\ fill \in [Pids -> Nat]
  /\ rows \in [Pids -> Seq(Row)]
  /\ header \in [Pids -> SUBSET Pids]

\* Where a read is: in user space, in a buffer that is not over-full, past the
\* rows it has.
InTable ==
  \A p \in Pids :
    /\ pc[p] = "start" => pos[p] = 0 /\ fill[p] = 0
    /\ pc[p] = "read" => pos[p] \in Pages /\ fill[p] \in 0 .. BufferRows + 1

Ahead ==
  \A p \in Pids : \A i \in 1 .. Len(rows[p]) : rows[p][i].va < pos[p]

\* A reader no other has come between reads the process it selected.
Undisturbed ==
  \A p \in Pids : pc[p] = "read" /\ p \notin reselected => selected = p

IInv == Types /\ InTable /\ Ahead /\ RowsIncrease /\ Undisturbed /\ OwnRows

-----------------------------------------------------------------------------
\* User space is not empty.
LEMMA PagesFromZero == 0 \in Pages
  <1>1. NumGroups \in Nat /\ GroupSize \in Nat /\ NumGroups > 0 /\ GroupSize > 0
    BY SizeAssumption
  <1>2. NumGroups * GroupSize \in Nat /\ NumGroups * GroupSize >= 1
    <2>1. \A a, b \in Nat : a > 0 /\ b > 0 => a * b \in Nat /\ a * b >= 1
      BY SMT
    <2> QED BY <1>1, <2>1
  <1> QED BY <1>2 DEF Pages, TaskSize

\* The size of user space is a number.
LEMMA TaskSizeNat == TaskSize \in Nat
  <1>1. \A a, b \in Nat : a * b \in Nat
    BY SMT
  <1> QED BY <1>1, SizeAssumption DEF TaskSize

\* The walker always moves (each level's size is at least one page).
LEMMA StepPositive == ASSUME NEW p, NEW a PROVE Step(p, a) \in Nat /\ Step(p, a) > 0
  BY SizeAssumption DEF Step

\* No reader has begun.
LEMMA InitOK == Init => IInv
  <1> SUFFICES ASSUME Init PROVE IInv
    OBVIOUS
  <1>1. Types
    <2>1. PICK t \in [Pids -> Tables] :
            upper = [p \in Pids |-> t[p].upper] /\ present = [p \in Pids |-> t[p].present]
      BY DEF Init
    <2>2. \A p \in Pids : /\ t[p].upper \in [Groups -> {"none", "huge", "table"}]
                          /\ t[p].present \in SUBSET Pages
      <3>1. \A x \in Tables : /\ x.upper \in [Groups -> {"none", "huge", "table"}]
                              /\ x.present \in SUBSET Pages
        BY TablesAssumption
      <3> QED BY <2>1, <3>1
    <2>3. \A p \in Pids : <<>> \in Seq(Row)
      OBVIOUS
    <2> QED BY <2>1, <2>2, <2>3 DEF Init, Types
  <1>2. \A p \in Pids : Len(rows[p]) = 0
    BY DEF Init
  <1>3. InTable
    BY DEF Init, InTable
  <1>4. Ahead /\ RowsIncrease
    BY <1>2 DEF Ahead, RowsIncrease
  <1>5. Undisturbed
    BY DEF Init, Undisturbed
  <1>6. OwnRows
    <2>1. \A p \in Pids : header[p] = {}
      BY DEF Init
    <2>2. \A p \in Pids : rows[p] = <<>>
      BY DEF Init
    <2>3. 1 .. Len(<<>>) = {}
      OBVIOUS
    <2> QED BY <2>1, <2>2, <2>3, Zenon DEF OwnRows
  <1> QED BY <1>1, <1>3, <1>4, <1>5, <1>6 DEF IInv

\* A reader begins at 0 and takes the selection from all others.
LEMMA SelectOK == ASSUME IInv, NEW p \in Pids, Select(p) PROVE IInv'
  <1> USE DEF IInv
  <1>1. Types'
    BY DEF Types, Select, process
  <1>2. InTable'
    BY PagesFromZero, SizeAssumption DEF InTable, Select, Types, Pages, process
  <1>3. Ahead' /\ RowsIncrease'
    BY DEF Ahead, RowsIncrease, Select
  <1>4. Undisturbed'
    <2> SUFFICES ASSUME NEW q \in Pids, pc'[q] = "read", q \notin reselected'
                 PROVE  selected' = q
      BY DEF Undisturbed
    <2>1. pc[q] # "read"
      BY DEF Select, Reading
    <2>2. q = p
      BY <2>1 DEF Select, Types
    <2> QED BY <2>2 DEF Select
  <1>5. OwnRows'
    BY DEF OwnRows, Select
  <1> QED BY <1>1, <1>2, <1>3, <1>4, <1>5

\* A row at the position of the read keeps the rows in order and of one process.
LEMMA AppendRow ==
  ASSUME NEW s \in Seq(Row), NEW a \in Nat, NEW q \in Pids,
         \A i \in 1 .. Len(s) : s[i].va < a,
         \A i, j \in 1 .. Len(s) : i < j => s[i].va < s[j].va
  PROVE  LET t == Append(s, [va |-> a, of |-> q])
         IN  /\ t \in Seq(Row) /\ Len(t) = Len(s) + 1
             /\ \A i \in 1 .. Len(s) : t[i] = s[i]
             /\ t[Len(s) + 1].va = a /\ t[Len(s) + 1].of = q
             /\ \A i \in 1 .. Len(t) : t[i].va <= a
             /\ \A i, j \in 1 .. Len(t) : i < j => t[i].va < t[j].va
  <1> DEFINE r == [va |-> a, of |-> q]
  <1> DEFINE t == Append(s, r)
  <1>1. r \in Row /\ r.va = a /\ r.of = q
    BY DEF Row
  <1> HIDE DEF r
  <1>2. t \in Seq(Row) /\ Len(t) = Len(s) + 1 /\ Len(s) \in Nat
    BY <1>1
  <1>3. \A i \in 1 .. Len(s) : t[i] = s[i]
    BY <1>1
  <1>4. t[Len(s) + 1] = r
    BY <1>1
  <1>5. \A i \in 1 .. Len(s) : s[i].va \in Nat
    <2>1. \A i \in 1 .. Len(s) : s[i] \in Row
      OBVIOUS
    <2>2. \A x \in Row : x.va \in Nat
      BY DEF Row
    <2> QED BY <2>1, <2>2
  <1> HIDE DEF t
  <1>6. \A i \in 1 .. Len(t) : t[i].va <= a
    BY <1>1, <1>2, <1>3, <1>4, <1>5
  <1>7. \A i, j \in 1 .. Len(t) : i < j => t[i].va < t[j].va
    <2> SUFFICES ASSUME NEW i \in 1 .. Len(t), NEW j \in 1 .. Len(t), i < j
                 PROVE  t[i].va < t[j].va
      OBVIOUS
    <2>1. i \in 1 .. Len(s) /\ t[i] = s[i]
      BY <1>2, <1>3
    <2>2. CASE j \in 1 .. Len(s)
      <3>1. t[j] = s[j]
        BY <1>3, <2>2
      <3> QED BY <2>1, <2>2, <3>1
    <2>3. CASE j = Len(s) + 1
      <3>1. t[j].va = a
        BY <1>1, <1>4, <2>3
      <3> QED BY <2>1, <3>1
    <2> QED BY <1>2, <2>2, <2>3
  <1> QED BY <1>1, <1>2, <1>3, <1>4, <1>6, <1>7 DEF t, r

\* One entry: its row is past those before it, and the position moves past it.
LEMMA ShowOK == ASSUME IInv, NEW p \in Pids, Show(p) PROVE IInv'
  <1> USE DEF IInv
  <1> DEFINE a == pos[p]
  <1> DEFINE next == a + Step(selected, a)
  <1>1. a \in Nat /\ a \in Pages /\ next \in Nat /\ next > a /\ selected \in Pids
    BY StepPositive DEF Types, InTable, Show
  <1>2. UNCHANGED <<upper, present, mm, selected, kept, seen, reselected, short, freed>>
    BY DEF Show, process, history
  <1>3. header' = IF a = 0 THEN [header EXCEPT ![p] = {selected}] ELSE header
    BY DEF Show
  <1>4. pc[p] = "read"
    BY DEF Show
  <1>5. CASE pos' = pos /\ pc' = pc /\ rows' = rows /\ fill' = [fill EXCEPT ![p] = 0]
    <2>1. Types'
      BY <1>1, <1>2, <1>3, <1>5 DEF Types
    <2>2. InTable'
      BY <1>5, SizeAssumption DEF InTable, Types
    <2>3. Ahead' /\ RowsIncrease' /\ Undisturbed'
      BY <1>2, <1>5 DEF Ahead, RowsIncrease, Undisturbed
    <2>4. OwnRows'
      BY <1>2, <1>3, <1>4, <1>5 DEF OwnRows, Undisturbed, Types
    <2> QED BY <2>1, <2>2, <2>3, <2>4
  <1>6. CASE /\ pos' = [pos EXCEPT ![p] = next]
             /\ pc' = [pc EXCEPT ![p] = IF AtEnd(a, next) THEN "convert" ELSE @]
             /\ \E f \in Nat : fill' = [fill EXCEPT ![p] = f] /\ f <= BufferRows + 1
             /\ rows' \in {rows, [rows EXCEPT ![p] = Append(@, [va |-> a, of |-> selected])]}
    <2> DEFINE t == Append(rows[p], [va |-> a, of |-> selected])
    <2>1. \A i \in 1 .. Len(rows[p]) : rows[p][i].va < a
      BY DEF Ahead
    <2>2. \A i, j \in 1 .. Len(rows[p]) : i < j => rows[p][i].va < rows[p][j].va
      BY DEF RowsIncrease
    <2>3. rows[p] \in Seq(Row)
      BY DEF Types
    <2>4. /\ t \in Seq(Row) /\ Len(t) = Len(rows[p]) + 1
          /\ \A i \in 1 .. Len(rows[p]) : t[i] = rows[p][i]
          /\ t[Len(rows[p]) + 1].va = a /\ t[Len(rows[p]) + 1].of = selected
          /\ \A i \in 1 .. Len(t) : t[i].va <= a
          /\ \A i, j \in 1 .. Len(t) : i < j => t[i].va < t[j].va
      BY <1>1, <2>1, <2>2, <2>3, AppendRow, Zenon
    <2> HIDE DEF t
    <2>5. \/ rows' = rows
          \/ rows' = [rows EXCEPT ![p] = t]
      BY <1>6 DEF t
    <2>6. Types'
      <3>1. pos' \in [Pids -> Nat] /\ fill' \in [Pids -> Nat]
        BY <1>1, <1>6 DEF Types
      <3>2. pc' \in [Pids -> {"start", "read", "convert", "done", "failed"}]
        BY <1>6 DEF Types
      <3>3. rows' \in [Pids -> Seq(Row)]
        BY <2>4, <2>5, Zenon DEF Types
      <3>4. header' \in [Pids -> SUBSET Pids]
        BY <1>1, <1>3 DEF Types
      <3> QED BY <1>2, <3>1, <3>2, <3>3, <3>4 DEF Types
    <2>7. InTable'
      <3> SUFFICES ASSUME NEW q \in Pids
                   PROVE  /\ pc'[q] = "start" => pos'[q] = 0 /\ fill'[q] = 0
                          /\ pc'[q] = "read" => pos'[q] \in Pages /\ fill'[q] \in 0 .. BufferRows + 1
        BY DEF InTable
      <3>1. CASE q # p
        BY <1>6, <3>1 DEF InTable, Types
      <3>2. CASE q = p
        <4>1. pc'[p] # "start"
          BY <1>4, <1>6 DEF Types
        <4>2. pc'[p] = "read" => ~AtEnd(a, next)
          BY <1>6 DEF Types
        <4>3. pos'[p] = next /\ fill'[p] \in 0 .. BufferRows + 1
          BY <1>6, SizeAssumption DEF Types
        <4>4. ~AtEnd(a, next) => next \in Pages
          BY <1>1, TaskSizeNat DEF AtEnd, Pages
        <4> QED BY <3>2, <4>1, <4>2, <4>3, <4>4
      <3> QED BY <3>1, <3>2
    <2>8. pos'[p] = next /\ \A q \in Pids : q # p => pos'[q] = pos[q] /\ rows'[q] = rows[q]
      BY <1>6, <2>5 DEF Types
    <2>9. rows'[p] \in {rows[p], t}
      BY <2>5 DEF Types
    <2>10. \A i \in 1 .. Len(rows[p]) : rows[p][i].va \in Nat
      <3>1. \A i \in 1 .. Len(rows[p]) : rows[p][i] \in Row
        BY <2>3
      <3>2. \A x \in Row : x.va \in Nat
        BY DEF Row
      <3> QED BY <3>1, <3>2
    <2>11. Ahead'
      <3> SUFFICES ASSUME NEW q \in Pids, NEW i \in 1 .. Len(rows'[q])
                   PROVE  rows'[q][i].va < pos'[q]
        BY DEF Ahead
      <3>1. CASE q # p
        BY <2>8, <3>1 DEF Ahead
      <3>2. CASE q = p /\ rows'[p] = rows[p]
        BY <1>1, <2>1, <2>8, <2>10, <3>2
      <3>3. CASE q = p /\ rows'[p] = t
        <4>1. t[i] \in Row
          BY <2>4, <3>3
        <4>2. t[i].va \in Nat
          BY <4>1 DEF Row
        <4> QED BY <1>1, <2>4, <2>8, <3>3, <4>2
      <3> QED BY <2>9, <3>1, <3>2, <3>3
    <2>12. RowsIncrease'
      BY <2>2, <2>4, <2>8, <2>9 DEF RowsIncrease
    <2>13. Undisturbed'
      BY <1>2, <1>4, <1>6 DEF Undisturbed, Types
    <2>14. OwnRows'
      <3> SUFFICES ASSUME NEW q \in Pids, q \notin reselected
                   PROVE  /\ header'[q] \subseteq {q}
                          /\ \A i \in 1 .. Len(rows'[q]) : rows'[q][i].of = q
        BY <1>2 DEF OwnRows
      <3>1. header[q] \subseteq {q} /\ \A i \in 1 .. Len(rows[q]) : rows[q][i].of = q
        BY DEF OwnRows
      <3>2. q = p => selected = q
        BY <1>4 DEF Undisturbed
      <3>3. header'[q] \subseteq {q}
        BY <1>3, <3>1, <3>2 DEF Types
      <3>4. Len(rows[p]) \in Nat
        BY <2>3
      <3>5. \A i \in 1 .. Len(rows'[q]) : rows'[q][i].of = q
        <4>1. CASE rows'[q] = rows[q]
          BY <3>1, <4>1
        <4>2. CASE q = p /\ rows'[p] = t
          BY <2>4, <3>1, <3>2, <3>4, <4>2
        <4> QED BY <2>8, <2>9, <4>1, <4>2
      <3> QED BY <3>3, <3>5
    <2> QED BY <2>6, <2>7, <2>11, <2>12, <2>13, <2>14
  <1>7. /\ a \in Mapped(selected) /\ ~Fits(p) =>
             pos' = pos /\ pc' = pc /\ rows' = rows /\ fill' = [fill EXCEPT ![p] = 0]
        /\ ~(a \in Mapped(selected) /\ ~Fits(p)) =>
             /\ pos' = [pos EXCEPT ![p] = next]
             /\ pc' = [pc EXCEPT ![p] = IF AtEnd(a, next) THEN "convert" ELSE @]
             /\ \E f \in Nat : fill' = [fill EXCEPT ![p] = f] /\ f <= BufferRows + 1
             /\ rows' \in {rows, [rows EXCEPT ![p] = Append(@, [va |-> a, of |-> selected])]}
    BY SizeAssumption DEF Show, Fits, Resume, Types, InTable
  <1> QED BY <1>5, <1>6, <1>7

\* The steps that change neither position nor rows but to drop them.
LEMMA EndOK ==
  ASSUME IInv, NEW p \in Pids, ShowFails(p) \/ StartFails(p) \/ Convert(p)
  PROVE  IInv'
  <1> USE DEF IInv
  <1>1. /\ UNCHANGED <<upper, present, mm, selected, pos, fill, header, reselected>>
        /\ \E c \in {"convert", "done", "failed"} : pc' = [pc EXCEPT ![p] = c]
        /\ rows' = rows \/ rows' = [rows EXCEPT ![p] = <<>>]
    BY DEF ShowFails, StartFails, Convert, process, history
  <1>2. Types'
    <2>1. pc' \in [Pids -> {"start", "read", "convert", "done", "failed"}]
      BY <1>1 DEF Types
    <2>2. <<>> \in Seq(Row)
      OBVIOUS
    <2>3. rows' \in [Pids -> Seq(Row)]
      BY <1>1, <2>2, Zenon DEF Types
    <2> QED BY <1>1, <2>1, <2>3 DEF Types
  <1>3. InTable'
    BY <1>1 DEF InTable, Types
  <1>4. \A q \in Pids : rows'[q] = rows[q] \/ rows'[q] = <<>>
    BY <1>1 DEF Types
  <1>5. \A q \in Pids : rows'[q] = rows[q] \/ 1 .. Len(rows'[q]) = {}
    BY <1>4
  <1>6. Ahead' /\ RowsIncrease'
    BY <1>1, <1>5, Zenon DEF Ahead, RowsIncrease
  <1>7. Undisturbed'
    BY <1>1 DEF Undisturbed, Types
  <1>8. OwnRows'
    BY <1>1, <1>5 DEF OwnRows
  <1> QED BY <1>2, <1>3, <1>6, <1>7, <1>8

\* The steps of the processes change no reader.
LEMMA ProcessOK ==
  ASSUME IInv, NEW p \in Pids,
         \/ \E a \in Pages : Fault(p, a) \/ Unmap(p, a)
         \/ \E g \in Groups : Free(p, g)
         \/ Exit(p)
  PROVE  IInv'
  <1> USE DEF IInv
  <1>1. UNCHANGED <<selected, pc, pos, fill, header, rows, reselected>>
    BY DEF Fault, Unmap, Free, Exit, Changed, reader, history
  <1>2. upper' \in [Pids -> [Groups -> {"none", "huge", "table"}]] /\ present' \in [Pids -> SUBSET Pages]
    <2>1. CASE Exit(p)
      BY <2>1 DEF Exit, Types
    <2>2. CASE \E g \in Groups : Free(p, g)
      BY <2>2 DEF Free, Types
    <2>3. CASE \E a \in Pages : Unmap(p, a)
      BY <2>3 DEF Unmap, Types
    <2>4. CASE \E a \in Pages : Fault(p, a)
      <3>1. PICK a \in Pages : Fault(p, a)
        BY <2>4
      <3>2. upper' = [upper EXCEPT ![p][GroupOf(a)] = "table"]
        BY <3>1 DEF Fault
      <3>3. present' = [present EXCEPT ![p] = @ \cup {a}]
        BY <3>1 DEF Fault
      <3>4. upper' \in [Pids -> [Groups -> {"none", "huge", "table"}]]
        BY <3>2, Zenon DEF Types
      <3>5. present' \in [Pids -> SUBSET Pages]
        BY <3>3 DEF Types
      <3> QED BY <3>4, <3>5
    <2> QED BY <2>1, <2>2, <2>3, <2>4
  <1>3. mm' \subseteq Pids
    BY DEF Fault, Unmap, Free, Exit, Changed, Types
  <1>4. Types'
    BY <1>1, <1>2, <1>3 DEF Types
  <1>5. InTable' /\ Ahead' /\ RowsIncrease' /\ Undisturbed' /\ OwnRows'
    BY <1>1 DEF InTable, Ahead, RowsIncrease, Undisturbed, OwnRows
  <1> QED BY <1>4, <1>5

\* Every step keeps the invariant.
LEMMA NextOK == IInv /\ [Next]_vars => IInv'
  <1> SUFFICES ASSUME IInv, [Next]_vars PROVE IInv'
    OBVIOUS
  <1>1. CASE UNCHANGED vars
    BY <1>1 DEF vars, process, reader, history, IInv, Types, InTable, Ahead, RowsIncrease,
                Undisturbed, OwnRows
  <1>2. ASSUME NEW p \in Pids, ReaderStep(p) PROVE IInv'
    BY <1>2, SelectOK, ShowOK, EndOK DEF ReaderStep
  <1>3. CASE Next
    BY <1>2, <1>3, ProcessOK DEF Next
  <1> QED BY <1>1, <1>3

-----------------------------------------------------------------------------
(* Between the pages mapped all the time and those mapped at some time.    *)

\* The history of a process follows its table.
Followed ==
  /\ kept \in [Pids -> SUBSET Pages] /\ seen \in [Pids -> SUBSET Pages]
  /\ \A p \in Pids :
    /\ kept[p] \subseteq Mapped(p)
    /\ pc[p] # "start" => Mapped(p) \subseteq seen[p]
    /\ p \in Held => p \notin freed /\ (pc[p] # "start" => kept[p] = Mapped(p) /\ seen[p] = Mapped(p))

AtGroupStart(a) == a = GroupOf(a) * GroupSize

\* What a reader nothing has come between has read so far.  While no table was
\* freed, it is at the start of a group that it skips as a whole.
ReadSoFar ==
  \A p \in Pids : p \notin reselected =>
    /\ pc[p] = "start" => rows[p] = <<>>
    /\ Addresses(p) \subseteq seen[p]
    /\ p \notin freed /\ pc[p] \notin {"start", "failed"} =>
         /\ \A a \in kept[p] : a < pos[p] => a \in Addresses(p)
         /\ pc[p] = "read" /\ upper[p][GroupOf(pos[p])] = "none" => AtGroupStart(pos[p])
         /\ pc[p] # "read" => p \in short \/ pos[p] >= TaskSize

\* A dump of a process that is stopped, read to its end without another process
\* being selected, has exactly the pages that are mapped.
HeldIsExact ==
  \A p \in Held : pc[p] = "done" /\ p \notin reselected \cup short => Addresses(p) = Mapped(p)

\* A page is in its group.
LEMMA InGroup ==
  ASSUME NEW a \in Nat
  PROVE  /\ GroupOf(a) \in Nat
         /\ GroupOf(a) * GroupSize <= a /\ a < GroupOf(a) * GroupSize + GroupSize
  <1>1. GroupSize \in Nat /\ GroupSize > 0
    BY SizeAssumption
  <1>2. \A x, n \in Nat : n > 0 =>
          x \div n \in Nat /\ (x \div n) * n <= x /\ x < (x \div n) * n + n
    BY SMT
  <1> QED BY <1>1, <1>2 DEF GroupOf

\* The group of a page of user space is one of its groups.
LEMMA GroupOfPage == ASSUME NEW a \in Pages PROVE GroupOf(a) \in Groups
  <1>1. GroupSize \in Nat /\ GroupSize > 0 /\ NumGroups \in Nat
    BY SizeAssumption
  <1>2. a \in Nat /\ a < NumGroups * GroupSize
    BY TaskSizeNat DEF Pages, TaskSize
  <1> DEFINE g == GroupOf(a)
  <1>3. g \in Nat /\ g * GroupSize <= a
    BY <1>2, InGroup
  <1> HIDE DEF g
  <1>4. \A n, x, y \in Nat : x >= y => x * n >= y * n
    BY SMT
  <1>5. g * GroupSize \in Nat /\ NumGroups * GroupSize \in Nat
    BY <1>1, <1>3, SMT
  <1>6. ~(g >= NumGroups)
    BY <1>1, <1>2, <1>3, <1>4, <1>5
  <1>7. g \in 0 .. NumGroups - 1
    BY <1>1, <1>3, <1>6
  <1> QED BY <1>7 DEF g, Groups

\* A page is in no other group.
LEMMA GroupUnique ==
  ASSUME NEW a \in Nat, NEW g \in Nat, g * GroupSize <= a, a < g * GroupSize + GroupSize
  PROVE  GroupOf(a) = g
  <1>1. GroupSize \in Nat /\ GroupSize > 0
    BY SizeAssumption
  <1>2. \A n, g1, g2 \in Nat : n > 0 /\ g1 < g2 => g1 * n + n <= g2 * n
    <2> SUFFICES ASSUME NEW n \in Nat, NEW g1 \in Nat, NEW g2 \in Nat, g1 < g2
                 PROVE  g1 * n + n <= g2 * n
      OBVIOUS
    <2>1. g2 >= g1 + 1
      OBVIOUS
    <2>2. \A x, y \in Nat : x >= y => x * n >= y * n
      BY SMT
    <2>3. (g1 + 1) * n = g1 * n + n
      BY SMT
    <2>4. g1 + 1 \in Nat
      OBVIOUS
    <2>5. g2 * n >= (g1 + 1) * n
      BY <2>1, <2>2, <2>4
    <2>6. g2 * n \in Nat /\ g1 * n \in Nat
      BY SMT
    <2> QED BY <2>3, <2>5, <2>6
  <1> DEFINE h == GroupOf(a)
  <1>3. h \in Nat /\ h * GroupSize <= a /\ a < h * GroupSize + GroupSize
    BY InGroup
  <1> HIDE DEF h
  <1>4. h * GroupSize \in Nat /\ g * GroupSize \in Nat
    BY <1>1, <1>3, SMT
  <1>5. ~(h < g)
    BY <1>1, <1>2, <1>3, <1>4
  <1>6. ~(g < h)
    BY <1>1, <1>2, <1>3, <1>4
  <1>7. h = g
    BY <1>3, <1>5, <1>6
  <1> QED BY <1>7 DEF h

\* From the start of a group, a step of GroupSize passes that group alone and
\* ends at the start of one.
LEMMA SkipGroup ==
  ASSUME NEW a \in Nat, a = GroupOf(a) * GroupSize
  PROVE  /\ \A b \in Nat : a <= b /\ b < a + GroupSize => GroupOf(b) = GroupOf(a)
         /\ a + GroupSize = GroupOf(a + GroupSize) * GroupSize
  <1>1. GroupSize \in Nat /\ GroupSize > 0 /\ GroupOf(a) \in Nat
    BY SizeAssumption, InGroup
  <1>2. \A b \in Nat : a <= b /\ b < a + GroupSize => GroupOf(b) = GroupOf(a)
    BY <1>1, GroupUnique
  <1>3. a + GroupSize = (GroupOf(a) + 1) * GroupSize
    <2>1. \A g \in Nat : (g + 1) * GroupSize = g * GroupSize + GroupSize
      BY <1>1, SMT
    <2> QED BY <1>1, <2>1, Zenon
  <1>4. GroupOf(a + GroupSize) = GroupOf(a) + 1
    BY <1>1, <1>3, GroupUnique
  <1> QED BY <1>2, <1>3, <1>4

\* A step of one page stays in its group or ends at the start of the next.
LEMMA NextPage ==
  ASSUME NEW a \in Nat
  PROVE  GroupOf(a + 1) = GroupOf(a) \/ a + 1 = GroupOf(a + 1) * GroupSize
  <1>1. GroupSize \in Nat /\ GroupSize > 0
    BY SizeAssumption
  <1> DEFINE g == GroupOf(a)
  <1>2. g \in Nat /\ g * GroupSize <= a /\ a < g * GroupSize + GroupSize
    BY InGroup
  <1> HIDE DEF g
  <1>3. g * GroupSize \in Nat /\ (g + 1) * GroupSize = g * GroupSize + GroupSize
    BY <1>1, <1>2, SMT
  <1>4. CASE a + 1 < g * GroupSize + GroupSize
    <2>1. GroupOf(a + 1) = g
      BY <1>1, <1>2, <1>3, <1>4, GroupUnique
    <2> QED BY <2>1 DEF g
  <1>5. CASE a + 1 = g * GroupSize + GroupSize
    <2>1. GroupOf(a + 1) = g + 1
      BY <1>1, <1>2, <1>3, <1>5, GroupUnique
    <2> QED BY <1>3, <1>5, <2>1
  <1> QED BY <1>1, <1>2, <1>3, <1>4, <1>5

\* What happens in a process that is not stopped: the table of the others stays,
\* and the history takes the new table into account.
LEMMA ProcessChange ==
  ASSUME IInv, Followed, NEW p \in Pids,
         \/ \E a \in Pages : Fault(p, a) \/ Unmap(p, a)
         \/ \E g \in Groups : Free(p, g)
  PROVE  /\ p \notin Held
         /\ \A q \in Pids : q # p => upper'[q] = upper[q] /\ Mapped(q)' = Mapped(q)
         /\ kept' = [kept EXCEPT ![p] = @ \cap Mapped(p)']
         /\ seen' = [seen EXCEPT ![p] = @ \cup Mapped(p)']
         /\ UNCHANGED <<selected, pc, pos, rows, reselected, short>>
         /\ freed \subseteq freed' /\ freed' \subseteq freed \cup {p}
  <1>1. Changed(p)
    BY DEF Fault, Unmap, Free
  <1>2. \A q \in Pids : q # p => upper'[q] = upper[q] /\ present'[q] = present[q]
    BY DEF Fault, Unmap, Free, IInv, Types
  <1>3. \A q \in Pids : q # p => Mapped(q)' = Mapped(q)
    BY <1>2 DEF Mapped
  <1>4. freed \subseteq freed' /\ freed' \subseteq freed \cup {p}
    BY DEF Fault, Unmap, Free
  <1> QED BY <1>1, <1>2, <1>3, <1>4 DEF Changed, reader

\* A step of a reader changes no table.
LEMMA ReaderChange ==
  ASSUME NEW p \in Pids, ReaderStep(p)
  PROVE  /\ UNCHANGED <<upper, freed>> /\ \A q \in Pids : Mapped(q)' = Mapped(q)
         /\ \/ Select(p)
            \/ pc[p] \in {"read", "convert"} /\ UNCHANGED <<kept, seen, reselected>>
  BY DEF ReaderStep, Select, Show, ShowFails, StartFails, Convert, process, history, Mapped

\* The history follows the table.
LEMMA FollowedStep == ASSUME IInv, Followed, Next PROVE Followed'
  <1>1. \A q \in Pids : Mapped(q) \subseteq Pages /\ Mapped(q)' \subseteq Pages
    BY DEF Mapped
  <1>2. ASSUME NEW p \in Pids, Select(p) PROVE Followed'
    <2>1. \A q \in Pids : Mapped(q)' = Mapped(q)
      BY <1>2, ReaderChange DEF ReaderStep
    <2>2. /\ pc' = [pc EXCEPT ![p] = "read"] /\ freed' = freed
          /\ kept' = [kept EXCEPT ![p] = Mapped(p)] /\ seen' = [seen EXCEPT ![p] = Mapped(p)]
      BY <1>2 DEF Select
    <2> QED BY <1>1, <2>1, <2>2 DEF Followed, IInv, Types
  <1>3. ASSUME NEW p \in Pids, ReaderStep(p), ~Select(p) PROVE Followed'
    <2>1. \A q \in Pids : Mapped(q)' = Mapped(q)
      BY <1>3, ReaderChange
    <2>2. UNCHANGED <<kept, seen, freed>> /\ \A q \in Pids : pc'[q] = pc[q] \/ pc[q] # "start"
      BY <1>3, ReaderChange DEF ReaderStep, Show, ShowFails, StartFails, Convert, IInv, Types
    <2> QED BY <2>1, <2>2 DEF Followed
  <1>4. ASSUME NEW p \in Pids, \/ \E a \in Pages : Fault(p, a) \/ Unmap(p, a)
                               \/ \E g \in Groups : Free(p, g)
        PROVE  Followed'
    <2>1. /\ p \notin Held
          /\ \A q \in Pids : q # p => Mapped(q)' = Mapped(q)
          /\ kept' = [kept EXCEPT ![p] = @ \cap Mapped(p)']
          /\ seen' = [seen EXCEPT ![p] = @ \cup Mapped(p)']
          /\ pc' = pc /\ freed' \subseteq freed \cup {p}
      BY <1>4, ProcessChange
    <2> QED BY <1>1, <2>1 DEF Followed
  <1>5. ASSUME NEW p \in Pids, Exit(p) PROVE Followed'
    BY <1>5 DEF Exit, reader, history, Followed, Mapped
  <1> QED BY <1>2, <1>3, <1>4, <1>5 DEF Next

\* The rows an append leaves.
LEMMA AddressesAppend ==
  ASSUME IInv, NEW p \in Pids, NEW r \in Row, rows' = [rows EXCEPT ![p] = Append(@, r)]
  PROVE  Addresses(p)' = Addresses(p) \cup {r.va}
  <1> DEFINE s == rows[p]
  <1>1. s \in Seq(Row) /\ rows'[p] = Append(s, r)
    BY DEF IInv, Types
  <1> DEFINE t == Append(s, r)
  <1>2. Len(t) = Len(s) + 1 /\ Len(s) \in Nat
    BY <1>1
  <1>3. \A i \in 1 .. Len(s) : t[i] = s[i]
    BY <1>1
  <1>4. t[Len(s) + 1] = r
    BY <1>1
  <1>5. 1 .. Len(t) = 1 .. Len(s) \cup {Len(s) + 1}
    BY <1>2
  <1> HIDE DEF t
  <1>6. {t[i].va : i \in 1 .. Len(t)} = {s[i].va : i \in 1 .. Len(s)} \cup {r.va}
    BY <1>3, <1>4, <1>5
  <1> QED BY <1>1, <1>6 DEF Addresses, t

\* Without rows there are no addresses.
LEMMA NoAddresses == ASSUME NEW p \in Pids, rows[p] = <<>> PROVE Addresses(p) = {}
  <1>1. 1 .. Len(<<>>) = {}
    OBVIOUS
  <1> QED BY <1>1 DEF Addresses

\* ReadSoFar of one process: what a step has to keep.
ReadSoFarOf(p) ==
  p \notin reselected =>
    /\ pc[p] = "start" => rows[p] = <<>>
    /\ Addresses(p) \subseteq seen[p]
    /\ p \notin freed /\ pc[p] \notin {"start", "failed"} =>
         /\ \A a \in kept[p] : a < pos[p] => a \in Addresses(p)
         /\ pc[p] = "read" /\ upper[p][GroupOf(pos[p])] = "none" => AtGroupStart(pos[p])
         /\ pc[p] # "read" => p \in short \/ pos[p] >= TaskSize

\* A reader at an entry: the entry is in its rows if it is mapped, and what it
\* steps over is not.
LEMMA ShowKeeps ==
  ASSUME IInv, Followed, NEW p \in Pids, Show(p), ReadSoFarOf(p) PROVE ReadSoFarOf(p)'
  <1> USE DEF IInv
  <1> DEFINE a == pos[p]
  <1> DEFINE next == a + Step(p, a)
  <1> SUFFICES ASSUME p \notin reselected'
               PROVE  /\ pc'[p] # "start"
                      /\ Addresses(p)' \subseteq seen'[p]
                      /\ p \notin freed' /\ pc'[p] # "failed" =>
                           /\ \A b \in kept'[p] : b < pos'[p] => b \in Addresses(p)'
                           /\ pc'[p] = "read" /\ upper'[p][GroupOf(pos'[p])] = "none" =>
                                AtGroupStart(pos'[p])
                           /\ pc'[p] # "read" => p \in short' \/ pos'[p] >= TaskSize
    BY DEF ReadSoFarOf
  <1>1. UNCHANGED <<upper, present, selected, kept, seen, reselected, short, freed>> /\ pc[p] = "read"
    BY DEF Show, process, history
  <1>2. selected = p
    BY <1>1 DEF Undisturbed
  <1>3. a \in Nat /\ a \in Pages /\ next \in Nat /\ next > a
    BY <1>1, StepPositive DEF Types, InTable
  <1>4. /\ Addresses(p) \subseteq seen[p]
        /\ p \notin freed => \A b \in kept[p] : b < a => b \in Addresses(p)
        /\ p \notin freed /\ upper[p][GroupOf(a)] = "none" => AtGroupStart(a)
    BY <1>1 DEF ReadSoFarOf
  <1>5. kept[p] \subseteq Mapped(p) /\ Mapped(p) \subseteq seen[p] /\ kept[p] \subseteq Pages
    BY <1>1 DEF Followed
  <1>6. CASE pos' = pos /\ pc' = pc /\ rows' = rows
    BY <1>1, <1>4, <1>6 DEF Addresses
  <1>7. CASE /\ pos' = [pos EXCEPT ![p] = next]
             /\ pc' = [pc EXCEPT ![p] = IF AtEnd(a, next) THEN "convert" ELSE @]
             /\ IF a \in Mapped(p) THEN rows' = [rows EXCEPT ![p] = Append(@, [va |-> a, of |-> p])]
                                   ELSE rows' = rows
    <2>1. Addresses(p)' = IF a \in Mapped(p) THEN Addresses(p) \cup {a} ELSE Addresses(p)
      <3> DEFINE r == [va |-> a, of |-> p]
      <3>1. r \in Row /\ r.va = a
        BY <1>3 DEF Row
      <3> HIDE DEF r
      <3>2. CASE a \in Mapped(p)
        <4>1. rows' = [rows EXCEPT ![p] = Append(@, r)]
          BY <1>7, <3>2 DEF r
        <4> QED BY <3>1, <3>2, <4>1, AddressesAppend, Zenon
      <3>3. CASE a \notin Mapped(p)
        BY <1>7, <3>3 DEF Addresses
      <3> QED BY <3>2, <3>3
    <2>2. pos'[p] = next /\ pc'[p] = IF AtEnd(a, next) THEN "convert" ELSE "read"
      BY <1>1, <1>7 DEF Types
    <2>3. Addresses(p)' \subseteq seen'[p]
      BY <1>1, <1>4, <1>5, <2>1
    <2>4. pc'[p] # "read" => next >= TaskSize
      BY <1>3, <2>2, TaskSizeNat DEF AtEnd
    <2>5. ASSUME p \notin freed
          PROVE  /\ \A b \in kept[p] : b < next => b \in Addresses(p)'
                 /\ upper[p][GroupOf(next)] = "none" => AtGroupStart(next)
      <3>1. CASE upper[p][GroupOf(a)] = "none"
        <4>1. a = GroupOf(a) * GroupSize /\ next = a + GroupSize
          BY <1>4, <2>5, <3>1 DEF Step, AtGroupStart
        <4>2. \A b \in Nat : a <= b /\ b < next => GroupOf(b) = GroupOf(a)
          BY <1>3, <4>1, SkipGroup
        <4>3. AtGroupStart(next)
          BY <1>3, <4>1, SkipGroup DEF AtGroupStart
        <4>4. \A b \in kept[p] : b \in Nat /\ upper[p][GroupOf(b)] # "none"
          BY <1>5 DEF Mapped, Pages
        <4>5. \A b \in kept[p] : b < next => b < a
          BY <1>3, <3>1, <4>2, <4>4
        <4>6. \A b \in kept[p] : b < next => b \in Addresses(p)
          BY <1>4, <2>5, <4>5
        <4> QED BY <2>1, <4>3, <4>6
      <3>2. CASE upper[p][GroupOf(a)] # "none"
        <4>1. next = a + 1
          BY <3>2 DEF Step
        <4>2. \A b \in kept[p] : b \in Nat
          BY <1>5 DEF Pages
        <4>3. \A b \in kept[p] : b < next => b < a \/ b = a
          BY <1>3, <4>1, <4>2
        <4>4. \A b \in kept[p] : b < next => b \in Addresses(p)'
          BY <1>4, <1>5, <2>1, <2>5, <4>3
        <4>5. upper[p][GroupOf(next)] = "none" => AtGroupStart(next)
          BY <1>3, <3>2, <4>1, NextPage DEF AtGroupStart
        <4> QED BY <4>4, <4>5
      <3> QED BY <3>1, <3>2
    <2> HIDE DEF next
    <2> QED BY <1>1, <2>2, <2>3, <2>4, <2>5
  <1>8. \/ pos' = pos /\ pc' = pc /\ rows' = rows
        \/ /\ pos' = [pos EXCEPT ![p] = next]
           /\ pc' = [pc EXCEPT ![p] = IF AtEnd(a, next) THEN "convert" ELSE @]
           /\ IF a \in Mapped(p) THEN rows' = [rows EXCEPT ![p] = Append(@, [va |-> a, of |-> p])]
                                 ELSE rows' = rows
    BY <1>2 DEF Show, Resume, Types
  <1> QED BY <1>6, <1>7, <1>8

\* The other steps of a reader.
LEMMA ReaderKeeps ==
  ASSUME IInv, Followed, NEW p \in Pids, Select(p) \/ ShowFails(p) \/ StartFails(p) \/ Convert(p),
         ReadSoFarOf(p)
  PROVE  ReadSoFarOf(p)'
  <1> USE DEF IInv
  <1>1. CASE Select(p)
    <2>1. /\ pc[p] = "start" /\ pc'[p] = "read" /\ rows' = rows /\ pos' = pos
          /\ reselected \subseteq reselected' /\ kept'[p] \subseteq Pages
      BY <1>1 DEF Select, Types, Followed, Mapped
    <2>2. pos[p] = 0
      BY <2>1 DEF InTable
    <2>3. p \notin reselected' => Addresses(p)' = {}
      <3>1. p \notin reselected' => rows[p] = <<>>
        BY <2>1 DEF ReadSoFarOf
      <3>2. Addresses(p)' = Addresses(p)
        BY <2>1 DEF Addresses
      <3> QED BY <3>1, <3>2, NoAddresses
    <2>4. \A b \in kept'[p] : ~(b < pos'[p])
      BY <2>1, <2>2 DEF Pages
    <2>5. AtGroupStart(pos'[p])
      <3>1. GroupOf(0) = 0
        BY SizeAssumption, GroupUnique
      <3>2. GroupSize \in Nat
        BY SizeAssumption
      <3> QED BY <2>1, <2>2, <3>1, <3>2 DEF AtGroupStart
    <2> QED BY <2>1, <2>3, <2>4, <2>5 DEF ReadSoFarOf
  <1>2. CASE ShowFails(p)
    <2>1. pc'[p] = "failed" /\ rows'[p] = <<>>
      BY <1>2 DEF ShowFails, Types
    <2>2. Addresses(p)' = {}
      <3>1. 1 .. Len(<<>>) = {}
        OBVIOUS
      <3> QED BY <2>1, <3>1 DEF Addresses
    <2> QED BY <2>1, <2>2 DEF ReadSoFarOf
  <1>3. CASE StartFails(p)
    <2>1. /\ pc[p] = "read" /\ pc'[p] \in {"failed", "convert"} /\ p \in short'
          /\ UNCHANGED <<upper, pos, rows, kept, seen, reselected, freed>>
      BY <1>3 DEF StartFails, Types, process
    <2>2. Addresses(p)' = Addresses(p)
      BY <2>1 DEF Addresses
    <2> QED BY <2>1, <2>2 DEF ReadSoFarOf
  <1>4. CASE Convert(p)
    <2>1. /\ pc[p] = "convert" /\ pc'[p] \in {"failed", "done"}
          /\ UNCHANGED <<upper, pos, rows, kept, seen, reselected, short, freed>>
      BY <1>4 DEF Convert, Types, process, history
    <2>2. Addresses(p)' = Addresses(p)
      BY <2>1 DEF Addresses
    <2> QED BY <2>1, <2>2 DEF ReadSoFarOf
  <1> QED BY <1>1, <1>2, <1>3, <1>4

\* What a reader has read of a process stays between, whatever the others and
\* the processes do.
LEMMA ReadSoFarStep == ASSUME IInv, Followed, ReadSoFar, Next PROVE ReadSoFar'
  <1>1. \A q \in Pids : ReadSoFarOf(q)
    BY DEF ReadSoFar, ReadSoFarOf
  <1>2. ASSUME NEW p \in Pids, ReaderStep(p), NEW q \in Pids PROVE ReadSoFarOf(q)'
    <2>1. CASE q = p
      BY <1>1, <1>2, <2>1, ShowKeeps, ReaderKeeps DEF ReaderStep
    <2>2. CASE q # p
      <3>1. /\ upper' = upper /\ freed' = freed /\ reselected \subseteq reselected'
            /\ pc'[q] = pc[q] /\ pos'[q] = pos[q] /\ rows'[q] = rows[q]
            /\ kept'[q] = kept[q] /\ seen'[q] = seen[q] /\ (q \in short => q \in short')
        <4>1. CASE Select(p)
          BY <2>2, <4>1 DEF Select, process, IInv, Types, Followed
        <4>2. CASE Show(p)
          <5>1. UNCHANGED <<upper, freed, reselected, kept, seen, short>>
            BY <4>2 DEF Show, process, history
          <5>2. pc'[q] = pc[q] /\ pos'[q] = pos[q]
            BY <2>2, <4>2 DEF Show, IInv, Types
          <5>3. rows'[q] = rows[q]
            BY <2>2, <4>2 DEF Show, IInv, Types
          <5> QED BY <5>1, <5>2, <5>3
        <4>3. CASE ShowFails(p) \/ StartFails(p) \/ Convert(p)
          BY <2>2, <4>3 DEF ShowFails, StartFails, Convert, process, history, IInv, Types
        <4> QED BY <1>2, <4>1, <4>2, <4>3 DEF ReaderStep
      <3>2. Addresses(q)' = Addresses(q)
        BY <3>1 DEF Addresses
      <3> QED BY <1>1, <3>1, <3>2 DEF ReadSoFarOf
    <2> QED BY <2>1, <2>2
  <1>3. ASSUME NEW p \in Pids, NEW q \in Pids,
               \/ \E a \in Pages : Fault(p, a) \/ Unmap(p, a)
               \/ \E g \in Groups : Free(p, g)
        PROVE  ReadSoFarOf(q)'
    <2>1. /\ \A c \in Pids : c # p => upper'[c] = upper[c]
          /\ kept' = [kept EXCEPT ![p] = @ \cap Mapped(p)']
          /\ seen' = [seen EXCEPT ![p] = @ \cup Mapped(p)']
          /\ UNCHANGED <<pc, pos, rows, reselected, short>>
          /\ freed \subseteq freed'
      BY <1>3, ProcessChange
    <2>2. kept'[q] \subseteq kept[q] /\ seen[q] \subseteq seen'[q]
      BY <2>1 DEF Followed
    <2>3. q \notin freed' => \A g \in Groups : upper'[q][g] = "none" => upper[q][g] = "none"
      <3>1. CASE q = p
        <4>1. q \notin freed' => \E a \in Pages : Fault(p, a) \/ Unmap(p, a)
          BY <1>3, <3>1 DEF Free
        <4>2. (\E a \in Pages : Fault(p, a) \/ Unmap(p, a)) =>
                \A g \in Groups : upper'[p][g] = "none" => upper[p][g] = "none"
          BY DEF Fault, Unmap, IInv, Types
        <4> QED BY <3>1, <4>1, <4>2
      <3> QED BY <2>1, <3>1
    <2>4. pc[q] = "read" => GroupOf(pos[q]) \in Groups
      BY GroupOfPage DEF IInv, InTable
    <2>5. Addresses(q)' = Addresses(q)
      BY <2>1 DEF Addresses
    <2> QED BY <1>1, <2>1, <2>2, <2>3, <2>4, <2>5 DEF ReadSoFarOf
  <1>4. ASSUME NEW p \in Pids, Exit(p), NEW q \in Pids PROVE ReadSoFarOf(q)'
    <2>1. UNCHANGED <<upper, pc, pos, rows, kept, seen, reselected, short, freed>>
      BY <1>4 DEF Exit, reader, history
    <2>2. Addresses(q)' = Addresses(q)
      BY <2>1 DEF Addresses
    <2> QED BY <1>1, <2>1, <2>2 DEF ReadSoFarOf
  <1>5. \A q \in Pids : ReadSoFarOf(q)'
    BY <1>2, <1>3, <1>4 DEF Next
  <1> QED BY <1>5 DEF ReadSoFar, ReadSoFarOf

-----------------------------------------------------------------------------
BInv == IInv /\ Followed /\ ReadSoFar

\* The invariant holds always.
LEMMA Invariance == Spec => []BInv
  <1>1. Init => BInv
    <2> SUFFICES ASSUME Init PROVE BInv
      OBVIOUS
    <2>1. \A p \in Pids : Addresses(p) = {}
      BY NoAddresses DEF Init
    <2> QED BY <2>1, InitOK DEF BInv, Init, Followed, ReadSoFar
  <1>2. BInv /\ [Next]_vars => BInv'
    <2> SUFFICES ASSUME BInv, [Next]_vars PROVE BInv'
      OBVIOUS
    <2>1. CASE Next
      BY <2>1, NextOK, FollowedStep, ReadSoFarStep DEF BInv
    <2>2. CASE UNCHANGED vars
      <3>1. IInv'
        BY <2>2, NextOK DEF BInv
      <3>2. /\ UNCHANGED <<upper, present, pc, pos, rows, kept, seen, reselected, short, freed>>
            /\ \A p \in Pids : Mapped(p)' = Mapped(p) /\ Addresses(p)' = Addresses(p)
        BY <2>2 DEF vars, process, reader, history, Mapped, Addresses
      <3>3. Followed'
        BY <3>2 DEF BInv, Followed
      <3>4. ReadSoFar'
        BY <3>2 DEF BInv, ReadSoFar
      <3> QED BY <3>1, <3>3, <3>4 DEF BInv
    <2> QED BY <2>1, <2>2
  <1> QED BY <1>1, <1>2, PTL DEF Spec

\* Types, and the position of a read is in user space (TypeOK of the runs).
THEOREM TypeCorrect == Spec => []TypeOK
  <1>1. BInv => TypeOK
    BY DEF BInv, IInv, Types, InTable, TypeOK
  <1> QED BY Invariance, <1>1, PTL

\* The rows of every dump are in strictly increasing order of address, in any
\* interleaving of reads, selections and changes of the tables.
THEOREM RowsOrdered == Spec => []RowsIncrease
  <1>1. BInv => RowsIncrease
    BY DEF BInv, IInv
  <1> QED BY Invariance, <1>1, PTL

\* The rows and the header of a dump are of the process it was asked for,
\* unless another was selected while it was read.
THEOREM RowsAreOwn == Spec => []OwnRows
  <1>1. BInv => OwnRows
    BY DEF BInv, IInv
  <1> QED BY Invariance, <1>1, PTL

\* DumpIsBetween: whatever is mapped, unmapped and freed while a dump is read,
\* it has no page that was not mapped, and unless a table was freed it has all
\* that stayed mapped, up to where a failed allocation ended it.
THEOREM DumpsLieBetween == Spec => []DumpIsBetween
  <1>1. BInv => DumpIsBetween
    <2> SUFFICES ASSUME BInv, NEW p \in Pids, pc[p] = "done", p \notin reselected
                 PROVE  /\ Addresses(p) \subseteq seen[p]
                        /\ p \notin freed => {a \in kept[p] : p \in short => a < pos[p]} \subseteq Addresses(p)
      BY DEF DumpIsBetween
    <2>1. \A a \in kept[p] : a \in Nat /\ a < TaskSize
      BY TaskSizeNat DEF BInv, Followed, Pages
    <2>2. pos[p] \in Nat
      BY DEF BInv, IInv, Types
    <2>3. p \notin freed => /\ p \in short \/ pos[p] >= TaskSize
                            /\ \A a \in kept[p] : a < pos[p] => a \in Addresses(p)
      BY DEF BInv, ReadSoFar
    <2>4. p \notin freed => \A a \in kept[p] : (p \in short => a < pos[p]) => a < pos[p]
      BY <2>1, <2>2, <2>3, TaskSizeNat
    <2>5. Addresses(p) \subseteq seen[p]
      BY DEF BInv, ReadSoFar
    <2> QED BY <2>3, <2>4, <2>5, Zenon
  <1> QED BY Invariance, <1>1, PTL

\* HeldIsExact: of a process that is stopped, a dump that is read to its end
\* undisturbed has exactly the pages mapped.
THEOREM HeldDumpsAreExact == Spec => []HeldIsExact
  <1>1. BInv => HeldIsExact
    <2> SUFFICES ASSUME BInv, NEW p \in Held, pc[p] = "done", p \notin reselected \cup short
                 PROVE  Addresses(p) = Mapped(p)
      BY DEF HeldIsExact
    <2>1. p \in Pids
      BY HeldAssumption
    <2>2. /\ p \notin freed /\ kept[p] = Mapped(p) /\ seen[p] = Mapped(p)
          /\ \A a \in kept[p] : a \in Nat /\ a < TaskSize
      BY <2>1, TaskSizeNat DEF BInv, Followed, Pages
    <2>3. pos[p] \in Nat
      BY <2>1 DEF BInv, IInv, Types
    <2>4. pos[p] >= TaskSize /\ \A a \in kept[p] : a < pos[p] => a \in Addresses(p)
      BY <2>1, <2>2 DEF BInv, ReadSoFar
    <2>5. kept[p] \subseteq Addresses(p)
      BY <2>2, <2>3, <2>4, TaskSizeNat
    <2>6. Addresses(p) \subseteq seen[p]
      BY <2>1 DEF BInv, ReadSoFar
    <2> QED BY <2>2, <2>5, <2>6
  <1> QED BY Invariance, <1>1, PTL
=============================================================================
