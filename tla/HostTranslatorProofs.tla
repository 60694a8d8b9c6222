------------------------ MODULE HostTranslatorProofs ------------------------
(***************************************************************************)
(* The invariants of HostTranslator for every set of dumps, every number   *)
(* of QEMU processes and every first capacity (IInv), and that the stage   *)
(* run by the script is a behaviour of it.  OInv adds the order of the     *)
(* rows: each row's frame is named behind the reader, and of two rows the  *)
(* earlier one's frame is named before any place that names the other's.   *)
(***************************************************************************)
EXTENDS HostStage, TLAPS

Entry == [pfn : Nat, mm : Qemus, base : Qemus \cup {NoQemu}]
PfnsOf(s) == {s[i].pfn : i \in DOMAIN s}
Known == Keys \cup faults \cup {0}
Pending(i) == pc = "lines" /\ i \in line..last

\* The variables without a place in TypeOK.
Locals ==
  /\ from \in Nat \ {0} /\ line \in Nat /\ last \in Nat /\ field \in Nat
  /\ cached \subseteq Nat /\ faults \subseteq Nat

\* Inside the loop of input_write: the lines to do are lines of the dump, lie
\* before partial_line, and of the current one the fields before field are done.
Loop ==
  pc = "lines" =>
    /\ pos > 0 /\ qemu_pid \in Qemus
    /\ line <= last + 1 /\ last <= Len(dump) /\ LineEnd(last) < from
    /\ line = 0 => field = 1
    /\ line \in 1..last =>
         /\ field \in 1..Len(dump[line])
         /\ \A k \in 1..(field - 1) : dump[line][k] \in Known

\* Of a session under way: no newline is in partial_line, and every row whose
\* fields begin before it is done or to be done by this call.
Session ==
  pos > 0 /\ pc # "failed" =>
    /\ from <= pos + 1
    /\ \A i \in DOMAIN dump : LineEnd(i) <= pos => LineEnd(i) < from
    /\ \A i \in DOMAIN dump : Fields(i) < from => Covered(i) \/ Pending(i)

IInv == TypeOK /\ Locals /\ FrameOnce /\ CachedHasRow /\ Loop /\ Session

-----------------------------------------------------------------------------
\* What an offset's line is in numbers.
LEMMA LineOfBounds ==
  ASSUME NEW o \in Nat
  PROVE  LineOf(o) \in Nat /\ 4 * LineOf(o) <= o + 1 /\ o + 1 < 4 * LineOf(o) + 4
BY DEF LineOf

\* Where the lines before next and the fields of next lie, e being the last
\* offset of the buffer, s its first and L the number of rows.
LEMMA Offsets ==
  ASSUME NEW f \in Nat, NEW next \in Nat, NEW s \in Nat, NEW e \in Nat, NEW L \in Nat, NEW i \in Nat,
         4 * f <= s + 1, s + 1 < 4 * f + 4, 4 * next <= e + 2, e + 2 < 4 * next + 4, e <= 2 + 4 * L
  PROVE  /\ next <= L + 1
         /\ 4 * next <= e => next <= L
         /\ f >= next /\ 2 + 4 * i <= e => 2 + 4 * i < s
         /\ next > 0 => 2 + 4 * (next - 1) < 4 * next - 1
         /\ next > 0 => 2 + 4 * (next - 1) < e + 1 /\ 4 * next - 1 <= e + 1
         /\ i >= next /\ 4 * i < e + 1 => i = next /\ e >= 4 * next
OBVIOUS

\* A dump is a sequence of non-empty rows of frame numbers.
LEMMA DumpType ==
  ASSUME dump \in Dumps
  PROVE  /\ Len(dump) \in Nat /\ DOMAIN dump = 1..Len(dump)
         /\ \A i \in DOMAIN dump : /\ Len(dump[i]) \in Nat \ {0}
                                   /\ DOMAIN dump[i] = 1..Len(dump[i])
                                   /\ \A k \in DOMAIN dump[i] : dump[i][k] \in Nat
                                   /\ Row(i) \subseteq Nat
<1>1. dump \in Seq(Seq(Nat)) /\ \A i \in DOMAIN dump : dump[i] # <<>>
  BY DumpsAssumption
<1>2. \A i \in DOMAIN dump : dump[i] \in Seq(Nat)
  BY <1>1
<1>3. \A i \in DOMAIN dump : \A k \in DOMAIN dump[i] : dump[i][k] \in Nat
  BY <1>2
<1> QED
  BY <1>1, <1>2, <1>3 DEF Row

\* Appending a row adds its frame to those of the table.
LEMMA AppendPfns ==
  ASSUME NEW s \in Seq(Entry), NEW e \in Entry
  PROVE  /\ Append(s, e) \in Seq(Entry)
         /\ Len(Append(s, e)) = Len(s) + 1
         /\ PfnsOf(Append(s, e)) = PfnsOf(s) \cup {e.pfn}
<1>1. /\ Append(s, e) \in Seq(Entry) /\ Len(Append(s, e)) = Len(s) + 1
      /\ DOMAIN Append(s, e) = 1..(Len(s) + 1) /\ DOMAIN s = 1..Len(s) /\ Len(s) \in Nat
      /\ Append(s, e)[Len(s) + 1] = e
      /\ \A i \in 1..Len(s) : Append(s, e)[i] = s[i]
  OBVIOUS
<1>2. PfnsOf(Append(s, e)) \subseteq PfnsOf(s) \cup {e.pfn}
  BY <1>1 DEF PfnsOf
<1>3. PfnsOf(s) \cup {e.pfn} \subseteq PfnsOf(Append(s, e))
  BY <1>1 DEF PfnsOf
<1> QED
  BY <1>1, <1>2, <1>3

\* Appending a frame that is not in the table keeps the frames apart.
LEMMA AppendOnce ==
  ASSUME NEW s \in Seq(Entry), NEW e \in Entry, e.pfn \notin PfnsOf(s),
         \A i, j \in DOMAIN s : s[i].pfn = s[j].pfn => i = j
  PROVE  \A i, j \in DOMAIN Append(s, e) :
           Append(s, e)[i].pfn = Append(s, e)[j].pfn => i = j
<1>1. /\ DOMAIN Append(s, e) = 1..(Len(s) + 1) /\ DOMAIN s = 1..Len(s) /\ Len(s) \in Nat
      /\ Append(s, e)[Len(s) + 1] = e
      /\ \A i \in 1..Len(s) : Append(s, e)[i] = s[i]
  OBVIOUS
<1>2. \A i \in 1..Len(s) : s[i].pfn # e.pfn
  BY <1>1 DEF PfnsOf
<1>3. \A i \in 1..(Len(s) + 1) : i \in 1..Len(s) \/ i = Len(s) + 1
  BY <1>1
<1> QED
  BY <1>1, <1>2, <1>3

\* The module starts without rows and without a session.
LEMMA InitOK == Init => IInv
<1> SUFFICES ASSUME Init PROVE IInv
  OBVIOUS
<1>1. Len(dump) \in Nat
  BY DumpType DEF Init
<1>2. TypeOK
  BY <1>1 DEF Init, TypeOK, Size, LineEnd
<1>3. Locals /\ Loop /\ Session
  BY DEF Init, Locals, Loop, Session
<1>4. FrameOnce /\ CachedHasRow
  BY DEF Init, FrameOnce, CachedHasRow, Keys
<1> QED
  BY <1>2, <1>3, <1>4 DEF IInv

-----------------------------------------------------------------------------
\* A call that starts with pos = 0 starts with an empty table.
LEMMA InputWriteOK ==
  ASSUME IInv, NEW n \in 1..Size, NEW kept \in BOOLEAN, InputWrite(n, kept)
  PROVE  IInv'
<1> DEFINE start == IF pos = 0 THEN 1 ELSE from
           end == pos + n
           first == LineOf(start)
           next == LineOf(end + 1)
           old == IF pos = 0 THEN {} ELSE faults
           lost == IF ~kept /\ end >= Fields(next) THEN Row(next) ELSE {}
<1>1. TypeOK /\ Locals /\ FrameOnce /\ CachedHasRow /\ Session /\ dump \in Dumps
  BY DEF IInv, TypeOK
<1>2. /\ Len(dump) \in Nat /\ DOMAIN dump = 1..Len(dump)
      /\ Size = 2 + 4 * Len(dump) /\ pos \in Nat
  BY <1>1, DumpType DEF TypeOK, Size, LineEnd
<1>3. \A i \in DOMAIN dump : Len(dump[i]) \in Nat \ {0} /\ Row(i) \subseteq Nat
  BY <1>1, DumpType
<1>4. /\ pc = "idle" /\ end <= Size /\ UNCHANGED <<config, dump, guest_pid>>
      /\ IF pos = 0 THEN cached' = {} /\ entries' = <<>> /\ capacity' = 0
         ELSE UNCHANGED <<cached, entries, capacity>>
      /\ \/ Fail /\ from' = start /\ faults' = old
         \/ /\ first >= next /\ from' = start /\ pos' = end /\ faults' = old /\ UNCHANGED call
         \/ first < next /\ from' = Rest(next, end, kept) /\ faults' = old /\ Fail
         \/ /\ first < next /\ qemu_pid \in running
            /\ from' = Rest(next, end, kept) /\ faults' = old \cup lost
            /\ first_line' = (pos = 0) /\ last' = next - 1
            /\ line' = IF first > 0 /\ start > Fields(first) THEN first + 1 ELSE first
            /\ pos' = end /\ field' = 1 /\ pc' = "lines"
  BY DEF InputWrite
<1>5. end \in Nat \ {0} /\ start \in Nat \ {0}
  BY <1>1, <1>2 DEF Locals
<1>6. /\ pos = 0 => start = 1
      /\ pos > 0 => start = from /\ from <= pos + 1 /\ pos < end
  BY <1>1, <1>2, <1>4 DEF Session
<1> HIDE DEF lost, start, end
<1>7. first \in Nat /\ 4 * first <= start + 1 /\ start + 1 < 4 * first + 4
  BY <1>5, LineOfBounds, Zenon
<1>8. next \in Nat /\ 4 * next <= end + 2 /\ end + 2 < 4 * next + 4
  <2>1. end + 1 \in Nat /\ (end + 1) + 1 = end + 2
    BY <1>5
  <2> QED
    BY <2>1, LineOfBounds
<1> HIDE DEF first, next
<1>9. \A i \in Nat : LineEnd(i) = 2 + 4 * i /\ Fields(i) = 4 * i
  BY DEF LineEnd, Fields
<1>10. Rest(next, end, kept) = IF kept THEN 4 * next - 1 ELSE end + 1
  BY <1>8 DEF Rest, LineEnd
<1>11. Size' = Size
  BY <1>4 DEF Size, LineEnd
<1>12. end <= 2 + 4 * Len(dump) /\ dump' = dump /\ qemu_pid' = qemu_pid
  BY <1>2, <1>4 DEF config
<1>12a. \A i \in Nat :
        /\ next <= Len(dump) + 1
        /\ 4 * next <= end => next <= Len(dump)
        /\ first >= next /\ 2 + 4 * i <= end => 2 + 4 * i < start
        /\ next > 0 => 2 + 4 * (next - 1) < 4 * next - 1
        /\ next > 0 => 2 + 4 * (next - 1) < end + 1 /\ 4 * next - 1 <= end + 1
        /\ i >= next /\ 4 * i < end + 1 => i = next /\ end >= 4 * next
  BY <1>2, <1>5, <1>7, <1>8, <1>12, Offsets
<1>13. first < next => lost \subseteq Nat
  <2> SUFFICES ASSUME first < next, ~kept, end >= Fields(next) PROVE Row(next) \subseteq Nat
    BY DEF lost
  <2>1. next \in 1..Len(dump)
    <3>1. Fields(next) = 4 * next /\ next > 0
      BY <1>7, <1>8, <1>9
    <3> QED
      BY <3>1, <1>2, <1>8, <1>12a
  <2> QED
    BY <2>1, <1>2, <1>3
<1>14. TypeOK'
  <2>1. pos' \in 0..Size'
    BY <1>1, <1>4, <1>5, <1>11 DEF TypeOK, Fail
  <2>2. /\ entries' \in Seq([pfn : Nat, mm : Qemus, base : Qemus \cup {NoQemu}])
        /\ capacity' \in Nat /\ Len(entries') <= capacity'
    <3>1. CASE pos = 0
      <4>1. entries' = <<>> /\ capacity' = 0
        BY <3>1, <1>4
      <4> QED
        BY <4>1
    <3>2. CASE pos # 0
      <4>1. entries' = entries /\ capacity' = capacity
        BY <3>2, <1>4
      <4> QED
        BY <4>1, <1>1 DEF TypeOK
    <3> QED
      BY <3>1, <3>2
  <2> QED
    BY <1>1, <1>4, <2>1, <2>2 DEF TypeOK, config, call, Fail
<1>15. Locals'
  <2>1. from' \in Nat \ {0}
    BY <1>4, <1>5, <1>7, <1>8, <1>10
  <2>2. line' \in Nat /\ last' \in Nat /\ field' \in Nat
    BY <1>1, <1>4, <1>7, <1>8, SMTT(30) DEF Locals, call, Fail
  <2>3. cached' \subseteq Nat /\ faults' \subseteq Nat
    BY <1>1, <1>4, <1>13, Zenon DEF Locals
  <2> QED
    BY <2>1, <2>2, <2>3 DEF Locals
<1>16. FrameOnce'
  BY <1>1, <1>4 DEF FrameOnce
<1>17. Keys' = IF pos = 0 THEN {} ELSE Keys
  BY <1>4 DEF Keys
<1>18. CachedHasRow'
  <2>1. old \subseteq faults'
    BY <1>4
  <2> QED
    BY <2>1, <1>1, <1>4, <1>17 DEF CachedHasRow
<1>19. Loop' /\ Session'
  <2>1. CASE pc' = "failed"
    BY <2>1 DEF Loop, Session
  <2>2. \A i \in DOMAIN dump : i \in Nat \ {0} /\ LineEnd(i)' = LineEnd(i) /\ Fields(i)' = Fields(i)
    BY <1>2 DEF LineEnd, Fields
  <2>3. \A i \in DOMAIN dump : Fields(i) < start => pos > 0 /\ Covered(i)
    <3> SUFFICES ASSUME NEW i \in DOMAIN dump, Fields(i) < start PROVE pos > 0 /\ Covered(i)
      OBVIOUS
    <3>1. Fields(i) = 4 * i /\ i > 0
      BY <2>2, <1>9
    <3>2. pos > 0
      BY <3>1, <2>2, <1>2, <1>6
    <3>3. ~Pending(i) /\ Fields(i) < from
      BY <3>2, <1>4, <1>6 DEF Pending
    <3> QED
      BY <3>2, <3>3, <1>1, <1>4 DEF Session
  <2>4. \A i \in DOMAIN dump : Covered(i) /\ pos > 0 => Covered(i)'
    <3>1. pos > 0 => faults \subseteq faults' /\ Keys' = Keys
      BY <1>2, <1>4, <1>17
    <3>2. \A i \in DOMAIN dump : Row(i)' = Row(i)
      BY <1>12 DEF Row
    <3> QED
      BY <3>1, <3>2 DEF Covered
  <2>5. CASE pc' = "idle"
    <3>1. first >= next /\ from' = start /\ pos' = end
      BY <1>4, <2>5 DEF Fail
    <3>2. \A i \in DOMAIN dump : LineEnd(i) <= end => LineEnd(i) < start
      BY <1>9, <1>12a, <2>2, <3>1, Zenon
    <3>3. start <= end + 1
      BY <1>2, <1>5, <1>6
    <3> QED
      BY <1>12, <2>2, <2>3, <2>4, <2>5, <3>1, <3>2, <3>3 DEF Session, Loop
  <2>6. CASE pc' = "lines"
    <3>1. /\ first < next /\ from' = Rest(next, end, kept) /\ faults' = old \cup lost
          /\ line' = (IF first > 0 /\ start > Fields(first) THEN first + 1 ELSE first)
          /\ last' = next - 1 /\ pos' = end /\ field' = 1 /\ qemu_pid \in running
      BY <1>4, <2>6 DEF Fail, call
    <3>2. line' <= last' + 1 /\ last' <= Len(dump) /\ line' \in Nat /\ last' \in Nat
      BY <1>2, <1>7, <1>8, <1>12a, <3>1
    <3>3. LineEnd(last') < from' /\ from' <= end + 1
      <4>1. next > 0 /\ LineEnd(last') = 2 + 4 * (next - 1)
        BY <1>7, <1>8, <3>1 DEF LineEnd
      <4> QED
        BY <4>1, <1>5, <1>8, <1>10, <1>12a, <3>1
    <3>4. line' \in 1..last' => 1 \in 1..Len(dump[line'])
      BY <1>2, <1>3, <3>2
    <3>5. Loop'
      BY <1>1, <1>5, <1>12, <2>6, <3>1, <3>2, <3>3, <3>4 DEF Loop, LineEnd, TypeOK
    <3>6. \A i \in DOMAIN dump : LineEnd(i) <= end => LineEnd(i) < from'
      BY <1>5, <1>8, <1>9, <1>10, <2>2, <3>1
    <3>7. ASSUME NEW i \in DOMAIN dump, Fields(i) < from' PROVE Covered(i)' \/ Pending(i)'
      <4>1. i \in Nat \ {0} /\ Fields(i) = 4 * i
        BY <2>2, <1>9
      <4>2. CASE Fields(i) < start
        BY <4>2, <2>3, <2>4
      <4>3. CASE ~(Fields(i) < start) /\ i < next
        <5>1. line' <= i
          BY <4>1, <4>3, <1>5, <1>7, <1>9, <3>1
        <5> QED
          BY <5>1, <4>1, <4>3, <1>8, <2>6, <3>1, <3>2 DEF Pending
      <4>4. CASE i >= next
        <5>1. ~kept /\ from' = end + 1
          BY <4>1, <4>4, <3>1, <3>7, <1>8, <1>10
        <5>2. i = next /\ end >= Fields(next)
          BY <4>1, <4>4, <5>1, <3>7, <1>8, <1>9, <1>12a, Zenon
        <5>3. Row(i) \subseteq faults' /\ Row(i)' = Row(i)
          BY <5>1, <5>2, <3>1, <1>12 DEF lost, Row
        <5> QED
          BY <5>3 DEF Covered
      <4> QED
        BY <4>1, <4>2, <4>3, <4>4, <1>8
    <3> QED
      BY <1>12, <2>2, <3>1, <3>3, <3>5, <3>6, <3>7 DEF Session
  <2> QED
    BY <1>4, <2>1, <2>5, <2>6 DEF Fail, call
<1> QED
  BY <1>14, <1>15, <1>16, <1>18, <1>19 DEF IInv

\* The header is not a row.
LEMMA HeaderOK ==
  ASSUME IInv, Header PROVE IInv'
<1>1. /\ pc = "lines" /\ line = 0 /\ line <= last /\ line' = 1
      /\ UNCHANGED <<config, stream, pc, last, field, table>>
  BY DEF Header
<1>2. TypeOK /\ Locals /\ Loop /\ Session /\ dump \in Dumps
  BY DEF IInv, TypeOK
<1>3. /\ Len(dump) \in Nat /\ DOMAIN dump = 1..Len(dump)
      /\ \A i \in DOMAIN dump : Len(dump[i]) \in Nat \ {0}
  BY <1>2, DumpType
<1>4. TypeOK'
  <2>1. guest_pid' \in Nat
    BY <1>2, <1>3 DEF Header, TypeOK
  <2> QED
    BY <1>1, <1>2, <2>1 DEF TypeOK, config, stream, table, Size, LineEnd
<1>5. Locals' /\ FrameOnce' /\ CachedHasRow'
  BY <1>1, <1>2 DEF IInv, Locals, FrameOnce, CachedHasRow, Keys, stream, table
<1>6. Loop'
  <2>1. field' = 1 /\ last' = last /\ last \in Nat /\ dump' = dump /\ last <= Len(dump)
    BY <1>1, <1>2 DEF Loop, Locals, stream
  <2>2. line' \in 1..last' => 1 \in 1..Len(dump[line'])
    BY <1>1, <1>3, <2>1
  <2> QED
    BY <1>1, <1>2, <2>1, <2>2 DEF Loop, LineEnd, config, stream
<1>7. Session'
  <2>1. \A i \in DOMAIN dump : Covered(i)' = Covered(i) /\ (Pending(i) => Pending(i)')
    BY <1>1, <1>2, <1>3 DEF Covered, Row, Keys, Pending, Locals, stream, table
  <2> QED
    BY <1>1, <1>2, <2>1 DEF Session, LineEnd, Fields, stream
<1> QED
  BY <1>4, <1>5, <1>6, <1>7 DEF IInv

\* One PFN: after it the frame has a row or is counted as a fault.
LEMMA TranslatePfnOK ==
  ASSUME IInv, NEW cacheOk \in BOOLEAN, NEW growOk \in BOOLEAN, TranslatePfn(cacheOk, growOk)
  PROVE  IInv'
<1> DEFINE p == dump[line][field]
           row == Translated(p)
           done == field = Len(dump[line])
           added == IsNew(p) /\ Stored(cacheOk, growOk)
<1>1. /\ pc = "lines" /\ line \in 1..last
      /\ cached' = IF IsNew(p) /\ cacheOk THEN Remembered(p) ELSE cached
      /\ entries' = IF added THEN Append(entries, row) ELSE entries
      /\ capacity' = IF added THEN Grown ELSE capacity
      /\ faults' = IF IsNew(p) /\ ~added THEN faults \cup {p} ELSE faults
      /\ field' = IF done THEN 1 ELSE field + 1
      /\ line' = IF done THEN line + 1 ELSE line
      /\ UNCHANGED <<config, stream, pc, first_line, last, guest_pid>>
  BY DEF TranslatePfn
<1>2. /\ TypeOK /\ Locals /\ FrameOnce /\ CachedHasRow /\ Loop /\ Session /\ dump \in Dumps
      /\ line \in Nat /\ last \in Nat /\ last <= Len(dump)
  BY <1>1 DEF IInv, TypeOK, Locals, Loop
<1>3. /\ Len(dump) \in Nat /\ DOMAIN dump = 1..Len(dump)
      /\ \A i \in DOMAIN dump : /\ Len(dump[i]) \in Nat \ {0} /\ DOMAIN dump[i] = 1..Len(dump[i])
                                /\ \A k \in DOMAIN dump[i] : dump[i][k] \in Nat
  BY <1>2, DumpType
<1>4. line \in DOMAIN dump /\ field \in 1..Len(dump[line]) /\ p \in Nat
  BY <1>1, <1>2, <1>3, SMTT(30) DEF Loop
<1>5. row \in Entry /\ row.pfn = p
  BY <1>1, <1>2, <1>4 DEF Translated, Entry, Loop, TypeOK
<1>6. entries \in Seq(Entry) /\ Keys = PfnsOf(entries) /\ Keys' = PfnsOf(entries')
  BY <1>2 DEF TypeOK, Entry, Keys, PfnsOf
<1> HIDE DEF p, row
<1>7. /\ added => Keys' = Keys \cup {p} /\ Len(entries') = Len(entries) + 1
      /\ ~added => Keys' = Keys /\ entries' = entries
      /\ entries' \in Seq(Entry)
  BY <1>1, <1>5, <1>6, AppendPfns
<1>8. Len(entries') <= capacity' /\ capacity' \in Nat
  <2>1. Len(entries) \in Nat /\ capacity \in Nat /\ Len(entries) <= capacity
    BY <1>2, <1>6 DEF TypeOK
  <2>2. Grown \in Nat /\ Len(entries) + 1 <= Grown
    BY <2>1, CapacityAssumption DEF Grown, Full
  <2> QED
    BY <1>1, <1>7, <2>1, <2>2
<1>9. TypeOK'
  BY <1>1, <1>2, <1>7, <1>8 DEF TypeOK, Entry, config, stream, Size, LineEnd
<1>10. Locals'
  <2>1. cached' \subseteq Nat /\ faults' \subseteq Nat
    BY <1>1, <1>2, <1>4 DEF Locals, Remembered
  <2>2. field' \in Nat /\ line' \in Nat
    BY <1>1, <1>2, <1>4, <1>3 DEF Locals
  <2> QED
    BY <1>1, <1>2, <2>1, <2>2 DEF Locals, stream
<1>11. FrameOnce'
  <2>1. CASE added
    <3>1. row.pfn \notin PfnsOf(entries)
      BY <2>1, <1>2, <1>5, <1>6 DEF IsNew, CachedHasRow
    <3>2. entries' = Append(entries, row)
      BY <2>1, <1>1
    <3> QED
      BY <3>1, <3>2, <1>2, <1>5, <1>6, AppendOnce DEF FrameOnce
  <2>2. CASE ~added
    BY <2>2, <1>2, <1>7 DEF FrameOnce
  <2> QED
    BY <2>1, <2>2
<1>12. CachedHasRow'
  BY <1>1, <1>2, <1>7 DEF CachedHasRow, IsNew, Stored, Remembered
<1>13. p \in Known' /\ Known \subseteq Known'
  BY <1>1, <1>2, <1>7 DEF Known, CachedHasRow, IsNew
<1>14. \A i \in DOMAIN dump : Covered(i) => Covered(i)'
  <2>1. Keys \cup faults \subseteq Keys' \cup faults' /\ dump' = dump
    BY <1>1, <1>7 DEF stream
  <2> QED
    BY <2>1 DEF Covered, Row
<1>15. \A k \in 1..field : dump[line][k] \in Known'
  <2>1. \A k \in 1..(field - 1) : dump[line][k] \in Known
    BY <1>1, <1>2 DEF Loop
  <2>2. \A k \in 1..field : k \in 1..(field - 1) \/ k = field
    BY <1>4, <1>3
  <2> QED
    BY <2>1, <2>2, <1>13 DEF p
<1>16. PICK l \in DOMAIN dump : l = line
  BY <1>4
<1>16a. done => Covered(l)'
  <2> SUFFICES ASSUME done PROVE Covered(l)'
    OBVIOUS
  <2>1. DOMAIN dump[line] = 1..field /\ dump' = dump
    BY <1>1, <1>3, <1>4 DEF stream
  <2>2. \A k \in DOMAIN dump[line] : dump[line][k] \in Known'
    BY <2>1, <1>15
  <2>3. Row(line) \subseteq Known'
    BY <2>2 DEF Row
  <2>4. Row(l) \ {0} \subseteq Keys' \cup faults'
    BY <2>3, <1>16 DEF Known
  <2> QED
    BY <2>1, <2>4 DEF Covered, Row
<1>17. Loop'
  <2>1. /\ pos > 0 /\ qemu_pid \in Qemus /\ line <= last + 1 /\ LineEnd(last) < from
        /\ UNCHANGED <<pos, qemu_pid, last, from, dump, pc>>
    BY <1>1, <1>2 DEF Loop, config, stream
  <2>2. CASE done
    <3>1. line' = line + 1 /\ field' = 1
      BY <2>2, <1>1
    <3>2. line' \in 1..last => line' \in DOMAIN dump
      BY <1>2, <1>3
    <3>3. line' \in 1..last => 1 \in 1..Len(dump[line'])
      BY <3>2, <1>3
    <3> QED
      BY <1>1, <1>2, <2>1, <3>1, <3>3, SMTT(30) DEF Loop, LineEnd
  <2>3. CASE ~done
    <3>1. line' = line /\ field' = field + 1 /\ field' \in 1..Len(dump[line])
      BY <2>3, <1>1, <1>3, <1>4
    <3>2. \A k \in 1..(field' - 1) : dump[line][k] \in Known'
      BY <3>1, <1>15, <1>4, <1>3
    <3> QED
      BY <1>1, <1>2, <2>1, <3>1, <3>2, SMTT(30) DEF Loop, LineEnd
  <2> QED
    BY <2>2, <2>3
<1>18. Session'
  <2>1. UNCHANGED <<pos, last, from, dump, pc>>
    BY <1>1 DEF stream
  <2>2. ASSUME NEW i \in DOMAIN dump, Covered(i) \/ Pending(i) PROVE Covered(i)' \/ Pending(i)'
    <3>1. CASE Covered(i)
      BY <3>1, <1>14
    <3>2. CASE Pending(i) /\ i = line
      BY <3>2, <1>1, <1>2, <1>16, <1>16a, <2>1 DEF Pending
    <3>3. CASE Pending(i) /\ i # line
      BY <3>3, <1>1, <1>2, <1>3, <2>1 DEF Pending
    <3> QED
      BY <2>2, <3>1, <3>2, <3>3
  <2> QED
    BY <1>2, <2>1, <2>2 DEF Session, LineEnd, Fields
<1> QED
  BY <1>9, <1>10, <1>11, <1>12, <1>17, <1>18 DEF IInv

\* The end of a call leaves nothing pending.
LEMMA ReturnOK ==
  ASSUME IInv, Return PROVE IInv'
<1>1. /\ pc = "lines" /\ line > last /\ pc' = "idle" /\ line' = 0 /\ last' = 0 /\ field' = 1
      /\ UNCHANGED <<config, stream, guest_pid, table>>
  BY DEF Return
<1>2. TypeOK' /\ Locals' /\ FrameOnce' /\ CachedHasRow' /\ Loop'
  BY <1>1 DEF IInv, TypeOK, Locals, FrameOnce, CachedHasRow, Loop, Keys, Size, LineEnd,
     config, stream, table
<1>3. \A i \in DOMAIN dump : Covered(i)' = Covered(i) /\ ~Pending(i)
  <2>1. /\ line \in Nat /\ last \in Nat /\ dump \in Dumps
    BY DEF IInv, Locals, TypeOK
  <2>2. \A i \in DOMAIN dump : i \in Nat
    BY <2>1, DumpType
  <2> QED
    BY <1>1, <2>1, <2>2 DEF Covered, Row, Keys, Pending, stream, table
<1>4. Session'
  BY <1>1, <1>3 DEF IInv, Session, LineEnd, Fields, stream
<1> QED
  BY <1>2, <1>4 DEF IInv

\* The steps outside input_write end the session or do not touch it.
LEMMA OtherOK ==
  ASSUME IInv,
         \/ \E q \in Qemus : QemuExits(q)
         \/ Reload
         \/ \E q \in Qemus, found \in BOOLEAN : ConfigWrite(q, found)
         \/ \E d \in Dumps : OpenInput(d)
         \/ CloseFailed
         \/ UNCHANGED vars
  PROVE  IInv'
<1>1. TypeOK /\ Locals /\ FrameOnce /\ CachedHasRow /\ Loop /\ Session /\ dump \in Dumps /\ Len(dump) \in Nat
  BY DumpType DEF IInv, TypeOK
<1>2. Size \in Nat
  BY <1>1 DEF Size, LineEnd
<1>3. ASSUME UNCHANGED <<stream, call, guest_pid, table>>, running' \subseteq Qemus,
             qemu_pid' \in Qemus \cup {NoQemu}, guest_ram_base' \in Qemus \cup {NoQemu},
             pc = "lines" => qemu_pid' = qemu_pid
      PROVE  IInv'
  <2>1. TypeOK' /\ Locals' /\ FrameOnce' /\ CachedHasRow'
    BY <1>1, <1>3 DEF TypeOK, Locals, FrameOnce, CachedHasRow, Keys, Size, LineEnd, stream, call, table
  <2>2. Loop'
    BY <1>1, <1>3 DEF Loop, LineEnd, Known, Keys, stream, call, table
  <2>3. \A i \in DOMAIN dump : Covered(i)' = Covered(i) /\ Pending(i)' = Pending(i)
    BY <1>3 DEF Covered, Row, Keys, Pending, stream, call, table
  <2>4. Session'
    BY <1>1, <1>3, <2>3 DEF Session, LineEnd, Fields, stream, call
  <2> QED
    BY <2>1, <2>2, <2>4 DEF IInv
<1>4. ASSUME NEW q \in Qemus, QemuExits(q) PROVE IInv'
  BY <1>1, <1>3, <1>4 DEF QemuExits, TypeOK
<1>5. ASSUME NEW q \in Qemus, NEW found \in BOOLEAN, ConfigWrite(q, found) PROVE IInv'
  BY <1>1, <1>3, <1>5 DEF ConfigWrite, TypeOK
<1>6. CASE UNCHANGED vars
  BY <1>1, <1>3, <1>6 DEF vars, config, TypeOK
<1>7. CASE Reload
  <2>1. TypeOK'
    BY <1>1, <1>2, <1>7 DEF Reload, TypeOK, Size, LineEnd, call
  <2>2. Locals'
    BY <1>1, <1>7 DEF Reload, Locals, call
  <2>3. Loop' /\ Session'
    <3>1. pc' = "idle" /\ pos' = 0
      BY <1>7 DEF Reload, call
    <3>2. Loop'
      BY ONLY <3>1 DEF Loop
    <3>3. ~(pos' > 0)
      BY <3>1
    <3>4. Session'
      BY ONLY <3>3, Zenon DEF Session
    <3> QED
      BY <3>2, <3>4
  <2>4. FrameOnce' /\ CachedHasRow'
    <3>1. entries' = <<>> /\ cached' = {} /\ faults' = {}
      BY <1>7 DEF Reload
    <3>2. DOMAIN entries' = {}
      BY <3>1
    <3> QED
      BY <3>1, <3>2 DEF FrameOnce, CachedHasRow, Keys
  <2> QED
    BY <2>1, <2>2, <2>3, <2>4 DEF IInv
<1>8. ASSUME NEW d \in Dumps, OpenInput(d) PROVE IInv'
  <2>1. Len(d) \in Nat
    BY DumpsAssumption
  <2>2. TypeOK'
    BY <1>1, <1>8, <2>1 DEF OpenInput, TypeOK, Size, LineEnd, config, call, table
  <2>3. Locals'
    BY <1>1, <1>8 DEF OpenInput, Locals, call, table
  <2>4. FrameOnce' /\ CachedHasRow'
    BY <1>1, <1>8 DEF OpenInput, FrameOnce, CachedHasRow, Keys, table
  <2>5. Loop' /\ Session'
    <3>1. pc' = "idle" /\ pos' = 0
      BY <1>8 DEF OpenInput, call
    <3>2. Loop'
      BY ONLY <3>1 DEF Loop
    <3>3. ~(pos' > 0)
      BY <3>1
    <3>4. Session'
      BY ONLY <3>3, Zenon DEF Session
    <3> QED
      BY <3>2, <3>4
  <2> QED
    BY <2>2, <2>3, <2>4, <2>5 DEF IInv
<1>9. CASE CloseFailed
  <2>1. TypeOK'
    BY <1>1, <1>2, <1>9 DEF CloseFailed, TypeOK, Size, LineEnd, config, table
  <2>2. Locals'
    BY <1>1, <1>9 DEF CloseFailed, Locals, table
  <2>3. FrameOnce' /\ CachedHasRow'
    BY <1>1, <1>9 DEF CloseFailed, FrameOnce, CachedHasRow, Keys, table
  <2>4. Loop' /\ Session'
    <3>1. pc' = "idle" /\ pos' = 0
      BY <1>9 DEF CloseFailed
    <3> QED
      BY ONLY <3>1, SMTT(30) DEF Loop, Session
  <2> QED
    BY <2>1, <2>2, <2>3, <2>4 DEF IInv
<1> QED
  BY <1>4, <1>5, <1>6, <1>7, <1>8, <1>9

\* Every step of the module preserves the invariant.
LEMMA NextOK == IInv /\ [Next]_vars => IInv'
<1> SUFFICES ASSUME IInv, [Next]_vars PROVE IInv'
  OBVIOUS
<1>1. ASSUME NEW n \in 1..Size, NEW kept \in BOOLEAN, InputWrite(n, kept) PROVE IInv'
  BY <1>1, InputWriteOK
<1>2. CASE Header
  BY <1>2, HeaderOK
<1>3. ASSUME NEW cacheOk \in BOOLEAN, NEW growOk \in BOOLEAN, TranslatePfn(cacheOk, growOk) PROVE IInv'
  BY <1>3, TranslatePfnOK
<1>4. CASE Return
  BY <1>4, ReturnOK
<1> QED
  BY <1>1, <1>2, <1>3, <1>4, OtherOK DEF Next

\* The invariant holds throughout.
LEMMA Invariance == Spec => []IInv
BY InitOK, NextOK, PTL DEF Spec

-----------------------------------------------------------------------------
\* The rows fit the array they are written to and have the types
\* add_translation_entry stores, for every dump and every first capacity.
THEOREM TypeCorrect == Spec => []TypeOK
<1>1. IInv => TypeOK
  BY DEF IInv
<1> QED
  BY <1>1, Invariance, PTL

\* get_or_translate_pfn and add_translation_entry make at most one row for a
\* guest frame, whichever allocations fail.
THEOREM OneRowPerFrame == Spec => []FrameOnce
<1>1. IInv => FrameOnce
  BY DEF IInv
<1> QED
  BY <1>1, Invariance, PTL

\* A cached frame has a row or is one an allocation failed for.
THEOREM CacheAgrees == Spec => []CachedHasRow
<1>1. IInv => CachedHasRow
  BY DEF IInv
<1> QED
  BY <1>1, Invariance, PTL

\* Between two calls no row is left to do, so that what was written to its end
\* is done.
LEMMA DoneWhenIdle == IInv => WrittenIsDone
<1> SUFFICES ASSUME IInv, pc = "idle", NEW i \in DOMAIN dump, LineEnd(i) <= pos PROVE Covered(i)
  BY DEF WrittenIsDone
<1>1. Session /\ from \in Nat /\ pos \in Nat /\ i \in Nat
  <2>1. dump \in Dumps
    BY DEF IInv, TypeOK
  <2>2. Size \in Nat /\ i \in Nat
    BY <2>1, DumpType DEF Size, LineEnd
  <2> QED
    BY <2>2 DEF IInv, TypeOK, Locals
<1>2. pos > 0 /\ Fields(i) < LineEnd(i) /\ LineEnd(i) \in Nat /\ Fields(i) \in Nat
  BY <1>1 DEF LineEnd, Fields
<1>3. LineEnd(i) < from
  BY <1>1, <1>2 DEF Session
<1>4. Fields(i) < from
  BY <1>1, <1>2, <1>3
<1> QED
  BY <1>1, <1>2, <1>4 DEF Session, Pending

\* However a dump is cut into calls of input_write, between two calls every
\* frame of every row written to its end has a row or is counted as a fault.
THEOREM CutsDoNotShow == Spec => []WrittenIsDone
BY DoneWhenIdle, Invariance, PTL

-----------------------------------------------------------------------------
\* The script around the module: its place, its process, and rows for frames
\* that some dump names.
Named(p) == \E d \in Dumps : \E i \in DOMAIN d : \E k \in DOMAIN d[i] : d[i][k] = p
Translating == {"open", "feed", "augment", "ready"}
StageTypes ==
  /\ step \in Translating \cup {"input", "load", "config", "simulate", "failed"}
  /\ step \in Translating \cup {"load", "config"} => target \in Qemus
  /\ pc # "idle" => step = "feed"
NamedFrames == \A i \in DOMAIN entries : entries[i].pfn # 0 /\ Named(entries[i].pfn)
TInv == IInv /\ StageTypes /\ NamedFrames

\* In a session under way every row's frame is named at a place behind the
\* reader, and while no allocation failed the rows are in the order in which
\* the dump first names their frames.
Underway == pos > 0 /\ pc # "failed"
Behind(c) == LineEnd(c[1]) < from /\ (pc = "lines" => Atomic!Earlier(c, <<line, field>>))
NamedAt(c, a) == Atomic!Frame(dump, c) = entries[a].pfn
Placed == Underway => \A a \in DOMAIN entries : \E c \in Atomic!Places(dump) : NamedAt(c, a) /\ Behind(c)
Ordered ==
  Underway /\ faults = {} =>
    \A a, b \in DOMAIN entries :
      a < b => \E c \in Atomic!Places(dump) :
                 NamedAt(c, a) /\ \A e \in Atomic!Places(dump) : NamedAt(e, b) => Atomic!Earlier(c, e)
OInv == TInv /\ Placed /\ Ordered

-----------------------------------------------------------------------------
\* What a step of the translator does to the table: nothing, empty it, or add
\* a row for a frame that the dump names.
LEMMA EntriesChange ==
  ASSUME IInv, [Next]_vars
  PROVE  \/ entries' = entries
         \/ entries' = <<>>
         \/ \E p \in Nat \ {0} : Named(p) /\ pc = "lines" /\ entries' = Append(entries, Translated(p))
<1>1. ASSUME NEW cacheOk \in BOOLEAN, NEW growOk \in BOOLEAN, TranslatePfn(cacheOk, growOk)
      PROVE  \/ entries' = entries
             \/ \E p \in Nat \ {0} : Named(p) /\ pc = "lines" /\ entries' = Append(entries, Translated(p))
  <2> DEFINE p == dump[line][field]
  <2>1. pc = "lines" /\ line \in 1..last /\ dump \in Dumps /\ Loop /\ line \in Nat /\ last \in Nat
    BY <1>1 DEF TranslatePfn, IInv, TypeOK, Locals
  <2>2. /\ Len(dump) \in Nat /\ DOMAIN dump = 1..Len(dump)
        /\ \A i \in DOMAIN dump : /\ DOMAIN dump[i] = 1..Len(dump[i])
                                  /\ \A k \in DOMAIN dump[i] : dump[i][k] \in Nat
    BY <2>1, DumpType
  <2>3. line \in DOMAIN dump /\ field \in DOMAIN dump[line]
    BY <2>1, <2>2 DEF Loop
  <2>4. p \in Nat /\ Named(p)
    BY <2>1, <2>2, <2>3 DEF Named
  <2>5. \/ entries' = entries
        \/ p # 0 /\ entries' = Append(entries, Translated(p))
    BY <1>1 DEF TranslatePfn, IsNew
  <2> QED
    BY <2>1, <2>4, <2>5
<1>2. ASSUME NEW n \in 1..Size, NEW kept \in BOOLEAN, InputWrite(n, kept)
      PROVE  entries' = entries \/ entries' = <<>>
  BY <1>2 DEF InputWrite
<1>3. CASE Reload
  BY <1>3 DEF Reload
<1>4. ASSUME NEW q \in Qemus, QemuExits(q) PROVE entries' = entries
  BY <1>4 DEF QemuExits, table
<1>5. ASSUME NEW q \in Qemus, NEW found \in BOOLEAN, ConfigWrite(q, found) PROVE entries' = entries
  BY <1>5 DEF ConfigWrite, table
<1>6. ASSUME NEW d \in Dumps, OpenInput(d) PROVE entries' = entries
  BY <1>6 DEF OpenInput, table
<1>7. CASE Header \/ Return \/ CloseFailed \/ UNCHANGED vars
  BY <1>7 DEF Header, Return, CloseFailed, vars, table
<1> QED
  BY <1>1, <1>2, <1>3, <1>4, <1>5, <1>6, <1>7 DEF Next

\* Every step of the script is one of the module or leaves it alone.
LEMMA StageStep ==
  ASSUME IInv, StageTypes, [StageNext]_stageVars PROVE [Next]_vars
<1>1. ASSUME NEW q \in Qemus, Stop(q) \/ Detect(q) PROVE [Next]_vars
  BY <1>1 DEF Stop, Detect, Next
<1>2. CASE Die \/ ReadOutput \/ Augment
  BY <1>2 DEF Die, ReadOutput, Augment
<1>3. CASE LoadModule \/ Open \/ FeedHeader \/ FeedReturn \/ FeedFailed
  <2>1. CASE LoadModule
    BY <2>1 DEF LoadModule, Next
  <2>2. CASE Open
    <3>1. OpenInput(dump) /\ dump \in Dumps
      BY <2>2 DEF Open, IInv, TypeOK
    <3> QED
      BY <3>1 DEF Next
  <2> QED
    BY <1>3, <2>1, <2>2 DEF FeedHeader, FeedReturn, FeedFailed, Next
<1>4. ASSUME NEW found \in BOOLEAN, Configure(found) PROVE [Next]_vars
  BY <1>4 DEF Configure, Go, StageTypes, Next
<1>5. ASSUME NEW n \in 1..Size, NEW kept \in BOOLEAN, Feed(n, kept) PROVE [Next]_vars
  BY <1>5 DEF Feed, Next
<1>6. ASSUME NEW cacheOk \in BOOLEAN, NEW growOk \in BOOLEAN, FeedPfn(cacheOk, growOk) PROVE [Next]_vars
  BY <1>6 DEF FeedPfn, Next
<1>7. ASSUME NEW n, NEW torn, NEW junk, Fetch(n, torn, junk) PROVE [Next]_vars
  BY <1>7 DEF Fetch
<1>8. ASSUME NEW d \in Dumps, Again(d) PROVE [Next]_vars
  BY <1>8 DEF Again, Next
<1>9. CASE UNCHANGED stageVars
  BY <1>9 DEF stageVars
<1> QED
  BY <1>1, <1>2, <1>3, <1>4, <1>5, <1>6, <1>7, <1>8, <1>9 DEF StageNext

\* The script's place and its QEMU.
LEMMA StageTypesStep ==
  ASSUME IInv, StageTypes, [StageNext]_stageVars
  PROVE  StageTypes'
<1>1. ASSUME NEW q \in Qemus, Stop(q) PROVE StageTypes'
  BY <1>1 DEF Stop, QemuExits, script, call, StageTypes
<1>2. ASSUME NEW q \in Qemus, Detect(q) PROVE StageTypes'
  BY <1>2 DEF Detect, Go, vars, call, StageTypes, Translating
<1>3. CASE Die
  BY <1>3 DEF Die, vars, call, StageTypes, Translating
<1>4. CASE LoadModule
  BY <1>4 DEF LoadModule, Go, Reload, call, StageTypes, Translating
<1>5. ASSUME NEW found \in BOOLEAN, Configure(found) PROVE StageTypes'
  BY <1>5 DEF Configure, Go, ConfigWrite, call, StageTypes, Translating
<1>6. CASE Open
  BY <1>6 DEF Open, Go, OpenInput, call, StageTypes, Translating
<1>7. ASSUME UNCHANGED script, pc = "lines" \/ step = "feed" PROVE StageTypes'
  <2>1. step = "feed" /\ target \in Qemus
    BY <1>7 DEF StageTypes, Translating
  <2> QED
    BY <1>7, <2>1 DEF script, StageTypes, Translating
<1>8. ASSUME NEW n \in 1..Size, NEW kept \in BOOLEAN, Feed(n, kept) PROVE StageTypes'
  BY <1>7, <1>8 DEF Feed
<1>9. ASSUME NEW cacheOk \in BOOLEAN, NEW growOk \in BOOLEAN, FeedPfn(cacheOk, growOk) PROVE StageTypes'
  BY <1>7, <1>9 DEF FeedPfn, TranslatePfn
<1>10. CASE FeedHeader \/ FeedReturn
  BY <1>7, <1>10 DEF FeedHeader, FeedReturn, Header, Return
<1>11. CASE FeedFailed
  BY <1>11 DEF FeedFailed, Go, CloseFailed, StageTypes, Translating
<1>12. CASE ReadOutput
  BY <1>12 DEF ReadOutput, Go, vars, call, StageTypes, Translating
<1>13. CASE Augment
  BY <1>13 DEF Augment, vars, call, StageTypes, Translating
<1>14. ASSUME NEW n, NEW torn, NEW junk, Fetch(n, torn, junk) PROVE StageTypes'
  BY <1>14 DEF Fetch, Go, vars, call, StageTypes, Translating
<1>15. ASSUME NEW d \in Dumps, Again(d) PROVE StageTypes'
  BY <1>15 DEF Again, OpenInput, call, StageTypes, Translating
<1>16. CASE UNCHANGED stageVars
  BY <1>16 DEF stageVars, vars, call, script, StageTypes
<1> QED
  BY <1>1, <1>2, <1>3, <1>4, <1>5, <1>6, <1>8, <1>9, <1>10, <1>11, <1>12, <1>13, <1>14, <1>15,
     <1>16 DEF StageNext

\* The rows of the table are for frames some dump names.
LEMMA NamedFramesStep ==
  ASSUME IInv, NamedFrames, [Next]_vars PROVE NamedFrames'
<1>1. CASE entries' = entries \/ entries' = <<>>
  BY <1>1 DEF NamedFrames, Named
<1>2. ASSUME NEW p \in Nat \ {0}, Named(p), entries' = Append(entries, Translated(p))
      PROVE  NamedFrames'
  <2> DEFINE e == Translated(p)
  <2>1. e.pfn = p
    BY DEF Translated
  <2>2. entries \in Seq(Entry)
    BY DEF IInv, TypeOK, Entry
  <2>3. entries' = Append(entries, e)
    BY <1>2
  <2> HIDE DEF e
  <2>4. /\ DOMAIN Append(entries, e) = 1..(Len(entries) + 1) /\ DOMAIN entries = 1..Len(entries)
        /\ Append(entries, e)[Len(entries) + 1] = e /\ Len(entries) \in Nat
        /\ \A i \in 1..Len(entries) : Append(entries, e)[i] = entries[i]
    BY <2>2
  <2>5. \A i \in 1..(Len(entries) + 1) : i \in 1..Len(entries) \/ i = Len(entries) + 1
    BY <2>4
  <2> QED
    BY <1>2, <2>1, <2>3, <2>4, <2>5 DEF NamedFrames, Named
<1> QED
  BY <1>1, <1>2, EntriesChange

\* The script starts so.
LEMMA ScriptInitOK == StageInit => TInv
<1> SUFFICES ASSUME StageInit PROVE TInv
  OBVIOUS
<1>1. IInv
  BY InitOK DEF StageInit
<1>2. pc = "idle" /\ entries = <<>> /\ step = "input"
  BY DEF StageInit, Init
<1>3. StageTypes
  BY <1>2 DEF StageTypes, Translating
<1>4. NamedFrames
  BY <1>2 DEF NamedFrames
<1> QED
  BY <1>1, <1>3, <1>4 DEF TInv

\* Every step of it keeps this, and is a step of the translator.
LEMMA ScriptNextOK == TInv /\ [StageNext]_stageVars => TInv' /\ [Next]_vars
<1> SUFFICES ASSUME TInv, [StageNext]_stageVars PROVE TInv' /\ [Next]_vars
  OBVIOUS
<1>1. IInv /\ StageTypes /\ NamedFrames
  BY DEF TInv
<1>2. [Next]_vars
  BY <1>1, StageStep
<1>3. IInv'
  BY <1>1, <1>2, NextOK
<1>4. StageTypes'
  BY <1>1, StageTypesStep
<1>5. NamedFrames'
  BY <1>1, <1>2, NamedFramesStep
<1> QED
  BY <1>2, <1>3, <1>4, <1>5 DEF TInv

\* Driven by PageTables/Host/run.sh the module is the module: a stage is a
\* behaviour of the translator, and all that is proved of it holds here.
THEOREM StageRunsTranslator == StageSpec => Spec
<1>1. StageInit => Init
  BY DEF StageInit
<1> QED
  BY <1>1, ScriptInitOK, ScriptNextOK, PTL DEF StageSpec, Spec

\* Whatever writes the dump is cut into, every frame of every row written to
\* its end has a row or is one an allocation failed for, in the stage as well.
THEOREM StageTranslatesRows == StageSpec => []WrittenIsDone
BY StageRunsTranslator, CutsDoNotShow, PTL

-----------------------------------------------------------------------------
\* The places of a dump are pairs of a row and a field of it.
LEMMA PlacesOf ==
  ASSUME dump \in Dumps
  PROVE  /\ \A c \in Atomic!Places(dump) : c \in Nat \X Nat /\ c[1] \in DOMAIN dump /\ c[2] \in DOMAIN dump[c[1]]
         /\ \A i \in DOMAIN dump : \A k \in DOMAIN dump[i] : <<i, k>> \in Atomic!Places(dump)
<1>1. /\ Len(dump) \in Nat /\ DOMAIN dump = 1..Len(dump)
      /\ \A i \in DOMAIN dump : Len(dump[i]) \in Nat /\ DOMAIN dump[i] = 1..Len(dump[i])
  BY DumpType
<1>2. ASSUME NEW c \in Atomic!Places(dump)
      PROVE  c \in Nat \X Nat /\ c[1] \in DOMAIN dump /\ c[2] \in DOMAIN dump[c[1]]
  <2>1. PICK i \in DOMAIN dump : c \in {<<i, k>> : k \in DOMAIN dump[i]}
    BY DEF Atomic!Places
  <2>2. PICK k \in DOMAIN dump[i] : c = <<i, k>>
    BY <2>1
  <2>3. i \in Nat /\ k \in Nat
    BY <1>1
  <2> QED
    BY <2>2, <2>3
<1>3. ASSUME NEW i \in DOMAIN dump, NEW k \in DOMAIN dump[i] PROVE <<i, k>> \in Atomic!Places(dump)
  BY DEF Atomic!Places
<1> QED
  BY <1>2, <1>3

\* Places are in a strict total order.
LEMMA EarlierOrder ==
  ASSUME NEW c \in Nat \X Nat, NEW d \in Nat \X Nat, NEW e \in Nat \X Nat
  PROVE  /\ Atomic!Earlier(c, d) /\ Atomic!Earlier(d, e) => Atomic!Earlier(c, e)
         /\ c = d \/ Atomic!Earlier(c, d) \/ Atomic!Earlier(d, c)
         /\ Atomic!Earlier(c, d) => c # d /\ ~Atomic!Earlier(d, c)
BY DEF Atomic!Earlier

\* A step that keeps the dump and the rows, adds no place in front of the
\* reader and forgets no fault.
LEMMA OrderKeeps ==
  ASSUME Placed, Ordered, Underway' => Underway, dump' = dump, entries' = entries, faults \subseteq faults',
         \A c \in Atomic!Places(dump) : Underway' /\ Behind(c) => Behind(c)'
  PROVE  Placed' /\ Ordered'
<1>1. \A c, a : NamedAt(c, a)' = NamedAt(c, a)
  BY DEF NamedAt, Atomic!Frame
<1>2. Atomic!Places(dump') = Atomic!Places(dump)
  OBVIOUS
<1>3. Placed'
  BY <1>1, <1>2 DEF Placed
<1>4. Ordered'
  <2>1. faults' = {} => faults = {}
    OBVIOUS
  <2> QED
    BY <1>1, <1>2, <2>1 DEF Ordered
<1> QED
  BY <1>3, <1>4

\* A call that takes up lines takes them up behind all that is placed.
LEMMA OrderInput ==
  ASSUME IInv, Placed, Ordered, NEW n \in 1..Size, NEW kept \in BOOLEAN, InputWrite(n, kept)
  PROVE  Placed' /\ Ordered'
<1>1. CASE ~Underway'
  BY <1>1 DEF Placed, Ordered
<1>2. CASE pos = 0
  <2>1. entries' = <<>>
    BY <1>2 DEF InputWrite
  <2>2. DOMAIN entries' = {}
    BY <2>1
  <2> QED
    BY <2>2 DEF Placed, Ordered
<1>3. CASE pos # 0 /\ Underway'
  <2> DEFINE end == pos + n
             first == LineOf(from)
             next == LineOf(end + 1)
  <2>1. /\ TypeOK /\ Locals /\ Session /\ dump \in Dumps /\ pos \in Nat /\ from \in Nat \ {0}
    <3>1. TypeOK /\ Locals /\ Session /\ dump \in Dumps
      BY DEF IInv, TypeOK
    <3>2. Size \in Nat
      BY <3>1, DumpType DEF Size, LineEnd
    <3> QED
      BY <3>1, <3>2 DEF TypeOK, Locals
  <2>2. /\ pc = "idle" /\ dump' = dump /\ entries' = entries /\ faults \subseteq faults'
        /\ \/ pc' = "idle" /\ from' = from
           \/ /\ pc' = "lines" /\ first < next /\ from' = Rest(next, end, kept) /\ field' = 1
              /\ line' = IF first > 0 /\ from > Fields(first) THEN first + 1 ELSE first
    BY <1>3 DEF InputWrite, Fail, call, Underway
  <2>3. Underway /\ from <= pos + 1 /\ n \in Nat \ {0} /\ end \in Nat
    <3>1. Size \in Nat
      BY <2>1, DumpType DEF Size, LineEnd
    <3> QED
      BY <1>3, <2>1, <2>2, <3>1 DEF Underway, Session
  <2>4. first \in Nat /\ 4 * first <= from + 1 /\ from + 1 < 4 * first + 4
    BY <2>1, LineOfBounds
  <2>5. next \in Nat
    <3>1. end + 1 \in Nat
      BY <2>3
    <3> QED
      BY <3>1, LineOfBounds
  <2> HIDE DEF first, next, end
  <2>6. ASSUME NEW c \in Atomic!Places(dump), Behind(c) PROVE Behind(c)'
    <3>1. c[1] \in Nat
      BY <2>1, PlacesOf
    <3>2. LineEnd(c[1]) = 2 + 4 * c[1] /\ 2 + 4 * c[1] < from
      BY <2>6 DEF Behind, LineEnd
    <3>3. c[1] + 1 <= first
      BY <2>1, <2>4, <3>1, <3>2
    <3>4. CASE pc' = "idle"
      BY <2>2, <2>6, <3>4 DEF Behind, LineEnd
    <3>5. CASE pc' = "lines"
      <4>1. first < next /\ from' = Rest(next, end, kept) /\ line' \in Nat /\ line' >= first
        BY <2>2, <2>4, <3>5
      <4>2. Atomic!Earlier(c, <<line', field'>>)
        BY <2>4, <3>1, <3>3, <4>1 DEF Atomic!Earlier
      <4>3. 2 + 4 * c[1] < from'
        <5>1. Rest(next, end, kept) = IF kept THEN 4 * next - 1 ELSE end + 1
          BY <2>5 DEF Rest, LineEnd
        <5>2. end + 1 > from
          BY <2>1, <2>3 DEF end
        <5> QED
          BY <2>1, <2>3, <2>4, <2>5, <3>1, <3>2, <3>3, <4>1, <5>1, <5>2
      <4> QED
        BY <3>1, <4>2, <4>3 DEF Behind, LineEnd
    <3> QED
      BY <2>2, <3>4, <3>5
  <2> QED
    BY <2>2, <2>3, <2>6, OrderKeeps
<1> QED
  BY <1>1, <1>2, <1>3

\* What was named before the reader's place has a row, when no allocation
\* failed.
LEMMA SeenBehind ==
  ASSUME IInv, pc = "lines", line \in 1..last, faults = {}, NEW e \in Atomic!Places(dump),
         Atomic!Earlier(e, <<line, field>>)
  PROVE  Atomic!Frame(dump, e) \in Keys \cup {0}
<1>1. /\ TypeOK /\ Locals /\ Loop /\ Session /\ dump \in Dumps /\ line \in Nat /\ last \in Nat
      /\ from \in Nat /\ last <= Len(dump) /\ LineEnd(last) < from /\ pos > 0
  BY DEF IInv, TypeOK, Locals, Loop
<1>2. e \in Nat \X Nat /\ e[1] \in DOMAIN dump /\ e[2] \in DOMAIN dump[e[1]]
  BY <1>1, PlacesOf
<1>3. CASE e[1] < line
  <2>1. Fields(e[1]) < from
    BY <1>1, <1>2, <1>3 DEF Fields, LineEnd
  <2>2. ~Pending(e[1])
    BY <1>1, <1>2, <1>3 DEF Pending
  <2>3. Covered(e[1])
    BY <1>1, <1>2, <2>1, <2>2 DEF Session
  <2>4. dump[e[1]][e[2]] \in Row(e[1])
    BY <1>2 DEF Row
  <2> QED
    BY <2>3, <2>4 DEF Covered, Atomic!Frame
<1>4. CASE e[1] = line /\ e[2] < field
  <2>1. e[2] \in 1..(field - 1)
    <3>1. e[2] \in 1..Len(dump[e[1]]) /\ field \in Nat
      BY <1>1, <1>2, DumpType DEF Locals
    <3> QED
      BY <1>4, <3>1
  <2>2. dump[line][e[2]] \in Known
    BY <1>1, <2>1 DEF Loop
  <2> QED
    BY <1>4, <2>2 DEF Known, Atomic!Frame
<1> QED
  BY <1>3, <1>4 DEF Atomic!Earlier

\* A new row goes to the end, and is for a frame that no earlier place names.
LEMMA OrderPfn ==
  ASSUME IInv, Placed, Ordered, NEW cacheOk \in BOOLEAN, NEW growOk \in BOOLEAN,
         TranslatePfn(cacheOk, growOk)
  PROVE  Placed' /\ Ordered'
<1> DEFINE p == dump[line][field]
           here == <<line, field>>
           there == <<line', field'>>
           row == Translated(p)
           P == Atomic!Places(dump)
<1>1. /\ pc = "lines" /\ line \in 1..last /\ UNCHANGED <<dump, pos, from, pc>>
      /\ field' = IF field = Len(dump[line]) THEN 1 ELSE field + 1
      /\ line' = IF field = Len(dump[line]) THEN line + 1 ELSE line
  BY DEF TranslatePfn, stream
<1>2. /\ TypeOK /\ Locals /\ Loop /\ dump \in Dumps /\ line \in Nat /\ last \in Nat
      /\ field \in Nat /\ from \in Nat /\ last <= Len(dump) /\ LineEnd(last) < from /\ pos > 0
      /\ CachedHasRow /\ FrameOnce /\ entries \in Seq(Entry)
  BY <1>1 DEF IInv, TypeOK, Locals, Loop, Entry
<1>3. /\ Len(dump) \in Nat /\ DOMAIN dump = 1..Len(dump)
      /\ \A i \in DOMAIN dump : Len(dump[i]) \in Nat /\ DOMAIN dump[i] = 1..Len(dump[i])
  BY <1>2, DumpType
<1>4. line \in DOMAIN dump /\ field \in DOMAIN dump[line]
  <2>1. line \in DOMAIN dump
    BY <1>1, <1>2, <1>3
  <2>2. field \in 1..Len(dump[line])
    BY <1>1, <1>2 DEF Loop
  <2> QED
    BY <1>3, <2>1, <2>2
<1>5. here \in P /\ Atomic!Frame(dump, here) = p
  BY <1>2, <1>4, PlacesOf DEF Atomic!Frame
<1>6. line' \in Nat /\ field' \in Nat /\ Atomic!Earlier(here, there)
  BY <1>1, <1>2 DEF Atomic!Earlier
<1>7. \A c \in P : c \in Nat \X Nat
  BY <1>2, PlacesOf
<1>8. here \in Nat \X Nat /\ there \in Nat \X Nat
  BY <1>2, <1>6
<1> HIDE DEF here, there, P
<1>9. Underway /\ Underway'
  BY <1>1, <1>2 DEF Underway
<1>10. ASSUME NEW c \in P, Behind(c) PROVE Behind(c)' /\ Atomic!Earlier(c, here)
  <2>1. Atomic!Earlier(c, here) /\ LineEnd(c[1]) < from
    BY <1>1, <1>10 DEF Behind, here
  <2>2. Atomic!Earlier(c, there)
    BY <1>6, <1>7, <1>8, <2>1, EarlierOrder
  <2> QED
    BY <1>1, <2>1, <2>2 DEF Behind, there, LineEnd
<1>15. PICK h \in P : h = here
  BY <1>5 DEF P
<1>11. Behind(h)'
  <2>1. LineEnd(line) < from
    BY <1>1, <1>2 DEF LineEnd
  <2>2. h[1] = line /\ Atomic!Earlier(h, there)
    BY <1>6, <1>15 DEF here
  <2> QED
    BY <1>1, <2>1, <2>2 DEF Behind, there, LineEnd
<1>12. faults \subseteq faults'
  BY DEF TranslatePfn
<1>13. CASE entries' = entries
  BY <1>1, <1>9, <1>10, <1>12, <1>13, OrderKeeps DEF P
<1>14. CASE IsNew(p) /\ entries' = Append(entries, row)
  <2>0. PICK n : n = Len(entries)
    OBVIOUS
  <2>1. row.pfn = p
    BY DEF Translated
  <2> HIDE DEF row, p
  <2>2. /\ n \in Nat /\ DOMAIN entries = 1..n /\ DOMAIN entries' = 1..(n + 1)
        /\ entries'[n + 1] = row /\ \A a \in 1..n : entries'[a] = entries[a]
    BY <1>2, <1>14, <2>0
  <2>3. \A c : \A a \in 1..n : NamedAt(c, a)' = NamedAt(c, a)
    BY <1>1, <2>2 DEF NamedAt, Atomic!Frame
  <2>4. \A c : NamedAt(c, n + 1)' = (Atomic!Frame(dump, c) = p)
    BY <1>1, <2>1, <2>2 DEF NamedAt, Atomic!Frame
  <2>5. Atomic!Places(dump') = P /\ Atomic!Places(dump) = P
    BY <1>1 DEF P
  <2>6. \A a \in 1..n : \E c \in P : NamedAt(c, a) /\ Behind(c)
    BY <1>9, <2>2, <2>5 DEF Placed
  <2>7. \A a \in 1..(n + 1) : a \in 1..n \/ a = n + 1
    BY <2>2
  <2>8. Placed'
    <3> SUFFICES ASSUME NEW a \in 1..(n + 1) PROVE \E c \in P : NamedAt(c, a)' /\ Behind(c)'
      BY <2>2, <2>5 DEF Placed
    <3>1. CASE a \in 1..n
      BY <1>10, <2>3, <2>6, <3>1
    <3>2. CASE a = n + 1
      <4>1. Atomic!Frame(dump, h) = p
        BY <1>5, <1>15 DEF p
      <4> QED
        BY <1>11, <2>4, <3>2, <4>1
    <3> QED
      BY <2>7, <3>1, <3>2
  <2>9. Ordered'
    <3> SUFFICES ASSUME faults' = {}, NEW a \in 1..(n + 1), NEW b \in 1..(n + 1), a < b
                 PROVE  \E c \in P : NamedAt(c, a)' /\ \A e \in P : NamedAt(e, b)' => Atomic!Earlier(c, e)
      BY <2>2, <2>5 DEF Ordered
    <3>1. faults = {}
      BY <1>12
    <3>2. a \in 1..n
      BY <2>2
    <3>3. CASE b \in 1..n
      <4>1. \E c \in P : NamedAt(c, a) /\ \A e \in P : NamedAt(e, b) => Atomic!Earlier(c, e)
        BY <1>9, <2>2, <2>5, <3>1, <3>2, <3>3 DEF Ordered
      <4> QED
        BY <2>3, <3>2, <3>3, <4>1
    <3>4. CASE b = n + 1
      <4>1. PICK c \in P : NamedAt(c, a) /\ Behind(c)
        BY <2>6, <3>2
      <4>2. Atomic!Earlier(c, here)
        BY <1>10, <4>1
      <4>3. p \notin Keys \cup {0}
        BY <1>2, <1>14 DEF IsNew, CachedHasRow
      <4>4. ASSUME NEW e \in P, Atomic!Frame(dump, e) = p PROVE Atomic!Earlier(c, e)
        <5>1. ~Atomic!Earlier(e, here)
          BY <1>1, <3>1, <4>3, <4>4, SeenBehind DEF P, here
        <5>2. e = here \/ Atomic!Earlier(here, e)
          BY <1>7, <1>8, <5>1, EarlierOrder
        <5> QED
          BY <1>7, <1>8, <4>2, <5>2, EarlierOrder
      <4> QED
        BY <2>3, <2>4, <3>2, <3>4, <4>1, <4>4
    <3> QED
      BY <2>7, <3>3, <3>4
  <2> QED
    BY <2>8, <2>9
<1> QED
  BY <1>13, <1>14 DEF TranslatePfn

\* The order holds in every step.
LEMMA OrderStep ==
  ASSUME IInv, Placed, Ordered, [Next]_vars PROVE Placed' /\ Ordered'
<1>1. ASSUME NEW n \in 1..Size, NEW kept \in BOOLEAN, InputWrite(n, kept) PROVE Placed' /\ Ordered'
  BY <1>1, OrderInput
<1>2. ASSUME NEW cacheOk \in BOOLEAN, NEW growOk \in BOOLEAN, TranslatePfn(cacheOk, growOk)
      PROVE  Placed' /\ Ordered'
  BY <1>2, OrderPfn
<1>3. ASSUME pos' = 0 PROVE Placed' /\ Ordered'
  BY <1>3 DEF Placed, Ordered, Underway
<1>4. CASE Reload \/ CloseFailed
  BY <1>3, <1>4 DEF Reload, CloseFailed
<1>5. ASSUME NEW d \in Dumps, OpenInput(d) PROVE Placed' /\ Ordered'
  BY <1>3, <1>5 DEF OpenInput
<1>6. ASSUME UNCHANGED <<stream, table, pc, line, field>> PROVE Placed' /\ Ordered'
  <2>1. UNCHANGED <<dump, pos, from, pc, line, field, entries, faults>>
    BY <1>6 DEF stream, table
  <2>2. \A c : Behind(c)' = Behind(c)
    BY <2>1 DEF Behind, LineEnd, Atomic!Earlier
  <2>3. Underway' = Underway
    BY <2>1 DEF Underway
  <2> QED
    BY <2>1, <2>2, <2>3, OrderKeeps
<1>7. ASSUME NEW q \in Qemus, QemuExits(q) PROVE Placed' /\ Ordered'
  BY <1>6, <1>7 DEF QemuExits, call
<1>8. ASSUME NEW q \in Qemus, NEW found \in BOOLEAN, ConfigWrite(q, found) PROVE Placed' /\ Ordered'
  BY <1>6, <1>8 DEF ConfigWrite, call
<1>9. CASE UNCHANGED vars
  BY <1>6, <1>9 DEF vars, call
<1>10. CASE Header \/ Return
  <2>1. /\ UNCHANGED <<dump, pos, from, entries, faults>> /\ pc = "lines" /\ pc' \in {"lines", "idle"}
        /\ pc' = "lines" => line = 0 /\ line' = 1
    BY <1>10 DEF Header, Return, stream, table
  <2>2. dump \in Dumps
    BY DEF IInv, TypeOK
  <2>3. ASSUME NEW c \in Atomic!Places(dump), Behind(c) PROVE Behind(c)'
    <3>1. c[1] \in Nat /\ c[1] # 0
      <4>1. c[1] \in DOMAIN dump /\ DOMAIN dump = 1..Len(dump) /\ Len(dump) \in Nat
        BY <2>2, PlacesOf, DumpType
      <4> QED
        BY <4>1
    <3>2. pc' # "lines"
      BY <2>1, <2>3, <3>1 DEF Behind, Atomic!Earlier
    <3> QED
      BY <2>1, <2>3, <3>2 DEF Behind, LineEnd
  <2>4. Underway' => Underway
    BY <2>1 DEF Underway
  <2> QED
    BY <2>1, <2>3, <2>4, OrderKeeps
<1> QED
  BY <1>1, <1>2, <1>4, <1>5, <1>7, <1>8, <1>9, <1>10 DEF Next

-----------------------------------------------------------------------------
\* The order is kept in the stage: it only takes steps of the module.
LEMMA OrderInvariance == StageSpec => []OInv
<1>1. StageInit => OInv
  BY ScriptInitOK DEF OInv, Placed, Ordered, Underway, StageInit, Init
<1>2. OInv /\ [StageNext]_stageVars => OInv'
  <2> SUFFICES ASSUME OInv, [StageNext]_stageVars PROVE OInv'
    OBVIOUS
  <2>1. TInv' /\ [Next]_vars
    BY ScriptNextOK DEF OInv
  <2>2. IInv /\ Placed /\ Ordered
    BY DEF OInv, TInv
  <2> QED
    BY <2>1, <2>2, OrderStep DEF OInv
<1> QED
  BY <1>1, <1>2, PTL DEF StageSpec

\* Once the dump is written whole nothing changes the table that leaves the
\* session whole.
LEMMA WholeStays ==
  ASSUME Whole, Whole', [StageNext]_stageVars, IInv PROVE entries' = entries
<1>1. pc = "idle" /\ pos = Size /\ step \in {"feed", "augment"} /\ pos \in Nat
  <2>1. dump \in Dumps
    BY DEF IInv, TypeOK
  <2>2. Size \in Nat
    BY <2>1, DumpType DEF Size, LineEnd
  <2> QED
    BY <2>2 DEF Whole
<1>2. ASSUME UNCHANGED vars PROVE entries' = entries
  BY <1>2 DEF vars, table
<1>3. CASE UNCHANGED stageVars
  BY <1>2, <1>3 DEF stageVars
<1>4. ASSUME NEW q \in Qemus, Stop(q) \/ Detect(q) PROVE entries' = entries
  BY <1>2, <1>4 DEF Stop, Detect, QemuExits, table
<1>5. CASE Die \/ ReadOutput \/ Augment
  BY <1>2, <1>5 DEF Die, ReadOutput, Augment
<1>6. CASE LoadModule \/ Open \/ FeedHeader \/ FeedReturn \/ FeedFailed
  BY <1>1, <1>6 DEF LoadModule, Open, FeedHeader, FeedReturn, FeedFailed, Go, Header, Return, CloseFailed
<1>7. ASSUME NEW found \in BOOLEAN, Configure(found) PROVE FALSE
  BY <1>1, <1>7 DEF Configure, Go
<1>8. ASSUME NEW n \in 1..Size, NEW kept \in BOOLEAN, Feed(n, kept) PROVE FALSE
  <2>1. pos + n <= Size
    BY <1>8 DEF Feed, InputWrite
  <2> QED
    BY <1>1, <2>1
<1>9. ASSUME NEW cacheOk \in BOOLEAN, NEW growOk \in BOOLEAN, FeedPfn(cacheOk, growOk) PROVE FALSE
  BY <1>1, <1>9 DEF FeedPfn, TranslatePfn
<1>10. ASSUME NEW n \in 0..Len(out.rows), NEW junk \in BOOLEAN, NEW torn \in Torn(n + 1), Fetch(n, torn, junk)
       PROVE  entries' = entries
  BY <1>2, <1>10 DEF Fetch
<1>11. ASSUME NEW d \in Dumps, Again(d) PROVE FALSE
  BY <1>1, <1>11 DEF Again
<1> QED
  BY <1>3, <1>4, <1>5, <1>6, <1>7, <1>8, <1>9, <1>10, <1>11 DEF StageNext
=============================================================================
