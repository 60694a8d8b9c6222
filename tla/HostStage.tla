------------------------------ MODULE HostStage ------------------------------
(***************************************************************************)
(* The host page table from the guest dump to the simulator:               *)
(* PageTables/Host/run.sh drives the translator, host_pt_augmentor fills   *)
(* the levels the translation lacks, run.sh in the guest fetches the file  *)
(* and the constructor of cache_simulator_t loads it.                      *)
(***************************************************************************)
EXTENDS HostTranslator, Integers

CONSTANTS
  Chain,   \* Chain[q][p]: the PFNs a walk of q's tables reaches for frame p
  MaxGap   \* gaps between PFNs above this size are not used (100 million)

VARIABLES
  step,    \* where the script is
  target,  \* QEMU_PID of the script
  raw,     \* the translation as read: header and rows
  out,     \* the file the augmentor wrote
  loaded   \* host_page_table of the simulator: GPA to row

script == <<step, target, raw, out, loaded>>

NAN == -1

ASSUME ChainAssumption ==
  \A q \in Qemus, d \in Dumps : \A i \in DOMAIN d : \A k \in DOMAIN d[i] :
    d[i][k] # 0 => Chain[q][d[i][k]] \in [1..5 -> Nat \cup {NAN}]
ASSUME GapAssumption == MaxGap \in Nat

NoFile == [count |-> -1, rows |-> <<>>]
Cells(rows) == {<<i, k>> : i \in DOMAIN rows, k \in 1..5}
\* Cells in the order of the file.
Before(c, d) == c[1] < d[1] \/ (c[1] = d[1] /\ c[2] < d[2])

\* output_show: a row is the GPA and five levels.  A base of 0 ends every
\* translation before its first level; another process's base leads to some
\* other page of this one, for which the same levels stand.
Shown(e) ==
  [gpa |-> e.pfn,
   pfns |-> IF e.base = NoQemu THEN [k \in 1..5 |-> NAN] ELSE Chain[e.mm][e.pfn]]

-----------------------------------------------------------------------------
\* Mutant: the gap includes the PFN above it.
UnallocatedOver(U) ==
  UNION {{n \in (a + 1)..b : a < b /\ (\A u \in U : u <= a \/ u >= b) /\ b - a <= MaxGap} : a, b \in U}

\* host_pt_augmentor: the PFNs in use, the unallocated ones between them, and
\* the n-th absent level of the file filled with the n-th of these.
InUse(rows) == {rows[c[1]].pfns[c[2]] : c \in Cells(rows)} \ {NAN}
Gap(U, a, b) == a < b /\ (\A u \in U : u <= a \/ u >= b) /\ b - a - 1 <= MaxGap
Unallocated(U) == UNION {{n \in (a + 1)..(b - 1) : Gap(U, a, b)} : a, b \in U}
Absent(rows) == {c \in Cells(rows) : rows[c[1]].pfns[c[2]] = NAN}
Ordinal(S, c) == Cardinality({d \in S : d = c \/ Before(d, c)})
NthOf(S, n) == CHOOSE x \in S : Cardinality({y \in S : y <= x}) = n
Filled(rows) ==
  LET free == Unallocated(InUse(rows))
      absent == Absent(rows)
      level(i, k) ==
        IF <<i, k>> \in absent /\ Ordinal(absent, <<i, k>>) <= Cardinality(free)
          THEN NthOf(free, Ordinal(absent, <<i, k>>)) ELSE rows[i].pfns[k]
  IN  [i \in DOMAIN rows |-> [gpa |-> rows[i].gpa, pfns |-> [k \in 1..5 |-> level(i, k)]]]

\* The constructor of cache_simulator_t reads as many rows as the header says
\* and keeps the first of a GPA.  Past the end fscanf assigns nothing: tmp has
\* what the stack holds, the last row again or anything (Junk).
Junk == [gpa |-> NAN, pfns |-> [k \in 1..5 |-> NAN]]
Kept(read) ==
  LET first(g) == CHOOSE i \in DOMAIN read :
                    read[i].gpa = g /\ \A j \in 1..(i - 1) : read[j].gpa # g
  IN  [g \in {read[i].gpa : i \in DOMAIN read} |-> read[first(g)].pfns]
PastEnd(junk) == IF junk THEN <<Junk>> ELSE <<>>

\* Mutant: one row more than the header says is read.
LoadedOneMore(file, junk) == Kept(file.rows \o PastEnd(junk))

Loaded(file, junk) == Kept(file.rows \o PastEnd(junk /\ file.count > Len(file.rows)))

-----------------------------------------------------------------------------
StageInit ==
  /\ Init
  /\ step = "input" /\ target = NoQemu /\ raw = NoFile /\ out = NoFile /\ loaded = <<>>

Go(a, b) == step = a /\ step' = b

\* A guest that stops takes its QEMU with it, at any time.
Stop(q) == QemuExits(q) /\ UNCHANGED script

\* ui::die: no QEMU, a module that does not build or load, a read that fails.
Die ==
  /\ step \in {"input", "load", "config", "feed", "augment"} /\ pc = "idle"
  /\ step' = "failed"
  /\ UNCHANGED <<vars, target, raw, out, loaded>>

\* Input and Environment: the first process that matches.
Detect(q) ==
  /\ Go("input", "load")
  /\ q \in running /\ target' = q
  /\ UNCHANGED <<vars, raw, out, loaded>>

\* Mutant: a module that is loaded already is used as it is.
LoadModuleOnce == Go("load", "config") /\ UNCHANGED <<vars, target, raw, out, loaded>>

LoadModule == Go("load", "config") /\ Reload /\ UNCHANGED <<target, raw, out, loaded>>

Configure(found) ==
  Go("config", "open") /\ ConfigWrite(target, found) /\ UNCHANGED <<target, raw, out, loaded>>

Open == Go("open", "feed") /\ OpenInput(dump) /\ UNCHANGED <<target, raw, out, loaded>>

Feed(n, kept) == step = "feed" /\ InputWrite(n, kept) /\ UNCHANGED script
FeedHeader == Header /\ UNCHANGED script
FeedPfn(cacheOk, growOk) == TranslatePfn(cacheOk, growOk) /\ UNCHANGED script
FeedReturn == Return /\ UNCHANGED script

FeedFailed == Go("feed", "failed") /\ CloseFailed /\ UNCHANGED <<target, raw, out, loaded>>

ReadOutput ==
  /\ Go("feed", "augment")
  /\ pc = "idle" /\ pos = Size
  /\ raw' = [count |-> guest_pid, rows |-> [i \in DOMAIN entries |-> Shown(entries[i])]]
  /\ UNCHANGED <<vars, target, out, loaded>>

\* The augmentor, the check for absent levels and verify_header.
Augment ==
  LET rows == Filled(raw.rows)
  IN
  /\ step = "augment"
  /\ out' = [count |-> Len(rows), rows |-> rows]
  /\ step' = IF Absent(rows) = {} /\ rows # <<>> THEN "ready" ELSE "failed"
  /\ UNCHANGED <<vars, target, raw, loaded>>

\* The download.  One that is cut short leaves n rows and perhaps a part of the
\* next, which fscanf completes with junk, and the next invocation of the
\* pipeline takes the file as it is.
Torn(i) == {<<>>} \cup (IF i \in DOMAIN out.rows
                         THEN {<<Junk>>, <<[out.rows[i] EXCEPT !.pfns = Junk.pfns]>>} ELSE {})
Fetch(n, torn, junk) ==
  /\ Go("ready", "simulate")
  /\ loaded' = Loaded([out EXCEPT !.rows = SubSeq(@, 1, n) \o torn], junk)
  /\ UNCHANGED <<vars, target, raw, out>>

\* The script is run again, for this dump or another one.
Again(d) ==
  /\ step \in {"failed", "simulate"} /\ step' = "input"
  /\ OpenInput(d)
  /\ target' = NoQemu /\ raw' = NoFile /\ out' = NoFile /\ loaded' = <<>>

StageNext ==
  \/ \E q \in Qemus : Stop(q) \/ Detect(q)
  \/ Die
  \/ LoadModule
  \/ \E found \in BOOLEAN : Configure(found)
  \/ Open
  \/ \E n \in 1..Size, kept \in BOOLEAN : Feed(n, kept)
  \/ FeedHeader
  \/ \E cacheOk, growOk \in BOOLEAN : FeedPfn(cacheOk, growOk)
  \/ FeedReturn \/ FeedFailed \/ ReadOutput \/ Augment
  \/ \E n \in 0..Len(out.rows), junk \in BOOLEAN : \E torn \in Torn(n + 1) : Fetch(n, torn, junk)
  \/ \E d \in Dumps : Again(d)

stageVars == <<vars, script>>
StageSpec == StageInit /\ [][StageNext]_stageVars

-----------------------------------------------------------------------------
\* host_pt_augmentor: a level that was absent gets a PFN of its own, which no
\* row of the translation has.
FillsAreFresh ==
  step = "ready" =>
    \A c \in Absent(raw.rows) :
      LET v == out.rows[c[1]].pfns[c[2]]
      IN  /\ v \notin InUse(raw.rows)
          /\ \A d \in Absent(raw.rows) \ {c} : out.rows[d[1]].pfns[d[2]] # v

\* A table that reaches the guest was translated in the QEMU process the script
\* chose, from that process's own base: load_module forgets an earlier one, and
\* a translation without a base does not pass the check for absent levels.
DeliveredFromTarget ==
  step = "ready" => \A i \in DOMAIN entries : entries[i].mm = target /\ entries[i].base = target

\* A file that arrived whole is loaded as it is, row for row, and of a file cut
\* short every row before the cut: junk never takes the place of a row that was
\* read (insert keeps the first), and none is made up for a whole file.
LoadedUpToCut ==
  LET asWritten == {i \in DOMAIN out.rows :
        out.rows[i].gpa \in DOMAIN loaded /\ loaded[out.rows[i].gpa] = out.rows[i].pfns}
  IN  step = "simulate" =>
        \E n \in 0..Len(out.rows) :
          /\ asWritten = 1..n
          /\ n = Len(out.rows) => Cardinality(DOMAIN loaded) = n

\* A session that no allocation failure disturbed is the translation of the
\* whole dump in one step: chunks, partial lines and the cache do not show.
Whole == pc = "idle" /\ pos = Size /\ faults = {} /\ step \in {"feed", "augment"}
Atomic == INSTANCE HostTable WITH
  frames <- IF Whole THEN [i \in DOMAIN entries |-> entries[i].pfn] ELSE <<>>
ImplementsHostTable == Atomic!Spec
=============================================================================
