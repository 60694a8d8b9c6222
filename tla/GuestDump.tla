------------------------------ MODULE GuestDump ------------------------------
(***************************************************************************)
(* The guest page table dump: /proc/page_tables of dump_pagetables.c, read *)
(* by one PageTables/Guest/run.sh per traced process.  The module keeps    *)
(* one selected_pid for all readers, and a read looks the process up again *)
(* at every entry, while processes that are not stopped go on.             *)
(*                                                                         *)
(* The five levels of a table are two here: groups of GroupSize pages (one *)
(* entry of an upper level, which may be a huge page) and pages.           *)
(***************************************************************************)
EXTENDS Naturals, Sequences

CONSTANTS
  Pids,        \* traced processes, each with its own script
  Held,        \* the ones that are stopped for the dump
  NumGroups, GroupSize,
  Tables,      \* page tables at the start
  BufferRows,  \* rows that fit in the buffer of one read()
  MaxChanges

ASSUME SizeAssumption ==
  NumGroups \in Nat \ {0} /\ GroupSize \in Nat \ {0} /\ BufferRows \in Nat \ {0} /\ MaxChanges \in Nat
ASSUME HeldAssumption == Held \subseteq Pids

TaskSize == NumGroups * GroupSize
Pages == 0 .. TaskSize - 1
Groups == 0 .. NumGroups - 1
GroupOf(page) == page \div GroupSize
Group(g) == g * GroupSize .. (g + 1) * GroupSize - 1

ASSUME TablesAssumption ==
  Tables \subseteq [upper : [Groups -> {"none", "huge", "table"}], present : SUBSET Pages]

VARIABLES
  upper,    \* the entries of the upper level: "none", "huge" or "table"
  present,  \* the pages with a present entry
  mm,       \* processes that still have one
  selected, \* selected_pid
  pc,       \* the script
  pos,      \* index of its seq_file
  fill,     \* 0 when a read() is to start, else 1 + the rows in its buffer
  header, rows,   \* what it has read
  changes,
  kept, seen,     \* pages mapped all the time, some time, since selected
  reselected, short, freed   \* reads in which another pid was selected, an
                             \* allocation failed, a table was freed

process == <<upper, present, mm, changes>>
reader == <<pc, pos, fill, header, rows>>
history == <<kept, seen, reselected, short, freed>>
vars == <<process, selected, reader, history>>

Mapped(p) == {a \in Pages : \/ upper[p][GroupOf(a)] = "huge"
                            \/ upper[p][GroupOf(a)] = "table" /\ a \in present[p]}

Init ==
  /\ \E t \in [Pids -> Tables] :
       upper = [p \in Pids |-> t[p].upper] /\ present = [p \in Pids |-> t[p].present]
  /\ mm = Pids /\ selected \in Pids /\ changes = 0
  /\ pc = [p \in Pids |-> "start"]
  /\ pos = [p \in Pids |-> 0] /\ fill = [p \in Pids |-> 0]
  /\ header = [p \in Pids |-> {}] /\ rows = [p \in Pids |-> <<>>]
  /\ kept = [p \in Pids |-> {}] /\ seen = [p \in Pids |-> {}]
  /\ reselected = {} /\ short = {} /\ freed = {}

-----------------------------------------------------------------------------
(* The script and the module.                                              *)

Reading == {p \in Pids : pc[p] = "read"}

\* Mutant: the PID is not parsed, and another stays selected.
SelectNone(p) ==
  /\ pc[p] = "start"
  /\ pc' = [pc EXCEPT ![p] = "read"]
  /\ kept' = [kept EXCEPT ![p] = Mapped(p)] /\ seen' = [seen EXCEPT ![p] = Mapped(p)]
  /\ reselected' = reselected \cup Reading
  /\ UNCHANGED <<process, selected, pos, fill, header, rows, short, freed>>

\* The script writes U<pid>; a read in progress of another script goes on
\* with the new process.
Select(p) ==
  /\ pc[p] = "start"
  /\ pc' = [pc EXCEPT ![p] = "read"]
  /\ selected' = p
  /\ kept' = [kept EXCEPT ![p] = Mapped(p)] /\ seen' = [seen EXCEPT ![p] = Mapped(p)]
  /\ reselected' = reselected \cup Reading
  /\ UNCHANGED <<process, pos, fill, header, rows, short, freed>>

\* Mutant: an empty entry of the lowest level is skipped as one above it.
StepCoarse(p, a) == IF a \in Mapped(p) THEN 1 ELSE GroupSize

\* How far the walker goes: by what an entry of the level it found empty
\* covers, from where it is; one page in a huge one.
Step(p, a) == IF upper[p][GroupOf(a)] = "none" THEN GroupSize ELSE 1

\* pt_seq_next: the walk does not move, or has left user space.
AtEnd(a, next) == next <= a \/ next >= TaskSize

\* pt_seq_start: where the next read goes on.
Resume(p) == pos[p]

\* A row that does not fit ends the read; seq_file shows its entry again in
\* the next one.
Fits(p) == fill[p] <= BufferRows

\* seq_read at one entry: pt_seq_start (if it is the first of a read),
\* pt_seq_show and pt_seq_next.  The header is shown at position 0.
Show(p) ==
  LET a == pos[p]
      f == IF fill[p] = 0 THEN 1 ELSE fill[p]
  IN
  /\ pc[p] = "read" /\ selected \in mm
  /\ header' = IF a = 0 THEN [header EXCEPT ![p] = {selected}] ELSE header
  /\ IF a \in Mapped(selected) /\ ~Fits(p)
       THEN /\ fill' = [fill EXCEPT ![p] = 0] /\ pos' = [pos EXCEPT ![p] = Resume(p)]
            /\ UNCHANGED <<pc, rows>>
       ELSE /\ pos' = [pos EXCEPT ![p] = a + Step(selected, a)]
            /\ pc' = [pc EXCEPT ![p] = IF AtEnd(a, a + Step(selected, a)) THEN "convert" ELSE @]
            /\ IF a \in Mapped(selected)
                 THEN /\ rows' = [rows EXCEPT ![p] = Append(@, [va |-> a, of |-> selected])]
                      /\ fill' = [fill EXCEPT ![p] = f + 1]
                 ELSE UNCHANGED rows /\ fill' = [fill EXCEPT ![p] = f]
  /\ UNCHANGED <<process, selected, history>>

\* Mutant: without an mm, the reader is to try again.
ShowFailsAgain(p) ==
  /\ pc[p] = "read" /\ selected \notin mm
  /\ UNCHANGED vars

\* No mm: the read is an error, and the script removes what it has.
ShowFails(p) ==
  /\ pc[p] = "read" /\ selected \notin mm
  /\ pc' = [pc EXCEPT ![p] = "failed"] /\ rows' = [rows EXCEPT ![p] = <<>>]
  /\ UNCHANGED <<process, selected, pos, fill, header, history>>

\* pt_seq_start cannot allocate its position: to seq_read, that is the end of
\* the file.
StartFails(p) ==
  /\ pc[p] = "read" /\ fill[p] = 0
  /\ pc' = [pc EXCEPT ![p] = IF header[p] = {} THEN "failed" ELSE "convert"]
  /\ short' = short \cup {p}
  /\ UNCHANGED <<process, selected, pos, fill, header, rows, kept, seen, reselected, freed>>

\* convert_dump: another header than the PID is worth a warning, no row at all
\* is an error.
Convert(p) ==
  /\ pc[p] = "convert"
  /\ pc' = [pc EXCEPT ![p] = IF rows[p] = <<>> THEN "failed" ELSE "done"]
  /\ UNCHANGED <<process, selected, pos, fill, header, rows, history>>

-----------------------------------------------------------------------------
(* A process that is not stopped.                                          *)

Changed(p) ==
  /\ p \in mm \ Held /\ Reading # {}
  /\ changes < MaxChanges /\ changes' = changes + 1
  /\ kept' = [kept EXCEPT ![p] = @ \cap Mapped(p)'] /\ seen' = [seen EXCEPT ![p] = @ \cup Mapped(p)']
  /\ UNCHANGED <<mm, selected, reader, reselected, short>>

Fault(p, a) ==
  /\ upper[p][GroupOf(a)] # "huge" /\ a \notin Mapped(p)
  /\ upper' = [upper EXCEPT ![p][GroupOf(a)] = "table"]
  /\ present' = [present EXCEPT ![p] = @ \cup {a}]
  /\ Changed(p) /\ UNCHANGED freed

Unmap(p, a) ==
  /\ upper[p][GroupOf(a)] = "table" /\ a \in present[p]
  /\ present' = [present EXCEPT ![p] = @ \ {a}]
  /\ UNCHANGED upper
  /\ Changed(p) /\ UNCHANGED freed

\* munmap of a whole group frees its table.
Free(p, g) ==
  /\ upper[p][g] # "none"
  /\ upper' = [upper EXCEPT ![p][g] = "none"]
  /\ present' = [present EXCEPT ![p] = @ \ Group(g)]
  /\ freed' = freed \cup {p}
  /\ Changed(p)

Exit(p) ==
  /\ p \in mm \ Held /\ Reading # {}
  /\ mm' = mm \ {p}
  /\ UNCHANGED <<upper, present, changes, selected, reader, history>>

ReaderStep(p) == Select(p) \/ Show(p) \/ ShowFails(p) \/ StartFails(p) \/ Convert(p)

Next ==
  \E p \in Pids :
    \/ ReaderStep(p)
    \/ \E a \in Pages : Fault(p, a) \/ Unmap(p, a)
    \/ \E g \in Groups : Free(p, g)
    \/ Exit(p)

\* cat reads on.
Spec == Init /\ [][Next]_vars /\ \A p \in Pids : WF_vars(ReaderStep(p))

-----------------------------------------------------------------------------
\* Types; the position of a read that goes on is in user space.
TypeOK ==
  /\ upper \in [Pids -> [Groups -> {"none", "huge", "table"}]]
  /\ present \in [Pids -> SUBSET Pages]
  /\ mm \subseteq Pids /\ selected \in Pids
  /\ pc \in [Pids -> {"start", "read", "convert", "done", "failed"}]
  /\ \A p \in Pids : pc[p] = "read" => pos[p] \in Pages /\ fill[p] \in 0 .. BufferRows + 1

Addresses(p) == {rows[p][i].va : i \in 1 .. Len(rows[p])}

\* The rows of a dump are in strictly increasing order of address, so that
\* none is double, whatever processes and readers do meanwhile.
RowsIncrease ==
  \A p \in Pids : \A i, j \in 1 .. Len(rows[p]) : i < j => rows[p][i].va < rows[p][j].va

\* Rows of another process get into a dump only if that process was selected
\* while this dump was read.  The header shows it only if it was before the
\* first entry.
OwnRows ==
  \A p \in Pids : \/ p \in reselected
                  \/ header[p] \subseteq {p} /\ \A i \in 1 .. Len(rows[p]) : rows[p][i].of = p

\* A dump during which no other process was selected lies between the pages
\* mapped all the time and those mapped at some time; pages mapped all the
\* time are missing only past a failed allocation, or if a table was freed
\* (the walker then goes on from the middle of the next).  A held process
\* maps the same pages all the time, and its dump is exact.
DumpIsBetween ==
  \A p \in Pids : pc[p] = "done" /\ p \notin reselected =>
    /\ Addresses(p) \subseteq seen[p]
    /\ p \notin freed => {a \in kept[p] : p \in short => a < pos[p]} \subseteq Addresses(p)

\* A read ends, however the table changes under it.
ReadEnds == \A p \in Pids : pc[p] = "read" ~> pc[p] \in {"done", "failed"}
=============================================================================
