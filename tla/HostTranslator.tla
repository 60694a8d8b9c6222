--------------------------- MODULE HostTranslator ---------------------------
(***************************************************************************)
(* The kernel module host_gpa_translator: a guest page table dump is       *)
(* written to /proc/host_gpa_input in chunks cut anywhere, and every guest *)
(* frame in it becomes one row of /proc/host_gpa_output.                   *)
(*                                                                         *)
(* A dump is a header line and then rows VA,PFN1,..,PFN5.  Four offsets    *)
(* stand for the bytes of a row (its VA, the fields from the first comma   *)
(* on, the last field, the newline) and two for the header (the number,    *)
(* the newline): these are all the places where a cut makes a difference.  *)
(* full_buf is always a contiguous piece of the dump, from..pos.           *)
(***************************************************************************)
EXTENDS Naturals, Sequences, FiniteSets

CONSTANTS
  Dumps,        \* guest dumps: sequences of rows, a row the sequence of its PFNs
  Qemus,        \* QEMU processes
  NoQemu,       \* qemu_pid or guest_ram_base of 0
  FirstCapacity \* rows of the first allocation (1024)

ASSUME CapacityAssumption == FirstCapacity \in Nat \ {0}
ASSUME DumpsAssumption == \A d \in Dumps : d \in Seq(Seq(Nat)) /\ \A i \in DOMAIN d : d[i] # <<>>
ASSUME NoQemuAssumption == NoQemu \notin Qemus

VARIABLES
  running,    \* the QEMU processes that exist
  qemu_pid, guest_ram_base,
  dump,       \* the dump that is being fed
  pos,        \* *ppos: how much of it has been written
  from,       \* partial_line is the piece from..pos
  pc,         \* where input_write is
  first_line,
  line, last, \* the complete lines of this call that are still to do
  field,      \* the next PFN of the line in process_entry
  guest_pid,
  cached,     \* keys of pfn_translation_hash
  entries,    \* translation_entries, up to entry_count
  capacity,   \* translation_capacity
  faults      \* frames an allocation failed for in this session

config == <<running, qemu_pid, guest_ram_base>>
call == <<pc, first_line, line, last, field>>
stream == <<dump, pos, from>>
table == <<cached, entries, capacity, faults>>
vars == <<config, stream, call, guest_pid, table>>

Row(i) == {dump[i][k] : k \in DOMAIN dump[i]}
Keys == {entries[i].pfn : i \in DOMAIN entries}

LineEnd(i) == 2 + 4 * i
Fields(i) == LineEnd(i) - 2
Size == LineEnd(Len(dump))
\* The line an offset lies in; the header is line 0.
LineOf(o) == (o + 1) \div 4

Init ==
  /\ running = Qemus /\ qemu_pid = NoQemu /\ guest_ram_base = NoQemu
  /\ dump \in Dumps /\ pos = 0 /\ from = 1
  /\ pc = "idle" /\ first_line = FALSE /\ line = 0 /\ last = 0 /\ field = 1
  /\ guest_pid = 0
  /\ cached = {} /\ entries = <<>> /\ capacity = 0 /\ faults = {}

-----------------------------------------------------------------------------
QemuExits(q) ==
  /\ q \in running
  /\ running' = running \ {q}
  /\ UNCHANGED <<qemu_pid, guest_ram_base, stream, call, guest_pid, table>>

\* rmmod and insmod: what the old module held is gone.
Reload ==
  /\ pc = "idle"
  /\ qemu_pid' = NoQemu /\ guest_ram_base' = NoQemu /\ guest_pid' = 0
  /\ cached' = {} /\ entries' = <<>> /\ capacity' = 0 /\ faults' = {}
  /\ pos' = 0 /\ from' = 1
  /\ UNCHANGED <<running, dump, call>>

\* config_write: the base keeps its old value when this process has no region
\* large enough, or is gone.
ConfigWrite(q, found) ==
  /\ pc = "idle"
  /\ qemu_pid' = q
  /\ guest_ram_base' = IF q \in running /\ found THEN q ELSE guest_ram_base
  /\ UNCHANGED <<running, stream, call, guest_pid, table>>

\* A writer opens the input: *ppos is 0 until its first write returns.
OpenInput(d) ==
  /\ pc = "idle"
  /\ dump' = d /\ pos' = 0
  /\ UNCHANGED <<config, from, call, guest_pid, table>>

\* A call that allocates nothing returns -ENOMEM, one that cannot reach QEMU
\* -ESRCH: tee gives up.  The session was already cleared when pos = 0.
Fail ==
  /\ pc' = "failed"
  /\ UNCHANGED <<first_line, line, last, field, pos>>

\* Mutant: the rest after the last newline is dropped.
RestDropped(next, end, kept) == end + 1

\* What partial_line keeps for the next call: what follows the last newline.
Rest(next, end, kept) == IF kept THEN LineEnd(next - 1) + 1 ELSE end + 1

\* input_write up to its loop.  kept: the allocation for the rest succeeded.
InputWrite(n, kept) ==
  LET start == IF pos = 0 THEN 1 ELSE from
      end == pos + n
      first == LineOf(start)    \* the complete lines of the buffer are those
      next == LineOf(end + 1)   \* from first on and before next
      old == IF pos = 0 THEN {} ELSE faults
  IN
  /\ pc = "idle" /\ end <= Size
  /\ IF pos = 0
       THEN cached' = {} /\ entries' = <<>> /\ capacity' = 0
       ELSE UNCHANGED <<cached, entries, capacity>>
  /\ \/ Fail /\ from' = start /\ faults' = old
     \/ /\ first >= next
        /\ from' = start /\ pos' = end /\ faults' = old
        /\ UNCHANGED call
     \/ /\ first < next /\ qemu_pid \notin running
        /\ from' = Rest(next, end, kept) /\ faults' = old
        /\ Fail
     \/ /\ first < next /\ qemu_pid \in running
        /\ from' = Rest(next, end, kept)
        /\ faults' = old \cup (IF ~kept /\ end >= Fields(next) THEN Row(next) ELSE {})
        /\ first_line' = (pos = 0)
        /\ last' = next - 1
        \* What is left of a line whose beginning was lost has too few fields.
        /\ line' = IF first > 0 /\ start > Fields(first) THEN first + 1 ELSE first
        /\ pos' = end /\ field' = 1 /\ pc' = "lines"
  /\ UNCHANGED <<config, dump, guest_pid>>

\* The header of the dump: its number is taken by the call that starts the
\* session, and is a line without a comma for any other.
Header ==
  /\ pc = "lines" /\ line = 0 /\ line <= last
  /\ guest_pid' = IF first_line THEN Len(dump) ELSE guest_pid
  /\ first_line' = FALSE /\ line' = 1
  /\ UNCHANGED <<config, stream, pc, last, field, table>>

\* The row that translate_gpa_to_hpa fills for a frame: through the tables of
\* the process, from the base the module remembers.
Translated(p) == [pfn |-> p, mm |-> qemu_pid, base |-> guest_ram_base]

\* Mutant: an absent level is taken for frame 0.
IsNewWithZero(p) == p \notin cached

\* get_or_translate_pfn: the frames it answers is_new for, and its cache.
IsNew(p) == p # 0 /\ p \notin cached
Remembered(p) == cached \cup {p}

\* add_translation_entry doubles the array when it is full.
Full == Len(entries) >= capacity
Grown == IF ~Full THEN capacity
         ELSE IF capacity = 0 THEN FirstCapacity ELSE 2 * capacity

\* It is called for what the cache took, and may fail itself.
Stored(cacheOk, growOk) == cacheOk /\ (growOk \/ ~Full)

\* process_entry: the next PFN of the row.  cacheOk, growOk: the allocations
\* succeed.
TranslatePfn(cacheOk, growOk) ==
  LET p == dump[line][field]
      added == IsNew(p) /\ Stored(cacheOk, growOk)
      done == field = Len(dump[line])
  IN
  /\ pc = "lines" /\ line \in 1..last
  /\ cached' = IF IsNew(p) /\ cacheOk THEN Remembered(p) ELSE cached
  /\ entries' = IF added THEN Append(entries, Translated(p)) ELSE entries
  /\ capacity' = IF added THEN Grown ELSE capacity
  /\ faults' = IF IsNew(p) /\ ~added THEN faults \cup {p} ELSE faults
  /\ field' = IF done THEN 1 ELSE field + 1
  /\ line' = IF done THEN line + 1 ELSE line
  /\ UNCHANGED <<config, stream, pc, first_line, last, guest_pid>>

Return ==
  /\ pc = "lines" /\ line > last
  /\ pc' = "idle" /\ first_line' = FALSE /\ line' = 0 /\ last' = 0 /\ field' = 1
  /\ UNCHANGED <<config, stream, guest_pid, table>>

\* The failed writer closes the file.
CloseFailed ==
  /\ pc = "failed"
  /\ pc' = "idle" /\ pos' = 0
  /\ UNCHANGED <<config, dump, from, first_line, line, last, field, guest_pid, table>>

Next ==
  \/ \E q \in Qemus : QemuExits(q)
  \/ Reload
  \/ \E q \in Qemus, found \in BOOLEAN : ConfigWrite(q, found)
  \/ \E d \in Dumps : OpenInput(d)
  \/ \E n \in 1..Size, kept \in BOOLEAN : InputWrite(n, kept)
  \/ Header
  \/ \E cacheOk, growOk \in BOOLEAN : TranslatePfn(cacheOk, growOk)
  \/ Return
  \/ CloseFailed

Spec == Init /\ [][Next]_vars

-----------------------------------------------------------------------------
\* The rows have their types and fit the array (add_translation_entry).
TypeOK ==
  /\ running \subseteq Qemus
  /\ qemu_pid \in Qemus \cup {NoQemu} /\ guest_ram_base \in Qemus \cup {NoQemu}
  /\ dump \in Dumps /\ pos \in 0..Size
  /\ pc \in {"idle", "lines", "failed"}
  /\ entries \in Seq([pfn : Nat, mm : Qemus, base : Qemus \cup {NoQemu}])
  /\ capacity \in Nat /\ Len(entries) <= capacity
  /\ guest_pid \in Nat

\* get_or_translate_pfn answers is_new once for a frame, so that
\* add_translation_entry makes at most one row for it, whatever fails.
FrameOnce ==
  \A i, j \in DOMAIN entries : entries[i].pfn = entries[j].pfn => i = j

\* A frame that was seen and has no row is one an allocation failed for: the
\* cache and the array grow together in every other case.
CachedHasRow ==
  /\ Keys \subseteq cached
  /\ cached \subseteq Keys \cup faults

\* However the dump is cut into writes, every frame of a row that was written
\* to its end has a row, unless an allocation failed for it: input_write keeps
\* the beginning of a line for the next call and takes up no line twice.
Covered(i) == Row(i) \ {0} \subseteq Keys \cup faults
WrittenIsDone ==
  pc = "idle" => \A i \in DOMAIN dump : LineEnd(i) <= pos => Covered(i)
=============================================================================
