-------------------------------- MODULE Tlb --------------------------------
(***************************************************************************)
(* The TLBs of one core: an instruction TLB and a data TLB below a second  *)
(* level, as tlb_simulator_t builds them and asks them for each reference. *)
(* A TLB is a device of DeviceOps with a block per page; an entry also     *)
(* holds the process id, and a tag is compared together with it.  Here the *)
(* two are one number, which lies in the set of its page.  The answer, hit *)
(* or miss, decides whether cache_simulator_t walks the page tables.       *)
(***************************************************************************)
EXTENDS Integers, FiniteSets

CONSTANTS Pids, Pages,  \* process ids and virtual page numbers of the trace
          Stride,       \* keys of a process: a multiple of the numbers of sets
          Geometry,     \* TLB -> [sets, assoc]
          Policy        \* TLB_replace_policy

Tlbs == {"ITLB", "DTLB", "LLTLB"}

ASSUME TlbAssumption ==
    /\ Pids \subseteq Nat /\ Pages \subseteq Nat
    /\ Stride \in Nat
    /\ \A v \in Pages : v + 1 < Stride
    /\ Geometry \in [Tlbs -> [sets : Nat \ {0}, assoc : Nat \ {0}]]
    /\ \A b \in Tlbs : Stride % Geometry[b].sets = 0

Dev(b) == INSTANCE DeviceOps
             WITH NumSets <- Geometry[b].sets, Assoc <- Geometry[b].assoc

VARIABLES tlb,     \* the three devices
          answer,  \* the last reference, what was found, what was true before
          loaded   \* history: the pages of processes asked for

vars == <<tlb, answer, loaded>>

NoAnswer == [kind |-> "prefetch", pid |-> 0, page |-> 0, found |-> TRUE, held |-> FALSE]

Init ==
    /\ tlb = [b \in Tlbs |-> Dev(b)!InitDevice]
    /\ answer = NoAnswer
    /\ loaded = {}

----------------------------------------------------------------------------
\* Mutant: the process id is not looked at.
KeyNoPid(pid, page) == page

Key(pid, page) == page + pid * Stride

Holds(s, b, k) == Dev(b)!Hit(s[b], k)

\* Mutant: the way of the entry that was used before stays remembered.
LoadedStaleWay(s, b, k) ==
    [s EXCEPT ![b] = [Dev(b)!Remember(Dev(b)!Access(@, k), k, s[b].last_way)
                         EXCEPT !.loaded = s[b].loaded]]

\* The search, or the replacement of an entry, and the entry remembered.  Unlike
\* a cache, a TLB does not count its loaded blocks.
Loaded(s, b, k) ==
    [s EXCEPT ![b] = [Dev(b)!Remember(Dev(b)!Access(@, k), k, Dev(b)!WayOf(s[b], k))
                         EXCEPT !.loaded = s[b].loaded]]

\* The fast path: the page of the previous reference, by the same process.
Touched(s, b) == [s EXCEPT ![b] = Dev(b)!TouchLast(@)]

\* request() of the second level: it has no parent.
RequestLL(s, k) ==
    IF k = s["LLTLB"].last_tag
    THEN [tlb |-> Touched(s, "LLTLB"), found |-> TRUE]
    ELSE [tlb |-> Loaded(s, "LLTLB", k), found |-> Holds(s, "LLTLB", k)]

\* Mutant: the fast path gives the answer a cache gives.
RequestFastMiss(s, b, k, crossing) ==
    IF ~crossing /\ k = s[b].last_tag
    THEN [tlb |-> Touched(s, b), found |-> FALSE]
    ELSE IF Holds(s, b, k) THEN [tlb |-> Loaded(s, b, k), found |-> TRUE]
    ELSE LET up == RequestLL(s, k)
         IN [tlb |-> Loaded(up.tlb, b, k), found |-> up.found]

\* request() of a first-level TLB.  A reference that crosses into the next page
\* takes the loop, and leaves it after the first page.
Request(s, b, k, crossing) ==
    IF ~crossing /\ k = s[b].last_tag
    THEN [tlb |-> Touched(s, b), found |-> TRUE]
    ELSE IF Holds(s, b, k) THEN [tlb |-> Loaded(s, b, k), found |-> TRUE]
    ELSE LET up == RequestLL(s, k)
         IN [tlb |-> Loaded(up.tlb, b, k), found |-> up.found]

----------------------------------------------------------------------------
Answer(kind, pid, page, found) ==
    LET k == Key(pid, page)
        l1 == IF kind = "instr" THEN "ITLB" ELSE "DTLB"
    IN [kind |-> kind, pid |-> pid, page |-> page,
        found |-> found, held |-> Holds(tlb, l1, k) \/ Holds(tlb, "LLTLB", k)]

\* An instruction goes to the ITLB, a load or store to the DTLB.
Lookup(kind, pid, page, crossing) ==
    LET b == IF kind = "instr" THEN "ITLB" ELSE "DTLB"
        r == Request(tlb, b, Key(pid, page), crossing)
    IN /\ kind # "prefetch"
       /\ tlb' = r.tlb
       /\ answer' = Answer(kind, pid, page, r.found)
       /\ loaded' = loaded \cup {<<pid, page>>}

\* A software prefetch asks no TLB, and found keeps its first value.
Prefetch(pid, page) ==
    /\ answer' = Answer("prefetch", pid, page, FALSE)
    /\ UNCHANGED <<tlb, loaded>>

Next ==
    \E pid \in Pids, page \in Pages :
        \/ \E kind \in {"instr", "data"}, crossing \in BOOLEAN :
              Lookup(kind, pid, page, crossing)
        \/ Prefetch(pid, page)

Spec == Init /\ [][Next]_vars
----------------------------------------------------------------------------
\* "on each TLB miss" a walk is made: the answer that decides about it is right,
\* a hit when one of the two TLBs on the way holds the page for the process,
\* else a miss; a software prefetch is answered miss whatever they hold.
FoundIsHeld ==
    [][answer'.kind # "prefetch" => (answer'.found <=> answer'.held)]_vars

\* "process ID to differentiate virtual pages that have the same VPN but belong
\* to different processes": a hit needs an earlier reference of this process
\* to this page.
FoundWasLoaded ==
    [][answer'.found => <<answer'.pid, answer'.page>> \in loaded]_vars

Keys == {Key(pid, page) : pid \in Pids, page \in Pages}

\* The entries in use, the loaded blocks a TLB does not count.
InUse(b) ==
    Cardinality({e \in Dev(b)!Sets \X Dev(b)!Ways :
                    tlb[b].tag[e[1]][e[2]] # Dev(b)!Invalid})

\* One TLB as a caching device.
AsDevice(b) == INSTANCE CachingDevice
    WITH NumSets <- Geometry[b].sets, Assoc <- Geometry[b].assoc,
         Blocks <- Keys, Prefetcher <- FALSE, Inclusive <- FALSE,
         MaxEvictions <- 0, Flushes <- FALSE, dev <- [tlb[b] EXCEPT !.loaded = InUse(b)]

\* The copy of request() in tlb.cpp implements the device: each TLB makes only
\* steps of CachingDevice, so what is proved of the device holds of the TLBs.
TlbsAreDevices ==
    /\ \A b \in Tlbs : AsDevice(b)!Init
    /\ [][\A b \in Tlbs : UNCHANGED tlb[b] \/ AsDevice(b)!Next]_tlb
=============================================================================
