------------------------------ MODULE PageWalk ------------------------------
(***************************************************************************)
(* The nested page walk of a TLB miss, as cache_simulator_t performs it on *)
(* the two dumps it has loaded: for each guest level the host walk of the  *)
(* guest table's page and the read of the guest entry, then the host walk  *)
(* of the data page.  Two sets of three page walk caches (PWC), shared by  *)
(* all cores, cut the walk short.  What a reference of the walk finds in   *)
(* the caches is in CacheHierarchy; here it is the token REF and the       *)
(* address that is read.  A page is a number; a page table has Fanout      *)
(* entries (512), and an address is a page times Fanout plus an entry.     *)
(***************************************************************************)
EXTENDS Integers, Sequences, FiniteSetsExt

CONSTANTS Fanout,        \* entries of a page table (2^PAGE_INDEX_SIZE)
          Grain,         \* PWC_ENTRY_SIZE, the block size of the PWCs
          PwcGeometry,   \* PWC -> [sets, assoc], from PWC_SIZE and PWC_ASSOC
          ReplacePolicy, \* knobs.replace_policy
          GuestTable,    \* page_table: virtual page -> row
          HostTable      \* host_page_table: guest physical page -> row

NumLevels == 4
NumPwc == 3
Levels == 1 .. NumLevels

IsTable(T) == \A a \in DOMAIN T : a \in Nat /\ T[a] \in [pe : [Levels -> Nat], pa : Nat]

ASSUME WalkAssumption ==
    /\ Fanout \in Nat \ {0}
    /\ Grain \in Nat \ {0}
    /\ PwcGeometry \in [1 .. NumPwc -> [sets : Nat \ {0}, assoc : Nat \ {0}]]
    /\ IsTable(GuestTable) /\ IsTable(HostTable)

Pwc(i) == INSTANCE DeviceOps
             WITH NumSets <- PwcGeometry[i].sets, Assoc <- PwcGeometry[i].assoc,
                  Policy <- ReplacePolicy

VARIABLES gpwc,   \* gpw_caches, keyed by virtual pages
          pwc,    \* pw_caches, keyed by guest physical pages
          walk,   \* the last walk: its page and page_walk_res
          walked  \* history: the pages walked before it

walkVars == <<gpwc, pwc, walk, walked>>

NoWalk == [va |-> -1, tokens |-> <<>>, flag |-> "none"]

WalkInit ==
    /\ gpwc = [i \in 1 .. NumPwc |-> Pwc(i)!InitDevice]
    /\ pwc = [i \in 1 .. NumPwc |-> Pwc(i)!InitDevice]
    /\ walk = NoWalk
    /\ walked = {}

----------------------------------------------------------------------------
(* Page walk caches.                                                        *)

\* The pages below one entry of a table of level i: 9 bits for each level
\* below it.
Span(i) == <<Fanout * Fanout * Fanout, Fanout * Fanout, Fanout, 1>>[i]
Index(a, i) == (a \div Span(i)) % Fanout

\* Mutant: the tag of the level above.
PwcTagAbove(a, i) == a \div (Fanout * Span(i) * Grain)

\* The address given to PWC i is the number of the region; the device takes
\* the bits of its block size off before it compares.
PwcTag(a, i) == a \div (Span(i) * Grain)

\* request() of PWC i: it has no parent, and the fast path reports no hit.
Asked(d, i, t) ==
    IF t = d.last_tag
    THEN [dev |-> Pwc(i)!TouchLast(d), found |-> FALSE]
    ELSE [dev |-> Pwc(i)!Remember(Pwc(i)!Access(d, t), t, Pwc(i)!WayOf(d, t)),
          found |-> Pwc(i)!Hit(d, t)]

\* Mutant: the first PWC that reports a hit counts.
LookFirst(pw, a) ==
    LET r == [i \in 1 .. NumPwc |-> Asked(pw[i], i, PwcTag(a, i))]
        found == {i \in 1 .. NumPwc : r[i].found}
    IN [pw |-> [i \in 1 .. NumPwc |-> r[i].dev],
        level |-> IF found = {} THEN 0 ELSE Min(found)]

\* Every PWC is asked; the deepest one that reports a hit counts.
Look(pw, a) ==
    LET r == [i \in 1 .. NumPwc |-> Asked(pw[i], i, PwcTag(a, i))]
    IN [pw |-> [i \in 1 .. NumPwc |-> r[i].dev],
        level |-> Max({0} \cup {i \in 1 .. NumPwc : r[i].found})]

----------------------------------------------------------------------------
(* A walk in progress w: the host PWCs and the tokens pushed so far.        *)

\* A loop over the levels of a table.
InTurn(Level(_, _), w) == Level(Level(Level(Level(w, 1), 2), 3), 4)

Push(w, what, n) ==
    [w EXCEPT !.tokens = @ \o [k \in 1 .. n |-> [what |-> what, at |-> 0]]]

\* make_request: read the entry for a in the table of level l at base.
MakeRequest(w, base, a, l) ==
    [w EXCEPT !.tokens = Append(@, [what |-> "REF", at |-> base + Index(a, l)])]

HostLevel(w, hit, row, a, h) ==
    IF hit < h THEN MakeRequest(w, row.pe[h] * Fanout, a, h)
    ELSE IF hit = h THEN Push(w, "PWC", 1) ELSE Push(w, "ZERO", 1)

HostLevels(w, hit, row, a) == InTurn(LAMBDA x, h : HostLevel(x, hit, row, a, h), w)

\* Mutant: the guest entry is recorded before the host walk that finds it.
OnePwAtHostEarly(w, a, entry) ==
    IF a \notin DOMAIN HostTable THEN w
    ELSE LET row  == HostTable[a]
             look == Look(w.pwc, a)
             w1   == [w EXCEPT !.pwc = look.pw]
         IN HostLevels(MakeRequest(w1, row.pa * Fanout + entry, 0, 1), look.level, row, a)

\* Mutant: a page without a row skips the host walk and still reads the entry.
OnePwAtHostEntryOnly(w, a, entry) ==
    IF a \notin DOMAIN HostTable THEN MakeRequest(w, a * Fanout + entry, 0, 1)
    ELSE LET row  == HostTable[a]
             look == Look(w.pwc, a)
             w1   == [w EXCEPT !.pwc = look.pw]
             w2   == HostLevels(w1, look.level, row, a)
         IN MakeRequest(w2, row.pa * Fanout + entry, 0, 1)

\* one_pw_at_host: the host walk of guest page a, then the read of the entry
\* in the page it translates to.  A page without a row leaves no trace.
OnePwAtHost(w, a, entry) ==
    IF a \notin DOMAIN HostTable THEN w
    ELSE LET row  == HostTable[a]
             look == Look(w.pwc, a)
             w1   == [w EXCEPT !.pwc = look.pw]
             w2   == HostLevels(w1, look.level, row, a)
         IN MakeRequest(w2, row.pa * Fanout + entry, 0, 1)

GuestLevel(w, hit, va, g) ==
    IF hit < g THEN OnePwAtHost(w, GuestTable[va].pe[g], Index(va, g))
    ELSE IF hit = g THEN Push(Push(w, "ZERO", NumLevels), "PWC", 1)
    ELSE Push(w, "ZERO", NumLevels + 1)

GuestLevels(w, hit, va) == InTurn(LAMBDA x, g : GuestLevel(x, hit, va, g), w)

\* The last host walk asks no PWC.
FinalHostWalk(w, a) ==
    InTurn(LAMBDA x, h : MakeRequest(x, HostTable[a].pe[h] * Fanout, a, h), w)

\* A TLB miss of page va, when both lookups of process_memref succeed.
TlbMiss(va) ==
    LET look == Look(gpwc, va)
        w0   == [pwc |-> pwc, tokens |-> <<>>]
        w1   == GuestLevels(w0, look.level, va)
        w2   == FinalHostWalk(w1, GuestTable[va].pa)
    IN /\ GuestTable[va].pa \in DOMAIN HostTable
       /\ gpwc' = look.pw
       /\ pwc' = w2.pwc
       /\ walk' = [va |-> va, tokens |-> w2.tokens, flag |-> "RANGE_HIT"]
       /\ walked' = IF walk = NoWalk THEN {} ELSE walked \cup {walk.va}

WalkNext == \E va \in DOMAIN GuestTable : TlbMiss(va)

WalkSpec == WalkInit /\ [][WalkNext]_walkVars
----------------------------------------------------------------------------
(* parse_walk_stats.py names token k by its place in a walk of 4 guest and 4  *)
(* host levels: labels_for(4, 4) counts through G1H1 .. G1H4 G1 G2H1 .. UDH4. *)
GuestLevelOf(k) == (k - 1) \div (NumLevels + 1) + 1
HostLevelOf(k) == ((k - 1) % (NumLevels + 1)) + 1

\* The entry a hardware walker reads for label k: an entry of the host tables
\* on the way to a guest page, or the guest entry in the page found there.
EntryOf(va, k) ==
    LET g == GuestLevelOf(k)
        h == HostLevelOf(k)
        a == IF g <= NumLevels THEN GuestTable[va].pe[g] ELSE GuestTable[va].pa
    IN IF h <= NumLevels THEN HostTable[a].pe[h] * Fanout + Index(a, h)
       ELSE HostTable[a].pa * Fanout + Index(va, g)

\* The walks the parser keeps (WALK_SHAPES: 24 tokens, or 15 for 2 MB pages)
\* are those it can name: a walk that lost the references of a guest level is
\* never taken for one, and a reference that was made is the one its label
\* says.
ParsedWalksAlign ==
    Len(walk.tokens) \in {24, 15} =>
        /\ Len(walk.tokens) = 24
        /\ \A k \in 1 .. 24 :
              walk.tokens[k].what = "REF" => walk.tokens[k].at = EntryOf(walk.va, k)

\* The guest level of a token of a guest PWC hit.
GuestHits ==
    {GuestLevelOf(k) : k \in {j \in DOMAIN walk.tokens :
        walk.tokens[j].what = "PWC" /\ HostLevelOf(j) = NumLevels + 1}}

\* "PWC = page-walk-cache hit at that level": a guest PWC hit is the return to
\* something walked before, but only to a group of Grain regions next to each
\* other, since the tag has lost the bits of Grain.
HitsRevisitGroup ==
    \A g \in GuestHits : \E u \in walked :
        u \div (Span(g) * Grain) = walk.va \div (Span(g) * Grain)

\* "if found in the PWC, indicate PWC_LAT": the walk records PWC for the
\* deepest guest PWC that holds the region, of those that were not asked for
\* it in the walk before: their fast path says not found.
HeldIsReported ==
    [][\A va \in DOMAIN GuestTable : TlbMiss(va) =>
          LET held == {i \in 1 .. NumPwc : /\ Pwc(i)!Hit(gpwc[i], PwcTag(va, i))
                                          /\ gpwc[i].last_tag # PwcTag(va, i)}
              missing == {g \in Levels : GuestTable[va].pe[g] \notin DOMAIN HostTable}
          IN held # {} /\ missing = {} =>
                walk'.tokens[(NumLevels + 1) * Max(held)].what = "PWC"]_walkVars

\* "performs the complete 24-reference nested page walk": a walk is short only
\* by the guest tables it really reads that have no row in the host's dump, by
\* the host walk and the guest entry of each.
ShortByMissingRows ==
    walk # NoWalk =>
        LET read == {g \in Levels : \A h \in GuestHits : h < g}
            lost == {g \in read : GuestTable[walk.va].pe[g] \notin DOMAIN HostTable}
        IN Len(walk.tokens) = 24 - (NumLevels + 1) * Cardinality(lost)
=============================================================================
