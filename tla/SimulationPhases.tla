-------------------------- MODULE SimulationPhases --------------------------
(***************************************************************************)
(* The phases of a simulation: cache_simulator_t::process_memref skips     *)
(* -skip_refs records, warms the caches up, simulates -sim_refs references *)
(* and drops the rest.  The TLB simulator it calls for every reference has *)
(* its own copies of the three knobs and counts them down by itself.  What *)
(* a reference does to the caches and to the page walk statistics is in    *)
(* CacheHierarchy and PageWalk; here a statistic is the set of trace       *)
(* records it covers.                                                      *)
(***************************************************************************)
EXTENDS Integers, FiniteSets

CONSTANTS SkipRefs, WarmupRefs, SimRefs, \* the values a knob may be given
          Width,       \* the counters wrap at this number (2^64)
          MaxRecords   \* length of the traces that are considered

ASSUME PhasesAssumption ==
    /\ Width \in Nat \ {0}
    /\ SkipRefs \subseteq 0 .. Width - 1
    /\ WarmupRefs \subseteq 0 .. Width - 1
    /\ SimRefs \subseteq 0 .. Width - 1
    /\ MaxRecords \in Nat

VARIABLES given,   \* the knobs of this simulation, and in fraction whether
                   \* -warmup_fraction is one of them (then warm is 0)
          pos,     \* records read so far
          knobs,   \* skip_refs, warmup_refs, sim_refs of the cache simulator
          warmed,  \* is_warmed_up: "no", or which of its two callers ended it
          tlb,     \* the same knobs of the TLB simulator
          loaded,  \* "yes": the LLC holds the fraction of -warmup_fraction
          walks,   \* records in hm_full_statistic
          counts,  \* records in the cache statistics
          tcounts, \* records in the TLB statistics
          full,    \* history: records simulated to the end of the function
          early,   \* history: records that ended between the two checks
          end,     \* history: the last record of the warm-up
          tend     \* history: the last record of the warm-up of the TLBs

history == <<full, early, end, tend>>
stats == <<walks, counts, tcounts>>
phasesVars == <<given, pos, knobs, warmed, tlb, loaded, stats, history>>

Knobs == [skip : 0 .. Width - 1, warm : 0 .. Width - 1, sim : 0 .. Width - 1]
InitKnobs == [skip |-> given.skip, warm |-> given.warm, sim |-> given.sim]
Given == [skip : SkipRefs, warm : WarmupRefs, sim : SimRefs, fraction : {"yes", "no"}]

\* A uint64_t going down: below 0 it wraps.
Dec(n) == IF n = 0 THEN Width - 1 ELSE n - 1

PhasesInit ==
    /\ given \in {g \in Given : g.fraction = "yes" => g.warm = 0}
    /\ pos = 0
    /\ knobs = InitKnobs
    /\ warmed = "no"
    /\ tlb = InitKnobs
    /\ loaded = "no"
    /\ walks = {} /\ counts = {} /\ tcounts = {}
    /\ full = {} /\ early = {} /\ end = 0 /\ tend = 0

----------------------------------------------------------------------------
(* check_warmed_up: it counts the reference it is asked about.              *)

\* Mutant: the counter is not touched by the check.
WarmAfterCheckPure(k) == k

WarmAfterCheck(k) == IF k.warm > 0 THEN [k EXCEPT !.warm = @ - 1] ELSE k

\* Whether the call ends the warm-up, ld being "yes" when the LLC is loaded.
Checked(k, ld) ==
    \/ given.fraction = "yes" /\ ld = "yes"
    \/ k.warm = 1

----------------------------------------------------------------------------
(* tlb_simulator_t::process_memref for record n; used tells whether it      *)
(* looks at a TLB for this record.                                          *)

TlbActive == tlb.skip = 0 /\ ~(tlb.warm = 0 /\ tlb.sim = 0)

TlbStep(n, used) ==
    /\ tlb' = IF tlb.skip > 0 THEN [tlb EXCEPT !.skip = @ - 1]
              ELSE IF ~TlbActive THEN tlb
              ELSE IF tlb.warm > 0 THEN [tlb EXCEPT !.warm = @ - 1]
              ELSE [tlb EXCEPT !.sim = Dec(@)]
    /\ tcounts' = IF ~TlbActive THEN tcounts
                  ELSE IF tlb.warm = 1 THEN {}
                  ELSE IF used THEN tcounts \cup {n} ELSE tcounts
    /\ tend' = IF TlbActive /\ tlb.warm = 1 THEN n ELSE tend

----------------------------------------------------------------------------
(* cache_simulator_t::process_memref for the next record.                   *)

Read == pos < MaxRecords /\ pos' = pos + 1 /\ UNCHANGED given

Skip ==
    /\ Read
    /\ knobs.skip > 0
    /\ knobs' = [knobs EXCEPT !.skip = @ - 1]
    /\ UNCHANGED <<warmed, tlb, loaded, stats, history>>

\* The state after the check at the top: Entered are the records it lets in.
Top == IF warmed = "no" THEN WarmAfterCheck(knobs) ELSE knobs
TopWarmed == IF warmed = "no" /\ Checked(knobs, loaded) THEN "top" ELSE warmed
TopDone ==
    /\ knobs' = Top
    /\ warmed' = TopWarmed
    /\ end' = IF TopWarmed # warmed THEN pos ELSE end

\* Mutant: one reference too few.
NothingLeftOne == knobs.warm = 0 /\ given.fraction = "no" /\ knobs.sim <= 1

NothingLeft == knobs.warm = 0 /\ given.fraction = "no" /\ knobs.sim = 0

Entered ==
    /\ Read
    /\ knobs.skip = 0
    /\ ~NothingLeft
    /\ ~(TopWarmed # "no" /\ knobs.sim = 0)

\* The references after the simulated ones are dropped.
Drop ==
    /\ Read
    /\ knobs.skip = 0
    /\ \/ NothingLeft /\ UNCHANGED <<knobs, warmed, end>>
       \/ ~NothingLeft /\ TopWarmed # "no" /\ knobs.sim = 0 /\ TopDone
    /\ UNCHANGED <<tlb, loaded, stats, full, early, tend>>

\* A marker ends after the top.
Marker ==
    /\ Entered
    /\ TopDone
    /\ early' = early \cup {pos + 1}
    /\ UNCHANGED <<tlb, loaded, stats, full, tend>>

\* A record without a translation, or that has no address (thread exits and
\* flushes), ends after the TLB has seen it.
Untranslated ==
    /\ Entered
    /\ TopDone
    /\ \E used \in BOOLEAN : TlbStep(pos + 1, used)
    /\ early' = early \cup {pos + 1}
    /\ UNCHANGED <<loaded, walks, counts, full>>

\* Mutant: hm_full_statistic is not cleared.
TailKeepWalks(n, missed, ld) ==
    LET k == WarmAfterCheck(Top)
        over == TopWarmed = "no" /\ Checked(Top, ld)
    IN /\ knobs' = IF over THEN k
                   ELSE [(IF TopWarmed = "no" THEN k ELSE Top) EXCEPT !.sim = Dec(@)]
       /\ warmed' = IF over THEN "tail" ELSE TopWarmed
       /\ end' = IF over THEN n ELSE IF TopWarmed # warmed THEN n - 1 ELSE end
       /\ counts' = IF over THEN {} ELSE counts \cup {n}
       /\ walks' = IF missed THEN walks \cup {n} ELSE walks

\* The end of process_memref: check_warmed_up again, reset or count down.
MemrefTail(n, missed, ld) ==
    LET k == WarmAfterCheck(Top)
        over == TopWarmed = "no" /\ Checked(Top, ld)
    IN /\ knobs' = IF over THEN k
                   ELSE [(IF TopWarmed = "no" THEN k ELSE Top) EXCEPT !.sim = Dec(@)]
       /\ warmed' = IF over THEN "tail" ELSE TopWarmed
       /\ end' = IF over THEN n ELSE IF TopWarmed # warmed THEN n - 1 ELSE end
       /\ counts' = IF over THEN {} ELSE counts \cup {n}
       /\ walks' = IF over THEN {} ELSE IF missed THEN walks \cup {n} ELSE walks

\* A reference that is simulated: the TLB, a walk when it says miss, the
\* caches, and the end of the function.  A TLB simulator that skips or drops
\* says hit; for a software prefetch it looks at no TLB and says miss.
Simulate ==
    /\ Entered
    /\ \E used, missed \in BOOLEAN, ld \in {loaded, "yes"} :
          /\ missed => TlbActive
          /\ TlbActive /\ ~used => missed
          /\ TlbStep(pos + 1, used)
          /\ loaded' = ld
          /\ MemrefTail(pos + 1, missed, ld)
    /\ full' = full \cup {pos + 1}
    /\ UNCHANGED early

PhasesNext == Skip \/ Drop \/ Marker \/ Untranslated \/ Simulate

PhasesSpec == PhasesInit /\ [][PhasesNext]_phasesVars
----------------------------------------------------------------------------
PhasesTypeOK ==
    /\ given \in Given
    /\ pos \in Nat
    /\ knobs \in Knobs /\ tlb \in Knobs
    /\ warmed \in {"no", "top", "tail"}
    /\ loaded \in {"no", "yes"}
    /\ walks \subseteq 1 .. pos /\ counts \subseteq 1 .. pos /\ tcounts \subseteq 1 .. pos
    /\ full \subseteq 1 .. pos /\ early \subseteq 1 .. pos
    /\ end \in 0 .. pos /\ tend \in 0 .. pos

\* "reset cache stats when warming up is completed" is true of a warm-up that
\* ends in the second of the two checks: no statistic covers a record of it.
\* A warm-up by -warmup_fraction always ends there; one by -warmup_refs may
\* end in the first check, which resets nothing.
ClearedAtTail ==
    /\ warmed = "tail" => \A n \in walks \cup counts : n > end
    /\ given.fraction = "yes" => warmed # "top"

\* How long a warm-up counted in references lasts: check_warmed_up counts a
\* reference that is simulated twice, and a marker or a reference without a
\* translation once.
WarmupAccounting ==
    given.warm > 0 /\ warmed = "no" =>
        knobs.warm + 2 * Cardinality(full) + Cardinality(early) = given.warm

\* The TLB simulator clears its statistics when its own warm-up is over.
TlbClearedAtWarmup ==
    tlb.warm = 0 /\ given.warm > 0 => \A n \in tcounts : n > tend

\* The references that count against -sim_refs: the one that ends the warm-up
\* does not.
Charged == {n \in full : ~(warmed = "tail" /\ n = end)}

\* A record is dropped, and one simulated after the warm-up, by what is charged.
DropsWhenCharged ==
    /\ Drop => Cardinality(Charged) = given.sim
    /\ Simulate /\ warmed # "no" => Cardinality(Charged) # given.sim

\* "the references following the simulated ones are dropped": from the warm-up
\* on, a reference is dropped when -sim_refs references have been charged, and
\* not before; those of the warm-up are charged as well, and when they are more
\* than -sim_refs the counter has wrapped and nothing is dropped any more.
SimRefsCharged == [][DropsWhenCharged]_phasesVars
=============================================================================
