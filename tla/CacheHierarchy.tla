--------------------------- MODULE CacheHierarchy ---------------------------
(***************************************************************************)
(* The caches cache_simulator_t builds from its knobs: for each core an    *)
(* L1I and an L1D below an L2, all cores below one LLC, none inclusive,    *)
(* the next-line prefetcher on L1D only.  Every cache is a device of       *)
(* DeviceOps with its own geometry and its own statistics.  A request goes *)
(* up level by level until a cache holds the line, and the result tells    *)
(* the caller which level that was: it is what the page walk statistics    *)
(* record for every reference of a walk.                                   *)
(*                                                                         *)
(* An action is one call of request() on the hierarchy, or the reset of    *)
(* its statistics.  process_memref makes several such calls for a trace    *)
(* record, in an order that depends on the TLBs, the page walk caches and  *)
(* rand(); here the calls come in any order.                               *)
(***************************************************************************)
EXTENDS Integers, FiniteSetsExt

CONSTANTS Cores,          \* simulated cores
          Lines,          \* physical line numbers referenced
          Geometry,       \* level -> [sets, assoc]
          ReplacePolicy,  \* knobs.replace_policy
          DataPrefetcher, \* knobs.data_prefetcher is nextline
          Contention      \* the contention options are set

Levels == {"L1I", "L1D", "L2", "LLC"}

ASSUME HierarchyAssumption ==
    /\ Lines \subseteq Nat
    /\ Geometry \in [Levels -> [sets : Nat \ {0}, assoc : Nat \ {0}]]
    /\ DataPrefetcher \in BOOLEAN
    /\ Contention \in BOOLEAN

Dev(lv) == INSTANCE DeviceOps
              WITH NumSets <- Geometry[lv].sets, Assoc <- Geometry[lv].assoc,
                   Policy <- ReplacePolicy

LLC == <<"LLC", "shared">>
Caches == ({"L1I", "L1D", "L2"} \X Cores) \cup {LLC}

Parent(c) == IF c[1] = "L2" THEN LLC ELSE <<"L2", c[2]>>
Children(c) ==
    IF c = LLC THEN {"L2"} \X Cores
    ELSE IF c[1] = "L2" THEN {"L1I", "L1D"} \X {c[2]} ELSE {}

\* What a reference is to the statistics: a trace or page walk reference, a
\* prefetch (of the program or of the prefetcher), or contention traffic.
Kinds == {"demand", "prefetch", "contention"}

\* cache_result_t, as far as a cache returns it.
NOT_FOUND == 0
FOUND_L1 == 1

VARIABLES cache,  \* the device behind each cache
          stat,   \* its cache_stats_t
          answer  \* the last request of the walker: what it got, what was true

vars == <<cache, stat, answer>>

NoCounts == [hits |-> [k \in Kinds |-> 0], misses |-> [k \in Kinds |-> 0], child_hits |-> 0]

----------------------------------------------------------------------------
(* One request.  The caches and the statistics travel together as s.       *)

Holds(s, c, t) == Dev(c[1])!Hit(s.cache[c], t)

\* Mutant: the parent does not hear of prefetches that hit.
CountedDemandOnly(s, c, kind, hit) ==
    LET own == IF hit THEN [s.stat EXCEPT ![c].hits[kind] = @ + 1]
                      ELSE [s.stat EXCEPT ![c].misses[kind] = @ + 1]
    IN [s EXCEPT !.stat = IF hit /\ kind # "prefetch" /\ c # LLC
                          THEN [own EXCEPT ![Parent(c)].child_hits = @ + 1]
                          ELSE own]

\* cache_stats_t::access on the cache itself, child_access on its parent.
Counted(s, c, kind, hit) ==
    LET own == IF hit THEN [s.stat EXCEPT ![c].hits[kind] = @ + 1]
                      ELSE [s.stat EXCEPT ![c].misses[kind] = @ + 1]
    IN [s EXCEPT !.stat = IF hit /\ c # LLC
                          THEN [own EXCEPT ![Parent(c)].child_hits = @ + 1]
                          ELSE own]

\* Mutant: every answer of the parent is one level further away.
GotFromParentAlways(res) == res + 1

\* got_from_parent: one level further away, unless it came from memory.
GotFromParent(res) == IF res = NOT_FOUND THEN res ELSE res + 1

\* The single-block optimisation at the top of request().
FastPath(s, c, t, kind) ==
    LET s1 == Counted(s, c, kind, TRUE)
    IN [s |-> [s1 EXCEPT !.cache[c] = Dev(c[1])!TouchLast(@)], res |-> NOT_FOUND]

\* What the parent is asked from: the miss has been counted.
Missed(s, c, kind) == Counted(s, c, kind, FALSE)

\* The search, the parent's answer up on a miss, the replacement.
SlowPath(s, c, t, kind, up) ==
    LET hit == Holds(s, c, t)
        r   == IF hit THEN [s |-> Counted(s, c, kind, TRUE), res |-> FOUND_L1]
                      ELSE [up EXCEPT !.res = GotFromParent(@)]
    IN [r EXCEPT !.s.cache[c] = Dev(c[1])!Access(@, t)]

RememberLine(r, c, t, w) ==
    [r EXCEPT !.s.cache[c] = Dev(c[1])!Remember(@, t, w)]

\* request() of a cache without a prefetcher, for one line.
Plain(s, c, t, kind, up) ==
    IF t = s.cache[c].last_tag
    THEN FastPath(s, c, t, kind)
    ELSE RememberLine(SlowPath(s, c, t, kind, up), c, t, Dev(c[1])!WayOf(s.cache[c], t))

\* No parent: the data comes from memory.
Memory(s) == [s |-> s, res |-> NOT_FOUND]

RequestLLC(s, t, kind) == Plain(s, LLC, t, kind, Memory(Missed(s, LLC, kind)))

RequestL2(s, core, t, kind) ==
    LET c == <<"L2", core>>
    IN Plain(s, c, t, kind, RequestLLC(Missed(s, c, kind), t, kind))

\* What L2 answers to a miss of the L1 c.
FromL2(s, c, t, kind) == RequestL2(Missed(s, c, kind), c[2], t, kind)

\* The prefetcher of an L1: it requests the next line from the L1 itself.
Prefetch(s, c, t) == Plain(s, c, t + 1, "prefetch", FromL2(s, c, t + 1, "prefetch")).s

Prefetches(s, c, t, kind) ==
    c[1] = "L1D" /\ DataPrefetcher /\ kind # "prefetch" /\ ~Holds(s, c, t)

\* Mutant: the prefetcher runs after the line is remembered.
BlockPrefetchLast(s, c, t, kind) ==
    LET r == RememberLine(SlowPath(s, c, t, kind, FromL2(s, c, t, kind)),
                          c, t, Dev(c[1])!WayOf(s.cache[c], t))
    IN IF Prefetches(s, c, t, kind) THEN [r EXCEPT !.s = Prefetch(@, c, t)] ELSE r

\* One iteration of the loop of an L1: on a demand miss of L1D the prefetcher
\* requests the next line before this one is remembered.
Block(s, c, t, kind) ==
    LET r  == SlowPath(s, c, t, kind, FromL2(s, c, t, kind))
        r2 == IF Prefetches(s, c, t, kind) THEN [r EXCEPT !.s = Prefetch(@, c, t)] ELSE r
    IN RememberLine(r2, c, t, Dev(c[1])!WayOf(s.cache[c], t))

\* request() of an L1 for lines t .. t + n: the fast path for a single line.
RequestL1(s, c, t, n, kind) ==
    IF n = 0 /\ t = s.cache[c].last_tag THEN FastPath(s, c, t, kind)
    ELSE IF n = 0 THEN Block(s, c, t, kind)
    ELSE Block(Block(s, c, t, kind).s, c, t + 1, kind)

\* The caches a request of an L1 goes through, nearest first.
Path(c) == <<c, Parent(c), LLC>>

\* The nearest level that holds the line, as a cache_result_t.
Source(s, c, t) ==
    LET holding == {i \in 1 .. 3 : Holds(s, Path(c)[i], t)}
    IN IF holding = {} THEN NOT_FOUND
       ELSE CHOOSE i \in holding : \A j \in holding : i <= j

----------------------------------------------------------------------------
Now == [cache |-> cache, stat |-> stat]

Become(s) == cache' = s.cache /\ stat' = s.stat

NoAnswer == [res |-> NOT_FOUND, source |-> NOT_FOUND, repeated |-> FALSE]

Init ==
    /\ cache = [c \in Caches |-> Dev(c[1])!InitDevice]
    /\ stat = [c \in Caches |-> NoCounts]
    /\ answer = NoAnswer

\* A trace reference: instructions and their prefetches go to L1I, data to
\* L1D.  It touches one line, or two when it crosses the end of a line.  Of
\* the result only the contention traffic below makes use.
Reference(core, t) ==
    \E l1 \in {"L1I", "L1D"}, n \in 0 .. 1, kind \in {"demand", "prefetch"} :
        /\ Become(RequestL1(Now, <<l1, core>>, t, n, kind).s)
        /\ answer' = NoAnswer

\* make_request: a page walk reference, a read of one entry through L1D whose
\* result is pushed onto the walk's record.  Below guest level 4 its type is
\* read from beyond the end of TRACE_TYPE, and may be of any kind.
WalkReference(core, t, kind) ==
    LET c == <<"L1D", core>>
        r == RequestL1(Now, c, t, 0, kind)
        src == Source(Now, c, t)
    IN /\ Become(r.s)
       /\ answer' = [res |-> r.res, source |-> src,
                     repeated |-> src # NOT_FOUND /\ cache[Path(c)[src]].last_tag = t]

\* The random addresses of the contention options, into L1D or the LLC.
Contend(core, t) ==
    /\ Contention
    /\ \/ Become(RequestL1(Now, <<"L1D", core>>, t, 0, "contention").s)
       \/ Become(RequestLLC(Now, t, "contention").s)
    /\ answer' = NoAnswer

\* cache_stats_t::reset: the slots of hit_statistics and miss_statistics that
\* count contention traffic are beyond the end of its loop.
ResetCounters(s) ==
    [hits |-> [k \in Kinds |-> IF k = "contention" THEN s.hits[k] ELSE 0],
     misses |-> [k \in Kinds |-> IF k = "contention" THEN s.misses[k] ELSE 0],
     child_hits |-> 0]

\* The end of the warm-up phase.
Reset ==
    /\ stat' = [c \in Caches |-> ResetCounters(stat[c])]
    /\ UNCHANGED <<cache, answer>>

Next ==
    \/ \E core \in Cores, t \in Lines :
          \/ Reference(core, t)
          \/ \E kind \in Kinds : WalkReference(core, t, kind)
          \/ Contend(core, t)
    \/ Reset

Spec == Init /\ [][Next]_vars
----------------------------------------------------------------------------
\* "The tokens name the component that served each of the 24 references":
\* what make_request pushes is the nearest level that held the line, and
\* MEMORY when none did.
ResultIsSource == answer.res = answer.source

\* What is recorded when it is not the source: always MEMORY, and only for the
\* line the serving cache itself was asked for last, because the fast path of
\* request() returns before res is set.
WrongOnlyOnRepeat ==
    answer.res # answer.source => answer.res = NOT_FOUND /\ answer.repeated

\* Sums over the counters st of a cache and of its children.
Accesses(st, c, k) == st[c].hits[k] + st[c].misses[k]
ChildMisses(st, c, k) == MapThenSumSet(LAMBDA d : st[d].misses[k], Children(c))
ChildHits(st, c) == MapThenSumSet(LAMBDA p : st[p[1]].hits[p[2]], Children(c) \X Kinds)

\* Every miss of a cache is one access of its parent, for each kind of
\* reference, so that the miss rates of the levels multiply; and the "Child
\* hits" a cache reports, part of the denominator of its total miss rate, grow
\* with the hits its children report, of whatever kind.  An action changes both
\* sides alike, be it a request through three levels with its prefetch or (but
\* for the child hits) the reset at the end of the warm-up.
CountersAgree ==
    [][\A c \in Caches : Children(c) # {} =>
          /\ \A k \in {"demand", "prefetch"} :
                Accesses(stat', c, k) - Accesses(stat, c, k) =
                    ChildMisses(stat', c, k) - ChildMisses(stat, c, k)
          /\ Reset \/ stat'[c].child_hits - stat[c].child_hits =
                        ChildHits(stat', c) - ChildHits(stat, c)]_stat

\* Each first-level cache is a caching device, below a parent that never
\* invalidates: every request is one step of CachingDevice.
L1(lv, core) == INSTANCE CachingDevice
    WITH NumSets <- Geometry[lv].sets, Assoc <- Geometry[lv].assoc,
         Policy <- ReplacePolicy, Blocks <- Lines,
         Prefetcher <- lv = "L1D" /\ DataPrefetcher,
         Inclusive <- FALSE, MaxEvictions <- 0, Flushes <- FALSE,
         dev <- cache[<<lv, core>>]

\* The first-level caches of the hierarchy implement the device whose
\* properties CachingDevice states and CachingDeviceProofs proves.
L1sAreDevices ==
    /\ \A lv \in {"L1I", "L1D"}, core \in Cores : L1(lv, core)!Init
    /\ [][\A lv \in {"L1I", "L1D"}, core \in Cores :
             UNCHANGED cache[<<lv, core>>] \/ L1(lv, core)!Next]_cache
=============================================================================
