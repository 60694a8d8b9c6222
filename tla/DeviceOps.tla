----------------------------- MODULE DeviceOps -----------------------------
(***************************************************************************)
(* caching_device_t, the set-associative storage every cache, TLB and page *)
(* walk cache of the simulator is built on, as operators on the state of   *)
(* one device.  A device is a record                                       *)
(*   tag       the tag in each way of each set, Invalid when empty         *)
(*   ctr       the counter the replacement policy keeps beside each tag    *)
(*   last_tag  the tag of the last reference (the fast path looks here)    *)
(*   last_way  the way that reference used                                 *)
(*   loaded    loaded_blocks, the count behind get_loaded_fraction()       *)
(*   asserts   "failed" once the assertion of the fast path has failed     *)
(* The array index last_block_idx is always the set of last_tag, so it has *)
(* no field of its own.  Statistics are kept in CacheHierarchy.            *)
(***************************************************************************)
EXTENDS Integers, FiniteSetsExt

CONSTANTS NumSets,  \* blocks_per_way
          Assoc,    \* associativity
          Policy    \* which subclass: cache_lru_t, cache_t (LFU), cache_fifo_t

\* caching_device_t::init refuses an empty device; a mask is a remainder
\* because it refuses a blocks_per_way that is not a power of two.
ASSUME GeometryAssumption ==
    /\ NumSets \in Nat \ {0}
    /\ Assoc \in Nat \ {0}
    /\ Policy \in {"LRU", "LFU", "FIFO"}

Sets == 0 .. NumSets - 1
Ways == 0 .. Assoc - 1
Invalid == -1
NoWay == -1

SetOf(t) == t % NumSets

Device == [tag : [Sets -> [Ways -> Nat \cup {Invalid}]],
           ctr : [Sets -> [Ways -> Nat]],
           last_tag : Nat \cup {Invalid},
           last_way : Ways,
           loaded : Nat,
           asserts : {"hold", "failed"}]

\* Nothing valid, every counter 0; the FIFO policy puts its pointer on way 0.
InitDevice ==
    [tag |-> [s \in Sets |-> [w \in Ways |-> Invalid]],
     ctr |-> [s \in Sets |->
                 [w \in Ways |-> IF Policy = "FIFO" /\ w = 0 THEN 1 ELSE 0]],
     last_tag |-> Invalid,
     last_way |-> 0,
     loaded |-> 0,
     asserts |-> "hold"]

----------------------------------------------------------------------------
(* Replacement policies: tg and c are the tags and counters of one set.     *)

\* Mutant: every other counter grows, not only those up to the accessed one.
LruAccessAll(c, w) ==
    IF c[w] = 0 THEN c ELSE [v \in Ways |-> IF v = w THEN 0 ELSE c[v] + 1]

\* Mutant: a counter equal to the accessed one stays.
LruAccessSmaller(c, w) ==
    IF c[w] = 0
    THEN c
    ELSE [v \in Ways |-> IF v = w THEN 0
                         ELSE IF c[v] < c[w] THEN c[v] + 1 ELSE c[v]]

LruAccess(c, w) ==
    IF c[w] = 0
    THEN c
    ELSE [v \in Ways |-> IF v = w THEN 0
                         ELSE IF c[v] <= c[w] THEN c[v] + 1 ELSE c[v]]

\* access_update: what a reference to way w does to the counters of the set.
AccessUpdate(c, w) ==
    IF Policy = "LRU" THEN LruAccess(c, w)
    ELSE IF Policy = "LFU" THEN [c EXCEPT ![w] = @ + 1]
    ELSE c

\* LRU and LFU take the first empty way, else the first way with the largest
\* (smallest) counter.  FIFO takes the first way whose counter is 1.
Candidates(tg, c) ==
    LET empty == {w \in Ways : tg[w] = Invalid}
    IN IF Policy = "FIFO" THEN {w \in Ways : c[w] = 1}
       ELSE IF empty # {} THEN empty
       ELSE IF Policy = "LRU" THEN {w \in Ways : \A v \in Ways : c[v] <= c[w]}
       ELSE {w \in Ways : \A v \in Ways : c[w] <= c[v]}

\* The way replace_which_way returns; -1 when the FIFO pointer is gone.
Victim(tg, c) ==
    IF Candidates(tg, c) = {} THEN NoWay ELSE Min(Candidates(tg, c))

\* Mutant: FIFO sets the next pointer and forgets to clear the old one.
ReplacedKeepPointer(c, w) == [c EXCEPT ![(w + 1) % Assoc] = 1]

\* The counters replace_which_way leaves behind when it returns w.
Replaced(c, w) ==
    IF Policy = "LRU" THEN [c EXCEPT ![w] = 1]
    ELSE IF Policy = "LFU" THEN [c EXCEPT ![w] = 0]
    ELSE [c EXCEPT ![w] = 0, ![(w + 1) % Assoc] = 1]

----------------------------------------------------------------------------
(* One block of a reference.                                                *)

HitWays(d, t) == {w \in Ways : d.tag[SetOf(t)][w] = t}
Hit(d, t) == HitWays(d, t) # {}

\* The way the reference ends up using.
WayOf(d, t) ==
    IF Hit(d, t) THEN Min(HitWays(d, t))
                 ELSE Victim(d.tag[SetOf(t)], d.ctr[SetOf(t)])

\* The fast path: it asserts that the remembered slot still holds last_tag and
\* calls access_update on that slot.
TouchLast(d) ==
    LET s == SetOf(d.last_tag)
    IN [d EXCEPT !.ctr[s] = AccessUpdate(@, d.last_way),
                 !.asserts = IF d.tag[s][d.last_way] = d.last_tag THEN @ ELSE "failed"]

\* Mutant: every fill counts as a newly loaded block.
AccessCountAll(d, t) ==
    LET s == SetOf(t)
        w == WayOf(d, t)
    IN IF Hit(d, t)
       THEN [d EXCEPT !.ctr[s] = AccessUpdate(@, w)]
       ELSE [d EXCEPT !.tag[s][w] = t,
                      !.ctr[s] = AccessUpdate(Replaced(@, w), w),
                      !.loaded = @ + 1]

\* Search, replacement on a miss, access_update.
Access(d, t) ==
    LET s == SetOf(t)
        w == WayOf(d, t)
    IN IF Hit(d, t)
       THEN [d EXCEPT !.ctr[s] = AccessUpdate(@, w)]
       ELSE [d EXCEPT !.tag[s][w] = t,
                      !.ctr[s] = AccessUpdate(Replaced(@, w), w),
                      !.loaded = IF d.tag[s][w] = Invalid THEN @ + 1 ELSE @]

Remember(d, t, w) == [d EXCEPT !.last_tag = t, !.last_way = w]

\* Mutant: an invalidated block stays remembered.
InvalidatedKeepLast(d, V) ==
    [d EXCEPT !.tag = [s \in Sets |-> [w \in Ways |->
                          IF d.tag[s][w] \in V THEN Invalid ELSE d.tag[s][w]]]]

\* The invalidate() calls a parent makes for the blocks of V.
Invalidated(d, V) ==
    [d EXCEPT !.tag = [s \in Sets |-> [w \in Ways |->
                          IF d.tag[s][w] \in V THEN Invalid ELSE d.tag[s][w]]],
              !.ctr = [s \in Sets |-> [w \in Ways |->
                          IF d.tag[s][w] \in V THEN 0 ELSE d.ctr[s][w]]],
              !.last_tag = IF @ \in V THEN Invalid ELSE @]

\* cache_t::flush of the blocks of V: it always forgets the last tag.
Flushed(d, V) == [Invalidated(d, V) EXCEPT !.last_tag = Invalid]

\* The valid blocks.
Resident(d) == {d.tag[s][w] : s \in Sets, w \in Ways} \ {Invalid}
=============================================================================
