--------------------------- MODULE CachingDevice ---------------------------
(***************************************************************************)
(* One caching_device_t behind its interface: request(), invalidate() and  *)
(* flush(), with the next-line prefetcher attached or not.  The simulator  *)
(* is single-threaded, so each call is one action.  What the rest of the   *)
(* hierarchy does is the environment: while a miss is served, and between  *)
(* two calls, an inclusive parent may invalidate blocks of this device.    *)
(***************************************************************************)
EXTENDS DeviceOps

CONSTANTS Blocks,      \* block numbers (addresses without the offset) referenced
          Prefetcher,  \* TRUE: the device has the next-line prefetcher
          Inclusive,   \* TRUE: the parent is inclusive of this device
          MaxEvictions,\* blocks an inclusive parent evicts for one miss
          Flushes      \* TRUE: the trace has cache flush records

ASSUME DeviceAssumption ==
    /\ Blocks \subseteq Nat
    /\ Prefetcher \in BOOLEAN
    /\ Inclusive \in BOOLEAN
    /\ MaxEvictions \in Nat
    /\ Flushes \in BOOLEAN

VARIABLE dev

\* What an inclusive parent may invalidate while it serves a miss: not the
\* blocks of keep, the one it is serving and the one it served just before.
ParentEvictions(missed, keep) ==
    IF missed /\ Inclusive
    THEN {V \in SUBSET (Blocks \ keep) : Cardinality(V) <= MaxEvictions}
    ELSE {{}}

\* The device when the search for t is over: on a miss the parent has served
\* the block, and ev is what it invalidated meanwhile.
AfterParent(d, t, ev) == IF Hit(d, t) THEN d ELSE Invalidated(d, ev)

\* prefetcher_t::prefetch: a request for the next block.  It is a prefetch
\* itself, so it goes no further.
PrefetchNext(d, t, ev) ==
    LET n == t + 1
        d0 == AfterParent(d, n, ev)
    IN IF n = d.last_tag THEN TouchLast(d)
                         ELSE Remember(Access(d0, n), n, WayOf(d0, n))

\* One iteration of the loop of request() for block t of a reference that is
\* a prefetch itself unless demand: serve the block, prefetch the next one
\* after a miss, and only then remember t.
RequestBlock(d, t, demand, ev, pev) ==
    LET d0 == AfterParent(d, t, ev)
        d1 == Access(d0, t)
        d2 == IF ~Hit(d, t) /\ demand /\ Prefetcher
              THEN PrefetchNext(d1, t, pev) ELSE d1
    IN Remember(d2, t, WayOf(d0, t))

\* Its outcomes, over what the parent may invalidate meanwhile.
BlockOutcomes(d, t, demand) ==
    {RequestBlock(d, t, demand, ev, pev) :
        ev \in ParentEvictions(~Hit(d, t), {t}),
        pev \in ParentEvictions(~Hit(d, t) /\ demand /\ Prefetcher, {t, t + 1})}

Init == dev = InitDevice

\* request() of a reference inside one block: the fast path, or the loop.
Request(t, demand) ==
    \/ /\ t = dev.last_tag
       /\ dev' = TouchLast(dev)
    \/ /\ t # dev.last_tag
       /\ dev' \in BlockOutcomes(dev, t, demand)

\* request() of a reference that crosses into the next block (a reference is
\* at most one line long, so it never spans three).
RequestCrossing(t, demand) ==
    \E d \in BlockOutcomes(dev, t, demand) :
        dev' \in BlockOutcomes(d, t + 1, demand)

\* invalidate() called by the parent on behalf of another child.
Invalidate(t) ==
    /\ Inclusive
    /\ dev' = Invalidated(dev, {t})

\* flush() of a range of one or two blocks.
Flush(t) ==
    /\ Flushes
    /\ \E V \in {{t}, {t, t + 1}} : dev' = Flushed(dev, V)

\* A FIFO set whose pointer is gone makes replace_which_way return -1, and
\* the reference then indexes outside its set; nothing is claimed of it.
VictimDefined(t) ==
    \A u \in {t, t + 1, t + 2} :
        Candidates(dev.tag[SetOf(u)], dev.ctr[SetOf(u)]) # {}

Next ==
    \E t \in Blocks :
        \/ VictimDefined(t) /\ \E demand \in BOOLEAN :
              Request(t, demand) \/ RequestCrossing(t, demand)
        \/ Invalidate(t)
        \/ Flush(t)

Spec == Init /\ [][Next]_dev
----------------------------------------------------------------------------
TypeOK == dev \in Device

\* "Make sure last_tag is properly in sync": the assertion of the fast path of
\* caching_device_t::request never fails, not even in the nested request of
\* the prefetcher, and between two calls the remembered way holds last_tag.
LastTagInSync ==
    /\ dev.asserts = "hold"
    /\ dev.last_tag # Invalid =>
          dev.tag[SetOf(dev.last_tag)][dev.last_way] = dev.last_tag

\* The search of request() and invalidate() may stop at the first match: a
\* block is in no set but its own, and in one way of it at most.
BlockInOnePlace ==
    \A s \in Sets, w \in Ways :
        dev.tag[s][w] # Invalid =>
            /\ SetOf(dev.tag[s][w]) = s
            /\ \A v \in Ways : dev.tag[s][v] = dev.tag[s][w] => v = w

\* cache_lru_t: "The count value 0 means the most recent access": at most one
\* valid block of a set has counter 0.
OneMostRecent ==
    Policy = "LRU" =>
        \A s \in Sets : \A v, w \in Ways :
            /\ dev.tag[s][v] # Invalid
            /\ dev.tag[s][w] # Invalid
            /\ dev.ctr[s][v] = 0
            /\ dev.ctr[s][w] = 0
            => v = w

\* cache_lru_t keeps its counters at or below the associativity: the int never
\* overflows, however long the trace.
LruCounterBound ==
    Policy = "LRU" => \A s \in Sets, w \in Ways : dev.ctr[s][w] <= Assoc

\* cache_fifo_t: "The counter of the victim block is 1, and others are 0": a
\* set has exactly one replacement pointer, so replace_which_way finds a way.
OneFifoPointer ==
    Policy = "FIFO" =>
        \A s \in Sets : \E w \in Ways :
            dev.ctr[s] = [v \in Ways |-> IF v = w THEN 1 ELSE 0]

\* loaded_blocks: "Current valid blocks in the cache", the numerator of the
\* loaded fraction that ends the warm-up phase.
LoadedCountsValid ==
    dev.loaded = Cardinality({p \in Sets \X Ways : dev.tag[p[1]][p[2]] # Invalid})
=============================================================================
