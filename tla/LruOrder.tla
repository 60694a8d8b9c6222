------------------------------ MODULE LruOrder ------------------------------
(***************************************************************************)
(* CachingDevice with a history variable: for every set, the resident      *)
(* blocks from the most to the least recently referenced.  It adds nothing *)
(* to what the device does; it states what "least recently used" means.    *)
(* An invalidated block leaves a hole in the counters of its set that      *)
(* cache_lru_t does not close, so the history ends with the first one.     *)
(***************************************************************************)
EXTENDS CachingDevice, SequencesExt

VARIABLES order,    \* the history
          followed  \* FALSE once a block has been invalidated or flushed

vars == <<dev, order, followed>>

\* Each reference moves its block to the front of its set.
Referenced(ord, touched) ==
    [s \in Sets |->
        FoldLeft(LAMBDA o, u : IF SetOf(u) = s THEN <<u>> \o Remove(o, u) ELSE o,
                 ord[s], touched)]

OnlyResident(ord, d) ==
    [s \in Sets |-> SelectSeq(ord[s], LAMBDA u : u \in Resident(d))]

\* The blocks one iteration of the loop of request() references, in order: a
\* miss on a demand reference prefetches the next block.
Touched(d, t, demand) ==
    IF ~Hit(d, t) /\ demand /\ Prefetcher THEN <<t, t + 1>> ELSE <<t>>

\* BlockOutcomes with the history of each.
OrderedOutcomes(h, t, demand) ==
    {LET d == RequestBlock(h.dev, t, demand, ev, pev)
     IN [dev |-> d,
         order |-> OnlyResident(Referenced(h.order, Touched(h.dev, t, demand)), d),
         followed |-> h.followed /\ ev \cup pev = {}] :
        ev \in ParentEvictions(~Hit(h.dev, t), {t}),
        pev \in ParentEvictions(~Hit(h.dev, t) /\ demand /\ Prefetcher, {t, t + 1})}

NoOrder == [s \in Sets |-> <<>>]
Now == [dev |-> dev, order |-> order, followed |-> followed]

Become(h) ==
    /\ dev' = h.dev
    /\ followed' = h.followed
    /\ order' = IF h.followed THEN h.order ELSE NoOrder

OrderInit == Init /\ order = NoOrder /\ followed = TRUE

\* The steps of CachingDevice, the history with them.
OrderNext ==
    \E t \in Blocks :
        \/ VictimDefined(t) /\ \E demand \in BOOLEAN :
              \/ /\ t = dev.last_tag
                 /\ Become([Now EXCEPT !.dev = TouchLast(dev),
                                       !.order = Referenced(order, <<t>>)])
              \/ /\ t # dev.last_tag
                 /\ \E h \in OrderedOutcomes(Now, t, demand) : Become(h)
              \/ \E h \in OrderedOutcomes(Now, t, demand) :
                    \E g \in OrderedOutcomes(h, t + 1, demand) : Become(g)
        \/ /\ Invalidate(t) \/ Flush(t)
           /\ followed' = FALSE
           /\ order' = NoOrder

OrderSpec == OrderInit /\ [][OrderNext]_vars
----------------------------------------------------------------------------
\* The block at the replacement candidate of a full set.
VictimBlock(s) == dev.tag[s][Victim(dev.tag[s], dev.ctr[s])]

FullSet(s) == \A w \in Ways : dev.tag[s][w] # Invalid

\* "LRU (Least Recently Used)": in a full set replace_which_way picks the block
\* that was referenced longest ago.
VictimIsLeastRecent ==
    \A s \in Sets : followed /\ FullSet(s) => VictimBlock(s) = Last(order[s])
=============================================================================
