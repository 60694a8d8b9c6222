-------------------------- MODULE MCCacheHierarchy --------------------------
(***************************************************************************)
(* Small instances of CacheHierarchy.                                      *)
(***************************************************************************)
EXTENDS CacheHierarchy

\* Every level evicts lines the others still hold.
SmallGeometry ==
    [L1I |-> [sets |-> 1, assoc |-> 1], L1D |-> [sets |-> 2, assoc |-> 1],
     L2 |-> [sets |-> 1, assoc |-> 2], LLC |-> [sets |-> 2, assoc |-> 1]]

\* States are not told apart by their counters, which grow without end; what
\* the properties say of counters they say of steps.
Contents == <<cache, answer>>
=============================================================================
