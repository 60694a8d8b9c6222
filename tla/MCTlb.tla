------------------------------- MODULE MCTlb -------------------------------
(***************************************************************************)
(* Small TLBs: two processes with the same pages compete for the entries.  *)
(***************************************************************************)
EXTENDS Tlb

CONSTANT MaxUses  \* the LFU counters that are followed

SmallTlbs == [ITLB |-> [sets |-> 1, assoc |-> 1], DTLB |-> [sets |-> 1, assoc |-> 2],
              LLTLB |-> [sets |-> 2, assoc |-> 1]]

\* The LFU counters of the TLB entries only grow.
Bounded ==
    \A b \in Tlbs : \A s \in DOMAIN tlb[b].ctr : \A w \in DOMAIN tlb[b].ctr[s] :
        tlb[b].ctr[s][w] <= MaxUses

\* The answers are looked at by properties of steps only.
Contents == <<tlb, loaded>>
=============================================================================
