----------------------------- MODULE MCPageWalk -----------------------------
(***************************************************************************)
(* A small guest in a small host, with tables of four entries.             *)
(***************************************************************************)
EXTENDS PageWalk

\* 0 and 5 lie below different entries of one level-4 group, 8 and 32 share
\* less with them, 130 shares the root table only.
VirtualPages == {0, 5, 8, 32, 130}

\* Tables of level l are the guest pages from 40 * (l - 1) on, data pages the
\* ones from 160 on.
SmallGuest ==
    [v \in VirtualPages |->
        [pe |-> [l \in 1 .. 4 |-> 40 * (l - 1) + v \div (4 ^ (5 - l))],
         pa |-> 160 + v \div 2]]

GuestPages == {SmallGuest[v].pe[l] : v \in VirtualPages, l \in 1 .. 4}
                 \cup {SmallGuest[v].pa : v \in VirtualPages}

HostRow(a) == [pe |-> [l \in 1 .. 4 |-> 1000 * l + a \div (4 ^ (5 - l))], pa |-> 5000 + a]

\* The page of one level-4 guest table has no row in the host's dump.
SmallHost == [a \in GuestPages \ {SmallGuest[32].pe[4]} |-> HostRow(a)]

SmallPwc == <<[sets |-> 2, assoc |-> 1], [sets |-> 1, assoc |-> 2], [sets |-> 2, assoc |-> 2]>>
=============================================================================
