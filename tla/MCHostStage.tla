----------------------------- MODULE MCHostStage -----------------------------
(***************************************************************************)
(* HostStage for TLC: two QEMU processes, two dumps with frames that occur *)
(* more than once and a 0, frames mapped by a 4K page, by a huge page and  *)
(* not at all.                                                             *)
(***************************************************************************)
EXTENDS HostStage, TLC

MCDumps == {<< <<1, 2>>, <<1, 3>>, <<4, 1>> >>, << <<2, 0>>, <<4, 2>> >>}
MCChain == [q \in Qemus |->
             << <<10, 11, 12, 13, 14>>, <<10, 11, 16, NAN, 16>>, <<10, NAN, NAN, NAN, NAN>>,
                <<10, 11, 12, 30, 36>> >>]
\* The two processes have the same tables.
Alike == Permutations(Qemus)
=============================================================================
