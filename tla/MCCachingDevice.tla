-------------------------- MODULE MCCachingDevice --------------------------
(***************************************************************************)
(* A device the way cache_simulator_t uses the ones it builds from knobs:  *)
(* no parent is inclusive and no flush reaches a cache, requests are all   *)
(* there is.                                                               *)
(***************************************************************************)
EXTENDS CachingDevice

RequestNext ==
    \E t \in Blocks, demand \in BOOLEAN :
        VictimDefined(t) /\ (Request(t, demand) \/ RequestCrossing(t, demand))

RequestSpec == Init /\ [][RequestNext]_dev
=============================================================================
