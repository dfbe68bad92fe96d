---------------------------- MODULE MCTopology ----------------------------
(***************************************************************************)
(* Instances of Topology for TLC: every network of five slaves, with link  *)
(* times whose sums are all different, so that no two paths are confused   *)
(* unnoticed.                                                              *)
(***************************************************************************)
EXTENDS Topology

LinkTimes == {1, 2, 4, 8, 16}
ClockValues == {-40, 40}

(* At most one clock is near its wrap. *)
MCInit ==
    /\ delay = [s \in Nodes |-> 2 ^ (s - 1)]
    /\ off \in {f \in [Nodes -> Offsets] :
                   Cardinality({s \in Nodes : f[s] # -40}) <= 1}
    /\ TreeInit

MCSpec == MCInit /\ [][TreeNext]_treeVars
=============================================================================
