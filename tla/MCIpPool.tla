-------------------------------- MODULE MCIpPool --------------------------------
(* Instances of IpPool for TLC. *)
EXTENDS IpPool

(* Two clusters share a pool with an IP for each; a cluster and a machine   *)
(* share a single IP, or the machine has an IP of its own; and, without     *)
(* faults, one of the two leaves or joins the pool.                         *)
MCFleets ==
  {[size |-> 2, holders |-> {"n1", "n2"}, pooled |-> {"n1", "n2"}, faults |-> 1, edits |-> 0],
   [size |-> 1, holders |-> {"n1", "v"}, pooled |-> {"n1", "v"}, faults |-> 1, edits |-> 0],
   [size |-> 1, holders |-> {"n1", "v"}, pooled |-> {"n1"}, faults |-> 1, edits |-> 0],
   [size |-> 1, holders |-> {"n1", "v"}, pooled |-> {"n1", "v"}, faults |-> 0, edits |-> 1],
   [size |-> 1, holders |-> {"n1", "v"}, pooled |-> {"n1"}, faults |-> 0, edits |-> 1]}
=================================================================================
