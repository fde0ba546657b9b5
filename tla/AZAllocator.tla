------------------------------- MODULE AZAllocator -------------------------------
(***************************************************************************)
(* The MultiAZAllocator, which the machine controller keeps in memory: for *)
(* the workers of a MachineDeployment it remembers the order in which they *)
(* were listed and the subregion each of them was given.                   *)
(***************************************************************************)
EXTENDS Naturals, Sequences, FiniteSets

CONSTANTS
  Machines,      (* the OscMachines                                          *)
  ControlPlane,  (* those of the control plane; the others are the workers   *)
                 (* of one MachineDeployment                                 *)
  AZs,           (* the subregions in which the cluster has subnets          *)
  SubregionNames,(* those that the machines' specs list, or the cluster's    *)
  LeastNodes     (* subregionMode is leastNodes, not random                  *)

Workers == Machines \ ControlPlane

ASSUME PlacementAssumption ==
  /\ IsFiniteSet(Machines) /\ ControlPlane \subseteq Machines
  /\ IsFiniteSet(AZs) /\ AZs # {} /\ "" \notin AZs /\ "unknown" \notin AZs
  /\ SubregionNames \subseteq AZs /\ SubregionNames # {}
  /\ LeastNodes \in BOOLEAN

VARIABLE alloc

(* A worker of which the allocator has never heard is "unknown"; one that   *)
(* was listed and has no subregion yet has the empty one.                   *)
Zone == AZs \cup {""}
Allocator == [order : Seq(Workers), azs : [Workers -> Zone \cup {"unknown"}]]

EmptyAllocator == [order |-> <<>>, azs |-> [m \in Workers |-> "unknown"]]

(* The client's List returns the machines in no particular order. *)
Orderings(S) ==
  {s \in [1 .. Cardinality(S) -> S] : \A i, j \in DOMAIN s : s[i] = s[j] => i = j}

(* refreshWorkers: the workers that the client lists, with the subregions   *)
(* that their status publishes.  A deployment is truncated only when one of *)
(* its machines is listed.                                                  *)
Refreshed(listed, published) ==
  IF listed = {} THEN {alloc}
  ELSE {[order |-> s,
         azs |-> [m \in Workers |-> IF m \in listed THEN published[m] ELSE alloc.azs[m]]] :
          s \in Orderings(listed)}

(* allocateAZ: every worker without a subregion, in the order of the list   *)
(* and up to the one that asks, is given a subregion with the fewest        *)
(* workers; of several such, any.  A subregion outside the list counts when *)
(* a worker has it.  One that is no longer listed gets none.                *)
Nodes(a, azs, z) == {i \in DOMAIN a.order : azs[a.order[i]] = z}

PerAZ(a) == SubregionNames \cup ({a.azs[a.order[i]] : i \in DOMAIN a.order} \cap AZs)

Fewest(a, azs) ==
  {z \in PerAZ(a) : \A y \in PerAZ(a) : Cardinality(Nodes(a, azs, z)) <= Cardinality(Nodes(a, azs, y))}

Assigned(a, m) ==
  LET place == {i \in DOMAIN a.order : a.order[i] = m}
      todo == {i \in DOMAIN a.order : a.azs[a.order[i]] = "" /\ \A j \in place : i <= j}
      before(f, i) == [w \in Workers |-> IF \E j \in todo : j < i /\ a.order[j] = w
                                         THEN f[w] ELSE a.azs[w]]
  IN {[a EXCEPT !.azs = f] :
        f \in {g \in [Workers -> Zone \cup {"unknown"}] :
                /\ \A i \in todo : g[a.order[i]] \in Fewest(a, before(g, i))
                /\ \A w \in Workers : (\A i \in todo : a.order[i] # w) => g[w] = a.azs[w]}}

(* allocateLeastNodeAZ: what the allocator knows of m is returned; a        *)
(* machine it does not know makes it list the machines again.               *)
LeastNodeAZ(m, listed, published) ==
  LET known == IF alloc.azs[m] # "unknown" THEN {alloc} ELSE Refreshed(listed, published)
  IN UNION {IF a.azs[m] # "" THEN {a} ELSE Assigned(a, m) : a \in known}

(* AllocateAZ: the results it may give to machine m, as pairs of a          *)
(* subregion and the allocator after the call.  What is not a subregion is  *)
(* an error: "unknown" for a machine that is not listed, as those of the    *)
(* control plane never are, "" for one that was.                            *)
AllocateAZ(m, listed, published) ==
  IF LeastNodes /\ Cardinality(SubregionNames) > 1
  THEN IF m \in Workers
       THEN {<<a.azs[m], a>> : a \in LeastNodeAZ(m, listed, published)}
       ELSE {<<"unknown", a>> : a \in Refreshed(listed, published)}
  ELSE {<<z, alloc>> : z \in SubregionNames}
================================================================================
