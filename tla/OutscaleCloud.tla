----------------------------- MODULE OutscaleCloud -----------------------------
(***************************************************************************)
(* The Outscale API as the provider uses it: the resources of one account  *)
(* that one workload cluster can own, and the rules by which the API       *)
(* refuses a deletion while something still depends on the resource.       *)
(* This is code outside the repository; it is modelled from the requests   *)
(* of cloud/services and from the errors the controllers are prepared for. *)
(*                                                                         *)
(* Identifiers are naturals handed out in order and never reused; 0 stands *)
(* for the empty identifier of the Go code.                                *)
(***************************************************************************)
EXTENDS Naturals, FiniteSets, Sequences

CONSTANTS
  Ranges,    (* IP ranges that a version of the spec may give to subnets   *)
  Pub,       (* the range of the public subnet (roles lb, bastion and nat) *)
  SGNames,   (* security groups of the spec                                *)
  LbSG,      (* the one with the loadbalancer role                         *)
  BastionSG, (* the one with the bastion role                              *)
  Foreign,   (* name of a security group that no spec mentions             *)
  ReusedId,  (* ids of the subnets and groups that exist before the cluster *)
  FirstId    (* the first id the cloud hands out after them                *)

ASSUME NamesAssumption ==
  /\ Pub \in Ranges
  /\ LbSG \in SGNames
  /\ BastionSG \in SGNames
  /\ Foreign \notin SGNames
  /\ FirstId \in Nat
  /\ ReusedId \in [Ranges \cup SGNames \cup {Foreign} -> 2 .. FirstId - 1]

VARIABLE cloud

Id == Nat
VmState == {"pending", "running", "shutting-down", "terminated"}
LbState == {"none", "untagged", "tagged"}
PeeringState == {"pending-acceptance", "active", "deleted"}

Net    == [id : Id, tagged : BOOLEAN]
Subnet == [id : Id, net : Id, range : Ranges]
InternetService == [id : Id, net : Id]
RouteTable == [id : Id, net : Id, sub : Id, routed : BOOLEAN, peer : Id]
NatService == [id : Id, net : Id, ip : Id, deleting : BOOLEAN]
SecurityGroup == [id : Id, net : Id, name : SGNames \cup {Foreign}, ruled : BOOLEAN]
Vm == [id : Id, ip : Id, state : VmState]
NetPeering == [id : Id, net : Id, tagged : BOOLEAN, state : PeeringState]
NetAccessPoint == [id : Id, net : Id, rts : SUBSET Id]

Cloud ==
  [next : Id, nets : SUBSET Net, subnets : SUBSET Subnet,
   iss : SUBSET InternetService, rts : SUBSET RouteTable,
   nats : SUBSET NatService, ips : SUBSET Id,
   sgs : SUBSET SecurityGroup, lb : LbState, vms : SUBSET Vm,
   peerings : SUBSET NetPeering, naps : SUBSET NetAccessPoint,
   mgmt : SUBSET Id]   (* peerings that the management net has a route to *)

EmptyCloud ==
  [next |-> FirstId, nets |-> {}, subnets |-> {}, iss |-> {}, rts |-> {},
   nats |-> {}, ips |-> {}, sgs |-> {}, lb |-> "none", vms |-> {},
   peerings |-> {}, naps |-> {}, mgmt |-> {}]

(* The net that a spec with useExisting.net names, with its subnets and     *)
(* with the security groups that somebody put in it.                        *)
ReusedNet == 1

ReusedCloud(names) ==
  [EmptyCloud EXCEPT
     !.nets = {[id |-> ReusedNet, tagged |-> FALSE]},
     !.subnets = {[id |-> ReusedId[r], net |-> ReusedNet, range |-> r] : r \in Ranges},
     !.sgs = {[id |-> ReusedId[s], net |-> ReusedNet, name |-> s, ruled |-> TRUE] : s \in names}]

Ids(S) == {x.id : x \in S}

(* The bastion asks for its IP with the auto-attach tag: the IP is linked   *)
(* from the moment the VM runs until it is terminated.                      *)
HoldsIp(v) == v.state \in {"running", "shutting-down"}
Alive(v) == v.state # "terminated"

LinkedIp(i) ==
  \/ \E n \in cloud.nats : n.ip = i
  \/ \E v \in cloud.vms : HoldsIp(v) /\ v.ip = i

(* A subnet cannot be deleted while a NAT service, a load balancer, a VM or *)
(* the link of a route table is in it.  All but the links live in the       *)
(* public subnet.                                                           *)
SubnetInUse(s) ==
  \/ \E t \in cloud.rts : t.sub = s.id
  \/ /\ s.range = Pub
     /\ \/ \E n \in cloud.nats : n.net = s.net
        \/ cloud.lb # "none"
        \/ \E v \in cloud.vms : Alive(v)

SecurityGroupInUse(g) ==
  \/ g.name = LbSG /\ cloud.lb # "none"
  \/ g.name = BastionSG /\ \E v \in cloud.vms : Alive(v)

LivePeering(p) == p.state \in {"pending-acceptance", "active"}

NetInUse(i) ==
  \E r \in cloud.subnets \cup cloud.iss \cup cloud.rts \cup cloud.nats \cup cloud.sgs
            \cup cloud.naps \cup {p \in cloud.peerings : LivePeering(p)} :
    r.net = i

--------------------------------------------------------------------------------
(* The requests of cloud/services that change the cloud: the cloud after    *)
(* the request has been carried out.  A new resource has id cloud.next.     *)
NetCreated ==
  [cloud EXCEPT !.next = @ + 1, !.nets = @ \cup {[id |-> cloud.next, tagged |-> FALSE]}]

NetTagged(i) ==
  [cloud EXCEPT !.nets = {IF n.id = i THEN [n EXCEPT !.tagged = TRUE] ELSE n : n \in @}]

NetDeleted(i) == [cloud EXCEPT !.nets = {n \in @ : n.id # i}]

SubnetCreated(net, r) ==
  [cloud EXCEPT !.next = @ + 1,
                !.subnets = @ \cup {[id |-> cloud.next, net |-> net, range |-> r]}]

SubnetDeleted(i) == [cloud EXCEPT !.subnets = {s \in @ : s.id # i}]

InternetServiceCreated ==
  [cloud EXCEPT !.next = @ + 1, !.iss = @ \cup {[id |-> cloud.next, net |-> 0]}]

InternetServiceLinked(i, net) ==
  [cloud EXCEPT !.iss = {IF x.id = i THEN [x EXCEPT !.net = net] ELSE x : x \in @}]

InternetServiceUnlinked(i) == InternetServiceLinked(i, 0)

InternetServiceDeleted(i) == [cloud EXCEPT !.iss = {x \in @ : x.id # i}]

RouteTableCreated(net) ==
  [cloud EXCEPT !.next = @ + 1,
                !.rts = @ \cup {[id |-> cloud.next, net |-> net, sub |-> 0,
                                  routed |-> FALSE, peer |-> 0]}]

RouteTableLinked(i, sub) ==
  [cloud EXCEPT !.rts = {IF t.id = i THEN [t EXCEPT !.sub = sub] ELSE t : t \in @}]

RouteTableUnlinked(i) == RouteTableLinked(i, 0)

RouteTableDeleted(i) == [cloud EXCEPT !.rts = {t \in @ : t.id # i}]

RouteCreated(i) ==
  [cloud EXCEPT !.rts = {IF t.id = i THEN [t EXCEPT !.routed = TRUE] ELSE t : t \in @}]

NetPeeringCreated(net) ==
  [cloud EXCEPT !.next = @ + 1,
                !.peerings = @ \cup {[id |-> cloud.next, net |-> net, tagged |-> FALSE,
                                      state |-> "pending-acceptance"]}]

NetPeeringTagged(i) ==
  [cloud EXCEPT !.peerings = {IF p.id = i THEN [p EXCEPT !.tagged = TRUE] ELSE p : p \in @}]

NetPeeringIs(i, state) ==
  [cloud EXCEPT !.peerings = {IF p.id = i THEN [p EXCEPT !.state = state] ELSE p : p \in @}]

(* The route of table i to a peering: p, or 0 to delete it. *)
PeeringRouteSet(i, p) ==
  [cloud EXCEPT !.rts = {IF t.id = i THEN [t EXCEPT !.peer = p] ELSE t : t \in @}]

ManagementRouteCreated(p) == [cloud EXCEPT !.mgmt = @ \cup {p}]
ManagementRouteDeleted(p) == [cloud EXCEPT !.mgmt = @ \ {p}]

NetAccessPointCreated(net, tables) ==
  [cloud EXCEPT !.next = @ + 1,
                !.naps = @ \cup {[id |-> cloud.next, net |-> net, rts |-> tables]}]

NetAccessPointDeleted(i) == [cloud EXCEPT !.naps = {n \in @ : n.id # i}]

PublicIpCreated == [cloud EXCEPT !.next = @ + 1, !.ips = @ \cup {cloud.next}]

PublicIpDeleted(i) == [cloud EXCEPT !.ips = @ \ {i}]

NatServiceCreated(net, ip) ==
  [cloud EXCEPT !.next = @ + 1,
                !.nats = @ \cup {[id |-> cloud.next, net |-> net, ip |-> ip, deleting |-> FALSE]}]

NatServiceDeleted(i) ==
  [cloud EXCEPT !.nats = {IF n.id = i THEN [n EXCEPT !.deleting = TRUE] ELSE n : n \in @}]

SecurityGroupCreated(net, s) ==
  [cloud EXCEPT !.next = @ + 1,
                !.sgs = @ \cup {[id |-> cloud.next, net |-> net, name |-> s, ruled |-> FALSE]}]

SecurityGroupRuled(i) ==
  [cloud EXCEPT !.sgs = {IF g.id = i THEN [g EXCEPT !.ruled = TRUE] ELSE g : g \in @}]

SecurityGroupDeleted(i) == [cloud EXCEPT !.sgs = {g \in @ : g.id # i}]

LoadBalancerCreated == [cloud EXCEPT !.lb = "untagged"]
LoadBalancerConfigured == cloud
LoadBalancerTagged == [cloud EXCEPT !.lb = "tagged"]
LoadBalancerDeleted == [cloud EXCEPT !.lb = "none"]

BastionCreated(ip) ==
  [cloud EXCEPT !.next = @ + 1,
                !.vms = @ \cup {[id |-> cloud.next, ip |-> ip, state |-> "pending"]}]

VmDeleted(i) ==
  [cloud EXCEPT !.vms = {IF v.id = i THEN [v EXCEPT !.state = "shutting-down"] ELSE v : v \in @}]
--------------------------------------------------------------------------------
(* What the cloud does by itself: a VM boots, a VM finishes terminating, a  *)
(* NAT service finishes deleting.                                           *)
VmBoots ==
  \E v \in cloud.vms :
    /\ v.state = "pending"
    /\ cloud' = [cloud EXCEPT !.vms = (@ \ {v}) \cup {[v EXCEPT !.state = "running"]}]

VmTerminates ==
  \E v \in cloud.vms :
    /\ v.state = "shutting-down"
    /\ cloud' = [cloud EXCEPT !.vms = (@ \ {v}) \cup {[v EXCEPT !.state = "terminated"]}]

NatVanishes ==
  \E n \in cloud.nats :
    /\ n.deleting
    /\ cloud' = [cloud EXCEPT !.nats = @ \ {n}]
================================================================================
