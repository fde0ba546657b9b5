------------------------------ MODULE ClusterSpec ------------------------------
(***************************************************************************)
(* What a cluster is made of, computed from spec.network (scope/cluster.go): *)
(* its subnets, NAT services, route tables and security groups, listed by    *)
(* the user or derived from the other fields, and the lookups by name, role  *)
(* and subregion with which the reconcilers pair them.                       *)
(*                                                                           *)
(* A subregion is a positive natural, 0 where the field is empty; a name is  *)
(* a string, "" where empty.  An IP range is a pair: a kind, and within the  *)
(* kind a number (for a /24 of the net, the third byte of its address).      *)
(***************************************************************************)
EXTENDS Naturals, Sequences, SequencesExt

CONSTANT KcpNames  (* the names that contain "kcp" *)

Role == {"loadbalancer", "bastion", "nat", "worker", "controlplane"}

(* Protocols and ports that the rules of the automatic groups name.  The    *)
(* ports that network plugins use within the net are one service, overlay;  *)
(* service is a port that a Service of type LoadBalancer is published on.   *)
Port == {"api", "https", "apps", "kubelet", "etcd", "overlay", "ssh", "all", "service"}

IpRange == {"any", "net", "user", "none"} \X {0, 1, 2} \cup {"subnet"} \X (0 .. 255)
             \cup {"nat", "natA", "natB"} \X {0, 1, 2}
AnyIp == <<"any", 0>>
NetRange == <<"net", 0>>
EmptyRange == <<"none", 0>>    (* the empty string in a list of ranges *)

(* A rule of a security group in the spec, in which ranges is a sequence. *)
RuleSpec(flow, port, ranges) == [flow |-> flow, port |-> port, ranges |-> ranges]
--------------------------------------------------------------------------------
GetSubregions(n) == IF n.subregions # <<>> THEN n.subregions ELSE <<n.subregionName>>

GetDefaultSubregion(n) == GetSubregions(n)[1]

DefaultRoles == << <<"loadbalancer", "bastion", "nat">>, <<"worker">>, <<"controlplane">> >>

(* The third byte of the address of the net is a uint8, incremented once    *)
(* and then once for each subnet.                                           *)
SubnetByte(n, k) == (n.byte + 1 + k) % 256

(* By default three subnets in each subregion. *)
GetSubnets(n) ==
  LET fds == GetSubregions(n) IN
  IF n.subnets # <<>> THEN n.subnets
  ELSE [k \in 1 .. 3 * Len(fds) |->
          [name |-> "", roles |-> DefaultRoles[1 + ((k - 1) % 3)],
           range |-> <<"subnet", SubnetByte(n, k)>>, subregion |-> fds[1 + ((k - 1) \div 3)]]]

(* A subnet without roles has those that its name gives it. *)
SubnetHasRole(n, s, role) ==
  IF s.roles # <<>> THEN Contains(s.roles, role)
  ELSE IF s.name \in n.controlPlaneSubnets \cup KcpNames THEN role = "controlplane"
  ELSE IF n.lbSubnet # "" /\ s.name = n.lbSubnet THEN role \in {"loadbalancer", "bastion", "nat"}
  ELSE role = "worker"

SubnetIsPublic(n, s) == \E role \in {"bastion", "loadbalancer", "nat"} : SubnetHasRole(n, s, role)

GetSubnetSubregion(n, s) == IF s.subregion # 0 THEN s.subregion ELSE GetDefaultSubregion(n)

(* Mutant of GetSubnet: subnets of the role in any subregion. *)
GetSubnetAnywhere(n, name, role, subregion) ==
  SelectSeq(GetSubnets(n), LAMBDA s : \/ name # "" /\ s.name = name
                                    \/ SubnetHasRole(n, s, role))

(* GetSubnet returns the first of these, or an error if there is none: the  *)
(* subnets with the name, or with the role in the subregion.                *)
GetSubnet(n, name, role, subregion) ==
  LET fd == IF subregion = 0 THEN GetDefaultSubregion(n) ELSE subregion
  IN SelectSeq(GetSubnets(n),
       LAMBDA s : \/ name # "" /\ s.name = name
                  \/ SubnetHasRole(n, s, role) /\ GetSubnetSubregion(n, s) = fd)
--------------------------------------------------------------------------------
MapSeq(s, Op(_)) == [k \in DOMAIN s |-> Op(s[k])]

(* By default a NAT service for each subnet of the nat role. *)
GetNatServices(n) ==
  CASE ~n.internet \/ n.reuseNet -> <<>>
    [] n.internet /\ ~n.reuseNet /\ n.nats # <<>> -> n.nats
    [] n.internet /\ ~n.reuseNet /\ n.nats = <<>> ->
         MapSeq(SelectSeq(GetSubnets(n), LAMBDA s : SubnetHasRole(n, s, "nat")),
                LAMBDA s : [name |-> "", subnet |-> s.name, subregion |-> GetSubnetSubregion(n, s)])

(* GetNatService returns the first of these, or an error: by name, or the   *)
(* only one, or by subregion.                                               *)
GetNatService(n, name, subregion) ==
  LET nats == GetNatServices(n)
      fd(t) == IF t.subregion = 0 THEN GetDefaultSubregion(n) ELSE t.subregion
  IN CASE name # "" -> SelectSeq(nats, LAMBDA t : t.name = name)
       [] name = "" /\ Len(nats) = 1 -> nats
       [] name = "" /\ Len(nats) # 1 ->
            SelectSeq(nats, LAMBDA t : subregion \in {0, fd(t)})

(* GetNatServiceClientToken: what identifies a NAT service, and with it the *)
(* public IP it has.                                                        *)
GetNatServiceClientToken(t) == IF t.name # "" THEN <<t.name, 0>> ELSE <<"nat", t.subregion>>

(* The tables of the user, or a route table for each subnet, with the first *)
(* of its roles.  Of the routes only the default one matters here: where it *)
(* leads and which NAT service it names.                                    *)
GetRouteTables(n) ==
  IF n.tables # <<>> THEN n.tables
  ELSE MapSeq(GetSubnets(n),
         LAMBDA s : [subnets |-> IF s.name # "" THEN <<s.name>> ELSE <<>>,
                     subregion |-> GetSubnetSubregion(n, s),
                     role |-> IF s.roles # <<>> THEN s.roles[1] ELSE "",
                     target |-> IF ~n.internet THEN "none"
                                ELSE IF SubnetIsPublic(n, s) THEN "gateway" ELSE "nat",
                     nat |-> ""])

(* The subnets that reconcileRouteTable links a table to: one for each name *)
(* it lists, or one by its role; the pass fails if some lookup gives none.  *)
LinkedSubnets(n, t) ==
  MapSeq(IF t.subnets # <<>> THEN t.subnets ELSE <<"">>,
         LAMBDA name : GetSubnet(n, name, t.role, t.subregion))
--------------------------------------------------------------------------------
RangesOf(subnets) == MapSeq(subnets, LAMBDA s : s.range)

(* getAdditionalRules: the first entry with exactly these roles, in order. *)
GetAdditionalRules(n, roles) ==
  LET found == SelectSeq(n.additional, LAMBDA a : a.roles = roles)
  IN IF found = <<>> THEN <<>> ELSE found[1].rules

(* getManualSecurityGroups: the groups of the user, with a rule for the     *)
(* restrictions that are set.                                               *)
GetManualSecurityGroups(n) ==
  LET api(g) == n.allowFrom # <<>> /\ Contains(g.roles, "loadbalancer")
      ssh(g) == n.allowFrom # <<>> /\ Contains(g.roles, "bastion")
      out(g) == /\ n.allowTo # <<>>
                /\ \/ Contains(g.roles, "worker") /\ Contains(g.roles, "controlplane")
                   \/ Contains(g.roles, "bastion")
      also(cond, rule) == IF cond THEN <<rule>> ELSE <<>>
  IN MapSeq(n.groups, LAMBDA g :
       [g EXCEPT !.rules = @ \o also(api(g), RuleSpec("Inbound", "api", n.allowFrom))
                             \o also(ssh(g), RuleSpec("Inbound", "ssh", n.allowFrom))
                             \o also(out(g), RuleSpec("Outbound", "all", n.allowTo))])

(* Mutant of AllSNCP: the first subnet of control planes only. *)
FirstSNCP(n) ==
  RangesOf(SelectSeq(<<GetSubnets(n)[3]>>, LAMBDA s : SubnetHasRole(n, s, "controlplane")))

(* The ranges that the automatic groups refer to. *)
PrivateSubnets(n) == SelectSeq(GetSubnets(n), LAMBDA s : ~SubnetIsPublic(n, s))
AllSN(n) == RangesOf(PrivateSubnets(n))
AllSNCP(n) == RangesOf(SelectSeq(PrivateSubnets(n), LAMBDA s : SubnetHasRole(n, s, "controlplane")))
AllSNBastion(n) == RangesOf(SelectSeq(GetSubnets(n), LAMBDA s : SubnetHasRole(n, s, "bastion")))
AllowedIn(n) == IF n.allowFrom = <<>> THEN <<AnyIp>> ELSE n.allowFrom
AllowedOut(n) ==
  IF n.allowTo = <<>> THEN <<AnyIp>> ELSE IF n.allowTo[1] = EmptyRange THEN <<>> ELSE n.allowTo

(* The rule that lets nodes and bastion out, unless allowToIPRanges says    *)
(* that there is none.                                                      *)
OutboundRule(n) ==
  IF AllowedOut(n) = <<>> THEN <<>> ELSE <<RuleSpec("Outbound", "all", AllowedOut(n))>>

AutomaticGroup(n, name, roles, rules) ==
  [name |-> name, roles |-> roles, authoritative |-> TRUE,
   rules |-> rules \o GetAdditionalRules(n, roles)]

LbGroup(n) ==
  AutomaticGroup(n, "lb", <<"loadbalancer">>,
    << RuleSpec("Inbound", "api", AllowedIn(n)), RuleSpec("Outbound", "api", AllSNCP(n)) >>)

WorkerGroup(n) ==
  AutomaticGroup(n, "worker", <<"worker">>,
    << RuleSpec("Inbound", "https", AllSNCP(n)), RuleSpec("Inbound", "apps", AllSNCP(n)),
       RuleSpec("Inbound", "kubelet", AllSN(n)) >>)

ControlPlaneGroup(n) ==
  AutomaticGroup(n, "controlplane", <<"controlplane">>,
    << RuleSpec("Inbound", "api", <<NetRange>>), RuleSpec("Inbound", "etcd", AllSNCP(n)),
       RuleSpec("Inbound", "kubelet", AllSNCP(n)) >>)

(* The group of all nodes, in which the cloud controller manager (CCM)      *)
(* opens the ports of services.                                             *)
MainGroup == "node"

NodeGroup(n) ==
  LET g == AutomaticGroup(n, MainGroup, <<"controlplane", "worker">>,
             << RuleSpec("Inbound", "overlay", <<NetRange>>),
                RuleSpec("Outbound", "all", <<NetRange>>) >> \o OutboundRule(n))
      ssh == << RuleSpec("Inbound", "ssh", AllSNBastion(n)) >>
  IN [g EXCEPT !.rules = IF n.bastion THEN @ \o ssh ELSE @]

BastionGroup(n) ==
  AutomaticGroup(n, "bastion", <<"bastion">>,
    << RuleSpec("Inbound", "ssh", AllowedIn(n)),
       RuleSpec("Outbound", "ssh", <<NetRange>>) >> \o OutboundRule(n))

GetAutomaticSecurityGroups(n) ==
  << LbGroup(n), WorkerGroup(n), ControlPlaneGroup(n), NodeGroup(n) >>
    \o (IF n.bastion THEN << BastionGroup(n) >> ELSE <<>>)

GetSecurityGroups(n) ==
  IF n.groups # <<>> THEN GetManualSecurityGroups(n) ELSE GetAutomaticSecurityGroups(n)

(* HasRole of a group: its roles, or those that its name gives it. *)
HasRole(g, role) ==
  IF g.roles # <<>> THEN Contains(g.roles, role)
  ELSE CASE g.name = "kcp" -> role = "controlplane"
         [] g.name = "kw" -> role = "worker"
         [] g.name = "node" -> role \in {"controlplane", "worker"}
         [] g.name \notin {"kcp", "kw", "node"} -> FALSE

(* GetSecurityGroupsFor a VM or load balancer that names no group. *)
GetSecurityGroupsFor(n, role) == SelectSeq(GetSecurityGroups(n), LAMBDA g : HasRole(g, role))
================================================================================
