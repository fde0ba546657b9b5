----------------------------- MODULE SecurityRules -----------------------------
(***************************************************************************)
(* The rules of the security groups (reconcileSecurityGroup), rule by rule: *)
(* a pass adds to each group the rules that its spec asks for, and then     *)
(* removes from an authoritative one the rules that it does not, while the  *)
(* CCM of the workload cluster adds and removes rules of its own.           *)
(*                                                                          *)
(* ClusterAccess has the life of the groups themselves, with their rules as *)
(* one flag; here a group exists or not and nothing deletes it.  The NAT    *)
(* services of a spec exist when its pass comes to the groups.              *)
(***************************************************************************)
EXTENDS ClusterSpec

CONSTANTS
  Networks,    (* versions of spec.network that the user may write         *)
  GroupNames,  (* names of the groups in them                              *)
  MaxFaults,   (* bound: failed or unanswered calls and crashes            *)
  MaxEdits     (* bound: changes of the spec by the user                   *)

ASSUME RulesAssumption ==
  /\ MaxFaults \in Nat /\ MaxEdits \in Nat
  /\ \A n \in Networks : \A k \in DOMAIN GetSecurityGroups(n) :
       GetSecurityGroups(n)[k].name \in GroupNames

VARIABLES
  groups,   (* IP rules of each group that the cloud has                     *)
  nats,     (* public IPs of the NAT services of the net                    *)
  ccm,      (* the rule of the CCM for a port of the main group             *)
  obj,      (* the OscCluster in the API server                             *)
  cache,    (* the version of it the informer holds                         *)
  mem,      (* the scope's copy                                             *)
  at,       (* where the pass is                                            *)
  faults,   (* faults so far                                                *)
  edits     (* edits of the spec so far                                     *)

vars == <<groups, nats, ccm, obj, cache, mem, at, faults, edits>>

Rule == [flow : {"Inbound", "Outbound"}, port : Port, range : IpRange]

(* A new group lets everything out. *)
DefaultRules == {[flow |-> "Outbound", port |-> "all", range |-> AnyIp]}

Cluster == [network : Networks, gen : Nat, rec : Nat]

(* group: index of the group at hand; add: rules to create, in order;       *)
(* remove: rules to delete afterwards; patch: the pass has changed the      *)
(* status, so that Close sends it.                                          *)
Position == [step : {"idle", "group", "rules", "close"}, group : Nat,
             add : Seq(Rule), remove : SUBSET Rule, patch : BOOLEAN]

Idle == [step |-> "idle", group |-> 0, add |-> <<>>, remove |-> {}, patch |-> FALSE]
ToGroup(k) == [Idle EXCEPT !.step = "group", !.group = k]
ToClose == [Idle EXCEPT !.step = "close"]
--------------------------------------------------------------------------------
(* What is computed from each version of the spec, as constants. *)
SecurityGroups == [n \in Networks |-> GetSecurityGroups(n)]
NatPublicIps ==
  [n \in Networks |-> {GetNatServiceClientToken(t) : t \in ToSet(GetNatServices(n))}]

HasIPRestriction(n) == n.allowFrom # <<>>

(* The rules of a group in the spec; where access is restricted, the load  *)
(* balancer also admits the NAT services, behind which the nodes are.      *)
RulesOf(n, g, ips) ==
  IF HasRole(g, "loadbalancer") /\ HasIPRestriction(n)
  THEN Append(g.rules, RuleSpec("Inbound", "api", SetToSeq(ips)))
  ELSE g.rules

(* The rules one range at a time, in order and with their repetitions. *)
Wanted(n, g, ips) ==
  FlattenSeq(MapSeq(RulesOf(n, g, ips), LAMBDA r :
    MapSeq(r.ranges, LAMBDA x : [flow |-> r.flow, port |-> r.port, range |-> x])))

Unchanging == UNCHANGED <<ccm, obj, cache, edits>>

(* A call that changes the rules to `after`: done, and the pass goes on at  *)
(* position a; or done or not done, with an error that ends the pass.       *)
Call(after, a) ==
  /\ UNCHANGED <<nats, mem>> /\ Unchanging
  /\ \/ groups' = after /\ at' = a /\ UNCHANGED faults
     \/ /\ faults < MaxFaults
        /\ faults' = faults + 1
        /\ groups' \in {after, groups}
        /\ at' = ToClose

Goto(a) == at' = a /\ UNCHANGED <<groups, nats, mem, faults>> /\ Unchanging
--------------------------------------------------------------------------------
(* A pass that reaches the security groups: they are due for a new          *)
(* generation, and by chance at any other time.                             *)
Reconcile ==
  /\ at.step = "idle"
  /\ mem' = cache
  /\ nats' = nats \cup NatPublicIps[cache.network]
  /\ at' = ToGroup(1)
  /\ UNCHANGED <<groups, faults>> /\ Unchanging

SpecGroups == SecurityGroups[mem.network]

(* Mutant of Missing: every rule of the spec is created. *)
MissingAny(g, rules) == Wanted(mem.network, g, nats)

(* reconcileSecurityGroupAddRules creates the rules that the group, as it   *)
(* was read, does not have.                                                 *)
Missing(g, rules) == SelectSeq(Wanted(mem.network, g, nats), LAMBDA r : r \notin rules)

(* A port for which the CCM has a rule, with a group as its source. *)
HasMembers(g, r) == ccm = "open" /\ g.name = MainGroup /\ r.flow = "Inbound" /\ r.port = "service"

(* Mutant of Unwanted: rules are compared by port, not by range. *)
UnwantedPorts(g, rules) ==
  LET wanted == ToSet(Wanted(mem.network, g, nats)) IN
  {r \in rules : g.authoritative /\ ~HasMembers(g, r) /\ \A w \in wanted : w.port # r.port}

(* reconcileSecurityGroupDeleteRules deletes the rules that the group, as   *)
(* it was read, has and the spec does not, but for the ports of the CCM.    *)
Unwanted(g, rules) ==
  LET wanted == ToSet(Wanted(mem.network, g, nats)) IN
  {r \in rules : g.authoritative /\ ~HasMembers(g, r) /\ r \notin wanted}

ToRules(g, rules) ==
  [at EXCEPT !.step = "rules", !.add = Missing(g, rules), !.remove = Unwanted(g, rules)]

(* A group is found by its name, or created. *)
VisitGroup ==
  /\ at.step = "group" /\ at.group <= Len(SpecGroups)
  /\ LET g == SpecGroups[at.group] IN
     IF g.name \in DOMAIN groups
     THEN Goto(ToRules(g, groups[g.name]))
     ELSE Call(g.name :> DefaultRules @@ groups, ToRules(g, DefaultRules))

(* CreateSecurityGroupRule.  A rule that the group has already got, in this *)
(* pass, may be refused.                                                    *)
AddRule ==
  /\ at.step = "rules" /\ at.add # <<>>
  /\ LET g == SpecGroups[at.group].name
         r == Head(at.add)
     IN \/ Call([groups EXCEPT ![g] = @ \cup {r}], [at EXCEPT !.add = Tail(@)])
        \/ r \in groups[g] /\ Goto(ToClose)

(* Mutant of MayRemove: rules are deleted before the others are added. *)
MayRemoveAtOnce == TRUE

(* Rules are deleted when all have been added, the inbound ones first. *)
MayRemove == at.add = <<>>

RemoveRule ==
  /\ at.step = "rules" /\ MayRemove
  /\ LET g == SpecGroups[at.group].name IN
     \E r \in at.remove :
       /\ r.flow = "Outbound" => \A x \in at.remove : x.flow = "Outbound"
       /\ Call([groups EXCEPT ![g] = @ \ {r}], [at EXCEPT !.remove = @ \ {r}])

NextGroup ==
  /\ at.step = "rules" /\ at.add = <<>> /\ at.remove = {}
  /\ Goto(ToGroup(at.group + 1))

(* The generation is recorded after the last group. *)
EndGroups ==
  /\ at.step = "group" /\ at.group > Len(SpecGroups)
  /\ at' = [ToClose EXCEPT !.patch = mem.rec # mem.gen]
  /\ mem' = [mem EXCEPT !.rec = mem.gen]
  /\ UNCHANGED <<groups, nats, faults>> /\ Unchanging

(* Close: the status is patched if the pass has changed it, or the patch is *)
(* lost.                                                                    *)
Close ==
  /\ at.step = "close"
  /\ at' = Idle
  /\ \/ obj' = [obj EXCEPT !.rec = IF at.patch THEN mem.rec ELSE @] /\ UNCHANGED faults
     \/ faults < MaxFaults /\ faults' = faults + 1 /\ UNCHANGED obj
  /\ UNCHANGED <<groups, nats, ccm, cache, mem, edits>>

(* The process dies, or a lookup fails in a pass that has nothing to save. *)
Crash ==
  /\ at.step # "idle" /\ faults < MaxFaults
  /\ faults' = faults + 1
  /\ at' = Idle
  /\ UNCHANGED <<groups, nats, mem>> /\ Unchanging

PassStep ==
  \/ VisitGroup \/ AddRule \/ RemoveRule \/ NextGroup \/ EndGroups \/ Close
--------------------------------------------------------------------------------
Sync ==
  /\ cache # obj
  /\ cache' = obj
  /\ UNCHANGED <<groups, nats, ccm, obj, mem, at, faults, edits>>

(* The user changes the spec, but not the range of the net. *)
Edit ==
  /\ edits < MaxEdits
  /\ edits' = edits + 1
  /\ \E n \in Networks \ {obj.network} :
       /\ n.byte = obj.network.byte
       /\ obj' = [obj EXCEPT !.network = n, !.gen = @ + 1]
  /\ UNCHANGED <<groups, nats, ccm, cache, mem, at, faults>>

(* The CCM opens, once, a port of the main group to a load balancer, and    *)
(* closes it again.                                                         *)
CcmOpens ==
  /\ ccm = "never" /\ MainGroup \in DOMAIN groups
  /\ ccm' = "open"
  /\ UNCHANGED <<groups, nats, obj, cache, mem, at, faults, edits>>

CcmCloses ==
  /\ ccm = "open"
  /\ ccm' = "closed"
  /\ UNCHANGED <<groups, nats, obj, cache, mem, at, faults, edits>>
--------------------------------------------------------------------------------
Init ==
  /\ groups = [g \in {} |-> {}]
  /\ nats = {}
  /\ ccm = "never"
  /\ \E n \in Networks : obj = [network |-> n, gen |-> 1, rec |-> 0]
  /\ cache = obj /\ mem = obj
  /\ at = Idle
  /\ faults = 0 /\ edits = 0

Next ==
  \/ Reconcile \/ PassStep \/ Crash \/ Sync \/ Edit \/ CcmOpens \/ CcmCloses

(* The workqueue runs a pass while the generation is not recorded; a pass   *)
(* and the informer go on.                                                  *)
Spec ==
  /\ Init /\ [][Next]_vars
  /\ WF_vars(PassStep)
  /\ WF_vars(Reconcile /\ cache.rec < cache.gen)
  /\ WF_vars(Sync)
--------------------------------------------------------------------------------
TypeOK ==
  /\ DOMAIN groups \subseteq GroupNames /\ \A g \in DOMAIN groups : groups[g] \subseteq Rule
  /\ nats \subseteq IpRange
  /\ ccm \in {"never", "open", "closed"}
  /\ obj \in Cluster /\ cache \in Cluster /\ mem \in Cluster
  /\ at \in Position
  /\ faults \in 0 .. MaxFaults /\ edits \in 0 .. MaxEdits

(* When the generation is recorded, every group of the spec has the rules   *)
(* that the spec and the NAT services call for, and an authoritative one    *)
(* has no other IP rule, unless at a port where the CCM has meddled.        *)
RecordedRulesExact ==
  obj.rec = obj.gen =>
    \A g \in ToSet(SecurityGroups[obj.network]) :
      LET wanted == ToSet(Wanted(obj.network, g, nats))
          shared(r) == ccm # "never" /\ g.name = MainGroup /\ r.flow = "Inbound" /\ r.port = "service"
      IN /\ g.name \in DOMAIN groups
         /\ wanted \subseteq groups[g.name]
         /\ g.authoritative => \A r \in groups[g.name] : shared(r) \/ r \in wanted

(* The API is open to a node behind the NAT service with this IP. *)
Admits(ip) ==
  /\ "lb" \in DOMAIN groups
  /\ \E r \in groups["lb"] : r.flow = "Inbound" /\ r.port = "api" /\ r.range \in {AnyIp, ip}

(* Once nodes can reach the API through the load balancer, no step of any   *)
(* pass, edit or fault takes that away: restricting access, lifting the     *)
(* restriction and changing it all add rules before they delete some.       *)
NodesKeepAccess == [][\A ip \in nats : Admits(ip) => Admits(ip)']_vars

(* With the automatic groups recorded, the load balancer may open the API   *)
(* port of the subnet of control planes of every subregion, and a group of  *)
(* the control planes lets it in.  A subnet that is also public is exempt:  *)
(* getAutomaticSecurityGroups passes over it.                               *)
ControlPlanesReachable ==
  LET n == obj.network
      allows(g, flow, ranges) ==
        \E r \in groups[g] : r.flow = flow /\ r.port = "api" /\ r.range \in ranges
  IN obj.rec = obj.gen /\ n.groups = <<>> =>
       \A fd \in ToSet(GetSubregions(n)) :
         LET found == GetSubnet(n, "", "controlplane", fd) IN
         found # <<>> /\ ~SubnetIsPublic(n, found[1]) =>
           /\ \A g \in ToSet(GetSecurityGroupsFor(n, "loadbalancer")) :
                allows(g.name, "Outbound", {AnyIp, NetRange, found[1].range})
           /\ \E g \in ToSet(GetSecurityGroupsFor(n, "controlplane")) :
                allows(g.name, "Inbound", {AnyIp, NetRange})

(* An earlier subnet has the role and subregion of the table: GetSubnet     *)
(* stops there, also when it was asked for a name.                          *)
Shadowed(n, t, s) ==
  \E k \in DOMAIN GetSubnets(n) :
    LET e == GetSubnets(n)[k] IN
    /\ e # s /\ s \in ToSet(SubSeq(GetSubnets(n), k + 1, Len(GetSubnets(n))))
    /\ SubnetHasRole(n, e, t.role)
    /\ GetSubnetSubregion(n, e) = IF t.subregion = 0 THEN GetDefaultSubregion(n) ELSE t.subregion

(* Neither a name nor a role is given: the lookup finds nothing. *)
Anonymous(s) == s.name = "" /\ s.roles = <<>>

(* A private subnet's way out: a NAT service in a subnet of the subregion,  *)
(* or the only one that there is.                                           *)
NatNearby(n, t) ==
  LET nat == GetNatService(n, t.nat, t.subregion)
      home == GetSubnet(n, nat[1].subnet, "nat", nat[1].subregion)
  IN /\ nat # <<>> /\ home # <<>>
     /\ GetSubnetSubregion(n, home[1]) = t.subregion \/ Len(GetNatServices(n)) = 1

(* RouteTablesServeSubnets for each version of the spec. *)
Routed ==
  [n \in Networks |->
     \A k \in DOMAIN GetRouteTables(n) :
       LET t == GetRouteTables(n)[k]
           meant == IF n.tables = <<>> THEN {GetSubnets(n)[k]}
                    ELSE {s \in ToSet(GetSubnets(n)) : s.name \in ToSet(t.subnets)}
           linked == LinkedSubnets(n, t)
       IN \A s \in meant :
            \/ Shadowed(n, t, s) \/ Anonymous(s)
            \/ /\ \E x \in ToSet(linked) : x # <<>> /\ x[1] = s
               /\ t.target = "nat" /\ n.tables = <<>> => NatNearby(n, t)]

(* GetRouteTables, GetSubnet and GetNatService agree: every subnet that a   *)
(* table is made for, or that the user's table names, is linked to it, and  *)
(* the NAT service of a private one is in a subnet of the same subregion,   *)
(* unless the cluster has just one NAT service.  Two kinds of subnet are    *)
(* left without a table by the code and exempt: one behind another with the *)
(* role of its table in its subregion (Shadowed), and one with neither name *)
(* nor roles (Anonymous).                                                   *)
RouteTablesServeSubnets == Routed[obj.network]

(* The rules of the last version of the spec are recorded in the end.       *)
RulesSettle == <>[](obj.rec = obj.gen)
================================================================================
