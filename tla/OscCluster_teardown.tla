---------------------------- MODULE OscCluster_teardown ----------------------------
(***************************************************************************)
(* Proofs about the deletion of an OscCluster.  During a teardown nothing  *)
(* is made, and the cloud refuses to delete the net and the public subnet  *)
(* as long as something is in them: so the one net of the cluster goes     *)
(* last, whatever copy of the status the passes of the teardown start      *)
(* from, and the routes to the peering go before the peering does.         *)
(***************************************************************************)
EXTENDS OscCluster_proofs

(* All that was made is in the net of the cluster, and what runs in the     *)
(* public subnet keeps that subnet.                                         *)
Live == {p \in cloud.peerings : LivePeering(p)}
HoldsPub == cloud.lb # "none" \/ \E v \in cloud.vms : Alive(v)
HasPub == \E s \in cloud.subnets : s.range = Pub

GroupsHeld == ~ReuseNet => InNet(cloud.sgs)
PubHeld == ~ReuseNet /\ HoldsPub => HasPub

Held ==
  /\ GroupsHeld /\ PubHeld
  /\ ~ReuseNet => /\ InNet(cloud.subnets) /\ InNet(Linked) /\ InNet(cloud.rts)
                  /\ InNet(cloud.nats) /\ InNet(cloud.naps) /\ InNet(Live)
                  /\ Distinct(cloud.subnets)
                  /\ \A n \in Tagged(cloud.nets) : n.id # 0

(* Every route to a peering leads to the tagged one, which is active. *)
RoutesOk ==
  /\ ReuseNet => cloud.peerings = {}
  /\ \A i \in cloud.mgmt : Active(i)
  /\ \A t \in cloud.rts : t.peer = 0 \/ Active(t.peer)

NoRoutes == cloud.mgmt = {} /\ \A t \in cloud.rts : t.peer = 0

(* What a copy m of the object remembers still leads a teardown to the net, *)
(* as long as there is one, and to the peering.                             *)
Traced(m) ==
  /\ m.st.net # 0 /\ Tagged(cloud.nets) # {} => m.st.net \in Ids(Tagged(cloud.nets))
  /\ m.st.peer # 0 => m.st.peer \in Ids(Tagged(cloud.peerings))

AllTraced == Traced(obj) /\ Traced(cache) /\ Traced(old) /\ Traced(mem)

(* Strays that nobody will look for again: one for each fault at most.  The *)
(* handler that has just made or unlinked something still waits for the     *)
(* answer to the call that tags, links or deletes it.                       *)
TagsNext(n) == At("net", "tag") /\ n.id = at.id
LinksNext(i) ==
  /\ At("internetService", "link") \/ (At("dIs", "delete") /\ Tagged(cloud.nets) # {})
  /\ i.id = at.id

Lost ==
  {n \in cloud.nets : ~n.tagged /\ ~TagsNext(n)} \cup {i \in cloud.iss : i.net = 0 /\ ~LinksNext(i)}

StraysOk ==
  ~ReuseNet => /\ Distinct(cloud.nets) /\ Distinct(cloud.iss)
               /\ IsFiniteSet(Lost) /\ Cardinality(Lost) <= faults

(* No copy of the object lacks its finalizer before the net has gone. *)
Gone == ~Spared /\ Tagged(cloud.nets) = {}

Finalized ==
  ~ReuseNet =>
    /\ "removed" \in {obj.fin, cache.fin, old.fin, mem.fin} => Gone
    /\ at.phase = "dFinal" => Gone

TearInv ==
  /\ Held /\ RoutesOk /\ AllTraced /\ StraysOk /\ Finalized
  /\ at.phase = "dPeering" => NoRoutes
--------------------------------------------------------------------------------
(* The strays that are lost stay bounded by the faults. *)
LEMMA LostStays ==
  ASSUME TypeOK, TypeOK', StraysOk, ReuseNet' = ReuseNet, ~ReuseNet => Distinct(cloud.nets)' /\ Distinct(cloud.iss)',
         \/ faults' >= faults /\ Lost' \subseteq Lost
         \/ faults' = faults + 1 /\ \E x : Lost' \subseteq Lost \cup {x}
  PROVE  StraysOk'
  <1>. SUFFICES ASSUME ~ReuseNet PROVE IsFiniteSet(Lost') /\ Cardinality(Lost') <= faults'
    BY DEF StraysOk
  <1>1. IsFiniteSet(Lost) /\ Cardinality(Lost) <= faults BY DEF StraysOk
  <1>2. faults \in Nat /\ faults' \in Nat BY ScopeAssumption DEF TypeOK
  <1>3. Cardinality(Lost) \in Nat BY <1>1, FS_CardinalityType
  <1>4. PICK L, M : L = Lost /\ M = Lost' OBVIOUS
  <1>5. CASE faults' >= faults /\ Lost' \subseteq Lost
    <2>1. IsFiniteSet(M) /\ Cardinality(M) <= Cardinality(L) BY <1>1, <1>4, <1>5, FS_Subset
    <2>2. Cardinality(M) \in Nat BY <2>1, FS_CardinalityType
    <2>. QED BY <1>1, <1>2, <1>3, <1>4, <1>5, <2>1, <2>2
  <1>6. CASE faults' = faults + 1 /\ \E x : Lost' \subseteq Lost \cup {x}
    <2>1. PICK x : M \subseteq L \cup {x} BY <1>4, <1>6
    <2>2. IsFiniteSet(L \cup {x}) /\ Cardinality(L \cup {x}) \in {Cardinality(L), Cardinality(L) + 1}
      BY <1>1, <1>4, FS_AddElement
    <2>3. IsFiniteSet(M) /\ Cardinality(M) <= Cardinality(L \cup {x}) BY <2>1, <2>2, FS_Subset
    <2>4. Cardinality(M) \in Nat BY <2>3, FS_CardinalityType
    <2>. QED BY <1>1, <1>2, <1>3, <1>4, <1>6, <2>2, <2>3, <2>4
  <1>. QED BY <1>5, <1>6

(* A handler that loses its answer, and the cloud unchanged: one stray more. *)
LEMMA LostByFault ==
  ASSUME Distinct(cloud.nets), Distinct(cloud.iss), cloud' = cloud
  PROVE  \E x : Lost' \subseteq Lost \cup {x}
  <1>2. Lost' \subseteq {n \in cloud.nets : ~n.tagged} \cup {i \in cloud.iss : i.net = 0} BY DEF Lost
  <1>4. CASE \E n \in cloud.nets : TagsNext(n)
    <2>1. PICK x \in cloud.nets : TagsNext(x) BY <1>4
    <2>2. \A n \in cloud.nets : TagsNext(n) => n = x BY <2>1 DEF TagsNext, Distinct
    <2>3. \A i : ~LinksNext(i) BY <2>1 DEF TagsNext, LinksNext, At
    <2>. QED BY <1>2, <2>2, <2>3 DEF Lost
  <1>5. CASE \E i \in cloud.iss : LinksNext(i)
    <2>1. PICK x \in cloud.iss : LinksNext(x) BY <1>5
    <2>2. \A i \in cloud.iss : LinksNext(i) => i = x BY <2>1 DEF LinksNext, Distinct
    <2>3. \A n : ~TagsNext(n) BY <2>1 DEF TagsNext, LinksNext, At
    <2>. QED BY <1>2, <2>2, <2>3 DEF Lost
  <1>6. CASE ~(\E n \in cloud.nets : TagsNext(n)) /\ ~\E i \in cloud.iss : LinksNext(i)
    BY <1>2, <1>6 DEF Lost
  <1>. QED BY <1>4, <1>5, <1>6

(* Where no handler waits, all strays are lost. *)
LEMMA AllLost ==
  ASSUME ~At("net", "tag"), ~At("internetService", "link"), ~At("dIs", "delete"),
         cloud'.nets \subseteq cloud.nets, cloud'.iss \subseteq cloud.iss
  PROVE  Lost' \subseteq Lost
  BY DEF Lost, TagsNext, LinksNext

(* A step of a pass that builds keeps the invariant if it keeps the groups  *)
(* and the public subnet, and loses no stray without a fault.               *)
LEMMA BuildTear ==
  ASSUME ClusterInv, TearInv, ClusterInv', Builds, at.phase \in BuildPhase,
         GroupsHeld', PubHeld', StraysOk'
  PROVE  TearInv'
  <1>1. Spared /\ ~mem.del BY Building
  <1>2. ReuseNet' = ReuseNet /\ Spared' /\ mem'.fin = mem.fin /\ ~mem'.del
    BY <1>1 DEF Builds, Heir, ReuseNet
  <1>3. CloudOk' /\ CopiesOk' /\ Passes' BY <1>2 DEF ClusterInv, BuildInv
  <1>4. Held'
    BY <1>3 DEF Held, CloudOk, NetsOk, Known, SubnetsOk, ServicesOk, TablesOk, NatsOk, NapsOk, PeeringsOk,
                InNet, Live, Tagged
  <1>5. RoutesOk' BY <1>3 DEF CloudOk, TablesOk, PeeringsOk, RoutesOk
  <1>6. AllTraced' BY <1>3 DEF AllTraced, Traced, CopiesOk, CopyOk, StatusOk
  <1>7. at'.phase # "dPeering" /\ at'.phase # "dFinal" BY <1>2, <1>3 DEF Passes, DeletePhase
  <1>8. Finalized' BY <1>1, <1>2, <1>7 DEF Finalized, TearInv, Gone, Builds
  <1>. QED BY <1>4, <1>5, <1>6, <1>7, <1>8 DEF TearInv

(* A request that makes nothing but routes, addresses and what is in the net. *)
Plain(c) ==
  /\ c.nets = cloud.nets /\ c.iss = cloud.iss /\ c.sgs = cloud.sgs
  /\ c.lb = cloud.lb /\ c.vms = cloud.vms
  /\ cloud.subnets \subseteq c.subnets

LEMMA PlainRequests ==
  ASSUME TypeOK
  PROVE  /\ Plain(cloud)
         /\ \A i, r : Plain(SubnetCreated(i, r))
         /\ \A i : Plain(RouteTableCreated(i)) /\ Plain(RouteCreated(i))
         /\ \A i, j : Plain(RouteTableLinked(i, j)) /\ Plain(PeeringRouteSet(i, j))
         /\ Plain(PublicIpCreated)
         /\ \A i, j : Plain(NatServiceCreated(i, j))
         /\ \A i : Plain(NetPeeringCreated(i)) /\ Plain(NetPeeringTagged(i))
         /\ \A i, s : Plain(NetPeeringIs(i, s))
         /\ \A i : Plain(ManagementRouteCreated(i))
         /\ \A i, T : Plain(NetAccessPointCreated(i, T))
  <1>. cloud \in Cloud BY DEF TypeOK
  <1>1. Plain(cloud) BY DEF Plain
  <1>2. \A V : /\ Plain([cloud EXCEPT !.rts = V]) /\ Plain([cloud EXCEPT !.peerings = V])
               /\ Plain([cloud EXCEPT !.mgmt = V])
    BY DEF Plain, Cloud
  <1>3. \A i, r : Plain(SubnetCreated(i, r)) BY DEF SubnetCreated, Plain, Cloud
  <1>4. \A i : Plain(RouteTableCreated(i)) BY DEF RouteTableCreated, Plain, Cloud
  <1>5. \A i, j : Plain(NatServiceCreated(i, j)) BY DEF NatServiceCreated, Plain, Cloud
  <1>6. /\ \A i : Plain(NetPeeringCreated(i))
        /\ Plain(PublicIpCreated)
        /\ \A i, T : Plain(NetAccessPointCreated(i, T))
    BY DEF NetPeeringCreated, PublicIpCreated, NetAccessPointCreated, Plain, Cloud
  <1>7. /\ \A i, j : Plain(RouteTableLinked(i, j)) /\ Plain(PeeringRouteSet(i, j))
        /\ \A i : Plain(RouteCreated(i)) /\ Plain(NetPeeringTagged(i)) /\ Plain(ManagementRouteCreated(i))
        /\ \A i, s : Plain(NetPeeringIs(i, s))
    BY <1>2 DEF RouteTableLinked, PeeringRouteSet, RouteCreated, NetPeeringTagged, ManagementRouteCreated,
                NetPeeringIs
  <1>. QED BY <1>1, <1>3, <1>4, <1>5, <1>6, <1>7

(* A step that sends such a request, or none. *)
Sends == Plain(cloud') /\ faults' \in {faults, faults + 1}

LEMMA SendsOnly ==
  ASSUME TypeOK
  PROVE  /\ \A a, m : Continue(a, m) => Sends
         /\ \A m : EndPass(m) => Sends
         /\ \A c, a, s, m : Call(c, a, s, m) /\ Plain(c) => Sends
  <1>1. Plain(cloud) BY PlainRequests
  <1>2. \A a, m : Continue(a, m) => Sends BY <1>1 DEF Continue, Sends
  <1>3. \A c, a, s, m : Call(c, a, s, m) /\ Plain(c) => Sends BY <1>1 DEF Call, Sends
  <1>. QED BY <1>2, <1>3 DEF EndPass

(* A step after which the nets and the internet services are what they were. *)
LEMMA SameNets ==
  ASSUME ClusterInv, TearInv, ClusterInv', Builds, at.phase \in BuildPhase,
         ~At("net", "tag"), ~At("internetService", "link"),
         cloud'.nets = cloud.nets, cloud'.iss = cloud.iss, faults' \in {faults, faults + 1},
         GroupsHeld', PubHeld'
  PROVE  TearInv'
  <1>1. TypeOK /\ TypeOK' /\ ReuseNet' = ReuseNet BY DEF ClusterInv, Builds, ReuseNet
  <1>2. faults' >= faults BY <1>1, ScopeAssumption DEF TypeOK
  <1>3. ~At("dIs", "delete") BY DEF At, BuildPhase
  <1>4. Lost' \subseteq Lost BY <1>3, AllLost
  <1>5. ~ReuseNet => Distinct(cloud.nets)' /\ Distinct(cloud.iss)' BY DEF TearInv, StraysOk, Distinct
  <1>6. StraysOk' BY <1>1, <1>2, <1>4, <1>5, LostStays DEF TearInv
  <1>. QED BY <1>6, BuildTear

LEMMA PlainBuild ==
  ASSUME ClusterInv, TearInv, ClusterInv', Builds, at.phase \in BuildPhase,
         ~At("net", "tag"), ~At("internetService", "link"), Sends
  PROVE  TearInv'
  <1>1. ReuseNet' = ReuseNet BY DEF Builds, ReuseNet
  <1>2. GroupsHeld' BY <1>1 DEF Sends, Plain, TearInv, Held, GroupsHeld, InNet, Tagged
  <1>3. PubHeld' BY <1>1 DEF Sends, Plain, TearInv, Held, PubHeld, HoldsPub, HasPub
  <1>. QED BY <1>2, <1>3, SameNets DEF Sends, Plain

(* The steps of a pass that builds and that make nothing but such things. *)
LookStep ==
  \/ Skip \/ FoundNet \/ StartSubnets \/ EndSubnets \/ StartRouteTables \/ EndRouteTables
  \/ StartSecurityGroups \/ EndSecurityGroups \/ ConfigureHealthCheck \/ SetReady

PlainStep ==
  \/ (\E r \in Ranges : VisitSubnet(r)) \/ (\E r \in Ranges : VisitRouteTable(r))
  \/ LinkRouteTable \/ ReconcileRoute \/ ReconcileNatService \/ CreateNatService
  \/ ReconcileNetPeering \/ TagNetPeering \/ AcceptNetPeering
  \/ StartPeeringRoutes \/ RoutePeering \/ ReconcileNetAccessPoint \/ ReconcileBastion

LEMMA LookSends ==
  ASSUME TypeOK, LookStep
  PROVE  Sends /\ at.phase \in BuildPhase /\ ~At("net", "tag") /\ ~At("internetService", "link")
  <1>1. /\ \A a, m : Continue(a, m) => Sends
        /\ \A m : EndPass(m) => Sends
        /\ \A a, s, m : Call(cloud, a, s, m) => Sends
    BY SendsOnly, PlainRequests
  <1>2. CASE Skip BY <1>1, <1>2 DEF Skip, At, BuildPhase, Reconcilers
  <1>3. CASE FoundNet BY <1>1, <1>3 DEF FoundNet, At, BuildPhase
  <1>4. CASE StartSubnets BY <1>1, <1>4 DEF StartSubnets, At, BuildPhase
  <1>5. CASE EndSubnets BY <1>1, <1>5 DEF EndSubnets, At, BuildPhase
  <1>6. CASE StartRouteTables BY <1>1, <1>6 DEF StartRouteTables, At, BuildPhase, RtPhases
  <1>7. CASE EndRouteTables BY <1>1, <1>7 DEF EndRouteTables, At, BuildPhase, RtPhases
  <1>8. CASE StartSecurityGroups BY <1>1, <1>8 DEF StartSecurityGroups, At, BuildPhase
  <1>9. CASE EndSecurityGroups BY <1>1, <1>9 DEF EndSecurityGroups, At, BuildPhase
  <1>10. CASE ConfigureHealthCheck
    BY <1>1, <1>10 DEF ConfigureHealthCheck, LoadBalancerConfigured, At, BuildPhase
  <1>11. CASE SetReady BY <1>1, <1>11 DEF SetReady, At, BuildPhase
  <1>. QED BY <1>2, <1>3, <1>4, <1>5, <1>6, <1>7, <1>8, <1>9, <1>10, <1>11 DEF LookStep

LEMMA PlainSends ==
  ASSUME TypeOK, PlainStep
  PROVE  Sends /\ at.phase \in BuildPhase /\ ~At("net", "tag") /\ ~At("internetService", "link")
  <1>1. /\ \A a, m : Continue(a, m) => Sends
        /\ \A m : EndPass(m) => Sends
    BY SendsOnly
  <1>2. ASSUME NEW r \in Ranges, VisitSubnet(r)
        PROVE  Sends /\ at.phase \in BuildPhase /\ ~At("net", "tag") /\ ~At("internetService", "link")
    <2>1. \A i, q, a, s, m : Call(SubnetCreated(i, q), a, s, m) => Sends BY SendsOnly, PlainRequests
    <2>. QED BY <1>1, <1>2, <2>1 DEF VisitSubnet, At, BuildPhase
  <1>3. ASSUME NEW r \in Ranges, VisitRouteTable(r)
        PROVE  Sends /\ at.phase \in BuildPhase /\ ~At("net", "tag") /\ ~At("internetService", "link")
    <2>1. \A i, a, s, m : Call(RouteTableCreated(i), a, s, m) => Sends BY SendsOnly, PlainRequests
    <2>. QED BY <1>1, <1>3, <2>1 DEF VisitRouteTable, At, BuildPhase, RtPhases
  <1>4. CASE LinkRouteTable
    <2>1. \A i, j, a, s, m : Call(RouteTableLinked(i, j), a, s, m) => Sends BY SendsOnly, PlainRequests
    <2>. QED BY <1>4, <2>1 DEF LinkRouteTable, At, BuildPhase, RtPhases
  <1>5. CASE ReconcileRoute
    <2>1. \A i, a, s, m : Call(RouteCreated(i), a, s, m) => Sends BY SendsOnly, PlainRequests
    <2>. QED BY <1>1, <1>5, <2>1 DEF ReconcileRoute, At, BuildPhase, RtPhases
  <1>6. CASE ReconcileNatService
    <2>1. \A a, s, m : Call(PublicIpCreated, a, s, m) => Sends BY SendsOnly, PlainRequests
    <2>. QED BY <1>1, <1>6, <2>1 DEF ReconcileNatService, At, BuildPhase
  <1>7. CASE CreateNatService
    <2>1. \A i, j, a, s, m : Call(NatServiceCreated(i, j), a, s, m) => Sends BY SendsOnly, PlainRequests
    <2>. QED BY <1>1, <1>7, <2>1 DEF CreateNatService, At, BuildPhase
  <1>8. CASE ReconcileNetPeering
    <2>1. \A i, a, s, m : Call(NetPeeringCreated(i), a, s, m) => Sends BY SendsOnly, PlainRequests
    <2>2. PeeringIs(mem, {"active", "pending-acceptance"}) =>
            PeeringIs(mem, {"active"}) \/ PeeringIs(mem, {"pending-acceptance"})
      BY DEF PeeringIs
    <2>. QED BY <1>1, <1>8, <2>1, <2>2 DEF ReconcileNetPeering, At, BuildPhase
  <1>9. CASE TagNetPeering
    <2>1. \A i, a, s, m : Call(NetPeeringTagged(i), a, s, m) => Sends BY SendsOnly, PlainRequests
    <2>. QED BY <1>9, <2>1 DEF TagNetPeering, At, BuildPhase
  <1>10. CASE AcceptNetPeering
    <2>1. \A i, q, a, s, m : Call(NetPeeringIs(i, q), a, s, m) => Sends BY SendsOnly, PlainRequests
    <2>. QED BY <1>10, <2>1 DEF AcceptNetPeering, At, BuildPhase
  <1>11. CASE StartPeeringRoutes
    <2>1. \A i, a, s, m : Call(ManagementRouteCreated(i), a, s, m) => Sends BY SendsOnly, PlainRequests
    <2>. QED BY <1>1, <1>11, <2>1 DEF StartPeeringRoutes, At, BuildPhase
  <1>12. CASE RoutePeering
    <2>1. \A i, j, a, s, m : Call(PeeringRouteSet(i, j), a, s, m) => Sends BY SendsOnly, PlainRequests
    <2>. QED BY <1>1, <1>12, <2>1 DEF RoutePeering, At, BuildPhase
  <1>13. CASE ReconcileNetAccessPoint
    <2>1. \A i, T, a, s, m : Call(NetAccessPointCreated(i, T), a, s, m) => Sends BY SendsOnly, PlainRequests
    <2>. QED BY <1>1, <1>13, <2>1 DEF ReconcileNetAccessPoint, At, BuildPhase
  <1>14. CASE ReconcileBastion
    <2>1. \A a, s, m : Call(PublicIpCreated, a, s, m) => Sends BY SendsOnly, PlainRequests
    <2>. QED BY <1>1, <1>14, <2>1 DEF ReconcileBastion, At, BuildPhase
  <1>. QED BY <1>2, <1>3, <1>4, <1>5, <1>6, <1>7, <1>8, <1>9, <1>10, <1>11, <1>12, <1>13, <1>14 DEF PlainStep

LEMMA PlainTear ==
  ASSUME ClusterInv, TearInv, BuildStep, LookStep \/ PlainStep PROVE TearInv'
  <1>1. TypeOK BY DEF ClusterInv
  <1>2. Sends /\ at.phase \in BuildPhase /\ ~At("net", "tag") /\ ~At("internetService", "link")
    BY <1>1, LookSends, PlainSends
  <1>. QED BY <1>2, BuildStepsOk, PlainBuild

(* How a call ends: answered, or with a fault. *)
LEMMA CallEnds ==
  ASSUME NEW c, NEW a, NEW s, NEW m, Call(c, a, s, m)
  PROVE  \/ cloud' = c /\ at' = a /\ mem' = m /\ faults' = faults
         \/ /\ cloud' = c \/ cloud' = cloud
            /\ at' = Start("patch") /\ mem' = s /\ faults' = faults + 1
  BY DEF Call

(* Groups and what is in the public subnet, in a step about nets or services. *)
LEMMA AccessKept ==
  ASSUME TearInv, ReuseNet' = ReuseNet, cloud'.subnets = cloud.subnets, cloud'.sgs = cloud.sgs,
         cloud'.lb = cloud.lb, cloud'.vms = cloud.vms,
         Ids(Tagged(cloud.nets)) \subseteq Ids(Tagged(cloud'.nets))
  PROVE  GroupsHeld' /\ PubHeld'
  <1>1. GroupsHeld' BY DEF TearInv, Held, GroupsHeld, InNet, Ids
  <1>2. PubHeld' BY DEF TearInv, Held, PubHeld, HoldsPub, HasPub
  <1>. QED BY <1>1, <1>2

LEMMA CreateNetTear == ASSUME ClusterInv, TearInv, CreateNet PROVE TearInv'
  <1>1. at.phase = "net" /\ at.step = "start" /\ at.phase \in BuildPhase /\ ~ReuseNet
    BY DEF CreateNet, At, BuildPhase
  <1>2. ClusterInv' /\ Builds BY CreateNetOk
  <1>3. TypeOK /\ TypeOK' /\ CloudOk' BY <1>2, Building, <1>1 DEF ClusterInv, Builds, BuildInv
  <1>4. ReuseNet' = ReuseNet BY <1>2 DEF Builds, ReuseNet
  <1>5. PICK a : a = [at EXCEPT !.step = "tag", !.id = cloud.next] OBVIOUS
  <1>6. a.phase = "net" /\ a.step = "tag" /\ a.id = cloud.next
    <2>1. at \in Position BY <1>3 DEF TypeOK
    <2>. QED BY <1>1, <1>5, <2>1 DEF Position
  <1>7. PICK new : new = [id |-> cloud.next, tagged |-> FALSE] OBVIOUS
  <1>8. new.id = cloud.next /\ ~new.tagged BY <1>7
  <1>9. cloud' = NetCreated =>
          /\ cloud'.nets = cloud.nets \cup {new} /\ cloud'.iss = cloud.iss /\ cloud'.subnets = cloud.subnets
          /\ cloud'.sgs = cloud.sgs /\ cloud'.lb = cloud.lb /\ cloud'.vms = cloud.vms
    BY <1>3, <1>7 DEF NetCreated, TypeOK, Cloud
  <1>10. Call(NetCreated, a, mem, mem) BY <1>5 DEF CreateNet
  <1>11. /\ cloud' = NetCreated \/ cloud' = cloud
         /\ \/ cloud' = NetCreated /\ at' = a /\ faults' = faults
            \/ faults' = faults + 1
    BY <1>10, CallEnds
  <1>12. Ids(Tagged(cloud.nets)) \subseteq Ids(Tagged(cloud'.nets)) BY <1>9, <1>11 DEF Ids, Tagged
  <1>13. GroupsHeld' /\ PubHeld' BY <1>4, <1>9, <1>11, <1>12, AccessKept
  <1>14. Distinct(cloud.nets) /\ Distinct(cloud.iss) /\ Distinct(cloud.nets)' /\ Distinct(cloud.iss)'
    BY <1>1, <1>3 DEF CloudOk, NetsOk, ServicesOk, TearInv, StraysOk
  <1>15. \A x : ~TagsNext(x) /\ ~LinksNext(x) BY <1>1 DEF TagsNext, LinksNext, At
  <1>16. CASE cloud' = NetCreated /\ at' = a /\ faults' = faults
    <2>1. Lost' \subseteq Lost
      <3>1. \A n \in cloud'.nets : n.id = cloud.next \/ n \in cloud.nets BY <1>8, <1>9, <1>16
      <3>2. \A n : n.id = cloud.next => TagsNext(n)' BY <1>6, <1>16 DEF TagsNext, At
      <3>. QED BY <1>9, <1>15, <1>16, <3>1, <3>2 DEF Lost
    <2>2. faults' >= faults BY <1>3, <1>16, ScopeAssumption DEF TypeOK
    <2>. QED BY <1>1, <1>2, <1>3, <1>4, <1>13, <1>14, <2>1, <2>2, LostStays, BuildTear DEF TearInv
  <1>17. CASE faults' = faults + 1
    <2>1. Lost' \subseteq Lost \cup {new} BY <1>9, <1>11, <1>15 DEF Lost
    <2>. QED BY <1>1, <1>2, <1>3, <1>4, <1>13, <1>14, <1>17, <2>1, LostStays, BuildTear DEF TearInv
  <1>. QED BY <1>11, <1>16, <1>17

LEMMA TagNetTear == ASSUME ClusterInv, TearInv, TagNet PROVE TearInv'
  <1>1. at.phase = "net" /\ at.step = "tag" /\ At("net", "tag") /\ at.phase \in BuildPhase
    BY DEF TagNet, At, BuildPhase
  <1>2. ClusterInv' /\ Builds BY TagNetOk
  <1>3. TypeOK /\ TypeOK' /\ CloudOk' BY <1>2, Building, <1>1 DEF ClusterInv, Builds, BuildInv
  <1>4. ReuseNet' = ReuseNet BY <1>2 DEF Builds, ReuseNet
  <1>5. ~ReuseNet /\ Tagged(cloud.nets) = {} BY <1>1, Building DEF CallsOk
  <1>6. cloud' = NetTagged(at.id) =>
          /\ cloud'.nets = {IF n.id = at.id THEN [n EXCEPT !.tagged = TRUE] ELSE n : n \in cloud.nets}
          /\ cloud'.iss = cloud.iss /\ cloud'.subnets = cloud.subnets
          /\ cloud'.sgs = cloud.sgs /\ cloud'.lb = cloud.lb /\ cloud'.vms = cloud.vms
    BY <1>3 DEF NetTagged, TypeOK, Cloud
  <1>7. /\ cloud' = NetTagged(at.id) \/ cloud' = cloud
        /\ \/ cloud' = NetTagged(at.id) /\ faults' = faults
           \/ faults' = faults + 1
    BY CallEnds DEF TagNet
  <1>8. GroupsHeld' /\ PubHeld' BY <1>4, <1>5, <1>6, <1>7, AccessKept DEF Ids
  <1>9. Distinct(cloud.nets) /\ Distinct(cloud.iss) /\ Distinct(cloud.nets)' /\ Distinct(cloud.iss)'
    BY <1>3, <1>5 DEF CloudOk, NetsOk, ServicesOk, TearInv, StraysOk
  <1>10. faults' >= faults BY <1>3, <1>7, ScopeAssumption DEF TypeOK
  <1>11. CASE cloud' = NetTagged(at.id)
    <2>1. Lost' \subseteq Lost
      <3>1. \A x : ~LinksNext(x) BY <1>1 DEF LinksNext, At
      <3>2. \A x \in cloud'.nets : ~x.tagged => x \in cloud.nets /\ x.id # at.id
        <4>1. \A n \in cloud.nets : [n EXCEPT !.tagged = TRUE].tagged BY <1>3, CloudFields DEF Net
        <4>. QED BY <1>6, <1>11, <4>1
      <3>. QED BY <1>6, <1>11, <3>1, <3>2 DEF Lost, TagsNext
    <2>. QED BY <1>1, <1>2, <1>3, <1>4, <1>8, <1>9, <1>10, <2>1, LostStays, BuildTear DEF TearInv
  <1>12. CASE cloud' = cloud /\ faults' = faults + 1
    BY <1>1, <1>2, <1>3, <1>4, <1>8, <1>9, <1>12, LostByFault, LostStays, BuildTear DEF TearInv
  <1>. QED BY <1>7, <1>11, <1>12

LEMMA ReconcileInternetServiceTear == ASSUME ClusterInv, TearInv, ReconcileInternetService PROVE TearInv'
  <1>1. at.phase = "internetService" /\ at.step = "start" /\ at.phase \in BuildPhase
    BY DEF ReconcileInternetService, At, BuildPhase
  <1>2. ClusterInv' /\ Builds BY ReconcileInternetServiceOk
  <1>3. TypeOK /\ TypeOK' /\ CloudOk' BY <1>2, Building, <1>1 DEF ClusterInv, Builds, BuildInv
  <1>4. ReuseNet' = ReuseNet BY <1>2 DEF Builds, ReuseNet
  <1>5. PICK a : a = [at EXCEPT !.step = "link", !.id = cloud.next] OBVIOUS
  <1>6. a.phase = "internetService" /\ a.step = "link" /\ a.id = cloud.next
    <2>1. at \in Position BY <1>3 DEF TypeOK
    <2>. QED BY <1>1, <1>5, <2>1 DEF Position
  <1>7. PICK new : new = [id |-> cloud.next, net |-> 0] OBVIOUS
  <1>8. new.id = cloud.next /\ new.net = 0 BY <1>7
  <1>9. cloud' = InternetServiceCreated =>
          /\ cloud'.nets = cloud.nets /\ cloud'.iss = cloud.iss \cup {new} /\ cloud'.subnets = cloud.subnets
          /\ cloud'.sgs = cloud.sgs /\ cloud'.lb = cloud.lb /\ cloud'.vms = cloud.vms
    BY <1>3, <1>7 DEF InternetServiceCreated, TypeOK, Cloud
  <1>10. \/ Sends
         \/ ~ReuseNet /\ Call(InternetServiceCreated, a, WithNet(mem), WithNet(mem))
    <2>1. /\ \A b, m : Continue(b, m) => Sends
          /\ \A m : EndPass(m) => Sends
      BY <1>3, SendsOnly
    <2>. QED BY <1>5, <2>1 DEF ReconcileInternetService
  <1>11. CASE Sends
    BY <1>1, <1>2, <1>11, PlainBuild DEF At
  <1>12. CASE ~ReuseNet /\ Call(InternetServiceCreated, a, WithNet(mem), WithNet(mem))
    <2>1. /\ cloud' = InternetServiceCreated \/ cloud' = cloud
          /\ \/ cloud' = InternetServiceCreated /\ at' = a /\ faults' = faults
             \/ faults' = faults + 1
      BY <1>12, CallEnds
    <2>2. GroupsHeld' /\ PubHeld' BY <1>4, <1>9, <2>1, AccessKept
    <2>3. Distinct(cloud.nets) /\ Distinct(cloud.iss) /\ Distinct(cloud.nets)' /\ Distinct(cloud.iss)'
      BY <1>3, <1>12 DEF CloudOk, NetsOk, ServicesOk, TearInv, StraysOk
    <2>4. \A x : ~TagsNext(x) /\ ~LinksNext(x) BY <1>1 DEF TagsNext, LinksNext, At
    <2>5. CASE cloud' = InternetServiceCreated /\ at' = a /\ faults' = faults
      <3>1. Lost' \subseteq Lost
        <4>1. \A i \in cloud'.iss : i.id = cloud.next \/ i \in cloud.iss BY <1>8, <1>9, <2>5
        <4>2. \A i : i.id = cloud.next => LinksNext(i)' BY <1>6, <2>5 DEF LinksNext, At
        <4>. QED BY <1>9, <2>4, <2>5, <4>1, <4>2 DEF Lost
      <3>2. faults' >= faults BY <1>3, <2>5, ScopeAssumption DEF TypeOK
      <3>. QED BY <1>1, <1>2, <1>3, <1>4, <2>2, <2>3, <3>1, <3>2, LostStays, BuildTear DEF TearInv
    <2>6. CASE faults' = faults + 1
      <3>1. Lost' \subseteq Lost \cup {new} BY <1>9, <2>1, <2>4 DEF Lost
      <3>. QED BY <1>1, <1>2, <1>3, <1>4, <2>2, <2>3, <2>6, <3>1, LostStays, BuildTear DEF TearInv
    <2>. QED BY <2>1, <2>5, <2>6
  <1>. QED BY <1>10, <1>11, <1>12

LEMMA LinkInternetServiceTear == ASSUME ClusterInv, TearInv, LinkInternetService PROVE TearInv'
  <1>1. at.phase = "internetService" /\ at.step = "link" /\ At("internetService", "link") /\ at.phase \in BuildPhase
    BY DEF LinkInternetService, At, BuildPhase
  <1>2. ClusterInv' /\ Builds BY LinkInternetServiceOk
  <1>3. TypeOK /\ TypeOK' /\ CloudOk' BY <1>2, Building, <1>1 DEF ClusterInv, Builds, BuildInv
  <1>4. ReuseNet' = ReuseNet BY <1>2 DEF Builds, ReuseNet
  <1>5. ~ReuseNet BY <1>1, Building DEF CallsOk
  <1>6. NetId(mem) # 0 BY <1>1, <1>5, NetThere, BeforeFacts
  <1>7. PICK j : j = NetId(mem) OBVIOUS
  <1>8. cloud' = InternetServiceLinked(at.id, j) =>
          /\ cloud'.iss = {IF x.id = at.id THEN [x EXCEPT !.net = j] ELSE x : x \in cloud.iss}
          /\ cloud'.nets = cloud.nets /\ cloud'.subnets = cloud.subnets
          /\ cloud'.sgs = cloud.sgs /\ cloud'.lb = cloud.lb /\ cloud'.vms = cloud.vms
    BY <1>3 DEF InternetServiceLinked, TypeOK, Cloud
  <1>9. /\ cloud' = InternetServiceLinked(at.id, j) \/ cloud' = cloud
        /\ \/ cloud' = InternetServiceLinked(at.id, j) /\ faults' = faults
           \/ faults' = faults + 1
    BY <1>7, CallEnds DEF LinkInternetService
  <1>10. GroupsHeld' /\ PubHeld' BY <1>4, <1>8, <1>9, AccessKept
  <1>11. Distinct(cloud.nets) /\ Distinct(cloud.iss) /\ Distinct(cloud.nets)' /\ Distinct(cloud.iss)'
    BY <1>3, <1>5 DEF CloudOk, NetsOk, ServicesOk, TearInv, StraysOk
  <1>12. faults' >= faults BY <1>3, <1>9, ScopeAssumption DEF TypeOK
  <1>13. CASE cloud' = InternetServiceLinked(at.id, j)
    <2>1. Lost' \subseteq Lost
      <3>1. \A x : ~TagsNext(x) BY <1>1 DEF TagsNext, At
      <3>2. \A x \in cloud'.iss : x.net = 0 => x \in cloud.iss /\ x.id # at.id
        <4>1. \A x \in cloud.iss : [x EXCEPT !.net = j].net # 0
          BY <1>3, <1>6, <1>7, CloudFields DEF InternetService
        <4>. QED BY <1>8, <1>13, <4>1
      <3>. QED BY <1>8, <1>13, <3>1, <3>2 DEF Lost, LinksNext
    <2>. QED BY <1>1, <1>2, <1>3, <1>4, <1>10, <1>11, <1>12, <2>1, LostStays, BuildTear DEF TearInv
  <1>14. CASE cloud' = cloud /\ faults' = faults + 1
    BY <1>1, <1>2, <1>3, <1>4, <1>10, <1>11, <1>14, LostByFault, LostStays, BuildTear DEF TearInv
  <1>. QED BY <1>9, <1>13, <1>14

(* The handlers of the groups, the load balancer and the bastion come after *)
(* those of the net and of the subnets.                                     *)
LEMMA BeforeAccess ==
  Before("net", "securityGroup") /\ Before("subnet", "loadbalancer") /\ Before("subnet", "bastion")
  <1>1. /\ BuildOrder[1] = "net" /\ BuildOrder[2] = "subnet" /\ BuildOrder[10] = "securityGroup"
        /\ BuildOrder[11] = "loadbalancer" /\ BuildOrder[12] = "bastion"
    BY DEF BuildOrder
  <1>2. /\ Before(BuildOrder[1], BuildOrder[10]) /\ Before(BuildOrder[2], BuildOrder[11])
        /\ Before(BuildOrder[2], BuildOrder[12])
    BY HandlerOrder
  <1>. QED BY <1>1, <1>2

LEMMA PubThere ==
  ASSUME ClusterInv, at.phase \in {"loadbalancer", "bastion"}, ~ReuseNet PROVE HasPub
  <1>1. at.phase \in BuildPhase BY DEF BuildPhase
  <1>2. "subnet" \in Owned BY DEF Owned
  <1>3. Made("subnet", mem.spec) /\ Pub \in mem.spec BY <1>1, <1>2, Building, BeforeAccess
  <1>. QED BY <1>3 DEF Made, HasSubnet, HasPub

LEMMA VisitSecurityGroupTear ==
  ASSUME ClusterInv, TearInv, NEW s \in SGNames, VisitSecurityGroup(s) PROVE TearInv'
  <1>1. at.phase = "securityGroup" /\ at.step = "loop" /\ at.phase \in BuildPhase
    BY DEF VisitSecurityGroup, At, BuildPhase
  <1>2. ClusterInv' /\ Builds BY VisitSecurityGroupOk
  <1>3. TypeOK BY DEF ClusterInv
  <1>4. ReuseNet' = ReuseNet BY <1>2 DEF Builds, ReuseNet
  <1>5. PICK j : j = NetId(mem) OBVIOUS
  <1>6. ~ReuseNet => j \in Ids(Tagged(cloud.nets)) BY <1>1, <1>5, NetThere, BeforeAccess
  <1>7. PICK g : g = [id |-> cloud.next, net |-> j, name |-> s, ruled |-> FALSE] OBVIOUS
  <1>8. g.net = j BY <1>7
  <1>9. cloud' = SecurityGroupCreated(j, s) =>
          /\ cloud'.sgs = cloud.sgs \cup {g} /\ cloud'.nets = cloud.nets /\ cloud'.iss = cloud.iss
          /\ cloud'.subnets = cloud.subnets /\ cloud'.lb = cloud.lb /\ cloud'.vms = cloud.vms
    BY <1>3, <1>7 DEF SecurityGroupCreated, TypeOK, Cloud
  <1>10. \/ Sends
         \/ /\ cloud' = SecurityGroupCreated(j, s) \/ cloud' = cloud
            /\ faults' \in {faults, faults + 1}
    <2>1. /\ \A b, m : Continue(b, m) => Sends
          /\ \A b, u, m : Call(SecurityGroupCreated(j, s), b, u, m) =>
               /\ cloud' = SecurityGroupCreated(j, s) \/ cloud' = cloud
               /\ faults' \in {faults, faults + 1}
      BY <1>3, SendsOnly, CallEnds
    <2>. QED BY <1>5, <2>1 DEF VisitSecurityGroup
  <1>11. CASE Sends BY <1>1, <1>2, <1>11, PlainBuild DEF At
  <1>12. CASE /\ cloud' = SecurityGroupCreated(j, s) \/ cloud' = cloud
              /\ faults' \in {faults, faults + 1}
    <2>1. GroupsHeld'
      <3>. SUFFICES ASSUME ~ReuseNet, NEW x \in cloud'.sgs PROVE \E n \in Tagged(cloud'.nets) : x.net = n.id
        BY <1>4 DEF GroupsHeld, InNet
      <3>1. InNet(cloud.sgs) BY DEF TearInv, Held, GroupsHeld
      <3>. QED BY <1>6, <1>8, <1>9, <1>12, <3>1 DEF InNet, Ids
    <2>2. PubHeld' BY <1>4, <1>9, <1>12 DEF TearInv, Held, PubHeld, HoldsPub, HasPub
    <2>. QED BY <1>1, <1>2, <1>9, <1>12, <2>1, <2>2, SameNets DEF At
  <1>. QED BY <1>10, <1>11, <1>12

LEMMA AddRulesTear == ASSUME ClusterInv, TearInv, AddRules PROVE TearInv'
  <1>1. at.phase = "securityGroup" /\ at.step = "rules" /\ at.phase \in BuildPhase
    BY DEF AddRules, At, BuildPhase
  <1>2. ClusterInv' /\ Builds BY AddRulesOk
  <1>3. TypeOK BY DEF ClusterInv
  <1>4. ReuseNet' = ReuseNet BY <1>2 DEF Builds, ReuseNet
  <1>5. cloud' = SecurityGroupRuled(at.id) =>
          /\ cloud'.sgs = {IF g.id = at.id THEN [g EXCEPT !.ruled = TRUE] ELSE g : g \in cloud.sgs}
          /\ cloud'.nets = cloud.nets /\ cloud'.iss = cloud.iss
          /\ cloud'.subnets = cloud.subnets /\ cloud'.lb = cloud.lb /\ cloud'.vms = cloud.vms
    BY <1>3 DEF SecurityGroupRuled, TypeOK, Cloud
  <1>6. \/ Sends
        \/ /\ cloud' = SecurityGroupRuled(at.id) \/ cloud' = cloud
           /\ faults' \in {faults, faults + 1}
    <2>1. /\ \A b, m : Continue(b, m) => Sends
          /\ \A b, u, m : Call(SecurityGroupRuled(at.id), b, u, m) =>
               /\ cloud' = SecurityGroupRuled(at.id) \/ cloud' = cloud
               /\ faults' \in {faults, faults + 1}
      BY <1>3, SendsOnly, CallEnds
    <2>. QED BY <2>1 DEF AddRules
  <1>7. CASE Sends BY <1>1, <1>2, <1>7, PlainBuild DEF At
  <1>8. CASE /\ cloud' = SecurityGroupRuled(at.id) \/ cloud' = cloud
             /\ faults' \in {faults, faults + 1}
    <2>1. \A x \in cloud'.sgs : \E g \in cloud.sgs : x.net = g.net
      <3>1. \A g \in cloud.sgs : [g EXCEPT !.ruled = TRUE].net = g.net BY <1>3, CloudFields DEF SecurityGroup
      <3>2. CASE cloud' = cloud BY <3>2
      <3>3. CASE cloud' = SecurityGroupRuled(at.id)
        <4>. TAKE x \in cloud'.sgs
        <4>1. PICK g \in cloud.sgs : x = IF g.id = at.id THEN [g EXCEPT !.ruled = TRUE] ELSE g
          BY <1>5, <3>3
        <4>2. x.net = g.net BY <3>1, <4>1
        <4>. QED BY <4>2
      <3>. QED BY <1>8, <3>2, <3>3
    <2>2. GroupsHeld' BY <1>4, <1>5, <1>8, <2>1 DEF TearInv, Held, GroupsHeld, InNet
    <2>3. PubHeld' BY <1>4, <1>5, <1>8 DEF TearInv, Held, PubHeld, HoldsPub, HasPub
    <2>. QED BY <1>1, <1>2, <1>5, <1>8, <2>2, <2>3, SameNets DEF At
  <1>. QED BY <1>6, <1>7, <1>8

(* What runs in the public subnet is made when that subnet is there. *)
LEMMA AccessTear ==
  ASSUME ClusterInv, TearInv, ReconcileLoadBalancer \/ TagLoadBalancer \/ CreateBastion
  PROVE  TearInv'
  <1>1. at.phase \in {"loadbalancer", "bastion"} /\ at.phase \in BuildPhase
    BY DEF ReconcileLoadBalancer, TagLoadBalancer, CreateBastion, At, BuildPhase
  <1>2. ClusterInv' /\ Builds BY ReconcileLoadBalancerOk, TagLoadBalancerOk, CreateBastionOk
  <1>3. TypeOK BY DEF ClusterInv
  <1>4. ReuseNet' = ReuseNet BY <1>2 DEF Builds, ReuseNet
  <1>. DEFINE Same(c) == /\ c.nets = cloud.nets /\ c.iss = cloud.iss
                         /\ c.subnets = cloud.subnets /\ c.sgs = cloud.sgs
  <1>5. Same(cloud) /\ Same(LoadBalancerCreated) /\ Same(LoadBalancerTagged) /\ \A i : Same(BastionCreated(i))
    BY <1>3 DEF LoadBalancerCreated, LoadBalancerTagged, BastionCreated, TypeOK, Cloud
  <1>. HIDE DEF Same
  <1>6. /\ \A b, m : Continue(b, m) => Same(cloud') /\ faults' \in {faults, faults + 1}
        /\ \A m : EndPass(m) => Same(cloud') /\ faults' \in {faults, faults + 1}
        /\ \A c, b, u, m : Call(c, b, u, m) /\ Same(c) => Same(cloud') /\ faults' \in {faults, faults + 1}
    BY <1>5 DEF EndPass, Continue, Call
  <1>7. Same(cloud') /\ faults' \in {faults, faults + 1}
    <2>1. CASE ReconcileLoadBalancer
      <3>1. cloud.lb \in LbState BY <1>3, CloudFields
      <3>2. \A b, u, m : Call(LoadBalancerCreated, b, u, m) => Same(cloud') /\ faults' \in {faults, faults + 1}
        BY <1>5, <1>6
      <3>. QED BY <1>6, <2>1, <3>1, <3>2 DEF ReconcileLoadBalancer, LbState
    <2>2. CASE TagLoadBalancer BY <1>5, <1>6, <2>2 DEF TagLoadBalancer
    <2>3. CASE CreateBastion BY <1>5, <1>6, <2>3 DEF CreateBastion
    <2>. QED BY <2>1, <2>2, <2>3
  <1>8. GroupsHeld' BY <1>4, <1>7 DEF Same, TearInv, Held, GroupsHeld, InNet
  <1>9. PubHeld' BY <1>1, <1>4, <1>7, PubThere DEF Same, PubHeld, HasPub
  <1>. QED BY <1>1, <1>2, <1>7, <1>8, <1>9, SameNets DEF Same, At

LEMMA BuildStepsTear == ASSUME ClusterInv, TearInv, BuildStep PROVE TearInv'
  <1>1. CASE LookStep \/ PlainStep BY <1>1, PlainTear
  <1>2. CASE CreateNet \/ TagNet BY <1>2, CreateNetTear, TagNetTear
  <1>3. CASE ReconcileInternetService \/ LinkInternetService
    BY <1>3, ReconcileInternetServiceTear, LinkInternetServiceTear
  <1>4. CASE (\E s \in SGNames : VisitSecurityGroup(s)) \/ AddRules
    BY <1>4, VisitSecurityGroupTear, AddRulesTear
  <1>5. CASE ReconcileLoadBalancer \/ TagLoadBalancer \/ CreateBastion BY <1>5, AccessTear
  <1>. QED BY <1>1, <1>2, <1>3, <1>4, <1>5 DEF BuildStep, LookStep, PlainStep

(* A step that leaves the cloud alone. *)
LEMMA QuietStrays ==
  ASSUME TypeOK, TypeOK', StraysOk, cloud' = cloud, ReuseNet' = ReuseNet,
         \/ at' = at /\ faults' = faults
         \/ faults' = faults + 1
         \/ faults' = faults /\ ~At("net", "tag") /\ ~At("internetService", "link") /\ ~At("dIs", "delete")
  PROVE  StraysOk'
  <1>1. ~ReuseNet => /\ Distinct(cloud.nets) /\ Distinct(cloud.iss)
                     /\ Distinct(cloud.nets)' /\ Distinct(cloud.iss)'
    BY DEF StraysOk, Distinct
  <1>2. faults' >= faults BY ScopeAssumption DEF TypeOK
  <1>3. CASE at' = at /\ faults' = faults
    <2>1. Lost' = Lost BY <1>3 DEF Lost, TagsNext, LinksNext, At
    <2>. QED BY <1>1, <1>2, <2>1, LostStays
  <1>4. CASE faults' = faults + 1
    <2>1. CASE ReuseNet BY <2>1 DEF StraysOk
    <2>2. CASE ~ReuseNet BY <1>1, <1>4, <2>2, LostByFault, LostStays
    <2>. QED BY <2>1, <2>2
  <1>5. CASE faults' = faults /\ ~At("net", "tag") /\ ~At("internetService", "link") /\ ~At("dIs", "delete")
    BY <1>1, <1>2, <1>5, AllLost, LostStays
  <1>. QED BY <1>3, <1>4, <1>5

LEMMA QuietTear ==
  ASSUME ClusterInv, TearInv, ClusterInv', cloud' = cloud, obj'.opt = obj.opt, Spared' => Spared,
         AllTraced',
         \/ at' = at /\ faults' = faults
         \/ faults' = faults + 1
         \/ faults' = faults /\ ~At("net", "tag") /\ ~At("internetService", "link") /\ ~At("dIs", "delete"),
         ~ReuseNet /\ "removed" \in {obj'.fin, cache'.fin, old'.fin, mem'.fin} => Gone,
         at'.phase = "dFinal" /\ ~ReuseNet => Gone,
         at'.phase = "dPeering" => NoRoutes
  PROVE  TearInv'
  <1>1. TypeOK /\ TypeOK' /\ ReuseNet' = ReuseNet BY DEF ClusterInv, ReuseNet
  <1>2. StraysOk' BY <1>1, QuietStrays DEF TearInv
  <1>3. Held'
    BY <1>1 DEF TearInv, Held, GroupsHeld, PubHeld, HoldsPub, HasPub, InNet, Live, Linked, Tagged, Distinct
  <1>4. RoutesOk' BY <1>1 DEF TearInv, RoutesOk, Active
  <1>5. Gone => Gone' BY DEF Gone
  <1>6. Finalized' BY <1>1, <1>5 DEF Finalized
  <1>7. at'.phase = "dPeering" => NoRoutes' BY DEF NoRoutes
  <1>. QED BY <1>2, <1>3, <1>4, <1>6, <1>7 DEF TearInv

LEMMA NoScopeTraced == NoScope.st.net = 0 /\ NoScope.st.peer = 0 /\ NoScope.fin = "none"
  BY DEF NoScope, NewOscCluster, NoResources

(* What the invariant says of the four copies, field by field. *)
LEMMA CopyFields ==
  ASSUME ClusterInv, TearInv
  PROVE  /\ obj \in OscCluster /\ cache \in OscCluster /\ old \in OscCluster /\ mem \in OscCluster
         /\ Traced(obj) /\ Traced(cache) /\ Traced(old) /\ Traced(mem)
         /\ ~ReuseNet =>
              /\ obj.fin = "removed" => Gone
              /\ cache.fin = "removed" => Gone
              /\ old.fin = "removed" => Gone
              /\ mem.fin = "removed" => Gone
              /\ at.phase = "dFinal" => Gone
         /\ at.phase = "dPeering" => NoRoutes
         /\ mem.del => cache.del
         /\ cache.del => obj.del
         /\ at.phase = "idle" => ~mem.del
  BY DEF ClusterInv, TypeOK, Passes, TearInv, AllTraced, Finalized

LEMMA ReconcileTear == ASSUME ClusterInv, TearInv, Reconcile PROVE TearInv'
  <1>1. ClusterInv' BY ReconcileOk
  <1>2. cache \in OscCluster /\ Traced(cache) /\ Traced(obj) BY CopyFields
  <1>3. /\ at.phase = "idle" /\ UNCHANGED <<cloud, obj, cache, machines, faults, edits>> /\ old' = cache
        /\ \/ cache.del /\ mem' = cache /\ at' = Start("dMachines")
           \/ ~cache.del /\ mem' = [cache EXCEPT !.fin = "set"] /\ at' = Start("net")
    BY DEF Reconcile
  <1>4. [cache EXCEPT !.fin = "set"].st = cache.st /\ [cache EXCEPT !.fin = "set"].fin = "set"
    BY <1>2 DEF OscCluster
  <1>5. mem'.st = cache.st /\ (mem'.fin = cache.fin \/ mem'.fin = "set") BY <1>3, <1>4
  <1>6. AllTraced' BY <1>2, <1>3, <1>5 DEF AllTraced, Traced
  <1>7. Spared' => Spared BY <1>3 DEF Spared
  <1>8. at'.phase \in {"net", "dMachines"} BY <1>3 DEF Start
  <1>9. ~At("net", "tag") /\ ~At("internetService", "link") /\ ~At("dIs", "delete") BY <1>3 DEF At
  <1>10. ~ReuseNet /\ "removed" \in {obj'.fin, cache'.fin, old'.fin, mem'.fin} => Gone
    BY <1>3, <1>5, CopyFields
  <1>. QED BY <1>1, <1>3, <1>6, <1>7, <1>8, <1>9, <1>10, QuietTear

LEMMA CloseObjectTear == ASSUME ClusterInv, TearInv, CloseObject PROVE TearInv'
  <1>1. ClusterInv' BY CloseObjectOk
  <1>2. /\ at.phase = "patch" /\ at' = Start("status") /\ Patch(PatchedObject)
        /\ UNCHANGED <<cloud, cache, old, mem, machines>>
    BY DEF CloseObject, Patch
  <1>3. obj \in OscCluster BY CopyFields
  <1>4. PICK p : p = PatchedObject OBVIOUS
  <1>5. p.st = obj.st /\ p.opt = obj.opt /\ (p.fin = mem.fin \/ p.fin = obj.fin)
    <2>1. PICK f : f = Merge(old.fin, mem.fin, obj.fin) OBVIOUS
    <2>2. f = mem.fin \/ f = obj.fin BY <2>1 DEF Merge
    <2>3. p.fin = f /\ p.st = obj.st /\ p.opt = obj.opt
      BY <1>3, <1>4, <2>1 DEF PatchedObject, OscCluster
    <2>. QED BY <2>2, <2>3
  <1>6. (obj' = p \/ obj' = obj) /\ (faults' = faults \/ faults' = faults + 1) BY <1>2, <1>4 DEF Patch
  <1>7. obj'.st = obj.st /\ obj'.opt = obj.opt /\ (obj'.fin = mem.fin \/ obj'.fin = obj.fin) BY <1>5, <1>6
  <1>8. AllTraced' BY <1>2, <1>7, CopyFields DEF AllTraced, Traced
  <1>9. at'.phase = "status" BY <1>2 DEF Start
  <1>10. Spared' => Spared BY <1>2, <1>9 DEF Spared
  <1>11. ~At("net", "tag") /\ ~At("internetService", "link") /\ ~At("dIs", "delete") BY <1>2 DEF At
  <1>12. ~ReuseNet /\ "removed" \in {obj'.fin, cache'.fin, old'.fin, mem'.fin} => Gone
    BY <1>2, <1>7, CopyFields
  <1>. QED BY <1>1, <1>2, <1>6, <1>7, <1>8, <1>9, <1>10, <1>11, <1>12, QuietTear

LEMMA CloseStatusTear == ASSUME ClusterInv, TearInv, CloseStatus PROVE TearInv'
  <1>1. ClusterInv' BY CloseStatusOk
  <1>2. /\ at.phase = "status" /\ at' = Start("idle") /\ Patch(PatchedStatus)
        /\ UNCHANGED <<cloud, cache, machines>> /\ old' = NoScope /\ mem' = NoScope
    BY DEF CloseStatus, Patch
  <1>3. obj \in OscCluster BY CopyFields
  <1>4. PICK p : p = PatchedStatus OBVIOUS
  <1>5. /\ p.opt = obj.opt /\ p.fin = obj.fin
        /\ p.st.net = mem.st.net \/ p.st.net = obj.st.net
        /\ p.st.peer = mem.st.peer \/ p.st.peer = obj.st.peer
    <2>1. PICK s : s = MergeResources(old.st, mem.st, obj.st) OBVIOUS
    <2>2. /\ s.net = mem.st.net \/ s.net = obj.st.net
          /\ s.peer = mem.st.peer \/ s.peer = obj.st.peer
      BY <2>1 DEF MergeResources, Merge
    <2>3. p.st = s /\ p.opt = obj.opt /\ p.fin = obj.fin
      BY <1>3, <1>4, <2>1 DEF PatchedStatus, OscCluster
    <2>. QED BY <2>2, <2>3
  <1>6. (obj' = p \/ obj' = obj) /\ (faults' = faults \/ faults' = faults + 1) BY <1>2, <1>4 DEF Patch
  <1>7. obj'.opt = obj.opt /\ obj'.fin = obj.fin BY <1>5, <1>6
  <1>8. AllTraced'
    <2>1. Traced(obj)' BY <1>2, <1>5, <1>6, CopyFields DEF Traced
    <2>2. Traced(cache)' BY <1>2, CopyFields DEF Traced
    <2>3. Traced(old)' /\ Traced(mem)' BY <1>2, NoScopeTraced DEF Traced
    <2>. QED BY <2>1, <2>2, <2>3 DEF AllTraced
  <1>9. at'.phase = "idle" BY <1>2 DEF Start
  <1>10. Spared' => Spared BY <1>2, <1>9 DEF Spared
  <1>11. ~At("net", "tag") /\ ~At("internetService", "link") /\ ~At("dIs", "delete") BY <1>2 DEF At
  <1>12. ~ReuseNet /\ "removed" \in {obj'.fin, cache'.fin, old'.fin, mem'.fin} => Gone
    BY <1>2, <1>7, CopyFields, NoScopeTraced
  <1>. QED BY <1>1, <1>2, <1>6, <1>7, <1>8, <1>9, <1>10, <1>11, <1>12, QuietTear

LEMMA LookupFailsTear == ASSUME ClusterInv, TearInv, LookupFails PROVE TearInv'
  <1>1. ClusterInv' BY LookupFailsOk
  <1>2. /\ at.phase # "idle" /\ faults' = faults + 1 /\ at' = Start("patch")
        /\ UNCHANGED <<cloud, obj, cache, old, mem, machines>>
    BY DEF LookupFails
  <1>3. at'.phase = "patch" BY <1>2 DEF Start
  <1>4. AllTraced' BY <1>2, CopyFields DEF AllTraced, Traced
  <1>5. Spared' => Spared BY <1>2, <1>3 DEF Spared
  <1>6. ~ReuseNet /\ "removed" \in {obj'.fin, cache'.fin, old'.fin, mem'.fin} => Gone BY <1>2, CopyFields
  <1>. QED BY <1>1, <1>2, <1>3, <1>4, <1>5, <1>6, QuietTear

LEMMA CrashTear == ASSUME ClusterInv, TearInv, Crash PROVE TearInv'
  <1>1. ClusterInv' BY CrashOk
  <1>2. /\ faults' = faults + 1 /\ at' = Start("idle") /\ old' = NoScope /\ mem' = NoScope
        /\ UNCHANGED <<cloud, obj, cache, machines>>
    BY DEF Crash
  <1>3. at'.phase = "idle" BY <1>2 DEF Start
  <1>4. AllTraced' BY <1>2, CopyFields, NoScopeTraced DEF AllTraced, Traced
  <1>5. Spared' => Spared BY <1>2, <1>3 DEF Spared
  <1>6. ~ReuseNet /\ "removed" \in {obj'.fin, cache'.fin, old'.fin, mem'.fin} => Gone
    BY <1>2, CopyFields, NoScopeTraced
  <1>. QED BY <1>1, <1>2, <1>3, <1>4, <1>5, <1>6, QuietTear

(* A step of the world around the pass: what changes is the object, or the  *)
(* informer's copy of it, or whether there are Machines.                    *)
LEMMA WorldTear ==
  ASSUME ClusterInv, TearInv, ClusterInv', UNCHANGED <<cloud, old, mem, at, faults>>,
         obj'.opt = obj.opt, obj'.st = obj.st, obj'.fin = obj.fin, cache' = cache \/ cache' = obj,
         Spared' => Spared
  PROVE  TearInv'
  <1>1. cache'.st \in {cache.st, obj.st} /\ cache'.fin \in {cache.fin, obj.fin} OBVIOUS
  <1>2. AllTraced' BY <1>1, CopyFields DEF AllTraced, Traced
  <1>3. ~ReuseNet /\ "removed" \in {obj'.fin, cache'.fin, old'.fin, mem'.fin} => Gone BY <1>1, CopyFields
  <1>4. at'.phase = "dFinal" /\ ~ReuseNet => Gone BY CopyFields
  <1>5. at'.phase = "dPeering" => NoRoutes BY CopyFields
  <1>. QED BY <1>2, <1>3, <1>4, <1>5, QuietTear

LEMMA EnvironmentTear ==
  ASSUME ClusterInv, TearInv,
         Sync \/ Edit \/ Delete \/ MachinesAppear \/ MachinesVanish \/ UNCHANGED vars
  PROVE  TearInv'
  <1>1. ClusterInv' BY SyncOk, EditOk, DeleteOk, MachinesAppearOk, MachinesVanishOk, StutterOk
  <1>2. obj \in OscCluster /\ (cache.del => obj.del) BY CopyFields
  <1>3. CASE Sync
    <2>1. UNCHANGED <<cloud, old, mem, at, faults, obj, machines>> /\ cache' = obj
      BY <1>3 DEF Sync, PassUnchanged
    <2>2. Spared' => Spared BY <1>2, <2>1 DEF Spared
    <2>. QED BY <1>1, <2>1, <2>2, WorldTear
  <1>4. CASE Edit
    <2>1. PICK s \in Specs \ {obj.spec} : obj' = [obj EXCEPT !.spec = s, !.gen = obj.gen + 1]
      BY <1>4, Zenon DEF Edit
    <2>2. UNCHANGED <<cloud, cache, old, mem, at, faults, machines>> BY <1>4, Zenon DEF Edit, PassUnchanged
    <2>3. obj'.opt = obj.opt /\ obj'.st = obj.st /\ obj'.fin = obj.fin BY <1>2, <2>1 DEF OscCluster
    <2>4. Spared' => Spared BY <2>2 DEF Spared
    <2>. QED BY <1>1, <2>2, <2>3, <2>4, WorldTear
  <1>5. CASE Delete
    <2>1. obj' = [obj EXCEPT !.del = TRUE, !.gen = @ + 1, !.exists = (obj.fin = "set")] BY <1>5 DEF Delete
    <2>2. UNCHANGED <<cloud, cache, old, mem, at, faults, machines>> BY <1>5 DEF Delete, PassUnchanged
    <2>3. obj'.opt = obj.opt /\ obj'.st = obj.st /\ obj'.fin = obj.fin BY <1>2, <2>1 DEF OscCluster
    <2>4. Spared' => Spared BY <2>2 DEF Spared
    <2>. QED BY <1>1, <2>2, <2>3, <2>4, WorldTear
  <1>6. CASE MachinesAppear \/ MachinesVanish
    <2>1. UNCHANGED <<cloud, obj, cache, old, mem, at, faults>>
      BY <1>6 DEF MachinesAppear, MachinesVanish, PassUnchanged
    <2>2. ~obj.del \/ machines BY <1>6 DEF MachinesAppear, MachinesVanish
    <2>3. Spared BY <1>2, <2>2 DEF Spared
    <2>. QED BY <1>1, <2>1, <2>3, WorldTear
  <1>7. CASE UNCHANGED vars
    <2>1. UNCHANGED <<cloud, obj, cache, old, mem, at, faults, machines>> BY <1>7 DEF vars
    <2>2. Spared' => Spared BY <2>1 DEF Spared
    <2>. QED BY <1>1, <2>1, <2>2, WorldTear
  <1>. QED BY <1>3, <1>4, <1>5, <1>6, <1>7

(* What a deletion may do: the net goes only when nothing is in it, and the *)
(* public subnet only when nothing runs in it; nothing new is there, a      *)
(* route to a peering is only ever taken away, and a peering goes only when *)
(* there are no routes to it.                                               *)
Wanes ==
  /\ cloud'.nets \subseteq cloud.nets
  /\ \A n \in Tagged(cloud.nets) : n \in cloud'.nets \/ ~NetInUse(n.id)
  /\ cloud'.subnets \subseteq cloud.subnets
  /\ HasPub => HasPub' \/ ~HoldsPub
  /\ HoldsPub' => HoldsPub
  /\ cloud'.sgs \subseteq cloud.sgs /\ cloud'.naps \subseteq cloud.naps
  /\ Linked' \subseteq Linked
  /\ \A t \in cloud'.rts : \E u \in cloud.rts : u.net = t.net /\ (t.peer = 0 \/ t.peer = u.peer)
  /\ \A n \in cloud'.nats : \E u \in cloud.nats : u.net = n.net
  /\ \A p \in Live' : \E q \in Live : q.net = p.net
  /\ Ids(Tagged(cloud.peerings)) \subseteq Ids(Tagged(cloud'.peerings))
  /\ cloud.peerings = {} => cloud'.peerings = {}
  /\ NoRoutes \/ \A i : Active(i) => Active(i)'
  /\ cloud'.mgmt \subseteq cloud.mgmt

LEMMA WaneHeld == ASSUME TypeOK, Held, Wanes, ReuseNet' = ReuseNet PROVE Held'
  <1>. SUFFICES ASSUME ~ReuseNet PROVE Held' BY DEF Held, GroupsHeld, PubHeld
  <1>1. \A x \in cloud.subnets \cup Linked \cup cloud.rts \cup cloud.nats \cup cloud.sgs \cup cloud.naps \cup Live :
          \E n \in Tagged(cloud.nets) : x.net = n.id
    BY DEF Held, GroupsHeld, InNet
  <1>2. \A x \in cloud.subnets \cup Linked \cup cloud.rts \cup cloud.nats \cup cloud.sgs \cup cloud.naps \cup Live :
          NetInUse(x.net)
    BY DEF NetInUse, Linked, Live
  <1>3. \A x \in cloud.subnets \cup Linked \cup cloud.rts \cup cloud.nats \cup cloud.sgs \cup cloud.naps \cup Live :
          \E n \in Tagged(cloud'.nets) : x.net = n.id
    BY <1>1, <1>2 DEF Wanes, Tagged
  <1>4. InNet(cloud.subnets)' /\ InNet(Linked)' /\ InNet(cloud.sgs)' /\ InNet(cloud.naps)'
    BY <1>3 DEF InNet, Wanes
  <1>5. InNet(cloud.rts)' BY <1>3 DEF InNet, Wanes
  <1>6. InNet(cloud.nats)' BY <1>3 DEF InNet, Wanes
  <1>7. InNet(Live)' BY <1>3 DEF InNet, Wanes
  <1>8. Distinct(cloud.subnets)' BY DEF Held, Distinct, Wanes
  <1>9. \A n \in Tagged(cloud'.nets) : n.id # 0 BY DEF Held, Tagged, Wanes
  <1>10. PubHeld' BY DEF Held, PubHeld, Wanes
  <1>. QED BY <1>4, <1>5, <1>6, <1>7, <1>8, <1>9, <1>10 DEF Held, GroupsHeld

LEMMA WaneRoutes == ASSUME RoutesOk, Wanes, ReuseNet' = ReuseNet PROVE RoutesOk'
  <1>1. ReuseNet' => cloud'.peerings = {} BY DEF RoutesOk, Wanes
  <1>2. NoRoutes => NoRoutes' BY DEF NoRoutes, Wanes
  <1>3. CASE NoRoutes BY <1>1, <1>2, <1>3 DEF NoRoutes, RoutesOk
  <1>4. CASE \A i : Active(i) => Active(i)'
    <2>1. \A i \in cloud'.mgmt : Active(i)' BY <1>4 DEF RoutesOk, Wanes
    <2>2. \A t \in cloud'.rts : t.peer = 0 \/ Active(t.peer) BY DEF RoutesOk, Wanes
    <2>3. \A t \in cloud'.rts : t.peer = 0 \/ Active(t.peer)' BY <1>4, <2>2
    <2>. QED BY <1>1, <2>1, <2>3 DEF RoutesOk
  <1>. QED BY <1>3, <1>4 DEF Wanes

LEMMA WaneTraced == ASSUME NoDuplicates, Wanes, NEW m, Traced(m) PROVE Traced(m)'
  <1>1. Tagged(cloud'.nets) \subseteq Tagged(cloud.nets) /\ AtMostOne(Tagged(cloud.nets))
    BY DEF Wanes, NoDuplicates, Tagged
  <1>2. Tagged(cloud'.nets) # {} => Tagged(cloud'.nets) = Tagged(cloud.nets) BY <1>1 DEF AtMostOne
  <1>3. Ids(Tagged(cloud.peerings)) \subseteq Ids(Tagged(cloud'.peerings)) BY DEF Wanes
  <1>. QED BY <1>1, <1>2, <1>3 DEF Traced

(* A step that only takes away keeps the invariant if no stray is lost      *)
(* without a fault, and if the pass is where it may be.                     *)
LEMMA WaneTear ==
  ASSUME ClusterInv, TearInv, ClusterInv', UNCHANGED <<obj, cache, old>>, Spared' => Spared,
         mem'.fin = mem.fin, NEW w, mem' = w, Traced(w), Wanes, StraysOk',
         at'.phase = "dFinal" /\ ~ReuseNet => ~Spared /\ Tagged(cloud'.nets) = {},
         at'.phase = "dPeering" => NoRoutes
  PROVE  TearInv'
  <1>1. TypeOK /\ NoDuplicates /\ ReuseNet' = ReuseNet BY DEF ClusterInv, ReuseNet
  <1>2. Held' /\ RoutesOk' BY <1>1, WaneHeld, WaneRoutes DEF TearInv
  <1>3. AllTraced'
    <2>1. PICK o, c, d : o = obj /\ c = cache /\ d = old OBVIOUS
    <2>2. Traced(o) /\ Traced(c) /\ Traced(d) BY <2>1, CopyFields
    <2>3. Traced(o)' /\ Traced(c)' /\ Traced(d)' /\ Traced(w)' BY <1>1, <2>2, WaneTraced
    <2>4. obj' = o /\ cache' = c /\ old' = d BY <2>1
    <2>. QED BY <2>3, <2>4 DEF AllTraced
  <1>4. Gone => Gone' BY DEF Gone, Wanes, Tagged
  <1>5. Finalized' BY <1>1, <1>4, CopyFields DEF Finalized, Gone
  <1>6. at'.phase = "dPeering" => NoRoutes' BY DEF NoRoutes, Wanes
  <1>. QED BY <1>2, <1>3, <1>5, <1>6 DEF TearInv

(* A deletion of something other than a net or an internet service. *)
Eases == Wanes /\ cloud'.nets = cloud.nets /\ cloud'.iss = cloud.iss

LEMMA SameEases ==
  ASSUME cloud'.nets = cloud.nets, cloud'.iss = cloud.iss,
         cloud'.subnets = cloud.subnets, cloud'.sgs \subseteq cloud.sgs, cloud'.naps \subseteq cloud.naps,
         cloud'.peerings = cloud.peerings, cloud'.mgmt \subseteq cloud.mgmt,
         HoldsPub' => HoldsPub,
         \A t \in cloud'.rts : \E u \in cloud.rts : u.net = t.net /\ (t.peer = 0 \/ t.peer = u.peer),
         \A n \in cloud'.nats : \E u \in cloud.nats : u.net = n.net
  PROVE  Eases
  <1>1. HasPub => HasPub' BY DEF HasPub
  <1>2. Linked' = Linked /\ Live' = Live BY DEF Linked, Live
  <1>3. \A i : Active(i) => Active(i)' BY DEF Active
  <1>4. \A n \in Tagged(cloud.nets) : n \in cloud'.nets BY DEF Tagged
  <1>. QED BY <1>1, <1>2, <1>3, <1>4 DEF Eases, Wanes

LEMMA CloudEases == ASSUME cloud' = cloud PROVE Eases
  <1>1. HoldsPub' => HoldsPub BY DEF HoldsPub
  <1>. QED BY <1>1, SameEases

LEMMA SimpleEases ==
  ASSUME TypeOK, NEW V,
         \/ cloud' = [cloud EXCEPT !.ips = V]
         \/ cloud' = [cloud EXCEPT !.naps = V] /\ V \subseteq cloud.naps
         \/ cloud' = [cloud EXCEPT !.mgmt = V] /\ V \subseteq cloud.mgmt
         \/ cloud' = [cloud EXCEPT !.lb = V] /\ V = "none"
         \/ cloud' = [cloud EXCEPT !.sgs = V] /\ V \subseteq cloud.sgs
  PROVE  Eases
  <1>1. /\ cloud'.iss = cloud.iss /\ cloud'.rts = cloud.rts /\ cloud'.nats = cloud.nats
        /\ cloud'.vms = cloud.vms /\ cloud'.peerings = cloud.peerings
        /\ cloud'.nets = cloud.nets /\ cloud'.subnets = cloud.subnets
        /\ cloud'.naps \subseteq cloud.naps /\ cloud'.mgmt \subseteq cloud.mgmt /\ cloud'.sgs \subseteq cloud.sgs
        /\ cloud'.lb = cloud.lb \/ cloud'.lb = "none"
    BY DEF TypeOK, Cloud
  <1>2. HoldsPub' => HoldsPub BY <1>1 DEF HoldsPub
  <1>. QED BY <1>1, <1>2, SameEases

LEMMA VmsEase ==
  ASSUME TypeOK, NEW V, cloud' = [cloud EXCEPT !.vms = V], (\E v \in V : Alive(v)) => HoldsPub
  PROVE  Eases
  <1>1. /\ cloud'.vms = V /\ cloud'.lb = cloud.lb /\ cloud'.mgmt = cloud.mgmt
        /\ cloud'.nets = cloud.nets /\ cloud'.subnets = cloud.subnets /\ cloud'.iss = cloud.iss
        /\ cloud'.rts = cloud.rts /\ cloud'.nats = cloud.nats
        /\ cloud'.sgs = cloud.sgs /\ cloud'.peerings = cloud.peerings /\ cloud'.naps = cloud.naps
    BY DEF TypeOK, Cloud
  <1>2. HoldsPub' => HoldsPub BY <1>1 DEF HoldsPub
  <1>. QED BY <1>1, <1>2, SameEases

LEMMA NatsEase ==
  ASSUME TypeOK, NEW V, cloud' = [cloud EXCEPT !.nats = V], \A n \in V : \E u \in cloud.nats : u.net = n.net
  PROVE  Eases
  <1>1. /\ cloud'.nats = V /\ cloud'.lb = cloud.lb /\ cloud'.mgmt = cloud.mgmt
        /\ cloud'.nets = cloud.nets /\ cloud'.subnets = cloud.subnets /\ cloud'.iss = cloud.iss
        /\ cloud'.rts = cloud.rts /\ cloud'.vms = cloud.vms
        /\ cloud'.sgs = cloud.sgs /\ cloud'.peerings = cloud.peerings /\ cloud'.naps = cloud.naps
    BY DEF TypeOK, Cloud
  <1>2. HoldsPub' => HoldsPub BY <1>1 DEF HoldsPub
  <1>. QED BY <1>1, <1>2, SameEases

LEMMA TablesEase ==
  ASSUME TypeOK, NEW V, cloud' = [cloud EXCEPT !.rts = V],
         \A t \in V : \E u \in cloud.rts : u.net = t.net /\ (t.peer = 0 \/ t.peer = u.peer)
  PROVE  Eases
  <1>1. /\ cloud'.rts = V /\ cloud'.lb = cloud.lb /\ cloud'.mgmt = cloud.mgmt
        /\ cloud'.nets = cloud.nets /\ cloud'.subnets = cloud.subnets /\ cloud'.iss = cloud.iss
        /\ cloud'.nats = cloud.nats /\ cloud'.vms = cloud.vms
        /\ cloud'.sgs = cloud.sgs /\ cloud'.peerings = cloud.peerings /\ cloud'.naps = cloud.naps
    BY DEF TypeOK, Cloud
  <1>2. HoldsPub' => HoldsPub BY <1>1 DEF HoldsPub
  <1>. QED BY <1>1, <1>2, SameEases

LEMMA PeeringEases ==
  ASSUME TypeOK, NoRoutes, NEW i, cloud' = NetPeeringIs(i, "deleted")
  PROVE  Eases
  <1>. DEFINE F(p) == IF p.id = i THEN [p EXCEPT !.state = "deleted"] ELSE p
  <1>1. PICK V : V = {F(p) : p \in cloud.peerings} OBVIOUS
  <1>2. cloud' = [cloud EXCEPT !.peerings = V] BY <1>1 DEF NetPeeringIs
  <1>3. /\ cloud'.peerings = V /\ cloud'.lb = cloud.lb /\ cloud'.mgmt = cloud.mgmt
        /\ cloud'.nets = cloud.nets /\ cloud'.subnets = cloud.subnets /\ cloud'.iss = cloud.iss
        /\ cloud'.nats = cloud.nats /\ cloud'.vms = cloud.vms
        /\ cloud'.sgs = cloud.sgs /\ cloud'.rts = cloud.rts /\ cloud'.naps = cloud.naps
    BY <1>2 DEF TypeOK, Cloud
  <1>4. \A p \in cloud.peerings : F(p).id = p.id /\ F(p).tagged = p.tagged /\ (~LivePeering(F(p)) \/ F(p) = p)
    BY CloudFields DEF NetPeering, LivePeering
  <1>. HIDE DEF F
  <1>5. HoldsPub' => HoldsPub BY <1>3 DEF HoldsPub
  <1>6. Live' \subseteq Live BY <1>1, <1>3, <1>4 DEF Live
  <1>7. Ids(Tagged(cloud.peerings)) \subseteq Ids(Tagged(cloud'.peerings))
    BY <1>1, <1>3, <1>4 DEF Ids, Tagged
  <1>8. cloud.peerings = {} => cloud'.peerings = {} BY <1>1, <1>3
  <1>9. HasPub => HasPub' BY <1>3 DEF HasPub
  <1>10. Linked' = Linked BY <1>3 DEF Linked
  <1>11. \A n \in Tagged(cloud.nets) : n \in cloud'.nets BY <1>3 DEF Tagged
  <1>. QED BY <1>3, <1>5, <1>6, <1>7, <1>8, <1>9, <1>10, <1>11 DEF Eases, Wanes

(* The requests of the teardown. *)
LEMMA RequestsEase ==
  ASSUME TypeOK, NEW i
  PROVE  /\ cloud' = VmDeleted(i) /\ (\E v \in cloud.vms : Alive(v)) => Eases
         /\ cloud' = LoadBalancerDeleted => Eases
         /\ cloud' = NatServiceDeleted(i) => Eases
         /\ cloud' = PublicIpDeleted(i) => Eases
         /\ cloud' = NetAccessPointDeleted(i) => Eases
         /\ cloud' = ManagementRouteDeleted(i) => Eases
         /\ cloud' = PeeringRouteSet(i, 0) => Eases
         /\ cloud' = RouteTableUnlinked(i) => Eases
         /\ cloud' = RouteTableDeleted(i) => Eases
         /\ cloud' = SecurityGroupDeleted(i) => Eases
  <1>1. cloud' = VmDeleted(i) /\ (\E v \in cloud.vms : Alive(v)) => Eases
    <2>. HAVE cloud' = VmDeleted(i) /\ \E v \in cloud.vms : Alive(v)
    <2>1. HoldsPub BY DEF HoldsPub
    <2>2. PICK V : cloud' = [cloud EXCEPT !.vms = V] BY DEF VmDeleted
    <2>. QED BY <2>1, <2>2, VmsEase
  <1>2. cloud' = LoadBalancerDeleted => Eases BY SimpleEases DEF LoadBalancerDeleted
  <1>3. cloud' = NatServiceDeleted(i) => Eases
    <2>. HAVE cloud' = NatServiceDeleted(i)
    <2>. DEFINE F(n) == IF n.id = i THEN [n EXCEPT !.deleting = TRUE] ELSE n
    <2>1. PICK V : V = {F(n) : n \in cloud.nats} OBVIOUS
    <2>2. cloud' = [cloud EXCEPT !.nats = V] BY <2>1 DEF NatServiceDeleted
    <2>3. \A n \in cloud.nats : F(n).net = n.net BY CloudFields DEF NatService
    <2>. HIDE DEF F
    <2>4. \A n \in V : \E u \in cloud.nats : u.net = n.net BY <2>1, <2>3
    <2>. QED BY <2>2, <2>4, NatsEase
  <1>4. cloud' = PublicIpDeleted(i) => Eases BY SimpleEases DEF PublicIpDeleted
  <1>5. cloud' = NetAccessPointDeleted(i) => Eases
    <2>1. {n \in cloud.naps : n.id # i} \subseteq cloud.naps OBVIOUS
    <2>. QED BY <2>1, SimpleEases DEF NetAccessPointDeleted
  <1>6. cloud' = ManagementRouteDeleted(i) => Eases BY SimpleEases DEF ManagementRouteDeleted
  <1>7. cloud' = PeeringRouteSet(i, 0) => Eases
    <2>. HAVE cloud' = PeeringRouteSet(i, 0)
    <2>. DEFINE F(t) == IF t.id = i THEN [t EXCEPT !.peer = 0] ELSE t
    <2>1. PICK V : V = {F(t) : t \in cloud.rts} OBVIOUS
    <2>2. cloud' = [cloud EXCEPT !.rts = V] BY <2>1 DEF PeeringRouteSet
    <2>3. \A t \in cloud.rts : F(t).net = t.net /\ (F(t).peer = 0 \/ F(t).peer = t.peer)
      BY CloudFields DEF RouteTable
    <2>. HIDE DEF F
    <2>4. \A t \in V : \E u \in cloud.rts : u.net = t.net /\ (t.peer = 0 \/ t.peer = u.peer) BY <2>1, <2>3
    <2>. QED BY <2>2, <2>4, TablesEase
  <1>8. cloud' = RouteTableUnlinked(i) => Eases
    <2>. HAVE cloud' = RouteTableUnlinked(i)
    <2>. DEFINE F(t) == IF t.id = i THEN [t EXCEPT !.sub = 0] ELSE t
    <2>1. PICK V : V = {F(t) : t \in cloud.rts} OBVIOUS
    <2>2. cloud' = [cloud EXCEPT !.rts = V] BY <2>1 DEF RouteTableUnlinked, RouteTableLinked
    <2>3. \A t \in cloud.rts : F(t).net = t.net /\ F(t).peer = t.peer BY CloudFields DEF RouteTable
    <2>. HIDE DEF F
    <2>4. \A t \in V : \E u \in cloud.rts : u.net = t.net /\ (t.peer = 0 \/ t.peer = u.peer) BY <2>1, <2>3
    <2>. QED BY <2>2, <2>4, TablesEase
  <1>9. cloud' = RouteTableDeleted(i) => Eases
    <2>. HAVE cloud' = RouteTableDeleted(i)
    <2>1. PICK V : V = {t \in cloud.rts : t.id # i} OBVIOUS
    <2>2. cloud' = [cloud EXCEPT !.rts = V] BY <2>1 DEF RouteTableDeleted
    <2>. QED BY <2>1, <2>2, TablesEase
  <1>10. cloud' = SecurityGroupDeleted(i) => Eases
    <2>1. {g \in cloud.sgs : g.id # i} \subseteq cloud.sgs OBVIOUS
    <2>. QED BY <2>1, SimpleEases DEF SecurityGroupDeleted
  <1>. QED BY <1>1, <1>2, <1>3, <1>4, <1>5, <1>6, <1>7, <1>8, <1>9, <1>10

LEMMA CloudStepEases == ASSUME TypeOK, VmBoots \/ VmTerminates \/ NatVanishes PROVE Eases
  <1>1. CASE VmBoots \/ VmTerminates
    <2>1. PICK v \in cloud.vms : Alive(v) /\ \E V : cloud' = [cloud EXCEPT !.vms = V]
      BY <1>1 DEF VmBoots, VmTerminates, Alive
    <2>2. HoldsPub BY <2>1 DEF HoldsPub
    <2>. QED BY <2>1, <2>2, VmsEase
  <1>2. CASE NatVanishes
    <2>1. PICK n \in cloud.nats : cloud' = [cloud EXCEPT !.nats = cloud.nats \ {n}] BY <1>2 DEF NatVanishes
    <2>. QED BY <2>1, NatsEase
  <1>. QED BY <1>1, <1>2

(* The three deletions that the cloud may refuse or that make strays. *)
LEMMA SubnetWanes ==
  ASSUME TypeOK, NEW s \in cloud.subnets, Distinct(cloud.subnets), ~SubnetInUse(s), cloud' = SubnetDeleted(s.id)
  PROVE  Wanes /\ cloud'.nets = cloud.nets /\ cloud'.iss = cloud.iss
  <1>1. PICK V : V = {x \in cloud.subnets : x.id # s.id} OBVIOUS
  <1>2. cloud' = [cloud EXCEPT !.subnets = V] BY <1>1 DEF SubnetDeleted
  <1>3. /\ cloud'.subnets = V /\ cloud'.lb = cloud.lb /\ cloud'.mgmt = cloud.mgmt /\ cloud'.peerings = cloud.peerings
        /\ cloud'.nets = cloud.nets /\ cloud'.iss = cloud.iss
        /\ cloud'.nats = cloud.nats /\ cloud'.vms = cloud.vms
        /\ cloud'.sgs = cloud.sgs /\ cloud'.rts = cloud.rts /\ cloud'.naps = cloud.naps
    BY <1>2 DEF TypeOK, Cloud
  <1>4. HasPub => HasPub' \/ ~HoldsPub
    <2>1. s.range = Pub => ~HoldsPub BY DEF SubnetInUse, HoldsPub
    <2>2. \A x \in cloud.subnets : x \in V \/ x = s BY <1>1 DEF Distinct
    <2>. QED BY <1>3, <2>1, <2>2 DEF HasPub
  <1>5. HoldsPub' => HoldsPub BY <1>3 DEF HoldsPub
  <1>6. Linked' = Linked /\ Live' = Live BY <1>3 DEF Linked, Live
  <1>7. \A i : Active(i) => Active(i)' BY <1>3 DEF Active
  <1>8. \A n \in Tagged(cloud.nets) : n \in cloud'.nets BY <1>3 DEF Tagged
  <1>. QED BY <1>1, <1>3, <1>4, <1>5, <1>6, <1>7, <1>8 DEF Wanes

LEMMA NetWanes ==
  ASSUME TypeOK, NEW i, ~NetInUse(i), cloud' = NetDeleted(i)
  PROVE  Wanes /\ cloud'.nets = {n \in cloud.nets : n.id # i} /\ cloud'.iss = cloud.iss
  <1>1. PICK V : V = {n \in cloud.nets : n.id # i} OBVIOUS
  <1>2. cloud' = [cloud EXCEPT !.nets = V] BY <1>1 DEF NetDeleted
  <1>3. /\ cloud'.nets = V /\ cloud'.lb = cloud.lb /\ cloud'.mgmt = cloud.mgmt /\ cloud'.peerings = cloud.peerings
        /\ cloud'.subnets = cloud.subnets /\ cloud'.iss = cloud.iss
        /\ cloud'.nats = cloud.nats /\ cloud'.vms = cloud.vms
        /\ cloud'.sgs = cloud.sgs /\ cloud'.rts = cloud.rts /\ cloud'.naps = cloud.naps
    BY <1>2 DEF TypeOK, Cloud
  <1>4. HasPub => HasPub' BY <1>3 DEF HasPub
  <1>5. HoldsPub' => HoldsPub BY <1>3 DEF HoldsPub
  <1>6. Linked' = Linked /\ Live' = Live BY <1>3 DEF Linked, Live
  <1>7. \A j : Active(j) => Active(j)' BY <1>3 DEF Active
  <1>8. \A n \in Tagged(cloud.nets) : n \in cloud'.nets \/ ~NetInUse(n.id) BY <1>1, <1>3 DEF Tagged
  <1>. QED BY <1>1, <1>3, <1>4, <1>5, <1>6, <1>7, <1>8 DEF Wanes

LEMMA ServicesWane ==
  ASSUME TypeOK, NEW V, cloud' = [cloud EXCEPT !.iss = V], \A x \in V : x.net # 0 => x \in cloud.iss
  PROVE  Wanes /\ cloud'.nets = cloud.nets /\ cloud'.iss = V
  <1>1. /\ cloud'.iss = V /\ cloud'.lb = cloud.lb /\ cloud'.mgmt = cloud.mgmt /\ cloud'.peerings = cloud.peerings
        /\ cloud'.subnets = cloud.subnets /\ cloud'.nets = cloud.nets
        /\ cloud'.nats = cloud.nats /\ cloud'.vms = cloud.vms
        /\ cloud'.sgs = cloud.sgs /\ cloud'.rts = cloud.rts /\ cloud'.naps = cloud.naps
    BY DEF TypeOK, Cloud
  <1>2. HasPub => HasPub' BY <1>1 DEF HasPub
  <1>3. HoldsPub' => HoldsPub BY <1>1 DEF HoldsPub
  <1>4. Linked' \subseteq Linked BY <1>1 DEF Linked
  <1>5. Live' = Live BY <1>1 DEF Live
  <1>6. \A j : Active(j) => Active(j)' BY <1>1 DEF Active
  <1>7. \A n \in Tagged(cloud.nets) : n \in cloud'.nets BY <1>1 DEF Tagged
  <1>. QED BY <1>1, <1>2, <1>3, <1>4, <1>5, <1>6, <1>7 DEF Wanes

--------------------------------------------------------------------------------
(* The handlers of the teardown. *)

(* Only the routes' handler leads to the peering's, and only the net's to   *)
(* the end.                                                                 *)
LEMMA ProceedFacts ==
  ASSUME NEW p \in DeletePhase \ {"dFinal"}
  PROVE  /\ Proceed(p).phase = "dFinal" => p = "dNet"
         /\ Proceed(p).phase = "dPeering" => p = "dPeerRoutes"
  <1>1. ~LeftOut(DeleteOrder[14]) BY DeleteOrderFacts DEF LeftOut
  <1>2. PICK i \in 1 .. 14 : DeleteOrder[i] = p BY DeleteOrderFacts
  <1>3. i < 14 BY <1>2, DeleteOrderFacts
  <1>4. PICK j \in 1 .. 14 : /\ j > i /\ NextIn(DeleteOrder, p) = DeleteOrder[j]
                             /\ ~LeftOut(DeleteOrder[j])
                             /\ \A k \in 1 .. 14 : i < k /\ k < j => LeftOut(DeleteOrder[k])
    <2>1. /\ DOMAIN DeleteOrder = 1 .. 14
          /\ \A x, y \in 1 .. 14 : DeleteOrder[x] = DeleteOrder[y] => x = y
      BY DeleteOrderFacts
    <2>2. 14 \in Nat OBVIOUS
    <2>3. NextOk(DeleteOrder, 14, i) BY <1>1, <1>3, <2>1, <2>2, NextInOrder
    <2>. QED BY <1>2, <2>3 DEF NextOk
  <1>5. Proceed(p).phase = DeleteOrder[j] BY <1>4 DEF Proceed, AfterDelete, Start
  <1>6. /\ DeleteOrder[13] = "dNet" /\ DeleteOrder[14] = "dFinal"
        /\ DeleteOrder[7] = "dPeerRoutes" /\ DeleteOrder[8] = "dPeering"
    BY DEF DeleteOrder
  <1>7. ASSUME DeleteOrder[j] = "dFinal" PROVE p = "dNet"
    <2>1. j = 14 BY <1>6, <1>7, DeleteOrderFacts
    <2>2. ~LeftOut("dNet") BY DEF LeftOut
    <2>3. i = 13 BY <1>3, <1>4, <1>6, <2>1, <2>2
    <2>. QED BY <1>2, <1>6, <2>3
  <1>8. ASSUME DeleteOrder[j] = "dPeering" PROVE p = "dPeerRoutes"
    <2>1. j = 8 BY <1>6, <1>8, DeleteOrderFacts
    <2>2. ~LeftOut("dPeering") BY <1>4, <1>8
    <2>3. ~LeftOut("dPeerRoutes") BY <2>2 DEF LeftOut
    <2>4. i = 7 BY <1>4, <1>6, <2>1, <2>3
    <2>. QED BY <1>2, <1>6, <2>4
  <1>. QED BY <1>5, <1>7, <1>8

(* Positions with nothing to be shown about them. *)
Calm(a) == a.phase # "dFinal" /\ a.phase # "dPeering"

LEMMA CalmPositions ==
  /\ Calm(Start("patch"))
  /\ \A p \in DeletePhase \ {"dFinal", "dNet", "dPeerRoutes"} : Calm(Proceed(p))
  /\ \A a \in Position : Calm(a) => \A s : Calm([a EXCEPT !.step = s])
  <1>1. Calm(Start("patch")) BY DEF Calm, Start
  <1>2. \A p \in DeletePhase \ {"dFinal", "dNet", "dPeerRoutes"} : Calm(Proceed(p)) BY ProceedFacts DEF Calm
  <1>3. \A a \in Position : Calm(a) => \A s : Calm([a EXCEPT !.step = s]) BY DEF Calm, Position
  <1>. QED BY <1>1, <1>2, <1>3

(* What the lookups of a teardown find. *)
LEMMA LookupTrace ==
  ASSUME ClusterInv, TearInv, NEW m \in OscCluster, Traced(m), ~ReuseNet
  PROVE  /\ \A n \in Tagged(cloud.nets) : NetId(m) = n.id /\ NetId(m) # 0
         /\ NetId(m) # 0 /\ Tagged(cloud.nets) # {} => NetId(m) \in Ids(Tagged(cloud.nets))
         /\ NetPeeringId(m) # 0 => NetPeeringId(m) \in Ids(Tagged(cloud.peerings))
         /\ \A i : Active(i) => NetPeeringId(m) = i
  <1>1. AtMostOne(Tagged(cloud.nets)) /\ AtMostOne(Tagged(cloud.peerings))
    BY DEF ClusterInv, NoDuplicates, Tagged
  <1>2. NetId(m) = FirstOf(m.st.net, Tagged(cloud.nets)) /\ NetPeeringId(m) = FirstOf(m.st.peer, Tagged(cloud.peerings))
    BY DEF NetId, NetPeeringId, Tagged
  <1>3. \A n \in Tagged(cloud.nets) : n.id # 0 BY DEF TearInv, Held
  <1>4. /\ Tagged(cloud.nets) # {} => TheId(Tagged(cloud.nets)) \in Ids(Tagged(cloud.nets))
        /\ Tagged(cloud.peerings) # {} => TheId(Tagged(cloud.peerings)) \in Ids(Tagged(cloud.peerings))
        /\ Tagged(cloud.peerings) = {} => TheId(Tagged(cloud.peerings)) = 0
    BY TheIdFacts DEF Ids
  <1>5. Tagged(cloud.nets) # {} => NetId(m) \in Ids(Tagged(cloud.nets)) BY <1>2, <1>4 DEF FirstOf, Traced
  <1>6. \A n \in Tagged(cloud.nets) : NetId(m) = n.id /\ NetId(m) # 0 BY <1>1, <1>3, <1>5 DEF AtMostOne, Ids
  <1>7. NetPeeringId(m) # 0 => NetPeeringId(m) \in Ids(Tagged(cloud.peerings)) BY <1>2, <1>4 DEF FirstOf, Traced
  <1>8. Tagged(cloud.peerings) # {} => NetPeeringId(m) \in Ids(Tagged(cloud.peerings))
    BY <1>2, <1>4 DEF FirstOf, Traced
  <1>9. \A i : Active(i) => NetPeeringId(m) = i
    <2>1. \A i : Active(i) => \E q \in Tagged(cloud.peerings) : q.id = i BY DEF Active, Tagged
    <2>. QED BY <1>1, <1>8, <2>1 DEF AtMostOne, Ids
  <1>. QED BY <1>5, <1>6, <1>7, <1>9

(* What the handlers note in the scope is traced again. *)
LEMMA SetTraced ==
  ASSUME NEW m \in OscCluster, Traced(m), NEW i \in Nat
  PROVE  /\ (i # 0 /\ Tagged(cloud.nets) # {} => i \in Ids(Tagged(cloud.nets))) => Traced([m EXCEPT !.st.net = i])
         /\ (i # 0 => i \in Ids(Tagged(cloud.peerings))) => Traced([m EXCEPT !.st.peer = i])
         /\ Traced([m EXCEPT !.st.is = i])
         /\ \A j \in Nat : Traced([m EXCEPT !.st.vm = i, !.st.vmIp = j])
         /\ Traced([m EXCEPT !.st.natIp = i]) /\ Traced([m EXCEPT !.st.vmIp = i])
         /\ \A r \in Ranges : Traced([m EXCEPT !.st.sn[r] = i])
  <1>. USE DEF OscCluster, Resources, Traced
  <1>0. m.st \in Resources OBVIOUS
  <1>1. (i # 0 /\ Tagged(cloud.nets) # {} => i \in Ids(Tagged(cloud.nets))) => Traced([m EXCEPT !.st.net = i])
    BY <1>0
  <1>2. (i # 0 => i \in Ids(Tagged(cloud.peerings))) => Traced([m EXCEPT !.st.peer = i]) BY <1>0
  <1>3. Traced([m EXCEPT !.st.is = i]) BY <1>0
  <1>4. \A j \in Nat : Traced([m EXCEPT !.st.vm = i, !.st.vmIp = j]) BY <1>0
  <1>5. Traced([m EXCEPT !.st.natIp = i]) /\ Traced([m EXCEPT !.st.vmIp = i]) BY <1>0
  <1>6. \A r \in Ranges : Traced([m EXCEPT !.st.sn[r] = i]) BY <1>0
  <1>. HIDE DEF OscCluster, Resources, Traced
  <1>. QED BY <1>1, <1>2, <1>3, <1>4, <1>5, <1>6, Zenon

LEMMA ScopeTraced ==
  ASSUME ClusterInv, TearInv, NEW m \in OscCluster, Traced(m)
  PROVE  /\ Traced(WithNet(m)) /\ Traced(WithService(m))
         /\ ~ReuseNet => Traced(WithNet(WithPeering(m)))
         /\ \A k : Traced(ForgetIp(m, k))
         /\ BastionId(m) \in Ids(cloud.vms) => Traced(WithBastion(m))
  <1>1. TypeOK BY DEF ClusterInv
  <1>2. ASSUME NEW n \in OscCluster, Traced(n) PROVE Traced(WithNet(n))
    <2>1. CASE ReuseNet BY <1>2, <2>1 DEF WithNet
    <2>2. CASE ~ReuseNet
      <3>1. PICK i \in Nat : i = NetId(n) BY <1>1, <1>2, LookupTypes
      <3>2. i # 0 /\ Tagged(cloud.nets) # {} => i \in Ids(Tagged(cloud.nets)) BY <1>2, <2>2, <3>1, LookupTrace
      <3>3. Traced([n EXCEPT !.st.net = i]) BY <1>2, <3>2, SetTraced, Zenon
      <3>. QED BY <2>2, <3>1, <3>3 DEF WithNet
    <2>. QED BY <2>1, <2>2
  <1>3. Traced(WithService(m))
    <2>1. PICK w : w = WithNet(m) OBVIOUS
    <2>2. Heir(m, w) BY <1>1, <2>1, WithTypes
    <2>3. w \in OscCluster BY <2>2 DEF Heir
    <2>4. PICK i \in Nat : i = InternetServiceId(m) BY <1>1, LookupTypes
    <2>5. Traced(w) BY <1>2, <2>1
    <2>6. Traced([w EXCEPT !.st.is = i]) BY <2>3, <2>5, SetTraced, Zenon
    <2>. QED BY <2>1, <2>4, <2>6 DEF WithService
  <1>4. ASSUME ~ReuseNet PROVE Traced(WithNet(WithPeering(m)))
    <2>1. PICK i \in Nat : i = NetPeeringId(m) BY <1>1, LookupTypes
    <2>2. i # 0 => i \in Ids(Tagged(cloud.peerings)) BY <1>4, <2>1, LookupTrace
    <2>0. Traced([m EXCEPT !.st.peer = i]) BY <2>2, SetTraced, Zenon
    <2>3. Traced(WithPeering(m)) BY <2>0, <2>1 DEF WithPeering
    <2>4. Heir(m, WithPeering(m)) BY <1>1, WithTypes
    <2>5. WithPeering(m) \in OscCluster BY <2>4 DEF Heir
    <2>. QED BY <1>2, <2>3, <2>5
  <1>5. \A k : Traced(ForgetIp(m, k))
    <2>1. 0 \in Nat OBVIOUS
    <2>2. Traced([m EXCEPT !.st.natIp = 0]) /\ Traced([m EXCEPT !.st.vmIp = 0]) BY <2>1, SetTraced, Zenon
    <2>. QED BY <2>2 DEF ForgetIp
  <1>6. ASSUME BastionId(m) \in Ids(cloud.vms) PROVE Traced(WithBastion(m))
    <2>1. PICK v : v = BastionVm(m) OBVIOUS
    <2>2. v \in cloud.vms BY <1>1, <1>6, <2>1, WithTypes
    <2>3. v.id \in Nat /\ v.ip \in Nat BY <1>1, <2>2, CloudFields DEF Vm, Id
    <2>4. m.st.vmIp \in Nat BY DEF OscCluster, Resources, Id
    <2>5. PICK i \in Nat, j \in Nat : i = v.id /\ j = IF HoldsIp(v) /\ m.st.vmIp = 0 THEN v.ip ELSE m.st.vmIp
      BY <2>3, <2>4
    <2>6. Traced([m EXCEPT !.st.vm = i, !.st.vmIp = j]) BY SetTraced, Zenon
    <2>7. WithBastion(m) = [m EXCEPT !.st.vm = i, !.st.vmIp = j]
      BY <2>1, <2>5 DEF WithBastion, OscCluster, Resources
    <2>. QED BY <2>6, <2>7
  <1>. QED BY <1>2, <1>3, <1>4, <1>5, <1>6

(* A step of the teardown loses a stray only with a fault. *)
LEMMA WaneStep ==
  ASSUME ClusterInv, TearInv, ClusterInv', at.phase \in DeletePhase, ~machines,
         UNCHANGED <<obj, cache, old, machines>>, NEW w, mem' = w, Heir(mem, w), Traced(w), Wanes,
         faults' = faults \/ faults' = faults + 1,
         ~ReuseNet => /\ Distinct(cloud.nets)' /\ Distinct(cloud.iss)'
                      /\ \/ Lost' \subseteq Lost
                         \/ faults' = faults + 1 /\ \E x : Lost' \subseteq Lost \cup {x},
         at'.phase = "dFinal" /\ ~ReuseNet => Tagged(cloud'.nets) = {},
         at'.phase = "dPeering" => NoRoutes
  PROVE  TearInv'
  <1>1. TypeOK /\ TypeOK' /\ ReuseNet' = ReuseNet BY DEF ClusterInv, ReuseNet
  <1>2. mem.del /\ cache.del BY DEF ClusterInv, Passes
  <1>3. mem'.fin = mem.fin /\ mem'.del BY <1>2 DEF Heir
  <1>4. ~Spared /\ ~Spared' BY <1>2, <1>3 DEF Spared
  <1>5. faults' >= faults BY <1>1, ScopeAssumption DEF TypeOK
  <1>6. StraysOk'
    <2>1. CASE ReuseNet BY <1>1, <2>1 DEF StraysOk
    <2>2. CASE ~ReuseNet BY <1>1, <1>5, <2>2, LostStays DEF TearInv
    <2>. QED BY <2>1, <2>2
  <1>. QED BY <1>3, <1>4, <1>6, WaneTear

(* One that deletes neither a net nor a service loses none. *)
LEMMA EaseTear ==
  ASSUME ClusterInv, TearInv, ClusterInv', at.phase \in DeletePhase, ~machines, ~At("dIs", "delete"),
         UNCHANGED <<obj, cache, old, machines>>, NEW w, mem' = w, Heir(mem, w), Traced(w), Eases,
         faults' = faults \/ faults' = faults + 1,
         at'.phase = "dFinal" /\ ~ReuseNet => Tagged(cloud.nets) = {},
         at'.phase = "dPeering" => NoRoutes
  PROVE  TearInv'
  <1>1. cloud'.nets = cloud.nets /\ cloud'.iss = cloud.iss /\ Wanes BY DEF Eases
  <1>2. ~At("net", "tag") /\ ~At("internetService", "link") BY DEF At, DeletePhase
  <1>3. Lost' \subseteq Lost BY <1>1, <1>2, AllLost
  <1>4. ~ReuseNet => Distinct(cloud.nets)' /\ Distinct(cloud.iss)' BY <1>1 DEF TearInv, StraysOk, Distinct
  <1>5. Tagged(cloud.nets) = {} => Tagged(cloud'.nets) = {} BY <1>1 DEF Tagged
  <1>. QED BY <1>1, <1>3, <1>4, <1>5, WaneStep

LEMMA EaseGoes ==
  ASSUME ClusterInv, TearInv, ClusterInv', at.phase \in DeletePhase, ~machines, ~At("dIs", "delete"),
         NEW a, Calm(a), NEW w, Heir(mem, w), Traced(w), Continue(a, w)
  PROVE  TearInv'
  <1>1. at' = a /\ mem' = w /\ cloud' = cloud /\ faults' = faults /\ UNCHANGED <<obj, cache, old, machines>>
    BY DEF Continue
  <1>2. Eases BY <1>1, CloudEases
  <1>3. at'.phase # "dFinal" /\ at'.phase # "dPeering" BY <1>1 DEF Calm
  <1>. QED BY <1>1, <1>2, <1>3, EaseTear

LEMMA EaseEnds ==
  ASSUME ClusterInv, TearInv, ClusterInv', at.phase \in DeletePhase, ~machines, ~At("dIs", "delete"),
         NEW w, Heir(mem, w), Traced(w), EndPass(w)
  PROVE  TearInv'
  BY CalmPositions, EaseGoes DEF EndPass

LEMMA EaseCalls ==
  ASSUME ClusterInv, TearInv, ClusterInv', at.phase \in DeletePhase, ~machines, ~At("dIs", "delete"),
         NEW c, cloud' = c => Eases, NEW a, Calm(a), NEW s, Heir(mem, s), Traced(s),
         NEW w, Heir(mem, w), Traced(w), Call(c, a, s, w)
  PROVE  TearInv'
  <1>1. UNCHANGED <<obj, cache, old, machines>> BY DEF Call
  <1>2. (cloud' = c \/ cloud' = cloud) /\ (at' = a \/ at' = Start("patch")) /\ (mem' = s \/ mem' = w)
        /\ (faults' = faults \/ faults' = faults + 1)
    BY CallEnds
  <1>3. Eases BY <1>2, CloudEases
  <1>4. at'.phase # "dFinal" /\ at'.phase # "dPeering" BY <1>2, CalmPositions DEF Calm
  <1>. QED BY <1>1, <1>2, <1>3, <1>4, EaseTear

(* Where a handler of the teardown is, and what it holds. *)
LEMMA Tearing ==
  ASSUME ClusterInv, TearInv, at.phase \in DeletePhase \ {"dMachines"}
  PROVE  /\ TypeOK /\ ~machines /\ ~Spared /\ mem \in OscCluster /\ at \in Position
         /\ Heir(mem, mem) /\ Traced(mem)
         /\ Heir(mem, WithNet(mem)) /\ Traced(WithNet(mem))
  <1>1. TypeOK /\ ~machines /\ mem \in OscCluster /\ Heir(mem, mem) /\ mem.del /\ cache.del BY Deleting
  <1>2. ~Spared BY <1>1 DEF Spared
  <1>3. Traced(mem) BY CopyFields
  <1>4. Heir(mem, WithNet(mem)) /\ Traced(WithNet(mem)) BY <1>1, <1>3, WithTypes, ScopeTraced
  <1>. QED BY <1>1, <1>2, <1>3, <1>4 DEF TypeOK

LEMMA DeleteStartTear == ASSUME ClusterInv, TearInv, DeleteStart PROVE TearInv'
  <1>1. at.phase = "dMachines" /\ ~At("dIs", "delete") BY DEF DeleteStart, At
  <1>2. ClusterInv' BY DeleteStartOk
  <1>3. "dMachines" \in DeletePhase \ {"dFinal", "dNet", "dPeerRoutes"} BY DEF DeletePhase
  <1>4. mem \in OscCluster /\ Traced(mem) BY CopyFields
  <1>5. CASE ~machines /\ Continue(Proceed("dMachines"), mem)
    <2>1. Heir(mem, mem) BY <1>4 DEF Heir
    <2>. QED BY <1>1, <1>2, <1>3, <1>4, <1>5, <2>1, CalmPositions, EaseGoes
  <1>6. CASE EndPass(mem)
    <2>1. at' = Start("patch") /\ UNCHANGED <<cloud, obj, cache, old, mem, machines, faults>>
      BY <1>6 DEF EndPass, Continue
    <2>2. at'.phase = "patch" BY <2>1 DEF Start
    <2>3. Spared' => Spared BY <1>1, <2>1, <2>2 DEF Spared
    <2>4. AllTraced' BY <2>1, CopyFields DEF AllTraced, Traced
    <2>5. ~ReuseNet /\ "removed" \in {obj'.fin, cache'.fin, old'.fin, mem'.fin} => Gone BY <2>1, CopyFields
    <2>6. ~At("net", "tag") /\ ~At("internetService", "link") BY <1>1 DEF At
    <2>. QED BY <1>1, <1>2, <2>1, <2>2, <2>3, <2>4, <2>5, <2>6, QuietTear
  <1>. QED BY <1>5, <1>6 DEF DeleteStart

LEMMA DeleteBastionTear == ASSUME ClusterInv, TearInv, DeleteBastion PROVE TearInv'
  <1>1. at.phase = "dBastion" /\ ~At("dIs", "delete") BY DEF DeleteBastion, At
  <1>2. "dBastion" \in DeletePhase \ {"dMachines", "dFinal", "dNet", "dPeerRoutes"} BY DEF DeletePhase
  <1>3. ClusterInv' BY DeleteBastionOk
  <1>4. TypeOK /\ ~machines /\ mem \in OscCluster /\ Heir(mem, mem) /\ Traced(mem) BY <1>1, <1>2, Tearing
  <1>5. PICK a : a = Proceed("dBastion") OBVIOUS
  <1>6. Calm(a) BY <1>2, <1>5, CalmPositions
  <1>7. \/ Continue(a, mem)
        \/ /\ BastionId(mem) \in Ids(cloud.vms)
           /\ \/ Continue(a, WithBastion(mem))
              \/ /\ BastionVm(mem).state # "terminated"
                 /\ Call(VmDeleted(BastionVm(mem).id), a, WithBastion(mem), WithBastion(mem))
    BY <1>5 DEF DeleteBastion
  <1>8. CASE Continue(a, mem) BY <1>1, <1>2, <1>3, <1>4, <1>6, <1>8, EaseGoes
  <1>9. CASE BastionId(mem) \in Ids(cloud.vms) /\ ~Continue(a, mem)
    <2>1. PICK w, v : w = WithBastion(mem) /\ v = BastionVm(mem) OBVIOUS
    <2>2. Heir(mem, w) /\ Traced(w) /\ v \in cloud.vms BY <1>4, <1>9, <2>1, WithTypes, ScopeTraced
    <2>3. CASE Continue(a, w) BY <1>1, <1>2, <1>3, <1>4, <1>6, <2>2, <2>3, EaseGoes
    <2>4. CASE v.state # "terminated" /\ Call(VmDeleted(v.id), a, w, w)
      <3>1. \E x \in cloud.vms : Alive(x) BY <2>2, <2>4 DEF Alive
      <3>2. PICK c : c = VmDeleted(v.id) OBVIOUS
      <3>3. cloud' = c => Eases BY <1>4, <3>1, <3>2, RequestsEase
      <3>. QED BY <1>1, <1>2, <1>3, <1>4, <1>6, <2>2, <2>4, <3>2, <3>3, EaseCalls
    <2>. QED BY <1>7, <1>9, <2>1, <2>3, <2>4
  <1>. QED BY <1>7, <1>8, <1>9

LEMMA DeleteLoadBalancerTear == ASSUME ClusterInv, TearInv, DeleteLoadBalancer PROVE TearInv'
  <1>1. at.phase = "dLb" /\ ~At("dIs", "delete") BY DEF DeleteLoadBalancer, At
  <1>2. "dLb" \in DeletePhase \ {"dMachines", "dFinal", "dNet", "dPeerRoutes"} BY DEF DeletePhase
  <1>3. ClusterInv' BY DeleteLoadBalancerOk
  <1>4. TypeOK /\ ~machines /\ mem \in OscCluster /\ Heir(mem, mem) /\ Traced(mem) BY <1>1, <1>2, Tearing
  <1>5. PICK a : a = Proceed("dLb") OBVIOUS
  <1>6. Calm(a) BY <1>2, <1>5, CalmPositions
  <1>7. CASE Continue(a, mem) BY <1>1, <1>2, <1>3, <1>4, <1>6, <1>7, EaseGoes
  <1>8. CASE Call(LoadBalancerDeleted, a, mem, mem)
    <2>1. cloud' = LoadBalancerDeleted => Eases BY <1>4, RequestsEase
    <2>. QED BY <1>1, <1>2, <1>3, <1>4, <1>6, <1>8, <2>1, EaseCalls
  <1>. QED BY <1>5, <1>7, <1>8 DEF DeleteLoadBalancer

LEMMA DeleteNatServiceTear == ASSUME ClusterInv, TearInv, DeleteNatService PROVE TearInv'
  <1>1. at.phase = "dNat" /\ ~At("dIs", "delete") BY DEF DeleteNatService, At
  <1>2. "dNat" \in DeletePhase \ {"dMachines", "dFinal", "dNet", "dPeerRoutes"} BY DEF DeletePhase
  <1>3. ClusterInv' BY DeleteNatServiceOk
  <1>4. PICK w : w = WithNet(mem) OBVIOUS
  <1>5. TypeOK /\ ~machines /\ at \in Position /\ Heir(mem, w) /\ Traced(w) BY <1>1, <1>2, <1>4, Tearing
  <1>6. PICK a, b : a = Proceed("dNat") /\ b = [at EXCEPT !.step = "delete"] OBVIOUS
  <1>7. Calm(at) BY <1>1 DEF Calm
  <1>8. Calm(a) /\ Calm(b) BY <1>2, <1>5, <1>6, <1>7, CalmPositions
  <1>9. \/ Continue(a, w)
        \/ EndPass(w)
        \/ \E n \in cloud.nats : Call(NatServiceDeleted(n.id), b, w, w)
    BY <1>4, <1>6 DEF DeleteNatService
  <1>10. CASE Continue(a, w) BY <1>1, <1>2, <1>3, <1>5, <1>8, <1>10, EaseGoes
  <1>11. CASE EndPass(w) BY <1>1, <1>2, <1>3, <1>5, <1>11, EaseEnds
  <1>12. ASSUME NEW n \in cloud.nats, Call(NatServiceDeleted(n.id), b, w, w) PROVE TearInv'
    <2>1. PICK c : c = NatServiceDeleted(n.id) OBVIOUS
    <2>2. cloud' = c => Eases BY <1>5, <2>1, RequestsEase
    <2>. QED BY <1>1, <1>2, <1>3, <1>5, <1>8, <1>12, <2>1, <2>2, EaseCalls
  <1>. QED BY <1>9, <1>10, <1>11, <1>12

LEMMA DeletePublicIpTear ==
  ASSUME ClusterInv, TearInv, NEW key \in {"natIp", "vmIp"}, DeletePublicIp(key) PROVE TearInv'
  <1>1. at.phase = "dIp" /\ ~At("dIs", "delete") /\ Calm(at) BY DEF DeletePublicIp, At, Calm
  <1>2. "dIp" \in DeletePhase \ {"dMachines"} BY DEF DeletePhase
  <1>3. ClusterInv' BY DeletePublicIpOk
  <1>4. TypeOK /\ ~machines /\ mem \in OscCluster /\ Heir(mem, mem) /\ Traced(mem) BY <1>1, <1>2, Tearing
  <1>5. PICK w : w = ForgetIp(mem, key) OBVIOUS
  <1>6. Traced(w) BY <1>4, <1>5, ScopeTraced
  <1>7. Heir(mem, w)
    <2>1. 0 \in Nat OBVIOUS
    <2>2. Heir(mem, [mem EXCEPT !.st.natIp = 0]) /\ Heir(mem, [mem EXCEPT !.st.vmIp = 0])
      BY <1>4, <2>1, UpdateTypes
    <2>. QED BY <1>5, <2>2 DEF ForgetIp
  <1>8. PICK i, c : i = mem.st[key] /\ c = PublicIpDeleted(i) OBVIOUS
  <1>9. Continue(at, w) \/ EndPass(mem) \/ Call(c, at, mem, w)
    BY <1>5, <1>8 DEF DeletePublicIp, DeleteCall
  <1>10. cloud' = c => Eases BY <1>4, <1>8, RequestsEase
  <1>11. CASE Continue(at, w) BY <1>1, <1>2, <1>3, <1>4, <1>6, <1>7, <1>11, EaseGoes
  <1>12. CASE EndPass(mem) BY <1>1, <1>2, <1>3, <1>4, <1>12, EaseEnds
  <1>13. CASE Call(c, at, mem, w) BY <1>1, <1>2, <1>3, <1>4, <1>6, <1>7, <1>10, <1>13, EaseCalls
  <1>. QED BY <1>9, <1>11, <1>12, <1>13

(* The ends of the loops, and the handlers that change no cloud. *)
LEMMA EndingsTear ==
  ASSUME ClusterInv, TearInv, EndPublicIps \/ EndSecurityGroupDeletion \/ EndSubnetDeletion \/ StartSubnetDeletion
  PROVE  TearInv'
  <1>1. ClusterInv' BY EndPublicIpsOk, EndSecurityGroupDeletionOk, EndSubnetDeletionOk, StartSubnetDeletionOk
  <1>2. PICK p \in {"dIp", "dSg", "dSubnet"} :
          /\ at.phase = p
          /\ \/ Continue(Proceed(p), mem) \/ EndPass(mem)
             \/ Continue([at EXCEPT !.step = "loop", !.todo = mem.spec], mem)
    <2>1. CASE EndPublicIps BY <2>1 DEF EndPublicIps, At
    <2>2. CASE EndSecurityGroupDeletion BY <2>2 DEF EndSecurityGroupDeletion
    <2>3. CASE EndSubnetDeletion \/ StartSubnetDeletion BY <2>3 DEF EndSubnetDeletion, StartSubnetDeletion, At
    <2>. QED BY <2>1, <2>2, <2>3
  <1>3. p \in DeletePhase \ {"dMachines", "dFinal", "dNet", "dPeerRoutes"} BY DEF DeletePhase
  <1>4. ~machines /\ at \in Position /\ Heir(mem, mem) /\ Traced(mem) BY <1>2, <1>3, Tearing
  <1>5. PICK a, b : a = Proceed(p) /\ b = [at EXCEPT !.step = "loop", !.todo = mem.spec] OBVIOUS
  <1>6. Calm(a) BY <1>3, <1>5, CalmPositions
  <1>7. Calm(b) BY <1>2, <1>4, <1>5 DEF Calm, Position
  <1>8. ~At("dIs", "delete") BY <1>2 DEF At
  <1>9. CASE Continue(a, mem) BY <1>1, <1>2, <1>3, <1>4, <1>6, <1>8, <1>9, EaseGoes
  <1>10. CASE EndPass(mem) BY <1>1, <1>2, <1>3, <1>4, <1>8, <1>10, EaseEnds
  <1>11. CASE Continue(b, mem) BY <1>1, <1>2, <1>3, <1>4, <1>7, <1>8, <1>11, EaseGoes
  <1>. QED BY <1>2, <1>5, <1>9, <1>10, <1>11

LEMMA DeleteNetAccessPointTear == ASSUME ClusterInv, TearInv, DeleteNetAccessPoint PROVE TearInv'
  <1>1. at.phase = "dNap" /\ ~At("dIs", "delete") /\ Calm(at) BY DEF DeleteNetAccessPoint, At, Calm
  <1>2. "dNap" \in DeletePhase \ {"dMachines", "dFinal", "dNet", "dPeerRoutes"} BY DEF DeletePhase
  <1>3. ClusterInv' BY DeleteNetAccessPointOk
  <1>4. PICK w, a : w = WithNet(mem) /\ a = Proceed("dNap") OBVIOUS
  <1>5. TypeOK /\ ~machines /\ Heir(mem, w) /\ Traced(w) BY <1>1, <1>2, <1>4, Tearing
  <1>6. Calm(a) BY <1>2, <1>4, CalmPositions
  <1>7. \/ Continue(a, w)
        \/ \E n \in cloud.naps : Call(NetAccessPointDeleted(n.id), at, w, w)
    BY <1>4 DEF DeleteNetAccessPoint
  <1>8. CASE Continue(a, w) BY <1>1, <1>2, <1>3, <1>5, <1>6, <1>8, EaseGoes
  <1>9. ASSUME NEW n \in cloud.naps, Call(NetAccessPointDeleted(n.id), at, w, w) PROVE TearInv'
    <2>1. PICK c : c = NetAccessPointDeleted(n.id) OBVIOUS
    <2>2. cloud' = c => Eases BY <1>5, <2>1, RequestsEase
    <2>. QED BY <1>1, <1>2, <1>3, <1>5, <1>9, <2>1, <2>2, EaseCalls
  <1>. QED BY <1>7, <1>8, <1>9

LEMMA DeleteRouteTableTear == ASSUME ClusterInv, TearInv, DeleteRouteTable PROVE TearInv'
  <1>1. at.phase = "dRt" /\ ~At("dIs", "delete") /\ Calm(at) BY DEF DeleteRouteTable, At, Calm
  <1>2. "dRt" \in DeletePhase \ {"dMachines", "dFinal", "dNet", "dPeerRoutes"} BY DEF DeletePhase
  <1>3. ClusterInv' BY DeleteRouteTableOk
  <1>4. PICK w, a : w = WithNet(mem) /\ a = Proceed("dRt") OBVIOUS
  <1>5. TypeOK /\ ~machines /\ Heir(mem, w) /\ Traced(w) BY <1>1, <1>2, <1>4, Tearing
  <1>6. Calm(a) BY <1>2, <1>4, CalmPositions
  <1>7. \/ Continue(a, w)
        \/ \E t \in cloud.rts : \E c : /\ c = RouteTableUnlinked(t.id) \/ c = RouteTableDeleted(t.id)
                                       /\ Call(c, at, w, w)
    BY <1>4 DEF DeleteRouteTable
  <1>8. CASE Continue(a, w) BY <1>1, <1>2, <1>3, <1>5, <1>6, <1>8, EaseGoes
  <1>9. ASSUME NEW t \in cloud.rts, NEW c, c = RouteTableUnlinked(t.id) \/ c = RouteTableDeleted(t.id),
               Call(c, at, w, w)
        PROVE  TearInv'
    <2>1. cloud' = c => Eases BY <1>5, <1>9, RequestsEase
    <2>. QED BY <1>1, <1>2, <1>3, <1>5, <1>9, <2>1, EaseCalls
  <1>. QED BY <1>7, <1>8, <1>9

LEMMA ListSecurityGroupsTear == ASSUME ClusterInv, TearInv, ListSecurityGroups PROVE TearInv'
  <1>1. at.phase = "dSg" /\ ~At("dIs", "delete") BY DEF ListSecurityGroups, At
  <1>2. "dSg" \in DeletePhase \ {"dMachines", "dFinal", "dNet", "dPeerRoutes"} BY DEF DeletePhase
  <1>3. ClusterInv' BY ListSecurityGroupsOk
  <1>4. PICK S : S = {g.id : g \in {x \in cloud.sgs : x.net = NetId(mem)}} OBVIOUS
  <1>5. PICK b : b = [at EXCEPT !.step = "loop", !.ids = S] OBVIOUS
  <1>6. PICK w, a : w = WithNet(mem) /\ a = Proceed("dSg") OBVIOUS
  <1>7. ~machines /\ at \in Position /\ Heir(mem, mem) /\ Traced(mem) /\ Heir(mem, w) /\ Traced(w)
    BY <1>1, <1>2, <1>6, Tearing
  <1>8. Calm(a) BY <1>2, <1>6, CalmPositions
  <1>9. Continue(a, mem) \/ Call(cloud, b, w, w) BY <1>5, <1>6, <1>4 DEF ListSecurityGroups
  <1>10. Calm(b) BY <1>5, <1>1, <1>7 DEF Calm, Position
  <1>11. CASE Continue(a, mem) BY <1>1, <1>2, <1>3, <1>7, <1>8, <1>11, EaseGoes
  <1>12. CASE Call(cloud, b, w, w) BY <1>1, <1>2, <1>3, <1>7, <1>10, <1>12, CloudEases, EaseCalls
  <1>. QED BY <1>9, <1>11, <1>12

LEMMA DeleteSecurityGroupTear == ASSUME ClusterInv, TearInv, DeleteSecurityGroup PROVE TearInv'
  <1>1. at.phase = "dSg" /\ ~At("dIs", "delete") BY DEF DeleteSecurityGroup, At
  <1>2. "dSg" \in DeletePhase \ {"dMachines"} BY DEF DeletePhase
  <1>3. ClusterInv' BY DeleteSecurityGroupOk
  <1>4. TypeOK /\ ~machines /\ at \in Position /\ Heir(mem, mem) /\ Traced(mem) BY <1>1, <1>2, Tearing
  <1>5. PICK g \in cloud.sgs :
          \/ at' = [[at EXCEPT !.ids = @ \ {g.id}] EXCEPT !.step = "bad"] /\ UNCHANGED <<cloud, faults>>
          \/ at' = [at EXCEPT !.ids = @ \ {g.id}] /\ cloud' = SecurityGroupDeleted(g.id) /\ UNCHANGED faults
          \/ /\ faults < MaxFaults /\ faults' = faults + 1
             /\ at' = [[at EXCEPT !.ids = @ \ {g.id}] EXCEPT !.step = "bad"]
             /\ cloud' \in {SecurityGroupDeleted(g.id), cloud}
    BY Zenon DEF DeleteSecurityGroup
  <1>6. UNCHANGED <<obj, cache, old, mem, machines>> BY DEF DeleteSecurityGroup
  <1>7. at'.phase = "dSg" BY <1>1, <1>4, <1>5 DEF Position
  <1>8. Eases BY <1>4, <1>5, CloudEases, RequestsEase
  <1>9. faults' = faults \/ faults' = faults + 1 BY <1>5
  <1>10. PICK w : w = mem OBVIOUS
  <1>11. mem' = w /\ Heir(mem, w) /\ Traced(w) BY <1>4, <1>6, <1>10
  <1>. QED BY <1>1, <1>2, <1>3, <1>4, <1>6, <1>7, <1>8, <1>9, <1>11, EaseTear

(* The routes to the peering are gone before the handler goes on. *)
LEMMA DeletePeeringRoutesTear == ASSUME ClusterInv, TearInv, DeletePeeringRoutes PROVE TearInv'
  <1>1. at.phase = "dPeerRoutes" /\ ~At("dIs", "delete") /\ Calm(at) BY DEF DeletePeeringRoutes, At, Calm
  <1>2. "dPeerRoutes" \in DeletePhase \ {"dMachines", "dFinal"} BY DEF DeletePhase
  <1>3. ClusterInv' BY DeletePeeringRoutesOk
  <1>4. TypeOK /\ ~machines /\ mem \in OscCluster /\ Heir(mem, mem) /\ Traced(mem) BY <1>1, <1>2, Tearing
  <1>5. PICK w, a, i : /\ w = WithNet(IF NetId(mem) = 0 THEN mem ELSE WithPeering(mem))
                       /\ a = Proceed("dPeerRoutes") /\ i = NetPeeringId(mem)
    OBVIOUS
  <1>6. a.phase # "dFinal" BY <1>2, <1>5, ProceedFacts
  <1>7. ~ReuseNet => Heir(mem, w) /\ Traced(w)
    <2>1. Heir(mem, WithNet(mem)) /\ Heir(mem, WithNet(WithPeering(mem))) BY <1>4, WithTypes
    <2>2. ~ReuseNet => Traced(WithNet(mem)) /\ Traced(WithNet(WithPeering(mem))) BY <1>4, ScopeTraced
    <2>. QED BY <1>5, <2>1, <2>2
  <1>8. RoutesOk /\ Held BY DEF TearInv
  <1>9. (\A j : ~Active(j)) => NoRoutes BY <1>8 DEF RoutesOk, NoRoutes
  <1>10. ASSUME NEW m, Heir(mem, m), Traced(m), Continue(a, m), NoRoutes PROVE TearInv'
    <2>1. at' = a /\ mem' = m /\ cloud' = cloud /\ faults' = faults /\ UNCHANGED <<obj, cache, old, machines>>
      BY <1>10 DEF Continue
    <2>2. at'.phase # "dFinal" BY <1>6, <2>1
    <2>. QED BY <1>1, <1>2, <1>3, <1>4, <1>10, <2>1, <2>2, CloudEases, EaseTear
  <1>11. CASE ReuseNet
    <2>1. Continue(a, mem) BY <1>5, <1>11 DEF DeletePeeringRoutes
    <2>2. NoRoutes BY <1>8, <1>9, <1>11 DEF RoutesOk, Active
    <2>. QED BY <1>4, <1>10, <2>1, <2>2
  <1>12. CASE ~ReuseNet /\ (NetId(mem) = 0 \/ i \notin Ids(cloud.peerings))
    <2>1. Continue(a, w) BY <1>5, <1>12 DEF DeletePeeringRoutes
    <2>2. NetId(mem) = 0 => NoRoutes
      <3>1. HAVE NetId(mem) = 0
      <3>2. Tagged(cloud.nets) = {} BY <1>4, <1>12, <3>1, LookupTrace
      <3>3. Live = {} BY <1>8, <1>12, <3>2 DEF Held, InNet
      <3>4. \A j : ~Active(j) BY <3>3 DEF Active, Live, LivePeering
      <3>. QED BY <1>9, <3>4
    <2>3. i \notin Ids(cloud.peerings) => NoRoutes
      <3>1. HAVE i \notin Ids(cloud.peerings)
      <3>2. \A j : Active(j) => i = j BY <1>4, <1>5, <1>12, LookupTrace
      <3>3. \A j : ~Active(j) BY <3>1, <3>2 DEF Active, Ids
      <3>. QED BY <1>9, <3>3
    <2>. QED BY <1>7, <1>10, <1>12, <2>1, <2>2, <2>3
  <1>13. CASE ~ReuseNet /\ NetId(mem) # 0 /\ i \in Ids(cloud.peerings)
    <2>0. PICK T : T = {t \in NetTables(mem) : t.peer = i} OBVIOUS
    <2>1. CASE i \in cloud.mgmt
      <3>1. PICK c : c = ManagementRouteDeleted(i) OBVIOUS
      <3>2. Call(c, at, w, w) BY <1>5, <1>13, <2>1, <3>1 DEF DeletePeeringRoutes
      <3>3. cloud' = c => Eases BY <1>4, <3>1, RequestsEase
      <3>. QED BY <1>1, <1>2, <1>3, <1>4, <1>7, <1>13, <3>2, <3>3, EaseCalls
    <2>2. CASE i \notin cloud.mgmt /\ T # {}
      <3>1. PICK t \in T : Call(PeeringRouteSet(t.id, 0), at, w, w)
        BY <1>5, <1>13, <2>0, <2>2 DEF DeletePeeringRoutes
      <3>2. PICK c : c = PeeringRouteSet(t.id, 0) OBVIOUS
      <3>3. cloud' = c => Eases BY <1>4, <3>2, RequestsEase
      <3>. QED BY <1>1, <1>2, <1>3, <1>4, <1>7, <1>13, <3>1, <3>2, <3>3, EaseCalls
    <2>3. CASE i \notin cloud.mgmt /\ T = {}
      <3>1. Continue(a, w) BY <1>5, <1>13, <2>0, <2>3 DEF DeletePeeringRoutes
      <3>2. \A j : Active(j) => i = j BY <1>4, <1>5, <1>13, LookupTrace
      <3>3. cloud.mgmt = {} BY <1>8, <2>3, <3>2 DEF RoutesOk
      <3>4. \A t \in cloud.rts : t \in NetTables(mem)
        <4>1. \A n \in Tagged(cloud.nets) : NetId(mem) = n.id BY <1>4, <1>13, LookupTrace
        <4>. QED BY <1>8, <1>13, <4>1 DEF Held, InNet, NetTables
      <3>5. \A t \in cloud.rts : t.peer = 0 BY <1>8, <2>0, <2>3, <3>2, <3>4 DEF RoutesOk
      <3>. QED BY <1>7, <1>10, <1>13, <3>1, <3>3, <3>5 DEF NoRoutes
    <2>. QED BY <2>1, <2>2, <2>3
  <1>. QED BY <1>11, <1>12, <1>13

LEMMA DeleteNetPeeringTear == ASSUME ClusterInv, TearInv, DeleteNetPeering PROVE TearInv'
  <1>1. at.phase = "dPeering" /\ ~At("dIs", "delete") BY DEF DeleteNetPeering, At
  <1>2. "dPeering" \in DeletePhase \ {"dMachines", "dFinal", "dNet", "dPeerRoutes"} BY DEF DeletePhase
  <1>3. ClusterInv' BY DeleteNetPeeringOk
  <1>4. PICK w, a : w = WithNet(mem) /\ a = Proceed("dPeering") OBVIOUS
  <1>5. TypeOK /\ ~machines /\ Heir(mem, w) /\ Traced(w) BY <1>1, <1>2, <1>4, Tearing
  <1>6. Calm(a) BY <1>2, <1>4, CalmPositions
  <1>7. NoRoutes BY <1>1, CopyFields
  <1>8. \/ Continue(a, w)
        \/ \E p \in cloud.peerings : Call(NetPeeringIs(p.id, "deleted"), at, w, w)
    BY <1>4 DEF DeleteNetPeering
  <1>9. CASE Continue(a, w) BY <1>1, <1>2, <1>3, <1>5, <1>6, <1>9, EaseGoes
  <1>10. ASSUME NEW p \in cloud.peerings, Call(NetPeeringIs(p.id, "deleted"), at, w, w) PROVE TearInv'
    <2>1. PICK c : c = NetPeeringIs(p.id, "deleted") OBVIOUS
    <2>2. /\ cloud' = c \/ cloud' = cloud
          /\ at' = at \/ at' = Start("patch")
          /\ mem' = w /\ (faults' = faults \/ faults' = faults + 1)
      BY <1>10, <2>1, CallEnds
    <2>3. Eases BY <1>5, <1>7, <2>1, <2>2, PeeringEases, CloudEases
    <2>4. UNCHANGED <<obj, cache, old, machines>> BY <1>10 DEF Call
    <2>5. at'.phase # "dFinal" BY <1>1, <2>2 DEF Start
    <2>. QED BY <1>1, <1>2, <1>3, <1>5, <1>7, <2>2, <2>3, <2>4, <2>5, EaseTear
  <1>. QED BY <1>8, <1>9, <1>10

(* Between the two calls that unlink and delete it, the service is not lost *)
(* yet; afterwards it is gone, or it is lost with a fault.                  *)
LEMMA DeleteInternetServiceTear == ASSUME ClusterInv, TearInv, DeleteInternetService PROVE TearInv'
  <1>1. at.phase = "dIs" /\ at.step = "start" /\ ~At("dIs", "delete") BY DEF DeleteInternetService, At
  <1>2. "dIs" \in DeletePhase \ {"dMachines", "dFinal", "dNet", "dPeerRoutes"} BY DEF DeletePhase
  <1>3. ClusterInv' BY DeleteInternetServiceOk
  <1>4. TypeOK /\ ~machines /\ mem \in OscCluster /\ at \in Position /\ Heir(mem, mem) /\ Traced(mem)
    BY <1>1, <1>2, Tearing
  <1>5. PICK w, a : w = WithService(mem) /\ a = Proceed("dIs") OBVIOUS
  <1>6. Heir(mem, w) /\ Traced(w) BY <1>4, <1>5, WithTypes, ScopeTraced
  <1>7. Calm(a) BY <1>2, <1>5, CalmPositions
  <1>8. CASE ReuseNet \/ InternetServiceId(mem) \notin Ids(cloud.iss)
    <2>1. Continue(a, mem) BY <1>5, <1>8 DEF DeleteInternetService
    <2>. QED BY <1>1, <1>2, <1>3, <1>4, <1>7, <2>1, EaseGoes
  <1>9. CASE ~(ReuseNet \/ InternetServiceId(mem) \notin Ids(cloud.iss))
    <2>1. PICK x : x = CHOOSE y \in cloud.iss : y.id = InternetServiceId(mem) OBVIOUS
    <2>2. x \in cloud.iss BY <1>9, <2>1 DEF Ids
    <2>3. PICK i, b : i = x.id /\ b = [at EXCEPT !.step = "delete", !.id = x.id] OBVIOUS
    <2>4. \/ Continue(b, w)
          \/ x.net # 0 /\ Call(InternetServiceUnlinked(i), b, w, w)
      BY <1>5, <1>9, <2>1, <2>3 DEF DeleteInternetService
    <2>5. b.phase = "dIs" /\ b.step = "delete" /\ b.id = i BY <1>1, <1>4, <2>3 DEF Position
    <2>6. Calm(b) BY <2>5 DEF Calm
    <2>7. CASE Continue(b, w) BY <1>1, <1>2, <1>3, <1>4, <1>6, <2>6, <2>7, EaseGoes
    <2>8. CASE x.net # 0 /\ Call(InternetServiceUnlinked(i), b, w, w)
      <3>. DEFINE F(y) == IF y.id = i THEN [y EXCEPT !.net = 0] ELSE y
      <3>1. PICK V : V = {F(y) : y \in cloud.iss} OBVIOUS
      <3>2. PICK c : c = [cloud EXCEPT !.iss = V] OBVIOUS
      <3>3. Call(c, b, w, w) BY <2>8, <3>1, <3>2 DEF InternetServiceUnlinked, InternetServiceLinked
      <3>4. PICK z : z = F(x) OBVIOUS
      <3>5. \A y \in cloud.iss : F(y).id = y.id /\ (y.id # i => F(y) = y) /\ (y.id = i => F(y).net = 0)
        BY <1>4, CloudFields DEF InternetService
      <3>. HIDE DEF F
      <3>6. Distinct(cloud.nets) /\ Distinct(cloud.iss) BY <1>9 DEF TearInv, StraysOk
      <3>7. \A y \in V : y.id = i => y = z BY <2>2, <2>3, <3>1, <3>4, <3>5, <3>6 DEF Distinct
      <3>8. \A y \in V : y.id # i => y \in cloud.iss BY <3>1, <3>5
      <3>9. \A y, u \in V : y.id = u.id => y = u BY <3>6, <3>7, <3>8 DEF Distinct
      <3>10. \A y \in V : y.net # 0 => y \in cloud.iss BY <3>1, <3>5
      <3>11. cloud' = c => Wanes /\ cloud'.nets = cloud.nets /\ cloud'.iss = V
        BY <1>4, <3>2, <3>10, ServicesWane
      <3>12. cloud' = cloud => Wanes /\ cloud'.nets = cloud.nets /\ cloud'.iss = cloud.iss
        BY CloudEases DEF Eases
      <3>13. Tagged(cloud.nets) # {}
        <4>1. x \in Linked /\ InNet(Linked) BY <1>9, <2>2, <2>8 DEF Linked, TearInv, Held
        <4>. QED BY <4>1 DEF InNet
      <3>14. \/ cloud' = c /\ at' = b /\ mem' = w /\ faults' = faults
             \/ /\ cloud' = c \/ cloud' = cloud
                /\ at' = Start("patch") /\ mem' = w /\ faults' = faults + 1
        BY <3>3, CallEnds
      <3>15. UNCHANGED <<obj, cache, old, machines>> BY <3>3 DEF Call
      <3>16. at'.phase # "dFinal" /\ at'.phase # "dPeering" BY <2>5, <3>14 DEF Start
      <3>17. Wanes /\ mem' = w /\ (faults' = faults \/ faults' = faults + 1) BY <3>11, <3>12, <3>14
      <3>18. Distinct(cloud.nets)' /\ Distinct(cloud.iss)' BY <3>6, <3>9, <3>11, <3>12, <3>14 DEF Distinct
      <3>19. \A y : ~TagsNext(y) /\ ~LinksNext(y) BY <1>1 DEF TagsNext, LinksNext, At
      <3>20. CASE cloud' = c /\ at' = b /\ faults' = faults
        <4>1. \A y : y.id = i => LinksNext(y)' BY <2>5, <3>11, <3>13, <3>20 DEF LinksNext, At
        <4>2. Lost' \subseteq Lost BY <3>8, <3>11, <3>19, <3>20, <4>1 DEF Lost
        <4>. QED BY <1>1, <1>2, <1>3, <1>4, <1>6, <3>15, <3>16, <3>17, <3>18, <4>2, WaneStep
      <3>21. CASE (cloud' = c \/ cloud' = cloud) /\ faults' = faults + 1
        <4>1. \A y \in cloud'.iss : y \in cloud.iss \/ y = z BY <3>7, <3>8, <3>11, <3>12, <3>21
        <4>2. cloud'.nets = cloud.nets BY <3>11, <3>12, <3>21
        <4>3. Lost' \subseteq Lost \cup {z} BY <3>19, <4>1, <4>2 DEF Lost
        <4>. QED BY <1>1, <1>2, <1>3, <1>4, <1>6, <3>15, <3>16, <3>17, <3>18, <3>21, <4>3, WaneStep
      <3>. QED BY <3>14, <3>20, <3>21
    <2>. QED BY <2>4, <2>7, <2>8
  <1>. QED BY <1>8, <1>9

LEMMA DeleteUnlinkedServiceTear == ASSUME ClusterInv, TearInv, DeleteUnlinkedService PROVE TearInv'
  <1>1. at.phase = "dIs" /\ At("dIs", "delete") BY DEF DeleteUnlinkedService, At
  <1>2. "dIs" \in DeletePhase \ {"dMachines", "dFinal", "dNet", "dPeerRoutes"} BY DEF DeletePhase
  <1>3. ClusterInv' BY DeleteUnlinkedServiceOk
  <1>4. TypeOK /\ ~machines /\ Heir(mem, mem) /\ Traced(mem) BY <1>1, <1>2, Tearing
  <1>5. PICK w, a : w = mem /\ a = Proceed("dIs") OBVIOUS
  <1>6. PICK V : V = {x \in cloud.iss : x.id # at.id} OBVIOUS
  <1>7. PICK c : c = [cloud EXCEPT !.iss = V] OBVIOUS
  <1>8. Call(c, a, w, w) BY <1>5, <1>6, <1>7 DEF DeleteUnlinkedService, InternetServiceDeleted
  <1>9. /\ cloud' = c \/ (cloud' = cloud /\ faults' = faults + 1)
        /\ at' = a \/ at' = Start("patch")
        /\ mem' = w /\ (faults' = faults \/ faults' = faults + 1)
    BY <1>8, CallEnds
  <1>10. UNCHANGED <<obj, cache, old, machines>> BY <1>8 DEF Call
  <1>11. cloud' = c => Wanes /\ cloud'.nets = cloud.nets /\ cloud'.iss = V
    <2>1. \A x \in V : x.net # 0 => x \in cloud.iss BY <1>6
    <2>. QED BY <1>4, <1>7, <2>1, ServicesWane
  <1>12. cloud' = cloud => Wanes /\ cloud'.nets = cloud.nets /\ cloud'.iss = cloud.iss
    BY CloudEases DEF Eases
  <1>13. at'.phase # "dFinal" /\ at'.phase # "dPeering" BY <1>2, <1>5, <1>9, CalmPositions DEF Calm
  <1>14. Heir(mem, w) /\ Traced(w) BY <1>4, <1>5
  <1>15. ~ReuseNet => Distinct(cloud.nets) /\ Distinct(cloud.iss) BY DEF TearInv, StraysOk
  <1>16. ~ReuseNet => Distinct(cloud.nets)' /\ Distinct(cloud.iss)'
    BY <1>6, <1>9, <1>11, <1>12, <1>15 DEF Distinct
  <1>17. CASE cloud' = c
    <2>1. \A x : ~TagsNext(x) BY <1>1 DEF TagsNext, At
    <2>2. Lost' \subseteq Lost BY <1>6, <1>11, <1>17, <2>1 DEF Lost, LinksNext
    <2>. QED BY <1>1, <1>2, <1>3, <1>4, <1>9, <1>10, <1>11, <1>13, <1>14, <1>16, <1>17, <2>2, WaneStep
  <1>18. CASE cloud' = cloud /\ faults' = faults + 1
    <2>1. ~ReuseNet => \E x : Lost' \subseteq Lost \cup {x} BY <1>15, <1>18, LostByFault
    <2>. QED BY <1>1, <1>2, <1>3, <1>4, <1>9, <1>10, <1>12, <1>13, <1>14, <1>16, <1>18, <2>1, WaneStep
  <1>. QED BY <1>9, <1>17, <1>18

LEMMA DeleteSubnetTear == ASSUME ClusterInv, TearInv, NEW r \in Ranges, DeleteSubnet(r) PROVE TearInv'
  <1>1. at.phase = "dSubnet" /\ at.step = "loop" /\ ~At("dIs", "delete") BY DEF DeleteSubnet, At
  <1>2. "dSubnet" \in DeletePhase \ {"dMachines"} BY DEF DeletePhase
  <1>3. ClusterInv' BY DeleteSubnetOk
  <1>4. TypeOK /\ ~machines /\ mem \in OscCluster /\ at \in Position /\ Heir(mem, mem) /\ Traced(mem)
    BY <1>1, <1>2, Tearing
  <1>5. ~ReuseNet BY <1>1 DEF ClusterInv, ReuseSpared, At
  <1>6. PICK i \in Nat : i = SubnetId(mem, r) BY <1>4, LookupTypes
  <1>7. PICK n : n = WithNet(mem) OBVIOUS
  <1>8. Heir(mem, n) /\ Traced(n) BY <1>1, <1>2, <1>7, Tearing
  <1>9. PICK w : w = [n EXCEPT !.st.sn[r] = i] OBVIOUS
  <1>10. Heir(mem, w) /\ Traced(w)
    <2>1. n \in OscCluster BY <1>8 DEF Heir
    <2>2. Heir(n, w) BY <1>9, <2>1, UpdateTypes
    <2>3. Traced([n EXCEPT !.st.sn[r] = i]) BY <1>8, <2>1, SetTraced, Zenon
    <2>. QED BY <1>8, <1>9, <2>2, <2>3 DEF Heir
  <1>11. PICK a : a = [at EXCEPT !.todo = @ \ {r}] OBVIOUS
  <1>12. Calm(a) BY <1>1, <1>4, <1>11 DEF Calm, Position
  <1>13. CASE i \notin Ids(cloud.subnets)
    <2>1. Continue(a, mem) BY <1>6, <1>11, <1>13 DEF DeleteSubnet, SubnetFound
    <2>. QED BY <1>1, <1>2, <1>3, <1>4, <1>12, <2>1, EaseGoes
  <1>14. CASE i \in Ids(cloud.subnets)
    <2>1. PICK s : s = CHOOSE x \in cloud.subnets : x.id = i OBVIOUS
    <2>2. s \in cloud.subnets BY <1>14, <2>1 DEF Ids
    <2>3. PICK c : c = SubnetDeleted(s.id) OBVIOUS
    <2>4. DeleteCall(SubnetInUse(s), c, a, w, w)
      BY <1>6, <1>7, <1>9, <1>11, <1>14, <2>1, <2>3 DEF DeleteSubnet, SubnetFound
    <2>5. CASE EndPass(w) BY <1>1, <1>2, <1>3, <1>4, <1>10, <2>5, EaseEnds
    <2>6. CASE ~SubnetInUse(s) /\ Call(c, a, w, w)
      <3>1. Distinct(cloud.subnets) BY <1>5 DEF TearInv, Held
      <3>2. cloud' = c => Eases BY <1>4, <2>2, <2>3, <2>6, <3>1, SubnetWanes DEF Eases
      <3>. QED BY <1>1, <1>2, <1>3, <1>4, <1>10, <1>12, <2>6, <3>2, EaseCalls
    <2>. QED BY <2>4, <2>5, <2>6 DEF DeleteCall
  <1>. QED BY <1>13, <1>14

(* The net goes only when it is empty, and the end comes only when it has gone. *)
LEMMA DeleteNetTear == ASSUME ClusterInv, TearInv, DeleteNet PROVE TearInv'
  <1>1. at.phase = "dNet" /\ ~At("dIs", "delete") BY DEF DeleteNet, At
  <1>2. "dNet" \in DeletePhase \ {"dMachines", "dFinal"} BY DEF DeletePhase
  <1>3. ClusterInv' BY DeleteNetOk
  <1>4. TypeOK /\ ~machines /\ mem \in OscCluster /\ Heir(mem, mem) /\ Traced(mem) BY <1>1, <1>2, Tearing
  <1>5. PICK w, a, i : w = WithNet(mem) /\ a = Proceed("dNet") /\ i = NetId(mem) OBVIOUS
  <1>6. Heir(mem, w) /\ Traced(w) BY <1>1, <1>2, <1>5, Tearing
  <1>7. a.phase # "dPeering" BY <1>2, <1>5, ProceedFacts
  <1>8. ~ReuseNet => \A n \in Tagged(cloud.nets) : i = n.id BY <1>4, <1>5, LookupTrace
  <1>9. CASE ReuseNet \/ ~NetFound(mem)
    <2>1. Continue(a, mem) BY <1>5, <1>9 DEF DeleteNet
    <2>2. PICK m : m = mem OBVIOUS
    <2>3. at' = a /\ mem' = m /\ cloud' = cloud /\ faults' = faults /\ UNCHANGED <<obj, cache, old, machines>>
      BY <2>1, <2>2 DEF Continue
    <2>4. ~ReuseNet => Tagged(cloud.nets) = {} BY <1>5, <1>8, <1>9 DEF NetFound, Ids, Tagged
    <2>5. Heir(mem, m) /\ Traced(m) /\ Eases BY <1>4, <2>2, <2>3, CloudEases
    <2>6. at'.phase # "dPeering" BY <1>7, <2>3
    <2>. QED BY <1>1, <1>2, <1>3, <1>4, <2>3, <2>4, <2>5, <2>6, EaseTear
  <1>10. CASE ~(ReuseNet \/ ~NetFound(mem))
    <2>1. PICK c : c = NetDeleted(i) OBVIOUS
    <2>2. DeleteCall(NetInUse(i), c, a, w, w) BY <1>5, <1>10, <2>1 DEF DeleteNet
    <2>3. CASE EndPass(w) BY <1>1, <1>2, <1>3, <1>4, <1>6, <2>3, EaseEnds
    <2>4. CASE ~NetInUse(i) /\ Call(c, a, w, w)
      <3>1. \/ cloud' = c /\ at' = a /\ mem' = w /\ faults' = faults
            \/ /\ cloud' = c \/ cloud' = cloud
               /\ at' = Start("patch") /\ mem' = w /\ faults' = faults + 1
        BY <2>4, CallEnds
      <3>2. cloud' = c => Wanes /\ cloud'.nets = {n \in cloud.nets : n.id # i} /\ cloud'.iss = cloud.iss
        BY <1>4, <2>1, <2>4, NetWanes
      <3>3. cloud' = cloud => Wanes BY CloudEases DEF Eases
      <3>4. Wanes /\ cloud'.nets \subseteq cloud.nets /\ cloud'.iss = cloud.iss BY <3>1, <3>2, <3>3
      <3>5. UNCHANGED <<obj, cache, old, machines>> BY <2>4 DEF Call
      <3>6. ~At("net", "tag") /\ ~At("internetService", "link") BY <1>1 DEF At
      <3>7. Lost' \subseteq Lost BY <1>1, <3>4, <3>6, AllLost
      <3>8. ~ReuseNet => Distinct(cloud.nets)' /\ Distinct(cloud.iss)' BY <3>4 DEF TearInv, StraysOk, Distinct
      <3>9. at'.phase # "dPeering" BY <1>7, <3>1 DEF Start
      <3>10. at'.phase = "dFinal" /\ ~ReuseNet => Tagged(cloud'.nets) = {}
        <4>1. at'.phase = "dFinal" => cloud' = c BY <3>1 DEF Start
        <4>. QED BY <1>8, <3>2, <4>1 DEF Tagged
      <3>11. mem' = w /\ (faults' = faults \/ faults' = faults + 1) BY <3>1
      <3>. QED BY <1>1, <1>2, <1>3, <1>4, <1>6, <3>4, <3>5, <3>7, <3>8, <3>9, <3>10, <3>11, WaneStep
    <2>. QED BY <2>2, <2>3, <2>4 DEF DeleteCall
  <1>. QED BY <1>9, <1>10

LEMMA RemoveFinalizerTear == ASSUME ClusterInv, TearInv, RemoveFinalizer PROVE TearInv'
  <1>1. at.phase = "dFinal" BY DEF RemoveFinalizer, At
  <1>2. "dFinal" \in DeletePhase \ {"dMachines"} BY DEF DeletePhase
  <1>3. ClusterInv' BY RemoveFinalizerOk
  <1>4. mem \in OscCluster /\ ~machines /\ mem.del /\ cache.del BY <1>1, <1>2, Deleting
  <1>5. /\ at' = Start("patch") /\ mem' = [mem EXCEPT !.fin = "removed"]
        /\ UNCHANGED <<cloud, obj, cache, old, machines, faults>>
    BY DEF RemoveFinalizer, EndPass, Continue
  <1>6. mem'.st = mem.st /\ mem'.del = mem.del BY <1>4, <1>5 DEF OscCluster
  <1>7. AllTraced' BY <1>5, <1>6, CopyFields DEF AllTraced, Traced
  <1>8. at'.phase = "patch" BY <1>5 DEF Start
  <1>9. ~Spared' BY <1>4, <1>5, <1>6 DEF Spared
  <1>10. ~ReuseNet => Gone BY <1>1, CopyFields
  <1>11. ~At("net", "tag") /\ ~At("internetService", "link") /\ ~At("dIs", "delete") BY <1>1 DEF At
  <1>. QED BY <1>3, <1>5, <1>7, <1>8, <1>9, <1>10, <1>11, QuietTear

LEMMA CloudStepTear == ASSUME ClusterInv, TearInv, CloudStep PROVE TearInv'
  <1>1. /\ VmBoots \/ VmTerminates \/ NatVanishes
        /\ UNCHANGED <<obj, cache, old, mem, at, machines, faults>>
    BY DEF CloudStep, PassUnchanged
  <1>2. ClusterInv' BY CloudStepOk
  <1>3. TypeOK /\ TypeOK' /\ ReuseNet' = ReuseNet BY <1>1, <1>2 DEF ClusterInv, ReuseNet
  <1>4. Wanes /\ cloud'.nets = cloud.nets /\ cloud'.iss = cloud.iss BY <1>1, <1>3, CloudStepEases DEF Eases
  <1>5. Lost' = Lost BY <1>1, <1>4 DEF Lost, TagsNext, LinksNext, At, Tagged
  <1>6. ~ReuseNet => Distinct(cloud.nets)' /\ Distinct(cloud.iss)' BY <1>4 DEF TearInv, StraysOk, Distinct
  <1>7. faults' >= faults BY <1>1, <1>3, ScopeAssumption DEF TypeOK
  <1>8. StraysOk' BY <1>3, <1>5, <1>6, <1>7, LostStays DEF TearInv
  <1>9. Spared' => Spared BY <1>1 DEF Spared
  <1>10. PICK w : w = mem OBVIOUS
  <1>11. mem' = w /\ mem'.fin = mem.fin /\ Traced(w) BY <1>1, <1>10, CopyFields
  <1>12. at'.phase = "dFinal" /\ ~ReuseNet => ~Spared /\ Tagged(cloud'.nets) = {}
    BY <1>1, <1>4, CopyFields DEF Gone, Tagged
  <1>13. at'.phase = "dPeering" => NoRoutes BY <1>1, CopyFields
  <1>. QED BY <1>1, <1>2, <1>4, <1>8, <1>9, <1>11, <1>12, <1>13, WaneTear

LEMMA TeardownStepsTear == ASSUME ClusterInv, TearInv, TeardownStep PROVE TearInv'
  <1>1. CASE DeleteStart \/ DeleteBastion \/ DeleteLoadBalancer \/ DeleteNatService
    BY <1>1, DeleteStartTear, DeleteBastionTear, DeleteLoadBalancerTear, DeleteNatServiceTear
  <1>2. CASE \E k \in {"natIp", "vmIp"} : DeletePublicIp(k) BY <1>2, DeletePublicIpTear
  <1>3. CASE DeleteNetAccessPoint \/ DeletePeeringRoutes \/ DeleteNetPeering \/ DeleteRouteTable
    BY <1>3, DeleteNetAccessPointTear, DeletePeeringRoutesTear, DeleteNetPeeringTear, DeleteRouteTableTear
  <1>4. CASE ListSecurityGroups \/ DeleteSecurityGroup BY <1>4, ListSecurityGroupsTear, DeleteSecurityGroupTear
  <1>5. CASE DeleteInternetService \/ DeleteUnlinkedService
    BY <1>5, DeleteInternetServiceTear, DeleteUnlinkedServiceTear
  <1>6. CASE \E r \in Ranges : DeleteSubnet(r) BY <1>6, DeleteSubnetTear
  <1>7. CASE DeleteNet \/ RemoveFinalizer BY <1>7, DeleteNetTear, RemoveFinalizerTear
  <1>8. CASE EndPublicIps \/ EndSecurityGroupDeletion \/ EndSubnetDeletion \/ StartSubnetDeletion
    BY <1>8, EndingsTear
  <1>. QED BY <1>1, <1>2, <1>3, <1>4, <1>5, <1>6, <1>7, <1>8 DEF TeardownStep

LEMMA InitTear == ASSUME Init PROVE TearInv
  <1>1. PICK s \in Specs, o \in Configs : obj = NewOscCluster(s, o) BY DEF Init
  <1>2. cache = obj /\ old = NoScope /\ mem = NoScope /\ at = Start("idle") /\ faults = 0 BY DEF Init
  <1>3. obj.fin = "none" /\ obj.st.net = 0 /\ obj.st.peer = 0 BY <1>1 DEF NewOscCluster, NoResources
  <1>4. at.phase = "idle" BY <1>2 DEF Start
  <1>5. AllTraced BY <1>2, <1>3, NoScopeTraced DEF AllTraced, Traced
  <1>6. Finalized BY <1>2, <1>3, <1>4, NoScopeTraced DEF Finalized
  <1>7. RoutesOk BY InitCloud DEF RoutesOk
  <1>8. Held
    <2>1. CASE ReuseNet BY <2>1 DEF Held, GroupsHeld, PubHeld
    <2>2. CASE ~ReuseNet
      <3>1. cloud.lb = "none" BY <2>2 DEF Init, EmptyCloud
      <3>2. ~HoldsPub BY <3>1, InitCloud DEF HoldsPub
      <3>. QED BY <2>2, <3>2, InitCloud DEF Held, GroupsHeld, PubHeld, InNet, Linked, Live, Tagged, Distinct
    <2>. QED BY <2>1, <2>2
  <1>9. StraysOk
    <2>1. CASE ReuseNet BY <2>1 DEF StraysOk
    <2>2. CASE ~ReuseNet
      <3>1. Lost = {} BY <2>2, InitCloud DEF Lost
      <3>2. IsFiniteSet(Lost) /\ Cardinality(Lost) = 0 BY <3>1, FS_EmptySet
      <3>. QED BY <1>2, <2>2, <3>2, InitCloud DEF StraysOk, Distinct
    <2>. QED BY <2>1, <2>2
  <1>. QED BY <1>4, <1>5, <1>6, <1>7, <1>8, <1>9 DEF TearInv

(* The invariant of the teardown: in every behaviour all that the provider  *)
(* made is in the cluster's one net, every copy of the status leads to that *)
(* net as long as it is there, the routes to the peering go before the      *)
(* peering, and no copy of the object lacks its finalizer before the net    *)
(* has gone.                                                                *)
THEOREM TearInvariant == Spec => []TearInv
  <1>. DEFINE Inv == ClusterInv /\ TearInv
  <1>1. Init => Inv BY InitOk, InitTear
  <1>2. Inv /\ [Next]_vars => Inv'
    <2>. SUFFICES ASSUME ClusterInv, TearInv, [Next]_vars PROVE ClusterInv' /\ TearInv' OBVIOUS
    <2>1. CASE PassStep
      BY <2>1, ReconcileOk, BuildStepsOk, TeardownStepsOk, CloseObjectOk, CloseStatusOk,
         ReconcileTear, BuildStepsTear, TeardownStepsTear, CloseObjectTear, CloseStatusTear DEF PassStep
    <2>2. CASE LookupFails \/ Crash \/ CloudStep
      BY <2>2, LookupFailsOk, CrashOk, CloudStepOk, LookupFailsTear, CrashTear, CloudStepTear
    <2>3. CASE Sync \/ Edit \/ Delete \/ MachinesAppear \/ MachinesVanish \/ UNCHANGED vars
      BY <2>3, SyncOk, EditOk, DeleteOk, MachinesAppearOk, MachinesVanishOk, StutterOk, EnvironmentTear
    <2>. QED BY <2>1, <2>2, <2>3 DEF Next, Environment, Done
  <1>. QED BY <1>1, <1>2, PTL DEF Spec

(* No route of the management net or of the cluster's net ever leads into a *)
(* peering that is not active, whatever fails while reconcileNetPeering and *)
(* its routes are built or reconcileDelete takes them down.                 *)
THEOREM NoBlackHoleAlways == Spec => []NoBlackHole
  <1>1. TearInv => NoBlackHole BY DEF TearInv, RoutesOk, Active, NoBlackHole
  <1>. QED BY <1>1, TearInvariant, PTL

(* reconcileDelete removes the finalizer only when nothing of the cluster   *)
(* is left that runs or that its net holds, but for nets and internet       *)
(* services that no lookup finds again, at most one for each fault.         *)
THEOREM TornDownAlways == Spec => []TornDown
  <1>1. ASSUME ClusterInv, TearInv PROVE TornDown
    <2>. SUFFICES ASSUME obj.fin = "removed", ~ReuseNet
                  PROVE  /\ cloud.subnets = {} /\ cloud.rts = {} /\ cloud.sgs = {} /\ cloud.lb = "none"
                         /\ \A n \in cloud.nats : n.deleting
                         /\ cloud.naps = {} /\ cloud.mgmt = {} /\ ~\E p \in cloud.peerings : LivePeering(p)
                         /\ \A v \in cloud.vms : v.state \in {"shutting-down", "terminated"}
                         /\ cloud.nets \cup cloud.iss = Strays
                         /\ Cardinality(Strays) <= faults
      BY DEF TornDown
    <2>1. ~Spared /\ Tagged(cloud.nets) = {} BY <1>1, CopyFields DEF Gone
    <2>2. /\ cloud.subnets = {} /\ cloud.rts = {} /\ cloud.sgs = {} /\ cloud.nats = {}
          /\ cloud.naps = {} /\ Live = {} /\ Linked = {}
      BY <1>1, <2>1 DEF TearInv, Held, GroupsHeld, InNet
    <2>3. ~HoldsPub BY <1>1, <2>2 DEF TearInv, Held, PubHeld, HasPub
    <2>4. cloud.mgmt = {} BY <1>1, <2>2 DEF TearInv, RoutesOk, Active, Live, LivePeering
    <2>5. cloud.nets \cup cloud.iss = Strays BY <2>1, <2>2 DEF Strays, Tagged, Linked
    <2>6. Lost = Strays
      <3>1. at.phase \notin BuildPhase BY <1>1, <2>1 DEF ClusterInv, Passes, Spared, BuildPhase
      <3>2. \A x : ~TagsNext(x) /\ ~LinksNext(x) BY <2>1, <3>1 DEF TagsNext, LinksNext, At, BuildPhase
      <3>. QED BY <3>2 DEF Lost, Strays
    <2>7. Cardinality(Strays) <= faults BY <1>1, <2>6 DEF TearInv, StraysOk
    <2>. QED BY <2>2, <2>3, <2>4, <2>5, <2>7 DEF HoldsPub, Alive, Live
  <1>2. ClusterInv /\ TearInv => TornDown BY <1>1
  <1>. QED BY <1>2, ClusterInvariant, TearInvariant, PTL
====================================================================================
