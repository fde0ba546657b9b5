-------------------------------- MODULE OscCluster --------------------------------
(***************************************************************************)
(* The OscCluster controller: reconcile passes over one OscCluster, one at *)
(* a time, against an API server, an informer and a cloud that answer,     *)
(* lag and fail.                                                           *)
(***************************************************************************)
EXTENDS ClusterTeardown

SetReady ==
  /\ At("ready", "start")
  /\ EndPass([mem EXCEPT !.ready = TRUE])

Init ==
  /\ \E s \in Specs, o \in Configs : obj = NewOscCluster(s, o)
  /\ cache = obj
  /\ old = NoScope /\ mem = NoScope
  /\ at = Start("idle")
  /\ machines = FALSE
  /\ faults = 0 /\ edits = 0
  /\ cloud = IF ReuseNet
             THEN ReusedCloud({Foreign} \cup (IF ReuseSG THEN SGNames ELSE {}))
             ELSE EmptyCloud

BuildStep ==
  \/ Skip
  \/ FoundNet \/ CreateNet \/ TagNet
  \/ StartSubnets \/ (\E r \in Ranges : VisitSubnet(r)) \/ EndSubnets
  \/ ReconcileInternetService \/ LinkInternetService
  \/ StartRouteTables \/ (\E r \in Ranges : VisitRouteTable(r))
  \/ LinkRouteTable \/ ReconcileRoute \/ EndRouteTables
  \/ ReconcileNatService \/ CreateNatService
  \/ ReconcileNetPeering \/ TagNetPeering \/ AcceptNetPeering
  \/ StartPeeringRoutes \/ RoutePeering \/ ReconcileNetAccessPoint
  \/ StartSecurityGroups \/ (\E s \in SGNames : VisitSecurityGroup(s))
  \/ AddRules \/ EndSecurityGroups
  \/ ReconcileLoadBalancer \/ ConfigureHealthCheck \/ TagLoadBalancer
  \/ ReconcileBastion \/ CreateBastion
  \/ SetReady

TeardownStep ==
  \/ DeleteStart \/ DeleteBastion \/ DeleteLoadBalancer \/ DeleteNatService
  \/ (\E k \in {"natIp", "vmIp"} : DeletePublicIp(k)) \/ EndPublicIps
  \/ DeleteNetAccessPoint \/ DeletePeeringRoutes \/ DeleteNetPeering \/ DeleteRouteTable
  \/ ListSecurityGroups \/ DeleteSecurityGroup \/ EndSecurityGroupDeletion
  \/ DeleteInternetService \/ DeleteUnlinkedService
  \/ StartSubnetDeletion \/ (\E r \in Ranges : DeleteSubnet(r)) \/ EndSubnetDeletion
  \/ DeleteNet \/ RemoveFinalizer

(* The steps of a pass, which the manager's worker takes one after another. *)
PassStep == Reconcile \/ BuildStep \/ TeardownStep \/ CloseObject \/ CloseStatus

Environment ==
  Sync \/ LookupFails \/ Crash \/ Edit \/ Delete \/ MachinesAppear \/ MachinesVanish \/ CloudStep

(* The object is gone and the informer knows: nothing more happens. *)
Done ==
  /\ ~obj.exists /\ cache = obj /\ at.phase = "idle"
  /\ UNCHANGED vars

Next == PassStep \/ Environment \/ Done

Spec == Init /\ [][Next]_vars
--------------------------------------------------------------------------------
(* Every variable has its type. *)
TypeOK ==
  /\ cloud \in Cloud
  /\ obj \in OscCluster /\ cache \in OscCluster
  /\ old \in OscCluster /\ mem \in OscCluster
  /\ at \in Position
  /\ machines \in BOOLEAN
  /\ faults \in 0 .. MaxFaults
  /\ edits \in 0 .. MaxEdits

(* What reconciler k promises for the version m of the object: the tracker, *)
(* starting from the status of m, finds all that the spec of m asks for.    *)
Built(k, m) ==
  CASE k = "net" -> NetFound(m)
    [] k = "subnet" -> \A r \in m.spec : SubnetFound(m, r)
    [] k = "internetService" -> LinkedService(m)
    [] k = "routeTable" ->
         \A r \in m.spec : \E t \in TableOf(SubnetId(m, r)) : Internet => t.routed
    [] k = "natService" ->
         \E n \in cloud.nats : n.id = NatServiceId(m) /\ n.ip \in cloud.ips
    [] k = "netPeering" -> PeeringIs(m, {"active"})
    [] k = "netPeeringRoutes" ->
         /\ NetPeeringId(m) \in cloud.mgmt
         /\ \A r \in m.spec : \E t \in TableOf(SubnetId(m, r)) : t.peer = NetPeeringId(m)
    [] k = "netAccessPoint" -> NetAccessPointId(m) \in Ids(cloud.naps)
    [] k = "securityGroup" ->
         \A s \in SGNames : \E g \in cloud.sgs : g.id = SecurityGroupId(m, s) /\ g.ruled
    [] k = "loadbalancer" -> cloud.lb = "tagged"
    [] k = "bastion" ->
         \E v \in cloud.vms : v.id = BastionId(m) /\ v.state = "running" /\ v.ip \in cloud.ips

(* The reconcilers that a pass goes through and that own what they build. *)
Owned ==
  {"net", "subnet"} \cup (IF LB THEN {"loadbalancer"} ELSE {})
  \cup (IF ReuseSG THEN {} ELSE {"securityGroup"})
  \cup (IF ReuseNet THEN {} ELSE {"routeTable"})
  \cup (IF Internet /\ ~ReuseNet THEN {"internetService", "natService"} ELSE {})
  \cup (IF Bastion /\ ~ReuseNet THEN {"bastion"} ELSE {})
  \cup (IF Peering /\ ~ReuseNet THEN {"netPeering", "netPeeringRoutes"} ELSE {})
  \cup (IF Naps /\ ~ReuseNet THEN {"netAccessPoint"} ELSE {})

(* A generation that a reconciler has recorded in the status is the truth:  *)
(* as long as the object is not being deleted, whatever the recorded        *)
(* generation claims is in the cloud and can be found from the status, even *)
(* after lost replies, failed patches, crashes and passes on a stale copy.  *)
RecordedIsBuilt ==
  ~obj.del => \A k \in Reconcilers : obj.rec[k] = obj.gen => Built(k, obj)

(* Status.Ready is published only for a complete infrastructure, and since  *)
(* nothing ever resets it, the infrastructure of some version of the spec   *)
(* must stay complete until the deletion; also, while Machines exist, even  *)
(* during the deletion.                                                     *)
ReadyIsBuilt ==
  (obj.ready /\ ~obj.del) \/ machines =>
    \E s \in Specs : \A k \in Owned : Built(k, [obj EXCEPT !.spec = s])

(* A NAT service exists only behind a net with an internet service and a    *)
(* public subnet routed to it, until the teardown.                          *)
NatBehindGateway ==
  ~obj.del => \A n \in cloud.nats :
    /\ \E i \in cloud.iss : i.net = n.net
    /\ \E s \in cloud.subnets, t \in cloud.rts :
         s.net = n.net /\ s.range = Pub /\ t.sub = s.id /\ t.routed

(* What no lookup finds again: a net whose tag call failed, an internet     *)
(* service whose link call failed.                                          *)
Strays == {n \in cloud.nets : ~n.tagged} \cup {i \in cloud.iss : i.net = 0}

(* When the finalizer is removed nothing of the cluster is left that runs   *)
(* or that the net holds, but for strays, at most one per fault.            *)
TornDown ==
  obj.fin = "removed" /\ ~ReuseNet =>
    /\ cloud.subnets = {} /\ cloud.rts = {} /\ cloud.sgs = {} /\ cloud.lb = "none"
    /\ \A n \in cloud.nats : n.deleting
    /\ cloud.naps = {} /\ cloud.mgmt = {} /\ ~\E p \in cloud.peerings : LivePeering(p)
    /\ \A v \in cloud.vms : v.state \in {"shutting-down", "terminated"}
    /\ cloud.nets \cup cloud.iss = Strays
    /\ Cardinality(Strays) <= faults

(* However many passes run, on however stale a copy of the status, the      *)
(* cluster holds one public IP per user of one, and one more per fault.     *)
IpsBounded ==
  Cardinality(cloud.ips)
    <= (IF Internet THEN 1 ELSE 0) + (IF Bastion THEN 1 ELSE 0) + faults

(* getNatService and RetrackIP track an IP again "in case status was        *)
(* reset", so that the teardown, which frees tracked IPs only, leaves none. *)
PublicIpsReleased == obj.fin = "removed" => cloud.ips = {}

AtMostOne(S) == \A x, y \in S : x = y

(* Reconciling is idempotent: lost replies, failed patches, crashes and     *)
(* passes on a stale status never make the provider build a second copy of  *)
(* anything that its lookups can find again.                                *)
NoDuplicates ==
  /\ AtMostOne({n \in cloud.nets : n.tagged})
  /\ AtMostOne({i \in cloud.iss : i.net # 0})
  /\ \A r \in Ranges : AtMostOne({s \in cloud.subnets : s.range = r})
  /\ \A s \in cloud.subnets : AtMostOne(TableOf(s.id))
  /\ \A s \in SGNames : AtMostOne({g \in cloud.sgs : g.name = s})
  /\ AtMostOne(cloud.nats) /\ AtMostOne(cloud.vms) /\ AtMostOne(cloud.naps)
  /\ AtMostOne({p \in cloud.peerings : p.tagged})

(* No route of the management net or of the cluster's net leads into a      *)
(* peering that is not there: traffic between the nets is refused or        *)
(* carried, never swallowed, whatever fails during building or teardown.    *)
NoBlackHole ==
  \A i \in cloud.mgmt \cup {t.peer : t \in cloud.rts} :
    i = 0 \/ \E p \in cloud.peerings : p.id = i /\ p.state = "active"

(* Reused resources survive: config-cluster-reuse.md says that the provider *)
(* does not delete them. *)
ReusedKept ==
  ReuseNet =>
    /\ ReusedNet \in Ids(cloud.nets)
    /\ \A r \in Ranges : ReusedId[r] \in Ids(cloud.subnets)
    /\ \A s \in {Foreign} \cup (IF ReuseSG THEN SGNames ELSE {}) : ReusedId[s] \in Ids(cloud.sgs)
--------------------------------------------------------------------------------
(* Fairness: the worker goes on with a pass and passes are started again    *)
(* (errors are requeued, and the informer resyncs every few minutes); the   *)
(* informer catches up; VMs and NAT services finish their transitions;      *)
(* Cluster API deletes the Machines of a deleted cluster.  Crashes, edits   *)
(* and deletions by the user are not fair.                                  *)
Fairness ==
  /\ WF_vars(PassStep)
  /\ WF_vars(Sync)
  /\ WF_vars(CloudStep)
  /\ WF_vars(MachinesVanish)

FairSpec == Spec /\ Fairness

Unowned == cloud.lb = "untagged"
LostEndpoint == LB /\ obj.rec["loadbalancer"] = obj.gen /\ ~obj.ep
DroppedSubnet == \E s \in cloud.subnets : s.range \notin obj.spec

(* A cluster that is not deleted becomes ready with an endpoint, and its    *)
(* reconcilers settle on its generation, in spite of the extra generation   *)
(* that publishing the endpoint makes.  The exceptions are two states that  *)
(* no pass ever leaves: a load balancer whose health check or tag call      *)
(* failed, and an endpoint whose patch failed.                              *)
Settles ==
  \/ <>[](Unowned \/ LostEndpoint)
  \/ <>obj.del
  \/ <>[](/\ obj.ready /\ (LB => obj.ep)
          /\ \A k \in Owned : obj.rec[k] = obj.gen)

(* A deleted cluster goes.  The exceptions are a load balancer that the     *)
(* teardown takes for another cluster's, and a subnet that was dropped from *)
(* the spec and that the teardown no longer visits.                         *)
DeletionCompletes ==
  \/ <>[](Unowned \/ DroppedSubnet)
  \/ obj.del ~> ~obj.exists
===================================================================================
