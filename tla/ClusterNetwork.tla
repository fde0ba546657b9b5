----------------------------- MODULE ClusterNetwork -----------------------------
(***************************************************************************)
(* The handlers of the net, the subnets, the internet service, the route   *)
(* tables, the NAT service and its public IP: how the tracker finds each   *)
(* of them again, how it is built and how it is torn down.                 *)
(***************************************************************************)
EXTENDS ClusterScope

(* The tracker's lookups.  An id comes from the spec (reused resources),    *)
(* from the status, or from a search in the cloud; 0 if there is none.      *)
TheId(S) == IF S = {} THEN 0 ELSE (CHOOSE x \in S : TRUE).id

FirstOf(id, S) == IF id # 0 THEN id ELSE TheId(S)

(* Mutant of NetId: the status is trusted and no tag is looked up. *)
NetIdFromStatus(m) == IF ReuseNet THEN ReusedNet ELSE m.st.net

NetId(m) ==
  IF ReuseNet THEN ReusedNet
  ELSE FirstOf(m.st.net, {n \in cloud.nets : n.tagged})

(* getNetId remembers in the status what it found by tag. *)
WithNet(m) == IF ReuseNet THEN m ELSE [m EXCEPT !.st.net = NetId(m)]

(* Mutant of SubnetId: the status is trusted and the net is not searched. *)
SubnetIdFromStatus(m, r) == IF ReuseNet THEN ReusedId[r] ELSE m.st.sn[r]

SubnetId(m, r) ==
  IF ReuseNet THEN ReusedId[r]
  ELSE FirstOf(m.st.sn[r], {s \in cloud.subnets : s.net = NetId(m) /\ s.range = r})

InternetServiceId(m) ==
  FirstOf(m.st.is, {i \in cloud.iss : NetId(m) # 0 /\ i.net = NetId(m)})

(* Mutant of NatServiceId: no search by client token. *)
NatServiceIdFromStatus(m) == m.st.nat

(* By client token; the token is fixed for the one NAT service of the model. *)
NatServiceId(m) == FirstOf(m.st.nat, cloud.nats)

NetFound(m) == NetId(m) \in Ids(cloud.nets)
SubnetFound(m, r) == SubnetId(m, r) \in Ids(cloud.subnets)
--------------------------------------------------------------------------------
(* reconcileNet: found, or created by one call and tagged by a second.      *)
FoundNet ==
  /\ At("net", "start") /\ Runs("net")
  /\ NetFound(mem)
  /\ Continue(Start(After("net")), Recorded(WithNet(mem), "net"))

CreateNet ==
  /\ At("net", "start") /\ Runs("net")
  /\ ~NetFound(mem) /\ ~ReuseNet
  /\ Call(NetCreated, [at EXCEPT !.step = "tag", !.id = cloud.next], mem, mem)

TagNet ==
  /\ At("net", "tag")
  /\ Call(NetTagged(at.id), Start(After("net")),
          mem, Recorded([mem EXCEPT !.st.net = at.id], "net"))
--------------------------------------------------------------------------------
(* reconcileSubnets: each subnet of the spec in turn. *)
StartSubnets ==
  /\ At("subnet", "start") /\ Runs("subnet")
  /\ IF NetId(mem) = 0 THEN EndPass(mem)
     ELSE Continue([at EXCEPT !.step = "loop", !.todo = mem.spec], WithNet(mem))

(* Mutant of WithSubnet: the map of the status is made anew for every key. *)
WithNewSubnetMap(m, r, i) ==
  IF ReuseNet THEN m ELSE [m EXCEPT !.st.sn = [x \in {r} |-> i]]

WithSubnet(m, r, i) == IF ReuseNet THEN m ELSE [m EXCEPT !.st.sn[r] = i]

VisitSubnet(r) ==
  /\ At("subnet", "loop") /\ r \in at.todo
  /\ LET next == [at EXCEPT !.todo = @ \ {r}] IN
     CASE SubnetFound(mem, r) -> Continue(next, WithSubnet(mem, r, SubnetId(mem, r)))
       [] ~SubnetFound(mem, r) /\ ReuseNet -> EndPass(mem)
       [] ~SubnetFound(mem, r) /\ ~ReuseNet ->
            Call(SubnetCreated(NetId(mem), r), next, mem, WithSubnet(mem, r, cloud.next))

EndSubnets ==
  /\ At("subnet", "loop") /\ at.todo = {}
  /\ Continue(Start(After("subnet")), Recorded(mem, "subnet"))
--------------------------------------------------------------------------------
(* reconcileInternetService: created, then linked to the net; its id is     *)
(* recorded only after the link.                                            *)
LinkedService(m) == \E i \in cloud.iss : i.id = InternetServiceId(m) /\ i.net # 0

WithService(m) == [WithNet(m) EXCEPT !.st.is = InternetServiceId(m)]

ReconcileInternetService ==
  /\ At("internetService", "start") /\ Runs("internetService")
  /\ CASE ReuseNet -> Continue(Start(After("internetService")), mem)
       [] ~ReuseNet /\ LinkedService(mem) ->
            Continue(Start(After("internetService")), Recorded(WithService(mem), "internetService"))
       [] ~ReuseNet /\ ~LinkedService(mem) /\ NetId(mem) = 0 -> EndPass(mem)
       [] ~ReuseNet /\ ~LinkedService(mem) /\ NetId(mem) # 0 ->
            IF InternetServiceId(mem) \in Ids(cloud.iss)
            THEN Continue([at EXCEPT !.step = "link", !.id = InternetServiceId(mem)], WithNet(mem))
            ELSE Call(InternetServiceCreated, [at EXCEPT !.step = "link", !.id = cloud.next],
                      WithNet(mem), WithNet(mem))

LinkInternetService ==
  /\ At("internetService", "link")
  /\ Call(InternetServiceLinked(at.id, NetId(mem)), Start(After("internetService")),
          mem, Recorded([mem EXCEPT !.st.is = at.id], "internetService"))
--------------------------------------------------------------------------------
(* reconcileRouteTable, for the subnets with the nat role only (rtNat) and   *)
(* then for all: one table per subnet, found by its link to the subnet, or   *)
(* created, linked and given its default route.                              *)
RtPhases == {"rtNat", "routeTable"}

StartRouteTables ==
  /\ at.phase \in RtPhases /\ at.step = "start" /\ Runs("routeTable")
  /\ CASE ReuseNet -> Continue(Start(After(at.phase)), mem)
       [] ~ReuseNet /\ NetId(mem) = 0 -> EndPass(mem)
       [] ~ReuseNet /\ NetId(mem) # 0 ->
            Continue([at EXCEPT !.step = "loop",
                                !.todo = IF at.phase = "rtNat" THEN {Pub} ELSE mem.spec], WithNet(mem))

TableOf(s) == {t \in cloud.rts : s # 0 /\ t.sub = s}

VisitRouteTable(r) ==
  /\ at.phase \in RtPhases /\ at.step = "loop" /\ r \in at.todo
  /\ LET s == SubnetId(mem, r) IN
     CASE s = 0 -> EndPass(mem)
       [] s # 0 /\ TableOf(s) # {} ->
            Continue([at EXCEPT !.step = "route", !.item = r, !.id = TheId(TableOf(s))],
                     WithSubnet(mem, r, s))
       [] s # 0 /\ TableOf(s) = {} ->
            Call(RouteTableCreated(NetId(mem)),
                 [at EXCEPT !.step = "link", !.item = r, !.id = cloud.next],
                 WithSubnet(mem, r, s), WithSubnet(mem, r, s))

LinkRouteTable ==
  /\ at.phase \in RtPhases /\ at.step = "link"
  /\ Call(RouteTableLinked(at.id, SubnetId(mem, at.item)),
          [at EXCEPT !.step = "route"], mem, mem)

(* reconcileRoute: nothing if the table has the route or internet is        *)
(* disabled; the target is the internet service for the public subnet and   *)
(* the NAT service for the others.                                          *)
RouteTarget(m, r) == IF r = Pub THEN InternetServiceId(m) ELSE NatServiceId(m)

WithTarget(m, r) ==
  IF r = Pub THEN [m EXCEPT !.st.is = RouteTarget(m, r)] ELSE [m EXCEPT !.st.nat = RouteTarget(m, r)]

ReconcileRoute ==
  /\ at.phase \in RtPhases /\ at.step = "route"
  /\ LET done == [at EXCEPT !.step = "loop", !.todo = @ \ {at.item}]
         routed == \E t \in cloud.rts : t.id = at.id /\ t.routed
     IN CASE routed \/ ~Internet -> Continue(done, mem)
          [] ~routed /\ Internet /\ RouteTarget(mem, at.item) = 0 -> EndPass(mem)
          [] ~routed /\ Internet /\ RouteTarget(mem, at.item) # 0 ->
               Call(RouteCreated(at.id), done, WithTarget(mem, at.item), WithTarget(mem, at.item))

(* Mutant of EndRouteTables: the pass over the nat subnets records as well. *)
RecordAnyRouteTables ==
  /\ at.phase \in RtPhases /\ at.step = "loop" /\ at.todo = {}
  /\ Continue(Start(After(at.phase)), Recorded(mem, "routeTable"))

(* Only the pass over all subnets records the generation. *)
EndRouteTables ==
  /\ at.phase \in RtPhases /\ at.step = "loop" /\ at.todo = {}
  /\ Continue(Start(After(at.phase)),
              IF at.phase = "routeTable" THEN Recorded(mem, "routeTable") ELSE mem)
--------------------------------------------------------------------------------
(* AllocateIP without a pool: a known IP is used if it exists and is not     *)
(* linked; otherwise a new one is created.                                   *)
UsableIp(i) == i # 0 /\ i \in cloud.ips /\ ~LinkedIp(i)

(* reconcileNatService: a NAT service that is found has its IP tracked      *)
(* again; otherwise an IP is allocated and the service created on it.       *)
NatIp(i) == (CHOOSE n \in cloud.nats : n.id = i).ip

ReconcileNatService ==
  /\ At("natService", "start") /\ Runs("natService")
  /\ LET i == NatServiceId(mem) IN
     CASE ReuseNet -> Continue(Start(After("natService")), mem)
       [] ~ReuseNet /\ i \in Ids(cloud.nats) ->
            Continue(Start(After("natService")),
                     Recorded([mem EXCEPT !.st.nat = i, !.st.natIp = NatIp(i)], "natService"))
       [] ~ReuseNet /\ i \notin Ids(cloud.nats) ->
            IF UsableIp(mem.st.natIp)
            THEN Continue([at EXCEPT !.step = "create"], mem)
            ELSE Call(PublicIpCreated, [at EXCEPT !.step = "create"],
                      mem, [mem EXCEPT !.st.natIp = cloud.next])

CreateNatService ==
  /\ At("natService", "create")
  /\ LET seen == WithSubnet(mem, Pub, SubnetId(mem, Pub)) IN
     IF SubnetId(mem, Pub) = 0 THEN EndPass(mem)
     ELSE Call(NatServiceCreated(NetId(mem), mem.st.natIp), Start(After("natService")),
               seen, Recorded([seen EXCEPT !.st.nat = cloud.next], "natService"))
================================================================================
