----------------------------- MODULE ClusterPeering -----------------------------
(***************************************************************************)
(* What connects a net without internet access: the peering with the net   *)
(* of the management cluster, the routes to it on both sides, and the net  *)
(* access points of Outscale services.  The peering is requested with the  *)
(* credentials of the cluster and accepted with those of the management.   *)
(***************************************************************************)
EXTENDS ClusterNetwork

(* getNetPeeringId: by status or tag. *)
NetPeeringId(m) == FirstOf(m.st.peer, {p \in cloud.peerings : p.tagged})

WithPeering(m) == [m EXCEPT !.st.peer = NetPeeringId(m)]

PeeringIs(m, states) == \E p \in cloud.peerings : p.id = NetPeeringId(m) /\ p.state \in states

(* reconcileNetPeering: an active peering is left alone, and its generation *)
(* not recorded; a pending one is accepted; otherwise one is created, and   *)
(* tagged by a second call.                                                 *)
ReconcileNetPeering ==
  /\ At("netPeering", "start") /\ Runs("netPeering")
  /\ CASE ReuseNet \/ PeeringIs(mem, {"active"}) ->
            Continue(Start(After("netPeering")), IF ReuseNet THEN mem ELSE WithPeering(mem))
       [] ~ReuseNet /\ ~PeeringIs(mem, {"active"}) /\ NetId(mem) = 0 -> EndPass(WithPeering(mem))
       [] ~ReuseNet /\ PeeringIs(mem, {"pending-acceptance"}) /\ NetId(mem) # 0 ->
            Continue([at EXCEPT !.step = "accept", !.id = NetPeeringId(mem)],
                     WithNet(WithPeering(mem)))
       [] ~ReuseNet /\ ~PeeringIs(mem, {"active", "pending-acceptance"}) /\ NetId(mem) # 0 ->
            Call(NetPeeringCreated(NetId(mem)), [at EXCEPT !.step = "tag", !.id = cloud.next],
                 WithNet(WithPeering(mem)), WithNet(WithPeering(mem)))

TagNetPeering ==
  /\ At("netPeering", "tag")
  /\ Call(NetPeeringTagged(at.id), [at EXCEPT !.step = "accept"],
          mem, [mem EXCEPT !.st.peer = at.id])

AcceptNetPeering ==
  /\ At("netPeering", "accept")
  /\ Call(NetPeeringIs(at.id, "active"), Start(After("netPeering")),
          mem, Recorded(mem, "netPeering"))
--------------------------------------------------------------------------------
(* reconcileNetPeeringRoutes: a route in the table of the management subnet, *)
(* then one in each route table of the net.                                  *)
StartPeeringRoutes ==
  /\ At("netPeeringRoutes", "start") /\ Runs("netPeeringRoutes")
  /\ LET i == NetPeeringId(mem)
         next == [at EXCEPT !.step = "route", !.id = i]
         m == WithNet(WithPeering(mem))
     IN CASE ReuseNet -> Continue(Start(After("netPeeringRoutes")), mem)
          [] ~ReuseNet /\ (i \notin Ids(cloud.peerings) \/ NetId(mem) = 0) -> EndPass(m)
          [] ~ReuseNet /\ i \in Ids(cloud.peerings) /\ NetId(mem) # 0 ->
               IF i \in cloud.mgmt THEN Continue(next, m)
               ELSE Call(ManagementRouteCreated(i), next, m, m)

NetTables(m) == {t \in cloud.rts : t.net = NetId(m)}

RoutePeering ==
  /\ At("netPeeringRoutes", "route")
  /\ LET lacking == {t \in NetTables(mem) : t.peer # at.id} IN
     IF lacking = {}
     THEN Continue(Start(After("netPeeringRoutes")), Recorded(mem, "netPeeringRoutes"))
     ELSE \E t \in lacking : Call(PeeringRouteSet(t.id, at.id), at, mem, mem)
--------------------------------------------------------------------------------
(* reconcileNetAccessPoints, for one service: found by status or by net and  *)
(* service, or created for the route tables of the private subnets of the    *)
(* spec and tagged.  One that exists is not changed.                         *)
NetAccessPointId(m) ==
  FirstOf(m.st.nap, {n \in cloud.naps : NetId(m) # 0 /\ n.net = NetId(m)})

PrivateTables(m) ==
  {t.id : t \in UNION {TableOf(SubnetId(m, r)) : r \in m.spec \ {Pub}}}

WithPrivateSubnets(m) ==
  IF ReuseNet THEN m
  ELSE [WithNet(m) EXCEPT !.st.sn = [r \in Ranges |-> IF r \in m.spec \ {Pub} THEN SubnetId(m, r) ELSE @[r]]]

ReconcileNetAccessPoint ==
  /\ At("netAccessPoint", "start") /\ Runs("netAccessPoint")
  /\ LET i == NetAccessPointId(mem)
         seen == WithPrivateSubnets(mem)
         done(m, id) == Recorded([m EXCEPT !.st.nap = id], "netAccessPoint")
     IN CASE ReuseNet -> Continue(Start(After("netAccessPoint")), mem)
          [] ~ReuseNet /\ (NetId(mem) = 0 \/ \E r \in mem.spec \ {Pub} : SubnetId(mem, r) = 0) ->
               EndPass(seen)
          [] ~ReuseNet /\ NetId(mem) # 0 /\ \A r \in mem.spec \ {Pub} : SubnetId(mem, r) # 0 ->
               IF i \in Ids(cloud.naps)
               THEN Continue(Start(After("netAccessPoint")), done(seen, i))
               ELSE Call(NetAccessPointCreated(NetId(mem), PrivateTables(mem)),
                         Start(After("netAccessPoint")), seen, done(seen, cloud.next))
================================================================================
