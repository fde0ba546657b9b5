----------------------------- MODULE ClusterTeardown -----------------------------
(***************************************************************************)
(* reconcileDelete: the handlers that take the infrastructure down, in the *)
(* reverse of the order in which it depends on itself.                     *)
(***************************************************************************)
EXTENDS ClusterAccess

Proceed(p) == Start(AfterDelete(p))

(* A deletion: refused by the cloud while the resource is in use, otherwise *)
(* a call like any other.                                                   *)
DeleteCall(inUse, after, a, seen, m) ==
  IF inUse THEN EndPass(seen) ELSE Call(after, a, seen, m)

(* Mutant of DeleteStart: no wait. *)
DeleteAtOnce == At("dMachines", "start") /\ Continue(Proceed("dMachines"), mem)

(* The deletion waits for the Machines to go. *)
DeleteStart ==
  /\ At("dMachines", "start")
  /\ IF machines THEN EndPass(mem) ELSE Continue(Proceed("dMachines"), mem)

DeleteBastion ==
  /\ At("dBastion", "start")
  /\ IF ReuseNet \/ BastionId(mem) \notin Ids(cloud.vms)
     THEN Continue(Proceed("dBastion"), mem)
     ELSE LET v == BastionVm(mem) IN
          IF v.state = "terminated"
          THEN Continue(Proceed("dBastion"), WithBastion(mem))
          ELSE Call(VmDeleted(v.id), Proceed("dBastion"), WithBastion(mem), WithBastion(mem))

(* Only a load balancer with the cluster's name tag is deleted; any other   *)
(* one is taken to belong to another cluster.                               *)
DeleteLoadBalancer ==
  /\ At("dLb", "start")
  /\ IF cloud.lb = "tagged"
     THEN Call(LoadBalancerDeleted, Proceed("dLb"), mem, mem)
     ELSE Continue(Proceed("dLb"), mem)

(* All the NAT services of the net.  One that an earlier pass has deleted   *)
(* and that has not gone yet is deleted again, which the cloud may refuse.  *)
DeleteNatService ==
  /\ at.phase = "dNat"
  /\ LET nats == {n \in cloud.nats : ~ReuseNet /\ n.net = NetId(mem)}
         live == {n \in nats : ~n.deleting}
     IN \/ live = {} /\ Continue(Proceed("dNat"), WithNet(mem))
        \/ at.step = "start" /\ nats # live /\ EndPass(WithNet(mem))
        \/ \E n \in live :
             Call(NatServiceDeleted(n.id), [at EXCEPT !.step = "delete"],
                  WithNet(mem), WithNet(mem))

(* reconcileDeletePublicIp: the IPs that the status knows of, and no other; *)
(* one that is still linked ends the pass.                                  *)
ForgetIp(m, key) ==
  IF key = "natIp" THEN [m EXCEPT !.st.natIp = 0] ELSE [m EXCEPT !.st.vmIp = 0]

DeletePublicIp(key) ==
  /\ At("dIp", "start")
  /\ LET i == mem.st[key] IN
     /\ i # 0
     /\ IF i \in cloud.ips
        THEN DeleteCall(LinkedIp(i), PublicIpDeleted(i), at, mem, ForgetIp(mem, key))
        ELSE Continue(at, ForgetIp(mem, key))

EndPublicIps ==
  /\ At("dIp", "start")
  /\ mem.st.natIp = 0 /\ mem.st.vmIp = 0
  /\ Continue(Proceed("dIp"), mem)

(* All the access points of the net that are not deleted yet, whether the   *)
(* spec lists one or not.                                                   *)
DeleteNetAccessPoint ==
  /\ At("dNap", "start")
  /\ LET naps == {n \in cloud.naps : n.net = NetId(mem)} IN
     IF ReuseNet \/ naps = {}
     THEN Continue(Proceed("dNap"), WithNet(mem))
     ELSE \E n \in naps : Call(NetAccessPointDeleted(n.id), at, WithNet(mem), WithNet(mem))

(* The routes to the peering, of the management net first; none are looked  *)
(* for if the tracker finds no peering.                                     *)
DeletePeeringRoutes ==
  /\ At("dPeerRoutes", "start")
  /\ LET i == NetPeeringId(mem)
         m == WithNet(IF NetId(mem) = 0 THEN mem ELSE WithPeering(mem))
         routed == {t \in NetTables(mem) : t.peer = i}
     IN CASE ReuseNet -> Continue(Proceed("dPeerRoutes"), mem)
          [] ~ReuseNet /\ (NetId(mem) = 0 \/ i \notin Ids(cloud.peerings)) ->
               Continue(Proceed("dPeerRoutes"), m)
          [] ~ReuseNet /\ NetId(mem) # 0 /\ i \in Ids(cloud.peerings) ->
               CASE i \in cloud.mgmt -> Call(ManagementRouteDeleted(i), at, m, m)
                 [] i \notin cloud.mgmt /\ routed # {} ->
                      \E t \in routed : Call(PeeringRouteSet(t.id, 0), at, m, m)
                 [] i \notin cloud.mgmt /\ routed = {} -> Continue(Proceed("dPeerRoutes"), m)

(* All the peerings of the net that are pending or active, whoever asked    *)
(* for them.                                                                *)
DeleteNetPeering ==
  /\ At("dPeering", "start")
  /\ LET live == {p \in cloud.peerings : p.net = NetId(mem) /\ LivePeering(p)} IN
     IF ReuseNet \/ live = {}
     THEN Continue(Proceed("dPeering"), WithNet(mem))
     ELSE \E p \in live : Call(NetPeeringIs(p.id, "deleted"), at, WithNet(mem), WithNet(mem))

(* All the route tables of the net, unlinked and then deleted. *)
DeleteRouteTable ==
  /\ At("dRt", "start")
  /\ LET tables == {t \in cloud.rts : t.net = NetId(mem)} IN
     IF ReuseNet \/ tables = {}
     THEN Continue(Proceed("dRt"), WithNet(mem))
     ELSE \E t \in tables :
            Call(IF t.sub # 0 THEN RouteTableUnlinked(t.id) ELSE RouteTableDeleted(t.id),
                 at, WithNet(mem), WithNet(mem))

(* All the security groups of the net, whoever made them.  A group that     *)
(* cannot be deleted does not stop the loop, but the handler fails.  The    *)
(* rules that name other groups, which are deleted first, are not part of   *)
(* the state; a failure to delete one ends the pass.                        *)
ListSecurityGroups ==
  /\ At("dSg", "start")
  /\ IF ReuseSG \/ NetId(mem) = 0
     THEN Continue(Proceed("dSg"), mem)
     ELSE Call(cloud, [at EXCEPT !.step = "loop",
                                 !.ids = {g.id : g \in {x \in cloud.sgs : x.net = NetId(mem)}}],
               WithNet(mem), WithNet(mem))

DeleteSecurityGroup ==
  /\ at.phase = "dSg" /\ at.step \in {"loop", "bad"}
  /\ \E g \in cloud.sgs :
       /\ g.id \in at.ids
       /\ LET left == [at EXCEPT !.ids = @ \ {g.id}]
              failed == [left EXCEPT !.step = "bad"]
              gone == SecurityGroupDeleted(g.id)
          IN \/ /\ SecurityGroupInUse(g)
                /\ at' = failed
                /\ UNCHANGED <<cloud, faults>>
             \/ /\ ~SecurityGroupInUse(g)
                /\ at' = left
                /\ cloud' = gone
                /\ UNCHANGED faults
             \/ /\ ~SecurityGroupInUse(g)
                /\ faults < MaxFaults
                /\ faults' = faults + 1
                /\ at' = failed
                /\ cloud' \in {gone, cloud}
  /\ UNCHANGED <<obj, cache, old, mem, machines, edits>>

EndSecurityGroupDeletion ==
  /\ at.phase = "dSg" /\ at.step \in {"loop", "bad"}
  /\ at.ids = {}
  /\ IF at.step = "bad" THEN EndPass(mem) ELSE Continue(Proceed("dSg"), mem)

(* The internet service is unlinked from the net and then deleted. *)
DeleteInternetService ==
  /\ At("dIs", "start")
  /\ IF ReuseNet \/ InternetServiceId(mem) \notin Ids(cloud.iss)
     THEN Continue(Proceed("dIs"), mem)
     ELSE LET i == CHOOSE x \in cloud.iss : x.id = InternetServiceId(mem)
              next == [at EXCEPT !.step = "delete", !.id = i.id]
          IN IF i.net # 0
             THEN Call(InternetServiceUnlinked(i.id), next, WithService(mem), WithService(mem))
             ELSE Continue(next, WithService(mem))

DeleteUnlinkedService ==
  /\ At("dIs", "delete")
  /\ Call(InternetServiceDeleted(at.id), Proceed("dIs"), mem, mem)

(* Mutant of StartSubnetDeletion: useExisting is not looked at. *)
DeleteAnySubnet ==
  /\ At("dSubnet", "start")
  /\ Continue([at EXCEPT !.step = "loop", !.todo = mem.spec], mem)

(* The subnets that the spec lists now. *)
StartSubnetDeletion ==
  /\ At("dSubnet", "start")
  /\ IF ReuseNet THEN Continue(Proceed("dSubnet"), mem)
     ELSE Continue([at EXCEPT !.step = "loop", !.todo = mem.spec], mem)

DeleteSubnet(r) ==
  /\ At("dSubnet", "loop") /\ r \in at.todo
  /\ LET next == [at EXCEPT !.todo = @ \ {r}]
         m == [WithNet(mem) EXCEPT !.st.sn[r] = SubnetId(mem, r)]
     IN IF ~SubnetFound(mem, r) THEN Continue(next, mem)
        ELSE LET s == CHOOSE x \in cloud.subnets : x.id = SubnetId(mem, r) IN
             DeleteCall(SubnetInUse(s), SubnetDeleted(s.id), next, m, m)

EndSubnetDeletion ==
  /\ At("dSubnet", "loop") /\ at.todo = {}
  /\ Continue(Proceed("dSubnet"), mem)

DeleteNet ==
  /\ At("dNet", "start")
  /\ IF ReuseNet \/ ~NetFound(mem)
     THEN Continue(Proceed("dNet"), mem)
     ELSE DeleteCall(NetInUse(NetId(mem)),
                     NetDeleted(NetId(mem)), Proceed("dNet"), WithNet(mem), WithNet(mem))

(* Nothing is left that the tracker can find: the finalizer is removed. *)
RemoveFinalizer ==
  /\ At("dFinal", "start")
  /\ EndPass([mem EXCEPT !.fin = "removed"])
================================================================================
