------------------------------ MODULE ClusterAccess ------------------------------
(***************************************************************************)
(* The handlers of what gives access to the cluster: security groups, the  *)
(* load balancer of the control plane and the bastion VM.                  *)
(***************************************************************************)
EXTENDS ClusterPeering

(* By id of the spec, status, or name. *)
SecurityGroupId(m, s) ==
  IF ReuseSG THEN ReusedId[s]
  ELSE FirstOf(m.st.sg[s], {g \in cloud.sgs : g.name = s})

WithGroup(m, s, i) == IF ReuseSG THEN m ELSE [m EXCEPT !.st.sg[s] = i]

(* reconcileSecurityGroup: each group of the spec is found or created, then  *)
(* the rules it lacks are added.                                             *)
StartSecurityGroups ==
  /\ At("securityGroup", "start") /\ Runs("securityGroup")
  /\ CASE ReuseSG -> Continue(Start(After("securityGroup")), mem)
       [] ~ReuseSG /\ NetId(mem) = 0 -> EndPass(mem)
       [] ~ReuseSG /\ NetId(mem) # 0 ->
            Continue([at EXCEPT !.step = "loop", !.todo = SGNames], WithNet(mem))

VisitSecurityGroup(s) ==
  /\ At("securityGroup", "loop") /\ s \in at.todo
  /\ LET i == SecurityGroupId(mem, s)
         rules(id) == [at EXCEPT !.step = "rules", !.item = s, !.id = id]
     IN IF i \in Ids(cloud.sgs)
        THEN Continue(rules(i), WithGroup(mem, s, i))
        ELSE Call(SecurityGroupCreated(NetId(mem), s), rules(cloud.next), mem, WithGroup(mem, s, cloud.next))

(* The calls that add the missing rules, as one: a failure among them is an *)
(* error of the whole.                                                      *)
AddRules ==
  /\ At("securityGroup", "rules")
  /\ LET done == [at EXCEPT !.step = "loop", !.todo = @ \ {at.item}] IN
     IF \E g \in cloud.sgs : g.id = at.id /\ g.ruled
     THEN Continue(done, mem)
     ELSE Call(SecurityGroupRuled(at.id), done, mem, mem)

EndSecurityGroups ==
  /\ At("securityGroup", "loop") /\ at.todo = {}
  /\ Continue(Start(After("securityGroup")), Recorded(mem, "securityGroup"))
--------------------------------------------------------------------------------
(* reconcileLoadBalancer: found by name.  A load balancer of that name      *)
(* without the cluster's name tag is an error, whoever made it.  A new one  *)
(* takes three calls: create, configure the health check, tag.              *)
WithEndpoint(m) == Recorded([m EXCEPT !.ep = TRUE], "loadbalancer")

ReconcileLoadBalancer ==
  /\ At("loadbalancer", "start") /\ Runs("loadbalancer")
  /\ LET sn == SubnetId(mem, Pub)
         sg == SecurityGroupId(mem, LbSG)
         seen == WithGroup(WithSubnet(mem, Pub, sn), LbSG, sg)
     IN CASE cloud.lb = "untagged" -> EndPass(mem)
          [] cloud.lb = "tagged" -> Continue(Start(After("loadbalancer")), WithEndpoint(mem))
          [] cloud.lb = "none" /\ (sn = 0 \/ sg = 0) -> EndPass(seen)
          [] cloud.lb = "none" /\ sn # 0 /\ sg # 0 ->
               Call(LoadBalancerCreated, [at EXCEPT !.step = "health"], seen, seen)

ConfigureHealthCheck ==
  /\ At("loadbalancer", "health")
  /\ Call(LoadBalancerConfigured, [at EXCEPT !.step = "tag"], mem, mem)

TagLoadBalancer ==
  /\ At("loadbalancer", "tag")
  /\ Call(LoadBalancerTagged, Start(After("loadbalancer")), mem, WithEndpoint(mem))
--------------------------------------------------------------------------------
(* Mutant of BastionId: no search by client token. *)
BastionIdFromStatus(m) == m.st.vm

(* getBastion: by status or client token.  A VM that holds an IP has it     *)
(* tracked again if the status has lost it.                                 *)
BastionId(m) == FirstOf(m.st.vm, cloud.vms)
BastionVm(m) == CHOOSE v \in cloud.vms : v.id = BastionId(m)

WithBastion(m) ==
  LET v == BastionVm(m) IN
  [m EXCEPT !.st.vm = v.id, !.st.vmIp = IF HoldsIp(v) /\ @ = 0 THEN v.ip ELSE @]

(* reconcileBastion: until the VM runs, every pass ends in an error here.   *)
ReconcileBastion ==
  /\ At("bastion", "start") /\ Runs("bastion")
  /\ CASE ReuseNet -> Continue(Start(After("bastion")), mem)
       [] ~ReuseNet /\ BastionId(mem) \in Ids(cloud.vms) ->
            IF BastionVm(mem).state = "running"
            THEN Continue(Start(After("bastion")), Recorded(WithBastion(mem), "bastion"))
            ELSE EndPass(WithBastion(mem))
       [] ~ReuseNet /\ BastionId(mem) \notin Ids(cloud.vms) ->
            LET m == WithSubnet(mem, Pub, SubnetId(mem, Pub)) IN
            CASE SubnetId(mem, Pub) = 0 -> EndPass(mem)
              [] SubnetId(mem, Pub) # 0 /\ UsableIp(mem.st.vmIp) ->
                   Continue([at EXCEPT !.step = "create"], m)
              [] SubnetId(mem, Pub) # 0 /\ ~UsableIp(mem.st.vmIp) ->
                   Call(PublicIpCreated, [at EXCEPT !.step = "create"],
                        m, [m EXCEPT !.st.vmIp = cloud.next])

CreateBastion ==
  /\ At("bastion", "create")
  /\ LET sg == SecurityGroupId(mem, BastionSG)
         seen == WithGroup(mem, BastionSG, sg)
     IN
     IF sg = 0 THEN EndPass(mem)
     ELSE Call(BastionCreated(mem.st.vmIp), Start("patch"), seen, [seen EXCEPT !.st.vm = cloud.next])
================================================================================
