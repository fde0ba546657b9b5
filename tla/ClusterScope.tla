------------------------------ MODULE ClusterScope ------------------------------
(***************************************************************************)
(* The OscCluster object in the API server, the informer's copy of it, and *)
(* the scope of one reconcile pass: what a pass reads, which reconcilers it *)
(* runs, and what Close writes back.  Every handler module extends this.    *)
(***************************************************************************)
EXTENDS OutscaleCloud

CONSTANTS
  Specs,       (* versions of the spec: the sets of subnet ranges it may list *)
  Mode,        (* reconciliation rule of each reconciler                      *)
  Configs,     (* the options of spec.network that an instance looks at       *)
  MaxFaults,   (* bound: failed or unanswered calls and crashes               *)
  MaxEdits     (* bound: changes of the spec by the user                      *)

Reconcilers == {"net", "subnet", "internetService", "routeTable", "natService",
                "netPeering", "netPeeringRoutes", "netAccessPoint",
                "securityGroup", "loadbalancer", "bastion"}

(* The options of spec.network that decide which handlers a pass runs and   *)
(* what they own; no user changes them in the life of a cluster.            *)
Options ==
  [internet : BOOLEAN,   (* not in spec.network.disable        *)
   lb : BOOLEAN,         (* not in spec.network.disable        *)
   bastion : BOOLEAN,    (* bastion.enable                     *)
   reuseNet : BOOLEAN,   (* useExisting.net                    *)
   reuseSG : BOOLEAN,    (* useExisting.securityGroups         *)
   peering : BOOLEAN,    (* netPeering.enable                  *)
   naps : BOOLEAN]       (* netAccessPoints lists one service  *)

ASSUME ScopeAssumption ==
  /\ Specs \subseteq SUBSET Ranges /\ Specs # {}
  /\ \A s \in Specs : Pub \in s
  /\ Mode \in [Reconcilers -> {"always", "random", "onChange"}]
  /\ Configs \subseteq Options /\ Configs # {}
  /\ MaxFaults \in Nat /\ MaxEdits \in Nat

VARIABLES
  obj,      (* the OscCluster in the API server                             *)
  cache,    (* the version of it the informer holds                         *)
  old,      (* the copy the patch helper took when the scope was created    *)
  mem,      (* the scope's OscCluster, which the handlers change            *)
  at,       (* where the pass is: phase, step and loop variables            *)
  machines, (* Machines of the cluster exist                                *)
  faults,   (* faults so far                                                *)
  edits     (* edits of the spec so far                                     *)

vars == <<cloud, obj, cache, old, mem, at, machines, faults, edits>>

(* status.resources: 0 where the map of the status has no such key *)
Resources ==
  [net : Id, is : Id, nat : Id, natIp : Id, vm : Id, vmIp : Id, peer : Id, nap : Id,
   sn : [Ranges -> Id], sg : [SGNames -> Id]]

OscCluster ==
  [exists : BOOLEAN, gen : Nat, spec : Specs, opt : Configs, del : BOOLEAN,
   fin : {"none", "set", "removed"}, ep : BOOLEAN,
   st : Resources, rec : [Reconcilers -> Nat], ready : BOOLEAN]

NoResources ==
  [net |-> 0, is |-> 0, nat |-> 0, natIp |-> 0, vm |-> 0, vmIp |-> 0, peer |-> 0, nap |-> 0,
   sn |-> [r \in Ranges |-> 0], sg |-> [s \in SGNames |-> 0]]

NewOscCluster(spec, opt) ==
  [exists |-> TRUE, gen |-> 1, spec |-> spec, opt |-> opt, del |-> FALSE, fin |-> "none",
   ep |-> FALSE, st |-> NoResources, rec |-> [r \in Reconcilers |-> 0],
   ready |-> FALSE]

(* What is left of a scope between two passes. *)
NoScope == NewOscCluster(CHOOSE s \in Specs : TRUE, CHOOSE o \in Configs : TRUE)

Internet == obj.opt.internet
LB == obj.opt.lb
Bastion == obj.opt.bastion
ReuseNet == obj.opt.reuseNet
ReuseSG == obj.opt.reuseSG
Peering == obj.opt.peering
Naps == obj.opt.naps

Phase == {"idle", "net", "subnet", "internetService", "rtNat", "natService",
          "routeTable", "netPeering", "netPeeringRoutes", "netAccessPoint",
          "securityGroup", "loadbalancer", "bastion", "ready",
          "dMachines", "dBastion", "dLb", "dNat", "dIp", "dNap", "dPeerRoutes",
          "dPeering", "dRt", "dSg", "dIs", "dSubnet", "dNet", "dFinal",
          "patch", "status"}

Step == {"start", "loop", "tag", "link", "route", "create", "rules", "health",
         "accept", "delete", "bad"}

Position == [phase : Phase, step : Step, id : Id, item : Ranges \cup SGNames,
             todo : SUBSET (Ranges \cup SGNames), ids : SUBSET Id]

Start(p) == [phase |-> p, step |-> "start", id |-> 0, item |-> Pub,
             todo |-> {}, ids |-> {}]

At(p, s) == at.phase = p /\ at.step = s
--------------------------------------------------------------------------------
(* Mutant of BuildOrder: the NAT service before the route of its subnet. *)
NatFirst ==
  <<"net", "subnet", "internetService", "natService", "rtNat", "routeTable",
    "netPeering", "netPeeringRoutes", "netAccessPoint",
    "securityGroup", "loadbalancer", "bastion", "ready">>

(* reconcile: the order of the handlers.  The route tables are visited      *)
(* twice, first for the subnets of the NAT services only.                   *)
BuildOrder ==
  <<"net", "subnet", "internetService", "rtNat", "natService", "routeTable",
    "netPeering", "netPeeringRoutes", "netAccessPoint",
    "securityGroup", "loadbalancer", "bastion", "ready">>

(* Mutant of DeleteOrder: the public IPs before the NAT service. *)
IpBeforeNat ==
  <<"dMachines", "dBastion", "dLb", "dIp", "dNat", "dNap", "dPeerRoutes", "dPeering",
    "dRt", "dSg", "dIs", "dSubnet", "dNet", "dFinal">>

(* Mutant of DeleteOrder: the peering before the routes that lead to it. *)
PeeringBeforeRoutes ==
  <<"dMachines", "dBastion", "dLb", "dNat", "dIp", "dNap", "dPeering", "dPeerRoutes",
    "dRt", "dSg", "dIs", "dSubnet", "dNet", "dFinal">>

(* reconcileDelete: the order of the handlers of the deletion. *)
DeleteOrder ==
  <<"dMachines", "dBastion", "dLb", "dNat", "dIp", "dNap", "dPeerRoutes", "dPeering",
    "dRt", "dSg", "dIs", "dSubnet", "dNet", "dFinal">>

(* The handlers that the options of the spec leave out. *)
LeftOut(p) ==
  \/ p \in {"internetService", "rtNat", "natService", "dNat", "dIp", "dIs"} /\ ~Internet
  \/ p \in {"netPeering", "netPeeringRoutes", "dPeerRoutes", "dPeering"} /\ ~Peering
  \/ p = "netAccessPoint" /\ ~Naps
  \/ p \in {"loadbalancer", "dLb"} /\ ~LB
  \/ p \in {"bastion", "dBastion"} /\ ~Bastion

(* A handler that succeeds leads to the next one that is not left out. *)
NextIn(order, p) ==
  LET i == CHOOSE k \in DOMAIN order : order[k] = p
  IN order[CHOOSE j \in DOMAIN order :
             /\ j > i /\ ~LeftOut(order[j])
             /\ \A k \in i + 1 .. j - 1 : LeftOut(order[k])]

After(p) == NextIn(BuildOrder, p)
AfterDelete(p) == NextIn(DeleteOrder, p)
--------------------------------------------------------------------------------
(* Mutant of Due: a reconciler that has run once is never due again. *)
NeverRan(k) == mem.rec[k] = 0

(* NeedReconciliation: a reconciler runs if it has not recorded the         *)
(* generation of the object, and otherwise as its rule says; the default    *)
(* rule of the security groups rolls a die, so both outcomes are possible.  *)
Due(k) == mem.rec[k] < mem.gen
Runs(k) == Due(k) \/ Mode[k] # "onChange"
Skips(k) == ~Due(k) /\ Mode[k] # "always"

(* Mutant of Recorded: the generation the server has now, not the one that  *)
(* the pass has worked on.                                                  *)
RecordsServerGeneration(m, k) == [m EXCEPT !.rec[k] = obj.gen]

(* SetReconciliationGeneration, on a copy m of the scope's object. *)
Recorded(m, k) == [m EXCEPT !.rec[k] = m.gen]

ReconcilerOf(p) == IF p = "rtNat" THEN "routeTable" ELSE p
--------------------------------------------------------------------------------
(* How a handler goes on.  Continue: to position a, with scope m.  EndPass: *)
(* the pass returns (an error, or a request to come back later) and the     *)
(* deferred Close runs; what the handlers did to the scope is kept.         *)
Continue(a, m) ==
  /\ at' = a
  /\ mem' = m
  /\ UNCHANGED <<cloud, obj, cache, old, machines, faults, edits>>

EndPass(m) == Continue(Start("patch"), m)

(* A call that changes the cloud to `after`.  It succeeds, and the handler  *)
(* goes on with scope m; or its reply is lost, and the handler sees an      *)
(* error although the change was made (also the outcome when the tag call   *)
(* that follows a creation fails); or it fails without effect.  What the    *)
(* lookups before the call have written to the scope, seen, is kept.        *)
Call(after, a, seen, m) ==
  /\ UNCHANGED <<obj, cache, old, machines, edits>>
  /\ \/ cloud' = after /\ at' = a /\ mem' = m /\ UNCHANGED faults
     \/ /\ faults < MaxFaults
        /\ faults' = faults + 1
        /\ cloud' \in {after, cloud}
        /\ at' = Start("patch")
        /\ mem' = seen

(* A lookup that a handler makes fails, or the deadline of the pass is over. *)
LookupFails ==
  /\ at.phase \notin {"idle", "patch", "status"}
  /\ faults < MaxFaults
  /\ faults' = faults + 1
  /\ at' = Start("patch")
  /\ UNCHANGED <<cloud, obj, cache, old, mem, machines, edits>>

(* The environment of a pass changes nothing the pass holds. *)
PassUnchanged == UNCHANGED <<old, mem, at>>
--------------------------------------------------------------------------------
(* Reconcile: the pass starts from the informer's copy.  An object with a   *)
(* deletion timestamp is torn down; otherwise the finalizer is added to the *)
(* scope's copy, which only Close persists.                                 *)
Reconcile ==
  /\ at.phase = "idle"
  /\ cache.exists
  /\ old' = cache
  /\ IF cache.del
     THEN at' = Start("dMachines") /\ mem' = cache
     ELSE at' = Start("net") /\ mem' = [cache EXCEPT !.fin = "set"]
  /\ UNCHANGED <<cloud, obj, cache, machines, faults, edits>>

(* A reconciler that is not needed is passed over. *)
Skip ==
  /\ at.step = "start"
  /\ at.phase \in Reconcilers \cup {"rtNat"}
  /\ Skips(ReconcilerOf(at.phase))
  /\ Continue(Start(After(at.phase)), mem)

(* A merge patch carries the fields in which the scope's object differs     *)
(* from the helper's copy; the other fields keep the server's value.        *)
Merge(before, after, server) == IF after = before THEN server ELSE after

MergeResources(b, a, s) ==
  [net |-> Merge(b.net, a.net, s.net), is |-> Merge(b.is, a.is, s.is),
   nat |-> Merge(b.nat, a.nat, s.nat), natIp |-> Merge(b.natIp, a.natIp, s.natIp),
   vm |-> Merge(b.vm, a.vm, s.vm), vmIp |-> Merge(b.vmIp, a.vmIp, s.vmIp),
   peer |-> Merge(b.peer, a.peer, s.peer), nap |-> Merge(b.nap, a.nap, s.nap),
   sn |-> [r \in Ranges |-> Merge(b.sn[r], a.sn[r], s.sn[r])],
   sg |-> [g \in SGNames |-> Merge(b.sg[g], a.sg[g], s.sg[g])]]

(* Patching metadata and spec.  A changed spec is a new generation; an      *)
(* object being deleted goes when its finalizer does.                       *)
PatchedObject ==
  LET fin == Merge(old.fin, mem.fin, obj.fin)
      ep == Merge(old.ep, mem.ep, obj.ep)
  IN [obj EXCEPT !.fin = fin, !.ep = ep,
                 !.gen = IF ep = obj.ep THEN @ ELSE @ + 1,
                 !.exists = ~(obj.del /\ fin = "removed")]

PatchedStatus ==
  [obj EXCEPT !.st = MergeResources(old.st, mem.st, obj.st),
              !.rec = [k \in Reconcilers |-> Merge(old.rec[k], mem.rec[k], obj.rec[k])],
              !.ready = Merge(old.ready, mem.ready, obj.ready)]

(* Close: two requests, each tried whatever becomes of the other.  Neither  *)
(* does anything to an object that is gone.                                 *)
Patch(patched) ==
  /\ \/ obj' = (IF obj.exists THEN patched ELSE obj) /\ UNCHANGED faults
     \/ faults < MaxFaults /\ faults' = faults + 1 /\ UNCHANGED obj
  /\ UNCHANGED <<cloud, cache, machines, edits>>

CloseObject ==
  /\ at.phase = "patch"
  /\ at' = Start("status")
  /\ Patch(PatchedObject)
  /\ UNCHANGED <<old, mem>>

CloseStatus ==
  /\ at.phase = "status"
  /\ at' = Start("idle")
  /\ Patch(PatchedStatus)
  /\ old' = NoScope /\ mem' = NoScope
--------------------------------------------------------------------------------
(* The world around the pass. *)

(* The informer catches up with the API server. *)
Sync ==
  /\ cache # obj
  /\ cache' = obj
  /\ UNCHANGED <<cloud, obj, machines, faults, edits>> /\ PassUnchanged

(* The process dies: the scope is lost and nothing is patched. *)
Crash ==
  /\ at.phase # "idle"
  /\ faults < MaxFaults
  /\ faults' = faults + 1
  /\ at' = Start("idle")
  /\ old' = NoScope /\ mem' = NoScope
  /\ UNCHANGED <<cloud, obj, cache, machines, edits>>

(* The user changes the subnets of the spec. *)
Edit ==
  /\ obj.exists /\ ~obj.del
  /\ edits < MaxEdits
  /\ edits' = edits + 1
  /\ \E s \in Specs \ {obj.spec} : obj' = [obj EXCEPT !.spec = s, !.gen = @ + 1]
  /\ UNCHANGED <<cloud, cache, machines, faults>> /\ PassUnchanged

(* The user deletes the object, which goes at once if no finalizer holds it. *)
Delete ==
  /\ obj.exists /\ ~obj.del
  /\ obj' = [obj EXCEPT !.del = TRUE, !.gen = @ + 1, !.exists = (obj.fin = "set")]
  /\ UNCHANGED <<cloud, cache, machines, faults, edits>> /\ PassUnchanged

(* Cluster API creates Machines once the infrastructure is ready, and only  *)
(* for a cluster that is not being deleted.                                 *)
MachinesAppear ==
  /\ ~machines /\ obj.exists /\ obj.ready /\ ~obj.del
  /\ machines' = TRUE
  /\ UNCHANGED <<cloud, obj, cache, faults, edits>> /\ PassUnchanged

MachinesVanish ==
  /\ machines /\ obj.del
  /\ machines' = FALSE
  /\ UNCHANGED <<cloud, obj, cache, faults, edits>> /\ PassUnchanged

CloudStep ==
  /\ VmBoots \/ VmTerminates \/ NatVanishes
  /\ UNCHANGED <<obj, cache, machines, faults, edits>> /\ PassUnchanged
================================================================================
