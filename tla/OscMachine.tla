-------------------------------- MODULE OscMachine --------------------------------
(***************************************************************************)
(* The machine controller: the pass that builds the VM of an OscMachine,   *)
(* the pass that deletes it, and what the cloud does meanwhile.            *)
(***************************************************************************)
EXTENDS MachineScope

VmsOf(m) == {v \in cloud.vms : v.m = m}
GpusOf(m) == {g \in cloud.gpus : g.m = m}

(* Mutant: only the status is asked for the VM. *)
FoundVmsInStatus(m) == {v \in cloud.vms : v.id = mem[m].vm}

(* getVm: by the id of the status, else by the client token, which is the  *)
(* machine's name, or the Name tag that VMs of earlier versions have.  The *)
(* VMs that the request may return.  No spec names the id of a VM.         *)
FoundVms(m) ==
  IF mem[m].vm # 0 THEN {v \in cloud.vms : v.id = mem[m].vm} ELSE VmsOf(m)

(* What getVm leaves in the status: the VM's id, and its IP's when the VM  *)
(* shows one and none is tracked (RetrackIP).                              *)
Tracked(o, v) ==
  [o EXCEPT !.vm = v.id, !.ip = IF v.attached /\ @ = 0 THEN v.ip ELSE @]

(* getFGPU, when the spec asks for a GPU: by the id of the status, else by *)
(* the Name tag.                                                           *)
NoGpu == [id |-> 0, state |-> "none"]

FoundGpus(m) ==
  LET found == IF m \notin GPU THEN {}
               ELSE IF mem[m].gpu # 0 THEN {g \in cloud.gpus : g.id = mem[m].gpu}
               ELSE {g \in GpusOf(m) : g.tagged}
  IN IF found = {} THEN {NoGpu} ELSE found
--------------------------------------------------------------------------------
(* Requests to the cloud. *)
GpuCreated(m, az) ==
  [cloud EXCEPT !.next = @ + 1,
     !.gpus = @ \cup {[id |-> cloud.next, m |-> m, az |-> az, state |-> "allocated", tagged |-> FALSE]}]

GpuTagged(i) ==
  [cloud EXCEPT !.gpus = {IF g.id = i THEN [g EXCEPT !.tagged = TRUE] ELSE g : g \in @}]

GpuLinked(i) ==
  [cloud EXCEPT !.gpus = {IF g.id = i THEN [g EXCEPT !.state = "attaching"] ELSE g : g \in @}]

IpCreated == [cloud EXCEPT !.next = @ + 1, !.ips = @ \cup {cloud.next}]

IpDeleted(i) == [cloud EXCEPT !.ips = @ \ {i}]

(* The request carries the client token; that it would be refused or       *)
(* answered with the existing VM is not assumed.                           *)
VmCreated(m, az, ip) ==
  [cloud EXCEPT !.next = @ + 1,
     !.vms = @ \cup {[id |-> cloud.next, m |-> m, az |-> az, state |-> "pending", ip |-> ip,
                      attached |-> FALSE, boot |-> m \notin GPU, ccm |-> FALSE]}]

VmStarted(i) ==
  [cloud EXCEPT !.vms = {IF v.id = i THEN [v EXCEPT !.state = "pending", !.boot = TRUE] ELSE v : v \in @}]

VmTagged(i) ==
  [cloud EXCEPT !.vms = {IF v.id = i THEN [v EXCEPT !.ccm = TRUE] ELSE v : v \in @}]

(* DeleteVms on a VM that is already being deleted changes nothing. *)
VmDeleted(i) ==
  [cloud EXCEPT !.vms = {IF v.id = i /\ v.state # "terminated"
                         THEN [v EXCEPT !.state = "shutting-down"] ELSE v : v \in @}]

BackendLinked(i) == [cloud EXCEPT !.backends = @ \cup {i}]
BackendUnlinked(i) == [cloud EXCEPT !.backends = @ \ {i}]
--------------------------------------------------------------------------------
(* Mutant: a machine that was recorded once is never looked at again. *)
NeverRecorded(m) == mem[m].rec = 0

(* NeedReconciliation: whether the machine's generation is not recorded yet; *)
(* if it is, the reconciliation rule says whether reconcileVm runs all the   *)
(* same, always, never, or as a die falls.  Before the infrastructure is     *)
(* ready reconcile returns without asking.                                   *)
Due(m) == mem[m].rec < mem[m].gen
NeedReconciliation(m) == infra /\ (Due(m) \/ NodeMode[m] # "onChange")
NoNeed(m) == ~infra \/ (~Due(m) /\ NodeMode[m] # "always")

(* reconcileVm: where the pass goes on, from the states that the lookups   *)
(* returned.                                                               *)
Usable(g) == g.state \in {"none", "attached"}

(* Mutant: the VM is started without waiting for its GPU. *)
IgnoreGpu(m, v, g) ==
  CASE v.state = "stopped" -> "start"
    [] v.state = "running" -> IF m \in Balanced THEN "lb" ELSE "tags"
    [] OTHER -> "patch"

AfterLookup(m, v, g) ==
  CASE g.state = "allocated" /\ v.state = "stopped" -> "gpuLink"
    [] Usable(g) /\ v.state = "stopped" -> "start"
    [] Usable(g) /\ v.state = "running" -> IF m \in Balanced THEN "lb" ELSE "tags"
    [] OTHER -> "patch"

Lookup(m) ==
  /\ at[m].phase = "vm"
  /\ \/ NoNeed(m) /\ EndPass(m, mem[m])
     \/ /\ NeedReconciliation(m)
        /\ \E g \in FoundGpus(m) :
             LET o == [mem[m] EXCEPT !.gpu = IF g.id = 0 THEN @ ELSE g.id]
             IN \/ /\ FoundVms(m) = {}
                   /\ Continue(m, [Start("place") EXCEPT !.gpu = g.id], o)
                \/ \E v \in FoundVms(m) :
                     LET p == AfterLookup(m, v, g)
                     IN Continue(m, Start(p),
                                 [Tracked(o, v) EXCEPT !.ready = @ \/ p \in {"lb", "tags"}])

(* Mutant: the allocator's error is not looked at. *)
PlaceAnyway(m) ==
  /\ at[m].phase = "place"
  /\ \E r \in IF FailureDomain[m] # "" THEN {<<FailureDomain[m], alloc>>}
              ELSE AllocateAZ(m, {x \in Workers : cache[x].exists}, [x \in Workers |-> cache[x].fd]) :
       /\ at' = [at EXCEPT ![m].phase = "gpu", ![m].az = r[1]]
       /\ alloc' = r[2]
  /\ UNCHANGED <<cloud, obj, cache, old, mem, infra, faults>>

(* The subregion: the GPU's, the failure domain, or what the allocator     *)
(* answers from its memory or from the informer's list.                    *)
Place(m) ==
  /\ at[m].phase = "place"
  /\ \E r \in CASE at[m].gpu # 0 -> {<<g.az, alloc>> : g \in {x \in cloud.gpus : x.id = at[m].gpu}}
               [] at[m].gpu = 0 /\ FailureDomain[m] # "" -> {<<FailureDomain[m], alloc>>}
               [] OTHER -> AllocateAZ(m, {x \in Workers : cache[x].exists},
                                         [x \in Workers |-> cache[x].fd]) :
       /\ at' = [at EXCEPT ![m] = IF r[1] \notin AZs THEN Start("patch")
                                   ELSE [@ EXCEPT !.phase = "gpu", !.az = r[1]]]
       /\ alloc' = r[2]
  /\ UNCHANGED <<cloud, obj, cache, old, mem, infra, faults>>

To(m, p) == [at[m] EXCEPT !.phase = p]

(* AllocateFGPU creates the GPU, in a subregion that has one left, and     *)
(* tags it; the status is not told.                                        *)
AllocateFGPU(m) ==
  /\ at[m].phase = "gpu"
  /\ IF m \notin GPU \/ at[m].gpu # 0 THEN Continue(m, To(m, "ip"), mem[m])
     ELSE IF at[m].az \notin GpuAZs THEN EndPass(m, mem[m])
     ELSE Call(m, GpuCreated(m, at[m].az), [To(m, "gpuTag") EXCEPT !.gpu = cloud.next], mem[m], mem[m])

TagFGPU(m) ==
  /\ at[m].phase = "gpuTag"
  /\ Call(m, GpuTagged(at[m].gpu), To(m, "ip"), mem[m], mem[m])

(* AllocateIP: a known IP that is free is used again. *)
AllocateIP(m) ==
  /\ at[m].phase = "ip"
  /\ IF m \notin PublicIp \/ (mem[m].ip \in cloud.ips /\ ~LinkedIp(mem[m].ip))
     THEN Continue(m, To(m, "create"), mem[m])
     ELSE Call(m, IpCreated, To(m, "create"), mem[m], [mem[m] EXCEPT !.ip = cloud.next])

(* CreateVm.  The new VM is pending, so that the pass ends; only here is   *)
(* the ProviderID set.                                                     *)
CreateVm(m) ==
  /\ at[m].phase = "create"
  /\ Call(m, VmCreated(m, at[m].az, IF m \in PublicIp THEN mem[m].ip ELSE 0), Start("patch"),
          mem[m], [mem[m] EXCEPT !.vm = cloud.next, !.pid = cloud.next])

LinkFGPU(m) ==
  /\ at[m].phase = "gpuLink"
  /\ Call(m, GpuLinked(mem[m].gpu), Start("patch"), mem[m], mem[m])

StartVm(m) ==
  /\ at[m].phase = "start"
  /\ Call(m, VmStarted(mem[m].vm), Start("patch"), mem[m], mem[m])

LinkBackend(m) ==
  /\ at[m].phase = "lb"
  /\ IF mem[m].vm \in cloud.backends THEN Continue(m, Start("tags"), mem[m])
     ELSE Call(m, BackendLinked(mem[m].vm), Start("tags"), mem[m], mem[m])

(* The end of reconcileVm: addresses, failure domain, tags, generation. *)
Finish(m) ==
  /\ at[m].phase = "tags"
  /\ \E v \in {x \in cloud.vms : x.id = mem[m].vm} :
       LET seen == [mem[m] EXCEPT !.fd = v.az]
           o == [seen EXCEPT !.rec = mem[m].gen]
       IN IF v.ccm THEN EndPass(m, o)
          ELSE Call(m, VmTagged(v.id), Start("patch"), seen, o)
--------------------------------------------------------------------------------
(* Mutant: the VM is deleted first. *)
DeleteBeforeUnlink(m) ==
  /\ at[m].phase = "dVm"
  /\ \/ FoundVms(m) = {} /\ Continue(m, Start("dIp"), mem[m])
     \/ \E v \in FoundVms(m) : Continue(m, Start("dDelete"), Tracked(mem[m], v))

(* reconcileDelete: the VM leaves the load balancer before it is deleted. *)
LookupDeletedVm(m) ==
  /\ at[m].phase = "dVm"
  /\ \/ FoundVms(m) = {} /\ Continue(m, Start("dIp"), mem[m])
     \/ \E v \in FoundVms(m) :
          Continue(m, Start(IF v.state = "terminated" THEN "dIp"
                            ELSE IF m \in Balanced /\ v.id \in cloud.backends THEN "dUnlink"
                            ELSE "dDelete"), Tracked(mem[m], v))

UnlinkBackend(m) ==
  /\ at[m].phase = "dUnlink"
  /\ Call(m, BackendUnlinked(mem[m].vm), Start("dDelete"), mem[m], mem[m])

DeleteVm(m) ==
  /\ at[m].phase = "dDelete"
  /\ Call(m, VmDeleted(mem[m].vm), Start("dIp"), mem[m], mem[m])

(* Mutant: an IP that is already gone is an error. *)
MissingIpIsError(m) ==
  /\ at[m].phase = "dIp"
  /\ IF mem[m].ip = 0 THEN Continue(m, Start("dFinal"), mem[m])
     ELSE IF mem[m].ip \notin cloud.ips \/ LinkedIp(mem[m].ip) THEN EndPass(m, mem[m])
     ELSE Call(m, IpDeleted(mem[m].ip), Start("dFinal"), mem[m], [mem[m] EXCEPT !.ip = 0])

(* reconcileDeletePublicIp; an IP that is still linked is an error. *)
DeletePublicIp(m) ==
  LET done == [mem[m] EXCEPT !.ip = 0]
  IN /\ at[m].phase = "dIp"
     /\ CASE mem[m].ip \notin cloud.ips -> Continue(m, Start("dFinal"), done)
          [] mem[m].ip \in cloud.ips /\ LinkedIp(mem[m].ip) -> EndPass(m, mem[m])
          [] OTHER -> Call(m, IpDeleted(mem[m].ip), Start("dFinal"), mem[m], done)

RemoveFinalizer(m) ==
  /\ at[m].phase = "dFinal"
  /\ EndPass(m, [mem[m] EXCEPT !.fin = "removed"])
--------------------------------------------------------------------------------
(* The cloud by itself. *)
CloudStep(after) ==
  /\ cloud' = after
  /\ UNCHANGED <<obj, cache, infra>> /\ PassUnchanged

(* A pending VM runs, with its IP unless another VM has it, or stops if it *)
(* was not to boot.                                                        *)
VmBoots ==
  \E v \in cloud.vms :
    /\ v.state = "pending"
    /\ CloudStep([cloud EXCEPT !.vms = (@ \ {v}) \cup
         {[v EXCEPT !.state = IF v.boot THEN "running" ELSE "stopped",
                    !.attached = v.boot /\ v.ip \in cloud.ips /\ ~LinkedIp(v.ip)]}])

(* A deleted VM frees its IP and takes the GPU attached to it with it      *)
(* (DeleteOnVmDeletion).                                                   *)
VmTerminates ==
  \E v \in cloud.vms :
    /\ v.state = "shutting-down"
    /\ CloudStep([cloud EXCEPT
         !.vms = (@ \ {v}) \cup {[v EXCEPT !.state = "terminated", !.attached = FALSE]},
         !.gpus = {g \in @ : g.m # v.m \/ g.state = "allocated"}])

VmVanishes ==
  \E v \in cloud.vms :
    /\ v.state = "terminated"
    /\ CloudStep([cloud EXCEPT !.vms = @ \ {v}])

GpuAttaches ==
  \E g \in cloud.gpus :
    /\ g.state = "attaching"
    /\ CloudStep([cloud EXCEPT !.gpus = {IF x = g THEN [x EXCEPT !.state = "attached"] ELSE x : x \in @}])
--------------------------------------------------------------------------------
Init ==
  /\ cloud = [next |-> 1, vms |-> {}, ips |-> {}, gpus |-> {}, backends |-> {}]
  /\ obj = [m \in Machines |-> [NewOscMachine EXCEPT !.exists = FALSE]]
  /\ cache = obj
  /\ old = [m \in Machines |-> NewOscMachine]
  /\ mem = [m \in Machines |-> NewOscMachine]
  /\ at = [m \in Machines |-> Start("idle")]
  /\ infra = FALSE
  /\ faults = 0
  /\ alloc = EmptyAllocator

Pass(m) ==
  \/ Reconcile(m) \/ Lookup(m) \/ Place(m) \/ AllocateFGPU(m) \/ TagFGPU(m)
  \/ AllocateIP(m) \/ CreateVm(m) \/ LinkFGPU(m) \/ StartVm(m) \/ LinkBackend(m)
  \/ Finish(m) \/ LookupDeletedVm(m) \/ UnlinkBackend(m) \/ DeleteVm(m)
  \/ DeletePublicIp(m) \/ RemoveFinalizer(m) \/ CloseObject(m) \/ CloseStatus(m)

CloudMoves == VmBoots \/ VmTerminates \/ VmVanishes \/ GpuAttaches

Next ==
  \/ \E m \in Machines : Pass(m) \/ LookupFails(m) \/ Sync(m) \/ Create(m) \/ Delete(m)
  \/ CloudMoves \/ Restart \/ InfrastructureReady

Spec == Init /\ [][Next]_vars

(* A pass over an object that has something to do is started again and     *)
(* again, by its watch, by RequeueAfter or by the back-off of an error;    *)
(* the informer follows the API server and the cloud completes what it     *)
(* began.  Nothing else need happen.                                       *)
Fairness ==
  /\ \A m \in Machines : WF_vars(Pass(m)) /\ WF_vars(Sync(m))
  /\ WF_vars(VmBoots) /\ WF_vars(VmTerminates) /\ WF_vars(GpuAttaches)
  /\ WF_vars(InfrastructureReady)

FairSpec == Spec /\ Fairness
--------------------------------------------------------------------------------
(* The state of the machine controller has the types that the code gives   *)
(* it.                                                                     *)
TypeOK ==
  /\ cloud \in Cloud
  /\ obj \in [Machines -> OscMachine] /\ cache \in [Machines -> OscMachine]
  /\ old \in [Machines -> OscMachine] /\ mem \in [Machines -> OscMachine]
  /\ at \in [Machines -> Position]
  /\ infra \in BOOLEAN /\ faults \in 0 .. MaxFaults
  /\ alloc \in Allocator

Live(v) == v.state \notin {"shutting-down", "terminated"}

(* One VM per machine: reconcileVm finds the VM of an earlier pass by its  *)
(* client token even when the status or the reply that named it was lost.  *)
OneVm == \A v, w \in cloud.vms : v.m = w.m => v = w

(* A machine whose recorded generation is its generation, which no pass    *)
(* looks at again, has a running VM in the subregion it publishes, with    *)
(* the tags of the cloud controller, behind the load balancer, if there is *)
(* one, when it is a control plane node, and with its GPU attached.        *)
Complete(m) ==
  \E v \in VmsOf(m) :
    /\ v.id = obj[m].vm /\ v.state = "running" /\ v.az = obj[m].fd /\ v.ccm
    /\ obj[m].ready
    /\ m \in Balanced => v.id \in cloud.backends
    /\ m \in GPU => \E g \in GpusOf(m) : g.state = "attached" /\ g.az = v.az

RecordedIsComplete ==
  \A m \in Machines : obj[m].exists /\ obj[m].rec = obj[m].gen => Complete(m)

(* The load balancer never sends traffic to a VM that is being deleted:    *)
(* reconcileDeleteVm unlinks the VM that reconcileVm linked, whatever pass *)
(* failed in between.                                                      *)
BackendsAlive ==
  \A i \in cloud.backends : \E v \in cloud.vms : v.id = i /\ Live(v)

(* When the finalizer is gone no VM of the machine is left running, even   *)
(* if the status never named it.                                           *)
VmsReleased ==
  \A m \in Machines : obj[m].fin = "removed" => \A v \in VmsOf(m) : ~Live(v)

(* A machine asks for another public IP only after a fault: one that it    *)
(* created is used again or linked to its VM.  A fault may make every      *)
(* machine lose one, as a restart does.                                    *)
Asked(m) == obj[m].exists \/ obj[m].del

IpsBounded ==
  Cardinality(cloud.ips) <= Cardinality({m \in PublicIp : Asked(m)}) * (faults + 1)

(* A machine whose VM reconciler has finished its job has a ProviderID, by *)
(* which the Machine and the Node are matched.                             *)
FinishedMachineHasProviderID ==
  \A m \in Machines : obj[m].exists /\ obj[m].rec = obj[m].gen => obj[m].pid # 0

(* The controller keeps the contract of an infrastructure machine: its     *)
(* objects, as the API server shows them, and its VMs, whatever passes,    *)
(* informer and cloud do, take only the steps of MachineContract.          *)
Life(m) ==
  CASE ~obj[m].exists /\ ~obj[m].del -> "absent"
    [] ~obj[m].exists /\ obj[m].del -> IF obj[m].fin = "removed" THEN "gone" ELSE "dropped"
    [] obj[m].exists /\ obj[m].del -> "deleting"
    [] OTHER -> IF obj[m].ready THEN "ready" ELSE "pending"

VmLife(m) ==
  IF VmsOf(m) = {} THEN "none" ELSE IF \E v \in VmsOf(m) : Live(v) THEN "live" ELSE "dead"

Contract ==
  INSTANCE MachineContract WITH
    life <- [m \in Machines |-> Life(m)],
    providerID <- [m \in Machines |-> obj[m].pid],
    vm <- [m \in Machines |-> VmLife(m)]

KeepsContract == Contract!Spec

(* A machine that is not deleted ends up recorded.  Only a control plane   *)
(* node without a failure domain never does where there are subregions to  *)
(* choose from: allocateLeastNodeAZ does not know it.                      *)
Unplaced(m) ==
  m \in ControlPlane /\ FailureDomain[m] = "" /\ LeastNodes /\ Cardinality(SubregionNames) > 1
MachineSettles ==
  \A m \in Machines : obj[m].exists ~> (obj[m].rec = obj[m].gen \/ obj[m].del \/ Unplaced(m))

(* A deleted machine goes. *)
MachineDeletionCompletes == \A m \in Machines : obj[m].del ~> ~obj[m].exists
================================================================================
