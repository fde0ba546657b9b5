------------------------------- MODULE MachineScope -------------------------------
(***************************************************************************)
(* The OscMachine objects in the API server and in the informer, the       *)
(* scopes of the passes over them, which may run at the same time, and the *)
(* part of the cloud that machines use.                                    *)
(***************************************************************************)
EXTENDS AZAllocator

CONSTANTS
  PublicIp,      (* machines whose spec asks for a public IP                  *)
  GPU,           (* workers whose spec asks for a flexible GPU                *)
  FailureDomain, (* subregion that the Machine names, or ""                   *)
  GpuAZs,        (* subregions that have GPUs left                            *)
  NodeMode,      (* reconciliation rule of each machine                       *)
  LBDisabled,    (* the cluster has no load balancer                          *)
  MaxMachines,   (* bound: machines created                                   *)
  MaxFaults      (* bound: failed or unanswered calls and restarts            *)

ASSUME MachineAssumption ==
  /\ PublicIp \subseteq Machines
  /\ GPU \subseteq Workers
  /\ FailureDomain \in [Machines -> Zone]
  /\ GpuAZs \subseteq AZs
  /\ NodeMode \in [Machines -> {"always", "random", "onChange"}]
  /\ LBDisabled \in BOOLEAN
  /\ MaxMachines \in Nat
  /\ MaxFaults \in Nat

VARIABLES
  cloud,   (* VMs, public IPs, GPUs and the load balancer's backends     *)
  obj,     (* the OscMachines in the API server                          *)
  cache,   (* the informer's versions of them                            *)
  old,     (* the patch helpers' copies                                  *)
  mem,     (* the scopes' objects                                        *)
  at,      (* where each pass is                                         *)
  infra,   (* the Cluster's infrastructure is ready                      *)
  faults   (* faults so far                                              *)

vars == <<cloud, obj, cache, old, mem, at, infra, faults, alloc>>

Id == Nat
VmState == {"pending", "stopped", "running", "shutting-down", "terminated"}
GpuState == {"allocated", "attaching", "attached"}

(* ip: the IP of the auto-attach tag, which is linked while attached; boot: *)
(* the VM starts by itself; ccm: it has the tags of the cloud controller.   *)
Vm == [id : Id, m : Machines, az : AZs, state : VmState, ip : Id,
       attached : BOOLEAN, boot : BOOLEAN, ccm : BOOLEAN]
Gpu == [id : Id, m : Machines, az : AZs, state : GpuState, tagged : BOOLEAN]

Cloud == [next : Id, vms : SUBSET Vm, ips : SUBSET Id, gpus : SUBSET Gpu,
          backends : SUBSET Id]

OscMachine ==
  [exists : BOOLEAN, gen : Nat, del : BOOLEAN, fin : {"none", "set", "removed"},
   pid : Id, vm : Id, ip : Id, gpu : Id, fd : Zone, rec : Nat, ready : BOOLEAN]

NewOscMachine ==
  [exists |-> TRUE, gen |-> 1, del |-> FALSE, fin |-> "none", pid |-> 0,
   vm |-> 0, ip |-> 0, gpu |-> 0, fd |-> "", rec |-> 0, ready |-> FALSE]

Phase == {"idle", "vm", "place", "gpu", "gpuTag", "ip", "create", "gpuLink",
          "start", "lb", "tags", "dVm", "dUnlink", "dDelete", "dIp", "dFinal",
          "patch", "status"}

(* az, gpu: the subregion chosen for the VM, the GPU just allocated for it. *)
Position == [phase : Phase, az : Zone, gpu : Id]

Start(p) == [phase |-> p, az |-> "", gpu |-> 0]

(* The machines whose VMs are behind the load balancer. *)
Balanced == IF LBDisabled THEN {} ELSE ControlPlane

Ids(S) == {x.id : x \in S}
LinkedIp(i) == \E v \in cloud.vms : v.attached /\ v.ip = i
--------------------------------------------------------------------------------
(* How a pass over m goes on; see the operators of the same names in        *)
(* ClusterScope.                                                            *)
Continue(m, a, o) ==
  /\ at' = [at EXCEPT ![m] = a]
  /\ mem' = [mem EXCEPT ![m] = o]
  /\ UNCHANGED <<cloud, obj, cache, old, infra, faults, alloc>>

EndPass(m, o) == Continue(m, Start("patch"), o)

Call(m, after, a, seen, o) ==
  /\ UNCHANGED <<obj, cache, old, infra, alloc>>
  /\ \/ /\ cloud' = after
        /\ at' = [at EXCEPT ![m] = a]
        /\ mem' = [mem EXCEPT ![m] = o]
        /\ UNCHANGED faults
     \/ /\ faults < MaxFaults
        /\ faults' = faults + 1
        /\ cloud' \in {after, cloud}
        /\ at' = [at EXCEPT ![m] = Start("patch")]
        /\ mem' = [mem EXCEPT ![m] = seen]

LookupFails(m) ==
  /\ at[m].phase \notin {"idle", "patch", "status"}
  /\ faults < MaxFaults
  /\ faults' = faults + 1
  /\ at' = [at EXCEPT ![m] = Start("patch")]
  /\ UNCHANGED <<cloud, obj, cache, old, mem, infra, alloc>>

(* Reconcile: the pass starts from the informer's copy.  FailureReason and  *)
(* FailureMessage, which would end it, are set by nobody.                   *)
Reconcile(m) ==
  /\ at[m].phase = "idle"
  /\ cache[m].exists
  /\ old' = [old EXCEPT ![m] = cache[m]]
  /\ IF cache[m].del
     THEN /\ at' = [at EXCEPT ![m] = Start("dVm")]
          /\ mem' = [mem EXCEPT ![m] = cache[m]]
     ELSE /\ at' = [at EXCEPT ![m] = Start("vm")]
          /\ mem' = [mem EXCEPT ![m] = [cache[m] EXCEPT !.fin = "set"]]
  /\ UNCHANGED <<cloud, obj, cache, infra, faults, alloc>>

(* Mutant: the scope's object is written as it is. *)
Overwrite(before, after, server) == after

(* Close: metadata and spec first, then the status, as merge patches.       *)
Merge(before, after, server) == IF after = before THEN server ELSE after

PatchedObject(m) ==
  LET fin == Merge(old[m].fin, mem[m].fin, obj[m].fin)
      pid == Merge(old[m].pid, mem[m].pid, obj[m].pid)
  IN [obj[m] EXCEPT !.fin = fin, !.pid = pid,
                    !.gen = IF pid = obj[m].pid THEN @ ELSE @ + 1,
                    !.exists = ~(obj[m].del /\ fin = "removed")]

PatchedStatus(m) ==
  [obj[m] EXCEPT !.vm = Merge(old[m].vm, mem[m].vm, @),
                 !.ip = Merge(old[m].ip, mem[m].ip, @),
                 !.gpu = Merge(old[m].gpu, mem[m].gpu, @),
                 !.fd = Merge(old[m].fd, mem[m].fd, @),
                 !.rec = Merge(old[m].rec, mem[m].rec, @),
                 !.ready = Merge(old[m].ready, mem[m].ready, @)]

Patch(m, patched) ==
  /\ \/ obj' = [obj EXCEPT ![m] = IF @.exists THEN patched ELSE @] /\ UNCHANGED faults
     \/ faults < MaxFaults /\ faults' = faults + 1 /\ UNCHANGED obj
  /\ UNCHANGED <<cloud, cache, infra, alloc>>

CloseObject(m) ==
  /\ at[m].phase = "patch"
  /\ at' = [at EXCEPT ![m] = Start("status")]
  /\ Patch(m, PatchedObject(m))
  /\ UNCHANGED <<old, mem>>

CloseStatus(m) ==
  /\ at[m].phase = "status"
  /\ at' = [at EXCEPT ![m] = Start("idle")]
  /\ Patch(m, PatchedStatus(m))
  /\ old' = [old EXCEPT ![m] = NewOscMachine]
  /\ mem' = [mem EXCEPT ![m] = NewOscMachine]
--------------------------------------------------------------------------------
PassUnchanged == UNCHANGED <<old, mem, at, alloc, faults>>

Sync(m) ==
  /\ cache[m] # obj[m]
  /\ cache' = [cache EXCEPT ![m] = obj[m]]
  /\ UNCHANGED <<cloud, obj, infra>> /\ PassUnchanged

(* The process dies and comes back: the scopes and the allocator are lost. *)
Restart ==
  /\ faults < MaxFaults
  /\ faults' = faults + 1
  /\ at' = [m \in Machines |-> Start("idle")]
  /\ old' = [m \in Machines |-> NewOscMachine]
  /\ mem' = [m \in Machines |-> NewOscMachine]
  /\ alloc' = EmptyAllocator
  /\ UNCHANGED <<cloud, obj, cache, infra>>

(* A Machine is scaled up or down.  An object without a finalizer goes at once. *)
Create(m) ==
  /\ ~obj[m].exists /\ ~obj[m].del
  /\ Cardinality({k \in Machines : obj[k].exists \/ obj[k].del}) < MaxMachines
  /\ obj' = [obj EXCEPT ![m] = NewOscMachine]
  /\ UNCHANGED <<cloud, cache, infra>> /\ PassUnchanged

Delete(m) ==
  /\ obj[m].exists /\ ~obj[m].del
  /\ obj' = [obj EXCEPT ![m].del = TRUE, ![m].gen = @ + 1, ![m].exists = (obj[m].fin = "set")]
  /\ UNCHANGED <<cloud, cache, infra>> /\ PassUnchanged

(* The cluster controller has published the infrastructure, and the         *)
(* bootstrap provider has written its secret.                               *)
InfrastructureReady ==
  /\ ~infra
  /\ infra' = TRUE
  /\ UNCHANGED <<cloud, obj, cache>> /\ PassUnchanged
===================================================================================
