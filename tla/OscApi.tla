---------------------------------- MODULE OscApi ----------------------------------
(***************************************************************************)
(* One object of the provider's API in the API server: clients of both     *)
(* versions write it, the webhooks of v1beta1 admit it, the conversion     *)
(* webhook takes it to and from the stored version, and, for a machine     *)
(* template, the template controller publishes its capacity.               *)
(***************************************************************************)
EXTENDS ApiValidation, FiniteSets

CONSTANTS
  Kinds,      (* kinds of object that a behaviour may be about              *)
  Samples,    (* specs that clients send, for clusters and for machines     *)
  MaxWrites,  (* bound: creations and updates                               *)
  MaxFaults   (* bound: failed patches and restarts of the controller       *)

Kind == {"OscCluster", "OscClusterTemplate", "OscMachine", "OscMachineTemplate"}
Version == {"v1beta1", "v1beta2"}

ASSUME ApiAssumption ==
  /\ Kinds \subseteq Kind
  /\ Samples \in [cluster : (SUBSET OscClusterSpec) \ {{}}, machine : (SUBSET OscMachineSpec) \ {{}}]
  /\ MaxWrites \in Nat /\ MaxFaults \in Nat

VARIABLES
  kind,     (* the object's kind                                         *)
  stored,   (* the object in the API server, in v1beta2                  *)
  past,     (* every spec it was stored with since it was created        *)
  via,      (* the version of the last write of its spec                 *)
  writes,   (* creations and updates so far                              *)
  tcache, told, tmem,  (* the template in informer, patch helper, scope  *)
  tat,      (* where the template controller's pass is                   *)
  faults

vars == <<kind, stored, past, via, writes, tcache, told, tmem, tat, faults>>
controller == <<tcache, told, tmem, tat, faults>>

OfClusters == kind \in {"OscCluster", "OscClusterTemplate"}
SamplesOf == IF OfClusters THEN Samples.cluster ELSE Samples.machine

NoCapacity == [cpu |-> 0, mem |-> 0]
Absent == [exists |-> FALSE, spec |-> CHOOSE s \in SamplesOf : TRUE, del |-> FALSE, fin |-> FALSE,
           capacity |-> NoCapacity]
--------------------------------------------------------------------------------
(* How the API server shows the object in v1beta1, and stores what it gets *)
(* in v1beta1.  Machine templates have no conversion webhook: the fields   *)
(* of both versions are kept.                                              *)
Spoke(s) ==
  CASE OfClusters -> ClusterConvertFrom(s)
    [] kind = "OscMachine" -> MachineConvertFrom(s)
    [] OTHER -> s

Hub(s) ==
  CASE OfClusters -> ClusterConvertTo(s)
    [] kind = "OscMachine" -> MachineConvertTo(s)
    [] OTHER -> s

View(v, s) == IF v = "v1beta1" THEN Spoke(s) ELSE s
Storage(v, s) == IF v = "v1beta1" THEN Hub(s) ELSE s

(* The object that the v1beta1 webhooks see, of a request in either        *)
(* version (matchPolicy Equivalent); the v1beta2 webhooks accept all.      *)
Reviewed(v, s) == IF v = "v1beta1" THEN s ELSE Spoke(s)

ClusterCreate(s) == Accepted(ValidateOscClusterSpec(s))
MachineCreate(s) == Accepted(ValidateOscMachineSpec(s))
ValidateCreate(s) == IF OfClusters THEN ClusterCreate(s) ELSE MachineCreate(s)

(* controller-runtime passes the object in place and then the new one, so  *)
(* that the code's r is the former and its old the latter.                 *)
ClusterUpdate(r, old) ==
  \/ "loadbalancer" \in r.disable
  \/ r.loadBalancer.name = old.loadBalancer.name /\ r.loadBalancer.type = old.loadBalancer.type

(* Mutant: a placement that was not set may be set. *)
LenientUpdate(r, old) ==
  /\ r.vmType = old.vmType /\ r.keypairName = old.keypairName /\ r.rootDisk = old.rootDisk
  /\ "" \in {old.subregionName, r.subregionName} \/ r.subregionName = old.subregionName
  /\ {} \in {old.tags, r.tags} \/ r.tags = old.tags
  /\ "" \in {old.subnetName, r.subnetName} \/ r.subnetName = old.subnetName

MachineUpdate(r, old) ==
  /\ r.vmType = old.vmType /\ r.keypairName = old.keypairName /\ r.rootDisk = old.rootDisk
  /\ old.subregionName # "" => r.subregionName = old.subregionName
  /\ old.tags # {} => r.tags = old.tags
  /\ old.subnetName # "" => r.subnetName = old.subnetName

TemplateUpdate(r, old) == r = old

ValidateUpdate(r, old) ==
  CASE kind = "OscCluster" -> ClusterUpdate(r, old)
    [] kind = "OscMachine" -> MachineUpdate(r, old)
    [] OTHER -> TemplateUpdate(r, old)
--------------------------------------------------------------------------------
(* Requests of clients; one that is refused changes nothing.  A template   *)
(* that a previous version has made carries a finalizer.                   *)
Create(v) ==
  /\ ~stored.exists /\ writes < MaxWrites
  /\ \E s \in SamplesOf, fin \in IF kind = "OscMachineTemplate" THEN BOOLEAN ELSE {FALSE} :
       /\ ValidateCreate(Reviewed(v, s))
       /\ stored' = [Absent EXCEPT !.exists = TRUE, !.spec = Storage(v, s), !.fin = fin]
       /\ past' = {Storage(v, s)}
  /\ via' = v
  /\ writes' = writes + 1
  /\ UNCHANGED <<kind, controller>>

(* What a client makes of the spec it reads: it replaces one field, or     *)
(* writes it back as it is.  A write on an older version is a conflict.    *)
Edited(s) == {[s EXCEPT ![f] = t[f]] : f \in DOMAIN s, t \in SamplesOf}

Update(v) ==
  /\ stored.exists /\ writes < MaxWrites
  /\ \E s \in Edited(View(v, stored.spec)) :
       /\ ValidateUpdate(Spoke(stored.spec), Reviewed(v, s))
       /\ stored' = [stored EXCEPT !.spec = Storage(v, s)]
       /\ past' = past \cup {Storage(v, s)}
  /\ via' = v
  /\ writes' = writes + 1
  /\ UNCHANGED <<kind, controller>>

(* Of clusters and machines see OscCluster and OscMachine. *)
Delete ==
  /\ kind \in {"OscClusterTemplate", "OscMachineTemplate"} /\ stored.exists /\ ~stored.del
  /\ stored' = IF stored.fin THEN [stored EXCEPT !.del = TRUE] ELSE Absent
  /\ UNCHANGED <<kind, past, via, writes, controller>>
--------------------------------------------------------------------------------
(* The machine template controller. *)
Sync ==
  /\ kind = "OscMachineTemplate" /\ tcache # stored
  /\ tcache' = stored
  /\ UNCHANGED <<kind, stored, past, via, writes, told, tmem, tat, faults>>

(* Mutant: a capacity that is there is kept. *)
FirstCapacity(o) ==
  LET t == o.spec.vmType
  IN IF t.family = "tina" /\ o.capacity = NoCapacity
     THEN [o EXCEPT !.capacity = [cpu |-> t.cpu, mem |-> t.mem]] ELSE o

reconcileCapacity(o) ==
  LET t == o.spec.vmType
  IN IF t.family = "tina" THEN [o EXCEPT !.capacity = [cpu |-> t.cpu, mem |-> t.mem]] ELSE o

(* Mutant: the finalizer is left. *)
KeepFinalizer(o) == o

reconcileDelete(o) == [o EXCEPT !.fin = FALSE]

Reconcile ==
  /\ kind = "OscMachineTemplate" /\ tat = "idle" /\ tcache.exists
  /\ told' = tcache
  /\ tmem' = IF tcache.del THEN reconcileDelete(tcache) ELSE reconcileCapacity(tcache)
  /\ tat' = "patch"
  /\ UNCHANGED <<kind, stored, past, via, writes, tcache, faults>>

(* Close: metadata, then the status, as merge patches on what is there,    *)
(* which may be another template of the same name.                         *)
Merge(before, after, server) == IF after = before THEN server ELSE after

Patch(patched) ==
  /\ \/ stored' = (IF stored.exists THEN patched ELSE stored) /\ UNCHANGED faults
     \/ faults < MaxFaults /\ faults' = faults + 1 /\ UNCHANGED stored
  /\ UNCHANGED <<kind, past, via, writes, tcache>>

CloseObject ==
  LET fin == Merge(told.fin, tmem.fin, stored.fin)
  IN /\ tat = "patch"
     /\ tat' = "status"
     /\ Patch(IF stored.del /\ ~fin THEN Absent ELSE [stored EXCEPT !.fin = fin])
     /\ UNCHANGED <<told, tmem>>

CloseStatus ==
  /\ tat = "status"
  /\ tat' = "idle"
  /\ Patch([stored EXCEPT !.capacity = Merge(told.capacity, tmem.capacity, @)])
  /\ told' = Absent /\ tmem' = Absent

Restart ==
  /\ tat # "idle" /\ faults < MaxFaults
  /\ faults' = faults + 1
  /\ tat' = "idle" /\ told' = Absent /\ tmem' = Absent
  /\ UNCHANGED <<kind, stored, past, via, writes, tcache>>
(* SetDefaultValue: the load balancer as GetLoadBalancer hands it out.     *)
SetDefaultValue(lb) ==
  LET default(n) ==
        CASE n \in Port -> 6443 [] n = "checkinterval" -> 10 [] n = "timeout" -> 10
          [] n = "healthythreshold" -> 2 [] n = "unhealthythreshold" -> 3
  IN [lb EXCEPT !.type = IF @ = "" THEN "internet-facing" ELSE @,
                !.number = [n \in Numbers |-> IF @[n] = 0 THEN default(n) ELSE @[n]],
                !.protocol = [p \in Protocols |-> IF @[p] = "" THEN "TCP" ELSE @[p]]]
--------------------------------------------------------------------------------
Init ==
  /\ kind \in Kinds
  /\ stored = Absent /\ past = {} /\ via = "v1beta2" /\ writes = 0
  /\ tcache = Absent /\ told = Absent /\ tmem = Absent /\ tat = "idle" /\ faults = 0

Pass == Reconcile \/ CloseObject \/ CloseStatus

Next == (\E v \in Version : Create(v) \/ Update(v)) \/ Delete \/ Sync \/ Pass \/ Restart

Spec == Init /\ [][Next]_vars

(* The informer follows the API server, and its events and errors start    *)
(* passes.                                                                 *)
FairSpec == Spec /\ WF_vars(Sync) /\ WF_vars(Pass)
--------------------------------------------------------------------------------
Object(Specs) ==
  [exists : BOOLEAN, spec : Specs, del : BOOLEAN, fin : BOOLEAN,
   capacity : {NoCapacity} \cup [cpu : Nat \ {0}, mem : Nat \ {0}]]

(* The object and the controller's copies have the types of the API; a     *)
(* capacity that is published is positive, since ValidateVmType refuses    *)
(* types without a CPU or memory.                                          *)
TypeOK ==
  LET O == Object(IF OfClusters THEN OscClusterSpec ELSE OscMachineSpec)
  IN /\ kind \in Kind /\ via \in Version
     /\ stored \in O /\ tcache \in O /\ told \in O /\ tmem \in O
     /\ tat \in {"idle", "patch", "status"}
     /\ writes \in 0 .. MaxWrites /\ faults \in 0 .. MaxFaults

(* However the spec of a machine is written, and through whichever         *)
(* version, its VM type, keypair and root disk stay those it was created   *)
(* with, and it never has two subregions, subnets or sets of tags in its   *)
(* life: the VM is created once and is not moved (ValidateUpdate).         *)
MachineIdentityKept ==
  kind = "OscMachine" =>
    \A s, t \in past :
      /\ s.vmType = t.vmType /\ s.keypairName = t.keypairName /\ s.rootDisk = t.rootDisk
      /\ "" \in {s.subregionName, t.subregionName} \/ s.subregionName = t.subregionName
      /\ "" \in {s.subnetName, t.subnetName} \/ s.subnetName = t.subnetName
      /\ {} \in {s.tags, t.tags} \/ s.tags = t.tags

(* An object written through v1beta1 survives a client of v1beta1 that     *)
(* reads it and writes it back: ConvertTo undoes ConvertFrom.              *)
RoundTripStable ==
  stored.exists /\ via = "v1beta1" => Hub(Spoke(stored.spec)) = stored.spec

(* A cluster as it was created, through either version, fits: the load     *)
(* balancer has every number of its listener and health check within its   *)
(* limits once the defaults are filled in, and if the range of the net is  *)
(* given no two subnets share an address and each one is within the net,   *)
(* as ValidateSubnetCidr says when it refuses one.  A subnet that holds    *)
(* the whole net is Wider: the webhook only asks that the two overlap and  *)
(* lets it pass.  Of a net without a range, and of an update, it compares  *)
(* nothing, and nothing is claimed.                                        *)
Wider(subnet, net) == net.addrs \subseteq subnet.addrs
CreatedClusterFits ==
  stored.exists /\ kind = "OscCluster" /\ past = {stored.spec} /\ writes = 1 =>
    LET s == stored.spec
        lb == SetDefaultValue(s.loadBalancer)
        range(i) == s.subnets[i].ipSubnetRange
    IN /\ \A n \in Numbers : lb.number[n] \in MinOf(n) .. MaxOf(n)
       /\ s.net.ipRange.text = "cidr" =>
            \A i, j \in DOMAIN s.subnets :
              /\ range(i).addrs \subseteq s.net.ipRange.addrs \/ Wider(range(i), s.net.ipRange)
              /\ i # j => range(i).addrs \cap range(j).addrs = {}

(* A template of a tina type that is not deleted ends up with the capacity *)
(* of its own type, also when a pass over an earlier template of the name  *)
(* has written another one over it (reconcileCapacity).                    *)
CapacityRight ==
  kind = "OscMachineTemplate" /\ stored.exists /\ ~stored.del /\ stored.spec.vmType.family = "tina" =>
    stored.capacity = [cpu |-> stored.spec.vmType.cpu, mem |-> stored.spec.vmType.mem]

CapacitySettles == <>[]CapacityRight

(* A deleted template goes, with the finalizer of a previous version.      *)
TemplateDeletionCompletes == stored.del ~> ~stored.del

(* The object of a cluster that reuses a net names the net and its         *)
(* subnets.                                                                *)
ReusedIdsStored ==
  stored.exists /\ kind = "OscCluster" /\ past = {stored.spec} /\ stored.spec.useExisting.net =>
    /\ stored.spec.net.resourceId # ""
    /\ \A i \in DOMAIN stored.spec.subnets : stored.spec.subnets[i].resourceId # ""
====================================================================================
