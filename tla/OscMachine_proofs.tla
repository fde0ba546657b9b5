----------------------------- MODULE OscMachine_proofs -----------------------------
(***************************************************************************)
(* Theorems about the machine controller, for any machines, subregions and *)
(* number of faults.                                                       *)
(***************************************************************************)
EXTENDS OscMachine, FiniteSetTheorems, TLAPS

(* The type invariant is inductive once it is known that the phases after  *)
(* Place have a subregion.                                                 *)
Placed == \A m \in Machines : at[m].phase \in {"gpu", "gpuTag", "ip", "create"} => at[m].az \in AZs

TypeInv == TypeOK /\ Placed

(* What the allocator answers is a subregion or an error, and it keeps its *)
(* own type.                                                               *)
LEMMA OrderingsType ==
  ASSUME NEW S \in SUBSET Workers
  PROVE  Orderings(S) \subseteq Seq(Workers)
  <1>1. IsFiniteSet(S) BY PlacementAssumption, FS_Subset DEF Workers
  <1>2. Cardinality(S) \in Nat BY <1>1, FS_CardinalityType
  <1>. QED BY <1>2 DEF Orderings

LEMMA RefreshedType ==
  ASSUME alloc \in Allocator, NEW listed \in SUBSET Workers, NEW published \in [Workers -> Zone]
  PROVE  Refreshed(listed, published) \subseteq Allocator
  BY OrderingsType DEF Refreshed, Allocator

LEMMA AssignedType ==
  ASSUME NEW a \in Allocator, NEW m \in Workers
  PROVE  Assigned(a, m) \subseteq Allocator
  <1>. SUFFICES ASSUME NEW x \in Assigned(a, m) PROVE x \in Allocator
    OBVIOUS
  <1>1. PICK f \in [Workers -> Zone \cup {"unknown"}] : x = [a EXCEPT !.azs = f]
    BY Zenon DEF Assigned
  <1>. QED BY <1>1 DEF Allocator

LEMMA AllocateAZType ==
  ASSUME alloc \in Allocator, NEW m \in Machines,
         NEW listed \in SUBSET Workers, NEW published \in [Workers -> Zone],
         NEW r \in AllocateAZ(m, listed, published)
  PROVE  r[2] \in Allocator
  <1>1. m \in Workers => LeastNodeAZ(m, listed, published) \subseteq Allocator
    BY RefreshedType, AssignedType DEF LeastNodeAZ
  <1>2. Refreshed(listed, published) \subseteq Allocator BY RefreshedType
  <1>. QED BY <1>1, <1>2 DEF AllocateAZ

(* Every step keeps the types.  One step for each kind of effect: the pass *)
(* goes on, the pass calls the cloud, the patches, the environment.        *)
LEMMA ContinueType ==
  ASSUME TypeInv, NEW m \in Machines, NEW a \in Position, NEW o \in OscMachine,
         a.phase \in {"gpu", "gpuTag", "ip", "create"} => a.az \in AZs,
         Continue(m, a, o)
  PROVE  TypeInv'
  BY DEF TypeInv, TypeOK, Placed, Continue

LEMMA StartType ==
  ASSUME NEW p \in Phase \ {"gpu", "gpuTag", "ip", "create"}
  PROVE  /\ Start(p) \in Position
         /\ ~(Start(p).phase \in {"gpu", "gpuTag", "ip", "create"})
  BY DEF Start, Position, Zone, Id

LEMMA EndPassType ==
  ASSUME TypeInv, NEW m \in Machines, NEW o \in OscMachine, EndPass(m, o)
  PROVE  TypeInv'
  BY ContinueType, StartType DEF EndPass, Phase

LEMMA CallType ==
  ASSUME TypeInv, NEW m \in Machines, NEW a \in Position,
         NEW seen \in OscMachine, NEW o \in OscMachine, NEW after \in Cloud,
         a.phase \in {"gpu", "gpuTag", "ip", "create"} => a.az \in AZs,
         Call(m, after, a, seen, o)
  PROVE  TypeInv'
  <1>1. Start("patch") \in Position /\ ~(Start("patch").phase \in {"gpu", "gpuTag", "ip", "create"})
    BY StartType DEF Phase
  <1>. QED BY <1>1, MachineAssumption DEF TypeInv, TypeOK, Placed, Call

(* Every request to the cloud leaves a cloud. *)
LEMMA CloudParts ==
  ASSUME cloud \in Cloud
  PROVE  /\ cloud.next \in Id /\ cloud.next + 1 \in Id
         /\ cloud.vms \in SUBSET Vm /\ cloud.gpus \in SUBSET Gpu
         /\ cloud.ips \in SUBSET Id /\ cloud.backends \in SUBSET Id
  BY DEF Cloud, Id

LEMMA CloudUpdates ==
  ASSUME cloud \in Cloud, NEW n \in Id, NEW vms \in SUBSET Vm, NEW gpus \in SUBSET Gpu,
         NEW ids \in SUBSET Id
  PROVE  /\ [cloud EXCEPT !.vms = vms] \in Cloud
         /\ [cloud EXCEPT !.next = n, !.vms = vms] \in Cloud
         /\ [cloud EXCEPT !.vms = vms, !.gpus = gpus] \in Cloud
         /\ [cloud EXCEPT !.gpus = gpus] \in Cloud
         /\ [cloud EXCEPT !.next = n, !.gpus = gpus] \in Cloud
         /\ [cloud EXCEPT !.ips = ids] \in Cloud
         /\ [cloud EXCEPT !.next = n, !.ips = ids] \in Cloud
         /\ [cloud EXCEPT !.backends = ids] \in Cloud
  BY DEF Cloud

LEMMA RequestTypes ==
  ASSUME cloud \in Cloud, NEW m \in Machines, NEW az \in AZs, NEW i \in Id, NEW ip \in Id
  PROVE  /\ GpuCreated(m, az) \in Cloud /\ GpuTagged(i) \in Cloud /\ GpuLinked(i) \in Cloud
         /\ IpCreated \in Cloud /\ IpDeleted(i) \in Cloud
         /\ VmCreated(m, az, ip) \in Cloud /\ VmStarted(i) \in Cloud
         /\ VmTagged(i) \in Cloud /\ VmDeleted(i) \in Cloud
         /\ BackendLinked(i) \in Cloud /\ BackendUnlinked(i) \in Cloud
  <1>1. GpuCreated(m, az) \in Cloud
    <2>1. [id |-> cloud.next, m |-> m, az |-> az, state |-> "allocated", tagged |-> FALSE] \in Gpu
      BY CloudParts DEF Gpu, GpuState
    <2>2. cloud.gpus \cup {[id |-> cloud.next, m |-> m, az |-> az, state |-> "allocated", tagged |-> FALSE]}
            \in SUBSET Gpu
      BY <2>1, CloudParts
    <2>. QED BY <2>2, CloudParts, CloudUpdates DEF GpuCreated
  <1>2. GpuTagged(i) \in Cloud /\ GpuLinked(i) \in Cloud
    <2>1. \A g \in Gpu : [g EXCEPT !.tagged = TRUE] \in Gpu /\ [g EXCEPT !.state = "attaching"] \in Gpu
      BY DEF Gpu, GpuState
    <2>2. /\ {IF g.id = i THEN [g EXCEPT !.tagged = TRUE] ELSE g : g \in cloud.gpus} \in SUBSET Gpu
          /\ {IF g.id = i THEN [g EXCEPT !.state = "attaching"] ELSE g : g \in cloud.gpus} \in SUBSET Gpu
      BY <2>1, CloudParts
    <2>. QED BY <2>2, CloudUpdates DEF GpuTagged, GpuLinked
  <1>3. IpCreated \in Cloud /\ IpDeleted(i) \in Cloud
    <2>1. cloud.ips \cup {cloud.next} \in SUBSET Id /\ cloud.ips \ {i} \in SUBSET Id BY CloudParts
    <2>. QED BY <2>1, CloudParts, CloudUpdates DEF IpCreated, IpDeleted
  <1>4. VmCreated(m, az, ip) \in Cloud
    <2>. DEFINE v == [id |-> cloud.next, m |-> m, az |-> az, state |-> "pending", ip |-> ip,
                      attached |-> FALSE, boot |-> m \notin GPU, ccm |-> FALSE]
    <2>1. v \in Vm BY CloudParts DEF Vm, VmState
    <2>2. cloud.vms \cup {v} \in SUBSET Vm BY <2>1, CloudParts
    <2>. QED BY <2>2, CloudParts, CloudUpdates DEF VmCreated
  <1>5. VmStarted(i) \in Cloud /\ VmTagged(i) \in Cloud /\ VmDeleted(i) \in Cloud
    <2>1. \A v \in Vm : /\ [v EXCEPT !.state = "pending", !.boot = TRUE] \in Vm
                        /\ [v EXCEPT !.ccm = TRUE] \in Vm
                        /\ [v EXCEPT !.state = "shutting-down"] \in Vm
      BY DEF Vm, VmState
    <2>2. /\ {IF v.id = i THEN [v EXCEPT !.state = "pending", !.boot = TRUE] ELSE v : v \in cloud.vms}
               \in SUBSET Vm
          /\ {IF v.id = i THEN [v EXCEPT !.ccm = TRUE] ELSE v : v \in cloud.vms} \in SUBSET Vm
          /\ {IF v.id = i /\ v.state # "terminated"
              THEN [v EXCEPT !.state = "shutting-down"] ELSE v : v \in cloud.vms} \in SUBSET Vm
      BY <2>1, CloudParts
    <2>. QED BY <2>2, CloudUpdates DEF VmStarted, VmTagged, VmDeleted
  <1>6. BackendLinked(i) \in Cloud /\ BackendUnlinked(i) \in Cloud
    <2>1. cloud.backends \cup {i} \in SUBSET Id /\ cloud.backends \ {i} \in SUBSET Id BY CloudParts
    <2>. QED BY <2>1, CloudUpdates DEF BackendLinked, BackendUnlinked
  <1>. QED BY <1>1, <1>2, <1>3, <1>4, <1>5, <1>6

LEMMA NewOscMachineType == NewOscMachine \in OscMachine
  BY DEF NewOscMachine, OscMachine, Id, Zone

LEMMA LookupType ==
  ASSUME TypeInv, NEW m \in Machines, Lookup(m)
  PROVE  TypeInv'
  <1>1. CASE EndPass(m, mem[m]) BY <1>1, EndPassType DEF TypeInv, TypeOK
  <1>2. CASE ~EndPass(m, mem[m])
    <2>1. PICK g \in FoundGpus(m) :
            LET o == [mem[m] EXCEPT !.gpu = IF g.id = 0 THEN @ ELSE g.id]
            IN \/ /\ FoundVms(m) = {}
                  /\ Continue(m, [Start("place") EXCEPT !.gpu = g.id], o)
               \/ \E v \in FoundVms(m) :
                    LET p == AfterLookup(m, v, g)
                    IN Continue(m, Start(p), [Tracked(o, v) EXCEPT !.ready = @ \/ p \in {"lb", "tags"}])
      BY <1>2 DEF Lookup
    <2>. DEFINE o == [mem[m] EXCEPT !.gpu = IF g.id = 0 THEN @ ELSE g.id]
    <2>2. g.id \in Id /\ o \in OscMachine
      <3>1. g = NoGpu \/ g \in cloud.gpus BY DEF FoundGpus, GpusOf
      <3>2. g.id \in Id BY <3>1, CloudParts DEF NoGpu, Gpu, Id, TypeInv, TypeOK
      <3>. QED BY <3>2 DEF TypeInv, TypeOK, OscMachine
    <2>3. CASE Continue(m, [Start("place") EXCEPT !.gpu = g.id], o)
      <3>1. [Start("place") EXCEPT !.gpu = g.id] \in Position
        BY <2>2 DEF Start, Position, Phase, Zone
      <3>2. [Start("place") EXCEPT !.gpu = g.id].phase = "place" BY DEF Start
      <3>. HIDE DEF o
      <3>. QED BY <2>2, <2>3, <3>1, <3>2, ContinueType
    <2>4. ASSUME NEW v \in FoundVms(m),
                 Continue(m, Start(AfterLookup(m, v, g)),
                   [Tracked(o, v) EXCEPT !.ready = @ \/ AfterLookup(m, v, g) \in {"lb", "tags"}])
          PROVE  TypeInv'
      <3>. DEFINE p == AfterLookup(m, v, g)
                  q == [Tracked(o, v) EXCEPT !.ready = @ \/ p \in {"lb", "tags"}]
      <3>1. p \in {"gpuLink", "start", "lb", "tags", "patch"} BY DEF AfterLookup
      <3>2. v.id \in Id /\ v.ip \in Id /\ v.attached \in BOOLEAN
        BY DEF FoundVms, VmsOf, TypeInv, TypeOK, Cloud, Vm
      <3>3. q \in OscMachine
        <4>. HIDE DEF p, o
        <4>. QED BY <2>2, <3>2 DEF Tracked, OscMachine
      <3>4. Start(p) \in Position /\ ~(Start(p).phase \in {"gpu", "gpuTag", "ip", "create"})
        BY <3>1, StartType DEF Phase
      <3>. HIDE DEF p, q, o
      <3>5. Continue(m, Start(p), q) BY <2>4 DEF p, q
      <3>. QED BY <3>3, <3>4, <3>5, ContinueType
    <2>. QED BY <2>1, <2>3, <2>4
  <1>. QED BY <1>1, <1>2 DEF Lookup

LEMMA PlaceType ==
  ASSUME TypeInv, NEW m \in Machines, Place(m)
  PROVE  TypeInv'
  <1>. DEFINE listed == {x \in Workers : cache[x].exists}
              published == [x \in Workers |-> cache[x].fd]
  <1>1. published \in [Workers -> Zone] /\ listed \in SUBSET Workers
    BY DEF TypeInv, TypeOK, OscMachine, Workers
  <1>2. PICK r : /\ \/ \E g \in cloud.gpus : r = <<g.az, alloc>>
                    \/ r = <<FailureDomain[m], alloc>>
                    \/ r \in AllocateAZ(m, listed, published)
                 /\ at' = [at EXCEPT ![m] = IF r[1] \notin AZs THEN Start("patch")
                                             ELSE [@ EXCEPT !.phase = "gpu", !.az = r[1]]]
                 /\ alloc' = r[2]
    <2>. HIDE DEF listed, published
    <2>. QED BY DEF Place, Workers, listed, published
  <1>3. alloc' \in Allocator
    <2>. HIDE DEF listed, published
    <2>. QED BY <1>1, <1>2, AllocateAZType DEF TypeInv, TypeOK
  <1>4. at'[m] \in Position /\ (at'[m].phase \in {"gpu", "gpuTag", "ip", "create"} => at'[m].az \in AZs)
    <2>1. Start("patch") \in Position /\ Start("patch").phase = "patch"
      BY DEF Start, Position, Phase, Zone, Id
    <2>. QED BY <1>2, <2>1 DEF TypeInv, TypeOK, Position, Phase, Zone
  <1>5. UNCHANGED <<cloud, obj, cache, old, mem, infra, faults>> BY DEF Place
  <1>. QED BY <1>2, <1>3, <1>4, <1>5 DEF TypeInv, TypeOK, Placed

LEMMA BuildStepsType ==
  ASSUME TypeInv, NEW m \in Machines,
         \/ AllocateFGPU(m) \/ TagFGPU(m) \/ AllocateIP(m) \/ CreateVm(m) \/ LinkFGPU(m)
         \/ StartVm(m) \/ LinkBackend(m) \/ Finish(m)
  PROVE  TypeInv'
  <1>1. /\ mem[m] \in OscMachine /\ at[m] \in Position /\ cloud \in Cloud /\ cloud.next \in Id
        /\ mem[m].vm \in Id /\ mem[m].ip \in Id /\ mem[m].gpu \in Id /\ at[m].gpu \in Id
    BY CloudParts DEF TypeInv, TypeOK, OscMachine, Position
  <1>2. /\ Start("patch") \in Position /\ Start("patch").phase = "patch"
        /\ Start("tags") \in Position /\ Start("tags").phase = "tags"
    BY DEF Start, Position, Phase, Zone, Id
  <1>3. \A p \in {"ip", "create"} : /\ To(m, p) \in Position
                                    /\ To(m, p).az = at[m].az
                                    /\ [To(m, "gpuTag") EXCEPT !.gpu = cloud.next] \in Position
                                    /\ [To(m, "gpuTag") EXCEPT !.gpu = cloud.next].az = at[m].az
    BY <1>1 DEF To, Position, Phase
  <1>4. at[m].phase \in {"gpu", "gpuTag", "ip", "create"} => at[m].az \in AZs BY DEF TypeInv, Placed
  <1>5. CASE AllocateFGPU(m)
    <2>1. CASE Continue(m, To(m, "ip"), mem[m])
      BY <1>1, <1>3, <1>4, <1>5, <2>1, ContinueType DEF AllocateFGPU
    <2>2. CASE EndPass(m, mem[m]) BY <1>1, <2>2, EndPassType
    <2>3. CASE Call(m, GpuCreated(m, at[m].az), [To(m, "gpuTag") EXCEPT !.gpu = cloud.next], mem[m], mem[m])
      <3>1. GpuCreated(m, at[m].az) \in Cloud BY <1>1, <1>4, <1>5, RequestTypes DEF AllocateFGPU
      <3>. QED BY <1>1, <1>3, <1>4, <1>5, <2>3, <3>1, CallType DEF AllocateFGPU
    <2>. QED BY <1>5, <2>1, <2>2, <2>3 DEF AllocateFGPU
  <1>6. CASE TagFGPU(m)
    <2>1. GpuTagged(at[m].gpu) \in Cloud BY <1>1, <1>4, <1>6, RequestTypes DEF TagFGPU
    <2>. QED BY <1>1, <1>3, <1>4, <1>6, <2>1, CallType DEF TagFGPU
  <1>7. CASE AllocateIP(m)
    <2>1. IpCreated \in Cloud BY <1>1, <1>4, <1>7, RequestTypes DEF AllocateIP
    <2>2. [mem[m] EXCEPT !.ip = cloud.next] \in OscMachine BY <1>1 DEF OscMachine
    <2>3. CASE Continue(m, To(m, "create"), mem[m])
      BY <1>1, <1>3, <1>4, <1>7, <2>3, ContinueType DEF AllocateIP
    <2>4. CASE Call(m, IpCreated, To(m, "create"), mem[m], [mem[m] EXCEPT !.ip = cloud.next])
      BY <1>1, <1>3, <1>4, <1>7, <2>1, <2>2, <2>4, CallType DEF AllocateIP
    <2>. QED BY <1>7, <2>3, <2>4 DEF AllocateIP
  <1>8. CASE CreateVm(m)
    <2>. DEFINE ip == IF m \in PublicIp THEN mem[m].ip ELSE 0
                o == [mem[m] EXCEPT !.vm = cloud.next, !.pid = cloud.next]
    <2>1. ip \in Id BY <1>1 DEF Id
    <2>2. VmCreated(m, at[m].az, ip) \in Cloud
      <3>. HIDE DEF ip
      <3>. QED BY <1>1, <1>4, <1>8, <2>1, RequestTypes DEF CreateVm
    <2>3. o \in OscMachine BY <1>1 DEF OscMachine
    <2>4. Call(m, VmCreated(m, at[m].az, ip), Start("patch"), mem[m], o) BY <1>8 DEF CreateVm
    <2>. HIDE DEF ip, o
    <2>. QED BY <1>1, <1>2, <2>2, <2>3, <2>4, CallType
  <1>9. CASE LinkFGPU(m) \/ StartVm(m) \/ LinkBackend(m)
    <2>1. GpuLinked(mem[m].gpu) \in Cloud /\ VmStarted(mem[m].vm) \in Cloud /\ BackendLinked(mem[m].vm) \in Cloud
      <3>1. PICK az : az \in AZs BY PlacementAssumption
      <3>. QED BY <1>1, <3>1, RequestTypes
    <2>2. CASE LinkFGPU(m) BY <1>1, <1>2, <2>1, <2>2, CallType DEF LinkFGPU
    <2>3. CASE StartVm(m) BY <1>1, <1>2, <2>1, <2>3, CallType DEF StartVm
    <2>4. CASE LinkBackend(m) BY <1>1, <1>2, <2>1, <2>4, CallType, ContinueType DEF LinkBackend
    <2>. QED BY <1>9, <2>2, <2>3, <2>4
  <1>10. CASE Finish(m)
    <2>1. PICK v \in cloud.vms :
            LET seen == [mem[m] EXCEPT !.fd = v.az]
                o == [seen EXCEPT !.rec = mem[m].gen]
            IN IF v.ccm THEN EndPass(m, o) ELSE Call(m, VmTagged(v.id), Start("patch"), seen, o)
      BY <1>10 DEF Finish
    <2>. DEFINE seen == [mem[m] EXCEPT !.fd = v.az]
                o == [seen EXCEPT !.rec = mem[m].gen]
    <2>2. v.az \in AZs /\ v.id \in Id BY <1>1, CloudParts DEF Vm
    <2>3. seen \in OscMachine BY <1>1, <2>2 DEF OscMachine, Zone
    <2>4. o \in OscMachine
      <3>1. mem[m].gen \in Nat BY <1>1 DEF OscMachine
      <3>. HIDE DEF seen
      <3>. QED BY <2>3, <3>1 DEF OscMachine
    <2>5. VmTagged(v.id) \in Cloud BY <1>1, <2>2, RequestTypes
    <2>6. IF v.ccm THEN EndPass(m, o) ELSE Call(m, VmTagged(v.id), Start("patch"), seen, o) BY <2>1
    <2>. HIDE DEF seen, o
    <2>. QED BY <1>1, <1>2, <2>3, <2>4, <2>5, <2>6, EndPassType, CallType
  <1>. QED BY <1>5, <1>6, <1>7, <1>8, <1>9, <1>10

LEMMA DeleteStepsType ==
  ASSUME TypeInv, NEW m \in Machines,
         \/ LookupDeletedVm(m) \/ UnlinkBackend(m) \/ DeleteVm(m) \/ DeletePublicIp(m)
         \/ RemoveFinalizer(m)
  PROVE  TypeInv'
  <1>1. /\ mem[m] \in OscMachine /\ cloud \in Cloud
        /\ mem[m].vm \in Id /\ mem[m].ip \in Id
    BY DEF TypeInv, TypeOK, OscMachine
  <1>2. \A p \in {"dUnlink", "dDelete", "dIp", "dFinal"} : Start(p) \in Position /\ Start(p).phase = p
    BY DEF Start, Position, Phase, Zone, Id
  <1>3. CASE LookupDeletedVm(m)
    <2>1. CASE Continue(m, Start("dIp"), mem[m]) BY <1>1, <1>2, <2>1, ContinueType
    <2>2. ASSUME NEW v \in FoundVms(m), NEW p \in {"dUnlink", "dDelete", "dIp"},
                 Continue(m, Start(p), Tracked(mem[m], v))
          PROVE  TypeInv'
      <3>1. v.id \in Id /\ v.ip \in Id
        BY <1>1, CloudParts DEF FoundVms, VmsOf, Vm
      <3>2. Tracked(mem[m], v) \in OscMachine BY <1>1, <3>1 DEF Tracked, OscMachine
      <3>. QED BY <1>2, <2>2, <3>2, ContinueType
    <2>. QED BY <1>3, <2>1, <2>2 DEF LookupDeletedVm
  <1>4. PICK az : az \in AZs BY PlacementAssumption
  <1>5. CASE UnlinkBackend(m)
    <2>1. BackendUnlinked(mem[m].vm) \in Cloud BY <1>1, <1>4, RequestTypes
    <2>. QED BY <1>1, <1>2, <1>5, <2>1, CallType DEF UnlinkBackend
  <1>6. CASE DeleteVm(m)
    <2>1. VmDeleted(mem[m].vm) \in Cloud BY <1>1, <1>4, RequestTypes
    <2>. QED BY <1>1, <1>2, <1>6, <2>1, CallType DEF DeleteVm
  <1>7. CASE DeletePublicIp(m)
    <2>. DEFINE done == [mem[m] EXCEPT !.ip = 0]
    <2>1. done \in OscMachine BY <1>1 DEF OscMachine, Id
    <2>2. IpDeleted(mem[m].ip) \in Cloud BY <1>1, <1>4, RequestTypes
    <2>3. \/ Continue(m, Start("dFinal"), done) \/ EndPass(m, mem[m])
          \/ Call(m, IpDeleted(mem[m].ip), Start("dFinal"), mem[m], done)
      BY <1>7 DEF DeletePublicIp
    <2>. HIDE DEF done
    <2>. QED BY <1>1, <1>2, <2>1, <2>2, <2>3, ContinueType, EndPassType, CallType
  <1>8. CASE RemoveFinalizer(m)
    <2>1. [mem[m] EXCEPT !.fin = "removed"] \in OscMachine BY <1>1 DEF OscMachine
    <2>. QED BY <1>8, <2>1, EndPassType DEF RemoveFinalizer
  <1>. QED BY <1>3, <1>5, <1>6, <1>7, <1>8

LEMMA ScopeStepsType ==
  ASSUME TypeInv, NEW m \in Machines,
         \/ Reconcile(m) \/ CloseObject(m) \/ CloseStatus(m) \/ LookupFails(m)
         \/ Sync(m) \/ Create(m) \/ Delete(m)
  PROVE  TypeInv'
  <1>. USE NewOscMachineType DEF TypeInv
  <1>1. \A p \in {"dVm", "vm", "patch", "status", "idle"} : Start(p) \in Position /\ Start(p).phase = p
    BY DEF Start, Position, Phase, Zone, Id
  <1>2. /\ obj[m] \in OscMachine /\ mem[m] \in OscMachine /\ old[m] \in OscMachine
        /\ cache[m] \in OscMachine
    BY DEF TypeOK
  <1>3. CASE Reconcile(m)
    <2>1. [cache[m] EXCEPT !.fin = "set"] \in OscMachine BY <1>2 DEF OscMachine
    <2>. QED BY <1>1, <1>2, <1>3, <2>1 DEF Reconcile, TypeOK, Placed
  <1>4. ASSUME NEW o \in OscMachine, Patch(m, o)
        PROVE  obj' \in [Machines -> OscMachine] /\ faults' \in 0 .. MaxFaults
    BY <1>2, <1>4, MachineAssumption DEF Patch, TypeOK
  <1>5. CASE CloseObject(m)
    <2>1. PatchedObject(m) \in OscMachine
      <3>. DEFINE fin == Merge(old[m].fin, mem[m].fin, obj[m].fin)
                  pid == Merge(old[m].pid, mem[m].pid, obj[m].pid)
      <3>1. fin \in {"none", "set", "removed"} /\ pid \in Id BY <1>2 DEF Merge, OscMachine
      <3>2. obj[m].gen \in Nat /\ obj[m].gen + 1 \in Nat /\ obj[m].del \in BOOLEAN BY <1>2 DEF OscMachine
      <3>3. PatchedObject(m) = [obj[m] EXCEPT !.fin = fin, !.pid = pid,
                                  !.gen = IF pid = obj[m].pid THEN @ ELSE @ + 1,
                                  !.exists = ~(obj[m].del /\ fin = "removed")]
        BY DEF PatchedObject
      <3>. HIDE DEF fin, pid
      <3>. QED BY <1>2, <3>1, <3>2, <3>3 DEF OscMachine
    <2>2. obj' \in [Machines -> OscMachine] /\ faults' \in 0 .. MaxFaults BY <1>4, <1>5, <2>1 DEF CloseObject
    <2>. QED BY <1>1, <1>5, <2>2 DEF CloseObject, Patch, TypeOK, Placed
  <1>6. CASE CloseStatus(m)
    <2>1. PatchedStatus(m) \in OscMachine
      <3>1. /\ Merge(old[m].vm, mem[m].vm, obj[m].vm) \in Id
            /\ Merge(old[m].ip, mem[m].ip, obj[m].ip) \in Id
            /\ Merge(old[m].gpu, mem[m].gpu, obj[m].gpu) \in Id
            /\ Merge(old[m].fd, mem[m].fd, obj[m].fd) \in Zone
            /\ Merge(old[m].rec, mem[m].rec, obj[m].rec) \in Nat
            /\ Merge(old[m].ready, mem[m].ready, obj[m].ready) \in BOOLEAN
        BY <1>2 DEF Merge, OscMachine
      <3>. QED BY <1>2, <3>1 DEF PatchedStatus, OscMachine
    <2>2. obj' \in [Machines -> OscMachine] /\ faults' \in 0 .. MaxFaults BY <1>4, <1>6, <2>1 DEF CloseStatus
    <2>. QED BY <1>1, <1>6, <2>2 DEF CloseStatus, Patch, TypeOK, Placed
  <1>7. CASE LookupFails(m)
    BY <1>1, <1>7, MachineAssumption DEF LookupFails, TypeOK, Placed
  <1>8. CASE Sync(m) BY <1>2, <1>8 DEF Sync, PassUnchanged, TypeOK, Placed
  <1>9. CASE Create(m) BY <1>9 DEF Create, PassUnchanged, TypeOK, Placed
  <1>10. CASE Delete(m)
    <2>1. obj' \in [Machines -> OscMachine] BY <1>2, <1>10 DEF Delete, TypeOK, OscMachine
    <2>. QED BY <1>10, <2>1 DEF Delete, PassUnchanged, TypeOK, Placed
  <1>. QED BY <1>3, <1>5, <1>6, <1>7, <1>8, <1>9, <1>10

LEMMA CloudMovesType ==
  ASSUME TypeInv, CloudMoves
  PROVE  TypeInv'
  <1>1. cloud \in Cloud BY DEF TypeInv, TypeOK
  <1>2. ASSUME NEW after \in Cloud, CloudStep(after) PROVE TypeInv'
    BY <1>2 DEF CloudStep, PassUnchanged, TypeInv, TypeOK, Placed
  <1>3. CASE VmBoots
    <2>1. PICK v \in cloud.vms :
            CloudStep([cloud EXCEPT !.vms = (@ \ {v}) \cup
              {[v EXCEPT !.state = IF v.boot THEN "running" ELSE "stopped",
                         !.attached = v.boot /\ v.ip \in cloud.ips /\ ~LinkedIp(v.ip)]}])
      BY <1>3 DEF VmBoots
    <2>. DEFINE w == [v EXCEPT !.state = IF v.boot THEN "running" ELSE "stopped",
                               !.attached = v.boot /\ v.ip \in cloud.ips /\ ~LinkedIp(v.ip)]
    <2>2. v \in Vm BY <1>1, CloudParts
    <2>3. w \in Vm BY <2>2 DEF Vm, VmState
    <2>4. (cloud.vms \ {v}) \cup {w} \in SUBSET Vm BY <1>1, <2>3, CloudParts
    <2>5. [cloud EXCEPT !.vms = (cloud.vms \ {v}) \cup {w}] \in Cloud BY <1>1, <2>4, CloudParts, CloudUpdates
    <2>. QED BY <1>2, <2>1, <2>5
  <1>4. CASE VmTerminates
    <2>1. PICK v \in cloud.vms :
            CloudStep([cloud EXCEPT
              !.vms = (@ \ {v}) \cup {[v EXCEPT !.state = "terminated", !.attached = FALSE]},
              !.gpus = {g \in @ : g.m # v.m \/ g.state = "allocated"}])
      BY <1>4 DEF VmTerminates
    <2>2. [v EXCEPT !.state = "terminated", !.attached = FALSE] \in Vm
      BY <1>1, CloudParts DEF Vm, VmState
    <2>3. /\ (cloud.vms \ {v}) \cup {[v EXCEPT !.state = "terminated", !.attached = FALSE]} \in SUBSET Vm
          /\ {g \in cloud.gpus : g.m # v.m \/ g.state = "allocated"} \in SUBSET Gpu
      BY <1>1, <2>2, CloudParts
    <2>4. [cloud EXCEPT
             !.vms = (cloud.vms \ {v}) \cup {[v EXCEPT !.state = "terminated", !.attached = FALSE]},
             !.gpus = {g \in cloud.gpus : g.m # v.m \/ g.state = "allocated"}] \in Cloud
      BY <1>1, <2>3, CloudParts, CloudUpdates
    <2>. QED BY <1>2, <2>1, <2>4
  <1>5. CASE VmVanishes
    <2>1. PICK v \in cloud.vms : CloudStep([cloud EXCEPT !.vms = @ \ {v}]) BY <1>5 DEF VmVanishes
    <2>2. cloud.vms \ {v} \in SUBSET Vm BY <1>1, CloudParts
    <2>3. [cloud EXCEPT !.vms = cloud.vms \ {v}] \in Cloud BY <1>1, <2>2, CloudParts, CloudUpdates
    <2>. QED BY <1>2, <2>1, <2>3
  <1>6. CASE GpuAttaches
    <2>1. PICK g \in cloud.gpus :
            CloudStep([cloud EXCEPT !.gpus =
              {IF x = g THEN [x EXCEPT !.state = "attached"] ELSE x : x \in @}])
      BY <1>6 DEF GpuAttaches
    <2>2. \A x \in Gpu : [x EXCEPT !.state = "attached"] \in Gpu BY DEF Gpu, GpuState
    <2>3. {IF x = g THEN [x EXCEPT !.state = "attached"] ELSE x : x \in cloud.gpus} \in SUBSET Gpu
      BY <1>1, <2>2, CloudParts
    <2>4. [cloud EXCEPT !.gpus = {IF x = g THEN [x EXCEPT !.state = "attached"] ELSE x : x \in cloud.gpus}] \in Cloud
      BY <1>1, <2>3, CloudParts, CloudUpdates
    <2>. QED BY <1>2, <2>1, <2>4
  <1>. QED BY <1>3, <1>4, <1>5, <1>6 DEF CloudMoves

LEMMA NextType == TypeInv /\ [Next]_vars => TypeInv'
  <1>. SUFFICES ASSUME TypeInv, [Next]_vars PROVE TypeInv'
    OBVIOUS
  <1>1. CASE UNCHANGED vars BY <1>1 DEF vars, TypeInv, TypeOK, Placed
  <1>2. ASSUME NEW m \in Machines, Pass(m) \/ LookupFails(m) \/ Sync(m) \/ Create(m) \/ Delete(m)
        PROVE  TypeInv'
    BY <1>2, LookupType, PlaceType, BuildStepsType, DeleteStepsType, ScopeStepsType DEF Pass
  <1>3. CASE Restart
    <2>1. EmptyAllocator \in Allocator BY DEF EmptyAllocator, Allocator
    <2>2. Start("idle") \in Position /\ Start("idle").phase = "idle"
      BY DEF Start, Position, Phase, Zone, Id
    <2>. QED BY <1>3, <2>1, <2>2, NewOscMachineType, MachineAssumption
         DEF Restart, TypeInv, TypeOK, Placed
  <1>4. CASE InfrastructureReady BY <1>4 DEF InfrastructureReady, PassUnchanged, TypeInv, TypeOK, Placed
  <1>. QED BY <1>1, <1>2, <1>3, <1>4, CloudMovesType DEF Next

LEMMA InitType == Init => TypeInv
  <1>1. EmptyAllocator \in Allocator BY DEF EmptyAllocator, Allocator
  <1>2. Start("idle") \in Position /\ Start("idle").phase = "idle"
    BY DEF Start, Position, Phase, Zone, Id
  <1>3. [NewOscMachine EXCEPT !.exists = FALSE] \in OscMachine
    BY NewOscMachineType DEF OscMachine
  <1>4. [next |-> 1, vms |-> {}, ips |-> {}, gpus |-> {}, backends |-> {}] \in Cloud
    BY DEF Cloud, Id
  <1>5. 0 \in 0 .. MaxFaults BY MachineAssumption
  <1>6. Init => cloud \in Cloud /\ infra \in BOOLEAN /\ faults \in 0 .. MaxFaults /\ alloc \in Allocator
    BY <1>1, <1>4, <1>5 DEF Init
  <1>7. Init => /\ obj \in [Machines -> OscMachine] /\ cache \in [Machines -> OscMachine]
                /\ old \in [Machines -> OscMachine] /\ mem \in [Machines -> OscMachine]
    BY <1>3, NewOscMachineType DEF Init
  <1>8. Init => at \in [Machines -> Position] /\ Placed BY <1>2 DEF Init, Placed
  <1>. QED BY <1>6, <1>7, <1>8 DEF TypeInv, TypeOK

(* The controller keeps its types whatever the number of machines, the     *)
(* subregions, the faults and the order in which the passes interleave; in *)
(* particular no VM is created before Place has given it a subregion.      *)
THEOREM TypeCorrect == Spec => []TypeOK
  <1>1. TypeInv => TypeOK BY DEF TypeInv
  <1>. QED BY <1>1, InitType, NextType, PTL DEF Spec
------------------------------------------------------------------------------------
(* The safety invariants of the machine controller, proved with one         *)
(* inductive invariant: what the statuses name, what exists in the cloud    *)
(* and where the passes are agree with each other.                          *)

Building == {"place", "gpu", "gpuTag", "ip", "create"}
Deleting == {"dVm", "dUnlink", "dDelete", "dIp", "dFinal"}
Between == {"idle", "patch", "status"}

(* The VMs that the copies of an OscMachine name. *)
Names(m) == {obj[m].vm, cache[m].vm, old[m].vm, mem[m].vm}

Finalizers(m) == {obj[m].fin, cache[m].fin, old[m].fin, mem[m].fin}

(* The pass over m, if there is one, is a deletion, and so will be the next. *)
Condemned(m) == cache[m].del /\ at[m].phase \in Deleting \cup Between

(* Ids are never used again, and a name is the name of one's own VM. *)
FreshIds ==
  /\ cloud.next > 0
  /\ \A v \in cloud.vms : 0 < v.id /\ v.id < cloud.next
  /\ \A v, w \in cloud.vms : v.id = w.id => v = w
  /\ \A m \in Machines : \A i \in Names(m) : i < cloud.next

OwnVms == \A v \in cloud.vms : \A m \in Machines : v.id \in Names(m) => v.m = m
NamesAgree == \A v \in cloud.vms : Names(v.m) \subseteq {0, v.id}

(* A pass that is about to create a VM runs while there is none. *)
NoVmYet == \A m \in Machines : at[m].phase \in Building => VmsOf(m) = {}

(* A VM goes only in a deletion, and nothing follows a deletion. *)
GoneIsCondemned ==
  \A m \in Machines :
    (\E v \in VmsOf(m) : ~Live(v)) \/ (VmsOf(m) = {} /\ Names(m) # {0}) => Condemned(m)

DeletionIsFinal ==
  \A m \in Machines : /\ at[m].phase \in Deleting => cache[m].del
                      /\ cache[m].del => obj[m].del

(* The finalizer is removed after the VM. *)
AllGone(m) == \A v \in VmsOf(m) : ~Live(v)

Released ==
  \A m \in Machines :
    /\ at[m].phase \in {"dIp", "dFinal"} => AllGone(m)
    /\ "removed" \in Finalizers(m) => AllGone(m) /\ Condemned(m)

(* The phases that act on the VM they have found still have it. *)
VmAtHand ==
  \A m \in Machines :
    /\ at[m].phase \in {"dUnlink", "dDelete"} => mem[m].vm # 0
    /\ at[m].phase = "lb" => m \in Balanced /\ \E v \in VmsOf(m) : v.id = mem[m].vm
    /\ at[m].phase = "dDelete" => mem[m].vm \notin cloud.backends

BackendsBalanced ==
  \A i \in cloud.backends : \E v \in cloud.vms : v.id = i /\ v.m \in Balanced /\ Live(v)

IInv ==
  /\ TypeInv
  /\ OneVm /\ FreshIds /\ OwnVms /\ NamesAgree /\ NoVmYet /\ GoneIsCondemned
  /\ DeletionIsFinal /\ Released /\ VmAtHand /\ BackendsBalanced
--------------------------------------------------------------------------------------
(* Most steps leave the VMs as they were, but for what the invariant does  *)
(* not look at.                                                            *)
Same(v, w) == v.id = w.id /\ v.m = w.m /\ (Live(v) <=> Live(w))

Alike ==
  /\ \A v \in cloud.vms : \E w \in cloud'.vms : Same(v, w)
  /\ \A w \in cloud'.vms : \E v \in cloud.vms : Same(v, w)
  /\ \A v, w \in cloud'.vms : v.id = w.id => v = w
  /\ cloud'.next >= cloud.next

(* Only LinkBackend adds to the load balancer. *)
BackendsKept ==
  \A i \in cloud'.backends : \/ i \in cloud.backends
                             \/ \E k \in Machines : at[k].phase = "lb" /\ mem[k].vm = i

(* What such a step may do to a machine, its copies and its pass. *)
Harmless(n) ==
  /\ \A i \in Names(n)' : i = 0 \/ i \in Names(n) \/ \E v \in VmsOf(n) : v.id = i
  /\ "removed" \in Finalizers(n)' => "removed" \in Finalizers(n) \/ at[n].phase = "dFinal"
  /\ cache[n].del => cache'[n].del
  /\ cache'[n].del => obj'[n].del
  /\ Condemned(n) => at'[n].phase \in Deleting \cup Between
  /\ at'[n].phase \in Building => VmsOf(n) = {}
  /\ at'[n].phase \in Deleting => cache'[n].del
  /\ at'[n].phase \in {"dIp", "dFinal"} => AllGone(n)
  /\ at'[n].phase \in {"dUnlink", "dDelete"} => mem'[n].vm # 0
  /\ at'[n].phase = "lb" => n \in Balanced /\ \E v \in VmsOf(n) : v.id = mem'[n].vm
  /\ at'[n].phase = "dDelete" => mem'[n].vm \notin cloud'.backends

(* A machine that a step does not touch. *)
LEMMA OthersHarmless ==
  ASSUME IInv, BackendsKept, NEW n \in Machines,
         obj'[n] = obj[n], cache'[n] = cache[n], old'[n] = old[n], mem'[n] = mem[n], at'[n] = at[n]
  PROVE  Harmless(n)
  <1>1. Names(n)' = Names(n) /\ Finalizers(n)' = Finalizers(n) BY DEF Names, Finalizers
  <1>2. at[n].phase = "dDelete" => mem[n].vm \notin cloud'.backends
    <2>. SUFFICES ASSUME at[n].phase = "dDelete", mem[n].vm \in cloud'.backends PROVE FALSE
      OBVIOUS
    <2>1. mem[n].vm \notin cloud.backends BY DEF IInv, VmAtHand
    <2>2. PICK k \in Machines : at[k].phase = "lb" /\ mem[k].vm = mem[n].vm BY <2>1 DEF BackendsKept
    <2>3. PICK v \in VmsOf(k) : v.id = mem[k].vm BY <2>2 DEF IInv, VmAtHand
    <2>4. v \in cloud.vms /\ v.m = k BY <2>3 DEF VmsOf
    <2>5. v.id \in Names(n) BY <2>2, <2>3 DEF Names
    <2>. QED BY <2>2, <2>4, <2>5 DEF IInv, OwnVms
  <1>. QED BY <1>1, <1>2 DEF Harmless, IInv, NoVmYet, DeletionIsFinal, Released, VmAtHand, Condemned

(* A harmless step keeps the invariant. *)
LEMMA HarmlessStep ==
  ASSUME IInv, TypeInv', Alike, BackendsKept, \A n \in Machines : Harmless(n)
  PROVE  IInv'
  <1>1. /\ \A n \in Machines : VmsOf(n)' = {} <=> VmsOf(n) = {}
        /\ \A n \in Machines : \A w \in VmsOf(n)' : \E v \in VmsOf(n) : Same(v, w)
        /\ \A n \in Machines : \A v \in VmsOf(n) : \E w \in VmsOf(n)' : Same(v, w)
        /\ \A w \in cloud'.vms : w.m \in Machines
        /\ \A w \in cloud.vms : w.m \in Machines
    BY CloudParts DEF Alike, VmsOf, Same, IInv, TypeInv, TypeOK, Cloud, Vm
  <1>2. OneVm' BY DEF IInv, OneVm, Alike, Same
  <1>3. FreshIds'
    <2>1. cloud.next \in Nat /\ cloud'.next \in Nat BY DEF IInv, TypeInv, TypeOK, Cloud, Id
    <2>2. cloud'.next > 0 BY <2>1 DEF IInv, FreshIds, Alike
    <2>3. \A w \in cloud'.vms : 0 < w.id /\ w.id < cloud'.next
      <3>. SUFFICES ASSUME NEW w \in cloud'.vms PROVE 0 < w.id /\ w.id < cloud'.next
        OBVIOUS
      <3>1. PICK v \in cloud.vms : v.id = w.id BY DEF Alike, Same
      <3>2. 0 < v.id /\ v.id < cloud.next BY DEF IInv, FreshIds
      <3>3. v.id \in Nat BY CloudParts DEF IInv, TypeInv, TypeOK, Vm, Id
      <3>. QED BY <2>1, <3>1, <3>2, <3>3 DEF Alike
    <2>4. \A n \in Machines : \A i \in Names(n)' : i < cloud'.next
      <3>. SUFFICES ASSUME NEW n \in Machines, NEW i \in Names(n)' PROVE i < cloud'.next
        OBVIOUS
      <3>1. i \in Nat BY DEF Names, TypeInv, TypeOK, OscMachine, Id
      <3>2. CASE i = 0 BY <2>1, <2>2, <3>2
      <3>3. CASE i \in Names(n) BY <2>1, <3>1, <3>3 DEF IInv, FreshIds, Alike
      <3>4. CASE \E v \in VmsOf(n) : v.id = i BY <2>1, <3>1, <3>4 DEF IInv, FreshIds, VmsOf, Alike
      <3>. QED BY <3>2, <3>3, <3>4 DEF Harmless
    <2>. QED BY <2>2, <2>3, <2>4 DEF FreshIds, Alike
  <1>4. OwnVms'
    <2>. SUFFICES ASSUME NEW w \in cloud'.vms, NEW n \in Machines, w.id \in Names(n)'
                  PROVE  w.m = n
      BY DEF OwnVms
    <2>1. PICK v \in cloud.vms : v.id = w.id /\ v.m = w.m BY DEF Alike, Same
    <2>2. v.id # 0 BY DEF IInv, FreshIds
    <2>3. CASE v.id \in Names(n) BY <2>1, <2>3 DEF IInv, OwnVms
    <2>4. CASE \E u \in VmsOf(n) : u.id = v.id BY <2>1, <2>4 DEF IInv, FreshIds, VmsOf
    <2>. QED BY <2>1, <2>2, <2>3, <2>4 DEF Harmless
  <1>5. NamesAgree'
    <2>. SUFFICES ASSUME NEW w \in cloud'.vms, NEW i \in Names(w.m)' PROVE i \in {0, w.id}
      BY DEF NamesAgree
    <2>1. PICK v \in cloud.vms : v.id = w.id /\ v.m = w.m BY DEF Alike, Same
    <2>2. CASE i \in Names(w.m) BY <2>1, <2>2 DEF IInv, NamesAgree
    <2>3. CASE \E u \in VmsOf(w.m) : u.id = i BY <2>1, <2>3 DEF IInv, OneVm, VmsOf
    <2>. QED BY <1>1, <2>2, <2>3 DEF Harmless
  <1>6. NoVmYet' BY <1>1 DEF NoVmYet, Harmless
  <1>7. \A n \in Machines : Condemned(n) => Condemned(n)' BY DEF Condemned, Harmless
  <1>8. GoneIsCondemned'
    <2>. SUFFICES ASSUME NEW n \in Machines,
                         \/ \E w \in VmsOf(n)' : ~Live(w)
                         \/ VmsOf(n)' = {} /\ Names(n)' # {0}
                  PROVE  Condemned(n)'
      BY DEF GoneIsCondemned
    <2>1. CASE \E w \in VmsOf(n)' : ~Live(w)
      BY <1>1, <1>7, <2>1 DEF IInv, GoneIsCondemned, Same
    <2>2. CASE VmsOf(n)' = {} /\ Names(n)' # {0}
      <3>1. VmsOf(n) = {} BY <1>1, <2>2
      <3>2. PICK i \in Names(n)' : i # 0 BY <2>2 DEF Names
      <3>3. i \in Names(n) BY <3>1, <3>2 DEF Harmless
      <3>. QED BY <1>7, <3>1, <3>2, <3>3 DEF IInv, GoneIsCondemned
    <2>. QED BY <2>1, <2>2
  <1>9. DeletionIsFinal' BY DEF DeletionIsFinal, Harmless
  <1>10. Released'
    <2>. SUFFICES ASSUME NEW n \in Machines
                  PROVE  /\ at'[n].phase \in {"dIp", "dFinal"} => AllGone(n)'
                         /\ "removed" \in Finalizers(n)' => AllGone(n)' /\ Condemned(n)'
      BY DEF Released
    <2>1. AllGone(n) => AllGone(n)' BY <1>1 DEF AllGone, Same
    <2>2. at[n].phase = "dFinal" => AllGone(n) /\ Condemned(n)
      BY DEF IInv, Released, DeletionIsFinal, Condemned, Deleting
    <2>3. "removed" \in Finalizers(n) => AllGone(n) /\ Condemned(n) BY DEF IInv, Released
    <2>. QED BY <1>7, <2>1, <2>2, <2>3 DEF Harmless
  <1>11. VmAtHand' BY <1>1 DEF VmAtHand, Harmless, Same
  <1>12. BackendsBalanced'
    <2>. SUFFICES ASSUME NEW i \in cloud'.backends
                  PROVE  \E w \in cloud'.vms : w.id = i /\ w.m \in Balanced /\ Live(w)
      BY DEF BackendsBalanced
    <2>1. \E v \in cloud.vms : v.id = i /\ v.m \in Balanced /\ Live(v)
      <3>1. CASE i \in cloud.backends BY <3>1 DEF IInv, BackendsBalanced
      <3>2. ASSUME NEW k \in Machines, at[k].phase = "lb", mem[k].vm = i
            PROVE  \E v \in cloud.vms : v.id = i /\ v.m \in Balanced /\ Live(v)
        <4>1. PICK v \in VmsOf(k) : v.id = i /\ k \in Balanced BY <3>2 DEF IInv, VmAtHand
        <4>2. ~Condemned(k) BY <3>2 DEF Condemned, Deleting, Between
        <4>. QED BY <4>1, <4>2 DEF IInv, GoneIsCondemned, VmsOf
      <3>. QED BY <3>1, <3>2 DEF BackendsKept
    <2>. QED BY <2>1 DEF Alike, Same
  <1>. QED BY <1>2, <1>3, <1>4, <1>5, <1>6, <1>8, <1>9, <1>10, <1>11, <1>12 DEF IInv
--------------------------------------------------------------------------------------
(* Steps of the pass over m: where it goes and what its scope becomes. *)
Fits(m, a, o) ==
  /\ o.vm = 0 \/ o.vm \in Names(m) \/ \E v \in VmsOf(m) : v.id = o.vm
  /\ o.fin = "removed" => "removed" \in Finalizers(m) \/ at[m].phase = "dFinal"
  /\ Condemned(m) => a.phase \in Deleting \cup Between
  /\ a.phase \in Building => VmsOf(m) = {}
  /\ a.phase \in Deleting => cache[m].del
  /\ a.phase \in {"dIp", "dFinal"} => AllGone(m)
  /\ a.phase \in {"dUnlink", "dDelete"} => o.vm # 0
  /\ a.phase = "lb" => m \in Balanced /\ \E v \in VmsOf(m) : v.id = o.vm
  /\ a.phase = "dDelete" => o.vm \notin cloud'.backends

LEMMA PassStep ==
  ASSUME IInv, TypeInv', Alike, BackendsKept, NEW m \in Machines, NEW a, NEW o,
         at' = [at EXCEPT ![m] = a], mem' = [mem EXCEPT ![m] = o], UNCHANGED <<obj, cache, old>>,
         Fits(m, a, o)
  PROVE  IInv'
  <1>1. at'[m] = a /\ mem'[m] = o BY DEF IInv, TypeInv, TypeOK
  <1>2. ASSUME NEW n \in Machines, n # m PROVE Harmless(n)
    <2>1. at'[n] = at[n] /\ mem'[n] = mem[n] BY <1>2 DEF IInv, TypeInv, TypeOK
    <2>. QED BY <2>1, OthersHarmless
  <1>3. Harmless(m)
    <2>1. /\ \A i \in Names(m)' : i \in Names(m) \/ i = o.vm
          /\ "removed" \in Finalizers(m)' => "removed" \in Finalizers(m) \/ o.fin = "removed"
      BY <1>1 DEF Names, Finalizers
    <2>2. cache[m].del => obj[m].del BY DEF IInv, DeletionIsFinal
    <2>. QED BY <1>1, <2>1, <2>2 DEF Harmless, Fits
  <1>. QED BY <1>2, <1>3, HarmlessStep

(* Requests that leave the VMs alone. *)
LEMMA VmsUntouched ==
  ASSUME IInv, cloud'.vms = cloud.vms, cloud'.next >= cloud.next
  PROVE  Alike
  BY DEF Alike, Same, IInv, FreshIds

LEMMA CloudUntouched ==
  ASSUME IInv, cloud' = cloud
  PROVE  Alike /\ BackendsKept
  <1>1. cloud.next >= cloud.next BY DEF IInv, TypeInv, TypeOK, Cloud, Id
  <1>. QED BY <1>1, VmsUntouched DEF BackendsKept

LEMMA ContinueStep ==
  ASSUME IInv, TypeInv', NEW m \in Machines, NEW a, NEW o, Continue(m, a, o),
         cloud' = cloud => Fits(m, a, o)
  PROVE  IInv'
  <1>1. /\ at' = [at EXCEPT ![m] = a] /\ mem' = [mem EXCEPT ![m] = o]
        /\ UNCHANGED <<obj, cache, old>> /\ cloud' = cloud
    BY DEF Continue
  <1>. QED BY <1>1, CloudUntouched, PassStep

LEMMA PatchFits ==
  ASSUME NEW m \in Machines, NEW o, o.vm = mem[m].vm, o.fin = mem[m].fin
  PROVE  Fits(m, Start("patch"), o)
  BY DEF Fits, Start, Names, Finalizers, Building, Deleting, Between

LEMMA CallStep ==
  ASSUME IInv, TypeInv', NEW m \in Machines, NEW after, NEW a, NEW seen, NEW o,
         Call(m, after, a, seen, o),
         seen.vm = mem[m].vm, seen.fin = mem[m].fin,
         cloud' = after => Alike /\ BackendsKept /\ Fits(m, a, o)
  PROVE  IInv'
  <1>1. UNCHANGED <<obj, cache, old>> BY DEF Call
  <1>2. CASE cloud' = after /\ at' = [at EXCEPT ![m] = a] /\ mem' = [mem EXCEPT ![m] = o]
    BY <1>1, <1>2, PassStep
  <1>3. CASE cloud' \in {after, cloud} /\ at' = [at EXCEPT ![m] = Start("patch")] /\ mem' = [mem EXCEPT ![m] = seen]
    <2>1. Alike /\ BackendsKept BY <1>3, CloudUntouched
    <2>. QED BY <1>1, <1>3, <2>1, PatchFits, PassStep
  <1>. QED BY <1>2, <1>3 DEF Call

LEMMA EndPassStep ==
  ASSUME IInv, TypeInv', NEW m \in Machines, NEW o, EndPass(m, o), o.vm = mem[m].vm, o.fin = mem[m].fin
  PROVE  IInv'
  BY PatchFits, ContinueStep DEF EndPass

(* Lookups: the VM that is found is the machine's, and none is found only  *)
(* if there is none.                                                       *)
LEMMA FoundIsOwn ==
  ASSUME IInv, NEW m \in Machines
  PROVE  /\ FoundVms(m) \subseteq VmsOf(m)
         /\ FoundVms(m) = {} => VmsOf(m) = {}
  <1>1. FoundVms(m) \subseteq VmsOf(m) BY DEF FoundVms, VmsOf, Names, IInv, OwnVms
  <1>2. ASSUME FoundVms(m) = {}, NEW v \in VmsOf(m) PROVE FALSE
    <2>1. v \in cloud.vms /\ v.m = m BY DEF VmsOf
    <2>2. mem[m].vm \in {0, v.id} BY <2>1 DEF IInv, NamesAgree, Names
    <2>. QED BY <1>2, <2>1, <2>2 DEF FoundVms
  <1>. QED BY <1>1, <1>2
--------------------------------------------------------------------------------------
(* The actions, one by one. *)
LEMMA LookupStep ==
  ASSUME IInv, TypeInv', NEW m \in Machines, Lookup(m)
  PROVE  IInv'
  <1>1. CASE EndPass(m, mem[m]) BY <1>1, EndPassStep
  <1>2. CASE ~EndPass(m, mem[m])
    <2>1. PICK g \in FoundGpus(m) :
            LET o == [mem[m] EXCEPT !.gpu = IF g.id = 0 THEN @ ELSE g.id]
            IN \/ /\ FoundVms(m) = {}
                  /\ Continue(m, [Start("place") EXCEPT !.gpu = g.id], o)
               \/ \E v \in FoundVms(m) :
                    LET p == AfterLookup(m, v, g)
                    IN Continue(m, Start(p), [Tracked(o, v) EXCEPT !.ready = @ \/ p \in {"lb", "tags"}])
      BY <1>2 DEF Lookup
    <2>. DEFINE o == [mem[m] EXCEPT !.gpu = IF g.id = 0 THEN @ ELSE g.id]
    <2>2. o.vm = mem[m].vm /\ o.fin = mem[m].fin
      BY DEF IInv, TypeInv, TypeOK, OscMachine
    <2>3. at[m].phase = "vm" /\ ~Condemned(m) BY DEF Lookup, Condemned, Deleting, Between
    <2>4. CASE FoundVms(m) = {} /\ Continue(m, [Start("place") EXCEPT !.gpu = g.id], o)
      <3>1. [Start("place") EXCEPT !.gpu = g.id].phase = "place" BY DEF Start
      <3>2. VmsOf(m) = {} BY <2>4, FoundIsOwn
      <3>. HIDE DEF o
      <3>3. Fits(m, [Start("place") EXCEPT !.gpu = g.id], o)
        BY <2>2, <2>3, <3>1, <3>2 DEF Fits, Names, Finalizers, Building, Deleting, Between
      <3>. QED BY <2>4, <3>3, ContinueStep
    <2>5. ASSUME NEW v \in FoundVms(m),
                 Continue(m, Start(AfterLookup(m, v, g)),
                   [Tracked(o, v) EXCEPT !.ready = @ \/ AfterLookup(m, v, g) \in {"lb", "tags"}])
          PROVE  IInv'
      <3>. DEFINE p == AfterLookup(m, v, g)
                  q == [Tracked(o, v) EXCEPT !.ready = @ \/ p \in {"lb", "tags"}]
      <3>1. p \in {"gpuLink", "start", "tags", "patch"} \/ (p = "lb" /\ m \in Balanced)
        BY DEF AfterLookup
      <3>2. q.vm = v.id /\ q.fin = mem[m].fin
        <4>. HIDE DEF p
        <4>. QED BY DEF Tracked, IInv, TypeInv, TypeOK, OscMachine
      <3>3. v \in VmsOf(m) BY FoundIsOwn
      <3>4. Start(p).phase = p BY DEF Start
      <3>. HIDE DEF p, q, o
      <3>5. Fits(m, Start(p), q)
        BY <2>3, <3>1, <3>2, <3>3, <3>4 DEF Fits, Names, Finalizers, Building, Deleting, Between
      <3>6. Continue(m, Start(p), q) BY <2>5 DEF p, q
      <3>. QED BY <3>5, <3>6, ContinueStep
    <2>. QED BY <2>1, <2>4, <2>5
  <1>. QED BY <1>1, <1>2 DEF Lookup

LEMMA PlaceStep ==
  ASSUME IInv, TypeInv', NEW m \in Machines, Place(m)
  PROVE  IInv'
  <1>1. PICK a : at' = [at EXCEPT ![m] = a] /\ a.phase \in {"patch", "gpu"}
    <2>1. PICK z : at' = [at EXCEPT ![m] = IF z \notin AZs THEN Start("patch")
                                           ELSE [@ EXCEPT !.phase = "gpu", !.az = z]]
      BY DEF Place
    <2>. DEFINE b == IF z \notin AZs THEN Start("patch") ELSE [at[m] EXCEPT !.phase = "gpu", !.az = z]
    <2>2. at' = [at EXCEPT ![m] = b] BY <2>1
    <2>3. b.phase \in {"patch", "gpu"} BY DEF IInv, TypeInv, TypeOK, Position, Start
    <2>. HIDE DEF b
    <2>. QED BY <2>2, <2>3
  <1>2. at[m].phase = "place" /\ UNCHANGED <<cloud, obj, cache, old, mem>> BY DEF Place
  <1>3. mem' = [mem EXCEPT ![m] = mem[m]] BY <1>2 DEF IInv, TypeInv, TypeOK
  <1>4. VmsOf(m) = {} /\ ~Condemned(m)
    BY <1>2 DEF IInv, NoVmYet, Building, Condemned, Deleting, Between
  <1>5. Fits(m, a, mem[m])
    BY <1>1, <1>4 DEF Fits, Names, Finalizers, Building, Deleting, Between
  <1>. QED BY <1>1, <1>2, <1>3, <1>5, CloudUntouched, PassStep

(* The phases of the allocations: the VMs stay as they are. *)
LEMMA AllocatedAlike ==
  ASSUME IInv, NEW m, NEW az, NEW i,
         cloud' \in {GpuCreated(m, az), GpuTagged(i), GpuLinked(i), IpCreated, IpDeleted(i)}
  PROVE  Alike /\ BackendsKept /\ cloud'.vms = cloud.vms /\ cloud'.backends = cloud.backends
  <1>1. cloud.next \in Nat BY DEF IInv, TypeInv, TypeOK, Cloud, Id
  <1>2. /\ cloud'.vms = cloud.vms /\ cloud'.backends = cloud.backends
        /\ cloud'.next \in {cloud.next, cloud.next + 1}
    BY DEF IInv, TypeInv, TypeOK, Cloud, Id, GpuCreated, GpuTagged, GpuLinked, IpCreated, IpDeleted
  <1>. QED BY <1>1, <1>2, VmsUntouched DEF BackendsKept

LEMMA AllocationStep ==
  ASSUME IInv, TypeInv', NEW m \in Machines, AllocateFGPU(m) \/ TagFGPU(m) \/ AllocateIP(m) \/ LinkFGPU(m)
  PROVE  IInv'
  <1>2. ASSUME NEW az, NEW i, cloud' \in {GpuCreated(m, az), GpuTagged(i), GpuLinked(i), IpCreated}
        PROVE  Alike /\ BackendsKept
    BY <1>2, AllocatedAlike
  <1>3. ASSUME NEW a, a.phase \in {"gpuTag", "ip", "create"}, at[m].phase \in Building, NEW o,
               o.vm = mem[m].vm, o.fin = mem[m].fin
        PROVE  Fits(m, a, o)
    <2>1. VmsOf(m) = {} /\ ~Condemned(m)
      BY <1>3 DEF IInv, NoVmYet, Building, Condemned, Deleting, Between
    <2>. QED BY <1>3, <2>1 DEF Fits, Names, Finalizers, Building, Deleting, Between
  <1>4. /\ \A p : To(m, p).phase = p
        /\ \A i : [To(m, "gpuTag") EXCEPT !.gpu = i].phase = "gpuTag"
    BY DEF To, IInv, TypeInv, TypeOK, Position
  <1>5. CASE AllocateFGPU(m)
    <2>1. at[m].phase \in Building BY <1>5 DEF AllocateFGPU, Building
    <2>2. CASE Continue(m, To(m, "ip"), mem[m]) BY <1>3, <1>4, <2>1, <2>2, ContinueStep
    <2>3. CASE EndPass(m, mem[m]) BY <2>3, EndPassStep
    <2>4. CASE Call(m, GpuCreated(m, at[m].az), [To(m, "gpuTag") EXCEPT !.gpu = cloud.next], mem[m], mem[m])
      <3>. DEFINE a == [To(m, "gpuTag") EXCEPT !.gpu = cloud.next]
                  after == GpuCreated(m, at[m].az)
      <3>1. a.phase = "gpuTag" BY <1>4
      <3>4. cloud' = after => Alike /\ BackendsKept BY <1>2
      <3>. HIDE DEF a, after
      <3>3. Fits(m, a, mem[m]) BY <1>3, <2>1, <3>1
      <3>5. Call(m, after, a, mem[m], mem[m]) BY <2>4 DEF a, after
      <3>. QED BY <3>3, <3>4, <3>5, CallStep
    <2>. QED BY <1>5, <2>2, <2>3, <2>4 DEF AllocateFGPU
  <1>6. CASE TagFGPU(m)
    <2>1. at[m].phase \in Building BY <1>6 DEF TagFGPU, Building
    <2>. QED BY <1>2, <1>3, <1>4, <1>6, <2>1, CallStep DEF TagFGPU
  <1>7. CASE AllocateIP(m)
    <2>1. at[m].phase \in Building BY <1>7 DEF AllocateIP, Building
    <2>. DEFINE o == [mem[m] EXCEPT !.ip = cloud.next]
    <2>2. o.vm = mem[m].vm /\ o.fin = mem[m].fin BY DEF IInv, TypeInv, TypeOK, OscMachine
    <2>3. CASE Continue(m, To(m, "create"), mem[m]) BY <1>3, <1>4, <2>1, <2>3, ContinueStep
    <2>4. CASE Call(m, IpCreated, To(m, "create"), mem[m], o)
      <3>. HIDE DEF o
      <3>. QED BY <1>2, <1>3, <1>4, <2>1, <2>2, <2>4, CallStep
    <2>. QED BY <1>7, <2>3, <2>4 DEF AllocateIP
  <1>8. CASE LinkFGPU(m)
    <2>1. Call(m, GpuLinked(mem[m].gpu), Start("patch"), mem[m], mem[m]) BY <1>8 DEF LinkFGPU
    <2>. QED BY <1>2, <2>1, PatchFits, CallStep
  <1>. QED BY <1>5, <1>6, <1>7, <1>8

(* A new VM: there is none, and no copy of the object names one. *)
LEMMA CreateVmStep ==
  ASSUME IInv, TypeInv', NEW m \in Machines, CreateVm(m)
  PROVE  IInv'
  <1>1. at[m].phase = "create" BY DEF CreateVm
  <1>2. VmsOf(m) = {} /\ ~Condemned(m) /\ Names(m) = {0}
    BY <1>1 DEF IInv, NoVmYet, GoneIsCondemned, Building, Condemned, Deleting, Between
  <1>3. "removed" \notin Finalizers(m) BY <1>2 DEF IInv, Released
  <1>. DEFINE v == [id |-> cloud.next, m |-> m, az |-> at[m].az, state |-> "pending",
                    ip |-> IF m \in PublicIp THEN mem[m].ip ELSE 0,
                    attached |-> FALSE, boot |-> m \notin GPU, ccm |-> FALSE]
              after == [cloud EXCEPT !.next = @ + 1, !.vms = @ \cup {v}]
              o == [mem[m] EXCEPT !.vm = cloud.next, !.pid = cloud.next]
  <1>4. Call(m, after, Start("patch"), mem[m], o) BY DEF CreateVm, VmCreated
  <1>5. o.vm = cloud.next /\ o.fin = mem[m].fin BY DEF IInv, TypeInv, TypeOK, OscMachine
  <1>6. v.id = cloud.next /\ v.m = m /\ Live(v) BY DEF Live
  <1>7. /\ after.vms = cloud.vms \cup {v} /\ after.next = cloud.next + 1
        /\ after.backends = cloud.backends
    <2>. HIDE DEF v
    <2>. QED BY DEF IInv, TypeInv, TypeOK, Cloud
  <1>. HIDE DEF v, after, o
  <1>8. CASE cloud' = cloud /\ at' = [at EXCEPT ![m] = Start("patch")] /\ mem' = [mem EXCEPT ![m] = mem[m]]
    <2>1. UNCHANGED <<obj, cache, old>> BY <1>4 DEF Call
    <2>. QED BY <1>8, <2>1, CloudUntouched, PatchFits, PassStep
  <1>9. ASSUME cloud' = after, NEW q, q.vm \in {0, cloud.next}, q.fin = mem[m].fin,
               at' = [at EXCEPT ![m] = Start("patch")], mem' = [mem EXCEPT ![m] = q],
               UNCHANGED <<obj, cache, old>>
        PROVE  IInv'
    <2>1. /\ at'[m].phase = "patch" /\ mem'[m] = q
          /\ \A n \in Machines : n # m => at'[n] = at[n] /\ mem'[n] = mem[n]
      BY <1>9 DEF IInv, TypeInv, TypeOK, Start
    <2>2. \A n \in Machines : n # m => VmsOf(n)' = VmsOf(n) BY <1>6, <1>7, <1>9 DEF VmsOf
    <2>3. VmsOf(m)' = {v} BY <1>2, <1>6, <1>7, <1>9 DEF VmsOf
    <2>4. /\ \A n \in Machines : n # m => Names(n)' = Names(n) /\ Finalizers(n)' = Finalizers(n)
          /\ Names(m)' \subseteq {0, cloud.next} /\ Finalizers(m)' = Finalizers(m)
      BY <1>2, <1>9, <2>1 DEF Names, Finalizers
    <2>5. cloud.next \in Nat BY DEF IInv, TypeInv, TypeOK, Cloud, Id
    <2>6. \A w \in cloud.vms : w.id \in Nat /\ w.id # cloud.next
      BY <2>5, CloudParts DEF IInv, TypeInv, TypeOK, Vm, Id, FreshIds
    <2>7. OneVm' BY <1>2, <1>6, <1>7, <1>9 DEF IInv, OneVm, VmsOf
    <2>8. FreshIds'
      <3>1. \A n \in Machines : \A i \in Names(n) : i \in Nat
        BY DEF Names, IInv, TypeInv, TypeOK, OscMachine, Id
      <3>2. \A n \in Machines : \A i \in Names(n)' : i < cloud.next + 1
        BY <2>4, <2>5, <3>1 DEF IInv, FreshIds
      <3>3. \A w \in cloud'.vms : 0 < w.id /\ w.id < cloud.next + 1
        BY <1>6, <1>7, <1>9, <2>5, <2>6 DEF IInv, FreshIds
      <3>4. \A u, w \in cloud'.vms : u.id = w.id => u = w
        BY <1>6, <1>7, <1>9, <2>6 DEF IInv, FreshIds
      <3>. QED BY <1>7, <1>9, <2>5, <3>2, <3>3, <3>4 DEF FreshIds
    <2>9. OwnVms'
      <3>. SUFFICES ASSUME NEW w \in cloud'.vms, NEW n \in Machines, w.id \in Names(n)' PROVE w.m = n
        BY DEF OwnVms
      <3>1. CASE w = v
        <4>1. \A k \in Machines : cloud.next \notin Names(k) BY <2>5 DEF IInv, FreshIds
        <4>. QED BY <1>6, <2>4, <3>1, <4>1
      <3>2. CASE w \in cloud.vms
        <4>1. w.id # 0 /\ w.id # cloud.next BY <2>6, <3>2 DEF IInv, FreshIds
        <4>2. n # m BY <2>4, <4>1
        <4>. QED BY <2>4, <3>2, <4>2 DEF IInv, OwnVms
      <3>. QED BY <1>7, <1>9, <3>1, <3>2
    <2>10. NamesAgree'
      <3>1. \A w \in cloud.vms : w.m # m /\ w.m \in Machines
        BY <1>2, CloudParts DEF VmsOf, IInv, TypeInv, TypeOK, Vm
      <3>. QED BY <1>6, <1>7, <1>9, <2>4, <3>1 DEF IInv, NamesAgree
    <2>11. NoVmYet' BY <2>1, <2>2 DEF IInv, NoVmYet, Building
    <2>12. \A n \in Machines : n # m => (Condemned(n)' <=> Condemned(n))
      BY <1>9, <2>1 DEF Condemned
    <2>13. GoneIsCondemned' BY <1>6, <2>2, <2>3, <2>4, <2>12 DEF IInv, GoneIsCondemned
    <2>14. DeletionIsFinal' BY <1>9, <2>1 DEF IInv, DeletionIsFinal, Deleting
    <2>15. Released'
      <3>1. \A n \in Machines : n # m => (AllGone(n)' <=> AllGone(n)) BY <2>2 DEF AllGone
      <3>. QED BY <1>3, <2>1, <2>4, <2>12, <3>1 DEF IInv, Released
    <2>16. VmAtHand' BY <1>7, <1>9, <2>1, <2>2 DEF IInv, VmAtHand
    <2>17. BackendsBalanced' BY <1>7, <1>9 DEF IInv, BackendsBalanced
    <2>. QED BY <2>7, <2>8, <2>9, <2>10, <2>11, <2>13, <2>14, <2>15, <2>16, <2>17 DEF IInv
  <1>10. mem[m].vm = 0 BY <1>2 DEF Names
  <1>11. UNCHANGED <<obj, cache, old>> BY <1>4 DEF Call
  <1>. QED BY <1>4, <1>5, <1>8, <1>9, <1>10, <1>11 DEF Call

(* Changing VMs in a way that keeps their liveness. *)
LEMMA ChangedAlike ==
  ASSUME IInv, NEW f, cloud'.next = cloud.next,
         \A w \in cloud'.vms : \E v \in cloud.vms : w = f[v],
         \A v \in cloud.vms : f[v] \in cloud'.vms /\ Same(v, f[v])
  PROVE  Alike
  <1>1. \A v \in cloud.vms : \E w \in cloud'.vms : Same(v, w) OBVIOUS
  <1>2. \A w \in cloud'.vms : \E v \in cloud.vms : Same(v, w) OBVIOUS
  <1>3. ASSUME NEW u \in cloud'.vms, NEW w \in cloud'.vms, u.id = w.id PROVE u = w
    <2>1. PICK x \in cloud.vms : u = f[x] OBVIOUS
    <2>2. PICK y \in cloud.vms : w = f[y] OBVIOUS
    <2>3. u.id = x.id /\ w.id = y.id BY <2>1, <2>2 DEF Same
    <2>4. x = y BY <1>3, <2>3 DEF IInv, FreshIds
    <2>. QED BY <2>1, <2>2, <2>4
  <1>4. cloud.next >= cloud.next BY DEF IInv, TypeInv, TypeOK, Cloud, Id
  <1>. QED BY <1>1, <1>2, <1>3, <1>4 DEF Alike

LEMMA StartedAlike ==
  ASSUME IInv, NEW m \in Machines, at[m].phase = "start", cloud' = VmStarted(mem[m].vm)
  PROVE  Alike /\ cloud'.backends = cloud.backends
  <1>1. /\ cloud'.vms = {IF v.id = mem[m].vm THEN [v EXCEPT !.state = "pending", !.boot = TRUE] ELSE v :
                           v \in cloud.vms}
        /\ cloud'.next = cloud.next /\ cloud'.backends = cloud.backends
    BY DEF VmStarted, IInv, TypeInv, TypeOK, Cloud
  <1>2. ASSUME NEW v \in cloud.vms, v.id = mem[m].vm
        PROVE  Same(v, [v EXCEPT !.state = "pending", !.boot = TRUE])
    <2>1. v.m = m BY <1>2 DEF IInv, OwnVms, Names
    <2>2. Live(v) BY <2>1 DEF IInv, GoneIsCondemned, VmsOf, Condemned, Deleting, Between
    <2>3. v \in Vm BY CloudParts DEF IInv, TypeInv, TypeOK
    <2>. QED BY <2>2, <2>3 DEF Same, Live, Vm
  <1>. DEFINE f == [v \in cloud.vms |-> IF v.id = mem[m].vm
                                        THEN [v EXCEPT !.state = "pending", !.boot = TRUE] ELSE v]
  <1>3. \A w \in cloud'.vms : \E v \in cloud.vms : w = f[v] BY <1>1
  <1>4. \A v \in cloud.vms : f[v] \in cloud'.vms /\ Same(v, f[v]) BY <1>1, <1>2 DEF Same
  <1>. HIDE DEF f
  <1>. QED BY <1>1, <1>3, <1>4, ChangedAlike

LEMMA TaggedAlike ==
  ASSUME IInv, NEW i, cloud' = VmTagged(i)
  PROVE  Alike /\ cloud'.backends = cloud.backends
  <1>1. /\ cloud'.vms = {IF x.id = i THEN [x EXCEPT !.ccm = TRUE] ELSE x : x \in cloud.vms}
        /\ cloud'.next = cloud.next /\ cloud'.backends = cloud.backends
    BY DEF VmTagged, IInv, TypeInv, TypeOK, Cloud
  <1>2. \A x \in cloud.vms : Same(x, [x EXCEPT !.ccm = TRUE])
    BY CloudParts DEF Same, Live, Vm, IInv, TypeInv, TypeOK
  <1>. DEFINE f == [x \in cloud.vms |-> IF x.id = i THEN [x EXCEPT !.ccm = TRUE] ELSE x]
  <1>3. \A w \in cloud'.vms : \E x \in cloud.vms : w = f[x] BY <1>1
  <1>4. \A x \in cloud.vms : f[x] \in cloud'.vms /\ Same(x, f[x]) BY <1>1, <1>2 DEF Same
  <1>. HIDE DEF f
  <1>. QED BY <1>1, <1>3, <1>4, ChangedAlike

LEMMA FinishingSteps ==
  ASSUME IInv, TypeInv', NEW m \in Machines, StartVm(m) \/ LinkBackend(m) \/ Finish(m)
  PROVE  IInv'
  <1>1. cloud.next \in Nat /\ mem[m] \in OscMachine BY DEF IInv, TypeInv, TypeOK, Cloud, Id
  <1>2. CASE StartVm(m)
    <2>1. at[m].phase = "start" /\ Call(m, VmStarted(mem[m].vm), Start("patch"), mem[m], mem[m])
      BY <1>2 DEF StartVm
    <2>2. cloud' = VmStarted(mem[m].vm) => Alike /\ BackendsKept BY <2>1, StartedAlike DEF BackendsKept
    <2>. QED BY <2>1, <2>2, PatchFits, CallStep
  <1>3. CASE LinkBackend(m)
    <2>1. at[m].phase = "lb" BY <1>3 DEF LinkBackend
    <2>2. Fits(m, Start("tags"), mem[m])
      BY <2>1 DEF Fits, Start, Names, Finalizers, Condemned, Building, Deleting, Between
    <2>3. CASE Continue(m, Start("tags"), mem[m]) BY <2>2, <2>3, ContinueStep
    <2>4. CASE Call(m, BackendLinked(mem[m].vm), Start("tags"), mem[m], mem[m])
      <3>1. ASSUME cloud' = BackendLinked(mem[m].vm) PROVE Alike /\ BackendsKept
        <4>1. /\ cloud'.vms = cloud.vms /\ cloud'.next = cloud.next
              /\ cloud'.backends = cloud.backends \cup {mem[m].vm}
          BY <3>1 DEF BackendLinked, IInv, TypeInv, TypeOK, Cloud
        <4>. QED BY <1>1, <2>1, <4>1, VmsUntouched DEF BackendsKept
      <3>. QED BY <2>2, <2>4, <3>1, CallStep
    <2>. QED BY <1>3, <2>3, <2>4 DEF LinkBackend
  <1>4. CASE Finish(m)
    <2>1. PICK v \in cloud.vms :
            LET seen == [mem[m] EXCEPT !.fd = v.az]
                o == [seen EXCEPT !.rec = mem[m].gen]
            IN IF v.ccm THEN EndPass(m, o) ELSE Call(m, VmTagged(v.id), Start("patch"), seen, o)
      BY <1>4 DEF Finish
    <2>. DEFINE seen == [mem[m] EXCEPT !.fd = v.az]
                o == [seen EXCEPT !.rec = mem[m].gen]
    <2>2. seen.vm = mem[m].vm /\ seen.fin = mem[m].fin /\ o.vm = mem[m].vm /\ o.fin = mem[m].fin
      BY <1>1 DEF OscMachine
    <2>3. IF v.ccm THEN EndPass(m, o) ELSE Call(m, VmTagged(v.id), Start("patch"), seen, o) BY <2>1
    <2>. HIDE DEF seen, o
    <2>4. cloud' = VmTagged(v.id) => Alike /\ BackendsKept BY TaggedAlike DEF BackendsKept
    <2>. QED BY <2>2, <2>3, <2>4, EndPassStep, PatchFits, CallStep
  <1>. QED BY <1>2, <1>3, <1>4

(* The deletion. *)
LEMMA DeletionSteps ==
  ASSUME IInv, TypeInv', NEW m \in Machines,
         LookupDeletedVm(m) \/ UnlinkBackend(m) \/ DeletePublicIp(m) \/ RemoveFinalizer(m)
  PROVE  IInv'
  <1>1. cloud.next \in Nat /\ mem[m] \in OscMachine BY DEF IInv, TypeInv, TypeOK, Cloud, Id
  <1>2. cache[m].del
    BY DEF LookupDeletedVm, UnlinkBackend, DeletePublicIp, RemoveFinalizer, IInv, DeletionIsFinal, Deleting
  <1>3. \A p : Start(p).phase = p BY DEF Start
  <1>4. CASE LookupDeletedVm(m)
    <2>1. CASE FoundVms(m) = {} /\ Continue(m, Start("dIp"), mem[m])
      <3>1. AllGone(m) BY <2>1, FoundIsOwn DEF AllGone
      <3>2. Fits(m, Start("dIp"), mem[m])
        BY <1>2, <1>3, <3>1 DEF Fits, Names, Finalizers, Building, Deleting, Between
      <3>. QED BY <2>1, <3>2, ContinueStep
    <2>2. ASSUME NEW v \in FoundVms(m), NEW p,
                 p = IF v.state = "terminated" THEN "dIp"
                     ELSE IF m \in Balanced /\ v.id \in cloud.backends THEN "dUnlink"
                     ELSE "dDelete",
                 Continue(m, Start(p), Tracked(mem[m], v))
          PROVE  IInv'
      <3>1. v \in VmsOf(m) /\ v \in cloud.vms /\ v.m = m BY FoundIsOwn DEF VmsOf
      <3>2. v.id # 0 BY <3>1 DEF IInv, FreshIds
      <3>3. Tracked(mem[m], v).vm = v.id /\ Tracked(mem[m], v).fin = mem[m].fin
        BY <1>1 DEF Tracked, OscMachine
      <3>4. p = "dIp" => AllGone(m)
        BY <2>2, <3>1 DEF AllGone, Live, VmsOf, IInv, OneVm
      <3>5. p = "dDelete" => v.id \notin cloud.backends
        BY <2>2, <3>1 DEF IInv, BackendsBalanced, FreshIds
      <3>6. p \in {"dIp", "dUnlink", "dDelete"} BY <2>2
      <3>7. cloud' = cloud BY <2>2 DEF Continue
      <3>8. Fits(m, Start(p), Tracked(mem[m], v))
        BY <1>2, <1>3, <3>1, <3>2, <3>3, <3>4, <3>5, <3>6, <3>7
           DEF Fits, Names, Finalizers, Building, Deleting, Between
      <3>. QED BY <2>2, <3>8, ContinueStep
    <2>. QED BY <1>4, <2>1, <2>2 DEF LookupDeletedVm
  <1>5. CASE UnlinkBackend(m)
    <2>1. Call(m, BackendUnlinked(mem[m].vm), Start("dDelete"), mem[m], mem[m]) BY <1>5 DEF UnlinkBackend
    <2>2. mem[m].vm # 0 BY <1>5 DEF UnlinkBackend, IInv, VmAtHand
    <2>3. ASSUME cloud' = BackendUnlinked(mem[m].vm)
          PROVE  Alike /\ BackendsKept /\ Fits(m, Start("dDelete"), mem[m])
      <3>1. /\ cloud'.vms = cloud.vms /\ cloud'.next = cloud.next
            /\ cloud'.backends = cloud.backends \ {mem[m].vm}
        BY <2>3 DEF BackendUnlinked, IInv, TypeInv, TypeOK, Cloud
      <3>2. Alike /\ BackendsKept BY <1>1, <3>1, VmsUntouched DEF BackendsKept
      <3>. QED BY <1>2, <1>3, <2>2, <3>1, <3>2 DEF Fits, Names, Finalizers, Building, Deleting, Between
    <2>. QED BY <2>1, <2>3, CallStep
  <1>6. CASE DeletePublicIp(m)
    <2>. DEFINE done == [mem[m] EXCEPT !.ip = 0]
    <2>1. done.vm = mem[m].vm /\ done.fin = mem[m].fin BY <1>1 DEF OscMachine
    <2>2. AllGone(m) BY <1>6 DEF DeletePublicIp, IInv, Released
    <2>3. \/ Continue(m, Start("dFinal"), done) \/ EndPass(m, mem[m])
          \/ Call(m, IpDeleted(mem[m].ip), Start("dFinal"), mem[m], done)
      BY <1>6 DEF DeletePublicIp
    <2>. HIDE DEF done
    <2>4. Fits(m, Start("dFinal"), done)
      BY <1>2, <1>3, <2>1, <2>2 DEF Fits, Names, Finalizers, Building, Deleting, Between
    <2>5. cloud' = IpDeleted(mem[m].ip) => Alike /\ BackendsKept BY AllocatedAlike
    <2>. QED BY <2>3, <2>4, <2>5, ContinueStep, EndPassStep, CallStep
  <1>7. CASE RemoveFinalizer(m)
    <2>. DEFINE o == [mem[m] EXCEPT !.fin = "removed"]
    <2>1. o.vm = mem[m].vm BY <1>1 DEF OscMachine
    <2>2. at[m].phase = "dFinal" /\ Continue(m, Start("patch"), o) BY <1>7 DEF RemoveFinalizer, EndPass
    <2>. HIDE DEF o
    <2>3. Fits(m, Start("patch"), o)
      BY <1>3, <2>1, <2>2 DEF Fits, Names, Finalizers, Building, Deleting, Between
    <2>. QED BY <2>2, <2>3, ContinueStep
  <1>. QED BY <1>4, <1>5, <1>6, <1>7

(* The VM that goes is the machine's only one and serves no traffic. *)
LEMMA GoneStep ==
  ASSUME IInv, TypeInv', NEW m \in Machines, NEW g,
         mem[m].vm # 0, mem[m].vm \notin cloud.backends, cache[m].del,
         UNCHANGED <<obj, cache, old, mem>>,
         at'[m].phase \in {"dIp", "patch"}, \A n \in Machines : n # m => at'[n] = at[n],
         cloud'.next = cloud.next, cloud'.backends = cloud.backends,
         \A w \in cloud'.vms : \E v \in cloud.vms : w = g[v],
         \A v \in cloud.vms : /\ g[v] \in cloud'.vms /\ g[v].id = v.id /\ g[v].m = v.m
                              /\ v.id # mem[m].vm => g[v] = v
                              /\ v.id = mem[m].vm => ~Live(g[v])
  PROVE  IInv'
  <1>1. \A n \in Machines : Names(n)' = Names(n) /\ Finalizers(n)' = Finalizers(n)
    BY DEF Names, Finalizers
  <1>2. \A v \in cloud.vms : v.m = m <=> v.id = mem[m].vm
    BY DEF IInv, OwnVms, NamesAgree, Names
  <1>3. \A n \in Machines : n # m => VmsOf(n)' = VmsOf(n)
    <2>. SUFFICES ASSUME NEW n \in Machines, n # m PROVE VmsOf(n)' = VmsOf(n)
      OBVIOUS
    <2>1. \A v \in VmsOf(n) : v \in VmsOf(n)' BY <1>2 DEF VmsOf
    <2>2. \A w \in VmsOf(n)' : w \in VmsOf(n) BY <1>2 DEF VmsOf
    <2>. QED BY <2>1, <2>2
  <1>4. AllGone(m)' BY <1>2 DEF AllGone, VmsOf
  <1>5. OneVm' BY DEF IInv, OneVm
  <1>6. FreshIds' BY <1>1 DEF IInv, FreshIds
  <1>7. OwnVms' BY <1>1 DEF IInv, OwnVms
  <1>8. NamesAgree'
    <2>1. \A v \in cloud.vms : v.m \in Machines BY CloudParts DEF IInv, TypeInv, TypeOK, Vm
    <2>. QED BY <1>1, <2>1 DEF IInv, NamesAgree
  <1>9. NoVmYet' BY <1>3 DEF IInv, NoVmYet, Building
  <1>10. Condemned(m)' BY DEF Condemned, Deleting, Between
  <1>11. \A n \in Machines : n # m => (Condemned(n)' <=> Condemned(n)) BY DEF Condemned
  <1>12. GoneIsCondemned' BY <1>1, <1>3, <1>10, <1>11 DEF IInv, GoneIsCondemned
  <1>13. DeletionIsFinal' BY DEF IInv, DeletionIsFinal
  <1>14. Released'
    <2>1. \A n \in Machines : n # m => (AllGone(n)' <=> AllGone(n)) BY <1>3 DEF AllGone
    <2>. QED BY <1>1, <1>4, <1>10, <1>11, <2>1 DEF IInv, Released
  <1>15. VmAtHand' BY <1>3 DEF IInv, VmAtHand
  <1>16. BackendsBalanced'
    <2>. SUFFICES ASSUME NEW i \in cloud.backends
                  PROVE  \E w \in cloud'.vms : w.id = i /\ w.m \in Balanced /\ Live(w)
      BY DEF BackendsBalanced
    <2>1. PICK v \in cloud.vms : v.id = i /\ v.m \in Balanced /\ Live(v)
      BY DEF IInv, BackendsBalanced
    <2>2. g[v] = v BY <2>1
    <2>3. v \in cloud'.vms BY <2>2
    <2>. QED BY <2>1, <2>3
  <1>. QED BY <1>5, <1>6, <1>7, <1>8, <1>9, <1>12, <1>13, <1>14, <1>15, <1>16 DEF IInv

LEMMA DeleteVmStep ==
  ASSUME IInv, TypeInv', NEW m \in Machines, DeleteVm(m)
  PROVE  IInv'
  <1>1. at[m].phase = "dDelete" /\ Call(m, VmDeleted(mem[m].vm), Start("dIp"), mem[m], mem[m])
    BY DEF DeleteVm
  <1>2. mem[m].vm # 0 /\ mem[m].vm \notin cloud.backends /\ cache[m].del
    BY <1>1 DEF IInv, VmAtHand, DeletionIsFinal, Deleting
  <1>3. UNCHANGED <<obj, cache, old>> /\ mem' = mem BY <1>1 DEF Call, IInv, TypeInv, TypeOK
  <1>4. CASE cloud' = cloud /\ at' = [at EXCEPT ![m] = Start("patch")]
    <2>1. mem' = [mem EXCEPT ![m] = mem[m]] BY <1>3 DEF IInv, TypeInv, TypeOK
    <2>. QED BY <1>3, <1>4, <2>1, CloudUntouched, PatchFits, PassStep
  <1>5. ASSUME cloud' = VmDeleted(mem[m].vm), NEW p \in {"dIp", "patch"}, at' = [at EXCEPT ![m] = Start(p)]
        PROVE  IInv'
    <2>1. /\ at'[m].phase = p
          /\ \A n \in Machines : n # m => at'[n] = at[n]
      BY <1>5 DEF IInv, TypeInv, TypeOK, Start
    <2>. DEFINE f == [v \in cloud.vms |-> IF v.id = mem[m].vm /\ v.state # "terminated"
                                         THEN [v EXCEPT !.state = "shutting-down"] ELSE v]
    <2>2. cloud'.next = cloud.next /\ cloud'.backends = cloud.backends
      BY <1>5 DEF VmDeleted, IInv, TypeInv, TypeOK, Cloud
    <2>3. cloud'.vms = {IF v.id = mem[m].vm /\ v.state # "terminated"
                        THEN [v EXCEPT !.state = "shutting-down"] ELSE v : v \in cloud.vms}
      BY <1>5 DEF VmDeleted, IInv, TypeInv, TypeOK, Cloud
    <2>4. \A w \in cloud'.vms : \E v \in cloud.vms : w = f[v] BY <2>3
    <2>5. \A v \in cloud.vms : f[v] \in cloud'.vms BY <2>3
    <2>6. \A v \in cloud.vms : /\ f[v].id = v.id /\ f[v].m = v.m
                               /\ v.id # mem[m].vm => f[v] = v
                               /\ v.id = mem[m].vm => ~Live(f[v])
      BY CloudParts DEF Live, Vm, IInv, TypeInv, TypeOK
    <2>. HIDE DEF f
    <2>. QED BY <1>2, <1>3, <1>5, <2>1, <2>2, <2>4, <2>5, <2>6, GoneStep
  <1>. QED BY <1>1, <1>4, <1>5 DEF Call
--------------------------------------------------------------------------------------
(* The beginning and the end of a pass, the API server and the informer:   *)
(* copies are copied, and a finalizer or a name comes from another copy.   *)
LEMMA ScopeSteps ==
  ASSUME IInv, TypeInv', NEW m \in Machines,
         \/ Reconcile(m) \/ CloseObject(m) \/ CloseStatus(m) \/ LookupFails(m)
         \/ Sync(m) \/ Create(m) \/ Delete(m)
  PROVE  IInv'
  <1>1. cloud' = cloud
    BY DEF Reconcile, CloseObject, CloseStatus, LookupFails, Sync, Create, Delete, Patch, PassUnchanged
  <1>2. Alike /\ BackendsKept BY <1>1, CloudUntouched
  <1>3. ASSUME NEW n \in Machines, n # m PROVE Harmless(n)
    <2>1. obj'[n] = obj[n] /\ cache'[n] = cache[n] /\ old'[n] = old[n] /\ mem'[n] = mem[n] /\ at'[n] = at[n]
      BY <1>3 DEF Reconcile, CloseObject, CloseStatus, LookupFails, Sync, Create, Delete, Patch,
                  PassUnchanged, IInv, TypeInv, TypeOK
    <2>. QED BY <1>2, <2>1, OthersHarmless
  <1>4. NewOscMachine.vm = 0 /\ NewOscMachine.fin = "none" BY DEF NewOscMachine
  <1>5. \A p : Start(p).phase = p BY DEF Start
  <1>6. /\ obj[m] \in OscMachine /\ cache[m] \in OscMachine /\ old[m] \in OscMachine /\ mem[m] \in OscMachine
        /\ at[m] \in Position
    BY DEF IInv, TypeInv, TypeOK
  <1>7. cache[m].del => obj[m].del BY DEF IInv, DeletionIsFinal
  <1>8. Harmless(m)
    <2>1. CASE Reconcile(m)
      <3>1. /\ obj'[m] = obj[m] /\ cache'[m] = cache[m] /\ old'[m] = cache[m] /\ mem'[m].vm = cache[m].vm
            /\ mem'[m].fin \in {"set", cache[m].fin}
            /\ at'[m].phase = IF cache[m].del THEN "dVm" ELSE "vm"
        BY <1>5, <1>6, <2>1 DEF Reconcile, IInv, TypeInv, TypeOK, OscMachine
      <3>. QED BY <1>7, <3>1 DEF Harmless, Names, Finalizers, Condemned, Building, Deleting, Between
    <2>2. CASE CloseObject(m)
      <3>1. /\ cache'[m] = cache[m] /\ old'[m] = old[m] /\ mem'[m] = mem[m] /\ at'[m].phase = "status"
            /\ obj'[m] \in {obj[m], PatchedObject(m)}
        BY <1>5, <2>2 DEF CloseObject, Patch, IInv, TypeInv, TypeOK
      <3>2. /\ PatchedObject(m).vm = obj[m].vm /\ PatchedObject(m).del = obj[m].del
            /\ PatchedObject(m).fin \in {obj[m].fin, mem[m].fin}
        BY <1>6 DEF PatchedObject, Merge, OscMachine
      <3>. QED BY <1>7, <3>1, <3>2 DEF Harmless, Names, Finalizers, Building, Deleting, Between
    <2>3. CASE CloseStatus(m)
      <3>1. /\ cache'[m] = cache[m] /\ old'[m] = NewOscMachine /\ mem'[m] = NewOscMachine /\ at'[m].phase = "idle"
            /\ obj'[m] \in {obj[m], PatchedStatus(m)}
        BY <1>5, <2>3 DEF CloseStatus, Patch, IInv, TypeInv, TypeOK
      <3>2. /\ PatchedStatus(m).vm \in {obj[m].vm, mem[m].vm} /\ PatchedStatus(m).del = obj[m].del
            /\ PatchedStatus(m).fin = obj[m].fin
        BY <1>6 DEF PatchedStatus, Merge, OscMachine
      <3>. QED BY <1>4, <1>7, <3>1, <3>2 DEF Harmless, Names, Finalizers, Building, Deleting, Between
    <2>4. CASE LookupFails(m)
      <3>1. /\ obj'[m] = obj[m] /\ cache'[m] = cache[m] /\ old'[m] = old[m] /\ mem'[m] = mem[m]
            /\ at'[m].phase = "patch"
        BY <1>5, <2>4 DEF LookupFails, IInv, TypeInv, TypeOK
      <3>. QED BY <1>7, <3>1 DEF Harmless, Names, Finalizers, Building, Deleting, Between
    <2>5. ASSUME cache'[m] \in {cache[m], obj[m]}, old' = old, mem' = mem, at' = at,
                 obj'[m].vm \in {0, obj[m].vm}, obj'[m].fin \in {"none", obj[m].fin},
                 obj[m].del => obj'[m].del
          PROVE  Harmless(m)
      <3>1. /\ \A i \in Names(m)' : i = 0 \/ i \in Names(m)
            /\ "removed" \in Finalizers(m)' => "removed" \in Finalizers(m)
        BY <2>5 DEF Names, Finalizers
      <3>2. cache[m].del => cache'[m].del BY <1>7, <2>5
      <3>. QED BY <1>1, <1>7, <2>5, <3>1, <3>2
           DEF Harmless, Condemned, IInv, NoVmYet, DeletionIsFinal, Released, VmAtHand
    <2>6. CASE Sync(m) BY <2>5, <2>6 DEF Sync, PassUnchanged, IInv, TypeInv, TypeOK
    <2>7. CASE Create(m) BY <1>4, <2>5, <2>7 DEF Create, PassUnchanged, IInv, TypeInv, TypeOK
    <2>8. CASE Delete(m)
      <3>1. obj'[m].vm = obj[m].vm /\ obj'[m].fin = obj[m].fin /\ obj'[m].del
        BY <1>6, <2>8 DEF Delete, OscMachine, IInv, TypeInv, TypeOK
      <3>. QED BY <2>5, <2>8, <3>1 DEF Delete, PassUnchanged
    <2>. QED BY <2>1, <2>2, <2>3, <2>4, <2>6, <2>7, <2>8
  <1>. QED BY <1>2, <1>3, <1>8, HarmlessStep

(* Every pass ends where it is; the process comes back with empty scopes. *)
LEMMA RestartStep ==
  ASSUME IInv, TypeInv', Restart
  PROVE  IInv'
  <1>1. Alike /\ BackendsKept BY CloudUntouched DEF Restart
  <1>2. ASSUME NEW n \in Machines PROVE Harmless(n)
    <2>1. /\ old'[n].vm = 0 /\ old'[n].fin = "none" /\ mem'[n].vm = 0 /\ mem'[n].fin = "none"
          /\ at'[n].phase = "idle" /\ obj'[n] = obj[n] /\ cache'[n] = cache[n]
      BY DEF Restart, NewOscMachine, Start
    <2>2. cache[n].del => obj[n].del BY DEF IInv, DeletionIsFinal
    <2>. QED BY <2>1, <2>2 DEF Harmless, Names, Finalizers, Building, Deleting, Between
  <1>. QED BY <1>1, <1>2, HarmlessStep

(* What the cloud does by itself.  A VM that vanishes was deleted. *)
LEMMA VanishStep ==
  ASSUME IInv, TypeInv', VmVanishes
  PROVE  IInv'
  <1>1. PICK v \in cloud.vms :
          v.state = "terminated" /\ CloudStep([cloud EXCEPT !.vms = @ \ {v}])
    BY DEF VmVanishes
  <1>2. /\ cloud'.vms = cloud.vms \ {v} /\ cloud'.next = cloud.next /\ cloud'.backends = cloud.backends
        /\ UNCHANGED <<obj, cache, old, mem, at>>
    BY <1>1 DEF CloudStep, PassUnchanged, IInv, TypeInv, TypeOK, Cloud
  <1>3. v.m \in Machines /\ ~Live(v) BY <1>1, CloudParts DEF Live, IInv, TypeInv, TypeOK, Vm
  <1>4. v \in VmsOf(v.m) /\ Condemned(v.m) BY <1>3 DEF IInv, GoneIsCondemned, VmsOf
  <1>5. /\ \A n \in Machines : VmsOf(n)' \subseteq VmsOf(n)
        /\ \A n \in Machines : n # v.m => VmsOf(n)' = VmsOf(n)
    BY <1>2 DEF VmsOf
  <1>6. \A n \in Machines : /\ Names(n)' = Names(n) /\ Finalizers(n)' = Finalizers(n)
                            /\ Condemned(n)' <=> Condemned(n)
    BY <1>2 DEF Names, Finalizers, Condemned
  <1>7. OneVm' BY <1>2 DEF IInv, OneVm
  <1>8. FreshIds' BY <1>2, <1>6 DEF IInv, FreshIds
  <1>9. OwnVms' BY <1>2, <1>6 DEF IInv, OwnVms
  <1>10. NamesAgree' BY <1>2 DEF IInv, NamesAgree, Names
  <1>11. NoVmYet'
    <2>1. \A n \in Machines : at[n].phase \in Building => VmsOf(n)' = {}
      BY <1>5 DEF IInv, NoVmYet
    <2>. QED BY <1>2, <2>1 DEF NoVmYet
  <1>12. GoneIsCondemned'
    <2>. SUFFICES ASSUME NEW n \in Machines,
                         \/ \E w \in VmsOf(n)' : ~Live(w)
                         \/ VmsOf(n)' = {} /\ Names(n)' # {0}
                  PROVE  Condemned(n)'
      BY DEF GoneIsCondemned
    <2>. QED BY <1>4, <1>5, <1>6 DEF IInv, GoneIsCondemned
  <1>13. DeletionIsFinal' BY <1>2 DEF IInv, DeletionIsFinal
  <1>14. Released'
    <2>1. \A n \in Machines : AllGone(n) => AllGone(n)' BY <1>5 DEF AllGone
    <2>. QED BY <1>2, <1>6, <2>1 DEF IInv, Released
  <1>15. VmAtHand'
    <2>1. at[v.m].phase # "lb" BY <1>4 DEF Condemned, Deleting, Between
    <2>2. \A n \in Machines : at[n].phase = "lb" => VmsOf(n)' = VmsOf(n) BY <1>5, <2>1
    <2>. QED BY <1>2, <2>2 DEF IInv, VmAtHand
  <1>16. BackendsBalanced'
    <2>1. \A w \in cloud.vms : Live(w) => w \in cloud'.vms BY <1>2, <1>3
    <2>. QED BY <1>2, <2>1 DEF IInv, BackendsBalanced
  <1>. QED BY <1>7, <1>8, <1>9, <1>10, <1>11, <1>12, <1>13, <1>14, <1>15, <1>16 DEF IInv

LEMMA MovesAlike ==
  ASSUME IInv, VmBoots \/ VmTerminates \/ GpuAttaches
  PROVE  Alike /\ cloud'.backends = cloud.backends
  <1>3. cloud.next \in Nat BY DEF IInv, TypeInv, TypeOK, Cloud, Id
  <1>4. ASSUME NEW v \in cloud.vms, NEW w, Same(v, w), cloud'.vms = (cloud.vms \ {v}) \cup {w},
               cloud'.next = cloud.next
        PROVE  Alike
    <2>. DEFINE f == [x \in cloud.vms |-> IF x = v THEN w ELSE x]
    <2>1. \A y \in cloud'.vms : \E x \in cloud.vms : y = f[x] BY <1>4
    <2>2. \A x \in cloud.vms : f[x] \in cloud'.vms /\ Same(x, f[x]) BY <1>4 DEF Same
    <2>. HIDE DEF f
    <2>. QED BY <1>4, <2>1, <2>2, ChangedAlike
  <1>5. CASE VmBoots
    <2>1. PICK v \in cloud.vms :
            /\ v.state = "pending"
            /\ CloudStep([cloud EXCEPT !.vms = (@ \ {v}) \cup
                 {[v EXCEPT !.state = IF v.boot THEN "running" ELSE "stopped",
                            !.attached = v.boot /\ v.ip \in cloud.ips /\ ~LinkedIp(v.ip)]}])
      BY <1>5 DEF VmBoots
    <2>. DEFINE w == [v EXCEPT !.state = IF v.boot THEN "running" ELSE "stopped",
                               !.attached = v.boot /\ v.ip \in cloud.ips /\ ~LinkedIp(v.ip)]
    <2>2. Same(v, w)
      <3>1. v \in Vm BY CloudParts DEF IInv, TypeInv, TypeOK
      <3>. QED BY <2>1, <3>1 DEF Same, Live, Vm
    <2>3. cloud' = [cloud EXCEPT !.vms = (@ \ {v}) \cup {w}] BY <2>1 DEF CloudStep
    <2>. HIDE DEF w
    <2>4. cloud'.vms = (cloud.vms \ {v}) \cup {w} /\ cloud'.next = cloud.next /\ cloud'.backends = cloud.backends
      BY <2>3 DEF IInv, TypeInv, TypeOK, Cloud
    <2>. QED BY <1>4, <2>2, <2>4
  <1>6. CASE VmTerminates
    <2>1. PICK v \in cloud.vms :
            /\ v.state = "shutting-down"
            /\ CloudStep([cloud EXCEPT
                 !.vms = (@ \ {v}) \cup {[v EXCEPT !.state = "terminated", !.attached = FALSE]},
                 !.gpus = {g \in @ : g.m # v.m \/ g.state = "allocated"}])
      BY <1>6 DEF VmTerminates
    <2>. DEFINE w == [v EXCEPT !.state = "terminated", !.attached = FALSE]
    <2>2. Same(v, w)
      <3>1. v \in Vm BY CloudParts DEF IInv, TypeInv, TypeOK
      <3>. QED BY <2>1, <3>1 DEF Same, Live, Vm
    <2>3. cloud' = [cloud EXCEPT !.vms = (@ \ {v}) \cup {w},
                                 !.gpus = {g \in @ : g.m # v.m \/ g.state = "allocated"}]
      BY <2>1 DEF CloudStep
    <2>. HIDE DEF w
    <2>4. cloud'.vms = (cloud.vms \ {v}) \cup {w} /\ cloud'.next = cloud.next /\ cloud'.backends = cloud.backends
      BY <2>3 DEF IInv, TypeInv, TypeOK, Cloud
    <2>. QED BY <1>4, <2>2, <2>4
  <1>7. CASE GpuAttaches
    <2>1. cloud'.vms = cloud.vms /\ cloud'.next = cloud.next /\ cloud'.backends = cloud.backends
      BY <1>7 DEF GpuAttaches, CloudStep, IInv, TypeInv, TypeOK, Cloud
    <2>. QED BY <1>3, <2>1, VmsUntouched
  <1>. QED BY <1>5, <1>6, <1>7

LEMMA CloudSteps ==
  ASSUME IInv, TypeInv', CloudMoves
  PROVE  IInv'
  <1>1. UNCHANGED <<obj, cache, old, mem, at>>
    BY DEF CloudMoves, VmBoots, VmTerminates, VmVanishes, GpuAttaches, CloudStep, PassUnchanged
  <1>2. ASSUME Alike, cloud'.backends = cloud.backends PROVE IInv'
    <2>1. BackendsKept BY <1>2 DEF BackendsKept
    <2>. QED BY <1>1, <1>2, <2>1, OthersHarmless, HarmlessStep
  <1>. QED BY <1>2, MovesAlike, VanishStep DEF CloudMoves
--------------------------------------------------------------------------------------
LEMMA NextInv == IInv /\ [Next]_vars => IInv'
  <1>. SUFFICES ASSUME IInv, [Next]_vars PROVE IInv'
    OBVIOUS
  <1>1. TypeInv' BY NextType DEF IInv
  <1>2. ASSUME NEW m \in Machines, Pass(m) \/ LookupFails(m) \/ Sync(m) \/ Create(m) \/ Delete(m)
        PROVE  IInv'
    BY <1>1, <1>2, LookupStep, PlaceStep, AllocationStep, CreateVmStep, FinishingSteps, DeletionSteps,
       DeleteVmStep, ScopeSteps DEF Pass
  <1>3. ASSUME UNCHANGED <<cloud, obj, cache, old, mem, at>> PROVE IInv'
    <2>1. Alike /\ BackendsKept BY <1>3, CloudUntouched
    <2>. QED BY <1>1, <1>3, <2>1, OthersHarmless, HarmlessStep
  <1>4. CASE InfrastructureReady BY <1>3, <1>4 DEF InfrastructureReady, PassUnchanged
  <1>5. CASE UNCHANGED vars BY <1>3, <1>5 DEF vars
  <1>. QED BY <1>1, <1>2, <1>4, <1>5, CloudSteps, RestartStep DEF Next

LEMMA InitInv == Init => IInv
  <1>. SUFFICES ASSUME Init PROVE IInv
    OBVIOUS
  <1>1. TypeInv BY InitType
  <1>2. /\ cloud.vms = {} /\ cloud.next = 1 /\ cloud.backends = {} /\ \A m \in Machines : VmsOf(m) = {}
    BY DEF Init, VmsOf
  <1>3. \A m \in Machines : /\ Names(m) = {0} /\ Finalizers(m) = {"none"} /\ at[m].phase = "idle"
                            /\ ~cache[m].del
    BY DEF Init, Names, Finalizers, NewOscMachine, Start
  <1>. QED BY <1>1, <1>2, <1>3 DEF IInv, OneVm, FreshIds, OwnVms, NamesAgree, NoVmYet, GoneIsCondemned,
         DeletionIsFinal, Released, VmAtHand, BackendsBalanced, Building, Deleting

LEMMA Invariance == Spec => []IInv
  BY InitInv, NextInv, PTL DEF Spec
--------------------------------------------------------------------------------------
(* There is never a second VM of a machine, whatever calls fail, whatever  *)
(* replies or statuses are lost and however often the manager restarts:    *)
(* reconcileVm finds the first one by its id or by its client token, and   *)
(* does not build while a deleted VM may be left.                          *)
THEOREM OneVmAlways == Spec => []OneVm
  <1>1. IInv => OneVm BY DEF IInv
  <1>. QED BY <1>1, Invariance, PTL

(* An OscMachine whose finalizer reconcileDelete has removed leaves no VM  *)
(* that is not being terminated.                                           *)
THEOREM VmsReleasedAlways == Spec => []VmsReleased
  <1>1. IInv => VmsReleased BY DEF IInv, Released, VmsReleased, Finalizers, AllGone
  <1>. QED BY <1>1, Invariance, PTL

(* Every backend of the load balancer is a VM that is not being deleted:   *)
(* reconcileDeleteVm unlinks before it deletes, and a control plane pass   *)
(* never links after that.                                                 *)
THEOREM BackendsAliveAlways == Spec => []BackendsAlive
  <1>1. IInv => BackendsAlive BY DEF IInv, BackendsBalanced, BackendsAlive
  <1>. QED BY <1>1, Invariance, PTL
======================================================================================
