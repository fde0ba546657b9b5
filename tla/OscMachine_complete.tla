----------------------------- MODULE OscMachine_complete -----------------------------
(***************************************************************************)
(* A machine whose generation is recorded is complete.  No pass looks at   *)
(* such a machine again, so that all it needs must be there: the proof     *)
(* follows the VM, its GPU and its load balancer from lookup to status.    *)
(***************************************************************************)
EXTENDS OscMachine_refinement

Copies(m) == {obj[m], cache[m], old[m], mem[m]}

(* A generation is recorded by a pass that read it, and never the one of   *)
(* the deletion.                                                           *)
Generations(m) ==
  /\ obj[m].gen >= 1 /\ (obj[m].del => obj[m].gen > 1)
  /\ \A x \in Copies(m) :
       /\ x.gen <= obj[m].gen /\ x.rec <= obj[m].gen /\ (x.del => obj[m].del)
       /\ obj[m].del => x.rec < obj[m].gen /\ (x.del \/ x.gen < obj[m].gen)

BuildsUndeleted(m) == at[m].phase \notin Deleting \cup Between => ~mem[m].del

Unborn(m) ==
  ~Asked(m) => /\ obj[m].gen = 1 /\ obj[m].rec = 0 /\ obj[m].vm = 0 /\ obj[m].gpu = 0
               /\ obj[m].fd = "" /\ ~obj[m].ready

(* GPUs are told apart by ids, and a name is the name of one's own. *)
GpuIds ==
  /\ \A g \in cloud.gpus : 0 < g.id /\ g.id < cloud.next
  /\ \A g, h \in cloud.gpus : g.id = h.id => g = h

GpuNames(m) == {obj[m].gpu, cache[m].gpu, old[m].gpu, mem[m].gpu, at[m].gpu}

OwnGpus(m) ==
  \A i \in GpuNames(m) : i < cloud.next /\ \A g \in cloud.gpus : g.id = i => g.m = m

Known(m) == Generations(m) /\ BuildsUndeleted(m) /\ Unborn(m) /\ OwnGpus(m)

(* Until the deletion is asked for, what a copy names the API server names *)
(* too, or the pass is about to tell it.                                   *)
Behind(m) ==
  /\ \A x \in {cache[m], old[m]} : /\ x.vm # 0 => obj[m].vm # 0
                                   /\ x.fd # "" => obj[m].fd # ""
                                   /\ x.ready => obj[m].ready
  /\ old[m].vm # 0 => mem[m].vm # 0
  /\ old[m].fd # "" => mem[m].fd # ""

Domains(m) == \A x \in Copies(m) : x.fd # "" => \E v \in VmsOf(m) : x.fd = v.az

TaggedGpus(m) == {g \in GpusOf(m) : g.tagged}

Serves(m, v) ==
  /\ v.state = "running" /\ v.ccm
  /\ m \in Balanced => v.id \in cloud.backends
  /\ m \in GPU => \E g \in TaggedGpus(m) : g.state = "attached" /\ g.az = v.az

RecordedServes(m) ==
  \A x \in Copies(m) : x.rec # 0 => /\ x.vm # 0 /\ x.fd # "" /\ x.ready
                                    /\ \E v \in VmsOf(m) : Serves(m, v)

VmPhases(m) ==
  /\ at[m].phase = "start" => \E v \in VmsOf(m) : v.id = mem[m].vm /\ v.state = "stopped"
  /\ at[m].phase \in {"lb", "tags"} =>
       /\ mem[m].ready
       /\ \E v \in VmsOf(m) : v.id = mem[m].vm /\ v.state = "running"
  /\ at[m].phase = "tags" /\ m \in Balanced => mem[m].vm \in cloud.backends

Built(m) == Behind(m) /\ Domains(m) /\ RecordedServes(m) /\ VmPhases(m)

(* One tagged GPU, in the subregion of the VM, which does not start before *)
(* the GPU is attached.                                                    *)
GpuOfVm(m) ==
  /\ \A g, h \in TaggedGpus(m) : g = h
  /\ \A x \in Copies(m) : x.gpu # 0 => \E g \in TaggedGpus(m) : g.id = x.gpu
  /\ \A v \in VmsOf(m) :
       \E g \in TaggedGpus(m) : g.az = v.az /\ (v.boot \/ v.state = "running" => g.state = "attached")

GpuPhases(m) ==
  /\ at[m].phase \in {"place", "gpu"} /\ at[m].gpu = 0 => TaggedGpus(m) = {}
  /\ at[m].phase \in {"place", "gpu"} /\ at[m].gpu # 0 =>
       \E g \in TaggedGpus(m) : g.id = at[m].gpu /\ (at[m].phase = "gpu" => g.az = at[m].az)
  /\ at[m].phase = "gpuTag" =>
       TaggedGpus(m) = {} /\ \E g \in GpusOf(m) : g.id = at[m].gpu /\ g.az = at[m].az
  /\ at[m].phase \in {"ip", "create"} => \E g \in TaggedGpus(m) : g.az = at[m].az
  /\ at[m].phase = "gpuLink" => \E g \in TaggedGpus(m) : g.id = mem[m].gpu /\ g.state = "allocated"
  /\ at[m].phase = "start" => \E g \in TaggedGpus(m) : g.state = "attached"

Equipped(m) == GpuOfVm(m) /\ GpuPhases(m)

Whole(m) == ~obj[m].del => Built(m) /\ (m \in GPU => Equipped(m))

KnownInv == ContractInv /\ GpuIds /\ \A m \in Machines : Known(m)
CompleteInv == KnownInv /\ \A m \in Machines : Whole(m)
--------------------------------------------------------------------------------------
(* What a step inside the pass over m may make of the generations and the  *)
(* names of GPUs.                                                          *)
GpuName(m, i) ==
  \/ i = 0
  \/ i < cloud.next /\ \A g \in cloud.gpus : g.id = i => g.m = m
  \/ i = cloud.next /\ cloud'.next = cloud.next + 1

Reads(m, a, o) ==
  /\ at[m].phase \notin Between /\ (at[m].phase \in Deleting => a.phase \in Deleting \cup Between)
  /\ o.gen = mem[m].gen /\ o.del = mem[m].del
  /\ o.rec = mem[m].rec \/ (at[m].phase = "tags" /\ o.rec = mem[m].gen)
  /\ GpuName(m, o.gpu) /\ GpuName(m, a.gpu)

PassReads(m) ==
  /\ UNCHANGED <<obj, cache, old>>
  /\ \E a, o : /\ at' = [at EXCEPT ![m] = a] /\ mem' = [mem EXCEPT ![m] = o]
               /\ Reads(m, a, o)

(* The GPUs keep their ids and machines; a new one is the machine's.       *)
GpusMove(m) ==
  /\ cloud'.next >= cloud.next
  /\ \A h \in cloud'.gpus :
       \/ \E g \in cloud.gpus : g.id = h.id /\ g.m = h.m
       \/ h.id = cloud.next /\ h.m = m /\ cloud'.next = cloud.next + 1
  /\ \A g, h \in cloud'.gpus : g.id = h.id => g = h

LEMMA GpuNamesKept ==
  ASSUME KnownInv, IInv', NEW m \in Machines, NEW n \in Machines, GpusMove(m),
         \A i \in GpuNames(n)' : i \in GpuNames(n) \/ (n = m /\ GpuName(m, i)) \/ i = 0
  PROVE  OwnGpus(n)'
  <1>1. cloud.next \in Nat /\ cloud'.next \in Nat /\ cloud.next > 0 /\ cloud'.next > 0
    BY DEF KnownInv, ContractInv, IInv, TypeInv, TypeOK, Cloud, Id, FreshIds
  <1>2. \A g \in cloud.gpus : g.id \in Nat /\ 0 < g.id /\ g.id < cloud.next
    BY CloudParts DEF KnownInv, ContractInv, IInv, TypeInv, TypeOK, GpuIds, Gpu, Id
  <1>3. \A i \in GpuNames(n) : i \in Nat /\ i < cloud.next /\ \A g \in cloud.gpus : g.id = i => g.m = n
    BY DEF KnownInv, Known, OwnGpus, GpuNames, ContractInv, IInv, TypeInv, TypeOK, OscMachine, Position, Id
  <1>4. ASSUME NEW i \in GpuNames(n)'
        PROVE  i < cloud'.next /\ \A h \in cloud'.gpus : h.id = i => h.m = n
    <2>1. i \in Nat BY DEF GpuNames, IInv, TypeInv, TypeOK, OscMachine, Position, Id
    <2>2. CASE i = 0 BY <1>1, <1>2, <2>2 DEF GpusMove
    <2>3. CASE i < cloud.next /\ \A g \in cloud.gpus : g.id = i => g.m = n
      BY <1>1, <2>1, <2>3 DEF GpusMove
    <2>4. CASE n = m /\ i = cloud.next /\ cloud'.next = cloud.next + 1
      BY <1>1, <1>2, <2>4 DEF GpusMove
    <2>. QED BY <1>3, <2>2, <2>3, <2>4 DEF GpuName
  <1>. QED BY <1>4 DEF OwnGpus

LEMMA OthersKnown ==
  ASSUME KnownInv, IInv', NEW m \in Machines, NEW n \in Machines, GpusMove(m),
         obj'[n] = obj[n], cache'[n] = cache[n], old'[n] = old[n], mem'[n] = mem[n], at'[n] = at[n]
  PROVE  Known(n)'
  <1>1. GpuNames(n)' = GpuNames(n) BY DEF GpuNames
  <1>2. OwnGpus(n)' BY <1>1, GpuNamesKept
  <1>3. Known(n) /\ Copies(n)' = Copies(n) BY DEF KnownInv, Copies
  <1>4. Generations(n)' BY <1>3 DEF Known, Generations
  <1>5. BuildsUndeleted(n)' BY <1>3 DEF Known, BuildsUndeleted
  <1>6. Unborn(n)' BY <1>3 DEF Known, Unborn, Asked
  <1>. QED BY <1>2, <1>4, <1>5, <1>6 DEF Known

LEMMA GpuIdsKept ==
  ASSUME KnownInv, IInv', NEW m \in Machines, GpusMove(m)
  PROVE  GpuIds'
  <1>1. cloud.next \in Nat /\ cloud'.next \in Nat /\ cloud.next > 0
    BY DEF KnownInv, ContractInv, IInv, TypeInv, TypeOK, Cloud, Id, FreshIds
  <1>2. \A g \in cloud.gpus : g.id \in Nat /\ 0 < g.id /\ g.id < cloud.next
    BY CloudParts DEF KnownInv, ContractInv, IInv, TypeInv, TypeOK, GpuIds, Gpu, Id
  <1>. QED BY <1>1, <1>2 DEF GpusMove, GpuIds

LEMMA ReadsKnown ==
  ASSUME KnownInv, IInv', NEW m \in Machines, GpusMove(m), PassReads(m)
  PROVE  GpuIds' /\ \A n \in Machines : Known(n)'
  <1>1. PICK a, o : /\ at' = [at EXCEPT ![m] = a] /\ mem' = [mem EXCEPT ![m] = o]
                    /\ Reads(m, a, o)
    BY DEF PassReads
  <1>2. /\ at'[m] = a /\ mem'[m] = o /\ UNCHANGED <<obj, cache, old>>
        /\ \A n \in Machines : n # m => at'[n] = at[n] /\ mem'[n] = mem[n]
    BY <1>1 DEF PassReads, KnownInv, ContractInv, IInv, TypeInv, TypeOK
  <1>3. ASSUME NEW n \in Machines, n # m PROVE Known(n)' BY <1>2, <1>3, OthersKnown
  <1>4. Known(m) BY DEF KnownInv
  <1>5. OwnGpus(m)'
    <2>1. GpuNames(m)' \subseteq GpuNames(m) \cup {o.gpu, a.gpu} BY <1>2 DEF GpuNames
    <2>. QED BY <1>1, <2>1, GpuNamesKept DEF Reads
  <1>6. Unborn(m)' BY <1>2, <1>4 DEF Known, Unborn, Asked
  <1>7. BuildsUndeleted(m)' BY <1>1, <1>2, <1>4 DEF Known, BuildsUndeleted, Reads
  <1>8. Generations(m)'
    <2>1. at[m].phase = "tags" => ~mem[m].del BY <1>4 DEF Known, BuildsUndeleted, Deleting, Between
    <2>2. mem[m].gen \in Nat /\ mem[m].rec \in Nat /\ obj[m].gen \in Nat
      BY DEF KnownInv, ContractInv, IInv, TypeInv, TypeOK, OscMachine
    <2>. QED BY <1>1, <1>2, <1>4, <2>1, <2>2 DEF Known, Generations, Copies, Reads
  <1>9. Known(m)' BY <1>5, <1>6, <1>7, <1>8 DEF Known
  <1>. QED BY <1>3, <1>9, GpuIdsKept
--------------------------------------------------------------------------------------
(* The actions and the GPUs. *)
LEMMA SameGpusMove ==
  ASSUME KnownInv, NEW m \in Machines, cloud'.gpus \subseteq cloud.gpus, cloud'.next \in {cloud.next, cloud.next + 1}
  PROVE  GpusMove(m)
  <1>1. cloud.next \in Nat BY DEF KnownInv, ContractInv, IInv, TypeInv, TypeOK, Cloud, Id
  <1>. QED BY <1>1 DEF GpusMove, KnownInv, GpuIds

LEMMA ChangedGpusMove ==
  ASSUME KnownInv, NEW m \in Machines, NEW f, cloud'.next = cloud.next,
         \A h \in cloud'.gpus : \E g \in cloud.gpus : h = f[g],
         \A g \in cloud.gpus : f[g].id = g.id /\ f[g].m = g.m
  PROVE  GpusMove(m)
  <1>1. cloud.next \in Nat BY DEF KnownInv, ContractInv, IInv, TypeInv, TypeOK, Cloud, Id
  <1>. QED BY <1>1 DEF GpusMove, KnownInv, GpuIds

LEMMA RequestMovesGpus ==
  ASSUME KnownInv, NEW m \in Machines, NEW az, NEW i,
         cloud' \in {GpuCreated(m, az), GpuTagged(i), GpuLinked(i)}
  PROVE  GpusMove(m)
  <1>1. /\ cloud.next \in Nat /\ cloud \in Cloud /\ cloud.gpus \subseteq Gpu
        /\ \A g \in cloud.gpus : g.id < cloud.next
    BY CloudParts DEF KnownInv, ContractInv, IInv, TypeInv, TypeOK, Cloud, Id, GpuIds
  <1>2. CASE cloud' = GpuCreated(m, az)
    <2>. DEFINE new == [id |-> cloud.next, m |-> m, az |-> az, state |-> "allocated", tagged |-> FALSE]
    <2>1. new.id = cloud.next /\ new.m = m OBVIOUS
    <2>2. cloud' = [cloud EXCEPT !.next = @ + 1, !.gpus = @ \cup {new}] BY <1>2 DEF GpuCreated
    <2>. HIDE DEF new
    <2>3. cloud'.gpus = cloud.gpus \cup {new} /\ cloud'.next = cloud.next + 1 BY <1>1, <2>2 DEF Cloud
    <2>. QED BY <1>1, <2>1, <2>3 DEF GpusMove, KnownInv, GpuIds
  <1>3. CASE cloud' = GpuTagged(i)
    <2>. DEFINE f == [g \in cloud.gpus |-> IF g.id = i THEN [g EXCEPT !.tagged = TRUE] ELSE g]
    <2>1. /\ cloud'.gpus = {IF g.id = i THEN [g EXCEPT !.tagged = TRUE] ELSE g : g \in cloud.gpus}
          /\ cloud'.next = cloud.next
      BY <1>1, <1>3 DEF GpuTagged, Cloud
    <2>2. \A h \in cloud'.gpus : \E g \in cloud.gpus : h = f[g] BY <2>1
    <2>3. \A g \in cloud.gpus : f[g].id = g.id /\ f[g].m = g.m BY <1>1 DEF Gpu
    <2>. HIDE DEF f
    <2>. QED BY <2>1, <2>2, <2>3, ChangedGpusMove
  <1>4. CASE cloud' = GpuLinked(i)
    <2>. DEFINE f == [g \in cloud.gpus |-> IF g.id = i THEN [g EXCEPT !.state = "attaching"] ELSE g]
    <2>1. /\ cloud'.gpus = {IF g.id = i THEN [g EXCEPT !.state = "attaching"] ELSE g : g \in cloud.gpus}
          /\ cloud'.next = cloud.next
      BY <1>1, <1>4 DEF GpuLinked, Cloud
    <2>2. \A h \in cloud'.gpus : \E g \in cloud.gpus : h = f[g] BY <2>1
    <2>3. \A g \in cloud.gpus : f[g].id = g.id /\ f[g].m = g.m BY <1>1 DEF Gpu
    <2>. HIDE DEF f
    <2>. QED BY <2>1, <2>2, <2>3, ChangedGpusMove
  <1>. QED BY <1>2, <1>3, <1>4

LEMMA OtherRequestsKeepGpus ==
  ASSUME KnownInv, NEW m, NEW az, NEW ip, NEW i,
         cloud' \in {cloud, IpCreated, IpDeleted(i), VmCreated(m, az, ip), VmStarted(i), VmTagged(i),
                     VmDeleted(i), BackendLinked(i), BackendUnlinked(i)}
  PROVE  cloud'.gpus = cloud.gpus /\ cloud'.next \in {cloud.next, cloud.next + 1}
  <1>1. cloud \in Cloud BY DEF KnownInv, ContractInv, IInv, TypeInv, TypeOK
  <1>2. CASE cloud' = VmCreated(m, az, ip)
    <2>1. PICK v : cloud' = [cloud EXCEPT !.next = @ + 1, !.vms = @ \cup {v}] BY <1>2 DEF VmCreated
    <2>. QED BY <1>1, <2>1 DEF Cloud
  <1>3. CASE cloud' \in {VmStarted(i), VmTagged(i), VmDeleted(i)}
    <2>1. PICK S : cloud' = [cloud EXCEPT !.vms = S] BY <1>1, <1>3 DEF VmStarted, VmTagged, VmDeleted
    <2>. QED BY <1>1, <2>1 DEF Cloud
  <1>. QED BY <1>1, <1>2, <1>3 DEF IpCreated, IpDeleted, BackendLinked, BackendUnlinked, Cloud

LEMMA PassMovesGpus ==
  ASSUME KnownInv, NEW m \in Machines, Pass(m) \/ LookupFails(m)
  PROVE  GpusMove(m)
  <1>. DEFINE Plain == cloud'.gpus = cloud.gpus /\ cloud'.next \in {cloud.next, cloud.next + 1}
  <1>1. Plain => GpusMove(m) BY SameGpusMove
  <1>2. CASE cloud' = cloud BY <1>1, <1>2
  <1>3. CASE AllocateFGPU(m) BY <1>2, <1>3, RequestMovesGpus DEF AllocateFGPU, Call, Continue, EndPass
  <1>4. CASE TagFGPU(m) BY <1>2, <1>4, RequestMovesGpus DEF TagFGPU, Call
  <1>5. CASE LinkFGPU(m) BY <1>2, <1>5, RequestMovesGpus DEF LinkFGPU, Call
  <1>6. CASE AllocateIP(m) BY <1>1, <1>2, <1>6, OtherRequestsKeepGpus DEF AllocateIP, Call, Continue
  <1>7. CASE CreateVm(m) BY <1>1, <1>2, <1>7, OtherRequestsKeepGpus DEF CreateVm, Call
  <1>8. CASE StartVm(m) BY <1>1, <1>2, <1>8, OtherRequestsKeepGpus DEF StartVm, Call
  <1>9. CASE LinkBackend(m) BY <1>1, <1>2, <1>9, OtherRequestsKeepGpus DEF LinkBackend, Call, Continue
  <1>10. CASE Finish(m)
    <2>1. PICK v : \/ cloud' = cloud \/ cloud' = VmTagged(v.id) BY <1>10 DEF Finish, Call, EndPass, Continue
    <2>. QED BY <1>1, <1>2, <2>1, OtherRequestsKeepGpus
  <1>11. CASE UnlinkBackend(m) BY <1>1, <1>2, <1>11, OtherRequestsKeepGpus DEF UnlinkBackend, Call
  <1>12. CASE DeleteVm(m) BY <1>1, <1>2, <1>12, OtherRequestsKeepGpus DEF DeleteVm, Call
  <1>13. CASE DeletePublicIp(m)
    BY <1>1, <1>2, <1>13, OtherRequestsKeepGpus DEF DeletePublicIp, Call, Continue, EndPass
  <1>14. CASE \/ Reconcile(m) \/ Lookup(m) \/ Place(m) \/ LookupDeletedVm(m) \/ RemoveFinalizer(m)
              \/ CloseObject(m) \/ CloseStatus(m) \/ LookupFails(m)
    BY <1>2, <1>14 DEF Reconcile, Lookup, Place, LookupDeletedVm, RemoveFinalizer, CloseObject, CloseStatus,
                       LookupFails, Patch, EndPass, Continue
  <1>. QED BY <1>3, <1>4, <1>5, <1>6, <1>7, <1>8, <1>9, <1>10, <1>11, <1>12, <1>13, <1>14 DEF Pass
--------------------------------------------------------------------------------------
(* The actions and the generations. *)
LEMMA ContinueReads ==
  ASSUME NEW m \in Machines, NEW a, NEW o, Continue(m, a, o), Reads(m, a, o)
  PROVE  PassReads(m)
  BY DEF Continue, PassReads

LEMMA CallReads ==
  ASSUME NEW m \in Machines, NEW after, NEW a, NEW seen, NEW o, Call(m, after, a, seen, o),
         cloud' = after => Reads(m, a, o), Reads(m, Start("patch"), seen)
  PROVE  PassReads(m)
  BY DEF Call, PassReads

LEMMA PlainReads ==
  ASSUME KnownInv, NEW m \in Machines, NEW a, NEW o,
         at[m].phase \notin Between, at[m].phase \in Deleting => a.phase \in Deleting \cup Between,
         o.gen = mem[m].gen, o.del = mem[m].del, o.rec = mem[m].rec, o.gpu = mem[m].gpu,
         a.gpu \in {0, at[m].gpu}
  PROVE  Reads(m, a, o)
  BY DEF Reads, GpuName, KnownInv, Known, OwnGpus, GpuNames

(* The GPU that is found is the machine's. *)
LEMMA FoundGpuIsOwn ==
  ASSUME KnownInv, NEW m \in Machines, NEW g \in FoundGpus(m)
  PROVE  GpuName(m, g.id) /\ (g = NoGpu \/ g \in GpusOf(m))
  <1>1. NoGpu.id = 0 BY DEF NoGpu
  <1>2. CASE g = NoGpu BY <1>1, <1>2 DEF GpuName
  <1>3. CASE g # NoGpu
    <2>1. g \in cloud.gpus /\ (g.id = mem[m].gpu \/ g.m = m) BY <1>3 DEF FoundGpus, GpusOf
    <2>2. g.m = m BY <2>1 DEF KnownInv, Known, OwnGpus, GpuNames
    <2>. QED BY <2>1, <2>2 DEF GpuName, KnownInv, GpuIds, GpusOf
  <1>. QED BY <1>2, <1>3

LEMMA LookupReads ==
  ASSUME KnownInv, NEW m \in Machines, Lookup(m)
  PROVE  PassReads(m)
  <1>1. at[m].phase = "vm" /\ mem[m] \in OscMachine BY DEF Lookup, KnownInv, ContractInv, IInv, TypeInv, TypeOK
  <1>2. at[m].phase \notin Between /\ at[m].phase \notin Deleting BY <1>1 DEF Between, Deleting
  <1>3. \A p : Start(p).phase = p /\ Start(p).gpu = 0 BY DEF Start
  <1>4. CASE EndPass(m, mem[m])
    <2>1. Reads(m, Start("patch"), mem[m]) BY <1>2, <1>3, PlainReads
    <2>. QED BY <1>4, <2>1, ContinueReads DEF EndPass
  <1>5. CASE ~EndPass(m, mem[m])
    <2>1. PICK g \in FoundGpus(m) :
            LET o == [mem[m] EXCEPT !.gpu = IF g.id = 0 THEN @ ELSE g.id]
            IN \/ /\ FoundVms(m) = {}
                  /\ Continue(m, [Start("place") EXCEPT !.gpu = g.id], o)
               \/ \E v \in FoundVms(m) :
                    LET p == AfterLookup(m, v, g)
                    IN Continue(m, Start(p), [Tracked(o, v) EXCEPT !.ready = @ \/ p \in {"lb", "tags"}])
      BY <1>5 DEF Lookup
    <2>. DEFINE o == [mem[m] EXCEPT !.gpu = IF g.id = 0 THEN @ ELSE g.id]
    <2>2. /\ o.gen = mem[m].gen /\ o.del = mem[m].del /\ o.rec = mem[m].rec
          /\ o.gpu \in {mem[m].gpu, g.id}
      BY <1>1 DEF OscMachine
    <2>3. GpuName(m, g.id) /\ GpuName(m, mem[m].gpu) /\ GpuName(m, 0)
      BY FoundGpuIsOwn DEF KnownInv, Known, OwnGpus, GpuNames, GpuName
    <2>4. CASE Continue(m, [Start("place") EXCEPT !.gpu = g.id], o)
      <3>. DEFINE a == [Start("place") EXCEPT !.gpu = g.id]
      <3>1. a.gpu = g.id BY DEF Start
      <3>2. Continue(m, a, o) BY <2>4
      <3>. HIDE DEF o, a
      <3>3. Reads(m, a, o) BY <1>2, <2>2, <2>3, <3>1 DEF Reads
      <3>. QED BY <3>2, <3>3, ContinueReads
    <2>5. ASSUME NEW v \in FoundVms(m), NEW p,
                 Continue(m, Start(p), [Tracked(o, v) EXCEPT !.ready = @ \/ p \in {"lb", "tags"}])
          PROVE  PassReads(m)
      <3>. DEFINE t == Tracked(o, v)
                  q == [t EXCEPT !.ready = @ \/ p \in {"lb", "tags"}]
      <3>1. t.gen = o.gen /\ t.del = o.del /\ t.rec = o.rec /\ t.gpu = o.gpu BY <1>1 DEF Tracked, OscMachine
      <3>2. q.gen = o.gen /\ q.del = o.del /\ q.rec = o.rec /\ q.gpu = o.gpu BY <1>1 DEF Tracked, OscMachine
      <3>3. Continue(m, Start(p), q) BY <2>5
      <3>. HIDE DEF o, t, q
      <3>4. Reads(m, Start(p), q) BY <1>2, <1>3, <2>2, <2>3, <3>2 DEF Reads
      <3>. QED BY <3>3, <3>4, ContinueReads
    <2>. QED BY <2>1, <2>4, <2>5
  <1>. QED BY <1>4, <1>5

LEMMA PlaceReads ==
  ASSUME KnownInv, NEW m \in Machines, Place(m) \/ LookupFails(m)
  PROVE  PassReads(m)
  <1>1. PICK a : /\ at' = [at EXCEPT ![m] = a] /\ a.gpu \in {0, at[m].gpu}
                 /\ a.phase = "patch" \/ at[m].phase = "place"
    <2>1. Start("patch").phase = "patch" /\ Start("patch").gpu = 0 BY DEF Start
    <2>2. CASE LookupFails(m) BY <2>1, <2>2 DEF LookupFails
    <2>3. CASE Place(m)
      <3>1. PICK z : at' = [at EXCEPT ![m] = IF z \notin AZs THEN Start("patch")
                                             ELSE [@ EXCEPT !.phase = "gpu", !.az = z]]
        BY <2>3 DEF Place
      <3>. DEFINE b == IF z \notin AZs THEN Start("patch") ELSE [at[m] EXCEPT !.phase = "gpu", !.az = z]
      <3>2. at' = [at EXCEPT ![m] = b] BY <3>1
      <3>3. b.gpu \in {0, at[m].gpu}
        BY DEF KnownInv, ContractInv, IInv, TypeInv, TypeOK, Position, Start
      <3>. HIDE DEF b
      <3>4. at[m].phase = "place" BY <2>3 DEF Place
      <3>. QED BY <3>2, <3>3, <3>4
    <2>. QED BY <2>2, <2>3
  <1>2. /\ UNCHANGED <<obj, cache, old, mem>> /\ at[m].phase \notin Between
    BY DEF Place, LookupFails, Between
  <1>3. mem' = [mem EXCEPT ![m] = mem[m]] BY <1>2 DEF KnownInv, ContractInv, IInv, TypeInv, TypeOK
  <1>4. Reads(m, a, mem[m]) BY <1>1, <1>2, PlainReads DEF Deleting, Between
  <1>. QED BY <1>1, <1>2, <1>3, <1>4 DEF PassReads

LEMMA BuildReads ==
  ASSUME KnownInv, NEW m \in Machines,
         \/ AllocateFGPU(m) \/ TagFGPU(m) \/ AllocateIP(m) \/ CreateVm(m) \/ LinkFGPU(m)
         \/ StartVm(m) \/ LinkBackend(m) \/ Finish(m)
  PROVE  PassReads(m)
  <1>1. /\ at[m].phase \notin Between \cup Deleting /\ mem[m] \in OscMachine /\ at[m] \in Position
        /\ cloud \in Cloud
    BY DEF AllocateFGPU, TagFGPU, AllocateIP, CreateVm, LinkFGPU, StartVm, LinkBackend, Finish, Between, Deleting,
           KnownInv, ContractInv, IInv, TypeInv, TypeOK
  <1>2. ASSUME NEW a, a.gpu \in {0, at[m].gpu}, NEW o, o.gen = mem[m].gen, o.del = mem[m].del,
               o.rec = mem[m].rec, o.gpu = mem[m].gpu
        PROVE  Reads(m, a, o)
    BY <1>1, <1>2, PlainReads
  <1>3. \A p : Start(p).gpu = 0 /\ To(m, p).gpu = at[m].gpu BY <1>1 DEF Start, To, Position
  <1>4. \A p : Reads(m, Start(p), mem[m]) /\ Reads(m, To(m, p), mem[m]) BY <1>2, <1>3
  <1>5. CASE AllocateFGPU(m)
    <2>. DEFINE a == [To(m, "gpuTag") EXCEPT !.gpu = cloud.next]
    <2>1. a.gpu = cloud.next BY <1>1 DEF To, Position
    <2>2. \/ Continue(m, To(m, "ip"), mem[m]) \/ Continue(m, Start("patch"), mem[m])
          \/ Call(m, GpuCreated(m, at[m].az), a, mem[m], mem[m])
      BY <1>5 DEF AllocateFGPU, EndPass
    <2>. HIDE DEF a
    <2>3. ASSUME cloud' = GpuCreated(m, at[m].az) PROVE Reads(m, a, mem[m])
      <3>1. PICK g : cloud' = [cloud EXCEPT !.next = @ + 1, !.gpus = @ \cup {g}] BY <2>3 DEF GpuCreated
      <3>2. cloud'.next = cloud.next + 1 BY <1>1, <3>1 DEF Cloud
      <3>3. Reads(m, Start("patch"), mem[m]) BY <1>4
      <3>. QED BY <1>1, <2>1, <3>2, <3>3 DEF Reads, GpuName
    <2>. QED BY <1>4, <2>2, <2>3, ContinueReads, CallReads
  <1>6. CASE TagFGPU(m) BY <1>4, <1>6, CallReads DEF TagFGPU
  <1>7. CASE AllocateIP(m)
    <2>. DEFINE o == [mem[m] EXCEPT !.ip = cloud.next]
    <2>1. o.gen = mem[m].gen /\ o.del = mem[m].del /\ o.rec = mem[m].rec /\ o.gpu = mem[m].gpu
      BY <1>1 DEF OscMachine
    <2>2. Continue(m, To(m, "create"), mem[m]) \/ Call(m, IpCreated, To(m, "create"), mem[m], o)
      BY <1>7 DEF AllocateIP
    <2>. HIDE DEF o
    <2>3. Reads(m, To(m, "create"), o) BY <1>2, <1>3, <2>1
    <2>. QED BY <1>4, <2>2, <2>3, ContinueReads, CallReads
  <1>8. CASE CreateVm(m)
    <2>. DEFINE o == [mem[m] EXCEPT !.vm = cloud.next, !.pid = cloud.next]
    <2>1. o.gen = mem[m].gen /\ o.del = mem[m].del /\ o.rec = mem[m].rec /\ o.gpu = mem[m].gpu
      BY <1>1 DEF OscMachine
    <2>2. PICK c : Call(m, c, Start("patch"), mem[m], o) BY <1>8 DEF CreateVm
    <2>. HIDE DEF o
    <2>3. Reads(m, Start("patch"), o) BY <1>2, <1>3, <2>1
    <2>. QED BY <1>4, <2>2, <2>3, CallReads
  <1>9. CASE LinkFGPU(m) BY <1>4, <1>9, CallReads DEF LinkFGPU
  <1>10. CASE StartVm(m) BY <1>4, <1>10, CallReads DEF StartVm
  <1>11. CASE LinkBackend(m) BY <1>4, <1>11, ContinueReads, CallReads DEF LinkBackend
  <1>12. CASE Finish(m)
    <2>1. PICK v \in cloud.vms :
            LET seen == [mem[m] EXCEPT !.fd = v.az]
                o == [seen EXCEPT !.rec = mem[m].gen]
            IN IF v.ccm THEN EndPass(m, o) ELSE Call(m, VmTagged(v.id), Start("patch"), seen, o)
      BY <1>12 DEF Finish
    <2>. DEFINE seen == [mem[m] EXCEPT !.fd = v.az]
                o == [seen EXCEPT !.rec = mem[m].gen]
    <2>2. seen.gen = mem[m].gen /\ seen.del = mem[m].del /\ seen.rec = mem[m].rec /\ seen.gpu = mem[m].gpu
      BY <1>1 DEF OscMachine
    <2>3. o.gen = mem[m].gen /\ o.del = mem[m].del /\ o.rec = mem[m].gen /\ o.gpu = mem[m].gpu
      BY <1>1 DEF OscMachine
    <2>4. IF v.ccm THEN EndPass(m, o) ELSE Call(m, VmTagged(v.id), Start("patch"), seen, o) BY <2>1
    <2>5. at[m].phase = "tags" BY <1>12 DEF Finish
    <2>. HIDE DEF seen, o
    <2>6. Reads(m, Start("patch"), seen) BY <1>2, <1>3, <2>2
    <2>7. Reads(m, Start("patch"), o) BY <2>2, <2>3, <2>5, <2>6 DEF Reads
    <2>. QED BY <2>4, <2>6, <2>7, ContinueReads, CallReads DEF EndPass
  <1>. QED BY <1>5, <1>6, <1>7, <1>8, <1>9, <1>10, <1>11, <1>12

LEMMA DeletionReads ==
  ASSUME KnownInv, NEW m \in Machines,
         LookupDeletedVm(m) \/ UnlinkBackend(m) \/ DeleteVm(m) \/ DeletePublicIp(m) \/ RemoveFinalizer(m)
  PROVE  PassReads(m)
  <1>1. /\ at[m].phase \notin Between /\ mem[m] \in OscMachine
    BY DEF LookupDeletedVm, UnlinkBackend, DeleteVm, DeletePublicIp, RemoveFinalizer, Between,
           KnownInv, ContractInv, IInv, TypeInv, TypeOK
  <1>2. ASSUME NEW p \in {"dUnlink", "dDelete", "dIp", "dFinal", "patch"}, NEW o, o.gen = mem[m].gen,
               o.del = mem[m].del, o.rec = mem[m].rec, o.gpu = mem[m].gpu
        PROVE  Reads(m, Start(p), o)
    <2>1. Start(p).phase = p /\ Start(p).gpu = 0 BY DEF Start
    <2>. QED BY <1>1, <1>2, <2>1, PlainReads DEF Deleting, Between
  <1>3. \A p \in {"dUnlink", "dDelete", "dIp", "dFinal", "patch"} : Reads(m, Start(p), mem[m]) BY <1>2
  <1>4. CASE LookupDeletedVm(m)
    <2>1. CASE Continue(m, Start("dIp"), mem[m]) BY <1>3, <2>1, ContinueReads
    <2>2. ASSUME NEW v \in FoundVms(m), NEW p \in {"dIp", "dUnlink", "dDelete"},
                 Continue(m, Start(p), Tracked(mem[m], v))
          PROVE  PassReads(m)
      <3>. DEFINE t == Tracked(mem[m], v)
      <3>1. t.gen = mem[m].gen /\ t.del = mem[m].del /\ t.rec = mem[m].rec /\ t.gpu = mem[m].gpu
        BY <1>1 DEF Tracked, OscMachine
      <3>. HIDE DEF t
      <3>2. Reads(m, Start(p), t) BY <1>2, <3>1
      <3>3. Continue(m, Start(p), t) BY <2>2 DEF t
      <3>. QED BY <3>2, <3>3, ContinueReads
    <2>. QED BY <1>4, <2>1, <2>2 DEF LookupDeletedVm
  <1>5. CASE UnlinkBackend(m) BY <1>3, <1>5, CallReads DEF UnlinkBackend
  <1>6. CASE DeleteVm(m) BY <1>3, <1>6, CallReads DEF DeleteVm
  <1>7. CASE DeletePublicIp(m)
    <2>. DEFINE done == [mem[m] EXCEPT !.ip = 0]
    <2>1. done.gen = mem[m].gen /\ done.del = mem[m].del /\ done.rec = mem[m].rec /\ done.gpu = mem[m].gpu
      BY <1>1 DEF OscMachine
    <2>2. \/ Continue(m, Start("dFinal"), done) \/ EndPass(m, mem[m])
          \/ Call(m, IpDeleted(mem[m].ip), Start("dFinal"), mem[m], done)
      BY <1>7 DEF DeletePublicIp
    <2>. HIDE DEF done
    <2>3. Reads(m, Start("dFinal"), done) BY <1>2, <2>1
    <2>. QED BY <1>3, <2>2, <2>3, ContinueReads, CallReads DEF EndPass
  <1>8. CASE RemoveFinalizer(m)
    <2>. DEFINE o == [mem[m] EXCEPT !.fin = "removed"]
    <2>1. o.gen = mem[m].gen /\ o.del = mem[m].del /\ o.rec = mem[m].rec /\ o.gpu = mem[m].gpu
      BY <1>1 DEF OscMachine
    <2>2. Continue(m, Start("patch"), o) BY <1>8 DEF RemoveFinalizer, EndPass
    <2>. HIDE DEF o
    <2>3. Reads(m, Start("patch"), o) BY <1>2, <2>1
    <2>. QED BY <2>2, <2>3, ContinueReads
  <1>. QED BY <1>4, <1>5, <1>6, <1>7, <1>8
--------------------------------------------------------------------------------------
(* The beginning and the end of a pass, the API server and the informer.   *)
LEMMA NewMachine ==
  /\ NewOscMachine.exists /\ NewOscMachine.gen = 1 /\ ~NewOscMachine.del /\ NewOscMachine.vm = 0
  /\ NewOscMachine.gpu = 0 /\ NewOscMachine.fd = "" /\ NewOscMachine.rec = 0 /\ ~NewOscMachine.ready
  BY DEF NewOscMachine

LEMMA PatchedFields ==
  ASSUME NEW m \in Machines, obj[m] \in OscMachine, old[m] \in OscMachine, mem[m] \in OscMachine
  PROVE  /\ PatchedObject(m).gen \in {obj[m].gen, obj[m].gen + 1} /\ PatchedObject(m).del = obj[m].del
         /\ PatchedObject(m).vm = obj[m].vm /\ PatchedObject(m).gpu = obj[m].gpu
         /\ PatchedObject(m).fd = obj[m].fd /\ PatchedObject(m).rec = obj[m].rec
         /\ PatchedObject(m).ready = obj[m].ready
         /\ PatchedObject(m).exists \/ PatchedObject(m).del
         /\ PatchedStatus(m).gen = obj[m].gen /\ PatchedStatus(m).del = obj[m].del
         /\ PatchedStatus(m).exists = obj[m].exists
         /\ PatchedStatus(m).vm = Merge(old[m].vm, mem[m].vm, obj[m].vm)
         /\ PatchedStatus(m).gpu = Merge(old[m].gpu, mem[m].gpu, obj[m].gpu)
         /\ PatchedStatus(m).fd = Merge(old[m].fd, mem[m].fd, obj[m].fd)
         /\ PatchedStatus(m).rec = Merge(old[m].rec, mem[m].rec, obj[m].rec)
         /\ PatchedStatus(m).ready = Merge(old[m].ready, mem[m].ready, obj[m].ready)
  <1>1. /\ PatchedObject(m).gen \in {obj[m].gen, obj[m].gen + 1} /\ PatchedObject(m).del = obj[m].del
        /\ PatchedObject(m).vm = obj[m].vm /\ PatchedObject(m).gpu = obj[m].gpu
        /\ PatchedObject(m).fd = obj[m].fd /\ PatchedObject(m).rec = obj[m].rec
        /\ PatchedObject(m).ready = obj[m].ready
        /\ PatchedObject(m).exists \/ PatchedObject(m).del
    BY DEF PatchedObject, OscMachine
  <1>2. /\ PatchedStatus(m).gen = obj[m].gen /\ PatchedStatus(m).del = obj[m].del
        /\ PatchedStatus(m).exists = obj[m].exists
        /\ PatchedStatus(m).vm = Merge(old[m].vm, mem[m].vm, obj[m].vm)
        /\ PatchedStatus(m).gpu = Merge(old[m].gpu, mem[m].gpu, obj[m].gpu)
        /\ PatchedStatus(m).fd = Merge(old[m].fd, mem[m].fd, obj[m].fd)
        /\ PatchedStatus(m).rec = Merge(old[m].rec, mem[m].rec, obj[m].rec)
        /\ PatchedStatus(m).ready = Merge(old[m].ready, mem[m].ready, obj[m].ready)
    BY DEF PatchedStatus, OscMachine
  <1>. QED BY <1>1, <1>2

LEMMA ScopeKnown ==
  ASSUME KnownInv, IInv', NEW m \in Machines,
         Reconcile(m) \/ CloseObject(m) \/ CloseStatus(m) \/ Sync(m) \/ Create(m) \/ Delete(m)
  PROVE  GpuIds' /\ \A n \in Machines : Known(n)'
  <1>. USE DEF KnownInv, ContractInv
  <1>1. cloud' = cloud
    BY DEF Reconcile, CloseObject, CloseStatus, Sync, Create, Delete, Patch, PassUnchanged
  <1>2. GpusMove(m) BY <1>1, SameGpusMove
  <1>3. ASSUME NEW n \in Machines, n # m PROVE Known(n)'
    <2>1. obj'[n] = obj[n] /\ cache'[n] = cache[n] /\ old'[n] = old[n] /\ mem'[n] = mem[n] /\ at'[n] = at[n]
      BY <1>3 DEF Reconcile, CloseObject, CloseStatus, Sync, Create, Delete, Patch,
                  PassUnchanged, IInv, TypeInv, TypeOK
    <2>. QED BY <1>2, <2>1, OthersKnown
  <1>4. \A p : Start(p).phase = p /\ Start(p).gpu = 0 BY DEF Start
  <1>5. /\ obj[m] \in OscMachine /\ cache[m] \in OscMachine /\ old[m] \in OscMachine /\ mem[m] \in OscMachine
        /\ at[m] \in Position
    BY DEF IInv, TypeInv, TypeOK
  <1>6. /\ Generations(m) /\ BuildsUndeleted(m) /\ Unborn(m)
        /\ obj[m].gen \in Nat /\ obj[m].rec \in Nat /\ cache[m].gen \in Nat /\ cache[m].rec \in Nat
        /\ old[m].gen \in Nat /\ old[m].rec \in Nat /\ mem[m].gen \in Nat /\ mem[m].rec \in Nat
    BY <1>5 DEF Known, OscMachine
  <1>7. ASSUME \A i \in GpuNames(m)' : i \in GpuNames(m) \/ i = 0,
               Generations(m)', BuildsUndeleted(m)', Unborn(m)'
        PROVE  GpuIds' /\ \A n \in Machines : Known(n)'
    BY <1>2, <1>3, <1>7, GpuNamesKept, GpuIdsKept DEF Known
  <1>8. CASE Reconcile(m)
    <2>1. /\ obj'[m] = obj[m] /\ cache'[m] = cache[m] /\ old'[m] = cache[m]
          /\ mem'[m].gen = cache[m].gen /\ mem'[m].del = cache[m].del /\ mem'[m].rec = cache[m].rec
          /\ mem'[m].gpu = cache[m].gpu
          /\ at'[m].phase = (IF cache[m].del THEN "dVm" ELSE "vm") /\ at'[m].gpu = 0
      BY <1>4, <1>5, <1>8 DEF Reconcile, IInv, TypeInv, TypeOK, OscMachine
    <2>2. Generations(m)' BY <1>6, <2>1 DEF Generations, Copies
    <2>3. BuildsUndeleted(m)' BY <2>1 DEF BuildsUndeleted, Deleting
    <2>4. Unborn(m)' BY <1>6, <2>1 DEF Unborn, Asked
    <2>5. \A i \in GpuNames(m)' : i \in GpuNames(m) \/ i = 0 BY <2>1 DEF GpuNames
    <2>. QED BY <1>7, <2>2, <2>3, <2>4, <2>5
  <1>9. CASE CloseObject(m)
    <2>1. /\ cache'[m] = cache[m] /\ old'[m] = old[m] /\ mem'[m] = mem[m]
          /\ at'[m].phase = "status" /\ at'[m].gpu = 0
          /\ obj'[m] = obj[m] \/ obj'[m] = PatchedObject(m)
      BY <1>4, <1>9 DEF CloseObject, Patch, IInv, TypeInv, TypeOK
    <2>2. /\ obj'[m].gen \in {obj[m].gen, obj[m].gen + 1} /\ obj'[m].del = obj[m].del
          /\ obj'[m].vm = obj[m].vm /\ obj'[m].gpu = obj[m].gpu /\ obj'[m].fd = obj[m].fd
          /\ obj'[m].rec = obj[m].rec /\ obj'[m].ready = obj[m].ready
          /\ obj'[m] = obj[m] \/ Asked(m)'
      BY <1>5, <2>1, PatchedFields DEF Asked
    <2>3. Generations(m)'
      <3>1. \A y \in Copies(m)' : \/ \E x \in Copies(m) : y.gen = x.gen /\ y.rec = x.rec /\ y.del = x.del
                                  \/ y = obj'[m]
        BY <2>1, <2>2 DEF Copies
      <3>2. \A x \in Copies(m) : x.gen \in Nat /\ x.rec \in Nat BY <1>6 DEF Copies
      <3>3. obj[m] \in Copies(m) BY DEF Copies
      <3>. QED BY <1>6, <2>2, <3>1, <3>2, <3>3 DEF Generations
    <2>4. BuildsUndeleted(m)' BY <2>1 DEF BuildsUndeleted, Between
    <2>5. Unborn(m)' BY <1>6, <2>2 DEF Unborn, Asked
    <2>6. \A i \in GpuNames(m)' : i \in GpuNames(m) \/ i = 0 BY <2>1, <2>2 DEF GpuNames
    <2>. QED BY <1>7, <2>3, <2>4, <2>5, <2>6
  <1>10. CASE CloseStatus(m)
    <2>1. /\ cache'[m] = cache[m] /\ old'[m] = NewOscMachine /\ mem'[m] = NewOscMachine
          /\ at'[m].phase = "idle" /\ at'[m].gpu = 0 /\ at[m].phase = "status"
          /\ obj'[m] = obj[m] \/ obj'[m] = PatchedStatus(m)
      BY <1>4, <1>10 DEF CloseStatus, Patch, IInv, TypeInv, TypeOK
    <2>2. /\ obj'[m].gen = obj[m].gen /\ obj'[m].del = obj[m].del /\ obj'[m].exists = obj[m].exists
          /\ obj'[m].rec \in {obj[m].rec, mem[m].rec} /\ obj'[m].gpu \in {obj[m].gpu, mem[m].gpu}
      BY <1>5, <2>1, PatchedFields DEF Merge
    <2>3. Generations(m)'
      <3>1. obj[m] \in Copies(m) /\ mem[m] \in Copies(m) /\ cache[m] \in Copies(m) BY DEF Copies
      <3>2. \A y \in Copies(m)' : y = obj'[m] \/ y = cache[m] \/ y = NewOscMachine BY <2>1 DEF Copies
      <3>3. obj'[m].rec \in Nat BY <1>6, <2>2
      <3>4. ASSUME NEW y \in Copies(m)'
            PROVE  /\ y.gen <= obj[m].gen /\ y.rec <= obj[m].gen /\ (y.del => obj[m].del)
                   /\ obj[m].del => y.rec < obj[m].gen /\ (y.del \/ y.gen < obj[m].gen)
        <4>1. CASE y = obj'[m] BY <1>6, <2>2, <3>1, <4>1 DEF Generations
        <4>2. CASE y = cache[m] BY <1>6, <3>1, <4>2 DEF Generations
        <4>3. CASE y = NewOscMachine
          <5>1. y.gen = 1 /\ y.rec = 0 /\ ~y.del BY <4>3, NewMachine
          <5>2. obj[m].gen >= 1 /\ (obj[m].del => obj[m].gen > 1) BY <1>6 DEF Generations
          <5>. QED BY <1>6, <5>1, <5>2
        <4>. QED BY <3>2, <4>1, <4>2, <4>3
      <3>. QED BY <1>6, <2>2, <3>4 DEF Generations
    <2>4. BuildsUndeleted(m)' BY <2>1 DEF BuildsUndeleted, Between
    <2>5. Unborn(m)'
      <3>1. Asked(m) BY <2>1 DEF Kept, Born
      <3>. QED BY <2>2, <3>1 DEF Unborn, Asked
    <2>6. \A i \in GpuNames(m)' : i \in GpuNames(m) \/ i = 0 BY <2>1, <2>2, NewMachine DEF GpuNames
    <2>. QED BY <1>7, <2>3, <2>4, <2>5, <2>6
  <1>11. CASE Sync(m)
    <2>1. /\ obj'[m] = obj[m] /\ cache'[m] = obj[m] /\ old'[m] = old[m] /\ mem'[m] = mem[m] /\ at'[m] = at[m]
      BY <1>11 DEF Sync, PassUnchanged, IInv, TypeInv, TypeOK
    <2>2. Generations(m)' BY <1>6, <2>1 DEF Generations, Copies
    <2>3. BuildsUndeleted(m)' BY <1>6, <2>1 DEF BuildsUndeleted
    <2>4. Unborn(m)' BY <1>6, <2>1 DEF Unborn, Asked
    <2>5. \A i \in GpuNames(m)' : i \in GpuNames(m) \/ i = 0 BY <2>1 DEF GpuNames
    <2>. QED BY <1>7, <2>2, <2>3, <2>4, <2>5
  <1>12. CASE Create(m)
    <2>1. /\ obj'[m] = NewOscMachine /\ cache'[m] = cache[m] /\ old'[m] = old[m] /\ mem'[m] = mem[m]
          /\ at'[m] = at[m] /\ ~Asked(m) /\ ~obj[m].del
      BY <1>12 DEF Create, PassUnchanged, IInv, TypeInv, TypeOK, Asked
    <2>2. obj[m].gen = 1 BY <1>6, <2>1 DEF Unborn
    <2>3. Generations(m)'
      <3>1. \A y \in Copies(m)' : y \in Copies(m) \/ y = NewOscMachine BY <2>1 DEF Copies
      <3>2. obj'[m].gen = 1 /\ ~obj'[m].del BY <2>1, NewMachine
      <3>3. \A y \in Copies(m) : y.gen <= 1 /\ y.rec <= 1 /\ ~y.del BY <1>6, <2>1, <2>2 DEF Generations
      <3>4. ASSUME NEW y \in Copies(m)' PROVE y.gen <= 1 /\ y.rec <= 1 /\ ~y.del
        <4>1. CASE y = NewOscMachine
          <5>1. y.gen = 1 /\ y.rec = 0 /\ ~y.del BY <4>1, NewMachine
          <5>. QED BY <5>1
        <4>. QED BY <3>1, <3>3, <4>1
      <3>. QED BY <3>2, <3>4 DEF Generations
    <2>4. BuildsUndeleted(m)' BY <1>6, <2>1 DEF BuildsUndeleted
    <2>5. Unborn(m)' BY <2>1, NewMachine DEF Unborn, Asked
    <2>6. \A i \in GpuNames(m)' : i \in GpuNames(m) \/ i = 0 BY <2>1, NewMachine DEF GpuNames
    <2>. QED BY <1>7, <2>3, <2>4, <2>5, <2>6
  <1>13. CASE Delete(m)
    <2>1. /\ cache'[m] = cache[m] /\ old'[m] = old[m] /\ mem'[m] = mem[m] /\ at'[m] = at[m] /\ ~obj[m].del
          /\ obj'[m].gen = obj[m].gen + 1 /\ obj'[m].del /\ obj'[m].rec = obj[m].rec /\ obj'[m].gpu = obj[m].gpu
      BY <1>5, <1>13 DEF Delete, PassUnchanged, IInv, TypeInv, TypeOK, OscMachine
    <2>2. Generations(m)' BY <1>6, <2>1 DEF Generations, Copies
    <2>3. BuildsUndeleted(m)' BY <1>6, <2>1 DEF BuildsUndeleted
    <2>4. Unborn(m)' BY <2>1 DEF Unborn, Asked
    <2>5. \A i \in GpuNames(m)' : i \in GpuNames(m) \/ i = 0 BY <2>1 DEF GpuNames
    <2>. QED BY <1>7, <2>2, <2>3, <2>4, <2>5
  <1>. QED BY <1>8, <1>9, <1>10, <1>11, <1>12, <1>13

LEMMA RestartKnown ==
  ASSUME KnownInv, IInv', Restart
  PROVE  GpuIds' /\ \A n \in Machines : Known(n)'
  <1>1. cloud' = cloud BY DEF Restart
  <1>2. GpuIds' BY <1>1 DEF GpuIds, KnownInv
  <1>3. ASSUME NEW n \in Machines PROVE Known(n)'
    <2>1. /\ old'[n] = NewOscMachine /\ mem'[n] = NewOscMachine /\ obj'[n] = obj[n] /\ cache'[n] = cache[n]
          /\ at'[n].phase = "idle" /\ at'[n].gpu = 0
      BY DEF Restart, Start
    <2>2. Known(n) /\ obj[n].gen \in Nat BY DEF KnownInv, ContractInv, IInv, TypeInv, TypeOK, OscMachine
    <2>3. Generations(n)'
      <3>1. \A y \in Copies(n)' : y \in Copies(n) \/ y = NewOscMachine BY <2>1 DEF Copies
      <3>2. ASSUME NEW y \in Copies(n)'
            PROVE  /\ y.gen <= obj[n].gen /\ y.rec <= obj[n].gen /\ (y.del => obj[n].del)
                   /\ obj[n].del => y.rec < obj[n].gen /\ (y.del \/ y.gen < obj[n].gen)
        <4>1. CASE y \in Copies(n) BY <2>2, <4>1 DEF Known, Generations
        <4>2. CASE y = NewOscMachine
          <5>1. y.gen = 1 /\ y.rec = 0 /\ ~y.del BY <4>2, NewMachine
          <5>2. obj[n].gen >= 1 /\ (obj[n].del => obj[n].gen > 1) BY <2>2 DEF Known, Generations
          <5>. QED BY <2>2, <5>1, <5>2
        <4>. QED BY <3>1, <4>1, <4>2
      <3>. QED BY <2>1, <2>2, <3>2 DEF Known, Generations
    <2>4. BuildsUndeleted(n)' BY <2>1 DEF BuildsUndeleted, Between
    <2>5. Unborn(n)' BY <2>1, <2>2 DEF Known, Unborn, Asked
    <2>6. OwnGpus(n)'
      <3>1. \A i \in GpuNames(n)' : i \in GpuNames(n) \/ i = 0 BY <2>1, NewMachine DEF GpuNames
      <3>2. GpusMove(n) BY <1>1, SameGpusMove
      <3>. QED BY <3>1, <3>2, GpuNamesKept
    <2>. QED BY <2>3, <2>4, <2>5, <2>6 DEF Known
  <1>. QED BY <1>2, <1>3

LEMMA CloudMovesGpus ==
  ASSUME KnownInv, CloudMoves, NEW m \in Machines
  PROVE  GpusMove(m)
  <1>1. cloud \in Cloud /\ cloud.gpus \subseteq Gpu
    BY CloudParts DEF KnownInv, ContractInv, IInv, TypeInv, TypeOK
  <1>2. CASE VmBoots \/ VmVanishes
    <2>1. PICK S : cloud' = [cloud EXCEPT !.vms = S]
      BY <1>1, <1>2 DEF VmBoots, VmVanishes, CloudStep
    <2>2. cloud'.gpus = cloud.gpus /\ cloud'.next = cloud.next BY <1>1, <2>1 DEF Cloud
    <2>. QED BY <2>2, SameGpusMove
  <1>3. CASE VmTerminates
    <2>1. PICK v \in cloud.vms : CloudStep([cloud EXCEPT
                 !.vms = (@ \ {v}) \cup {[v EXCEPT !.state = "terminated", !.attached = FALSE]},
                 !.gpus = {g \in @ : g.m # v.m \/ g.state = "allocated"}])
      BY <1>3 DEF VmTerminates
    <2>. DEFINE w == [v EXCEPT !.state = "terminated", !.attached = FALSE]
    <2>2. cloud' = [cloud EXCEPT !.vms = (@ \ {v}) \cup {w},
                                 !.gpus = {g \in @ : g.m # v.m \/ g.state = "allocated"}]
      BY <2>1 DEF CloudStep
    <2>. HIDE DEF w
    <2>3. cloud'.gpus \subseteq cloud.gpus /\ cloud'.next = cloud.next BY <1>1, <2>2 DEF Cloud
    <2>. QED BY <2>3, SameGpusMove
  <1>4. CASE GpuAttaches
    <2>1. PICK g \in cloud.gpus :
            cloud' = [cloud EXCEPT !.gpus = {IF x = g THEN [x EXCEPT !.state = "attached"] ELSE x : x \in @}]
      BY <1>4 DEF GpuAttaches, CloudStep
    <2>. DEFINE f == [x \in cloud.gpus |-> IF x = g THEN [x EXCEPT !.state = "attached"] ELSE x]
    <2>2. /\ cloud'.gpus = {IF x = g THEN [x EXCEPT !.state = "attached"] ELSE x : x \in cloud.gpus}
          /\ cloud'.next = cloud.next
      BY <1>1, <2>1 DEF Cloud
    <2>3. \A h \in cloud'.gpus : \E x \in cloud.gpus : h = f[x] BY <2>2
    <2>4. \A x \in cloud.gpus : f[x].id = x.id /\ f[x].m = x.m BY <1>1 DEF Gpu
    <2>. HIDE DEF f
    <2>. QED BY <2>2, <2>3, <2>4, ChangedGpusMove
  <1>. QED BY <1>2, <1>3, <1>4 DEF CloudMoves

LEMMA NextKnownInv == KnownInv /\ [Next]_vars => KnownInv'
  <1>. SUFFICES ASSUME KnownInv, [Next]_vars PROVE GpuIds' /\ \A n \in Machines : Known(n)'
    BY NextContractInv DEF KnownInv
  <1>1. IInv' BY NextContractInv DEF KnownInv, ContractInv
  <1>2. ASSUME NEW m \in Machines, Pass(m) \/ LookupFails(m) \/ Sync(m) \/ Create(m) \/ Delete(m)
        PROVE  GpuIds' /\ \A n \in Machines : Known(n)'
    <2>1. CASE Reconcile(m) \/ CloseObject(m) \/ CloseStatus(m) \/ Sync(m) \/ Create(m) \/ Delete(m)
      BY <1>1, <2>1, ScopeKnown
    <2>2. CASE \/ Lookup(m) \/ Place(m) \/ LookupFails(m) \/ AllocateFGPU(m) \/ TagFGPU(m) \/ AllocateIP(m)
               \/ CreateVm(m) \/ LinkFGPU(m) \/ StartVm(m) \/ LinkBackend(m) \/ Finish(m)
               \/ LookupDeletedVm(m) \/ UnlinkBackend(m) \/ DeleteVm(m) \/ DeletePublicIp(m) \/ RemoveFinalizer(m)
      <3>1. PassReads(m) BY <2>2, LookupReads, PlaceReads, BuildReads, DeletionReads
      <3>2. GpusMove(m) BY <2>2, PassMovesGpus DEF Pass
      <3>. QED BY <1>1, <3>1, <3>2, ReadsKnown
    <2>. QED BY <1>2, <2>1, <2>2 DEF Pass
  <1>3. ASSUME UNCHANGED <<obj, cache, old, mem, at>>, \A m \in Machines : GpusMove(m)
        PROVE  GpuIds' /\ \A n \in Machines : Known(n)'
    <2>1. \A n \in Machines : Known(n)' BY <1>1, <1>3, OthersKnown
    <2>2. CASE Machines # {} BY <1>1, <1>3, <2>1, <2>2, GpuIdsKept
    <2>3. CASE Machines = {}
      <3>1. cloud'.gpus = {} BY <1>1, <2>3, CloudParts DEF IInv, TypeInv, TypeOK, Cloud, Gpu
      <3>. QED BY <2>1, <3>1 DEF GpuIds
    <2>. QED BY <2>2, <2>3
  <1>4. CASE CloudMoves
    <2>1. UNCHANGED <<obj, cache, old, mem, at>>
      BY <1>4 DEF CloudMoves, VmBoots, VmTerminates, VmVanishes, GpuAttaches, CloudStep, PassUnchanged
    <2>. QED BY <1>3, <1>4, <2>1, CloudMovesGpus
  <1>5. CASE InfrastructureReady \/ UNCHANGED vars
    <2>1. UNCHANGED <<obj, cache, old, mem, at>> /\ UNCHANGED cloud
      BY <1>5 DEF InfrastructureReady, PassUnchanged, vars
    <2>. QED BY <1>3, <2>1, SameGpusMove
  <1>. QED BY <1>1, <1>2, <1>4, <1>5, RestartKnown DEF Next

LEMMA InitKnownInv == Init => KnownInv
  <1>. SUFFICES ASSUME Init PROVE GpuIds /\ \A m \in Machines : Known(m)
    BY InitContractInv DEF KnownInv
  <1>1. cloud.gpus = {} /\ cloud.next = 1 BY DEF Init
  <1>2. ASSUME NEW m \in Machines PROVE Known(m)
    <2>. DEFINE first == [NewOscMachine EXCEPT !.exists = FALSE]
    <2>1. /\ ~first.exists /\ ~first.del /\ first.gen = 1 /\ first.rec = 0 /\ first.vm = 0 /\ first.gpu = 0
          /\ first.fd = "" /\ ~first.ready
      BY DEF NewOscMachine
    <2>2. obj[m] = first /\ cache[m] = first /\ old[m] = NewOscMachine /\ mem[m] = NewOscMachine BY DEF Init
    <2>3. at[m].phase = "idle" /\ at[m].gpu = 0 BY DEF Init, Start
    <2>. HIDE DEF first
    <2>4. ASSUME NEW y \in Copies(m) PROVE y.gen = 1 /\ y.rec = 0 /\ ~y.del /\ y.gpu = 0
      BY <2>1, <2>2, NewMachine DEF Copies
    <2>5. obj[m].gen = 1 /\ ~obj[m].del BY <2>1, <2>2
    <2>6. Generations(m) BY <2>4, <2>5 DEF Generations
    <2>7. BuildsUndeleted(m) BY <2>3 DEF BuildsUndeleted, Between
    <2>8. Unborn(m) BY <2>1, <2>2 DEF Unborn
    <2>9. \A i \in GpuNames(m) : i = 0 BY <2>3, <2>4 DEF GpuNames, Copies
    <2>10. OwnGpus(m) BY <1>1, <2>9 DEF OwnGpus
    <2>. QED BY <2>6, <2>7, <2>8, <2>10 DEF Known
  <1>. QED BY <1>1, <1>2 DEF GpuIds
--------------------------------------------------------------------------------------
(* What the cloud has of a machine. *)
CloudKept(n) ==
  /\ VmsOf(n)' = VmsOf(n) /\ GpusOf(n)' = GpusOf(n)
  /\ \A v \in VmsOf(n) : v.id \in cloud.backends => v.id \in cloud'.backends

LEMMA TaggedKept ==
  ASSUME NEW n \in Machines, GpusOf(n)' = GpusOf(n)
  PROVE  TaggedGpus(n)' = TaggedGpus(n)
  BY DEF TaggedGpus

LEMMA ServesKept ==
  ASSUME NEW n \in Machines, CloudKept(n), NEW v \in VmsOf(n), Serves(n, v)
  PROVE  Serves(n, v)'
  BY TaggedKept DEF Serves, CloudKept

(* Of a machine that is not being deleted. *)
LEMMA Undeleted ==
  ASSUME CompleteInv, NEW m \in Machines, ~obj[m].del
  PROVE  /\ at[m].phase \notin Deleting
         /\ \A v, w \in VmsOf(m) : v = w
         /\ \A v \in VmsOf(m) : /\ Live(v) /\ v \in Vm /\ v.id # 0 /\ v.m = m /\ v \in cloud.vms
                                /\ obj[m].vm \in {0, v.id} /\ mem[m].vm \in {0, v.id}
         /\ \A g \in GpusOf(m) : g \in Gpu /\ g.id # 0 /\ g.m = m /\ g \in cloud.gpus
         /\ Behind(m) /\ Domains(m) /\ RecordedServes(m) /\ VmPhases(m)
         /\ m \in GPU => GpuOfVm(m) /\ GpuPhases(m)
  <1>. USE DEF CompleteInv, KnownInv, ContractInv
  <1>1. ~cache[m].del /\ at[m].phase \notin Deleting BY DEF IInv, DeletionIsFinal
  <1>2. \A v, w \in VmsOf(m) : v = w BY DEF IInv, OneVm, VmsOf
  <1>3. \A v \in VmsOf(m) : Live(v) BY <1>1 DEF IInv, GoneIsCondemned, Condemned
  <1>4. \A v \in VmsOf(m) : v \in Vm /\ v.m = m /\ v \in cloud.vms
    BY CloudParts DEF IInv, TypeInv, TypeOK, VmsOf
  <1>5. \A v \in VmsOf(m) : v.id # 0 /\ obj[m].vm \in {0, v.id} /\ mem[m].vm \in {0, v.id}
    BY <1>4 DEF IInv, FreshIds, NamesAgree, Names
  <1>6. \A g \in GpusOf(m) : g \in Gpu /\ g.id # 0 /\ g.m = m /\ g \in cloud.gpus
    BY CloudParts DEF IInv, TypeInv, TypeOK, GpusOf, GpuIds
  <1>7. Built(m) /\ (m \in GPU => Equipped(m)) BY DEF Whole
  <1>. QED BY <1>1, <1>2, <1>3, <1>4, <1>5, <1>6, <1>7 DEF Built, Equipped

LEMMA OthersWhole ==
  ASSUME CompleteInv, NEW n \in Machines, CloudKept(n),
         obj'[n] = obj[n], cache'[n] = cache[n], old'[n] = old[n], mem'[n] = mem[n], at'[n] = at[n]
  PROVE  Whole(n)'
  <1>. SUFFICES ASSUME ~obj[n].del PROVE Built(n)' /\ (n \in GPU => Equipped(n)')
    BY DEF Whole
  <1>1. Copies(n)' = Copies(n) /\ TaggedGpus(n)' = TaggedGpus(n) /\ VmsOf(n)' = VmsOf(n) /\ GpusOf(n)' = GpusOf(n)
    BY TaggedKept DEF Copies, CloudKept
  <1>2. /\ Behind(n) /\ Domains(n) /\ RecordedServes(n) /\ VmPhases(n)
        /\ n \in GPU => GpuOfVm(n) /\ GpuPhases(n)
    BY Undeleted
  <1>3. Behind(n)' BY <1>2 DEF Behind
  <1>4. Domains(n)' BY <1>1, <1>2 DEF Domains
  <1>5. RecordedServes(n)' BY <1>1, <1>2, ServesKept DEF RecordedServes
  <1>6. VmPhases(n)' BY <1>1, <1>2 DEF VmPhases, CloudKept
  <1>7. n \in GPU => GpuOfVm(n)' BY <1>1, <1>2 DEF GpuOfVm
  <1>8. n \in GPU => GpuPhases(n)' BY <1>1, <1>2 DEF GpuPhases
  <1>. QED BY <1>3, <1>4, <1>5, <1>6, <1>7, <1>8 DEF Built, Equipped

(* A request is about the VM or the GPU of its machine. *)
LEMMA OtherVmsKept ==
  ASSUME NEW m \in Machines, NEW n \in Machines, n # m, NEW f,
         cloud'.vms = {f[v] : v \in cloud.vms}, \A v \in cloud.vms : f[v].m = v.m /\ (f[v] = v \/ v.m = m)
  PROVE  VmsOf(n)' = VmsOf(n)
  BY DEF VmsOf

LEMMA OtherGpusKept ==
  ASSUME NEW m \in Machines, NEW n \in Machines, n # m, NEW f,
         cloud'.gpus = {f[g] : g \in cloud.gpus}, \A g \in cloud.gpus : f[g].m = g.m /\ (f[g] = g \/ g.m = m)
  PROVE  GpusOf(n)' = GpusOf(n)
  BY DEF GpusOf

LEMMA GpuRequestElsewhere ==
  ASSUME KnownInv, NEW m \in Machines, NEW n \in Machines, n # m, NEW az, NEW i,
         \A g \in cloud.gpus : g.id = i => g.m = m,
         cloud' \in {GpuCreated(m, az), GpuTagged(i), GpuLinked(i)}
  PROVE  CloudKept(n)
  <1>1. IInv /\ cloud \in Cloud /\ cloud.gpus \subseteq Gpu
    BY CloudParts DEF KnownInv, ContractInv, IInv, TypeInv, TypeOK
  <1>2. cloud'.vms = cloud.vms /\ cloud'.backends = cloud.backends BY <1>1, AllocatedAlike
  <1>3. VmsOf(n)' = VmsOf(n) BY <1>2 DEF VmsOf
  <1>4. CASE cloud' = GpuCreated(m, az)
    <2>. DEFINE new == [id |-> cloud.next, m |-> m, az |-> az, state |-> "allocated", tagged |-> FALSE]
    <2>1. new.m = m OBVIOUS
    <2>2. cloud' = [cloud EXCEPT !.next = @ + 1, !.gpus = @ \cup {new}] BY <1>4 DEF GpuCreated
    <2>. HIDE DEF new
    <2>3. cloud'.gpus = cloud.gpus \cup {new} BY <1>1, <2>2 DEF Cloud
    <2>4. GpusOf(n)' = GpusOf(n) BY <2>1, <2>3 DEF GpusOf
    <2>. QED BY <1>2, <1>3, <2>4 DEF CloudKept
  <1>5. CASE cloud' = GpuTagged(i)
    <2>. DEFINE f == [g \in cloud.gpus |-> IF g.id = i THEN [g EXCEPT !.tagged = TRUE] ELSE g]
    <2>1. cloud'.gpus = {f[g] : g \in cloud.gpus} BY <1>1, <1>5 DEF GpuTagged, Cloud
    <2>2. \A g \in cloud.gpus : f[g].m = g.m /\ (f[g] = g \/ g.m = m) BY <1>1 DEF Gpu
    <2>. HIDE DEF f
    <2>3. GpusOf(n)' = GpusOf(n) BY <2>1, <2>2, OtherGpusKept
    <2>. QED BY <1>2, <1>3, <2>3 DEF CloudKept
  <1>6. CASE cloud' = GpuLinked(i)
    <2>. DEFINE f == [g \in cloud.gpus |-> IF g.id = i THEN [g EXCEPT !.state = "attaching"] ELSE g]
    <2>1. cloud'.gpus = {f[g] : g \in cloud.gpus} BY <1>1, <1>6 DEF GpuLinked, Cloud
    <2>2. \A g \in cloud.gpus : f[g].m = g.m /\ (f[g] = g \/ g.m = m) BY <1>1 DEF Gpu
    <2>. HIDE DEF f
    <2>3. GpusOf(n)' = GpusOf(n) BY <2>1, <2>2, OtherGpusKept
    <2>. QED BY <1>2, <1>3, <2>3 DEF CloudKept
  <1>. QED BY <1>4, <1>5, <1>6

LEMMA VmRequestElsewhere ==
  ASSUME KnownInv, NEW m \in Machines, NEW n \in Machines, n # m, NEW az, NEW ip, NEW i,
         \A v \in cloud.vms : v.id = i => v.m = m,
         cloud' \in {VmCreated(m, az, ip), VmStarted(i), VmTagged(i), VmDeleted(i),
                     BackendLinked(i), BackendUnlinked(i)}
  PROVE  CloudKept(n)
  <1>1. cloud \in Cloud /\ cloud.vms \subseteq Vm
    BY CloudParts DEF KnownInv, ContractInv, IInv, TypeInv, TypeOK
  <1>2. cloud'.gpus = cloud.gpus BY OtherRequestsKeepGpus
  <1>3. GpusOf(n)' = GpusOf(n) BY <1>2 DEF GpusOf
  <1>4. CASE cloud' = VmCreated(m, az, ip)
    <2>. DEFINE new == [id |-> cloud.next, m |-> m, az |-> az, state |-> "pending", ip |-> ip,
                        attached |-> FALSE, boot |-> m \notin GPU, ccm |-> FALSE]
    <2>1. new.m = m OBVIOUS
    <2>2. cloud' = [cloud EXCEPT !.next = @ + 1, !.vms = @ \cup {new}] BY <1>4 DEF VmCreated
    <2>. HIDE DEF new
    <2>3. cloud'.vms = cloud.vms \cup {new} /\ cloud'.backends = cloud.backends BY <1>1, <2>2 DEF Cloud
    <2>4. VmsOf(n)' = VmsOf(n) BY <2>1, <2>3 DEF VmsOf
    <2>. QED BY <1>3, <2>3, <2>4 DEF CloudKept
  <1>5. CASE cloud' = VmStarted(i)
    <2>. DEFINE f == [v \in cloud.vms |-> IF v.id = i THEN [v EXCEPT !.state = "pending", !.boot = TRUE] ELSE v]
    <2>1. cloud'.vms = {f[v] : v \in cloud.vms} /\ cloud'.backends = cloud.backends
      BY <1>1, <1>5 DEF VmStarted, Cloud
    <2>2. \A v \in cloud.vms : f[v].m = v.m /\ (f[v] = v \/ v.m = m) BY <1>1 DEF Vm
    <2>. HIDE DEF f
    <2>3. VmsOf(n)' = VmsOf(n) BY <2>1, <2>2, OtherVmsKept
    <2>. QED BY <1>3, <2>1, <2>3 DEF CloudKept
  <1>6. CASE cloud' = VmTagged(i)
    <2>. DEFINE f == [v \in cloud.vms |-> IF v.id = i THEN [v EXCEPT !.ccm = TRUE] ELSE v]
    <2>1. cloud'.vms = {f[v] : v \in cloud.vms} /\ cloud'.backends = cloud.backends
      BY <1>1, <1>6 DEF VmTagged, Cloud
    <2>2. \A v \in cloud.vms : f[v].m = v.m /\ (f[v] = v \/ v.m = m) BY <1>1 DEF Vm
    <2>. HIDE DEF f
    <2>3. VmsOf(n)' = VmsOf(n) BY <2>1, <2>2, OtherVmsKept
    <2>. QED BY <1>3, <2>1, <2>3 DEF CloudKept
  <1>7. CASE cloud' = VmDeleted(i)
    <2>. DEFINE f == [v \in cloud.vms |-> IF v.id = i /\ v.state # "terminated"
                                          THEN [v EXCEPT !.state = "shutting-down"] ELSE v]
    <2>1. /\ cloud'.vms = {IF v.id = i /\ v.state # "terminated"
                            THEN [v EXCEPT !.state = "shutting-down"] ELSE v : v \in cloud.vms}
          /\ cloud'.backends = cloud.backends
      BY <1>1, <1>7 DEF VmDeleted, Cloud
    <2>2. \A v \in cloud.vms : f[v].m = v.m /\ (f[v] = v \/ v.m = m) BY <1>1 DEF Vm
    <2>3. cloud'.vms = {f[v] : v \in cloud.vms} BY <2>1
    <2>. HIDE DEF f
    <2>4. VmsOf(n)' = VmsOf(n) BY <2>2, <2>3, OtherVmsKept
    <2>. QED BY <1>3, <2>1, <2>4 DEF CloudKept
  <1>8. CASE cloud' \in {BackendLinked(i), BackendUnlinked(i)}
    <2>1. cloud'.vms = cloud.vms /\ cloud.backends \ {i} \subseteq cloud'.backends
      BY <1>1, <1>8 DEF BackendLinked, BackendUnlinked, Cloud
    <2>2. VmsOf(n)' = VmsOf(n) BY <2>1 DEF VmsOf
    <2>3. \A v \in VmsOf(n) : v.id # i BY DEF VmsOf
    <2>. QED BY <1>3, <2>1, <2>2, <2>3 DEF CloudKept
  <1>. QED BY <1>4, <1>5, <1>6, <1>7, <1>8

LEMMA IpRequestKeeps ==
  ASSUME KnownInv, NEW i, cloud' \in {cloud, IpCreated, IpDeleted(i)}, NEW n \in Machines
  PROVE  CloudKept(n)
  <1>1. cloud \in Cloud BY DEF KnownInv, ContractInv, IInv, TypeInv, TypeOK
  <1>2. /\ cloud'.gpus = cloud.gpus /\ cloud'.vms = cloud.vms /\ cloud'.backends = cloud.backends
    BY <1>1 DEF IpCreated, IpDeleted, Cloud
  <1>. QED BY <1>2 DEF CloudKept, VmsOf, GpusOf

LEMMA PassElsewhere ==
  ASSUME KnownInv, NEW m \in Machines, Pass(m) \/ LookupFails(m), NEW n \in Machines, n # m
  PROVE  CloudKept(n)
  <1>1. CASE cloud' = cloud BY <1>1, IpRequestKeeps
  <1>2. /\ \A v \in cloud.vms : v.id = mem[m].vm => v.m = m
        /\ \A g \in cloud.gpus : g.id = mem[m].gpu \/ g.id = at[m].gpu => g.m = m
    BY DEF KnownInv, ContractInv, IInv, OwnVms, Names, Known, OwnGpus, GpuNames
  <1>3. CASE AllocateFGPU(m)
    <2>1. cloud' = cloud \/ cloud' = GpuCreated(m, at[m].az)
      BY <1>3 DEF AllocateFGPU, Call, Continue, EndPass
    <2>2. CASE cloud' \in {GpuCreated(m, at[m].az), GpuTagged(at[m].gpu), GpuLinked(at[m].gpu)}
      BY <1>2, <2>2, GpuRequestElsewhere
    <2>. QED BY <1>1, <2>1, <2>2
  <1>4. CASE TagFGPU(m)
    <2>1. cloud' = cloud \/ cloud' = GpuTagged(at[m].gpu) BY <1>4 DEF TagFGPU, Call
    <2>. QED BY <1>1, <1>2, <2>1, GpuRequestElsewhere
  <1>5. CASE LinkFGPU(m)
    <2>1. cloud' = cloud \/ cloud' = GpuLinked(mem[m].gpu) BY <1>5 DEF LinkFGPU, Call
    <2>. QED BY <1>1, <1>2, <2>1, GpuRequestElsewhere
  <1>6. CASE AllocateIP(m) \/ DeletePublicIp(m)
    <2>1. cloud' \in {cloud, IpCreated, IpDeleted(mem[m].ip)}
      BY <1>6 DEF AllocateIP, DeletePublicIp, Call, Continue, EndPass
    <2>. QED BY <2>1, IpRequestKeeps
  <1>7. CASE CreateVm(m)
    <2>1. PICK ip : cloud' = cloud \/ cloud' = VmCreated(m, at[m].az, ip) BY <1>7 DEF CreateVm, Call
    <2>. QED BY <1>1, <1>2, <2>1, VmRequestElsewhere
  <1>8. CASE StartVm(m)
    <2>1. cloud' = cloud \/ cloud' = VmStarted(mem[m].vm) BY <1>8 DEF StartVm, Call
    <2>. QED BY <1>1, <1>2, <2>1, VmRequestElsewhere
  <1>9. CASE LinkBackend(m) \/ UnlinkBackend(m)
    <2>1. cloud' = cloud \/ cloud' \in {BackendLinked(mem[m].vm), BackendUnlinked(mem[m].vm)}
      BY <1>9 DEF LinkBackend, UnlinkBackend, Call, Continue
    <2>. QED BY <1>1, <1>2, <2>1, VmRequestElsewhere
  <1>10. CASE Finish(m)
    <2>1. PICK v \in cloud.vms : v.id = mem[m].vm /\ (cloud' = cloud \/ cloud' = VmTagged(v.id))
      BY <1>10 DEF Finish, Call, EndPass, Continue
    <2>. QED BY <1>1, <1>2, <2>1, VmRequestElsewhere
  <1>11. CASE DeleteVm(m)
    <2>1. cloud' = cloud \/ cloud' = VmDeleted(mem[m].vm) BY <1>11 DEF DeleteVm, Call
    <2>. QED BY <1>1, <1>2, <2>1, VmRequestElsewhere
  <1>12. CASE \/ Reconcile(m) \/ Lookup(m) \/ Place(m) \/ LookupDeletedVm(m) \/ RemoveFinalizer(m)
              \/ CloseObject(m) \/ CloseStatus(m) \/ LookupFails(m)
    BY <1>1, <1>12 DEF Reconcile, Lookup, Place, LookupDeletedVm, RemoveFinalizer, CloseObject, CloseStatus,
                       LookupFails, Patch, EndPass, Continue
  <1>. QED BY <1>3, <1>4, <1>5, <1>6, <1>7, <1>8, <1>9, <1>10, <1>11, <1>12 DEF Pass
--------------------------------------------------------------------------------------
(* The steps of a pass over a machine that is not being deleted, for the   *)
(* machine itself.                                                         *)
Unmoved(m) == obj'[m] = obj[m] /\ cache'[m] = cache[m] /\ old'[m] = old[m]

LEMMA CallOutcome ==
  ASSUME KnownInv, NEW m \in Machines, NEW after, NEW a, NEW seen, NEW o, Call(m, after, a, seen, o)
  PROVE  /\ Unmoved(m)
         /\ \/ cloud' = after /\ at'[m] = a /\ mem'[m] = o
            \/ cloud' \in {after, cloud} /\ at'[m] = Start("patch") /\ mem'[m] = seen
  <1>1. at \in [Machines -> Position] /\ mem \in [Machines -> OscMachine]
    BY DEF KnownInv, ContractInv, IInv, TypeInv, TypeOK
  <1>. QED BY <1>1 DEF Call, Unmoved

LEMMA ContinueOutcome ==
  ASSUME KnownInv, NEW m \in Machines, NEW a, NEW o, Continue(m, a, o)
  PROVE  Unmoved(m) /\ cloud' = cloud /\ at'[m] = a /\ mem'[m] = o
  <1>1. at \in [Machines -> Position] /\ mem \in [Machines -> OscMachine]
    BY DEF KnownInv, ContractInv, IInv, TypeInv, TypeOK
  <1>. QED BY <1>1 DEF Continue, Unmoved

LEMMA RestKept ==
  ASSUME CompleteInv, NEW m \in Machines, ~obj[m].del, Unmoved(m),
         \A v \in VmsOf(m) : \E w \in VmsOf(m)' : w.az = v.az /\ (Serves(m, v) => Serves(m, w)'),
         mem'[m].vm = mem[m].vm \/ mem'[m].vm # 0, mem'[m].fd = mem[m].fd, mem'[m].rec = mem[m].rec,
         mem[m].ready => mem'[m].ready
  PROVE  Behind(m)' /\ Domains(m)' /\ RecordedServes(m)'
  <1>1. Behind(m) /\ Domains(m) /\ RecordedServes(m) BY Undeleted
  <1>2. obj'[m] = obj[m] /\ cache'[m] = cache[m] /\ old'[m] = old[m] BY DEF Unmoved
  <1>3. Behind(m)' BY <1>1, <1>2 DEF Behind
  <1>4. \A y \in Copies(m)' : \E x \in Copies(m) :
          /\ y.fd = x.fd /\ y.rec = x.rec /\ (x.vm # 0 => y.vm # 0) /\ (x.ready => y.ready)
    BY <1>2 DEF Copies
  <1>5. Domains(m)'
    <2>1. ASSUME NEW y \in Copies(m)', y.fd # "" PROVE \E w \in VmsOf(m)' : y.fd = w.az
      <3>1. PICK x \in Copies(m) : y.fd = x.fd BY <1>4
      <3>2. PICK v \in VmsOf(m) : x.fd = v.az BY <1>1, <2>1, <3>1 DEF Domains
      <3>3. PICK w \in VmsOf(m)' : w.az = v.az OBVIOUS
      <3>. QED BY <3>1, <3>2, <3>3
    <2>. QED BY <2>1 DEF Domains
  <1>6. RecordedServes(m)' BY <1>1, <1>4 DEF RecordedServes
  <1>. QED BY <1>3, <1>5, <1>6

LEMMA EquipmentKept ==
  ASSUME CompleteInv, NEW m \in GPU, ~obj[m].del, Unmoved(m), VmsOf(m)' = VmsOf(m),
         TaggedGpus(m)' = TaggedGpus(m),
         mem'[m].gpu = mem[m].gpu \/ \E g \in TaggedGpus(m) : g.id = mem'[m].gpu
  PROVE  GpuOfVm(m)'
  <1>1. m \in Machines BY MachineAssumption DEF Workers
  <1>2. GpuOfVm(m) BY <1>1, Undeleted
  <1>3. \A y \in Copies(m)' : \/ \E x \in Copies(m) : y.gpu = x.gpu
                              \/ \E g \in TaggedGpus(m) : g.id = y.gpu
    BY DEF Copies, Unmoved
  <1>. QED BY <1>2, <1>3 DEF GpuOfVm

LEMMA OtherPhases ==
  ASSUME NEW m \in Machines, at'[m].phase \in {"idle", "vm", "patch", "status"}
  PROVE  VmPhases(m)' /\ GpuPhases(m)'
  BY DEF VmPhases, GpuPhases

LEMMA SameCloudRest ==
  ASSUME CompleteInv, NEW m \in Machines, ~obj[m].del, Unmoved(m), CloudKept(m),
         mem'[m].vm = mem[m].vm, mem'[m].fd = mem[m].fd, mem'[m].rec = mem[m].rec,
         mem'[m].ready = mem[m].ready, mem'[m].gpu = mem[m].gpu
  PROVE  /\ Behind(m)' /\ Domains(m)' /\ RecordedServes(m)' /\ (m \in GPU => GpuOfVm(m)')
         /\ at'[m].phase \in {"idle", "vm", "patch", "status"} => Whole(m)'
  <1>1. \A v \in VmsOf(m) : \E w \in VmsOf(m)' : w.az = v.az /\ (Serves(m, v) => Serves(m, w)')
    BY ServesKept DEF CloudKept
  <1>2. Behind(m)' /\ Domains(m)' /\ RecordedServes(m)' BY <1>1, RestKept
  <1>3. m \in GPU => GpuOfVm(m)' BY TaggedKept, EquipmentKept DEF CloudKept
  <1>. QED BY <1>2, <1>3, OtherPhases DEF Whole, Built, Equipped

LEMMA SameCloud ==
  ASSUME NEW m \in Machines, cloud' = cloud
  PROVE  CloudKept(m)
  BY DEF CloudKept, VmsOf, GpusOf

(* Lookup: the GPU that is found is the tagged one. *)
LEMMA FoundGpuIsTagged ==
  ASSUME CompleteInv, NEW m \in GPU, ~obj[m].del, NEW g \in FoundGpus(m)
  PROVE  (g \in TaggedGpus(m) /\ g.id # 0) \/ (g = NoGpu /\ TaggedGpus(m) = {})
  <1>1. m \in Machines BY MachineAssumption DEF Workers
  <1>2. GpuOfVm(m) /\ \A h \in GpusOf(m) : h.id # 0 /\ h \in cloud.gpus BY <1>1, Undeleted
  <1>3. CASE mem[m].gpu # 0
    <2>1. PICK h \in TaggedGpus(m) : h.id = mem[m].gpu BY <1>2, <1>3 DEF GpuOfVm, Copies
    <2>2. h \in cloud.gpus BY <1>2 DEF TaggedGpus
    <2>3. {x \in cloud.gpus : x.id = mem[m].gpu} = {h}
      BY <2>1, <2>2 DEF CompleteInv, KnownInv, GpuIds
    <2>4. FoundGpus(m) = {h} BY <1>3, <2>3 DEF FoundGpus
    <2>. QED BY <1>2, <2>1, <2>4 DEF TaggedGpus
  <1>4. CASE mem[m].gpu = 0
    <2>1. FoundGpus(m) = IF TaggedGpus(m) = {} THEN {NoGpu} ELSE TaggedGpus(m) BY <1>4 DEF FoundGpus, TaggedGpus
    <2>. QED BY <1>2, <2>1 DEF TaggedGpus
  <1>. QED BY <1>3, <1>4

LEMMA LookupWhole ==
  ASSUME CompleteInv, NEW m \in Machines, ~obj[m].del, Lookup(m)
  PROVE  Whole(m)'
  <1>1. at[m].phase = "vm" /\ mem[m] \in OscMachine /\ KnownInv
    BY DEF Lookup, CompleteInv, KnownInv, ContractInv, IInv, TypeInv, TypeOK
  <1>2. \A p : Start(p).phase = p /\ Start(p).gpu = 0 BY DEF Start
  <1>3. CASE EndPass(m, mem[m])
    <2>1. Unmoved(m) /\ cloud' = cloud /\ at'[m] = Start("patch") /\ mem'[m] = mem[m]
      BY <1>1, <1>3, ContinueOutcome DEF EndPass
    <2>. QED BY <1>2, <2>1, SameCloud, SameCloudRest
  <1>4. CASE ~EndPass(m, mem[m])
    <2>1. PICK g \in FoundGpus(m) :
            LET o == [mem[m] EXCEPT !.gpu = IF g.id = 0 THEN @ ELSE g.id]
            IN \/ /\ FoundVms(m) = {}
                  /\ Continue(m, [Start("place") EXCEPT !.gpu = g.id], o)
               \/ \E v \in FoundVms(m) :
                    LET p == AfterLookup(m, v, g)
                    IN Continue(m, Start(p), [Tracked(o, v) EXCEPT !.ready = @ \/ p \in {"lb", "tags"}])
      BY <1>4 DEF Lookup
    <2>. DEFINE o == [mem[m] EXCEPT !.gpu = IF g.id = 0 THEN @ ELSE g.id]
    <2>2. /\ o.vm = mem[m].vm /\ o.fd = mem[m].fd /\ o.rec = mem[m].rec /\ o.ready = mem[m].ready
          /\ o.gpu = IF g.id = 0 THEN mem[m].gpu ELSE g.id
      BY <1>1 DEF OscMachine
    <2>3. ASSUME Unmoved(m), cloud' = cloud, mem'[m].gpu = o.gpu, m \in GPU
          PROVE  /\ GpuOfVm(m)' /\ TaggedGpus(m)' = TaggedGpus(m)
                 /\ (g \in TaggedGpus(m) /\ g.id # 0 /\ mem'[m].gpu = g.id) \/ (g = NoGpu /\ TaggedGpus(m) = {})
      <3>1. CloudKept(m) BY <2>3, SameCloud
      <3>2. (g \in TaggedGpus(m) /\ g.id # 0) \/ (g = NoGpu /\ TaggedGpus(m) = {}) BY <2>3, FoundGpuIsTagged
      <3>3. NoGpu.id = 0 BY DEF NoGpu
      <3>4. VmsOf(m)' = VmsOf(m) /\ TaggedGpus(m)' = TaggedGpus(m) BY <3>1, TaggedKept DEF CloudKept
      <3>5. mem'[m].gpu = mem[m].gpu \/ \E h \in TaggedGpus(m) : h.id = mem'[m].gpu BY <2>2, <2>3, <3>2, <3>3
      <3>. HIDE DEF o
      <3>6. GpuOfVm(m)' BY <2>3, <3>4, <3>5, EquipmentKept
      <3>. QED BY <2>2, <2>3, <3>2, <3>4, <3>6
    <2>4. CASE FoundVms(m) = {} /\ Continue(m, [Start("place") EXCEPT !.gpu = g.id], o)
      <3>. DEFINE a == [Start("place") EXCEPT !.gpu = g.id]
      <3>1. a.gpu = g.id /\ a.phase = "place" BY DEF Start
      <3>2. Unmoved(m) /\ cloud' = cloud /\ at'[m] = a /\ mem'[m] = o BY <1>1, <2>4, ContinueOutcome
      <3>. HIDE DEF o, a
      <3>3. CloudKept(m) BY <3>2, SameCloud
      <3>4. \A v \in VmsOf(m) : \E w \in VmsOf(m)' : w.az = v.az /\ (Serves(m, v) => Serves(m, w)')
        BY <3>3, ServesKept DEF CloudKept
      <3>5. Behind(m)' /\ Domains(m)' /\ RecordedServes(m)' BY <2>2, <3>2, <3>4, RestKept
      <3>6. VmPhases(m)' BY <3>1, <3>2 DEF VmPhases
      <3>7. NoGpu.id = 0 BY DEF NoGpu
      <3>8. m \in GPU => GpuOfVm(m)' /\ GpuPhases(m)' BY <2>3, <3>1, <3>2, <3>7 DEF GpuPhases
      <3>. QED BY <3>5, <3>6, <3>8 DEF Whole, Built, Equipped
    <2>5. ASSUME NEW v \in FoundVms(m),
                 Continue(m, Start(AfterLookup(m, v, g)),
                   [Tracked(o, v) EXCEPT !.ready = @ \/ AfterLookup(m, v, g) \in {"lb", "tags"}])
          PROVE  Whole(m)'
      <3>. DEFINE p == AfterLookup(m, v, g)
                  t == Tracked(o, v)
                  q == [t EXCEPT !.ready = @ \/ p \in {"lb", "tags"}]
      <3>1. v \in VmsOf(m) BY <1>1, FoundIsOwn DEF KnownInv, ContractInv
      <3>2. /\ p \in {"gpuLink", "start", "lb", "tags", "patch"}
            /\ p = "gpuLink" => g.state = "allocated" /\ v.state = "stopped"
            /\ p = "start" => Usable(g) /\ v.state = "stopped"
            /\ p \in {"lb", "tags"} => v.state = "running"
            /\ p = "tags" => m \notin Balanced
        BY DEF AfterLookup
      <3>. HIDE DEF p
      <3>3. /\ q.vm = v.id /\ q.fd = mem[m].fd /\ q.rec = mem[m].rec /\ q.gpu = o.gpu
            /\ q.ready = (mem[m].ready \/ p \in {"lb", "tags"})
        BY <1>1 DEF Tracked, OscMachine
      <3>4. Continue(m, Start(p), q) BY <2>5 DEF p
      <3>. HIDE DEF o, t, q
      <3>5. Unmoved(m) /\ cloud' = cloud /\ at'[m].phase = p /\ mem'[m] = q
        BY <1>1, <1>2, <3>4, ContinueOutcome
      <3>6. CloudKept(m) BY <3>5, SameCloud
      <3>7. VmsOf(m)' = VmsOf(m) /\ v.id # 0 BY <3>1, <3>6, Undeleted DEF CloudKept
      <3>8. \A x \in VmsOf(m) : \E w \in VmsOf(m)' : w.az = x.az /\ (Serves(m, x) => Serves(m, w)')
        BY <3>6, ServesKept DEF CloudKept
      <3>9. Behind(m)' /\ Domains(m)' /\ RecordedServes(m)' BY <3>3, <3>5, <3>7, <3>8, RestKept
      <3>10. VmPhases(m)' BY <3>1, <3>2, <3>3, <3>5, <3>7 DEF VmPhases
      <3>11. NoGpu.state = "none" BY DEF NoGpu
      <3>12. ASSUME m \in GPU PROVE GpuOfVm(m)' /\ GpuPhases(m)'
        <4>1. /\ GpuOfVm(m)' /\ TaggedGpus(m)' = TaggedGpus(m)
              /\ (g \in TaggedGpus(m) /\ mem'[m].gpu = g.id) \/ (g = NoGpu /\ TaggedGpus(m) = {})
          BY <2>3, <3>3, <3>5, <3>12
        <4>2. TaggedGpus(m) # {} BY <3>1, <3>12, Undeleted DEF GpuOfVm
        <4>3. g \in TaggedGpus(m) /\ mem'[m].gpu = g.id BY <4>1, <4>2
        <4>4. g.state # "none" BY <4>3, Undeleted DEF TaggedGpus, Gpu, GpuState
        <4>. QED BY <3>2, <3>5, <4>1, <4>3, <4>4 DEF GpuPhases, Usable
      <3>. QED BY <3>9, <3>10, <3>12 DEF Whole, Built, Equipped
    <2>. QED BY <2>1, <2>4, <2>5
  <1>. QED BY <1>3, <1>4

LEMMA PlaceWhole ==
  ASSUME CompleteInv, NEW m \in Machines, ~obj[m].del, Place(m) \/ LookupFails(m)
  PROVE  Whole(m)'
  <1>1. at \in [Machines -> Position] /\ Unmoved(m) /\ cloud' = cloud /\ mem'[m] = mem[m]
    BY DEF Place, LookupFails, Unmoved, CompleteInv, KnownInv, ContractInv, IInv, TypeInv, TypeOK
  <1>2. CloudKept(m) BY <1>1, SameCloud
  <1>3. Start("patch").phase = "patch" BY DEF Start
  <1>4. CASE at'[m] = Start("patch") BY <1>1, <1>2, <1>3, <1>4, SameCloudRest
  <1>5. CASE Place(m) /\ at'[m] # Start("patch")
    <2>1. PICK r \in CASE at[m].gpu # 0 -> {<<g.az, alloc>> : g \in {x \in cloud.gpus : x.id = at[m].gpu}}
                      [] at[m].gpu = 0 /\ FailureDomain[m] # "" -> {<<FailureDomain[m], alloc>>}
                      [] OTHER -> AllocateAZ(m, {x \in Workers : cache[x].exists},
                                                [x \in Workers |-> cache[x].fd]) :
            at' = [at EXCEPT ![m] = IF r[1] \notin AZs THEN Start("patch")
                                    ELSE [@ EXCEPT !.phase = "gpu", !.az = r[1]]]
      BY <1>5 DEF Place
    <2>2. at'[m] = [at[m] EXCEPT !.phase = "gpu", !.az = r[1]] BY <1>1, <1>5, <2>1
    <2>3. at'[m].phase = "gpu" /\ at'[m].az = r[1] /\ at'[m].gpu = at[m].gpu /\ at[m].phase = "place"
      <3>1. at[m].phase = "place" /\ at[m] \in Position BY <1>1, <1>5 DEF Place
      <3>. QED BY <2>2, <3>1 DEF Position
    <2>4. Behind(m)' /\ Domains(m)' /\ RecordedServes(m)' /\ (m \in GPU => GpuOfVm(m)')
      BY <1>1, <1>2, SameCloudRest
    <2>5. VmPhases(m)' BY <2>3 DEF VmPhases
    <2>6. ASSUME m \in GPU PROVE GpuPhases(m)'
      <3>1. GpuPhases(m) /\ TaggedGpus(m)' = TaggedGpus(m) BY <1>2, <2>6, Undeleted, TaggedKept DEF CloudKept
      <3>2. CASE at[m].gpu = 0 BY <2>3, <3>1, <3>2 DEF GpuPhases
      <3>3. CASE at[m].gpu # 0
        <4>1. PICK g \in TaggedGpus(m) : g.id = at[m].gpu BY <2>3, <3>1, <3>3 DEF GpuPhases
        <4>2. g \in cloud.gpus BY DEF TaggedGpus, GpusOf
        <4>3. \A x \in cloud.gpus : x.id = at[m].gpu => x = g BY <4>1, <4>2 DEF CompleteInv, KnownInv, GpuIds
        <4>4. PICK x \in cloud.gpus : x.id = at[m].gpu /\ r = <<x.az, alloc>> BY <2>1, <3>3
        <4>5. r[1] = g.az BY <4>3, <4>4
        <4>. QED BY <2>3, <3>1, <3>3, <4>1, <4>5 DEF GpuPhases
      <3>. QED BY <3>2, <3>3
    <2>. QED BY <2>4, <2>5, <2>6 DEF Whole, Built, Equipped
  <1>. QED BY <1>4, <1>5 DEF LookupFails, Place, CompleteInv, KnownInv, ContractInv, IInv, TypeInv, TypeOK

LEMMA AllocateFGPUWhole ==
  ASSUME CompleteInv, NEW m \in Machines, ~obj[m].del, AllocateFGPU(m)
  PROVE  Whole(m)'
  <1>1. /\ at[m].phase = "gpu" /\ at[m] \in Position /\ cloud \in Cloud /\ KnownInv /\ IInv
    BY DEF AllocateFGPU, CompleteInv, KnownInv, ContractInv, IInv, TypeInv, TypeOK
  <1>2. Start("patch").phase = "patch" BY DEF Start
  <1>3. CASE Continue(m, To(m, "ip"), mem[m])
    <2>1. Unmoved(m) /\ cloud' = cloud /\ at'[m] = To(m, "ip") /\ mem'[m] = mem[m]
      BY <1>1, <1>3, ContinueOutcome
    <2>2. CloudKept(m) BY <2>1, SameCloud
    <2>3. at'[m].phase = "ip" /\ at'[m].az = at[m].az BY <1>1, <2>1 DEF To, Position
    <2>4. Behind(m)' /\ Domains(m)' /\ RecordedServes(m)' /\ (m \in GPU => GpuOfVm(m)')
      BY <2>1, <2>2, SameCloudRest
    <2>5. VmPhases(m)' BY <2>3 DEF VmPhases
    <2>6. ASSUME m \in GPU PROVE GpuPhases(m)'
      <3>1. GpuPhases(m) /\ TaggedGpus(m)' = TaggedGpus(m) BY <2>2, <2>6, Undeleted, TaggedKept DEF CloudKept
      <3>2. CASE at[m].gpu # 0 BY <1>1, <2>3, <3>1, <3>2 DEF GpuPhases
      <3>3. at[m].gpu # 0
        <4>1. ASSUME at[m].gpu = 0 PROVE at'[m].phase \in {"patch", "gpuTag"}
          <5>. DEFINE b == [To(m, "gpuTag") EXCEPT !.gpu = cloud.next]
          <5>1. b.phase = "gpuTag" BY <1>1 DEF To, Position
          <5>2. EndPass(m, mem[m]) \/ Call(m, GpuCreated(m, at[m].az), b, mem[m], mem[m])
            BY <2>6, <4>1 DEF AllocateFGPU
          <5>. HIDE DEF b
          <5>. QED BY <1>1, <1>2, <5>1, <5>2, ContinueOutcome, CallOutcome DEF EndPass
        <4>. QED BY <2>3, <4>1
      <3>. QED BY <3>2, <3>3
    <2>. QED BY <2>4, <2>5, <2>6 DEF Whole, Built, Equipped
  <1>4. CASE EndPass(m, mem[m])
    <2>1. Unmoved(m) /\ cloud' = cloud /\ at'[m] = Start("patch") /\ mem'[m] = mem[m]
      BY <1>1, <1>4, ContinueOutcome DEF EndPass
    <2>. QED BY <1>2, <2>1, SameCloud, SameCloudRest
  <1>5. CASE /\ m \in GPU /\ at[m].gpu = 0
             /\ Call(m, GpuCreated(m, at[m].az), [To(m, "gpuTag") EXCEPT !.gpu = cloud.next], mem[m], mem[m])
    <2>. DEFINE a == [To(m, "gpuTag") EXCEPT !.gpu = cloud.next]
                new == [id |-> cloud.next, m |-> m, az |-> at[m].az, state |-> "allocated", tagged |-> FALSE]
    <2>1. a.phase = "gpuTag" /\ a.gpu = cloud.next /\ a.az = at[m].az BY <1>1 DEF To, Position
    <2>2. new.id = cloud.next /\ new.m = m /\ new.az = at[m].az /\ new.tagged = FALSE OBVIOUS
    <2>3. /\ Unmoved(m) /\ mem'[m] = mem[m]
          /\ (cloud' = GpuCreated(m, at[m].az) /\ at'[m] = a) \/ at'[m] = Start("patch")
          /\ cloud' \in {cloud, GpuCreated(m, at[m].az)}
      BY <1>1, <1>5, CallOutcome
    <2>4. cloud' = GpuCreated(m, at[m].az) => cloud' = [cloud EXCEPT !.next = @ + 1, !.gpus = @ \cup {new}]
      BY DEF GpuCreated
    <2>. HIDE DEF a, new
    <2>5. /\ cloud'.vms = cloud.vms /\ cloud'.backends = cloud.backends
          /\ cloud'.gpus \in {cloud.gpus, cloud.gpus \cup {new}}
          /\ cloud' = GpuCreated(m, at[m].az) => cloud'.gpus = cloud.gpus \cup {new}
      BY <1>1, <2>3, <2>4 DEF Cloud
    <2>6. VmsOf(m)' = VmsOf(m) BY <2>5 DEF VmsOf
    <2>7. TaggedGpus(m)' = TaggedGpus(m) BY <2>2, <2>5 DEF TaggedGpus, GpusOf
    <2>8. ASSUME NEW v \in VmsOf(m), Serves(m, v) PROVE Serves(m, v)' BY <2>5, <2>7, <2>8 DEF Serves
    <2>9. Behind(m)' /\ Domains(m)' /\ RecordedServes(m)' BY <2>3, <2>6, <2>8, RestKept
    <2>10. GpuOfVm(m)' BY <1>5, <2>3, <2>6, <2>7, EquipmentKept
    <2>11. VmPhases(m)' BY <1>2, <2>1, <2>3 DEF VmPhases
    <2>12. GpuPhases(m)'
      <3>1. CASE at'[m] = Start("patch") BY <1>2, <3>1, OtherPhases
      <3>2. CASE cloud' = GpuCreated(m, at[m].az) /\ at'[m] = a
        <4>1. TaggedGpus(m) = {} BY <1>1, <1>5, Undeleted DEF GpuPhases
        <4>2. new \in GpusOf(m)' BY <2>2, <2>5, <3>2 DEF GpusOf
        <4>. QED BY <2>1, <2>2, <2>7, <3>2, <4>1, <4>2 DEF GpuPhases
      <3>. QED BY <2>3, <3>1, <3>2
    <2>. QED BY <2>9, <2>10, <2>11, <2>12 DEF Whole, Built, Equipped
  <1>. QED BY <1>3, <1>4, <1>5 DEF AllocateFGPU

LEMMA TagFGPUWhole ==
  ASSUME CompleteInv, NEW m \in Machines, ~obj[m].del, TagFGPU(m)
  PROVE  Whole(m)'
  <1>1. /\ at[m].phase = "gpuTag" /\ at[m] \in Position /\ cloud \in Cloud /\ KnownInv /\ IInv
    BY DEF TagFGPU, CompleteInv, KnownInv, ContractInv, IInv, TypeInv, TypeOK
  <1>2. VmsOf(m) = {} BY <1>1 DEF IInv, NoVmYet, Building
  <1>3. /\ Start("patch").phase = "patch" /\ To(m, "ip").phase = "ip" /\ To(m, "ip").az = at[m].az
    BY <1>1 DEF Start, To, Position
  <1>4. /\ Unmoved(m) /\ mem'[m] = mem[m] /\ cloud' \in {cloud, GpuTagged(at[m].gpu)}
        /\ at'[m] = Start("patch") \/ (cloud' = GpuTagged(at[m].gpu) /\ at'[m] = To(m, "ip"))
    BY <1>1, CallOutcome DEF TagFGPU
  <1>5. CASE cloud' = cloud /\ at'[m] = Start("patch") BY <1>3, <1>4, <1>5, SameCloud, SameCloudRest
  <1>6. CASE cloud' = GpuTagged(at[m].gpu)
    <2>1. /\ cloud'.gpus = {IF g.id = at[m].gpu THEN [g EXCEPT !.tagged = TRUE] ELSE g : g \in cloud.gpus}
          /\ cloud'.vms = cloud.vms
      BY <1>1, <1>6 DEF GpuTagged, Cloud
    <2>2. VmsOf(m)' = {} BY <1>2, <2>1 DEF VmsOf
    <2>3. Behind(m)' /\ Domains(m)' /\ RecordedServes(m)' BY <1>2, <1>4, RestKept
    <2>4. VmPhases(m)' BY <1>3, <1>4 DEF VmPhases
    <2>5. ASSUME m \in GPU PROVE GpuOfVm(m)' /\ GpuPhases(m)'
      <3>1. TaggedGpus(m) = {} /\ GpuOfVm(m) BY <1>1, <2>5, Undeleted DEF GpuPhases
      <3>2. PICK g \in GpusOf(m) : g.id = at[m].gpu /\ g.az = at[m].az BY <1>1, <2>5, Undeleted DEF GpuPhases
      <3>. DEFINE h == [g EXCEPT !.tagged = TRUE]
      <3>3. g \in Gpu /\ g \in cloud.gpus BY Undeleted
      <3>4. h.tagged = TRUE /\ h.m = g.m /\ h.az = g.az /\ g.m = m BY <3>3 DEF Gpu, GpusOf
      <3>5. \A x \in cloud.gpus : x.id = at[m].gpu => x = g BY <3>2, <3>3 DEF KnownInv, GpuIds, CompleteInv
      <3>6. cloud'.gpus = (cloud.gpus \ {g}) \cup {h} BY <2>1, <3>2, <3>3, <3>5
      <3>. HIDE DEF h
      <3>7. TaggedGpus(m)' = {h} BY <3>1, <3>4, <3>6 DEF TaggedGpus, GpusOf
      <3>8. \A y \in Copies(m)' : y \in Copies(m) BY <1>4 DEF Copies, Unmoved
      <3>9. \A y \in Copies(m)' : y.gpu = 0 BY <3>1, <3>8 DEF GpuOfVm
      <3>10. GpuOfVm(m)' BY <2>2, <3>7, <3>9 DEF GpuOfVm
      <3>11. GpuPhases(m)' BY <1>3, <1>4, <3>2, <3>4, <3>7 DEF GpuPhases
      <3>. QED BY <3>10, <3>11
    <2>. QED BY <2>3, <2>4, <2>5 DEF Whole, Built, Equipped
  <1>. QED BY <1>4, <1>5, <1>6

LEMMA AllocateIPWhole ==
  ASSUME CompleteInv, NEW m \in Machines, ~obj[m].del, AllocateIP(m)
  PROVE  Whole(m)'
  <1>1. /\ at[m].phase = "ip" /\ at[m] \in Position /\ mem[m] \in OscMachine /\ KnownInv
    BY DEF AllocateIP, CompleteInv, KnownInv, ContractInv, IInv, TypeInv, TypeOK
  <1>2. /\ Start("patch").phase = "patch" /\ To(m, "create").phase = "create" /\ To(m, "create").az = at[m].az
    BY <1>1 DEF Start, To, Position
  <1>. DEFINE o == [mem[m] EXCEPT !.ip = cloud.next]
  <1>3. o.vm = mem[m].vm /\ o.fd = mem[m].fd /\ o.rec = mem[m].rec /\ o.ready = mem[m].ready /\ o.gpu = mem[m].gpu
    BY <1>1 DEF OscMachine
  <1>4. Continue(m, To(m, "create"), mem[m]) \/ Call(m, IpCreated, To(m, "create"), mem[m], o) BY DEF AllocateIP
  <1>. HIDE DEF o
  <1>5. /\ Unmoved(m) /\ mem'[m] \in {mem[m], o} /\ cloud' \in {cloud, IpCreated}
        /\ at'[m] = Start("patch") \/ at'[m] = To(m, "create")
    BY <1>1, <1>4, ContinueOutcome, CallOutcome
  <1>6. CloudKept(m) BY <1>1, <1>5, IpRequestKeeps
  <1>7. mem'[m].vm = mem[m].vm /\ mem'[m].fd = mem[m].fd /\ mem'[m].rec = mem[m].rec
        /\ mem'[m].ready = mem[m].ready /\ mem'[m].gpu = mem[m].gpu
    BY <1>3, <1>5
  <1>8. Behind(m)' /\ Domains(m)' /\ RecordedServes(m)' /\ (m \in GPU => GpuOfVm(m)')
    BY <1>5, <1>6, <1>7, SameCloudRest
  <1>9. VmPhases(m)' BY <1>2, <1>5 DEF VmPhases
  <1>10. ASSUME m \in GPU PROVE GpuPhases(m)'
    <2>1. GpuPhases(m) /\ TaggedGpus(m)' = TaggedGpus(m) BY <1>6, <1>10, Undeleted, TaggedKept DEF CloudKept
    <2>. QED BY <1>1, <1>2, <1>5, <2>1 DEF GpuPhases
  <1>. QED BY <1>8, <1>9, <1>10 DEF Whole, Built, Equipped

LEMMA CreateVmWhole ==
  ASSUME CompleteInv, NEW m \in Machines, ~obj[m].del, CreateVm(m)
  PROVE  Whole(m)'
  <1>1. /\ at[m].phase = "create" /\ mem[m] \in OscMachine /\ cloud \in Cloud /\ KnownInv /\ IInv /\ cloud.next > 0
        /\ cloud.next \in Nat
    BY DEF CreateVm, CompleteInv, KnownInv, ContractInv, IInv, TypeInv, TypeOK, FreshIds, Cloud, Id
  <1>2. VmsOf(m) = {} BY <1>1 DEF IInv, NoVmYet, Building
  <1>3. Start("patch").phase = "patch" BY DEF Start
  <1>. DEFINE v == [id |-> cloud.next, m |-> m, az |-> at[m].az, state |-> "pending",
                    ip |-> IF m \in PublicIp THEN mem[m].ip ELSE 0,
                    attached |-> FALSE, boot |-> m \notin GPU, ccm |-> FALSE]
              after == [cloud EXCEPT !.next = @ + 1, !.vms = @ \cup {v}]
              o == [mem[m] EXCEPT !.vm = cloud.next, !.pid = cloud.next]
  <1>4. Call(m, after, Start("patch"), mem[m], o) BY DEF CreateVm, VmCreated
  <1>5. o.vm = cloud.next /\ o.fd = mem[m].fd /\ o.rec = mem[m].rec /\ o.ready = mem[m].ready /\ o.gpu = mem[m].gpu
    BY <1>1 DEF OscMachine
  <1>6. v.m = m /\ v.az = at[m].az /\ v.state = "pending" /\ v.boot = (m \notin GPU) OBVIOUS
  <1>7. after.vms = cloud.vms \cup {v} /\ after.gpus = cloud.gpus
    <2>. HIDE DEF v
    <2>. QED BY <1>1 DEF Cloud
  <1>. HIDE DEF v, after, o
  <1>8. Unmoved(m) /\ mem'[m] \in {mem[m], o} /\ cloud' \in {cloud, after} /\ at'[m].phase = "patch"
    BY <1>1, <1>3, <1>4, CallOutcome
  <1>9. Behind(m)' /\ Domains(m)' /\ RecordedServes(m)' BY <1>1, <1>2, <1>5, <1>8, RestKept
  <1>10. VmPhases(m)' /\ GpuPhases(m)' BY <1>8, OtherPhases
  <1>11. ASSUME m \in GPU PROVE GpuOfVm(m)'
    <2>1. TaggedGpus(m)' = TaggedGpus(m) BY <1>7, <1>8 DEF TaggedGpus, GpusOf
    <2>2. VmsOf(m)' \subseteq {v} BY <1>2, <1>7, <1>8 DEF VmsOf
    <2>3. GpuOfVm(m) /\ \E g \in TaggedGpus(m) : g.az = v.az BY <1>1, <1>6, <1>11, Undeleted DEF GpuPhases
    <2>4. \A y \in Copies(m)' : \E x \in Copies(m) : y.gpu = x.gpu BY <1>5, <1>8 DEF Copies, Unmoved
    <2>5. \A g, h \in TaggedGpus(m)' : g = h BY <2>1, <2>3 DEF GpuOfVm
    <2>6. \A y \in Copies(m)' : y.gpu # 0 => \E g \in TaggedGpus(m)' : g.id = y.gpu BY <2>1, <2>3, <2>4 DEF GpuOfVm
    <2>7. ~v.boot /\ v.state # "running" BY <1>6, <1>11
    <2>8. \A w \in VmsOf(m)' : \E g \in TaggedGpus(m)' :
            g.az = w.az /\ (w.boot \/ w.state = "running" => g.state = "attached")
      BY <2>1, <2>2, <2>3, <2>7
    <2>. QED BY <2>5, <2>6, <2>8 DEF GpuOfVm
  <1>. QED BY <1>9, <1>10, <1>11 DEF Whole, Built, Equipped

LEMMA LinkFGPUWhole ==
  ASSUME CompleteInv, NEW m \in Machines, ~obj[m].del, LinkFGPU(m)
  PROVE  Whole(m)'
  <1>1. /\ at[m].phase = "gpuLink" /\ cloud \in Cloud /\ KnownInv
    BY DEF LinkFGPU, CompleteInv, KnownInv, ContractInv, IInv, TypeInv, TypeOK
  <1>2. Start("patch").phase = "patch" BY DEF Start
  <1>3. Unmoved(m) /\ mem'[m] = mem[m] /\ cloud' \in {cloud, GpuLinked(mem[m].gpu)} /\ at'[m].phase = "patch"
    BY <1>1, <1>2, CallOutcome DEF LinkFGPU
  <1>4. CASE cloud' = cloud BY <1>3, <1>4, SameCloud, SameCloudRest
  <1>5. CASE cloud' = GpuLinked(mem[m].gpu)
    <2>1. /\ cloud'.gpus = {IF g.id = mem[m].gpu THEN [g EXCEPT !.state = "attaching"] ELSE g : g \in cloud.gpus}
          /\ cloud'.vms = cloud.vms /\ cloud'.backends = cloud.backends
      BY <1>1, <1>5 DEF GpuLinked, Cloud
    <2>2. VmsOf(m)' = VmsOf(m) BY <2>1 DEF VmsOf
    <2>3. VmPhases(m)' /\ GpuPhases(m)' BY <1>3, OtherPhases
    <2>4. CASE m \notin GPU
      <3>1. \A v \in VmsOf(m) : Serves(m, v) => Serves(m, v)' BY <2>1, <2>4 DEF Serves
      <3>2. Behind(m)' /\ Domains(m)' /\ RecordedServes(m)' BY <1>3, <2>2, <3>1, RestKept
      <3>. QED BY <2>3, <2>4, <3>2 DEF Whole, Built
    <2>5. CASE m \in GPU
      <3>1. GpuOfVm(m) /\ GpuPhases(m) BY <2>5, Undeleted
      <3>2. PICK g \in TaggedGpus(m) : g.id = mem[m].gpu /\ g.state = "allocated" BY <1>1, <3>1 DEF GpuPhases
      <3>. DEFINE h == [g EXCEPT !.state = "attaching"]
      <3>3. g \in Gpu /\ g \in cloud.gpus /\ g.m = m /\ g.tagged BY Undeleted DEF TaggedGpus
      <3>4. h.m = m /\ h.tagged /\ h.az = g.az /\ h.id = g.id BY <3>3 DEF Gpu
      <3>5. \A x \in cloud.gpus : x.id = mem[m].gpu => x = g BY <3>2, <3>3 DEF KnownInv, GpuIds, CompleteInv
      <3>6. cloud'.gpus = (cloud.gpus \ {g}) \cup {h} BY <2>1, <3>2, <3>3, <3>5
      <3>. HIDE DEF h
      <3>7. TaggedGpus(m) = {g} BY <3>1, <3>2 DEF GpuOfVm
      <3>8. TaggedGpus(m)' = {h}
        <4>1. \A x \in TaggedGpus(m)' : x = h BY <3>6, <3>7 DEF TaggedGpus, GpusOf
        <4>2. h \in TaggedGpus(m)' BY <3>4, <3>6 DEF TaggedGpus, GpusOf
        <4>. QED BY <4>1, <4>2
      <3>9. \A v \in VmsOf(m) : ~Serves(m, v) BY <2>5, <3>2, <3>7 DEF Serves
      <3>10. Behind(m)' /\ Domains(m)' /\ RecordedServes(m)' BY <1>3, <2>2, <3>9, RestKept
      <3>11. \A v \in VmsOf(m) : ~v.boot /\ v.state # "running" /\ v.az = g.az BY <3>1, <3>2, <3>7 DEF GpuOfVm
      <3>12. \A y \in Copies(m)' : y.gpu # 0 => y.gpu = h.id
        BY <1>3, <3>1, <3>4, <3>7 DEF Copies, Unmoved, GpuOfVm
      <3>13. GpuOfVm(m)' BY <2>2, <3>4, <3>8, <3>11, <3>12 DEF GpuOfVm
      <3>. QED BY <2>3, <3>10, <3>13 DEF Whole, Built, Equipped
    <2>. QED BY <2>4, <2>5
  <1>. QED BY <1>3, <1>4, <1>5

(* A change of the machine's VM. *)
LEMMA ChangedVm ==
  ASSUME CompleteInv, NEW m \in Machines, ~obj[m].del, NEW v \in VmsOf(m), NEW w, w.m = m,
         cloud'.vms = (cloud.vms \ {v}) \cup {w}
  PROVE  VmsOf(m) = {v} /\ VmsOf(m)' = {w}
  <1>1. VmsOf(m) = {v} BY Undeleted
  <1>2. \A x \in VmsOf(m)' : x = w BY <1>1 DEF VmsOf
  <1>3. w \in VmsOf(m)' BY DEF VmsOf
  <1>. QED BY <1>1, <1>2, <1>3

LEMMA StartVmWhole ==
  ASSUME CompleteInv, NEW m \in Machines, ~obj[m].del, StartVm(m)
  PROVE  Whole(m)'
  <1>1. /\ at[m].phase = "start" /\ cloud \in Cloud /\ KnownInv /\ IInv
    BY DEF StartVm, CompleteInv, KnownInv, ContractInv, IInv, TypeInv, TypeOK
  <1>2. Start("patch").phase = "patch" BY DEF Start
  <1>3. Unmoved(m) /\ mem'[m] = mem[m] /\ cloud' \in {cloud, VmStarted(mem[m].vm)} /\ at'[m].phase = "patch"
    BY <1>1, <1>2, CallOutcome DEF StartVm
  <1>4. CASE cloud' = cloud BY <1>3, <1>4, SameCloud, SameCloudRest
  <1>5. CASE cloud' = VmStarted(mem[m].vm)
    <2>1. PICK v \in VmsOf(m) : v.id = mem[m].vm /\ v.state = "stopped" BY <1>1, Undeleted DEF VmPhases
    <2>. DEFINE w == [v EXCEPT !.state = "pending", !.boot = TRUE]
    <2>2. v \in Vm /\ v \in cloud.vms /\ v.m = m BY Undeleted
    <2>3. w.m = m /\ w.az = v.az /\ w.state = "pending" BY <2>2 DEF Vm
    <2>4. \A x \in cloud.vms : x.id = mem[m].vm => x = v BY <1>1, <2>1, <2>2 DEF IInv, FreshIds
    <2>5. /\ cloud'.vms = {IF x.id = mem[m].vm THEN [x EXCEPT !.state = "pending", !.boot = TRUE] ELSE x :
                             x \in cloud.vms}
          /\ cloud'.gpus = cloud.gpus
      BY <1>1, <1>5 DEF VmStarted, Cloud
    <2>6. cloud'.vms = (cloud.vms \ {v}) \cup {w} BY <2>1, <2>2, <2>4, <2>5
    <2>. HIDE DEF w
    <2>7. VmsOf(m) = {v} /\ VmsOf(m)' = {w} BY <2>3, <2>6, ChangedVm
    <2>8. ~Serves(m, v) BY <2>1 DEF Serves
    <2>9. Behind(m)' /\ Domains(m)' /\ RecordedServes(m)' BY <1>3, <2>3, <2>7, <2>8, RestKept
    <2>10. VmPhases(m)' /\ GpuPhases(m)' BY <1>3, OtherPhases
    <2>11. ASSUME m \in GPU PROVE GpuOfVm(m)'
      <3>1. TaggedGpus(m)' = TaggedGpus(m) BY <2>5 DEF TaggedGpus, GpusOf
      <3>2. GpuOfVm(m) /\ GpuPhases(m) BY <2>11, Undeleted
      <3>3. PICK g \in TaggedGpus(m) : g.state = "attached" BY <1>1, <3>2 DEF GpuPhases
      <3>4. g.az = v.az BY <3>2, <3>3 DEF GpuOfVm
      <3>5. Copies(m)' = Copies(m) BY <1>3 DEF Copies, Unmoved
      <3>. QED BY <2>3, <2>7, <3>1, <3>2, <3>3, <3>4, <3>5 DEF GpuOfVm
    <2>. QED BY <2>9, <2>10, <2>11 DEF Whole, Built, Equipped
  <1>. QED BY <1>3, <1>4, <1>5

LEMMA LinkBackendWhole ==
  ASSUME CompleteInv, NEW m \in Machines, ~obj[m].del, LinkBackend(m)
  PROVE  Whole(m)'
  <1>1. /\ at[m].phase = "lb" /\ cloud \in Cloud /\ KnownInv
    BY DEF LinkBackend, CompleteInv, KnownInv, ContractInv, IInv, TypeInv, TypeOK
  <1>2. \A p : Start(p).phase = p BY DEF Start
  <1>3. /\ Unmoved(m) /\ mem'[m] = mem[m] /\ cloud' \in {cloud, BackendLinked(mem[m].vm)}
        /\ \/ at'[m].phase = "patch"
           \/ /\ at'[m].phase = "tags"
              /\ (cloud' = cloud /\ mem[m].vm \in cloud.backends) \/ cloud' = BackendLinked(mem[m].vm)
    BY <1>1, <1>2, ContinueOutcome, CallOutcome DEF LinkBackend
  <1>4. /\ cloud'.vms = cloud.vms /\ cloud'.gpus = cloud.gpus /\ cloud.backends \subseteq cloud'.backends
        /\ cloud' = BackendLinked(mem[m].vm) => mem[m].vm \in cloud'.backends
    BY <1>1, <1>3 DEF BackendLinked, Cloud
  <1>5. CloudKept(m) BY <1>4 DEF CloudKept, VmsOf, GpusOf
  <1>6. Behind(m)' /\ Domains(m)' /\ RecordedServes(m)' /\ (m \in GPU => GpuOfVm(m)')
    BY <1>3, <1>5, SameCloudRest
  <1>7. VmPhases(m)'
    <2>1. VmPhases(m) /\ VmsOf(m)' = VmsOf(m) BY <1>5, Undeleted DEF CloudKept
    <2>. QED BY <1>1, <1>3, <1>4, <2>1 DEF VmPhases
  <1>8. GpuPhases(m)' BY <1>3 DEF GpuPhases
  <1>. QED BY <1>6, <1>7, <1>8 DEF Whole, Built, Equipped

(* The end of reconcileVm: the VM that runs, with its tags, serves.        *)
LEMMA FinishWhole ==
  ASSUME CompleteInv, NEW m \in Machines, ~obj[m].del, Finish(m)
  PROVE  Whole(m)'
  <1>1. /\ at[m].phase = "tags" /\ mem[m] \in OscMachine /\ cloud \in Cloud /\ KnownInv /\ IInv
    BY DEF Finish, CompleteInv, KnownInv, ContractInv, IInv, TypeInv, TypeOK
  <1>2. Start("patch").phase = "patch" BY DEF Start
  <1>3. PICK v \in cloud.vms :
          /\ v.id = mem[m].vm
          /\ LET seen == [mem[m] EXCEPT !.fd = v.az]
                 o == [seen EXCEPT !.rec = mem[m].gen]
             IN IF v.ccm THEN EndPass(m, o) ELSE Call(m, VmTagged(v.id), Start("patch"), seen, o)
    BY DEF Finish
  <1>. DEFINE seen == [mem[m] EXCEPT !.fd = v.az]
              o == [seen EXCEPT !.rec = mem[m].gen]
              w == [v EXCEPT !.ccm = TRUE]
  <1>4. /\ seen.vm = mem[m].vm /\ seen.fd = v.az /\ seen.rec = mem[m].rec /\ seen.ready = mem[m].ready
        /\ seen.gpu = mem[m].gpu
    BY <1>1 DEF OscMachine
  <1>5. /\ o.vm = mem[m].vm /\ o.fd = v.az /\ o.ready = mem[m].ready /\ o.gpu = mem[m].gpu
    BY <1>1 DEF OscMachine
  <1>6. IF v.ccm THEN EndPass(m, o) ELSE Call(m, VmTagged(v.id), Start("patch"), seen, o) BY <1>3
  <1>. HIDE DEF seen, o
  <1>7. v.m = m BY <1>1, <1>3 DEF IInv, OwnVms, Names
  <1>8. v \in VmsOf(m) BY <1>7 DEF VmsOf
  <1>9. VmsOf(m) = {v} /\ v \in Vm /\ v.id # 0 /\ v.az # ""
    <2>1. v \in Vm BY <1>8, Undeleted
    <2>2. v.az # "" BY <2>1, PlacementAssumption DEF Vm
    <2>3. VmsOf(m) = {v} BY <1>8, Undeleted
    <2>4. v.id # 0 BY <1>8, Undeleted
    <2>. QED BY <2>1, <2>2, <2>3, <2>4
  <1>10. /\ v.state = "running" /\ mem[m].ready /\ (m \in Balanced => v.id \in cloud.backends)
    BY <1>1, <1>3, <1>9, Undeleted DEF VmPhases
  <1>11. m \in GPU => \E g \in TaggedGpus(m) : g.state = "attached" /\ g.az = v.az
    BY <1>8, <1>10, Undeleted DEF GpuOfVm
  <1>12. /\ w.id = v.id /\ w.m = m /\ w.az = v.az /\ w.state = v.state /\ w.ccm = TRUE /\ w.boot = v.boot
    BY <1>7, <1>9 DEF Vm
  <1>. HIDE DEF w
  <1>13. /\ Unmoved(m) /\ at'[m].phase = "patch" /\ mem'[m] \in {seen, o}
         /\ cloud' \in {cloud, VmTagged(v.id)} /\ (mem'[m] = o => v.ccm \/ cloud' = VmTagged(v.id) \/ o = seen)
    BY <1>1, <1>2, <1>6, ContinueOutcome, CallOutcome DEF EndPass
  <1>14. /\ cloud'.gpus = cloud.gpus /\ cloud'.backends = cloud.backends
         /\ VmsOf(m)' = {v} \/ VmsOf(m)' = {w}
         /\ cloud' = VmTagged(v.id) => VmsOf(m)' = {w}
    <2>1. CASE cloud' = cloud /\ cloud' # VmTagged(v.id) BY <1>9, <2>1 DEF VmsOf
    <2>2. CASE cloud' = VmTagged(v.id)
      <3>1. /\ cloud'.vms = {IF x.id = v.id THEN [x EXCEPT !.ccm = TRUE] ELSE x : x \in cloud.vms}
            /\ cloud'.gpus = cloud.gpus /\ cloud'.backends = cloud.backends
        BY <1>1, <2>2 DEF VmTagged, Cloud
      <3>2. \A x \in cloud.vms : x.id = v.id => x = v BY <1>1 DEF IInv, FreshIds
      <3>3. cloud'.vms = (cloud.vms \ {v}) \cup {w} BY <3>1, <3>2 DEF w
      <3>4. VmsOf(m)' = {w} BY <1>8, <1>12, <3>3, ChangedVm
      <3>. QED BY <3>1, <3>4
    <2>. QED BY <1>13, <2>1, <2>2
  <1>15. TaggedGpus(m)' = TaggedGpus(m) BY <1>14 DEF TaggedGpus, GpusOf
  <1>16. PICK x : VmsOf(m)' = {x} /\ x \in {v, w} /\ (cloud' = VmTagged(v.id) => x = w) BY <1>14
  <1>17. x.id = v.id /\ x.az = v.az /\ x.state = "running" /\ x.boot = v.boot /\ (v.ccm => x.ccm)
    BY <1>10, <1>12, <1>16
  <1>18. x.ccm => Serves(m, x)' BY <1>10, <1>11, <1>14, <1>15, <1>17 DEF Serves
  <1>19. Serves(m, v) => x.ccm BY <1>17 DEF Serves
  <1>20. mem'[m].rec = mem[m].rec \/ x.ccm BY <1>4, <1>12, <1>13, <1>16, <1>17
  <1>21. /\ mem'[m].vm = v.id /\ mem'[m].fd = x.az /\ mem'[m].ready /\ mem'[m].gpu = mem[m].gpu
    BY <1>3, <1>4, <1>5, <1>10, <1>13, <1>17
  <1>22. Behind(m) /\ Domains(m) /\ RecordedServes(m) BY Undeleted
  <1>23. Behind(m)' BY <1>9, <1>13, <1>17, <1>21, <1>22 DEF Behind, Unmoved
  <1>24. \A y \in Copies(m)' : y \in Copies(m) \/ y = mem'[m] BY <1>13 DEF Copies, Unmoved
  <1>25. Domains(m)' BY <1>9, <1>16, <1>17, <1>21, <1>22, <1>24 DEF Domains
  <1>26. ASSUME NEW y \in Copies(m)', y.rec # 0 PROVE y.vm # 0 /\ y.fd # "" /\ y.ready /\ x.ccm
    <2>1. CASE y \in Copies(m) BY <1>9, <1>19, <1>22, <1>26, <2>1 DEF RecordedServes
    <2>2. CASE y = mem'[m]
      <3>1. mem[m].rec # 0 => x.ccm
        <4>1. mem[m] \in Copies(m) BY DEF Copies
        <4>. QED BY <1>9, <1>19, <1>22, <4>1 DEF RecordedServes
      <3>. QED BY <1>9, <1>17, <1>20, <1>21, <1>26, <2>2, <3>1
    <2>. QED BY <1>24, <2>1, <2>2
  <1>27. RecordedServes(m)' BY <1>16, <1>18, <1>26 DEF RecordedServes
  <1>28. VmPhases(m)' /\ GpuPhases(m)' BY <1>13, OtherPhases
  <1>29. ASSUME m \in GPU PROVE GpuOfVm(m)'
    <2>1. GpuOfVm(m) BY <1>29, Undeleted
    <2>2. \A y \in Copies(m)' : \E z \in Copies(m) : y.gpu = z.gpu BY <1>13, <1>21 DEF Copies, Unmoved
    <2>3. \A g, h \in TaggedGpus(m)' : g = h BY <1>15, <2>1 DEF GpuOfVm
    <2>4. \A y \in Copies(m)' : y.gpu # 0 => \E g \in TaggedGpus(m)' : g.id = y.gpu BY <1>15, <2>1, <2>2 DEF GpuOfVm
    <2>5. \A y \in VmsOf(m)' : \E g \in TaggedGpus(m)' :
            g.az = y.az /\ (y.boot \/ y.state = "running" => g.state = "attached")
      BY <1>11, <1>15, <1>16, <1>17, <1>29
    <2>. QED BY <2>3, <2>4, <2>5 DEF GpuOfVm
  <1>. QED BY <1>23, <1>25, <1>27, <1>28, <1>29 DEF Whole, Built, Equipped
--------------------------------------------------------------------------------------
(* The beginning and the end of a pass, the API server, the informer and a *)
(* restart, for the machine itself: the cloud is left alone.               *)
Derived(m, y) ==
  /\ \E x \in Copies(m) : y.fd \in {"", x.fd}
  /\ \E x \in Copies(m) : y.gpu \in {0, x.gpu}
  /\ y.rec # 0 => /\ y.vm # 0 /\ y.fd # "" /\ y.ready
                 /\ \E x \in Copies(m) : x.rec # 0

LEMMA CopyDerived ==
  ASSUME NEW m \in Machines, RecordedServes(m), NEW x \in Copies(m), NEW y,
         y.fd = x.fd, y.gpu = x.gpu, y.rec = x.rec, y.vm = x.vm, y.ready = x.ready
  PROVE  Derived(m, y)
  <1>1. y.rec # 0 => y.vm # 0 /\ y.fd # "" /\ y.ready BY DEF RecordedServes
  <1>. QED BY <1>1 DEF Derived

LEMMA NewDerived ==
  ASSUME NEW m \in Machines
  PROVE  Derived(m, NewOscMachine)
  <1>1. obj[m] \in Copies(m) BY DEF Copies
  <1>. QED BY <1>1, NewMachine DEF Derived

LEMMA CopiesWhole ==
  ASSUME CompleteInv, NEW m \in Machines, ~obj[m].del, cloud' = cloud, Behind(m)',
         \A y \in Copies(m)' : Derived(m, y),
         (at'[m] = at[m] /\ mem'[m] = mem[m]) \/ at'[m].phase \in {"idle", "vm", "patch", "status"}
  PROVE  Whole(m)'
  <1>1. /\ Behind(m) /\ Domains(m) /\ RecordedServes(m) /\ VmPhases(m)
        /\ m \in GPU => GpuOfVm(m) /\ GpuPhases(m)
    BY Undeleted
  <1>2. /\ VmsOf(m)' = VmsOf(m) /\ GpusOf(m)' = GpusOf(m) /\ TaggedGpus(m)' = TaggedGpus(m) /\ CloudKept(m)
    BY SameCloud, TaggedKept DEF CloudKept
  <1>3. Domains(m)'
    <2>1. ASSUME NEW y \in Copies(m)', y.fd # "" PROVE \E v \in VmsOf(m)' : y.fd = v.az
      <3>1. PICK x \in Copies(m) : y.fd = x.fd BY <2>1 DEF Derived
      <3>. QED BY <1>1, <1>2, <2>1, <3>1 DEF Domains
    <2>. QED BY <2>1 DEF Domains
  <1>4. RecordedServes(m)'
    <2>1. ASSUME NEW y \in Copies(m)', y.rec # 0
          PROVE  y.vm # 0 /\ y.fd # "" /\ y.ready /\ \E v \in VmsOf(m)' : Serves(m, v)'
      <3>1. PICK x \in Copies(m) : x.rec # 0 BY <2>1 DEF Derived
      <3>2. PICK v \in VmsOf(m) : Serves(m, v) BY <1>1, <3>1 DEF RecordedServes
      <3>3. Serves(m, v)' BY <1>2, <3>2, ServesKept
      <3>. QED BY <1>2, <2>1, <3>3 DEF Derived
    <2>. QED BY <2>1 DEF RecordedServes
  <1>5. VmPhases(m)'
    <2>1. CASE at'[m] = at[m] /\ mem'[m] = mem[m] BY <1>1, <1>2, <2>1 DEF VmPhases, CloudKept
    <2>. QED BY <2>1, OtherPhases
  <1>6. ASSUME m \in GPU PROVE GpuOfVm(m)' /\ GpuPhases(m)'
    <2>1. \A y \in Copies(m)' : y.gpu # 0 => \E g \in TaggedGpus(m) : g.id = y.gpu
      <3>1. ASSUME NEW y \in Copies(m)', y.gpu # 0 PROVE \E g \in TaggedGpus(m) : g.id = y.gpu
        <4>1. PICK x \in Copies(m) : y.gpu = x.gpu BY <3>1 DEF Derived
        <4>. QED BY <1>1, <1>6, <3>1, <4>1 DEF GpuOfVm
      <3>. QED BY <3>1
    <2>2. GpuOfVm(m)' BY <1>1, <1>2, <1>6, <2>1 DEF GpuOfVm
    <2>3. GpuPhases(m)'
      <3>1. CASE at'[m] = at[m] /\ mem'[m] = mem[m]
        <4>1. at'[m].phase = at[m].phase /\ at'[m].gpu = at[m].gpu /\ at'[m].az = at[m].az BY <3>1
        <4>. QED BY <1>1, <1>2, <1>6, <3>1, <4>1 DEF GpuPhases
      <3>. QED BY <3>1, OtherPhases
    <2>. QED BY <2>2, <2>3
  <1>. QED BY <1>3, <1>4, <1>5, <1>6 DEF Whole, Built, Equipped

LEMMA ScopeWhole ==
  ASSUME CompleteInv, NEW m \in Machines,
         Reconcile(m) \/ CloseObject(m) \/ CloseStatus(m) \/ Sync(m) \/ Create(m) \/ Delete(m)
  PROVE  Whole(m)'
  <1>. USE DEF CompleteInv, KnownInv, ContractInv
  <1>1. cloud' = cloud
    BY DEF Reconcile, CloseObject, CloseStatus, Sync, Create, Delete, Patch, PassUnchanged
  <1>2. \A p : Start(p).phase = p BY DEF Start
  <1>3. /\ obj[m] \in OscMachine /\ cache[m] \in OscMachine /\ old[m] \in OscMachine /\ mem[m] \in OscMachine
        /\ obj \in [Machines -> OscMachine]
    BY DEF IInv, TypeInv, TypeOK
  <1>4. obj[m].del => obj'[m].del
    <2>1. CASE obj'[m] \in {obj[m], PatchedObject(m), PatchedStatus(m)} BY <1>3, <2>1, PatchedFields
    <2>. QED BY <1>3, <2>1 DEF Reconcile, CloseObject, CloseStatus, Sync, Create, Delete, Patch, PassUnchanged
  <1>5. CASE obj[m].del BY <1>4, <1>5 DEF Whole
  <1>6. CASE ~obj[m].del
    <2>1. Behind(m) /\ RecordedServes(m) BY <1>6, Undeleted
    <2>2. obj[m] \in Copies(m) /\ cache[m] \in Copies(m) /\ old[m] \in Copies(m) /\ mem[m] \in Copies(m)
      BY DEF Copies
    <2>3. CASE Reconcile(m)
      <3>1. /\ obj'[m] = obj[m] /\ cache'[m] = cache[m] /\ old'[m] = cache[m] /\ ~cache[m].del
            /\ mem'[m].vm = cache[m].vm /\ mem'[m].fd = cache[m].fd /\ mem'[m].rec = cache[m].rec
            /\ mem'[m].ready = cache[m].ready /\ mem'[m].gpu = cache[m].gpu /\ at'[m].phase = "vm"
        <4>1. ~cache[m].del BY <1>6 DEF IInv, DeletionIsFinal
        <4>. QED BY <1>2, <1>3, <2>3, <4>1 DEF Reconcile, IInv, TypeInv, TypeOK, OscMachine
      <3>2. Behind(m)' BY <2>1, <3>1 DEF Behind
      <3>3. Derived(m, obj'[m]) /\ Derived(m, cache'[m]) /\ Derived(m, mem'[m]) BY <2>1, <2>2, <3>1, CopyDerived
      <3>4. \A y \in Copies(m)' : Derived(m, y) BY <3>1, <3>3 DEF Copies
      <3>. QED BY <1>1, <1>6, <3>1, <3>2, <3>4, CopiesWhole
    <2>4. CASE CloseObject(m)
      <3>1. /\ cache'[m] = cache[m] /\ old'[m] = old[m] /\ mem'[m] = mem[m] /\ at'[m].phase = "status"
            /\ obj'[m] = obj[m] \/ obj'[m] = PatchedObject(m)
        BY <1>2, <2>4 DEF CloseObject, Patch, IInv, TypeInv, TypeOK
      <3>2. /\ obj'[m].vm = obj[m].vm /\ obj'[m].gpu = obj[m].gpu /\ obj'[m].fd = obj[m].fd
            /\ obj'[m].rec = obj[m].rec /\ obj'[m].ready = obj[m].ready
        BY <1>3, <3>1, PatchedFields
      <3>3. Behind(m)' BY <2>1, <3>1, <3>2 DEF Behind
      <3>4. /\ Derived(m, obj'[m]) /\ Derived(m, cache'[m]) /\ Derived(m, old'[m]) /\ Derived(m, mem'[m])
        BY <2>1, <2>2, <3>1, <3>2, CopyDerived
      <3>5. \A y \in Copies(m)' : Derived(m, y) BY <3>4 DEF Copies
      <3>. QED BY <1>1, <1>6, <3>1, <3>3, <3>5, CopiesWhole
    <2>5. CASE Sync(m)
      <3>1. /\ obj'[m] = obj[m] /\ cache'[m] = obj[m] /\ old'[m] = old[m] /\ mem'[m] = mem[m] /\ at'[m] = at[m]
        BY <2>5 DEF Sync, PassUnchanged, IInv, TypeInv, TypeOK
      <3>2. Behind(m)' BY <2>1, <3>1 DEF Behind
      <3>3. \A y \in Copies(m)' : y \in Copies(m) BY <3>1 DEF Copies
      <3>4. \A y \in Copies(m)' : Derived(m, y) BY <2>1, <3>3, CopyDerived
      <3>. QED BY <1>1, <1>6, <3>1, <3>2, <3>4, CopiesWhole
    <2>6. CASE Delete(m)
      <3>1. obj'[m].del BY <1>3, <2>6 DEF Delete, OscMachine
      <3>. QED BY <3>1 DEF Whole
    <2>7. CASE Create(m)
      <3>1. /\ obj'[m] = NewOscMachine /\ cache'[m] = cache[m] /\ old'[m] = old[m] /\ mem'[m] = mem[m]
            /\ at'[m] = at[m] /\ ~Asked(m)
        BY <2>7 DEF Create, PassUnchanged, IInv, TypeInv, TypeOK, Asked
      <3>2. obj[m].vm = 0 /\ obj[m].fd = "" /\ ~obj[m].ready BY <3>1 DEF Known, Unborn
      <3>3. Behind(m)' BY <2>1, <3>1, <3>2 DEF Behind
      <3>4. \A y \in Copies(m)' : y \in Copies(m) \/ y = NewOscMachine BY <3>1 DEF Copies
      <3>5. \A y \in Copies(m)' : Derived(m, y) BY <2>1, <3>4, CopyDerived, NewDerived
      <3>. QED BY <1>1, <1>6, <3>1, <3>3, <3>5, CopiesWhole
    <2>8. CASE CloseStatus(m)
      <3>1. /\ cache'[m] = cache[m] /\ old'[m] = NewOscMachine /\ mem'[m] = NewOscMachine /\ at'[m].phase = "idle"
            /\ obj'[m] = obj[m] \/ obj'[m] = PatchedStatus(m)
        BY <1>2, <2>8 DEF CloseStatus, Patch, IInv, TypeInv, TypeOK
      <3>2. old[m].ready => mem[m].ready BY DEF Kept, Recording
      <3>3. /\ obj[m].vm # 0 \/ (obj'[m] # obj[m] /\ mem[m].vm # 0) => obj'[m].vm # 0
            /\ obj[m].fd # "" \/ (obj'[m] # obj[m] /\ mem[m].fd # "") => obj'[m].fd # ""
            /\ obj[m].ready \/ (obj'[m] # obj[m] /\ mem[m].ready) => obj'[m].ready
        <4>1. CASE obj'[m] = obj[m] BY <4>1
        <4>2. CASE obj'[m] = PatchedStatus(m)
          <5>1. /\ obj'[m].vm = Merge(old[m].vm, mem[m].vm, obj[m].vm)
                /\ obj'[m].fd = Merge(old[m].fd, mem[m].fd, obj[m].fd)
                /\ obj'[m].ready = Merge(old[m].ready, mem[m].ready, obj[m].ready)
            BY <1>3, <4>2, PatchedFields
          <5>2. /\ old[m].vm # 0 => mem[m].vm # 0 /\ obj[m].vm # 0
                /\ old[m].fd # "" => mem[m].fd # "" /\ obj[m].fd # ""
                /\ old[m].ready => obj[m].ready
            BY <2>1 DEF Behind
          <5>3. old[m].ready \in BOOLEAN /\ mem[m].ready \in BOOLEAN /\ obj[m].ready \in BOOLEAN
            BY <1>3 DEF OscMachine
          <5>4. obj[m].ready \/ mem[m].ready => obj'[m].ready BY <3>2, <5>1, <5>2, <5>3 DEF Merge
          <5>5. obj[m].vm # 0 \/ mem[m].vm # 0 => obj'[m].vm # 0 BY <5>1, <5>2 DEF Merge
          <5>6. obj[m].fd # "" \/ mem[m].fd # "" => obj'[m].fd # "" BY <5>1, <5>2 DEF Merge
          <5>. QED BY <5>4, <5>5, <5>6
        <4>. QED BY <3>1, <4>1, <4>2
      <3>4. /\ obj'[m].fd \in {obj[m].fd, mem[m].fd} /\ obj'[m].gpu \in {obj[m].gpu, mem[m].gpu}
            /\ obj'[m].rec = obj[m].rec \/ (obj'[m] # obj[m] /\ obj'[m].rec = mem[m].rec)
        BY <1>3, <3>1, PatchedFields DEF Merge
      <3>5. Behind(m)' BY <2>1, <3>1, <3>3, NewMachine DEF Behind
      <3>6. \A y \in Copies(m)' : y = cache[m] \/ y = NewOscMachine \/ y = obj'[m] BY <3>1 DEF Copies
      <3>7. Derived(m, obj'[m])
        <4>1. obj'[m].rec # 0 => obj[m].rec # 0 \/ (obj'[m] # obj[m] /\ mem[m].rec # 0) BY <3>4
        <4>2. obj[m].rec # 0 => obj[m].vm # 0 /\ obj[m].fd # "" /\ obj[m].ready BY <2>1, <2>2 DEF RecordedServes
        <4>3. mem[m].rec # 0 => mem[m].vm # 0 /\ mem[m].fd # "" /\ mem[m].ready BY <2>1, <2>2 DEF RecordedServes
        <4>. QED BY <2>2, <3>3, <3>4, <4>1, <4>2, <4>3 DEF Derived
      <3>8. \A y \in Copies(m)' : Derived(m, y) BY <2>1, <2>2, <3>6, <3>7, CopyDerived, NewDerived
      <3>. QED BY <1>1, <1>6, <3>1, <3>5, <3>8, CopiesWhole
    <2>. QED BY <2>3, <2>4, <2>5, <2>6, <2>7, <2>8
  <1>. QED BY <1>5, <1>6

LEMMA RestartWhole ==
  ASSUME CompleteInv, Restart, NEW m \in Machines
  PROVE  Whole(m)'
  <1>1. /\ old'[m] = NewOscMachine /\ mem'[m] = NewOscMachine /\ obj'[m] = obj[m] /\ cache'[m] = cache[m]
        /\ at'[m].phase = "idle" /\ cloud' = cloud
    BY DEF Restart, Start
  <1>2. CASE obj[m].del BY <1>1, <1>2 DEF Whole
  <1>3. CASE ~obj[m].del
    <2>1. Behind(m) /\ RecordedServes(m) BY <1>3, Undeleted
    <2>2. Behind(m)' BY <1>1, <2>1, NewMachine DEF Behind
    <2>3. \A y \in Copies(m)' : y \in Copies(m) \/ y = NewOscMachine BY <1>1 DEF Copies
    <2>4. \A y \in Copies(m)' : Derived(m, y) BY <2>1, <2>3, CopyDerived, NewDerived
    <2>. QED BY <1>1, <1>3, <2>2, <2>4, CopiesWhole
  <1>. QED BY <1>2, <1>3
--------------------------------------------------------------------------------------
(* The cloud's own steps: the VM of a machine that is not being deleted    *)
(* only boots, and a GPU that is attached stays so.                        *)
LEMMA BootsWhole ==
  ASSUME CompleteInv, NEW n \in Machines, ~obj[n].del, VmBoots
  PROVE  Whole(n)'
  <1>1. cloud \in Cloud /\ cloud.vms \subseteq Vm
    BY CloudParts DEF CompleteInv, KnownInv, ContractInv, IInv, TypeInv, TypeOK
  <1>2. UNCHANGED <<obj, cache, old, mem, at>> BY DEF VmBoots, CloudStep, PassUnchanged
  <1>3. Unmoved(n) /\ mem'[n] = mem[n] /\ at'[n] = at[n] BY <1>2 DEF Unmoved
  <1>4. PICK v \in cloud.vms :
          /\ v.state = "pending"
          /\ CloudStep([cloud EXCEPT !.vms = (@ \ {v}) \cup
               {[v EXCEPT !.state = IF v.boot THEN "running" ELSE "stopped",
                          !.attached = v.boot /\ v.ip \in cloud.ips /\ ~LinkedIp(v.ip)]}])
    BY DEF VmBoots
  <1>. DEFINE w == [v EXCEPT !.state = IF v.boot THEN "running" ELSE "stopped",
                             !.attached = v.boot /\ v.ip \in cloud.ips /\ ~LinkedIp(v.ip)]
  <1>5. cloud' = [cloud EXCEPT !.vms = (@ \ {v}) \cup {w}] BY <1>4 DEF CloudStep
  <1>6. v \in Vm BY <1>1
  <1>7. /\ w.id = v.id /\ w.m = v.m /\ w.az = v.az /\ w.boot = v.boot
        /\ w.state = "running" => w.boot
    BY <1>6 DEF Vm
  <1>. HIDE DEF w
  <1>8. cloud'.vms = (cloud.vms \ {v}) \cup {w} /\ cloud'.gpus = cloud.gpus /\ cloud'.backends = cloud.backends
    BY <1>1, <1>5 DEF Cloud
  <1>9. GpusOf(n)' = GpusOf(n) BY <1>8 DEF GpusOf
  <1>10. TaggedGpus(n)' = TaggedGpus(n) BY <1>9, TaggedKept
  <1>11. CASE v.m # n
    <2>1. VmsOf(n)' = VmsOf(n) BY <1>7, <1>8, <1>11 DEF VmsOf
    <2>2. CloudKept(n) BY <1>8, <1>9, <2>1 DEF CloudKept
    <2>. QED BY <1>2, <2>2, OthersWhole
  <1>12. CASE v.m = n
    <2>1. v \in VmsOf(n) BY <1>12 DEF VmsOf
    <2>2. VmsOf(n) = {v} /\ VmsOf(n)' = {w} BY <1>7, <1>8, <1>12, <2>1, ChangedVm
    <2>3. ~Serves(n, v) BY <1>4 DEF Serves
    <2>4. Behind(n)' /\ Domains(n)' /\ RecordedServes(n)'
      <3>1. \A x \in VmsOf(n) : \E y \in VmsOf(n)' : y.az = x.az /\ (Serves(n, x) => Serves(n, y)')
        BY <1>7, <2>2, <2>3
      <3>. QED BY <1>3, <3>1, RestKept
    <2>5. at[n].phase \notin {"start", "lb", "tags"}
      BY <1>4, <2>2, Undeleted DEF VmPhases
    <2>6. VmPhases(n)' BY <1>3, <2>5 DEF VmPhases
    <2>7. ASSUME n \in GPU PROVE GpuOfVm(n)' /\ GpuPhases(n)'
      <3>1. GpuOfVm(n) /\ GpuPhases(n) BY <2>7, Undeleted
      <3>2. Copies(n)' = Copies(n) BY <1>2 DEF Copies
      <3>3. PICK g \in TaggedGpus(n) : g.az = v.az /\ (v.boot \/ v.state = "running" => g.state = "attached")
        BY <2>1, <3>1 DEF GpuOfVm
      <3>4. g.az = w.az /\ (w.boot \/ w.state = "running" => g.state = "attached") BY <1>7, <3>3
      <3>5. GpuOfVm(n)' BY <1>10, <2>2, <3>1, <3>2, <3>4 DEF GpuOfVm
      <3>6. GpuPhases(n)' BY <1>3, <1>9, <1>10, <3>1 DEF GpuPhases
      <3>. QED BY <3>5, <3>6
    <2>. QED BY <2>4, <2>6, <2>7 DEF Whole, Built, Equipped
  <1>. QED BY <1>11, <1>12

LEMMA GoesWhole ==
  ASSUME CompleteInv, NEW n \in Machines, ~obj[n].del, VmTerminates \/ VmVanishes
  PROVE  Whole(n)'
  <1>1. cloud \in Cloud /\ cloud.vms \subseteq Vm
    BY CloudParts DEF CompleteInv, KnownInv, ContractInv, IInv, TypeInv, TypeOK
  <1>2. UNCHANGED <<obj, cache, old, mem, at>> BY DEF VmTerminates, VmVanishes, CloudStep, PassUnchanged
  <1>3. \A v \in cloud.vms : v.m = n => Live(v) BY Undeleted DEF VmsOf
  <1>4. CASE VmVanishes
    <2>1. PICK v \in cloud.vms : v.state = "terminated" /\ cloud' = [cloud EXCEPT !.vms = @ \ {v}]
      BY <1>4 DEF VmVanishes, CloudStep
    <2>2. cloud'.vms = cloud.vms \ {v} /\ cloud'.gpus = cloud.gpus /\ cloud'.backends = cloud.backends
      BY <1>1, <2>1 DEF Cloud
    <2>3. v.m # n BY <1>3, <2>1 DEF Live
    <2>4. CloudKept(n) BY <2>2, <2>3 DEF CloudKept, VmsOf, GpusOf
    <2>. QED BY <1>2, <2>4, OthersWhole
  <1>5. CASE VmTerminates
    <2>1. PICK v \in cloud.vms : v.state = "shutting-down" /\ CloudStep([cloud EXCEPT
                 !.vms = (@ \ {v}) \cup {[v EXCEPT !.state = "terminated", !.attached = FALSE]},
                 !.gpus = {g \in @ : g.m # v.m \/ g.state = "allocated"}])
      BY <1>5 DEF VmTerminates
    <2>. DEFINE w == [v EXCEPT !.state = "terminated", !.attached = FALSE]
    <2>2. cloud' = [cloud EXCEPT !.vms = (@ \ {v}) \cup {w},
                                 !.gpus = {g \in @ : g.m # v.m \/ g.state = "allocated"}]
      BY <2>1 DEF CloudStep
    <2>3. w.m = v.m BY <1>1 DEF Vm
    <2>. HIDE DEF w
    <2>4. /\ cloud'.vms = (cloud.vms \ {v}) \cup {w} /\ cloud'.backends = cloud.backends
          /\ cloud'.gpus = {g \in cloud.gpus : g.m # v.m \/ g.state = "allocated"}
      BY <1>1, <2>2 DEF Cloud
    <2>5. v.m # n BY <1>3, <2>1 DEF Live
    <2>6. VmsOf(n)' = VmsOf(n) BY <2>3, <2>4, <2>5 DEF VmsOf
    <2>7. GpusOf(n)' = GpusOf(n) BY <2>4, <2>5 DEF GpusOf
    <2>8. CloudKept(n) BY <2>4, <2>6, <2>7 DEF CloudKept
    <2>. QED BY <1>2, <2>8, OthersWhole
  <1>. QED BY <1>4, <1>5

LEMMA AttachesWhole ==
  ASSUME CompleteInv, NEW n \in Machines, ~obj[n].del, GpuAttaches
  PROVE  Whole(n)'
  <1>1. cloud \in Cloud /\ cloud.gpus \subseteq Gpu
    BY CloudParts DEF CompleteInv, KnownInv, ContractInv, IInv, TypeInv, TypeOK
  <1>2. UNCHANGED <<obj, cache, old, mem, at>> BY DEF GpuAttaches, CloudStep, PassUnchanged
  <1>3. Unmoved(n) /\ mem'[n] = mem[n] /\ at'[n] = at[n] BY <1>2 DEF Unmoved
  <1>4. PICK c \in cloud.gpus :
          /\ c.state = "attaching"
          /\ cloud' = [cloud EXCEPT !.gpus = {IF x = c THEN [x EXCEPT !.state = "attached"] ELSE x : x \in @}]
    BY DEF GpuAttaches, CloudStep
  <1>. DEFINE f == [x \in cloud.gpus |-> IF x = c THEN [x EXCEPT !.state = "attached"] ELSE x]
  <1>5. /\ cloud'.gpus = {IF x = c THEN [x EXCEPT !.state = "attached"] ELSE x : x \in cloud.gpus}
        /\ cloud'.vms = cloud.vms /\ cloud'.backends = cloud.backends
    BY <1>1, <1>4 DEF Cloud
  <1>6. /\ \A h \in cloud'.gpus : \E x \in cloud.gpus : h = f[x]
        /\ \A x \in cloud.gpus : f[x] \in cloud'.gpus
    BY <1>5
  <1>7. \A x \in cloud.gpus : /\ f[x].id = x.id /\ f[x].m = x.m /\ f[x].az = x.az /\ f[x].tagged = x.tagged
                              /\ x.state # "attaching" => f[x].state = x.state
    BY <1>1, <1>4 DEF Gpu
  <1>. HIDE DEF f
  <1>8. VmsOf(n)' = VmsOf(n) BY <1>5 DEF VmsOf
  <1>9. /\ \A h \in TaggedGpus(n)' : \E g \in TaggedGpus(n) : h = f[g]
        /\ \A g \in TaggedGpus(n) : f[g] \in TaggedGpus(n)'
        /\ \A g \in GpusOf(n) : f[g] \in GpusOf(n)'
        /\ \A g \in TaggedGpus(n) : g \in cloud.gpus
    BY <1>6, <1>7 DEF TaggedGpus, GpusOf
  <1>10. ASSUME NEW v \in VmsOf(n), Serves(n, v) PROVE Serves(n, v)'
    <2>1. CASE n \notin GPU BY <1>5, <1>10, <2>1 DEF Serves
    <2>2. CASE n \in GPU
      <3>1. PICK g \in TaggedGpus(n) : g.state = "attached" /\ g.az = v.az BY <1>10, <2>2 DEF Serves
      <3>2. f[g] \in TaggedGpus(n)' /\ f[g].state = "attached" /\ f[g].az = v.az BY <1>7, <1>9, <3>1
      <3>. QED BY <1>5, <1>10, <3>2 DEF Serves
    <2>. QED BY <2>1, <2>2
  <1>11. Behind(n)' /\ Domains(n)' /\ RecordedServes(n)' BY <1>3, <1>8, <1>10, RestKept
  <1>12. VmPhases(n) BY Undeleted
  <1>13. VmPhases(n)' BY <1>3, <1>5, <1>8, <1>12 DEF VmPhases
  <1>14. ASSUME n \in GPU PROVE GpuOfVm(n)'
    <2>1. GpuOfVm(n) BY <1>14, Undeleted
    <2>2. Copies(n)' = Copies(n) BY <1>2 DEF Copies
    <2>3. \A g, h \in TaggedGpus(n)' : g = h BY <1>9, <2>1 DEF GpuOfVm
    <2>4. ASSUME NEW x \in Copies(n), x.gpu # 0 PROVE \E h \in TaggedGpus(n)' : h.id = x.gpu
      <3>1. PICK g \in TaggedGpus(n) : g.id = x.gpu BY <2>1, <2>4 DEF GpuOfVm
      <3>. QED BY <1>7, <1>9, <3>1
    <2>5. ASSUME NEW v \in VmsOf(n)
          PROVE  \E h \in TaggedGpus(n)' : h.az = v.az /\ (v.boot \/ v.state = "running" => h.state = "attached")
      <3>1. PICK g \in TaggedGpus(n) : g.az = v.az /\ (v.boot \/ v.state = "running" => g.state = "attached")
        BY <2>1 DEF GpuOfVm
      <3>. QED BY <1>7, <1>9, <3>1
    <2>. QED BY <1>8, <2>2, <2>3, <2>4, <2>5 DEF GpuOfVm
  <1>15. ASSUME n \in GPU PROVE GpuPhases(n)'
    <2>1. GpuPhases(n) BY <1>15, Undeleted
    <2>2. TaggedGpus(n) = {} => TaggedGpus(n)' = {} BY <1>9
    <2>3. at[n].phase \in {"place", "gpu"} /\ at[n].gpu # 0 =>
            \E h \in TaggedGpus(n)' : h.id = at[n].gpu /\ (at[n].phase = "gpu" => h.az = at[n].az)
      BY <1>7, <1>9, <2>1 DEF GpuPhases
    <2>4. at[n].phase = "gpuTag" => \E h \in GpusOf(n)' : h.id = at[n].gpu /\ h.az = at[n].az
      BY <1>7, <1>9, <2>1 DEF GpuPhases, GpusOf
    <2>5. at[n].phase \in {"ip", "create"} => \E h \in TaggedGpus(n)' : h.az = at[n].az
      BY <1>7, <1>9, <2>1 DEF GpuPhases
    <2>6. at[n].phase = "gpuLink" => \E h \in TaggedGpus(n)' : h.id = mem[n].gpu /\ h.state = "allocated"
      BY <1>7, <1>9, <2>1 DEF GpuPhases
    <2>7. at[n].phase = "start" => \E h \in TaggedGpus(n)' : h.state = "attached"
      BY <1>7, <1>9, <2>1 DEF GpuPhases
    <2>. QED BY <1>3, <2>1, <2>2, <2>3, <2>4, <2>5, <2>6, <2>7 DEF GpuPhases
  <1>. QED BY <1>11, <1>13, <1>14, <1>15 DEF Whole, Built, Equipped

LEMMA NextCompleteInv == CompleteInv /\ [Next]_vars => CompleteInv'
  <1>. SUFFICES ASSUME CompleteInv, [Next]_vars, NEW n \in Machines PROVE Whole(n)'
    BY NextKnownInv DEF CompleteInv
  <1>1. KnownInv /\ IInv BY DEF CompleteInv, KnownInv, ContractInv
  <1>2. ASSUME NEW m \in Machines, Pass(m) \/ LookupFails(m) \/ Sync(m) \/ Create(m) \/ Delete(m)
        PROVE  Whole(n)'
    <2>1. CASE Reconcile(m) \/ CloseObject(m) \/ CloseStatus(m) \/ Sync(m) \/ Create(m) \/ Delete(m)
      <3>1. CASE n = m BY <2>1, <3>1, ScopeWhole
      <3>2. CASE n # m
        <4>1. /\ cloud' = cloud /\ obj'[n] = obj[n] /\ cache'[n] = cache[n] /\ old'[n] = old[n]
              /\ mem'[n] = mem[n] /\ at'[n] = at[n]
          BY <1>1, <2>1, <3>2 DEF Reconcile, CloseObject, CloseStatus, Sync, Create, Delete, Patch, PassUnchanged,
                                  IInv, TypeInv, TypeOK
        <4>. QED BY <4>1, SameCloud, OthersWhole
      <3>. QED BY <3>1, <3>2
    <2>2. CASE \/ Lookup(m) \/ Place(m) \/ LookupFails(m) \/ AllocateFGPU(m) \/ TagFGPU(m) \/ AllocateIP(m)
               \/ CreateVm(m) \/ LinkFGPU(m) \/ StartVm(m) \/ LinkBackend(m) \/ Finish(m)
               \/ LookupDeletedVm(m) \/ UnlinkBackend(m) \/ DeleteVm(m) \/ DeletePublicIp(m) \/ RemoveFinalizer(m)
      <3>1. PassReads(m) BY <1>1, <2>2, LookupReads, PlaceReads, BuildReads, DeletionReads
      <3>2. CASE n # m
        <4>1. CloudKept(n) BY <1>1, <2>2, <3>2, PassElsewhere DEF Pass
        <4>2. /\ obj'[n] = obj[n] /\ cache'[n] = cache[n] /\ old'[n] = old[n] /\ mem'[n] = mem[n] /\ at'[n] = at[n]
          BY <1>1, <3>1, <3>2 DEF PassReads, IInv, TypeInv, TypeOK
        <4>. QED BY <4>1, <4>2, OthersWhole
      <3>3. CASE n = m /\ obj[m].del BY <3>1, <3>3 DEF PassReads, Whole
      <3>4. CASE n = m /\ ~obj[m].del
        <4>1. at[m].phase \notin Deleting BY <3>4, Undeleted
        <4>2. ~(LookupDeletedVm(m) \/ UnlinkBackend(m) \/ DeleteVm(m) \/ DeletePublicIp(m) \/ RemoveFinalizer(m))
          BY <4>1 DEF LookupDeletedVm, UnlinkBackend, DeleteVm, DeletePublicIp, RemoveFinalizer, Deleting
        <4>. QED BY <2>2, <3>4, <4>2, LookupWhole, PlaceWhole, AllocateFGPUWhole, TagFGPUWhole, AllocateIPWhole,
                    CreateVmWhole, LinkFGPUWhole, StartVmWhole, LinkBackendWhole, FinishWhole
      <3>. QED BY <3>2, <3>3, <3>4
    <2>. QED BY <1>2, <2>1, <2>2 DEF Pass
  <1>3. CASE CloudMoves
    <2>1. obj' = obj
      BY <1>3 DEF CloudMoves, VmBoots, VmTerminates, VmVanishes, GpuAttaches, CloudStep, PassUnchanged
    <2>2. CASE obj[n].del BY <2>1, <2>2 DEF Whole
    <2>. QED BY <1>3, <2>2, BootsWhole, GoesWhole, AttachesWhole DEF CloudMoves
  <1>4. CASE InfrastructureReady \/ UNCHANGED vars
    <2>1. UNCHANGED <<obj, cache, old, mem, at>> /\ cloud' = cloud
      BY <1>4 DEF InfrastructureReady, PassUnchanged, vars
    <2>. QED BY <2>1, SameCloud, OthersWhole
  <1>. QED BY <1>2, <1>3, <1>4, RestartWhole DEF Next

LEMMA InitCompleteInv == Init => CompleteInv
  <1>. SUFFICES ASSUME Init, NEW m \in Machines PROVE Whole(m)
    BY InitKnownInv DEF CompleteInv
  <1>1. VmsOf(m) = {} /\ TaggedGpus(m) = {} BY DEF Init, VmsOf, TaggedGpus, GpusOf
  <1>. DEFINE first == [NewOscMachine EXCEPT !.exists = FALSE]
  <1>2. first.rec = 0 /\ first.vm = 0 /\ first.gpu = 0 /\ first.fd = "" /\ ~first.ready BY DEF NewOscMachine
  <1>3. obj[m] = first /\ cache[m] = first /\ old[m] = NewOscMachine /\ mem[m] = NewOscMachine BY DEF Init
  <1>4. at[m].phase = "idle" BY DEF Init, Start
  <1>. HIDE DEF first
  <1>5. ASSUME NEW y \in Copies(m) PROVE y.rec = 0 /\ y.vm = 0 /\ y.gpu = 0 /\ y.fd = "" /\ ~y.ready
    BY <1>2, <1>3, NewMachine DEF Copies
  <1>6. Behind(m) BY <1>5 DEF Behind, Copies
  <1>7. Domains(m) /\ RecordedServes(m) BY <1>5 DEF Domains, RecordedServes
  <1>8. VmPhases(m) /\ GpuPhases(m) BY <1>4 DEF VmPhases, GpuPhases
  <1>9. GpuOfVm(m) BY <1>1, <1>5 DEF GpuOfVm
  <1>. QED BY <1>6, <1>7, <1>8, <1>9 DEF Whole, Built, Equipped

LEMMA CompleteImplies == CompleteInv => RecordedIsComplete
  <1>. SUFFICES ASSUME CompleteInv, NEW m \in Machines, obj[m].rec = obj[m].gen PROVE Complete(m)
    BY DEF RecordedIsComplete
  <1>1. obj[m] \in Copies(m) /\ obj[m].gen \in Nat /\ obj[m].rec \in Nat
    BY DEF Copies, CompleteInv, KnownInv, ContractInv, IInv, TypeInv, TypeOK, OscMachine
  <1>2. Generations(m) BY DEF CompleteInv, KnownInv, Known
  <1>3. ~obj[m].del /\ obj[m].rec # 0 BY <1>1, <1>2 DEF Generations
  <1>4. RecordedServes(m) /\ Domains(m) /\ (m \in GPU => GpuOfVm(m)) BY <1>3, Undeleted
  <1>5. obj[m].vm # 0 /\ obj[m].fd # "" /\ obj[m].ready BY <1>1, <1>3, <1>4 DEF RecordedServes
  <1>6. PICK v \in VmsOf(m) : Serves(m, v) BY <1>1, <1>3, <1>4 DEF RecordedServes
  <1>7. v.id = obj[m].vm BY <1>3, <1>5, <1>6, Undeleted
  <1>8. PICK w \in VmsOf(m) : obj[m].fd = w.az BY <1>1, <1>4, <1>5 DEF Domains
  <1>9. w = v BY <1>3, Undeleted
  <1>. QED BY <1>5, <1>6, <1>7, <1>8, <1>9 DEF Complete, Serves, TaggedGpus

(* A machine whose recorded generation is its generation, and which no     *)
(* pass looks at again (generationChanged in Reconcile), has the running   *)
(* VM its status names, in the subregion it publishes, with the tags of    *)
(* the cloud controller, behind the load balancer when it is a control     *)
(* plane node and with its GPU attached: for any number of machines,       *)
(* errors, lost replies and restarts between any two steps of a pass.      *)
THEOREM RecordedIsCompleteAlways == Spec => []RecordedIsComplete
  <1>1. Init => CompleteInv BY InitCompleteInv
  <1>2. CompleteInv /\ [Next]_vars => CompleteInv' BY NextCompleteInv
  <1>3. CompleteInv => RecordedIsComplete BY CompleteImplies
  <1>. QED BY <1>1, <1>2, <1>3, PTL DEF Spec
======================================================================================
