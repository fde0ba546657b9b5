---------------------------- MODULE OscMachine_refinement ----------------------------
(***************************************************************************)
(* The machine controller implements MachineContract: every step of a      *)
(* pass, of the informer, of the API server or of the cloud is a step of   *)
(* the contract or leaves what the contract shows as it is.  And the       *)
(* public IPs of the machines are bounded by the machines and the faults.  *)
(***************************************************************************)
EXTENDS OscMachine_proofs

(* The provider IDs that the copies of an OscMachine hold. *)
Pids(m) == {obj[m].pid, cache[m].pid, old[m].pid, mem[m].pid}
SomeReady(m) == obj[m].ready \/ cache[m].ready \/ old[m].ready \/ mem[m].ready

(* A pass, and what the informer knows, come after the creation. *)
Born(m) ==
  /\ cache[m].exists \/ cache[m].del \/ at[m].phase # "idle" => Asked(m)
  /\ ~Asked(m) => obj[m].pid = 0

(* An object that went at once, before it had a finalizer, is never        *)
(* deleted by a pass; with the finalizer removed, the object goes.         *)
NeverHeld(m) ==
  obj[m].del /\ ~obj[m].exists /\ obj[m].fin # "removed" =>
    at[m].phase \notin Deleting /\ ~(cache[m].del /\ cache[m].exists)

RemovedIsGone(m) == obj[m].fin = "removed" => ~obj[m].exists

(* No two copies hold different provider IDs, and a machine that is named  *)
(* or ready in any of them has had its VM.                                 *)
OnePid(m) == \A i, j \in Pids(m) : i = 0 \/ j = 0 \/ i = j
NamedHasVm(m) == VmsOf(m) = {} /\ (SomeReady(m) \/ Pids(m) # {0}) => Condemned(m)

(* What Close is to write. *)
Recording(m) ==
  /\ mem[m].pid # old[m].pid => /\ mem[m].pid # 0 /\ mem[m].fin # "removed"
                                /\ at[m].phase \in {"patch", "status"}
  /\ old[m].ready => mem[m].ready

Kept(m) ==
  /\ Born(m) /\ NeverHeld(m) /\ RemovedIsGone(m) /\ OnePid(m) /\ NamedHasVm(m) /\ Recording(m)

ContractInv == IInv /\ \A m \in Machines : Kept(m)
--------------------------------------------------------------------------------------
(* What a step inside the pass over m does to the position and the scope.  *)
Step(m, a, o) ==
  /\ at[m].phase \notin Between /\ a.phase \notin {"idle", "status"}
  /\ a.phase \in Deleting => at[m].phase \in Deleting
  /\ at[m].phase \in Deleting => a.phase \in Deleting \cup {"patch"}
  /\ o.fin = mem[m].fin \/ at[m].phase = "dFinal"
  /\ \/ o.pid = mem[m].pid
     \/ at[m].phase = "create" /\ a.phase = "patch" /\ o.pid # 0 /\ VmsOf(m)' # {}
  /\ mem[m].ready => o.ready
  /\ o.ready => mem[m].ready \/ VmsOf(m) # {}

PassMoves(m) ==
  /\ UNCHANGED <<obj, cache, old>>
  /\ \E a, o : /\ at' = [at EXCEPT ![m] = a] /\ mem' = [mem EXCEPT ![m] = o]
               /\ Step(m, a, o)

LEMMA ContinueMoves ==
  ASSUME NEW m \in Machines, NEW a, NEW o, Continue(m, a, o), Step(m, a, o)
  PROVE  PassMoves(m)
  BY DEF Continue, PassMoves

LEMMA CallMoves ==
  ASSUME NEW m \in Machines, NEW after, NEW a, NEW seen, NEW o, Call(m, after, a, seen, o),
         cloud' = after => Step(m, a, o), Step(m, Start("patch"), seen)
  PROVE  PassMoves(m)
  BY DEF Call, PassMoves

(* The scope as it was, or with a field that Step does not look at. *)
LEMMA PlainStep ==
  ASSUME NEW m \in Machines, NEW a, NEW o,
         at[m].phase \notin Between, a.phase \notin {"idle", "status"},
         a.phase \in Deleting => at[m].phase \in Deleting,
         at[m].phase \in Deleting => a.phase \in Deleting \cup {"patch"},
         o.fin = mem[m].fin, o.pid = mem[m].pid, o.ready = mem[m].ready
  PROVE  Step(m, a, o)
  BY DEF Step

LEMMA LookupMoves ==
  ASSUME IInv, NEW m \in Machines, Lookup(m)
  PROVE  PassMoves(m)
  <1>1. at[m].phase = "vm" /\ mem[m] \in OscMachine BY DEF Lookup, IInv, TypeInv, TypeOK
  <1>2. at[m].phase \notin Between /\ at[m].phase \notin Deleting BY <1>1 DEF Between, Deleting
  <1>3. \A p : Start(p).phase = p BY DEF Start
  <1>4. CASE EndPass(m, mem[m])
    <2>1. Step(m, Start("patch"), mem[m]) BY <1>2, <1>3, PlainStep DEF Deleting
    <2>. QED BY <1>4, <2>1, ContinueMoves DEF EndPass
  <1>5. CASE ~EndPass(m, mem[m])
    <2>1. PICK g \in FoundGpus(m) :
            LET o == [mem[m] EXCEPT !.gpu = IF g.id = 0 THEN @ ELSE g.id]
            IN \/ /\ FoundVms(m) = {}
                  /\ Continue(m, [Start("place") EXCEPT !.gpu = g.id], o)
               \/ \E v \in FoundVms(m) :
                    LET p == AfterLookup(m, v, g)
                    IN Continue(m, Start(p), [Tracked(o, v) EXCEPT !.ready = @ \/ p \in {"lb", "tags"}])
      BY <1>5 DEF Lookup
    <2>. DEFINE o == [mem[m] EXCEPT !.gpu = IF g.id = 0 THEN @ ELSE g.id]
    <2>2. /\ o.fin = mem[m].fin /\ o.pid = mem[m].pid /\ o.ready = mem[m].ready
      BY <1>1 DEF OscMachine
    <2>3. CASE Continue(m, [Start("place") EXCEPT !.gpu = g.id], o)
      <3>1. [Start("place") EXCEPT !.gpu = g.id].phase = "place" BY DEF Start
      <3>. HIDE DEF o
      <3>2. Step(m, [Start("place") EXCEPT !.gpu = g.id], o) BY <1>2, <2>2, <3>1, PlainStep DEF Deleting
      <3>. QED BY <2>3, <3>2, ContinueMoves
    <2>4. ASSUME NEW v \in FoundVms(m),
                 Continue(m, Start(AfterLookup(m, v, g)),
                   [Tracked(o, v) EXCEPT !.ready = @ \/ AfterLookup(m, v, g) \in {"lb", "tags"}])
          PROVE  PassMoves(m)
      <3>. DEFINE p == AfterLookup(m, v, g)
                  t == Tracked(o, v)
                  q == [t EXCEPT !.ready = @ \/ p \in {"lb", "tags"}]
      <3>1. p \in {"gpuLink", "start", "tags", "patch", "lb"} BY DEF AfterLookup
      <3>2. VmsOf(m) # {} BY FoundIsOwn
      <3>. HIDE DEF p
      <3>3. /\ q.fin = mem[m].fin /\ q.pid = mem[m].pid
            /\ q.ready = (mem[m].ready \/ p \in {"lb", "tags"})
        BY <1>1 DEF Tracked, OscMachine
      <3>. HIDE DEF q
      <3>4. Step(m, Start(p), q) BY <1>2, <1>3, <3>1, <3>2, <3>3 DEF Step, Deleting
      <3>5. Continue(m, Start(p), q) BY <2>4 DEF p, q, t
      <3>. QED BY <3>4, <3>5, ContinueMoves
    <2>. QED BY <2>1, <2>3, <2>4
  <1>. QED BY <1>4, <1>5 DEF Lookup

LEMMA PlaceMoves ==
  ASSUME IInv, NEW m \in Machines, Place(m) \/ LookupFails(m)
  PROVE  PassMoves(m)
  <1>1. PICK a : at' = [at EXCEPT ![m] = a] /\ (a.phase = "patch" \/ (at[m].phase = "place" /\ a.phase = "gpu"))
    <2>1. CASE LookupFails(m)
      <3>1. at' = [at EXCEPT ![m] = Start("patch")] BY <2>1 DEF LookupFails
      <3>2. Start("patch").phase = "patch" BY DEF Start
      <3>. QED BY <3>1, <3>2
    <2>2. CASE Place(m)
      <3>1. PICK z : at' = [at EXCEPT ![m] = IF z \notin AZs THEN Start("patch")
                                             ELSE [@ EXCEPT !.phase = "gpu", !.az = z]]
        BY <2>2 DEF Place
      <3>. DEFINE b == IF z \notin AZs THEN Start("patch") ELSE [at[m] EXCEPT !.phase = "gpu", !.az = z]
      <3>2. at' = [at EXCEPT ![m] = b] BY <3>1
      <3>3. b.phase \in {"patch", "gpu"} BY DEF IInv, TypeInv, TypeOK, Position, Start
      <3>. HIDE DEF b
      <3>4. at[m].phase = "place" BY <2>2 DEF Place
      <3>. QED BY <3>2, <3>3, <3>4
    <2>. QED BY <2>1, <2>2
  <1>2. /\ UNCHANGED <<obj, cache, old, mem>> /\ at[m].phase \notin Between
    BY DEF Place, LookupFails, Between
  <1>3. mem' = [mem EXCEPT ![m] = mem[m]] BY <1>2 DEF IInv, TypeInv, TypeOK
  <1>4. Step(m, a, mem[m]) BY <1>1, <1>2, PlainStep DEF Deleting
  <1>. QED BY <1>1, <1>2, <1>3, <1>4 DEF PassMoves

LEMMA BuildMoves ==
  ASSUME IInv, NEW m \in Machines,
         \/ AllocateFGPU(m) \/ TagFGPU(m) \/ AllocateIP(m) \/ LinkFGPU(m)
         \/ StartVm(m) \/ LinkBackend(m) \/ Finish(m)
  PROVE  PassMoves(m)
  <1>1. /\ at[m].phase \notin Between \cup Deleting /\ mem[m] \in OscMachine
    BY DEF AllocateFGPU, TagFGPU, AllocateIP, LinkFGPU, StartVm, LinkBackend, Finish, Between, Deleting,
           IInv, TypeInv, TypeOK
  <1>2. ASSUME NEW a, a.phase \in {"gpuTag", "ip", "create", "patch", "tags"}, NEW o,
               o.fin = mem[m].fin, o.pid = mem[m].pid, o.ready = mem[m].ready
        PROVE  Step(m, a, o)
    BY <1>1, <1>2, PlainStep DEF Deleting
  <1>3. /\ \A p : Start(p).phase = p /\ To(m, p).phase = p
        /\ [To(m, "gpuTag") EXCEPT !.gpu = cloud.next].phase = "gpuTag"
    BY DEF Start, To, IInv, TypeInv, TypeOK, Position
  <1>4. /\ Step(m, Start("patch"), mem[m]) /\ Step(m, Start("tags"), mem[m])
        /\ Step(m, To(m, "ip"), mem[m]) /\ Step(m, To(m, "create"), mem[m])
        /\ Step(m, [To(m, "gpuTag") EXCEPT !.gpu = cloud.next], mem[m])
    <2>1. Step(m, Start("patch"), mem[m]) BY <1>2, <1>3
    <2>2. Step(m, Start("tags"), mem[m]) BY <1>2, <1>3
    <2>3. Step(m, To(m, "ip"), mem[m]) BY <1>2, <1>3
    <2>4. Step(m, To(m, "create"), mem[m]) BY <1>2, <1>3
    <2>5. Step(m, [To(m, "gpuTag") EXCEPT !.gpu = cloud.next], mem[m])
      <3>. DEFINE a == [To(m, "gpuTag") EXCEPT !.gpu = cloud.next]
      <3>1. a.phase = "gpuTag" BY <1>3
      <3>. HIDE DEF a
      <3>2. Step(m, a, mem[m]) BY <1>2, <3>1
      <3>. QED BY <3>2 DEF a
    <2>. QED BY <2>1, <2>2, <2>3, <2>4, <2>5
  <1>5. CASE AllocateFGPU(m) BY <1>4, <1>5, ContinueMoves, CallMoves DEF AllocateFGPU, EndPass
  <1>6. CASE TagFGPU(m) BY <1>4, <1>6, CallMoves DEF TagFGPU
  <1>7. CASE AllocateIP(m)
    <2>. DEFINE o == [mem[m] EXCEPT !.ip = cloud.next]
    <2>1. o.fin = mem[m].fin /\ o.pid = mem[m].pid /\ o.ready = mem[m].ready BY <1>1 DEF OscMachine
    <2>2. Continue(m, To(m, "create"), mem[m]) \/ Call(m, IpCreated, To(m, "create"), mem[m], o)
      BY <1>7 DEF AllocateIP
    <2>. HIDE DEF o
    <2>3. Step(m, To(m, "create"), o) BY <1>2, <1>3, <2>1
    <2>. QED BY <1>4, <2>2, <2>3, ContinueMoves, CallMoves
  <1>8. CASE LinkFGPU(m) BY <1>4, <1>8, CallMoves DEF LinkFGPU
  <1>9. CASE StartVm(m) BY <1>4, <1>9, CallMoves DEF StartVm
  <1>10. CASE LinkBackend(m) BY <1>4, <1>10, ContinueMoves, CallMoves DEF LinkBackend
  <1>11. CASE Finish(m)
    <2>1. PICK v \in cloud.vms :
            LET seen == [mem[m] EXCEPT !.fd = v.az]
                o == [seen EXCEPT !.rec = mem[m].gen]
            IN IF v.ccm THEN EndPass(m, o) ELSE Call(m, VmTagged(v.id), Start("patch"), seen, o)
      BY <1>11 DEF Finish
    <2>. DEFINE seen == [mem[m] EXCEPT !.fd = v.az]
                o == [seen EXCEPT !.rec = mem[m].gen]
    <2>2. /\ seen.fin = mem[m].fin /\ seen.pid = mem[m].pid /\ seen.ready = mem[m].ready
          /\ o.fin = mem[m].fin /\ o.pid = mem[m].pid /\ o.ready = mem[m].ready
      BY <1>1 DEF OscMachine
    <2>3. IF v.ccm THEN EndPass(m, o) ELSE Call(m, VmTagged(v.id), Start("patch"), seen, o) BY <2>1
    <2>. HIDE DEF seen, o
    <2>4. Step(m, Start("patch"), o) /\ Step(m, Start("patch"), seen) BY <1>2, <1>3, <2>2
    <2>. QED BY <2>3, <2>4, ContinueMoves, CallMoves DEF EndPass
  <1>. QED BY <1>5, <1>6, <1>7, <1>8, <1>9, <1>10, <1>11

LEMMA DeletionMoves ==
  ASSUME IInv, NEW m \in Machines,
         LookupDeletedVm(m) \/ UnlinkBackend(m) \/ DeleteVm(m) \/ DeletePublicIp(m) \/ RemoveFinalizer(m)
  PROVE  PassMoves(m)
  <1>1. /\ at[m].phase \in Deleting /\ at[m].phase \notin Between /\ mem[m] \in OscMachine
    BY DEF LookupDeletedVm, UnlinkBackend, DeleteVm, DeletePublicIp, RemoveFinalizer, Between, Deleting,
           IInv, TypeInv, TypeOK
  <1>2. ASSUME NEW p \in Deleting \cup {"patch"}, NEW o,
               o.fin = mem[m].fin, o.pid = mem[m].pid, o.ready = mem[m].ready
        PROVE  Step(m, Start(p), o)
    BY <1>1, <1>2, PlainStep DEF Start, Deleting
  <1>3. \A p \in Deleting \cup {"patch"} : Step(m, Start(p), mem[m]) BY <1>2
  <1>4. CASE LookupDeletedVm(m)
    <2>1. CASE Continue(m, Start("dIp"), mem[m]) BY <1>3, <2>1, ContinueMoves DEF Deleting
    <2>2. ASSUME NEW v \in FoundVms(m), NEW p \in {"dIp", "dUnlink", "dDelete"},
                 Continue(m, Start(p), Tracked(mem[m], v))
          PROVE  PassMoves(m)
      <3>1. /\ Tracked(mem[m], v).fin = mem[m].fin /\ Tracked(mem[m], v).pid = mem[m].pid
            /\ Tracked(mem[m], v).ready = mem[m].ready
        BY <1>1 DEF Tracked, OscMachine
      <3>2. Step(m, Start(p), Tracked(mem[m], v)) BY <1>2, <3>1 DEF Deleting
      <3>. QED BY <2>2, <3>2, ContinueMoves
    <2>. QED BY <1>4, <2>1, <2>2 DEF LookupDeletedVm
  <1>5. CASE UnlinkBackend(m) BY <1>3, <1>5, CallMoves DEF UnlinkBackend, Deleting
  <1>6. CASE DeleteVm(m) BY <1>3, <1>6, CallMoves DEF DeleteVm, Deleting
  <1>7. CASE DeletePublicIp(m)
    <2>. DEFINE done == [mem[m] EXCEPT !.ip = 0]
    <2>1. done.fin = mem[m].fin /\ done.pid = mem[m].pid /\ done.ready = mem[m].ready BY <1>1 DEF OscMachine
    <2>2. \/ Continue(m, Start("dFinal"), done) \/ EndPass(m, mem[m])
          \/ Call(m, IpDeleted(mem[m].ip), Start("dFinal"), mem[m], done)
      BY <1>7 DEF DeletePublicIp
    <2>. HIDE DEF done
    <2>3. Step(m, Start("dFinal"), done) BY <1>2, <2>1 DEF Deleting
    <2>. QED BY <1>3, <2>2, <2>3, ContinueMoves, CallMoves DEF EndPass
  <1>8. CASE RemoveFinalizer(m)
    <2>. DEFINE o == [mem[m] EXCEPT !.fin = "removed"]
    <2>1. o.pid = mem[m].pid /\ o.ready = mem[m].ready BY <1>1 DEF OscMachine
    <2>2. at[m].phase = "dFinal" /\ Continue(m, Start("patch"), o) BY <1>8 DEF RemoveFinalizer, EndPass
    <2>. HIDE DEF o
    <2>3. Step(m, Start("patch"), o) BY <1>1, <2>1, <2>2 DEF Step, Start, Deleting
    <2>. QED BY <2>2, <2>3, ContinueMoves
  <1>. QED BY <1>4, <1>5, <1>6, <1>7, <1>8

(* The new VM and its provider ID. *)
LEMMA CreateVmMoves ==
  ASSUME IInv, NEW m \in Machines, CreateVm(m)
  PROVE  /\ PassMoves(m)
         /\ \/ cloud' = cloud
            \/ \E v : Live(v) /\ v.m = m /\ cloud'.vms = cloud.vms \cup {v}
  <1>1. at[m].phase = "create" /\ mem[m] \in OscMachine /\ cloud.next \in Nat /\ cloud.next > 0
    BY DEF CreateVm, IInv, TypeInv, TypeOK, Cloud, Id, FreshIds
  <1>. DEFINE v == [id |-> cloud.next, m |-> m, az |-> at[m].az, state |-> "pending",
                    ip |-> IF m \in PublicIp THEN mem[m].ip ELSE 0,
                    attached |-> FALSE, boot |-> m \notin GPU, ccm |-> FALSE]
              after == [cloud EXCEPT !.next = @ + 1, !.vms = @ \cup {v}]
              o == [mem[m] EXCEPT !.vm = cloud.next, !.pid = cloud.next]
  <1>2. Call(m, after, Start("patch"), mem[m], o) BY DEF CreateVm, VmCreated
  <1>3. o.fin = mem[m].fin /\ o.pid = cloud.next /\ o.ready = mem[m].ready BY <1>1 DEF OscMachine
  <1>4. v.m = m /\ Live(v) BY DEF Live
  <1>5. after.vms = cloud.vms \cup {v}
    <2>. HIDE DEF v
    <2>. QED BY DEF IInv, TypeInv, TypeOK, Cloud
  <1>. HIDE DEF v, after, o
  <1>6. cloud' = after => VmsOf(m)' # {} BY <1>4, <1>5 DEF VmsOf
  <1>7. Start("patch").phase = "patch" BY DEF Start
  <1>8. Step(m, Start("patch"), mem[m]) BY <1>1, <1>7, PlainStep DEF Deleting, Between
  <1>9. cloud' = after => Step(m, Start("patch"), o)
    BY <1>1, <1>3, <1>6, <1>7 DEF Step, Deleting, Between
  <1>10. PassMoves(m) BY <1>2, <1>8, <1>9, CallMoves
  <1>. QED BY <1>2, <1>4, <1>5, <1>10 DEF Call
--------------------------------------------------------------------------------------
(* What the steps do to the VMs. *)
VmKept(n) == VmLife(n)' = VmLife(n) /\ (VmsOf(n)' = {} <=> VmsOf(n) = {})

LEMMA AlikeKept ==
  ASSUME Alike, NEW n \in Machines
  PROVE  VmKept(n)
  <1>1. /\ \A w \in VmsOf(n)' : \E v \in VmsOf(n) : Same(v, w)
        /\ \A v \in VmsOf(n) : \E w \in VmsOf(n)' : Same(v, w)
    BY DEF Alike, VmsOf, Same
  <1>2. VmsOf(n)' = {} <=> VmsOf(n) = {} BY <1>1
  <1>3. (\E w \in VmsOf(n)' : Live(w)) <=> (\E v \in VmsOf(n) : Live(v)) BY <1>1 DEF Same
  <1>. QED BY <1>2, <1>3 DEF VmKept, VmLife

LEMMA SameVmsKept ==
  ASSUME cloud'.vms = cloud.vms, NEW n \in Machines
  PROVE  VmKept(n)
  <1>1. VmsOf(n)' = VmsOf(n) BY DEF VmsOf
  <1>. QED BY <1>1 DEF VmKept, VmLife

(* A call that leaves the VMs alike, whether it succeeds, is lost, or its  *)
(* answer is.                                                              *)
LEMMA CallKept ==
  ASSUME NEW m \in Machines, NEW after, NEW a, NEW seen, NEW o, Call(m, after, a, seen, o),
         cloud' = after => Alike, NEW n \in Machines
  PROVE  VmKept(n)
  <1>1. CASE cloud' = after BY <1>1, AlikeKept
  <1>2. CASE cloud' = cloud BY <1>2, SameVmsKept
  <1>. QED BY <1>1, <1>2 DEF Call

LEMMA PassKept ==
  ASSUME IInv, NEW m \in Machines, NEW n \in Machines,
         \/ Lookup(m) \/ Place(m) \/ LookupFails(m) \/ AllocateFGPU(m) \/ TagFGPU(m) \/ AllocateIP(m)
         \/ LinkFGPU(m) \/ StartVm(m) \/ LinkBackend(m) \/ Finish(m) \/ LookupDeletedVm(m)
         \/ UnlinkBackend(m) \/ DeletePublicIp(m) \/ RemoveFinalizer(m)
  PROVE  VmKept(n)
  <1>1. ASSUME UNCHANGED cloud PROVE VmKept(n) BY <1>1, SameVmsKept
  <1>2. ASSUME NEW a, NEW o, Continue(m, a, o) PROVE VmKept(n) BY <1>1, <1>2 DEF Continue
  <1>3. CASE Lookup(m) \/ Place(m) \/ LookupFails(m) \/ LookupDeletedVm(m) \/ RemoveFinalizer(m)
    <2>1. UNCHANGED cloud
      BY <1>3 DEF Lookup, Place, LookupFails, LookupDeletedVm, RemoveFinalizer, EndPass, Continue
    <2>. QED BY <1>1, <2>1
  <1>4. ASSUME NEW az, NEW i, cloud' \in {GpuCreated(m, az), GpuTagged(i), GpuLinked(i), IpCreated, IpDeleted(i)}
        PROVE  Alike
    BY <1>4, AllocatedAlike
  <1>5. CASE AllocateFGPU(m) BY <1>2, <1>4, <1>5, CallKept DEF AllocateFGPU, EndPass
  <1>6. CASE TagFGPU(m) BY <1>4, <1>6, CallKept DEF TagFGPU
  <1>7. CASE AllocateIP(m) BY <1>2, <1>4, <1>7, CallKept DEF AllocateIP
  <1>8. CASE LinkFGPU(m) BY <1>4, <1>8, CallKept DEF LinkFGPU
  <1>9. CASE StartVm(m) BY <1>9, StartedAlike, CallKept DEF StartVm
  <1>10. ASSUME NEW i, cloud' \in {BackendLinked(i), BackendUnlinked(i)} PROVE Alike
    <2>1. cloud'.vms = cloud.vms /\ cloud'.next = cloud.next /\ cloud.next \in Nat
      BY <1>10 DEF BackendLinked, BackendUnlinked, IInv, TypeInv, TypeOK, Cloud, Id
    <2>. QED BY <2>1, VmsUntouched
  <1>11. CASE LinkBackend(m) BY <1>2, <1>10, <1>11, CallKept DEF LinkBackend
  <1>12. CASE UnlinkBackend(m) BY <1>10, <1>12, CallKept DEF UnlinkBackend
  <1>13. CASE Finish(m)
    <2>1. PICK i, a, seen, o : Continue(m, a, o) \/ Call(m, VmTagged(i), a, seen, o)
      BY <1>13 DEF Finish, EndPass
    <2>. QED BY <1>2, <2>1, TaggedAlike, CallKept
  <1>14. CASE DeletePublicIp(m)
    BY <1>2, <1>4, <1>14, CallKept DEF DeletePublicIp, EndPass
  <1>. QED BY <1>3, <1>5, <1>6, <1>7, <1>8, <1>9, <1>11, <1>12, <1>13, <1>14

(* A new VM is the only one of its machine. *)
LEMMA CreatedLife ==
  ASSUME IInv, NEW m \in Machines, CreateVm(m), NEW n \in Machines
  PROVE  VmKept(n) \/ (n = m /\ VmLife(m) = "none" /\ VmLife(m)' = "live" /\ VmsOf(m)' # {})
  <1>1. CASE cloud' = cloud BY <1>1, SameVmsKept
  <1>2. ASSUME NEW v, Live(v), v.m = m, cloud'.vms = cloud.vms \cup {v}
        PROVE  VmKept(n) \/ (n = m /\ VmLife(m) = "none" /\ VmLife(m)' = "live" /\ VmsOf(m)' # {})
    <2>1. CASE n = m
      <3>1. VmsOf(m) = {} BY DEF CreateVm, IInv, NoVmYet, Building
      <3>2. v \in VmsOf(m)' BY <1>2 DEF VmsOf
      <3>. QED BY <1>2, <2>1, <3>1, <3>2 DEF VmLife
    <2>2. CASE n # m
      <3>1. VmsOf(n)' = VmsOf(n) BY <1>2, <2>2 DEF VmsOf
      <3>. QED BY <3>1 DEF VmKept, VmLife
    <2>. QED BY <2>1, <2>2
  <1>. QED BY <1>1, <1>2, CreateVmMoves

(* A VM that is deleted goes in one's own deletion. *)
LEMMA DeletedLife ==
  ASSUME IInv, NEW m \in Machines, DeleteVm(m), NEW n \in Machines
  PROVE  VmKept(n) \/ (n = m /\ VmLife(m) = "live" /\ VmLife(m)' = "dead" /\ VmsOf(m)' # {})
  <1>1. at[m].phase = "dDelete" /\ Call(m, VmDeleted(mem[m].vm), Start("dIp"), mem[m], mem[m])
    BY DEF DeleteVm
  <1>2. CASE cloud' = cloud BY <1>2, SameVmsKept
  <1>3. CASE cloud' = VmDeleted(mem[m].vm)
    <2>. DEFINE f == [v \in cloud.vms |-> IF v.id = mem[m].vm /\ v.state # "terminated"
                                         THEN [v EXCEPT !.state = "shutting-down"] ELSE v]
    <2>1. cloud'.vms = {IF v.id = mem[m].vm /\ v.state # "terminated"
                        THEN [v EXCEPT !.state = "shutting-down"] ELSE v : v \in cloud.vms}
      BY <1>3 DEF VmDeleted, IInv, TypeInv, TypeOK, Cloud
    <2>2. \A w \in cloud'.vms : \E v \in cloud.vms : w = f[v] BY <2>1
    <2>3. \A v \in cloud.vms : f[v] \in cloud'.vms BY <2>1
    <2>4. \A v \in cloud.vms : /\ f[v].m = v.m
                               /\ v.id # mem[m].vm => f[v] = v
                               /\ v.id = mem[m].vm => ~Live(f[v])
      BY CloudParts DEF Live, Vm, IInv, TypeInv, TypeOK
    <2>. HIDE DEF f
    <2>5. \A v \in cloud.vms : v.m = m <=> v.id = mem[m].vm
      BY <1>1 DEF IInv, OwnVms, NamesAgree, Names, VmAtHand
    <2>6. CASE n # m
      <3>1. \A v \in VmsOf(n) : v \in VmsOf(n)' BY <2>3, <2>4, <2>5, <2>6 DEF VmsOf
      <3>2. \A w \in VmsOf(n)' : w \in VmsOf(n) BY <2>2, <2>4, <2>5, <2>6 DEF VmsOf
      <3>3. VmsOf(n)' = VmsOf(n) BY <3>1, <3>2
      <3>. QED BY <3>3 DEF VmKept, VmLife
    <2>7. CASE n = m
      <3>1. \A w \in VmsOf(m)' : ~Live(w) BY <2>2, <2>4, <2>5 DEF VmsOf
      <3>2. VmsOf(m)' = {} <=> VmsOf(m) = {} BY <2>2, <2>3, <2>4 DEF VmsOf
      <3>. QED BY <2>7, <3>1, <3>2 DEF VmKept, VmLife
    <2>. QED BY <2>6, <2>7
  <1>. QED BY <1>1, <1>2, <1>3 DEF Call

LEMMA VanishedLife ==
  ASSUME IInv, VmVanishes
  PROVE  \E m \in Machines : /\ Condemned(m) /\ VmLife(m) = "dead" /\ VmLife(m)' = "none"
                             /\ \A n \in Machines \ {m} : VmKept(n)
  <1>1. PICK v \in cloud.vms :
          v.state = "terminated" /\ CloudStep([cloud EXCEPT !.vms = @ \ {v}])
    BY DEF VmVanishes
  <1>2. cloud'.vms = cloud.vms \ {v} BY <1>1 DEF CloudStep, IInv, TypeInv, TypeOK, Cloud
  <1>3. v.m \in Machines /\ ~Live(v) BY <1>1, CloudParts DEF Live, IInv, TypeInv, TypeOK, Vm
  <1>4. VmsOf(v.m) = {v} BY <1>3 DEF VmsOf, IInv, OneVm
  <1>5. VmsOf(v.m)' = {} BY <1>2, <1>4 DEF VmsOf
  <1>6. Condemned(v.m) BY <1>3, <1>4 DEF IInv, GoneIsCondemned
  <1>7. VmLife(v.m) = "dead" /\ VmLife(v.m)' = "none" BY <1>3, <1>4, <1>5 DEF VmLife
  <1>8. \A n \in Machines \ {v.m} : VmsOf(n)' = VmsOf(n) BY <1>2 DEF VmsOf
  <1>9. \A n \in Machines \ {v.m} : VmKept(n) BY <1>8 DEF VmKept, VmLife
  <1>. QED BY <1>3, <1>6, <1>7, <1>9
--------------------------------------------------------------------------------------
(* The invariant is kept.  A machine's VM goes only once it is condemned.  *)
GoesCondemned(n) == VmsOf(n)' = {} => VmsOf(n) = {} \/ Condemned(n)

LEMMA OthersKept ==
  ASSUME ContractInv, NEW n \in Machines, GoesCondemned(n),
         obj'[n] = obj[n], cache'[n] = cache[n], old'[n] = old[n], mem'[n] = mem[n], at'[n] = at[n]
  PROVE  Kept(n)'
  <1>1. Kept(n) BY DEF ContractInv
  <1>2. /\ Pids(n)' = Pids(n) /\ SomeReady(n)' = SomeReady(n) /\ Condemned(n)' = Condemned(n)
        /\ Asked(n)' = Asked(n)
    BY DEF Pids, SomeReady, Condemned, Asked
  <1>3. NamedHasVm(n)' BY <1>1, <1>2 DEF Kept, NamedHasVm, GoesCondemned
  <1>. QED BY <1>1, <1>2, <1>3 DEF Kept, Born, NeverHeld, RemovedIsGone, OnePid, Recording

LEMMA MovesKept ==
  ASSUME ContractInv, NEW m \in Machines, PassMoves(m), \A n \in Machines : GoesCondemned(n)
  PROVE  \A n \in Machines : Kept(n)'
  <1>. USE DEF ContractInv
  <1>1. PICK a, o : /\ at' = [at EXCEPT ![m] = a] /\ mem' = [mem EXCEPT ![m] = o]
                    /\ Step(m, a, o)
    BY DEF PassMoves
  <1>2. /\ at'[m] = a /\ mem'[m] = o /\ UNCHANGED <<obj, cache, old>>
        /\ \A n \in Machines : n # m => at'[n] = at[n] /\ mem'[n] = mem[n]
    BY <1>1 DEF PassMoves, IInv, TypeInv, TypeOK
  <1>3. ASSUME NEW n \in Machines, n # m PROVE Kept(n)' BY <1>2, <1>3, OthersKept
  <1>4. Kept(m) /\ GoesCondemned(m) OBVIOUS
  <1>5. mem[m].pid = old[m].pid BY <1>1, <1>4 DEF Kept, Recording, Step, Between
  <1>6. Asked(m) /\ Asked(m)' BY <1>1, <1>2, <1>4 DEF Kept, Born, Step, Between, Asked
  <1>7. Condemned(m) => Condemned(m)' BY <1>1, <1>2 DEF Condemned, Step, Between, Deleting
  <1>8. Born(m)' BY <1>6 DEF Born
  <1>9. NeverHeld(m)' BY <1>1, <1>2, <1>4 DEF Kept, NeverHeld, Step
  <1>10. RemovedIsGone(m)' BY <1>2, <1>4 DEF Kept, RemovedIsGone
  <1>11. SomeReady(m)' => SomeReady(m) \/ VmsOf(m) # {} BY <1>1, <1>2 DEF SomeReady, Step
  <1>12. old'[m].ready => mem'[m].ready BY <1>1, <1>2, <1>4 DEF Kept, Recording, Step
  <1>13. CASE o.pid = mem[m].pid
    <2>1. Pids(m)' = Pids(m) BY <1>2, <1>13 DEF Pids
    <2>2. OnePid(m)' BY <1>4, <2>1 DEF Kept, OnePid
    <2>3. NamedHasVm(m)' BY <1>4, <1>7, <1>11, <2>1 DEF Kept, NamedHasVm, GoesCondemned
    <2>4. Recording(m)' BY <1>2, <1>5, <1>12, <1>13 DEF Recording
    <2>. QED BY <1>3, <1>8, <1>9, <1>10, <2>2, <2>3, <2>4 DEF Kept
  <1>14. CASE o.pid # mem[m].pid
    <2>1. at[m].phase = "create" /\ a.phase = "patch" /\ o.pid # 0 /\ VmsOf(m)' # {} /\ o.fin = mem[m].fin
      BY <1>1, <1>14 DEF Step
    <2>2. VmsOf(m) = {} /\ ~Condemned(m)
      BY <2>1 DEF IInv, NoVmYet, Building, Condemned, Deleting, Between
    <2>3. Pids(m) = {0} BY <1>4, <2>2 DEF Kept, NamedHasVm
    <2>4. Pids(m)' \subseteq {0, o.pid} BY <1>2, <2>3 DEF Pids
    <2>5. OnePid(m)' BY <2>4 DEF OnePid
    <2>6. NamedHasVm(m)' BY <2>1 DEF NamedHasVm
    <2>7. mem[m].fin # "removed" BY <2>2 DEF IInv, Released, Finalizers
    <2>8. Recording(m)' BY <1>2, <1>12, <2>1, <2>7 DEF Recording
    <2>. QED BY <1>3, <1>8, <1>9, <1>10, <2>5, <2>6, <2>8 DEF Kept
  <1>. QED BY <1>13, <1>14

(* The beginning and the end of a pass, the API server and the informer.   *)
LEMMA ScopeKept ==
  ASSUME ContractInv, IInv', NEW m \in Machines,
         Reconcile(m) \/ CloseObject(m) \/ CloseStatus(m) \/ Sync(m) \/ Create(m) \/ Delete(m)
  PROVE  \A n \in Machines : Kept(n)'
  <1>. USE DEF ContractInv
  <1>1. cloud' = cloud
    BY DEF Reconcile, CloseObject, CloseStatus, Sync, Create, Delete, Patch, PassUnchanged
  <1>2. \A n \in Machines : VmsOf(n)' = VmsOf(n) /\ GoesCondemned(n) BY <1>1 DEF VmsOf, GoesCondemned
  <1>3. ASSUME NEW n \in Machines, n # m PROVE Kept(n)'
    <2>1. obj'[n] = obj[n] /\ cache'[n] = cache[n] /\ old'[n] = old[n] /\ mem'[n] = mem[n] /\ at'[n] = at[n]
      BY <1>3 DEF Reconcile, CloseObject, CloseStatus, Sync, Create, Delete, Patch,
                  PassUnchanged, IInv, TypeInv, TypeOK
    <2>. QED BY <1>2, <2>1, OthersKept
  <1>4. /\ NewOscMachine.pid = 0 /\ ~NewOscMachine.ready /\ NewOscMachine.fin = "none"
        /\ NewOscMachine.exists /\ ~NewOscMachine.del
    BY DEF NewOscMachine
  <1>5. \A p : Start(p).phase = p BY DEF Start
  <1>6. /\ obj[m] \in OscMachine /\ cache[m] \in OscMachine /\ old[m] \in OscMachine /\ mem[m] \in OscMachine
        /\ at[m] \in Position
    BY DEF IInv, TypeInv, TypeOK
  <1>7. Kept(m) OBVIOUS
  <1>8. (cache[m].del => obj[m].del) /\ (cache'[m].del => obj'[m].del) BY DEF IInv, DeletionIsFinal
  <1>9. CASE Reconcile(m)
    <2>1. /\ obj'[m] = obj[m] /\ cache'[m] = cache[m] /\ old'[m] = cache[m]
          /\ mem'[m].pid = cache[m].pid /\ mem'[m].ready = cache[m].ready
          /\ at'[m].phase = IF cache[m].del THEN "dVm" ELSE "vm"
          /\ cache[m].exists /\ at[m].phase = "idle"
      BY <1>5, <1>6, <1>9 DEF Reconcile, IInv, TypeInv, TypeOK, OscMachine
    <2>2. Born(m)' BY <1>7, <2>1 DEF Kept, Born, Asked
    <2>3. NeverHeld(m)' BY <1>7, <2>1 DEF Kept, NeverHeld, Deleting
    <2>4. RemovedIsGone(m)' BY <1>7, <2>1 DEF Kept, RemovedIsGone
    <2>5. Pids(m)' \subseteq Pids(m) /\ (SomeReady(m)' => SomeReady(m)) BY <2>1 DEF Pids, SomeReady
    <2>6. OnePid(m)' BY <1>7, <2>5 DEF Kept, OnePid
    <2>7. Condemned(m) => Condemned(m)' BY <2>1 DEF Condemned, Deleting
    <2>8. Pids(m)' # {0} => Pids(m) # {0} BY <2>1 DEF Pids
    <2>9. NamedHasVm(m)' BY <1>2, <1>7, <2>5, <2>7, <2>8 DEF Kept, NamedHasVm
    <2>10. Recording(m)' BY <2>1 DEF Recording
    <2>. QED BY <1>3, <2>2, <2>3, <2>4, <2>6, <2>9, <2>10 DEF Kept
  <1>10. CASE CloseObject(m)
    <2>1. /\ cache'[m] = cache[m] /\ old'[m] = old[m] /\ mem'[m] = mem[m] /\ at'[m].phase = "status"
          /\ at[m].phase = "patch"
          /\ obj'[m] = obj[m] \/ (obj[m].exists /\ obj'[m] = PatchedObject(m))
      BY <1>5, <1>10 DEF CloseObject, Patch, IInv, TypeInv, TypeOK
    <2>2. /\ PatchedObject(m).ready = obj[m].ready /\ PatchedObject(m).del = obj[m].del
          /\ PatchedObject(m).fin \in {obj[m].fin, mem[m].fin}
          /\ PatchedObject(m).pid \in {obj[m].pid, mem[m].pid}
          /\ PatchedObject(m).exists = ~(obj[m].del /\ PatchedObject(m).fin = "removed")
      BY <1>6 DEF PatchedObject, Merge, OscMachine
    <2>3. Asked(m) /\ Asked(m)' BY <1>6, <1>7, <2>1, <2>2 DEF Kept, Born, Asked
    <2>4. Born(m)' BY <2>3 DEF Born
    <2>5. "removed" \in {obj[m].fin, mem[m].fin} => obj[m].del
      BY <1>8 DEF IInv, Released, Finalizers, Condemned
    <2>6. RemovedIsGone(m)' BY <1>7, <2>1, <2>2, <2>5 DEF Kept, RemovedIsGone
    <2>7. NeverHeld(m)' BY <1>7, <2>1, <2>2 DEF Kept, NeverHeld, Deleting
    <2>8. Pids(m)' \subseteq Pids(m) /\ (SomeReady(m)' => SomeReady(m)) BY <2>1, <2>2 DEF Pids, SomeReady
    <2>9. OnePid(m)' BY <1>7, <2>8 DEF Kept, OnePid
    <2>10. Condemned(m) => Condemned(m)' BY <2>1 DEF Condemned, Between
    <2>11. Pids(m)' # {0} => Pids(m) # {0} BY <2>1, <2>2 DEF Pids
    <2>12. NamedHasVm(m)' BY <1>2, <1>7, <2>8, <2>10, <2>11 DEF Kept, NamedHasVm
    <2>13. Recording(m)' BY <1>7, <2>1 DEF Kept, Recording
    <2>. QED BY <1>3, <2>4, <2>6, <2>7, <2>9, <2>12, <2>13 DEF Kept
  <1>11. CASE CloseStatus(m)
    <2>1. /\ cache'[m] = cache[m] /\ old'[m] = NewOscMachine /\ mem'[m] = NewOscMachine
          /\ at'[m].phase = "idle" /\ at[m].phase = "status"
          /\ obj'[m] \in {obj[m], PatchedStatus(m)}
      BY <1>5, <1>11 DEF CloseStatus, Patch, IInv, TypeInv, TypeOK
    <2>2. /\ PatchedStatus(m).exists = obj[m].exists /\ PatchedStatus(m).del = obj[m].del
          /\ PatchedStatus(m).fin = obj[m].fin /\ PatchedStatus(m).pid = obj[m].pid
          /\ PatchedStatus(m).ready \in {obj[m].ready, mem[m].ready}
      BY <1>6 DEF PatchedStatus, Merge, OscMachine
    <2>3. Born(m)' BY <1>7, <2>1, <2>2 DEF Kept, Born, Asked
    <2>4. NeverHeld(m)' BY <1>7, <2>1, <2>2 DEF Kept, NeverHeld, Deleting
    <2>5. RemovedIsGone(m)' BY <1>7, <2>1, <2>2 DEF Kept, RemovedIsGone
    <2>6. \A i \in Pids(m)' : i = 0 \/ i \in Pids(m) BY <1>4, <2>1, <2>2 DEF Pids
    <2>7. SomeReady(m)' => SomeReady(m) BY <1>4, <1>6, <2>1, <2>2 DEF SomeReady, OscMachine
    <2>8. OnePid(m)' BY <1>7, <2>6 DEF Kept, OnePid
    <2>9. Condemned(m) => Condemned(m)' BY <2>1 DEF Condemned, Between
    <2>10. Pids(m)' # {0} => Pids(m) # {0} BY <1>4, <2>1, <2>2 DEF Pids
    <2>11. NamedHasVm(m)' BY <1>2, <1>7, <2>7, <2>9, <2>10 DEF Kept, NamedHasVm
    <2>12. Recording(m)' BY <1>4, <2>1 DEF Recording
    <2>. QED BY <1>3, <2>3, <2>4, <2>5, <2>8, <2>11, <2>12 DEF Kept
  <1>12. CASE Sync(m)
    <2>1. /\ obj'[m] = obj[m] /\ cache'[m] = obj[m] /\ old'[m] = old[m] /\ mem'[m] = mem[m] /\ at'[m] = at[m]
      BY <1>12 DEF Sync, PassUnchanged, IInv, TypeInv, TypeOK
    <2>2. Born(m)' BY <1>7, <2>1 DEF Kept, Born, Asked
    <2>3. NeverHeld(m)' BY <1>7, <2>1 DEF Kept, NeverHeld
    <2>4. RemovedIsGone(m)' BY <1>7, <2>1 DEF Kept, RemovedIsGone
    <2>5. Pids(m)' \subseteq Pids(m) /\ (SomeReady(m)' => SomeReady(m)) BY <2>1 DEF Pids, SomeReady
    <2>6. OnePid(m)' BY <1>7, <2>5 DEF Kept, OnePid
    <2>7. Condemned(m) => Condemned(m)' BY <1>8, <2>1 DEF Condemned
    <2>8. Pids(m)' # {0} => Pids(m) # {0} BY <2>1 DEF Pids
    <2>9. NamedHasVm(m)' BY <1>2, <1>7, <2>5, <2>7, <2>8 DEF Kept, NamedHasVm
    <2>10. Recording(m)' BY <1>7, <2>1 DEF Kept, Recording
    <2>. QED BY <1>3, <2>2, <2>3, <2>4, <2>6, <2>9, <2>10 DEF Kept
  <1>13. CASE Create(m) \/ Delete(m)
    <2>1. /\ cache'[m] = cache[m] /\ old'[m] = old[m] /\ mem'[m] = mem[m] /\ at'[m] = at[m]
          /\ obj'[m].fin \in {"none", obj[m].fin} /\ obj'[m].pid \in {0, obj[m].pid}
          /\ obj'[m].ready => obj[m].ready
      BY <1>4, <1>6, <1>13 DEF Create, Delete, PassUnchanged, IInv, TypeInv, TypeOK, OscMachine
    <2>2. Asked(m)' BY <1>4, <1>6, <1>13 DEF Create, Delete, Asked, IInv, TypeInv, TypeOK, OscMachine
    <2>3. Born(m)' BY <2>2 DEF Born
    <2>4. ~obj[m].del BY <1>13 DEF Create, Delete
    <2>5. at[m].phase \notin Deleting /\ ~cache[m].del BY <1>8, <2>4 DEF IInv, DeletionIsFinal
    <2>6. NeverHeld(m)' BY <2>1, <2>5 DEF NeverHeld
    <2>7. obj[m].fin # "removed" BY <2>5 DEF IInv, Released, Finalizers, Condemned
    <2>8. RemovedIsGone(m)' BY <2>1, <2>7 DEF RemovedIsGone
    <2>9. \A i \in Pids(m)' : i = 0 \/ i \in Pids(m) BY <2>1 DEF Pids
    <2>10. SomeReady(m)' => SomeReady(m) BY <2>1 DEF SomeReady
    <2>11. OnePid(m)' BY <1>7, <2>9 DEF Kept, OnePid
    <2>12. Condemned(m)' = Condemned(m) BY <2>1 DEF Condemned
    <2>13. Pids(m)' # {0} => Pids(m) # {0} BY <2>1 DEF Pids
    <2>14. NamedHasVm(m)' BY <1>2, <1>7, <2>10, <2>12, <2>13 DEF Kept, NamedHasVm
    <2>15. Recording(m)' BY <1>7, <2>1 DEF Kept, Recording
    <2>. QED BY <1>3, <2>3, <2>6, <2>8, <2>11, <2>14, <2>15 DEF Kept
  <1>. QED BY <1>9, <1>10, <1>11, <1>12, <1>13

LEMMA RestartKept ==
  ASSUME ContractInv, Restart
  PROVE  \A n \in Machines : Kept(n)'
  <1>. SUFFICES ASSUME NEW n \in Machines PROVE Kept(n)'
    OBVIOUS
  <1>1. /\ old'[n] = NewOscMachine /\ mem'[n] = NewOscMachine
        /\ at'[n].phase = "idle" /\ obj'[n] = obj[n] /\ cache'[n] = cache[n] /\ cloud' = cloud
    BY DEF Restart, Start
  <1>2. NewOscMachine.pid = 0 /\ ~NewOscMachine.ready BY DEF NewOscMachine
  <1>3. Kept(n) /\ VmsOf(n)' = VmsOf(n) BY <1>1 DEF ContractInv, VmsOf
  <1>4. /\ \A i \in Pids(n)' : i = 0 \/ i \in Pids(n)
        /\ SomeReady(n)' => SomeReady(n)
        /\ Pids(n)' # {0} => Pids(n) # {0}
    BY <1>1, <1>2 DEF Pids, SomeReady
  <1>5. Condemned(n) => Condemned(n)' BY <1>1 DEF Condemned, Between
  <1>6. Born(n)' BY <1>1, <1>3 DEF Kept, Born, Asked
  <1>7. NeverHeld(n)' BY <1>1, <1>3 DEF Kept, NeverHeld, Deleting
  <1>8. RemovedIsGone(n)' BY <1>1, <1>3 DEF Kept, RemovedIsGone
  <1>9. OnePid(n)' BY <1>3, <1>4 DEF Kept, OnePid
  <1>10. NamedHasVm(n)' BY <1>3, <1>4, <1>5 DEF Kept, NamedHasVm
  <1>11. Recording(n)' BY <1>1, <1>2 DEF Recording
  <1>. QED BY <1>6, <1>7, <1>8, <1>9, <1>10, <1>11 DEF Kept

LEMMA NextContractInv == ContractInv /\ [Next]_vars => ContractInv'
  <1>. SUFFICES ASSUME ContractInv, [Next]_vars PROVE \A n \in Machines : Kept(n)'
    BY NextInv DEF ContractInv
  <1>0. IInv /\ IInv' BY NextInv DEF ContractInv
  <1>1. ASSUME NEW n \in Machines, VmKept(n) PROVE GoesCondemned(n)
    BY <1>1 DEF VmKept, GoesCondemned
  <1>2. ASSUME NEW m \in Machines, Pass(m) \/ LookupFails(m) \/ Sync(m) \/ Create(m) \/ Delete(m)
        PROVE  \A n \in Machines : Kept(n)'
    <2>1. CASE \/ Lookup(m) \/ Place(m) \/ LookupFails(m) \/ AllocateFGPU(m) \/ TagFGPU(m) \/ AllocateIP(m)
               \/ LinkFGPU(m) \/ StartVm(m) \/ LinkBackend(m) \/ Finish(m) \/ LookupDeletedVm(m)
               \/ UnlinkBackend(m) \/ DeletePublicIp(m) \/ RemoveFinalizer(m)
      <3>1. PassMoves(m) BY <1>0, <2>1, LookupMoves, PlaceMoves, BuildMoves, DeletionMoves
      <3>2. \A n \in Machines : GoesCondemned(n) BY <1>0, <1>1, <2>1, PassKept
      <3>. QED BY <3>1, <3>2, MovesKept
    <2>2. CASE CreateVm(m)
      <3>1. PassMoves(m) BY <1>0, <2>2, CreateVmMoves
      <3>2. \A n \in Machines : GoesCondemned(n) BY <1>0, <1>1, <2>2, CreatedLife DEF GoesCondemned
      <3>. QED BY <3>1, <3>2, MovesKept
    <2>3. CASE DeleteVm(m)
      <3>1. PassMoves(m) BY <1>0, <2>3, DeletionMoves
      <3>2. \A n \in Machines : GoesCondemned(n) BY <1>0, <1>1, <2>3, DeletedLife DEF GoesCondemned
      <3>. QED BY <3>1, <3>2, MovesKept
    <2>4. CASE Reconcile(m) \/ CloseObject(m) \/ CloseStatus(m) \/ Sync(m) \/ Create(m) \/ Delete(m)
      BY <1>0, <2>4, ScopeKept
    <2>. QED BY <1>2, <2>1, <2>2, <2>3, <2>4 DEF Pass
  <1>3. ASSUME UNCHANGED <<obj, cache, old, mem, at>>, \A n \in Machines : GoesCondemned(n)
        PROVE  \A n \in Machines : Kept(n)'
    BY <1>3, OthersKept
  <1>4. CASE CloudMoves
    <2>1. UNCHANGED <<obj, cache, old, mem, at>>
      BY <1>4 DEF CloudMoves, VmBoots, VmTerminates, VmVanishes, GpuAttaches, CloudStep, PassUnchanged
    <2>2. CASE VmVanishes
      <3>1. \A n \in Machines : GoesCondemned(n) BY <1>0, <1>1, <2>2, VanishedLife DEF GoesCondemned
      <3>. QED BY <1>3, <2>1, <3>1
    <2>3. CASE VmBoots \/ VmTerminates \/ GpuAttaches
      <3>1. \A n \in Machines : GoesCondemned(n) BY <1>0, <1>1, <2>3, MovesAlike, AlikeKept
      <3>. QED BY <1>3, <2>1, <3>1
    <2>. QED BY <1>4, <2>2, <2>3 DEF CloudMoves
  <1>5. CASE InfrastructureReady \/ UNCHANGED vars
    <2>1. UNCHANGED <<obj, cache, old, mem, at>> /\ UNCHANGED cloud
      BY <1>5 DEF InfrastructureReady, PassUnchanged, vars
    <2>2. \A n \in Machines : GoesCondemned(n) BY <1>1, <2>1, SameVmsKept
    <2>. QED BY <1>3, <2>1, <2>2
  <1>. QED BY <1>2, <1>4, <1>5, RestartKept DEF Next

LEMMA InitContractInv == Init => ContractInv
  <1>. SUFFICES ASSUME Init, NEW m \in Machines PROVE Kept(m)
    BY InitInv DEF ContractInv
  <1>. DEFINE first == [NewOscMachine EXCEPT !.exists = FALSE]
  <1>1. ~first.exists /\ ~first.del /\ first.fin = "none" /\ first.pid = 0 /\ ~first.ready
    BY DEF NewOscMachine
  <1>2. NewOscMachine.pid = 0 /\ ~NewOscMachine.ready BY DEF NewOscMachine
  <1>3. obj[m] = first /\ cache[m] = first /\ old[m] = NewOscMachine /\ mem[m] = NewOscMachine BY DEF Init
  <1>4. at[m].phase = "idle" BY DEF Init, Start
  <1>. HIDE DEF first
  <1>. QED BY <1>1, <1>2, <1>3, <1>4 DEF Kept, Born, Asked, NeverHeld, RemovedIsGone, OnePid, NamedHasVm, Recording,
         Pids, SomeReady
--------------------------------------------------------------------------------------
(* The steps of the contract, machine by machine. *)
Unseen(n) == Life(n)' = Life(n) /\ obj'[n].pid = obj[n].pid /\ VmLife(n)' = VmLife(n)

LEMMA Stutters ==
  ASSUME \A n \in Machines : Unseen(n)
  PROVE  UNCHANGED Contract!vars
  BY DEF Unseen, Contract!vars

LEMMA Lives ==
  ASSUME NEW m \in Machines, NEW from, NEW to, Life(m) \in from, Life(m)' = to,
         obj'[m].pid = obj[m].pid, VmLife(m)' = VmLife(m), \A n \in Machines \ {m} : Unseen(n)
  PROVE  Contract!Lives(m, from, to)
  BY DEF Unseen, Contract!Lives

LEMMA Named ==
  ASSUME NEW m \in Machines, Life(m) \in {"pending", "ready", "deleting"}, Life(m)' = Life(m),
         obj[m].pid = 0, obj'[m].pid \in Nat \ {0}, VmLife(m)' = VmLife(m),
         \A n \in Machines \ {m} : Unseen(n)
  PROVE  Contract!Name(m)
  BY DEF Unseen, Contract!Name

LEMMA VmGoes ==
  ASSUME NEW m \in Machines, NEW from, NEW to, VmLife(m) = from, VmLife(m)' = to,
         Life(m)' = Life(m), obj'[m].pid = obj[m].pid, \A n \in Machines \ {m} : Unseen(n)
  PROVE  Contract!VmGoes(m, from, to)
  BY DEF Unseen, Contract!VmGoes

(* What the API server shows changes only in the steps on the object. *)
LEMMA ObjectUntouched ==
  ASSUME UNCHANGED obj, NEW n \in Machines
  PROVE  Life(n)' = Life(n) /\ obj'[n].pid = obj[n].pid
  BY DEF Life

LEMMA CreateVmRefines ==
  ASSUME ContractInv, NEW m \in Machines, CreateVm(m)
  PROVE  [Contract!Next]_(Contract!vars)
  <1>1. UNCHANGED obj /\ at[m].phase = "create" BY DEF CreateVm, Call
  <1>2. \A n \in Machines : VmKept(n) => Unseen(n) BY <1>1, ObjectUntouched DEF VmKept, Unseen
  <1>3. CASE \A n \in Machines : VmKept(n) BY <1>2, <1>3, Stutters
  <1>4. CASE ~\A n \in Machines : VmKept(n)
    <2>1. /\ VmLife(m) = "none" /\ VmLife(m)' = "live"
          /\ \A n \in Machines \ {m} : Unseen(n)
      BY <1>2, <1>4, CreatedLife DEF ContractInv
    <2>2. Asked(m) BY <1>1 DEF ContractInv, Kept, Born
    <2>3. obj[m].fin # "removed"
      BY <1>1 DEF ContractInv, IInv, Released, Finalizers, Condemned, Deleting, Between
    <2>4. Life(m) \notin {"absent", "gone"} BY <2>2, <2>3 DEF Life, Asked
    <2>5. Contract!VmGoes(m, "none", "live") BY <1>1, <2>1, ObjectUntouched, VmGoes
    <2>6. Contract!Provision(m) BY <2>4, <2>5 DEF Contract!Provision
    <2>. QED BY <2>6 DEF Contract!Next
  <1>. QED BY <1>3, <1>4

LEMMA DeleteVmRefines ==
  ASSUME ContractInv, NEW m \in Machines, DeleteVm(m)
  PROVE  [Contract!Next]_(Contract!vars)
  <1>1. UNCHANGED obj /\ at[m].phase = "dDelete" BY DEF DeleteVm, Call
  <1>2. \A n \in Machines : VmKept(n) => Unseen(n) BY <1>1, ObjectUntouched DEF VmKept, Unseen
  <1>3. CASE \A n \in Machines : VmKept(n) BY <1>2, <1>3, Stutters
  <1>4. CASE ~\A n \in Machines : VmKept(n)
    <2>1. /\ VmLife(m) = "live" /\ VmLife(m)' = "dead"
          /\ \A n \in Machines \ {m} : Unseen(n)
      BY <1>2, <1>4, DeletedLife DEF ContractInv
    <2>2. obj[m].del BY <1>1 DEF ContractInv, IInv, DeletionIsFinal, Deleting
    <2>3. obj[m].fin # "removed"
      BY <2>1 DEF ContractInv, IInv, Released, Finalizers, AllGone, VmLife
    <2>4. obj[m].exists BY <1>1, <2>2, <2>3 DEF ContractInv, Kept, NeverHeld, Deleting
    <2>5. Life(m) = "deleting" BY <2>2, <2>4 DEF Life
    <2>6. Contract!VmGoes(m, "live", "dead") BY <1>1, <2>1, ObjectUntouched, VmGoes
    <2>7. Contract!Terminate(m) BY <2>5, <2>6 DEF Contract!Terminate
    <2>. QED BY <2>7 DEF Contract!Next
  <1>. QED BY <1>3, <1>4

LEMMA VanishRefines ==
  ASSUME ContractInv, VmVanishes
  PROVE  [Contract!Next]_(Contract!vars)
  <1>1. UNCHANGED obj BY DEF VmVanishes, CloudStep
  <1>2. PICK m \in Machines : /\ VmLife(m) = "dead" /\ VmLife(m)' = "none"
                              /\ \A n \in Machines \ {m} : VmKept(n)
    BY VanishedLife DEF ContractInv
  <1>3. \A n \in Machines \ {m} : Unseen(n) BY <1>1, <1>2, ObjectUntouched DEF VmKept, Unseen
  <1>4. Contract!VmGoes(m, "dead", "none") BY <1>1, <1>2, <1>3, ObjectUntouched, VmGoes
  <1>. QED BY <1>4 DEF Contract!Vanish, Contract!Next

(* The patch of the object names the machine or lets it go, never both. *)
LEMMA CloseObjectRefines ==
  ASSUME ContractInv, NEW m \in Machines, CloseObject(m)
  PROVE  [Contract!Next]_(Contract!vars)
  <1>1. obj[m] \in OscMachine /\ mem[m] \in OscMachine /\ old[m] \in OscMachine
    BY DEF ContractInv, IInv, TypeInv, TypeOK
  <1>2. /\ cloud' = cloud
        /\ \A n \in Machines \ {m} : obj'[n] = obj[n]
        /\ obj'[m] = obj[m] \/ (obj[m].exists /\ obj'[m] = PatchedObject(m))
    BY DEF CloseObject, Patch, ContractInv, IInv, TypeInv, TypeOK
  <1>3. \A n \in Machines : VmLife(n)' = VmLife(n) BY <1>2, SameVmsKept DEF VmKept
  <1>4. \A n \in Machines \ {m} : Unseen(n) BY <1>2, <1>3 DEF Unseen, Life
  <1>5. CASE obj'[m] = obj[m]
    <2>1. Unseen(m) BY <1>3, <1>5 DEF Unseen, Life
    <2>. QED BY <1>4, <2>1, Stutters
  <1>6. CASE obj[m].exists /\ obj'[m] = PatchedObject(m)
    <2>1. /\ obj'[m].ready = obj[m].ready /\ obj'[m].del = obj[m].del
          /\ obj'[m].fin = Merge(old[m].fin, mem[m].fin, obj[m].fin)
          /\ obj'[m].pid = Merge(old[m].pid, mem[m].pid, obj[m].pid)
          /\ obj'[m].exists = ~(obj[m].del /\ obj'[m].fin = "removed")
      BY <1>1, <1>6 DEF PatchedObject, OscMachine
    <2>2. obj[m].fin # "removed" BY <1>6 DEF ContractInv, Kept, RemovedIsGone
    <2>3. CASE obj'[m].fin = "removed"
      <3>1. mem[m].fin = "removed" BY <2>1, <2>2, <2>3 DEF Merge
      <3>2. AllGone(m) /\ obj[m].del
        BY <3>1 DEF ContractInv, IInv, Released, Finalizers, Condemned, DeletionIsFinal
      <3>3. obj'[m].pid = obj[m].pid BY <2>1, <3>1 DEF Merge, ContractInv, Kept, Recording
      <3>4. VmLife(m) # "live" BY <3>2 DEF AllGone, VmLife
      <3>5. Life(m) = "deleting" /\ Life(m)' = "gone" BY <1>6, <2>1, <2>3, <3>2 DEF Life
      <3>6. Contract!Lives(m, {"deleting"}, "gone") BY <1>3, <1>4, <3>3, <3>5, Lives
      <3>7. Contract!Release(m) BY <3>4, <3>6 DEF Contract!Release
      <3>. QED BY <3>7 DEF Contract!Next
    <2>4. CASE obj'[m].fin # "removed"
      <3>1. obj'[m].exists BY <2>1, <2>4
      <3>2. Life(m)' = Life(m) /\ Life(m) \in {"pending", "ready", "deleting"}
        BY <1>1, <1>6, <2>1, <3>1 DEF Life, OscMachine
      <3>3. CASE obj'[m].pid = obj[m].pid
        <4>1. Unseen(m) BY <1>3, <3>2, <3>3 DEF Unseen
        <4>. QED BY <1>4, <4>1, Stutters
      <3>4. CASE obj'[m].pid # obj[m].pid
        <4>1. obj'[m].pid = mem[m].pid /\ mem[m].pid # old[m].pid BY <2>1, <3>4 DEF Merge
        <4>2. mem[m].pid # 0 BY <4>1 DEF ContractInv, Kept, Recording
        <4>3. obj[m].pid = 0 BY <3>4, <4>1, <4>2 DEF ContractInv, Kept, OnePid, Pids
        <4>4. mem[m].pid \in Nat BY <1>1 DEF OscMachine, Id
        <4>5. Contract!Name(m) BY <1>3, <1>4, <3>2, <4>1, <4>2, <4>3, <4>4, Named
        <4>. QED BY <4>5 DEF Contract!Next
      <3>. QED BY <3>3, <3>4
    <2>. QED BY <2>3, <2>4
  <1>. QED BY <1>2, <1>5, <1>6

(* The patch of the status shows a machine ready that has its VM. *)
LEMMA CloseStatusRefines ==
  ASSUME ContractInv, NEW m \in Machines, CloseStatus(m)
  PROVE  [Contract!Next]_(Contract!vars)
  <1>1. obj[m] \in OscMachine /\ mem[m] \in OscMachine /\ old[m] \in OscMachine
    BY DEF ContractInv, IInv, TypeInv, TypeOK
  <1>2. /\ cloud' = cloud
        /\ \A n \in Machines \ {m} : obj'[n] = obj[n]
        /\ obj'[m] = obj[m] \/ (obj[m].exists /\ obj'[m] = PatchedStatus(m))
    BY DEF CloseStatus, Patch, ContractInv, IInv, TypeInv, TypeOK
  <1>3. \A n \in Machines : VmLife(n)' = VmLife(n) BY <1>2, SameVmsKept DEF VmKept
  <1>4. \A n \in Machines \ {m} : Unseen(n) BY <1>2, <1>3 DEF Unseen, Life
  <1>5. CASE obj'[m] = obj[m]
    <2>1. Unseen(m) BY <1>3, <1>5 DEF Unseen, Life
    <2>. QED BY <1>4, <2>1, Stutters
  <1>6. CASE obj[m].exists /\ obj'[m] = PatchedStatus(m)
    <2>1. /\ obj'[m].exists = obj[m].exists /\ obj'[m].del = obj[m].del
          /\ obj'[m].fin = obj[m].fin /\ obj'[m].pid = obj[m].pid
          /\ obj'[m].ready = Merge(old[m].ready, mem[m].ready, obj[m].ready)
      BY <1>1, <1>6 DEF PatchedStatus, OscMachine
    <2>2. CASE obj[m].del \/ obj'[m].ready = obj[m].ready
      <3>1. Life(m)' = Life(m) BY <1>1, <2>1, <2>2 DEF Life, OscMachine
      <3>2. Unseen(m) BY <1>3, <2>1, <3>1 DEF Unseen
      <3>. QED BY <1>4, <3>2, Stutters
    <2>3. CASE ~obj[m].del /\ obj'[m].ready # obj[m].ready
      <3>1. obj'[m].ready = mem[m].ready /\ mem[m].ready # old[m].ready BY <2>1, <2>3 DEF Merge
      <3>2. old[m].ready => mem[m].ready BY DEF ContractInv, Kept, Recording
      <3>3. mem[m].ready /\ ~obj[m].ready /\ obj'[m].ready BY <1>1, <2>3, <3>1, <3>2 DEF OscMachine
      <3>4. ~Condemned(m) BY <2>3 DEF ContractInv, IInv, DeletionIsFinal, Condemned
      <3>5. VmsOf(m) # {} BY <3>3, <3>4 DEF ContractInv, Kept, NamedHasVm, SomeReady
      <3>6. VmLife(m) = "live" BY <3>4, <3>5 DEF VmLife, ContractInv, IInv, GoneIsCondemned
      <3>7. Life(m) = "pending" /\ Life(m)' = "ready" BY <1>6, <2>1, <2>3, <3>3 DEF Life
      <3>8. Contract!Lives(m, {"pending"}, "ready") BY <1>3, <1>4, <2>1, <3>7, Lives
      <3>9. Contract!BecomeReady(m) BY <3>6, <3>8 DEF Contract!BecomeReady
      <3>. QED BY <3>9 DEF Contract!Next
    <2>. QED BY <2>2, <2>3
  <1>. QED BY <1>2, <1>5, <1>6

LEMMA RequestRefines ==
  ASSUME ContractInv, NEW m \in Machines, Create(m) \/ Delete(m)
  PROVE  [Contract!Next]_(Contract!vars)
  <1>1. obj[m] \in OscMachine BY DEF ContractInv, IInv, TypeInv, TypeOK
  <1>2. cloud' = cloud /\ \A n \in Machines \ {m} : obj'[n] = obj[n]
    BY DEF Create, Delete, ContractInv, IInv, TypeInv, TypeOK
  <1>3. \A n \in Machines : VmLife(n)' = VmLife(n) BY <1>2, SameVmsKept DEF VmKept
  <1>4. \A n \in Machines \ {m} : Unseen(n) BY <1>2, <1>3 DEF Unseen, Life
  <1>5. CASE Create(m)
    <2>1. obj'[m] = NewOscMachine BY <1>5 DEF Create, ContractInv, IInv, TypeInv, TypeOK
    <2>2. obj'[m].exists /\ ~obj'[m].del /\ ~obj'[m].ready /\ obj'[m].pid = 0
      <3>1. NewOscMachine.exists /\ ~NewOscMachine.del /\ ~NewOscMachine.ready /\ NewOscMachine.pid = 0
        BY DEF NewOscMachine
      <3>. QED BY <2>1, <3>1
    <2>3. ~obj[m].exists /\ ~obj[m].del BY <1>5 DEF Create
    <2>4. obj[m].pid = 0 BY <2>3 DEF ContractInv, Kept, Born, Asked
    <2>5. Life(m) = "absent" /\ Life(m)' = "pending" BY <2>2, <2>3 DEF Life
    <2>6. Contract!Lives(m, {"absent"}, "pending") BY <1>3, <1>4, <2>2, <2>4, <2>5, Lives
    <2>. QED BY <2>6 DEF Contract!Create, Contract!Next
  <1>6. CASE Delete(m)
    <2>1. /\ obj'[m].del /\ obj'[m].exists = (obj[m].fin = "set") /\ obj'[m].fin = obj[m].fin
          /\ obj'[m].pid = obj[m].pid
      BY <1>1, <1>6 DEF Delete, OscMachine, ContractInv, IInv, TypeInv, TypeOK
    <2>2. obj[m].exists /\ ~obj[m].del BY <1>6 DEF Delete
    <2>3. obj[m].fin # "removed" BY <2>2 DEF ContractInv, Kept, RemovedIsGone
    <2>4. Life(m) \in {"pending", "ready"} /\ Life(m)' \in {"deleting", "dropped"}
      BY <2>1, <2>2, <2>3 DEF Life
    <2>5. ASSUME NEW to \in {"deleting", "dropped"}, Life(m)' = to PROVE Contract!Delete(m)
      <3>1. Contract!Lives(m, {"pending", "ready"}, to) BY <1>3, <1>4, <2>1, <2>4, <2>5, Lives
      <3>. QED BY <3>1 DEF Contract!Delete
    <2>6. Contract!Delete(m) BY <2>4, <2>5
    <2>. QED BY <2>6 DEF Contract!Next
  <1>. QED BY <1>5, <1>6

LEMMA NextRefines ==
  ASSUME ContractInv, [Next]_vars
  PROVE  [Contract!Next]_(Contract!vars)
  <1>0. IInv BY DEF ContractInv
  <1>1. ASSUME UNCHANGED obj, \A n \in Machines : VmKept(n) PROVE [Contract!Next]_(Contract!vars)
    <2>1. \A n \in Machines : Unseen(n) BY <1>1, ObjectUntouched DEF VmKept, Unseen
    <2>. QED BY <2>1, Stutters
  <1>2. ASSUME NEW m \in Machines, Pass(m) \/ LookupFails(m) \/ Sync(m) \/ Create(m) \/ Delete(m)
        PROVE  [Contract!Next]_(Contract!vars)
    <2>1. CASE \/ Lookup(m) \/ Place(m) \/ LookupFails(m) \/ AllocateFGPU(m) \/ TagFGPU(m) \/ AllocateIP(m)
               \/ LinkFGPU(m) \/ StartVm(m) \/ LinkBackend(m) \/ Finish(m) \/ LookupDeletedVm(m)
               \/ UnlinkBackend(m) \/ DeletePublicIp(m) \/ RemoveFinalizer(m)
      <3>1. PassMoves(m) BY <1>0, <2>1, LookupMoves, PlaceMoves, BuildMoves, DeletionMoves
      <3>2. \A n \in Machines : VmKept(n) BY <1>0, <2>1, PassKept
      <3>. QED BY <1>1, <3>1, <3>2 DEF PassMoves
    <2>2. CASE Reconcile(m) \/ Sync(m)
      <3>1. UNCHANGED obj /\ UNCHANGED cloud BY <2>2 DEF Reconcile, Sync
      <3>2. \A n \in Machines : VmKept(n) BY <3>1, SameVmsKept
      <3>. QED BY <1>1, <3>1, <3>2
    <2>. QED BY <1>2, <2>1, <2>2, CreateVmRefines, DeleteVmRefines, CloseObjectRefines,
             CloseStatusRefines, RequestRefines DEF Pass
  <1>3. CASE VmBoots \/ VmTerminates \/ GpuAttaches
    <2>1. UNCHANGED obj BY <1>3 DEF VmBoots, VmTerminates, GpuAttaches, CloudStep
    <2>2. \A n \in Machines : VmKept(n) BY <1>0, <1>3, MovesAlike, AlikeKept
    <2>. QED BY <1>1, <2>1, <2>2
  <1>4. CASE Restart \/ InfrastructureReady \/ UNCHANGED vars
    <2>1. UNCHANGED obj /\ UNCHANGED cloud BY <1>4 DEF Restart, InfrastructureReady, vars
    <2>2. \A n \in Machines : VmKept(n) BY <2>1, SameVmsKept
    <2>. QED BY <1>1, <2>1, <2>2
  <1>. QED BY <1>2, <1>3, <1>4, VanishRefines DEF Next, CloudMoves

(* The machine controller implements the contract of an infrastructure     *)
(* machine, for any number of machines and faults: every step of a pass,   *)
(* patch, informer, restart or cloud either does nothing that Cluster API  *)
(* can see or is one of the contract's steps.  In particular a machine is  *)
(* named once, shows ready only with a live VM, and its VM goes only while *)
(* it is being deleted and its object only after its VM.                   *)
THEOREM ContractKept == Spec => KeepsContract
  <1>1. Init => Contract!Init
    <2>. SUFFICES ASSUME Init PROVE Contract!Init
      OBVIOUS
    <2>1. \A m \in Machines : Life(m) = "absent" /\ obj[m].pid = 0 /\ VmLife(m) = "none"
      BY DEF Init, Life, VmLife, VmsOf, NewOscMachine
    <2>. QED BY <2>1 DEF Contract!Init
  <1>2. ContractInv /\ [Next]_vars => [Contract!Next]_(Contract!vars) BY NextRefines
  <1>. QED BY <1>1, <1>2, InitContractInv, NextContractInv, PTL DEF Spec, KeepsContract, Contract!Spec
--------------------------------------------------------------------------------------
(* Public IPs.  A machine that builds, or has built, its VM has used its   *)
(* right to an IP until the next fault.                                    *)
Charged(m) == at[m].phase = "create" \/ VmsOf(m) # {} \/ Condemned(m)

(* Who asked for each IP, and after how many faults: no machine asks twice *)
(* after as many faults, and one that is not charged has not asked since   *)
(* the last of them.                                                       *)
Ledger(who, when) ==
  /\ who \in [cloud.ips -> {m \in PublicIp : Asked(m)}]
  /\ when \in [cloud.ips -> 0 .. faults]
  /\ \A i, j \in cloud.ips : who[i] = who[j] /\ when[i] = when[j] => i = j
  /\ \A i \in cloud.ips : Charged(who[i]) \/ when[i] < faults

IpInv == ContractInv /\ \E who, when : Ledger(who, when)

(* A step that may add one IP, for m. *)
LEMMA LedgerStep ==
  ASSUME IpInv, IInv', NEW m \in Machines, NEW x,
         \A n \in Machines : Asked(n) => Asked(n)',
         \/ faults' = faults + 1
         \/ faults' = faults /\ \A n \in Machines : Charged(n) => Charged(n)',
         cloud'.ips \subseteq cloud.ips \cup {x},
         cloud'.ips \subseteq cloud.ips
           \/ (m \in PublicIp /\ Asked(m) /\ ~Charged(m) /\ (faults' = faults => Charged(m)'))
  PROVE  \E who, when : Ledger(who, when)'
  <1>1. PICK who, when : Ledger(who, when) BY DEF IpInv
  <1>2. faults \in Nat /\ faults' \in Nat /\ faults <= faults' /\ PublicIp \subseteq Machines
    BY MachineAssumption DEF IpInv, ContractInv, IInv, TypeInv, TypeOK
  <1>3. \A i \in cloud.ips : /\ who[i] \in PublicIp /\ Asked(who[i]) /\ when[i] \in 0 .. faults
                             /\ Charged(who[i]) \/ when[i] < faults
    BY <1>1 DEF Ledger
  <1>4. PICK w : w = [i \in cloud'.ips |-> IF i \in cloud.ips THEN who[i] ELSE m] OBVIOUS
  <1>5. PICK t : t = [i \in cloud'.ips |-> IF i \in cloud.ips THEN when[i] ELSE faults] OBVIOUS
  <1>6. w \in [cloud'.ips -> {n \in PublicIp : Asked(n)'}] BY <1>2, <1>3, <1>4
  <1>7. t \in [cloud'.ips -> 0 .. faults']
    <2>1. \A i \in cloud.ips : when[i] \in 0 .. faults' BY <1>2, <1>3
    <2>2. faults \in 0 .. faults' BY <1>2
    <2>. QED BY <1>5, <2>1, <2>2
  <1>8. ASSUME NEW i \in cloud'.ips, NEW j \in cloud'.ips, w[i] = w[j], t[i] = t[j] PROVE i = j
    <2>1. CASE i \in cloud.ips /\ j \in cloud.ips
      <3>1. who[i] = who[j] /\ when[i] = when[j] BY <1>4, <1>5, <1>8, <2>1
      <3>. QED BY <1>1, <2>1, <3>1 DEF Ledger
    <2>2. CASE i \notin cloud.ips /\ j \notin cloud.ips
      <3>1. i = x /\ j = x BY <2>2
      <3>. QED BY <3>1
    <2>3. ASSUME NEW k \in cloud.ips, who[k] = m, when[k] = faults, ~(cloud'.ips \subseteq cloud.ips)
          PROVE  FALSE
      <3>1. ~Charged(who[k]) BY <2>3
      <3>. QED BY <1>2, <1>3, <2>3, <3>1
    <2>4. CASE i \in cloud.ips /\ j \notin cloud.ips
      <3>1. who[i] = m /\ when[i] = faults BY <1>4, <1>5, <1>8, <2>4
      <3>. QED BY <2>3, <2>4, <3>1
    <2>5. CASE i \notin cloud.ips /\ j \in cloud.ips
      <3>1. who[j] = m /\ when[j] = faults BY <1>4, <1>5, <1>8, <2>5
      <3>. QED BY <2>3, <2>5, <3>1
    <2>. QED BY <2>1, <2>2, <2>4, <2>5
  <1>9. \A i \in cloud'.ips : Charged(w[i])' \/ t[i] < faults'
    <2>. SUFFICES ASSUME NEW i \in cloud'.ips PROVE Charged(w[i])' \/ t[i] < faults'
      OBVIOUS
    <2>1. CASE faults' = faults + 1
      <3>1. t[i] \in 0 .. faults BY <1>2, <1>3, <1>5
      <3>. QED BY <1>2, <2>1, <3>1
    <2>2. CASE faults' = faults /\ \A n \in Machines : Charged(n) => Charged(n)'
      <3>1. CASE i \in cloud.ips
        <4>1. w[i] = who[i] /\ t[i] = when[i] /\ who[i] \in Machines BY <1>2, <1>3, <1>4, <1>5, <3>1
        <4>. QED BY <1>3, <2>2, <3>1, <4>1
      <3>2. CASE i \notin cloud.ips
        <4>1. w[i] = m /\ Charged(m)' BY <1>4, <2>2, <3>2
        <4>. QED BY <4>1
      <3>. QED BY <3>1, <3>2
    <2>. QED BY <2>1, <2>2
  <1>10. Ledger(w, t)' BY <1>6, <1>7, <1>8, <1>9 DEF Ledger
  <1>. QED BY <1>10

(* A machine stays asked for, and charged until the next fault. *)
Keeps(n) ==
  /\ Asked(n) => Asked(n)'
  /\ faults' = faults + 1 \/ (faults' = faults /\ (Charged(n) => Charged(n)'))

LEMMA LedgerKept ==
  ASSUME IpInv, IInv', \A n \in Machines : Keeps(n), cloud'.ips \subseteq cloud.ips
  PROVE  \E who, when : Ledger(who, when)'
  <1>1. CASE Machines # {}
    <2>1. PICK m \in Machines : TRUE BY <1>1
    <2>2. \/ faults' = faults + 1
          \/ faults' = faults /\ \A n \in Machines : Charged(n) => Charged(n)'
      BY <2>1 DEF Keeps
    <2>. QED BY <2>1, <2>2, LedgerStep DEF Keeps
  <1>2. CASE Machines = {}
    <2>1. cloud.ips = {} BY <1>2, MachineAssumption DEF IpInv, Ledger
    <2>2. PICK f : f = [i \in {} |-> i] OBVIOUS
    <2>3. f \in [cloud'.ips -> {m \in PublicIp : Asked(m)'}] /\ f \in [cloud'.ips -> 0 .. faults']
      BY <2>1, <2>2
    <2>4. Ledger(f, f)' BY <2>1, <2>3 DEF Ledger
    <2>. QED BY <2>4
  <1>. QED BY <1>1, <1>2

LEMMA MovesCharged ==
  ASSUME ContractInv, NEW m \in Machines, PassMoves(m), \A n \in Machines : GoesCondemned(n),
         \/ faults' = faults + 1
         \/ faults' = faults /\ (at[m].phase = "create" => VmsOf(m)' # {})
  PROVE  \A n \in Machines : Keeps(n)
  <1>1. PICK a, o : at' = [at EXCEPT ![m] = a] /\ Step(m, a, o) BY DEF PassMoves
  <1>2. /\ at'[m] = a /\ UNCHANGED <<obj, cache>>
        /\ \A n \in Machines : n # m => at'[n] = at[n]
    BY <1>1 DEF PassMoves, ContractInv, IInv, TypeInv, TypeOK
  <1>. SUFFICES ASSUME NEW n \in Machines PROVE Keeps(n)
    OBVIOUS
  <1>3. Asked(n)' = Asked(n) BY <1>2 DEF Asked
  <1>4. Condemned(n) => Condemned(n)' BY <1>1, <1>2 DEF Condemned, Step, Between, Deleting
  <1>5. n # m /\ at[n].phase = "create" => at'[n].phase = "create" BY <1>2
  <1>. QED BY <1>3, <1>4, <1>5 DEF Keeps, Charged, GoesCondemned

LEMMA ScopeCharged ==
  ASSUME ContractInv, NEW m \in Machines,
         Reconcile(m) \/ CloseObject(m) \/ CloseStatus(m) \/ Sync(m) \/ Create(m) \/ Delete(m)
  PROVE  cloud' = cloud /\ \A n \in Machines : Keeps(n)
  <1>1. cloud' = cloud /\ (faults' = faults + 1 \/ faults' = faults)
    BY DEF Reconcile, CloseObject, CloseStatus, Sync, Create, Delete, Patch, PassUnchanged
  <1>. SUFFICES ASSUME NEW n \in Machines PROVE Keeps(n)
    BY <1>1
  <1>2. VmsOf(n)' = VmsOf(n) BY <1>1 DEF VmsOf
  <1>3. CASE n # m
    <2>1. obj'[n] = obj[n] /\ cache'[n] = cache[n] /\ at'[n] = at[n]
      BY <1>3 DEF Reconcile, CloseObject, CloseStatus, Sync, Create, Delete, Patch,
                  PassUnchanged, ContractInv, IInv, TypeInv, TypeOK
    <2>. QED BY <1>1, <1>2, <2>1 DEF Keeps, Asked, Charged, Condemned
  <1>4. CASE n = m
    <2>1. obj[m] \in OscMachine /\ (cache[m].del => obj[m].del)
      BY DEF ContractInv, IInv, TypeInv, TypeOK, DeletionIsFinal
    <2>2. \A p : Start(p).phase = p BY DEF Start
    <2>3. NewOscMachine.exists BY DEF NewOscMachine
    <2>4. PatchedObject(m).exists \/ PatchedObject(m).del
      BY <2>1 DEF PatchedObject, OscMachine
    <2>5. PatchedStatus(m).exists = obj[m].exists /\ PatchedStatus(m).del = obj[m].del
      BY <2>1 DEF PatchedStatus, OscMachine
    <2>6. CASE Reconcile(m)
      <3>1. /\ obj'[m] = obj[m] /\ cache'[m] = cache[m] /\ at[m].phase = "idle"
            /\ at'[m].phase = IF cache[m].del THEN "dVm" ELSE "vm"
        BY <2>2, <2>6 DEF Reconcile, ContractInv, IInv, TypeInv, TypeOK
      <3>. QED BY <1>1, <1>2, <1>4, <3>1 DEF Keeps, Asked, Charged, Condemned, Deleting, Between
    <2>7. CASE CloseObject(m)
      <3>1. /\ obj'[m] \in {obj[m], PatchedObject(m)} /\ cache'[m] = cache[m]
            /\ at[m].phase = "patch" /\ at'[m].phase = "status"
        BY <2>2, <2>7 DEF CloseObject, Patch, ContractInv, IInv, TypeInv, TypeOK
      <3>. QED BY <1>1, <1>2, <1>4, <2>4, <3>1 DEF Keeps, Asked, Charged, Condemned, Deleting, Between
    <2>8. CASE CloseStatus(m)
      <3>1. /\ obj'[m] \in {obj[m], PatchedStatus(m)} /\ cache'[m] = cache[m]
            /\ at[m].phase = "status" /\ at'[m].phase = "idle"
        BY <2>2, <2>8 DEF CloseStatus, Patch, ContractInv, IInv, TypeInv, TypeOK
      <3>. QED BY <1>1, <1>2, <1>4, <2>5, <3>1 DEF Keeps, Asked, Charged, Condemned, Deleting, Between
    <2>9. CASE Sync(m)
      <3>1. obj'[m] = obj[m] /\ cache'[m] = obj[m] /\ at'[m] = at[m]
        BY <2>9 DEF Sync, PassUnchanged, ContractInv, IInv, TypeInv, TypeOK
      <3>. QED BY <1>1, <1>2, <1>4, <2>1, <3>1 DEF Keeps, Asked, Charged, Condemned
    <2>10. CASE Create(m) \/ Delete(m)
      <3>1. (obj'[m].exists \/ obj'[m].del) /\ cache'[m] = cache[m] /\ at'[m] = at[m]
        BY <2>1, <2>3, <2>10 DEF Create, Delete, PassUnchanged, ContractInv, IInv, TypeInv, TypeOK, OscMachine
      <3>. QED BY <1>1, <1>2, <1>4, <3>1 DEF Keeps, Asked, Charged, Condemned
    <2>. QED BY <2>6, <2>7, <2>8, <2>9, <2>10
  <1>. QED BY <1>3, <1>4

(* AllocateIP asks before the VM is created and while none is left. *)
LEMMA AllocateIPLedger ==
  ASSUME IpInv, IInv', NEW m \in Machines, AllocateIP(m), \A n \in Machines : Keeps(n)
  PROVE  \E who, when : Ledger(who, when)'
  <1>1. at[m].phase = "ip" BY DEF AllocateIP
  <1>2. CASE cloud' = cloud BY <1>2, LedgerKept
  <1>3. CASE cloud' # cloud
    <2>1. m \in PublicIp /\ Call(m, IpCreated, To(m, "create"), mem[m], [mem[m] EXCEPT !.ip = cloud.next])
      BY <1>3 DEF AllocateIP, Continue
    <2>2. cloud'.ips = cloud.ips \cup {cloud.next}
      BY <1>3, <2>1 DEF Call, IpCreated, IpInv, ContractInv, IInv, TypeInv, TypeOK, Cloud
    <2>3. Asked(m) BY <1>1 DEF IpInv, ContractInv, Kept, Born
    <2>4. ~Charged(m)
      BY <1>1 DEF Charged, IpInv, ContractInv, IInv, NoVmYet, Building, Condemned, Deleting, Between
    <2>5. faults \in Nat BY MachineAssumption DEF IpInv, ContractInv, IInv, TypeInv, TypeOK
    <2>6. To(m, "create").phase = "create"
      BY DEF To, IpInv, ContractInv, IInv, TypeInv, TypeOK, Position
    <2>7. faults' = faults => Charged(m)'
      BY <2>1, <2>5, <2>6 DEF Call, Charged, IpInv, ContractInv, IInv, TypeInv, TypeOK
    <2>8. \/ faults' = faults + 1
          \/ faults' = faults /\ \A n \in Machines : Charged(n) => Charged(n)'
      BY DEF Keeps
    <2>. QED BY <2>1, <2>2, <2>3, <2>4, <2>7, <2>8, LedgerStep DEF Keeps
  <1>. QED BY <1>2, <1>3

(* No other step of a pass asks for an IP, and the one that leaves the     *)
(* phase "create" without a fault has created the VM.                      *)
LEMMA PassIps ==
  ASSUME IInv, NEW m \in Machines,
         \/ Lookup(m) \/ Place(m) \/ LookupFails(m) \/ AllocateFGPU(m) \/ TagFGPU(m) \/ AllocateIP(m)
         \/ LinkFGPU(m) \/ StartVm(m) \/ LinkBackend(m) \/ Finish(m) \/ LookupDeletedVm(m)
         \/ UnlinkBackend(m) \/ DeletePublicIp(m) \/ RemoveFinalizer(m) \/ CreateVm(m) \/ DeleteVm(m)
  PROVE  /\ AllocateIP(m) \/ cloud'.ips \subseteq cloud.ips
         /\ faults' = faults + 1 \/ (faults' = faults /\ (at[m].phase = "create" => VmsOf(m)' # {}))
  <1>1. cloud \in Cloud BY DEF IInv, TypeInv, TypeOK
  <1>2. \A n, az, i, ip :
          /\ GpuCreated(n, az).ips = cloud.ips /\ GpuTagged(i).ips = cloud.ips
          /\ GpuLinked(i).ips = cloud.ips /\ IpDeleted(i).ips \subseteq cloud.ips
          /\ VmCreated(n, az, ip).ips = cloud.ips /\ VmStarted(i).ips = cloud.ips
          /\ VmTagged(i).ips = cloud.ips /\ VmDeleted(i).ips = cloud.ips
          /\ BackendLinked(i).ips = cloud.ips /\ BackendUnlinked(i).ips = cloud.ips
    BY <1>1 DEF GpuCreated, GpuTagged, GpuLinked, IpDeleted, VmCreated, VmStarted, VmTagged, VmDeleted,
         BackendLinked, BackendUnlinked, Cloud
  <1>3. ASSUME NEW a, NEW o, Continue(m, a, o)
        PROVE  cloud'.ips \subseteq cloud.ips /\ faults' = faults
    BY <1>3 DEF Continue
  <1>4. ASSUME NEW after, NEW a, NEW seen, NEW o, Call(m, after, a, seen, o), after.ips \subseteq cloud.ips
        PROVE  cloud'.ips \subseteq cloud.ips /\ faults' \in {faults, faults + 1}
    BY <1>4 DEF Call
  <1>5. CASE Lookup(m) \/ LookupDeletedVm(m) \/ RemoveFinalizer(m)
    <2>1. at[m].phase # "create" BY <1>5 DEF Lookup, LookupDeletedVm, RemoveFinalizer
    <2>2. \E a, o : Continue(m, a, o) BY <1>5 DEF Lookup, LookupDeletedVm, RemoveFinalizer, EndPass
    <2>. QED BY <1>3, <2>1, <2>2
  <1>6. CASE Place(m) \/ LookupFails(m) BY <1>6 DEF Place, LookupFails
  <1>7. CASE AllocateFGPU(m) BY <1>2, <1>3, <1>4, <1>7 DEF AllocateFGPU, EndPass
  <1>8. CASE TagFGPU(m) BY <1>2, <1>4, <1>8 DEF TagFGPU
  <1>9. CASE AllocateIP(m) BY <1>9 DEF AllocateIP, Continue, Call
  <1>10. CASE LinkFGPU(m) BY <1>2, <1>4, <1>10 DEF LinkFGPU
  <1>11. CASE StartVm(m) BY <1>2, <1>4, <1>11 DEF StartVm
  <1>12. CASE LinkBackend(m) BY <1>2, <1>3, <1>4, <1>12 DEF LinkBackend
  <1>13. CASE Finish(m)
    <2>1. PICK i, a, seen, o : Continue(m, a, o) \/ Call(m, VmTagged(i), a, seen, o)
      BY <1>13 DEF Finish, EndPass
    <2>2. at[m].phase # "create" BY <1>13 DEF Finish
    <2>. QED BY <1>2, <1>3, <1>4, <2>1, <2>2
  <1>14. CASE UnlinkBackend(m) BY <1>2, <1>4, <1>14 DEF UnlinkBackend
  <1>15. CASE DeletePublicIp(m) BY <1>2, <1>3, <1>4, <1>15 DEF DeletePublicIp, EndPass
  <1>16. CASE DeleteVm(m) BY <1>2, <1>4, <1>16 DEF DeleteVm
  <1>17. CASE CreateVm(m)
    <2>. DEFINE ip == IF m \in PublicIp THEN mem[m].ip ELSE 0
                after == VmCreated(m, at[m].az, ip)
                o == [mem[m] EXCEPT !.vm = cloud.next, !.pid = cloud.next]
    <2>1. Call(m, after, Start("patch"), mem[m], o) BY <1>17 DEF CreateVm
    <2>2. after.ips = cloud.ips
      <3>. HIDE DEF ip
      <3>. QED BY <1>2
    <2>. HIDE DEF after, o
    <2>3. faults \in Nat BY MachineAssumption DEF IInv, TypeInv, TypeOK
    <2>4. faults' = faults => cloud' = after BY <2>1, <2>3 DEF Call
    <2>5. cloud' = after => VmsOf(m)' # {}
      <3>. DEFINE v == [id |-> cloud.next, m |-> m, az |-> at[m].az, state |-> "pending", ip |-> ip,
                        attached |-> FALSE, boot |-> m \notin GPU, ccm |-> FALSE]
      <3>1. v.m = m OBVIOUS
      <3>2. after = [cloud EXCEPT !.next = @ + 1, !.vms = @ \cup {v}] BY DEF after, VmCreated
      <3>. HIDE DEF v, ip
      <3>3. v \in after.vms BY <1>1, <3>2 DEF Cloud
      <3>. QED BY <3>1, <3>3 DEF VmsOf
    <2>. QED BY <1>4, <2>1, <2>2, <2>4, <2>5
  <1>. QED BY <1>5, <1>6, <1>7, <1>8, <1>9, <1>10, <1>11, <1>12, <1>13, <1>14, <1>15, <1>16, <1>17

LEMMA NextIpInv == IpInv /\ [Next]_vars => IpInv'
  <1>. SUFFICES ASSUME IpInv, [Next]_vars PROVE \E who, when : Ledger(who, when)'
    BY NextContractInv DEF IpInv
  <1>0. ContractInv /\ IInv /\ IInv' BY NextContractInv DEF IpInv, ContractInv
  <1>1. \A n \in Machines : VmKept(n) => GoesCondemned(n) BY DEF VmKept, GoesCondemned
  <1>2. ASSUME NEW m \in Machines, Pass(m) \/ LookupFails(m) \/ Sync(m) \/ Create(m) \/ Delete(m)
        PROVE  \E who, when : Ledger(who, when)'
    <2>1. CASE \/ Lookup(m) \/ Place(m) \/ LookupFails(m) \/ AllocateFGPU(m) \/ TagFGPU(m) \/ AllocateIP(m)
               \/ LinkFGPU(m) \/ StartVm(m) \/ LinkBackend(m) \/ Finish(m) \/ LookupDeletedVm(m)
               \/ UnlinkBackend(m) \/ DeletePublicIp(m) \/ RemoveFinalizer(m) \/ CreateVm(m) \/ DeleteVm(m)
      <3>1. PassMoves(m)
        BY <1>0, <2>1, LookupMoves, PlaceMoves, BuildMoves, DeletionMoves, CreateVmMoves
      <3>2. \A n \in Machines : GoesCondemned(n)
        BY <1>0, <1>1, <2>1, PassKept, CreatedLife, DeletedLife DEF GoesCondemned
      <3>3. /\ AllocateIP(m) \/ cloud'.ips \subseteq cloud.ips
            /\ faults' = faults + 1 \/ (faults' = faults /\ (at[m].phase = "create" => VmsOf(m)' # {}))
        BY <1>0, <2>1, PassIps
      <3>4. \A n \in Machines : Keeps(n) BY <1>0, <3>1, <3>2, <3>3, MovesCharged
      <3>. QED BY <1>0, <3>3, <3>4, LedgerKept, AllocateIPLedger
    <2>2. CASE Reconcile(m) \/ CloseObject(m) \/ CloseStatus(m) \/ Sync(m) \/ Create(m) \/ Delete(m)
      BY <1>0, <2>2, ScopeCharged, LedgerKept
    <2>. QED BY <1>2, <2>1, <2>2 DEF Pass
  <1>3. CASE CloudMoves
    <2>1. UNCHANGED <<obj, cache, at, faults>>
      BY <1>3 DEF CloudMoves, VmBoots, VmTerminates, VmVanishes, GpuAttaches, CloudStep, PassUnchanged
    <2>2. cloud'.ips = cloud.ips
      <3>1. cloud \in Cloud BY <1>0 DEF IInv, TypeInv, TypeOK
      <3>2. PICK vms, gpus : \/ cloud' = [cloud EXCEPT !.vms = vms]
                             \/ cloud' = [cloud EXCEPT !.gpus = gpus]
                             \/ cloud' = [cloud EXCEPT !.vms = vms, !.gpus = gpus]
        BY <1>3 DEF CloudMoves, VmBoots, VmTerminates, VmVanishes, GpuAttaches, CloudStep
      <3>. QED BY <3>1, <3>2 DEF Cloud
    <2>3. \A n \in Machines : GoesCondemned(n)
      BY <1>0, <1>1, <1>3, VanishedLife, MovesAlike, AlikeKept DEF GoesCondemned, CloudMoves
    <2>4. \A n \in Machines : Keeps(n) BY <2>1, <2>3 DEF Keeps, Asked, Charged, Condemned, GoesCondemned
    <2>. QED BY <1>0, <2>2, <2>4, LedgerKept
  <1>4. CASE Restart
    <2>1. \A n \in Machines : Keeps(n) BY <1>4 DEF Restart, Keeps, Asked
    <2>. QED BY <1>0, <1>4, <2>1, LedgerKept DEF Restart
  <1>5. CASE InfrastructureReady \/ UNCHANGED vars
    <2>1. UNCHANGED <<obj, cache, at, faults>> /\ UNCHANGED cloud
      BY <1>5 DEF InfrastructureReady, PassUnchanged, vars
    <2>2. \A n \in Machines : Keeps(n) BY <2>1 DEF Keeps, Asked, Charged, Condemned, VmsOf
    <2>. QED BY <1>0, <2>1, <2>2, LedgerKept
  <1>. QED BY <1>2, <1>3, <1>4, <1>5 DEF Next

LEMMA InitIpInv == Init => IpInv
  <1>. SUFFICES ASSUME Init PROVE \E who, when : Ledger(who, when)
    BY InitContractInv DEF IpInv
  <1>1. cloud.ips = {} BY DEF Init
  <1>2. PICK f : f = [i \in {} |-> i] OBVIOUS
  <1>3. f \in [cloud.ips -> {m \in PublicIp : Asked(m)}] /\ f \in [cloud.ips -> 0 .. faults] BY <1>1, <1>2
  <1>4. Ledger(f, f) BY <1>1, <1>3 DEF Ledger
  <1>. QED BY <1>4

(* Public IPs leak one per machine and fault at most: AllocateIP asks for  *)
(* another one only if a fault lost the last, whatever the passes and the  *)
(* informer's lag do.                                                      *)
THEOREM IpsBoundedAlways == Spec => []IpsBounded
  <1>1. ASSUME IpInv PROVE IpsBounded
    <2>1. PICK who, when : Ledger(who, when) BY <1>1 DEF IpInv
    <2>. DEFINE M == {m \in PublicIp : Asked(m)}
                f == [i \in cloud.ips |-> <<who[i], when[i]>>]
    <2>2. faults \in Nat BY <1>1, MachineAssumption DEF IpInv, ContractInv, IInv, TypeInv, TypeOK
    <2>3. IsFiniteSet(M) BY MachineAssumption, PlacementAssumption, FS_Subset
    <2>4. IsFiniteSet(0 .. faults) /\ Cardinality(0 .. faults) = faults + 1 BY <2>2, FS_Interval
    <2>5. f \in [cloud.ips -> M \X (0 .. faults)] BY <2>1 DEF Ledger
    <2>6. \A i, j \in cloud.ips : f[i] = f[j] => i = j BY <2>1 DEF Ledger
    <2>. HIDE DEF M, f
    <2>7. f \in Injection(cloud.ips, M \X (0 .. faults)) BY <2>5, <2>6 DEF Injection, IsInjective
    <2>8. /\ IsFiniteSet(M \X (0 .. faults))
          /\ Cardinality(M \X (0 .. faults)) = Cardinality(M) * (faults + 1)
      BY <2>3, <2>4, FS_Product
    <2>9. Cardinality(cloud.ips) <= Cardinality(M \X (0 .. faults)) BY <2>7, <2>8, FS_Injection
    <2>. QED BY <2>8, <2>9 DEF IpsBounded, M
  <1>. QED BY <1>1, InitIpInv, NextIpInv, PTL DEF Spec
======================================================================================
