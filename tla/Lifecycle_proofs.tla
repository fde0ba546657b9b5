----------------------------- MODULE Lifecycle_proofs -----------------------------
(***************************************************************************)
(* The safety of the two controllers together, for any number of machines  *)
(* and any number of failed passes and pauses: a VM keeps its network, and *)
(* no machine is left asleep.                                              *)
(***************************************************************************)
EXTENDS Lifecycle, TLAPS

ClusterObject == [exists : BOOLEAN, paused : BOOLEAN, ready : BOOLEAN]
OscClusterObject ==
  [exists : BOOLEAN, del : BOOLEAN, paused : BOOLEAN, owned : BOOLEAN, fin : BOOLEAN, ready : BOOLEAN]
MachineObject == [exists : BOOLEAN, del : BOOLEAN, boot : BOOLEAN]
OscMachineObject == [exists : BOOLEAN, del : BOOLEAN, owned : BOOLEAN, fin : BOOLEAN, done : BOOLEAN]

Objects ==
  [cl : ClusterObject, oc : OscClusterObject,
   ma : [Machines -> MachineObject], om : [Machines -> OscMachineObject]]

PassKind == {"none", "build", "postpone", "teardown", "delete", "hold", "vm"}

(* The types of the state. *)
Types ==
  /\ srv \in Objects /\ seen \in Objects
  /\ queue \subseteq Machines \cup {"cluster"}
  /\ pass \in [Machines \cup {"cluster"} -> PassKind]
  /\ net \in {"none", "up", "bare"}
  /\ vm \in [Machines -> {"none", "live", "dying"}]
  /\ cascade \in BOOLEAN /\ troubles \in Nat
  /\ met \in [Machines -> {"unmet", "met", "late"}]

(* A machine that anything knows of has existed: it is there, or it was    *)
(* deleted, and it is not created again.                                   *)
HasExisted(m) == srv.ma[m].exists \/ srv.ma[m].del
KnownHasExisted ==
  \A m \in Machines :
    /\ srv.om[m].exists => srv.ma[m].exists
    /\ seen.om[m].exists \/ seen.ma[m].exists \/ vm[m] # "none" \/ pass[m] # "none" => HasExisted(m)
    /\ met[m] = "met" => HasExisted(m)

(* An OscCluster that goes was deleted, and from the first time that it is *)
(* ready a finalizer holds it.                                             *)
ClusterHeldUntilDeleted ==
  /\ ~srv.oc.exists => srv.oc.del
  /\ srv.oc.exists /\ (srv.oc.ready \/ srv.cl.ready) => srv.oc.fin
  /\ seen.oc.del => srv.oc.del

(* Once the OscCluster of a ready cluster has gone, nothing builds it anew. *)
NotBuiltAgain ==
  /\ ~srv.oc.exists /\ srv.cl.ready => net = "none" /\ pass["cluster"] # "build" /\ seen.oc.del
  /\ pass["cluster"] = "teardown" => seen.oc.del

(* A machine with a pass or a VM is one that ListMachines has had, and it  *)
(* never loses one whose OscMachine exists, so that a teardown passes over *)
(* none but those that it never had.                                       *)
ListedUntilGone ==
  \A m \in Machines :
    /\ met[m] = "met" /\ srv.om[m].exists => seen.om[m].exists /\ seen.ma[m].exists
    /\ (seen.om[m].exists /\ seen.ma[m].exists) \/ pass[m] # "none" \/ vm[m] # "none" => met[m] # "unmet"
TeardownIsLast ==
  pass["cluster"] = "teardown" =>
    \A m \in Machines : met[m] # "unmet" /\ (met[m] = "met" => ~srv.om[m].exists)

(* Only a ready cluster gets VMs, and they keep it. *)
VmsOnNetwork ==
  /\ seen.cl.ready => srv.cl.ready
  /\ \A m \in Machines :
       /\ vm[m] # "none" \/ pass[m] = "vm" => srv.cl.ready
       /\ vm[m] # "none" => srv.oc.exists /\ net # "none"
       /\ vm[m] = "live" /\ srv.om[m].exists /\ met[m] = "met" => net = "up"

NetworkInv ==
  /\ Types /\ KnownHasExisted /\ ClusterHeldUntilDeleted /\ NotBuiltAgain
  /\ ListedUntilGone /\ TeardownIsLast /\ VmsOnNetwork
-----------------------------------------------------------------------------------
(* Readiness, which the machines wait for, comes from an OscCluster that   *)
(* is owned; a Cluster that has gone stays so.                             *)
ReadyIsOwned ==
  /\ srv.oc.exists /\ (seen.oc.owned \/ pass["cluster"] = "build" \/ srv.oc.ready \/ srv.cl.ready)
       => srv.oc.owned
  /\ seen.cl.ready /\ ~seen.cl.exists => ~srv.cl.exists

DeletionSeen ==
  \A m \in Machines : /\ seen.om[m].del => srv.om[m].del
                      /\ pass[m] = "delete" => seen.om[m].del

(* What there is to do for a machine, as the informers show it, unless a   *)
(* pass that has ended since has done it.                                  *)
ToDelete(m) == seen.cl.ready /\ ~seen.oc.del /\ MachinePass(m) = "delete"
ToBuild(m) == seen.cl.ready /\ ~seen.oc.del /\ MachinePass(m) = "vm"
Open(m) == srv.om[m].exists /\ (ToDelete(m) \/ (ToBuild(m) /\ ~srv.om[m].done))

(* A machine that is not queued has nothing to do, or a pass that does it. *)
NothingMissed ==
  \A m \in Machines : m \notin queue =>
    /\ pass[m] \in {"none", "hold"} => ~Open(m)
    /\ pass[m] = "vm" => ~ToDelete(m)

AwakeInv == NetworkInv /\ ReadyIsOwned /\ DeletionSeen /\ NothingMissed

(* Writes to one object leave the others alone. *)
ClBecomes(o) ==
  srv' \in Objects /\ srv'.cl = o /\ srv'.oc = srv.oc /\ srv'.ma = srv.ma /\ srv'.om = srv.om
OcBecomes(o) ==
  srv' \in Objects /\ srv'.cl = srv.cl /\ srv'.oc = o /\ srv'.ma = srv.ma /\ srv'.om = srv.om
MaBecomes(m, o) ==
  /\ srv' \in Objects /\ srv'.cl = srv.cl /\ srv'.oc = srv.oc /\ srv'.om = srv.om
  /\ srv'.ma[m] = o /\ \A n \in Machines : n # m => srv'.ma[n] = srv.ma[n]
OmBecomes(m, o) ==
  /\ srv' \in Objects /\ srv'.cl = srv.cl /\ srv'.oc = srv.oc /\ srv'.ma = srv.ma
  /\ srv'.om[m] = o /\ \A n \in Machines : n # m => srv'.om[n] = srv.om[n]

LEMMA Parts ==
  ASSUME NEW s \in Objects
  PROVE  /\ s.cl \in ClusterObject /\ s.oc \in OscClusterObject
         /\ \A m \in Machines : s.ma[m] \in MachineObject /\ s.om[m] \in OscMachineObject
BY DEF Objects

LEMMA GoneOscCluster ==
  ASSUME NEW o \in OscClusterObject
  PROVE  Gone(o) \in OscClusterObject /\ ~Gone(o).exists /\ Gone(o).del /\ ~Gone(o).ready
BY DEF OscClusterObject, Gone

LEMMA GoneMachine ==
  ASSUME NEW o \in MachineObject
  PROVE  Gone(o) \in MachineObject /\ ~Gone(o).exists /\ Gone(o).del
BY DEF MachineObject, Gone

LEMMA GoneOscMachine ==
  ASSUME NEW o \in OscMachineObject
  PROVE  Gone(o) \in OscMachineObject /\ ~Gone(o).exists /\ Gone(o).del
BY DEF OscMachineObject, Gone

LEMMA WriteCl ==
  ASSUME Types, NEW o \in ClusterObject, srv' = [srv EXCEPT !.cl = o]
  PROVE  ClBecomes(o)
BY DEF Types, Objects, ClBecomes

LEMMA WriteOc ==
  ASSUME Types, NEW o \in OscClusterObject, srv' = [srv EXCEPT !.oc = o]
  PROVE  OcBecomes(o)
BY DEF Types, Objects, OcBecomes

LEMMA WriteMa ==
  ASSUME Types, NEW m \in Machines, NEW o \in MachineObject, srv' = [srv EXCEPT !.ma[m] = o]
  PROVE  MaBecomes(m, o)
BY DEF Types, Objects, MaBecomes

LEMMA WriteOm ==
  ASSUME Types, NEW m \in Machines, NEW o \in OscMachineObject, srv' = [srv EXCEPT !.om[m] = o]
  PROVE  OmBecomes(m, o)
BY DEF Types, Objects, OmBecomes

LEMMA SameServer ==
  ASSUME Types, srv' = srv
  PROVE  /\ ClBecomes(srv.cl) /\ OcBecomes(srv.oc)
         /\ \A m \in Machines : MaBecomes(m, srv.ma[m]) /\ OmBecomes(m, srv.om[m])
BY DEF Types, ClBecomes, OcBecomes, MaBecomes, OmBecomes

(* The end of a pass over machine m, successful or not, changes at most    *)
(* the OscMachine.                                                         *)
LEMMA HeldMachine ==
  ASSUME Types, NEW m \in Machines, NEW o, srv' = o, o \in {srv, MachineHeld(m)}
  PROVE  \E x \in OscMachineObject :
           OmBecomes(m, x) /\ x.exists = srv.om[m].exists /\ x.del = srv.om[m].del /\ x.done = srv.om[m].done
  <1>1. srv.om[m] \in OscMachineObject BY Parts DEF Types
  <1>2. CASE srv' = srv BY <1>1, <1>2, SameServer
  <1>3. CASE srv' = [srv EXCEPT !.om[m].fin = TRUE]
    <2>. DEFINE x == [srv.om[m] EXCEPT !.fin = TRUE]
    <2>1. /\ x \in OscMachineObject
          /\ x.exists = srv.om[m].exists /\ x.del = srv.om[m].del /\ x.done = srv.om[m].done
      BY <1>1 DEF OscMachineObject
    <2>2. srv' = [srv EXCEPT !.om[m] = x] BY <1>3
    <2>. HIDE DEF x
    <2>. QED BY <2>1, <2>2, WriteOm
  <1>. QED BY <1>2, <1>3 DEF MachineHeld

LEMMA HeldCluster ==
  ASSUME Types, srv' \in {srv, ClusterHeld}
  PROVE  \E x \in OscClusterObject :
           /\ OcBecomes(x) /\ x.exists = srv.oc.exists /\ x.del = srv.oc.del
           /\ x.owned = srv.oc.owned /\ x.ready = srv.oc.ready /\ (srv.oc.fin => x.fin)
  <1>1. srv.oc \in OscClusterObject BY Parts DEF Types
  <1>2. CASE srv' = srv BY <1>1, <1>2, SameServer
  <1>3. CASE srv' = [srv EXCEPT !.oc.fin = TRUE]
    <2>. DEFINE x == [srv.oc EXCEPT !.fin = TRUE]
    <2>1. /\ x \in OscClusterObject /\ x.fin
          /\ x.exists = srv.oc.exists /\ x.del = srv.oc.del /\ x.owned = srv.oc.owned /\ x.ready = srv.oc.ready
      BY <1>1 DEF OscClusterObject
    <2>2. srv' = [srv EXCEPT !.oc = x] BY <1>3
    <2>. HIDE DEF x
    <2>. QED BY <2>1, <2>2, WriteOc
  <1>. QED BY <1>2, <1>3 DEF ClusterHeld
-----------------------------------------------------------------------------------
(* The actions of the controllers, as far as the invariants see them. *)
PassEnds(i) == pass' = [pass EXCEPT ![i] = "none"] /\ UNCHANGED <<seen, cascade, met>>
Requeues(i) == queue' = queue \cup {i}

LEMMA EndParts ==
  ASSUME NEW i, NEW o, NEW again, End(i, o, again)
  PROVE  srv' = o /\ PassEnds(i) /\ (again => Requeues(i)) /\ (~again => queue' = queue)
BY DEF End, PassEnds, Requeues

LEMMA FailsParts ==
  ASSUME Types, NEW i, NEW held, Fails(i, held)
  PROVE  srv' \in {srv, held} /\ PassEnds(i) /\ Requeues(i) /\ troubles' \in Nat
  <1>1. PICK o \in {srv, held} : End(i, o, TRUE) BY DEF Fails
  <1>2. troubles' \in Nat BY DEF Fails, Types
  <1>. QED BY <1>1, <1>2, EndParts

(* HoldMachine and MachineVm keep the OscMachine, and end without a        *)
(* requeue only when it has nothing to do or is done.                      *)
LEMMA MachineBuilds ==
  ASSUME Types, NEW m \in Machines, HoldMachine(m) \/ MachineVm(m)
  PROVE  \E x \in OscMachineObject :
           /\ OmBecomes(m, x) /\ x.exists = srv.om[m].exists /\ x.del = srv.om[m].del
           /\ srv.om[m].done => x.done
           /\ Requeues(m) \/ (queue' = queue /\ (pass[m] = "hold" \/ x.done))
           /\ pass[m] \in {"hold", "vm"} /\ PassEnds(m)
           /\ vm' = vm \/ (vm' = [vm EXCEPT ![m] = "live"] /\ net = "up" /\ pass[m] = "vm")
           /\ net' = net /\ troubles' \in Nat
  <1>1. srv.om[m] \in OscMachineObject /\ troubles \in Nat BY Parts DEF Types
  <1>2. CASE HoldMachine(m) /\ End(m, MachineHeld(m), FALSE)
    <2>1. srv' = MachineHeld(m) /\ PassEnds(m) /\ queue' = queue BY <1>2, EndParts
    <2>2. pass[m] = "hold" /\ net' = net /\ vm' = vm /\ troubles' \in Nat
      BY <1>1, <1>2, FailsParts DEF HoldMachine
    <2>3. PICK x \in OscMachineObject :
            /\ OmBecomes(m, x) /\ x.exists = srv.om[m].exists /\ x.del = srv.om[m].del
            /\ x.done = srv.om[m].done
      BY <2>1, HeldMachine
    <2>. QED BY <2>1, <2>2, <2>3
  <1>3. CASE Fails(m, MachineHeld(m)) /\ vm' = vm
    BY <1>3, FailsParts, HeldMachine DEF HoldMachine, MachineVm
  <1>4. CASE MachineVm(m) /\ End(m, MachineHeld(m), TRUE) /\ UNCHANGED troubles
    <2>1. srv' = MachineHeld(m) /\ PassEnds(m) /\ Requeues(m) BY <1>4, EndParts
    <2>2. /\ vm' = vm \/ (vm' = [vm EXCEPT ![m] = "live"] /\ net = "up")
          /\ net' = net /\ pass[m] = "vm"
      BY <1>4 DEF MachineVm
    <2>3. PICK x \in OscMachineObject :
            /\ OmBecomes(m, x) /\ x.exists = srv.om[m].exists /\ x.del = srv.om[m].del
            /\ x.done = srv.om[m].done
      BY <2>1, HeldMachine
    <2>. QED BY <1>1, <1>4, <2>1, <2>2, <2>3
  <1>5. CASE /\ MachineVm(m) /\ UNCHANGED <<vm, troubles>>
             /\ End(m, IF srv.om[m].exists THEN [MachineHeld(m) EXCEPT !.om[m].done = TRUE] ELSE srv,
                    ~srv.om[m].exists)
    <2>1. CASE srv.om[m].exists
      <3>. DEFINE x == [srv.om[m] EXCEPT !.fin = TRUE, !.done = TRUE]
      <3>1. srv' = [[srv EXCEPT !.om[m].fin = TRUE] EXCEPT !.om[m].done = TRUE] /\ PassEnds(m) /\ queue' = queue
        BY <1>5, <2>1, EndParts DEF MachineHeld
      <3>2. srv' = [srv EXCEPT !.om[m] = x] BY <3>1 DEF Types, Objects
      <3>3. /\ x \in OscMachineObject /\ x.exists = srv.om[m].exists /\ x.del = srv.om[m].del /\ x.done
        BY <1>1 DEF OscMachineObject
      <3>. HIDE DEF x
      <3>. QED BY <1>1, <1>5, <3>1, <3>2, <3>3, WriteOm DEF MachineVm
    <2>2. CASE ~srv.om[m].exists
      <3>1. srv' = srv /\ PassEnds(m) /\ Requeues(m) BY <1>5, <2>2, EndParts
      <3>. QED BY <1>1, <1>5, <3>1, SameServer DEF MachineVm
    <2>. QED BY <2>1, <2>2
  <1>. QED BY <1>2, <1>3, <1>4, <1>5 DEF HoldMachine, MachineVm

(* DeleteVm may only take the OscMachine away. *)
LEMMA MachineGoes ==
  ASSUME Types, NEW m \in Machines, DeleteVm(m)
  PROVE  \E x \in OscMachineObject :
           /\ OmBecomes(m, x) /\ (srv.om[m].del => x.del)
           /\ x = srv.om[m] \/ ~x.exists
           /\ Requeues(m) \/ (queue' = queue /\ ~x.exists)
           /\ pass[m] = "delete" /\ PassEnds(m)
           /\ vm' = vm \/ vm' = [vm EXCEPT ![m] = IF @ = "live" THEN "dying" ELSE @]
           /\ net' = net /\ troubles' \in Nat
  <1>1. srv.om[m] \in OscMachineObject /\ troubles \in Nat BY Parts DEF Types
  <1>2. CASE Fails(m, srv)
    <2>1. srv' = srv /\ PassEnds(m) /\ Requeues(m) /\ troubles' \in Nat BY <1>2, FailsParts
    <2>2. /\ vm' = vm \/ vm' = [vm EXCEPT ![m] = IF @ = "live" THEN "dying" ELSE @]
          /\ net' = net /\ pass[m] = "delete"
      BY DEF DeleteVm
    <2>. QED BY <1>1, <2>1, <2>2, SameServer
  <1>3. CASE End(m, [srv EXCEPT !.om[m] = Gone(@)], FALSE) /\ UNCHANGED troubles
    <2>. DEFINE x == Gone(srv.om[m])
    <2>1. srv' = [srv EXCEPT !.om[m] = Gone(@)] /\ PassEnds(m) /\ queue' = queue BY <1>3, EndParts
    <2>2. srv' = [srv EXCEPT !.om[m] = x] BY <2>1
    <2>3. x \in OscMachineObject /\ ~x.exists /\ x.del BY <1>1, GoneOscMachine
    <2>4. /\ vm' = vm \/ vm' = [vm EXCEPT ![m] = IF @ = "live" THEN "dying" ELSE @]
          /\ net' = net /\ pass[m] = "delete"
      BY DEF DeleteVm
    <2>. HIDE DEF x
    <2>. QED BY <1>1, <1>3, <2>1, <2>2, <2>3, <2>4, WriteOm
  <1>. QED BY <1>2, <1>3 DEF DeleteVm

(* BuildCluster only adds to the OscCluster and the network. *)
LEMMA ClusterBuilds ==
  ASSUME Types, BuildCluster
  PROVE  \E x \in OscClusterObject :
           /\ OcBecomes(x) /\ x.exists = srv.oc.exists /\ x.del = srv.oc.del /\ x.owned = srv.oc.owned
           /\ srv.oc.fin => x.fin
           /\ x.ready => x.fin \/ srv.oc.ready
           /\ Requeues("cluster") \/ queue' = queue
           /\ pass["cluster"] = "build" /\ PassEnds("cluster")
           /\ net' \in {"none", "up", "bare"} /\ (net = "up" => net' = "up") /\ (net # "none" => net' # "none")
           /\ vm' = vm /\ troubles' \in Nat
  <1>1. srv.oc \in OscClusterObject /\ troubles \in Nat /\ net \in {"none", "up", "bare"}
    BY Parts DEF Types
  <1>2. vm' = vm /\ pass["cluster"] = "build" BY DEF BuildCluster
  <1>3. CASE Fails("cluster", ClusterHeld) /\ net' \in {net, "bare"} /\ (net = "up" => net' = net)
    <2>1. srv' \in {srv, ClusterHeld} /\ PassEnds("cluster") /\ Requeues("cluster") /\ troubles' \in Nat
      BY <1>3, FailsParts
    <2>. QED BY <1>1, <1>2, <1>3, <2>1, HeldCluster
  <1>4. CASE /\ net' = "up" /\ UNCHANGED troubles
             /\ End("cluster", IF srv.oc.exists THEN [ClusterHeld EXCEPT !.oc.ready = TRUE] ELSE srv, ~srv.oc.exists)
    <2>1. CASE srv.oc.exists
      <3>. DEFINE x == [srv.oc EXCEPT !.fin = TRUE, !.ready = TRUE]
      <3>1. srv' = [[srv EXCEPT !.oc.fin = TRUE] EXCEPT !.oc.ready = TRUE] /\ PassEnds("cluster") /\ queue' = queue
        BY <1>4, <2>1, EndParts DEF ClusterHeld
      <3>2. srv' = [srv EXCEPT !.oc = x] BY <3>1 DEF Types, Objects
      <3>3. /\ x \in OscClusterObject /\ x.fin
            /\ x.exists = srv.oc.exists /\ x.del = srv.oc.del /\ x.owned = srv.oc.owned
        BY <1>1 DEF OscClusterObject
      <3>. HIDE DEF x
      <3>. QED BY <1>1, <1>2, <1>4, <3>1, <3>2, <3>3, WriteOc
    <2>2. CASE ~srv.oc.exists
      <3>1. srv' = srv /\ PassEnds("cluster") /\ Requeues("cluster") BY <1>4, <2>2, EndParts
      <3>. QED BY <1>1, <1>2, <1>4, <3>1, SameServer
    <2>. QED BY <2>1, <2>2
  <1>. QED BY <1>3, <1>4 DEF BuildCluster

(* PostponeTeardown and TeardownCluster may take the OscCluster away, but  *)
(* only with the network, and the network only when no VM is left.         *)
LEMMA ClusterGoes ==
  ASSUME Types, PostponeTeardown \/ TeardownCluster
  PROVE  \E x \in OscClusterObject :
           /\ OcBecomes(x)
           /\ \/ x = srv.oc /\ (net' = "none" <=> net = "none")
              \/ /\ ~x.exists /\ x.del /\ ~x.ready
                 /\ net' = "none" /\ \A m \in Machines : vm[m] = "none"
           /\ Requeues("cluster") \/ queue' = queue
           /\ PassEnds("cluster") /\ pass["cluster"] # "build"
           /\ pass["cluster"] = "teardown" \/ (net' = net /\ x = srv.oc)
           /\ net' \in {"none", "up", "bare"}
           /\ vm' = vm /\ troubles' \in Nat
  <1>1. srv.oc \in OscClusterObject /\ troubles \in Nat /\ net \in {"none", "up", "bare"}
    BY Parts DEF Types
  <1>2. /\ vm' = vm /\ net' \in {"none", "up", "bare"} /\ pass["cluster"] # "build"
        /\ pass["cluster"] = "teardown" \/ PostponeTeardown
    BY <1>1 DEF PostponeTeardown, TeardownCluster
  <1>3. CASE PostponeTeardown
    <2>1. srv' = srv /\ PassEnds("cluster") /\ Requeues("cluster") BY <1>3, EndParts DEF PostponeTeardown
    <2>2. net' = net /\ troubles' = troubles BY <1>3 DEF PostponeTeardown
    <2>. QED BY <1>1, <1>2, <2>1, <2>2, SameServer
  <1>4. CASE /\ pass["cluster"] = "teardown" /\ Fails("cluster", srv)
             /\ net' \in {net, IF net = "up" THEN "bare" ELSE net}
    <2>1. srv' = srv /\ PassEnds("cluster") /\ Requeues("cluster") /\ troubles' \in Nat BY <1>4, FailsParts
    <2>. QED BY <1>1, <1>2, <1>4, <2>1, SameServer
  <1>5. CASE /\ pass["cluster"] = "teardown" /\ End("cluster", srv, TRUE) /\ UNCHANGED troubles
             /\ net' = IF net = "none" THEN net ELSE "bare"
    <2>1. srv' = srv /\ PassEnds("cluster") /\ Requeues("cluster") BY <1>5, EndParts
    <2>. QED BY <1>1, <1>2, <1>5, <2>1, SameServer
  <1>6. CASE /\ pass["cluster"] = "teardown" /\ UNCHANGED troubles
             /\ net' = "none" /\ \A m \in Machines : vm[m] = "none"
             /\ End("cluster", [srv EXCEPT !.oc = Gone(@)], FALSE)
    <2>. DEFINE x == Gone(srv.oc)
    <2>1. srv' = [srv EXCEPT !.oc = Gone(@)] /\ PassEnds("cluster") /\ queue' = queue BY <1>6, EndParts
    <2>2. srv' = [srv EXCEPT !.oc = x] BY <2>1
    <2>3. x \in OscClusterObject /\ ~x.exists /\ x.del /\ ~x.ready BY <1>1, GoneOscCluster
    <2>. HIDE DEF x
    <2>. QED BY <1>1, <1>2, <1>6, <2>1, <2>2, <2>3, WriteOc
  <1>. QED BY <1>3, <1>4, <1>5, <1>6 DEF TeardownCluster
-----------------------------------------------------------------------------------
(* The writes of the user and of Cluster API. *)
Elsewhere == UNCHANGED <<seen, queue, pass, net, vm, cascade, met>> /\ troubles' \in Nat

LEMMA WriteParts ==
  ASSUME Types, NEW o, Write(o)
  PROVE  srv' = o /\ Elsewhere
BY DEF Types, Write, world, Elsewhere

LEMMA ClusterWrites ==
  ASSUME Types, InfrastructureReady \/ RemoveCluster
  PROVE  Elsewhere /\ \E x \in ClusterObject :
           /\ ClBecomes(x) /\ (x.exists => srv.cl.exists)
           /\ srv.cl.ready => x.ready
           /\ x.ready => srv.cl.ready \/ (srv.oc.exists /\ srv.oc.ready)
  <1>1. srv.cl \in ClusterObject BY Parts DEF Types
  <1>2. CASE InfrastructureReady
    <2>. DEFINE x == [srv.cl EXCEPT !.ready = TRUE]
    <2>1. srv' = [srv EXCEPT !.cl = x] /\ Elsewhere /\ srv.oc.exists /\ srv.oc.ready
      BY <1>2, WriteParts DEF InfrastructureReady
    <2>2. x \in ClusterObject /\ x.exists = srv.cl.exists /\ x.ready BY <1>1 DEF ClusterObject
    <2>. HIDE DEF x
    <2>. QED BY <2>1, <2>2, WriteCl
  <1>3. CASE RemoveCluster
    <2>. DEFINE x == [srv.cl EXCEPT !.exists = FALSE]
    <2>1. srv' = [srv EXCEPT !.cl = x] /\ Elsewhere BY <1>3, WriteParts DEF RemoveCluster
    <2>2. x \in ClusterObject /\ ~x.exists /\ x.ready = srv.cl.ready BY <1>1 DEF ClusterObject
    <2>. HIDE DEF x
    <2>. QED BY <2>1, <2>2, WriteCl
  <1>. QED BY <1>2, <1>3

LEMMA PauseWrites ==
  ASSUME Types, Pause \/ Unpause
  PROVE  /\ Elsewhere
         /\ \/ \E x \in ClusterObject :
                 ClBecomes(x) /\ x.exists = srv.cl.exists /\ x.ready = srv.cl.ready
            \/ \E x \in OscClusterObject :
                 /\ OcBecomes(x) /\ x.exists = srv.oc.exists /\ x.del = srv.oc.del
                 /\ x.owned = srv.oc.owned /\ x.fin = srv.oc.fin /\ x.ready = srv.oc.ready
  <1>1. srv.cl \in ClusterObject /\ srv.oc \in OscClusterObject BY Parts DEF Types
  <1>2. PICK b \in BOOLEAN :
          srv' = [srv EXCEPT !.cl.paused = b] \/ srv' = [srv EXCEPT !.oc.paused = b]
    BY DEF Pause, Unpause, Write
  <1>3. Elsewhere BY DEF Pause, Unpause, Write, world, Elsewhere, Types
  <1>4. CASE srv' = [srv EXCEPT !.cl.paused = b]
    <2>. DEFINE x == [srv.cl EXCEPT !.paused = b]
    <2>1. srv' = [srv EXCEPT !.cl = x] BY <1>4
    <2>2. x \in ClusterObject /\ x.exists = srv.cl.exists /\ x.ready = srv.cl.ready
      BY <1>1 DEF ClusterObject
    <2>. HIDE DEF x
    <2>. QED BY <1>3, <2>1, <2>2, WriteCl
  <1>5. CASE srv' = [srv EXCEPT !.oc.paused = b]
    <2>. DEFINE x == [srv.oc EXCEPT !.paused = b]
    <2>1. srv' = [srv EXCEPT !.oc = x] BY <1>5
    <2>2. /\ x \in OscClusterObject /\ x.exists = srv.oc.exists /\ x.del = srv.oc.del
          /\ x.owned = srv.oc.owned /\ x.fin = srv.oc.fin /\ x.ready = srv.oc.ready
      BY <1>1 DEF OscClusterObject
    <2>. HIDE DEF x
    <2>. QED BY <1>3, <2>1, <2>2, WriteOc
  <1>. QED BY <1>2, <1>4, <1>5

LEMMA OwnerWrites ==
  ASSUME Types, OwnOscCluster
  PROVE  Elsewhere /\ \E x \in OscClusterObject :
           /\ OcBecomes(x) /\ x.exists = srv.oc.exists /\ x.del = srv.oc.del
           /\ x.owned /\ x.fin = srv.oc.fin /\ x.ready = srv.oc.ready
  <1>. DEFINE x == [srv.oc EXCEPT !.owned = TRUE]
  <1>1. srv.oc \in OscClusterObject BY Parts DEF Types
  <1>2. srv' = [srv EXCEPT !.oc = x] /\ Elsewhere BY WriteParts DEF OwnOscCluster
  <1>3. /\ x \in OscClusterObject /\ x.exists = srv.oc.exists /\ x.del = srv.oc.del
        /\ x.owned /\ x.fin = srv.oc.fin /\ x.ready = srv.oc.ready
    BY <1>1 DEF OscClusterObject
  <1>. HIDE DEF x
  <1>. QED BY <1>2, <1>3, WriteOc

LEMMA ClusterDeleted ==
  ASSUME Types, DeleteOscCluster
  PROVE  /\ UNCHANGED <<seen, queue, pass, net, vm, cascade, troubles>>
         /\ srv.oc.exists /\ met' = IF srv.oc.fin THEN met ELSE [m \in Machines |-> "late"]
         /\ \E x \in OscClusterObject :
              /\ OcBecomes(x) /\ x.del
              /\ IF srv.oc.fin THEN x.exists /\ x.owned = srv.oc.owned /\ x.fin /\ x.ready = srv.oc.ready
                               ELSE ~x.exists /\ ~x.ready
  <1>. DEFINE x == Deleted(srv.oc)
  <1>1. srv.oc \in OscClusterObject BY Parts DEF Types
  <1>2. /\ srv' = [srv EXCEPT !.oc = x] /\ srv.oc.exists
        /\ UNCHANGED <<seen, queue, pass, net, vm, cascade, troubles>>
        /\ met' = IF srv.oc.fin THEN met ELSE [m \in Machines |-> "late"]
    BY DEF DeleteOscCluster, world
  <1>3. /\ x \in OscClusterObject /\ x.del
        /\ IF srv.oc.fin THEN x.exists /\ x.owned = srv.oc.owned /\ x.fin /\ x.ready = srv.oc.ready
                         ELSE ~x.exists /\ ~x.ready
    <2>1. CASE srv.oc.fin BY <1>1, <1>2, <2>1 DEF OscClusterObject, Deleted
    <2>2. CASE ~srv.oc.fin BY <1>1, <2>2, GoneOscCluster DEF Deleted
    <2>. QED BY <2>1, <2>2
  <1>. HIDE DEF x
  <1>. QED BY <1>2, <1>3, WriteOc

LEMMA MachineWrites ==
  ASSUME Types, NEW m \in Machines, Bootstrap(m) \/ DeleteMachine(m) \/ RemoveMachine(m)
  PROVE  Elsewhere /\ \E x \in MachineObject :
           /\ MaBecomes(m, x)
           /\ x.exists = srv.ma[m].exists \/ (x.del /\ ~srv.om[m].exists)
           /\ srv.ma[m].del => x.del
  <1>1. srv.ma[m] \in MachineObject BY Parts DEF Types
  <1>2. CASE Bootstrap(m)
    <2>. DEFINE x == [srv.ma[m] EXCEPT !.boot = TRUE]
    <2>1. srv' = [srv EXCEPT !.ma[m] = x] /\ Elsewhere BY <1>2, WriteParts DEF Bootstrap
    <2>2. x \in MachineObject /\ x.exists = srv.ma[m].exists /\ x.del = srv.ma[m].del BY <1>1 DEF MachineObject
    <2>. HIDE DEF x
    <2>. QED BY <2>1, <2>2, WriteMa
  <1>3. CASE DeleteMachine(m)
    <2>. DEFINE x == [srv.ma[m] EXCEPT !.del = TRUE]
    <2>1. srv' = [srv EXCEPT !.ma[m] = x] /\ Elsewhere BY <1>3, WriteParts DEF DeleteMachine
    <2>2. x \in MachineObject /\ x.exists = srv.ma[m].exists /\ x.del BY <1>1 DEF MachineObject
    <2>. HIDE DEF x
    <2>. QED BY <2>1, <2>2, WriteMa
  <1>4. CASE RemoveMachine(m)
    <2>. DEFINE x == Gone(srv.ma[m])
    <2>1. srv' = [srv EXCEPT !.ma[m] = x] /\ Elsewhere /\ srv.ma[m].del /\ ~srv.om[m].exists
      BY <1>4, WriteParts DEF RemoveMachine
    <2>2. x \in MachineObject /\ x.del BY <1>1, GoneMachine
    <2>. HIDE DEF x
    <2>. QED BY <2>1, <2>2, WriteMa
  <1>. QED BY <1>2, <1>3, <1>4

LEMMA OscMachineWrites ==
  ASSUME Types, NEW m \in Machines, OwnOscMachine(m) \/ DeleteOscMachine(m)
  PROVE  Elsewhere /\ \E x \in OscMachineObject :
           /\ OmBecomes(m, x) /\ (x.exists => srv.om[m].exists)
           /\ (srv.om[m].del => x.del) /\ (x.exists => x.done = srv.om[m].done)
  <1>1. srv.om[m] \in OscMachineObject BY Parts DEF Types
  <1>2. CASE OwnOscMachine(m)
    <2>. DEFINE x == [srv.om[m] EXCEPT !.owned = TRUE]
    <2>1. srv' = [srv EXCEPT !.om[m] = x] /\ Elsewhere BY <1>2, WriteParts DEF OwnOscMachine
    <2>2. /\ x \in OscMachineObject /\ x.exists = srv.om[m].exists /\ x.del = srv.om[m].del
          /\ x.done = srv.om[m].done
      BY <1>1 DEF OscMachineObject
    <2>. HIDE DEF x
    <2>. QED BY <2>1, <2>2, WriteOm
  <1>3. CASE DeleteOscMachine(m)
    <2>. DEFINE x == Deleted(srv.om[m])
    <2>1. srv' = [srv EXCEPT !.om[m] = x] /\ Elsewhere /\ srv.om[m].exists
      BY <1>3, WriteParts DEF DeleteOscMachine
    <2>2. x \in OscMachineObject /\ x.del /\ (x.exists => x.done = srv.om[m].done)
      <3>1. CASE srv.om[m].fin BY <1>1, <3>1 DEF OscMachineObject, Deleted
      <3>2. CASE ~srv.om[m].fin BY <1>1, <3>2, GoneOscMachine DEF Deleted
      <3>. QED BY <3>1, <3>2
    <2>. HIDE DEF x
    <2>. QED BY <2>1, <2>2, WriteOm
  <1>. QED BY <1>2, <1>3

LEMMA MachineCreated ==
  ASSUME Types, NEW m \in Machines, CreateMachine(m)
  PROVE  /\ Elsewhere /\ ~cascade /\ ~HasExisted(m)
         /\ srv' \in Objects /\ srv'.cl = srv.cl /\ srv'.oc = srv.oc
         /\ srv'.ma[m].exists /\ srv'.om[m].exists
         /\ srv'.om[m].del = srv.om[m].del /\ srv'.om[m].done = srv.om[m].done
         /\ \A n \in Machines : n # m => srv'.ma[n] = srv.ma[n] /\ srv'.om[n] = srv.om[n]
  <1>. DEFINE x == [srv.ma[m] EXCEPT !.exists = TRUE]
              y == [srv.om[m] EXCEPT !.exists = TRUE]
  <1>1. /\ Elsewhere /\ ~cascade /\ ~HasExisted(m)
        /\ srv' = [srv EXCEPT !.ma[m] = x, !.om[m] = y]
    BY WriteParts DEF CreateMachine, HasExisted, Types, Objects
  <1>2. srv.ma[m] \in MachineObject /\ srv.om[m] \in OscMachineObject BY Parts DEF Types
  <1>3. /\ x \in MachineObject /\ x.exists
        /\ y \in OscMachineObject /\ y.exists /\ y.del = srv.om[m].del /\ y.done = srv.om[m].done
    BY <1>2 DEF MachineObject, OscMachineObject
  <1>. HIDE DEF x, y
  <1>4. /\ srv' \in Objects /\ srv'.cl = srv.cl /\ srv'.oc = srv.oc
        /\ srv'.ma[m] = x /\ srv'.om[m] = y
        /\ \A n \in Machines : n # m => srv'.ma[n] = srv.ma[n] /\ srv'.om[n] = srv.om[n]
    BY <1>1, <1>3 DEF Types, Objects
  <1>. QED BY <1>1, <1>3, <1>4
-----------------------------------------------------------------------------------
(* NetworkInv, action by action. *)
LEMMA NetworkMachineEnds ==
  ASSUME NetworkInv, NEW m \in Machines, EndMachine(m)
  PROVE  NetworkInv'
  <1>1. PICK x \in OscMachineObject :
          /\ OmBecomes(m, x) /\ (x.exists => srv.om[m].exists)
          /\ Requeues(m) \/ queue' = queue
          /\ pass[m] # "none" /\ PassEnds(m)
          /\ \/ vm' = vm
             \/ vm' = [vm EXCEPT ![m] = "live"] /\ net = "up" /\ pass[m] = "vm"
             \/ vm' = [vm EXCEPT ![m] = IF @ = "live" THEN "dying" ELSE @]
          /\ net' = net /\ troubles' \in Nat
    <2>1. Types BY DEF NetworkInv
    <2>2. CASE DeleteVm(m) BY <2>1, <2>2, MachineGoes
    <2>3. CASE HoldMachine(m) \/ MachineVm(m) BY <2>1, <2>3, MachineBuilds
    <2>. QED BY <2>2, <2>3 DEF EndMachine
  <1>2. Types' BY <1>1 DEF NetworkInv, Types, OmBecomes, PassEnds, Requeues, PassKind
  <1>3. \A n \in Machines : HasExisted(n)' <=> HasExisted(n) BY <1>1 DEF HasExisted, OmBecomes
  <1>4. \A n \in Machines : srv'.om[n].exists => srv.om[n].exists BY <1>1 DEF OmBecomes
  <1>5. /\ srv'.cl = srv.cl /\ srv'.oc = srv.oc /\ srv'.ma = srv.ma /\ UNCHANGED <<seen, cascade, met, net>>
        /\ pass'["cluster"] = pass["cluster"]
    BY <1>1, LifecycleAssumption DEF OmBecomes, PassEnds, NetworkInv, Types
  <1>6. \A n \in Machines : /\ pass'[n] # "none" => pass'[n] = pass[n]
                            /\ vm'[n] # "none" => vm[n] # "none" \/ pass[n] # "none"
    BY <1>1 DEF PassEnds, NetworkInv, Types
  <1>7. \A n \in Machines : /\ vm'[n] # "none" => vm[n] # "none" \/ (net = "up" /\ srv.cl.ready /\ srv.oc.exists)
                            /\ vm'[n] = "live" => vm[n] = "live" \/ net = "up"
    <2>1. pass[m] = "vm" /\ net = "up" => srv.cl.ready /\ srv.oc.exists
      BY DEF NetworkInv, VmsOnNetwork, NotBuiltAgain
    <2>. QED BY <1>1, <2>1 DEF NetworkInv, Types
  <1>. QED
    BY <1>2, <1>3, <1>4, <1>5, <1>6, <1>7
    DEF NetworkInv, KnownHasExisted, ClusterHeldUntilDeleted, NotBuiltAgain, ListedUntilGone,
        TeardownIsLast, VmsOnNetwork

LEMMA NetworkClusterEnds ==
  ASSUME NetworkInv, EndCluster
  PROVE  NetworkInv'
  <1>1. PICK x \in OscClusterObject :
          /\ OcBecomes(x) /\ (srv.oc.del => x.del)
          /\ x.exists /\ (x.ready \/ srv.cl.ready) => x.fin
          /\ \/ /\ x.exists = srv.oc.exists
                /\ net = "none" /\ pass["cluster"] # "build" => net' = "none"
                /\ net # "none" => net' # "none"
             \/ ~x.exists /\ x.del /\ net' = "none" /\ \A m \in Machines : vm[m] = "none"
          /\ Requeues("cluster") \/ queue' = queue
          /\ PassEnds("cluster")
          /\ pass["cluster"] = "teardown" \/ ((net = "up" => net' = "up") /\ x.exists = srv.oc.exists)
          /\ net' \in {"none", "up", "bare"} /\ vm' = vm /\ troubles' \in Nat
    <2>1. Types /\ (srv.oc.exists /\ (srv.oc.ready \/ srv.cl.ready) => srv.oc.fin)
      BY DEF NetworkInv, ClusterHeldUntilDeleted
    <2>2. CASE BuildCluster BY <2>1, <2>2, ClusterBuilds
    <2>3. CASE PostponeTeardown \/ TeardownCluster BY <2>1, <2>3, ClusterGoes
    <2>. QED BY <2>2, <2>3 DEF EndCluster
  <1>2. Types' BY <1>1 DEF NetworkInv, Types, OcBecomes, PassEnds, Requeues, PassKind
  <1>3. /\ srv'.cl = srv.cl /\ srv'.ma = srv.ma /\ srv'.om = srv.om /\ UNCHANGED <<seen, cascade, met, vm>>
        /\ srv'.oc = x /\ pass'["cluster"] = "none" /\ \A n \in Machines : pass'[n] = pass[n]
    BY <1>1, LifecycleAssumption DEF OcBecomes, PassEnds, NetworkInv, Types
  <1>4. KnownHasExisted' /\ ListedUntilGone' /\ TeardownIsLast'
    BY <1>3 DEF NetworkInv, KnownHasExisted, ListedUntilGone, TeardownIsLast, HasExisted
  <1>5. ClusterHeldUntilDeleted'
    BY <1>1, <1>3 DEF NetworkInv, ClusterHeldUntilDeleted
  <1>6. NotBuiltAgain'
    BY <1>1, <1>3 DEF NetworkInv, NotBuiltAgain
  <1>7. VmsOnNetwork'
    BY <1>1, <1>3 DEF NetworkInv, VmsOnNetwork, TeardownIsLast
  <1>. QED BY <1>2, <1>4, <1>5, <1>6, <1>7 DEF NetworkInv

(* Writes to the Cluster, and to the OscCluster but for its deletion. *)
LEMMA NetworkClusterWrites ==
  ASSUME NetworkInv, InfrastructureReady \/ RemoveCluster \/ Pause \/ Unpause \/ OwnOscCluster
  PROVE  NetworkInv'
  <1>1. Types BY DEF NetworkInv
  <1>2. /\ Elsewhere
        /\ \/ \E x \in ClusterObject :
                /\ ClBecomes(x) /\ (srv.cl.ready => x.ready)
                /\ x.ready => srv.cl.ready \/ (srv.oc.exists /\ srv.oc.ready)
           \/ \E x \in OscClusterObject :
                /\ OcBecomes(x) /\ x.exists = srv.oc.exists /\ x.del = srv.oc.del
                /\ x.fin = srv.oc.fin /\ x.ready = srv.oc.ready
    BY <1>1, ClusterWrites, PauseWrites, OwnerWrites
  <1>3. Types' BY <1>1, <1>2 DEF Types, ClBecomes, OcBecomes, Elsewhere
  <1>4. /\ srv'.ma = srv.ma /\ srv'.om = srv.om
        /\ srv'.oc.exists = srv.oc.exists /\ srv'.oc.del = srv.oc.del
        /\ srv'.oc.fin = srv.oc.fin /\ srv'.oc.ready = srv.oc.ready
        /\ srv.cl.ready => srv'.cl.ready
        /\ srv'.cl.ready => srv.cl.ready \/ (srv.oc.exists /\ srv.oc.ready)
    BY <1>2 DEF ClBecomes, OcBecomes
  <1>. QED
    BY <1>2, <1>3, <1>4
    DEF NetworkInv, KnownHasExisted, ClusterHeldUntilDeleted, NotBuiltAgain, ListedUntilGone,
        TeardownIsLast, VmsOnNetwork, HasExisted, Elsewhere

(* The deletion of the OscCluster: one without a finalizer was never ready, *)
(* and has no VMs.                                                          *)
LEMMA NetworkClusterDeleted ==
  ASSUME NetworkInv, DeleteOscCluster
  PROVE  NetworkInv'
  <1>1. Types BY DEF NetworkInv
  <1>2. PICK x \in OscClusterObject :
          /\ UNCHANGED <<seen, queue, pass, net, vm, cascade, troubles>>
          /\ srv.oc.exists /\ met' = IF srv.oc.fin THEN met ELSE [m \in Machines |-> "late"]
          /\ OcBecomes(x) /\ x.del
          /\ IF srv.oc.fin THEN x.exists /\ x.fin /\ x.ready = srv.oc.ready ELSE ~x.exists /\ ~x.ready
    BY <1>1, ClusterDeleted
  <1>3. Types' BY <1>1, <1>2 DEF Types, OcBecomes
  <1>4. srv'.cl = srv.cl /\ srv'.oc = x /\ srv'.ma = srv.ma /\ srv'.om = srv.om BY <1>2 DEF OcBecomes
  <1>5. \A m \in Machines : /\ met'[m] # "met" \/ met'[m] = met[m]
                            /\ met'[m] = "unmet" => met[m] = "unmet"
    BY <1>2
  <1>. QED
    BY <1>2, <1>3, <1>4, <1>5
    DEF NetworkInv, KnownHasExisted, ClusterHeldUntilDeleted, NotBuiltAgain, ListedUntilGone,
        TeardownIsLast, VmsOnNetwork, HasExisted

LEMMA NetworkMachineWrites ==
  ASSUME NetworkInv, NEW m \in Machines, MachineApi(m) \/ DeleteMachine(m)
  PROVE  NetworkInv'
  <1>1. Types BY DEF NetworkInv
  <1>2. CASE Bootstrap(m) \/ DeleteMachine(m) \/ RemoveMachine(m)
    <2>1. PICK x \in MachineObject :
            /\ Elsewhere /\ MaBecomes(m, x)
            /\ x.exists = srv.ma[m].exists \/ (x.del /\ ~srv.om[m].exists)
            /\ srv.ma[m].del => x.del
      BY <1>1, <1>2, MachineWrites
    <2>2. Types' BY <1>1, <2>1 DEF Types, MaBecomes, Elsewhere
    <2>3. \A n \in Machines : /\ HasExisted(n) => HasExisted(n)'
                              /\ srv'.om[n] = srv.om[n]
                              /\ srv.om[n].exists /\ srv.ma[n].exists => srv'.ma[n].exists
      BY <2>1 DEF MaBecomes, HasExisted
    <2>4. srv'.cl = srv.cl /\ srv'.oc = srv.oc BY <2>1 DEF MaBecomes
    <2>. QED
      BY <2>1, <2>2, <2>3, <2>4
      DEF NetworkInv, KnownHasExisted, ClusterHeldUntilDeleted, NotBuiltAgain, ListedUntilGone,
        TeardownIsLast, VmsOnNetwork, Elsewhere
  <1>3. CASE OwnOscMachine(m) \/ DeleteOscMachine(m)
    <2>1. PICK x \in OscMachineObject :
            Elsewhere /\ OmBecomes(m, x) /\ (x.exists => srv.om[m].exists)
      BY <1>1, <1>3, OscMachineWrites
    <2>2. Types' BY <1>1, <2>1 DEF Types, OmBecomes, Elsewhere
    <2>3. /\ srv'.cl = srv.cl /\ srv'.oc = srv.oc /\ srv'.ma = srv.ma
          /\ \A n \in Machines : srv'.om[n].exists => srv.om[n].exists
      BY <2>1 DEF OmBecomes
    <2>. QED
      BY <2>1, <2>2, <2>3
      DEF NetworkInv, KnownHasExisted, ClusterHeldUntilDeleted, NotBuiltAgain, ListedUntilGone,
        TeardownIsLast, VmsOnNetwork, Elsewhere, HasExisted
  <1>. QED BY <1>2, <1>3 DEF MachineApi

LEMMA NetworkMachineCreated ==
  ASSUME NetworkInv, NEW m \in Machines, CreateMachine(m)
  PROVE  NetworkInv'
  <1>1. /\ Elsewhere /\ ~cascade /\ ~HasExisted(m)
        /\ srv' \in Objects /\ srv'.cl = srv.cl /\ srv'.oc = srv.oc
        /\ srv'.ma[m].exists /\ srv'.om[m].exists
        /\ \A n \in Machines : n # m => srv'.ma[n] = srv.ma[n] /\ srv'.om[n] = srv.om[n]
    BY MachineCreated DEF NetworkInv
  <1>2. Types' BY <1>1 DEF NetworkInv, Types, Elsewhere
  <1>3. vm[m] = "none" /\ met[m] # "met" BY <1>1 DEF NetworkInv, KnownHasExisted
  <1>. QED
    BY <1>1, <1>2, <1>3
    DEF NetworkInv, KnownHasExisted, ClusterHeldUntilDeleted, NotBuiltAgain, ListedUntilGone,
        TeardownIsLast, VmsOnNetwork, Elsewhere, HasExisted

(* The informers, the queues and the cloud. *)
LEMMA NetworkSyncs ==
  ASSUME NetworkInv, SyncCluster \/ SyncOscCluster \/ \E m \in Machines : SyncMachine(m) \/ SyncOscMachine(m)
  PROVE  NetworkInv'
  <1>1. UNCHANGED <<srv, pass, net, vm, cascade, troubles>>
    BY DEF SyncCluster, SyncOscCluster, SyncMachine, SyncOscMachine, world
  <1>2. queue' \subseteq Machines \cup {"cluster"}
    BY DEF SyncCluster, SyncOscCluster, SyncMachine, SyncOscMachine, OscClusterToOscMachines, NetworkInv, Types
  <1>3. /\ seen' \in Objects
        /\ seen'.cl = seen.cl \/ seen'.cl = srv.cl
        /\ seen'.oc = seen.oc \/ seen'.oc = srv.oc
        /\ \A n \in Machines : /\ seen'.ma[n] = seen.ma[n] \/ seen'.ma[n] = srv.ma[n]
                               /\ seen'.om[n] = seen.om[n] \/ seen'.om[n] = srv.om[n]
    BY DEF SyncCluster, SyncOscCluster, SyncMachine, SyncOscMachine, NetworkInv, Types, Objects
  <1>4. \A n \in Machines : \/ met'[n] = met[n]
                            \/ /\ met[n] = "unmet" /\ met'[n] = "met"
                               /\ seen'.ma[n].exists /\ seen'.om[n].exists
    BY DEF SyncCluster, SyncOscCluster, SyncMachine, SyncOscMachine, Meet, NetworkInv, Types
  <1>5. met' \in [Machines -> {"unmet", "met", "late"}]
    BY DEF SyncCluster, SyncOscCluster, SyncMachine, SyncOscMachine, Meet, NetworkInv, Types
  <1>6. Types' BY <1>1, <1>2, <1>3, <1>5 DEF NetworkInv, Types
  <1>7. KnownHasExisted' BY <1>1, <1>3, <1>4 DEF NetworkInv, KnownHasExisted, HasExisted
  <1>8. ClusterHeldUntilDeleted' /\ NotBuiltAgain'
    BY <1>1, <1>3 DEF NetworkInv, ClusterHeldUntilDeleted, NotBuiltAgain
  <1>9. ListedUntilGone'
    <2>1. \A n \in Machines : seen'.om[n].exists /\ seen'.ma[n].exists => met'[n] # "unmet"
      BY DEF SyncCluster, SyncOscCluster, SyncMachine, SyncOscMachine, Meet, NetworkInv, Types, Objects,
             ListedUntilGone
    <2>. QED BY <1>1, <1>3, <1>4, <2>1 DEF NetworkInv, ListedUntilGone, KnownHasExisted
  <1>10. TeardownIsLast' BY <1>1, <1>4 DEF NetworkInv, TeardownIsLast
  <1>11. VmsOnNetwork'
    <2>1. seen'.cl.ready => srv.cl.ready BY <1>3 DEF NetworkInv, VmsOnNetwork
    <2>2. ASSUME NEW m \in Machines, vm[m] = "live", srv.om[m].exists, met'[m] = "met" PROVE net = "up"
      BY <1>4, <2>2 DEF NetworkInv, VmsOnNetwork, ListedUntilGone
    <2>. QED BY <1>1, <2>1, <2>2 DEF NetworkInv, VmsOnNetwork
  <1>. QED BY <1>6, <1>7, <1>8, <1>9, <1>10, <1>11 DEF NetworkInv

LEMMA NetworkStarts ==
  ASSUME NetworkInv, StartCluster \/ \E m \in Machines : StartMachine(m)
  PROVE  NetworkInv'
  <1>1. UNCHANGED <<srv, seen, net, vm, cascade, troubles>> /\ queue' \subseteq queue
    BY DEF StartCluster, StartMachine, Start, world
  <1>2. CASE StartCluster
    <2>1. ClusterPass \in PassKind BY DEF ClusterPass, PassKind
    <2>2. /\ pass' = [pass EXCEPT !["cluster"] = ClusterPass]
          /\ met' = [m \in Machines |-> IF ClusterPass = "teardown" /\ met[m] = "unmet"
                                        THEN "late" ELSE met[m]]
      BY <1>2 DEF StartCluster, Start
    <2>3. Types' BY <1>1, <2>1, <2>2 DEF NetworkInv, Types
    <2>4. /\ ClusterPass = "teardown" => seen.oc.del /\ \A m \in Machines : ~seen.ma[m].exists \/ ~seen.om[m].exists
          /\ ClusterPass = "build" => ~seen.oc.del
      BY DEF ClusterPass, ListMachines
    <2>5. pass'["cluster"] = ClusterPass /\ \A n \in Machines : pass'[n] = pass[n]
      BY <2>2, LifecycleAssumption DEF NetworkInv, Types
    <2>6. \A m \in Machines : /\ met'[m] = "met" <=> met[m] = "met"
                              /\ ClusterPass = "teardown" => met'[m] # "unmet"
                              /\ met[m] # "unmet" => met'[m] # "unmet"
      BY <2>2
    <2>7. TeardownIsLast' BY <1>1, <2>4, <2>5, <2>6 DEF NetworkInv, TeardownIsLast, ListedUntilGone
    <2>. QED
      BY <1>1, <2>3, <2>4, <2>5, <2>6, <2>7
      DEF NetworkInv, KnownHasExisted, ClusterHeldUntilDeleted, NotBuiltAgain, ListedUntilGone,
          VmsOnNetwork, HasExisted
  <1>3. ASSUME NEW m \in Machines, StartMachine(m) PROVE NetworkInv'
    <2>1. MachinePass(m) \in PassKind BY DEF MachinePass, PassKind
    <2>2. pass' = [pass EXCEPT ![m] = MachinePass(m)] /\ met' = met BY <1>3 DEF StartMachine, Start
    <2>3. Types' BY <1>1, <2>1, <2>2 DEF NetworkInv, Types
    <2>4. /\ MachinePass(m) # "none" => seen.om[m].exists /\ seen.ma[m].exists
          /\ MachinePass(m) = "vm" => seen.cl.ready
      BY DEF MachinePass
    <2>5. /\ pass'[m] = MachinePass(m) /\ pass'["cluster"] = pass["cluster"]
          /\ \A n \in Machines : n # m => pass'[n] = pass[n]
      BY <2>2, LifecycleAssumption DEF NetworkInv, Types
    <2>. QED
      BY <1>1, <2>2, <2>3, <2>4, <2>5
      DEF NetworkInv, KnownHasExisted, ClusterHeldUntilDeleted, NotBuiltAgain, ListedUntilGone,
          TeardownIsLast, VmsOnNetwork, HasExisted
  <1>. QED BY <1>2, <1>3

LEMMA NetworkOthers ==
  ASSUME NetworkInv, Resync \/ DeleteCluster \/ (\E m \in Machines : VmTerminates(m)) \/ UNCHANGED vars
  PROVE  NetworkInv'
  <1>1. /\ UNCHANGED <<srv, seen, pass, net, met, troubles>>
        /\ cascade' \in BOOLEAN /\ (cascade => cascade')
        /\ queue' \subseteq Machines \cup {"cluster"}
        /\ vm' \in [Machines -> {"none", "live", "dying"}]
        /\ \A n \in Machines : vm'[n] # "none" => vm'[n] = vm[n]
    BY DEF Resync, Known, DeleteCluster, VmTerminates, vars, world, NetworkInv, Types
  <1>2. Types' BY <1>1 DEF NetworkInv, Types
  <1>. QED
    BY <1>1, <1>2
    DEF NetworkInv, KnownHasExisted, ClusterHeldUntilDeleted, NotBuiltAgain, ListedUntilGone,
        TeardownIsLast, VmsOnNetwork, HasExisted
-----------------------------------------------------------------------------------
LEMMA NetworkInit == Init => NetworkInv
  <1>. SUFFICES ASSUME Init PROVE NetworkInv
    OBVIOUS
  <1>1. NoObjects \in Objects
    BY DEF NoObjects, Objects, ClusterObject, OscClusterObject, MachineObject, OscMachineObject
  <1>2. /\ srv.cl = [exists |-> TRUE, paused |-> FALSE, ready |-> FALSE]
        /\ srv.oc = [NoObjects.oc EXCEPT !.exists = TRUE]
        /\ srv.ma = NoObjects.ma /\ srv.om = NoObjects.om
    BY DEF Init, NoObjects
  <1>3. /\ srv.oc \in OscClusterObject /\ srv.oc.exists /\ ~srv.oc.del /\ ~srv.oc.ready /\ ~srv.oc.owned
    BY <1>2 DEF NoObjects, OscClusterObject
  <1>4. \A m \in Machines : /\ ~NoObjects.ma[m].exists /\ ~NoObjects.om[m].exists
                            /\ ~NoObjects.ma[m].del /\ ~NoObjects.om[m].del
    BY DEF NoObjects
  <1>5. srv \in Objects
    <2>1. srv.cl \in ClusterObject BY <1>2 DEF ClusterObject
    <2>2. srv = [cl |-> srv.cl, oc |-> srv.oc, ma |-> NoObjects.ma, om |-> NoObjects.om]
      BY <1>2 DEF Init, NoObjects
    <2>. QED BY <1>1, <1>3, <2>1, <2>2 DEF Objects
  <1>6. Types BY <1>1, <1>5 DEF Init, Types, PassKind
  <1>7. ~NoObjects.oc.del BY DEF NoObjects
  <1>. QED
    BY <1>2, <1>3, <1>4, <1>6, <1>7
    DEF Init, NetworkInv, KnownHasExisted, ClusterHeldUntilDeleted, NotBuiltAgain, ListedUntilGone,
        TeardownIsLast, VmsOnNetwork, HasExisted

LEMMA NetworkStep == NetworkInv /\ [Next]_vars => NetworkInv'
  <1>. SUFFICES ASSUME NetworkInv, [Next]_vars PROVE NetworkInv'
    OBVIOUS
  <1>1. CASE SyncCluster \/ SyncOscCluster BY <1>1, NetworkSyncs
  <1>2. CASE StartCluster BY <1>2, NetworkStarts
  <1>3. CASE EndCluster BY <1>3, NetworkClusterEnds
  <1>4. CASE ClusterApi \/ Pause \/ Unpause BY <1>4, NetworkClusterWrites DEF ClusterApi
  <1>5. CASE DeleteOscCluster BY <1>5, NetworkClusterDeleted
  <1>6. CASE Resync \/ DeleteCluster \/ UNCHANGED vars BY <1>6, NetworkOthers
  <1>7. ASSUME NEW m \in Machines,
               \/ SyncMachine(m) \/ SyncOscMachine(m) \/ StartMachine(m) \/ EndMachine(m)
               \/ CreateMachine(m) \/ MachineApi(m) \/ DeleteMachine(m) \/ VmTerminates(m)
        PROVE  NetworkInv'
    BY <1>7, NetworkSyncs, NetworkStarts, NetworkMachineEnds, NetworkMachineCreated,
       NetworkMachineWrites, NetworkOthers
  <1>. QED BY <1>1, <1>2, <1>3, <1>4, <1>5, <1>6, <1>7 DEF Next

(* A VM keeps its network: with any number of machines, whatever passes    *)
(* fail and whenever the OscCluster is deleted, OscCluster and network are *)
(* there as long as a VM is, and the load balancer as long as a machine    *)
(* that ListMachines has had in time holds one (ListMachines, read before  *)
(* the teardown of reconcileDelete).                                       *)
THEOREM NetworkUnderMachinesAlways == Spec => []NetworkUnderMachines
  <1>1. NetworkInv => NetworkUnderMachines BY DEF NetworkInv, VmsOnNetwork, NetworkUnderMachines
  <1>. QED BY <1>1, NetworkInit, NetworkStep, PTL DEF Spec
-----------------------------------------------------------------------------------
(* AwakeInv.  What a step may do that puts nothing into the queue: what is *)
(* to be done, as the informers show it, stays as it was, and the server's *)
(* OscMachines only go on.                                                 *)
LEMMA PassFrom ==
  ASSUME NEW m \in Machines,
         seen'.om[m] = seen.om[m], seen'.ma[m] = seen.ma[m], seen'.oc = seen.oc, seen'.cl = seen.cl
  PROVE  MachinePass(m)' = MachinePass(m) /\ (ToDelete(m)' <=> ToDelete(m)) /\ (ToBuild(m)' <=> ToBuild(m))
BY DEF MachinePass, ToDelete, ToBuild, Paused

OnlyMoves(m) ==
  /\ srv'.om[m].exists => srv.om[m].exists \/ ~seen.om[m].exists
  /\ srv.om[m].exists /\ srv'.om[m].exists /\ srv.om[m].done => srv'.om[m].done
  /\ srv.om[m].del => srv'.om[m].del

(* A step that leaves the informers and the pass over m alone. *)
LEMMA Undisturbed ==
  ASSUME AwakeInv, seen' = seen, NEW m \in Machines, pass'[m] = pass[m],
         m \in queue => m \in queue', OnlyMoves(m)
  PROVE  m \notin queue' => /\ pass'[m] \in {"none", "hold"} => ~Open(m)'
                            /\ pass'[m] = "vm" => ~ToDelete(m)'
  <1>1. (ToDelete(m)' <=> ToDelete(m)) /\ (ToBuild(m)' <=> ToBuild(m)) BY PassFrom
  <1>2. ToDelete(m) \/ ToBuild(m) => seen.om[m].exists BY DEF ToDelete, ToBuild, MachinePass
  <1>3. Open(m)' => Open(m)  BY <1>1, <1>2 DEF Open, OnlyMoves
  <1>. QED BY <1>1, <1>3 DEF AwakeInv, NothingMissed

(* Writes to the server and ends of passes of the cluster. *)
LEMMA AwakeWrites ==
  ASSUME AwakeInv, NetworkInv', seen' = seen, \A m \in Machines : pass'[m] = pass[m] /\ OnlyMoves(m),
         queue \subseteq queue', ReadyIsOwned'
  PROVE  AwakeInv'
  <1>1. DeletionSeen' BY DEF AwakeInv, DeletionSeen, OnlyMoves
  <1>2. NothingMissed' BY Undisturbed DEF NothingMissed
  <1>. QED BY <1>1, <1>2 DEF AwakeInv

LEMMA AwakeClusterEnds ==
  ASSUME AwakeInv, NetworkInv', EndCluster
  PROVE  AwakeInv'
  <1>1. Types BY DEF AwakeInv, NetworkInv
  <1>2. PICK x \in OscClusterObject :
          /\ OcBecomes(x) /\ (x.exists => srv.oc.exists /\ x.owned = srv.oc.owned)
          /\ x.ready => srv.oc.ready \/ pass["cluster"] = "build"
          /\ Requeues("cluster") \/ queue' = queue
          /\ PassEnds("cluster")
    <2>1. CASE BuildCluster BY <1>1, <2>1, ClusterBuilds
    <2>2. CASE PostponeTeardown \/ TeardownCluster BY <1>1, <2>2, ClusterGoes
    <2>. QED BY <2>1, <2>2 DEF EndCluster
  <1>3. /\ srv'.om = srv.om /\ srv'.cl = srv.cl /\ srv'.oc = x /\ seen' = seen
        /\ queue \subseteq queue'
        /\ pass'["cluster"] = "none" /\ \A n \in Machines : pass'[n] = pass[n]
    BY <1>1, <1>2, LifecycleAssumption DEF OcBecomes, PassEnds, Requeues, Types
  <1>4. ReadyIsOwned' BY <1>2, <1>3 DEF AwakeInv, ReadyIsOwned
  <1>5. \A m \in Machines : OnlyMoves(m) BY <1>3 DEF OnlyMoves
  <1>. QED BY <1>3, <1>4, <1>5, AwakeWrites

LEMMA AwakeUserWrites ==
  ASSUME AwakeInv, NetworkInv',
         \/ ClusterApi \/ Pause \/ Unpause \/ DeleteOscCluster \/ DeleteCluster
         \/ \E m \in Machines : MachineApi(m) \/ DeleteMachine(m) \/ CreateMachine(m)
  PROVE  AwakeInv'
  <1>1. Types BY DEF AwakeInv, NetworkInv
  <1>. DEFINE Onwards == /\ seen' = seen /\ pass' = pass /\ queue' = queue
                         /\ srv'.oc.exists => srv.oc.exists /\ (srv.oc.owned => srv'.oc.owned)
                         /\ srv'.oc.ready => srv.oc.ready
                         /\ srv.cl.ready => srv'.cl.ready
                         /\ srv'.cl.ready => srv.cl.ready \/ srv.oc.ready
                         /\ srv'.cl.exists => srv.cl.exists
                         /\ \A m \in Machines : OnlyMoves(m)
  <1>2. Onwards
    <2>1. CASE InfrastructureReady \/ RemoveCluster
      BY <1>1, <2>1, ClusterWrites DEF ClBecomes, Elsewhere, OnlyMoves
    <2>2. CASE Pause \/ Unpause
      <3>1. CASE \E x \in ClusterObject : ClBecomes(x) /\ x.exists = srv.cl.exists /\ x.ready = srv.cl.ready
        BY <1>1, <2>2, <3>1, PauseWrites DEF ClBecomes, Elsewhere, OnlyMoves
      <3>2. CASE \E x \in OscClusterObject :
                   OcBecomes(x) /\ x.exists = srv.oc.exists /\ x.owned = srv.oc.owned /\ x.ready = srv.oc.ready
        BY <1>1, <2>2, <3>2, PauseWrites DEF OcBecomes, Elsewhere, OnlyMoves
      <3>. QED BY <1>1, <2>2, <3>1, <3>2, PauseWrites
    <2>3. CASE OwnOscCluster BY <1>1, <2>3, OwnerWrites DEF OcBecomes, Elsewhere, OnlyMoves
    <2>4. CASE DeleteOscCluster BY <1>1, <2>4, ClusterDeleted DEF OcBecomes, Elsewhere, OnlyMoves
    <2>5. CASE DeleteCluster BY <2>5 DEF DeleteCluster, OnlyMoves
    <2>6. ASSUME NEW m \in Machines, Bootstrap(m) \/ DeleteMachine(m) \/ RemoveMachine(m) PROVE Onwards
      BY <1>1, <2>6, MachineWrites DEF MaBecomes, Elsewhere, OnlyMoves
    <2>7. ASSUME NEW m \in Machines, OwnOscMachine(m) \/ DeleteOscMachine(m) PROVE Onwards
      BY <1>1, <2>7, OscMachineWrites DEF OmBecomes, Elsewhere, OnlyMoves
    <2>8. ASSUME NEW m \in Machines, CreateMachine(m) PROVE Onwards
      <3>1. ~seen.om[m].exists BY <1>1, <2>8, MachineCreated DEF AwakeInv, NetworkInv, KnownHasExisted
      <3>. QED BY <1>1, <2>8, <3>1, MachineCreated DEF Elsewhere, OnlyMoves
    <2>. QED BY <2>1, <2>2, <2>3, <2>4, <2>5, <2>6, <2>7, <2>8 DEF ClusterApi, MachineApi
  <1>3. ReadyIsOwned' BY <1>2 DEF AwakeInv, ReadyIsOwned
  <1>. QED BY <1>2, <1>3, AwakeWrites

(* The informer of the Clusters: a machine that it gives something to do   *)
(* sees a transition, from paused or not ready.                            *)
LEMMA AwakeSyncCluster ==
  ASSUME AwakeInv, NetworkInv', SyncCluster
  PROVE  AwakeInv'
  <1>1. /\ UNCHANGED <<srv, pass>> /\ queue \subseteq queue'
        /\ seen'.cl = srv.cl /\ seen'.oc = seen.oc /\ seen'.ma = seen.ma /\ seen'.om = seen.om
    BY DEF SyncCluster, AwakeInv, NetworkInv, Types, Objects
  <1>2. ReadyIsOwned' /\ DeletionSeen' BY <1>1 DEF AwakeInv, ReadyIsOwned, DeletionSeen
  <1>3. ASSUME NEW m \in Machines, m \notin queue', ToDelete(m)' \/ ToBuild(m)'
        PROVE  (ToDelete(m)' <=> ToDelete(m)) /\ (ToBuild(m)' <=> ToBuild(m))
    <2>1. seen.om[m].exists /\ srv.cl.exists /\ srv.cl.ready /\ ~srv.cl.paused
      BY <1>1, <1>3 DEF ToDelete, ToBuild, MachinePass, Paused
    <2>2. ~ClusterTransition(seen.cl, srv.cl) BY <1>3, <2>1 DEF SyncCluster
    <2>3. seen.cl.ready /\ seen.cl.exists
      BY <2>1, <2>2 DEF ClusterTransition, AwakeInv, ReadyIsOwned
    <2>4. ~seen.cl.paused
      <3>1. seen.cl \in ClusterObject /\ srv.cl \in ClusterObject BY Parts DEF AwakeInv, NetworkInv, Types
      <3>. QED BY <2>1, <2>2, <2>3, <3>1 DEF ClusterTransition, ClusterObject
    <2>5. MachinePass(m)' = MachinePass(m) BY <1>1, <2>1, <2>3, <2>4 DEF MachinePass, Paused
    <2>. QED BY <1>1, <2>1, <2>3, <2>5 DEF ToDelete, ToBuild
  <1>4. NothingMissed' BY <1>1, <1>3 DEF AwakeInv, NothingMissed, Open
  <1>. QED BY <1>2, <1>4 DEF AwakeInv

(* The informer of the OscClusters: the watch maps to the machines, but for *)
(* a paused one.                                                            *)
LEMMA AwakeSyncOscCluster ==
  ASSUME AwakeInv, NetworkInv', SyncOscCluster
  PROVE  AwakeInv'
  <1>1. /\ UNCHANGED <<srv, pass>> /\ queue \subseteq queue'
        /\ seen'.cl = seen.cl /\ seen'.oc = srv.oc /\ seen'.ma = seen.ma /\ seen'.om = seen.om
    BY DEF SyncOscCluster, AwakeInv, NetworkInv, Types, Objects
  <1>2. ReadyIsOwned' /\ DeletionSeen' BY <1>1 DEF AwakeInv, ReadyIsOwned, DeletionSeen
  <1>3. ASSUME NEW m \in Machines, ToDelete(m)' \/ ToBuild(m)'
        PROVE  m \in queue'
    <2>1. /\ seen.ma[m].exists /\ seen.cl.exists /\ seen.cl.ready
          /\ srv.oc.exists /\ ~srv.oc.paused /\ ~srv.oc.del
      BY <1>1, <1>3 DEF ToDelete, ToBuild, MachinePass, Paused
    <2>2. srv.oc.owned BY <2>1 DEF AwakeInv, ReadyIsOwned, NetworkInv, VmsOnNetwork
    <2>. QED BY <2>1, <2>2 DEF SyncOscCluster, OscClusterToOscMachines
  <1>4. NothingMissed' BY <1>3 DEF NothingMissed, Open
  <1>. QED BY <1>2, <1>4 DEF AwakeInv

(* The informers of Machines and OscMachines queue the machine. *)
LEMMA AwakeSyncMachine ==
  ASSUME AwakeInv, NetworkInv', NEW m \in Machines, SyncMachine(m) \/ SyncOscMachine(m)
  PROVE  AwakeInv'
  <1>1. /\ UNCHANGED <<srv, pass>> /\ queue' = queue \cup {m}
        /\ seen'.cl = seen.cl /\ seen'.oc = seen.oc
        /\ seen'.om[m] = seen.om[m] \/ seen'.om[m] = srv.om[m]
        /\ \A n \in Machines : n # m => seen'.ma[n] = seen.ma[n] /\ seen'.om[n] = seen.om[n]
    BY DEF SyncMachine, SyncOscMachine, AwakeInv, NetworkInv, Types, Objects
  <1>2. ReadyIsOwned' BY <1>1 DEF AwakeInv, ReadyIsOwned
  <1>3. DeletionSeen' BY <1>1 DEF AwakeInv, DeletionSeen
  <1>4. \A n \in Machines : n # m => (ToDelete(n)' <=> ToDelete(n)) /\ (ToBuild(n)' <=> ToBuild(n))
    BY <1>1, PassFrom
  <1>5. NothingMissed' BY <1>1, <1>4 DEF AwakeInv, NothingMissed, Open
  <1>. QED BY <1>2, <1>3, <1>5 DEF AwakeInv

LEMMA AwakeStarts ==
  ASSUME AwakeInv, NetworkInv', StartCluster \/ \E m \in Machines : StartMachine(m)
  PROVE  AwakeInv'
  <1>1. UNCHANGED <<srv, seen>> BY DEF StartCluster, StartMachine, Start, world
  <1>2. \A n \in Machines : (ToDelete(n)' <=> ToDelete(n)) /\ (ToBuild(n)' <=> ToBuild(n))
    BY <1>1, PassFrom
  <1>3. CASE StartCluster
    <2>1. /\ pass'["cluster"] = ClusterPass /\ \A n \in Machines : pass'[n] = pass[n]
          /\ \A n \in Machines : n \in queue' <=> n \in queue
      BY <1>3, LifecycleAssumption DEF StartCluster, Start, AwakeInv, NetworkInv, Types
    <2>2. ClusterPass = "build" => seen.oc.owned BY DEF ClusterPass
    <2>3. ReadyIsOwned' /\ DeletionSeen' BY <1>1, <2>1, <2>2 DEF AwakeInv, ReadyIsOwned, DeletionSeen
    <2>4. NothingMissed' BY <1>1, <1>2, <2>1 DEF AwakeInv, NothingMissed, Open
    <2>. QED BY <2>3, <2>4 DEF AwakeInv
  <1>4. ASSUME NEW m \in Machines, StartMachine(m) PROVE AwakeInv'
    <2>1. /\ pass'[m] = MachinePass(m) /\ pass'["cluster"] = pass["cluster"]
          /\ \A n \in Machines : n # m => pass'[n] = pass[n] /\ (n \in queue' <=> n \in queue)
      BY <1>4, LifecycleAssumption DEF StartMachine, Start, AwakeInv, NetworkInv, Types
    <2>2. MachinePass(m) = "delete" => seen.om[m].del BY DEF MachinePass
    <2>3. ReadyIsOwned' /\ DeletionSeen' BY <1>1, <2>1, <2>2 DEF AwakeInv, ReadyIsOwned, DeletionSeen
    <2>4. /\ MachinePass(m) \in {"none", "hold"} => ~ToDelete(m) /\ ~ToBuild(m)
          /\ MachinePass(m) = "vm" => ~ToDelete(m)
      BY DEF ToDelete, ToBuild
    <2>5. NothingMissed' BY <1>1, <1>2, <2>1, <2>4 DEF AwakeInv, NothingMissed, Open
    <2>. QED BY <2>3, <2>5 DEF AwakeInv
  <1>. QED BY <1>3, <1>4

(* A pass that ends without a requeue leaves nothing to do. *)
LEMMA AwakeMachineEnds ==
  ASSUME AwakeInv, NetworkInv', NEW m \in Machines, EndMachine(m)
  PROVE  AwakeInv'
  <1>1. Types BY DEF AwakeInv, NetworkInv
  <1>2. PICK x \in OscMachineObject :
          /\ OmBecomes(m, x) /\ (x.exists => srv.om[m].exists) /\ (srv.om[m].del => x.del)
          /\ x.exists /\ srv.om[m].done => x.done
          /\ \/ Requeues(m)
             \/ queue' = queue /\ pass[m] = "hold"
             \/ queue' = queue /\ pass[m] = "vm" /\ x.done
             \/ queue' = queue /\ pass[m] = "delete" /\ ~x.exists
          /\ PassEnds(m)
    <2>1. CASE DeleteVm(m) BY <1>1, <2>1, MachineGoes
    <2>2. CASE HoldMachine(m) \/ MachineVm(m) BY <1>1, <2>2, MachineBuilds
    <2>. QED BY <2>1, <2>2 DEF EndMachine
  <1>3. /\ srv'.cl = srv.cl /\ srv'.oc = srv.oc /\ srv'.om[m] = x /\ seen' = seen
        /\ pass'[m] = "none" /\ pass'["cluster"] = pass["cluster"]
        /\ \A n \in Machines : n # m => pass'[n] = pass[n] /\ srv'.om[n] = srv.om[n]
    BY <1>1, <1>2, LifecycleAssumption DEF OmBecomes, PassEnds, Types
  <1>4. queue \subseteq queue' BY <1>2 DEF Requeues
  <1>5. ReadyIsOwned' /\ DeletionSeen' BY <1>2, <1>3 DEF AwakeInv, ReadyIsOwned, DeletionSeen
  <1>6. \A n \in Machines : (ToDelete(n)' <=> ToDelete(n)) /\ (ToBuild(n)' <=> ToBuild(n))
    BY <1>3, PassFrom
  <1>7. ASSUME m \notin queue' PROVE ~Open(m)'
    <2>1. m \notin queue /\ ~Requeues(m) BY <1>4, <1>7 DEF Requeues
    <2>2. CASE pass[m] = "hold" BY <1>2, <1>3, <1>6, <2>1, <2>2 DEF AwakeInv, NothingMissed, Open
    <2>3. CASE pass[m] = "vm" /\ x.done BY <1>3, <1>6, <2>1, <2>3 DEF AwakeInv, NothingMissed, Open
    <2>4. CASE pass[m] = "delete" /\ ~x.exists
      <3>1. seen.om[m].del BY <2>4 DEF AwakeInv, DeletionSeen
      <3>2. ~ToBuild(m) BY <3>1 DEF ToBuild, MachinePass
      <3>. QED BY <1>3, <1>6, <2>4, <3>2 DEF Open
    <2>. QED BY <1>2, <2>1, <2>2, <2>3, <2>4
  <1>8. \A n \in Machines : n # m => (Open(n)' <=> Open(n)) BY <1>3, <1>6 DEF Open
  <1>9. NothingMissed' BY <1>3, <1>4, <1>6, <1>7, <1>8 DEF AwakeInv, NothingMissed
  <1>. QED BY <1>5, <1>9 DEF AwakeInv

LEMMA AwakeOthers ==
  ASSUME AwakeInv, NetworkInv', Resync \/ (\E m \in Machines : VmTerminates(m)) \/ UNCHANGED vars
  PROVE  AwakeInv'
  <1>1. UNCHANGED <<srv, seen, pass>> /\ queue \subseteq queue'
    BY DEF Resync, Known, VmTerminates, vars, world
  <1>2. ReadyIsOwned' BY <1>1 DEF AwakeInv, ReadyIsOwned
  <1>3. \A m \in Machines : OnlyMoves(m) BY <1>1 DEF OnlyMoves
  <1>. QED BY <1>1, <1>2, <1>3, AwakeWrites

LEMMA AwakeInit == Init => AwakeInv
  <1>. SUFFICES ASSUME Init PROVE AwakeInv
    OBVIOUS
  <1>1. seen = NoObjects /\ ~srv.cl.ready /\ ~srv.oc.ready /\ ~NoObjects.cl.ready /\ ~NoObjects.oc.owned
    BY DEF Init, NoObjects
  <1>2. \A m \in Machines : ~NoObjects.om[m].exists /\ ~NoObjects.om[m].del BY DEF NoObjects
  <1>3. ReadyIsOwned /\ DeletionSeen BY <1>1, <1>2 DEF Init, ReadyIsOwned, DeletionSeen
  <1>4. NothingMissed BY <1>1 DEF Init, NothingMissed, Open, ToDelete, ToBuild
  <1>. QED BY <1>3, <1>4, NetworkInit DEF AwakeInv

LEMMA AwakeStep == AwakeInv /\ [Next]_vars => AwakeInv'
  <1>. SUFFICES ASSUME AwakeInv, [Next]_vars PROVE AwakeInv'
    OBVIOUS
  <1>0. NetworkInv' BY NetworkStep DEF AwakeInv
  <1>1. CASE SyncCluster \/ SyncOscCluster BY <1>0, <1>1, AwakeSyncCluster, AwakeSyncOscCluster
  <1>2. CASE StartCluster BY <1>0, <1>2, AwakeStarts
  <1>3. CASE EndCluster BY <1>0, <1>3, AwakeClusterEnds
  <1>4. CASE ClusterApi \/ Pause \/ Unpause \/ DeleteOscCluster \/ DeleteCluster
    BY <1>0, <1>4, AwakeUserWrites
  <1>5. CASE Resync \/ UNCHANGED vars BY <1>0, <1>5, AwakeOthers
  <1>6. ASSUME NEW m \in Machines,
               \/ SyncMachine(m) \/ SyncOscMachine(m) \/ StartMachine(m) \/ EndMachine(m)
               \/ CreateMachine(m) \/ MachineApi(m) \/ DeleteMachine(m) \/ VmTerminates(m)
        PROVE  AwakeInv'
    BY <1>0, <1>6, AwakeSyncMachine, AwakeStarts, AwakeMachineEnds, AwakeUserWrites, AwakeOthers
  <1>. QED BY <1>1, <1>2, <1>3, <1>4, <1>5, <1>6 DEF Next

(* No machine of a ready cluster is left to the resync: with any number of *)
(* machines and in whatever order the objects arrive, a machine that has   *)
(* something to do is queued or in a pass once the informers have caught   *)
(* up (the watches of SetupWithManager).                                   *)
THEOREM MachinesAwakeAlways == Spec => []MachinesAwake
  <1>1. AwakeInv => MachinesAwake
    <2>. SUFFICES ASSUME AwakeInv, seen = srv, NEW m \in Machines, HasWork(m), m \notin queue, pass[m] = "none"
                  PROVE  FALSE
      BY DEF MachinesAwake
    <2>1. ~Open(m) BY DEF AwakeInv, NothingMissed
    <2>2. seen.om[m].exists BY DEF HasWork, MachinePass
    <2>. QED BY <2>1, <2>2 DEF HasWork, Open, ToDelete, ToBuild
  <1>. QED BY <1>1, AwakeInit, AwakeStep, PTL DEF Spec
===================================================================================
