--------------------------------- MODULE Lifecycle ---------------------------------
(***************************************************************************)
(* The cluster controller and the machine controller together, as Cluster  *)
(* API drives them: a Cluster with its OscCluster, Machines with their     *)
(* OscMachines.  A pass is two steps, what it reads and what it does; what *)
(* happens inside is in OscCluster and OscMachine.  The subject is which   *)
(* events start a pass, which passes return at once, and who waits for     *)
(* whom.                                                                   *)
(***************************************************************************)
EXTENDS Naturals, FiniteSets

CONSTANTS
  Machines,   (* control plane nodes                                     *)
  MaxTroubles (* bound: passes that fail, and pauses                     *)

ASSUME LifecycleAssumption ==
  "cluster" \notin Machines /\ MaxTroubles \in Nat

VARIABLES
  srv,     (* the objects in the API server: Cluster (cl), OscCluster    *)
           (* (oc), Machines (ma) and OscMachines (om)                   *)
  seen,    (* the versions of them in the informers                      *)
  queue,   (* the work queues: machines, and "cluster" for the OscCluster *)
  pass,    (* what the pass over each of them is about to do             *)
  net,     (* the cluster's network: "none", "up", or "bare" without its *)
           (* load balancer                                              *)
  vm,      (* the VM of each machine: "none", "live", "dying"            *)
  cascade, (* the Cluster is being deleted, which the code never asks      *)
  met,     (* history: "met" for a machine that ListMachines had         *)
           (* before a teardown began, "late" for one that it had not    *)
  troubles

vars == <<srv, seen, queue, pass, net, vm, cascade, met, troubles>>
world == <<net, vm, cascade, troubles>>

NoObjects ==
  [cl |-> [exists |-> FALSE, paused |-> FALSE, ready |-> FALSE],
   oc |-> [exists |-> FALSE, del |-> FALSE, paused |-> FALSE, owned |-> FALSE, fin |-> FALSE, ready |-> FALSE],
   ma |-> [m \in Machines |-> [exists |-> FALSE, del |-> FALSE, boot |-> FALSE]],
   om |-> [m \in Machines |-> [exists |-> FALSE, del |-> FALSE, owned |-> FALSE, fin |-> FALSE, done |-> FALSE]]]

(* A deleted object that has gone, and one that a deletion finds: it goes  *)
(* at once if it has no finalizer.                                         *)
Gone(o) == [f \in DOMAIN o |-> f = "del"]
Deleted(o) == IF o.fin THEN [o EXCEPT !.del = TRUE] ELSE Gone(o)

Paused(s) == s.cl.paused \/ s.oc.paused
--------------------------------------------------------------------------------
(* Events: what the informers learn puts work into the queues.  Events of  *)
(* an object that carries the pause annotation are dropped.                *)
Meet(m) ==
  met' = [met EXCEPT ![m] = IF @ = "unmet" /\ seen'.ma[m].exists /\ seen'.om[m].exists THEN "met" ELSE @]

SyncOscMachine(m) ==
  /\ seen.om[m] # srv.om[m]
  /\ seen' = [seen EXCEPT !.om[m] = srv.om[m]]
  /\ queue' = queue \cup {m}
  /\ Meet(m)
  /\ UNCHANGED <<srv, pass, world>>

SyncMachine(m) ==
  /\ seen.ma[m] # srv.ma[m]
  /\ seen' = [seen EXCEPT !.ma[m] = srv.ma[m]]
  /\ queue' = queue \cup {m}
  /\ Meet(m)
  /\ UNCHANGED <<srv, pass, world>>

OscClusterToOscMachines ==
  IF srv.oc.exists /\ ~srv.oc.del /\ srv.oc.owned /\ seen.cl.exists
  THEN {m \in Machines : seen.ma[m].exists} ELSE {}

SyncOscCluster ==
  /\ seen.oc # srv.oc
  /\ seen' = [seen EXCEPT !.oc = srv.oc]
  /\ queue' = IF srv.oc.paused THEN queue ELSE queue \cup {"cluster"} \cup OscClusterToOscMachines
  /\ UNCHANGED <<srv, pass, met, world>>

(* Mutant: only the end of a pause is watched for. *)
UnpausedOnly(before, after) == before.paused /\ ~after.paused

(* ClusterPausedTransitionsOrInfrastructureReady.  The cluster controller  *)
(* does not watch Clusters.                                                *)
ClusterTransition(before, after) ==
  \/ before.exists /\ after.exists /\ before.paused # after.paused
  \/ after.exists /\ after.ready /\ ~before.ready

SyncCluster ==
  /\ seen.cl # srv.cl
  /\ seen' = [seen EXCEPT !.cl = srv.cl]
  /\ queue' = IF ClusterTransition(seen.cl, srv.cl) THEN queue \cup {m \in Machines : seen.om[m].exists}
              ELSE queue
  /\ UNCHANGED <<srv, pass, met, world>>

Known == {m \in Machines : seen.om[m].exists} \cup (IF seen.oc.exists THEN {"cluster"} ELSE {})

(* Mutant: there is no resync. *)
NoResync == FALSE /\ UNCHANGED vars

(* The sync period of the manager's cache. *)
Resync ==
  /\ ~(Known \subseteq queue)
  /\ queue' = queue \cup Known
  /\ UNCHANGED <<srv, seen, pass, met, world>>
--------------------------------------------------------------------------------
(* Mutant: machines that are being deleted are not counted. *)
ListOtherMachines == {m \in Machines : seen.ma[m].exists /\ seen.om[m].exists /\ ~seen.om[m].del}

(* ListMachines: from two informers, Machines that have an OscMachine.     *)
ListMachines == {m \in Machines : seen.ma[m].exists /\ seen.om[m].exists}

(* What Reconcile makes of the objects that it reads; "none" when it       *)
(* returns before it has a scope.                                          *)
ClusterPass ==
  CASE ~seen.oc.exists \/ ~seen.oc.owned \/ ~seen.cl.exists \/ Paused(seen) -> "none"
    [] OTHER -> IF ~seen.oc.del THEN "build"
                ELSE IF ListMachines # {} THEN "postpone" ELSE "teardown"

(* Mutant: machines of a cluster that is being deleted are left alone. *)
NotWhileClusterGoes(m) ==
  CASE ~seen.om[m].exists \/ ~seen.om[m].owned \/ ~seen.ma[m].exists -> "none"
    [] ~seen.cl.exists \/ ~seen.oc.exists \/ seen.oc.del \/ Paused(seen) -> "none"
    [] OTHER -> IF seen.om[m].del THEN "delete"
                ELSE IF ~seen.cl.ready \/ ~seen.ma[m].boot THEN "hold" ELSE "vm"

MachinePass(m) ==
  CASE ~seen.om[m].exists \/ ~seen.om[m].owned \/ ~seen.ma[m].exists -> "none"
    [] ~seen.cl.exists \/ ~seen.oc.exists \/ Paused(seen) -> "none"
    [] OTHER -> IF seen.om[m].del THEN "delete"
                ELSE IF ~seen.cl.ready \/ ~seen.ma[m].boot THEN "hold" ELSE "vm"

Start(i, p) ==
  /\ i \in queue /\ pass[i] = "none"
  /\ queue' = queue \ {i}
  /\ pass' = [pass EXCEPT ![i] = p]
  /\ UNCHANGED <<srv, seen, world>>

StartCluster ==
  /\ Start("cluster", ClusterPass)
  /\ met' = [m \in Machines |-> IF ClusterPass = "teardown" /\ met[m] = "unmet" THEN "late" ELSE met[m]]
StartMachine(m) == Start(m, MachinePass(m)) /\ UNCHANGED met
--------------------------------------------------------------------------------
(* The end of a pass: cluster and machine objects as Close leaves them,    *)
(* and whether the pass is to be repeated.                                 *)
End(i, o, again) ==
  /\ srv' = o
  /\ pass' = [pass EXCEPT ![i] = "none"]
  /\ queue' = IF again THEN queue \cup {i} ELSE queue
  /\ UNCHANGED <<seen, cascade, met>>

(* An error, somewhere: the pass is repeated with back-off.  Close has     *)
(* saved the finalizer, unless it is Close that failed.                    *)
Fails(i, held) ==
  /\ troubles < MaxTroubles
  /\ troubles' = troubles + 1
  /\ \E o \in {srv, held} : End(i, o, TRUE)

ClusterHeld == IF srv.oc.exists THEN [srv EXCEPT !.oc.fin = TRUE] ELSE srv
MachineHeld(m) == IF srv.om[m].exists THEN [srv EXCEPT !.om[m].fin = TRUE] ELSE srv

(* reconcile: network and load balancer, then readiness.  Of an object     *)
(* that has gone meanwhile nothing is saved.                               *)
BuildCluster ==
  /\ pass["cluster"] = "build"
  /\ UNCHANGED vm
  /\ \/ /\ net' = "up"
        /\ End("cluster", IF srv.oc.exists THEN [ClusterHeld EXCEPT !.oc.ready = TRUE] ELSE srv, ~srv.oc.exists)
        /\ UNCHANGED troubles
     \/ net' \in {net, "bare"} /\ (net = "up" => net' = net) /\ Fails("cluster", ClusterHeld)

PostponeTeardown ==
  /\ pass["cluster"] = "postpone"
  /\ End("cluster", srv, TRUE)
  /\ UNCHANGED <<net, vm, troubles>>

(* reconcileDelete: the load balancer first; a net with VMs is refused. *)
TeardownCluster ==
  /\ pass["cluster"] = "teardown"
  /\ UNCHANGED vm
  /\ \/ /\ \E m \in Machines : vm[m] # "none"
        /\ net' = IF net = "none" THEN net ELSE "bare"
        /\ End("cluster", srv, TRUE)
        /\ UNCHANGED troubles
     \/ /\ \A m \in Machines : vm[m] = "none"
        /\ net' = "none"
        /\ End("cluster", [srv EXCEPT !.oc = Gone(@)], FALSE)
        /\ UNCHANGED troubles
     \/ net' \in {net, IF net = "up" THEN "bare" ELSE net} /\ Fails("cluster", srv)

(* reconcile, before the infrastructure or the bootstrap secret is there. *)
HoldMachine(m) ==
  /\ pass[m] = "hold"
  /\ UNCHANGED <<net, vm>>
  /\ \/ End(m, MachineHeld(m), FALSE) /\ UNCHANGED troubles
     \/ Fails(m, MachineHeld(m))

(* reconcileVm: the VM is created in one pass and found in a later one. *)
MachineVm(m) ==
  /\ pass[m] = "vm"
  /\ UNCHANGED net
  /\ \/ /\ vm[m] = "none" /\ net = "up"
        /\ vm' = [vm EXCEPT ![m] = "live"]
        /\ End(m, MachineHeld(m), TRUE)
        /\ UNCHANGED troubles
     \/ /\ vm[m] = "live" /\ net = "up"
        /\ End(m, IF srv.om[m].exists THEN [MachineHeld(m) EXCEPT !.om[m].done = TRUE] ELSE srv,
               ~srv.om[m].exists)
        /\ UNCHANGED <<vm, troubles>>
     \/ /\ vm[m] = "dying" \/ net # "up"
        /\ End(m, MachineHeld(m), TRUE)
        /\ UNCHANGED <<vm, troubles>>
     \/ UNCHANGED vm /\ Fails(m, MachineHeld(m))

(* reconcileDelete: once the deletion of the VM is accepted the finalizer  *)
(* goes.                                                                   *)
DeleteVm(m) ==
  /\ pass[m] = "delete"
  /\ UNCHANGED net
  /\ \/ /\ vm' = [vm EXCEPT ![m] = IF @ = "live" THEN "dying" ELSE @]
        /\ End(m, [srv EXCEPT !.om[m] = Gone(@)], FALSE)
        /\ UNCHANGED troubles
     \/ vm' \in {vm, [vm EXCEPT ![m] = IF @ = "live" THEN "dying" ELSE @]} /\ Fails(m, srv)

VmTerminates(m) ==
  /\ vm[m] = "dying"
  /\ vm' = [vm EXCEPT ![m] = "none"]
  /\ UNCHANGED <<srv, seen, queue, pass, net, cascade, met, troubles>>
--------------------------------------------------------------------------------
(* The user and the controllers of Cluster API, which rest while the       *)
(* Cluster is paused.                                                      *)
Write(o) ==
  /\ srv' = o
  /\ UNCHANGED <<seen, queue, pass, met, world>>

Awake == srv.cl.exists /\ ~srv.cl.paused

OwnOscCluster == /\ Awake /\ srv.oc.exists /\ ~srv.oc.owned
                 /\ Write([srv EXCEPT !.oc.owned = TRUE])
InfrastructureReady == /\ Awake /\ srv.oc.exists /\ srv.oc.ready /\ ~srv.cl.ready
                       /\ Write([srv EXCEPT !.cl.ready = TRUE])

(* A Machine and its OscMachine are created. *)
CreateMachine(m) ==
  /\ Awake /\ ~cascade /\ ~srv.ma[m].exists /\ ~srv.ma[m].del
  /\ Write([srv EXCEPT !.ma[m].exists = TRUE, !.om[m].exists = TRUE])
OwnOscMachine(m) ==
  /\ Awake /\ srv.ma[m].exists /\ srv.om[m].exists /\ ~srv.om[m].owned
  /\ Write([srv EXCEPT !.om[m].owned = TRUE])
Bootstrap(m) ==
  /\ Awake /\ srv.cl.ready /\ srv.ma[m].exists /\ ~srv.ma[m].boot
  /\ Write([srv EXCEPT !.ma[m].boot = TRUE])

(* A Machine is deleted by the user, or with its Cluster; its OscMachine   *)
(* goes before it.                                                         *)
DeleteMachine(m) ==
  /\ srv.ma[m].exists /\ ~srv.ma[m].del
  /\ Write([srv EXCEPT !.ma[m].del = TRUE])
DeleteOscMachine(m) ==
  /\ Awake /\ srv.ma[m].exists /\ srv.ma[m].del /\ srv.om[m].exists /\ ~srv.om[m].del
  /\ Write([srv EXCEPT !.om[m] = Deleted(@)])
RemoveMachine(m) ==
  /\ Awake /\ srv.ma[m].exists /\ srv.ma[m].del /\ ~srv.om[m].exists
  /\ Write([srv EXCEPT !.ma[m] = Gone(@)])

DeleteCluster ==
  /\ ~cascade
  /\ cascade' = TRUE
  /\ UNCHANGED <<srv, seen, queue, pass, net, vm, met, troubles>>

(* The OscCluster is deleted by the user at any time, also while Machines  *)
(* are being created, or when the Machines of a deleted Cluster have gone. *)
(* Without a finalizer it goes at once, and every machine is late.         *)
DeleteOscCluster ==
  /\ srv.oc.exists /\ ~srv.oc.del
  /\ srv' = [srv EXCEPT !.oc = Deleted(@)]
  /\ met' = IF srv.oc.fin THEN met ELSE [m \in Machines |-> "late"]
  /\ UNCHANGED <<seen, queue, pass, world>>
NoMachines == \A m \in Machines : ~srv.ma[m].exists
RemoveCluster == /\ Awake /\ cascade /\ NoMachines /\ ~srv.oc.exists
                 /\ Write([srv EXCEPT !.cl.exists = FALSE])

Pause ==
  /\ troubles < MaxTroubles
  /\ troubles' = troubles + 1
  /\ \/ srv.cl.exists /\ ~srv.cl.paused /\ srv' = [srv EXCEPT !.cl.paused = TRUE]
     \/ srv.oc.exists /\ ~srv.oc.paused /\ srv' = [srv EXCEPT !.oc.paused = TRUE]
  /\ UNCHANGED <<seen, queue, pass, net, vm, cascade, met>>
Unpause ==
  \/ srv.cl.paused /\ Write([srv EXCEPT !.cl.paused = FALSE])
  \/ srv.oc.paused /\ Write([srv EXCEPT !.oc.paused = FALSE])
--------------------------------------------------------------------------------
Init ==
  /\ srv = [NoObjects EXCEPT !.cl.exists = TRUE, !.oc.exists = TRUE]
  /\ seen = NoObjects
  /\ queue = {} /\ pass = [i \in Machines \cup {"cluster"} |-> "none"]
  /\ net = "none" /\ vm = [m \in Machines |-> "none"]
  /\ cascade = FALSE /\ met = [m \in Machines |-> "unmet"] /\ troubles = 0

EndCluster == BuildCluster \/ PostponeTeardown \/ TeardownCluster
EndMachine(m) == HoldMachine(m) \/ MachineVm(m) \/ DeleteVm(m)
ClusterApi == OwnOscCluster \/ InfrastructureReady \/ RemoveCluster
MachineApi(m) ==
  \/ OwnOscMachine(m) \/ Bootstrap(m) \/ DeleteOscMachine(m) \/ RemoveMachine(m)

(* Of a deleted Cluster the Machines and then the OscCluster are deleted. *)
Cascade ==
  cascade /\ (\/ Awake /\ NoMachines /\ DeleteOscCluster
              \/ \E m \in Machines : DeleteMachine(m))

Next ==
  \/ SyncCluster \/ SyncOscCluster \/ Resync \/ StartCluster \/ EndCluster
  \/ ClusterApi \/ DeleteCluster \/ DeleteOscCluster
  \/ Pause \/ Unpause
  \/ \E m \in Machines :
       \/ SyncMachine(m) \/ SyncOscMachine(m) \/ StartMachine(m) \/ EndMachine(m)
       \/ CreateMachine(m) \/ MachineApi(m) \/ DeleteMachine(m) \/ VmTerminates(m)

Spec == Init /\ [][Next]_vars

(* The informers, the queues, the resync and the controllers of Cluster    *)
(* API go on; users need do nothing.                                       *)
FairSpec ==
  /\ Spec
  /\ WF_vars(SyncCluster) /\ WF_vars(SyncOscCluster) /\ WF_vars(Resync)
  /\ WF_vars(StartCluster) /\ WF_vars(EndCluster) /\ WF_vars(ClusterApi) /\ WF_vars(Cascade)
  /\ \A m \in Machines : /\ WF_vars(SyncMachine(m)) /\ WF_vars(SyncOscMachine(m))
                         /\ WF_vars(StartMachine(m)) /\ WF_vars(EndMachine(m))
                         /\ WF_vars(MachineApi(m)) /\ WF_vars(VmTerminates(m))
--------------------------------------------------------------------------------
(* Whenever the OscCluster is deleted, a VM keeps what its own deletion    *)
(* needs, the OscCluster and the network; and once ListMachines has had a  *)
(* machine, no teardown takes the load balancer from under its VM before   *)
(* its OscMachine has gone, however the informers lag.  A machine that the *)
(* informers first show after a teardown has begun is not spared that:     *)
(* ListMachines is read once.                                              *)
NetworkUnderMachines ==
  \A m \in Machines :
    /\ vm[m] # "none" => srv.oc.exists /\ net # "none"
    /\ vm[m] = "live" /\ srv.om[m].exists /\ met[m] = "met" => net = "up"

(* No machine of a ready cluster is left to the resync: once the informers *)
(* have caught up, a machine that Reconcile would not return from and that *)
(* has something to do is queued or in a pass.  The watches of             *)
(* SetupWithManager see to it, in whatever order the objects it waits for  *)
(* arrive.  OscClusterToOscMachines passes over clusters being deleted.    *)
HasWork(m) ==
  /\ srv.cl.ready /\ ~srv.oc.del
  /\ MachinePass(m) = "delete" \/ (MachinePass(m) = "vm" /\ ~srv.om[m].done)
MachinesAwake ==
  seen = srv => \A m \in Machines : HasWork(m) => m \in queue \/ pass[m] # "none"

(* A machine gets its VM, unless it, its cluster or their reconciliation   *)
(* is called off: whoever waits for whom, the chain of events from Cluster *)
(* to OscCluster and back to the machine is never cut.                     *)
CalledOff(m) ==
  srv.ma[m].del \/ cascade \/ srv.oc.del \/ Paused(srv) \/ ~srv.cl.exists \/ ~srv.oc.exists
MachinesStart == \A m \in Machines : []<>(srv.ma[m].exists => srv.om[m].done \/ CalledOff(m))

(* Deletions end: the cluster waits for its machines and the machines need *)
(* their cluster, but neither waits for ever.  Exempt are a VM that a pass *)
(* created for a machine that went before its finalizer was saved, and a   *)
(* machine whose OscCluster has gone before ListMachines had it: Reconcile *)
(* returns from it before it looks at the deletion.                        *)
Orphaned == \E m \in Machines : vm[m] = "live" /\ ~srv.om[m].exists
LeftBehind(m) == met[m] = "late" /\ ~srv.oc.exists /\ srv.om[m].exists
DeletionsEnd ==
  /\ \A m \in Machines : []<>(srv.ma[m].del => ~srv.ma[m].exists \/ Paused(srv) \/ LeftBehind(m))
  /\ []<>(cascade => \/ ~srv.cl.exists \/ Paused(srv) \/ Orphaned
                     \/ \E m \in Machines : LeftBehind(m))
====================================================================================
