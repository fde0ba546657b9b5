------------------------------ MODULE MachineContract ------------------------------
(***************************************************************************)
(* What an infrastructure machine promises to Cluster API, whatever the    *)
(* provider does meanwhile: it gets one VM and one provider ID, it is      *)
(* ready only when it has its VM and stays so, its VM goes only once its   *)
(* deletion is asked for, and its object goes only once its VM has.        *)
(***************************************************************************)
EXTENDS Naturals

CONSTANT Machines

VARIABLES
  life,        (* "absent", "pending", "ready", "deleting", "gone", or    *)
               (* "dropped": deleted before the provider had a hold on it *)
  providerID,  (* 0 while it is not set                                   *)
  vm           (* "none", "live" or "dead"                                *)

vars == <<life, providerID, vm>>

Init ==
  /\ life = [m \in Machines |-> "absent"]
  /\ providerID = [m \in Machines |-> 0]
  /\ vm = [m \in Machines |-> "none"]

Lives(m, from, to) ==
  /\ life[m] \in from
  /\ life' = [life EXCEPT ![m] = to]
  /\ UNCHANGED <<providerID, vm>>

Create(m) == Lives(m, {"absent"}, "pending")
BecomeReady(m) == vm[m] = "live" /\ Lives(m, {"pending"}, "ready")
Delete(m) == \E to \in {"deleting", "dropped"} : Lives(m, {"pending", "ready"}, to)
Release(m) == vm[m] # "live" /\ Lives(m, {"deleting"}, "gone")

Name(m) ==
  /\ providerID[m] = 0 /\ life[m] \in {"pending", "ready", "deleting"}
  /\ providerID'[m] \in Nat \ {0}
  /\ providerID' = [providerID EXCEPT ![m] = providerID'[m]]
  /\ UNCHANGED <<life, vm>>

VmGoes(m, from, to) ==
  /\ vm[m] = from
  /\ vm' = [vm EXCEPT ![m] = to]
  /\ UNCHANGED <<life, providerID>>

Provision(m) == life[m] \notin {"absent", "gone"} /\ VmGoes(m, "none", "live")
Terminate(m) == life[m] = "deleting" /\ VmGoes(m, "live", "dead")
Vanish(m) == VmGoes(m, "dead", "none")

Next ==
  \E m \in Machines :
    \/ Create(m) \/ BecomeReady(m) \/ Delete(m) \/ Release(m) \/ Name(m)
    \/ Provision(m) \/ Terminate(m) \/ Vanish(m)

Spec == Init /\ [][Next]_vars
====================================================================================
