------------------------------ MODULE MCOscMachine ------------------------------
(* Instances of OscMachine for TLC. *)
EXTENDS OscMachine

(* The rule of the control plane node rolls a die; workers have the default. *)
MCNodeMode == [m \in Machines |-> IF m \in ControlPlane THEN "random" ELSE "onChange"]

(* One node of the control plane names its subregion, the other none. *)
MCFailureDomain == [m \in Machines |-> IF m = "cp" THEN "a" ELSE ""]
=================================================================================
