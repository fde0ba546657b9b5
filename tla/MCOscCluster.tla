------------------------------ MODULE MCOscCluster ------------------------------
(* Small instances of OscCluster for TLC: a public and a private subnet, and *)
(* one security group that serves both the load balancer and the bastion.    *)
EXTENDS OscCluster

MCRanges == {"pub", "prv"}

(* The private subnet is there from the start, or an edit of the spec adds   *)
(* or drops it.                                                              *)
FixedSpec == {{"pub", "prv"}}
GrowingSpec == {{"pub"}, {"pub", "prv"}}

MCReusedId == [x \in {"pub", "prv", "sg", "other"} |->
                 CASE x = "pub" -> 2 [] x = "prv" -> 3 [] x = "sg" -> 4 [] x = "other" -> 5]

Option(on) ==
  [internet |-> "internet" \in on, lb |-> "lb" \in on, bastion |-> "bastion" \in on,
   reuseNet |-> "reuseNet" \in on, reuseSG |-> "reuseSG" \in on,
   peering |-> "peering" \in on, naps |-> "naps" \in on]

(* Internet access and a load balancer, the default. *)
Standard == {Option({"internet", "lb"})}

(* A bastion; a reused net and its security groups; a net without internet *)
(* access that is peered with the management net and has access points.     *)
Bastions == Option({"internet", "bastion"})
Reusing == Option({"internet", "lb", "bastion", "reuseNet", "reuseSG"})
Airgap == Option({"peering", "naps"})
Varied == {Bastions, Reusing, Airgap}

ReusingNetOnly == {Option({"internet", "lb", "bastion", "reuseNet"})}

(* The default rules of getreconciliationRule. *)
MCMode == [k \in Reconcilers |-> IF k = "securityGroup" THEN "random" ELSE "onChange"]
=================================================================================
