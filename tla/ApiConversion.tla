------------------------------- MODULE ApiConversion -------------------------------
(***************************************************************************)
(* The specs of the API types and their conversion between v1beta1, which  *)
(* is served, and v1beta2, which is stored.  A spec of either version is a *)
(* record of the fields that some check, conversion or getter reads;       *)
(* `others' stands for the fields that both versions copy as they are.     *)
(* Fields that only v1beta1 has are marked as unused there and left out.   *)
(***************************************************************************)
EXTENDS Integers, Sequences

CONSTANT Blocks  (* the address blocks that CIDRs stand for *)

(* Of two blocks that share an address one holds the other. *)
ASSUME BlocksAssumption ==
  /\ Blocks \subseteq (SUBSET Nat) \ {{}}
  /\ \A a, b \in Blocks : a \cap b = {} \/ a \subseteq b \/ b \subseteq a

(* Text that may be left out. *)
Text == STRING \cup {""}

(* An IP range: empty, text that is no CIDR, or a CIDR and its addresses.  *)
Cidr == [text : {"", "bad"}, addrs : {{}}] \cup [text : {"cidr"}, addrs : Blocks]
NoCidr == [text |-> "", addrs |-> {}]
Overlaps(a, b) == a.addrs \cap b.addrs # {}

OscRole == {"controlplane", "worker", "loadbalancer", "bastion", "nat", "service", "service.internal"}
OscReuse == [net : BOOLEAN, securityGroups : BOOLEAN]
OscDisable == {"internet", "loadbalancer"}

(* Numbers and protocols of the listener and of the health check.          *)
Numbers == {"loadbalancerport", "backendport", "port", "checkinterval", "timeout",
            "healthythreshold", "unhealthythreshold"}
Protocols == {"loadbalancerprotocol", "backendprotocol", "protocol"}

OscLoadBalancer ==
  [name : STRING, type : STRING, number : [Numbers -> Int], protocol : [Protocols -> STRING],
   subnetname : STRING, securitygroupname : STRING]

EmptyLoadBalancer ==
  [name |-> "", type |-> "", number |-> [n \in Numbers |-> 0], protocol |-> [p \in Protocols |-> ""],
   subnetname |-> "", securitygroupname |-> ""]

OscNet == [name : STRING, ipRange : Cidr, resourceId : Text]
EmptyNet == [name |-> "", ipRange |-> NoCidr, resourceId |-> ""]
OscSubnet ==
  [name : STRING, roles : SUBSET OscRole, ipSubnetRange : Cidr, subregionName : STRING, resourceId : Text]
OscNatService == [name : STRING, subregionName : STRING]
OscSecurityGroupRule ==
  [flow : STRING, ipProtocol : STRING, ipRange : Cidr, ipRanges : Seq(Cidr), from : Int, to : Int]
OscSecurityGroup ==
  [name : STRING, rules : Seq(OscSecurityGroupRule), resourceId : Text, tag : Text,
   roles : SUBSET OscRole, authoritative : BOOLEAN]
OscBastion == [enable : BOOLEAN, privateIps : SUBSET STRING, resourceId : Text]

OscClusterSpec ==
  [useExisting : OscReuse, disable : SUBSET OscDisable, loadBalancer : OscLoadBalancer, net : OscNet,
   subnets : Seq(OscSubnet), natServices : Seq(OscNatService), securityGroups : Seq(OscSecurityGroup),
   allowFromIPRanges : Seq(Cidr), bastion : OscBastion, others : STRING]

(* tinav<gen>.c<cpu>r<mem>p<perf>, an inference type, or something else.   *)
VmType == [family : {"", "tina", "inference", "other"}, gen : Nat, cpu : Nat, mem : Nat, perf : Nat]
OscRootDisk == [type : STRING, iops : Int, size : Int]
OscVolume == [device : STRING, type : STRING, iops : Int, size : Int]

OscMachineSpec ==
  [keypairName : STRING, vmType : VmType, subregionName : STRING, subregionNames : SUBSET STRING,
   subnetName : STRING, tags : SUBSET STRING, rootDisk : OscRootDisk, volumes : Seq(OscVolume),
   publicIpPool : Text, privateIps : SUBSET STRING, resourceId : Text, keyPair : Text, others : STRING]
--------------------------------------------------------------------------------
(* A conversion fills a zero value, so that a field without an assignment  *)
(* is lost: the ids of what a cluster reuses, and of a security group its  *)
(* roles, tag and authority as well.                                       *)
ConvertedSubnet(s) == [s EXCEPT !.resourceId = ""]
ConvertedSecurityGroup(g) ==
  [g EXCEPT !.resourceId = "", !.tag = "", !.roles = {}, !.authoritative = FALSE]

ClusterConvertTo(s) ==
  [s EXCEPT !.net.resourceId = "",
            !.subnets = [i \in DOMAIN @ |-> ConvertedSubnet(@[i])],
            !.securityGroups = [i \in DOMAIN @ |-> ConvertedSecurityGroup(@[i])],
            !.bastion.privateIps = {}, !.bastion.resourceId = ""]

ClusterConvertFrom(s) ==
  [s EXCEPT !.net.resourceId = "",
            !.subnets = [i \in DOMAIN @ |-> ConvertedSubnet(@[i])],
            !.securityGroups = [i \in DOMAIN @ |-> ConvertedSecurityGroup(@[i])],
            !.bastion.privateIps = {}, !.bastion.resourceId = ""]

MachineConvertTo(s) ==
  [s EXCEPT !.publicIpPool = "", !.privateIps = {}, !.resourceId = "", !.keyPair = ""]

(* Mutant: one more field is forgotten. *)
ForgetTags(s) ==
  [s EXCEPT !.publicIpPool = "", !.privateIps = {}, !.resourceId = "", !.keyPair = "", !.tags = {}]

MachineConvertFrom(s) ==
  [s EXCEPT !.publicIpPool = "", !.privateIps = {}, !.resourceId = "", !.keyPair = ""]
====================================================================================
