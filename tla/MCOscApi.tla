--------------------------------- MODULE MCOscApi ---------------------------------
(* Specs that clients of the API send: each field has a few values, good ones *)
(* and one that some check refuses, and edits mix the fields of the samples.  *)
EXTENDS OscApi

MCBlocks == {1 .. 16, 1 .. 8, {1}, {2}, {3, 4}, {9}}
Block(S) == [text |-> "cidr", addrs |-> S]
Bad == [text |-> "bad", addrs |-> {}]

Subnet(roles, range, az, id) ==
  [name |-> "", roles |-> roles, ipSubnetRange |-> range, subregionName |-> az, resourceId |-> id]
Rule(from, to, range, ranges) ==
  [flow |-> "Inbound", ipProtocol |-> "tcp", ipRange |-> range, ipRanges |-> ranges, from |-> from, to |-> to]
Group(name, rules, id, roles) ==
  [name |-> name, rules |-> rules, resourceId |-> id, tag |-> "", roles |-> roles, authoritative |-> roles # {}]
Balancer(name, type, n, v) ==
  [EmptyLoadBalancer EXCEPT !.name = name, !.type = type, !.number[n] = v]

Plain ==
  [useExisting |-> [net |-> FALSE, securityGroups |-> FALSE], disable |-> {},
   loadBalancer |-> Balancer("lb1", "", "timeout", 60),
   net |-> [EmptyNet EXCEPT !.ipRange = Block(1 .. 8)],
   subnets |-> <<Subnet({"nat"}, Block({1}), "a", ""), Subnet({"worker"}, Block({2}), "a", ""),
                 Subnet({"controlplane"}, Block({3, 4}), "a", "")>>,
   natServices |-> <<[name |-> "", subregionName |-> "a"]>>,
   securityGroups |-> <<Group("node", <<Rule(22, 22, Block({1}), <<>>)>>, "", {"worker"})>>,
   allowFromIPRanges |-> <<>>, bastion |-> [enable |-> FALSE, privateIps |-> {}, resourceId |-> ""],
   others |-> "x"]

(* A cluster that reuses its net and its security groups. *)
Reusing ==
  [Plain EXCEPT !.useExisting = [net |-> TRUE, securityGroups |-> TRUE],
     !.net.resourceId = "vpc",
     !.subnets = <<Subnet({"worker"}, Block({2}), "", "subnet")>>,
     !.natServices = <<>>,
     !.securityGroups = <<Group("", <<>>, "sg", {"worker"})>>]

(* Without a load balancer, on the default net. *)
Disabled ==
  [Plain EXCEPT !.disable = {"loadbalancer"}, !.loadBalancer = EmptyLoadBalancer, !.net = EmptyNet,
     !.subnets = <<>>, !.allowFromIPRanges = <<Block({9})>>]

(* The first and the third subnet overlap. *)
Overlapping ==
  [Plain EXCEPT !.loadBalancer = Balancer("lb2", "internal", "port", 65535),
     !.subnets = <<Subnet({"nat"}, Block({1}), "a", ""), Subnet({"worker"}, Block({2}), "a", ""),
                   Subnet({"controlplane"}, Block({1}), "b", "")>>]

(* The subnet holds the net. *)
Wide == [Plain EXCEPT !.subnets = <<Subnet({"worker"}, Block(1 .. 16), "a", "")>>]

(* Refused field by field. *)
Refused ==
  [Plain EXCEPT !.loadBalancer = Balancer("lb1", "", "checkinterval", 4),
     !.net = [EmptyNet EXCEPT !.ipRange = Bad],
     !.natServices = <<[name |-> "", subregionName |-> "nowhere"]>>,
     !.securityGroups = <<Group("node", <<Rule(23, 22, NoCidr, <<Bad>>)>>, "", {})>>]

Tina(cpu, mem) == [family |-> "tina", gen |-> 7, cpu |-> cpu, mem |-> mem, perf |-> 1]
Volume(device, iops, size) == [device |-> device, type |-> "io1", iops |-> iops, size |-> size]

Worker ==
  [keypairName |-> "key", vmType |-> Tina(4, 8), subregionName |-> "a", subregionNames |-> {},
   subnetName |-> "", tags |-> {"t"}, rootDisk |-> [type |-> "io1", iops |-> 3000, size |-> 10],
   volumes |-> <<Volume("/dev/xvdb", 0, 1)>>, publicIpPool |-> "pool", privateIps |-> {"ip"},
   resourceId |-> "", keyPair |-> "old", others |-> "x"]
Bigger == [Worker EXCEPT !.vmType = Tina(8, 16), !.subregionName = "b", !.subnetName = "s", !.tags = {"u"}]
Inference ==
  [Worker EXCEPT !.vmType = [family |-> "inference", gen |-> 0, cpu |-> 0, mem |-> 0, perf |-> 0],
     !.subregionName = "", !.tags = {}, !.subnetName = "s2"]
ZeroCpu == [Worker EXCEPT !.vmType = Tina(0, 8)]
RefusedMachine ==
  [Worker EXCEPT !.keypairName = "", !.subregionName = "nowhere",
     !.rootDisk = [type |-> "io1", iops |-> 3010, size |-> 10], !.volumes = <<Volume("sdb", 13001, 14901)>>]

MCSamples == [cluster |-> {Plain, Reusing, Disabled, Overlapping, Wide, Refused},
              machine |-> {Worker, Bigger, Inference, ZeroCpu, RefusedMachine}]
====================================================================================
