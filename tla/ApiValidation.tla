------------------------------- MODULE ApiValidation -------------------------------
(***************************************************************************)
(* What the webhooks of v1beta1 accept.  A check returns "ok", "required"  *)
(* or "invalid"; the checks of a part are the set of their results.  Names *)
(* that a regular expression decides on are members of a constant.         *)
(***************************************************************************)
EXTENDS ApiConversion

CONSTANTS
  Subregions,         (* matched by isValidSubregion              *)
  LoadBalancerNames,  (* matched by isValidateLoadBalancerName    *)
  DeviceNames         (* matched by isValidDeviceName             *)

Check(holds) == IF holds THEN "ok" ELSE "invalid"
Required(given) == IF given THEN "ok" ELSE "required"
Optional(r) == IF r = "required" THEN "ok" ELSE r
Or(R) == IF "ok" \in R THEN "ok" ELSE "required"
Accepted(R) == R \subseteq {"ok"}

Range(v, lo, hi) == IF v = 0 THEN "required" ELSE Check(v \in lo .. hi)
OneOf(v, S) == IF v = "" THEN "required" ELSE Check(v \in S)
ValidateSubregion(v) == Optional(OneOf(v, Subregions))
ValidateCidr(c) == IF c.text = "" THEN "required" ELSE Check(c.text = "cidr")
--------------------------------------------------------------------------------
(* OscCluster. *)
Port == {"loadbalancerport", "backendport", "port"}
MinOf(n) == CASE n \in Port -> 1 [] n = "checkinterval" -> 5 [] n = "timeout" -> 2 [] OTHER -> 1
MaxOf(n) == CASE n \in Port -> 65535 [] n = "checkinterval" -> 600 [] n = "timeout" -> 60 [] OTHER -> 10

ValidateLoadBalancerName(name) == OneOf(name, LoadBalancerNames)
ValidateLoadBalancerType(type) == Optional(OneOf(type, {"internet-facing", "internal"}))
ValidateProtocol(p) == OneOf(p, {"HTTP", "TCP"})

ValidateLoadBalancer(lb, disabled) ==
  IF disabled THEN {Check(lb = EmptyLoadBalancer)}
  ELSE {ValidateLoadBalancerName(lb.name), ValidateLoadBalancerType(lb.type)}
       \cup {Optional(Range(lb.number[n], MinOf(n), MaxOf(n))) : n \in Numbers}
       \cup {Optional(ValidateProtocol(lb.protocol[p])) : p \in Protocols}

ValidateNet(n, reuse) ==
  IF n = EmptyNet THEN {}
  ELSE {ValidateCidr(n.ipRange), Required(reuse.net => n.resourceId # "")}

(* Mutant: each subnet is compared with the next one only. *)
CompareNeighbours(subnets, net) ==
  LET given == SelectSeq(subnets, LAMBDA s : s.ipSubnetRange.text = "cidr")
      addrs(i) == given[i].ipSubnetRange
  IN {Check(\A i \in 1 .. Len(given) : Overlaps(addrs(i), net.ipRange)),
      Check(\A i \in 1 .. Len(given) - 1 : ~Overlaps(addrs(i), addrs(i + 1)))}

(* Subnets are compared only when the range of the net is given. *)
ValidateSubnetCidr(subnets, net) ==
  LET ranges == [i \in DOMAIN subnets |-> subnets[i].ipSubnetRange]
      given == {i \in DOMAIN ranges : ranges[i].text = "cidr"}
  IN {Check(\A i \in DOMAIN ranges : ranges[i].text # "bad")}
     \cup IF net.ipRange.text # "cidr" THEN {}
          ELSE {Check(\A i \in given : Overlaps(ranges[i], net.ipRange)),
                Check(\A i, j \in given : i # j => ~Overlaps(ranges[i], ranges[j]))}

ValidateSubnets(subnets, net, reuse) ==
  LET one(s) == {Required(s.ipSubnetRange.text # ""), ValidateSubregion(s.subregionName),
                 Required(reuse.net => s.resourceId # "" /\ s.roles # {})}
  IN ValidateSubnetCidr(subnets, net) \cup UNION {one(subnets[i]) : i \in DOMAIN subnets}

ValidateNatServices(nats, reuse) ==
  IF reuse.net THEN {Check(nats = <<>>)}
  ELSE {ValidateSubregion(nats[i].subregionName) : i \in DOMAIN nats}

ValidateFlow(f) == OneOf(f, {"Inbound", "Outbound"})
ValidateIpProtocol(p) == OneOf(p, {"tcp", "udp", "icmp", "-1"})

ValidateSecurityGroupRule(r) ==
  {ValidateFlow(r.flow), ValidateIpProtocol(r.ipProtocol),
   Or({Required(r.ipRange.text # ""), Required(r.ipRanges # <<>>)}),
   Range(r.from, 1, 65535), Range(r.to, 1, 65535), Check(r.to >= r.from),
   Optional(ValidateCidr(r.ipRange)), Check(r.ipRange.text # "" => r.ipRanges = <<>>)}
  \cup {ValidateCidr(r.ipRanges[i]) : i \in DOMAIN r.ipRanges}

ValidateSecurityGroups(groups, reuse) ==
  LET one(g) ==
        IF reuse.securityGroups
        THEN {Required(g.resourceId # ""), Required(g.roles # {}), Check(g.rules = <<>>)}
        ELSE {Or({Required(g.name # ""), Required(g.roles # {})})}
             \cup UNION {ValidateSecurityGroupRule(g.rules[i]) : i \in DOMAIN g.rules}
  IN UNION {one(groups[i]) : i \in DOMAIN groups}

ValidateAllowFromIPs(ranges) == {ValidateCidr(ranges[i]) : i \in DOMAIN ranges}

ValidateOscClusterSpec(s) ==
  UNION {ValidateLoadBalancer(s.loadBalancer, "loadbalancer" \in s.disable),
         ValidateNet(s.net, s.useExisting),
         ValidateSubnets(s.subnets, s.net, s.useExisting),
         ValidateNatServices(s.natServices, s.useExisting),
         ValidateSecurityGroups(s.securityGroups, s.useExisting),
         ValidateAllowFromIPs(s.allowFromIPRanges)}
--------------------------------------------------------------------------------
(* OscMachine. *)
ValidateVmType(t) ==
  CASE t.family = "" -> "required"
    [] t.family = "tina" -> Check(t.gen \in 3 .. 99 /\ t.cpu >= 1 /\ t.mem >= 1 /\ t.perf \in 1 .. 3)
    [] OTHER -> Check(t.family = "inference")

ValidateIops(iops, size) ==
  Check(iops = 0 \/ (iops \in 0 .. 13000 /\ (size > 0 => iops \div size <= 300)))

ValidateSize(size) == Optional(Range(size, 1, 14900))
ValidateVolumeType(type) == Optional(OneOf(type, {"standard", "gp2", "io1"}))
ValidateDisk(d) == {ValidateIops(d.iops, d.size), ValidateSize(d.size), ValidateVolumeType(d.type)}

ValidateDeviceName(name) == OneOf(name, DeviceNames)
ValidateVolume(v) == {ValidateDeviceName(v.device)} \cup ValidateDisk(v)

ValidateOscMachineSpec(s) ==
  UNION {{Required(s.keypairName # ""), ValidateVmType(s.vmType), ValidateSubregion(s.subregionName)},
         {ValidateSubregion(r) : r \in s.subregionNames},
         UNION {ValidateVolume(s.volumes[i]) : i \in DOMAIN s.volumes},
         ValidateDisk(s.rootDisk)}
====================================================================================
