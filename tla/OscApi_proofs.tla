------------------------------- MODULE OscApi_proofs -------------------------------
(***************************************************************************)
(* What the webhooks keep of an object, whoever writes it and through      *)
(* whichever version: what the conversions do to a spec, what a spec that  *)
(* is accepted satisfies, and the invariant that both keep.                *)
(***************************************************************************)
EXTENDS OscApi, TLAPS

(* A conversion keeps types, lengths and ranges. *)
LEMMA ConvertedSubnets ==
  ASSUME NEW q \in Seq(OscSubnet)
  PROVE  LET c == [i \in DOMAIN q |-> ConvertedSubnet(q[i])]
         IN  /\ c \in Seq(OscSubnet) /\ DOMAIN c = DOMAIN q
             /\ \A i \in DOMAIN q : /\ c[i].resourceId = "" /\ c[i].roles = q[i].roles
                                    /\ c[i].ipSubnetRange = q[i].ipSubnetRange
  <1>1. \A s \in OscSubnet : /\ ConvertedSubnet(s) \in OscSubnet /\ ConvertedSubnet(s).resourceId = ""
                             /\ ConvertedSubnet(s).roles = s.roles
                             /\ ConvertedSubnet(s).ipSubnetRange = s.ipSubnetRange
    BY DEF ConvertedSubnet, OscSubnet, Text
  <1>2. Len(q) \in Nat /\ DOMAIN q = 1 .. Len(q) /\ \A i \in DOMAIN q : q[i] \in OscSubnet OBVIOUS
  <1>. DEFINE c == [i \in DOMAIN q |-> ConvertedSubnet(q[i])]
  <1>3. c \in [1 .. Len(q) -> OscSubnet] BY <1>1, <1>2
  <1>4. c \in Seq(OscSubnet) BY <1>2, <1>3
  <1>. QED BY <1>1, <1>2, <1>4

LEMMA ConvertedGroups ==
  ASSUME NEW q \in Seq(OscSecurityGroup)
  PROVE  LET c == [i \in DOMAIN q |-> ConvertedSecurityGroup(q[i])]
         IN  /\ c \in Seq(OscSecurityGroup) /\ DOMAIN c = DOMAIN q
             /\ \A i \in DOMAIN q : /\ c[i].resourceId = "" /\ c[i].tag = "" /\ c[i].roles = {}
                                    /\ c[i].authoritative = FALSE
  <1>1. \A s \in OscSecurityGroup :
          /\ ConvertedSecurityGroup(s) \in OscSecurityGroup /\ ConvertedSecurityGroup(s).resourceId = ""
          /\ ConvertedSecurityGroup(s).tag = "" /\ ConvertedSecurityGroup(s).roles = {}
          /\ ConvertedSecurityGroup(s).authoritative = FALSE
    BY DEF ConvertedSecurityGroup, OscSecurityGroup, Text
  <1>2. Len(q) \in Nat /\ DOMAIN q = 1 .. Len(q) /\ \A i \in DOMAIN q : q[i] \in OscSecurityGroup OBVIOUS
  <1>. DEFINE c == [i \in DOMAIN q |-> ConvertedSecurityGroup(q[i])]
  <1>3. c \in [1 .. Len(q) -> OscSecurityGroup] BY <1>1, <1>2
  <1>4. c \in Seq(OscSecurityGroup) BY <1>2, <1>3
  <1>. QED BY <1>1, <1>2, <1>4

(* The fields that a conversion does not fill. *)
Bare(s) ==
  /\ s.net.resourceId = "" /\ s.bastion.privateIps = {} /\ s.bastion.resourceId = ""
  /\ \A i \in DOMAIN s.subnets : s.subnets[i].resourceId = ""
  /\ \A i \in DOMAIN s.securityGroups :
       LET g == s.securityGroups[i]
       IN g.resourceId = "" /\ g.tag = "" /\ g.roles = {} /\ g.authoritative = FALSE

LEMMA ClusterConverted ==
  ASSUME NEW s \in OscClusterSpec
  PROVE  LET c == ClusterConvertTo(s)
         IN  /\ c \in OscClusterSpec /\ Bare(c)
             /\ c.loadBalancer = s.loadBalancer /\ c.disable = s.disable
             /\ c.net.ipRange = s.net.ipRange /\ DOMAIN c.subnets = DOMAIN s.subnets
             /\ \A i \in DOMAIN s.subnets : c.subnets[i].ipSubnetRange = s.subnets[i].ipSubnetRange
  <1>. DEFINE net == [s.net EXCEPT !.resourceId = ""]
              subnets == [i \in DOMAIN s.subnets |-> ConvertedSubnet(s.subnets[i])]
              groups == [i \in DOMAIN s.securityGroups |-> ConvertedSecurityGroup(s.securityGroups[i])]
              bastion == [s.bastion EXCEPT !.privateIps = {}, !.resourceId = ""]
              c == [s EXCEPT !.net = net, !.subnets = subnets, !.securityGroups = groups, !.bastion = bastion]
  <1>1. ClusterConvertTo(s) = c BY DEF ClusterConvertTo, OscClusterSpec, OscBastion
  <1>2. /\ s.net \in OscNet /\ s.bastion \in OscBastion /\ s.subnets \in Seq(OscSubnet)
        /\ s.securityGroups \in Seq(OscSecurityGroup)
    BY DEF OscClusterSpec
  <1>3. net \in OscNet /\ net.resourceId = "" /\ net.ipRange = s.net.ipRange BY <1>2 DEF OscNet, Text
  <1>4. bastion \in OscBastion /\ bastion.resourceId = "" /\ bastion.privateIps = {} BY <1>2 DEF OscBastion, Text
  <1>5. /\ subnets \in Seq(OscSubnet) /\ DOMAIN subnets = DOMAIN s.subnets
        /\ \A i \in DOMAIN s.subnets : /\ subnets[i].resourceId = ""
                                       /\ subnets[i].ipSubnetRange = s.subnets[i].ipSubnetRange
    BY <1>2, ConvertedSubnets
  <1>6. /\ groups \in Seq(OscSecurityGroup) /\ DOMAIN groups = DOMAIN s.securityGroups
        /\ \A i \in DOMAIN groups : /\ groups[i].resourceId = "" /\ groups[i].tag = ""
                                    /\ groups[i].roles = {} /\ groups[i].authoritative = FALSE
    BY <1>2, ConvertedGroups
  <1>. HIDE DEF net, subnets, groups, bastion
  <1>7. /\ c.net = net /\ c.subnets = subnets /\ c.securityGroups = groups /\ c.bastion = bastion
        /\ c.loadBalancer = s.loadBalancer /\ c.disable = s.disable
    BY DEF OscClusterSpec
  <1>8. c \in OscClusterSpec BY <1>3, <1>4, <1>5, <1>6 DEF OscClusterSpec
  <1>. HIDE DEF c
  <1>9. Bare(c) BY <1>3, <1>4, <1>5, <1>6, <1>7 DEF Bare
  <1>. QED BY <1>1, <1>3, <1>5, <1>7, <1>8, <1>9

LEMMA BareIsStable ==
  ASSUME NEW s \in OscClusterSpec, Bare(s)
  PROVE  ClusterConvertTo(s) = s
  <1>1. /\ s.net \in OscNet /\ s.bastion \in OscBastion /\ s.subnets \in Seq(OscSubnet)
        /\ s.securityGroups \in Seq(OscSecurityGroup)
    BY DEF OscClusterSpec
  <1>2. [s.net EXCEPT !.resourceId = ""] = s.net BY <1>1 DEF OscNet, Bare
  <1>3. [s.bastion EXCEPT !.privateIps = {}, !.resourceId = ""] = s.bastion BY <1>1 DEF OscBastion, Bare
  <1>4. [i \in DOMAIN s.subnets |-> ConvertedSubnet(s.subnets[i])] = s.subnets
    <2>1. \A i \in DOMAIN s.subnets : ConvertedSubnet(s.subnets[i]) = s.subnets[i]
      <3>1. \A i \in DOMAIN s.subnets : s.subnets[i] \in OscSubnet BY <1>1
      <3>. QED BY <3>1 DEF ConvertedSubnet, OscSubnet, Text, Bare
    <2>. QED BY <1>1, <2>1
  <1>5. [i \in DOMAIN s.securityGroups |-> ConvertedSecurityGroup(s.securityGroups[i])] = s.securityGroups
    <2>1. \A i \in DOMAIN s.securityGroups : ConvertedSecurityGroup(s.securityGroups[i]) = s.securityGroups[i]
      <3>1. \A i \in DOMAIN s.securityGroups : s.securityGroups[i] \in OscSecurityGroup BY <1>1
      <3>. QED BY <3>1 DEF ConvertedSecurityGroup, OscSecurityGroup, Text, Bare
    <2>. QED BY <1>1, <2>1
  <1>. QED BY <1>2, <1>3, <1>4, <1>5 DEF ClusterConvertTo, OscClusterSpec, OscBastion

MachineBare(s) == s.publicIpPool = "" /\ s.privateIps = {} /\ s.resourceId = "" /\ s.keyPair = ""

LEMMA MachineConverted ==
  ASSUME NEW s \in OscMachineSpec
  PROVE  LET c == MachineConvertTo(s)
         IN  /\ c \in OscMachineSpec /\ MachineBare(c)
             /\ c.vmType = s.vmType /\ c.keypairName = s.keypairName /\ c.rootDisk = s.rootDisk
             /\ c.subregionName = s.subregionName /\ c.subnetName = s.subnetName /\ c.tags = s.tags
             /\ MachineBare(s) => c = s
  BY DEF MachineConvertTo, MachineBare, OscMachineSpec, Text

(* The conversions of the two directions lose the same fields. *)
LEMMA SameConversions ==
  ASSUME NEW s
  PROVE  ClusterConvertFrom(s) = ClusterConvertTo(s) /\ MachineConvertFrom(s) = MachineConvertTo(s)
  BY DEF ClusterConvertFrom, ClusterConvertTo, MachineConvertFrom, MachineConvertTo

(* A client replaces a field by a value of its type. *)
LEMMA MachineEdit ==
  ASSUME NEW s \in OscMachineSpec, NEW t \in OscMachineSpec, NEW f \in DOMAIN s
  PROVE  [s EXCEPT ![f] = t[f]] \in OscMachineSpec
  <1>1. f \in {"keypairName", "vmType", "subregionName", "subregionNames", "subnetName", "tags", "rootDisk",
               "volumes", "publicIpPool", "privateIps", "resourceId", "keyPair", "others"}
    BY DEF OscMachineSpec
  <1>. QED BY <1>1 DEF OscMachineSpec

LEMMA ClusterEdit ==
  ASSUME NEW s \in OscClusterSpec, NEW t \in OscClusterSpec, NEW f \in DOMAIN s
  PROVE  [s EXCEPT ![f] = t[f]] \in OscClusterSpec
  <1>1. f \in {"useExisting", "disable", "loadBalancer", "net", "subnets", "natServices", "securityGroups",
               "allowFromIPRanges", "bastion", "others"}
    BY DEF OscClusterSpec
  <1>. QED BY <1>1 DEF OscClusterSpec
--------------------------------------------------------------------------------
(* What CreatedClusterFits asks of a spec. *)
Fits(s) ==
  /\ \A n \in Numbers : SetDefaultValue(s.loadBalancer).number[n] \in MinOf(n) .. MaxOf(n)
  /\ s.net.ipRange.text = "cidr" =>
       \A i, j \in DOMAIN s.subnets :
         /\ \/ s.subnets[i].ipSubnetRange.addrs \subseteq s.net.ipRange.addrs
            \/ Wider(s.subnets[i].ipSubnetRange, s.net.ipRange)
         /\ i # j => s.subnets[i].ipSubnetRange.addrs \cap s.subnets[j].ipSubnetRange.addrs = {}

LEMMA NumberFits ==
  ASSUME NEW lb \in OscLoadBalancer, NEW n \in Numbers,
         lb.number[n] = 0 \/ lb.number[n] \in MinOf(n) .. MaxOf(n)
  PROVE  SetDefaultValue(lb).number[n] \in MinOf(n) .. MaxOf(n)
  <1>. DEFINE default(k) ==
                CASE k \in Port -> 6443 [] k = "checkinterval" -> 10 [] k = "timeout" -> 10
                  [] k = "healthythreshold" -> 2 [] k = "unhealthythreshold" -> 3
  <1>1. default(n) \in MinOf(n) .. MaxOf(n) BY DEF Numbers, Port, MinOf, MaxOf
  <1>2. SetDefaultValue(lb).number[n] = IF lb.number[n] = 0 THEN default(n) ELSE lb.number[n]
    BY DEF SetDefaultValue, OscLoadBalancer
  <1>. QED BY <1>1, <1>2

LEMMA AcceptedNumbers ==
  ASSUME NEW s \in OscClusterSpec, ClusterCreate(s), NEW n \in Numbers
  PROVE  s.loadBalancer.number[n] = 0 \/ s.loadBalancer.number[n] \in MinOf(n) .. MaxOf(n)
  <1>1. Accepted(ValidateLoadBalancer(s.loadBalancer, "loadbalancer" \in s.disable))
    BY DEF ClusterCreate, Accepted, ValidateOscClusterSpec
  <1>2. CASE "loadbalancer" \in s.disable
    <2>1. s.loadBalancer = EmptyLoadBalancer BY <1>1, <1>2 DEF ValidateLoadBalancer, Accepted, Check
    <2>2. EmptyLoadBalancer.number = [k \in Numbers |-> 0] BY DEF EmptyLoadBalancer
    <2>. QED BY <2>1, <2>2
  <1>3. CASE "loadbalancer" \notin s.disable
    <2>1. Optional(Range(s.loadBalancer.number[n], MinOf(n), MaxOf(n))) = "ok"
      BY <1>1, <1>3 DEF ValidateLoadBalancer, Accepted
    <2>2. CASE s.loadBalancer.number[n] # 0
      <3>1. Range(s.loadBalancer.number[n], MinOf(n), MaxOf(n))
              = Check(s.loadBalancer.number[n] \in MinOf(n) .. MaxOf(n))
        BY <2>2 DEF Range
      <3>. QED BY <2>1, <3>1, Zenon DEF Optional, Check
    <2>. QED BY <2>2
  <1>. QED BY <1>2, <1>3

LEMMA AcceptedSubnets ==
  ASSUME NEW s \in OscClusterSpec, ClusterCreate(s), s.net.ipRange.text = "cidr",
         NEW i \in DOMAIN s.subnets, NEW j \in DOMAIN s.subnets
  PROVE  /\ \/ s.subnets[i].ipSubnetRange.addrs \subseteq s.net.ipRange.addrs
            \/ Wider(s.subnets[i].ipSubnetRange, s.net.ipRange)
         /\ i # j => s.subnets[i].ipSubnetRange.addrs \cap s.subnets[j].ipSubnetRange.addrs = {}
  <1>. DEFINE ranges == [k \in DOMAIN s.subnets |-> s.subnets[k].ipSubnetRange]
              given == {k \in DOMAIN ranges : ranges[k].text = "cidr"}
              one(x) == {Required(x.ipSubnetRange.text # ""), ValidateSubregion(x.subregionName),
                         Required(s.useExisting.net => x.resourceId # "" /\ x.roles # {})}
  <1>1. Accepted(ValidateSubnets(s.subnets, s.net, s.useExisting))
    BY DEF ClusterCreate, Accepted, ValidateOscClusterSpec
  <1>2. /\ Accepted(ValidateSubnetCidr(s.subnets, s.net))
        /\ \A k \in DOMAIN s.subnets : Required(s.subnets[k].ipSubnetRange.text # "") = "ok"
    <2>1. ValidateSubnets(s.subnets, s.net, s.useExisting) =
            ValidateSubnetCidr(s.subnets, s.net) \cup UNION {one(s.subnets[k]) : k \in DOMAIN s.subnets}
      BY DEF ValidateSubnets
    <2>2. \A k \in DOMAIN s.subnets : Required(s.subnets[k].ipSubnetRange.text # "") \in one(s.subnets[k])
      OBVIOUS
    <2>. HIDE DEF one
    <2>. QED BY <1>1, <2>1, <2>2 DEF Accepted
  <1>3. \A k \in DOMAIN s.subnets : s.subnets[k].ipSubnetRange.text # "" BY <1>2 DEF Required
  <1>4. /\ Check(\A k \in DOMAIN ranges : ranges[k].text # "bad") = "ok"
        /\ Check(\A k \in given : Overlaps(ranges[k], s.net.ipRange)) = "ok"
        /\ Check(\A k, l \in given : k # l => ~Overlaps(ranges[k], ranges[l])) = "ok"
    BY <1>2 DEF ValidateSubnetCidr, Accepted
  <1>5. /\ \A k \in DOMAIN ranges : ranges[k].text # "bad"
        /\ \A k \in given : Overlaps(ranges[k], s.net.ipRange)
        /\ \A k, l \in given : k # l => ~Overlaps(ranges[k], ranges[l])
    BY <1>4 DEF Check
  <1>6. \A k \in DOMAIN s.subnets : s.subnets[k].ipSubnetRange \in Cidr
    <2>1. s.subnets \in Seq(OscSubnet) BY DEF OscClusterSpec
    <2>2. \A k \in DOMAIN s.subnets : s.subnets[k] \in OscSubnet BY <2>1
    <2>. QED BY <2>2 DEF OscSubnet
  <1>7. i \in given /\ j \in given BY <1>3, <1>5, <1>6 DEF Cidr
  <1>8. s.net.ipRange \in Cidr BY DEF OscClusterSpec, OscNet
  <1>9. s.net.ipRange.addrs \in Blocks /\ ranges[i].addrs \in Blocks
    BY <1>6, <1>7, <1>8 DEF Cidr
  <1>10. ranges[i].addrs \cap s.net.ipRange.addrs # {} /\ ranges[i] = s.subnets[i].ipSubnetRange
    BY <1>5, <1>7 DEF Overlaps
  <1>11. ranges[i].addrs \subseteq s.net.ipRange.addrs \/ Wider(s.subnets[i].ipSubnetRange, s.net.ipRange)
    BY <1>9, <1>10, BlocksAssumption DEF Wider
  <1>12. i # j => s.subnets[i].ipSubnetRange.addrs \cap s.subnets[j].ipSubnetRange.addrs = {}
    BY <1>5, <1>7 DEF Overlaps
  <1>. QED BY <1>10, <1>11, <1>12

LEMMA AcceptedFits ==
  ASSUME NEW s \in OscClusterSpec, ClusterCreate(s)
  PROVE  Fits(s)
  <1>1. s.loadBalancer \in OscLoadBalancer BY DEF OscClusterSpec
  <1>. QED BY <1>1, AcceptedNumbers, NumberFits, AcceptedSubnets DEF Fits

LEMMA ConvertedFits ==
  ASSUME NEW s \in OscClusterSpec
  PROVE  Fits(ClusterConvertTo(s)) <=> Fits(s)
  BY ClusterConverted DEF Fits
--------------------------------------------------------------------------------
Specs == IF OfClusters THEN OscClusterSpec ELSE OscMachineSpec

(* Only machine templates have a controller here, which copies templates   *)
(* that were accepted.                                                     *)
TemplatesAccepted ==
  /\ kind # "OscMachineTemplate" => tat = "idle"
  /\ kind = "OscMachineTemplate" => \A x \in {stored, tcache} : x.exists => MachineCreate(x.spec)

(* What went through v1beta1 has lost what v1beta1 does not carry. *)
StoredBare ==
  stored.exists /\ via = "v1beta1" => /\ OfClusters => Bare(stored.spec)
                                      /\ kind = "OscMachine" => MachineBare(stored.spec)

(* A machine leaves its placement at most once, for none. *)
Follows(t, s) ==
  /\ s.vmType = t.vmType /\ s.keypairName = t.keypairName /\ s.rootDisk = t.rootDisk
  /\ t.subregionName \in {"", s.subregionName} /\ t.subnetName \in {"", s.subnetName} /\ t.tags \in {{}, s.tags}

LatestFollows == kind = "OscMachine" /\ stored.exists => \A s \in past : Follows(stored.spec, s)

CreatedFits ==
  /\ stored.exists => writes >= 1
  /\ stored.exists /\ kind = "OscCluster" /\ writes = 1 => Fits(stored.spec)

ApiInv ==
  TypeOK /\ TemplatesAccepted /\ StoredBare /\ MachineIdentityKept /\ LatestFollows /\ CreatedFits
--------------------------------------------------------------------------------
LEMMA ConversionTypes ==
  ASSUME kind \in Kind, NEW v \in Version, NEW s \in Specs
  PROVE  Spoke(s) \in Specs /\ View(v, s) \in Specs /\ Storage(v, s) \in Specs /\ Reviewed(v, s) \in Specs
  <1>1. CASE OfClusters
    <2>1. Spoke(s) = ClusterConvertTo(s) /\ Hub(s) = ClusterConvertTo(s) BY <1>1, SameConversions DEF Spoke, Hub, OfClusters
    <2>2. ClusterConvertTo(s) \in Specs BY <1>1, ClusterConverted DEF Specs
    <2>. QED BY <2>1, <2>2 DEF View, Storage, Reviewed
  <1>2. CASE ~OfClusters /\ kind = "OscMachine"
    <2>1. Spoke(s) = MachineConvertTo(s) /\ Hub(s) = MachineConvertTo(s) BY <1>2, SameConversions DEF Spoke, Hub
    <2>2. MachineConvertTo(s) \in Specs BY <1>2, MachineConverted DEF Specs
    <2>. QED BY <2>1, <2>2 DEF View, Storage, Reviewed
  <1>3. CASE ~OfClusters /\ kind # "OscMachine"
    <2>1. Spoke(s) = s /\ Hub(s) = s BY <1>3 DEF Spoke, Hub
    <2>. QED BY <2>1 DEF View, Storage, Reviewed
  <1>. QED BY <1>1, <1>2, <1>3

LEMMA SampleTypes == kind \in Kind => SamplesOf # {} /\ SamplesOf \subseteq Specs
  <1>1. /\ Samples.cluster \subseteq OscClusterSpec /\ Samples.cluster # {}
        /\ Samples.machine \subseteq OscMachineSpec /\ Samples.machine # {}
    BY ApiAssumption
  <1>. QED BY <1>1 DEF SamplesOf, Specs

LEMMA AbsentType == kind \in Kind => Absent \in Object(Specs) /\ ~Absent.exists
  <1>. SUFFICES ASSUME kind \in Kind PROVE Absent \in Object(Specs) /\ ~Absent.exists OBVIOUS
  <1>. DEFINE c == CHOOSE s \in SamplesOf : TRUE
  <1>1. c \in Specs BY SampleTypes
  <1>. HIDE DEF c
  <1>2. Absent = [exists |-> FALSE, spec |-> c, del |-> FALSE, fin |-> FALSE, capacity |-> NoCapacity]
    BY DEF Absent, c
  <1>. QED BY <1>1, <1>2 DEF Object

LEMMA TypeAgain ==
  TypeOK <=> /\ kind \in Kind /\ via \in Version
             /\ stored \in Object(Specs) /\ tcache \in Object(Specs)
             /\ told \in Object(Specs) /\ tmem \in Object(Specs)
             /\ tat \in {"idle", "patch", "status"}
             /\ writes \in 0 .. MaxWrites /\ faults \in 0 .. MaxFaults
  BY DEF TypeOK, Specs

LEMMA EditTypes ==
  ASSUME kind \in Kind, NEW s \in Specs, NEW t \in Edited(s)
  PROVE  t \in Specs
  <1>1. PICK f \in DOMAIN s, u \in SamplesOf : t = [s EXCEPT ![f] = u[f]] BY DEF Edited
  <1>2. u \in Specs BY SampleTypes
  <1>. QED BY <1>1, <1>2, ClusterEdit, MachineEdit DEF Specs

(* What a request leaves in the API server. *)
LEMMA WrittenBare ==
  ASSUME kind \in Kind, NEW s \in Specs
  PROVE  /\ OfClusters => Bare(Storage("v1beta1", s))
         /\ kind = "OscMachine" => MachineBare(Storage("v1beta1", s))
  <1>1. CASE OfClusters
    <2>1. Storage("v1beta1", s) = ClusterConvertTo(s) BY <1>1 DEF Storage, Hub, OfClusters
    <2>. QED BY <1>1, <2>1, ClusterConverted DEF Specs, OfClusters
  <1>2. CASE ~OfClusters /\ kind = "OscMachine"
    <2>1. Storage("v1beta1", s) = MachineConvertTo(s) BY <1>2 DEF Storage, Hub
    <2>. QED BY <1>2, <2>1, MachineConverted DEF Specs
  <1>. QED BY <1>1, <1>2

LEMMA CreateInv ==
  ASSUME ApiInv, NEW v \in Version, Create(v)
  PROVE  ApiInv'
  <1>1. /\ kind \in Kind /\ stored \in Object(Specs) /\ tcache \in Object(Specs)
        /\ told \in Object(Specs) /\ tmem \in Object(Specs) /\ tat \in {"idle", "patch", "status"}
        /\ writes \in 0 .. MaxWrites /\ faults \in 0 .. MaxFaults
    BY TypeAgain DEF ApiInv
  <1>2. PICK s \in SamplesOf, fin \in BOOLEAN :
          /\ ValidateCreate(Reviewed(v, s))
          /\ stored' = [Absent EXCEPT !.exists = TRUE, !.spec = Storage(v, s), !.fin = fin]
          /\ past' = {Storage(v, s)}
    BY DEF Create
  <1>3. /\ via' = v /\ writes' = writes + 1 /\ writes < MaxWrites /\ kind' = kind
        /\ UNCHANGED <<tcache, told, tmem, tat, faults>>
    BY DEF Create, controller
  <1>. DEFINE c == Storage(v, s)
  <1>4. s \in Specs /\ c \in Specs BY <1>1, SampleTypes, ConversionTypes
  <1>. HIDE DEF c
  <1>5. stored' = [Absent EXCEPT !.exists = TRUE, !.spec = c, !.fin = fin] /\ past' = {c} BY <1>2 DEF c
  <1>6. stored' \in Object(Specs) /\ stored'.exists /\ stored'.spec = c
    BY <1>1, <1>4, <1>5, AbsentType DEF Object
  <1>7. Specs' = Specs /\ (OfClusters' <=> OfClusters) BY <1>3 DEF Specs, OfClusters
  <1>8. MaxWrites \in Nat /\ writes' \in 0 .. MaxWrites /\ writes' >= 1 BY <1>1, <1>3, ApiAssumption
  <1>9. TypeOK'
    <2>1. Object(Specs)' = Object(Specs) BY <1>7 DEF Object
    <2>. QED BY <1>1, <1>3, <1>6, <1>8, <2>1 DEF TypeOK, Specs
  <1>10. TemplatesAccepted'
    <2>1. kind = "OscMachineTemplate" => MachineCreate(c)
      BY <1>2 DEF ValidateCreate, OfClusters, Reviewed, Spoke, Storage, Hub, c
    <2>. QED BY <1>3, <1>6, <2>1 DEF TemplatesAccepted, ApiInv
  <1>11. StoredBare'
    <2>1. v = "v1beta1" => (OfClusters => Bare(c)) /\ (kind = "OscMachine" => MachineBare(c))
      BY <1>1, <1>4, WrittenBare DEF c
    <2>. QED BY <1>3, <1>6, <1>7, <2>1 DEF StoredBare
  <1>12. MachineIdentityKept' /\ LatestFollows'
    BY <1>5, <1>6 DEF MachineIdentityKept, LatestFollows, Follows
  <1>13. CreatedFits'
    <2>1. ASSUME kind = "OscCluster" PROVE Fits(c)
      <3>1. OfClusters /\ s \in OscClusterSpec BY <1>4, <2>1 DEF OfClusters, Specs
      <3>2. ClusterCreate(Reviewed(v, s)) BY <1>2, <3>1 DEF ValidateCreate
      <3>3. CASE v = "v1beta1"
        <4>1. Reviewed(v, s) = s /\ c = ClusterConvertTo(s) BY <3>1, <3>3 DEF Reviewed, Storage, Hub, c, OfClusters
        <4>. QED BY <3>1, <3>2, <4>1, AcceptedFits, ConvertedFits
      <3>4. CASE v # "v1beta1"
        <4>1. Reviewed(v, s) = ClusterConvertTo(s) /\ c = s
          BY <3>1, <3>4, SameConversions DEF Reviewed, Spoke, Storage, c, OfClusters
        <4>2. ClusterConvertTo(s) \in OscClusterSpec BY <3>1, ClusterConverted
        <4>. QED BY <3>1, <3>2, <4>1, <4>2, AcceptedFits, ConvertedFits
      <3>. QED BY <3>3, <3>4
    <2>. QED BY <1>3, <1>6, <1>8, <2>1 DEF CreatedFits
  <1>. QED BY <1>9, <1>10, <1>11, <1>12, <1>13 DEF ApiInv

(* The machine that the webhook compares is the one that is stored, but    *)
(* for what the conversion drops.                                          *)
LEMMA MachineWritten ==
  ASSUME kind = "OscMachine", NEW v \in Version, NEW r \in OscMachineSpec, NEW s \in OscMachineSpec,
         ValidateUpdate(Spoke(r), Reviewed(v, s))
  PROVE  Follows(Storage(v, s), r)
  <1>1. ~OfClusters BY DEF OfClusters
  <1>2. \A x : Spoke(x) = MachineConvertTo(x) /\ Hub(x) = MachineConvertTo(x)
    BY <1>1, SameConversions DEF Spoke, Hub
  <1>3. MachineUpdate(MachineConvertTo(r), Reviewed(v, s)) BY <1>2 DEF ValidateUpdate
  <1>4. Reviewed(v, s) \in {s, MachineConvertTo(s)} /\ Storage(v, s) \in {s, MachineConvertTo(s)}
    BY <1>2 DEF Reviewed, Storage
  <1>5. \A x, y \in {s, MachineConvertTo(s)} :
          /\ x.vmType = y.vmType /\ x.keypairName = y.keypairName /\ x.rootDisk = y.rootDisk
          /\ x.subregionName = y.subregionName /\ x.subnetName = y.subnetName /\ x.tags = y.tags
    BY MachineConverted
  <1>6. MachineUpdate(r, Storage(v, s))
    <2>. DEFINE q == MachineConvertTo(r)
                x == Reviewed(v, s)
                y == Storage(v, s)
    <2>1. /\ q.vmType = r.vmType /\ q.keypairName = r.keypairName /\ q.rootDisk = r.rootDisk
          /\ q.subregionName = r.subregionName /\ q.subnetName = r.subnetName /\ q.tags = r.tags
      BY MachineConverted
    <2>2. /\ x.vmType = y.vmType /\ x.keypairName = y.keypairName /\ x.rootDisk = y.rootDisk
          /\ x.subregionName = y.subregionName /\ x.subnetName = y.subnetName /\ x.tags = y.tags
      BY <1>4, <1>5
    <2>3. MachineUpdate(q, x) BY <1>3
    <2>. HIDE DEF q, x, y
    <2>4. MachineUpdate(r, y) BY <2>1, <2>2, <2>3 DEF MachineUpdate
    <2>. QED BY <2>4 DEF y
  <1>. QED BY <1>6 DEF MachineUpdate, Follows

LEMMA FollowsFurther ==
  ASSUME NEW r, NEW s, NEW t, Follows(r, s), Follows(t, r)
  PROVE  Follows(t, s)
  BY DEF Follows

LEMMA UpdateInv ==
  ASSUME ApiInv, NEW v \in Version, Update(v)
  PROVE  ApiInv'
  <1>1. /\ kind \in Kind /\ stored \in Object(Specs) /\ tcache \in Object(Specs)
        /\ told \in Object(Specs) /\ tmem \in Object(Specs) /\ tat \in {"idle", "patch", "status"}
        /\ writes \in 0 .. MaxWrites /\ faults \in 0 .. MaxFaults
    BY TypeAgain DEF ApiInv
  <1>2. PICK s \in Edited(View(v, stored.spec)) :
          /\ ValidateUpdate(Spoke(stored.spec), Reviewed(v, s))
          /\ stored' = [stored EXCEPT !.spec = Storage(v, s)]
          /\ past' = past \cup {Storage(v, s)}
    BY DEF Update
  <1>3. /\ via' = v /\ writes' = writes + 1 /\ writes < MaxWrites /\ kind' = kind /\ stored.exists
        /\ UNCHANGED <<tcache, told, tmem, tat, faults>>
    BY DEF Update, controller
  <1>. DEFINE c == Storage(v, s)
  <1>4. stored.spec \in Specs /\ s \in Specs /\ c \in Specs
    <2>1. stored.spec \in Specs BY <1>1 DEF Object
    <2>2. View(v, stored.spec) \in Specs BY <1>1, <2>1, ConversionTypes
    <2>3. s \in Specs BY <1>1, <2>2, EditTypes
    <2>. QED BY <1>1, <2>1, <2>3, ConversionTypes
  <1>. HIDE DEF c
  <1>5. stored' = [stored EXCEPT !.spec = c] /\ past' = past \cup {c} BY <1>2 DEF c
  <1>6. stored' \in Object(Specs) /\ stored'.exists /\ stored'.spec = c
    BY <1>1, <1>3, <1>4, <1>5 DEF Object
  <1>7. Specs' = Specs /\ (OfClusters' <=> OfClusters) BY <1>3 DEF Specs, OfClusters
  <1>8. MaxWrites \in Nat /\ writes' \in 0 .. MaxWrites /\ writes' >= 2
    BY <1>1, <1>3, ApiAssumption DEF ApiInv, CreatedFits
  <1>9. TypeOK'
    <2>1. Object(Specs)' = Object(Specs) BY <1>7 DEF Object
    <2>. QED BY <1>1, <1>3, <1>6, <1>8, <2>1 DEF TypeOK, Specs
  <1>10. TemplatesAccepted'
    <2>1. kind = "OscMachineTemplate" => c = stored.spec
      BY <1>2 DEF ValidateUpdate, TemplateUpdate, OfClusters, Reviewed, Spoke, Storage, Hub, c
    <2>2. kind = "OscMachineTemplate" => MachineCreate(c) BY <1>3, <2>1 DEF ApiInv, TemplatesAccepted
    <2>. QED BY <1>3, <1>6, <2>2 DEF TemplatesAccepted, ApiInv
  <1>11. StoredBare'
    <2>1. v = "v1beta1" => (OfClusters => Bare(c)) /\ (kind = "OscMachine" => MachineBare(c))
      BY <1>1, <1>4, WrittenBare DEF c
    <2>. QED BY <1>3, <1>6, <1>7, <2>1 DEF StoredBare
  <1>12. MachineIdentityKept' /\ LatestFollows'
    <2>1. CASE kind # "OscMachine" BY <1>3, <2>1 DEF MachineIdentityKept, LatestFollows
    <2>2. CASE kind = "OscMachine"
      <3>1. stored.spec \in OscMachineSpec /\ s \in OscMachineSpec BY <1>4, <2>2 DEF Specs, OfClusters
      <3>2. Follows(c, stored.spec) BY <1>2, <2>2, <3>1, MachineWritten DEF c
      <3>3. \A x \in past : Follows(stored.spec, x) BY <1>3, <2>2 DEF ApiInv, LatestFollows
      <3>4. \A x \in past : Follows(c, x) BY <3>2, <3>3, FollowsFurther
      <3>5. Follows(c, c) BY DEF Follows
      <3>6. LatestFollows' BY <1>5, <1>6, <3>4, <3>5 DEF LatestFollows
      <3>7. MachineIdentityKept'
        <4>1. MachineIdentityKept BY DEF ApiInv
        <4>2. \A x \in past' : Follows(c, x) BY <1>5, <3>4, <3>5
        <4>3. ASSUME NEW x \in past', NEW y \in past', x = c \/ y = c
              PROVE  /\ x.vmType = y.vmType /\ x.keypairName = y.keypairName /\ x.rootDisk = y.rootDisk
                     /\ "" \in {x.subregionName, y.subregionName} \/ x.subregionName = y.subregionName
                     /\ "" \in {x.subnetName, y.subnetName} \/ x.subnetName = y.subnetName
                     /\ {} \in {x.tags, y.tags} \/ x.tags = y.tags
          <5>1. CASE x = c
            <6>1. Follows(x, y) BY <4>2, <5>1
            <6>. QED BY <6>1 DEF Follows
          <5>2. CASE y = c
            <6>1. Follows(y, x) BY <4>2, <5>2
            <6>. QED BY <6>1 DEF Follows
          <5>. QED BY <4>3, <5>1, <5>2
        <4>4. \A x \in past' : x \in past \/ x = c BY <1>5
        <4>. QED BY <2>2, <4>1, <4>3, <4>4, Zenon DEF MachineIdentityKept
      <3>. QED BY <3>6, <3>7
    <2>. QED BY <2>1, <2>2
  <1>13. CreatedFits' BY <1>6, <1>8 DEF CreatedFits
  <1>. QED BY <1>9, <1>10, <1>11, <1>12, <1>13 DEF ApiInv

(* The other steps write no spec. *)
LEMMA SpecLeft ==
  ASSUME ApiInv, UNCHANGED <<kind, past, via, writes>>,
         stored' \in Object(Specs), stored'.exists => stored.exists /\ stored'.spec = stored.spec
  PROVE  StoredBare' /\ MachineIdentityKept' /\ LatestFollows' /\ CreatedFits'
  <1>1. OfClusters' <=> OfClusters BY DEF OfClusters
  <1>2. StoredBare' BY <1>1 DEF ApiInv, StoredBare
  <1>3. MachineIdentityKept' BY DEF ApiInv, MachineIdentityKept
  <1>4. LatestFollows' BY DEF ApiInv, LatestFollows
  <1>5. CreatedFits' BY DEF ApiInv, CreatedFits
  <1>. QED BY <1>2, <1>3, <1>4, <1>5

LEMMA ControllerInv ==
  ASSUME ApiInv, UNCHANGED <<kind, past, via, writes>>,
         stored' \in Object(Specs), stored'.exists => stored.exists /\ stored'.spec = stored.spec,
         tcache' = tcache \/ tcache' = stored, told' \in Object(Specs), tmem' \in Object(Specs),
         tat' \in {"idle", "patch", "status"}, faults' \in 0 .. MaxFaults,
         tat' = "idle" \/ tat # "idle" \/ kind = "OscMachineTemplate"
  PROVE  ApiInv'
  <1>1. Specs' = Specs /\ Object(Specs)' = Object(Specs) BY DEF Specs, OfClusters, Object
  <1>2. TypeOK' BY <1>1, TypeAgain DEF ApiInv, TypeOK, Specs
  <1>3. TemplatesAccepted' BY DEF ApiInv, TemplatesAccepted
  <1>. QED BY <1>2, <1>3, SpecLeft DEF ApiInv

Capacity == {NoCapacity} \cup [cpu : Nat \ {0}, mem : Nat \ {0}]

LEMMA CapacityType ==
  ASSUME NEW o \in Object(OscMachineSpec), MachineCreate(o.spec)
  PROVE  reconcileCapacity(o) \in Object(OscMachineSpec)
  <1>. DEFINE t == o.spec.vmType
  <1>1. t \in VmType BY DEF Object, OscMachineSpec
  <1>2. CASE t.family = "tina"
    <2>1. ValidateVmType(t) = "ok" BY DEF MachineCreate, Accepted, ValidateOscMachineSpec
    <2>2. ValidateVmType(t) = Check(t.gen \in 3 .. 99 /\ t.cpu >= 1 /\ t.mem >= 1 /\ t.perf \in 1 .. 3)
      BY <1>2 DEF ValidateVmType
    <2>3. t.cpu >= 1 /\ t.mem >= 1 BY <2>1, <2>2 DEF Check
    <2>. HIDE DEF t
    <2>4. t.cpu \in Nat /\ t.mem \in Nat BY <1>1 DEF VmType
    <2>5. t.cpu \in Nat \ {0} /\ t.mem \in Nat \ {0} BY <2>3, <2>4
    <2>6. reconcileCapacity(o) = [o EXCEPT !.capacity = [cpu |-> t.cpu, mem |-> t.mem]]
      BY <1>2 DEF reconcileCapacity, t
    <2>. QED BY <2>5, <2>6 DEF Object
  <1>3. CASE t.family # "tina" BY <1>3 DEF reconcileCapacity
  <1>. QED BY <1>2, <1>3

LEMMA NextApiInv == ApiInv /\ [Next]_vars => ApiInv'
  <1>. SUFFICES ASSUME ApiInv, [Next]_vars PROVE ApiInv' OBVIOUS
  <1>1. /\ kind \in Kind /\ stored \in Object(Specs) /\ tcache \in Object(Specs)
        /\ told \in Object(Specs) /\ tmem \in Object(Specs) /\ tat \in {"idle", "patch", "status"}
        /\ faults \in 0 .. MaxFaults /\ MaxFaults \in Nat
    BY TypeAgain, ApiAssumption DEF ApiInv
  <1>2. Absent \in Object(Specs) /\ ~Absent.exists BY <1>1, AbsentType
  <1>3. CASE UNCHANGED vars BY <1>1, <1>3, ControllerInv DEF vars
  <1>4. CASE Delete
    <2>1. stored' \in {[stored EXCEPT !.del = TRUE], Absent} /\ stored.exists
          /\ UNCHANGED <<kind, past, via, writes, tcache, told, tmem, tat, faults>>
      BY <1>4 DEF Delete, controller
    <2>2. stored' \in Object(Specs) /\ (stored'.exists => stored'.spec = stored.spec)
      BY <1>1, <1>2, <2>1 DEF Object
    <2>. QED BY <1>1, <2>1, <2>2, ControllerInv
  <1>5. CASE Sync BY <1>1, <1>5, ControllerInv DEF Sync
  <1>6. CASE Reconcile
    <2>1. /\ kind = "OscMachineTemplate" /\ told' = tcache /\ tat' = "patch" /\ tcache.exists
          /\ tmem' \in {reconcileDelete(tcache), reconcileCapacity(tcache)}
          /\ UNCHANGED <<kind, stored, past, via, writes, tcache, faults>>
      BY <1>6 DEF Reconcile
    <2>2. Specs = OscMachineSpec BY <2>1 DEF Specs, OfClusters
    <2>3. reconcileDelete(tcache) \in Object(Specs) BY <1>1 DEF reconcileDelete, Object
    <2>4. reconcileCapacity(tcache) \in Object(Specs)
      BY <1>1, <2>1, <2>2, CapacityType DEF ApiInv, TemplatesAccepted
    <2>. QED BY <1>1, <2>1, <2>3, <2>4, ControllerInv
  <1>7. ASSUME NEW x, Patch(x), stored.exists => x \in Object(Specs) /\ (x.exists => x.spec = stored.spec)
        PROVE  /\ UNCHANGED <<kind, past, via, writes, tcache>> /\ faults' \in 0 .. MaxFaults
               /\ stored' \in Object(Specs) /\ (stored'.exists => stored.exists /\ stored'.spec = stored.spec)
    <2>1. /\ stored' = stored \/ (stored.exists /\ stored' = x)
          /\ faults' = faults \/ (faults < MaxFaults /\ faults' = faults + 1)
          /\ UNCHANGED <<kind, past, via, writes, tcache>>
      BY <1>7 DEF Patch
    <2>2. faults' \in 0 .. MaxFaults BY <1>1, <2>1
    <2>. QED BY <1>1, <1>7, <2>1, <2>2
  <1>8. CASE CloseObject
    <2>. DEFINE fin == Merge(told.fin, tmem.fin, stored.fin)
                x == IF stored.del /\ ~fin THEN Absent ELSE [stored EXCEPT !.fin = fin]
    <2>1. Patch(x) /\ tat = "patch" /\ tat' = "status" /\ UNCHANGED <<told, tmem>> BY <1>8 DEF CloseObject
    <2>2. fin \in BOOLEAN BY <1>1 DEF Merge, Object
    <2>. HIDE DEF fin
    <2>3. x \in Object(Specs) /\ (x.exists => x.spec = stored.spec) BY <1>1, <1>2, <2>2 DEF Object
    <2>. HIDE DEF x
    <2>. QED BY <1>1, <1>7, <2>1, <2>3, ControllerInv
  <1>9. CASE CloseStatus
    <2>. DEFINE cap == Merge(told.capacity, tmem.capacity, stored.capacity)
                x == [stored EXCEPT !.capacity = cap]
    <2>1. Patch(x) /\ tat' = "idle" /\ told' = Absent /\ tmem' = Absent BY <1>9 DEF CloseStatus
    <2>2. cap \in Capacity BY <1>1 DEF Merge, Object, Capacity
    <2>. HIDE DEF cap
    <2>3. x \in Object(Specs) /\ x.spec = stored.spec BY <1>1, <2>2 DEF Object, Capacity
    <2>. HIDE DEF x
    <2>. QED BY <1>1, <1>2, <1>7, <2>1, <2>3, ControllerInv
  <1>10. CASE Restart
    <2>1. faults' \in 0 .. MaxFaults BY <1>1, <1>10 DEF Restart
    <2>. QED BY <1>1, <1>2, <1>10, <2>1, ControllerInv DEF Restart
  <1>. QED BY <1>3, <1>4, <1>5, <1>6, <1>8, <1>9, <1>10, CreateInv, UpdateInv DEF Next, Pass

LEMMA InitApiInv == Init => ApiInv
  <1>. SUFFICES ASSUME Init PROVE ApiInv OBVIOUS
  <1>1. kind \in Kind /\ MaxWrites \in Nat /\ MaxFaults \in Nat BY ApiAssumption DEF Init
  <1>2. Absent \in Object(Specs) /\ ~Absent.exists BY <1>1, AbsentType
  <1>3. TypeOK BY <1>1, <1>2, TypeAgain DEF Init, Version
  <1>4. ~stored.exists /\ ~tcache.exists /\ tat = "idle" /\ past = {} BY <1>2 DEF Init
  <1>5. TemplatesAccepted BY <1>4 DEF TemplatesAccepted
  <1>6. StoredBare /\ MachineIdentityKept /\ LatestFollows /\ CreatedFits
    BY <1>4 DEF StoredBare, MachineIdentityKept, LatestFollows, CreatedFits
  <1>. QED BY <1>3, <1>5, <1>6 DEF ApiInv

LEMMA SpecApiInv == Spec => []ApiInv
  BY InitApiInv, NextApiInv, PTL DEF Spec
--------------------------------------------------------------------------------
(* The object, and the copies that the template controller makes of it,    *)
(* have the types of the API whatever is converted, edited and patched;    *)
(* a capacity that reconcileCapacity publishes is positive, since a type   *)
(* without a CPU or memory is refused when the template is created.        *)
THEOREM ApiTypeCorrect == Spec => []TypeOK
  <1>1. ApiInv => TypeOK BY DEF ApiInv
  <1>. QED BY <1>1, SpecApiInv, PTL

(* ValidateUpdate of OscMachine keeps what a machine is made of: no series *)
(* of accepted writes, of either version, gives it another VM type,        *)
(* keypair or root disk, nor two subregions, subnets or sets of tags.      *)
THEOREM MachineIdentityAlways == Spec => []MachineIdentityKept
  <1>1. ApiInv => MachineIdentityKept BY DEF ApiInv
  <1>. QED BY <1>1, SpecApiInv, PTL

LEMMA BareRoundTrip == ApiInv => RoundTripStable
  <1>. SUFFICES ASSUME ApiInv, stored.exists, via = "v1beta1" PROVE Hub(Spoke(stored.spec)) = stored.spec
    BY DEF RoundTripStable
  <1>1. kind \in Kind /\ stored.spec \in Specs BY TypeAgain DEF ApiInv, Object
  <1>2. CASE OfClusters
    <2>1. \A s : Spoke(s) = ClusterConvertTo(s) /\ Hub(s) = ClusterConvertTo(s)
      BY <1>2, SameConversions DEF Spoke, Hub, OfClusters
    <2>2. Bare(stored.spec) /\ stored.spec \in OscClusterSpec BY <1>1, <1>2 DEF ApiInv, StoredBare, Specs
    <2>. QED BY <2>1, <2>2, BareIsStable
  <1>3. CASE ~OfClusters /\ kind = "OscMachine"
    <2>1. \A s : Spoke(s) = MachineConvertTo(s) /\ Hub(s) = MachineConvertTo(s)
      BY <1>3, SameConversions DEF Spoke, Hub
    <2>2. MachineBare(stored.spec) /\ stored.spec \in OscMachineSpec BY <1>1, <1>3 DEF ApiInv, StoredBare, Specs
    <2>. QED BY <2>1, <2>2, MachineConverted
  <1>4. CASE ~OfClusters /\ kind # "OscMachine" BY <1>4 DEF Spoke, Hub
  <1>. QED BY <1>2, <1>3, <1>4

(* ConvertTo undoes ConvertFrom on every object that was last written      *)
(* through v1beta1: a client of v1beta1 that reads it and writes it back   *)
(* changes nothing.                                                        *)
THEOREM RoundTripAlways == Spec => []RoundTripStable
  BY BareRoundTrip, SpecApiInv, PTL

(* A cluster that the webhooks accepted when it was created, in either     *)
(* version, has a listener and a health check within their limits once the *)
(* defaults are filled in and, if the range of its net is given, subnets   *)
(* that share no address and are within the net or hold all of it.         *)
THEOREM CreatedClusterFitsAlways == Spec => []CreatedClusterFits
  <1>1. ApiInv => CreatedClusterFits BY DEF ApiInv, CreatedFits, Fits, CreatedClusterFits
  <1>. QED BY <1>1, SpecApiInv, PTL
====================================================================================
