---------------------------- MODULE MCSecurityRules ----------------------------
(* Instances of SecurityRules: versions of spec.network. *)
EXTENDS SecurityRules

(* One subregion and nothing else set. *)
Plain ==
  [byte |-> 0, subregionName |-> 1, subregions |-> <<>>, subnets |-> <<>>,
   controlPlaneSubnets |-> {}, lbSubnet |-> "", nats |-> <<>>, internet |-> TRUE,
   reuseNet |-> FALSE, groups |-> <<>>, allowFrom |-> <<>>, allowTo |-> <<>>,
   additional |-> <<>>, bastion |-> FALSE, tables |-> <<>>]

UserIp == <<"user", 1>>

Restricted == [Plain EXCEPT !.allowFrom = <<UserIp>>]

(* Two subregions; the user lists one of the NAT services among the sources. *)
MultiAZ == [Plain EXCEPT !.subregions = <<1, 2>>, !.allowFrom = <<UserIp, <<"nat", 1>> >>]

(* No way out but what the additional rules open, for the CCM's port too. *)
Closed ==
  [Plain EXCEPT !.bastion = TRUE, !.allowTo = <<EmptyRange>>,
     !.additional = << [roles |-> <<"controlplane", "worker">>,
                        rules |-> << RuleSpec("Inbound", "service", <<UserIp>>) >>],
                       [roles |-> <<"loadbalancer">>,
                        rules |-> << RuleSpec("Inbound", "api", <<AnyIp>>) >>] >>]

Named(name, sn) == [name |-> name, roles |-> <<>>, range |-> <<"subnet", sn>>, subregion |-> 0]

(* Subnets, a NAT service and groups of the user's own, known by name; the  *)
(* last bytes of the net are 254 and 255.                                   *)
Manual ==
  [Plain EXCEPT !.byte = 252, !.allowFrom = <<UserIp>>, !.allowTo = <<UserIp>>,
     !.subnets = << Named("public", 253), Named("kcp", 254), Named("kw", 255) >>,
     !.lbSubnet = "public",
     !.nats = << [name |-> "natA", subnet |-> "public", subregion |-> 0] >>,
     !.groups = << [name |-> "front", roles |-> <<"loadbalancer">>, authoritative |-> TRUE,
                    rules |-> << RuleSpec("Outbound", "api", <<NetRange>>) >>],
                   [name |-> "kw", roles |-> <<>>, authoritative |-> FALSE,
                    rules |-> << RuleSpec("Inbound", "kubelet", <<NetRange>>) >>],
                   [name |-> "node", roles |-> <<"worker", "controlplane">>, authoritative |-> FALSE,
                    rules |-> << RuleSpec("Inbound", "overlay", <<NetRange>>) >>] >>]

(* Two worker subnets in one subregion, the one behind the other; subnets   *)
(* without roles; one of them without a name.                               *)
Roled(name, roles, sn) == [name |-> name, roles |-> roles, range |-> <<"subnet", sn>>, subregion |-> 1]
Crowded ==
  [Plain EXCEPT !.byte = 10, !.controlPlaneSubnets = {"cp"},
     !.subnets = << Roled("front", <<"loadbalancer", "bastion", "nat">>, 11), Roled("w1", <<"worker">>, 12),
                    Roled("w2", <<"worker">>, 13), Named("cp", 14), Named("", 15) >>]

(* Route tables of the user's own: by name and by role. *)
OwnTables ==
  [Crowded EXCEPT !.byte = 20,
     !.tables = << [subnets |-> <<"cp", "w2">>, subregion |-> 0, role |-> "", target |-> "nat", nat |-> ""],
                   [subnets |-> <<>>, subregion |-> 1, role |-> "nat", target |-> "gateway", nat |-> ""] >>]

HighNet == [Plain EXCEPT !.byte = 252, !.subregions = <<1>>, !.internet = FALSE]

MCNetworks == {Plain, Restricted, MultiAZ, Closed, Manual, Crowded, OwnTables, HighNet}

MCGroupNames == {"lb", "worker", "controlplane", "node", "bastion", "front", "kw"}
================================================================================
