----------------------------- MODULE OscCluster_proofs -----------------------------
(***************************************************************************)
(* Proofs about the OscCluster controller.  Until a teardown is under way  *)
(* the cloud only grows, every lookup of every copy of the object leads to *)
(* the one resource there is, and so what a pass has gone through is there *)
(* for every later pass, whatever it remembers.                            *)
(***************************************************************************)
EXTENDS OscCluster, TLAPS, WellFoundedInduction, FiniteSetTheorems

(* The handlers of reconcile and of reconcileDelete. *)
BuildPhase == {"net", "subnet", "internetService", "rtNat", "natService", "routeTable",
               "netPeering", "netPeeringRoutes", "netAccessPoint", "securityGroup",
               "loadbalancer", "bastion", "ready"}
DeletePhase == {"dMachines", "dBastion", "dLb", "dNat", "dIp", "dNap", "dPeerRoutes", "dPeering",
                "dRt", "dSg", "dIs", "dSubnet", "dNet", "dFinal"}

(* A pass builds or deletes as the copy it started from says; a copy never *)
(* knows of a deletion that the object does not have; and the deletion     *)
(* gets past its start only when there are no Machines.                    *)
Passes ==
  /\ at.phase \in BuildPhase => ~mem.del
  /\ at.phase \in DeletePhase => mem.del
  /\ at.phase = "idle" => ~mem.del
  /\ mem.del => cache.del
  /\ cache.del => obj.del
  /\ at.phase \in DeletePhase \ {"dMachines"} => ~machines

(* No teardown has begun: as long as there are Machines, or the informer   *)
(* does not know of the deletion, or the pass that builds has not ended.   *)
Spared == machines \/ ~cache.del \/ (at.phase # "idle" /\ ~mem.del)

(* The steps of a deletion that reused resources are kept from. *)
ReuseSpared ==
  /\ At("dSubnet", "loop") => ~ReuseNet
  /\ at.phase = "dSg" /\ at.step \in {"loop", "bad"} => ~ReuseSG
--------------------------------------------------------------------------------
(* The cloud while no teardown has begun. *)
Distinct(S) == \A x, y \in S : x.id = y.id => x = y
Known(S) == \A x \in S : 0 < x.id /\ x.id < cloud.next
Tagged(S) == {x \in S : x.tagged}
Linked == {i \in cloud.iss : i.net # 0}
InNet(S) == \A x \in S : \E n \in Tagged(cloud.nets) : x.net = n.id

NetsOk ==
  /\ Distinct(cloud.nets) /\ Known(cloud.nets) /\ AtMostOne(Tagged(cloud.nets))
  /\ ReuseNet => Tagged(cloud.nets) = {} /\ ReusedNet \in Ids(cloud.nets)

SubnetsOk ==
  /\ Known(cloud.subnets)
  /\ \A s, t \in cloud.subnets : s.range = t.range => s = t
  /\ ~ReuseNet => Distinct(cloud.subnets) /\ InNet(cloud.subnets)
  /\ ReuseNet => \A r \in Ranges : ReusedId[r] \in Ids(cloud.subnets)

ServicesOk ==
  /\ Distinct(cloud.iss) /\ Known(cloud.iss) /\ AtMostOne(Linked) /\ InNet(Linked)
  /\ ReuseNet => cloud.iss = {}

(* The range of the subnet that a route table serves. *)
Serves(t, r) == \E s \in cloud.subnets : s.range = r /\ t.sub = s.id
Active(i) == \E p \in cloud.peerings : p.id = i /\ p.tagged /\ p.state = "active"

TablesOk ==
  /\ Distinct(cloud.rts) /\ Known(cloud.rts) /\ InNet(cloud.rts)
  /\ \A t \in cloud.rts : t.sub = 0 \/ \E r \in Ranges : Serves(t, r)
  /\ \A t, u \in cloud.rts : t.sub # 0 /\ t.sub = u.sub => t = u
  /\ \A t \in cloud.rts : t.peer = 0 \/ Active(t.peer)
  /\ ReuseNet => cloud.rts = {}

(* There is a route from the public subnet to the internet. *)
Gateway == Linked # {} /\ \E t \in cloud.rts : t.routed /\ Serves(t, Pub)

NatsOk ==
  /\ Known(cloud.nats) /\ AtMostOne(cloud.nats) /\ InNet(cloud.nats)
  /\ \A n \in cloud.nats : ~n.deleting /\ n.ip \in cloud.ips
  /\ cloud.nats # {} => Gateway
  /\ ReuseNet => cloud.nats = {}

PeeringsOk ==
  /\ Distinct(cloud.peerings) /\ Known(cloud.peerings) /\ AtMostOne(Tagged(cloud.peerings))
  /\ InNet(cloud.peerings)
  /\ \A p \in cloud.peerings : p.state # "deleted" /\ (p.state = "active" => p.tagged)
  /\ \A i \in cloud.mgmt : Active(i)
  /\ ReuseNet => cloud.peerings = {}

NapsOk ==
  /\ Known(cloud.naps) /\ AtMostOne(cloud.naps) /\ InNet(cloud.naps)
  /\ ReuseNet => cloud.naps = {}

(* The security groups that are there before the cluster. *)
ReusedGroups == {ReusedId[s] : s \in {Foreign} \cup (IF ReuseSG THEN SGNames ELSE {})}

GroupsOk ==
  /\ Known(cloud.sgs)
  /\ \A s \in SGNames : AtMostOne({g \in cloud.sgs : g.name = s})
  /\ ~ReuseSG => Distinct(cloud.sgs)
  /\ ReuseNet => ReusedGroups \subseteq Ids(cloud.sgs)

VmsOk ==
  /\ Known(cloud.vms) /\ AtMostOne(cloud.vms)
  /\ \A v \in cloud.vms : v.state \in {"pending", "running"} /\ v.ip \in cloud.ips
  /\ ReuseNet => cloud.vms = {}

CloudOk ==
  /\ cloud.next > 0
  /\ NetsOk /\ SubnetsOk /\ ServicesOk /\ TablesOk /\ NatsOk /\ PeeringsOk /\ NapsOk
  /\ GroupsOk /\ VmsOk
  /\ \A i \in cloud.ips : 0 < i /\ i < cloud.next
--------------------------------------------------------------------------------
(* What reconciler k has made for a version of the spec, whatever copy of  *)
(* the object one looks at.                                                *)
HasSubnet(r) ==
  IF ReuseNet THEN ReusedId[r] \in Ids(cloud.subnets) ELSE \E s \in cloud.subnets : s.range = r
HasTable(r) == \E t \in cloud.rts : Serves(t, r) /\ (Internet => t.routed)
HasPeerRoute(r, i) == \E t \in cloud.rts : Serves(t, r) /\ t.peer = i
HasGroup(s) == \E g \in cloud.sgs : g.name = s /\ g.ruled

Made(k, spec) ==
  CASE k = "net" -> ReuseNet \/ Tagged(cloud.nets) # {}
    [] k = "subnet" -> \A r \in spec : HasSubnet(r)
    [] k = "internetService" -> Linked # {}
    [] k = "routeTable" -> \A r \in spec : HasTable(r)
    [] k = "natService" -> cloud.nats # {}
    [] k = "netPeering" -> \E p \in cloud.peerings : p.tagged /\ p.state = "active"
    [] k = "netPeeringRoutes" -> \E i \in cloud.mgmt : \A r \in spec : HasPeerRoute(r, i)
    [] k = "netAccessPoint" -> cloud.naps # {}
    [] k = "securityGroup" -> ~ReuseSG /\ \A s \in SGNames : HasGroup(s)
    [] k = "loadbalancer" -> cloud.lb = "tagged"
    [] k = "bastion" -> \E v \in cloud.vms : v.state = "running"

(* All that a pass goes through, for some version of the spec. *)
AllMade == \E s \in Specs : \A k \in Owned : Made(k, s)

(* The ids in a copy m of the object are those of what is there, and what  *)
(* m has recorded is made.                                                 *)
StatusOk(m) ==
  /\ m.st.net # 0 => m.st.net \in Ids(Tagged(cloud.nets))
  /\ \A r \in Ranges : m.st.sn[r] # 0 => \E s \in cloud.subnets : s.id = m.st.sn[r] /\ s.range = r
  /\ m.st.is # 0 => m.st.is \in Ids(Linked)
  /\ m.st.nat # 0 => m.st.nat \in Ids(cloud.nats)
  /\ m.st.natIp # 0 => m.st.natIp \in cloud.ips
  /\ m.st.vm # 0 => m.st.vm \in Ids(cloud.vms)
  /\ m.st.vmIp # 0 => m.st.vmIp \in cloud.ips
  /\ m.st.peer # 0 => m.st.peer \in Ids(Tagged(cloud.peerings))
  /\ m.st.nap # 0 => m.st.nap \in Ids(cloud.naps)
  /\ \A s \in SGNames : m.st.sg[s] # 0 => \E g \in cloud.sgs : g.id = m.st.sg[s] /\ g.name = s

(* A recorded generation is not ahead of the copy, and is the truth. *)
RecordOk(m) ==
  /\ m.gen > 0
  /\ \A k \in Reconcilers : m.rec[k] <= m.gen /\ (m.rec[k] = m.gen => Made(k, m.spec))

(* A copy of the object that a pass may start from. *)
CopyOk(m) == StatusOk(m) /\ RecordOk(m) /\ (m.ready => AllMade)

(* A copy is no newer than the object, and as new only with its spec. *)
NotAhead(m) == m.gen <= obj.gen /\ (m.gen = obj.gen => m.spec = obj.spec)

CopiesOk ==
  /\ CopyOk(obj) /\ CopyOk(cache) /\ CopyOk(old) /\ CopyOk(mem)
  /\ NotAhead(cache)
  /\ at.phase # "idle" => NotAhead(mem)
  /\ machines => AllMade
--------------------------------------------------------------------------------
(* Where a pass that builds is.  Everything that comes before the handler  *)
(* it is in has been made.                                                 *)
Index(p) == CHOOSE i \in 1 .. 13 : BuildOrder[i] = p
Before(k, p) == k \in BuildPhase /\ Index(k) < Index(p)

BehindOk ==
  at.phase \in BuildPhase =>
    /\ ~LeftOut(at.phase)
    /\ \A k \in Owned : Before(k, at.phase) => Made(k, mem.spec)
    /\ Internet /\ ~ReuseNet /\ Before("rtNat", at.phase) => HasTable(Pub)

(* What the loops over subnets and security groups have done so far. *)
LoopsOk ==
  /\ At("subnet", "loop") => \A r \in mem.spec \ at.todo : HasSubnet(r)
  /\ at.phase = "routeTable" /\ at.step # "start" =>
       /\ ~ReuseNet
       /\ at.todo \subseteq mem.spec
       /\ \A r \in mem.spec \ at.todo : HasTable(r)
  /\ at.phase = "rtNat" /\ at.step # "start" =>
       /\ ~ReuseNet
       /\ at.todo \subseteq {Pub}
       /\ Pub \notin at.todo => HasTable(Pub)
  /\ At("securityGroup", "loop") \/ At("securityGroup", "rules") =>
       /\ ~ReuseSG
       /\ \A s \in SGNames \ at.todo : HasGroup(s)

(* What a handler that waits for its next call knows of the last one. *)
CallsOk ==
  /\ At("net", "tag") =>
       ~ReuseNet /\ Tagged(cloud.nets) = {} /\ at.id \in Ids(cloud.nets)
  /\ At("internetService", "link") =>
       ~ReuseNet /\ Linked = {} /\ at.id \in Ids(cloud.iss)
  /\ at.phase \in RtPhases /\ at.step \in {"link", "route"} =>
       /\ at.item \in at.todo /\ HasSubnet(at.item)
       /\ \E t \in cloud.rts :
            /\ t.id = at.id
            /\ at.step = "link" => t.sub = 0 /\ \A u \in cloud.rts : ~Serves(u, at.item)
            /\ at.step = "route" => Serves(t, at.item)
  /\ At("natService", "create") =>
       ~ReuseNet /\ cloud.nats = {} /\ mem.st.natIp \in cloud.ips
  /\ At("netPeering", "tag") =>
       ~ReuseNet /\ Tagged(cloud.peerings) = {} /\ at.id \in Ids(cloud.peerings)
  /\ At("netPeering", "accept") => at.id \in Ids(Tagged(cloud.peerings))
  /\ At("netPeeringRoutes", "route") => ~ReuseNet /\ at.id \in cloud.mgmt
  /\ At("securityGroup", "rules") =>
       at.item \in at.todo /\ \E g \in cloud.sgs : g.id = at.id /\ g.name = at.item
  /\ At("bastion", "create") =>
       ~ReuseNet /\ cloud.vms = {} /\ mem.st.vmIp \in cloud.ips

(* All of it: the cloud, the copies of the object, and where the pass is. *)
BuildInv == CloudOk /\ CopiesOk /\ BehindOk /\ LoopsOk /\ CallsOk
--------------------------------------------------------------------------------
(* An IP that a NAT service or bastion needs and that none was asked for   *)
(* since the last fault.                                                   *)
Owed ==
  (IF Internet /\ cloud.nats = {} /\ ~At("natService", "create") THEN 1 ELSE 0)
  + (IF Bastion /\ cloud.vms = {} /\ ~At("bastion", "create") THEN 1 ELSE 0)

IpsOwed ==
  Cardinality(cloud.ips) + Owed <= (IF Internet THEN 1 ELSE 0) + (IF Bastion THEN 1 ELSE 0) + faults

(* The inductive invariant.  BuildInv and IpsOwed hold until a teardown    *)
(* begins; what the last line says holds during the teardown, too.         *)
ClusterInv ==
  /\ TypeOK /\ Passes /\ ReuseSpared
  /\ Spared => BuildInv /\ IpsOwed
  /\ NoDuplicates /\ (ReuseSG => ReusedKept) /\ IsFiniteSet(cloud.ips) /\ IpsBounded
--------------------------------------------------------------------------------
(* The order of the handlers. *)
LEMMA OrderFacts ==
  /\ DOMAIN BuildOrder = 1 .. 13
  /\ \A i \in 1 .. 13 : BuildOrder[i] \in BuildPhase
  /\ \A i, j \in 1 .. 13 : BuildOrder[i] = BuildOrder[j] => i = j
  /\ \A p \in BuildPhase : \E i \in 1 .. 13 : BuildOrder[i] = p
  /\ BuildOrder[13] = "ready"
  <1>1. \A i \in 1 .. 13 : \/ i = 1 \/ i = 2 \/ i = 3 \/ i = 4 \/ i = 5 \/ i = 6 \/ i = 7
                           \/ i = 8 \/ i = 9 \/ i = 10 \/ i = 11 \/ i = 12 \/ i = 13
    OBVIOUS
  <1>2. DOMAIN BuildOrder = 1 .. 13 BY DEF BuildOrder
  <1>3. /\ BuildOrder[1] = "net" /\ BuildOrder[2] = "subnet" /\ BuildOrder[3] = "internetService"
        /\ BuildOrder[4] = "rtNat" /\ BuildOrder[5] = "natService" /\ BuildOrder[6] = "routeTable"
        /\ BuildOrder[7] = "netPeering" /\ BuildOrder[8] = "netPeeringRoutes"
        /\ BuildOrder[9] = "netAccessPoint" /\ BuildOrder[10] = "securityGroup"
        /\ BuildOrder[11] = "loadbalancer" /\ BuildOrder[12] = "bastion" /\ BuildOrder[13] = "ready"
    BY DEF BuildOrder
  <1>4. \A i \in 1 .. 13 : BuildOrder[i] \in BuildPhase BY <1>1, <1>3 DEF BuildPhase
  <1>5. \A i, j \in 1 .. 13 : BuildOrder[i] = BuildOrder[j] => i = j BY <1>1, <1>3
  <1>6. \A p \in BuildPhase : \E i \in 1 .. 13 : BuildOrder[i] = p BY <1>3 DEF BuildPhase
  <1>. QED BY <1>2, <1>3, <1>4, <1>5, <1>6

LEMMA DeleteOrderFacts ==
  /\ DOMAIN DeleteOrder = 1 .. 14
  /\ \A i \in 1 .. 14 : DeleteOrder[i] \in DeletePhase
  /\ \A i, j \in 1 .. 14 : DeleteOrder[i] = DeleteOrder[j] => i = j
  /\ \A p \in DeletePhase : \E i \in 1 .. 14 : DeleteOrder[i] = p
  /\ DeleteOrder[14] = "dFinal"
  /\ DeleteOrder[1] = "dMachines"
  <1>1. \A i \in 1 .. 14 : \/ i = 1 \/ i = 2 \/ i = 3 \/ i = 4 \/ i = 5 \/ i = 6 \/ i = 7 \/ i = 8
                           \/ i = 9 \/ i = 10 \/ i = 11 \/ i = 12 \/ i = 13 \/ i = 14
    OBVIOUS
  <1>2. DOMAIN DeleteOrder = 1 .. 14 BY DEF DeleteOrder
  <1>3. /\ DeleteOrder[1] = "dMachines" /\ DeleteOrder[2] = "dBastion" /\ DeleteOrder[3] = "dLb"
        /\ DeleteOrder[4] = "dNat" /\ DeleteOrder[5] = "dIp" /\ DeleteOrder[6] = "dNap"
        /\ DeleteOrder[7] = "dPeerRoutes" /\ DeleteOrder[8] = "dPeering" /\ DeleteOrder[9] = "dRt"
        /\ DeleteOrder[10] = "dSg" /\ DeleteOrder[11] = "dIs" /\ DeleteOrder[12] = "dSubnet"
        /\ DeleteOrder[13] = "dNet" /\ DeleteOrder[14] = "dFinal"
    BY DEF DeleteOrder
  <1>4. \A i \in 1 .. 14 : DeleteOrder[i] \in DeletePhase BY <1>1, <1>3 DEF DeletePhase
  <1>5. \A i, j \in 1 .. 14 : DeleteOrder[i] = DeleteOrder[j] => i = j BY <1>1, <1>3
  <1>6. \A p \in DeletePhase : \E i \in 1 .. 14 : DeleteOrder[i] = p BY <1>3 DEF DeletePhase
  <1>. QED BY <1>2, <1>3, <1>4, <1>5, <1>6

(* The next handler of an order is the first one behind p that is not left *)
(* out, if the last handler never is.                                      *)
FirstBehind(order, i) ==
  order[CHOOSE j \in DOMAIN order : /\ j > i /\ ~LeftOut(order[j])
                                   /\ \A k \in i + 1 .. j - 1 : LeftOut(order[k])]

NextOk(order, n, i) ==
  \E j \in 1 .. n : /\ j > i
                    /\ NextIn(order, order[i]) = order[j]
                    /\ ~LeftOut(order[j])
                    /\ \A k \in 1 .. n : i < k /\ k < j => LeftOut(order[k])

(* The handler that NextIn chooses: a later one, with all between left out. *)
LEMMA NextInOrder ==
  ASSUME NEW order, NEW n \in Nat, DOMAIN order = 1 .. n, ~LeftOut(order[n]),
         \A i, j \in 1 .. n : order[i] = order[j] => i = j,
         NEW i \in 1 .. n, i < n
  PROVE  NextOk(order, n, i)
  <1>. DEFINE later == {j \in 1 .. n : j > i /\ ~LeftOut(order[j])}
              P(j) == /\ j > i /\ ~LeftOut(order[j])
                      /\ \A k \in i + 1 .. j - 1 : LeftOut(order[k])
  <1>1. later # {} /\ later \in SUBSET Nat
    <2>1. n \in later OBVIOUS
    <2>. QED BY <2>1
  <1>2. PICK j \in later : \A k \in later : j <= k
    <2>. DEFINE R == OpToRel(<, Nat)
    <2>1. IsWellFoundedOn(R, Nat) BY NatLessThanWellFounded
    <2>2. \A k, l \in Nat : k < l => <<k, l>> \in R BY DEF OpToRel
    <2>3. \A k \in later : k \in Nat BY <1>1
    <2>. HIDE DEF later, R
    <2>4. PICK j \in later : \A k \in later : ~(<<k, j>> \in R) BY <1>1, <2>1, WFMin
    <2>5. ASSUME NEW k \in later PROVE j <= k
      <3>1. k \in Nat /\ j \in Nat BY <2>3
      <3>2. k < j => <<k, j>> \in R BY <2>2, <3>1, Zenon
      <3>3. ~(<<k, j>> \in R) BY <2>4
      <3>4. ~(k < j) BY <3>2, <3>3, Zenon
      <3>. QED BY <3>1, <3>4
    <2>. QED BY <2>5
  <1>3. j \in DOMAIN order /\ P(j)
    <2>1. \A k \in i + 1 .. j - 1 : k \in 1 .. n /\ k > i /\ ~(j <= k) BY <1>2
    <2>. QED BY <1>2, <2>1
  <1>4. (CHOOSE k \in DOMAIN order : order[k] = order[i]) = i OBVIOUS
  <1>5. PICK q : q = CHOOSE x \in DOMAIN order : P(x) OBVIOUS
  <1>6. q \in 1 .. n /\ P(q)
    <2>1. \E x \in DOMAIN order : P(x) BY <1>3
    <2>. HIDE DEF P
    <2>. QED BY <1>5, <2>1
  <1>7. NextIn(order, order[i]) = order[q]
    <2>1. NextIn(order, order[i])
            = FirstBehind(order, CHOOSE k \in DOMAIN order : order[k] = order[i])
      BY DEF NextIn, FirstBehind
    <2>2. NextIn(order, order[i]) = FirstBehind(order, i) BY <1>4, <2>1
    <2>. QED BY <1>5, <2>2 DEF FirstBehind
  <1>8. \A k \in 1 .. n : i < k /\ k < q => LeftOut(order[k])
    <2>1. \A k \in 1 .. n : i < k /\ k < q => k \in i + 1 .. q - 1 BY <1>6
    <2>. QED BY <1>6, <2>1
  <1>. QED BY <1>6, <1>7, <1>8 DEF NextOk

LEMMA IndexFacts ==
  /\ \A p \in BuildPhase : Index(p) \in 1 .. 13 /\ BuildOrder[Index(p)] = p
  /\ \A i \in 1 .. 13 : Index(BuildOrder[i]) = i
  BY OrderFacts DEF Index

(* A handler that succeeds leads to a later one, and all that is between   *)
(* them is left out.                                                       *)
LEMMA AfterFacts ==
  ASSUME NEW p \in BuildPhase \ {"ready"}
  PROVE  /\ After(p) \in BuildPhase /\ ~LeftOut(After(p))
         /\ \A k \in BuildPhase : Before(k, After(p)) => Before(k, p) \/ k = p \/ LeftOut(k)
  <1>1. ~LeftOut(BuildOrder[13]) BY OrderFacts DEF LeftOut
  <1>2. Index(p) \in 1 .. 13 /\ Index(p) < 13 /\ BuildOrder[Index(p)] = p
    BY OrderFacts, IndexFacts
  <1>3. PICK j \in 1 .. 13 :
          /\ j > Index(p) /\ After(p) = BuildOrder[j] /\ ~LeftOut(BuildOrder[j])
          /\ \A k \in 1 .. 13 : Index(p) < k /\ k < j => LeftOut(BuildOrder[k])
    <2>. DEFINE i == Index(p)
    <2>1. i \in 1 .. 13 /\ i < 13 BY <1>2
    <2>. HIDE DEF i
    <2>2. NextOk(BuildOrder, 13, i)
      <3>1. /\ DOMAIN BuildOrder = 1 .. 13
            /\ \A x, y \in 1 .. 13 : BuildOrder[x] = BuildOrder[y] => x = y
        BY OrderFacts
      <3>2. 13 \in Nat OBVIOUS
      <3>. QED BY <1>1, <2>1, <3>1, <3>2, NextInOrder
    <2>. QED BY <1>2, <2>2 DEF i, After, NextOk
  <1>4. Index(After(p)) = j BY <1>3, IndexFacts
  <1>5. ASSUME NEW k \in BuildPhase, Before(k, After(p)) PROVE Before(k, p) \/ k = p \/ LeftOut(k)
    <2>1. Index(k) \in 1 .. 13 /\ Index(k) < j /\ BuildOrder[Index(k)] = k
      BY <1>4, <1>5, IndexFacts DEF Before
    <2>2. CASE Index(k) < Index(p) BY <2>2 DEF Before
    <2>3. CASE Index(k) = Index(p) BY <2>1, <2>3, <1>2
    <2>4. CASE Index(p) < Index(k) BY <2>1, <2>4, <1>3
    <2>. QED BY <2>1, <2>2, <2>3, <2>4, <1>2
  <1>. QED BY <1>3, <1>5, OrderFacts

LEMMA AfterDeleteFacts ==
  ASSUME NEW p \in DeletePhase \ {"dFinal"}
  PROVE  AfterDelete(p) \in DeletePhase \ {"dMachines"}
  <1>1. ~LeftOut(DeleteOrder[14]) BY DeleteOrderFacts DEF LeftOut
  <1>2. PICK i \in 1 .. 14 : DeleteOrder[i] = p BY DeleteOrderFacts
  <1>3. i < 14 BY <1>2, DeleteOrderFacts
  <1>4. PICK j \in 1 .. 14 : j > i /\ NextIn(DeleteOrder, DeleteOrder[i]) = DeleteOrder[j]
    <2>1. /\ DOMAIN DeleteOrder = 1 .. 14
          /\ \A x, y \in 1 .. 14 : DeleteOrder[x] = DeleteOrder[y] => x = y
      BY DeleteOrderFacts
    <2>2. 14 \in Nat OBVIOUS
    <2>3. NextOk(DeleteOrder, 14, i) BY <1>1, <1>3, <2>1, <2>2, NextInOrder
    <2>. QED BY <2>3 DEF NextOk
  <1>5. j # 1 BY <1>4
  <1>. QED BY <1>2, <1>4, <1>5, DeleteOrderFacts DEF AfterDelete
--------------------------------------------------------------------------------
(* Types. *)
LEMMA ReusedIds ==
  /\ FirstId \in Nat /\ FirstId > 1
  /\ \A x \in Ranges \cup SGNames \cup {Foreign} :
       ReusedId[x] \in Nat /\ 0 < ReusedId[x] /\ ReusedId[x] < FirstId
  <1>1. ReusedId[Pub] \in 2 .. FirstId - 1 BY NamesAssumption
  <1>. QED BY <1>1, NamesAssumption

LEMMA TheIdFacts ==
  ASSUME NEW S
  PROVE  /\ S = {} => TheId(S) = 0
         /\ S # {} => \E x \in S : TheId(S) = x.id
  <1>1. CASE S = {} BY <1>1 DEF TheId
  <1>2. CASE S # {}
    <2>1. (CHOOSE x \in S : TRUE) \in S BY <1>2
    <2>. QED BY <1>2, <2>1 DEF TheId
  <1>. QED BY <1>1, <1>2

LEMMA FirstOfType ==
  ASSUME NEW S, \A x \in S : x.id \in Nat, NEW i \in Nat
  PROVE  FirstOf(i, S) \in Nat
  <1>1. TheId(S) \in Nat BY TheIdFacts
  <1>. QED BY <1>1 DEF FirstOf

LEMMA NewType ==
  ASSUME NEW s \in Specs, NEW o \in Configs
  PROVE  NewOscCluster(s, o) \in OscCluster
  <1>1. NoResources \in Resources BY DEF NoResources, Resources, Id
  <1>. QED BY <1>1 DEF NewOscCluster, OscCluster

LEMMA NoScopeType == NoScope \in OscCluster
  <1>1. (CHOOSE s \in Specs : TRUE) \in Specs /\ (CHOOSE o \in Configs : TRUE) \in Configs
    BY ScopeAssumption
  <1>. QED BY <1>1, NewType DEF NoScope

LEMMA CloudFields ==
  ASSUME TypeOK
  PROVE  /\ cloud.next \in Nat
         /\ cloud.nets \subseteq Net /\ cloud.subnets \subseteq Subnet
         /\ cloud.iss \subseteq InternetService /\ cloud.rts \subseteq RouteTable
         /\ cloud.nats \subseteq NatService /\ cloud.ips \subseteq Nat
         /\ cloud.sgs \subseteq SecurityGroup /\ cloud.lb \in LbState
         /\ cloud.vms \subseteq Vm /\ cloud.peerings \subseteq NetPeering
         /\ cloud.naps \subseteq NetAccessPoint /\ cloud.mgmt \subseteq Nat
  BY DEF TypeOK, Cloud, Id

(* Every request leaves a cloud. *)
LEMMA RequestTypes ==
  ASSUME TypeOK, NEW i \in Nat, NEW j \in Nat
  PROVE  /\ NetCreated \in Cloud /\ NetTagged(i) \in Cloud /\ NetDeleted(i) \in Cloud
         /\ \A r \in Ranges : SubnetCreated(i, r) \in Cloud
         /\ SubnetDeleted(i) \in Cloud
         /\ InternetServiceCreated \in Cloud /\ InternetServiceLinked(i, j) \in Cloud
         /\ InternetServiceUnlinked(i) \in Cloud /\ InternetServiceDeleted(i) \in Cloud
         /\ RouteTableCreated(i) \in Cloud /\ RouteTableLinked(i, j) \in Cloud
         /\ RouteTableUnlinked(i) \in Cloud /\ RouteTableDeleted(i) \in Cloud
         /\ RouteCreated(i) \in Cloud
         /\ NetPeeringCreated(i) \in Cloud /\ NetPeeringTagged(i) \in Cloud
         /\ \A s \in PeeringState : NetPeeringIs(i, s) \in Cloud
         /\ PeeringRouteSet(i, j) \in Cloud
         /\ ManagementRouteCreated(i) \in Cloud /\ ManagementRouteDeleted(i) \in Cloud
         /\ \A T \in SUBSET Nat : NetAccessPointCreated(i, T) \in Cloud
         /\ NetAccessPointDeleted(i) \in Cloud
         /\ PublicIpCreated \in Cloud /\ PublicIpDeleted(i) \in Cloud
         /\ NatServiceCreated(i, j) \in Cloud /\ NatServiceDeleted(i) \in Cloud
         /\ \A s \in SGNames : SecurityGroupCreated(i, s) \in Cloud
         /\ SecurityGroupRuled(i) \in Cloud /\ SecurityGroupDeleted(i) \in Cloud
         /\ LoadBalancerCreated \in Cloud /\ LoadBalancerConfigured \in Cloud
         /\ LoadBalancerTagged \in Cloud /\ LoadBalancerDeleted \in Cloud
         /\ BastionCreated(i) \in Cloud /\ VmDeleted(i) \in Cloud
  <1>. USE DEF Id
  <1>0. cloud \in Cloud BY DEF TypeOK
  <1>next. cloud.next + 1 \in Nat BY CloudFields
  <1>1. NetCreated \in Cloud
    <2>0. [id |-> cloud.next, tagged |-> FALSE] \in Net
      BY CloudFields DEF Net
    <2>1. cloud.nets \cup {[id |-> cloud.next, tagged |-> FALSE]} \subseteq Net
      BY <2>0, CloudFields
    <2>. QED BY <1>0, <1>next, <2>1 DEF Cloud, NetCreated
  <1>1d. NetDeleted(i) \in Cloud BY <1>0 DEF Cloud, NetDeleted
  <1>2. NetTagged(i) \in Cloud
    <2>1. {IF n.id = i THEN [n EXCEPT !.tagged = TRUE] ELSE n : n \in cloud.nets} \subseteq Net
      BY CloudFields DEF Net
    <2>. QED BY <1>0, <2>1 DEF Cloud, NetTagged
  <1>3. \A r \in Ranges : SubnetCreated(i, r) \in Cloud
    <2>. TAKE r \in Ranges
    <2>0. [id |-> cloud.next, net |-> i, range |-> r] \in Subnet
      BY CloudFields DEF Subnet
    <2>1. cloud.subnets \cup {[id |-> cloud.next, net |-> i, range |-> r]} \subseteq Subnet
      BY <2>0, CloudFields
    <2>. QED BY <1>0, <1>next, <2>1 DEF Cloud, SubnetCreated
  <1>3d. SubnetDeleted(i) \in Cloud BY <1>0 DEF Cloud, SubnetDeleted
  <1>4. InternetServiceCreated \in Cloud
    <2>0. [id |-> cloud.next, net |-> 0] \in InternetService
      BY CloudFields DEF InternetService
    <2>1. cloud.iss \cup {[id |-> cloud.next, net |-> 0]} \subseteq InternetService
      BY <2>0, CloudFields
    <2>. QED BY <1>0, <1>next, <2>1 DEF Cloud, InternetServiceCreated
  <1>4d. InternetServiceDeleted(i) \in Cloud BY <1>0 DEF Cloud, InternetServiceDeleted
  <1>5. \A k \in Nat : InternetServiceLinked(i, k) \in Cloud
    <2>. TAKE k \in Nat
    <2>1. {IF x.id = i THEN [x EXCEPT !.net = k] ELSE x : x \in cloud.iss} \subseteq InternetService
      BY CloudFields DEF InternetService
    <2>. QED BY <1>0, <2>1 DEF Cloud, InternetServiceLinked
  <1>6. RouteTableCreated(i) \in Cloud
    <2>0. [id |-> cloud.next, net |-> i, sub |-> 0, routed |-> FALSE, peer |-> 0] \in RouteTable
      BY CloudFields DEF RouteTable
    <2>1. cloud.rts \cup {[id |-> cloud.next, net |-> i, sub |-> 0, routed |-> FALSE, peer |-> 0]} \subseteq RouteTable
      BY <2>0, CloudFields
    <2>. QED BY <1>0, <1>next, <2>1 DEF Cloud, RouteTableCreated
  <1>6d. RouteTableDeleted(i) \in Cloud BY <1>0 DEF Cloud, RouteTableDeleted
  <1>7. \A k \in Nat : RouteTableLinked(i, k) \in Cloud
    <2>. TAKE k \in Nat
    <2>1. {IF t.id = i THEN [t EXCEPT !.sub = k] ELSE t : t \in cloud.rts} \subseteq RouteTable
      BY CloudFields DEF RouteTable
    <2>. QED BY <1>0, <2>1 DEF Cloud, RouteTableLinked
  <1>8. RouteCreated(i) \in Cloud
    <2>1. {IF t.id = i THEN [t EXCEPT !.routed = TRUE] ELSE t : t \in cloud.rts} \subseteq RouteTable
      BY CloudFields DEF RouteTable
    <2>. QED BY <1>0, <2>1 DEF Cloud, RouteCreated
  <1>9. NetPeeringCreated(i) \in Cloud
    <2>0. [id |-> cloud.next, net |-> i, tagged |-> FALSE,
                              state |-> "pending-acceptance"] \in NetPeering
      BY CloudFields DEF NetPeering, PeeringState
    <2>1. cloud.peerings \cup {[id |-> cloud.next, net |-> i, tagged |-> FALSE,
                              state |-> "pending-acceptance"]} \subseteq NetPeering
      BY <2>0, CloudFields
    <2>. QED BY <1>0, <1>next, <2>1 DEF Cloud, NetPeeringCreated
  <1>10. NetPeeringTagged(i) \in Cloud
    <2>1. {IF p.id = i THEN [p EXCEPT !.tagged = TRUE] ELSE p : p \in cloud.peerings} \subseteq NetPeering
      BY CloudFields DEF NetPeering
    <2>. QED BY <1>0, <2>1 DEF Cloud, NetPeeringTagged
  <1>11. \A s \in PeeringState : NetPeeringIs(i, s) \in Cloud
    <2>. TAKE s \in PeeringState
    <2>1. {IF p.id = i THEN [p EXCEPT !.state = s] ELSE p : p \in cloud.peerings} \subseteq NetPeering
      BY CloudFields DEF NetPeering
    <2>. QED BY <1>0, <2>1 DEF Cloud, NetPeeringIs
  <1>12. PeeringRouteSet(i, j) \in Cloud
    <2>1. {IF t.id = i THEN [t EXCEPT !.peer = j] ELSE t : t \in cloud.rts} \subseteq RouteTable
      BY CloudFields DEF RouteTable
    <2>. QED BY <1>0, <2>1 DEF Cloud, PeeringRouteSet
  <1>13. ManagementRouteCreated(i) \in Cloud /\ ManagementRouteDeleted(i) \in Cloud
    BY <1>0 DEF Cloud, ManagementRouteCreated, ManagementRouteDeleted
  <1>14. \A T \in SUBSET Nat : NetAccessPointCreated(i, T) \in Cloud
    <2>. TAKE T \in SUBSET Nat
    <2>0. [id |-> cloud.next, net |-> i, rts |-> T] \in NetAccessPoint
      BY CloudFields DEF NetAccessPoint
    <2>1. cloud.naps \cup {[id |-> cloud.next, net |-> i, rts |-> T]} \subseteq NetAccessPoint
      BY <2>0, CloudFields
    <2>. QED BY <1>0, <1>next, <2>1 DEF Cloud, NetAccessPointCreated
  <1>14d. NetAccessPointDeleted(i) \in Cloud BY <1>0 DEF Cloud, NetAccessPointDeleted
  <1>15. PublicIpCreated \in Cloud
    <2>1. cloud.ips \cup {cloud.next} \subseteq Nat BY CloudFields
    <2>. QED BY <1>0, <1>next, <2>1 DEF Cloud, PublicIpCreated
  <1>15d. PublicIpDeleted(i) \in Cloud BY <1>0 DEF Cloud, PublicIpDeleted
  <1>16. NatServiceCreated(i, j) \in Cloud
    <2>0. [id |-> cloud.next, net |-> i, ip |-> j, deleting |-> FALSE] \in NatService
      BY CloudFields DEF NatService
    <2>1. cloud.nats \cup {[id |-> cloud.next, net |-> i, ip |-> j, deleting |-> FALSE]} \subseteq NatService
      BY <2>0, CloudFields
    <2>. QED BY <1>0, <1>next, <2>1 DEF Cloud, NatServiceCreated
  <1>17. NatServiceDeleted(i) \in Cloud
    <2>1. {IF n.id = i THEN [n EXCEPT !.deleting = TRUE] ELSE n : n \in cloud.nats} \subseteq NatService
      BY CloudFields DEF NatService
    <2>. QED BY <1>0, <2>1 DEF Cloud, NatServiceDeleted
  <1>18. \A s \in SGNames : SecurityGroupCreated(i, s) \in Cloud
    <2>. TAKE s \in SGNames
    <2>0. [id |-> cloud.next, net |-> i, name |-> s, ruled |-> FALSE] \in SecurityGroup
      BY CloudFields DEF SecurityGroup
    <2>1. cloud.sgs \cup {[id |-> cloud.next, net |-> i, name |-> s, ruled |-> FALSE]} \subseteq SecurityGroup
      BY <2>0, CloudFields
    <2>. QED BY <1>0, <1>next, <2>1 DEF Cloud, SecurityGroupCreated
  <1>18d. SecurityGroupDeleted(i) \in Cloud BY <1>0 DEF Cloud, SecurityGroupDeleted
  <1>19. SecurityGroupRuled(i) \in Cloud
    <2>1. {IF g.id = i THEN [g EXCEPT !.ruled = TRUE] ELSE g : g \in cloud.sgs} \subseteq SecurityGroup
      BY CloudFields DEF SecurityGroup
    <2>. QED BY <1>0, <2>1 DEF Cloud, SecurityGroupRuled
  <1>20. /\ LoadBalancerCreated \in Cloud /\ LoadBalancerConfigured \in Cloud
         /\ LoadBalancerTagged \in Cloud /\ LoadBalancerDeleted \in Cloud
    BY <1>0 DEF Cloud, LoadBalancerCreated, LoadBalancerConfigured, LoadBalancerTagged,
                LoadBalancerDeleted, LbState
  <1>21. BastionCreated(i) \in Cloud
    <2>0. [id |-> cloud.next, ip |-> i, state |-> "pending"] \in Vm
      BY CloudFields DEF Vm, VmState
    <2>1. cloud.vms \cup {[id |-> cloud.next, ip |-> i, state |-> "pending"]} \subseteq Vm
      BY <2>0, CloudFields
    <2>. QED BY <1>0, <1>next, <2>1 DEF Cloud, BastionCreated
  <1>22. VmDeleted(i) \in Cloud
    <2>1. {IF v.id = i THEN [v EXCEPT !.state = "shutting-down"] ELSE v : v \in cloud.vms} \subseteq Vm
      BY CloudFields DEF Vm, VmState
    <2>. QED BY <1>0, <2>1 DEF Cloud, VmDeleted
  <1>23. InternetServiceUnlinked(i) \in Cloud /\ RouteTableUnlinked(i) \in Cloud
    BY <1>5, <1>7 DEF InternetServiceUnlinked, RouteTableUnlinked
  <1>. QED BY <1>1, <1>1d, <1>2, <1>3, <1>3d, <1>4, <1>4d, <1>5, <1>6, <1>6d, <1>7, <1>8, <1>9, <1>10,
              <1>11, <1>12, <1>13, <1>14, <1>14d, <1>15, <1>15d, <1>16, <1>17, <1>18, <1>18d, <1>19,
              <1>20, <1>21, <1>22, <1>23

(* What a lookup may find. *)
LEMMA LookupTypes ==
  ASSUME TypeOK, NEW m \in OscCluster
  PROVE  /\ NetId(m) \in Nat
         /\ \A r \in Ranges : SubnetId(m, r) \in Nat
         /\ InternetServiceId(m) \in Nat /\ NatServiceId(m) \in Nat
         /\ NetPeeringId(m) \in Nat /\ NetAccessPointId(m) \in Nat
         /\ \A s \in SGNames : SecurityGroupId(m, s) \in Nat
         /\ BastionId(m) \in Nat
  <1>0. m.st \in Resources BY DEF OscCluster
  <1>1. NetId(m) \in Nat
    <2>1. \A x \in {n \in cloud.nets : n.tagged} : x.id \in Nat BY CloudFields DEF Net, Id
    <2>2. FirstOf(m.st.net, {n \in cloud.nets : n.tagged}) \in Nat
      BY <1>0, <2>1, FirstOfType DEF Resources, Id
    <2>. QED BY <2>2 DEF NetId, ReusedNet
  <1>2. ASSUME NEW r \in Ranges PROVE SubnetId(m, r) \in Nat
    <2>. DEFINE S == {s \in cloud.subnets : s.net = NetId(m) /\ s.range = r}
    <2>1. \A x \in S : x.id \in Nat BY CloudFields DEF Subnet, Id
    <2>2. m.st.sn[r] \in Nat BY <1>0 DEF Resources, Id
    <2>. HIDE DEF S
    <2>3. FirstOf(m.st.sn[r], S) \in Nat BY <2>1, <2>2, FirstOfType
    <2>. QED BY <2>3, ReusedIds DEF SubnetId, S
  <1>3. InternetServiceId(m) \in Nat
    <2>. DEFINE S == {i \in cloud.iss : NetId(m) # 0 /\ i.net = NetId(m)}
    <2>1. \A x \in S : x.id \in Nat BY CloudFields DEF InternetService, Id
    <2>2. m.st.is \in Nat BY <1>0 DEF Resources, Id
    <2>. HIDE DEF S
    <2>3. FirstOf(m.st.is, S) \in Nat BY <2>1, <2>2, FirstOfType
    <2>. QED BY <2>3 DEF InternetServiceId, S
  <1>4. NatServiceId(m) \in Nat
    <2>1. \A x \in cloud.nats : x.id \in Nat BY CloudFields DEF NatService, Id
    <2>. QED BY <1>0, <2>1, FirstOfType DEF NatServiceId, Resources, Id
  <1>5. NetPeeringId(m) \in Nat
    <2>. DEFINE S == {p \in cloud.peerings : p.tagged}
    <2>1. \A x \in S : x.id \in Nat BY CloudFields DEF NetPeering, Id
    <2>2. m.st.peer \in Nat BY <1>0 DEF Resources, Id
    <2>. HIDE DEF S
    <2>3. FirstOf(m.st.peer, S) \in Nat BY <2>1, <2>2, FirstOfType
    <2>. QED BY <2>3 DEF NetPeeringId, S
  <1>6. NetAccessPointId(m) \in Nat
    <2>. DEFINE S == {n \in cloud.naps : NetId(m) # 0 /\ n.net = NetId(m)}
    <2>1. \A x \in S : x.id \in Nat BY CloudFields DEF NetAccessPoint, Id
    <2>2. m.st.nap \in Nat BY <1>0 DEF Resources, Id
    <2>. HIDE DEF S
    <2>3. FirstOf(m.st.nap, S) \in Nat BY <2>1, <2>2, FirstOfType
    <2>. QED BY <2>3 DEF NetAccessPointId, S
  <1>7. ASSUME NEW s \in SGNames PROVE SecurityGroupId(m, s) \in Nat
    <2>. DEFINE S == {g \in cloud.sgs : g.name = s}
    <2>1. \A x \in S : x.id \in Nat BY CloudFields DEF SecurityGroup, Id
    <2>2. m.st.sg[s] \in Nat BY <1>0 DEF Resources, Id
    <2>. HIDE DEF S
    <2>3. FirstOf(m.st.sg[s], S) \in Nat BY <2>1, <2>2, FirstOfType
    <2>. QED BY <2>3, ReusedIds DEF SecurityGroupId, S
  <1>8. BastionId(m) \in Nat
    <2>1. \A x \in cloud.vms : x.id \in Nat BY CloudFields DEF Vm, Id
    <2>. QED BY <1>0, <2>1, FirstOfType DEF BastionId, Resources, Id
  <1>. QED BY <1>1, <1>2, <1>3, <1>4, <1>5, <1>6, <1>7, <1>8

(* Changes of one field of a copy. *)
Heir(m, n) ==
  n \in OscCluster /\ n.gen = m.gen /\ n.spec = m.spec /\ n.del = m.del /\ n.fin = m.fin

LEMMA UpdateTypes ==
  ASSUME NEW m \in OscCluster, NEW i \in Nat
  PROVE  /\ Heir(m, m)
         /\ Heir(m, [m EXCEPT !.st.net = i]) /\ Heir(m, [m EXCEPT !.st.is = i])
         /\ Heir(m, [m EXCEPT !.st.nat = i]) /\ Heir(m, [m EXCEPT !.st.natIp = i])
         /\ Heir(m, [m EXCEPT !.st.vm = i]) /\ Heir(m, [m EXCEPT !.st.vmIp = i])
         /\ Heir(m, [m EXCEPT !.st.peer = i]) /\ Heir(m, [m EXCEPT !.st.nap = i])
         /\ \A r \in Ranges : Heir(m, [m EXCEPT !.st.sn[r] = i])
         /\ \A s \in SGNames : Heir(m, [m EXCEPT !.st.sg[s] = i])
         /\ \A k \in Reconcilers : Heir(m, Recorded(m, k))
         /\ Heir(m, [m EXCEPT !.ep = TRUE]) /\ Heir(m, [m EXCEPT !.ready = TRUE])
  <1>. USE DEF Heir, OscCluster, Resources, Id
  <1>1. /\ Heir(m, m)
        /\ Heir(m, [m EXCEPT !.st.net = i]) /\ Heir(m, [m EXCEPT !.st.is = i])
        /\ Heir(m, [m EXCEPT !.st.nat = i]) /\ Heir(m, [m EXCEPT !.st.natIp = i])
    OBVIOUS
  <1>2. /\ Heir(m, [m EXCEPT !.st.vm = i]) /\ Heir(m, [m EXCEPT !.st.vmIp = i])
        /\ Heir(m, [m EXCEPT !.st.peer = i]) /\ Heir(m, [m EXCEPT !.st.nap = i])
    OBVIOUS
  <1>3. \A r \in Ranges : Heir(m, [m EXCEPT !.st.sn[r] = i]) OBVIOUS
  <1>4. \A s \in SGNames : Heir(m, [m EXCEPT !.st.sg[s] = i]) OBVIOUS
  <1>5. \A k \in Reconcilers : Heir(m, Recorded(m, k)) BY DEF Recorded
  <1>6. Heir(m, [m EXCEPT !.ep = TRUE]) /\ Heir(m, [m EXCEPT !.ready = TRUE]) OBVIOUS
  <1>. QED BY <1>1, <1>2, <1>3, <1>4, <1>5, <1>6

LEMMA WithTypes ==
  ASSUME TypeOK, NEW m \in OscCluster
  PROVE  /\ Heir(m, WithNet(m)) /\ Heir(m, WithService(m)) /\ Heir(m, WithPeering(m))
         /\ Heir(m, WithNet(WithPeering(m))) /\ Heir(m, WithPrivateSubnets(m)) /\ Heir(m, WithEndpoint(m))
         /\ \A r \in Ranges : Heir(m, WithTarget(m, r))
         /\ \A r \in Ranges, i \in Nat : Heir(m, WithSubnet(m, r, i))
         /\ \A s \in SGNames, i \in Nat : Heir(m, WithGroup(m, s, i))
         /\ BastionId(m) \in Ids(cloud.vms) =>
              /\ BastionVm(m) \in cloud.vms /\ BastionVm(m).id = BastionId(m)
              /\ Heir(m, WithBastion(m))
  <1>1. \A n \in OscCluster : Heir(n, WithNet(n))
    BY UpdateTypes, LookupTypes DEF WithNet
  <1>2. Heir(m, WithService(m))
    <2>. DEFINE w == WithNet(m)
    <2>1. Heir(m, w) BY <1>1
    <2>2. InternetServiceId(m) \in Nat BY LookupTypes
    <2>3. WithService(m) = [w EXCEPT !.st.is = InternetServiceId(m)] BY DEF WithService
    <2>. HIDE DEF w
    <2>5. w \in OscCluster BY <2>1 DEF Heir
    <2>4. Heir(w, WithService(m)) BY <2>2, <2>3, <2>5, UpdateTypes
    <2>. QED BY <2>1, <2>4 DEF Heir
  <1>3. Heir(m, WithPeering(m)) BY UpdateTypes, LookupTypes DEF WithPeering
  <1>4. Heir(m, WithNet(WithPeering(m)))
    <2>1. WithPeering(m) \in OscCluster BY <1>3 DEF Heir
    <2>2. Heir(WithPeering(m), WithNet(WithPeering(m))) BY <1>1, <2>1
    <2>. QED BY <1>3, <2>2 DEF Heir
  <1>5. Heir(m, WithPrivateSubnets(m))
    <2>. DEFINE w == WithNet(m)
                f == [r \in Ranges |-> IF r \in m.spec \ {Pub} THEN SubnetId(m, r) ELSE w.st.sn[r]]
    <2>1. Heir(m, w) BY <1>1
    <2>2. f \in [Ranges -> Nat]
      <3>1. \A r \in Ranges : SubnetId(m, r) \in Nat BY LookupTypes
      <3>2. \A r \in Ranges : w.st.sn[r] \in Nat BY <2>1 DEF Heir, OscCluster, Resources, Id
      <3>. HIDE DEF w
      <3>. QED BY <3>1, <3>2
    <2>3. CASE ReuseNet BY <2>3, UpdateTypes DEF WithPrivateSubnets
    <2>4. CASE ~ReuseNet
      <3>1. WithPrivateSubnets(m) = [w EXCEPT !.st.sn = f] BY <2>4 DEF WithPrivateSubnets
      <3>. HIDE DEF w, f
      <3>. QED BY <2>1, <2>2, <3>1 DEF Heir, OscCluster, Resources, Id
    <2>. QED BY <2>3, <2>4
  <1>6. Heir(m, WithEndpoint(m))
    <2>. DEFINE w == [m EXCEPT !.ep = TRUE]
    <2>1. Heir(m, w) BY UpdateTypes
    <2>2. WithEndpoint(m) = Recorded(w, "loadbalancer") BY DEF WithEndpoint
    <2>. HIDE DEF w
    <2>4. w \in OscCluster /\ "loadbalancer" \in Reconcilers BY <2>1 DEF Heir, Reconcilers
    <2>3. Heir(w, WithEndpoint(m)) BY <2>2, <2>4, UpdateTypes
    <2>. QED BY <2>1, <2>3 DEF Heir
  <1>7. \A r \in Ranges : Heir(m, WithTarget(m, r))
    BY UpdateTypes, LookupTypes DEF WithTarget, RouteTarget
  <1>8. \A r \in Ranges, i \in Nat : Heir(m, WithSubnet(m, r, i)) BY UpdateTypes DEF WithSubnet
  <1>9. \A s \in SGNames, i \in Nat : Heir(m, WithGroup(m, s, i)) BY UpdateTypes DEF WithGroup
  <1>10. ASSUME BastionId(m) \in Ids(cloud.vms)
         PROVE  /\ BastionVm(m) \in cloud.vms /\ BastionVm(m).id = BastionId(m)
                /\ Heir(m, WithBastion(m))
    <2>. DEFINE v == BastionVm(m)
    <2>1. v \in cloud.vms /\ v.id = BastionId(m) BY <1>10 DEF BastionVm, Ids
    <2>2. v.id \in Nat /\ v.ip \in Nat BY <2>1, CloudFields DEF Vm, Id
    <2>3. m.st.vmIp \in Nat BY DEF OscCluster, Resources, Id
    <2>. DEFINE x == IF HoldsIp(v) /\ m.st.vmIp = 0 THEN v.ip ELSE m.st.vmIp
                n == [m EXCEPT !.st.vm = v.id]
    <2>4. WithBastion(m) = [n EXCEPT !.st.vmIp = x] BY DEF WithBastion, OscCluster, Resources
    <2>6. x \in Nat BY <2>2, <2>3
    <2>. HIDE DEF v, x
    <2>7. Heir(m, n) BY <2>2, UpdateTypes
    <2>8. n \in OscCluster BY <2>7 DEF Heir
    <2>. HIDE DEF n
    <2>9. Heir(n, WithBastion(m)) BY <2>4, <2>6, <2>8, UpdateTypes
    <2>5. Heir(m, WithBastion(m)) BY <2>7, <2>9 DEF Heir
    <2>. QED BY <2>1, <2>5 DEF v
  <1>. QED BY <1>1, <1>2, <1>3, <1>4, <1>5, <1>6, <1>7, <1>8, <1>9, <1>10

LEMMA PhaseTypes ==
  /\ BuildPhase \subseteq Phase /\ DeletePhase \subseteq Phase
  /\ Reconcilers \subseteq BuildPhase
  BY DEF BuildPhase, DeletePhase, Phase, Reconcilers

LEMMA StartType == ASSUME NEW p \in Phase PROVE Start(p) \in Position
  BY NamesAssumption DEF Start, Position, Step, Id

LEMMA AfterType == ASSUME NEW p \in BuildPhase \ {"ready"} PROVE Start(After(p)) \in Position
  BY AfterFacts, PhaseTypes, StartType

LEMMA ProceedType == ASSUME NEW p \in DeletePhase \ {"dFinal"} PROVE Proceed(p) \in Position
  BY AfterDeleteFacts, PhaseTypes, StartType DEF Proceed

LEMMA PatchType == Start("patch") \in Position BY StartType DEF Phase

LEMMA ContinueType ==
  ASSUME TypeOK, NEW a \in Position, NEW m, Heir(mem, m), Continue(a, m)
  PROVE  TypeOK' /\ Heir(mem, mem')
  <1>1. at' = a /\ mem' = m /\ UNCHANGED <<cloud, obj, cache, old, machines, faults, edits>>
    BY DEF Continue
  <1>. QED BY <1>1 DEF TypeOK, Heir

LEMMA EndPassType ==
  ASSUME TypeOK, NEW m, Heir(mem, m), EndPass(m)
  PROVE  TypeOK' /\ Heir(mem, mem')
  BY ContinueType, PatchType DEF EndPass

LEMMA CallType ==
  ASSUME TypeOK, NEW after \in Cloud, NEW a \in Position, NEW seen, NEW m,
         Heir(mem, seen), Heir(mem, m), Call(after, a, seen, m)
  PROVE  TypeOK' /\ Heir(mem, mem')
  <1>1. UNCHANGED <<obj, cache, old, machines, edits>> BY DEF Call
  <1>2. faults' \in 0 .. MaxFaults BY ScopeAssumption DEF Call, TypeOK
  <1>3. cloud' \in Cloud BY DEF Call, TypeOK
  <1>4. at' \in Position BY PatchType DEF Call
  <1>5. Heir(mem, mem') BY DEF Call
  <1>. QED BY <1>1, <1>2, <1>3, <1>4, <1>5 DEF TypeOK, Heir

LEMMA DeleteCallType ==
  ASSUME TypeOK, NEW inUse, NEW after \in Cloud, NEW a \in Position, NEW seen, NEW m,
         Heir(mem, seen), Heir(mem, m), DeleteCall(inUse, after, a, seen, m)
  PROVE  TypeOK' /\ Heir(mem, mem')
  BY CallType, EndPassType DEF DeleteCall
--------------------------------------------------------------------------------
(* A step of a pass that builds takes nothing away. *)
Grows ==
  /\ Ids(Tagged(cloud.nets)) \subseteq Ids(Tagged(cloud'.nets))
  /\ cloud.subnets \subseteq cloud'.subnets
  /\ Linked \subseteq Linked'
  /\ \A t \in cloud.rts : t.sub # 0 =>
       \E u \in cloud'.rts : /\ u.sub = t.sub /\ (t.routed => u.routed)
                             /\ t.peer # 0 => u.peer = t.peer
  /\ cloud.nats \subseteq cloud'.nats
  /\ cloud.ips \subseteq cloud'.ips
  /\ \A g \in cloud.sgs : \E h \in cloud'.sgs : h.id = g.id /\ h.name = g.name /\ (g.ruled => h.ruled)
  /\ cloud.lb = "tagged" => cloud'.lb = "tagged"
  /\ \A v \in cloud.vms : \E w \in cloud'.vms : w.id = v.id /\ (v.state = "running" => w.state = "running")
  /\ \A p \in cloud.peerings : p.tagged =>
       \E q \in cloud'.peerings : q.id = p.id /\ q.tagged /\ (p.state = "active" => q.state = "active")
  /\ cloud.naps \subseteq cloud'.naps
  /\ cloud.mgmt \subseteq cloud'.mgmt

LEMMA GrowsFind ==
  ASSUME CloudOk, Grows, obj'.opt = obj.opt
  PROVE  /\ \A r \in Ranges : HasSubnet(r) => HasSubnet(r)'
         /\ \A r \in Ranges : HasTable(r) => HasTable(r)'
         /\ \A i \in cloud.mgmt : \A r \in Ranges : HasPeerRoute(r, i) => HasPeerRoute(r, i)'
         /\ \A s \in SGNames : HasGroup(s) => HasGroup(s)'
  <1>1. ASSUME NEW r \in Ranges, HasSubnet(r) PROVE HasSubnet(r)'
    BY <1>1 DEF Grows, HasSubnet, ReuseNet, Ids
  <1>2. ASSUME NEW t \in cloud.rts, NEW r \in Ranges, Serves(t, r)
        PROVE  /\ t.sub # 0
               /\ \A u : u.sub = t.sub => Serves(u, r)'
    <2>1. PICK s \in cloud.subnets : s.range = r /\ t.sub = s.id BY <1>2 DEF Serves
    <2>2. 0 < s.id BY DEF CloudOk, SubnetsOk, Known
    <2>3. s \in cloud'.subnets BY DEF Grows
    <2>. QED BY <2>1, <2>2, <2>3 DEF Serves
  <1>3. ASSUME NEW r \in Ranges, HasTable(r) PROVE HasTable(r)'
    <2>1. PICK t \in cloud.rts : Serves(t, r) /\ (Internet => t.routed) BY <1>3 DEF HasTable
    <2>2. t.sub # 0 BY <1>2, <2>1
    <2>3. PICK u \in cloud'.rts : u.sub = t.sub /\ (t.routed => u.routed) BY <2>2 DEF Grows
    <2>4. Serves(u, r)' BY <1>2, <2>1, <2>3
    <2>. QED BY <2>1, <2>3, <2>4 DEF HasTable, Internet
  <1>4. ASSUME NEW i \in cloud.mgmt, NEW r \in Ranges, HasPeerRoute(r, i) PROVE HasPeerRoute(r, i)'
    <2>1. PICK t \in cloud.rts : Serves(t, r) /\ t.peer = i BY <1>4 DEF HasPeerRoute
    <2>2. t.sub # 0 BY <1>2, <2>1
    <2>3. i # 0 BY DEF CloudOk, PeeringsOk, Active, Known
    <2>4. PICK u \in cloud'.rts : u.sub = t.sub /\ u.peer = t.peer BY <2>1, <2>2, <2>3 DEF Grows
    <2>5. Serves(u, r)' BY <1>2, <2>1, <2>4
    <2>. QED BY <2>1, <2>4, <2>5 DEF HasPeerRoute
  <1>5. ASSUME NEW s \in SGNames, HasGroup(s) PROVE HasGroup(s)' BY <1>5 DEF HasGroup, Grows
  <1>. QED BY <1>1, <1>3, <1>4, <1>5

(* What a reconciler has made stays made as the cloud grows. *)
LEMMA GrowsMade ==
  ASSUME CloudOk, Grows, obj'.opt = obj.opt, NEW s \in Specs, NEW k \in Reconcilers, Made(k, s)
  PROVE  Made(k, s)'
  <1>0. s \subseteq Ranges BY ScopeAssumption
  <1>1. CASE k = "net" BY <1>1 DEF Made, Grows, Ids, Tagged, ReuseNet
  <1>2. CASE k = "subnet" BY <1>0, <1>2, GrowsFind DEF Made
  <1>3. CASE k = "internetService" BY <1>3 DEF Made, Grows
  <1>4. CASE k = "routeTable" BY <1>0, <1>4, GrowsFind DEF Made
  <1>5. CASE k = "natService" BY <1>5 DEF Made, Grows
  <1>6. CASE k = "netPeering" BY <1>6 DEF Made, Grows
  <1>7. CASE k = "netPeeringRoutes"
    <2>1. PICK i \in cloud.mgmt : \A r \in s : HasPeerRoute(r, i) BY <1>7 DEF Made
    <2>2. i \in cloud'.mgmt /\ \A r \in s : HasPeerRoute(r, i)' BY <1>0, <2>1, GrowsFind DEF Grows
    <2>. QED BY <1>7, <2>2 DEF Made
  <1>8. CASE k = "netAccessPoint" BY <1>8 DEF Made, Grows
  <1>9. CASE k = "securityGroup" BY <1>9, GrowsFind DEF Made, ReuseSG
  <1>10. CASE k = "loadbalancer" BY <1>10 DEF Made, Grows
  <1>11. CASE k = "bastion" BY <1>11 DEF Made, Grows
  <1>. QED BY <1>1, <1>2, <1>3, <1>4, <1>5, <1>6, <1>7, <1>8, <1>9, <1>10, <1>11 DEF Reconcilers

LEMMA OwnedFacts ==
  /\ Owned \subseteq Reconcilers
  /\ \A k \in Owned : ~LeftOut(k)
  /\ obj'.opt = obj.opt => Owned' = Owned
  <1>1. Owned \subseteq Reconcilers BY DEF Owned, Reconcilers
  <1>2. \A k \in Owned : ~LeftOut(k) BY DEF Owned, LeftOut
  <1>3. obj'.opt = obj.opt => Owned' = Owned
    BY DEF Owned, LB, ReuseSG, ReuseNet, Internet, Bastion, Peering, Naps
  <1>. QED BY <1>1, <1>2, <1>3

LEMMA GrowsAll ==
  ASSUME CloudOk, Grows, obj'.opt = obj.opt, AllMade PROVE AllMade'
  BY GrowsMade, OwnedFacts DEF AllMade

LEMMA GrowsStatus ==
  ASSUME CloudOk, Grows, NEW m, StatusOk(m) PROVE StatusOk(m)'
  <1>1. m.st.net # 0 => m.st.net \in Ids(Tagged(cloud'.nets)) BY DEF StatusOk, Grows
  <1>2. \A r \in Ranges : m.st.sn[r] # 0 => \E s \in cloud'.subnets : s.id = m.st.sn[r] /\ s.range = r
    BY DEF StatusOk, Grows
  <1>3. /\ m.st.is # 0 => m.st.is \in Ids(Linked')
        /\ m.st.nat # 0 => m.st.nat \in Ids(cloud'.nats)
        /\ m.st.nap # 0 => m.st.nap \in Ids(cloud'.naps)
    BY DEF StatusOk, Grows, Ids
  <1>4. /\ m.st.natIp # 0 => m.st.natIp \in cloud'.ips
        /\ m.st.vmIp # 0 => m.st.vmIp \in cloud'.ips
    BY DEF StatusOk, Grows
  <1>5. m.st.vm # 0 => m.st.vm \in Ids(cloud'.vms) BY DEF StatusOk, Grows, Ids
  <1>6. m.st.peer # 0 => m.st.peer \in Ids(Tagged(cloud'.peerings)) BY DEF StatusOk, Grows, Ids, Tagged
  <1>7. \A s \in SGNames : m.st.sg[s] # 0 => \E g \in cloud'.sgs : g.id = m.st.sg[s] /\ g.name = s
    BY DEF StatusOk, Grows
  <1>. QED BY <1>1, <1>2, <1>3, <1>4, <1>5, <1>6, <1>7 DEF StatusOk, Tagged, Ids

(* So a copy of the object, however old, stays right as the cloud grows. *)
LEMMA GrowsCopy ==
  ASSUME CloudOk, Grows, obj'.opt = obj.opt, NEW m \in OscCluster, CopyOk(m) PROVE CopyOk(m)'
  <1>1. StatusOk(m)' BY GrowsStatus DEF CopyOk
  <1>2. RecordOk(m)'
    <2>1. m.spec \in Specs BY DEF OscCluster
    <2>. QED BY <2>1, GrowsMade DEF CopyOk, RecordOk
  <1>3. m.ready => AllMade' BY GrowsAll DEF CopyOk
  <1>. QED BY <1>1, <1>2, <1>3 DEF CopyOk
--------------------------------------------------------------------------------
(* Lookups, from whatever copy, find the one resource there is. *)
LEMMA NetLookup ==
  ASSUME CloudOk, ~ReuseNet, NEW m, StatusOk(m)
  PROVE  /\ Tagged(cloud.nets) = {} => NetId(m) = 0
         /\ \A n \in Tagged(cloud.nets) : NetId(m) = n.id /\ n.id # 0
  <1>1. NetId(m) = FirstOf(m.st.net, Tagged(cloud.nets)) BY DEF NetId, Tagged
  <1>2. \A n, o \in Tagged(cloud.nets) : n = o BY DEF CloudOk, NetsOk, AtMostOne
  <1>3. \A n \in Tagged(cloud.nets) : n.id # 0 BY DEF CloudOk, NetsOk, Known, Tagged
  <1>4. m.st.net # 0 => \E n \in Tagged(cloud.nets) : n.id = m.st.net BY DEF StatusOk, Ids
  <1>. QED BY <1>1, <1>2, <1>3, <1>4, TheIdFacts DEF FirstOf

LEMMA SubnetLookup ==
  ASSUME CloudOk, ~ReuseNet, NEW m, StatusOk(m), NEW r \in Ranges
  PROVE  /\ ~HasSubnet(r) => SubnetId(m, r) = 0
         /\ \A s \in cloud.subnets : s.range = r => SubnetId(m, r) = s.id /\ s.id # 0
         /\ SubnetFound(m, r) <=> HasSubnet(r)
         /\ SubnetId(m, r) # 0 <=> HasSubnet(r)
  <1>. DEFINE S == {s \in cloud.subnets : s.net = NetId(m) /\ s.range = r}
  <1>1. SubnetId(m, r) = FirstOf(m.st.sn[r], S) BY DEF SubnetId
  <1>2. \A s, t \in cloud.subnets : s.range = r /\ t.range = r => s = t BY DEF CloudOk, SubnetsOk
  <1>3. \A s \in cloud.subnets : s.id # 0 BY DEF CloudOk, SubnetsOk, Known
  <1>4. m.st.sn[r] # 0 => \E s \in cloud.subnets : s.id = m.st.sn[r] /\ s.range = r BY DEF StatusOk
  <1>5. \A s \in cloud.subnets : s.range = r => s \in S
    <2>1. \A s \in cloud.subnets : \E n \in Tagged(cloud.nets) : s.net = n.id
      BY DEF CloudOk, SubnetsOk, InNet
    <2>. QED BY <2>1, NetLookup
  <1>6. \A s \in S : s \in cloud.subnets /\ s.range = r OBVIOUS
  <1>. HIDE DEF S
  <1>7. \A s \in cloud.subnets : s.range = r => SubnetId(m, r) = s.id
    BY <1>1, <1>2, <1>4, <1>5, <1>6, TheIdFacts DEF FirstOf
  <1>8. (~\E s \in cloud.subnets : s.range = r) => SubnetId(m, r) = 0
    BY <1>1, <1>4, <1>6, TheIdFacts DEF FirstOf
  <1>. QED BY <1>3, <1>7, <1>8 DEF HasSubnet, SubnetFound, Ids

LEMMA ServiceLookup ==
  ASSUME CloudOk, ~ReuseNet, NEW m, StatusOk(m)
  PROVE  /\ Linked = {} => InternetServiceId(m) = 0
         /\ \A i \in Linked : InternetServiceId(m) = i.id /\ i.id # 0
         /\ LinkedService(m) <=> Linked # {}
         /\ Linked = {} => InternetServiceId(m) \notin Ids(cloud.iss)
  <1>. DEFINE S == {i \in cloud.iss : NetId(m) # 0 /\ i.net = NetId(m)}
  <1>1. InternetServiceId(m) = FirstOf(m.st.is, S) BY DEF InternetServiceId
  <1>2. \A i, j \in Linked : i = j BY DEF CloudOk, ServicesOk, AtMostOne
  <1>3. \A i \in cloud.iss : i.id # 0 BY DEF CloudOk, ServicesOk, Known
  <1>4. m.st.is # 0 => \E i \in Linked : i.id = m.st.is BY DEF StatusOk, Ids
  <1>5. \A i \in Linked : i \in S
    <2>1. \A i \in Linked : \E n \in Tagged(cloud.nets) : i.net = n.id BY DEF CloudOk, ServicesOk, InNet
    <2>. QED BY <2>1, NetLookup DEF Linked
  <1>6. \A i \in S : i \in Linked BY DEF Linked
  <1>7. \A i \in Linked : i \in cloud.iss /\ i.net # 0 BY DEF Linked
  <1>. HIDE DEF S
  <1>8. \A i \in Linked : InternetServiceId(m) = i.id
    BY <1>1, <1>2, <1>4, <1>5, <1>6, TheIdFacts DEF FirstOf
  <1>9. Linked = {} => InternetServiceId(m) = 0 BY <1>1, <1>4, <1>6, TheIdFacts DEF FirstOf
  <1>10. LinkedService(m) => Linked # {} BY DEF LinkedService, Linked
  <1>11. Linked # {} => LinkedService(m) BY <1>7, <1>8 DEF LinkedService
  <1>. QED BY <1>3, <1>7, <1>8, <1>9, <1>10, <1>11 DEF Ids

LEMMA NatLookup ==
  ASSUME CloudOk, NEW m, StatusOk(m)
  PROVE  /\ cloud.nats = {} => NatServiceId(m) = 0
         /\ \A n \in cloud.nats : NatServiceId(m) = n.id /\ n.id # 0
         /\ NatServiceId(m) \in Ids(cloud.nats) <=> cloud.nats # {}
  <1>1. \A n, o \in cloud.nats : n = o BY DEF CloudOk, NatsOk, AtMostOne
  <1>2. \A n \in cloud.nats : n.id # 0 BY DEF CloudOk, NatsOk, Known
  <1>3. m.st.nat # 0 => \E n \in cloud.nats : n.id = m.st.nat BY DEF StatusOk, Ids
  <1>4. \A n \in cloud.nats : NatServiceId(m) = n.id
    BY <1>1, <1>3, TheIdFacts DEF NatServiceId, FirstOf
  <1>5. cloud.nats = {} => NatServiceId(m) = 0 BY <1>3, TheIdFacts DEF NatServiceId, FirstOf
  <1>. QED BY <1>2, <1>4, <1>5 DEF Ids

LEMMA BastionLookup ==
  ASSUME CloudOk, NEW m, StatusOk(m)
  PROVE  /\ cloud.vms = {} => BastionId(m) = 0
         /\ \A v \in cloud.vms : BastionId(m) = v.id /\ v.id # 0
         /\ BastionId(m) \in Ids(cloud.vms) <=> cloud.vms # {}
  <1>1. \A v, w \in cloud.vms : v = w BY DEF CloudOk, VmsOk, AtMostOne
  <1>2. \A v \in cloud.vms : v.id # 0 BY DEF CloudOk, VmsOk, Known
  <1>3. m.st.vm # 0 => \E v \in cloud.vms : v.id = m.st.vm BY DEF StatusOk, Ids
  <1>4. \A v \in cloud.vms : BastionId(m) = v.id BY <1>1, <1>3, TheIdFacts DEF BastionId, FirstOf
  <1>5. cloud.vms = {} => BastionId(m) = 0 BY <1>3, TheIdFacts DEF BastionId, FirstOf
  <1>. QED BY <1>2, <1>4, <1>5 DEF Ids

LEMMA PeeringLookup ==
  ASSUME CloudOk, NEW m, StatusOk(m)
  PROVE  /\ Tagged(cloud.peerings) = {} => NetPeeringId(m) = 0
         /\ \A p \in Tagged(cloud.peerings) : NetPeeringId(m) = p.id /\ p.id # 0
         /\ NetPeeringId(m) \in Ids(cloud.peerings) <=> Tagged(cloud.peerings) # {}
         /\ \A p \in cloud.peerings : p.id = NetPeeringId(m) => p.tagged
  <1>1. NetPeeringId(m) = FirstOf(m.st.peer, Tagged(cloud.peerings)) BY DEF NetPeeringId, Tagged
  <1>2. \A p, q \in Tagged(cloud.peerings) : p = q BY DEF CloudOk, PeeringsOk, AtMostOne
  <1>3. \A p \in cloud.peerings : p.id # 0 BY DEF CloudOk, PeeringsOk, Known
  <1>4. m.st.peer # 0 => \E p \in Tagged(cloud.peerings) : p.id = m.st.peer BY DEF StatusOk, Ids
  <1>5. \A p \in Tagged(cloud.peerings) : p \in cloud.peerings /\ p.tagged BY DEF Tagged
  <1>6. \A p \in Tagged(cloud.peerings) : NetPeeringId(m) = p.id
    BY <1>1, <1>2, <1>4, TheIdFacts DEF FirstOf
  <1>7. Tagged(cloud.peerings) = {} => NetPeeringId(m) = 0 BY <1>1, <1>4, TheIdFacts DEF FirstOf
  <1>8. \A p, q \in cloud.peerings : p.id = q.id => p = q BY DEF CloudOk, PeeringsOk, Distinct
  <1>9. \A p \in cloud.peerings : p.id = NetPeeringId(m) => p.tagged
    BY <1>3, <1>5, <1>6, <1>7, <1>8
  <1>. QED BY <1>3, <1>5, <1>6, <1>7, <1>9 DEF Ids

LEMMA NapLookup ==
  ASSUME CloudOk, ~ReuseNet, NEW m, StatusOk(m)
  PROVE  /\ cloud.naps = {} => NetAccessPointId(m) = 0
         /\ \A n \in cloud.naps : NetAccessPointId(m) = n.id /\ n.id # 0
         /\ NetAccessPointId(m) \in Ids(cloud.naps) <=> cloud.naps # {}
  <1>. DEFINE S == {n \in cloud.naps : NetId(m) # 0 /\ n.net = NetId(m)}
  <1>1. NetAccessPointId(m) = FirstOf(m.st.nap, S) BY DEF NetAccessPointId
  <1>2. \A n, o \in cloud.naps : n = o BY DEF CloudOk, NapsOk, AtMostOne
  <1>3. \A n \in cloud.naps : n.id # 0 BY DEF CloudOk, NapsOk, Known
  <1>4. m.st.nap # 0 => \E n \in cloud.naps : n.id = m.st.nap BY DEF StatusOk, Ids
  <1>5. \A n \in cloud.naps : n \in S
    <2>1. \A x \in cloud.naps : \E n \in Tagged(cloud.nets) : x.net = n.id BY DEF CloudOk, NapsOk, InNet
    <2>. QED BY <2>1, NetLookup
  <1>6. \A n \in S : n \in cloud.naps OBVIOUS
  <1>. HIDE DEF S
  <1>7. \A n \in cloud.naps : NetAccessPointId(m) = n.id
    BY <1>1, <1>2, <1>4, <1>5, <1>6, TheIdFacts DEF FirstOf
  <1>8. cloud.naps = {} => NetAccessPointId(m) = 0 BY <1>1, <1>4, <1>6, TheIdFacts DEF FirstOf
  <1>. QED BY <1>3, <1>7, <1>8 DEF Ids

LEMMA GroupLookup ==
  ASSUME CloudOk, ~ReuseSG, NEW m, StatusOk(m), NEW s \in SGNames
  PROVE  /\ (~\E g \in cloud.sgs : g.name = s) => SecurityGroupId(m, s) = 0
         /\ \A g \in cloud.sgs : g.name = s => SecurityGroupId(m, s) = g.id /\ g.id # 0
         /\ SecurityGroupId(m, s) \in Ids(cloud.sgs) <=> \E g \in cloud.sgs : g.name = s
  <1>. DEFINE S == {g \in cloud.sgs : g.name = s}
  <1>1. SecurityGroupId(m, s) = FirstOf(m.st.sg[s], S) BY DEF SecurityGroupId
  <1>2. \A g, h \in S : g = h BY DEF CloudOk, GroupsOk, AtMostOne
  <1>3. \A g \in cloud.sgs : g.id # 0 BY DEF CloudOk, GroupsOk, Known
  <1>4. m.st.sg[s] # 0 => \E g \in S : g.id = m.st.sg[s] BY DEF StatusOk
  <1>5. \A g \in S : g \in cloud.sgs /\ g.name = s OBVIOUS
  <1>6. \A g \in cloud.sgs : g.name = s => g \in S OBVIOUS
  <1>. HIDE DEF S
  <1>7. \A g \in S : SecurityGroupId(m, s) = g.id BY <1>1, <1>2, <1>4, TheIdFacts DEF FirstOf
  <1>8. S = {} => SecurityGroupId(m, s) = 0 BY <1>1, <1>4, TheIdFacts DEF FirstOf
  <1>. QED BY <1>3, <1>5, <1>6, <1>7, <1>8 DEF Ids

(* What is made is built, as every copy sees it. *)
LEMMA MadeIsBuilt ==
  ASSUME TypeOK, CloudOk, NEW m \in OscCluster, StatusOk(m), NEW k \in Reconcilers, Made(k, m.spec)
  PROVE  Built(k, m)
  <1>0. m.spec \subseteq Ranges /\ Pub \in m.spec BY ScopeAssumption DEF OscCluster
  <1>1. CASE k = "net"
    <2>1. CASE ReuseNet BY <1>1, <2>1 DEF Built, NetFound, NetId, CloudOk, NetsOk
    <2>2. CASE ~ReuseNet
      <3>1. PICK n \in Tagged(cloud.nets) : TRUE BY <1>1, <2>2 DEF Made
      <3>2. NetId(m) = n.id /\ n \in cloud.nets BY <2>2, <3>1, NetLookup DEF Tagged
      <3>. QED BY <1>1, <3>2 DEF Built, NetFound, Ids
    <2>. QED BY <2>1, <2>2
  <1>2. CASE k = "subnet"
    <2>1. \A r \in m.spec : HasSubnet(r) BY <1>2 DEF Made
    <2>2. CASE ReuseNet BY <1>2, <2>1, <2>2 DEF Built, SubnetFound, SubnetId, HasSubnet
    <2>3. CASE ~ReuseNet BY <1>0, <1>2, <2>1, <2>3, SubnetLookup DEF Built
    <2>. QED BY <2>2, <2>3
  <1>3. CASE k = "internetService"
    <2>1. Linked # {} BY <1>3 DEF Made
    <2>2. ~ReuseNet BY <2>1 DEF Linked, CloudOk, ServicesOk
    <2>. QED BY <1>3, <2>1, <2>2, ServiceLookup DEF Built
  <1>4. ASSUME NEW r \in m.spec, NEW t \in cloud.rts, Serves(t, r)
        PROVE  t \in TableOf(SubnetId(m, r))
    <2>1. PICK s \in cloud.subnets : s.range = r /\ t.sub = s.id BY <1>4 DEF Serves
    <2>2. ~ReuseNet BY DEF CloudOk, TablesOk
    <2>3. SubnetId(m, r) = s.id /\ s.id # 0 BY <1>0, <2>1, <2>2, SubnetLookup
    <2>. QED BY <2>1, <2>3 DEF TableOf
  <1>5. CASE k = "routeTable"
    <2>1. \A r \in m.spec : HasTable(r) BY <1>5 DEF Made
    <2>2. \A r \in m.spec : \E t \in TableOf(SubnetId(m, r)) : Internet => t.routed
      BY <1>4, <2>1 DEF HasTable
    <2>. QED BY <1>5, <2>2 DEF Built
  <1>6. CASE k = "natService"
    <2>1. PICK n \in cloud.nats : TRUE BY <1>6 DEF Made
    <2>2. n.id = NatServiceId(m) /\ n.ip \in cloud.ips BY <2>1, NatLookup DEF CloudOk, NatsOk
    <2>. QED BY <1>6, <2>1, <2>2 DEF Built
  <1>7. CASE k = "netPeering"
    <2>1. PICK p \in cloud.peerings : p.tagged /\ p.state = "active" BY <1>7 DEF Made
    <2>2. p.id = NetPeeringId(m) BY <2>1, PeeringLookup DEF Tagged
    <2>. QED BY <1>7, <2>1, <2>2 DEF Built, PeeringIs
  <1>8. CASE k = "netPeeringRoutes"
    <2>1. PICK i \in cloud.mgmt : \A r \in m.spec : HasPeerRoute(r, i) BY <1>8 DEF Made
    <2>2. PICK p \in cloud.peerings : p.id = i /\ p.tagged BY DEF CloudOk, PeeringsOk, Active
    <2>3. i = NetPeeringId(m) BY <2>2, PeeringLookup DEF Tagged
    <2>4. \A r \in m.spec : \E t \in TableOf(SubnetId(m, r)) : t.peer = i
      BY <1>4, <2>1 DEF HasPeerRoute
    <2>. QED BY <1>8, <2>1, <2>3, <2>4 DEF Built
  <1>9. CASE k = "netAccessPoint"
    <2>1. cloud.naps # {} BY <1>9 DEF Made
    <2>2. ~ReuseNet BY <2>1 DEF CloudOk, NapsOk
    <2>. QED BY <1>9, <2>1, <2>2, NapLookup DEF Built
  <1>10. CASE k = "securityGroup"
    <2>1. ~ReuseSG /\ \A s \in SGNames : HasGroup(s) BY <1>10 DEF Made
    <2>2. \A s \in SGNames : \E g \in cloud.sgs : g.id = SecurityGroupId(m, s) /\ g.ruled
      BY <2>1, GroupLookup DEF HasGroup
    <2>. QED BY <1>10, <2>2 DEF Built
  <1>11. CASE k = "loadbalancer" BY <1>11 DEF Made, Built
  <1>12. CASE k = "bastion"
    <2>1. PICK v \in cloud.vms : v.state = "running" BY <1>12 DEF Made
    <2>2. v.id = BastionId(m) /\ v.ip \in cloud.ips BY <2>1, BastionLookup DEF CloudOk, VmsOk
    <2>. QED BY <1>12, <2>1, <2>2 DEF Built
  <1>. QED BY <1>1, <1>2, <1>3, <1>5, <1>6, <1>7, <1>8, <1>9, <1>10, <1>11, <1>12 DEF Reconcilers

(* A copy stays right when it learns the id of what is there, or records   *)
(* what is made.                                                           *)
LEMMA SetFields ==
  ASSUME NEW m \in OscCluster, CopyOk(m)', NEW i \in Nat
  PROVE  /\ i = 0 \/ i \in Ids(Tagged(cloud'.nets)) => CopyOk([m EXCEPT !.st.net = i])'
         /\ i = 0 \/ i \in Ids(Linked') => CopyOk([m EXCEPT !.st.is = i])'
         /\ i = 0 \/ i \in Ids(cloud'.nats) => CopyOk([m EXCEPT !.st.nat = i])'
         /\ i = 0 \/ i \in cloud'.ips => CopyOk([m EXCEPT !.st.natIp = i])'
         /\ i = 0 \/ i \in Ids(cloud'.vms) => CopyOk([m EXCEPT !.st.vm = i])'
         /\ i = 0 \/ i \in cloud'.ips => CopyOk([m EXCEPT !.st.vmIp = i])'
         /\ i = 0 \/ i \in Ids(Tagged(cloud'.peerings)) => CopyOk([m EXCEPT !.st.peer = i])'
         /\ i = 0 \/ i \in Ids(cloud'.naps) => CopyOk([m EXCEPT !.st.nap = i])'
         /\ \A r \in Ranges : i = 0 \/ (\E s \in cloud'.subnets : s.id = i /\ s.range = r) =>
              CopyOk([m EXCEPT !.st.sn[r] = i])'
         /\ \A s \in SGNames : i = 0 \/ (\E g \in cloud'.sgs : g.id = i /\ g.name = s) =>
              CopyOk([m EXCEPT !.st.sg[s] = i])'
         /\ \A k \in Reconcilers : Made(k, m.spec)' => CopyOk(Recorded(m, k))'
         /\ CopyOk([m EXCEPT !.ep = TRUE])'
         /\ AllMade' => CopyOk([m EXCEPT !.ready = TRUE])'
         /\ \A f \in {"set", "removed"} : CopyOk([m EXCEPT !.fin = f])'
  <1>. USE DEF CopyOk
  <1>0. m.st \in Resources /\ m.rec \in [Reconcilers -> Nat] /\ m.gen \in Nat BY DEF OscCluster
  <1>1. i = 0 \/ i \in Ids(Tagged(cloud'.nets)) => CopyOk([m EXCEPT !.st.net = i])'
    BY <1>0 DEF OscCluster, Resources, StatusOk, RecordOk, Tagged, Ids
  <1>2. i = 0 \/ i \in Ids(Linked') => CopyOk([m EXCEPT !.st.is = i])'
    BY <1>0 DEF OscCluster, Resources, StatusOk, RecordOk, Ids
  <1>3. i = 0 \/ i \in Ids(cloud'.nats) => CopyOk([m EXCEPT !.st.nat = i])'
    BY <1>0 DEF OscCluster, Resources, StatusOk, RecordOk, Ids
  <1>4. i = 0 \/ i \in cloud'.ips => CopyOk([m EXCEPT !.st.natIp = i])'
    BY <1>0 DEF OscCluster, Resources, StatusOk, RecordOk
  <1>5. i = 0 \/ i \in Ids(cloud'.vms) => CopyOk([m EXCEPT !.st.vm = i])'
    BY <1>0 DEF OscCluster, Resources, StatusOk, RecordOk, Ids
  <1>6. i = 0 \/ i \in cloud'.ips => CopyOk([m EXCEPT !.st.vmIp = i])'
    BY <1>0 DEF OscCluster, Resources, StatusOk, RecordOk
  <1>7. i = 0 \/ i \in Ids(Tagged(cloud'.peerings)) => CopyOk([m EXCEPT !.st.peer = i])'
    BY <1>0 DEF OscCluster, Resources, StatusOk, RecordOk, Tagged, Ids
  <1>8. i = 0 \/ i \in Ids(cloud'.naps) => CopyOk([m EXCEPT !.st.nap = i])'
    BY <1>0 DEF OscCluster, Resources, StatusOk, RecordOk, Ids
  <1>9. \A r \in Ranges : i = 0 \/ (\E s \in cloud'.subnets : s.id = i /\ s.range = r) =>
          CopyOk([m EXCEPT !.st.sn[r] = i])'
    BY <1>0 DEF OscCluster, Resources, StatusOk, RecordOk
  <1>10. \A s \in SGNames : i = 0 \/ (\E g \in cloud'.sgs : g.id = i /\ g.name = s) =>
          CopyOk([m EXCEPT !.st.sg[s] = i])'
    BY <1>0 DEF OscCluster, Resources, StatusOk, RecordOk
  <1>11. \A k \in Reconcilers : Made(k, m.spec)' => CopyOk(Recorded(m, k))'
    BY <1>0 DEF OscCluster, Recorded, StatusOk, RecordOk
  <1>12. CopyOk([m EXCEPT !.ep = TRUE])' BY <1>0 DEF OscCluster, StatusOk, RecordOk
  <1>13. AllMade' => CopyOk([m EXCEPT !.ready = TRUE])' BY <1>0 DEF OscCluster, StatusOk, RecordOk
  <1>14. \A f \in {"set", "removed"} : CopyOk([m EXCEPT !.fin = f])'
    BY <1>0 DEF OscCluster, StatusOk, RecordOk
  <1>. QED BY <1>1, <1>2, <1>3, <1>4, <1>5, <1>6, <1>7, <1>8, <1>9, <1>10, <1>11, <1>12, <1>13, <1>14

LEMMA WithOk ==
  ASSUME TypeOK, CloudOk, Grows, obj'.opt = obj.opt, NEW c \in OscCluster, CopyOk(c)
  PROVE  /\ CopyOk(c)'
         /\ \A w : w = WithNet(c) \/ w = WithPeering(c) \/ w = WithNet(WithPeering(c)) => CopyOk(w)'
         /\ \A w : w = WithEndpoint(c) /\ Made("loadbalancer", c.spec)' => CopyOk(w)'
         /\ \A w : ~ReuseNet /\ (w = WithService(c) \/ w = WithPrivateSubnets(c)) => CopyOk(w)'
         /\ \A w : \A r \in Ranges : w = WithSubnet(c, r, SubnetId(c, r)) => CopyOk(w)'
         /\ \A w : \A r \in Ranges : ~ReuseNet /\ w = WithTarget(c, r) => CopyOk(w)'
         /\ \A w : \A s \in SGNames : w = WithGroup(c, s, SecurityGroupId(c, s)) => CopyOk(w)'
         /\ \A w : cloud.vms # {} /\ w = WithBastion(c) => CopyOk(w)'
  <1>0. CopyOk(c)' BY GrowsCopy
  <1>s. StatusOk(c) BY DEF CopyOk
  <1>1. ASSUME NEW d \in OscCluster, StatusOk(d), CopyOk(d)', NEW w, w = WithNet(d) PROVE CopyOk(w)'
    <2>1. CASE ReuseNet BY <1>1, <2>1 DEF WithNet
    <2>2. CASE ~ReuseNet
      <3>1. NetId(d) = 0 \/ NetId(d) \in Ids(Tagged(cloud'.nets))
        BY <1>1, <2>2, NetLookup DEF Grows, Ids
      <3>2. PICK i \in Nat : i = NetId(d) BY LookupTypes
      <3>3. w = [d EXCEPT !.st.net = i] BY <1>1, <2>2, <3>2 DEF WithNet
      <3>. QED BY <1>1, <3>1, <3>2, <3>3, SetFields
    <2>. QED BY <2>1, <2>2
  <1>2. ASSUME NEW w, w = WithPeering(c) PROVE CopyOk(w)' /\ StatusOk(w) /\ w \in OscCluster
    <2>1. NetPeeringId(c) = 0 \/ NetPeeringId(c) \in Ids(Tagged(cloud.peerings))
      BY <1>s, PeeringLookup DEF Ids
    <2>2. NetPeeringId(c) = 0 \/ NetPeeringId(c) \in Ids(Tagged(cloud'.peerings))
      BY <2>1 DEF Grows, Ids, Tagged
    <2>3. PICK i \in Nat : i = NetPeeringId(c) BY LookupTypes
    <2>4. w = [c EXCEPT !.st.peer = i] BY <1>2, <2>3 DEF WithPeering
    <2>5. CopyOk(w)' BY <1>0, <2>2, <2>3, <2>4, SetFields
    <2>6. StatusOk(w) BY <1>s, <2>1, <2>3, <2>4 DEF StatusOk, OscCluster, Resources
    <2>. QED BY <1>2, <2>5, <2>6, WithTypes DEF Heir
  <1>3. ASSUME NEW w, w = WithNet(WithPeering(c)) PROVE CopyOk(w)'
    <2>1. PICK d : d = WithPeering(c) OBVIOUS
    <2>2. CopyOk(d)' /\ StatusOk(d) /\ d \in OscCluster BY <1>2, <2>1
    <2>3. w = WithNet(d) BY <1>3, <2>1
    <2>. QED BY <1>1, <2>2, <2>3
  <1>4. ASSUME NEW w, w = WithEndpoint(c), Made("loadbalancer", c.spec)' PROVE CopyOk(w)'
    <2>1. PICK d : d = [c EXCEPT !.ep = TRUE] OBVIOUS
    <2>2. CopyOk(d)' BY <1>0, <2>1, SetFields
    <2>3. d \in OscCluster /\ d.spec = c.spec BY <2>1, UpdateTypes DEF Heir
    <2>4. w = Recorded(d, "loadbalancer") BY <1>4, <2>1 DEF WithEndpoint
    <2>5. "loadbalancer" \in Reconcilers BY DEF Reconcilers
    <2>6. Made("loadbalancer", d.spec)' BY <1>4, <2>3
    <2>. QED BY <2>2, <2>3, <2>4, <2>5, <2>6, SetFields
  <1>5. ASSUME NEW w, ~ReuseNet, w = WithService(c) PROVE CopyOk(w)'
    <2>1. PICK d : d = WithNet(c) OBVIOUS
    <2>2. CopyOk(d)' BY <1>0, <1>1, <1>s, <2>1
    <2>3. d \in OscCluster BY <2>1, WithTypes DEF Heir
    <2>4. PICK i \in Nat : i = InternetServiceId(c) BY LookupTypes
    <2>5. w = [d EXCEPT !.st.is = i] BY <1>5, <2>1, <2>4 DEF WithService
    <2>6. i = 0 \/ i \in Ids(Linked') BY <1>5, <1>s, <2>4, ServiceLookup DEF Grows, Ids
    <2>. QED BY <2>2, <2>3, <2>5, <2>6, SetFields
  <1>6. ASSUME NEW r \in Ranges
        PROVE  ReuseNet \/ SubnetId(c, r) = 0
                 \/ \E s \in cloud'.subnets : s.id = SubnetId(c, r) /\ s.range = r
    BY <1>s, SubnetLookup DEF HasSubnet, Grows
  <1>7. ASSUME NEW w, ~ReuseNet, w = WithPrivateSubnets(c) PROVE CopyOk(w)'
    <2>1. PICK d : d = WithNet(c) OBVIOUS
    <2>2. CopyOk(d)' BY <1>0, <1>1, <1>s, <2>1
    <2>3. d \in OscCluster BY <2>1, WithTypes DEF Heir
    <2>4. PICK f : f = [r \in Ranges |-> IF r \in c.spec \ {Pub} THEN SubnetId(c, r) ELSE d.st.sn[r]]
      OBVIOUS
    <2>5. w = [d EXCEPT !.st.sn = f] BY <1>7, <2>1, <2>4 DEF WithPrivateSubnets
    <2>6. \A r \in Ranges : f[r] # 0 => \E s \in cloud'.subnets : s.id = f[r] /\ s.range = r
      <3>1. \A r \in Ranges : d.st.sn[r] # 0 => \E s \in cloud'.subnets : s.id = d.st.sn[r] /\ s.range = r
        BY <2>2 DEF CopyOk, StatusOk
      <3>. QED BY <1>6, <1>7, <2>4, <3>1
    <2>7. StatusOk(w)' BY <2>2, <2>3, <2>5, <2>6 DEF CopyOk, StatusOk, OscCluster, Resources
    <2>8. RecordOk(w)' /\ w.ready = d.ready BY <2>2, <2>3, <2>5 DEF CopyOk, RecordOk, OscCluster
    <2>. QED BY <2>2, <2>7, <2>8 DEF CopyOk
  <1>8. ASSUME NEW w, NEW r \in Ranges, w = WithSubnet(c, r, SubnetId(c, r)) PROVE CopyOk(w)'
    <2>1. CASE ReuseNet BY <1>0, <1>8, <2>1 DEF WithSubnet
    <2>2. CASE ~ReuseNet
      <3>1. PICK i \in Nat : i = SubnetId(c, r) BY LookupTypes
      <3>2. w = [c EXCEPT !.st.sn[r] = i] BY <1>8, <2>2, <3>1 DEF WithSubnet
      <3>3. i = 0 \/ \E s \in cloud'.subnets : s.id = i /\ s.range = r BY <1>6, <2>2, <3>1
      <3>. QED BY <1>0, <3>2, <3>3, SetFields
    <2>. QED BY <2>1, <2>2
  <1>9. ASSUME NEW w, NEW r \in Ranges, ~ReuseNet, w = WithTarget(c, r) PROVE CopyOk(w)'
    <2>1. CASE r = Pub
      <3>1. PICK i \in Nat : i = InternetServiceId(c) BY LookupTypes
      <3>2. w = [c EXCEPT !.st.is = i] BY <1>9, <2>1, <3>1 DEF WithTarget, RouteTarget
      <3>3. i = 0 \/ i \in Ids(Linked') BY <1>9, <1>s, <3>1, ServiceLookup DEF Grows, Ids
      <3>. QED BY <1>0, <3>2, <3>3, SetFields
    <2>2. CASE r # Pub
      <3>1. PICK i \in Nat : i = NatServiceId(c) BY LookupTypes
      <3>2. w = [c EXCEPT !.st.nat = i] BY <1>9, <2>2, <3>1 DEF WithTarget, RouteTarget
      <3>3. i = 0 \/ i \in Ids(cloud'.nats) BY <1>s, <3>1, NatLookup DEF Grows, Ids
      <3>. QED BY <1>0, <3>2, <3>3, SetFields
    <2>. QED BY <2>1, <2>2
  <1>10. ASSUME NEW w, NEW s \in SGNames, w = WithGroup(c, s, SecurityGroupId(c, s)) PROVE CopyOk(w)'
    <2>1. CASE ReuseSG BY <1>0, <1>10, <2>1 DEF WithGroup
    <2>2. CASE ~ReuseSG
      <3>1. PICK i \in Nat : i = SecurityGroupId(c, s) BY LookupTypes
      <3>2. w = [c EXCEPT !.st.sg[s] = i] BY <1>10, <2>2, <3>1 DEF WithGroup
      <3>3. i = 0 \/ \E g \in cloud.sgs : g.id = i /\ g.name = s BY <1>s, <2>2, <3>1, GroupLookup
      <3>4. i = 0 \/ \E g \in cloud'.sgs : g.id = i /\ g.name = s BY <3>3 DEF Grows
      <3>. QED BY <1>0, <3>2, <3>4, SetFields
    <2>. QED BY <2>1, <2>2
  <1>11. ASSUME NEW w, cloud.vms # {}, w = WithBastion(c) PROVE CopyOk(w)'
    <2>1. BastionId(c) \in Ids(cloud.vms) BY <1>11, <1>s, BastionLookup
    <2>2. PICK v \in cloud.vms : v = BastionVm(c) BY <2>1, WithTypes
    <2>3. v.id \in Ids(cloud'.vms) /\ v.ip \in cloud'.ips BY DEF Grows, Ids, CloudOk, VmsOk
    <2>4. v.id \in Nat /\ v.ip \in Nat /\ c.st.vmIp \in Nat
      BY CloudFields DEF Vm, Id, OscCluster, Resources
    <2>5. PICK x \in Nat : x = IF HoldsIp(v) /\ c.st.vmIp = 0 THEN v.ip ELSE c.st.vmIp BY <2>4
    <2>6. PICK d : d = [c EXCEPT !.st.vm = v.id] OBVIOUS
    <2>7. d \in OscCluster BY <2>4, <2>6, UpdateTypes DEF Heir
    <2>8. CopyOk(d)' BY <1>0, <2>3, <2>4, <2>6, SetFields
    <2>9. w = [d EXCEPT !.st.vmIp = x]
      BY <1>11, <2>2, <2>5, <2>6 DEF WithBastion, OscCluster, Resources
    <2>10. x = 0 \/ x \in cloud'.ips BY <1>0, <2>3, <2>5 DEF CopyOk, StatusOk
    <2>. QED BY <2>7, <2>8, <2>9, <2>10, SetFields
  <1>. QED BY <1>0, <1>1, <1>s, <1>2, <1>3, <1>4, <1>5, <1>7, <1>8, <1>9, <1>10, <1>11
--------------------------------------------------------------------------------
(* A request that leaves alone what a part of CloudOk is about keeps it. *)
LEMMA GrowsSame == ASSUME cloud' = cloud PROVE Grows
  <1>1. Linked' = Linked BY DEF Linked
  <1>. QED BY <1>1 DEF Grows

LEMMA CloudSame == ASSUME cloud' = cloud, obj'.opt = obj.opt, CloudOk PROVE CloudOk'
  <1>1. ReuseNet' = ReuseNet /\ ReuseSG' = ReuseSG BY DEF ReuseNet, ReuseSG
  <1>2. Linked' = Linked BY DEF Linked
  <1>3. \A t, r : Serves(t, r)' <=> Serves(t, r) BY DEF Serves
  <1>4. \A i : Active(i)' <=> Active(i) BY DEF Active
  <1>5. Gateway' <=> Gateway BY <1>2, <1>3 DEF Gateway
  <1>6. \A S : Known(S)' <=> Known(S) BY DEF Known
  <1>7. \A S : InNet(S)' <=> InNet(S) BY DEF InNet, Tagged
  <1>8. NetsOk' /\ SubnetsOk' BY <1>1, <1>6, <1>7 DEF CloudOk, NetsOk, SubnetsOk
  <1>9. ServicesOk' /\ TablesOk' BY <1>1, <1>2, <1>3, <1>4, <1>6, <1>7 DEF CloudOk, ServicesOk, TablesOk
  <1>10. NatsOk' /\ PeeringsOk' BY <1>1, <1>4, <1>5, <1>6, <1>7 DEF CloudOk, NatsOk, PeeringsOk
  <1>11. NapsOk' /\ GroupsOk' /\ VmsOk'
    BY <1>1, <1>6, <1>7 DEF CloudOk, NapsOk, GroupsOk, VmsOk, ReusedGroups
  <1>. QED BY <1>8, <1>9, <1>10, <1>11 DEF CloudOk

(* What holds of a kind of resource that a step leaves alone. *)
LEMMA Unaffected ==
  ASSUME TypeOK, TypeOK', CloudOk, Grows, obj'.opt = obj.opt, cloud'.next >= cloud.next
  PROVE  /\ cloud'.next > 0
         /\ cloud'.nets = cloud.nets => NetsOk'
         /\ cloud'.subnets = cloud.subnets => SubnetsOk'
         /\ cloud'.iss = cloud.iss => ServicesOk'
         /\ cloud'.rts = cloud.rts => TablesOk'
         /\ cloud'.nats = cloud.nats => NatsOk'
         /\ cloud'.peerings = cloud.peerings /\ cloud'.mgmt = cloud.mgmt => PeeringsOk'
         /\ cloud'.naps = cloud.naps => NapsOk'
         /\ cloud'.sgs = cloud.sgs => GroupsOk'
         /\ cloud'.vms = cloud.vms => VmsOk'
         /\ \A i \in cloud.ips : 0 < i /\ i < cloud'.next
  <1>0. cloud.next \in Nat /\ cloud'.next \in Nat BY DEF TypeOK, Cloud, Id
  <1>1. ReuseNet' = ReuseNet /\ ReuseSG' = ReuseSG BY DEF ReuseNet, ReuseSG
  <1>2. \A S : (\A x \in S : x.id \in Nat) /\ Known(S) => Known(S)' BY <1>0 DEF Known
  <1>3. \A S : InNet(S) => InNet(S)'
    <2>1. \A n \in Tagged(cloud.nets) : \E o \in Tagged(cloud'.nets) : o.id = n.id BY DEF Grows, Ids
    <2>. QED BY <2>1 DEF InNet, Tagged
  <1>4. \A t, r : Serves(t, r) => Serves(t, r)' BY DEF Serves, Grows
  <1>5. \A i : Active(i) => Active(i)' BY DEF Active, Grows
  <1>6. Gateway => Gateway'
    <2>. HAVE Gateway
    <2>1. PICK t \in cloud.rts : t.routed /\ Serves(t, Pub) BY DEF Gateway
    <2>2. PICK s \in cloud.subnets : s.range = Pub /\ t.sub = s.id BY <2>1 DEF Serves
    <2>3. t.sub # 0 BY <2>2 DEF CloudOk, SubnetsOk, Known
    <2>4. PICK u \in cloud'.rts : u.sub = t.sub /\ (t.routed => u.routed) BY <2>3 DEF Grows
    <2>5. Serves(u, Pub)' BY <2>2, <2>4 DEF Serves, Grows
    <2>6. Linked' # {} BY DEF Gateway, Grows
    <2>. QED BY <2>1, <2>4, <2>5, <2>6 DEF Gateway
  <1>7. cloud'.next > 0 BY <1>0 DEF CloudOk
  <1>8. cloud'.nets = cloud.nets => NetsOk'
    <2>1. \A x \in cloud.nets : x.id \in Nat BY CloudFields DEF Net, Id
    <2>. QED BY <1>1, <1>2, <2>1 DEF CloudOk, NetsOk
  <1>9. cloud'.subnets = cloud.subnets => SubnetsOk'
    <2>1. \A x \in cloud.subnets : x.id \in Nat BY CloudFields DEF Subnet, Id
    <2>. QED BY <1>1, <1>2, <1>3, <2>1 DEF CloudOk, SubnetsOk
  <1>10. cloud'.iss = cloud.iss => ServicesOk'
    <2>1. \A x \in cloud.iss : x.id \in Nat BY CloudFields DEF InternetService, Id
    <2>2. cloud'.iss = cloud.iss => Linked' = Linked BY DEF Linked
    <2>. QED BY <1>1, <1>2, <1>3, <2>1, <2>2 DEF CloudOk, ServicesOk
  <1>11. cloud'.rts = cloud.rts => TablesOk'
    <2>1. \A x \in cloud.rts : x.id \in Nat BY CloudFields DEF RouteTable, Id
    <2>. QED BY <1>1, <1>2, <1>3, <1>4, <1>5, <2>1 DEF CloudOk, TablesOk
  <1>12. cloud'.nats = cloud.nats => NatsOk'
    <2>1. \A x \in cloud.nats : x.id \in Nat BY CloudFields DEF NatService, Id
    <2>. QED BY <1>1, <1>2, <1>3, <1>6, <2>1 DEF CloudOk, NatsOk, Grows
  <1>13. cloud'.peerings = cloud.peerings /\ cloud'.mgmt = cloud.mgmt => PeeringsOk'
    <2>1. \A x \in cloud.peerings : x.id \in Nat BY CloudFields DEF NetPeering, Id
    <2>. QED BY <1>1, <1>2, <1>3, <1>5, <2>1 DEF CloudOk, PeeringsOk
  <1>14. cloud'.naps = cloud.naps => NapsOk'
    <2>1. \A x \in cloud.naps : x.id \in Nat BY CloudFields DEF NetAccessPoint, Id
    <2>. QED BY <1>1, <1>2, <1>3, <2>1 DEF CloudOk, NapsOk
  <1>15. cloud'.sgs = cloud.sgs => GroupsOk'
    <2>1. \A x \in cloud.sgs : x.id \in Nat BY CloudFields DEF SecurityGroup, Id
    <2>. QED BY <1>1, <1>2, <2>1 DEF CloudOk, GroupsOk, ReusedGroups
  <1>16. cloud'.vms = cloud.vms => VmsOk'
    <2>1. \A x \in cloud.vms : x.id \in Nat BY CloudFields DEF Vm, Id
    <2>. QED BY <1>1, <1>2, <2>1 DEF CloudOk, VmsOk, Grows
  <1>17. \A i \in cloud.ips : 0 < i /\ i < cloud'.next
    <2>1. \A i \in cloud.ips : i \in Nat BY CloudFields
    <2>. QED BY <1>0, <2>1 DEF CloudOk
  <1>. QED BY <1>7, <1>8, <1>9, <1>10, <1>11, <1>12, <1>13, <1>14, <1>15, <1>16, <1>17

(* In such a cloud nothing is there twice. *)
LEMMA OkIsSingleNext == ASSUME CloudOk' PROVE NoDuplicates'
  <1>1. AtMostOne({n \in cloud'.nets : n.tagged}) BY DEF CloudOk, NetsOk, Tagged
  <1>2. AtMostOne({i \in cloud'.iss : i.net # 0}) BY DEF CloudOk, ServicesOk, Linked
  <1>3. \A r \in Ranges : AtMostOne({s \in cloud'.subnets : s.range = r})
    BY DEF CloudOk, SubnetsOk, AtMostOne
  <1>4. \A s \in cloud'.subnets : AtMostOne(TableOf(s.id)') BY DEF CloudOk, TablesOk, TableOf, AtMostOne
  <1>5. AtMostOne({p \in cloud'.peerings : p.tagged}) BY DEF CloudOk, PeeringsOk, Tagged
  <1>. QED BY <1>1, <1>2, <1>3, <1>4, <1>5 DEF CloudOk, NatsOk, VmsOk, NapsOk, GroupsOk, NoDuplicates

LEMMA OkIsKept == ASSUME CloudOk PROVE ReusedKept
  BY DEF CloudOk, NetsOk, SubnetsOk, GroupsOk, ReusedGroups, ReusedKept

LEMMA OkIsKeptNext == ASSUME CloudOk' PROVE ReusedKept'
  BY DEF CloudOk, NetsOk, SubnetsOk, GroupsOk, ReusedGroups, ReusedKept
--------------------------------------------------------------------------------
(* The public IPs.  A step that asks for none keeps the count, unless it   *)
(* gives up the one that a NAT service or bastion was to be created with;  *)
(* only a fault does that.                                                 *)
LEMMA IpsKept ==
  ASSUME TypeOK, TypeOK', IsFiniteSet(cloud.ips), IpsOwed, obj'.opt = obj.opt,
         cloud'.ips = cloud.ips,
         cloud.nats # {} => cloud'.nats # {}, cloud.vms # {} => cloud'.vms # {},
         \/ faults' = faults + 1
         \/ /\ faults' = faults
            /\ At("natService", "create") => cloud'.nats # {} \/ At("natService", "create")'
            /\ At("bastion", "create") => cloud'.vms # {} \/ At("bastion", "create")'
  PROVE  IsFiniteSet(cloud'.ips) /\ IpsOwed'
  <1>1. Internet' = Internet /\ Bastion' = Bastion BY DEF Internet, Bastion
  <1>2. Cardinality(cloud.ips) \in Nat BY FS_CardinalityType
  <1>3. faults \in Nat BY ScopeAssumption DEF TypeOK
  <1>4. ~(At("natService", "create") /\ At("bastion", "create")) BY DEF At
  <1>. DEFINE N == IF Internet /\ cloud.nats = {} /\ ~At("natService", "create") THEN 1 ELSE 0
              V == IF Bastion /\ cloud.vms = {} /\ ~At("bastion", "create") THEN 1 ELSE 0
  <1>5. Owed = N + V BY DEF Owed
  <1>6. CASE faults' = faults + 1
    <2>1. N' <= N + 1 /\ V' <= V + 1 /\ ~(N' = N + 1 /\ V' = V + 1) BY <1>1, <1>4
    <2>2. Owed' <= Owed + 1 BY <1>5, <2>1 DEF Owed
    <2>3. Owed \in Nat /\ Owed' \in Nat BY DEF Owed
    <2>. QED BY <1>1, <1>2, <1>3, <1>6, <2>2, <2>3 DEF IpsOwed
  <1>7. CASE faults' = faults /\ ~(faults' = faults + 1)
    <2>1. N' <= N /\ V' <= V BY <1>1, <1>7
    <2>2. Owed' <= Owed BY <1>5, <2>1 DEF Owed
    <2>3. Owed \in Nat /\ Owed' \in Nat BY DEF Owed
    <2>. QED BY <1>1, <1>2, <1>3, <1>7, <2>2, <2>3 DEF IpsOwed
  <1>. QED BY <1>6, <1>7

(* A new IP is one that was owed, or its request did not succeed. *)
LEMMA IpsAdded ==
  ASSUME TypeOK, TypeOK', IsFiniteSet(cloud.ips), IpsOwed, obj'.opt = obj.opt,
         cloud'.ips = cloud.ips \cup {cloud.next},
         cloud'.nats = cloud.nats, cloud'.vms = cloud.vms,
         ~At("natService", "create"), ~At("bastion", "create"),
         \/ faults' = faults + 1
         \/ /\ faults' = faults
            /\ \/ Internet /\ cloud.nats = {} /\ At("natService", "create")'
               \/ Bastion /\ cloud.vms = {} /\ At("bastion", "create")'
  PROVE  IsFiniteSet(cloud'.ips) /\ IpsOwed'
  <1>1. Internet' = Internet /\ Bastion' = Bastion BY DEF Internet, Bastion
  <1>2. Cardinality(cloud.ips) \in Nat BY FS_CardinalityType
  <1>3. faults \in Nat BY ScopeAssumption DEF TypeOK
  <1>4. /\ IsFiniteSet(cloud'.ips) /\ Cardinality(cloud'.ips) \in Nat
        /\ Cardinality(cloud'.ips) <= Cardinality(cloud.ips) + 1
    <2>1. PICK S, x : S = cloud.ips /\ x = cloud.next OBVIOUS
    <2>2. cloud'.ips = S \cup {x} /\ IsFiniteSet(S) BY <2>1
    <2>3. /\ IsFiniteSet(S \cup {x})
          /\ Cardinality(S \cup {x}) = Cardinality(S) \/ Cardinality(S \cup {x}) = Cardinality(S) + 1
      BY <2>2, FS_AddElement
    <2>4. Cardinality(S) \in Nat BY <2>2, FS_CardinalityType
    <2>. QED BY <2>1, <2>2, <2>3, <2>4
  <1>. DEFINE N == IF Internet /\ cloud.nats = {} /\ ~At("natService", "create") THEN 1 ELSE 0
              V == IF Bastion /\ cloud.vms = {} /\ ~At("bastion", "create") THEN 1 ELSE 0
  <1>5. Owed = N + V BY DEF Owed
  <1>6. Owed \in Nat /\ Owed' \in Nat BY DEF Owed
  <1>7. N' <= N /\ V' <= V BY <1>1
  <1>8. CASE faults' = faults + 1
    <2>2. Owed' <= Owed BY <1>5, <1>7 DEF Owed
    <2>. QED BY <1>1, <1>2, <1>3, <1>4, <1>6, <1>8, <2>2 DEF IpsOwed
  <1>9. CASE faults' = faults /\ ~(faults' = faults + 1)
    <2>1. CASE Internet /\ cloud.nats = {} /\ At("natService", "create")'
      <3>1. N = 1 BY <2>1
      <3>2. N' = 0 BY <1>1, <2>1
      <3>. QED BY <1>1, <1>2, <1>3, <1>4, <1>5, <1>6, <1>7, <1>9, <3>1, <3>2 DEF IpsOwed, Owed
    <2>2. CASE Bastion /\ cloud.vms = {} /\ At("bastion", "create")'
      <3>1. V = 1 BY <2>2
      <3>2. V' = 0 BY <1>1, <2>2
      <3>. QED BY <1>1, <1>2, <1>3, <1>4, <1>5, <1>6, <1>7, <1>9, <3>1, <3>2 DEF IpsOwed, Owed
    <2>. QED BY <1>9, <2>1, <2>2
  <1>. QED BY <1>8, <1>9

LEMMA IpsBoundedNext ==
  ASSUME TypeOK', IsFiniteSet(cloud'.ips), IpsOwed' PROVE IpsBounded'
  <1>1. Cardinality(cloud'.ips) \in Nat BY FS_CardinalityType
  <1>2. faults' \in Nat BY ScopeAssumption DEF TypeOK
  <1>3. Owed' \in Nat BY DEF Owed
  <1>. QED BY <1>1, <1>2, <1>3 DEF IpsOwed, IpsBounded
--------------------------------------------------------------------------------
(* A pass that builds.  What is left to show of each of its steps is what  *)
(* the step does to the cloud, to the scope, and where it goes on.         *)
LEMMA Building ==
  ASSUME ClusterInv, at.phase \in BuildPhase
  PROVE  /\ TypeOK /\ Spared /\ BuildInv /\ IpsOwed /\ IsFiniteSet(cloud.ips) /\ ~mem.del
         /\ CloudOk /\ CopyOk(mem) /\ StatusOk(mem) /\ mem \in OscCluster
         /\ mem.spec \in Specs /\ mem.spec \subseteq Ranges /\ Pub \in mem.spec /\ Pub \in Ranges
         /\ BehindOk /\ LoopsOk /\ CallsOk /\ CopiesOk
         /\ ~LeftOut(at.phase)
         /\ mem.gen > 0
         /\ \A k \in Owned : Before(k, at.phase) => Made(k, mem.spec)
  <1>1. ~mem.del /\ at.phase # "idle" BY DEF ClusterInv, Passes, BuildPhase
  <1>2. Spared BY <1>1 DEF Spared
  <1>3. TypeOK /\ BuildInv /\ IpsOwed /\ IsFiniteSet(cloud.ips) BY <1>2 DEF ClusterInv
  <1>4. CloudOk /\ CopyOk(mem) /\ BehindOk /\ LoopsOk /\ CallsOk /\ CopiesOk BY <1>3 DEF BuildInv, CopiesOk
  <1>5. mem \in OscCluster /\ mem.spec \in Specs BY <1>3 DEF TypeOK, OscCluster
  <1>6. mem.spec \subseteq Ranges /\ Pub \in mem.spec BY <1>5, ScopeAssumption
  <1>. QED BY <1>1, <1>2, <1>3, <1>4, <1>5, <1>6, NamesAssumption DEF CopyOk, RecordOk, BehindOk

(* No teardown begins, and the scope is of the same version of the object. *)
Builds == Spared' /\ Heir(mem, mem') /\ UNCHANGED <<obj, cache, old, machines>>

(* A step that builds keeps the invariant if it keeps what the pass holds. *)
LEMMA BuildStepOk ==
  ASSUME ClusterInv, at.phase \in BuildPhase,
         UNCHANGED <<obj, cache, old, machines>>, TypeOK', Heir(mem, mem'),
         at'.phase \in BuildPhase \cup {"patch"},
         Grows, CloudOk', CopyOk(mem)', BehindOk', LoopsOk', CallsOk',
         IsFiniteSet(cloud'.ips), IpsOwed'
  PROVE  ClusterInv' /\ Builds
  <1>0. TypeOK /\ CloudOk /\ CopiesOk /\ ~mem.del BY Building
  <1>1. mem'.del = mem.del /\ mem'.gen = mem.gen /\ mem'.spec = mem.spec BY DEF Heir
  <1>2. /\ at'.phase # "idle" /\ at'.phase \notin DeletePhase
        /\ at.phase # "idle" /\ at.phase \notin DeletePhase
    BY DEF BuildPhase, DeletePhase
  <1>3. Passes' BY <1>0, <1>1, <1>2 DEF ClusterInv, Passes
  <1>4. ReuseSpared' BY <1>2 DEF ReuseSpared, At, DeletePhase
  <1>5. CopyOk(obj)' /\ CopyOk(cache)' /\ CopyOk(old)'
    <2>1. obj \in OscCluster /\ cache \in OscCluster /\ old \in OscCluster BY <1>0 DEF TypeOK
    <2>2. \A m \in OscCluster : CopyOk(m) => CopyOk(m)' BY <1>0, GrowsCopy
    <2>3. PICK o, c, d : o = obj /\ c = cache /\ d = old OBVIOUS
    <2>4. CopyOk(o)' /\ CopyOk(c)' /\ CopyOk(d)' BY <1>0, <2>1, <2>2, <2>3 DEF CopiesOk
    <2>5. obj' = o /\ cache' = c /\ old' = d BY <2>3
    <2>. QED BY <2>4, <2>5
  <1>6. NotAhead(cache)' /\ NotAhead(mem)' BY <1>0, <1>1, <1>2 DEF CopiesOk, NotAhead
  <1>7. machines' => AllMade' BY <1>0, GrowsAll DEF CopiesOk
  <1>8. CopiesOk' BY <1>5, <1>6, <1>7 DEF CopiesOk
  <1>9. NoDuplicates' BY OkIsSingleNext
  <1>10. IpsBounded' BY IpsBoundedNext
  <1>11. ReusedKept' BY OkIsKeptNext
  <1>12. Builds BY <1>0, <1>1, <1>2 DEF Builds, Spared
  <1>. QED BY <1>3, <1>4, <1>8, <1>9, <1>10, <1>11, <1>12 DEF ClusterInv, BuildInv

LEMMA SamePhase ==
  ASSUME ClusterInv, at.phase \in BuildPhase, obj' = obj, Heir(mem, mem'), Grows, at'.phase = at.phase
  PROVE  BehindOk'
  <1>0. /\ CloudOk /\ BehindOk /\ mem.spec \in Specs /\ Pub \in Ranges BY Building
  <1>1. mem'.spec = mem.spec BY DEF Heir
  <1>3. \A k \in Owned : Made(k, mem.spec) => Made(k, mem.spec)'
    <2>1. PICK s \in Specs : s = mem.spec BY <1>0
    <2>2. \A k \in Owned : Made(k, s) => Made(k, s)' BY <1>0, GrowsMade, OwnedFacts
    <2>. QED BY <1>1, <2>1, <2>2
  <1>4. HasTable(Pub) => HasTable(Pub)' BY <1>0, GrowsFind
  <1>5. LeftOut(at.phase)' <=> LeftOut(at.phase) BY DEF LeftOut, Internet, Peering, Naps, LB, Bastion
  <1>6. \A k : Before(k, at.phase)' <=> Before(k, at.phase) BY DEF Before, Index
  <1>. QED BY <1>0, <1>1, <1>3, <1>4, <1>5, <1>6, OwnedFacts DEF BehindOk, Internet, ReuseNet

(* A handler that is through hands over to the next one that is not left out. *)
LEMMA NextHandler ==
  ASSUME ClusterInv, NEW p \in BuildPhase \ {"ready"}, at.phase = p, at' = Start(After(p)),
         obj' = obj, Heir(mem, mem'), Grows,
         p \in Owned => Made(p, mem.spec)',
         p = "rtNat" /\ Internet /\ ~ReuseNet => HasTable(Pub)'
  PROVE  at'.phase \in BuildPhase /\ BehindOk' /\ LoopsOk' /\ CallsOk'
  <1>0. /\ CloudOk /\ BehindOk /\ mem.spec \in Specs /\ Pub \in Ranges BY Building
  <1>1. mem'.spec = mem.spec BY DEF Heir
  <1>2. PICK q \in BuildPhase : q = After(p) BY AfterFacts
  <1>3. at'.phase = q /\ at'.step = "start" BY <1>2 DEF Start
  <1>4. ~LeftOut(q) /\ \A k \in BuildPhase : Before(k, q) => Before(k, p) \/ k = p \/ LeftOut(k)
    BY <1>2, AfterFacts
  <1>5. ~LeftOut(q)' BY <1>4 DEF LeftOut, Internet, Peering, Naps, LB, Bastion
  <1>6. Owned' = Owned BY OwnedFacts
  <1>7. \A k \in Owned : k \in BuildPhase /\ ~LeftOut(k) BY OwnedFacts, PhaseTypes
  <1>8. \A k \in Owned : Made(k, mem.spec) => Made(k, mem.spec)'
    <2>1. PICK s \in Specs : s = mem.spec BY <1>0
    <2>2. \A k \in Owned : Made(k, s) => Made(k, s)' BY <1>0, GrowsMade, OwnedFacts
    <2>. QED BY <1>1, <2>1, <2>2
  <1>9. \A k \in Owned : Before(k, q) => Made(k, mem.spec)'
    <2>1. \A k \in Owned : Before(k, p) => Made(k, mem.spec) BY Building
    <2>. QED BY <1>4, <1>7, <1>8, <2>1
  <1>10. Internet /\ ~ReuseNet /\ Before("rtNat", q) => HasTable(Pub)'
    <2>. HAVE Internet /\ ~ReuseNet /\ Before("rtNat", q)
    <2>1. "rtNat" \in BuildPhase /\ ~LeftOut("rtNat") BY DEF BuildPhase, LeftOut
    <2>2. Before("rtNat", p) \/ p = "rtNat" BY <1>4, <2>1
    <2>3. CASE p = "rtNat" BY <2>3
    <2>4. CASE Before("rtNat", p)
      <3>1. HasTable(Pub) BY <1>0, <2>4 DEF BehindOk
      <3>. QED BY <1>0, <3>1, GrowsFind
    <2>. QED BY <2>2, <2>3, <2>4
  <1>11. \A k : Before(k, q)' <=> Before(k, q) BY DEF Before, Index
  <1>12. BehindOk'
    BY <1>1, <1>3, <1>5, <1>6, <1>9, <1>10, <1>11 DEF BehindOk, Internet, ReuseNet
  <1>13. LoopsOk' BY <1>3 DEF LoopsOk, At
  <1>14. CallsOk' BY <1>3 DEF CallsOk, At
  <1>. QED BY <1>3, <1>12, <1>13, <1>14
--------------------------------------------------------------------------------
(* What each request of a pass that builds does to the cloud: it takes     *)
(* nothing away and keeps CloudOk, where the handler makes it.             *)
LEMMA NetCreatedOk ==
  ASSUME TypeOK, TypeOK', CloudOk, obj' = obj, cloud' = NetCreated
  PROVE  /\ Grows /\ CloudOk'
         /\ cloud.next \in Ids(cloud'.nets)
         /\ Tagged(cloud'.nets) = Tagged(cloud.nets)
  <1>0. PICK n : n = [id |-> cloud.next, tagged |-> FALSE] OBVIOUS
  <1>1. /\ cloud'.next = cloud.next + 1
        /\ cloud'.nets = cloud.nets \cup {[id |-> cloud.next, tagged |-> FALSE]}
        /\ cloud'.subnets = cloud.subnets /\ cloud'.iss = cloud.iss /\ cloud'.rts = cloud.rts
        /\ cloud'.nats = cloud.nats /\ cloud'.ips = cloud.ips /\ cloud'.sgs = cloud.sgs
        /\ cloud'.lb = cloud.lb /\ cloud'.vms = cloud.vms /\ cloud'.peerings = cloud.peerings
        /\ cloud'.naps = cloud.naps /\ cloud'.mgmt = cloud.mgmt
    BY DEF TypeOK, Cloud, NetCreated
  <1>2. ReuseNet' = ReuseNet /\ ReuseSG' = ReuseSG BY DEF ReuseNet, ReuseSG
  <1>3. cloud.next \in Nat /\ cloud'.next >= cloud.next /\ cloud.next > 0 BY <1>1, CloudFields DEF CloudOk
  <1>4. \A x \in cloud.nets : x.id \in Nat /\ x.id < cloud.next /\ 0 < x.id
    BY CloudFields DEF Net, Id, CloudOk, NetsOk, Known
  <1>5. cloud'.nets = cloud.nets \cup {n} BY <1>0, <1>1
  <1>6. n.id = cloud.next /\ n.tagged = FALSE BY <1>0
  <1>7. Tagged(cloud'.nets) = Tagged(cloud.nets) BY <1>5, <1>6 DEF Tagged
  <1>8. cloud.next \in Ids(cloud'.nets) BY <1>5, <1>6 DEF Ids
  <1>g. Grows BY <1>1, <1>7 DEF Grows, Linked
  <1>9. NetsOk'
    <2>d. Distinct(cloud'.nets) BY <1>3, <1>4, <1>5, <1>6 DEF Distinct, CloudOk, NetsOk
    <2>k. Known(cloud.nets)' BY <1>1, <1>3, <1>4, <1>5, <1>6 DEF Known
    <2>1. ReuseNet => ReusedNet \in Ids(cloud'.nets) BY <1>5 DEF Ids, CloudOk, NetsOk
    <2>. QED BY <1>2, <1>7, <2>d, <2>k, <2>1 DEF CloudOk, NetsOk
  <1>. QED BY <1>1, <1>3, <1>4, <1>5, <1>6, <1>7, <1>8, <1>g, <1>9, Unaffected DEF CloudOk

LEMMA NetTaggedOk ==
  ASSUME TypeOK, TypeOK', CloudOk, obj' = obj, NEW i, ~ReuseNet, Tagged(cloud.nets) = {},
         i \in Ids(cloud.nets), cloud' = NetTagged(i)
  PROVE  /\ Grows /\ CloudOk'
         /\ i \in Ids(Tagged(cloud'.nets))
  <1>1. /\ cloud'.nets = {IF n.id = i THEN [n EXCEPT !.tagged = TRUE] ELSE n : n \in cloud.nets}
        /\ cloud'.next = cloud.next /\ cloud'.subnets = cloud.subnets /\ cloud'.iss = cloud.iss
        /\ cloud'.rts = cloud.rts /\ cloud'.nats = cloud.nats /\ cloud'.ips = cloud.ips
        /\ cloud'.sgs = cloud.sgs /\ cloud'.lb = cloud.lb /\ cloud'.vms = cloud.vms
        /\ cloud'.peerings = cloud.peerings /\ cloud'.naps = cloud.naps /\ cloud'.mgmt = cloud.mgmt
    BY DEF TypeOK, Cloud, NetTagged
  <1>2. ReuseNet' = ReuseNet /\ ReuseSG' = ReuseSG BY DEF ReuseNet, ReuseSG
  <1>3. cloud.next \in Nat /\ cloud'.next >= cloud.next /\ cloud.next > 0 BY <1>1, CloudFields DEF CloudOk
  <1>4. \A x \in cloud.nets : x.id \in Nat /\ x.id < cloud.next /\ 0 < x.id
    BY CloudFields DEF Net, Id, CloudOk, NetsOk, Known
  <1>. DEFINE F(n) == IF n.id = i THEN [n EXCEPT !.tagged = TRUE] ELSE n
  <1>5. \A n \in cloud.nets :
          /\ n.id = i => F(n).tagged = TRUE
          /\ n.id # i => F(n).tagged = n.tagged
          /\ F(n).id = n.id
    BY CloudFields DEF Net
  <1>6. cloud'.nets = {F(n) : n \in cloud.nets} BY <1>1
  <1>. HIDE DEF F
  <1>g. Grows BY <1>1 DEF Grows, Linked, Ids
  <1>7. i \in Ids(Tagged(cloud'.nets))
    <2>1. PICK n \in cloud.nets : n.id = i BY DEF Ids
    <2>2. F(n) \in cloud'.nets /\ F(n).id = i /\ F(n).tagged BY <1>5, <1>6, <2>1
    <2>. QED BY <2>2 DEF Ids, Tagged
  <1>8. NetsOk'
    <2>d. Distinct(cloud'.nets) BY <1>3, <1>4, <1>5, <1>6 DEF Distinct, CloudOk, NetsOk
    <2>k. Known(cloud.nets)' BY <1>1, <1>3, <1>4, <1>5, <1>6 DEF Known
    <2>1. \A n \in Tagged(cloud'.nets) : n \in cloud'.nets /\ n.id = i BY <1>5, <1>6 DEF Tagged
    <2>2. AtMostOne(Tagged(cloud'.nets)) BY <2>d, <2>1 DEF AtMostOne, Distinct
    <2>. QED BY <1>2, <2>d, <2>k, <2>2 DEF NetsOk
  <1>. QED BY <1>1, <1>3, <1>4, <1>5, <1>6, <1>g, <1>7, <1>8, Unaffected DEF CloudOk

LEMMA SubnetCreatedOk ==
  ASSUME TypeOK, TypeOK', CloudOk, obj' = obj, NEW net, NEW r \in Ranges, ~ReuseNet,
         net \in Ids(Tagged(cloud.nets)), ~\E s \in cloud.subnets : s.range = r,
         cloud' = SubnetCreated(net, r)
  PROVE  /\ Grows /\ CloudOk'
         /\ \E s \in cloud'.subnets : s.id = cloud.next /\ s.range = r
  <1>0. PICK n : n = [id |-> cloud.next, net |-> net, range |-> r] OBVIOUS
  <1>1. /\ cloud'.next = cloud.next + 1
        /\ cloud'.subnets = cloud.subnets \cup {[id |-> cloud.next, net |-> net, range |-> r]}
        /\ cloud'.nets = cloud.nets /\ cloud'.iss = cloud.iss /\ cloud'.rts = cloud.rts
        /\ cloud'.nats = cloud.nats /\ cloud'.ips = cloud.ips /\ cloud'.sgs = cloud.sgs
        /\ cloud'.lb = cloud.lb /\ cloud'.vms = cloud.vms /\ cloud'.peerings = cloud.peerings
        /\ cloud'.naps = cloud.naps /\ cloud'.mgmt = cloud.mgmt
    BY DEF TypeOK, Cloud, SubnetCreated
  <1>2. ReuseNet' = ReuseNet /\ ReuseSG' = ReuseSG BY DEF ReuseNet, ReuseSG
  <1>3. cloud.next \in Nat /\ cloud'.next >= cloud.next /\ cloud.next > 0 BY <1>1, CloudFields DEF CloudOk
  <1>4. \A x \in cloud.subnets : x.id \in Nat /\ x.id < cloud.next /\ 0 < x.id
    BY CloudFields DEF Subnet, Id, CloudOk, SubnetsOk, Known
  <1>5. cloud'.subnets = cloud.subnets \cup {n} BY <1>0, <1>1
  <1>6. n.id = cloud.next /\ n.net = net /\ n.range = r BY <1>0
  <1>g. Grows BY <1>1, <1>5 DEF Grows, Linked
  <1>7. \E s \in cloud'.subnets : s.id = cloud.next /\ s.range = r BY <1>5, <1>6
  <1>8. SubnetsOk'
    <2>d. Distinct(cloud'.subnets) BY <1>3, <1>4, <1>5, <1>6 DEF Distinct, CloudOk, SubnetsOk
    <2>k. Known(cloud.subnets)' BY <1>1, <1>3, <1>4, <1>5, <1>6 DEF Known
    <2>i. InNet(cloud.subnets)' BY <1>1, <1>5, <1>6 DEF InNet, CloudOk, SubnetsOk, Ids
    <2>1. \A s, t \in cloud'.subnets : s.range = t.range => s = t BY <1>5, <1>6 DEF CloudOk, SubnetsOk
    <2>. QED BY <1>2, <2>d, <2>k, <2>i, <2>1 DEF SubnetsOk
  <1>. QED BY <1>1, <1>3, <1>4, <1>5, <1>6, <1>g, <1>7, <1>8, Unaffected DEF CloudOk

LEMMA InternetServiceCreatedOk ==
  ASSUME TypeOK, TypeOK', CloudOk, obj' = obj, ~ReuseNet, cloud' = InternetServiceCreated
  PROVE  /\ Grows /\ CloudOk'
         /\ cloud.next \in Ids(cloud'.iss)
         /\ Linked' = Linked
  <1>0. PICK n : n = [id |-> cloud.next, net |-> 0] OBVIOUS
  <1>1. /\ cloud'.next = cloud.next + 1
        /\ cloud'.iss = cloud.iss \cup {[id |-> cloud.next, net |-> 0]}
        /\ cloud'.nets = cloud.nets /\ cloud'.subnets = cloud.subnets /\ cloud'.rts = cloud.rts
        /\ cloud'.nats = cloud.nats /\ cloud'.ips = cloud.ips /\ cloud'.sgs = cloud.sgs
        /\ cloud'.lb = cloud.lb /\ cloud'.vms = cloud.vms /\ cloud'.peerings = cloud.peerings
        /\ cloud'.naps = cloud.naps /\ cloud'.mgmt = cloud.mgmt
    BY DEF TypeOK, Cloud, InternetServiceCreated
  <1>2. ReuseNet' = ReuseNet /\ ReuseSG' = ReuseSG BY DEF ReuseNet, ReuseSG
  <1>3. cloud.next \in Nat /\ cloud'.next >= cloud.next /\ cloud.next > 0 BY <1>1, CloudFields DEF CloudOk
  <1>4. \A x \in cloud.iss : x.id \in Nat /\ x.id < cloud.next /\ 0 < x.id
    BY CloudFields DEF InternetService, Id, CloudOk, ServicesOk, Known
  <1>5. cloud'.iss = cloud.iss \cup {n} BY <1>0, <1>1
  <1>6. n.id = cloud.next /\ n.net = 0 BY <1>0
  <1>7. Linked' = Linked BY <1>5, <1>6 DEF Linked
  <1>8. cloud.next \in Ids(cloud'.iss) BY <1>5, <1>6 DEF Ids
  <1>g. Grows BY <1>1, <1>7 DEF Grows
  <1>9. ServicesOk'
    <2>d. Distinct(cloud'.iss) BY <1>3, <1>4, <1>5, <1>6 DEF Distinct, CloudOk, ServicesOk
    <2>k. Known(cloud.iss)' BY <1>1, <1>3, <1>4, <1>5, <1>6 DEF Known
    <2>1. InNet(Linked)' BY <1>1, <1>7 DEF InNet, CloudOk, ServicesOk
    <2>. QED BY <1>2, <1>7, <2>d, <2>k, <2>1 DEF CloudOk, ServicesOk
  <1>. QED BY <1>1, <1>3, <1>4, <1>5, <1>6, <1>7, <1>8, <1>g, <1>9, Unaffected DEF CloudOk

LEMMA InternetServiceLinkedOk ==
  ASSUME TypeOK, TypeOK', CloudOk, obj' = obj, NEW i, NEW net, ~ReuseNet, Linked = {},
         i \in Ids(cloud.iss), net \in Ids(Tagged(cloud.nets)), net # 0,
         cloud' = InternetServiceLinked(i, net)
  PROVE  /\ Grows /\ CloudOk'
         /\ i \in Ids(Linked')
  <1>1. /\ cloud'.iss = {IF x.id = i THEN [x EXCEPT !.net = net] ELSE x : x \in cloud.iss}
        /\ cloud'.next = cloud.next /\ cloud'.nets = cloud.nets /\ cloud'.subnets = cloud.subnets
        /\ cloud'.rts = cloud.rts /\ cloud'.nats = cloud.nats /\ cloud'.ips = cloud.ips
        /\ cloud'.sgs = cloud.sgs /\ cloud'.lb = cloud.lb /\ cloud'.vms = cloud.vms
        /\ cloud'.peerings = cloud.peerings /\ cloud'.naps = cloud.naps /\ cloud'.mgmt = cloud.mgmt
    BY DEF TypeOK, Cloud, InternetServiceLinked
  <1>2. ReuseNet' = ReuseNet /\ ReuseSG' = ReuseSG BY DEF ReuseNet, ReuseSG
  <1>3. cloud.next \in Nat /\ cloud'.next >= cloud.next /\ cloud.next > 0 BY <1>1, CloudFields DEF CloudOk
  <1>4. \A x \in cloud.iss : x.id \in Nat /\ x.id < cloud.next /\ 0 < x.id
    BY CloudFields DEF InternetService, Id, CloudOk, ServicesOk, Known
  <1>. DEFINE F(x) == IF x.id = i THEN [x EXCEPT !.net = net] ELSE x
  <1>5. \A x \in cloud.iss :
          /\ x.id = i => F(x).net = net
          /\ x.id # i => F(x).net = x.net
          /\ F(x).id = x.id
    BY CloudFields DEF InternetService
  <1>6. cloud'.iss = {F(x) : x \in cloud.iss} BY <1>1
  <1>. HIDE DEF F
  <1>g. Grows BY <1>1 DEF Grows
  <1>7. i \in Ids(Linked')
    <2>1. PICK x \in cloud.iss : x.id = i BY DEF Ids
    <2>2. F(x) \in cloud'.iss /\ F(x).id = i /\ F(x).net = net BY <1>5, <1>6, <2>1
    <2>. QED BY <2>2 DEF Ids, Linked
  <1>8. ServicesOk'
    <2>d. Distinct(cloud'.iss) BY <1>3, <1>4, <1>5, <1>6 DEF Distinct, CloudOk, ServicesOk
    <2>k. Known(cloud.iss)' BY <1>1, <1>3, <1>4, <1>5, <1>6 DEF Known
    <2>0. \A x \in cloud.iss : x.net = 0 BY DEF Linked
    <2>1. \A x \in Linked' : x \in cloud'.iss /\ x.id = i /\ x.net = net BY <1>5, <1>6, <2>0 DEF Linked
    <2>2. AtMostOne(Linked') BY <2>d, <2>1 DEF AtMostOne, Distinct
    <2>3. InNet(Linked)' BY <1>1, <2>1 DEF InNet, Ids
    <2>. QED BY <1>2, <2>d, <2>k, <2>2, <2>3 DEF ServicesOk
  <1>. QED BY <1>1, <1>3, <1>4, <1>5, <1>6, <1>g, <1>7, <1>8, Unaffected DEF CloudOk

LEMMA RouteTableCreatedOk ==
  ASSUME TypeOK, TypeOK', CloudOk, obj' = obj, NEW net, ~ReuseNet,
         net \in Ids(Tagged(cloud.nets)), cloud' = RouteTableCreated(net)
  PROVE  /\ Grows /\ CloudOk'
         /\ \E t \in cloud'.rts : t.id = cloud.next /\ t.sub = 0
         /\ \A t \in cloud'.rts : t \in cloud.rts \/ t.sub = 0
         /\ cloud'.subnets = cloud.subnets
  <1>0. PICK n : n = [id |-> cloud.next, net |-> net, sub |-> 0, routed |-> FALSE, peer |-> 0] OBVIOUS
  <1>1. /\ cloud'.next = cloud.next + 1
        /\ cloud'.rts = cloud.rts \cup {[id |-> cloud.next, net |-> net, sub |-> 0, routed |-> FALSE, peer |-> 0]}
        /\ cloud'.nets = cloud.nets /\ cloud'.subnets = cloud.subnets /\ cloud'.iss = cloud.iss
        /\ cloud'.nats = cloud.nats /\ cloud'.ips = cloud.ips /\ cloud'.sgs = cloud.sgs
        /\ cloud'.lb = cloud.lb /\ cloud'.vms = cloud.vms /\ cloud'.peerings = cloud.peerings
        /\ cloud'.naps = cloud.naps /\ cloud'.mgmt = cloud.mgmt
    BY DEF TypeOK, Cloud, RouteTableCreated
  <1>2. ReuseNet' = ReuseNet /\ ReuseSG' = ReuseSG BY DEF ReuseNet, ReuseSG
  <1>3. cloud.next \in Nat /\ cloud'.next >= cloud.next /\ cloud.next > 0 BY <1>1, CloudFields DEF CloudOk
  <1>4. \A x \in cloud.rts : x.id \in Nat /\ x.id < cloud.next /\ 0 < x.id
    BY CloudFields DEF RouteTable, Id, CloudOk, TablesOk, Known
  <1>5. cloud'.rts = cloud.rts \cup {n} BY <1>0, <1>1
  <1>6. n.id = cloud.next /\ n.net = net /\ n.sub = 0 /\ n.routed = FALSE /\ n.peer = 0 BY <1>0
  <1>g. Grows BY <1>1, <1>5 DEF Grows, Linked
  <1>7. \E t \in cloud'.rts : t.id = cloud.next /\ t.sub = 0 BY <1>5, <1>6
  <1>8. \A t \in cloud'.rts : t \in cloud.rts \/ t.sub = 0 BY <1>5, <1>6
  <1>9. TablesOk'
    <2>d. Distinct(cloud'.rts) BY <1>3, <1>4, <1>5, <1>6 DEF Distinct, CloudOk, TablesOk
    <2>k. Known(cloud.rts)' BY <1>1, <1>3, <1>4, <1>5, <1>6 DEF Known
    <2>i. InNet(cloud.rts)' BY <1>1, <1>5, <1>6 DEF InNet, CloudOk, TablesOk, Ids
    <2>4. \A t \in cloud'.rts : t.sub = 0 \/ \E r \in Ranges : Serves(t, r)'
      BY <1>1, <1>5, <1>6 DEF Serves, CloudOk, TablesOk
    <2>5. \A t, u \in cloud'.rts : t.sub # 0 /\ t.sub = u.sub => t = u
      BY <1>5, <1>6 DEF CloudOk, TablesOk
    <2>6. \A t \in cloud'.rts : t.peer = 0 \/ Active(t.peer)'
      BY <1>1, <1>5, <1>6 DEF Active, CloudOk, TablesOk
    <2>. QED BY <1>2, <1>6, <2>d, <2>k, <2>i, <2>4, <2>5, <2>6 DEF CloudOk, TablesOk
  <1>. QED BY <1>1, <1>3, <1>4, <1>5, <1>6, <1>g, <1>7, <1>8, <1>9, Unaffected DEF CloudOk

LEMMA RouteTableLinkedOk ==
  ASSUME TypeOK, TypeOK', CloudOk, obj' = obj, NEW i, NEW sub, ~ReuseNet, sub # 0,
         \E t \in cloud.rts : t.id = i /\ t.sub = 0, \E s \in cloud.subnets : s.id = sub,
         \A t \in cloud.rts : t.sub # sub, cloud' = RouteTableLinked(i, sub)
  PROVE  /\ Grows /\ CloudOk'
         /\ \E t \in cloud'.rts : t.id = i /\ t.sub = sub
         /\ cloud'.subnets = cloud.subnets
  <1>1. /\ cloud'.rts = {IF t.id = i THEN [t EXCEPT !.sub = sub] ELSE t : t \in cloud.rts}
        /\ cloud'.next = cloud.next /\ cloud'.nets = cloud.nets /\ cloud'.subnets = cloud.subnets
        /\ cloud'.iss = cloud.iss /\ cloud'.nats = cloud.nats /\ cloud'.ips = cloud.ips
        /\ cloud'.sgs = cloud.sgs /\ cloud'.lb = cloud.lb /\ cloud'.vms = cloud.vms
        /\ cloud'.peerings = cloud.peerings /\ cloud'.naps = cloud.naps /\ cloud'.mgmt = cloud.mgmt
    BY DEF TypeOK, Cloud, RouteTableLinked
  <1>2. ReuseNet' = ReuseNet /\ ReuseSG' = ReuseSG BY DEF ReuseNet, ReuseSG
  <1>3. cloud.next \in Nat /\ cloud'.next >= cloud.next /\ cloud.next > 0 BY <1>1, CloudFields DEF CloudOk
  <1>4. \A x \in cloud.rts : x.id \in Nat /\ x.id < cloud.next /\ 0 < x.id
    BY CloudFields DEF RouteTable, Id, CloudOk, TablesOk, Known
  <1>. DEFINE F(t) == IF t.id = i THEN [t EXCEPT !.sub = sub] ELSE t
  <1>5. \A t \in cloud.rts :
          /\ t.id = i => F(t).sub = sub
          /\ t.id # i => F(t).sub = t.sub
          /\ F(t).id = t.id /\ F(t).net = t.net /\ F(t).routed = t.routed /\ F(t).peer = t.peer
    BY CloudFields DEF RouteTable
  <1>6. cloud'.rts = {F(t) : t \in cloud.rts} BY <1>1
  <1>. HIDE DEF F
  <1>7. \A t \in cloud.rts : t.id = i => t.sub = 0 BY DEF CloudOk, TablesOk, Distinct
  <1>g. Grows
    <2>1. \A t \in cloud.rts : t.sub # 0 => F(t) \in cloud'.rts /\ F(t).sub = t.sub /\ F(t).routed = t.routed /\ F(t).peer = t.peer
      BY <1>5, <1>6, <1>7
    <2>. QED BY <1>1, <2>1 DEF Grows, Linked
  <1>8. \E t \in cloud'.rts : t.id = i /\ t.sub = sub BY <1>5, <1>6
  <1>9. TablesOk'
    <2>d. Distinct(cloud'.rts) BY <1>3, <1>4, <1>5, <1>6 DEF Distinct, CloudOk, TablesOk
    <2>k. Known(cloud.rts)' BY <1>1, <1>3, <1>4, <1>5, <1>6 DEF Known
    <2>i. InNet(cloud.rts)' BY <1>1, <1>5, <1>6 DEF InNet, CloudOk, TablesOk, Ids
    <2>4. \A t \in cloud'.rts : t.sub = 0 \/ \E r \in Ranges : Serves(t, r)'
      <3>1. \A t \in cloud.rts : F(t).sub \in {t.sub, sub} BY <1>5
      <3>2. \A s \in cloud.subnets : s.range \in Ranges BY CloudFields DEF Subnet
      <3>. QED BY <1>1, <1>6, <3>1, <3>2 DEF Serves, CloudOk, TablesOk
    <2>5. \A t, u \in cloud'.rts : t.sub # 0 /\ t.sub = u.sub => t = u
      <3>1. \A t, u \in cloud.rts : F(t).sub # 0 /\ F(t).sub = F(u).sub => t = u
        BY <1>5 DEF CloudOk, TablesOk, Distinct
      <3>. QED BY <1>6, <3>1
    <2>6. \A t \in cloud'.rts : t.peer = 0 \/ Active(t.peer)'
      BY <1>1, <1>5, <1>6 DEF Active, CloudOk, TablesOk
    <2>. QED BY <1>2, <1>6, <2>d, <2>k, <2>i, <2>4, <2>5, <2>6 DEF CloudOk, TablesOk
  <1>. QED BY <1>1, <1>3, <1>4, <1>5, <1>6, <1>7, <1>g, <1>8, <1>9, Unaffected DEF CloudOk

LEMMA RouteCreatedOk ==
  ASSUME TypeOK, TypeOK', CloudOk, obj' = obj, NEW i, cloud' = RouteCreated(i)
  PROVE  /\ Grows /\ CloudOk'
         /\ \A t \in cloud.rts : t.id = i => \E u \in cloud'.rts : u.id = i /\ u.sub = t.sub /\ u.routed
         /\ cloud'.subnets = cloud.subnets
  <1>1. /\ cloud'.rts = {IF t.id = i THEN [t EXCEPT !.routed = TRUE] ELSE t : t \in cloud.rts}
        /\ cloud'.next = cloud.next /\ cloud'.nets = cloud.nets /\ cloud'.subnets = cloud.subnets
        /\ cloud'.iss = cloud.iss /\ cloud'.nats = cloud.nats /\ cloud'.ips = cloud.ips
        /\ cloud'.sgs = cloud.sgs /\ cloud'.lb = cloud.lb /\ cloud'.vms = cloud.vms
        /\ cloud'.peerings = cloud.peerings /\ cloud'.naps = cloud.naps /\ cloud'.mgmt = cloud.mgmt
    BY DEF TypeOK, Cloud, RouteCreated
  <1>2. ReuseNet' = ReuseNet /\ ReuseSG' = ReuseSG BY DEF ReuseNet, ReuseSG
  <1>3. cloud.next \in Nat /\ cloud'.next >= cloud.next /\ cloud.next > 0 BY <1>1, CloudFields DEF CloudOk
  <1>4. \A x \in cloud.rts : x.id \in Nat /\ x.id < cloud.next /\ 0 < x.id
    BY CloudFields DEF RouteTable, Id, CloudOk, TablesOk, Known
  <1>. DEFINE F(t) == IF t.id = i THEN [t EXCEPT !.routed = TRUE] ELSE t
  <1>5. \A t \in cloud.rts :
          /\ t.id = i => F(t).routed = TRUE
          /\ t.id # i => F(t).routed = t.routed
          /\ F(t).id = t.id /\ F(t).net = t.net /\ F(t).sub = t.sub /\ F(t).peer = t.peer
    BY CloudFields DEF RouteTable
  <1>6. cloud'.rts = {F(t) : t \in cloud.rts} BY <1>1
  <1>. HIDE DEF F
  <1>g. Grows
    <2>1. \A t \in cloud.rts : F(t) \in cloud'.rts /\ F(t).sub = t.sub /\ (t.routed => F(t).routed) /\ F(t).peer = t.peer
      BY <1>5, <1>6
    <2>. QED BY <1>1, <2>1 DEF Grows, Linked
  <1>8. \A t \in cloud.rts : t.id = i => \E u \in cloud'.rts : u.id = i /\ u.sub = t.sub /\ u.routed BY <1>5, <1>6
  <1>9. TablesOk'
    <2>d. Distinct(cloud'.rts) BY <1>3, <1>4, <1>5, <1>6 DEF Distinct, CloudOk, TablesOk
    <2>k. Known(cloud.rts)' BY <1>1, <1>3, <1>4, <1>5, <1>6 DEF Known
    <2>i. InNet(cloud.rts)' BY <1>1, <1>5, <1>6 DEF InNet, CloudOk, TablesOk, Ids
    <2>4. \A t \in cloud'.rts : t.sub = 0 \/ \E r \in Ranges : Serves(t, r)'
      BY <1>1, <1>5, <1>6 DEF Serves, CloudOk, TablesOk
    <2>5. \A t, u \in cloud'.rts : t.sub # 0 /\ t.sub = u.sub => t = u
      BY <1>5, <1>6 DEF CloudOk, TablesOk
    <2>6. \A t \in cloud'.rts : t.peer = 0 \/ Active(t.peer)'
      BY <1>1, <1>5, <1>6 DEF Active, CloudOk, TablesOk
    <2>. QED BY <1>2, <1>6, <2>d, <2>k, <2>i, <2>4, <2>5, <2>6 DEF CloudOk, TablesOk
  <1>. QED BY <1>1, <1>3, <1>4, <1>5, <1>6, <1>g, <1>8, <1>9, Unaffected DEF CloudOk

LEMMA PeeringRouteSetOk ==
  ASSUME TypeOK, TypeOK', CloudOk, obj' = obj, NEW i, NEW q, Active(q),
         cloud' = PeeringRouteSet(i, q)
  PROVE  Grows /\ CloudOk'
  <1>1. /\ cloud'.rts = {IF t.id = i THEN [t EXCEPT !.peer = q] ELSE t : t \in cloud.rts}
        /\ cloud'.next = cloud.next /\ cloud'.nets = cloud.nets /\ cloud'.subnets = cloud.subnets
        /\ cloud'.iss = cloud.iss /\ cloud'.nats = cloud.nats /\ cloud'.ips = cloud.ips
        /\ cloud'.sgs = cloud.sgs /\ cloud'.lb = cloud.lb /\ cloud'.vms = cloud.vms
        /\ cloud'.peerings = cloud.peerings /\ cloud'.naps = cloud.naps /\ cloud'.mgmt = cloud.mgmt
    BY DEF TypeOK, Cloud, PeeringRouteSet
  <1>2. ReuseNet' = ReuseNet /\ ReuseSG' = ReuseSG BY DEF ReuseNet, ReuseSG
  <1>3. cloud.next \in Nat /\ cloud'.next >= cloud.next /\ cloud.next > 0 BY <1>1, CloudFields DEF CloudOk
  <1>4. \A x \in cloud.rts : x.id \in Nat /\ x.id < cloud.next /\ 0 < x.id
    BY CloudFields DEF RouteTable, Id, CloudOk, TablesOk, Known
  <1>. DEFINE F(t) == IF t.id = i THEN [t EXCEPT !.peer = q] ELSE t
  <1>5. \A t \in cloud.rts :
          /\ t.id = i => F(t).peer = q
          /\ t.id # i => F(t).peer = t.peer
          /\ F(t).id = t.id /\ F(t).net = t.net /\ F(t).sub = t.sub /\ F(t).routed = t.routed
    BY CloudFields DEF RouteTable
  <1>6. cloud'.rts = {F(t) : t \in cloud.rts} BY <1>1
  <1>. HIDE DEF F
  <1>7. \A t \in cloud.rts : t.peer = 0 \/ t.peer = q
    <2>1. \A x, y : Active(x) /\ Active(y) => x = y BY DEF Active, CloudOk, PeeringsOk, AtMostOne, Tagged
    <2>. QED BY <2>1 DEF CloudOk, TablesOk
  <1>g. Grows
    <2>1. \A t \in cloud.rts : F(t) \in cloud'.rts /\ F(t).sub = t.sub /\ F(t).routed = t.routed /\ (t.peer # 0 => F(t).peer = t.peer)
      BY <1>5, <1>6, <1>7
    <2>. QED BY <1>1, <2>1 DEF Grows, Linked
  <1>9. TablesOk'
    <2>d. Distinct(cloud'.rts) BY <1>3, <1>4, <1>5, <1>6 DEF Distinct, CloudOk, TablesOk
    <2>k. Known(cloud.rts)' BY <1>1, <1>3, <1>4, <1>5, <1>6 DEF Known
    <2>i. InNet(cloud.rts)' BY <1>1, <1>5, <1>6 DEF InNet, CloudOk, TablesOk, Ids
    <2>4. \A t \in cloud'.rts : t.sub = 0 \/ \E r \in Ranges : Serves(t, r)'
      BY <1>1, <1>5, <1>6 DEF Serves, CloudOk, TablesOk
    <2>5. \A t, u \in cloud'.rts : t.sub # 0 /\ t.sub = u.sub => t = u
      BY <1>5, <1>6 DEF CloudOk, TablesOk
    <2>6. \A t \in cloud'.rts : t.peer = 0 \/ Active(t.peer)'
      BY <1>1, <1>5, <1>6 DEF Active, CloudOk, TablesOk
    <2>. QED BY <1>2, <1>6, <2>d, <2>k, <2>i, <2>4, <2>5, <2>6 DEF CloudOk, TablesOk
  <1>. QED BY <1>1, <1>3, <1>4, <1>5, <1>6, <1>7, <1>g, <1>9, Unaffected DEF CloudOk

LEMMA NatServiceCreatedOk ==
  ASSUME TypeOK, TypeOK', CloudOk, obj' = obj, NEW net, NEW ip, ~ReuseNet,
         net \in Ids(Tagged(cloud.nets)), cloud.nats = {}, ip \in cloud.ips, Gateway,
         cloud' = NatServiceCreated(net, ip)
  PROVE  /\ Grows /\ CloudOk'
         /\ cloud.next \in Ids(cloud'.nats)
         /\ cloud'.ips = cloud.ips
         /\ cloud'.vms = cloud.vms
  <1>0. PICK n : n = [id |-> cloud.next, net |-> net, ip |-> ip, deleting |-> FALSE] OBVIOUS
  <1>1. /\ cloud'.next = cloud.next + 1
        /\ cloud'.nats = cloud.nats \cup {[id |-> cloud.next, net |-> net, ip |-> ip, deleting |-> FALSE]}
        /\ cloud'.nets = cloud.nets /\ cloud'.subnets = cloud.subnets /\ cloud'.iss = cloud.iss
        /\ cloud'.rts = cloud.rts /\ cloud'.ips = cloud.ips /\ cloud'.sgs = cloud.sgs
        /\ cloud'.lb = cloud.lb /\ cloud'.vms = cloud.vms /\ cloud'.peerings = cloud.peerings
        /\ cloud'.naps = cloud.naps /\ cloud'.mgmt = cloud.mgmt
    BY DEF TypeOK, Cloud, NatServiceCreated
  <1>2. ReuseNet' = ReuseNet /\ ReuseSG' = ReuseSG BY DEF ReuseNet, ReuseSG
  <1>3. cloud.next \in Nat /\ cloud'.next >= cloud.next /\ cloud.next > 0 BY <1>1, CloudFields DEF CloudOk
  <1>4. \A x \in cloud.nats : x.id \in Nat /\ x.id < cloud.next /\ 0 < x.id
    BY CloudFields DEF NatService, Id, CloudOk, NatsOk, Known
  <1>5. cloud'.nats = cloud.nats \cup {n} BY <1>0, <1>1
  <1>6. n.id = cloud.next /\ n.net = net /\ n.ip = ip /\ n.deleting = FALSE BY <1>0
  <1>g. Grows BY <1>1, <1>5 DEF Grows, Linked
  <1>7. cloud.next \in Ids(cloud'.nats) BY <1>5, <1>6 DEF Ids
  <1>9. NatsOk'
    <2>k. Known(cloud.nats)' BY <1>1, <1>3, <1>4, <1>5, <1>6 DEF Known
    <2>i. InNet(cloud.nats)' BY <1>1, <1>5, <1>6 DEF InNet, CloudOk, NatsOk, Ids
    <2>1. AtMostOne(cloud'.nats) BY <1>5 DEF AtMostOne
    <2>2. Gateway' BY <1>1 DEF Gateway, Linked, Serves
    <2>. QED BY <1>1, <1>2, <1>5, <1>6, <2>k, <2>i, <2>1, <2>2 DEF NatsOk
  <1>. QED BY <1>1, <1>3, <1>4, <1>5, <1>6, <1>g, <1>7, <1>9, Unaffected DEF CloudOk

LEMMA PublicIpCreatedOk ==
  ASSUME TypeOK, TypeOK', CloudOk, obj' = obj, cloud' = PublicIpCreated
  PROVE  /\ Grows /\ CloudOk'
         /\ cloud'.ips = cloud.ips \cup {cloud.next}
         /\ cloud'.nats = cloud.nats
         /\ cloud'.vms = cloud.vms
  <1>1. /\ cloud'.next = cloud.next + 1
        /\ cloud'.ips = cloud.ips \cup {cloud.next}
        /\ cloud'.nets = cloud.nets /\ cloud'.subnets = cloud.subnets /\ cloud'.iss = cloud.iss
        /\ cloud'.rts = cloud.rts /\ cloud'.nats = cloud.nats /\ cloud'.sgs = cloud.sgs
        /\ cloud'.lb = cloud.lb /\ cloud'.vms = cloud.vms /\ cloud'.peerings = cloud.peerings
        /\ cloud'.naps = cloud.naps /\ cloud'.mgmt = cloud.mgmt
    BY DEF TypeOK, Cloud, PublicIpCreated
  <1>2. ReuseNet' = ReuseNet /\ ReuseSG' = ReuseSG BY DEF ReuseNet, ReuseSG
  <1>3. cloud.next \in Nat /\ cloud'.next >= cloud.next /\ cloud.next > 0 BY <1>1, CloudFields DEF CloudOk
  <1>g. Grows BY <1>1 DEF Grows, Linked
  <1>5. \A i \in cloud'.ips : 0 < i /\ i < cloud'.next BY <1>1, <1>3, CloudFields DEF CloudOk
  <1>. QED BY <1>1, <1>3, <1>g, <1>5, Unaffected DEF CloudOk

LEMMA NetPeeringCreatedOk ==
  ASSUME TypeOK, TypeOK', CloudOk, obj' = obj, NEW net, ~ReuseNet,
         net \in Ids(Tagged(cloud.nets)), cloud' = NetPeeringCreated(net)
  PROVE  /\ Grows /\ CloudOk'
         /\ cloud.next \in Ids(cloud'.peerings)
         /\ Tagged(cloud'.peerings) = Tagged(cloud.peerings)
  <1>0. PICK n : n = [id |-> cloud.next, net |-> net, tagged |-> FALSE, state |-> "pending-acceptance"] OBVIOUS
  <1>1. /\ cloud'.next = cloud.next + 1
        /\ cloud'.peerings = cloud.peerings \cup {[id |-> cloud.next, net |-> net, tagged |-> FALSE, state |-> "pending-acceptance"]}
        /\ cloud'.nets = cloud.nets /\ cloud'.subnets = cloud.subnets /\ cloud'.iss = cloud.iss
        /\ cloud'.rts = cloud.rts /\ cloud'.nats = cloud.nats /\ cloud'.ips = cloud.ips
        /\ cloud'.sgs = cloud.sgs /\ cloud'.lb = cloud.lb /\ cloud'.vms = cloud.vms
        /\ cloud'.naps = cloud.naps /\ cloud'.mgmt = cloud.mgmt
    BY DEF TypeOK, Cloud, NetPeeringCreated
  <1>2. ReuseNet' = ReuseNet /\ ReuseSG' = ReuseSG BY DEF ReuseNet, ReuseSG
  <1>3. cloud.next \in Nat /\ cloud'.next >= cloud.next /\ cloud.next > 0 BY <1>1, CloudFields DEF CloudOk
  <1>4. \A x \in cloud.peerings : x.id \in Nat /\ x.id < cloud.next /\ 0 < x.id
    BY CloudFields DEF NetPeering, Id, CloudOk, PeeringsOk, Known
  <1>5. cloud'.peerings = cloud.peerings \cup {n} BY <1>0, <1>1
  <1>6. n.id = cloud.next /\ n.net = net /\ n.tagged = FALSE /\ n.state = "pending-acceptance" BY <1>0
  <1>g. Grows BY <1>1, <1>5 DEF Grows, Linked
  <1>7. cloud.next \in Ids(cloud'.peerings) BY <1>5, <1>6 DEF Ids
  <1>8. Tagged(cloud'.peerings) = Tagged(cloud.peerings) BY <1>5, <1>6 DEF Tagged
  <1>9. PeeringsOk'
    <2>d. Distinct(cloud'.peerings) BY <1>3, <1>4, <1>5, <1>6 DEF Distinct, CloudOk, PeeringsOk
    <2>k. Known(cloud.peerings)' BY <1>1, <1>3, <1>4, <1>5, <1>6 DEF Known
    <2>i. InNet(cloud.peerings)' BY <1>1, <1>5, <1>6 DEF InNet, CloudOk, PeeringsOk, Ids
    <2>1. \A p \in cloud'.peerings : p.state # "deleted" /\ (p.state = "active" => p.tagged)
      BY <1>5, <1>6 DEF CloudOk, PeeringsOk
    <2>2. \A x \in cloud'.mgmt : Active(x)' BY <1>1, <1>5 DEF Active, CloudOk, PeeringsOk
    <2>. QED BY <1>2, <1>8, <2>d, <2>k, <2>i, <2>1, <2>2 DEF CloudOk, PeeringsOk
  <1>. QED BY <1>1, <1>3, <1>4, <1>5, <1>6, <1>g, <1>7, <1>8, <1>9, Unaffected DEF CloudOk

LEMMA NetPeeringTaggedOk ==
  ASSUME TypeOK, TypeOK', CloudOk, obj' = obj, NEW i, Tagged(cloud.peerings) = {},
         i \in Ids(cloud.peerings), cloud' = NetPeeringTagged(i)
  PROVE  /\ Grows /\ CloudOk'
         /\ i \in Ids(Tagged(cloud'.peerings))
  <1>1. /\ cloud'.peerings = {IF p.id = i THEN [p EXCEPT !.tagged = TRUE] ELSE p : p \in cloud.peerings}
        /\ cloud'.next = cloud.next /\ cloud'.nets = cloud.nets /\ cloud'.subnets = cloud.subnets
        /\ cloud'.iss = cloud.iss /\ cloud'.rts = cloud.rts /\ cloud'.nats = cloud.nats
        /\ cloud'.ips = cloud.ips /\ cloud'.sgs = cloud.sgs /\ cloud'.lb = cloud.lb
        /\ cloud'.vms = cloud.vms /\ cloud'.naps = cloud.naps /\ cloud'.mgmt = cloud.mgmt
    BY DEF TypeOK, Cloud, NetPeeringTagged
  <1>2. ReuseNet' = ReuseNet /\ ReuseSG' = ReuseSG BY DEF ReuseNet, ReuseSG
  <1>3. cloud.next \in Nat /\ cloud'.next >= cloud.next /\ cloud.next > 0 BY <1>1, CloudFields DEF CloudOk
  <1>4. \A x \in cloud.peerings : x.id \in Nat /\ x.id < cloud.next /\ 0 < x.id
    BY CloudFields DEF NetPeering, Id, CloudOk, PeeringsOk, Known
  <1>. DEFINE F(p) == IF p.id = i THEN [p EXCEPT !.tagged = TRUE] ELSE p
  <1>5. \A p \in cloud.peerings :
          /\ p.id = i => F(p).tagged = TRUE
          /\ p.id # i => F(p).tagged = p.tagged
          /\ F(p).id = p.id /\ F(p).net = p.net /\ F(p).state = p.state
    BY CloudFields DEF NetPeering
  <1>6. cloud'.peerings = {F(p) : p \in cloud.peerings} BY <1>1
  <1>. HIDE DEF F
  <1>g. Grows
    <2>1. \A p \in cloud.peerings : ~p.tagged BY DEF Tagged
    <2>. QED BY <1>1, <2>1 DEF Grows, Linked
  <1>7. i \in Ids(Tagged(cloud'.peerings))
    <2>1. PICK p \in cloud.peerings : p.id = i BY DEF Ids
    <2>2. F(p) \in cloud'.peerings /\ F(p).id = i /\ F(p).tagged BY <1>5, <1>6, <2>1
    <2>. QED BY <2>2 DEF Ids, Tagged
  <1>9. PeeringsOk'
    <2>d. Distinct(cloud'.peerings) BY <1>3, <1>4, <1>5, <1>6 DEF Distinct, CloudOk, PeeringsOk
    <2>k. Known(cloud.peerings)' BY <1>1, <1>3, <1>4, <1>5, <1>6 DEF Known
    <2>i. InNet(cloud.peerings)' BY <1>1, <1>5, <1>6 DEF InNet, CloudOk, PeeringsOk, Ids
    <2>1. \A p \in cloud'.peerings : p.state # "deleted" /\ (p.state = "active" => p.tagged)
      BY <1>5, <1>6 DEF CloudOk, PeeringsOk
    <2>2. AtMostOne(Tagged(cloud'.peerings))
      <3>1. \A p \in Tagged(cloud'.peerings) : p \in cloud'.peerings /\ p.id = i BY <1>5, <1>6 DEF Tagged
      <3>. QED BY <2>d, <3>1 DEF AtMostOne, Distinct
    <2>3. \A x \in cloud'.mgmt : Active(x)'
      <3>1. \A x \in cloud.mgmt : \E p \in cloud.peerings : p.id = x /\ p.tagged /\ p.state = "active"
        BY DEF Active, CloudOk, PeeringsOk
      <3>. QED BY <1>1, <1>g, <3>1 DEF Active, Grows
    <2>. QED BY <1>2, <1>6, <2>d, <2>k, <2>i, <2>1, <2>2, <2>3 DEF CloudOk, PeeringsOk
  <1>. QED BY <1>1, <1>3, <1>4, <1>5, <1>6, <1>g, <1>7, <1>9, Unaffected DEF CloudOk

LEMMA NetPeeringIsOk ==
  ASSUME TypeOK, TypeOK', CloudOk, obj' = obj, NEW i, i \in Ids(Tagged(cloud.peerings)),
         cloud' = NetPeeringIs(i, "active")
  PROVE  /\ Grows /\ CloudOk'
         /\ \E p \in cloud'.peerings : p.tagged /\ p.state = "active"
  <1>1. /\ cloud'.peerings = {IF p.id = i THEN [p EXCEPT !.state = "active"] ELSE p : p \in cloud.peerings}
        /\ cloud'.next = cloud.next /\ cloud'.nets = cloud.nets /\ cloud'.subnets = cloud.subnets
        /\ cloud'.iss = cloud.iss /\ cloud'.rts = cloud.rts /\ cloud'.nats = cloud.nats
        /\ cloud'.ips = cloud.ips /\ cloud'.sgs = cloud.sgs /\ cloud'.lb = cloud.lb
        /\ cloud'.vms = cloud.vms /\ cloud'.naps = cloud.naps /\ cloud'.mgmt = cloud.mgmt
    BY DEF TypeOK, Cloud, NetPeeringIs
  <1>2. ReuseNet' = ReuseNet /\ ReuseSG' = ReuseSG BY DEF ReuseNet, ReuseSG
  <1>3. cloud.next \in Nat /\ cloud'.next >= cloud.next /\ cloud.next > 0 BY <1>1, CloudFields DEF CloudOk
  <1>4. \A x \in cloud.peerings : x.id \in Nat /\ x.id < cloud.next /\ 0 < x.id
    BY CloudFields DEF NetPeering, Id, CloudOk, PeeringsOk, Known
  <1>. DEFINE F(p) == IF p.id = i THEN [p EXCEPT !.state = "active"] ELSE p
  <1>5. \A p \in cloud.peerings :
          /\ p.id = i => F(p).state = "active"
          /\ p.id # i => F(p).state = p.state
          /\ F(p).id = p.id /\ F(p).net = p.net /\ F(p).tagged = p.tagged
    BY CloudFields DEF NetPeering
  <1>6. cloud'.peerings = {F(p) : p \in cloud.peerings} BY <1>1
  <1>. HIDE DEF F
  <1>g. Grows
    <2>1. \A p \in cloud.peerings : F(p) \in cloud'.peerings /\ F(p).id = p.id /\ F(p).tagged = p.tagged /\ (p.state = "active" => F(p).state = "active")
      BY <1>5, <1>6
    <2>. QED BY <1>1, <2>1 DEF Grows, Linked
  <1>7. \E p \in cloud'.peerings : p.tagged /\ p.state = "active"
    <2>1. PICK p \in cloud.peerings : p.id = i /\ p.tagged BY DEF Ids, Tagged
    <2>. QED BY <1>5, <1>6, <2>1
  <1>9. PeeringsOk'
    <2>d. Distinct(cloud'.peerings) BY <1>3, <1>4, <1>5, <1>6 DEF Distinct, CloudOk, PeeringsOk
    <2>k. Known(cloud.peerings)' BY <1>1, <1>3, <1>4, <1>5, <1>6 DEF Known
    <2>i. InNet(cloud.peerings)' BY <1>1, <1>5, <1>6 DEF InNet, CloudOk, PeeringsOk, Ids
    <2>1. \A p \in cloud'.peerings : p.state # "deleted" /\ (p.state = "active" => p.tagged)
      <3>1. \A p \in cloud.peerings : p.id = i => p.tagged BY DEF Ids, Tagged, CloudOk, PeeringsOk, Distinct
      <3>. QED BY <1>5, <1>6, <3>1 DEF CloudOk, PeeringsOk
    <2>2. AtMostOne(Tagged(cloud'.peerings))
      <3>1. \A p, q \in cloud.peerings : p.tagged /\ q.tagged => p = q BY DEF CloudOk, PeeringsOk, AtMostOne, Tagged
      <3>. QED BY <1>5, <1>6, <3>1 DEF AtMostOne, Tagged
    <2>3. \A x \in cloud'.mgmt : Active(x)'
      <3>1. \A x \in cloud.mgmt : \E p \in cloud.peerings : p.id = x /\ p.tagged /\ p.state = "active"
        BY DEF Active, CloudOk, PeeringsOk
      <3>. QED BY <1>1, <1>g, <3>1 DEF Active, Grows
    <2>. QED BY <1>2, <1>6, <2>d, <2>k, <2>i, <2>1, <2>2, <2>3 DEF CloudOk, PeeringsOk
  <1>. QED BY <1>1, <1>3, <1>4, <1>5, <1>6, <1>g, <1>7, <1>9, Unaffected DEF CloudOk

LEMMA ManagementRouteCreatedOk ==
  ASSUME TypeOK, TypeOK', CloudOk, obj' = obj, NEW i, Active(i),
         cloud' = ManagementRouteCreated(i)
  PROVE  /\ Grows /\ CloudOk'
         /\ i \in cloud'.mgmt
  <1>1. /\ cloud'.mgmt = cloud.mgmt \cup {i}
        /\ cloud'.next = cloud.next /\ cloud'.nets = cloud.nets /\ cloud'.subnets = cloud.subnets
        /\ cloud'.iss = cloud.iss /\ cloud'.rts = cloud.rts /\ cloud'.nats = cloud.nats
        /\ cloud'.ips = cloud.ips /\ cloud'.sgs = cloud.sgs /\ cloud'.lb = cloud.lb
        /\ cloud'.vms = cloud.vms /\ cloud'.peerings = cloud.peerings /\ cloud'.naps = cloud.naps
    BY DEF TypeOK, Cloud, ManagementRouteCreated
  <1>2. ReuseNet' = ReuseNet /\ ReuseSG' = ReuseSG BY DEF ReuseNet, ReuseSG
  <1>3. cloud.next \in Nat /\ cloud'.next >= cloud.next /\ cloud.next > 0 BY <1>1, CloudFields DEF CloudOk
  <1>g. Grows BY <1>1 DEF Grows, Linked
  <1>5. i \in cloud'.mgmt BY <1>1
  <1>8. PeeringsOk'
    <2>1. \A x \in cloud'.mgmt : Active(x)' BY <1>1 DEF Active, CloudOk, PeeringsOk
    <2>2. Known(cloud.peerings)' BY <1>1 DEF Known, CloudOk, PeeringsOk
    <2>3. InNet(cloud.peerings)' BY <1>1 DEF InNet, CloudOk, PeeringsOk
    <2>. QED BY <1>1, <1>2, <2>1, <2>2, <2>3 DEF CloudOk, PeeringsOk
  <1>. QED BY <1>1, <1>3, <1>g, <1>5, <1>8, Unaffected DEF CloudOk

LEMMA NetAccessPointCreatedOk ==
  ASSUME TypeOK, TypeOK', CloudOk, obj' = obj, NEW net, NEW tables, ~ReuseNet,
         net \in Ids(Tagged(cloud.nets)), cloud.naps = {},
         cloud' = NetAccessPointCreated(net, tables)
  PROVE  /\ Grows /\ CloudOk'
         /\ cloud.next \in Ids(cloud'.naps)
  <1>0. PICK n : n = [id |-> cloud.next, net |-> net, rts |-> tables] OBVIOUS
  <1>1. /\ cloud'.next = cloud.next + 1
        /\ cloud'.naps = cloud.naps \cup {[id |-> cloud.next, net |-> net, rts |-> tables]}
        /\ cloud'.nets = cloud.nets /\ cloud'.subnets = cloud.subnets /\ cloud'.iss = cloud.iss
        /\ cloud'.rts = cloud.rts /\ cloud'.nats = cloud.nats /\ cloud'.ips = cloud.ips
        /\ cloud'.sgs = cloud.sgs /\ cloud'.lb = cloud.lb /\ cloud'.vms = cloud.vms
        /\ cloud'.peerings = cloud.peerings /\ cloud'.mgmt = cloud.mgmt
    BY DEF TypeOK, Cloud, NetAccessPointCreated
  <1>2. ReuseNet' = ReuseNet /\ ReuseSG' = ReuseSG BY DEF ReuseNet, ReuseSG
  <1>3. cloud.next \in Nat /\ cloud'.next >= cloud.next /\ cloud.next > 0 BY <1>1, CloudFields DEF CloudOk
  <1>4. \A x \in cloud.naps : x.id \in Nat /\ x.id < cloud.next /\ 0 < x.id
    BY CloudFields DEF NetAccessPoint, Id, CloudOk, NapsOk, Known
  <1>5. cloud'.naps = cloud.naps \cup {n} BY <1>0, <1>1
  <1>6. n.id = cloud.next /\ n.net = net /\ n.rts = tables BY <1>0
  <1>g. Grows BY <1>1, <1>5 DEF Grows, Linked
  <1>7. cloud.next \in Ids(cloud'.naps) BY <1>5, <1>6 DEF Ids
  <1>9. NapsOk'
    <2>k. Known(cloud.naps)' BY <1>1, <1>3, <1>4, <1>5, <1>6 DEF Known
    <2>i. InNet(cloud.naps)' BY <1>1, <1>5, <1>6 DEF InNet, CloudOk, NapsOk, Ids
    <2>1. AtMostOne(cloud'.naps) BY <1>5 DEF AtMostOne
    <2>. QED BY <1>2, <2>k, <2>i, <2>1 DEF NapsOk
  <1>. QED BY <1>1, <1>3, <1>4, <1>5, <1>6, <1>g, <1>7, <1>9, Unaffected DEF CloudOk

LEMMA SecurityGroupCreatedOk ==
  ASSUME TypeOK, TypeOK', CloudOk, obj' = obj, NEW net, NEW s, ~ReuseSG,
         ~\E g \in cloud.sgs : g.name = s, cloud' = SecurityGroupCreated(net, s)
  PROVE  /\ Grows /\ CloudOk'
         /\ \E g \in cloud'.sgs : g.id = cloud.next /\ g.name = s
  <1>0. PICK n : n = [id |-> cloud.next, net |-> net, name |-> s, ruled |-> FALSE] OBVIOUS
  <1>1. /\ cloud'.next = cloud.next + 1
        /\ cloud'.sgs = cloud.sgs \cup {[id |-> cloud.next, net |-> net, name |-> s, ruled |-> FALSE]}
        /\ cloud'.nets = cloud.nets /\ cloud'.subnets = cloud.subnets /\ cloud'.iss = cloud.iss
        /\ cloud'.rts = cloud.rts /\ cloud'.nats = cloud.nats /\ cloud'.ips = cloud.ips
        /\ cloud'.lb = cloud.lb /\ cloud'.vms = cloud.vms /\ cloud'.peerings = cloud.peerings
        /\ cloud'.naps = cloud.naps /\ cloud'.mgmt = cloud.mgmt
    BY DEF TypeOK, Cloud, SecurityGroupCreated
  <1>2. ReuseNet' = ReuseNet /\ ReuseSG' = ReuseSG BY DEF ReuseNet, ReuseSG
  <1>3. cloud.next \in Nat /\ cloud'.next >= cloud.next /\ cloud.next > 0 BY <1>1, CloudFields DEF CloudOk
  <1>4. \A x \in cloud.sgs : x.id \in Nat /\ x.id < cloud.next /\ 0 < x.id
    BY CloudFields DEF SecurityGroup, Id, CloudOk, GroupsOk, Known
  <1>5. cloud'.sgs = cloud.sgs \cup {n} BY <1>0, <1>1
  <1>6. n.id = cloud.next /\ n.net = net /\ n.name = s /\ n.ruled = FALSE BY <1>0
  <1>g. Grows BY <1>1, <1>5 DEF Grows, Linked
  <1>7. \E g \in cloud'.sgs : g.id = cloud.next /\ g.name = s BY <1>5, <1>6
  <1>9. GroupsOk'
    <2>d. Distinct(cloud'.sgs) BY <1>3, <1>4, <1>5, <1>6 DEF Distinct, CloudOk, GroupsOk
    <2>k. Known(cloud.sgs)' BY <1>1, <1>3, <1>4, <1>5, <1>6 DEF Known
    <2>1. \A x \in SGNames : AtMostOne({g \in cloud'.sgs : g.name = x}) BY <1>5, <1>6 DEF AtMostOne, CloudOk, GroupsOk
    <2>2. ReusedGroups' = ReusedGroups BY <1>2 DEF ReusedGroups
    <2>3. Ids(cloud.sgs) \subseteq Ids(cloud'.sgs) BY <1>5 DEF Ids
    <2>4. ReuseNet => ReusedGroups \subseteq Ids(cloud'.sgs) BY <2>3 DEF CloudOk, GroupsOk
    <2>. QED BY <1>2, <2>d, <2>k, <2>1, <2>2, <2>4 DEF GroupsOk
  <1>. QED BY <1>1, <1>3, <1>4, <1>5, <1>6, <1>g, <1>7, <1>9, Unaffected DEF CloudOk

LEMMA SecurityGroupRuledOk ==
  ASSUME TypeOK, TypeOK', CloudOk, obj' = obj, NEW i, cloud' = SecurityGroupRuled(i)
  PROVE  /\ Grows /\ CloudOk'
         /\ \A g \in cloud.sgs : g.id = i => \E h \in cloud'.sgs : h.name = g.name /\ h.ruled
  <1>1. /\ cloud'.sgs = {IF g.id = i THEN [g EXCEPT !.ruled = TRUE] ELSE g : g \in cloud.sgs}
        /\ cloud'.next = cloud.next /\ cloud'.nets = cloud.nets /\ cloud'.subnets = cloud.subnets
        /\ cloud'.iss = cloud.iss /\ cloud'.rts = cloud.rts /\ cloud'.nats = cloud.nats
        /\ cloud'.ips = cloud.ips /\ cloud'.lb = cloud.lb /\ cloud'.vms = cloud.vms
        /\ cloud'.peerings = cloud.peerings /\ cloud'.naps = cloud.naps /\ cloud'.mgmt = cloud.mgmt
    BY DEF TypeOK, Cloud, SecurityGroupRuled
  <1>2. ReuseNet' = ReuseNet /\ ReuseSG' = ReuseSG BY DEF ReuseNet, ReuseSG
  <1>3. cloud.next \in Nat /\ cloud'.next >= cloud.next /\ cloud.next > 0 BY <1>1, CloudFields DEF CloudOk
  <1>4. \A x \in cloud.sgs : x.id \in Nat /\ x.id < cloud.next /\ 0 < x.id
    BY CloudFields DEF SecurityGroup, Id, CloudOk, GroupsOk, Known
  <1>. DEFINE F(g) == IF g.id = i THEN [g EXCEPT !.ruled = TRUE] ELSE g
  <1>5. \A g \in cloud.sgs :
          /\ g.id = i => F(g).ruled = TRUE
          /\ g.id # i => F(g).ruled = g.ruled
          /\ F(g).id = g.id /\ F(g).name = g.name
    BY CloudFields DEF SecurityGroup
  <1>6. cloud'.sgs = {F(g) : g \in cloud.sgs} BY <1>1
  <1>. HIDE DEF F
  <1>7. \A g \in cloud.sgs : g.id = i => \E h \in cloud'.sgs : h.name = g.name /\ h.ruled BY <1>5, <1>6
  <1>g. Grows
    <2>1. \A g \in cloud.sgs : F(g) \in cloud'.sgs /\ F(g).id = g.id /\ F(g).name = g.name /\ (g.ruled => F(g).ruled)
      BY <1>5, <1>6
    <2>. QED BY <1>1, <2>1 DEF Grows, Linked
  <1>8. GroupsOk'
    <2>k. Known(cloud.sgs)' BY <1>1, <1>3, <1>4, <1>5, <1>6 DEF Known
    <2>1. ~ReuseSG => Distinct(cloud'.sgs) BY <1>5, <1>6 DEF Distinct, CloudOk, GroupsOk
    <2>2. \A x \in SGNames : AtMostOne({g \in cloud'.sgs : g.name = x})
      <3>1. \A g, h \in cloud.sgs : g.name \in SGNames /\ g.name = h.name => g = h BY DEF AtMostOne, CloudOk, GroupsOk
      <3>. QED BY <1>5, <1>6, <3>1 DEF AtMostOne
    <2>3. ReusedGroups' = ReusedGroups BY <1>2 DEF ReusedGroups
    <2>4. Ids(cloud.sgs) \subseteq Ids(cloud'.sgs) BY <1>5, <1>6 DEF Ids
    <2>5. ReuseNet => ReusedGroups \subseteq Ids(cloud'.sgs) BY <2>4 DEF CloudOk, GroupsOk
    <2>. QED BY <1>2, <2>k, <2>1, <2>2, <2>3, <2>5 DEF GroupsOk
  <1>. QED BY <1>1, <1>3, <1>4, <1>5, <1>6, <1>7, <1>g, <1>8, Unaffected DEF CloudOk

LEMMA LoadBalancerCreatedOk ==
  ASSUME TypeOK, TypeOK', CloudOk, obj' = obj, cloud.lb = "none", cloud' = LoadBalancerCreated
  PROVE  Grows /\ CloudOk'
  <1>1. /\ cloud'.lb = "untagged"
        /\ cloud'.next = cloud.next /\ cloud'.nets = cloud.nets /\ cloud'.subnets = cloud.subnets
        /\ cloud'.iss = cloud.iss /\ cloud'.rts = cloud.rts /\ cloud'.nats = cloud.nats
        /\ cloud'.ips = cloud.ips /\ cloud'.sgs = cloud.sgs /\ cloud'.vms = cloud.vms
        /\ cloud'.peerings = cloud.peerings /\ cloud'.naps = cloud.naps /\ cloud'.mgmt = cloud.mgmt
    BY DEF TypeOK, Cloud, LoadBalancerCreated
  <1>2. ReuseNet' = ReuseNet /\ ReuseSG' = ReuseSG BY DEF ReuseNet, ReuseSG
  <1>3. cloud.next \in Nat /\ cloud'.next >= cloud.next /\ cloud.next > 0 BY <1>1, CloudFields DEF CloudOk
  <1>g. Grows BY <1>1 DEF Grows, Linked
  <1>. QED BY <1>1, <1>3, <1>g, Unaffected DEF CloudOk

LEMMA LoadBalancerTaggedOk ==
  ASSUME TypeOK, TypeOK', CloudOk, obj' = obj, cloud' = LoadBalancerTagged
  PROVE  /\ Grows /\ CloudOk'
         /\ cloud'.lb = "tagged"
  <1>1. /\ cloud'.lb = "tagged"
        /\ cloud'.next = cloud.next /\ cloud'.nets = cloud.nets /\ cloud'.subnets = cloud.subnets
        /\ cloud'.iss = cloud.iss /\ cloud'.rts = cloud.rts /\ cloud'.nats = cloud.nats
        /\ cloud'.ips = cloud.ips /\ cloud'.sgs = cloud.sgs /\ cloud'.vms = cloud.vms
        /\ cloud'.peerings = cloud.peerings /\ cloud'.naps = cloud.naps /\ cloud'.mgmt = cloud.mgmt
    BY DEF TypeOK, Cloud, LoadBalancerTagged
  <1>2. ReuseNet' = ReuseNet /\ ReuseSG' = ReuseSG BY DEF ReuseNet, ReuseSG
  <1>3. cloud.next \in Nat /\ cloud'.next >= cloud.next /\ cloud.next > 0 BY <1>1, CloudFields DEF CloudOk
  <1>g. Grows BY <1>1 DEF Grows, Linked
  <1>. QED BY <1>1, <1>3, <1>g, Unaffected DEF CloudOk

LEMMA BastionCreatedOk ==
  ASSUME TypeOK, TypeOK', CloudOk, obj' = obj, NEW ip, ~ReuseNet, cloud.vms = {},
         ip \in cloud.ips, cloud' = BastionCreated(ip)
  PROVE  /\ Grows /\ CloudOk'
         /\ cloud.next \in Ids(cloud'.vms)
         /\ cloud'.ips = cloud.ips
         /\ cloud'.nats = cloud.nats
  <1>0. PICK n : n = [id |-> cloud.next, ip |-> ip, state |-> "pending"] OBVIOUS
  <1>1. /\ cloud'.next = cloud.next + 1
        /\ cloud'.vms = cloud.vms \cup {[id |-> cloud.next, ip |-> ip, state |-> "pending"]}
        /\ cloud'.nets = cloud.nets /\ cloud'.subnets = cloud.subnets /\ cloud'.iss = cloud.iss
        /\ cloud'.rts = cloud.rts /\ cloud'.nats = cloud.nats /\ cloud'.ips = cloud.ips
        /\ cloud'.sgs = cloud.sgs /\ cloud'.lb = cloud.lb /\ cloud'.peerings = cloud.peerings
        /\ cloud'.naps = cloud.naps /\ cloud'.mgmt = cloud.mgmt
    BY DEF TypeOK, Cloud, BastionCreated
  <1>2. ReuseNet' = ReuseNet /\ ReuseSG' = ReuseSG BY DEF ReuseNet, ReuseSG
  <1>3. cloud.next \in Nat /\ cloud'.next >= cloud.next /\ cloud.next > 0 BY <1>1, CloudFields DEF CloudOk
  <1>4. \A x \in cloud.vms : x.id \in Nat /\ x.id < cloud.next /\ 0 < x.id
    BY CloudFields DEF Vm, Id, CloudOk, VmsOk, Known
  <1>5. cloud'.vms = cloud.vms \cup {n} BY <1>0, <1>1
  <1>6. n.id = cloud.next /\ n.ip = ip /\ n.state = "pending" BY <1>0
  <1>g. Grows BY <1>1, <1>5 DEF Grows, Linked
  <1>7. cloud.next \in Ids(cloud'.vms) BY <1>5, <1>6 DEF Ids
  <1>9. VmsOk'
    <2>k. Known(cloud.vms)' BY <1>1, <1>3, <1>4, <1>5, <1>6 DEF Known
    <2>1. AtMostOne(cloud'.vms) BY <1>5 DEF AtMostOne
    <2>. QED BY <1>1, <1>2, <1>5, <1>6, <2>k, <2>1 DEF VmsOk
  <1>. QED BY <1>1, <1>3, <1>4, <1>5, <1>6, <1>g, <1>7, <1>9, Unaffected DEF CloudOk

LEMMA VmBootsOk ==
  ASSUME TypeOK, TypeOK', CloudOk, obj' = obj, NEW v \in cloud.vms, v.state = "pending",
         cloud' = [cloud EXCEPT !.vms = (@ \ {v}) \cup {[v EXCEPT !.state = "running"]}]
  PROVE  /\ Grows /\ CloudOk'
         /\ cloud'.ips = cloud.ips
         /\ cloud'.nats = cloud.nats
         /\ cloud'.vms # {}
  <1>0. PICK n : n = [v EXCEPT !.state = "running"] OBVIOUS
  <1>1. /\ cloud'.vms = (cloud.vms \ {v}) \cup {[v EXCEPT !.state = "running"]}
        /\ cloud'.next = cloud.next /\ cloud'.nets = cloud.nets /\ cloud'.subnets = cloud.subnets
        /\ cloud'.iss = cloud.iss /\ cloud'.rts = cloud.rts /\ cloud'.nats = cloud.nats
        /\ cloud'.ips = cloud.ips /\ cloud'.sgs = cloud.sgs /\ cloud'.lb = cloud.lb
        /\ cloud'.peerings = cloud.peerings /\ cloud'.naps = cloud.naps /\ cloud'.mgmt = cloud.mgmt
    BY DEF TypeOK, Cloud, VmBoots
  <1>2. ReuseNet' = ReuseNet /\ ReuseSG' = ReuseSG BY DEF ReuseNet, ReuseSG
  <1>3. cloud.next \in Nat /\ cloud'.next >= cloud.next /\ cloud.next > 0 BY <1>1, CloudFields DEF CloudOk
  <1>4. \A x \in cloud.vms : x.id \in Nat /\ x.id < cloud.next /\ 0 < x.id
    BY CloudFields DEF Vm, Id, CloudOk, VmsOk, Known
  <1>5. cloud.vms = {v} BY DEF CloudOk, VmsOk, AtMostOne
  <1>6. cloud'.vms = {n} /\ n.id = v.id /\ n.ip = v.ip /\ n.state = "running" BY <1>0, <1>1, <1>5, CloudFields DEF Vm
  <1>g. Grows BY <1>1, <1>5, <1>6 DEF Grows, Linked
  <1>8. VmsOk'
    <2>k. Known(cloud.vms)' BY <1>1, <1>3, <1>4, <1>5, <1>6 DEF Known
    <2>1. AtMostOne(cloud'.vms) BY <1>6 DEF AtMostOne
    <2>. QED BY <1>1, <1>2, <1>6, <2>k, <2>1 DEF CloudOk, VmsOk
  <1>. QED BY <1>1, <1>3, <1>4, <1>5, <1>6, <1>g, <1>8, Unaffected DEF CloudOk
--------------------------------------------------------------------------------
(* The steps of a pass that builds, by how they go on. *)
LEMMA HandlerOrder ==
  \A i, j \in 1 .. 13 : i < j => Before(BuildOrder[i], BuildOrder[j])
  BY OrderFacts, IndexFacts DEF Before

LEMMA BeforeFacts ==
  /\ Before("net", "subnet") /\ Before("net", "internetService") /\ Before("net", "rtNat")
  /\ Before("net", "natService") /\ Before("subnet", "natService")
  /\ Before("internetService", "natService") /\ Before("rtNat", "natService")
  /\ Before("net", "routeTable") /\ Before("net", "netPeering")
  /\ Before("net", "netPeeringRoutes") /\ Before("routeTable", "netPeeringRoutes")
  /\ Before("netPeering", "netPeeringRoutes") /\ Before("net", "netAccessPoint")
  /\ Before("subnet", "bastion") /\ Before("securityGroup", "bastion")
  /\ \A k \in Reconcilers : Before(k, "ready")
  <1>1. /\ BuildOrder[1] = "net" /\ BuildOrder[2] = "subnet" /\ BuildOrder[3] = "internetService"
        /\ BuildOrder[4] = "rtNat" /\ BuildOrder[5] = "natService" /\ BuildOrder[6] = "routeTable"
        /\ BuildOrder[7] = "netPeering" /\ BuildOrder[8] = "netPeeringRoutes"
        /\ BuildOrder[9] = "netAccessPoint" /\ BuildOrder[10] = "securityGroup"
        /\ BuildOrder[11] = "loadbalancer" /\ BuildOrder[12] = "bastion" /\ BuildOrder[13] = "ready"
    BY DEF BuildOrder
  <1>2. /\ Before(BuildOrder[1], BuildOrder[2]) /\ Before(BuildOrder[1], BuildOrder[3])
        /\ Before(BuildOrder[1], BuildOrder[4]) /\ Before(BuildOrder[1], BuildOrder[5])
        /\ Before(BuildOrder[2], BuildOrder[5]) /\ Before(BuildOrder[3], BuildOrder[5])
        /\ Before(BuildOrder[4], BuildOrder[5]) /\ Before(BuildOrder[1], BuildOrder[6])
        /\ Before(BuildOrder[1], BuildOrder[7]) /\ Before(BuildOrder[1], BuildOrder[8])
        /\ Before(BuildOrder[6], BuildOrder[8]) /\ Before(BuildOrder[7], BuildOrder[8])
        /\ Before(BuildOrder[1], BuildOrder[9]) /\ Before(BuildOrder[2], BuildOrder[12])
        /\ Before(BuildOrder[10], BuildOrder[12])
    BY HandlerOrder
  <1>3. \A k \in Reconcilers : Before(k, "ready")
    <2>. TAKE k \in Reconcilers
    <2>1. PICK i \in 1 .. 13 : BuildOrder[i] = k BY PhaseTypes, OrderFacts
    <2>2. i # 13 BY <2>1, OrderFacts DEF Reconcilers
    <2>3. Before(BuildOrder[i], BuildOrder[13]) BY <2>2, HandlerOrder
    <2>. QED BY <1>1, <2>1, <2>3
  <1>4. /\ Before("net", "subnet") /\ Before("net", "internetService") /\ Before("net", "rtNat")
        /\ Before("net", "natService") /\ Before("subnet", "natService")
        /\ Before("internetService", "natService") /\ Before("rtNat", "natService")
        /\ Before("net", "routeTable")
    BY <1>1, <1>2
  <1>5. /\ Before("net", "netPeering")
        /\ Before("net", "netPeeringRoutes") /\ Before("routeTable", "netPeeringRoutes")
        /\ Before("netPeering", "netPeeringRoutes") /\ Before("net", "netAccessPoint")
        /\ Before("subnet", "bastion") /\ Before("securityGroup", "bastion")
    BY <1>1, <1>2
  <1>. QED BY <1>3, <1>4, <1>5

LEMMA BuildGoesOn ==
  ASSUME ClusterInv, at.phase \in BuildPhase, at.step # "create",
         NEW a \in Position, NEW m, Heir(mem, m), Continue(a, m), CopyOk(m)',
         at'.phase \in BuildPhase \cup {"patch"}, BehindOk', LoopsOk', CallsOk'
  PROVE  ClusterInv' /\ Builds
  <1>1. at' = a /\ mem' = m /\ UNCHANGED <<cloud, obj, cache, old, machines, faults, edits>>
    BY DEF Continue
  <1>2. TypeOK /\ CloudOk /\ IpsOwed /\ IsFiniteSet(cloud.ips) BY Building
  <1>3. TypeOK' /\ Heir(mem, mem') BY <1>2, ContinueType
  <1>4. Grows /\ CloudOk' BY <1>1, <1>2, GrowsSame, CloudSame
  <1>5. CopyOk(mem)' BY <1>1
  <1>6. ~At("natService", "create") /\ ~At("bastion", "create") BY DEF At
  <1>7. IsFiniteSet(cloud'.ips) /\ IpsOwed' BY <1>1, <1>2, <1>3, <1>6, IpsKept
  <1>. QED BY <1>1, <1>3, <1>4, <1>5, <1>7, BuildStepOk

(* The pass ends early: Close is all that is left of it. *)
LEMMA BuildEnds ==
  ASSUME ClusterInv, at.phase \in BuildPhase, at.step # "create",
         NEW m, Heir(mem, m), EndPass(m), CopyOk(m)'
  PROVE  ClusterInv' /\ Builds
  <1>1. Continue(Start("patch"), m) BY DEF EndPass
  <1>2. at' = Start("patch") BY <1>1 DEF Continue
  <1>3. at'.phase = "patch" /\ at'.step = "start" BY <1>2 DEF Start
  <1>4. BehindOk' BY <1>3 DEF BehindOk, BuildPhase
  <1>5. LoopsOk' BY <1>3 DEF LoopsOk, At
  <1>6. CallsOk' BY <1>3 DEF CallsOk, At
  <1>. QED BY <1>1, <1>3, <1>4, <1>5, <1>6, PatchType, BuildGoesOn

(* The handler p is through without a call. *)
LEMMA BuildNext ==
  ASSUME ClusterInv, NEW p \in BuildPhase \ {"ready"}, at.phase = p, at.step # "create",
         NEW m, Heir(mem, m), Continue(Start(After(p)), m), CopyOk(m)',
         p \in Owned => Made(p, mem.spec),
         p = "rtNat" /\ Internet /\ ~ReuseNet => HasTable(Pub)
  PROVE  ClusterInv' /\ Builds
  <1>1. at' = Start(After(p)) /\ mem' = m /\ UNCHANGED <<cloud, obj, cache, old, machines, faults, edits>>
    BY DEF Continue
  <1>2. TypeOK /\ CloudOk /\ mem.spec \in Specs /\ Pub \in Ranges BY Building
  <1>3. Grows BY <1>1, GrowsSame
  <1>4. p \in Owned => Made(p, mem.spec)'
    <2>1. PICK s \in Specs : s = mem.spec BY <1>2
    <2>2. mem'.spec = s BY <1>1, <2>1 DEF Heir
    <2>3. p \in Owned => Made(p, s)' BY <1>1, <1>2, <1>3, <2>1, GrowsMade, OwnedFacts
    <2>. QED BY <2>2, <2>3
  <1>5. p = "rtNat" /\ Internet /\ ~ReuseNet => HasTable(Pub)' BY <1>1, <1>2, <1>3, GrowsFind
  <1>6. Heir(mem, mem') BY <1>1
  <1>7. at'.phase \in BuildPhase /\ BehindOk' /\ LoopsOk' /\ CallsOk'
    BY <1>1, <1>3, <1>4, <1>5, <1>6, NextHandler
  <1>. QED BY <1>7, AfterType, BuildGoesOn

LEMMA BuildLoop ==
  ASSUME ClusterInv, at.phase \in BuildPhase, at.step # "create",
         NEW a \in Position, a.phase = at.phase, NEW m, Heir(mem, m), Continue(a, m), CopyOk(m)',
         LoopsOk', CallsOk'
  PROVE  ClusterInv' /\ Builds
  <1>1. at' = a /\ mem' = m /\ UNCHANGED <<cloud, obj, cache, old, machines, faults, edits>>
    BY DEF Continue
  <1>2. Grows /\ Heir(mem, mem') BY <1>1, GrowsSame
  <1>3. BehindOk' BY <1>1, <1>2, SamePhase
  <1>. QED BY <1>1, <1>3, BuildGoesOn

(* A call of a pass that builds: either way the cloud grows. *)
LEMMA CallFacts ==
  ASSUME ClusterInv, at.phase \in BuildPhase,
         NEW after \in Cloud, NEW a \in Position, NEW s, NEW m,
         Heir(mem, s), Heir(mem, m), Call(after, a, s, m)
  PROVE  /\ TypeOK' /\ Heir(mem, mem') /\ UNCHANGED <<obj, cache, old, machines, edits>>
         /\ cloud' = after \/ cloud' = cloud
         /\ \/ cloud' = after /\ at' = a /\ mem' = m /\ faults' = faults
            \/ at' = Start("patch") /\ mem' = s /\ faults' = faults + 1
         /\ (cloud' = after => Grows /\ CloudOk') => Grows /\ CloudOk'
  <1>1. TypeOK' /\ Heir(mem, mem') BY CallType, Building
  <1>2. UNCHANGED <<obj, cache, old, machines, edits>> BY DEF Call
  <1>3. \/ cloud' = after /\ at' = a /\ mem' = m /\ faults' = faults
        \/ at' = Start("patch") /\ mem' = s /\ faults' = faults + 1
    BY DEF Call
  <1>4. cloud' = after \/ cloud' = cloud BY DEF Call
  <1>5. cloud' = cloud => Grows /\ CloudOk' BY <1>2, GrowsSame, CloudSame, Building
  <1>. QED BY <1>1, <1>2, <1>3, <1>4, <1>5

LEMMA BuildCallIps ==
  ASSUME ClusterInv, at.phase \in BuildPhase,
         NEW after \in Cloud, NEW a \in Position, NEW s, NEW m,
         Heir(mem, s), Heir(mem, m), Call(after, a, s, m),
         Grows, CloudOk', CopyOk(s)',
         cloud' = after /\ at' = a /\ mem' = m =>
           /\ at'.phase \in BuildPhase \cup {"patch"}
           /\ CopyOk(mem)' /\ BehindOk' /\ LoopsOk' /\ CallsOk',
         IsFiniteSet(cloud'.ips), IpsOwed'
  PROVE  ClusterInv' /\ Builds
  <1>1. TypeOK' /\ Heir(mem, mem') /\ UNCHANGED <<obj, cache, old, machines>> BY CallFacts
  <1>2. CASE cloud' = after /\ at' = a /\ mem' = m BY <1>1, <1>2, BuildStepOk
  <1>3. CASE at' = Start("patch") /\ mem' = s
    <2>1. at'.phase = "patch" /\ at'.step = "start" BY <1>3 DEF Start
    <2>2. BehindOk' BY <2>1 DEF BehindOk, BuildPhase
    <2>3. LoopsOk' BY <2>1 DEF LoopsOk, At
    <2>4. CallsOk' BY <2>1 DEF CallsOk, At
    <2>5. CopyOk(mem)' BY <1>3
    <2>. QED BY <1>1, <2>1, <2>2, <2>3, <2>4, <2>5, BuildStepOk
  <1>. QED BY <1>2, <1>3, CallFacts

(* A step that asks for no IP. *)
LEMMA GrowsIps ==
  ASSUME ClusterInv, at.phase \in BuildPhase, TypeOK', obj' = obj, Grows, cloud'.ips = cloud.ips,
         faults' = faults + 1 \/ (faults' = faults /\ at.step # "create")
  PROVE  IsFiniteSet(cloud'.ips) /\ IpsOwed'
  <1>1. TypeOK /\ IsFiniteSet(cloud.ips) /\ IpsOwed BY Building
  <1>2. (cloud.nats # {} => cloud'.nats # {}) /\ (cloud.vms # {} => cloud'.vms # {}) BY DEF Grows
  <1>3. at.step # "create" => ~At("natService", "create") /\ ~At("bastion", "create") BY DEF At
  <1>. QED BY <1>1, <1>2, <1>3, IpsKept

(* A call after which the handler goes on. *)
LEMMA BuildCall ==
  ASSUME ClusterInv, at.phase \in BuildPhase, at.step # "create",
         NEW after \in Cloud, NEW a \in Position, a.phase = at.phase, NEW s, NEW m,
         Heir(mem, s), Heir(mem, m), Call(after, a, s, m),
         Grows, CloudOk', CopyOk(s)', after.ips = cloud.ips,
         cloud' = after /\ at' = a /\ mem' = m => CopyOk(mem)' /\ LoopsOk' /\ CallsOk'
  PROVE  ClusterInv' /\ Builds
  <1>1. /\ TypeOK' /\ Heir(mem, mem') /\ UNCHANGED <<obj, cache, old, machines>>
        /\ cloud' = after \/ cloud' = cloud
        /\ faults' = faults + 1 \/ faults' = faults
    BY CallFacts
  <1>2. IsFiniteSet(cloud'.ips) /\ IpsOwed' BY <1>1, GrowsIps
  <1>3. at' = a => BehindOk' BY <1>1, SamePhase
  <1>4. cloud' = after /\ at' = a /\ mem' = m =>
           /\ at'.phase \in BuildPhase \cup {"patch"}
           /\ CopyOk(mem)' /\ BehindOk' /\ LoopsOk' /\ CallsOk'
    BY <1>3
  <1>. QED BY <1>2, <1>4, BuildCallIps

(* A call with which the handler ends. *)
LEMMA BuildCallNext ==
  ASSUME ClusterInv, NEW p \in BuildPhase \ {"ready"}, at.phase = p, at.step # "create",
         NEW after \in Cloud, NEW s, NEW m,
         Heir(mem, s), Heir(mem, m), Call(after, Start(After(p)), s, m),
         Grows, CloudOk', CopyOk(s)', after.ips = cloud.ips,
         cloud' = after /\ mem' = m => CopyOk(mem)' /\ Made(p, mem.spec)',
         p # "rtNat"
  PROVE  ClusterInv' /\ Builds
  <1>0. Start(After(p)) \in Position BY AfterType
  <1>1. /\ TypeOK' /\ Heir(mem, mem') /\ UNCHANGED <<obj, cache, old, machines>>
        /\ cloud' = after \/ cloud' = cloud
        /\ faults' = faults + 1 \/ faults' = faults
    BY <1>0, CallFacts
  <1>2. IsFiniteSet(cloud'.ips) /\ IpsOwed' BY <1>1, GrowsIps
  <1>3. cloud' = after /\ mem' = m /\ at' = Start(After(p)) =>
          at'.phase \in BuildPhase /\ BehindOk' /\ LoopsOk' /\ CallsOk'
    BY <1>1, NextHandler
  <1>4. cloud' = after /\ at' = Start(After(p)) /\ mem' = m =>
           /\ at'.phase \in BuildPhase \cup {"patch"}
           /\ CopyOk(mem)' /\ BehindOk' /\ LoopsOk' /\ CallsOk'
    BY <1>3
  <1>. QED BY <1>0, <1>2, <1>4, BuildCallIps

LEMMA HeirRecorded ==
  ASSUME NEW m, NEW w, Heir(m, w), NEW k \in Reconcilers
  PROVE  Heir(m, Recorded(w, k))
  <1>1. w \in OscCluster BY DEF Heir
  <1>2. Heir(w, Recorded(w, k)) BY <1>1, UpdateTypes
  <1>. QED BY <1>2 DEF Heir

LEMMA RecordedOk ==
  ASSUME NEW m, NEW w, Heir(m, w), CopyOk(w)', NEW k \in Reconcilers, Made(k, m.spec)'
  PROVE  CopyOk(Recorded(w, k))'
  <1>1. w \in OscCluster /\ w.spec = m.spec BY DEF Heir
  <1>2. Made(k, w.spec)' BY <1>1
  <1>. QED BY <1>1, <1>2, SetFields

(* Nothing changes in the cloud: what was made is still there. *)
LEMMA StillMade ==
  ASSUME ClusterInv, at.phase \in BuildPhase, cloud' = cloud, obj' = obj
  PROVE  /\ Grows /\ CloudOk'
         /\ \A s \in Specs, k \in Reconcilers : Made(k, s) => Made(k, s)'
         /\ \A m \in OscCluster : CopyOk(m) => CopyOk(m)'
  <1>1. CloudOk BY Building
  <1>2. Grows /\ CloudOk' BY <1>1, GrowsSame, CloudSame
  <1>. QED BY <1>1, <1>2, GrowsMade, GrowsCopy
--------------------------------------------------------------------------------
(* What the lookups of a handler write to the scope is true of the cloud.  *)
LEMMA ScopeOk ==
  ASSUME ClusterInv, at.phase \in BuildPhase, obj' = obj, Grows
  PROVE  /\ \A w : w = mem \/ w = WithNet(mem) \/ w = WithPeering(mem) \/ w = WithNet(WithPeering(mem)) =>
                     Heir(mem, w) /\ CopyOk(w)'
         /\ \A w : w = WithEndpoint(mem) => Heir(mem, w) /\ (cloud'.lb = "tagged" => CopyOk(w)')
         /\ ~ReuseNet => \A w : w = WithService(mem) \/ w = WithPrivateSubnets(mem) =>
                                  Heir(mem, w) /\ CopyOk(w)'
         /\ \A r \in Ranges : \A w : w = WithSubnet(mem, r, SubnetId(mem, r)) => Heir(mem, w) /\ CopyOk(w)'
         /\ ~ReuseNet => \A r \in Ranges : \A w : w = WithTarget(mem, r) => Heir(mem, w) /\ CopyOk(w)'
         /\ \A s \in SGNames : \A w : w = WithGroup(mem, s, SecurityGroupId(mem, s)) =>
                                        Heir(mem, w) /\ CopyOk(w)'
         /\ cloud.vms # {} => \A w : w = WithBastion(mem) => Heir(mem, w) /\ CopyOk(w)'
  <1>0. TypeOK /\ CloudOk /\ mem \in OscCluster /\ CopyOk(mem) /\ StatusOk(mem) BY Building
  <1>1. PICK c \in OscCluster : c = mem BY <1>0
  <1>2. CopyOk(c) BY <1>0, <1>1
  <1>3. Heir(mem, mem) BY <1>0, UpdateTypes
  <1>4. (\A r \in Ranges : SubnetId(mem, r) \in Nat) /\ (\A s \in SGNames : SecurityGroupId(mem, s) \in Nat)
    BY <1>0, LookupTypes
  <1>5. cloud.vms # {} => BastionId(mem) \in Ids(cloud.vms) BY <1>0, BastionLookup
  <1>6. /\ Heir(mem, WithNet(mem)) /\ Heir(mem, WithService(mem)) /\ Heir(mem, WithPeering(mem))
        /\ Heir(mem, WithNet(WithPeering(mem))) /\ Heir(mem, WithPrivateSubnets(mem))
        /\ Heir(mem, WithEndpoint(mem))
        /\ \A r \in Ranges : Heir(mem, WithTarget(mem, r))
        /\ \A r \in Ranges : Heir(mem, WithSubnet(mem, r, SubnetId(mem, r)))
        /\ \A s \in SGNames : Heir(mem, WithGroup(mem, s, SecurityGroupId(mem, s)))
        /\ cloud.vms # {} => Heir(mem, WithBastion(mem))
    BY <1>0, <1>4, <1>5, WithTypes
  <1>7. cloud'.lb = "tagged" => Made("loadbalancer", c.spec)' BY DEF Made
  <1>a. obj'.opt = obj.opt OBVIOUS
  <1>8. /\ CopyOk(c)'
        /\ \A w : w = WithNet(c) \/ w = WithPeering(c) \/ w = WithNet(WithPeering(c)) => CopyOk(w)'
        /\ \A w : w = WithEndpoint(c) /\ Made("loadbalancer", c.spec)' => CopyOk(w)'
        /\ \A w : ~ReuseNet /\ (w = WithService(c) \/ w = WithPrivateSubnets(c)) => CopyOk(w)'
        /\ \A w : \A r \in Ranges : w = WithSubnet(c, r, SubnetId(c, r)) => CopyOk(w)'
        /\ \A w : \A r \in Ranges : ~ReuseNet /\ w = WithTarget(c, r) => CopyOk(w)'
        /\ \A w : \A s \in SGNames : w = WithGroup(c, s, SecurityGroupId(c, s)) => CopyOk(w)'
        /\ \A w : cloud.vms # {} /\ w = WithBastion(c) => CopyOk(w)'
    BY <1>0, <1>2, <1>a, WithOk
  <1>9. \A w : w = mem \/ w = WithNet(mem) \/ w = WithPeering(mem) \/ w = WithNet(WithPeering(mem)) =>
                     Heir(mem, w) /\ CopyOk(w)'
    BY <1>1, <1>3, <1>6, <1>8
  <1>10. \A w : w = WithEndpoint(mem) => Heir(mem, w) /\ (cloud'.lb = "tagged" => CopyOk(w)')
    BY <1>1, <1>6, <1>7, <1>8
  <1>11. ~ReuseNet => \A w : w = WithService(mem) \/ w = WithPrivateSubnets(mem) => Heir(mem, w) /\ CopyOk(w)'
    BY <1>1, <1>6, <1>8
  <1>12. /\ \A r \in Ranges : \A w : w = WithSubnet(mem, r, SubnetId(mem, r)) => Heir(mem, w) /\ CopyOk(w)'
         /\ ~ReuseNet => \A r \in Ranges : \A w : w = WithTarget(mem, r) => Heir(mem, w) /\ CopyOk(w)'
    BY <1>1, <1>6, <1>8
  <1>13. /\ \A s \in SGNames : \A w : w = WithGroup(mem, s, SecurityGroupId(mem, s)) =>
                                        Heir(mem, w) /\ CopyOk(w)'
         /\ cloud.vms # {} => \A w : w = WithBastion(mem) => Heir(mem, w) /\ CopyOk(w)'
    BY <1>1, <1>6, <1>8
  <1>. QED BY <1>9, <1>10, <1>11, <1>12, <1>13

LEMMA RecordedScope ==
  ASSUME NEW w, Heir(mem, w), CopyOk(w)', NEW k \in Reconcilers, NEW s, s = mem.spec, Made(k, s)'
  PROVE  \A x : x = Recorded(w, k) => Heir(mem, x) /\ CopyOk(x)'
  <1>1. w \in OscCluster /\ w.spec = s BY DEF Heir
  <1>2. Made(k, w.spec)' BY <1>1
  <1>3. CopyOk(Recorded(w, k))' BY <1>1, <1>2, SetFields
  <1>4. Heir(mem, Recorded(w, k)) BY HeirRecorded
  <1>. QED BY <1>3, <1>4

(* A step that only looks. *)
LEMMA Looking ==
  ASSUME ClusterInv, at.phase \in BuildPhase, NEW a, NEW m, Continue(a, m) \/ EndPass(m)
  PROVE  /\ cloud' = cloud /\ obj' = obj /\ mem' = m
         /\ Grows /\ CloudOk' /\ TypeOK /\ CloudOk /\ StatusOk(mem) /\ mem \in OscCluster
         /\ \A s \in Specs, k \in Reconcilers : Made(k, s) => Made(k, s)'
  <1>1. cloud' = cloud /\ obj' = obj /\ mem' = m BY DEF Continue, EndPass
  <1>. QED BY <1>1, StillMade, Building

LEMMA SkipOk == ASSUME ClusterInv, Skip PROVE ClusterInv' /\ Builds
  <1>1. PICK p : p = at.phase OBVIOUS
  <1>2. /\ p \in BuildPhase \ {"ready"} /\ at.step = "start" /\ ReconcilerOf(p) \in Reconcilers
        /\ p \in Reconcilers \cup {"rtNat"}
    BY <1>1 DEF Skip, Reconcilers, BuildPhase, ReconcilerOf
  <1>3. PICK k \in Reconcilers : k = ReconcilerOf(p) BY <1>2
  <1>4. /\ CopyOk(mem) /\ mem \in OscCluster /\ Pub \in mem.spec
    BY <1>1, <1>2, Building
  <1>5. Made(k, mem.spec)
    <2>1. mem.rec[k] \in Nat /\ mem.gen \in Nat BY <1>4 DEF OscCluster
    <2>2. mem.rec[k] <= mem.gen /\ (mem.rec[k] = mem.gen => Made(k, mem.spec))
      BY <1>4 DEF CopyOk, RecordOk
    <2>3. ~(mem.rec[k] < mem.gen) BY <1>1, <1>3 DEF Skip, Skips, Due
    <2>. QED BY <2>1, <2>2, <2>3
  <1>6. p \in Owned => Made(p, mem.spec)
    <2>1. p \in Owned => p \in Reconcilers BY OwnedFacts
    <2>2. "rtNat" \notin Reconcilers BY DEF Reconcilers
    <2>. QED BY <1>3, <1>5, <2>1, <2>2 DEF ReconcilerOf
  <1>7. p = "rtNat" => HasTable(Pub)
    <2>. HAVE p = "rtNat"
    <2>1. Made("routeTable", mem.spec) BY <1>3, <1>5 DEF ReconcilerOf
    <2>. QED BY <1>4, <2>1 DEF Made
  <1>8. PICK c : c = mem OBVIOUS
  <1>9. Continue(Start(After(p)), c) BY <1>1, <1>8 DEF Skip
  <1>10. Grows /\ obj' = obj BY <1>1, <1>2, <1>9, Looking
  <1>11. Heir(mem, c) /\ CopyOk(c)' BY <1>1, <1>2, <1>8, <1>10, ScopeOk
  <1>. QED BY <1>1, <1>2, <1>6, <1>7, <1>9, <1>11, BuildNext
--------------------------------------------------------------------------------
(* The net. *)
LEMMA FoundNetOk == ASSUME ClusterInv, FoundNet PROVE ClusterInv' /\ Builds
  <1>1. at.phase = "net" /\ at.step = "start" /\ NetFound(mem) BY DEF FoundNet, At
  <1>2. "net" \in BuildPhase \ {"ready"} /\ "net" \in Reconcilers BY DEF BuildPhase, Reconcilers
  <1>3. PICK w : w = WithNet(mem) OBVIOUS
  <1>4. PICK x : x = Recorded(w, "net") OBVIOUS
  <1>5. Continue(Start(After("net")), x) BY <1>3, <1>4 DEF FoundNet
  <1>6. Grows /\ obj' = obj /\ \A s \in Specs, k \in Reconcilers : Made(k, s) => Made(k, s)'
    BY <1>1, <1>2, <1>5, Looking
  <1>7. CloudOk /\ StatusOk(mem) /\ mem.spec \in Specs BY <1>1, <1>2, Building
  <1>8. Made("net", mem.spec)
    <2>1. ~ReuseNet => Tagged(cloud.nets) # {}
      <3>. HAVE ~ReuseNet
      <3>1. 0 \notin Ids(cloud.nets) BY <1>7 DEF CloudOk, NetsOk, Known, Ids
      <3>. QED BY <1>1, <1>7, <3>1, NetLookup DEF NetFound
    <2>. QED BY <2>1 DEF Made
  <1>9. PICK s \in Specs : s = mem.spec BY <1>7
  <1>10. Made("net", s)' BY <1>2, <1>6, <1>8, <1>9
  <1>11. Heir(mem, w) /\ CopyOk(w)' BY <1>1, <1>2, <1>3, <1>6, ScopeOk
  <1>12. Heir(mem, x) /\ CopyOk(x)' BY <1>2, <1>4, <1>9, <1>10, <1>11, RecordedScope
  <1>. QED BY <1>1, <1>2, <1>5, <1>8, <1>12, BuildNext

LEMMA CreateNetOk == ASSUME ClusterInv, CreateNet PROVE ClusterInv' /\ Builds
  <1>1. at.phase = "net" /\ at.step = "start" /\ ~NetFound(mem) /\ ~ReuseNet BY DEF CreateNet, At
  <1>2. "net" \in BuildPhase BY DEF BuildPhase
  <1>3. TypeOK /\ CloudOk /\ StatusOk(mem) /\ mem \in OscCluster BY <1>1, <1>2, Building
  <1>4. PICK c : c = mem OBVIOUS
  <1>. DEFINE a == [at EXCEPT !.step = "tag", !.id = cloud.next]
  <1>5. Call(NetCreated, a, c, c) BY <1>4 DEF CreateNet
  <1>6. /\ a \in Position /\ a.phase = "net" /\ a.step = "tag" /\ a.id = cloud.next
        /\ NetCreated \in Cloud /\ NetCreated.ips = cloud.ips
    <2>1. 0 \in Nat OBVIOUS
    <2>2. NetCreated \in Cloud BY <1>3, <2>1, RequestTypes
    <2>3. NetCreated.ips = cloud.ips BY <1>3 DEF NetCreated, TypeOK, Cloud
    <2>. QED BY <1>1, <1>3, <2>2, <2>3, CloudFields DEF TypeOK, Position, Step, Id
  <1>. HIDE DEF a
  <1>7. Heir(mem, c) BY <1>3, <1>4, UpdateTypes
  <1>8. TypeOK' /\ obj' = obj /\ ((cloud' = NetCreated => Grows /\ CloudOk') => Grows /\ CloudOk')
    BY <1>1, <1>2, <1>5, <1>6, <1>7, CallFacts
  <1>9. Tagged(cloud.nets) = {}
    <2>1. \A n \in Tagged(cloud.nets) : n.id \in Ids(cloud.nets) BY DEF Tagged, Ids
    <2>. QED BY <1>1, <1>3, <2>1, NetLookup DEF NetFound
  <1>10. Grows /\ CloudOk' BY <1>3, <1>8, NetCreatedOk
  <1>11. CopyOk(c)' BY <1>1, <1>2, <1>4, <1>8, <1>10, ScopeOk
  <1>12. cloud' = NetCreated /\ at' = a /\ mem' = c => CopyOk(mem)' /\ LoopsOk' /\ CallsOk'
    <2>. HAVE cloud' = NetCreated /\ at' = a /\ mem' = c
    <2>1. cloud.next \in Ids(cloud'.nets) /\ Tagged(cloud'.nets) = {} BY <1>3, <1>8, <1>9, NetCreatedOk
    <2>2. at'.phase = "net" /\ at'.step = "tag" /\ at'.id = cloud.next BY <1>6
    <2>3. LoopsOk' BY <2>2 DEF LoopsOk, At
    <2>4. CallsOk' BY <1>1, <1>8, <2>1, <2>2 DEF CallsOk, At, ReuseNet, RtPhases
    <2>. QED BY <1>11, <2>3, <2>4
  <1>. QED BY <1>1, <1>2, <1>5, <1>6, <1>7, <1>10, <1>11, <1>12, BuildCall

LEMMA TagNetOk == ASSUME ClusterInv, TagNet PROVE ClusterInv' /\ Builds
  <1>1. at.phase = "net" /\ at.step = "tag" BY DEF TagNet, At
  <1>2. "net" \in BuildPhase \ {"ready"} /\ "net" \in Reconcilers BY DEF BuildPhase, Reconcilers
  <1>3. TypeOK /\ CloudOk /\ CallsOk /\ mem \in OscCluster /\ at.id \in Nat /\ mem.spec \in Specs
    BY <1>1, <1>2, Building DEF TypeOK, Position, Id
  <1>4. ~ReuseNet /\ Tagged(cloud.nets) = {} /\ at.id \in Ids(cloud.nets) BY <1>1, <1>3 DEF CallsOk, At
  <1>5. PICK c \in OscCluster : c = mem BY <1>3
  <1>6. PICK i \in Nat : i = at.id BY <1>3
  <1>7. PICK w : w = [c EXCEPT !.st.net = i] OBVIOUS
  <1>8. PICK x : x = Recorded(w, "net") OBVIOUS
  <1>9. Call(NetTagged(i), Start(After("net")), c, x) BY <1>5, <1>6, <1>7, <1>8 DEF TagNet
  <1>10. Heir(mem, c) /\ Heir(mem, w) BY <1>5, <1>7, UpdateTypes
  <1>11. Heir(mem, x) BY <1>2, <1>8, <1>10, HeirRecorded
  <1>12. NetTagged(i) \in Cloud /\ NetTagged(i).ips = cloud.ips
    <2>1. NetTagged(i) \in Cloud BY <1>3, RequestTypes
    <2>2. NetTagged(i).ips = cloud.ips BY <1>3 DEF NetTagged, TypeOK, Cloud
    <2>. QED BY <2>1, <2>2
  <1>13. TypeOK' /\ obj' = obj /\ ((cloud' = NetTagged(i) => Grows /\ CloudOk') => Grows /\ CloudOk')
    BY <1>1, <1>2, <1>9, <1>10, <1>11, <1>12, AfterType, CallFacts
  <1>14. cloud' = NetTagged(i) => Grows /\ CloudOk' /\ i \in Ids(Tagged(cloud'.nets))
    BY <1>3, <1>4, <1>6, <1>13, NetTaggedOk
  <1>15. Grows /\ CloudOk' BY <1>13, <1>14
  <1>16. CopyOk(c)' BY <1>1, <1>2, <1>5, <1>13, <1>15, ScopeOk
  <1>17. cloud' = NetTagged(i) /\ mem' = x => CopyOk(mem)' /\ Made("net", mem.spec)'
    <2>. HAVE cloud' = NetTagged(i) /\ mem' = x
    <2>1. CopyOk(w)' BY <1>5, <1>7, <1>14, <1>16, SetFields
    <2>2. Tagged(cloud'.nets) # {} BY <1>14 DEF Ids
    <2>3. \A s : Made("net", s)' BY <2>2 DEF Made
    <2>4. CopyOk(x)' BY <1>2, <1>8, <1>10, <2>1, <2>3, RecordedScope
    <2>. QED BY <2>3, <2>4
  <1>. QED BY <1>1, <1>2, <1>9, <1>10, <1>11, <1>12, <1>15, <1>16, <1>17, BuildCallNext
--------------------------------------------------------------------------------
(* The subnets. *)
LEMMA NetThere ==
  ASSUME ClusterInv, at.phase \in BuildPhase, ~ReuseNet, Before("net", at.phase)
  PROVE  NetId(mem) \in Ids(Tagged(cloud.nets)) /\ NetId(mem) \in Nat /\ NetId(mem) # 0
  <1>1. /\ TypeOK /\ CloudOk /\ StatusOk(mem) /\ mem \in OscCluster
        /\ \A k \in Owned : Before(k, at.phase) => Made(k, mem.spec)
    BY Building
  <1>2. "net" \in Owned BY DEF Owned
  <1>3. Made("net", mem.spec) BY <1>1, <1>2
  <1>4. Tagged(cloud.nets) # {} BY <1>3 DEF Made
  <1>. QED BY <1>1, <1>4, NetLookup, LookupTypes DEF Ids

LEMMA StartSubnetsOk == ASSUME ClusterInv, StartSubnets PROVE ClusterInv' /\ Builds
  <1>1. at.phase = "subnet" /\ at.step = "start" BY DEF StartSubnets, At
  <1>2. "subnet" \in BuildPhase BY DEF BuildPhase
  <1>3. TypeOK /\ mem.spec \subseteq Ranges BY <1>1, <1>2, Building
  <1>4. CASE NetId(mem) = 0
    <2>1. PICK c : c = mem OBVIOUS
    <2>2. EndPass(c) BY <1>4, <2>1 DEF StartSubnets
    <2>3. Grows /\ obj' = obj BY <1>1, <1>2, <2>2, Looking
    <2>4. Heir(mem, c) /\ CopyOk(c)' BY <1>1, <1>2, <2>1, <2>3, ScopeOk
    <2>. QED BY <1>1, <1>2, <2>2, <2>4, BuildEnds
  <1>5. CASE NetId(mem) # 0
    <2>1. PICK w : w = WithNet(mem) OBVIOUS
    <2>. DEFINE a == [at EXCEPT !.step = "loop", !.todo = mem.spec]
    <2>2. Continue(a, w) BY <1>5, <2>1 DEF StartSubnets
    <2>3. a \in Position /\ a.phase = "subnet" /\ a.step = "loop" /\ a.todo = mem.spec
      BY <1>1, <1>3 DEF TypeOK, Position, Step
    <2>. HIDE DEF a
    <2>4. Grows /\ obj' = obj /\ mem' = w BY <1>1, <1>2, <2>2, Looking
    <2>5. Heir(mem, w) /\ CopyOk(w)' BY <1>1, <1>2, <2>1, <2>4, ScopeOk
    <2>6. at' = a /\ mem'.spec = mem.spec BY <2>2, <2>4, <2>5 DEF Continue, Heir
    <2>7. LoopsOk' BY <2>3, <2>6 DEF LoopsOk, At
    <2>8. CallsOk' BY <2>3, <2>6 DEF CallsOk, At, RtPhases
    <2>. QED BY <1>1, <1>2, <2>2, <2>3, <2>5, <2>7, <2>8, BuildLoop
  <1>. QED BY <1>4, <1>5

LEMMA VisitSubnetOk == ASSUME ClusterInv, NEW r \in Ranges, VisitSubnet(r) PROVE ClusterInv' /\ Builds
  <1>1. at.phase = "subnet" /\ at.step = "loop" /\ r \in at.todo BY DEF VisitSubnet, At
  <1>2. "subnet" \in BuildPhase BY DEF BuildPhase
  <1>3. /\ TypeOK /\ CloudOk /\ StatusOk(mem) /\ mem \in OscCluster /\ LoopsOk /\ mem.spec \subseteq Ranges
    BY <1>1, <1>2, Building
  <1>4. \A q \in mem.spec \ at.todo : HasSubnet(q) BY <1>1, <1>3 DEF LoopsOk, At
  <1>. DEFINE a == [at EXCEPT !.todo = @ \ {r}]
  <1>5. a \in Position /\ a.phase = "subnet" /\ a.step = "loop" /\ a.todo = at.todo \ {r}
    BY <1>1, <1>3 DEF TypeOK, Position, Step
  <1>6. \/ SubnetFound(mem, r) /\ Continue(a, WithSubnet(mem, r, SubnetId(mem, r)))
        \/ ~SubnetFound(mem, r) /\ ReuseNet /\ EndPass(mem)
        \/ /\ ~SubnetFound(mem, r) /\ ~ReuseNet
           /\ Call(SubnetCreated(NetId(mem), r), a, mem, WithSubnet(mem, r, cloud.next))
    BY DEF VisitSubnet
  <1>. HIDE DEF a
  <1>7. ASSUME at' = a, HasSubnet(r)', Grows, obj' = obj, mem'.spec = mem.spec PROVE LoopsOk' /\ CallsOk'
    <2>1. \A q \in mem.spec \ at.todo : HasSubnet(q)' BY <1>3, <1>4, <1>7, GrowsFind
    <2>2. \A q \in mem'.spec \ at'.todo : HasSubnet(q)' BY <1>5, <1>7, <2>1
    <2>3. LoopsOk' BY <1>5, <1>7, <2>2 DEF LoopsOk, At
    <2>4. CallsOk' BY <1>5, <1>7 DEF CallsOk, At, RtPhases
    <2>. QED BY <2>3, <2>4
  <1>8. CASE SubnetFound(mem, r) /\ Continue(a, WithSubnet(mem, r, SubnetId(mem, r)))
    <2>1. PICK w : w = WithSubnet(mem, r, SubnetId(mem, r)) OBVIOUS
    <2>2. Continue(a, w) BY <1>8, <2>1
    <2>3. Grows /\ obj' = obj /\ mem' = w BY <1>1, <1>2, <2>2, Looking
    <2>4. Heir(mem, w) /\ CopyOk(w)' BY <1>1, <1>2, <2>1, <2>3, ScopeOk
    <2>5. HasSubnet(r)
      <3>1. CASE ReuseNet BY <1>8, <3>1 DEF HasSubnet, SubnetFound, SubnetId
      <3>2. CASE ~ReuseNet BY <1>3, <1>8, <3>2, SubnetLookup
      <3>. QED BY <3>1, <3>2
    <2>6. HasSubnet(r)' BY <1>3, <2>3, <2>5, GrowsFind
    <2>7. at' = a /\ mem'.spec = mem.spec BY <2>2, <2>3, <2>4 DEF Continue, Heir
    <2>8. LoopsOk' /\ CallsOk' BY <1>7, <2>3, <2>6, <2>7
    <2>. QED BY <1>1, <1>2, <1>5, <2>2, <2>4, <2>8, BuildLoop
  <1>9. CASE EndPass(mem)
    <2>1. PICK c : c = mem OBVIOUS
    <2>2. EndPass(c) BY <1>9, <2>1
    <2>3. Grows /\ obj' = obj BY <1>1, <1>2, <2>2, Looking
    <2>4. Heir(mem, c) /\ CopyOk(c)' BY <1>1, <1>2, <2>1, <2>3, ScopeOk
    <2>. QED BY <1>1, <1>2, <2>2, <2>4, BuildEnds
  <1>10. CASE /\ ~SubnetFound(mem, r) /\ ~ReuseNet
              /\ Call(SubnetCreated(NetId(mem), r), a, mem, WithSubnet(mem, r, cloud.next))
    <2>1. PICK c \in OscCluster : c = mem BY <1>3
    <2>2. PICK i \in Nat : i = cloud.next BY <1>3, CloudFields
    <2>3. PICK n \in Nat : n = NetId(mem) BY <1>3, LookupTypes
    <2>4. PICK w : w = [c EXCEPT !.st.sn[r] = i] OBVIOUS
    <2>5. Call(SubnetCreated(n, r), a, c, w) BY <1>10, <2>1, <2>2, <2>3, <2>4 DEF WithSubnet
    <2>6. Heir(mem, c) /\ Heir(mem, w) BY <2>1, <2>2, <2>4, UpdateTypes
    <2>7. SubnetCreated(n, r) \in Cloud /\ SubnetCreated(n, r).ips = cloud.ips
      <3>1. SubnetCreated(n, r) \in Cloud BY <1>3, RequestTypes
      <3>2. SubnetCreated(n, r).ips = cloud.ips BY <1>3 DEF SubnetCreated, TypeOK, Cloud
      <3>. QED BY <3>1, <3>2
    <2>8. TypeOK' /\ obj' = obj /\ ((cloud' = SubnetCreated(n, r) => Grows /\ CloudOk') => Grows /\ CloudOk')
      BY <1>1, <1>2, <1>5, <2>5, <2>6, <2>7, CallFacts
    <2>9. n \in Ids(Tagged(cloud.nets)) BY <1>1, <1>2, <1>10, <2>3, NetThere, BeforeFacts
    <2>10. ~\E s \in cloud.subnets : s.range = r
      <3>1. ~HasSubnet(r) BY <1>3, <1>10, SubnetLookup
      <3>. QED BY <1>10, <3>1 DEF HasSubnet
    <2>11. cloud' = SubnetCreated(n, r) =>
             Grows /\ CloudOk' /\ \E s \in cloud'.subnets : s.id = cloud.next /\ s.range = r
      BY <1>3, <1>10, <2>8, <2>9, <2>10, SubnetCreatedOk
    <2>12. Grows /\ CloudOk' BY <2>8, <2>11
    <2>13. CopyOk(c)' BY <1>1, <1>2, <2>1, <2>8, <2>12, ScopeOk
    <2>14. cloud' = SubnetCreated(n, r) /\ at' = a /\ mem' = w => CopyOk(mem)' /\ LoopsOk' /\ CallsOk'
      <3>. HAVE cloud' = SubnetCreated(n, r) /\ at' = a /\ mem' = w
      <3>1. \E s \in cloud'.subnets : s.id = i /\ s.range = r BY <2>2, <2>11
      <3>2. CopyOk(w)' BY <2>1, <2>4, <2>13, <3>1, SetFields
      <3>3. HasSubnet(r)' BY <1>10, <2>8, <3>1 DEF HasSubnet, ReuseNet
      <3>4. mem'.spec = mem.spec BY <2>6 DEF Heir
      <3>. QED BY <1>7, <2>8, <2>12, <3>2, <3>3, <3>4
    <2>. QED BY <1>1, <1>2, <1>5, <2>5, <2>6, <2>7, <2>12, <2>13, <2>14, BuildCall
  <1>. QED BY <1>6, <1>8, <1>9, <1>10

LEMMA EndSubnetsOk == ASSUME ClusterInv, EndSubnets PROVE ClusterInv' /\ Builds
  <1>1. at.phase = "subnet" /\ at.step = "loop" /\ at.todo = {} BY DEF EndSubnets, At
  <1>2. "subnet" \in BuildPhase \ {"ready"} /\ "subnet" \in Reconcilers BY DEF BuildPhase, Reconcilers
  <1>3. /\ LoopsOk /\ mem.spec \in Specs BY <1>1, <1>2, Building
  <1>4. Made("subnet", mem.spec) BY <1>1, <1>3 DEF LoopsOk, At, Made
  <1>5. PICK c : c = mem OBVIOUS
  <1>6. PICK x : x = Recorded(c, "subnet") OBVIOUS
  <1>7. Continue(Start(After("subnet")), x) BY <1>5, <1>6 DEF EndSubnets
  <1>8. Grows /\ obj' = obj /\ \A s \in Specs, k \in Reconcilers : Made(k, s) => Made(k, s)'
    BY <1>1, <1>2, <1>7, Looking
  <1>9. Heir(mem, c) /\ CopyOk(c)' BY <1>1, <1>2, <1>5, <1>8, ScopeOk
  <1>10. PICK s \in Specs : s = mem.spec BY <1>3
  <1>11. Made("subnet", s)' BY <1>2, <1>4, <1>8, <1>10
  <1>12. Heir(mem, x) /\ CopyOk(x)' BY <1>2, <1>6, <1>9, <1>10, <1>11, RecordedScope
  <1>. QED BY <1>1, <1>2, <1>4, <1>7, <1>12, BuildNext
--------------------------------------------------------------------------------
(* The ways in which a handler ends. *)
LEMMA PassEnds ==
  ASSUME ClusterInv, at.phase \in BuildPhase, at.step # "create", NEW w, EndPass(w),
         w = mem \/ w = WithNet(mem) \/ w = WithPeering(mem) \/ w = WithNet(WithPeering(mem))
  PROVE  ClusterInv' /\ Builds
  <1>1. Grows /\ obj' = obj BY Looking
  <1>2. Heir(mem, w) /\ CopyOk(w)' BY <1>1, ScopeOk
  <1>. QED BY <1>2, BuildEnds

LEMMA HandlerPasses ==
  ASSUME ClusterInv, NEW p \in BuildPhase \ {"ready"}, at.phase = p, at.step # "create", NEW w,
         Continue(Start(After(p)), w), w = mem \/ w = WithPeering(mem),
         p \in Owned => Made(p, mem.spec),
         p = "rtNat" /\ Internet /\ ~ReuseNet => HasTable(Pub)
  PROVE  ClusterInv' /\ Builds
  <1>1. Grows /\ obj' = obj BY Looking
  <1>2. Heir(mem, w) /\ CopyOk(w)' BY <1>1, ScopeOk
  <1>. QED BY <1>2, BuildNext

LEMMA HandlerRecords ==
  ASSUME ClusterInv, NEW p \in Reconcilers, at.phase = p, at.step # "create", NEW w,
         Continue(Start(After(p)), Recorded(w, p)), Heir(mem, w), CopyOk(w)', Made(p, mem.spec)
  PROVE  ClusterInv' /\ Builds
  <1>1. p \in BuildPhase \ {"ready"} /\ p # "rtNat" BY DEF Reconcilers, BuildPhase
  <1>2. PICK x : x = Recorded(w, p) OBVIOUS
  <1>3. Continue(Start(After(p)), x) BY <1>2
  <1>4. \A s \in Specs, k \in Reconcilers : Made(k, s) => Made(k, s)' BY <1>1, <1>3, Looking
  <1>5. PICK s \in Specs : s = mem.spec BY <1>1, Building
  <1>6. Made(p, s)' BY <1>4, <1>5
  <1>7. Heir(mem, x) /\ CopyOk(x)' BY <1>2, <1>5, <1>6, RecordedScope
  <1>. QED BY <1>1, <1>3, <1>7, BuildNext
--------------------------------------------------------------------------------
(* The internet service. *)
LEMMA ReconcileInternetServiceOk == ASSUME ClusterInv, ReconcileInternetService PROVE ClusterInv' /\ Builds
  <1>1. at.phase = "internetService" /\ at.step = "start" BY DEF ReconcileInternetService, At
  <1>2. "internetService" \in BuildPhase \ {"ready"} /\ "internetService" \in Reconcilers
    BY DEF BuildPhase, Reconcilers
  <1>3. TypeOK /\ CloudOk /\ StatusOk(mem) /\ mem \in OscCluster BY <1>1, <1>2, Building
  <1>. DEFINE a == [at EXCEPT !.step = "link", !.id = cloud.next]
  <1>4. \/ ReuseNet /\ Continue(Start(After("internetService")), mem)
        \/ /\ ~ReuseNet /\ LinkedService(mem)
           /\ Continue(Start(After("internetService")), Recorded(WithService(mem), "internetService"))
        \/ EndPass(mem)
        \/ /\ ~ReuseNet /\ ~LinkedService(mem)
           /\ \/ InternetServiceId(mem) \in Ids(cloud.iss)
              \/ Call(InternetServiceCreated, a, WithNet(mem), WithNet(mem))
    BY DEF ReconcileInternetService
  <1>5. CASE ReuseNet /\ Continue(Start(After("internetService")), mem)
    <2>1. "internetService" \notin Owned BY <1>5 DEF Owned
    <2>2. PICK c : c = mem OBVIOUS
    <2>. QED BY <1>1, <1>2, <1>5, <2>1, <2>2, HandlerPasses
  <1>6. CASE /\ ~ReuseNet /\ LinkedService(mem)
             /\ Continue(Start(After("internetService")), Recorded(WithService(mem), "internetService"))
    <2>1. PICK w : w = WithService(mem) OBVIOUS
    <2>2. Continue(Start(After("internetService")), Recorded(w, "internetService")) BY <1>6, <2>1
    <2>3. Grows /\ obj' = obj BY <1>1, <1>2, <2>2, Looking
    <2>4. Heir(mem, w) /\ CopyOk(w)' BY <1>1, <1>2, <1>6, <2>1, <2>3, ScopeOk
    <2>5. Made("internetService", mem.spec) BY <1>3, <1>6, ServiceLookup DEF Made
    <2>. QED BY <1>1, <1>2, <2>2, <2>4, <2>5, HandlerRecords
  <1>7. CASE EndPass(mem)
    <2>1. PICK c : c = mem OBVIOUS
    <2>. QED BY <1>1, <1>2, <1>7, <2>1, PassEnds
  <1>8. CASE ~ReuseNet /\ ~LinkedService(mem) /\ InternetServiceId(mem) \in Ids(cloud.iss)
    BY <1>3, <1>8, ServiceLookup
  <1>9. CASE /\ ~ReuseNet /\ ~LinkedService(mem)
             /\ Call(InternetServiceCreated, a, WithNet(mem), WithNet(mem))
    <2>1. PICK w : w = WithNet(mem) OBVIOUS
    <2>2. Call(InternetServiceCreated, a, w, w) BY <1>9, <2>1
    <2>3. /\ a \in Position /\ a.phase = "internetService" /\ a.step = "link" /\ a.id = cloud.next
          /\ InternetServiceCreated \in Cloud /\ InternetServiceCreated.ips = cloud.ips
      <3>1. 0 \in Nat OBVIOUS
      <3>2. InternetServiceCreated \in Cloud BY <1>3, <3>1, RequestTypes
      <3>3. InternetServiceCreated.ips = cloud.ips BY <1>3 DEF InternetServiceCreated, TypeOK, Cloud
      <3>. QED BY <1>1, <1>3, <3>2, <3>3, CloudFields DEF TypeOK, Position, Step, Id
    <2>. HIDE DEF a
    <2>4. Heir(mem, w) BY <1>3, <2>1, WithTypes
    <2>5. /\ TypeOK' /\ obj' = obj
          /\ (cloud' = InternetServiceCreated => Grows /\ CloudOk') => Grows /\ CloudOk'
      BY <1>1, <1>2, <2>2, <2>3, <2>4, CallFacts
    <2>6. Linked = {} BY <1>3, <1>9, ServiceLookup
    <2>7. Grows /\ CloudOk' BY <1>3, <1>9, <2>5, InternetServiceCreatedOk
    <2>8. CopyOk(w)' BY <1>1, <1>2, <2>1, <2>5, <2>7, ScopeOk
    <2>9. cloud' = InternetServiceCreated /\ at' = a /\ mem' = w => CopyOk(mem)' /\ LoopsOk' /\ CallsOk'
      <3>. HAVE cloud' = InternetServiceCreated /\ at' = a /\ mem' = w
      <3>1. cloud.next \in Ids(cloud'.iss) /\ Linked' = {}
        BY <1>3, <1>9, <2>5, <2>6, InternetServiceCreatedOk
      <3>2. at'.phase = "internetService" /\ at'.step = "link" /\ at'.id = cloud.next BY <2>3
      <3>3. LoopsOk' BY <3>2 DEF LoopsOk, At
      <3>4. CallsOk' BY <1>9, <2>5, <3>1, <3>2 DEF CallsOk, At, ReuseNet, RtPhases
      <3>. QED BY <2>8, <3>3, <3>4
    <2>. QED BY <1>1, <1>2, <2>2, <2>3, <2>4, <2>7, <2>8, <2>9, BuildCall
  <1>. QED BY <1>4, <1>5, <1>6, <1>7, <1>8, <1>9

LEMMA LinkInternetServiceOk == ASSUME ClusterInv, LinkInternetService PROVE ClusterInv' /\ Builds
  <1>1. at.phase = "internetService" /\ at.step = "link" BY DEF LinkInternetService, At
  <1>2. "internetService" \in BuildPhase \ {"ready"} /\ "internetService" \in Reconcilers
    BY DEF BuildPhase, Reconcilers
  <1>3. TypeOK /\ CloudOk /\ CallsOk /\ mem \in OscCluster /\ at.id \in Nat
    BY <1>1, <1>2, Building DEF TypeOK, Position, Id
  <1>4. ~ReuseNet /\ Linked = {} /\ at.id \in Ids(cloud.iss) BY <1>1, <1>3 DEF CallsOk, At
  <1>5. PICK c \in OscCluster : c = mem BY <1>3
  <1>6. PICK i \in Nat : i = at.id BY <1>3
  <1>7. PICK n \in Nat : n = NetId(mem) BY <1>3, LookupTypes
  <1>8. PICK w : w = [c EXCEPT !.st.is = i] OBVIOUS
  <1>9. PICK x : x = Recorded(w, "internetService") OBVIOUS
  <1>10. Call(InternetServiceLinked(i, n), Start(After("internetService")), c, x)
    BY <1>5, <1>6, <1>7, <1>8, <1>9 DEF LinkInternetService
  <1>11. Heir(mem, c) /\ Heir(mem, w) BY <1>5, <1>8, UpdateTypes
  <1>12. Heir(mem, x) BY <1>2, <1>9, <1>11, HeirRecorded
  <1>13. InternetServiceLinked(i, n) \in Cloud /\ InternetServiceLinked(i, n).ips = cloud.ips
    <2>1. InternetServiceLinked(i, n) \in Cloud BY <1>3, RequestTypes
    <2>2. InternetServiceLinked(i, n).ips = cloud.ips BY <1>3 DEF InternetServiceLinked, TypeOK, Cloud
    <2>. QED BY <2>1, <2>2
  <1>14. /\ TypeOK' /\ obj' = obj
         /\ (cloud' = InternetServiceLinked(i, n) => Grows /\ CloudOk') => Grows /\ CloudOk'
    BY <1>1, <1>2, <1>10, <1>11, <1>12, <1>13, AfterType, CallFacts
  <1>15. n \in Ids(Tagged(cloud.nets)) /\ n # 0 BY <1>1, <1>2, <1>4, <1>7, NetThere, BeforeFacts
  <1>16. cloud' = InternetServiceLinked(i, n) => Grows /\ CloudOk' /\ i \in Ids(Linked')
    BY <1>3, <1>4, <1>6, <1>14, <1>15, InternetServiceLinkedOk
  <1>17. Grows /\ CloudOk' BY <1>14, <1>16
  <1>18. CopyOk(c)' BY <1>1, <1>2, <1>5, <1>14, <1>17, ScopeOk
  <1>19. cloud' = InternetServiceLinked(i, n) /\ mem' = x => CopyOk(mem)' /\ Made("internetService", mem.spec)'
    <2>. HAVE cloud' = InternetServiceLinked(i, n) /\ mem' = x
    <2>1. CopyOk(w)' BY <1>5, <1>8, <1>16, <1>18, SetFields
    <2>2. Linked' # {} BY <1>16 DEF Ids
    <2>3. \A s : Made("internetService", s)' BY <2>2 DEF Made
    <2>4. CopyOk(x)' BY <1>2, <1>9, <1>11, <2>1, <2>3, RecordedScope
    <2>. QED BY <2>3, <2>4
  <1>. QED BY <1>1, <1>2, <1>10, <1>11, <1>12, <1>13, <1>17, <1>18, <1>19, BuildCallNext
--------------------------------------------------------------------------------
(* The route tables. *)
LEMMA RtFacts ==
  ASSUME ClusterInv, at.phase \in RtPhases
  PROVE  /\ at.phase \in BuildPhase \ {"ready"} /\ at.phase \in BuildPhase /\ Before("net", at.phase)
         /\ at.step # "start" =>
              /\ ~ReuseNet /\ at.todo \subseteq mem.spec
              /\ at.phase = "routeTable" => \A r \in mem.spec \ at.todo : HasTable(r)
              /\ at.phase = "rtNat" => at.todo \subseteq {Pub} /\ (Pub \notin at.todo => HasTable(Pub))
         /\ at.step \in {"link", "route"} =>
              /\ at.item \in at.todo /\ at.item \in Ranges /\ HasSubnet(at.item)
              /\ \E t \in cloud.rts :
                   /\ t.id = at.id
                   /\ at.step = "link" => t.sub = 0 /\ \A u \in cloud.rts : ~Serves(u, at.item)
                   /\ at.step = "route" => Serves(t, at.item)
  <1>1. /\ at.phase \in BuildPhase \ {"ready"} /\ at.phase \in BuildPhase /\ Before("net", at.phase)
    BY BeforeFacts DEF RtPhases, BuildPhase
  <1>2. LoopsOk /\ CallsOk /\ mem.spec \subseteq Ranges /\ Pub \in mem.spec BY <1>1, Building
  <1>3. at.step # "start" =>
              /\ ~ReuseNet /\ at.todo \subseteq mem.spec
              /\ at.phase = "routeTable" => \A r \in mem.spec \ at.todo : HasTable(r)
              /\ at.phase = "rtNat" => at.todo \subseteq {Pub} /\ (Pub \notin at.todo => HasTable(Pub))
    BY <1>2 DEF LoopsOk, RtPhases
  <1>4. at.step \in {"link", "route"} =>
              /\ at.item \in at.todo /\ HasSubnet(at.item)
              /\ \E t \in cloud.rts :
                   /\ t.id = at.id
                   /\ at.step = "link" => t.sub = 0 /\ \A u \in cloud.rts : ~Serves(u, at.item)
                   /\ at.step = "route" => Serves(t, at.item)
    BY <1>2 DEF CallsOk
  <1>5. at.step \in {"link", "route"} => at.item \in Ranges BY <1>2, <1>3, <1>4
  <1>. QED BY <1>1, <1>3, <1>4, <1>5

LEMMA RtLoop ==
  ASSUME ClusterInv, at.phase \in RtPhases, at.step # "start", obj' = obj, Grows,
         mem'.spec = mem.spec, at'.phase = at.phase, NEW r,
         \/ at'.todo = at.todo
         \/ at'.todo = at.todo \ {r} /\ HasTable(r)'
  PROVE  LoopsOk'
  <1>0. /\ ~ReuseNet /\ at.todo \subseteq mem.spec
        /\ at.phase = "routeTable" => \A q \in mem.spec \ at.todo : HasTable(q)
        /\ at.phase = "rtNat" => at.todo \subseteq {Pub} /\ (Pub \notin at.todo => HasTable(Pub))
        /\ at.phase \in BuildPhase
    BY RtFacts
  <1>1. CloudOk /\ mem.spec \subseteq Ranges /\ Pub \in Ranges BY <1>0, Building
  <1>2. \A q \in Ranges : HasTable(q) => HasTable(q)' BY <1>1, GrowsFind
  <1>3. ~ReuseNet' BY <1>0 DEF ReuseNet
  <1>4. CASE at.phase = "routeTable"
    <2>1. \A q \in mem.spec \ at'.todo : HasTable(q)' BY <1>0, <1>1, <1>2, <1>4
    <2>. QED BY <1>0, <1>3, <1>4, <2>1 DEF LoopsOk, At
  <1>5. CASE at.phase = "rtNat"
    <2>1. Pub \notin at'.todo => HasTable(Pub)' BY <1>0, <1>1, <1>2, <1>5
    <2>. QED BY <1>0, <1>3, <1>5, <2>1 DEF LoopsOk, At
  <1>. QED BY <1>4, <1>5 DEF RtPhases

LEMMA StartRouteTablesOk == ASSUME ClusterInv, StartRouteTables PROVE ClusterInv' /\ Builds
  <1>1. PICK p : p = at.phase OBVIOUS
  <1>2. p \in RtPhases /\ at.phase \in RtPhases /\ at.step = "start" BY <1>1 DEF StartRouteTables
  <1>3. p \in BuildPhase \ {"ready"} /\ at.phase \in BuildPhase BY <1>1, <1>2, RtFacts
  <1>4. TypeOK /\ mem.spec \subseteq Ranges /\ Pub \in Ranges BY <1>3, Building
  <1>. DEFINE a == [at EXCEPT !.step = "loop", !.todo = IF at.phase = "rtNat" THEN {Pub} ELSE mem.spec]
  <1>5. \/ ReuseNet /\ Continue(Start(After(p)), mem)
        \/ EndPass(mem)
        \/ ~ReuseNet /\ Continue(a, WithNet(mem))
    BY <1>1 DEF StartRouteTables
  <1>6. CASE ReuseNet /\ Continue(Start(After(p)), mem)
    <2>1. p \notin Owned BY <1>2, <1>6 DEF Owned, RtPhases
    <2>2. PICK c : c = mem OBVIOUS
    <2>. QED BY <1>1, <1>2, <1>3, <1>6, <2>1, <2>2, HandlerPasses
  <1>7. CASE EndPass(mem)
    <2>1. PICK c : c = mem OBVIOUS
    <2>. QED BY <1>2, <1>3, <1>7, <2>1, PassEnds
  <1>8. CASE ~ReuseNet /\ Continue(a, WithNet(mem))
    <2>1. PICK w : w = WithNet(mem) OBVIOUS
    <2>2. Continue(a, w) BY <1>8, <2>1
    <2>3. /\ a \in Position /\ a.phase = at.phase /\ a.step = "loop"
          /\ at.phase = "rtNat" => a.todo = {Pub}
          /\ at.phase # "rtNat" => a.todo = mem.spec
      <3>1. (IF at.phase = "rtNat" THEN {Pub} ELSE mem.spec) \in SUBSET (Ranges \cup SGNames) BY <1>4
      <3>. QED BY <1>4, <3>1 DEF TypeOK, Position, Step
    <2>. HIDE DEF a
    <2>4. Grows /\ obj' = obj /\ mem' = w BY <1>3, <2>2, Looking
    <2>5. Heir(mem, w) /\ CopyOk(w)' BY <1>3, <2>1, <2>4, ScopeOk
    <2>6. at' = a /\ mem'.spec = mem.spec BY <2>2, <2>4, <2>5 DEF Continue, Heir
    <2>7. ~ReuseNet' BY <1>8, <2>4 DEF ReuseNet
    <2>8. LoopsOk' BY <1>2, <2>3, <2>6, <2>7 DEF LoopsOk, At, RtPhases
    <2>9. CallsOk' BY <1>2, <2>3, <2>6 DEF CallsOk, At, RtPhases
    <2>. QED BY <1>2, <1>3, <2>2, <2>3, <2>5, <2>8, <2>9, BuildLoop
  <1>. QED BY <1>5, <1>6, <1>7, <1>8

LEMMA VisitRouteTableOk == ASSUME ClusterInv, NEW r \in Ranges, VisitRouteTable(r) PROVE ClusterInv' /\ Builds
  <1>1. at.phase \in RtPhases /\ at.step = "loop" /\ r \in at.todo BY DEF VisitRouteTable
  <1>2. at.phase \in BuildPhase /\ Before("net", at.phase) /\ ~ReuseNet /\ at.todo \subseteq mem.spec
    BY <1>1, RtFacts
  <1>3. TypeOK /\ CloudOk /\ StatusOk(mem) /\ mem \in OscCluster BY <1>2, Building
  <1>4. PICK s \in Nat : s = SubnetId(mem, r) BY <1>3, LookupTypes
  <1>. DEFINE a == [at EXCEPT !.step = "route", !.item = r, !.id = TheId(TableOf(s))]
              b == [at EXCEPT !.step = "link", !.item = r, !.id = cloud.next]
  <1>5. \/ EndPass(mem)
        \/ s # 0 /\ TableOf(s) # {} /\ Continue(a, WithSubnet(mem, r, s))
        \/ /\ s # 0 /\ TableOf(s) = {}
           /\ Call(RouteTableCreated(NetId(mem)), b, WithSubnet(mem, r, s), WithSubnet(mem, r, s))
    BY <1>4 DEF VisitRouteTable
  <1>6. s # 0 => /\ HasSubnet(r) /\ \E u \in cloud.subnets : u.range = r /\ u.id = s
                 /\ \A u \in cloud.subnets : u.range = r => u.id = s
    <2>. HAVE s # 0
    <2>1. HasSubnet(r) BY <1>2, <1>3, <1>4, SubnetLookup
    <2>2. PICK u \in cloud.subnets : u.range = r BY <1>2, <2>1 DEF HasSubnet
    <2>. QED BY <1>2, <1>3, <1>4, <2>1, <2>2, SubnetLookup
  <1>7. CASE EndPass(mem)
    <2>1. PICK c : c = mem OBVIOUS
    <2>. QED BY <1>1, <1>2, <1>7, <2>1, PassEnds
  <1>8. CASE s # 0 /\ TableOf(s) # {} /\ Continue(a, WithSubnet(mem, r, s))
    <2>1. PICK w : w = WithSubnet(mem, r, s) OBVIOUS
    <2>2. Continue(a, w) BY <1>8, <2>1
    <2>3. PICK t \in cloud.rts : TheId(TableOf(s)) = t.id /\ t.sub = s
      <3>1. PICK t \in TableOf(s) : TheId(TableOf(s)) = t.id BY <1>8, TheIdFacts
      <3>. QED BY <3>1 DEF TableOf
    <2>4. t.id \in Nat BY <1>3, CloudFields DEF RouteTable, Id
    <2>5. /\ a \in Position /\ a.phase = at.phase /\ a.step = "route" /\ a.item = r /\ a.id = t.id
          /\ a.todo = at.todo
      BY <1>3, <2>3, <2>4 DEF TypeOK, Position, Step, Id
    <2>. HIDE DEF a
    <2>6. Grows /\ obj' = obj /\ mem' = w /\ cloud' = cloud BY <1>2, <2>2, Looking
    <2>7. Heir(mem, w) /\ CopyOk(w)' BY <1>2, <1>4, <2>1, <2>6, ScopeOk
    <2>8. at' = a /\ mem'.spec = mem.spec BY <2>2, <2>6, <2>7 DEF Continue, Heir
    <2>9. LoopsOk' BY <1>1, <2>5, <2>6, <2>8, RtLoop
    <2>10. HasSubnet(r)' BY <1>3, <1>6, <1>8, <2>6, GrowsFind
    <2>11. Serves(t, r)' BY <1>6, <1>8, <2>3, <2>6 DEF Serves
    <2>12. CallsOk' BY <1>1, <2>3, <2>5, <2>6, <2>8, <2>10, <2>11 DEF CallsOk, At, RtPhases
    <2>. QED BY <1>1, <1>2, <2>2, <2>5, <2>7, <2>9, <2>12, BuildLoop
  <1>9. CASE /\ s # 0 /\ TableOf(s) = {}
             /\ Call(RouteTableCreated(NetId(mem)), b, WithSubnet(mem, r, s), WithSubnet(mem, r, s))
    <2>1. PICK w : w = WithSubnet(mem, r, s) OBVIOUS
    <2>2. PICK n \in Nat : n = NetId(mem) BY <1>3, LookupTypes
    <2>3. Call(RouteTableCreated(n), b, w, w) BY <1>9, <2>1, <2>2
    <2>4. /\ b \in Position /\ b.phase = at.phase /\ b.step = "link" /\ b.item = r /\ b.id = cloud.next
          /\ b.todo = at.todo
      BY <1>3, CloudFields DEF TypeOK, Position, Step, Id
    <2>. HIDE DEF b
    <2>5. RouteTableCreated(n) \in Cloud /\ RouteTableCreated(n).ips = cloud.ips
      <3>1. RouteTableCreated(n) \in Cloud BY <1>3, RequestTypes
      <3>2. RouteTableCreated(n).ips = cloud.ips BY <1>3 DEF RouteTableCreated, TypeOK, Cloud
      <3>. QED BY <3>1, <3>2
    <2>6. Heir(mem, w) BY <1>3, <2>1, WithTypes
    <2>7. /\ TypeOK' /\ obj' = obj
          /\ (cloud' = RouteTableCreated(n) => Grows /\ CloudOk') => Grows /\ CloudOk'
      BY <1>2, <2>3, <2>4, <2>5, <2>6, CallFacts
    <2>8. n \in Ids(Tagged(cloud.nets)) BY <1>2, <2>2, NetThere
    <2>9. cloud' = RouteTableCreated(n) =>
            /\ Grows /\ CloudOk'
            /\ \E t \in cloud'.rts : t.id = cloud.next /\ t.sub = 0
            /\ \A t \in cloud'.rts : t \in cloud.rts \/ t.sub = 0
            /\ cloud'.subnets = cloud.subnets
      BY <1>2, <1>3, <2>7, <2>8, RouteTableCreatedOk
    <2>10. Grows /\ CloudOk' BY <2>7, <2>9
    <2>11. CopyOk(w)' BY <1>2, <1>4, <2>1, <2>7, <2>10, ScopeOk
    <2>12. cloud' = RouteTableCreated(n) /\ at' = b /\ mem' = w => CopyOk(mem)' /\ LoopsOk' /\ CallsOk'
      <3>. HAVE cloud' = RouteTableCreated(n) /\ at' = b /\ mem' = w
      <3>1. mem'.spec = mem.spec BY <2>6 DEF Heir
      <3>2. LoopsOk' BY <1>1, <2>4, <2>7, <2>10, <3>1, RtLoop
      <3>3. HasSubnet(r)' BY <1>3, <1>6, <1>9, <2>7, <2>10, GrowsFind
      <3>4. \A u \in cloud'.rts : ~Serves(u, r)'
        <4>1. \A u \in cloud'.rts : u.sub # s BY <1>9, <2>9 DEF TableOf
        <4>. QED BY <1>6, <1>9, <2>9, <4>1 DEF Serves
      <3>5. CallsOk' BY <1>1, <2>4, <2>9, <3>3, <3>4 DEF CallsOk, At, RtPhases
      <3>. QED BY <2>11, <3>2, <3>5
    <2>. QED BY <1>1, <1>2, <2>3, <2>4, <2>5, <2>6, <2>10, <2>11, <2>12, BuildCall
  <1>. QED BY <1>5, <1>7, <1>8, <1>9

LEMMA LinkRouteTableOk == ASSUME ClusterInv, LinkRouteTable PROVE ClusterInv' /\ Builds
  <1>1. at.phase \in RtPhases /\ at.step = "link" BY DEF LinkRouteTable
  <1>2. /\ at.phase \in BuildPhase /\ ~ReuseNet
        /\ at.item \in at.todo /\ at.item \in Ranges /\ HasSubnet(at.item)
        /\ \E t \in cloud.rts : t.id = at.id /\ t.sub = 0
        /\ \A u \in cloud.rts : ~Serves(u, at.item)
    BY <1>1, RtFacts
  <1>3. TypeOK /\ CloudOk /\ StatusOk(mem) /\ mem \in OscCluster /\ at.id \in Nat
    BY <1>2, Building DEF TypeOK, Position, Id
  <1>4. PICK r \in Ranges, i \in Nat : r = at.item /\ i = at.id BY <1>2, <1>3
  <1>5. PICK s \in Nat : s = SubnetId(mem, r) BY <1>3, LookupTypes
  <1>6. s # 0 /\ \E u \in cloud.subnets : u.range = r /\ u.id = s
    <2>1. PICK u \in cloud.subnets : u.range = r BY <1>2, <1>4 DEF HasSubnet
    <2>. QED BY <1>2, <1>3, <1>5, <2>1, SubnetLookup
  <1>7. \A t \in cloud.rts : t.sub # s BY <1>2, <1>4, <1>6 DEF Serves
  <1>8. PICK c : c = mem OBVIOUS
  <1>. DEFINE a == [at EXCEPT !.step = "route"]
  <1>9. Call(RouteTableLinked(i, s), a, c, c) BY <1>4, <1>5, <1>8 DEF LinkRouteTable
  <1>10. a \in Position /\ a.phase = at.phase /\ a.step = "route" /\ a.item = r /\ a.id = i /\ a.todo = at.todo
    BY <1>3, <1>4 DEF TypeOK, Position, Step
  <1>. HIDE DEF a
  <1>11. RouteTableLinked(i, s) \in Cloud /\ RouteTableLinked(i, s).ips = cloud.ips
    <2>1. RouteTableLinked(i, s) \in Cloud BY <1>3, RequestTypes
    <2>2. RouteTableLinked(i, s).ips = cloud.ips BY <1>3 DEF RouteTableLinked, TypeOK, Cloud
    <2>. QED BY <2>1, <2>2
  <1>12. Heir(mem, c) BY <1>3, <1>8, UpdateTypes
  <1>13. /\ TypeOK' /\ obj' = obj
         /\ (cloud' = RouteTableLinked(i, s) => Grows /\ CloudOk') => Grows /\ CloudOk'
    BY <1>2, <1>9, <1>10, <1>11, <1>12, CallFacts
  <1>14. cloud' = RouteTableLinked(i, s) =>
           /\ Grows /\ CloudOk'
           /\ \E t \in cloud'.rts : t.id = i /\ t.sub = s
           /\ cloud'.subnets = cloud.subnets
    BY <1>2, <1>3, <1>4, <1>6, <1>7, <1>13, RouteTableLinkedOk
  <1>15. Grows /\ CloudOk' BY <1>13, <1>14
  <1>16. CopyOk(c)' BY <1>2, <1>8, <1>13, <1>15, ScopeOk
  <1>17. cloud' = RouteTableLinked(i, s) /\ at' = a /\ mem' = c => CopyOk(mem)' /\ LoopsOk' /\ CallsOk'
    <2>. HAVE cloud' = RouteTableLinked(i, s) /\ at' = a /\ mem' = c
    <2>1. mem'.spec = mem.spec BY <1>12 DEF Heir
    <2>2. LoopsOk' BY <1>1, <1>10, <1>13, <1>15, <2>1, RtLoop
    <2>3. HasSubnet(r)' BY <1>2, <1>3, <1>4, <1>13, <1>15, GrowsFind
    <2>4. PICK t \in cloud'.rts : t.id = i /\ t.sub = s BY <1>14
    <2>5. Serves(t, r)' BY <1>6, <1>14, <2>4 DEF Serves
    <2>6. CallsOk' BY <1>1, <1>2, <1>4, <1>10, <2>3, <2>4, <2>5 DEF CallsOk, At, RtPhases
    <2>. QED BY <1>16, <2>2, <2>6
  <1>. QED BY <1>1, <1>2, <1>9, <1>10, <1>11, <1>12, <1>15, <1>16, <1>17, BuildCall

LEMMA ReconcileRouteOk == ASSUME ClusterInv, ReconcileRoute PROVE ClusterInv' /\ Builds
  <1>1. at.phase \in RtPhases /\ at.step = "route" BY DEF ReconcileRoute
  <1>2. /\ at.phase \in BuildPhase /\ ~ReuseNet
        /\ at.item \in at.todo /\ at.item \in Ranges
        /\ \E t \in cloud.rts : t.id = at.id /\ Serves(t, at.item)
    BY <1>1, RtFacts
  <1>3. TypeOK /\ CloudOk /\ StatusOk(mem) /\ mem \in OscCluster /\ at.id \in Nat
    BY <1>2, Building DEF TypeOK, Position, Id
  <1>4. PICK r \in Ranges, i \in Nat : r = at.item /\ i = at.id BY <1>2, <1>3
  <1>5. PICK t \in cloud.rts : t.id = i /\ Serves(t, r) BY <1>2, <1>4
  <1>. DEFINE a == [at EXCEPT !.step = "loop", !.todo = @ \ {at.item}]
  <1>6. \/ ((\E u \in cloud.rts : u.id = i /\ u.routed) \/ ~Internet) /\ Continue(a, mem)
        \/ EndPass(mem)
        \/ Call(RouteCreated(i), a, WithTarget(mem, r), WithTarget(mem, r))
    BY <1>4 DEF ReconcileRoute
  <1>7. a \in Position /\ a.phase = at.phase /\ a.step = "loop" /\ a.todo = at.todo \ {r}
    BY <1>3, <1>4 DEF TypeOK, Position, Step
  <1>. HIDE DEF a
  <1>8. ASSUME at' = a PROVE CallsOk' BY <1>1, <1>7, <1>8 DEF CallsOk, At, RtPhases
  <1>9. CASE ((\E u \in cloud.rts : u.id = i /\ u.routed) \/ ~Internet) /\ Continue(a, mem)
    <2>1. PICK c : c = mem OBVIOUS
    <2>2. Continue(a, c) BY <1>9, <2>1
    <2>3. Grows /\ obj' = obj /\ mem' = c BY <1>2, <2>2, Looking
    <2>4. Heir(mem, c) /\ CopyOk(c)' BY <1>2, <2>1, <2>3, ScopeOk
    <2>5. at' = a /\ mem'.spec = mem.spec BY <2>2, <2>3, <2>4 DEF Continue, Heir
    <2>6. Internet => t.routed BY <1>3, <1>5, <1>9 DEF CloudOk, TablesOk, Distinct
    <2>7. HasTable(r) BY <1>5, <2>6 DEF HasTable
    <2>8. HasTable(r)' BY <1>3, <2>3, <2>7, GrowsFind
    <2>9. LoopsOk' BY <1>1, <1>7, <2>3, <2>5, <2>8, RtLoop
    <2>. QED BY <1>1, <1>2, <1>7, <1>8, <2>2, <2>4, <2>5, <2>9, BuildLoop
  <1>10. CASE EndPass(mem)
    <2>1. PICK c : c = mem OBVIOUS
    <2>. QED BY <1>1, <1>2, <1>10, <2>1, PassEnds
  <1>11. CASE Call(RouteCreated(i), a, WithTarget(mem, r), WithTarget(mem, r))
    <2>1. PICK w : w = WithTarget(mem, r) OBVIOUS
    <2>2. Call(RouteCreated(i), a, w, w) BY <1>11, <2>1
    <2>3. Heir(mem, w) BY <1>3, <2>1, WithTypes
    <2>4. RouteCreated(i) \in Cloud /\ RouteCreated(i).ips = cloud.ips
      <3>1. RouteCreated(i) \in Cloud BY <1>3, RequestTypes
      <3>2. RouteCreated(i).ips = cloud.ips BY <1>3 DEF RouteCreated, TypeOK, Cloud
      <3>. QED BY <3>1, <3>2
    <2>5. /\ TypeOK' /\ obj' = obj
          /\ (cloud' = RouteCreated(i) => Grows /\ CloudOk') => Grows /\ CloudOk'
      BY <1>2, <1>7, <2>2, <2>3, <2>4, CallFacts
    <2>6. cloud' = RouteCreated(i) =>
            /\ Grows /\ CloudOk'
            /\ \E u \in cloud'.rts : u.id = i /\ u.sub = t.sub /\ u.routed
            /\ cloud'.subnets = cloud.subnets
      BY <1>3, <1>5, <2>5, RouteCreatedOk
    <2>7. Grows /\ CloudOk' BY <2>5, <2>6
    <2>8. CopyOk(w)' BY <1>2, <2>1, <2>5, <2>7, ScopeOk
    <2>9. cloud' = RouteCreated(i) /\ at' = a /\ mem' = w => CopyOk(mem)' /\ LoopsOk' /\ CallsOk'
      <3>. HAVE cloud' = RouteCreated(i) /\ at' = a /\ mem' = w
      <3>1. mem'.spec = mem.spec BY <2>3 DEF Heir
      <3>2. HasTable(r)' BY <1>5, <2>6 DEF HasTable, Serves
      <3>3. LoopsOk' BY <1>1, <1>7, <2>5, <2>7, <3>1, <3>2, RtLoop
      <3>. QED BY <1>8, <2>8, <3>3
    <2>. QED BY <1>1, <1>2, <1>7, <2>2, <2>3, <2>4, <2>7, <2>8, <2>9, BuildCall
  <1>. QED BY <1>6, <1>9, <1>10, <1>11

LEMMA EndRouteTablesOk == ASSUME ClusterInv, EndRouteTables PROVE ClusterInv' /\ Builds
  <1>1. at.phase \in RtPhases /\ at.step = "loop" /\ at.todo = {} BY DEF EndRouteTables
  <1>2. /\ at.phase \in BuildPhase \ {"ready"} /\ at.phase \in BuildPhase
        /\ at.phase = "routeTable" => \A r \in mem.spec : HasTable(r)
        /\ at.phase = "rtNat" => HasTable(Pub)
    BY <1>1, RtFacts
  <1>3. PICK c : c = mem OBVIOUS
  <1>4. CASE at.phase = "routeTable"
    <2>1. Made("routeTable", mem.spec) BY <1>2, <1>4 DEF Made
    <2>2. Continue(Start(After("routeTable")), Recorded(c, "routeTable"))
      BY <1>3, <1>4 DEF EndRouteTables
    <2>3. Grows /\ obj' = obj BY <1>2, <2>2, Looking
    <2>4. Heir(mem, c) /\ CopyOk(c)' BY <1>2, <1>3, <2>3, ScopeOk
    <2>5. "routeTable" \in Reconcilers BY DEF Reconcilers
    <2>. QED BY <1>1, <1>4, <2>1, <2>2, <2>4, <2>5, HandlerRecords
  <1>5. CASE at.phase = "rtNat"
    <2>1. Continue(Start(After("rtNat")), c) BY <1>3, <1>5 DEF EndRouteTables
    <2>2. "rtNat" \notin Owned BY OwnedFacts DEF Reconcilers
    <2>. QED BY <1>1, <1>2, <1>3, <1>5, <2>1, <2>2, HandlerPasses
  <1>. QED BY <1>1, <1>4, <1>5 DEF RtPhases
--------------------------------------------------------------------------------
(* The NAT service and its IP. *)
LEMMA IpCall ==
  ASSUME ClusterInv, at.phase \in {"natService", "bastion"}, at.step = "start",
         NEW a \in Position, a.phase = at.phase, a.step = "create", NEW s, NEW m,
         Heir(mem, s), Heir(mem, m), Call(PublicIpCreated, a, s, m),
         at.phase = "natService" => cloud.nats = {}, at.phase = "bastion" => cloud.vms = {}
  PROVE  /\ TypeOK' /\ UNCHANGED obj /\ Grows /\ CloudOk' /\ IsFiniteSet(cloud'.ips) /\ IpsOwed'
         /\ PublicIpCreated \in Cloud
         /\ cloud' = PublicIpCreated =>
              cloud'.ips = cloud.ips \cup {cloud.next} /\ cloud'.nats = cloud.nats /\ cloud'.vms = cloud.vms
  <1>1. at.phase \in BuildPhase BY DEF BuildPhase
  <1>2. TypeOK /\ CloudOk /\ ~LeftOut(at.phase) /\ IsFiniteSet(cloud.ips) /\ IpsOwed BY <1>1, Building
  <1>3. PublicIpCreated \in Cloud
    <2>1. 0 \in Nat OBVIOUS
    <2>. QED BY <1>2, <2>1, RequestTypes
  <1>4. /\ TypeOK' /\ UNCHANGED obj
        /\ cloud' = PublicIpCreated \/ cloud' = cloud
        /\ \/ cloud' = PublicIpCreated /\ at' = a /\ faults' = faults
           \/ faults' = faults + 1
        /\ (cloud' = PublicIpCreated => Grows /\ CloudOk') => Grows /\ CloudOk'
    BY <1>1, <1>3, CallFacts
  <1>5. cloud' = PublicIpCreated =>
          /\ Grows /\ CloudOk'
          /\ cloud'.ips = cloud.ips \cup {cloud.next} /\ cloud'.nats = cloud.nats /\ cloud'.vms = cloud.vms
    BY <1>2, <1>4, PublicIpCreatedOk
  <1>6. Grows /\ CloudOk' BY <1>4, <1>5
  <1>7. ~At("natService", "create") /\ ~At("bastion", "create") BY DEF At
  <1>8. CASE cloud' = PublicIpCreated
    <2>1. (at.phase = "natService" => Internet) /\ (at.phase = "bastion" => Bastion) BY <1>2 DEF LeftOut
    <2>2. at' = a => (at.phase = "natService" => At("natService", "create")')
                     /\ (at.phase = "bastion" => At("bastion", "create")') BY DEF At
    <2>3. \/ faults' = faults + 1
          \/ /\ faults' = faults
             /\ \/ Internet /\ cloud.nats = {} /\ At("natService", "create")'
                \/ Bastion /\ cloud.vms = {} /\ At("bastion", "create")'
      <3>1. CASE faults' = faults + 1 BY <3>1
      <3>2. CASE at' = a /\ faults' = faults BY <2>1, <2>2, <3>2
      <3>. QED BY <1>4, <3>1, <3>2
    <2>4. obj'.opt = obj.opt BY <1>4
    <2>5. IsFiniteSet(cloud'.ips) /\ IpsOwed' BY <1>2, <1>4, <1>5, <1>7, <1>8, <2>3, <2>4, IpsAdded
    <2>. QED BY <1>3, <1>4, <1>5, <1>6, <2>5
  <1>9. CASE cloud' = cloud
    <2>1. cloud'.ips = cloud.ips BY <1>9
    <2>2. faults' = faults + 1 \/ (faults' = faults /\ at.step # "create") BY <1>4
    <2>3. IsFiniteSet(cloud'.ips) /\ IpsOwed' BY <1>1, <1>4, <1>6, <2>1, <2>2, GrowsIps
    <2>. QED BY <1>3, <1>4, <1>5, <1>6, <2>3
  <1>. QED BY <1>4, <1>8, <1>9

LEMMA ReconcileNatServiceOk == ASSUME ClusterInv, ReconcileNatService PROVE ClusterInv' /\ Builds
  <1>1. at.phase = "natService" /\ at.step = "start" BY DEF ReconcileNatService, At
  <1>2. "natService" \in BuildPhase \ {"ready"} /\ "natService" \in Reconcilers
    BY DEF BuildPhase, Reconcilers
  <1>3. TypeOK /\ CloudOk /\ StatusOk(mem) /\ mem \in OscCluster BY <1>1, <1>2, Building
  <1>4. PICK c \in OscCluster : c = mem BY <1>3
  <1>5. PICK i \in Nat : i = NatServiceId(mem) BY <1>3, LookupTypes
  <1>. DEFINE a == [at EXCEPT !.step = "create"]
              found == [c EXCEPT !.st.nat = i, !.st.natIp = NatIp(i)]
  <1>6. \/ ReuseNet /\ Continue(Start(After("natService")), c)
        \/ /\ i \in Ids(cloud.nats)
           /\ Continue(Start(After("natService")), Recorded(found, "natService"))
        \/ ~ReuseNet /\ i \notin Ids(cloud.nats) /\ UsableIp(c.st.natIp) /\ Continue(a, c)
        \/ /\ ~ReuseNet /\ i \notin Ids(cloud.nats)
           /\ Call(PublicIpCreated, a, c, [c EXCEPT !.st.natIp = cloud.next])
    BY <1>4, <1>5 DEF ReconcileNatService
  <1>7. a \in Position /\ a.phase = "natService" /\ a.step = "create"
    BY <1>1, <1>3 DEF TypeOK, Position, Step
  <1>. HIDE DEF a
  <1>8. i \notin Ids(cloud.nats) => cloud.nats = {} BY <1>3, <1>5, NatLookup
  <1>9. CASE ReuseNet /\ Continue(Start(After("natService")), c)
    <2>1. "natService" \notin Owned BY <1>9 DEF Owned
    <2>. QED BY <1>1, <1>2, <1>4, <1>9, <2>1, HandlerPasses
  <1>10. CASE /\ i \in Ids(cloud.nats)
              /\ Continue(Start(After("natService")), Recorded(found, "natService"))
    <2>1. PICK n \in cloud.nats : n.id = i /\ NatIp(i) = n.ip
      <3>1. \E n \in cloud.nats : n.id = i BY <1>10 DEF Ids
      <3>. QED BY <3>1 DEF NatIp
    <2>2. n.ip \in cloud.ips /\ n.ip \in Nat BY <1>3, <2>1, CloudFields DEF CloudOk, NatsOk
    <2>3. PICK j \in Nat : j = n.ip BY <2>2
    <2>4. PICK w : w = [c EXCEPT !.st.nat = i] OBVIOUS
    <2>5. PICK x : x = [w EXCEPT !.st.natIp = j] OBVIOUS
    <2>6. found = x BY <2>1, <2>3, <2>4, <2>5 DEF OscCluster, Resources
    <2>7. Continue(Start(After("natService")), Recorded(x, "natService")) BY <1>10, <2>6
    <2>. HIDE DEF found
    <2>8. Grows /\ obj' = obj /\ cloud' = cloud BY <1>1, <1>2, <2>7, Looking
    <2>9. CopyOk(c)' BY <1>1, <1>2, <1>4, <2>8, ScopeOk
    <2>10. Heir(c, w) /\ CopyOk(w)'
      <3>1. Heir(c, w) BY <2>4, UpdateTypes
      <3>2. i \in Ids(cloud'.nats) BY <1>10, <2>8
      <3>. QED BY <2>4, <2>9, <3>1, <3>2, SetFields
    <2>11. w \in OscCluster BY <2>10 DEF Heir
    <2>12. Heir(w, x) /\ CopyOk(x)'
      <3>1. Heir(w, x) BY <2>5, <2>11, UpdateTypes
      <3>2. j \in cloud'.ips BY <2>2, <2>3, <2>8
      <3>. QED BY <2>5, <2>10, <2>11, <3>1, <3>2, SetFields
    <2>13. Heir(mem, x) BY <1>4, <2>10, <2>12 DEF Heir
    <2>14. Made("natService", mem.spec) BY <2>1 DEF Made
    <2>. QED BY <1>1, <1>2, <2>7, <2>12, <2>13, <2>14, HandlerRecords
  <1>11. CASE ~ReuseNet /\ i \notin Ids(cloud.nats) /\ UsableIp(c.st.natIp) /\ Continue(a, c)
    <2>1. Grows /\ obj' = obj /\ cloud' = cloud /\ mem' = c BY <1>1, <1>2, <1>11, Looking
    <2>2. Heir(mem, c) /\ CopyOk(c)' BY <1>1, <1>2, <1>4, <2>1, ScopeOk
    <2>3. at' = a BY <1>11 DEF Continue
    <2>4. LoopsOk' BY <1>7, <2>3 DEF LoopsOk, At
    <2>5. ~ReuseNet' BY <1>11, <2>1 DEF ReuseNet
    <2>6. c.st.natIp \in cloud.ips BY <1>11 DEF UsableIp
    <2>7. CallsOk' BY <1>7, <1>8, <1>11, <2>1, <2>3, <2>5, <2>6 DEF CallsOk, At, RtPhases
    <2>. QED BY <1>1, <1>2, <1>7, <1>11, <2>2, <2>4, <2>7, BuildLoop
  <1>12. CASE /\ ~ReuseNet /\ i \notin Ids(cloud.nats)
              /\ Call(PublicIpCreated, a, c, [c EXCEPT !.st.natIp = cloud.next])
    <2>1. PICK j \in Nat : j = cloud.next BY <1>3, CloudFields
    <2>2. PICK w : w = [c EXCEPT !.st.natIp = j] OBVIOUS
    <2>3. Call(PublicIpCreated, a, c, w) BY <1>12, <2>1, <2>2
    <2>4. Heir(mem, c) /\ Heir(mem, w) BY <1>4, <2>2, UpdateTypes
    <2>5. /\ TypeOK' /\ UNCHANGED obj /\ Grows /\ CloudOk' /\ IsFiniteSet(cloud'.ips) /\ IpsOwed'
          /\ PublicIpCreated \in Cloud
          /\ cloud' = PublicIpCreated =>
               cloud'.ips = cloud.ips \cup {cloud.next} /\ cloud'.nats = cloud.nats
      BY <1>1, <1>7, <1>8, <1>12, <2>3, <2>4, IpCall
    <2>6. CopyOk(c)' BY <1>1, <1>2, <1>4, <2>5, ScopeOk
    <2>7. cloud' = PublicIpCreated /\ at' = a /\ mem' = w =>
            /\ at'.phase \in BuildPhase \cup {"patch"}
            /\ CopyOk(mem)' /\ BehindOk' /\ LoopsOk' /\ CallsOk'
      <3>. HAVE cloud' = PublicIpCreated /\ at' = a /\ mem' = w
      <3>1. j \in cloud'.ips BY <2>1, <2>5
      <3>2. CopyOk(w)' BY <2>2, <2>6, <3>1, SetFields
      <3>3. at'.phase = at.phase /\ at'.phase = "natService" /\ at'.step = "create" BY <1>1, <1>7
      <3>4. Heir(mem, mem') BY <2>4
      <3>5. BehindOk' BY <1>1, <1>2, <2>5, <3>3, <3>4, SamePhase
      <3>6. LoopsOk' BY <3>3 DEF LoopsOk, At
      <3>7. ~ReuseNet' /\ cloud'.nats = {} BY <1>8, <1>12, <2>5 DEF ReuseNet
      <3>8. w.st.natIp = j BY <2>2 DEF OscCluster, Resources
      <3>9. CallsOk' BY <3>1, <3>3, <3>7, <3>8 DEF CallsOk, At, RtPhases
      <3>. QED BY <1>2, <3>2, <3>3, <3>5, <3>6, <3>9
    <2>. QED BY <1>1, <1>2, <1>7, <2>3, <2>4, <2>5, <2>6, <2>7, BuildCallIps
  <1>. QED BY <1>6, <1>9, <1>10, <1>11, <1>12

LEMMA CreateNatServiceOk == ASSUME ClusterInv, CreateNatService PROVE ClusterInv' /\ Builds
  <1>1. at.phase = "natService" /\ at.step = "create" BY DEF CreateNatService, At
  <1>2. "natService" \in BuildPhase \ {"ready"} /\ "natService" \in Reconcilers
    BY DEF BuildPhase, Reconcilers
  <1>3. /\ TypeOK /\ CloudOk /\ StatusOk(mem) /\ mem \in OscCluster /\ CallsOk /\ BehindOk
        /\ ~LeftOut("natService") /\ mem.spec \in Specs /\ Pub \in mem.spec /\ Pub \in Ranges
        /\ IsFiniteSet(cloud.ips) /\ IpsOwed
        /\ \A k \in Owned : Before(k, "natService") => Made(k, mem.spec)
    BY <1>1, <1>2, Building
  <1>4. ~ReuseNet /\ cloud.nats = {} /\ mem.st.natIp \in cloud.ips /\ Internet
    BY <1>1, <1>3 DEF CallsOk, At, LeftOut
  <1>5. Made("subnet", mem.spec) /\ Made("internetService", mem.spec) /\ HasTable(Pub)
    <2>1. "subnet" \in Owned /\ "internetService" \in Owned BY <1>4 DEF Owned
    <2>2. HasTable(Pub) BY <1>1, <1>2, <1>3, <1>4, BeforeFacts DEF BehindOk
    <2>. QED BY <1>3, <2>1, <2>2, BeforeFacts
  <1>6. Gateway BY <1>4, <1>5 DEF Gateway, Made, HasTable
  <1>7. SubnetId(mem, Pub) # 0
    <2>1. HasSubnet(Pub) BY <1>3, <1>5 DEF Made
    <2>. QED BY <1>3, <1>4, <2>1, SubnetLookup
  <1>8. PICK w : w = WithSubnet(mem, Pub, SubnetId(mem, Pub)) OBVIOUS
  <1>9. PICK i \in Nat : i = cloud.next BY <1>3, CloudFields
  <1>10. PICK n \in Nat, ip \in Nat : n = NetId(mem) /\ ip = mem.st.natIp
    BY <1>3, <1>4, LookupTypes, CloudFields
  <1>11. PICK x : x = [w EXCEPT !.st.nat = i] OBVIOUS
  <1>12. PICK y : y = Recorded(x, "natService") OBVIOUS
  <1>. DEFINE after == NatServiceCreated(n, ip)
  <1>13. Call(after, Start(After("natService")), w, y)
    BY <1>7, <1>8, <1>9, <1>10, <1>11, <1>12 DEF CreateNatService
  <1>14. Heir(mem, w) /\ w \in OscCluster
    <2>1. SubnetId(mem, Pub) \in Nat BY <1>3, LookupTypes
    <2>2. Heir(mem, w) BY <1>3, <1>8, <2>1, WithTypes
    <2>. QED BY <2>2 DEF Heir
  <1>15. Heir(mem, x) /\ Heir(mem, y)
    <2>1. Heir(w, x) BY <1>11, <1>14, UpdateTypes
    <2>2. Heir(mem, x) BY <1>14, <2>1 DEF Heir
    <2>. QED BY <1>2, <1>12, <2>2, HeirRecorded
  <1>16. after \in Cloud BY <1>3, RequestTypes
  <1>17. after.ips = cloud.ips /\ after.vms = cloud.vms BY <1>3 DEF NatServiceCreated, TypeOK, Cloud
  <1>. HIDE DEF after
  <1>18. /\ TypeOK' /\ obj' = obj
         /\ cloud' = after \/ cloud' = cloud
         /\ \/ cloud' = after /\ faults' = faults
            \/ faults' = faults + 1
         /\ (cloud' = after => Grows /\ CloudOk') => Grows /\ CloudOk'
    BY <1>1, <1>2, <1>13, <1>14, <1>15, <1>16, AfterType, CallFacts
  <1>19. n \in Ids(Tagged(cloud.nets)) BY <1>1, <1>2, <1>4, <1>10, NetThere, BeforeFacts
  <1>20. cloud' = after => Grows /\ CloudOk' /\ i \in Ids(cloud'.nats)
    BY <1>3, <1>4, <1>6, <1>9, <1>10, <1>18, <1>19, NatServiceCreatedOk DEF after
  <1>21. Grows /\ CloudOk' BY <1>18, <1>20
  <1>22. cloud' = after => cloud'.nats # {} BY <1>20 DEF Ids
  <1>23. IsFiniteSet(cloud'.ips) /\ IpsOwed'
    <2>1. cloud'.ips = cloud.ips /\ cloud'.vms = cloud.vms BY <1>17, <1>18
    <2>2. ~At("bastion", "create") BY <1>1 DEF At
    <2>3. obj'.opt = obj.opt BY <1>18
    <2>4. \/ faults' = faults + 1
          \/ faults' = faults /\ (At("natService", "create") => cloud'.nats # {} \/ At("natService", "create")')
                              /\ (At("bastion", "create") => cloud'.vms # {} \/ At("bastion", "create")')
      BY <1>18, <1>22, <2>2
    <2>. QED BY <1>3, <1>4, <1>18, <2>1, <2>3, <2>4, IpsKept
  <1>24. CopyOk(w)' BY <1>1, <1>2, <1>3, <1>8, <1>18, <1>21, ScopeOk
  <1>25. cloud' = after /\ at' = Start(After("natService")) /\ mem' = y =>
           /\ at'.phase \in BuildPhase \cup {"patch"}
           /\ CopyOk(mem)' /\ BehindOk' /\ LoopsOk' /\ CallsOk'
    <2>. HAVE cloud' = after /\ at' = Start(After("natService")) /\ mem' = y
    <2>1. CopyOk(x)' BY <1>11, <1>14, <1>20, <1>24, SetFields
    <2>2. \A s : Made("natService", s)' BY <1>22 DEF Made
    <2>3. CopyOk(y)' BY <1>2, <1>12, <1>15, <2>1, <2>2, RecordedScope
    <2>4. Heir(mem, mem') BY <1>15
    <2>5. at'.phase \in BuildPhase /\ BehindOk' /\ LoopsOk' /\ CallsOk'
      BY <1>1, <1>2, <1>18, <1>21, <2>2, <2>4, NextHandler
    <2>. QED BY <2>3, <2>5
  <1>. QED BY <1>1, <1>2, <1>13, <1>14, <1>15, <1>16, <1>21, <1>23, <1>24, <1>25, AfterType, BuildCallIps
--------------------------------------------------------------------------------
(* The net peering and its routes. *)
LEMMA ReconcileNetPeeringOk == ASSUME ClusterInv, ReconcileNetPeering PROVE ClusterInv' /\ Builds
  <1>1. at.phase = "netPeering" /\ at.step = "start" BY DEF ReconcileNetPeering, At
  <1>2. "netPeering" \in BuildPhase \ {"ready"} BY DEF BuildPhase
  <1>3. TypeOK /\ CloudOk /\ StatusOk(mem) /\ mem \in OscCluster BY <1>1, <1>2, Building
  <1>4. PICK i \in Nat : i = NetPeeringId(mem) BY <1>3, LookupTypes
  <1>. DEFINE a == [at EXCEPT !.step = "accept", !.id = i]
              b == [at EXCEPT !.step = "tag", !.id = cloud.next]
  <1>5. PICK w : w = WithNet(WithPeering(mem)) OBVIOUS
  <1>p. PeeringIs(mem, {"active", "pending-acceptance"}) <=>
          PeeringIs(mem, {"active"}) \/ PeeringIs(mem, {"pending-acceptance"})
    BY DEF PeeringIs
  <1>6. \/ ReuseNet /\ Continue(Start(After("netPeering")), mem)
        \/ PeeringIs(mem, {"active"}) /\ Continue(Start(After("netPeering")), WithPeering(mem))
        \/ EndPass(WithPeering(mem))
        \/ PeeringIs(mem, {"pending-acceptance"}) /\ Continue(a, w)
        \/ /\ ~ReuseNet /\ ~PeeringIs(mem, {"active", "pending-acceptance"})
           /\ Call(NetPeeringCreated(NetId(mem)), b, w, w)
    BY <1>4, <1>5, <1>p DEF ReconcileNetPeering
  <1>7. /\ a \in Position /\ a.phase = "netPeering" /\ a.step = "accept" /\ a.id = i
        /\ b \in Position /\ b.phase = "netPeering" /\ b.step = "tag" /\ b.id = cloud.next
    BY <1>1, <1>3, CloudFields DEF TypeOK, Position, Step, Id
  <1>. HIDE DEF a, b
  <1>8. CASE ReuseNet /\ Continue(Start(After("netPeering")), mem)
    <2>1. "netPeering" \notin Owned BY <1>8 DEF Owned
    <2>2. PICK c : c = mem OBVIOUS
    <2>. QED BY <1>1, <1>2, <1>8, <2>1, <2>2, HandlerPasses
  <1>9. CASE PeeringIs(mem, {"active"}) /\ Continue(Start(After("netPeering")), WithPeering(mem))
    <2>1. PICK v : v = WithPeering(mem) OBVIOUS
    <2>2. Made("netPeering", mem.spec) BY <1>3, <1>9, PeeringLookup DEF PeeringIs, Made
    <2>. QED BY <1>1, <1>2, <1>9, <2>1, <2>2, HandlerPasses
  <1>10. CASE EndPass(WithPeering(mem))
    <2>1. PICK v : v = WithPeering(mem) OBVIOUS
    <2>. QED BY <1>1, <1>2, <1>10, <2>1, PassEnds
  <1>11. CASE PeeringIs(mem, {"pending-acceptance"}) /\ Continue(a, w)
    <2>1. Grows /\ obj' = obj /\ cloud' = cloud /\ at' = a BY <1>1, <1>2, <1>11, Looking DEF Continue
    <2>2. Heir(mem, w) /\ CopyOk(w)' BY <1>1, <1>2, <1>5, <2>1, ScopeOk
    <2>3. i \in Ids(Tagged(cloud.peerings)) BY <1>3, <1>4, <1>11, PeeringLookup DEF PeeringIs, Tagged, Ids
    <2>4. LoopsOk' BY <1>7, <2>1 DEF LoopsOk, At
    <2>5. CallsOk' BY <1>7, <2>1, <2>3 DEF CallsOk, At, RtPhases
    <2>. QED BY <1>1, <1>2, <1>7, <1>11, <2>2, <2>4, <2>5, BuildLoop
  <1>12. CASE /\ ~ReuseNet /\ ~PeeringIs(mem, {"active", "pending-acceptance"})
              /\ Call(NetPeeringCreated(NetId(mem)), b, w, w)
    <2>1. PICK n \in Nat : n = NetId(mem) BY <1>3, LookupTypes
    <2>2. Call(NetPeeringCreated(n), b, w, w) BY <1>12, <2>1
    <2>3. Heir(mem, w) BY <1>3, <1>5, WithTypes
    <2>4. NetPeeringCreated(n) \in Cloud /\ NetPeeringCreated(n).ips = cloud.ips
      <3>1. NetPeeringCreated(n) \in Cloud BY <1>3, RequestTypes
      <3>2. NetPeeringCreated(n).ips = cloud.ips BY <1>3 DEF NetPeeringCreated, TypeOK, Cloud
      <3>. QED BY <3>1, <3>2
    <2>5. /\ TypeOK' /\ obj' = obj
          /\ (cloud' = NetPeeringCreated(n) => Grows /\ CloudOk') => Grows /\ CloudOk'
      BY <1>1, <1>2, <1>7, <2>2, <2>3, <2>4, CallFacts
    <2>6. n \in Ids(Tagged(cloud.nets)) BY <1>1, <1>2, <1>12, <2>1, NetThere, BeforeFacts
    <2>7. Tagged(cloud.peerings) = {}
      <3>. SUFFICES ASSUME NEW p \in Tagged(cloud.peerings) PROVE FALSE OBVIOUS
      <3>1. p.id = NetPeeringId(mem) /\ p \in cloud.peerings BY <1>3, PeeringLookup DEF Tagged
      <3>2. p.state \in {"active", "pending-acceptance"}
        BY <1>3, <3>1, CloudFields DEF CloudOk, PeeringsOk, NetPeering, PeeringState
      <3>. QED BY <1>12, <3>1, <3>2 DEF PeeringIs
    <2>8. cloud' = NetPeeringCreated(n) =>
            Grows /\ CloudOk' /\ cloud.next \in Ids(cloud'.peerings) /\ Tagged(cloud'.peerings) = {}
      BY <1>3, <1>12, <2>5, <2>6, <2>7, NetPeeringCreatedOk
    <2>9. Grows /\ CloudOk' BY <2>5, <2>8
    <2>10. CopyOk(w)' BY <1>1, <1>2, <1>5, <2>5, <2>9, ScopeOk
    <2>11. cloud' = NetPeeringCreated(n) /\ at' = b /\ mem' = w => CopyOk(mem)' /\ LoopsOk' /\ CallsOk'
      <3>. HAVE cloud' = NetPeeringCreated(n) /\ at' = b /\ mem' = w
      <3>1. at'.phase = "netPeering" /\ at'.step = "tag" /\ at'.id = cloud.next BY <1>7
      <3>2. LoopsOk' BY <3>1 DEF LoopsOk, At
      <3>3. CallsOk' BY <1>12, <2>5, <2>8, <3>1 DEF CallsOk, At, ReuseNet, RtPhases
      <3>. QED BY <2>10, <3>2, <3>3
    <2>. QED BY <1>1, <1>2, <1>7, <2>2, <2>3, <2>4, <2>9, <2>10, <2>11, BuildCall
  <1>. QED BY <1>6, <1>8, <1>9, <1>10, <1>11, <1>12

LEMMA TagNetPeeringOk == ASSUME ClusterInv, TagNetPeering PROVE ClusterInv' /\ Builds
  <1>1. at.phase = "netPeering" /\ at.step = "tag" BY DEF TagNetPeering, At
  <1>2. "netPeering" \in BuildPhase BY DEF BuildPhase
  <1>3. TypeOK /\ CloudOk /\ CallsOk /\ mem \in OscCluster /\ at.id \in Nat
    BY <1>1, <1>2, Building DEF TypeOK, Position, Id
  <1>4. ~ReuseNet /\ Tagged(cloud.peerings) = {} /\ at.id \in Ids(cloud.peerings)
    BY <1>1, <1>3 DEF CallsOk, At
  <1>5. PICK c \in OscCluster : c = mem BY <1>3
  <1>6. PICK i \in Nat : i = at.id BY <1>3
  <1>7. PICK w : w = [c EXCEPT !.st.peer = i] OBVIOUS
  <1>. DEFINE a == [at EXCEPT !.step = "accept"]
  <1>8. Call(NetPeeringTagged(i), a, c, w) BY <1>5, <1>6, <1>7 DEF TagNetPeering
  <1>9. a \in Position /\ a.phase = "netPeering" /\ a.step = "accept" /\ a.id = i
    BY <1>1, <1>3, <1>6 DEF TypeOK, Position, Step
  <1>. HIDE DEF a
  <1>10. Heir(mem, c) /\ Heir(mem, w) BY <1>5, <1>7, UpdateTypes
  <1>11. NetPeeringTagged(i) \in Cloud /\ NetPeeringTagged(i).ips = cloud.ips
    <2>1. NetPeeringTagged(i) \in Cloud BY <1>3, RequestTypes
    <2>2. NetPeeringTagged(i).ips = cloud.ips BY <1>3 DEF NetPeeringTagged, TypeOK, Cloud
    <2>. QED BY <2>1, <2>2
  <1>12. /\ TypeOK' /\ obj' = obj
         /\ (cloud' = NetPeeringTagged(i) => Grows /\ CloudOk') => Grows /\ CloudOk'
    BY <1>1, <1>2, <1>8, <1>9, <1>10, <1>11, CallFacts
  <1>13. cloud' = NetPeeringTagged(i) => Grows /\ CloudOk' /\ i \in Ids(Tagged(cloud'.peerings))
    BY <1>3, <1>4, <1>6, <1>12, NetPeeringTaggedOk
  <1>14. Grows /\ CloudOk' BY <1>12, <1>13
  <1>15. CopyOk(c)' BY <1>1, <1>2, <1>5, <1>12, <1>14, ScopeOk
  <1>16. cloud' = NetPeeringTagged(i) /\ at' = a /\ mem' = w => CopyOk(mem)' /\ LoopsOk' /\ CallsOk'
    <2>. HAVE cloud' = NetPeeringTagged(i) /\ at' = a /\ mem' = w
    <2>1. CopyOk(w)' BY <1>5, <1>7, <1>13, <1>15, SetFields
    <2>2. at'.phase = "netPeering" /\ at'.step = "accept" /\ at'.id = i BY <1>9
    <2>3. LoopsOk' BY <2>2 DEF LoopsOk, At
    <2>4. CallsOk' BY <1>13, <2>2 DEF CallsOk, At, RtPhases
    <2>. QED BY <2>1, <2>3, <2>4
  <1>. QED BY <1>1, <1>2, <1>8, <1>9, <1>10, <1>11, <1>14, <1>15, <1>16, BuildCall

LEMMA AcceptNetPeeringOk == ASSUME ClusterInv, AcceptNetPeering PROVE ClusterInv' /\ Builds
  <1>1. at.phase = "netPeering" /\ at.step = "accept" BY DEF AcceptNetPeering, At
  <1>2. "netPeering" \in BuildPhase \ {"ready"} /\ "netPeering" \in Reconcilers BY DEF BuildPhase, Reconcilers
  <1>3. TypeOK /\ CloudOk /\ CallsOk /\ mem \in OscCluster /\ at.id \in Nat
    BY <1>1, <1>2, Building DEF TypeOK, Position, Id
  <1>4. at.id \in Ids(Tagged(cloud.peerings)) BY <1>1, <1>3 DEF CallsOk, At
  <1>5. PICK c \in OscCluster : c = mem BY <1>3
  <1>6. PICK i \in Nat : i = at.id BY <1>3
  <1>7. PICK x : x = Recorded(c, "netPeering") OBVIOUS
  <1>. DEFINE after == NetPeeringIs(i, "active")
  <1>8. Call(after, Start(After("netPeering")), c, x) BY <1>5, <1>6, <1>7 DEF AcceptNetPeering
  <1>9. Heir(mem, c) BY <1>5, UpdateTypes
  <1>10. Heir(mem, x) BY <1>2, <1>7, <1>9, HeirRecorded
  <1>11. after \in Cloud /\ after.ips = cloud.ips
    <2>1. after \in Cloud BY <1>3, RequestTypes DEF PeeringState
    <2>2. after.ips = cloud.ips BY <1>3 DEF NetPeeringIs, TypeOK, Cloud
    <2>. QED BY <2>1, <2>2
  <1>. HIDE DEF after
  <1>12. /\ TypeOK' /\ obj' = obj
         /\ (cloud' = after => Grows /\ CloudOk') => Grows /\ CloudOk'
    BY <1>1, <1>2, <1>8, <1>9, <1>10, <1>11, AfterType, CallFacts
  <1>13. cloud' = after => Grows /\ CloudOk' /\ \E p \in cloud'.peerings : p.tagged /\ p.state = "active"
    BY <1>3, <1>4, <1>6, <1>12, NetPeeringIsOk DEF after
  <1>14. Grows /\ CloudOk' BY <1>12, <1>13
  <1>15. CopyOk(c)' BY <1>1, <1>2, <1>5, <1>12, <1>14, ScopeOk
  <1>16. cloud' = after /\ mem' = x => CopyOk(mem)' /\ Made("netPeering", mem.spec)'
    <2>. HAVE cloud' = after /\ mem' = x
    <2>1. \A s : Made("netPeering", s)' BY <1>13 DEF Made
    <2>2. CopyOk(x)' BY <1>2, <1>7, <1>9, <1>15, <2>1, RecordedScope
    <2>. QED BY <2>1, <2>2
  <1>. QED BY <1>1, <1>2, <1>8, <1>9, <1>10, <1>11, <1>14, <1>15, <1>16, BuildCallNext

LEMMA StartPeeringRoutesOk == ASSUME ClusterInv, StartPeeringRoutes PROVE ClusterInv' /\ Builds
  <1>1. at.phase = "netPeeringRoutes" /\ at.step = "start" BY DEF StartPeeringRoutes, At
  <1>2. "netPeeringRoutes" \in BuildPhase \ {"ready"} BY DEF BuildPhase
  <1>3. /\ TypeOK /\ CloudOk /\ StatusOk(mem) /\ mem \in OscCluster /\ ~LeftOut("netPeeringRoutes")
        /\ \A k \in Owned : Before(k, "netPeeringRoutes") => Made(k, mem.spec)
    BY <1>1, <1>2, Building
  <1>4. PICK i \in Nat : i = NetPeeringId(mem) BY <1>3, LookupTypes
  <1>5. PICK w : w = WithNet(WithPeering(mem)) OBVIOUS
  <1>. DEFINE a == [at EXCEPT !.step = "route", !.id = i]
  <1>6. \/ ReuseNet /\ Continue(Start(After("netPeeringRoutes")), mem)
        \/ EndPass(w)
        \/ ~ReuseNet /\ i \in cloud.mgmt /\ Continue(a, w)
        \/ ~ReuseNet /\ Call(ManagementRouteCreated(i), a, w, w)
    BY <1>4, <1>5 DEF StartPeeringRoutes
  <1>7. a \in Position /\ a.phase = "netPeeringRoutes" /\ a.step = "route" /\ a.id = i
    BY <1>1, <1>3 DEF TypeOK, Position, Step, Id
  <1>. HIDE DEF a
  <1>8. ASSUME at' = a, obj' = obj, i \in cloud'.mgmt, ~ReuseNet PROVE LoopsOk' /\ CallsOk'
    <2>1. LoopsOk' BY <1>7, <1>8 DEF LoopsOk, At
    <2>2. CallsOk' BY <1>7, <1>8 DEF CallsOk, At, ReuseNet, RtPhases
    <2>. QED BY <2>1, <2>2
  <1>9. CASE ReuseNet /\ Continue(Start(After("netPeeringRoutes")), mem)
    <2>1. "netPeeringRoutes" \notin Owned BY <1>9 DEF Owned
    <2>2. PICK c : c = mem OBVIOUS
    <2>. QED BY <1>1, <1>2, <1>9, <2>1, <2>2, HandlerPasses
  <1>10. CASE EndPass(w) BY <1>1, <1>2, <1>5, <1>10, PassEnds
  <1>11. CASE ~ReuseNet /\ i \in cloud.mgmt /\ Continue(a, w)
    <2>1. Grows /\ obj' = obj /\ cloud' = cloud /\ at' = a BY <1>1, <1>2, <1>11, Looking DEF Continue
    <2>2. Heir(mem, w) /\ CopyOk(w)' BY <1>1, <1>2, <1>5, <2>1, ScopeOk
    <2>3. LoopsOk' /\ CallsOk' BY <1>8, <1>11, <2>1
    <2>. QED BY <1>1, <1>2, <1>7, <1>11, <2>2, <2>3, BuildLoop
  <1>12. CASE ~ReuseNet /\ Call(ManagementRouteCreated(i), a, w, w)
    <2>1. Heir(mem, w) BY <1>3, <1>5, WithTypes
    <2>2. ManagementRouteCreated(i) \in Cloud /\ ManagementRouteCreated(i).ips = cloud.ips
      <3>1. ManagementRouteCreated(i) \in Cloud BY <1>3, RequestTypes
      <3>2. ManagementRouteCreated(i).ips = cloud.ips BY <1>3 DEF ManagementRouteCreated, TypeOK, Cloud
      <3>. QED BY <3>1, <3>2
    <2>3. /\ TypeOK' /\ obj' = obj
          /\ (cloud' = ManagementRouteCreated(i) => Grows /\ CloudOk') => Grows /\ CloudOk'
      BY <1>1, <1>2, <1>7, <1>12, <2>1, <2>2, CallFacts
    <2>4. Active(i)
      <3>1. "netPeering" \in Owned BY <1>3, <1>12 DEF Owned, LeftOut
      <3>2. Made("netPeering", mem.spec) BY <1>3, <3>1, BeforeFacts
      <3>3. PICK p \in cloud.peerings : p.tagged /\ p.state = "active" BY <3>2 DEF Made
      <3>4. i = p.id BY <1>3, <1>4, <3>3, PeeringLookup DEF Tagged
      <3>. QED BY <3>3, <3>4 DEF Active
    <2>5. cloud' = ManagementRouteCreated(i) => Grows /\ CloudOk' /\ i \in cloud'.mgmt
      BY <1>3, <2>3, <2>4, ManagementRouteCreatedOk
    <2>6. Grows /\ CloudOk' BY <2>3, <2>5
    <2>7. CopyOk(w)' BY <1>1, <1>2, <1>5, <2>3, <2>6, ScopeOk
    <2>8. cloud' = ManagementRouteCreated(i) /\ at' = a /\ mem' = w => CopyOk(mem)' /\ LoopsOk' /\ CallsOk'
      BY <1>8, <1>12, <2>3, <2>5, <2>7
    <2>. QED BY <1>1, <1>2, <1>7, <1>12, <2>1, <2>2, <2>6, <2>7, <2>8, BuildCall
  <1>. QED BY <1>6, <1>9, <1>10, <1>11, <1>12

LEMMA RoutePeeringOk == ASSUME ClusterInv, RoutePeering PROVE ClusterInv' /\ Builds
  <1>1. at.phase = "netPeeringRoutes" /\ at.step = "route" BY DEF RoutePeering, At
  <1>2. "netPeeringRoutes" \in BuildPhase \ {"ready"} /\ "netPeeringRoutes" \in Reconcilers
    BY DEF BuildPhase, Reconcilers
  <1>3. /\ TypeOK /\ CloudOk /\ StatusOk(mem) /\ mem \in OscCluster /\ CallsOk
        /\ \A k \in Owned : Before(k, "netPeeringRoutes") => Made(k, mem.spec)
    BY <1>1, <1>2, Building
  <1>4. ~ReuseNet /\ at.id \in cloud.mgmt BY <1>1, <1>3 DEF CallsOk, At
  <1>5. PICK i \in Nat : i = at.id BY <1>3, <1>4, CloudFields
  <1>6. PICK c : c = mem OBVIOUS
  <1>7. \/ /\ \A t \in NetTables(mem) : t.peer = i
           /\ Continue(Start(After("netPeeringRoutes")), Recorded(c, "netPeeringRoutes"))
        \/ \E t \in cloud.rts : Call(PeeringRouteSet(t.id, i), at, c, c)
    BY <1>5, <1>6 DEF RoutePeering, NetTables
  <1>8. CASE /\ \A t \in NetTables(mem) : t.peer = i
             /\ Continue(Start(After("netPeeringRoutes")), Recorded(c, "netPeeringRoutes"))
    <2>1. Grows /\ obj' = obj BY <1>1, <1>2, <1>8, Looking
    <2>2. Heir(mem, c) /\ CopyOk(c)' BY <1>1, <1>2, <1>6, <2>1, ScopeOk
    <2>3. \A r \in mem.spec : HasPeerRoute(r, i)
      <3>. TAKE r \in mem.spec
      <3>1. "routeTable" \in Owned BY <1>4 DEF Owned
      <3>2. HasTable(r) BY <1>3, <3>1, BeforeFacts DEF Made
      <3>3. PICK t \in cloud.rts : Serves(t, r) BY <3>2 DEF HasTable
      <3>4. PICK n \in Tagged(cloud.nets) : t.net = n.id BY <1>3, <3>3 DEF CloudOk, TablesOk, InNet
      <3>5. NetId(mem) = n.id BY <1>3, <1>4, <3>4, NetLookup
      <3>6. t.peer = i BY <1>8, <3>3, <3>4, <3>5 DEF NetTables
      <3>. QED BY <3>3, <3>6 DEF HasPeerRoute
    <2>4. Made("netPeeringRoutes", mem.spec) BY <1>4, <1>5, <2>3 DEF Made
    <2>. QED BY <1>1, <1>2, <1>8, <2>2, <2>4, HandlerRecords
  <1>9. CASE \E t \in cloud.rts : Call(PeeringRouteSet(t.id, i), at, c, c)
    <2>1. PICK t \in cloud.rts : Call(PeeringRouteSet(t.id, i), at, c, c) BY <1>9
    <2>2. PICK j \in Nat : j = t.id BY <1>3, CloudFields DEF RouteTable, Id
    <2>3. Call(PeeringRouteSet(j, i), at, c, c) BY <2>1, <2>2
    <2>4. Heir(mem, c) /\ at \in Position BY <1>3, <1>6, UpdateTypes DEF TypeOK
    <2>5. PeeringRouteSet(j, i) \in Cloud /\ PeeringRouteSet(j, i).ips = cloud.ips
      <3>1. PeeringRouteSet(j, i) \in Cloud BY <1>3, RequestTypes
      <3>2. PeeringRouteSet(j, i).ips = cloud.ips BY <1>3 DEF PeeringRouteSet, TypeOK, Cloud
      <3>. QED BY <3>1, <3>2
    <2>6. /\ TypeOK' /\ obj' = obj
          /\ (cloud' = PeeringRouteSet(j, i) => Grows /\ CloudOk') => Grows /\ CloudOk'
      BY <1>1, <1>2, <2>3, <2>4, <2>5, CallFacts
    <2>7. Active(i) BY <1>3, <1>4, <1>5 DEF CloudOk, PeeringsOk
    <2>8. Grows /\ CloudOk' BY <1>3, <2>6, <2>7, PeeringRouteSetOk
    <2>9. CopyOk(c)' BY <1>1, <1>2, <1>6, <2>6, <2>8, ScopeOk
    <2>10. cloud' = PeeringRouteSet(j, i) /\ at' = at /\ mem' = c => CopyOk(mem)' /\ LoopsOk' /\ CallsOk'
      <3>. HAVE cloud' = PeeringRouteSet(j, i) /\ at' = at /\ mem' = c
      <3>1. at'.phase = "netPeeringRoutes" /\ at'.step = "route" /\ at'.id = i BY <1>1, <1>5
      <3>2. i \in cloud'.mgmt BY <1>4, <1>5, <2>8 DEF Grows
      <3>3. LoopsOk' BY <3>1 DEF LoopsOk, At
      <3>4. CallsOk' BY <1>4, <2>6, <3>1, <3>2 DEF CallsOk, At, ReuseNet, RtPhases
      <3>. QED BY <2>9, <3>3, <3>4
    <2>. QED BY <1>1, <1>2, <2>3, <2>4, <2>5, <2>8, <2>9, <2>10, BuildCall
  <1>. QED BY <1>7, <1>8, <1>9
--------------------------------------------------------------------------------
(* The net access point. *)
LEMMA ReconcileNetAccessPointOk == ASSUME ClusterInv, ReconcileNetAccessPoint PROVE ClusterInv' /\ Builds
  <1>1. at.phase = "netAccessPoint" /\ at.step = "start" BY DEF ReconcileNetAccessPoint, At
  <1>2. "netAccessPoint" \in BuildPhase \ {"ready"} /\ "netAccessPoint" \in Reconcilers
    BY DEF BuildPhase, Reconcilers
  <1>3. /\ TypeOK /\ CloudOk /\ StatusOk(mem) /\ mem \in OscCluster BY <1>1, <1>2, Building
  <1>4. PICK i \in Nat : i = NetAccessPointId(mem) BY <1>3, LookupTypes
  <1>5. PICK w : w = WithPrivateSubnets(mem) OBVIOUS
  <1>6. PICK T : T = PrivateTables(mem) OBVIOUS
  <1>7. PICK n \in Nat : n = NetId(mem) BY <1>3, LookupTypes
  <1>8. PICK j \in Nat : j = cloud.next BY <1>3, CloudFields
  <1>. DEFINE done(id) == Recorded([w EXCEPT !.st.nap = id], "netAccessPoint")
  <1>9. \/ ReuseNet /\ Continue(Start(After("netAccessPoint")), mem)
        \/ ~ReuseNet /\ EndPass(w)
        \/ ~ReuseNet /\ i \in Ids(cloud.naps) /\ Continue(Start(After("netAccessPoint")), done(i))
        \/ /\ ~ReuseNet /\ i \notin Ids(cloud.naps)
           /\ Call(NetAccessPointCreated(n, T), Start(After("netAccessPoint")), w, done(j))
    BY <1>4, <1>5, <1>6, <1>7, <1>8 DEF ReconcileNetAccessPoint
  <1>10. Heir(mem, w) BY <1>3, <1>5, WithTypes
  <1>11. w \in OscCluster BY <1>10 DEF Heir
  <1>12. ASSUME NEW k \in Nat PROVE Heir(mem, [w EXCEPT !.st.nap = k])
    <2>1. Heir(w, [w EXCEPT !.st.nap = k]) BY <1>11, UpdateTypes
    <2>. QED BY <1>10, <2>1 DEF Heir
  <1>13. CASE ReuseNet /\ Continue(Start(After("netAccessPoint")), mem)
    <2>1. "netAccessPoint" \notin Owned BY <1>13 DEF Owned
    <2>2. PICK c : c = mem OBVIOUS
    <2>. QED BY <1>1, <1>2, <1>13, <2>1, <2>2, HandlerPasses
  <1>14. CASE ~ReuseNet /\ EndPass(w)
    <2>1. Grows /\ obj' = obj BY <1>1, <1>2, <1>14, Looking
    <2>2. CopyOk(w)' BY <1>1, <1>2, <1>5, <1>14, <2>1, ScopeOk
    <2>. QED BY <1>1, <1>2, <1>10, <1>14, <2>2, BuildEnds
  <1>15. CASE ~ReuseNet /\ i \in Ids(cloud.naps) /\ Continue(Start(After("netAccessPoint")), done(i))
    <2>1. PICK x : x = [w EXCEPT !.st.nap = i] OBVIOUS
    <2>2. Continue(Start(After("netAccessPoint")), Recorded(x, "netAccessPoint")) BY <1>15, <2>1
    <2>3. Grows /\ obj' = obj /\ cloud' = cloud BY <1>1, <1>2, <2>2, Looking
    <2>4. CopyOk(w)' BY <1>1, <1>2, <1>5, <1>15, <2>3, ScopeOk
    <2>5. i \in Ids(cloud'.naps) BY <1>15, <2>3
    <2>6. CopyOk(x)' BY <1>11, <2>1, <2>4, <2>5, SetFields
    <2>7. Made("netAccessPoint", mem.spec) BY <1>15 DEF Made, Ids
    <2>. QED BY <1>1, <1>2, <1>12, <2>1, <2>2, <2>6, <2>7, HandlerRecords
  <1>16. CASE /\ ~ReuseNet /\ i \notin Ids(cloud.naps)
              /\ Call(NetAccessPointCreated(n, T), Start(After("netAccessPoint")), w, done(j))
    <2>1. PICK x : x = [w EXCEPT !.st.nap = j] OBVIOUS
    <2>2. PICK y : y = Recorded(x, "netAccessPoint") OBVIOUS
    <2>3. Call(NetAccessPointCreated(n, T), Start(After("netAccessPoint")), w, y) BY <1>16, <2>1, <2>2
    <2>4. Heir(mem, x) /\ Heir(mem, y) BY <1>2, <1>12, <2>1, <2>2, HeirRecorded
    <2>5. T \in SUBSET Nat
      <3>1. \A t \in cloud.rts : t.id \in Nat BY <1>3, CloudFields DEF RouteTable, Id
      <3>. QED BY <1>6, <3>1 DEF PrivateTables, TableOf
    <2>6. NetAccessPointCreated(n, T) \in Cloud /\ NetAccessPointCreated(n, T).ips = cloud.ips
      <3>1. NetAccessPointCreated(n, T) \in Cloud BY <1>3, <2>5, RequestTypes
      <3>2. NetAccessPointCreated(n, T).ips = cloud.ips BY <1>3 DEF NetAccessPointCreated, TypeOK, Cloud
      <3>. QED BY <3>1, <3>2
    <2>7. /\ TypeOK' /\ obj' = obj
          /\ (cloud' = NetAccessPointCreated(n, T) => Grows /\ CloudOk') => Grows /\ CloudOk'
      BY <1>1, <1>2, <1>10, <2>3, <2>4, <2>6, AfterType, CallFacts
    <2>8. n \in Ids(Tagged(cloud.nets)) BY <1>1, <1>2, <1>7, <1>16, NetThere, BeforeFacts
    <2>9. cloud.naps = {} BY <1>3, <1>4, <1>16, NapLookup
    <2>10. cloud' = NetAccessPointCreated(n, T) => Grows /\ CloudOk' /\ j \in Ids(cloud'.naps)
      BY <1>3, <1>8, <1>16, <2>7, <2>8, <2>9, NetAccessPointCreatedOk
    <2>11. Grows /\ CloudOk' BY <2>7, <2>10
    <2>12. CopyOk(w)' BY <1>1, <1>2, <1>5, <1>16, <2>7, <2>11, ScopeOk
    <2>13. cloud' = NetAccessPointCreated(n, T) /\ mem' = y =>
             CopyOk(mem)' /\ Made("netAccessPoint", mem.spec)'
      <3>. HAVE cloud' = NetAccessPointCreated(n, T) /\ mem' = y
      <3>1. CopyOk(x)' BY <1>11, <2>1, <2>10, <2>12, SetFields
      <3>2. \A s : Made("netAccessPoint", s)' BY <2>10 DEF Made, Ids
      <3>3. CopyOk(y)' BY <1>2, <2>2, <2>4, <3>1, <3>2, RecordedScope
      <3>. QED BY <3>2, <3>3
    <2>. QED BY <1>1, <1>2, <1>10, <2>3, <2>4, <2>6, <2>11, <2>12, <2>13, BuildCallNext
  <1>. QED BY <1>9, <1>13, <1>14, <1>15, <1>16
--------------------------------------------------------------------------------
(* The security groups. *)
LEMMA GroupLoop ==
  ASSUME ClusterInv, at.phase = "securityGroup", at.step \in {"loop", "rules"}, obj' = obj, Grows,
         at'.phase = "securityGroup", NEW s,
         \/ at'.todo = at.todo
         \/ at'.todo = at.todo \ {s} /\ HasGroup(s)'
  PROVE  LoopsOk'
  <1>1. at.phase \in BuildPhase BY DEF BuildPhase
  <1>2. CloudOk /\ LoopsOk BY <1>1, Building
  <1>3. ~ReuseSG /\ \A g \in SGNames \ at.todo : HasGroup(g) BY <1>2 DEF LoopsOk, At
  <1>4. \A g \in SGNames : HasGroup(g) => HasGroup(g)' BY <1>2, GrowsFind
  <1>5. \A g \in SGNames \ at'.todo : HasGroup(g)' BY <1>3, <1>4
  <1>6. ~ReuseSG' BY <1>3 DEF ReuseSG
  <1>. QED BY <1>5, <1>6 DEF LoopsOk, At

LEMMA StartSecurityGroupsOk == ASSUME ClusterInv, StartSecurityGroups PROVE ClusterInv' /\ Builds
  <1>1. at.phase = "securityGroup" /\ at.step = "start" BY DEF StartSecurityGroups, At
  <1>2. "securityGroup" \in BuildPhase \ {"ready"} BY DEF BuildPhase
  <1>3. TypeOK BY <1>1, <1>2, Building
  <1>4. PICK c, w : c = mem /\ w = WithNet(mem) OBVIOUS
  <1>. DEFINE a == [at EXCEPT !.step = "loop", !.todo = SGNames]
  <1>5. \/ ReuseSG /\ Continue(Start(After("securityGroup")), c)
        \/ EndPass(c)
        \/ ~ReuseSG /\ Continue(a, w)
    BY <1>4 DEF StartSecurityGroups
  <1>6. CASE ReuseSG /\ Continue(Start(After("securityGroup")), c)
    <2>1. "securityGroup" \notin Owned BY <1>6 DEF Owned
    <2>. QED BY <1>1, <1>2, <1>4, <1>6, <2>1, HandlerPasses
  <1>7. CASE EndPass(c) BY <1>1, <1>2, <1>4, <1>7, PassEnds
  <1>8. CASE ~ReuseSG /\ Continue(a, w)
    <2>1. a \in Position /\ a.phase = "securityGroup" /\ a.step = "loop" /\ a.todo = SGNames
      BY <1>1, <1>3 DEF TypeOK, Position, Step
    <2>. HIDE DEF a
    <2>2. Grows /\ obj' = obj /\ at' = a BY <1>1, <1>2, <1>8, Looking DEF Continue
    <2>3. Heir(mem, w) /\ CopyOk(w)' BY <1>1, <1>2, <1>4, <2>2, ScopeOk
    <2>4. LoopsOk' BY <1>8, <2>1, <2>2 DEF LoopsOk, At, ReuseSG
    <2>5. CallsOk' BY <2>1, <2>2 DEF CallsOk, At, RtPhases
    <2>. QED BY <1>1, <1>2, <1>8, <2>1, <2>3, <2>4, <2>5, BuildLoop
  <1>. QED BY <1>5, <1>6, <1>7, <1>8

LEMMA VisitSecurityGroupOk ==
  ASSUME ClusterInv, NEW s \in SGNames, VisitSecurityGroup(s) PROVE ClusterInv' /\ Builds
  <1>1. at.phase = "securityGroup" /\ at.step = "loop" /\ s \in at.todo BY DEF VisitSecurityGroup, At
  <1>2. "securityGroup" \in BuildPhase BY DEF BuildPhase
  <1>3. TypeOK /\ CloudOk /\ StatusOk(mem) /\ mem \in OscCluster /\ LoopsOk BY <1>1, <1>2, Building
  <1>4. ~ReuseSG BY <1>1, <1>3 DEF LoopsOk, At
  <1>5. PICK c \in OscCluster : c = mem BY <1>3
  <1>6. PICK i \in Nat, j \in Nat, n \in Nat : i = SecurityGroupId(mem, s) /\ j = cloud.next /\ n = NetId(mem)
    BY <1>3, LookupTypes, CloudFields
  <1>. DEFINE rules(id) == [at EXCEPT !.step = "rules", !.item = s, !.id = id]
  <1>7. \/ i \in Ids(cloud.sgs) /\ Continue(rules(i), WithGroup(mem, s, i))
        \/ /\ i \notin Ids(cloud.sgs)
           /\ Call(SecurityGroupCreated(n, s), rules(j), c, WithGroup(c, s, j))
    BY <1>5, <1>6 DEF VisitSecurityGroup
  <1>8. ASSUME NEW k \in Nat
        PROVE  /\ rules(k) \in Position /\ rules(k).phase = "securityGroup" /\ rules(k).step = "rules"
               /\ rules(k).item = s /\ rules(k).id = k /\ rules(k).todo = at.todo
    BY <1>1, <1>3 DEF TypeOK, Position, Step, Id
  <1>. HIDE DEF rules
  <1>9. ASSUME NEW k \in Nat, at' = rules(k), obj' = obj, Grows, \E g \in cloud'.sgs : g.id = k /\ g.name = s
        PROVE  LoopsOk' /\ CallsOk'
    <2>1. /\ at'.phase = "securityGroup" /\ at'.step = "rules"
          /\ at'.item = s /\ at'.id = k /\ at'.todo = at.todo
      BY <1>8, <1>9
    <2>2. LoopsOk' BY <1>1, <1>9, <2>1, GroupLoop
    <2>3. CallsOk' BY <1>1, <1>9, <2>1 DEF CallsOk, At, RtPhases
    <2>. QED BY <2>2, <2>3
  <1>10. CASE i \in Ids(cloud.sgs) /\ Continue(rules(i), WithGroup(mem, s, i))
    <2>1. PICK w : w = WithGroup(mem, s, i) OBVIOUS
    <2>2. Continue(rules(i), w) BY <1>10, <2>1
    <2>3. Grows /\ obj' = obj /\ cloud' = cloud /\ at' = rules(i) BY <1>1, <1>2, <2>2, Looking DEF Continue
    <2>4. Heir(mem, w) /\ CopyOk(w)' BY <1>1, <1>2, <1>6, <2>1, <2>3, ScopeOk
    <2>5. \E g \in cloud.sgs : g.id = i /\ g.name = s
      <3>1. PICK g \in cloud.sgs : g.name = s BY <1>3, <1>4, <1>6, <1>10, GroupLookup
      <3>. QED BY <1>3, <1>4, <1>6, <3>1, GroupLookup
    <2>6. LoopsOk' /\ CallsOk' BY <1>9, <2>3, <2>5
    <2>. QED BY <1>1, <1>2, <1>8, <2>2, <2>4, <2>6, BuildLoop
  <1>11. CASE /\ i \notin Ids(cloud.sgs)
              /\ Call(SecurityGroupCreated(n, s), rules(j), c, WithGroup(c, s, j))
    <2>1. PICK w : w = [c EXCEPT !.st.sg[s] = j] OBVIOUS
    <2>2. Call(SecurityGroupCreated(n, s), rules(j), c, w) BY <1>4, <1>11, <2>1 DEF WithGroup
    <2>3. Heir(mem, c) /\ Heir(mem, w) BY <1>5, <2>1, UpdateTypes
    <2>4. SecurityGroupCreated(n, s) \in Cloud /\ SecurityGroupCreated(n, s).ips = cloud.ips
      <3>1. SecurityGroupCreated(n, s) \in Cloud BY <1>3, RequestTypes
      <3>2. SecurityGroupCreated(n, s).ips = cloud.ips BY <1>3 DEF SecurityGroupCreated, TypeOK, Cloud
      <3>. QED BY <3>1, <3>2
    <2>5. /\ TypeOK' /\ obj' = obj
          /\ (cloud' = SecurityGroupCreated(n, s) => Grows /\ CloudOk') => Grows /\ CloudOk'
      BY <1>1, <1>2, <1>8, <2>2, <2>3, <2>4, CallFacts
    <2>6. ~\E g \in cloud.sgs : g.name = s BY <1>3, <1>4, <1>6, <1>11, GroupLookup
    <2>7. cloud' = SecurityGroupCreated(n, s) =>
            Grows /\ CloudOk' /\ \E g \in cloud'.sgs : g.id = j /\ g.name = s
      BY <1>3, <1>4, <1>6, <2>5, <2>6, SecurityGroupCreatedOk
    <2>8. Grows /\ CloudOk' BY <2>5, <2>7
    <2>9. CopyOk(c)' BY <1>1, <1>2, <1>5, <2>5, <2>8, ScopeOk
    <2>10. cloud' = SecurityGroupCreated(n, s) /\ at' = rules(j) /\ mem' = w =>
             CopyOk(mem)' /\ LoopsOk' /\ CallsOk'
      <3>. HAVE cloud' = SecurityGroupCreated(n, s) /\ at' = rules(j) /\ mem' = w
      <3>1. CopyOk(w)' BY <1>5, <2>1, <2>7, <2>9, SetFields
      <3>2. LoopsOk' /\ CallsOk' BY <1>9, <2>5, <2>7, <2>8
      <3>. QED BY <3>1, <3>2
    <2>. QED BY <1>1, <1>2, <1>8, <2>2, <2>3, <2>4, <2>8, <2>9, <2>10, BuildCall
  <1>. QED BY <1>7, <1>10, <1>11

LEMMA AddRulesOk == ASSUME ClusterInv, AddRules PROVE ClusterInv' /\ Builds
  <1>1. at.phase = "securityGroup" /\ at.step = "rules" BY DEF AddRules, At
  <1>2. "securityGroup" \in BuildPhase BY DEF BuildPhase
  <1>3. TypeOK /\ CloudOk /\ mem \in OscCluster /\ LoopsOk /\ CallsOk /\ at.id \in Nat
    BY <1>1, <1>2, Building DEF TypeOK, Position, Id
  <1>4. ~ReuseSG /\ at.item \in at.todo /\ \E g \in cloud.sgs : g.id = at.id /\ g.name = at.item
    BY <1>1, <1>3 DEF LoopsOk, CallsOk, At
  <1>12. PICK i \in Nat : i = at.id BY <1>3
  <1>5. PICK s, c : s = at.item /\ c = mem OBVIOUS
  <1>6. PICK g \in cloud.sgs : g.id = i /\ g.name = s BY <1>4, <1>5, <1>12
  <1>. DEFINE a == [at EXCEPT !.step = "loop", !.todo = @ \ {at.item}]
  <1>7. \/ (\E h \in cloud.sgs : h.id = i /\ h.ruled) /\ Continue(a, c)
        \/ Call(SecurityGroupRuled(i), a, c, c)
    BY <1>5, <1>12 DEF AddRules
  <1>8. a \in Position /\ a.phase = "securityGroup" /\ a.step = "loop" /\ a.todo = at.todo \ {s}
    BY <1>1, <1>3, <1>5 DEF TypeOK, Position, Step
  <1>. HIDE DEF a
  <1>9. ASSUME at' = a, obj' = obj, Grows, HasGroup(s)' PROVE LoopsOk' /\ CallsOk'
    <2>1. at'.phase = "securityGroup" /\ at'.step = "loop" /\ at'.todo = at.todo \ {s} BY <1>8, <1>9
    <2>2. LoopsOk' BY <1>1, <1>9, <2>1, GroupLoop
    <2>3. CallsOk' BY <2>1 DEF CallsOk, At, RtPhases
    <2>. QED BY <2>2, <2>3
  <1>10. CASE (\E h \in cloud.sgs : h.id = i /\ h.ruled) /\ Continue(a, c)
    <2>1. Grows /\ obj' = obj /\ cloud' = cloud /\ at' = a BY <1>1, <1>2, <1>10, Looking DEF Continue
    <2>2. Heir(mem, c) /\ CopyOk(c)' BY <1>1, <1>2, <1>5, <2>1, ScopeOk
    <2>3. g.ruled BY <1>3, <1>4, <1>6, <1>10 DEF CloudOk, GroupsOk, Distinct
    <2>4. HasGroup(s)' BY <1>6, <2>1, <2>3 DEF HasGroup
    <2>5. LoopsOk' /\ CallsOk' BY <1>9, <2>1, <2>4
    <2>. QED BY <1>1, <1>2, <1>8, <1>10, <2>2, <2>5, BuildLoop
  <1>11. CASE Call(SecurityGroupRuled(i), a, c, c)
    <2>1. Heir(mem, c) BY <1>3, <1>5, UpdateTypes
    <2>2. SecurityGroupRuled(i) \in Cloud /\ SecurityGroupRuled(i).ips = cloud.ips
      <3>1. SecurityGroupRuled(i) \in Cloud BY <1>3, RequestTypes
      <3>2. SecurityGroupRuled(i).ips = cloud.ips BY <1>3 DEF SecurityGroupRuled, TypeOK, Cloud
      <3>. QED BY <3>1, <3>2
    <2>3. /\ TypeOK' /\ obj' = obj
          /\ (cloud' = SecurityGroupRuled(i) => Grows /\ CloudOk') => Grows /\ CloudOk'
      BY <1>1, <1>2, <1>8, <1>11, <2>1, <2>2, CallFacts
    <2>4. cloud' = SecurityGroupRuled(i) => Grows /\ CloudOk' /\ \E h \in cloud'.sgs : h.name = s /\ h.ruled
      BY <1>3, <1>6, <2>3, SecurityGroupRuledOk
    <2>5. Grows /\ CloudOk' BY <2>3, <2>4
    <2>6. CopyOk(c)' BY <1>1, <1>2, <1>5, <2>3, <2>5, ScopeOk
    <2>7. cloud' = SecurityGroupRuled(i) /\ at' = a /\ mem' = c => CopyOk(mem)' /\ LoopsOk' /\ CallsOk'
      <3>. HAVE cloud' = SecurityGroupRuled(i) /\ at' = a /\ mem' = c
      <3>1. HasGroup(s)' BY <2>4 DEF HasGroup
      <3>. QED BY <1>9, <2>3, <2>5, <2>6, <3>1
    <2>. QED BY <1>1, <1>2, <1>8, <1>11, <2>1, <2>2, <2>5, <2>6, <2>7, BuildCall
  <1>. QED BY <1>7, <1>10, <1>11

LEMMA EndSecurityGroupsOk == ASSUME ClusterInv, EndSecurityGroups PROVE ClusterInv' /\ Builds
  <1>1. at.phase = "securityGroup" /\ at.step = "loop" /\ at.todo = {} BY DEF EndSecurityGroups, At
  <1>2. "securityGroup" \in BuildPhase /\ "securityGroup" \in Reconcilers BY DEF BuildPhase, Reconcilers
  <1>3. LoopsOk BY <1>1, <1>2, Building
  <1>4. Made("securityGroup", mem.spec) BY <1>1, <1>3 DEF LoopsOk, At, Made
  <1>5. PICK c : c = mem OBVIOUS
  <1>6. Continue(Start(After("securityGroup")), Recorded(c, "securityGroup")) BY <1>5 DEF EndSecurityGroups
  <1>7. Grows /\ obj' = obj BY <1>1, <1>2, <1>6, Looking
  <1>8. Heir(mem, c) /\ CopyOk(c)' BY <1>1, <1>2, <1>5, <1>7, ScopeOk
  <1>. QED BY <1>1, <1>2, <1>4, <1>6, <1>8, HandlerRecords
--------------------------------------------------------------------------------
(* The load balancer. *)
LEMMA GroupScope ==
  ASSUME ClusterInv, at.phase \in BuildPhase, obj' = obj, Grows, NEW v, Heir(mem, v), CopyOk(v)',
         NEW s \in SGNames
  PROVE  \A w : w = WithGroup(v, s, SecurityGroupId(mem, s)) => Heir(mem, w) /\ CopyOk(w)'
  <1>1. TypeOK /\ CloudOk /\ StatusOk(mem) /\ mem \in OscCluster BY Building
  <1>2. v \in OscCluster BY DEF Heir
  <1>3. PICK i \in Nat : i = SecurityGroupId(mem, s) BY <1>1, LookupTypes
  <1>4. PICK w : w = WithGroup(v, s, i) OBVIOUS
  <1>5. CASE ReuseSG BY <1>3, <1>5 DEF WithGroup
  <1>6. CASE ~ReuseSG
    <2>1. w = [v EXCEPT !.st.sg[s] = i] BY <1>4, <1>6 DEF WithGroup
    <2>2. i = 0 \/ \E g \in cloud'.sgs : g.id = i /\ g.name = s
      <3>1. i = 0 \/ \E g \in cloud.sgs : g.id = i /\ g.name = s BY <1>1, <1>3, <1>6, GroupLookup
      <3>. QED BY <3>1 DEF Grows
    <2>3. CopyOk(w)' BY <1>2, <2>1, <2>2, SetFields
    <2>4. Heir(v, w) BY <1>2, <2>1, UpdateTypes
    <2>5. Heir(mem, w) BY <2>4 DEF Heir
    <2>. QED BY <1>3, <1>4, <2>3, <2>5
  <1>. QED BY <1>5, <1>6

LEMMA ReconcileLoadBalancerOk == ASSUME ClusterInv, ReconcileLoadBalancer PROVE ClusterInv' /\ Builds
  <1>1. at.phase = "loadbalancer" /\ at.step = "start" BY DEF ReconcileLoadBalancer, At
  <1>2. "loadbalancer" \in BuildPhase \ {"ready"} /\ "loadbalancer" \in Reconcilers
    BY DEF BuildPhase, Reconcilers
  <1>3. TypeOK /\ CloudOk /\ mem \in OscCluster /\ Pub \in Ranges /\ cloud.lb \in LbState
    BY <1>1, <1>2, Building, CloudFields
  <1>4. PICK c, v : c = mem /\ v = WithSubnet(mem, Pub, SubnetId(mem, Pub)) OBVIOUS
  <1>5. PICK w : w = WithGroup(v, LbSG, SecurityGroupId(mem, LbSG)) OBVIOUS
  <1>. DEFINE a == [at EXCEPT !.step = "health"]
  <1>6. \/ EndPass(c)
        \/ cloud.lb = "tagged" /\ Continue(Start(After("loadbalancer")), WithEndpoint(mem))
        \/ EndPass(w)
        \/ cloud.lb = "none" /\ Call(LoadBalancerCreated, a, w, w)
    BY <1>3, <1>4, <1>5 DEF ReconcileLoadBalancer, LbState
  <1>7. ASSUME Grows, obj' = obj PROVE Heir(mem, w) /\ CopyOk(w)'
    <2>1. Heir(mem, v) /\ CopyOk(v)' BY <1>1, <1>2, <1>3, <1>4, <1>7, ScopeOk
    <2>. QED BY <1>1, <1>2, <1>5, <1>7, <2>1, GroupScope, NamesAssumption
  <1>8. CASE EndPass(c) BY <1>1, <1>2, <1>4, <1>8, PassEnds
  <1>9. CASE cloud.lb = "tagged" /\ Continue(Start(After("loadbalancer")), WithEndpoint(mem))
    <2>1. PICK x : x = WithEndpoint(mem) OBVIOUS
    <2>2. Continue(Start(After("loadbalancer")), x) BY <1>9, <2>1
    <2>3. Grows /\ obj' = obj /\ cloud' = cloud BY <1>1, <1>2, <2>2, Looking
    <2>4. Heir(mem, x) /\ CopyOk(x)' BY <1>1, <1>2, <1>9, <2>1, <2>3, ScopeOk
    <2>5. Made("loadbalancer", mem.spec) BY <1>9 DEF Made
    <2>. QED BY <1>1, <1>2, <2>2, <2>4, <2>5, BuildNext
  <1>10. CASE EndPass(w)
    <2>1. Grows /\ obj' = obj BY <1>1, <1>2, <1>10, Looking
    <2>. QED BY <1>1, <1>2, <1>7, <1>10, <2>1, BuildEnds
  <1>11. CASE cloud.lb = "none" /\ Call(LoadBalancerCreated, a, w, w)
    <2>1. a \in Position /\ a.phase = "loadbalancer" /\ a.step = "health"
      BY <1>1, <1>3 DEF TypeOK, Position, Step
    <2>. HIDE DEF a
    <2>2. Heir(mem, w)
      <3>1. SubnetId(mem, Pub) \in Nat /\ SecurityGroupId(mem, LbSG) \in Nat
        BY <1>3, LookupTypes, NamesAssumption
      <3>2. Heir(mem, v) BY <1>3, <1>4, <3>1, WithTypes
      <3>3. v \in OscCluster BY <3>2 DEF Heir
      <3>4. Heir(v, w) BY <1>3, <1>5, <3>1, <3>3, WithTypes, NamesAssumption
      <3>. QED BY <3>2, <3>4 DEF Heir
    <2>3. LoadBalancerCreated \in Cloud /\ LoadBalancerCreated.ips = cloud.ips
      <3>1. 0 \in Nat OBVIOUS
      <3>2. LoadBalancerCreated \in Cloud BY <1>3, <3>1, RequestTypes
      <3>3. LoadBalancerCreated.ips = cloud.ips BY <1>3 DEF LoadBalancerCreated, TypeOK, Cloud
      <3>. QED BY <3>2, <3>3
    <2>4. /\ TypeOK' /\ obj' = obj
          /\ (cloud' = LoadBalancerCreated => Grows /\ CloudOk') => Grows /\ CloudOk'
      BY <1>1, <1>2, <1>11, <2>1, <2>2, <2>3, CallFacts
    <2>5. Grows /\ CloudOk' BY <1>3, <1>11, <2>4, LoadBalancerCreatedOk
    <2>6. CopyOk(w)' BY <1>7, <2>4, <2>5
    <2>7. cloud' = LoadBalancerCreated /\ at' = a /\ mem' = w => CopyOk(mem)' /\ LoopsOk' /\ CallsOk'
      <3>. HAVE cloud' = LoadBalancerCreated /\ at' = a /\ mem' = w
      <3>1. LoopsOk' BY <2>1 DEF LoopsOk, At
      <3>2. CallsOk' BY <2>1 DEF CallsOk, At, RtPhases
      <3>. QED BY <2>6, <3>1, <3>2
    <2>. QED BY <1>1, <1>2, <1>11, <2>1, <2>2, <2>3, <2>5, <2>6, <2>7, BuildCall
  <1>. QED BY <1>6, <1>8, <1>9, <1>10, <1>11

LEMMA ConfigureHealthCheckOk == ASSUME ClusterInv, ConfigureHealthCheck PROVE ClusterInv' /\ Builds
  <1>1. at.phase = "loadbalancer" /\ at.step = "health" BY DEF ConfigureHealthCheck, At
  <1>2. "loadbalancer" \in BuildPhase BY DEF BuildPhase
  <1>3. TypeOK /\ CloudOk /\ mem \in OscCluster BY <1>1, <1>2, Building
  <1>4. PICK c : c = mem OBVIOUS
  <1>. DEFINE a == [at EXCEPT !.step = "tag"]
  <1>5. Call(cloud, a, c, c) BY <1>4 DEF ConfigureHealthCheck, LoadBalancerConfigured
  <1>6. a \in Position /\ a.phase = "loadbalancer" /\ a.step = "tag" BY <1>1, <1>3 DEF TypeOK, Position, Step
  <1>. HIDE DEF a
  <1>7. Heir(mem, c) /\ cloud \in Cloud BY <1>3, <1>4, UpdateTypes DEF TypeOK
  <1>8. obj' = obj /\ cloud' = cloud BY <1>5 DEF Call
  <1>9. Grows /\ CloudOk' BY <1>3, <1>8, GrowsSame, CloudSame
  <1>10. CopyOk(c)' BY <1>1, <1>2, <1>4, <1>8, <1>9, ScopeOk
  <1>11. at' = a => LoopsOk' /\ CallsOk'
    <2>. HAVE at' = a
    <2>1. LoopsOk' BY <1>6 DEF LoopsOk, At
    <2>2. CallsOk' BY <1>6 DEF CallsOk, At, RtPhases
    <2>. QED BY <2>1, <2>2
  <1>. QED BY <1>1, <1>2, <1>5, <1>6, <1>7, <1>9, <1>10, <1>11, BuildCall

LEMMA TagLoadBalancerOk == ASSUME ClusterInv, TagLoadBalancer PROVE ClusterInv' /\ Builds
  <1>1. at.phase = "loadbalancer" /\ at.step = "tag" BY DEF TagLoadBalancer, At
  <1>2. "loadbalancer" \in BuildPhase \ {"ready"} BY DEF BuildPhase
  <1>3. TypeOK /\ CloudOk /\ mem \in OscCluster BY <1>1, <1>2, Building
  <1>4. PICK c, x : c = mem /\ x = WithEndpoint(mem) OBVIOUS
  <1>5. Call(LoadBalancerTagged, Start(After("loadbalancer")), c, x) BY <1>4 DEF TagLoadBalancer
  <1>6. Heir(mem, c) /\ Heir(mem, x)
    <2>1. Heir(mem, c) BY <1>3, <1>4, UpdateTypes
    <2>2. Heir(mem, x) BY <1>3, <1>4, WithTypes
    <2>. QED BY <2>1, <2>2
  <1>7. LoadBalancerTagged \in Cloud /\ LoadBalancerTagged.ips = cloud.ips
    <2>1. 0 \in Nat OBVIOUS
    <2>2. LoadBalancerTagged \in Cloud BY <1>3, <2>1, RequestTypes
    <2>3. LoadBalancerTagged.ips = cloud.ips BY <1>3 DEF LoadBalancerTagged, TypeOK, Cloud
    <2>. QED BY <2>2, <2>3
  <1>8. /\ TypeOK' /\ obj' = obj
        /\ (cloud' = LoadBalancerTagged => Grows /\ CloudOk') => Grows /\ CloudOk'
    BY <1>1, <1>2, <1>5, <1>6, <1>7, AfterType, CallFacts
  <1>9. cloud' = LoadBalancerTagged => Grows /\ CloudOk' /\ cloud'.lb = "tagged"
    BY <1>3, <1>8, LoadBalancerTaggedOk
  <1>10. Grows /\ CloudOk' BY <1>8, <1>9
  <1>11. CopyOk(c)' /\ (cloud'.lb = "tagged" => CopyOk(x)') BY <1>1, <1>2, <1>4, <1>8, <1>10, ScopeOk
  <1>12. cloud' = LoadBalancerTagged /\ mem' = x => CopyOk(mem)' /\ Made("loadbalancer", mem.spec)'
    BY <1>9, <1>11 DEF Made
  <1>. QED BY <1>1, <1>2, <1>5, <1>6, <1>7, <1>10, <1>11, <1>12, BuildCallNext
--------------------------------------------------------------------------------
(* The bastion. *)
LEMMA ReconcileBastionOk == ASSUME ClusterInv, ReconcileBastion PROVE ClusterInv' /\ Builds
  <1>1. at.phase = "bastion" /\ at.step = "start" BY DEF ReconcileBastion, At
  <1>2. "bastion" \in BuildPhase \ {"ready"} /\ "bastion" \in Reconcilers
    BY DEF BuildPhase, Reconcilers
  <1>3. TypeOK /\ CloudOk /\ StatusOk(mem) /\ mem \in OscCluster /\ Pub \in Ranges
    BY <1>1, <1>2, Building
  <1>4. PICK c \in OscCluster : c = mem BY <1>3
  <1>5. PICK w : w = WithSubnet(mem, Pub, SubnetId(mem, Pub)) OBVIOUS
  <1>. DEFINE a == [at EXCEPT !.step = "create"]
              inCloud == BastionId(mem) \in Ids(cloud.vms)
  <1>6. \/ ReuseNet /\ Continue(Start(After("bastion")), c)
        \/ /\ inCloud /\ BastionVm(mem).state = "running"
           /\ Continue(Start(After("bastion")), Recorded(WithBastion(mem), "bastion"))
        \/ inCloud /\ EndPass(WithBastion(mem))
        \/ EndPass(c)
        \/ ~ReuseNet /\ ~inCloud /\ UsableIp(c.st.vmIp) /\ Continue(a, w)
        \/ /\ ~ReuseNet /\ ~inCloud
           /\ Call(PublicIpCreated, a, w, [w EXCEPT !.st.vmIp = cloud.next])
    BY <1>4, <1>5 DEF ReconcileBastion
  <1>7. a \in Position /\ a.phase = "bastion" /\ a.step = "create"
    BY <1>1, <1>3 DEF TypeOK, Position, Step
  <1>. HIDE DEF a
  <1>8. inCloud <=> cloud.vms # {} BY <1>3, BastionLookup
  <1>. HIDE DEF inCloud
  <1>9. CASE ReuseNet /\ Continue(Start(After("bastion")), c)
    <2>1. "bastion" \notin Owned BY <1>9 DEF Owned
    <2>. QED BY <1>1, <1>2, <1>4, <1>9, <2>1, HandlerPasses
  <1>10. CASE /\ inCloud /\ BastionVm(mem).state = "running"
              /\ Continue(Start(After("bastion")), Recorded(WithBastion(mem), "bastion"))
    <2>1. PICK x : x = WithBastion(mem) OBVIOUS
    <2>2. Continue(Start(After("bastion")), Recorded(x, "bastion")) BY <1>10, <2>1
    <2>3. Grows /\ obj' = obj BY <1>1, <1>2, <2>2, Looking
    <2>4. Heir(mem, x) /\ CopyOk(x)' BY <1>1, <1>2, <1>8, <1>10, <2>1, <2>3, ScopeOk
    <2>5. BastionVm(mem) \in cloud.vms
      <3>1. \E v \in cloud.vms : v.id = BastionId(mem) BY <1>10 DEF inCloud, Ids
      <3>. QED BY <3>1 DEF BastionVm
    <2>6. Made("bastion", mem.spec) BY <1>10, <2>5 DEF Made
    <2>. QED BY <1>1, <1>2, <2>2, <2>4, <2>6, HandlerRecords
  <1>11. CASE inCloud /\ EndPass(WithBastion(mem))
    <2>1. PICK x : x = WithBastion(mem) OBVIOUS
    <2>2. EndPass(x) BY <1>11, <2>1
    <2>3. Grows /\ obj' = obj BY <1>1, <1>2, <2>2, Looking
    <2>4. Heir(mem, x) /\ CopyOk(x)' BY <1>1, <1>2, <1>8, <1>11, <2>1, <2>3, ScopeOk
    <2>. QED BY <1>1, <1>2, <2>2, <2>4, BuildEnds
  <1>12. CASE EndPass(c) BY <1>1, <1>2, <1>4, <1>12, PassEnds
  <1>13. Heir(mem, w) /\ w \in OscCluster /\ w.st.vmIp = c.st.vmIp
    <2>1. SubnetId(mem, Pub) \in Nat BY <1>3, LookupTypes
    <2>2. Heir(mem, w) BY <1>3, <1>5, <2>1, WithTypes
    <2>3. w.st.vmIp = c.st.vmIp BY <1>4, <1>5 DEF WithSubnet, OscCluster, Resources
    <2>. QED BY <2>2, <2>3 DEF Heir
  <1>14. CASE ~ReuseNet /\ ~inCloud /\ UsableIp(c.st.vmIp) /\ Continue(a, w)
    <2>1. Grows /\ obj' = obj /\ cloud' = cloud /\ mem' = w BY <1>1, <1>2, <1>14, Looking
    <2>2. CopyOk(w)' BY <1>1, <1>2, <1>3, <1>5, <2>1, ScopeOk
    <2>3. at' = a BY <1>14 DEF Continue
    <2>4. LoopsOk' BY <1>7, <2>3 DEF LoopsOk, At
    <2>5. ~ReuseNet' BY <1>14, <2>1 DEF ReuseNet
    <2>6. c.st.vmIp \in cloud.ips BY <1>14 DEF UsableIp
    <2>7. CallsOk' BY <1>7, <1>8, <1>13, <1>14, <2>1, <2>3, <2>5, <2>6 DEF CallsOk, At, RtPhases
    <2>. QED BY <1>1, <1>2, <1>7, <1>13, <1>14, <2>2, <2>4, <2>7, BuildLoop
  <1>15. CASE /\ ~ReuseNet /\ ~inCloud
              /\ Call(PublicIpCreated, a, w, [w EXCEPT !.st.vmIp = cloud.next])
    <2>1. PICK j \in Nat : j = cloud.next BY <1>3, CloudFields
    <2>2. PICK x : x = [w EXCEPT !.st.vmIp = j] OBVIOUS
    <2>3. Call(PublicIpCreated, a, w, x) BY <1>15, <2>1, <2>2
    <2>4. Heir(mem, x)
      <3>1. Heir(w, x) BY <1>13, <2>2, UpdateTypes
      <3>. QED BY <1>13, <3>1 DEF Heir
    <2>5. /\ TypeOK' /\ UNCHANGED obj /\ Grows /\ CloudOk' /\ IsFiniteSet(cloud'.ips) /\ IpsOwed'
          /\ PublicIpCreated \in Cloud
          /\ cloud' = PublicIpCreated =>
               cloud'.ips = cloud.ips \cup {cloud.next} /\ cloud'.vms = cloud.vms
      BY <1>1, <1>7, <1>8, <1>13, <1>15, <2>3, <2>4, IpCall
    <2>6. CopyOk(w)' BY <1>1, <1>2, <1>3, <1>5, <2>5, ScopeOk
    <2>7. cloud' = PublicIpCreated /\ at' = a /\ mem' = x =>
            /\ at'.phase \in BuildPhase \cup {"patch"}
            /\ CopyOk(mem)' /\ BehindOk' /\ LoopsOk' /\ CallsOk'
      <3>. HAVE cloud' = PublicIpCreated /\ at' = a /\ mem' = x
      <3>1. j \in cloud'.ips BY <2>1, <2>5
      <3>2. CopyOk(x)' BY <1>13, <2>2, <2>6, <3>1, SetFields
      <3>3. at'.phase = at.phase /\ at'.phase = "bastion" /\ at'.step = "create" BY <1>1, <1>7
      <3>4. Heir(mem, mem') BY <2>4
      <3>5. BehindOk' BY <1>1, <1>2, <2>5, <3>3, <3>4, SamePhase
      <3>6. LoopsOk' BY <3>3 DEF LoopsOk, At
      <3>7. ~ReuseNet' /\ cloud'.vms = {} BY <1>8, <1>15, <2>5 DEF ReuseNet
      <3>8. x.st.vmIp = j BY <1>13, <2>2 DEF OscCluster, Resources
      <3>9. CallsOk' BY <3>1, <3>3, <3>7, <3>8 DEF CallsOk, At, RtPhases
      <3>. QED BY <1>2, <3>2, <3>3, <3>5, <3>6, <3>9
    <2>. QED BY <1>1, <1>2, <1>7, <1>13, <2>3, <2>4, <2>5, <2>6, <2>7, BuildCallIps
  <1>. QED BY <1>6, <1>9, <1>10, <1>11, <1>12, <1>14, <1>15

LEMMA CreateBastionOk == ASSUME ClusterInv, CreateBastion PROVE ClusterInv' /\ Builds
  <1>1. at.phase = "bastion" /\ at.step = "create" BY DEF CreateBastion, At
  <1>2. "bastion" \in BuildPhase BY DEF BuildPhase
  <1>3. /\ TypeOK /\ CloudOk /\ StatusOk(mem) /\ mem \in OscCluster /\ CallsOk
        /\ IsFiniteSet(cloud.ips) /\ IpsOwed
        /\ \A k \in Owned : Before(k, "bastion") => Made(k, mem.spec)
    BY <1>1, <1>2, Building
  <1>4. ~ReuseNet /\ cloud.vms = {} /\ mem.st.vmIp \in cloud.ips BY <1>1, <1>3 DEF CallsOk, At
  <1>5. SecurityGroupId(mem, BastionSG) # 0
    <2>1. CASE ReuseSG
      <3>1. SecurityGroupId(mem, BastionSG) = ReusedId[BastionSG] BY <2>1 DEF SecurityGroupId
      <3>. QED BY <3>1, ReusedIds, NamesAssumption
    <2>2. CASE ~ReuseSG
      <3>1. "securityGroup" \in Owned BY <2>2 DEF Owned
      <3>2. Made("securityGroup", mem.spec) BY <1>3, <3>1, BeforeFacts
      <3>3. HasGroup(BastionSG) BY <3>2, NamesAssumption DEF Made
      <3>4. \E g \in cloud.sgs : g.name = BastionSG BY <3>3 DEF HasGroup
      <3>. QED BY <1>3, <2>2, <3>4, GroupLookup, NamesAssumption
    <2>. QED BY <2>1, <2>2
  <1>6. PICK w : w = WithGroup(mem, BastionSG, SecurityGroupId(mem, BastionSG)) OBVIOUS
  <1>7. PICK i \in Nat, ip \in Nat : i = cloud.next /\ ip = mem.st.vmIp
    BY <1>3, <1>4, CloudFields
  <1>8. PICK x : x = [w EXCEPT !.st.vm = i] OBVIOUS
  <1>. DEFINE after == BastionCreated(ip)
  <1>9. Call(after, Start("patch"), w, x) BY <1>5, <1>6, <1>7, <1>8 DEF CreateBastion
  <1>10. Heir(mem, w) /\ w \in OscCluster
    <2>1. SecurityGroupId(mem, BastionSG) \in Nat BY <1>3, LookupTypes, NamesAssumption
    <2>2. Heir(mem, w) BY <1>3, <1>6, <2>1, WithTypes, NamesAssumption
    <2>. QED BY <2>2 DEF Heir
  <1>11. Heir(mem, x)
    <2>1. Heir(w, x) BY <1>8, <1>10, UpdateTypes
    <2>. QED BY <1>10, <2>1 DEF Heir
  <1>12. after \in Cloud BY <1>3, RequestTypes
  <1>13. after.ips = cloud.ips /\ after.nats = cloud.nats BY <1>3 DEF BastionCreated, TypeOK, Cloud
  <1>. HIDE DEF after
  <1>14. Start("patch") \in Position BY StartType DEF Phase
  <1>15. /\ TypeOK' /\ obj' = obj
         /\ cloud' = after \/ cloud' = cloud
         /\ \/ cloud' = after /\ faults' = faults
            \/ faults' = faults + 1
         /\ (cloud' = after => Grows /\ CloudOk') => Grows /\ CloudOk'
    BY <1>1, <1>2, <1>9, <1>10, <1>11, <1>12, <1>14, CallFacts
  <1>16. cloud' = after => Grows /\ CloudOk' /\ i \in Ids(cloud'.vms)
    BY <1>3, <1>4, <1>7, <1>15, BastionCreatedOk DEF after
  <1>17. Grows /\ CloudOk' BY <1>15, <1>16
  <1>18. cloud' = after => cloud'.vms # {} BY <1>16 DEF Ids
  <1>19. IsFiniteSet(cloud'.ips) /\ IpsOwed'
    <2>1. cloud'.ips = cloud.ips /\ cloud'.nats = cloud.nats BY <1>13, <1>15
    <2>2. ~At("natService", "create") BY <1>1 DEF At
    <2>3. obj'.opt = obj.opt BY <1>15
    <2>4. \/ faults' = faults + 1
          \/ faults' = faults /\ (At("natService", "create") => cloud'.nats # {} \/ At("natService", "create")')
                              /\ (At("bastion", "create") => cloud'.vms # {} \/ At("bastion", "create")')
      BY <1>15, <1>18, <2>2
    <2>. QED BY <1>3, <1>4, <1>15, <2>1, <2>3, <2>4, IpsKept
  <1>20. CopyOk(w)' BY <1>1, <1>2, <1>6, <1>15, <1>17, ScopeOk, NamesAssumption
  <1>21. cloud' = after /\ at' = Start("patch") /\ mem' = x =>
           /\ at'.phase \in BuildPhase \cup {"patch"}
           /\ CopyOk(mem)' /\ BehindOk' /\ LoopsOk' /\ CallsOk'
    <2>. HAVE cloud' = after /\ at' = Start("patch") /\ mem' = x
    <2>1. CopyOk(x)' BY <1>8, <1>10, <1>16, <1>20, SetFields
    <2>2. at'.phase = "patch" BY DEF Start
    <2>3. BehindOk' BY <2>2 DEF BehindOk, BuildPhase
    <2>4. LoopsOk' BY <2>2 DEF LoopsOk, At
    <2>5. CallsOk' BY <2>2 DEF CallsOk, At, RtPhases
    <2>. QED BY <2>1, <2>2, <2>3, <2>4, <2>5
  <1>. QED BY <1>1, <1>2, <1>9, <1>10, <1>11, <1>12, <1>14, <1>17, <1>19, <1>20, <1>21, BuildCallIps

(* The pass has gone through everything. *)
LEMMA SetReadyOk == ASSUME ClusterInv, SetReady PROVE ClusterInv' /\ Builds
  <1>1. at.phase = "ready" /\ at.step = "start" BY DEF SetReady, At
  <1>2. "ready" \in BuildPhase BY DEF BuildPhase
  <1>3. /\ TypeOK /\ mem \in OscCluster /\ mem.spec \in Specs
        /\ \A k \in Owned : Before(k, "ready") => Made(k, mem.spec)
    BY <1>1, <1>2, Building
  <1>4. PICK c \in OscCluster, s \in Specs : c = mem /\ s = mem.spec BY <1>3
  <1>5. PICK w : w = [c EXCEPT !.ready = TRUE] OBVIOUS
  <1>6. EndPass(w) BY <1>4, <1>5 DEF SetReady
  <1>7. Grows /\ obj' = obj /\ \A k \in Reconcilers : Made(k, s) => Made(k, s)'
    BY <1>1, <1>2, <1>6, Looking
  <1>8. \A k \in Owned : k \in Reconcilers /\ Made(k, s) BY <1>3, <1>4, BeforeFacts, OwnedFacts
  <1>9. Owned' = Owned BY <1>7, OwnedFacts
  <1>10. AllMade' BY <1>7, <1>8, <1>9 DEF AllMade
  <1>11. CopyOk(c)' BY <1>1, <1>2, <1>4, <1>7, ScopeOk
  <1>12. /\ w \in OscCluster /\ w.st = c.st /\ w.rec = c.rec /\ w.gen = c.gen /\ w.spec = c.spec
         /\ Heir(mem, w)
    BY <1>4, <1>5 DEF OscCluster, Heir
  <1>13. CopyOk(w)' BY <1>10, <1>11, <1>12 DEF CopyOk, StatusOk, RecordOk
  <1>. QED BY <1>1, <1>2, <1>6, <1>12, <1>13, BuildEnds
--------------------------------------------------------------------------------
(* The steps that change nothing in the cloud. *)
LEMMA CloudStays ==
  ASSUME ClusterInv, TypeOK', cloud' = cloud, obj'.opt = obj.opt, faults' >= faults
  PROVE  /\ NoDuplicates' /\ (ReuseSG' => ReusedKept') /\ IsFiniteSet(cloud'.ips) /\ IpsBounded'
         /\ CloudOk => /\ CloudOk'
                       /\ \A m \in OscCluster : CopyOk(m) => CopyOk(m)'
                       /\ \A s \in Specs, k \in Reconcilers : Made(k, s) => Made(k, s)'
                       /\ AllMade => AllMade'
  <1>1. /\ ReuseNet' = ReuseNet /\ ReuseSG' = ReuseSG
        /\ Internet' = Internet /\ Bastion' = Bastion
    BY DEF ReuseNet, ReuseSG, Internet, Bastion
  <1>2. NoDuplicates' BY DEF ClusterInv, NoDuplicates, TableOf
  <1>3. ReuseSG' => ReusedKept' BY <1>1 DEF ClusterInv, ReusedKept
  <1>4. IsFiniteSet(cloud'.ips) BY DEF ClusterInv
  <1>5. IpsBounded'
    <2>1. Cardinality(cloud.ips) \in Nat BY FS_CardinalityType DEF ClusterInv
    <2>2. faults \in Nat /\ faults' \in Nat BY ScopeAssumption DEF ClusterInv, TypeOK
    <2>3. Cardinality(cloud.ips) <= (IF Internet THEN 1 ELSE 0) + (IF Bastion THEN 1 ELSE 0) + faults
      BY DEF ClusterInv, IpsBounded
    <2>4. PICK x, y \in {0, 1} :
            x = (IF Internet THEN 1 ELSE 0) /\ y = (IF Bastion THEN 1 ELSE 0) OBVIOUS
    <2>5. Cardinality(cloud'.ips) <= x + y + faults' BY <2>1, <2>2, <2>3, <2>4
    <2>. QED BY <1>1, <2>4, <2>5 DEF IpsBounded
  <1>6. Grows BY GrowsSame
  <1>. QED BY <1>2, <1>3, <1>4, <1>5, <1>6, CloudSame, GrowsCopy, GrowsMade, GrowsAll

(* A step that leaves the cloud alone keeps the invariant if the copies of *)
(* the object and the position of the pass are right after it.             *)
LEMMA CloudKept ==
  ASSUME ClusterInv, TypeOK', Passes', ReuseSpared', cloud' = cloud, obj'.opt = obj.opt,
         \/ faults' = faults + 1
         \/ /\ faults' = faults
            /\ At("natService", "create") => At("natService", "create")'
            /\ At("bastion", "create") => At("bastion", "create")',
         Spared' => Spared,
         Spared' => CopiesOk' /\ BehindOk' /\ LoopsOk' /\ CallsOk'
  PROVE  ClusterInv'
  <1>1. faults' >= faults BY ScopeAssumption DEF ClusterInv, TypeOK
  <1>2. /\ NoDuplicates' /\ (ReuseSG' => ReusedKept') /\ IsFiniteSet(cloud'.ips) /\ IpsBounded'
        /\ CloudOk => CloudOk'
    BY <1>1, CloudStays
  <1>3. Spared' => BuildInv' /\ IpsOwed'
    <2>. HAVE Spared'
    <2>1. CloudOk /\ IpsOwed BY DEF ClusterInv, BuildInv
    <2>2. TypeOK /\ IsFiniteSet(cloud.ips) BY DEF ClusterInv
    <2>3. cloud'.ips = cloud.ips /\ cloud'.nats = cloud.nats /\ cloud'.vms = cloud.vms OBVIOUS
    <2>4. IpsOwed' BY <2>1, <2>2, <2>3, IpsKept
    <2>. QED BY <1>2, <2>1, <2>4 DEF BuildInv
  <1>. QED BY <1>2, <1>3 DEF ClusterInv

(* The pass stays where it is. *)
LEMMA PassStays ==
  ASSUME cloud' = cloud, mem' = mem, at' = at, obj'.opt = obj.opt, BehindOk, LoopsOk, CallsOk
  PROVE  BehindOk' /\ LoopsOk' /\ CallsOk'
  <1>1. /\ ReuseNet' = ReuseNet /\ ReuseSG' = ReuseSG /\ Internet' = Internet
        /\ Peering' = Peering /\ Naps' = Naps /\ LB' = LB /\ Bastion' = Bastion
    BY DEF ReuseNet, ReuseSG, Internet, Peering, Naps, LB, Bastion
  <1>2. \A t, r : Serves(t, r)' <=> Serves(t, r) BY DEF Serves
  <1>3. \A r : HasSubnet(r)' <=> HasSubnet(r) BY <1>1 DEF HasSubnet
  <1>4. \A r : HasTable(r)' <=> HasTable(r) BY <1>1, <1>2 DEF HasTable
  <1>5. \A r, i : HasPeerRoute(r, i)' <=> HasPeerRoute(r, i) BY <1>2 DEF HasPeerRoute
  <1>6. \A s : HasGroup(s)' <=> HasGroup(s) BY DEF HasGroup
  <1>7. Linked' = Linked BY DEF Linked
  <1>8. \A p : LeftOut(p)' <=> LeftOut(p) BY <1>1 DEF LeftOut
  <1>9. \A k, p : Before(k, p)' <=> Before(k, p) BY DEF Before, Index
  <1>10. \A s : \A k \in Reconcilers : Made(k, s)' <=> Made(k, s)
    BY <1>1, <1>3, <1>4, <1>5, <1>6, <1>7 DEF Made, Reconcilers
  <1>11. Owned' = Owned /\ Owned \subseteq Reconcilers BY OwnedFacts
  <1>12. BehindOk' BY <1>1, <1>4, <1>8, <1>9, <1>10, <1>11 DEF BehindOk
  <1>13. LoopsOk' BY <1>1, <1>3, <1>4, <1>6 DEF LoopsOk, At
  <1>14. CallsOk' BY <1>1, <1>2, <1>3, <1>7 DEF CallsOk, At
  <1>. QED BY <1>12, <1>13, <1>14

(* The pass is not in a handler that builds. *)
LEMMA NotBuilding ==
  ASSUME at'.phase \notin BuildPhase PROVE BehindOk' /\ LoopsOk' /\ CallsOk'
  <1>1. at'.phase \notin {"net", "subnet", "internetService", "rtNat", "natService", "routeTable",
                          "netPeering", "netPeeringRoutes", "netAccessPoint", "securityGroup",
                          "loadbalancer", "bastion", "ready"}
    BY DEF BuildPhase
  <1>2. BehindOk' BY DEF BehindOk
  <1>3. LoopsOk' BY <1>1 DEF LoopsOk, At
  <1>4. CallsOk' BY <1>1 DEF CallsOk, At, RtPhases
  <1>. QED BY <1>2, <1>3, <1>4

(* The scope of a pass that has not begun. *)
LEMMA NoScopeOk == NoScope \in OscCluster /\ ~NoScope.del /\ CopyOk(NoScope)'
  <1>1. NoScope \in OscCluster BY NoScopeType
  <1>2. PICK n \in OscCluster : n = NoScope BY <1>1
  <1>3. /\ n.del = FALSE /\ n.ready = FALSE /\ n.gen = 1 /\ n.st = NoResources
        /\ n.rec = [r \in Reconcilers |-> 0]
    BY <1>2 DEF NoScope, NewOscCluster
  <1>4. /\ n.st.net = 0 /\ n.st.is = 0 /\ n.st.nat = 0 /\ n.st.natIp = 0 /\ n.st.vm = 0
        /\ n.st.vmIp = 0 /\ n.st.peer = 0 /\ n.st.nap = 0
        /\ \A r \in Ranges : n.st.sn[r] = 0
        /\ \A s \in SGNames : n.st.sg[s] = 0
    BY <1>3 DEF NoResources
  <1>5. StatusOk(n)' BY <1>4 DEF StatusOk
  <1>6. RecordOk(n)' BY <1>3 DEF RecordOk
  <1>7. CopyOk(n)' BY <1>3, <1>5, <1>6 DEF CopyOk
  <1>. QED BY <1>2, <1>3, <1>7
--------------------------------------------------------------------------------
(* How a pass begins and ends. *)
LEMMA NothingBeforeNet == \A k : ~Before(k, "net")
  <1>1. "net" \in BuildPhase BY DEF BuildPhase
  <1>2. BuildOrder[1] = "net" BY DEF BuildOrder
  <1>3. 1 \in 1 .. 13 OBVIOUS
  <1>4. Index("net") = 1 BY <1>2, <1>3, IndexFacts
  <1>5. \A k \in BuildPhase : Index(k) \in 1 .. 13 BY IndexFacts
  <1>. QED BY <1>4, <1>5 DEF Before

LEMMA SameCopy ==
  ASSUME NEW m \in OscCluster, NEW n, n.st = m.st, n.rec = m.rec, n.ready = m.ready,
         n.gen = m.gen, n.spec = m.spec, CopyOk(m)'
  PROVE  CopyOk(n)'
  <1>1. StatusOk(n)' BY DEF CopyOk, StatusOk
  <1>2. RecordOk(n)' BY DEF CopyOk, RecordOk
  <1>. QED BY <1>1, <1>2 DEF CopyOk

(* A pass starts from the informer's copy, and has nothing behind it. *)
LEMMA ReconcileOk == ASSUME ClusterInv, Reconcile PROVE ClusterInv'
  <1>1. /\ at.phase = "idle" /\ old' = cache
        /\ \/ cache.del /\ at' = Start("dMachines") /\ mem' = cache
           \/ ~cache.del /\ at' = Start("net") /\ mem' = [cache EXCEPT !.fin = "set"]
        /\ UNCHANGED <<cloud, obj, cache, machines, faults, edits>>
    BY DEF Reconcile
  <1>2. TypeOK /\ Passes /\ ReuseSpared /\ cache \in OscCluster BY DEF ClusterInv, TypeOK
  <1>3. /\ mem' \in OscCluster /\ mem'.del = cache.del /\ mem'.st = cache.st /\ mem'.rec = cache.rec
        /\ mem'.ready = cache.ready /\ mem'.gen = cache.gen /\ mem'.spec = cache.spec
    BY <1>1, <1>2 DEF OscCluster
  <1>4. /\ at' \in Position /\ at'.step = "start"
        /\ at'.phase = IF cache.del THEN "dMachines" ELSE "net"
    <2>1. Start("dMachines") \in Position /\ Start("net") \in Position BY StartType DEF Phase
    <2>. QED BY <1>1, <2>1 DEF Start
  <1>5. TypeOK' BY <1>1, <1>2, <1>3, <1>4 DEF TypeOK
  <1>6. Passes' BY <1>1, <1>2, <1>3, <1>4 DEF Passes, BuildPhase, DeletePhase
  <1>7. ReuseSpared' BY <1>4 DEF ReuseSpared, At
  <1>8. Spared' => Spared BY <1>1, <1>3 DEF Spared
  <1>9. obj'.opt = obj.opt /\ faults' >= faults
    BY <1>1, <1>2, ScopeAssumption DEF TypeOK
  <1>10. Spared' => CopiesOk' /\ BehindOk' /\ LoopsOk' /\ CallsOk'
    <2>. HAVE Spared'
    <2>1. CloudOk /\ CopiesOk BY <1>8 DEF ClusterInv, BuildInv
    <2>2. \A m \in OscCluster : CopyOk(m) => CopyOk(m)' BY <1>1, <1>5, <1>9, <2>1, CloudStays
    <2>3. PICK o \in OscCluster, c \in OscCluster : o = obj /\ c = cache BY <1>2 DEF TypeOK
    <2>4. CopyOk(o)' /\ CopyOk(c)' BY <2>1, <2>2, <2>3 DEF CopiesOk
    <2>5. PICK n : n = mem' OBVIOUS
    <2>6. CopyOk(n)' BY <1>3, <2>3, <2>4, <2>5, SameCopy
    <2>7. CopyOk(obj)' /\ CopyOk(cache)' /\ CopyOk(old)' /\ CopyOk(mem)'
      BY <1>1, <2>3, <2>4, <2>5, <2>6
    <2>8. NotAhead(cache)' /\ NotAhead(mem)' BY <1>1, <1>3, <2>1 DEF CopiesOk, NotAhead
    <2>9. machines' => AllMade' BY <1>1, <1>5, <1>9, <2>1, CloudStays DEF CopiesOk
    <2>10. ~LeftOut("net")' BY DEF LeftOut
    <2>11. \A k : ~Before(k, "net")' BY NothingBeforeNet DEF Before, Index
    <2>12. BehindOk' BY <1>4, <2>10, <2>11 DEF BehindOk, BuildPhase
    <2>13. LoopsOk' BY <1>4 DEF LoopsOk, At
    <2>14. CallsOk' BY <1>4 DEF CallsOk, At
    <2>. QED BY <2>7, <2>8, <2>9, <2>12, <2>13, <2>14 DEF CopiesOk
  <1>11. ~At("natService", "create") /\ ~At("bastion", "create") BY <1>1 DEF At
  <1>. QED BY <1>1, <1>5, <1>6, <1>7, <1>8, <1>9, <1>10, <1>11, CloudKept

LEMMA LookupFailsOk == ASSUME ClusterInv, LookupFails PROVE ClusterInv'
  <1>1. /\ at.phase \notin {"idle", "patch", "status"} /\ faults < MaxFaults /\ faults' = faults + 1
        /\ at' = Start("patch")
        /\ UNCHANGED <<cloud, obj, cache, old, mem, machines, edits>>
    BY DEF LookupFails
  <1>2. TypeOK /\ Passes BY DEF ClusterInv
  <1>3. at'.phase = "patch" BY <1>1 DEF Start
  <1>4. TypeOK' BY <1>1, <1>2, PatchType, ScopeAssumption DEF TypeOK
  <1>5. Passes' BY <1>1, <1>2, <1>3 DEF Passes, BuildPhase, DeletePhase
  <1>6. ReuseSpared' BY <1>3 DEF ReuseSpared, At
  <1>7. Spared' => Spared BY <1>1 DEF Spared
  <1>8. obj'.opt = obj.opt /\ faults' >= faults BY <1>1, <1>2, ScopeAssumption DEF TypeOK
  <1>9. Spared' => CopiesOk'
    <2>. HAVE Spared'
    <2>1. CloudOk /\ CopiesOk BY <1>7 DEF ClusterInv, BuildInv
    <2>2. \A m \in OscCluster : CopyOk(m) => CopyOk(m)' BY <1>1, <1>4, <1>8, <2>1, CloudStays
    <2>3. PICK o \in OscCluster, c \in OscCluster, d \in OscCluster, n \in OscCluster :
            o = obj /\ c = cache /\ d = old /\ n = mem
      BY <1>2 DEF TypeOK
    <2>4. CopyOk(o)' /\ CopyOk(c)' /\ CopyOk(d)' /\ CopyOk(n)' BY <2>1, <2>2, <2>3 DEF CopiesOk
    <2>5. CopyOk(obj)' /\ CopyOk(cache)' /\ CopyOk(old)' /\ CopyOk(mem)' BY <1>1, <2>3, <2>4
    <2>6. NotAhead(cache)' /\ NotAhead(mem)' BY <1>1, <2>1 DEF CopiesOk, NotAhead
    <2>7. machines' => AllMade' BY <1>1, <1>4, <1>8, <2>1, CloudStays DEF CopiesOk
    <2>. QED BY <2>5, <2>6, <2>7 DEF CopiesOk
  <1>10. BehindOk' /\ LoopsOk' /\ CallsOk' BY <1>3, NotBuilding DEF BuildPhase
  <1>. QED BY <1>1, <1>4, <1>5, <1>6, <1>7, <1>8, <1>9, <1>10, CloudKept

(* The process dies: what it has built can be found from any other copy. *)
LEMMA CrashOk == ASSUME ClusterInv, Crash PROVE ClusterInv'
  <1>1. /\ at.phase # "idle" /\ faults < MaxFaults /\ faults' = faults + 1 /\ at' = Start("idle")
        /\ old' = NoScope /\ mem' = NoScope
        /\ UNCHANGED <<cloud, obj, cache, machines, edits>>
    BY DEF Crash
  <1>2. TypeOK /\ Passes BY DEF ClusterInv
  <1>3. at'.phase = "idle" /\ at' \in Position BY <1>1, StartType DEF Start, Phase
  <1>4. TypeOK' BY <1>1, <1>2, <1>3, NoScopeOk, ScopeAssumption DEF TypeOK
  <1>5. Passes' BY <1>1, <1>2, <1>3, NoScopeOk DEF Passes, BuildPhase, DeletePhase
  <1>6. ReuseSpared' BY <1>3 DEF ReuseSpared, At
  <1>7. Spared' => Spared BY <1>1, <1>3 DEF Spared
  <1>8. obj'.opt = obj.opt /\ faults' >= faults BY <1>1, <1>2, ScopeAssumption DEF TypeOK
  <1>9. Spared' => CopiesOk'
    <2>. HAVE Spared'
    <2>1. CloudOk /\ CopiesOk BY <1>7 DEF ClusterInv, BuildInv
    <2>2. \A m \in OscCluster : CopyOk(m) => CopyOk(m)' BY <1>1, <1>4, <1>8, <2>1, CloudStays
    <2>3. PICK o \in OscCluster, c \in OscCluster : o = obj /\ c = cache BY <1>2 DEF TypeOK
    <2>4. CopyOk(o)' /\ CopyOk(c)' BY <2>1, <2>2, <2>3 DEF CopiesOk
    <2>5. PICK n : n = NoScope OBVIOUS
    <2>6. CopyOk(n)' BY <2>5, NoScopeOk
    <2>7. CopyOk(obj)' /\ CopyOk(cache)' /\ CopyOk(old)' /\ CopyOk(mem)' BY <1>1, <2>3, <2>4, <2>5, <2>6
    <2>8. NotAhead(cache)' BY <1>1, <2>1 DEF CopiesOk, NotAhead
    <2>9. machines' => AllMade' BY <1>1, <1>4, <1>8, <2>1, CloudStays DEF CopiesOk
    <2>. QED BY <1>3, <2>7, <2>8, <2>9 DEF CopiesOk
  <1>10. BehindOk' /\ LoopsOk' /\ CallsOk' BY <1>3, NotBuilding DEF BuildPhase
  <1>. QED BY <1>1, <1>4, <1>5, <1>6, <1>7, <1>8, <1>9, <1>10, CloudKept
--------------------------------------------------------------------------------
(* The object changes in the API server, or the informer's copy of it.  A  *)
(* version with a new generation has recorded nothing.                     *)
LEMMA NewerObject ==
  ASSUME ClusterInv, TypeOK', cloud' = cloud, obj'.opt = obj.opt, faults' >= faults, CloudOk, CopyOk(obj),
         obj'.st = obj.st, obj'.rec = obj.rec, obj'.ready = obj.ready,
         \/ obj'.gen = obj.gen + 1
         \/ obj'.gen = obj.gen /\ obj'.spec = obj.spec
  PROVE  /\ CopyOk(obj)'
         /\ \A m \in OscCluster : NotAhead(m) => NotAhead(m)'
  <1>1. obj \in OscCluster /\ obj' \in OscCluster BY DEF ClusterInv, TypeOK
  <1>2. PICK o \in OscCluster, n \in OscCluster : o = obj /\ n = obj' BY <1>1
  <1>3. CopyOk(o)' BY <1>2, CloudStays
  <1>4. StatusOk(n)' BY <1>2, <1>3 DEF CopyOk, StatusOk
  <1>5. RecordOk(n)'
    <2>1. o.gen \in Nat /\ \A k \in Reconcilers : o.rec[k] \in Nat /\ n.rec[k] = o.rec[k]
      BY <1>2 DEF OscCluster
    <2>2. o.gen > 0 /\ \A k \in Reconcilers : o.rec[k] <= o.gen BY <1>3 DEF CopyOk, RecordOk
    <2>3. CASE n.gen = o.gen + 1 BY <2>1, <2>2, <2>3 DEF RecordOk
    <2>4. CASE n.gen = o.gen /\ n.spec = o.spec BY <1>3, <2>1, <2>4 DEF CopyOk, RecordOk
    <2>. QED BY <1>2, <2>3, <2>4
  <1>6. CopyOk(n)' BY <1>2, <1>3, <1>4, <1>5 DEF CopyOk
  <1>7. \A m \in OscCluster : NotAhead(m) => NotAhead(m)'
    <2>1. \A m \in OscCluster : m.gen \in Nat BY DEF OscCluster
    <2>2. obj.gen \in Nat BY <1>1, <2>1
    <2>. QED BY <2>1, <2>2 DEF NotAhead
  <1>. QED BY <1>2, <1>6, <1>7

(* A step of the world around the pass. *)
LEMMA WorldStep ==
  ASSUME ClusterInv, TypeOK', UNCHANGED <<cloud, old, mem, at>>, obj'.opt = obj.opt, faults' = faults,
         cache.del => cache'.del, cache'.del => obj'.del,
         machines' /\ ~machines => ~obj.del,
         Spared' => Spared,
         Spared' => /\ CopyOk(obj)' /\ CopyOk(cache)' /\ NotAhead(cache)'
                    /\ at.phase # "idle" => NotAhead(mem)'
                    /\ machines' => AllMade'
  PROVE  ClusterInv'
  <1>1. TypeOK /\ Passes /\ ReuseSpared BY DEF ClusterInv
  <1>2. Passes' BY <1>1 DEF Passes, BuildPhase, DeletePhase
  <1>3. ReuseSpared' BY <1>1 DEF ReuseSpared, At, ReuseNet, ReuseSG
  <1>4. faults' >= faults BY <1>1, ScopeAssumption DEF TypeOK
  <1>5. Spared' => CopiesOk' /\ BehindOk' /\ LoopsOk' /\ CallsOk'
    <2>. HAVE Spared'
    <2>1. CloudOk /\ CopiesOk /\ BehindOk /\ LoopsOk /\ CallsOk BY DEF ClusterInv, BuildInv
    <2>2. \A m \in OscCluster : CopyOk(m) => CopyOk(m)' BY <1>4, <2>1, CloudStays
    <2>3. PICK d \in OscCluster, n \in OscCluster : d = old /\ n = mem BY <1>1 DEF TypeOK
    <2>4. CopyOk(d)' /\ CopyOk(n)' BY <2>1, <2>2, <2>3 DEF CopiesOk
    <2>5. CopyOk(old)' /\ CopyOk(mem)' BY <2>3, <2>4
    <2>6. at'.phase # "idle" => NotAhead(mem)' BY <1>1
    <2>7. CopiesOk' BY <2>5, <2>6 DEF CopiesOk
    <2>8. BehindOk' /\ LoopsOk' /\ CallsOk' BY <2>1, PassStays
    <2>. QED BY <2>7, <2>8
  <1>6. (At("natService", "create") => At("natService", "create")')
        /\ (At("bastion", "create") => At("bastion", "create")') BY DEF At
  <1>. QED BY <1>2, <1>3, <1>5, <1>6, CloudKept

LEMMA SyncOk == ASSUME ClusterInv, Sync PROVE ClusterInv'
  <1>1. cache' = obj /\ UNCHANGED <<cloud, obj, machines, faults, edits>> /\ UNCHANGED <<old, mem, at>>
    BY DEF Sync, PassUnchanged
  <1>2. TypeOK /\ Passes /\ obj \in OscCluster BY DEF ClusterInv, TypeOK
  <1>3. TypeOK' BY <1>1, <1>2 DEF TypeOK
  <1>4. (cache.del => cache'.del) /\ (cache'.del => obj'.del) BY <1>1, <1>2 DEF Passes
  <1>5. Spared' => Spared BY <1>1, <1>4 DEF Spared
  <1>6. obj'.opt = obj.opt /\ faults' >= faults BY <1>1, <1>2, ScopeAssumption DEF TypeOK
  <1>7. Spared' => /\ CopyOk(obj)' /\ CopyOk(cache)' /\ NotAhead(cache)'
                   /\ at.phase # "idle" => NotAhead(mem)'
                   /\ machines' => AllMade'
    <2>. HAVE Spared'
    <2>1. CloudOk /\ CopiesOk BY <1>5 DEF ClusterInv, BuildInv
    <2>2. PICK o \in OscCluster : o = obj BY <1>2
    <2>3. CopyOk(o)' BY <1>1, <1>3, <1>6, <2>1, <2>2, CloudStays DEF CopiesOk
    <2>4. CopyOk(obj)' /\ CopyOk(cache)' BY <1>1, <2>2, <2>3
    <2>5. obj.gen \in Nat BY <1>2 DEF OscCluster
    <2>6. NotAhead(cache)' BY <1>1, <2>5 DEF NotAhead
    <2>7. at.phase # "idle" => NotAhead(mem)' BY <1>1, <2>1 DEF CopiesOk, NotAhead
    <2>8. machines' => AllMade' BY <1>1, <1>3, <1>6, <2>1, CloudStays DEF CopiesOk
    <2>. QED BY <2>4, <2>6, <2>7, <2>8
  <1>. QED BY <1>1, <1>3, <1>4, <1>5, <1>6, <1>7, WorldStep

LEMMA ObjectChangesOk ==
  ASSUME ClusterInv, TypeOK', UNCHANGED <<cloud, cache, old, mem, at, machines, faults>>,
         obj'.opt = obj.opt, obj.del => obj'.del,
         obj'.st = obj.st, obj'.rec = obj.rec, obj'.ready = obj.ready, obj'.gen = obj.gen + 1
  PROVE  ClusterInv'
  <1>1. TypeOK /\ Passes /\ cache \in OscCluster /\ mem \in OscCluster /\ obj \in OscCluster
    BY DEF ClusterInv, TypeOK
  <1>2. (cache.del => cache'.del) /\ (cache'.del => obj'.del) BY <1>1 DEF Passes
  <1>3. Spared' => Spared BY DEF Spared
  <1>4. faults' >= faults BY <1>1, ScopeAssumption DEF TypeOK
  <1>5. Spared' => /\ CopyOk(obj)' /\ CopyOk(cache)' /\ NotAhead(cache)'
                   /\ at.phase # "idle" => NotAhead(mem)'
                   /\ machines' => AllMade'
    <2>. HAVE Spared'
    <2>1. CloudOk /\ CopiesOk /\ CopyOk(obj) BY <1>3 DEF ClusterInv, BuildInv, CopiesOk
    <2>2. CopyOk(obj)' /\ \A m \in OscCluster : NotAhead(m) => NotAhead(m)'
      BY <1>4, <2>1, NewerObject
    <2>3. PICK c \in OscCluster, n \in OscCluster : c = cache /\ n = mem BY <1>1
    <2>4. CopyOk(c)' BY <1>4, <2>1, <2>3, CloudStays DEF CopiesOk
    <2>5. NotAhead(c)' /\ (at.phase # "idle" => NotAhead(n)') BY <2>1, <2>2, <2>3 DEF CopiesOk
    <2>6. machines' => AllMade' BY <1>4, <2>1, CloudStays DEF CopiesOk
    <2>. QED BY <2>2, <2>3, <2>4, <2>5, <2>6
  <1>. QED BY <1>2, <1>3, <1>5, WorldStep

LEMMA EditOk == ASSUME ClusterInv, Edit PROVE ClusterInv'
  <1>1. /\ edits < MaxEdits /\ edits' = edits + 1
        /\ UNCHANGED <<cloud, cache, old, mem, at, machines, faults>>
    BY DEF Edit, PassUnchanged
  <1>. DEFINE g == obj.gen + 1
  <1>2. PICK s \in Specs \ {obj.spec} : obj' = [obj EXCEPT !.spec = s, !.gen = g] BY Zenon DEF Edit
  <1>3. TypeOK /\ obj \in OscCluster BY DEF ClusterInv, TypeOK
  <1>6. g \in Nat BY <1>3 DEF OscCluster
  <1>. HIDE DEF g
  <1>4. /\ obj' \in OscCluster /\ obj'.opt = obj.opt /\ obj'.del = obj.del /\ obj'.st = obj.st
        /\ obj'.rec = obj.rec /\ obj'.ready = obj.ready /\ obj'.gen = g
    BY <1>2, <1>3, <1>6 DEF OscCluster
  <1>5. TypeOK' BY <1>1, <1>3, <1>4, ScopeAssumption DEF TypeOK
  <1>. QED BY <1>1, <1>4, <1>5, ObjectChangesOk DEF g

LEMMA DeleteOk == ASSUME ClusterInv, Delete PROVE ClusterInv'
  <1>1. /\ obj' = [obj EXCEPT !.del = TRUE, !.gen = @ + 1, !.exists = (obj.fin = "set")]
        /\ UNCHANGED <<cloud, cache, old, mem, at, machines, faults, edits>>
    BY DEF Delete, PassUnchanged
  <1>2. TypeOK /\ obj \in OscCluster BY DEF ClusterInv, TypeOK
  <1>3. /\ obj'.opt = obj.opt /\ obj'.del = TRUE /\ obj'.st = obj.st
        /\ obj'.rec = obj.rec /\ obj'.ready = obj.ready /\ obj'.gen = obj.gen + 1
    BY <1>1, <1>2 DEF OscCluster
  <1>4. obj' \in OscCluster
    <2>. DEFINE b == (obj.fin = "set")
                g == obj.gen + 1
    <2>1. b \in BOOLEAN /\ g \in Nat BY <1>2 DEF OscCluster
    <2>2. obj' = [obj EXCEPT !.del = TRUE, !.gen = g, !.exists = b] BY <1>1
    <2>. HIDE DEF b, g
    <2>. QED BY <1>2, <2>1, <2>2 DEF OscCluster
  <1>5. TypeOK' BY <1>1, <1>2, <1>4 DEF TypeOK
  <1>. QED BY <1>1, <1>3, <1>5, ObjectChangesOk

LEMMA MachinesAppearOk == ASSUME ClusterInv, MachinesAppear PROVE ClusterInv'
  <1>1. /\ obj.ready /\ ~obj.del /\ machines' = TRUE
        /\ UNCHANGED <<cloud, obj, cache, old, mem, at, faults, edits>>
    BY DEF MachinesAppear, PassUnchanged
  <1>2. TypeOK /\ Passes /\ obj \in OscCluster /\ cache \in OscCluster BY DEF ClusterInv, TypeOK
  <1>3. TypeOK' BY <1>1, <1>2 DEF TypeOK
  <1>4. Spared BY <1>1, <1>2 DEF Spared, Passes
  <1>5. obj'.opt = obj.opt /\ faults' >= faults BY <1>1, <1>2, ScopeAssumption DEF TypeOK
  <1>6. CloudOk /\ CopiesOk BY <1>4 DEF ClusterInv, BuildInv
  <1>7. CopyOk(obj)' /\ CopyOk(cache)'
    <2>1. PICK o \in OscCluster, c \in OscCluster : o = obj /\ c = cache BY <1>2
    <2>2. CopyOk(o)' /\ CopyOk(c)' BY <1>1, <1>3, <1>5, <1>6, <2>1, CloudStays DEF CopiesOk
    <2>. QED BY <1>1, <2>1, <2>2
  <1>8. NotAhead(cache)' /\ (at.phase # "idle" => NotAhead(mem)') BY <1>1, <1>6 DEF CopiesOk, NotAhead
  <1>9. AllMade' BY <1>1, <1>7 DEF CopyOk
  <1>10. (cache.del => cache'.del) /\ (cache'.del => obj'.del) BY <1>1, <1>2 DEF Passes
  <1>. QED BY <1>1, <1>3, <1>4, <1>5, <1>7, <1>8, <1>9, <1>10, WorldStep

LEMMA MachinesVanishOk == ASSUME ClusterInv, MachinesVanish PROVE ClusterInv'
  <1>1. /\ machines /\ machines' = FALSE
        /\ UNCHANGED <<cloud, obj, cache, old, mem, at, faults, edits>>
    BY DEF MachinesVanish, PassUnchanged
  <1>2. TypeOK /\ Passes /\ obj \in OscCluster /\ cache \in OscCluster BY DEF ClusterInv, TypeOK
  <1>3. TypeOK' BY <1>1, <1>2 DEF TypeOK
  <1>4. Spared BY <1>1 DEF Spared
  <1>5. obj'.opt = obj.opt /\ faults' >= faults BY <1>1, <1>2, ScopeAssumption DEF TypeOK
  <1>6. CloudOk /\ CopiesOk BY <1>4 DEF ClusterInv, BuildInv
  <1>7. CopyOk(obj)' /\ CopyOk(cache)'
    <2>1. PICK o \in OscCluster, c \in OscCluster : o = obj /\ c = cache BY <1>2
    <2>2. CopyOk(o)' /\ CopyOk(c)' BY <1>1, <1>3, <1>5, <1>6, <2>1, CloudStays DEF CopiesOk
    <2>. QED BY <1>1, <2>1, <2>2
  <1>8. NotAhead(cache)' /\ (at.phase # "idle" => NotAhead(mem)') BY <1>1, <1>6 DEF CopiesOk, NotAhead
  <1>9. (cache.del => cache'.del) /\ (cache'.del => obj'.del) BY <1>1, <1>2 DEF Passes
  <1>. QED BY <1>1, <1>3, <1>4, <1>5, <1>7, <1>8, <1>9, WorldStep
--------------------------------------------------------------------------------
(* Close. *)
LEMMA CloseObjectOk == ASSUME ClusterInv, CloseObject PROVE ClusterInv'
  <1>1. /\ at.phase = "patch" /\ at' = Start("status") /\ Patch(PatchedObject)
        /\ UNCHANGED <<cloud, cache, old, mem, machines, edits>>
    BY DEF CloseObject, Patch
  <1>2. TypeOK /\ Passes /\ obj \in OscCluster /\ cache \in OscCluster /\ mem \in OscCluster /\ old \in OscCluster
    BY DEF ClusterInv, TypeOK
  <1>3. \/ faults' = faults + 1 /\ faults < MaxFaults /\ obj' = obj
        \/ faults' = faults /\ (obj' = PatchedObject \/ obj' = obj)
    BY <1>1 DEF Patch
  <1>4. obj' = PatchedObject =>
          /\ obj' \in OscCluster /\ obj'.opt = obj.opt /\ obj'.del = obj.del /\ obj'.st = obj.st
          /\ obj'.rec = obj.rec /\ obj'.ready = obj.ready /\ obj'.spec = obj.spec
          /\ obj'.gen = obj.gen + 1 \/ obj'.gen = obj.gen
    <2>. HAVE obj' = PatchedObject
    <2>. DEFINE f == Merge(old.fin, mem.fin, obj.fin)
                e == Merge(old.ep, mem.ep, obj.ep)
                g == IF e = obj.ep THEN obj.gen ELSE obj.gen + 1
                b == ~(obj.del /\ f = "removed")
    <2>1. obj' = [obj EXCEPT !.fin = f, !.ep = e, !.gen = g, !.exists = b] BY <1>2 DEF PatchedObject, OscCluster
    <2>2. f \in {"none", "set", "removed"} /\ e \in BOOLEAN BY <1>2 DEF Merge, OscCluster
    <2>3. b \in BOOLEAN OBVIOUS
    <2>4. g \in Nat /\ (g = obj.gen + 1 \/ g = obj.gen) BY <1>2 DEF OscCluster
    <2>. HIDE DEF f, e, g, b
    <2>. QED BY <1>2, <2>1, <2>2, <2>3, <2>4 DEF OscCluster
  <1>5. at'.phase = "status" /\ at' \in Position BY <1>1, StartType DEF Start, Phase
  <1>6. TypeOK' BY <1>1, <1>2, <1>3, <1>4, <1>5, ScopeAssumption DEF TypeOK
  <1>7. Passes' BY <1>1, <1>2, <1>3, <1>4, <1>5 DEF Passes, BuildPhase, DeletePhase
  <1>8. ReuseSpared' BY <1>5 DEF ReuseSpared, At
  <1>9. Spared' => Spared BY <1>1 DEF Spared
  <1>10. obj'.opt = obj.opt /\ faults' >= faults BY <1>2, <1>3, <1>4, ScopeAssumption DEF TypeOK
  <1>11. Spared' => CopiesOk'
    <2>. HAVE Spared'
    <2>1. CloudOk /\ CopiesOk /\ CopyOk(obj) BY <1>9 DEF ClusterInv, BuildInv, CopiesOk
    <2>2. CopyOk(obj)' /\ \A m \in OscCluster : NotAhead(m) => NotAhead(m)'
      <3>1. /\ obj'.st = obj.st /\ obj'.rec = obj.rec /\ obj'.ready = obj.ready
            /\ obj'.gen = obj.gen + 1 \/ (obj'.gen = obj.gen /\ obj'.spec = obj.spec)
        BY <1>3, <1>4
      <3>. QED BY <1>1, <1>6, <1>10, <2>1, <3>1, NewerObject
    <2>3. PICK c \in OscCluster, d \in OscCluster, n \in OscCluster : c = cache /\ d = old /\ n = mem BY <1>2
    <2>4. CopyOk(c)' /\ CopyOk(d)' /\ CopyOk(n)' BY <1>1, <1>6, <1>10, <2>1, <2>3, CloudStays DEF CopiesOk
    <2>5. NotAhead(c)' /\ NotAhead(n)' BY <1>1, <2>1, <2>2, <2>3 DEF CopiesOk
    <2>6. machines' => AllMade' BY <1>1, <1>6, <1>10, <2>1, CloudStays DEF CopiesOk
    <2>7. CopyOk(cache)' /\ CopyOk(old)' /\ CopyOk(mem)' /\ NotAhead(cache)' /\ NotAhead(mem)'
      BY <1>1, <2>3, <2>4, <2>5
    <2>. QED BY <2>2, <2>6, <2>7 DEF CopiesOk
  <1>12. BehindOk' /\ LoopsOk' /\ CallsOk' BY <1>5, NotBuilding DEF BuildPhase
  <1>13. ~At("natService", "create") /\ ~At("bastion", "create") BY <1>1 DEF At
  <1>. QED BY <1>1, <1>3, <1>6, <1>7, <1>8, <1>9, <1>10, <1>11, <1>12, <1>13, CloudKept

(* A status in which each field is that of the one copy or the other is    *)
(* true of the cloud if theirs are.                                        *)
LEMMA MergedStatus ==
  ASSUME NEW m \in OscCluster, NEW n \in OscCluster, NEW b \in OscCluster, NEW p,
         p.st = MergeResources(b.st, m.st, n.st), StatusOk(m)', StatusOk(n)'
  PROVE  StatusOk(p)'
  <1>2. PICK s, t, u : s = p.st /\ t = m.st /\ u = n.st OBVIOUS
  <1>3. /\ s.net = t.net \/ s.net = u.net
        /\ s.is = t.is \/ s.is = u.is
        /\ s.nat = t.nat \/ s.nat = u.nat
        /\ s.natIp = t.natIp \/ s.natIp = u.natIp
        /\ s.vm = t.vm \/ s.vm = u.vm
        /\ s.vmIp = t.vmIp \/ s.vmIp = u.vmIp
        /\ s.peer = t.peer \/ s.peer = u.peer
        /\ s.nap = t.nap \/ s.nap = u.nap
    BY <1>2 DEF MergeResources, Merge
  <1>4. /\ \A r \in Ranges : s.sn[r] = t.sn[r] \/ s.sn[r] = u.sn[r]
        /\ \A g \in SGNames : s.sg[g] = t.sg[g] \/ s.sg[g] = u.sg[g]
    BY <1>2 DEF MergeResources, Merge
  <1>6. StatusOk(p)'
    <2>1. /\ s.net # 0 => s.net \in Ids(Tagged(cloud'.nets))
          /\ s.is # 0 => s.is \in Ids(Linked')
          /\ s.nat # 0 => s.nat \in Ids(cloud'.nats)
          /\ s.natIp # 0 => s.natIp \in cloud'.ips
          /\ s.vm # 0 => s.vm \in Ids(cloud'.vms)
          /\ s.vmIp # 0 => s.vmIp \in cloud'.ips
          /\ s.peer # 0 => s.peer \in Ids(Tagged(cloud'.peerings))
          /\ s.nap # 0 => s.nap \in Ids(cloud'.naps)
      BY <1>2, <1>3 DEF StatusOk
    <2>2. \A r \in Ranges : s.sn[r] # 0 => \E x \in cloud'.subnets : x.id = s.sn[r] /\ x.range = r
      BY <1>2, <1>4 DEF StatusOk
    <2>3. \A r \in SGNames : s.sg[r] # 0 => \E g \in cloud'.sgs : g.id = s.sg[r] /\ g.name = r
      BY <1>2, <1>4 DEF StatusOk
    <2>. QED BY <1>2, <2>1, <2>2, <2>3 DEF StatusOk
  <1>. QED BY <1>6

LEMMA CloseStatusOk == ASSUME ClusterInv, CloseStatus PROVE ClusterInv'
  <1>1. /\ at.phase = "status" /\ at' = Start("idle") /\ old' = NoScope /\ mem' = NoScope
        /\ UNCHANGED <<cloud, cache, machines, edits>>
    BY DEF CloseStatus, Patch
  <1>2. TypeOK /\ Passes /\ obj \in OscCluster /\ cache \in OscCluster /\ mem \in OscCluster /\ old \in OscCluster
    BY DEF ClusterInv, TypeOK
  <1>3. \/ faults' = faults + 1 /\ faults < MaxFaults /\ obj' = obj
        \/ faults' = faults /\ (obj' = PatchedStatus \/ obj' = obj)
    BY DEF CloseStatus, Patch
  <1>. DEFINE S == MergeResources(old.st, mem.st, obj.st)
              R == [k \in Reconcilers |-> Merge(old.rec[k], mem.rec[k], obj.rec[k])]
              d == Merge(old.ready, mem.ready, obj.ready)
  <1>4. S \in Resources
    <2>1. mem.st \in Resources /\ obj.st \in Resources BY <1>2 DEF OscCluster
    <2>2. /\ \A r \in Ranges : Merge(old.st.sn[r], mem.st.sn[r], obj.st.sn[r]) \in Id
          /\ \A g \in SGNames : Merge(old.st.sg[g], mem.st.sg[g], obj.st.sg[g]) \in Id
      BY <2>1 DEF Merge, Resources
    <2>3. /\ Merge(old.st.net, mem.st.net, obj.st.net) \in Id /\ Merge(old.st.is, mem.st.is, obj.st.is) \in Id
          /\ Merge(old.st.nat, mem.st.nat, obj.st.nat) \in Id
          /\ Merge(old.st.natIp, mem.st.natIp, obj.st.natIp) \in Id
          /\ Merge(old.st.vm, mem.st.vm, obj.st.vm) \in Id
          /\ Merge(old.st.vmIp, mem.st.vmIp, obj.st.vmIp) \in Id
          /\ Merge(old.st.peer, mem.st.peer, obj.st.peer) \in Id
          /\ Merge(old.st.nap, mem.st.nap, obj.st.nap) \in Id
      BY <2>1 DEF Merge, Resources
    <2>. QED BY <2>2, <2>3 DEF MergeResources, Resources
  <1>5. R \in [Reconcilers -> Nat] /\ \A k \in Reconcilers : R[k] = mem.rec[k] \/ R[k] = obj.rec[k]
    BY <1>2 DEF Merge, OscCluster
  <1>6. d \in BOOLEAN /\ (d => mem.ready \/ obj.ready) BY <1>2 DEF Merge, OscCluster
  <1>7. PatchedStatus = [obj EXCEPT !.st = S, !.rec = R, !.ready = d] BY DEF PatchedStatus
  <1>. HIDE DEF R, d
  <1>8. obj' = PatchedStatus =>
          /\ obj' \in OscCluster /\ obj'.opt = obj.opt /\ obj'.del = obj.del /\ obj'.st = S
          /\ obj'.rec = R /\ obj'.ready = d /\ obj'.spec = obj.spec /\ obj'.gen = obj.gen
    <2>. HIDE DEF S
    <2>. QED BY <1>2, <1>4, <1>5, <1>6, <1>7 DEF OscCluster
  <1>9. at'.phase = "idle" /\ at' \in Position BY <1>1, StartType DEF Start, Phase
  <1>10. obj' \in OscCluster /\ obj'.opt = obj.opt /\ obj'.del = obj.del /\ obj'.spec = obj.spec /\ obj'.gen = obj.gen
    BY <1>2, <1>3, <1>8
  <1>11. TypeOK' BY <1>1, <1>2, <1>3, <1>9, <1>10, NoScopeOk, ScopeAssumption DEF TypeOK
  <1>12. Passes' BY <1>1, <1>2, <1>9, <1>10, NoScopeOk DEF Passes, BuildPhase, DeletePhase
  <1>13. ReuseSpared' BY <1>9 DEF ReuseSpared, At
  <1>14. Spared' => Spared BY <1>1, <1>9 DEF Spared
  <1>15. faults' >= faults BY <1>2, <1>3, ScopeAssumption DEF TypeOK
  <1>16. Spared' => CopiesOk'
    <2>. HAVE Spared'
    <2>1. CloudOk /\ CopiesOk BY <1>14 DEF ClusterInv, BuildInv
    <2>2. PICK o \in OscCluster, c \in OscCluster, b \in OscCluster, n \in OscCluster :
            o = obj /\ c = cache /\ b = old /\ n = mem
      BY <1>2
    <2>3. CopyOk(o)' /\ CopyOk(c)' /\ CopyOk(n)'
      BY <1>1, <1>10, <1>11, <1>15, <2>1, <2>2, CloudStays DEF CopiesOk
    <2>4. obj' = PatchedStatus => CopyOk(obj)'
      <3>. HAVE obj' = PatchedStatus
      <3>1. PICK p : p = obj' OBVIOUS
      <3>2. StatusOk(p)' BY <1>8, <2>2, <2>3, <3>1, MergedStatus DEF CopyOk
      <3>3. RecordOk(p)'
        <4>1. p.gen = o.gen /\ p.spec = o.spec /\ p.rec = R BY <1>8, <2>2, <3>1
        <4>2. o.gen > 0 /\ o.gen \in Nat /\ n.gen \in Nat BY <2>3 DEF CopyOk, RecordOk, OscCluster
        <4>3. n.gen <= o.gen /\ (n.gen = o.gen => n.spec = o.spec)
          BY <1>1, <2>1, <2>2 DEF CopiesOk, NotAhead
        <4>4. ASSUME NEW k \in Reconcilers
              PROVE  R[k] <= o.gen /\ (R[k] = o.gen => Made(k, o.spec)')
          <5>1. /\ o.rec[k] <= o.gen /\ (o.rec[k] = o.gen => Made(k, o.spec)')
                /\ n.rec[k] <= n.gen /\ (n.rec[k] = n.gen => Made(k, n.spec)')
                /\ o.rec[k] \in Nat /\ n.rec[k] \in Nat
            BY <2>3 DEF CopyOk, RecordOk, OscCluster
          <5>2. R[k] = n.rec[k] \/ R[k] = o.rec[k] BY <1>5, <2>2
          <5>3. CASE R[k] = o.rec[k] BY <5>1, <5>3
          <5>4. CASE R[k] = n.rec[k]
            <6>1. R[k] <= o.gen BY <4>2, <4>3, <5>1, <5>4
            <6>2. R[k] = o.gen => n.rec[k] = n.gen /\ n.gen = o.gen BY <4>2, <4>3, <5>1, <5>4
            <6>. QED BY <4>3, <5>1, <6>1, <6>2
          <5>. QED BY <5>2, <5>3, <5>4
        <4>. QED BY <4>1, <4>2, <4>4 DEF RecordOk
      <3>4. p.ready => AllMade' BY <1>6, <1>8, <2>2, <2>3, <3>1 DEF CopyOk
      <3>. QED BY <3>1, <3>2, <3>3, <3>4 DEF CopyOk
    <2>5. CopyOk(obj)' BY <1>3, <2>2, <2>3, <2>4
    <2>6. PICK x : x = NoScope OBVIOUS
    <2>7. CopyOk(x)' BY <2>6, NoScopeOk
    <2>8. CopyOk(cache)' /\ CopyOk(old)' /\ CopyOk(mem)' BY <1>1, <2>2, <2>3, <2>6, <2>7
    <2>9. NotAhead(cache)' BY <1>1, <1>10, <2>1 DEF CopiesOk, NotAhead
    <2>10. machines' => AllMade' BY <1>1, <1>10, <1>11, <1>15, <2>1, CloudStays DEF CopiesOk
    <2>. QED BY <1>9, <2>5, <2>8, <2>9, <2>10 DEF CopiesOk
  <1>17. BehindOk' /\ LoopsOk' /\ CallsOk' BY <1>9, NotBuilding DEF BuildPhase
  <1>18. ~At("natService", "create") /\ ~At("bastion", "create") BY <1>1 DEF At
  <1>. QED BY <1>1, <1>3, <1>10, <1>11, <1>12, <1>13, <1>14, <1>16, <1>17, <1>18, CloudKept
--------------------------------------------------------------------------------
(* A step of the deletion, or one that the cloud takes by itself, makes    *)
(* nothing new, and leaves the resources that the cluster reuses alone.    *)
Shrinks ==
  /\ cloud'.nets \subseteq cloud.nets /\ (ReuseNet => cloud'.nets = cloud.nets)
  /\ cloud'.subnets \subseteq cloud.subnets /\ (ReuseNet => cloud'.subnets = cloud.subnets)
  /\ cloud'.sgs \subseteq cloud.sgs /\ (ReuseSG => cloud'.sgs = cloud.sgs)
  /\ cloud'.naps \subseteq cloud.naps /\ cloud'.ips \subseteq cloud.ips
  /\ \A x \in cloud'.iss : x.net # 0 => x \in cloud.iss
  /\ \A x, y \in cloud'.rts : x.sub # 0 /\ x.sub = y.sub =>
       \E t, u \in cloud.rts : t.sub = x.sub /\ u.sub = y.sub /\ (t = u => x = y)
  /\ \A x, y \in cloud'.nats : \E t, u \in cloud.nats : t = u => x = y
  /\ \A x, y \in cloud'.vms : \E t, u \in cloud.vms : t = u => x = y
  /\ \A x, y \in cloud'.peerings : x.tagged /\ y.tagged =>
       \E t, u \in cloud.peerings : t.tagged /\ u.tagged /\ (t = u => x = y)

(* No deletion makes a duplicate, touches what is reused, or adds an IP. *)
LEMMA ShrinksOk ==
  ASSUME ClusterInv, TypeOK', obj' = obj, faults' >= faults, Shrinks
  PROVE  NoDuplicates' /\ (ReuseSG' => ReusedKept') /\ IsFiniteSet(cloud'.ips) /\ IpsBounded'
  <1>0. TypeOK /\ NoDuplicates /\ IsFiniteSet(cloud.ips) /\ IpsBounded BY DEF ClusterInv
  <1>1. AtMostOne({n \in cloud'.nets : n.tagged}) BY <1>0 DEF NoDuplicates, AtMostOne, Shrinks
  <1>2. AtMostOne({i \in cloud'.iss : i.net # 0}) BY <1>0 DEF NoDuplicates, AtMostOne, Shrinks
  <1>3. \A r \in Ranges : AtMostOne({s \in cloud'.subnets : s.range = r})
    BY <1>0 DEF NoDuplicates, AtMostOne, Shrinks
  <1>4. \A s \in cloud'.subnets : AtMostOne(TableOf(s.id)')
    <2>. SUFFICES ASSUME NEW s \in cloud'.subnets, NEW x \in cloud'.rts, NEW y \in cloud'.rts,
                         s.id # 0, x.sub = s.id, y.sub = s.id
                  PROVE  x = y
      BY DEF AtMostOne, TableOf
    <2>1. PICK t, u \in cloud.rts : t.sub = x.sub /\ u.sub = y.sub /\ (t = u => x = y) BY DEF Shrinks
    <2>2. s \in cloud.subnets BY DEF Shrinks
    <2>3. t \in TableOf(s.id) /\ u \in TableOf(s.id) BY <2>1 DEF TableOf
    <2>. QED BY <1>0, <2>1, <2>2, <2>3 DEF NoDuplicates, AtMostOne
  <1>5. \A s \in SGNames : AtMostOne({g \in cloud'.sgs : g.name = s})
    BY <1>0 DEF NoDuplicates, AtMostOne, Shrinks
  <1>6. AtMostOne(cloud'.nats) /\ AtMostOne(cloud'.vms) /\ AtMostOne(cloud'.naps)
    <2>1. AtMostOne(cloud.nats) /\ AtMostOne(cloud.vms) /\ AtMostOne(cloud.naps) BY <1>0 DEF NoDuplicates
    <2>2. AtMostOne(cloud'.nats) BY <2>1 DEF AtMostOne, Shrinks
    <2>3. AtMostOne(cloud'.vms) BY <2>1 DEF AtMostOne, Shrinks
    <2>4. AtMostOne(cloud'.naps) BY <2>1 DEF AtMostOne, Shrinks
    <2>. QED BY <2>2, <2>3, <2>4
  <1>7. AtMostOne({p \in cloud'.peerings : p.tagged})
    <2>. SUFFICES ASSUME NEW x \in cloud'.peerings, NEW y \in cloud'.peerings, x.tagged, y.tagged
                  PROVE  x = y
      BY DEF AtMostOne
    <2>1. PICK t, u \in cloud.peerings : t.tagged /\ u.tagged /\ (t = u => x = y) BY DEF Shrinks
    <2>. QED BY <1>0, <2>1 DEF NoDuplicates, AtMostOne
  <1>8. NoDuplicates' BY <1>1, <1>2, <1>3, <1>4, <1>5, <1>6, <1>7 DEF NoDuplicates
  <1>9. ReuseNet' = ReuseNet /\ ReuseSG' = ReuseSG /\ Internet' = Internet /\ Bastion' = Bastion
    BY DEF ReuseNet, ReuseSG, Internet, Bastion
  <1>10. ReuseSG' => ReusedKept' BY <1>9 DEF ClusterInv, ReusedKept, Shrinks
  <1>11. IsFiniteSet(cloud'.ips) /\ Cardinality(cloud'.ips) <= Cardinality(cloud.ips)
         /\ Cardinality(cloud'.ips) \in Nat /\ Cardinality(cloud.ips) \in Nat
    <2>1. cloud'.ips \subseteq cloud.ips BY DEF Shrinks
    <2>. QED BY <1>0, <2>1, FS_Subset, FS_CardinalityType
  <1>12. IpsBounded'
    <2>1. faults \in Nat /\ faults' \in Nat BY <1>0, ScopeAssumption DEF TypeOK
    <2>2. PICK x, y \in {0, 1} :
            x = (IF Internet THEN 1 ELSE 0) /\ y = (IF Bastion THEN 1 ELSE 0) OBVIOUS
    <2>3. Cardinality(cloud.ips) <= x + y + faults BY <1>0, <2>2 DEF IpsBounded
    <2>4. Cardinality(cloud'.ips) <= x + y + faults' BY <1>11, <2>1, <2>2, <2>3
    <2>. QED BY <1>9, <2>2, <2>4 DEF IpsBounded
  <1>. QED BY <1>8, <1>10, <1>11, <1>12

LEMMA ShrinksSame == ASSUME cloud' = cloud PROVE Shrinks
  BY DEF Shrinks
--------------------------------------------------------------------------------
(* The requests of the deletion.  Each changes one kind of resource. *)
LEMMA VmsShrink ==
  ASSUME TypeOK, NEW V, cloud' = [cloud EXCEPT !.vms = V],
         \A x, y \in V : \E t, u \in cloud.vms : t = u => x = y
  PROVE  Shrinks
  <1>1. /\ cloud'.vms = V
        /\ cloud'.nets = cloud.nets /\ cloud'.subnets = cloud.subnets /\ cloud'.iss = cloud.iss
        /\ cloud'.rts = cloud.rts /\ cloud'.nats = cloud.nats /\ cloud'.ips = cloud.ips
        /\ cloud'.sgs = cloud.sgs /\ cloud'.peerings = cloud.peerings /\ cloud'.naps = cloud.naps
    BY DEF TypeOK, Cloud
  <1>. QED BY <1>1 DEF Shrinks

LEMMA NatsShrink ==
  ASSUME TypeOK, NEW V, cloud' = [cloud EXCEPT !.nats = V],
         \A x, y \in V : \E t, u \in cloud.nats : t = u => x = y
  PROVE  Shrinks
  <1>1. /\ cloud'.nats = V
        /\ cloud'.nets = cloud.nets /\ cloud'.subnets = cloud.subnets /\ cloud'.iss = cloud.iss
        /\ cloud'.rts = cloud.rts /\ cloud'.vms = cloud.vms /\ cloud'.ips = cloud.ips
        /\ cloud'.sgs = cloud.sgs /\ cloud'.peerings = cloud.peerings /\ cloud'.naps = cloud.naps
    BY DEF TypeOK, Cloud
  <1>. QED BY <1>1 DEF Shrinks

LEMMA TablesShrink ==
  ASSUME TypeOK, NEW V, cloud' = [cloud EXCEPT !.rts = V],
         \A x, y \in V : x.sub # 0 /\ x.sub = y.sub =>
           \E t, u \in cloud.rts : t.sub = x.sub /\ u.sub = y.sub /\ (t = u => x = y)
  PROVE  Shrinks
  <1>1. /\ cloud'.rts = V
        /\ cloud'.nets = cloud.nets /\ cloud'.subnets = cloud.subnets /\ cloud'.iss = cloud.iss
        /\ cloud'.nats = cloud.nats /\ cloud'.vms = cloud.vms /\ cloud'.ips = cloud.ips
        /\ cloud'.sgs = cloud.sgs /\ cloud'.peerings = cloud.peerings /\ cloud'.naps = cloud.naps
    BY DEF TypeOK, Cloud
  <1>. QED BY <1>1 DEF Shrinks

LEMMA ServicesShrink ==
  ASSUME TypeOK, NEW V, cloud' = [cloud EXCEPT !.iss = V],
         \A x \in V : x.net # 0 => x \in cloud.iss
  PROVE  Shrinks
  <1>1. /\ cloud'.iss = V
        /\ cloud'.nets = cloud.nets /\ cloud'.subnets = cloud.subnets /\ cloud'.rts = cloud.rts
        /\ cloud'.nats = cloud.nats /\ cloud'.vms = cloud.vms /\ cloud'.ips = cloud.ips
        /\ cloud'.sgs = cloud.sgs /\ cloud'.peerings = cloud.peerings /\ cloud'.naps = cloud.naps
    BY DEF TypeOK, Cloud
  <1>. QED BY <1>1 DEF Shrinks

LEMMA PeeringsShrink ==
  ASSUME TypeOK, NEW V, cloud' = [cloud EXCEPT !.peerings = V],
         \A x, y \in V : x.tagged /\ y.tagged =>
           \E t, u \in cloud.peerings : t.tagged /\ u.tagged /\ (t = u => x = y)
  PROVE  Shrinks
  <1>1. /\ cloud'.peerings = V
        /\ cloud'.nets = cloud.nets /\ cloud'.subnets = cloud.subnets /\ cloud'.rts = cloud.rts
        /\ cloud'.nats = cloud.nats /\ cloud'.vms = cloud.vms /\ cloud'.ips = cloud.ips
        /\ cloud'.sgs = cloud.sgs /\ cloud'.iss = cloud.iss /\ cloud'.naps = cloud.naps
    BY DEF TypeOK, Cloud
  <1>. QED BY <1>1 DEF Shrinks

LEMMA SimpleShrink ==
  ASSUME TypeOK, NEW V,
         \/ cloud' = [cloud EXCEPT !.ips = V] /\ V \subseteq cloud.ips
         \/ cloud' = [cloud EXCEPT !.naps = V] /\ V \subseteq cloud.naps
         \/ cloud' = [cloud EXCEPT !.mgmt = V]
         \/ cloud' = [cloud EXCEPT !.lb = V]
         \/ cloud' = [cloud EXCEPT !.nets = V] /\ V \subseteq cloud.nets /\ ~ReuseNet
         \/ cloud' = [cloud EXCEPT !.subnets = V] /\ V \subseteq cloud.subnets /\ ~ReuseNet
         \/ cloud' = [cloud EXCEPT !.sgs = V] /\ V \subseteq cloud.sgs /\ ~ReuseSG
  PROVE  Shrinks
  <1>1. /\ cloud'.iss = cloud.iss /\ cloud'.rts = cloud.rts /\ cloud'.nats = cloud.nats
        /\ cloud'.vms = cloud.vms /\ cloud'.peerings = cloud.peerings
        /\ cloud'.ips = cloud.ips \/ (cloud'.ips = V /\ V \subseteq cloud.ips)
        /\ cloud'.naps = cloud.naps \/ (cloud'.naps = V /\ V \subseteq cloud.naps)
        /\ cloud'.nets = cloud.nets \/ (cloud'.nets = V /\ V \subseteq cloud.nets /\ ~ReuseNet)
        /\ cloud'.subnets = cloud.subnets \/ (cloud'.subnets = V /\ V \subseteq cloud.subnets /\ ~ReuseNet)
        /\ cloud'.sgs = cloud.sgs \/ (cloud'.sgs = V /\ V \subseteq cloud.sgs /\ ~ReuseSG)
    BY DEF TypeOK, Cloud
  <1>. QED BY <1>1 DEF Shrinks

LEMMA DeletionsShrink ==
  ASSUME TypeOK, NEW i
  PROVE  /\ cloud' = VmDeleted(i) => Shrinks
         /\ cloud' = NatServiceDeleted(i) => Shrinks
         /\ cloud' = PeeringRouteSet(i, 0) => Shrinks
         /\ cloud' = NetPeeringIs(i, "deleted") => Shrinks
         /\ cloud' = RouteTableUnlinked(i) => Shrinks
         /\ cloud' = RouteTableDeleted(i) => Shrinks
         /\ cloud' = InternetServiceUnlinked(i) => Shrinks
         /\ cloud' = InternetServiceDeleted(i) => Shrinks
  <1>1. cloud' = VmDeleted(i) => Shrinks
    <2>. HAVE cloud' = VmDeleted(i)
    <2>. DEFINE F(v) == IF v.id = i THEN [v EXCEPT !.state = "shutting-down"] ELSE v
    <2>1. PICK V : V = {F(v) : v \in cloud.vms} OBVIOUS
    <2>2. cloud' = [cloud EXCEPT !.vms = V] BY <2>1 DEF VmDeleted
    <2>. HIDE DEF F
    <2>3. \A x, y \in V : \E t, u \in cloud.vms : t = u => x = y BY <2>1
    <2>. QED BY <2>2, <2>3, VmsShrink
  <1>2. cloud' = NatServiceDeleted(i) => Shrinks
    <2>. HAVE cloud' = NatServiceDeleted(i)
    <2>. DEFINE F(n) == IF n.id = i THEN [n EXCEPT !.deleting = TRUE] ELSE n
    <2>1. PICK V : V = {F(n) : n \in cloud.nats} OBVIOUS
    <2>2. cloud' = [cloud EXCEPT !.nats = V] BY <2>1 DEF NatServiceDeleted
    <2>. HIDE DEF F
    <2>3. \A x, y \in V : \E t, u \in cloud.nats : t = u => x = y BY <2>1
    <2>. QED BY <2>2, <2>3, NatsShrink
  <1>3. cloud' = PeeringRouteSet(i, 0) => Shrinks
    <2>. HAVE cloud' = PeeringRouteSet(i, 0)
    <2>. DEFINE F(t) == IF t.id = i THEN [t EXCEPT !.peer = 0] ELSE t
    <2>1. PICK V : V = {F(t) : t \in cloud.rts} OBVIOUS
    <2>2. cloud' = [cloud EXCEPT !.rts = V] BY <2>1 DEF PeeringRouteSet
    <2>3. \A t \in cloud.rts : F(t).sub = t.sub BY CloudFields DEF RouteTable
    <2>. HIDE DEF F
    <2>4. \A x, y \in V : x.sub # 0 /\ x.sub = y.sub =>
            \E t, u \in cloud.rts : t.sub = x.sub /\ u.sub = y.sub /\ (t = u => x = y)
      BY <2>1, <2>3
    <2>. QED BY <2>2, <2>4, TablesShrink
  <1>4. cloud' = NetPeeringIs(i, "deleted") => Shrinks
    <2>. HAVE cloud' = NetPeeringIs(i, "deleted")
    <2>. DEFINE F(p) == IF p.id = i THEN [p EXCEPT !.state = "deleted"] ELSE p
    <2>1. PICK V : V = {F(p) : p \in cloud.peerings} OBVIOUS
    <2>2. cloud' = [cloud EXCEPT !.peerings = V] BY <2>1 DEF NetPeeringIs
    <2>3. \A p \in cloud.peerings : F(p).tagged = p.tagged BY CloudFields DEF NetPeering
    <2>. HIDE DEF F
    <2>4. \A x, y \in V : x.tagged /\ y.tagged =>
            \E t, u \in cloud.peerings : t.tagged /\ u.tagged /\ (t = u => x = y)
      BY <2>1, <2>3
    <2>. QED BY <2>2, <2>4, PeeringsShrink
  <1>5. cloud' = RouteTableUnlinked(i) => Shrinks
    <2>. HAVE cloud' = RouteTableUnlinked(i)
    <2>. DEFINE F(t) == IF t.id = i THEN [t EXCEPT !.sub = 0] ELSE t
    <2>1. PICK V : V = {F(t) : t \in cloud.rts} OBVIOUS
    <2>2. cloud' = [cloud EXCEPT !.rts = V] BY <2>1 DEF RouteTableUnlinked, RouteTableLinked
    <2>3. \A t \in cloud.rts : F(t).sub = 0 \/ F(t) = t BY CloudFields DEF RouteTable
    <2>. HIDE DEF F
    <2>4. \A x \in V : x.sub # 0 => x \in cloud.rts BY <2>1, <2>3
    <2>5. \A x, y \in V : x.sub # 0 /\ x.sub = y.sub =>
            \E t, u \in cloud.rts : t.sub = x.sub /\ u.sub = y.sub /\ (t = u => x = y)
      BY <2>4
    <2>. QED BY <2>2, <2>5, TablesShrink
  <1>6. cloud' = RouteTableDeleted(i) => Shrinks
    <2>. HAVE cloud' = RouteTableDeleted(i)
    <2>1. PICK V : V = {t \in cloud.rts : t.id # i} OBVIOUS
    <2>2. cloud' = [cloud EXCEPT !.rts = V] BY <2>1 DEF RouteTableDeleted
    <2>3. \A x, y \in V : x.sub # 0 /\ x.sub = y.sub =>
            \E t, u \in cloud.rts : t.sub = x.sub /\ u.sub = y.sub /\ (t = u => x = y)
      BY <2>1
    <2>. QED BY <2>2, <2>3, TablesShrink
  <1>7. cloud' = InternetServiceUnlinked(i) => Shrinks
    <2>. HAVE cloud' = InternetServiceUnlinked(i)
    <2>. DEFINE F(x) == IF x.id = i THEN [x EXCEPT !.net = 0] ELSE x
    <2>1. PICK V : V = {F(x) : x \in cloud.iss} OBVIOUS
    <2>2. cloud' = [cloud EXCEPT !.iss = V] BY <2>1 DEF InternetServiceUnlinked, InternetServiceLinked
    <2>3. \A x \in cloud.iss : F(x).net = 0 \/ F(x) = x BY CloudFields DEF InternetService
    <2>. HIDE DEF F
    <2>4. \A x \in V : x.net # 0 => x \in cloud.iss BY <2>1, <2>3
    <2>. QED BY <2>2, <2>4, ServicesShrink
  <1>8. cloud' = InternetServiceDeleted(i) => Shrinks
    <2>. HAVE cloud' = InternetServiceDeleted(i)
    <2>1. PICK V : V = {x \in cloud.iss : x.id # i} OBVIOUS
    <2>2. cloud' = [cloud EXCEPT !.iss = V] BY <2>1 DEF InternetServiceDeleted
    <2>. QED BY <2>1, <2>2, ServicesShrink
  <1>. QED BY <1>1, <1>2, <1>3, <1>4, <1>5, <1>6, <1>7, <1>8

LEMMA RemovalsShrink ==
  ASSUME TypeOK, NEW i
  PROVE  /\ cloud' = PublicIpDeleted(i) => Shrinks
         /\ cloud' = NetAccessPointDeleted(i) => Shrinks
         /\ cloud' = ManagementRouteDeleted(i) => Shrinks
         /\ cloud' = LoadBalancerDeleted => Shrinks
         /\ cloud' = NetDeleted(i) /\ ~ReuseNet => Shrinks
         /\ cloud' = SubnetDeleted(i) /\ ~ReuseNet => Shrinks
         /\ cloud' = SecurityGroupDeleted(i) /\ ~ReuseSG => Shrinks
  <1>1. cloud' = PublicIpDeleted(i) => Shrinks
    <2>1. cloud.ips \ {i} \subseteq cloud.ips OBVIOUS
    <2>. QED BY <2>1, SimpleShrink DEF PublicIpDeleted
  <1>2. cloud' = NetAccessPointDeleted(i) => Shrinks
    <2>1. {n \in cloud.naps : n.id # i} \subseteq cloud.naps OBVIOUS
    <2>. QED BY <2>1, SimpleShrink DEF NetAccessPointDeleted
  <1>3. cloud' = ManagementRouteDeleted(i) => Shrinks BY SimpleShrink DEF ManagementRouteDeleted
  <1>4. cloud' = LoadBalancerDeleted => Shrinks BY SimpleShrink DEF LoadBalancerDeleted
  <1>5. cloud' = NetDeleted(i) /\ ~ReuseNet => Shrinks
    <2>1. {n \in cloud.nets : n.id # i} \subseteq cloud.nets OBVIOUS
    <2>. QED BY <2>1, SimpleShrink DEF NetDeleted
  <1>6. cloud' = SubnetDeleted(i) /\ ~ReuseNet => Shrinks
    <2>1. {n \in cloud.subnets : n.id # i} \subseteq cloud.subnets OBVIOUS
    <2>. QED BY <2>1, SimpleShrink DEF SubnetDeleted
  <1>7. cloud' = SecurityGroupDeleted(i) /\ ~ReuseSG => Shrinks
    <2>1. {n \in cloud.sgs : n.id # i} \subseteq cloud.sgs OBVIOUS
    <2>. QED BY <2>1, SimpleShrink DEF SecurityGroupDeleted
  <1>. QED BY <1>1, <1>2, <1>3, <1>4, <1>5, <1>6, <1>7

LEMMA CloudStepShrinks ==
  ASSUME TypeOK, NoDuplicates, VmBoots \/ VmTerminates \/ NatVanishes PROVE Shrinks
  <1>1. ASSUME NEW v \in cloud.vms, NEW w, cloud' = [cloud EXCEPT !.vms = (@ \ {v}) \cup {w}]
        PROVE  Shrinks
    <2>1. PICK V : V = (cloud.vms \ {v}) \cup {w} OBVIOUS
    <2>2. cloud' = [cloud EXCEPT !.vms = V] BY <1>1, <2>1
    <2>3. \A x, y \in V : \E t, u \in cloud.vms : t = u => x = y
      <3>1. V = {w} BY <2>1 DEF NoDuplicates, AtMostOne
      <3>. QED BY <3>1
    <2>. QED BY <2>2, <2>3, VmsShrink
  <1>2. ASSUME NEW n \in cloud.nats, cloud' = [cloud EXCEPT !.nats = @ \ {n}] PROVE Shrinks
    <2>1. PICK V : V = cloud.nats \ {n} OBVIOUS
    <2>2. cloud' = [cloud EXCEPT !.nats = V] BY <1>2, <2>1
    <2>. QED BY <2>1, <2>2, NatsShrink
  <1>. QED BY <1>1, <1>2 DEF VmBoots, VmTerminates, NatVanishes
--------------------------------------------------------------------------------
(* The deletion. *)
Onward(a) ==
  /\ a \in Position
  /\ a.phase \in (DeletePhase \ {"dMachines"}) \cup {"patch"}
  /\ a.phase = "dSubnet" /\ a.step = "loop" => ~ReuseNet
  /\ a.phase = "dSg" /\ a.step \in {"loop", "bad"} => ~ReuseSG

(* A pass that deletes: there are no Machines, and it keeps off what is reused. *)
LEMMA Deleting ==
  ASSUME ClusterInv, at.phase \in DeletePhase \ {"dMachines"}
  PROVE  TypeOK /\ ~machines /\ mem.del /\ cache.del /\ mem \in OscCluster /\ Onward(at) /\ Heir(mem, mem)
  <1>1. TypeOK /\ mem \in OscCluster /\ at \in Position BY DEF ClusterInv, TypeOK
  <1>2. ~machines /\ mem.del /\ cache.del BY DEF ClusterInv, Passes
  <1>3. Onward(at) BY <1>1 DEF ClusterInv, ReuseSpared, At, Onward
  <1>. QED BY <1>1, <1>2, <1>3 DEF Heir

LEMMA ProceedOnward == ASSUME NEW p \in DeletePhase \ {"dFinal"} PROVE Onward(Proceed(p))
  <1>1. AfterDelete(p) \in DeletePhase \ {"dMachines"} /\ Proceed(p) \in Position
    BY AfterDeleteFacts, ProceedType
  <1>2. Proceed(p).phase = AfterDelete(p) /\ Proceed(p).step = "start" BY DEF Proceed, Start
  <1>. QED BY <1>1, <1>2 DEF Onward

LEMMA PatchOnward == Onward(Start("patch"))
  <1>1. Start("patch").phase = "patch" BY DEF Start
  <1>. QED BY <1>1, PatchType DEF Onward

(* A step of the deletion only has to make the cloud shrink. *)
LEMMA TearStep ==
  ASSUME ClusterInv, at.phase \in DeletePhase, ~machines, TypeOK', mem'.del = mem.del,
         UNCHANGED <<obj, cache, machines>>, faults' >= faults, Shrinks, Onward(at')
  PROVE  ClusterInv'
  <1>1. /\ NoDuplicates' /\ (ReuseSG' => ReusedKept') /\ IsFiniteSet(cloud'.ips) /\ IpsBounded'
    BY ShrinksOk
  <1>2. mem.del /\ cache.del /\ (cache.del => obj.del) BY DEF ClusterInv, Passes
  <1>4. at'.phase \in (DeletePhase \ {"dMachines"}) \cup {"patch"} BY DEF Onward
  <1>5. Passes' BY <1>2, <1>4 DEF Passes, BuildPhase, DeletePhase
  <1>6. ReuseSpared' BY DEF Onward, ReuseSpared, At, ReuseNet, ReuseSG
  <1>7. ~Spared' BY <1>2 DEF Spared
  <1>. QED BY <1>1, <1>5, <1>6, <1>7 DEF ClusterInv

LEMMA TearGoes ==
  ASSUME ClusterInv, at.phase \in DeletePhase, ~machines, NEW a, Onward(a), NEW m, Heir(mem, m), Continue(a, m)
  PROVE  ClusterInv'
  <1>1. TypeOK BY DEF ClusterInv
  <1>2. at' = a /\ UNCHANGED <<cloud, obj, cache, machines, faults>> BY DEF Continue
  <1>3. a \in Position BY DEF Onward
  <1>4. TypeOK' /\ mem'.del = mem.del BY <1>1, <1>3, ContinueType DEF Heir
  <1>5. Shrinks BY <1>2, ShrinksSame
  <1>6. faults' >= faults BY <1>1, <1>2, ScopeAssumption DEF TypeOK
  <1>. QED BY <1>2, <1>4, <1>5, <1>6, TearStep

LEMMA TearEnds ==
  ASSUME ClusterInv, at.phase \in DeletePhase, ~machines, NEW m, Heir(mem, m), EndPass(m)
  PROVE  ClusterInv'
  BY PatchOnward, TearGoes DEF EndPass

LEMMA TearCalls ==
  ASSUME ClusterInv, at.phase \in DeletePhase, ~machines, NEW after \in Cloud, cloud' = after => Shrinks,
         NEW a, Onward(a), NEW s, Heir(mem, s), NEW m, Heir(mem, m), Call(after, a, s, m)
  PROVE  ClusterInv'
  <1>1. TypeOK BY DEF ClusterInv
  <1>2. a \in Position BY DEF Onward
  <1>3. TypeOK' /\ mem'.del = mem.del BY <1>1, <1>2, CallType DEF Heir
  <1>4. UNCHANGED <<obj, cache, machines>> BY DEF Call
  <1>5. at' = a \/ at' = Start("patch") BY DEF Call
  <1>6. Onward(at') BY <1>5, PatchOnward
  <1>7. cloud' = after \/ cloud' = cloud BY DEF Call
  <1>8. Shrinks BY <1>7, ShrinksSame
  <1>9. faults' >= faults
    <2>1. faults' = faults \/ faults' = faults + 1 BY DEF Call
    <2>. QED BY <1>1, <2>1, ScopeAssumption DEF TypeOK
  <1>. QED BY <1>3, <1>4, <1>6, <1>8, <1>9, TearStep

(* A deletion that the cloud may refuse. *)
LEMMA TearDeletes ==
  ASSUME ClusterInv, at.phase \in DeletePhase, ~machines, NEW after \in Cloud, cloud' = after => Shrinks,
         NEW a, Onward(a), NEW s, Heir(mem, s), NEW m, Heir(mem, m),
         NEW inUse, DeleteCall(inUse, after, a, s, m)
  PROVE  ClusterInv'
  <1>1. CASE EndPass(s) BY <1>1, TearEnds
  <1>2. CASE Call(after, a, s, m) BY <1>2, TearCalls
  <1>. QED BY <1>1, <1>2 DEF DeleteCall

(* The deletion waits for the Machines, and until then nothing is lost. *)
LEMMA DeleteStartOk == ASSUME ClusterInv, DeleteStart PROVE ClusterInv'
  <1>1. at.phase = "dMachines" /\ at.step = "start" BY DEF DeleteStart, At
  <1>2. TypeOK /\ Passes /\ mem \in OscCluster BY DEF ClusterInv, TypeOK
  <1>3. Heir(mem, mem) /\ "dMachines" \in DeletePhase \ {"dFinal"} BY <1>2 DEF Heir, DeletePhase
  <1>4. CASE ~machines /\ Continue(Proceed("dMachines"), mem)
    BY <1>1, <1>3, <1>4, ProceedOnward, TearGoes
  <1>5. CASE machines /\ EndPass(mem)
    <2>1. at' = Start("patch") /\ UNCHANGED <<cloud, obj, cache, old, mem, machines, faults, edits>>
      BY <1>5 DEF EndPass, Continue
    <2>2. TypeOK' BY <1>2, <1>3, <1>5, EndPassType
    <2>3. at'.phase = "patch" BY <2>1 DEF Start
    <2>4. Passes' BY <1>2, <2>1, <2>3 DEF Passes, BuildPhase, DeletePhase
    <2>5. ReuseSpared' BY <2>3 DEF ReuseSpared, At
    <2>6. Spared BY <1>5 DEF Spared
    <2>7. CloudOk /\ CopiesOk BY <2>6 DEF ClusterInv, BuildInv
    <2>8. faults' >= faults /\ obj'.opt = obj.opt BY <1>2, <2>1, ScopeAssumption DEF TypeOK
    <2>9. CopyOk(obj)' /\ CopyOk(cache)' /\ CopyOk(old)' /\ CopyOk(mem)'
      <3>1. PICK o \in OscCluster, c \in OscCluster, d \in OscCluster, n \in OscCluster :
              o = obj /\ c = cache /\ d = old /\ n = mem
        BY <1>2 DEF TypeOK
      <3>2. CopyOk(o)' /\ CopyOk(c)' /\ CopyOk(d)' /\ CopyOk(n)'
        BY <2>1, <2>2, <2>7, <2>8, <3>1, CloudStays DEF CopiesOk
      <3>. QED BY <2>1, <3>1, <3>2
    <2>10. NotAhead(cache)' /\ NotAhead(mem)' BY <1>1, <2>1, <2>7 DEF CopiesOk, NotAhead
    <2>11. AllMade' BY <1>5, <2>1, <2>2, <2>7, <2>8, CloudStays DEF CopiesOk
    <2>12. CopiesOk' BY <2>9, <2>10, <2>11 DEF CopiesOk
    <2>13. BehindOk' /\ LoopsOk' /\ CallsOk' BY <2>3, NotBuilding DEF BuildPhase
    <2>14. ~At("natService", "create") /\ ~At("bastion", "create") BY <1>1 DEF At
    <2>. QED BY <2>1, <2>2, <2>4, <2>5, <2>6, <2>8, <2>12, <2>13, <2>14, CloudKept
  <1>. QED BY <1>4, <1>5 DEF DeleteStart

LEMMA DeleteBastionOk == ASSUME ClusterInv, DeleteBastion PROVE ClusterInv'
  <1>1. at.phase = "dBastion" /\ at.step = "start" BY DEF DeleteBastion, At
  <1>2. "dBastion" \in DeletePhase \ {"dMachines", "dFinal"} BY DEF DeletePhase
  <1>3. TypeOK /\ ~machines /\ mem \in OscCluster /\ Heir(mem, mem) BY <1>1, <1>2, Deleting
  <1>. DEFINE a == Proceed("dBastion")
  <1>4. Onward(a) BY <1>2, ProceedOnward
  <1>. HIDE DEF a
  <1>5. \/ Continue(a, mem)
        \/ /\ BastionId(mem) \in Ids(cloud.vms)
           /\ \/ Continue(a, WithBastion(mem))
              \/ Call(VmDeleted(BastionVm(mem).id), a, WithBastion(mem), WithBastion(mem))
    BY DEF DeleteBastion, a
  <1>6. CASE Continue(a, mem) BY <1>1, <1>2, <1>3, <1>4, <1>6, TearGoes
  <1>7. CASE BastionId(mem) \in Ids(cloud.vms)
    <2>1. Heir(mem, WithBastion(mem)) /\ BastionVm(mem).id = BastionId(mem) BY <1>3, <1>7, WithTypes
    <2>2. PICK i \in Nat : i = BastionVm(mem).id BY <1>3, <2>1, LookupTypes
    <2>3. VmDeleted(i) \in Cloud BY <1>3, RequestTypes
    <2>4. cloud' = VmDeleted(i) => Shrinks BY <1>3, DeletionsShrink
    <2>5. CASE Continue(a, WithBastion(mem)) BY <1>1, <1>2, <1>3, <1>4, <2>1, <2>5, TearGoes
    <2>6. CASE Call(VmDeleted(BastionVm(mem).id), a, WithBastion(mem), WithBastion(mem))
      BY <1>1, <1>2, <1>3, <1>4, <2>1, <2>2, <2>3, <2>4, <2>6, TearCalls
    <2>. QED BY <1>5, <1>6, <2>5, <2>6
  <1>. QED BY <1>5, <1>6, <1>7

LEMMA DeleteLoadBalancerOk == ASSUME ClusterInv, DeleteLoadBalancer PROVE ClusterInv'
  <1>1. at.phase = "dLb" BY DEF DeleteLoadBalancer, At
  <1>2. "dLb" \in DeletePhase \ {"dMachines", "dFinal"} BY DEF DeletePhase
  <1>3. TypeOK /\ ~machines /\ Heir(mem, mem) BY <1>1, <1>2, Deleting
  <1>4. Onward(Proceed("dLb")) BY <1>2, ProceedOnward
  <1>5. LoadBalancerDeleted \in Cloud
    <2>1. 0 \in Nat OBVIOUS
    <2>. QED BY <1>3, <2>1, RequestTypes
  <1>6. cloud' = LoadBalancerDeleted => Shrinks BY <1>3, RemovalsShrink
  <1>7. CASE Continue(Proceed("dLb"), mem) BY <1>1, <1>2, <1>3, <1>4, <1>7, TearGoes
  <1>8. CASE Call(LoadBalancerDeleted, Proceed("dLb"), mem, mem)
    BY <1>1, <1>2, <1>3, <1>4, <1>5, <1>6, <1>8, TearCalls
  <1>. QED BY <1>7, <1>8 DEF DeleteLoadBalancer

LEMMA DeleteNatServiceOk == ASSUME ClusterInv, DeleteNatService PROVE ClusterInv'
  <1>1. at.phase = "dNat" BY DEF DeleteNatService
  <1>2. "dNat" \in DeletePhase \ {"dMachines", "dFinal"} BY DEF DeletePhase
  <1>3. TypeOK /\ ~machines /\ mem \in OscCluster BY <1>1, <1>2, Deleting
  <1>4. PICK w : w = WithNet(mem) OBVIOUS
  <1>5. Heir(mem, w) BY <1>3, <1>4, WithTypes
  <1>. DEFINE a == [at EXCEPT !.step = "delete"]
  <1>6. Onward(a) BY <1>1, <1>2, <1>3 DEF Onward, TypeOK, Position, Step
  <1>. HIDE DEF a
  <1>7. Onward(Proceed("dNat")) BY <1>2, ProceedOnward
  <1>8. \/ Continue(Proceed("dNat"), w)
        \/ EndPass(w)
        \/ \E n \in cloud.nats : Call(NatServiceDeleted(n.id), a, w, w)
    BY <1>4 DEF DeleteNatService, a
  <1>9. CASE Continue(Proceed("dNat"), w) BY <1>1, <1>2, <1>3, <1>5, <1>7, <1>9, TearGoes
  <1>10. CASE EndPass(w) BY <1>1, <1>2, <1>3, <1>5, <1>10, TearEnds
  <1>11. CASE \E n \in cloud.nats : Call(NatServiceDeleted(n.id), a, w, w)
    <2>1. PICK n \in cloud.nats : Call(NatServiceDeleted(n.id), a, w, w) BY <1>11
    <2>2. PICK i \in Nat : i = n.id BY <1>3, CloudFields DEF NatService, Id
    <2>3. NatServiceDeleted(i) \in Cloud BY <1>3, RequestTypes
    <2>4. cloud' = NatServiceDeleted(i) => Shrinks BY <1>3, DeletionsShrink
    <2>. QED BY <1>1, <1>2, <1>3, <1>5, <1>6, <2>1, <2>2, <2>3, <2>4, TearCalls
  <1>. QED BY <1>8, <1>9, <1>10, <1>11

LEMMA DeletePublicIpOk ==
  ASSUME ClusterInv, NEW key \in {"natIp", "vmIp"}, DeletePublicIp(key) PROVE ClusterInv'
  <1>1. at.phase = "dIp" BY DEF DeletePublicIp, At
  <1>2. "dIp" \in DeletePhase \ {"dMachines", "dFinal"} BY DEF DeletePhase
  <1>3. TypeOK /\ ~machines /\ mem \in OscCluster /\ Heir(mem, mem) /\ Onward(at) BY <1>1, <1>2, Deleting
  <1>4. Heir(mem, ForgetIp(mem, key))
    <2>1. 0 \in Nat OBVIOUS
    <2>2. Heir(mem, [mem EXCEPT !.st.natIp = 0]) /\ Heir(mem, [mem EXCEPT !.st.vmIp = 0])
      BY <1>3, <2>1, UpdateTypes
    <2>. QED BY <2>2 DEF ForgetIp
  <1>5. PICK i : i = mem.st[key] OBVIOUS
  <1>6. \/ Continue(at, ForgetIp(mem, key))
        \/ i \in cloud.ips /\ DeleteCall(LinkedIp(i), PublicIpDeleted(i), at, mem, ForgetIp(mem, key))
    BY <1>5 DEF DeletePublicIp
  <1>7. CASE Continue(at, ForgetIp(mem, key)) BY <1>1, <1>2, <1>3, <1>4, <1>7, TearGoes
  <1>8. CASE i \in cloud.ips /\ DeleteCall(LinkedIp(i), PublicIpDeleted(i), at, mem, ForgetIp(mem, key))
    <2>1. i \in Nat BY <1>3, <1>8, CloudFields
    <2>2. PublicIpDeleted(i) \in Cloud BY <1>3, <2>1, RequestTypes
    <2>3. cloud' = PublicIpDeleted(i) => Shrinks BY <1>3, RemovalsShrink
    <2>. QED BY <1>1, <1>2, <1>3, <1>4, <1>8, <2>2, <2>3, TearDeletes
  <1>. QED BY <1>6, <1>7, <1>8

LEMMA EndPublicIpsOk == ASSUME ClusterInv, EndPublicIps PROVE ClusterInv'
  <1>1. at.phase = "dIp" /\ Continue(Proceed("dIp"), mem) BY DEF EndPublicIps, At
  <1>2. "dIp" \in DeletePhase \ {"dMachines", "dFinal"} BY DEF DeletePhase
  <1>3. ~machines /\ Heir(mem, mem) BY <1>1, <1>2, Deleting
  <1>. QED BY <1>1, <1>2, <1>3, ProceedOnward, TearGoes

LEMMA DeleteNetAccessPointOk == ASSUME ClusterInv, DeleteNetAccessPoint PROVE ClusterInv'
  <1>1. at.phase = "dNap" BY DEF DeleteNetAccessPoint, At
  <1>2. "dNap" \in DeletePhase \ {"dMachines", "dFinal"} BY DEF DeletePhase
  <1>3. TypeOK /\ ~machines /\ mem \in OscCluster /\ Onward(at) BY <1>1, <1>2, Deleting
  <1>4. PICK w : w = WithNet(mem) OBVIOUS
  <1>5. Heir(mem, w) BY <1>3, <1>4, WithTypes
  <1>6. \/ Continue(Proceed("dNap"), w)
        \/ \E n \in cloud.naps : Call(NetAccessPointDeleted(n.id), at, w, w)
    BY <1>4 DEF DeleteNetAccessPoint
  <1>7. CASE Continue(Proceed("dNap"), w) BY <1>1, <1>2, <1>3, <1>5, <1>7, ProceedOnward, TearGoes
  <1>8. CASE \E n \in cloud.naps : Call(NetAccessPointDeleted(n.id), at, w, w)
    <2>1. PICK n \in cloud.naps : Call(NetAccessPointDeleted(n.id), at, w, w) BY <1>8
    <2>2. PICK i \in Nat : i = n.id BY <1>3, CloudFields DEF NetAccessPoint, Id
    <2>3. NetAccessPointDeleted(i) \in Cloud BY <1>3, RequestTypes
    <2>4. cloud' = NetAccessPointDeleted(i) => Shrinks BY <1>3, RemovalsShrink
    <2>. QED BY <1>1, <1>2, <1>3, <1>5, <2>1, <2>2, <2>3, <2>4, TearCalls
  <1>. QED BY <1>6, <1>7, <1>8

LEMMA DeletePeeringRoutesOk == ASSUME ClusterInv, DeletePeeringRoutes PROVE ClusterInv'
  <1>1. at.phase = "dPeerRoutes" BY DEF DeletePeeringRoutes, At
  <1>2. "dPeerRoutes" \in DeletePhase \ {"dMachines", "dFinal"} BY DEF DeletePhase
  <1>3. TypeOK /\ ~machines /\ mem \in OscCluster /\ Onward(at) /\ Heir(mem, mem) BY <1>1, <1>2, Deleting
  <1>4. PICK w : w = WithNet(IF NetId(mem) = 0 THEN mem ELSE WithPeering(mem)) OBVIOUS
  <1>5. Heir(mem, w)
    <2>1. Heir(mem, WithNet(mem)) /\ Heir(mem, WithNet(WithPeering(mem))) BY <1>3, WithTypes
    <2>. QED BY <1>4, <2>1
  <1>6. PICK i \in Nat : i = NetPeeringId(mem) BY <1>3, LookupTypes
  <1>. DEFINE p == Proceed("dPeerRoutes")
  <1>7. \/ Continue(p, mem)
        \/ Continue(p, w)
        \/ Call(ManagementRouteDeleted(i), at, w, w)
        \/ \E t \in NetTables(mem) : Call(PeeringRouteSet(t.id, 0), at, w, w)
    <2>. HIDE DEF p
    <2>1. CASE ReuseNet BY <2>1 DEF DeletePeeringRoutes, p
    <2>2. CASE ~ReuseNet /\ (NetId(mem) = 0 \/ i \notin Ids(cloud.peerings))
      BY <1>4, <1>6, <2>2 DEF DeletePeeringRoutes, p
    <2>3. CASE ~ReuseNet /\ NetId(mem) # 0 /\ i \in Ids(cloud.peerings)
      BY <1>4, <1>6, <2>3 DEF DeletePeeringRoutes, p
    <2>. QED BY <2>1, <2>2, <2>3
  <1>8. Onward(p) BY <1>2, ProceedOnward
  <1>. HIDE DEF p
  <1>9. CASE Continue(p, mem) \/ Continue(p, w) BY <1>1, <1>2, <1>3, <1>5, <1>8, <1>9, TearGoes
  <1>10. CASE Call(ManagementRouteDeleted(i), at, w, w)
    <2>1. ManagementRouteDeleted(i) \in Cloud BY <1>3, RequestTypes
    <2>2. cloud' = ManagementRouteDeleted(i) => Shrinks BY <1>3, RemovalsShrink
    <2>. QED BY <1>1, <1>2, <1>3, <1>5, <1>10, <2>1, <2>2, TearCalls
  <1>11. CASE \E t \in NetTables(mem) : Call(PeeringRouteSet(t.id, 0), at, w, w)
    <2>1. PICK t \in cloud.rts : Call(PeeringRouteSet(t.id, 0), at, w, w) BY <1>11 DEF NetTables
    <2>2. PICK j \in Nat, z \in Nat : j = t.id /\ z = 0 BY <1>3, CloudFields DEF RouteTable, Id
    <2>3. PeeringRouteSet(j, z) \in Cloud BY <1>3, RequestTypes
    <2>4. cloud' = PeeringRouteSet(j, z) => Shrinks BY <1>3, <2>2, DeletionsShrink
    <2>. QED BY <1>1, <1>2, <1>3, <1>5, <2>1, <2>2, <2>3, <2>4, TearCalls
  <1>. QED BY <1>7, <1>9, <1>10, <1>11

LEMMA DeleteNetPeeringOk == ASSUME ClusterInv, DeleteNetPeering PROVE ClusterInv'
  <1>1. at.phase = "dPeering" BY DEF DeleteNetPeering, At
  <1>2. "dPeering" \in DeletePhase \ {"dMachines", "dFinal"} BY DEF DeletePhase
  <1>3. TypeOK /\ ~machines /\ mem \in OscCluster /\ Onward(at) BY <1>1, <1>2, Deleting
  <1>4. PICK w : w = WithNet(mem) OBVIOUS
  <1>5. Heir(mem, w) BY <1>3, <1>4, WithTypes
  <1>6. \/ Continue(Proceed("dPeering"), w)
        \/ \E p \in cloud.peerings : Call(NetPeeringIs(p.id, "deleted"), at, w, w)
    BY <1>4 DEF DeleteNetPeering
  <1>7. CASE Continue(Proceed("dPeering"), w) BY <1>1, <1>2, <1>3, <1>5, <1>7, ProceedOnward, TearGoes
  <1>8. CASE \E p \in cloud.peerings : Call(NetPeeringIs(p.id, "deleted"), at, w, w)
    <2>1. PICK p \in cloud.peerings : Call(NetPeeringIs(p.id, "deleted"), at, w, w) BY <1>8
    <2>2. PICK i \in Nat : i = p.id BY <1>3, CloudFields DEF NetPeering, Id
    <2>3. NetPeeringIs(i, "deleted") \in Cloud
      <3>1. "deleted" \in PeeringState BY DEF PeeringState
      <3>. QED BY <1>3, <3>1, RequestTypes
    <2>4. cloud' = NetPeeringIs(i, "deleted") => Shrinks BY <1>3, DeletionsShrink
    <2>. QED BY <1>1, <1>2, <1>3, <1>5, <2>1, <2>2, <2>3, <2>4, TearCalls
  <1>. QED BY <1>6, <1>7, <1>8

LEMMA DeleteRouteTableOk == ASSUME ClusterInv, DeleteRouteTable PROVE ClusterInv'
  <1>1. at.phase = "dRt" BY DEF DeleteRouteTable, At
  <1>2. "dRt" \in DeletePhase \ {"dMachines", "dFinal"} BY DEF DeletePhase
  <1>3. TypeOK /\ ~machines /\ mem \in OscCluster /\ Onward(at) BY <1>1, <1>2, Deleting
  <1>4. PICK w : w = WithNet(mem) OBVIOUS
  <1>5. Heir(mem, w) BY <1>3, <1>4, WithTypes
  <1>6. \/ Continue(Proceed("dRt"), w)
        \/ \E t \in cloud.rts : \/ Call(RouteTableUnlinked(t.id), at, w, w)
                                \/ Call(RouteTableDeleted(t.id), at, w, w)
    BY <1>4 DEF DeleteRouteTable
  <1>7. CASE Continue(Proceed("dRt"), w) BY <1>1, <1>2, <1>3, <1>5, <1>7, ProceedOnward, TearGoes
  <1>8. ASSUME NEW t \in cloud.rts,
               \/ Call(RouteTableUnlinked(t.id), at, w, w)
               \/ Call(RouteTableDeleted(t.id), at, w, w)
        PROVE  ClusterInv'
    <2>1. PICK i \in Nat : i = t.id BY <1>3, CloudFields DEF RouteTable, Id
    <2>2. RouteTableUnlinked(i) \in Cloud /\ RouteTableDeleted(i) \in Cloud BY <1>3, RequestTypes
    <2>3. /\ cloud' = RouteTableUnlinked(i) => Shrinks
          /\ cloud' = RouteTableDeleted(i) => Shrinks
      BY <1>3, DeletionsShrink
    <2>4. CASE Call(RouteTableUnlinked(i), at, w, w)
      BY <1>1, <1>2, <1>3, <1>5, <2>2, <2>3, <2>4, TearCalls
    <2>5. CASE Call(RouteTableDeleted(i), at, w, w)
      BY <1>1, <1>2, <1>3, <1>5, <2>2, <2>3, <2>5, TearCalls
    <2>. QED BY <1>8, <2>1, <2>4, <2>5
  <1>. QED BY <1>6, <1>7, <1>8

LEMMA ListSecurityGroupsOk == ASSUME ClusterInv, ListSecurityGroups PROVE ClusterInv'
  <1>1. at.phase = "dSg" BY DEF ListSecurityGroups, At
  <1>2. "dSg" \in DeletePhase \ {"dMachines", "dFinal"} BY DEF DeletePhase
  <1>3. TypeOK /\ ~machines /\ mem \in OscCluster /\ Heir(mem, mem) BY <1>1, <1>2, Deleting
  <1>4. PICK w : w = WithNet(mem) OBVIOUS
  <1>5. Heir(mem, w) BY <1>3, <1>4, WithTypes
  <1>6. PICK I : I = {g.id : g \in {x \in cloud.sgs : x.net = NetId(mem)}} OBVIOUS
  <1>7. I \in SUBSET Nat BY <1>3, <1>6, CloudFields DEF SecurityGroup, Id
  <1>. DEFINE a == [at EXCEPT !.step = "loop", !.ids = I]
  <1>8. \/ Continue(Proceed("dSg"), mem)
        \/ ~ReuseSG /\ Call(cloud, a, w, w)
    BY <1>4, <1>6 DEF ListSecurityGroups
  <1>9. ~ReuseSG => Onward(a) BY <1>1, <1>2, <1>3, <1>7 DEF Onward, TypeOK, Position, Step, Id
  <1>. HIDE DEF a
  <1>10. CASE Continue(Proceed("dSg"), mem) BY <1>1, <1>2, <1>3, <1>10, ProceedOnward, TearGoes
  <1>11. CASE ~ReuseSG /\ Call(cloud, a, w, w)
    <2>1. cloud \in Cloud BY <1>3 DEF TypeOK
    <2>. QED BY <1>1, <1>2, <1>3, <1>5, <1>9, <1>11, <2>1, ShrinksSame, TearCalls
  <1>. QED BY <1>8, <1>10, <1>11

LEMMA DeleteSecurityGroupOk == ASSUME ClusterInv, DeleteSecurityGroup PROVE ClusterInv'
  <1>1. at.phase = "dSg" /\ at.step \in {"loop", "bad"} BY DEF DeleteSecurityGroup
  <1>2. "dSg" \in DeletePhase \ {"dMachines", "dFinal"} BY DEF DeletePhase
  <1>3. TypeOK /\ ~machines /\ mem \in OscCluster /\ Heir(mem, mem) /\ Onward(at) BY <1>1, <1>2, Deleting
  <1>4. ~ReuseSG BY <1>1, <1>3 DEF Onward
  <1>5. PICK g \in cloud.sgs :
          \/ at' = [[at EXCEPT !.ids = @ \ {g.id}] EXCEPT !.step = "bad"] /\ UNCHANGED <<cloud, faults>>
          \/ at' = [at EXCEPT !.ids = @ \ {g.id}] /\ cloud' = SecurityGroupDeleted(g.id) /\ UNCHANGED faults
          \/ /\ faults < MaxFaults /\ faults' = faults + 1
             /\ at' = [[at EXCEPT !.ids = @ \ {g.id}] EXCEPT !.step = "bad"]
             /\ cloud' \in {SecurityGroupDeleted(g.id), cloud}
    BY Zenon DEF DeleteSecurityGroup
  <1>6. UNCHANGED <<obj, cache, old, mem, machines, edits>> BY DEF DeleteSecurityGroup
  <1>7. PICK i \in Nat : i = g.id BY <1>3, CloudFields DEF SecurityGroup, Id
  <1>8. /\ cloud' = SecurityGroupDeleted(i) \/ cloud' = cloud
        /\ faults' = faults \/ (faults < MaxFaults /\ faults' = faults + 1)
        /\ \/ at' = [at EXCEPT !.ids = @ \ {i}]
           \/ at' = [[at EXCEPT !.ids = @ \ {i}] EXCEPT !.step = "bad"]
    BY <1>5, <1>7
  <1>9. Onward(at') BY <1>1, <1>2, <1>3, <1>4, <1>8 DEF Onward, TypeOK, Position, Step, Id
  <1>10. SecurityGroupDeleted(i) \in Cloud BY <1>3, RequestTypes
  <1>11. Shrinks BY <1>3, <1>4, <1>8, RemovalsShrink, ShrinksSame
  <1>12. faults' \in 0 .. MaxFaults /\ faults' >= faults BY <1>3, <1>8, ScopeAssumption DEF TypeOK
  <1>13. TypeOK' BY <1>3, <1>6, <1>8, <1>9, <1>10, <1>12 DEF TypeOK, Onward
  <1>. QED BY <1>1, <1>2, <1>3, <1>6, <1>9, <1>11, <1>12, <1>13, TearStep

LEMMA EndSecurityGroupDeletionOk == ASSUME ClusterInv, EndSecurityGroupDeletion PROVE ClusterInv'
  <1>1. at.phase = "dSg" BY DEF EndSecurityGroupDeletion
  <1>2. "dSg" \in DeletePhase \ {"dMachines", "dFinal"} BY DEF DeletePhase
  <1>3. ~machines /\ Heir(mem, mem) BY <1>1, <1>2, Deleting
  <1>4. EndPass(mem) \/ Continue(Proceed("dSg"), mem) BY DEF EndSecurityGroupDeletion
  <1>. QED BY <1>1, <1>2, <1>3, <1>4, ProceedOnward, TearGoes, TearEnds

LEMMA DeleteInternetServiceOk == ASSUME ClusterInv, DeleteInternetService PROVE ClusterInv'
  <1>1. at.phase = "dIs" BY DEF DeleteInternetService, At
  <1>2. "dIs" \in DeletePhase \ {"dMachines", "dFinal"} BY DEF DeletePhase
  <1>3. TypeOK /\ ~machines /\ mem \in OscCluster /\ Heir(mem, mem) BY <1>1, <1>2, Deleting
  <1>4. PICK w : w = WithService(mem) OBVIOUS
  <1>5. Heir(mem, w) BY <1>3, <1>4, WithTypes
  <1>6. CASE ReuseNet \/ InternetServiceId(mem) \notin Ids(cloud.iss)
    <2>1. Continue(Proceed("dIs"), mem) BY <1>6 DEF DeleteInternetService
    <2>. QED BY <1>1, <1>2, <1>3, <2>1, ProceedOnward, TearGoes
  <1>7. CASE ~(ReuseNet \/ InternetServiceId(mem) \notin Ids(cloud.iss))
    <2>1. PICK x : x = CHOOSE y \in cloud.iss : y.id = InternetServiceId(mem) OBVIOUS
    <2>2. x \in cloud.iss BY <1>7, <2>1 DEF Ids
    <2>3. PICK i \in Nat : i = x.id BY <1>3, <2>2, CloudFields DEF InternetService, Id
    <2>. DEFINE a == [at EXCEPT !.step = "delete", !.id = i]
    <2>4. Continue(a, w) \/ Call(InternetServiceUnlinked(i), a, w, w)
      BY <1>4, <1>7, <2>1, <2>3 DEF DeleteInternetService
    <2>5. Onward(a) BY <1>1, <1>2, <1>3 DEF Onward, TypeOK, Position, Step, Id
    <2>. HIDE DEF a
    <2>6. InternetServiceUnlinked(i) \in Cloud BY <1>3, RequestTypes
    <2>7. cloud' = InternetServiceUnlinked(i) => Shrinks BY <1>3, DeletionsShrink
    <2>8. CASE Continue(a, w) BY <1>1, <1>2, <1>3, <1>5, <2>5, <2>8, TearGoes
    <2>9. CASE Call(InternetServiceUnlinked(i), a, w, w)
      BY <1>1, <1>2, <1>3, <1>5, <2>5, <2>6, <2>7, <2>9, TearCalls
    <2>. QED BY <2>4, <2>8, <2>9
  <1>. QED BY <1>6, <1>7

LEMMA DeleteUnlinkedServiceOk == ASSUME ClusterInv, DeleteUnlinkedService PROVE ClusterInv'
  <1>1. at.phase = "dIs" BY DEF DeleteUnlinkedService, At
  <1>2. "dIs" \in DeletePhase \ {"dMachines", "dFinal"} BY DEF DeletePhase
  <1>3. TypeOK /\ ~machines /\ mem \in OscCluster /\ Heir(mem, mem) BY <1>1, <1>2, Deleting
  <1>4. PICK i \in Nat : i = at.id BY <1>3 DEF TypeOK, Position, Id
  <1>5. InternetServiceDeleted(i) \in Cloud BY <1>3, RequestTypes
  <1>6. cloud' = InternetServiceDeleted(i) => Shrinks BY <1>3, DeletionsShrink
  <1>7. Call(InternetServiceDeleted(i), Proceed("dIs"), mem, mem) BY <1>4 DEF DeleteUnlinkedService
  <1>. QED BY <1>1, <1>2, <1>3, <1>5, <1>6, <1>7, ProceedOnward, TearCalls

LEMMA StartSubnetDeletionOk == ASSUME ClusterInv, StartSubnetDeletion PROVE ClusterInv'
  <1>1. at.phase = "dSubnet" BY DEF StartSubnetDeletion, At
  <1>2. "dSubnet" \in DeletePhase \ {"dMachines", "dFinal"} BY DEF DeletePhase
  <1>3. TypeOK /\ ~machines /\ mem \in OscCluster /\ Heir(mem, mem) BY <1>1, <1>2, Deleting
  <1>4. PICK T : T = mem.spec OBVIOUS
  <1>5. T \in SUBSET (Ranges \cup SGNames) BY <1>3, <1>4, ScopeAssumption DEF OscCluster
  <1>. DEFINE a == [at EXCEPT !.step = "loop", !.todo = T]
  <1>6. Continue(Proceed("dSubnet"), mem) \/ (~ReuseNet /\ Continue(a, mem))
    BY <1>4 DEF StartSubnetDeletion
  <1>7. ~ReuseNet => Onward(a) BY <1>1, <1>2, <1>3, <1>5 DEF Onward, TypeOK, Position, Step
  <1>. HIDE DEF a
  <1>. QED BY <1>1, <1>2, <1>3, <1>6, <1>7, ProceedOnward, TearGoes

LEMMA DeleteSubnetOk == ASSUME ClusterInv, NEW r \in Ranges, DeleteSubnet(r) PROVE ClusterInv'
  <1>1. at.phase = "dSubnet" /\ at.step = "loop" BY DEF DeleteSubnet, At
  <1>2. "dSubnet" \in DeletePhase \ {"dMachines", "dFinal"} BY DEF DeletePhase
  <1>3. TypeOK /\ ~machines /\ mem \in OscCluster /\ Heir(mem, mem) /\ Onward(at) BY <1>1, <1>2, Deleting
  <1>4. ~ReuseNet BY <1>1, <1>3 DEF Onward
  <1>5. PICK i \in Nat : i = SubnetId(mem, r) BY <1>3, LookupTypes
  <1>6. PICK w : w = WithNet(mem) OBVIOUS
  <1>7. Heir(mem, w) BY <1>3, <1>6, WithTypes
  <1>8. PICK m : m = [w EXCEPT !.st.sn[r] = i] OBVIOUS
  <1>9. Heir(mem, m)
    <2>1. w \in OscCluster BY <1>7 DEF Heir
    <2>2. Heir(w, m) BY <1>8, <2>1, UpdateTypes
    <2>. QED BY <1>7, <2>2 DEF Heir
  <1>. DEFINE a == [at EXCEPT !.todo = @ \ {r}]
  <1>10. Onward(a) BY <1>1, <1>2, <1>3, <1>4 DEF Onward, TypeOK, Position
  <1>11. CASE i \notin Ids(cloud.subnets)
    <2>1. Continue(a, mem) BY <1>5, <1>11 DEF DeleteSubnet, SubnetFound
    <2>. HIDE DEF a
    <2>. QED BY <1>1, <1>2, <1>3, <1>10, <2>1, TearGoes
  <1>12. CASE i \in Ids(cloud.subnets)
    <2>1. PICK s : s = CHOOSE x \in cloud.subnets : x.id = i OBVIOUS
    <2>2. s.id = i BY <1>12, <2>1 DEF Ids
    <2>3. DeleteCall(SubnetInUse(s), SubnetDeleted(i), a, m, m)
      BY <1>5, <1>6, <1>8, <1>12, <2>1, <2>2 DEF DeleteSubnet, SubnetFound
    <2>. HIDE DEF a
    <2>4. SubnetDeleted(i) \in Cloud BY <1>3, RequestTypes
    <2>5. cloud' = SubnetDeleted(i) => Shrinks BY <1>3, <1>4, RemovalsShrink
    <2>. QED BY <1>1, <1>2, <1>3, <1>9, <1>10, <2>3, <2>4, <2>5, TearDeletes
  <1>. QED BY <1>11, <1>12

LEMMA EndSubnetDeletionOk == ASSUME ClusterInv, EndSubnetDeletion PROVE ClusterInv'
  <1>1. at.phase = "dSubnet" /\ Continue(Proceed("dSubnet"), mem) BY DEF EndSubnetDeletion, At
  <1>2. "dSubnet" \in DeletePhase \ {"dMachines", "dFinal"} BY DEF DeletePhase
  <1>3. ~machines /\ Heir(mem, mem) BY <1>1, <1>2, Deleting
  <1>. QED BY <1>1, <1>2, <1>3, ProceedOnward, TearGoes

LEMMA DeleteNetOk == ASSUME ClusterInv, DeleteNet PROVE ClusterInv'
  <1>1. at.phase = "dNet" BY DEF DeleteNet, At
  <1>2. "dNet" \in DeletePhase \ {"dMachines", "dFinal"} BY DEF DeletePhase
  <1>3. TypeOK /\ ~machines /\ mem \in OscCluster /\ Heir(mem, mem) BY <1>1, <1>2, Deleting
  <1>4. PICK w : w = WithNet(mem) OBVIOUS
  <1>5. Heir(mem, w) BY <1>3, <1>4, WithTypes
  <1>6. PICK i \in Nat : i = NetId(mem) BY <1>3, LookupTypes
  <1>7. Onward(Proceed("dNet")) BY <1>2, ProceedOnward
  <1>8. CASE ReuseNet \/ ~NetFound(mem)
    <2>1. Continue(Proceed("dNet"), mem) BY <1>8 DEF DeleteNet
    <2>. QED BY <1>1, <1>2, <1>3, <1>7, <2>1, TearGoes
  <1>9. CASE ~(ReuseNet \/ ~NetFound(mem))
    <2>1. DeleteCall(NetInUse(i), NetDeleted(i), Proceed("dNet"), w, w)
      BY <1>4, <1>6, <1>9 DEF DeleteNet
    <2>2. NetDeleted(i) \in Cloud BY <1>3, RequestTypes
    <2>3. cloud' = NetDeleted(i) => Shrinks BY <1>3, <1>9, RemovalsShrink
    <2>. QED BY <1>1, <1>2, <1>3, <1>5, <1>7, <2>1, <2>2, <2>3, TearDeletes
  <1>. QED BY <1>8, <1>9

LEMMA RemoveFinalizerOk == ASSUME ClusterInv, RemoveFinalizer PROVE ClusterInv'
  <1>1. at.phase = "dFinal" BY DEF RemoveFinalizer, At
  <1>2. "dFinal" \in DeletePhase \ {"dMachines"} BY DEF DeletePhase
  <1>3. ~machines /\ mem \in OscCluster BY <1>1, <1>2, Deleting
  <1>4. TypeOK /\ at' = Start("patch") /\ mem' = [mem EXCEPT !.fin = "removed"]
        /\ UNCHANGED <<cloud, obj, cache, old, machines, faults, edits>>
    BY DEF ClusterInv, RemoveFinalizer, EndPass, Continue
  <1>5. mem' \in OscCluster /\ mem'.del = mem.del BY <1>3, <1>4 DEF OscCluster
  <1>6. TypeOK' BY <1>4, <1>5, PatchType DEF TypeOK
  <1>7. faults' >= faults BY <1>4, ScopeAssumption DEF TypeOK
  <1>8. Shrinks BY <1>4, ShrinksSame
  <1>. QED BY <1>1, <1>2, <1>3, <1>4, <1>5, <1>6, <1>7, <1>8, PatchOnward, TearStep
--------------------------------------------------------------------------------
(* What the cloud does by itself.  Before the teardown a VM may boot, and  *)
(* nothing else; a pass has nothing to do with it.                         *)
LEMMA CloudStepType == ASSUME TypeOK, CloudStep PROVE TypeOK'
  <1>1. UNCHANGED <<obj, cache, old, mem, at, machines, faults, edits>> BY DEF CloudStep, PassUnchanged
  <1>2. cloud.vms \subseteq Vm /\ cloud.nats \subseteq NatService BY CloudFields
  <1>3. ASSUME NEW v \in cloud.vms, NEW s \in VmState,
               cloud' = [cloud EXCEPT !.vms = (@ \ {v}) \cup {[v EXCEPT !.state = s]}]
        PROVE  cloud' \in Cloud
    <2>1. PICK w : w = [v EXCEPT !.state = s] OBVIOUS
    <2>2. w \in Vm BY <1>2, <2>1 DEF Vm
    <2>3. (cloud.vms \ {v}) \cup {w} \in SUBSET Vm BY <1>2, <2>2
    <2>. QED BY <1>3, <2>1, <2>3 DEF TypeOK, Cloud
  <1>4. CASE VmBoots
    <2>1. PICK v \in cloud.vms : cloud' = [cloud EXCEPT !.vms = (@ \ {v}) \cup {[v EXCEPT !.state = "running"]}]
      BY <1>4 DEF VmBoots
    <2>2. "running" \in VmState BY DEF VmState
    <2>. QED BY <1>1, <1>3, <2>1, <2>2 DEF TypeOK
  <1>5. CASE VmTerminates
    <2>1. PICK v \in cloud.vms : cloud' = [cloud EXCEPT !.vms = (@ \ {v}) \cup {[v EXCEPT !.state = "terminated"]}]
      BY <1>5 DEF VmTerminates
    <2>2. "terminated" \in VmState BY DEF VmState
    <2>. QED BY <1>1, <1>3, <2>1, <2>2 DEF TypeOK
  <1>6. CASE NatVanishes
    <2>1. PICK n \in cloud.nats : cloud' = [cloud EXCEPT !.nats = @ \ {n}] BY <1>6 DEF NatVanishes
    <2>2. cloud.nats \ {n} \in SUBSET NatService BY <1>2
    <2>3. cloud' \in Cloud BY <2>1, <2>2 DEF TypeOK, Cloud
    <2>. QED BY <1>1, <2>3 DEF TypeOK
  <1>. QED BY <1>4, <1>5, <1>6 DEF CloudStep

LEMMA CloudStepOk == ASSUME ClusterInv, CloudStep PROVE ClusterInv'
  <1>1. /\ VmBoots \/ VmTerminates \/ NatVanishes
        /\ UNCHANGED <<obj, cache, old, mem, at, machines, faults, edits>>
    BY DEF CloudStep, PassUnchanged
  <1>2. TypeOK /\ TypeOK' /\ NoDuplicates /\ Passes /\ ReuseSpared BY CloudStepType DEF ClusterInv
  <1>3. Passes' /\ (Spared' <=> Spared) BY <1>1, <1>2 DEF Passes, Spared
  <1>4. ReuseSpared' BY <1>1, <1>2 DEF ReuseSpared, At, ReuseNet, ReuseSG
  <1>5. CASE ~Spared
    <2>1. Shrinks BY <1>1, <1>2, CloudStepShrinks
    <2>2. faults' >= faults BY <1>1, <1>2, ScopeAssumption DEF TypeOK
    <2>3. NoDuplicates' /\ (ReuseSG' => ReusedKept') /\ IsFiniteSet(cloud'.ips) /\ IpsBounded'
      BY <1>1, <1>2, <2>1, <2>2, ShrinksOk
    <2>. QED BY <1>2, <1>3, <1>4, <1>5, <2>3 DEF ClusterInv
  <1>6. CASE Spared
    <2>1. CloudOk /\ CopiesOk /\ BehindOk /\ LoopsOk /\ CallsOk /\ IpsOwed /\ IsFiniteSet(cloud.ips)
      BY <1>6 DEF ClusterInv, BuildInv
    <2>2. ~VmTerminates /\ ~NatVanishes
      BY <2>1 DEF CloudOk, VmsOk, NatsOk, VmTerminates, NatVanishes
    <2>3. PICK v \in cloud.vms :
            /\ v.state = "pending"
            /\ cloud' = [cloud EXCEPT !.vms = (@ \ {v}) \cup {[v EXCEPT !.state = "running"]}]
      BY <1>1, <2>2 DEF VmBoots
    <2>4. Grows /\ CloudOk' /\ cloud'.ips = cloud.ips /\ cloud'.nats = cloud.nats /\ cloud'.vms # {}
      BY <1>1, <1>2, <2>1, <2>3, VmBootsOk
    <2>5. /\ cloud'.nets = cloud.nets /\ cloud'.subnets = cloud.subnets
          /\ cloud'.iss = cloud.iss /\ cloud'.rts = cloud.rts /\ cloud'.sgs = cloud.sgs
          /\ cloud'.peerings = cloud.peerings /\ cloud'.mgmt = cloud.mgmt
      BY <1>2, <2>3 DEF TypeOK, Cloud
    <2>6. obj'.opt = obj.opt /\ ReuseNet' = ReuseNet /\ ReuseSG' = ReuseSG /\ Internet' = Internet
      BY <1>1 DEF ReuseNet, ReuseSG, Internet
    <2>7. CopyOk(obj)' /\ CopyOk(cache)' /\ CopyOk(old)' /\ CopyOk(mem)'
      <3>1. PICK o \in OscCluster, c \in OscCluster, d \in OscCluster, n \in OscCluster :
              o = obj /\ c = cache /\ d = old /\ n = mem
        BY <1>2 DEF TypeOK
      <3>2. CopyOk(o)' /\ CopyOk(c)' /\ CopyOk(d)' /\ CopyOk(n)'
        BY <2>1, <2>4, <2>6, <3>1, GrowsCopy DEF CopiesOk
      <3>. QED BY <1>1, <3>1, <3>2
    <2>8. NotAhead(cache)' /\ (at'.phase # "idle" => NotAhead(mem)')
      BY <1>1, <2>1 DEF CopiesOk, NotAhead
    <2>9. machines' => AllMade' BY <1>1, <2>1, <2>4, <2>6, GrowsAll DEF CopiesOk
    <2>10. CopiesOk' BY <2>7, <2>8, <2>9 DEF CopiesOk
    <2>11. BehindOk'
      <3>1. CASE at.phase \in BuildPhase
        <4>1. Heir(mem, mem') BY <1>1, <1>2 DEF Heir, TypeOK
        <4>. QED BY <1>1, <2>4, <3>1, <4>1, SamePhase
      <3>2. CASE at.phase \notin BuildPhase BY <1>1, <3>2 DEF BehindOk
      <3>. QED BY <3>1, <3>2
    <2>12. \A t, r : Serves(t, r)' <=> Serves(t, r) BY <2>5 DEF Serves
    <2>13. \A r : HasSubnet(r)' <=> HasSubnet(r) BY <2>5, <2>6 DEF HasSubnet
    <2>14. \A r : HasTable(r)' <=> HasTable(r) BY <2>5, <2>6, <2>12 DEF HasTable
    <2>15. \A s : HasGroup(s)' <=> HasGroup(s) BY <2>5 DEF HasGroup
    <2>16. Linked' = Linked BY <2>5 DEF Linked
    <2>17. LoopsOk' BY <1>1, <2>1, <2>6, <2>13, <2>14, <2>15 DEF LoopsOk, At
    <2>18. ~At("bastion", "create") BY <2>1, <2>3 DEF CallsOk
    <2>19. CallsOk' BY <1>1, <2>1, <2>4, <2>5, <2>6, <2>12, <2>13, <2>16, <2>18 DEF CallsOk, At
    <2>20. IsFiniteSet(cloud'.ips) /\ IpsOwed'
      <3>1. /\ cloud.nats # {} => cloud'.nats # {}
            /\ cloud.vms # {} => cloud'.vms # {}
            /\ At("natService", "create") => At("natService", "create")'
        BY <1>1, <2>4 DEF At
      <3>. QED BY <1>1, <1>2, <2>1, <2>4, <2>6, <2>18, <3>1, IpsKept
    <2>21. NoDuplicates' /\ ReusedKept' /\ IpsBounded'
      BY <1>2, <2>4, <2>20, OkIsSingleNext, OkIsKeptNext, IpsBoundedNext
    <2>. QED BY <1>2, <1>3, <1>4, <2>4, <2>10, <2>11, <2>17, <2>19, <2>20, <2>21 DEF ClusterInv, BuildInv
  <1>. QED BY <1>5, <1>6
--------------------------------------------------------------------------------
(* The initial states. *)
LEMMA NewIsOk ==
  ASSUME NEW s \in Specs, NEW o \in Configs
  PROVE  CopyOk(NewOscCluster(s, o)) /\ ~NewOscCluster(s, o).del /\ NewOscCluster(s, o) \in OscCluster
  <1>1. PICK n : n = NewOscCluster(s, o) OBVIOUS
  <1>2. n \in OscCluster BY <1>1, NewType
  <1>3. /\ n.del = FALSE /\ n.ready = FALSE /\ n.gen = 1 /\ n.st = NoResources
        /\ n.rec = [r \in Reconcilers |-> 0]
    BY <1>1 DEF NewOscCluster
  <1>4. /\ n.st.net = 0 /\ n.st.is = 0 /\ n.st.nat = 0 /\ n.st.natIp = 0 /\ n.st.vm = 0
        /\ n.st.vmIp = 0 /\ n.st.peer = 0 /\ n.st.nap = 0
        /\ \A r \in Ranges : n.st.sn[r] = 0
        /\ \A g \in SGNames : n.st.sg[g] = 0
    BY <1>3 DEF NoResources
  <1>5. StatusOk(n) BY <1>4 DEF StatusOk
  <1>6. RecordOk(n) BY <1>3 DEF RecordOk
  <1>. QED BY <1>1, <1>2, <1>3, <1>5, <1>6 DEF CopyOk

(* The account is empty, or holds what the spec reuses. *)
LEMMA InitCloud ==
  ASSUME Init
  PROVE  /\ cloud \in Cloud
         /\ cloud.next = FirstId /\ cloud.iss = {} /\ cloud.rts = {} /\ cloud.nats = {} /\ cloud.ips = {}
         /\ cloud.vms = {} /\ cloud.peerings = {} /\ cloud.naps = {} /\ cloud.mgmt = {}
         /\ ~ReuseNet => cloud.nets = {} /\ cloud.subnets = {} /\ cloud.sgs = {}
         /\ ReuseNet =>
              /\ cloud.nets = {[id |-> ReusedNet, tagged |-> FALSE]}
              /\ cloud.subnets = {[id |-> ReusedId[r], net |-> ReusedNet, range |-> r] : r \in Ranges}
              /\ cloud.sgs = {[id |-> ReusedId[s], net |-> ReusedNet, name |-> s, ruled |-> TRUE] :
                                s \in {Foreign} \cup (IF ReuseSG THEN SGNames ELSE {})}
  <1>1. EmptyCloud \in Cloud BY ReusedIds DEF EmptyCloud, Cloud, Id, LbState
  <1>2. CASE ~ReuseNet
    <2>1. cloud = EmptyCloud BY <1>2 DEF Init
    <2>. QED BY <1>1, <1>2, <2>1 DEF EmptyCloud
  <1>3. CASE ReuseNet
    <2>. DEFINE names == {Foreign} \cup (IF ReuseSG THEN SGNames ELSE {})
                N == {[id |-> ReusedNet, tagged |-> FALSE]}
                B == {[id |-> ReusedId[r], net |-> ReusedNet, range |-> r] : r \in Ranges}
                G == {[id |-> ReusedId[s], net |-> ReusedNet, name |-> s, ruled |-> TRUE] : s \in names}
    <2>1. cloud = [EmptyCloud EXCEPT !.nets = N, !.subnets = B, !.sgs = G]
      BY <1>3 DEF Init, ReusedCloud
    <2>2. names \subseteq SGNames \cup {Foreign} OBVIOUS
    <2>. HIDE DEF names
    <2>3. N \in SUBSET Net BY DEF Net, Id, ReusedNet
    <2>4. B \in SUBSET Subnet BY ReusedIds DEF Subnet, Id, ReusedNet
    <2>5. G \in SUBSET SecurityGroup
      <3>1. \A s \in names : ReusedId[s] \in Nat /\ s \in SGNames \cup {Foreign} BY <2>2, ReusedIds
      <3>2. \A s \in names : [id |-> ReusedId[s], net |-> ReusedNet, name |-> s, ruled |-> TRUE] \in SecurityGroup
        BY <3>1 DEF SecurityGroup, Id, ReusedNet
      <3>. QED BY <3>2
    <2>. HIDE DEF N, B, G
    <2>6. cloud \in Cloud BY <1>1, <2>1, <2>3, <2>4, <2>5 DEF Cloud
    <2>7. /\ cloud.next = FirstId /\ cloud.iss = {} /\ cloud.rts = {} /\ cloud.nats = {} /\ cloud.ips = {}
          /\ cloud.vms = {} /\ cloud.peerings = {} /\ cloud.naps = {} /\ cloud.mgmt = {}
          /\ cloud.nets = N /\ cloud.subnets = B /\ cloud.sgs = G
      BY <2>1 DEF EmptyCloud
    <2>. QED BY <1>3, <2>6, <2>7 DEF N, B, G, names
  <1>. QED BY <1>2, <1>3

LEMMA InitCloudOk == ASSUME Init PROVE CloudOk
  <1>1. FirstId \in Nat /\ FirstId > 1 /\ cloud.next = FirstId BY InitCloud, ReusedIds
  <1>2. NetsOk
    <2>1. CASE ~ReuseNet BY <2>1, InitCloud DEF NetsOk, Distinct, Known, Tagged, AtMostOne
    <2>2. CASE ReuseNet
      <3>1. \A n \in cloud.nets : n.id = 1 /\ n.tagged = FALSE BY <2>2, InitCloud DEF ReusedNet
      <3>2. Distinct(cloud.nets) BY <2>2, InitCloud DEF Distinct
      <3>3. Tagged(cloud.nets) = {} BY <3>1 DEF Tagged
      <3>4. Known(cloud.nets) BY <1>1, <3>1 DEF Known
      <3>5. ReusedNet \in Ids(cloud.nets)
        <4>1. PICK n \in cloud.nets : TRUE BY <2>2, InitCloud
        <4>. QED BY <3>1, <4>1 DEF Ids, ReusedNet
      <3>. QED BY <3>2, <3>3, <3>4, <3>5 DEF NetsOk, AtMostOne
    <2>. QED BY <2>1, <2>2
  <1>3. SubnetsOk
    <2>1. CASE ~ReuseNet BY <2>1, InitCloud DEF SubnetsOk, Distinct, Known, InNet
    <2>2. CASE ReuseNet
      <3>1. cloud.subnets = {[id |-> ReusedId[r], net |-> ReusedNet, range |-> r] : r \in Ranges}
        BY <2>2, InitCloud
      <3>2. \A s \in cloud.subnets : s.range \in Ranges /\ s.id = ReusedId[s.range]
        BY <3>1
      <3>3. Known(cloud.subnets) BY <1>1, <3>2, ReusedIds DEF Known
      <3>4. \A s, t \in cloud.subnets : s.range = t.range => s = t BY <3>1
      <3>5. ASSUME NEW r \in Ranges PROVE ReusedId[r] \in Ids(cloud.subnets)
        <4>1. PICK s \in cloud.subnets : s = [id |-> ReusedId[r], net |-> ReusedNet, range |-> r] BY <3>1
        <4>2. ReusedId[r] = s.id BY <4>1
        <4>. QED BY <4>2 DEF Ids
      <3>. QED BY <2>2, <3>3, <3>4, <3>5 DEF SubnetsOk
    <2>. QED BY <2>1, <2>2
  <1>4. GroupsOk
    <2>1. CASE ~ReuseNet BY <2>1, InitCloud DEF GroupsOk, Distinct, Known, AtMostOne
    <2>2. CASE ReuseNet
      <3>. DEFINE names == {Foreign} \cup (IF ReuseSG THEN SGNames ELSE {})
      <3>1. cloud.sgs = {[id |-> ReusedId[s], net |-> ReusedNet, name |-> s, ruled |-> TRUE] : s \in names}
        BY <2>2, InitCloud
      <3>2. names \subseteq SGNames \cup {Foreign} /\ (~ReuseSG => names = {Foreign}) OBVIOUS
      <3>3. ReusedGroups = {ReusedId[s] : s \in names} BY DEF ReusedGroups
      <3>. HIDE DEF names
      <3>4. \A g \in cloud.sgs : g.name \in names /\ g.id = ReusedId[g.name] BY <3>1
      <3>5. Known(cloud.sgs) BY <1>1, <3>2, <3>4, ReusedIds DEF Known
      <3>6. \A g, h \in cloud.sgs : g.name = h.name => g = h
        <4>1. \A g \in cloud.sgs : \E s \in names :
                g = [id |-> ReusedId[s], net |-> ReusedNet, name |-> s, ruled |-> TRUE]
          BY <3>1
        <4>2. \A g \in cloud.sgs :
                g = [id |-> ReusedId[g.name], net |-> ReusedNet, name |-> g.name, ruled |-> TRUE]
          BY <4>1
        <4>. QED BY <4>2
      <3>7. \A s \in SGNames : AtMostOne({g \in cloud.sgs : g.name = s}) BY <3>6 DEF AtMostOne
      <3>8. ~ReuseSG => Distinct(cloud.sgs) BY <3>2, <3>4, <3>6 DEF Distinct
      <3>9. ReusedGroups \subseteq Ids(cloud.sgs)
        <4>1. ASSUME NEW s \in names PROVE ReusedId[s] \in Ids(cloud.sgs)
          <5>1. PICK g \in cloud.sgs :
                  g = [id |-> ReusedId[s], net |-> ReusedNet, name |-> s, ruled |-> TRUE]
            BY <3>1
          <5>2. ReusedId[s] = g.id BY <5>1
          <5>. QED BY <5>2 DEF Ids
        <4>. QED BY <3>3, <4>1
      <3>. QED BY <3>5, <3>7, <3>8, <3>9 DEF GroupsOk
    <2>. QED BY <2>1, <2>2
  <1>5. /\ cloud.iss = {} /\ cloud.rts = {} /\ cloud.nats = {} /\ cloud.ips = {} /\ cloud.vms = {}
        /\ cloud.peerings = {} /\ cloud.naps = {} /\ cloud.mgmt = {}
    BY InitCloud
  <1>6. ServicesOk /\ TablesOk
    BY <1>5 DEF ServicesOk, TablesOk, Linked, Distinct, Known, AtMostOne, InNet
  <1>7. NatsOk /\ PeeringsOk BY <1>5 DEF NatsOk, PeeringsOk, Tagged, Distinct, Known, AtMostOne, InNet
  <1>8. NapsOk /\ VmsOk BY <1>5 DEF NapsOk, VmsOk, Known, AtMostOne, InNet
  <1>. QED BY <1>1, <1>2, <1>3, <1>4, <1>5, <1>6, <1>7, <1>8 DEF CloudOk

LEMMA InitOk == ASSUME Init PROVE ClusterInv
  <1>1. PICK s \in Specs, o \in Configs : obj = NewOscCluster(s, o) BY DEF Init
  <1>2. /\ cache = obj /\ old = NoScope /\ mem = NoScope /\ at = Start("idle") /\ machines = FALSE
        /\ faults = 0 /\ edits = 0
    BY DEF Init
  <1>3. obj \in OscCluster /\ ~obj.del /\ CopyOk(obj) BY <1>1, NewIsOk
  <1>4. NoScope \in OscCluster /\ ~NoScope.del /\ CopyOk(NoScope)
    <2>1. (CHOOSE x \in Specs : TRUE) \in Specs /\ (CHOOSE x \in Configs : TRUE) \in Configs
      BY ScopeAssumption
    <2>. QED BY <2>1, NewIsOk DEF NoScope
  <1>5. at \in Position /\ at.phase = "idle" /\ at.step = "start" BY <1>2, StartType DEF Start, Phase
  <1>6. TypeOK
    <2>1. cloud \in Cloud BY InitCloud
    <2>2. 0 \in 0 .. MaxFaults /\ 0 \in 0 .. MaxEdits BY ScopeAssumption
    <2>. QED BY <1>2, <1>3, <1>4, <1>5, <2>1, <2>2 DEF TypeOK
  <1>7. Passes BY <1>2, <1>3, <1>4, <1>5 DEF Passes, BuildPhase, DeletePhase
  <1>8. ReuseSpared BY <1>5 DEF ReuseSpared, At
  <1>9. CloudOk BY InitCloudOk
  <1>10. NotAhead(cache)
    <2>1. obj.gen \in Nat BY <1>3 DEF OscCluster
    <2>. QED BY <1>2, <2>1 DEF NotAhead
  <1>11. CopiesOk BY <1>2, <1>3, <1>4, <1>5, <1>10 DEF CopiesOk
  <1>12. BehindOk /\ LoopsOk /\ CallsOk
    BY <1>5 DEF BehindOk, LoopsOk, CallsOk, At, BuildPhase, RtPhases
  <1>13. cloud.ips = {} /\ IsFiniteSet(cloud.ips) /\ Cardinality(cloud.ips) = 0
    BY InitCloud, FS_EmptySet
  <1>14. IpsOwed /\ IpsBounded
    <2>1. PICK x, y \in {0, 1} :
            x = (IF Internet THEN 1 ELSE 0) /\ y = (IF Bastion THEN 1 ELSE 0) OBVIOUS
    <2>2. PICK n, v \in {0, 1} :
            /\ n = (IF Internet /\ cloud.nats = {} /\ ~At("natService", "create") THEN 1 ELSE 0)
            /\ v = (IF Bastion /\ cloud.vms = {} /\ ~At("bastion", "create") THEN 1 ELSE 0)
      OBVIOUS
    <2>3. n <= x /\ v <= y BY <2>1, <2>2
    <2>4. 0 + (n + v) <= x + y + 0 BY <2>3
    <2>. QED BY <1>2, <1>13, <2>1, <2>2, <2>4 DEF IpsOwed, IpsBounded, Owed
  <1>15. NoDuplicates
    BY <1>9 DEF CloudOk, NetsOk, SubnetsOk, ServicesOk, TablesOk, NatsOk, PeeringsOk, NapsOk, GroupsOk, VmsOk,
                NoDuplicates, AtMostOne, Tagged, Linked, TableOf
  <1>16. ReusedKept BY <1>9, OkIsKept
  <1>. QED BY <1>6, <1>7, <1>8, <1>9, <1>11, <1>12, <1>13, <1>14, <1>15, <1>16 DEF ClusterInv, BuildInv
--------------------------------------------------------------------------------
(* Every step of the specification, by kind. *)
LEMMA BuildStepsOk == ASSUME ClusterInv, BuildStep PROVE ClusterInv' /\ Builds
  <1>1. CASE Skip \/ FoundNet \/ CreateNet \/ TagNet
    BY <1>1, SkipOk, FoundNetOk, CreateNetOk, TagNetOk
  <1>2. CASE StartSubnets \/ (\E r \in Ranges : VisitSubnet(r)) \/ EndSubnets
    BY <1>2, StartSubnetsOk, VisitSubnetOk, EndSubnetsOk
  <1>3. CASE ReconcileInternetService \/ LinkInternetService
    BY <1>3, ReconcileInternetServiceOk, LinkInternetServiceOk
  <1>4. CASE StartRouteTables \/ (\E r \in Ranges : VisitRouteTable(r)) \/ LinkRouteTable
               \/ ReconcileRoute \/ EndRouteTables
    BY <1>4, StartRouteTablesOk, VisitRouteTableOk, LinkRouteTableOk, ReconcileRouteOk, EndRouteTablesOk
  <1>5. CASE ReconcileNatService \/ CreateNatService
    BY <1>5, ReconcileNatServiceOk, CreateNatServiceOk
  <1>6. CASE ReconcileNetPeering \/ TagNetPeering \/ AcceptNetPeering
    BY <1>6, ReconcileNetPeeringOk, TagNetPeeringOk, AcceptNetPeeringOk
  <1>7. CASE StartPeeringRoutes \/ RoutePeering \/ ReconcileNetAccessPoint
    BY <1>7, StartPeeringRoutesOk, RoutePeeringOk, ReconcileNetAccessPointOk
  <1>8. CASE StartSecurityGroups \/ (\E s \in SGNames : VisitSecurityGroup(s)) \/ AddRules \/ EndSecurityGroups
    BY <1>8, StartSecurityGroupsOk, VisitSecurityGroupOk, AddRulesOk, EndSecurityGroupsOk
  <1>9. CASE ReconcileLoadBalancer \/ ConfigureHealthCheck \/ TagLoadBalancer
    BY <1>9, ReconcileLoadBalancerOk, ConfigureHealthCheckOk, TagLoadBalancerOk
  <1>10. CASE ReconcileBastion \/ CreateBastion \/ SetReady
    BY <1>10, ReconcileBastionOk, CreateBastionOk, SetReadyOk
  <1>. QED BY <1>1, <1>2, <1>3, <1>4, <1>5, <1>6, <1>7, <1>8, <1>9, <1>10 DEF BuildStep

LEMMA TeardownStepsOk == ASSUME ClusterInv, TeardownStep PROVE ClusterInv'
  <1>1. CASE DeleteStart \/ DeleteBastion \/ DeleteLoadBalancer \/ DeleteNatService
    BY <1>1, DeleteStartOk, DeleteBastionOk, DeleteLoadBalancerOk, DeleteNatServiceOk
  <1>2. CASE (\E k \in {"natIp", "vmIp"} : DeletePublicIp(k)) \/ EndPublicIps
    BY <1>2, DeletePublicIpOk, EndPublicIpsOk
  <1>3. CASE DeleteNetAccessPoint \/ DeletePeeringRoutes \/ DeleteNetPeering \/ DeleteRouteTable
    BY <1>3, DeleteNetAccessPointOk, DeletePeeringRoutesOk, DeleteNetPeeringOk, DeleteRouteTableOk
  <1>4. CASE ListSecurityGroups \/ DeleteSecurityGroup \/ EndSecurityGroupDeletion
    BY <1>4, ListSecurityGroupsOk, DeleteSecurityGroupOk, EndSecurityGroupDeletionOk
  <1>5. CASE DeleteInternetService \/ DeleteUnlinkedService
    BY <1>5, DeleteInternetServiceOk, DeleteUnlinkedServiceOk
  <1>6. CASE StartSubnetDeletion \/ (\E r \in Ranges : DeleteSubnet(r)) \/ EndSubnetDeletion
    BY <1>6, StartSubnetDeletionOk, DeleteSubnetOk, EndSubnetDeletionOk
  <1>7. CASE DeleteNet \/ RemoveFinalizer BY <1>7, DeleteNetOk, RemoveFinalizerOk
  <1>. QED BY <1>1, <1>2, <1>3, <1>4, <1>5, <1>6, <1>7 DEF TeardownStep

(* Nothing happens. *)
LEMMA StutterOk == ASSUME ClusterInv, UNCHANGED vars PROVE ClusterInv'
  <1>1. UNCHANGED <<cloud, obj, cache, old, mem, at, machines, faults, edits>> BY DEF vars
  <1>2. TypeOK /\ obj \in OscCluster /\ cache \in OscCluster /\ Passes BY DEF ClusterInv, TypeOK
  <1>3. TypeOK' BY <1>1, <1>2 DEF TypeOK
  <1>4. Spared' => Spared BY <1>1 DEF Spared
  <1>5. (cache.del => cache'.del) /\ (cache'.del => obj'.del) BY <1>1, <1>2 DEF Passes
  <1>6. obj'.opt = obj.opt /\ faults' >= faults BY <1>1, <1>2, ScopeAssumption DEF TypeOK
  <1>7. Spared' => /\ CopyOk(obj)' /\ CopyOk(cache)' /\ NotAhead(cache)'
                   /\ at.phase # "idle" => NotAhead(mem)'
                   /\ machines' => AllMade'
    <2>. HAVE Spared'
    <2>1. CloudOk /\ CopiesOk BY <1>4 DEF ClusterInv, BuildInv
    <2>2. PICK o \in OscCluster, c \in OscCluster : o = obj /\ c = cache BY <1>2
    <2>3. CopyOk(o)' /\ CopyOk(c)' BY <1>1, <1>3, <1>6, <2>1, <2>2, CloudStays DEF CopiesOk
    <2>4. CopyOk(obj)' /\ CopyOk(cache)' BY <1>1, <2>2, <2>3
    <2>5. NotAhead(cache)' /\ (at.phase # "idle" => NotAhead(mem)') BY <1>1, <2>1 DEF CopiesOk, NotAhead
    <2>6. machines' => AllMade' BY <1>1, <1>3, <1>6, <2>1, CloudStays DEF CopiesOk
    <2>. QED BY <2>4, <2>5, <2>6
  <1>. QED BY <1>1, <1>3, <1>4, <1>5, <1>6, <1>7, WorldStep

(* The invariant from which all the others follow is inductive. *)
THEOREM ClusterInvariant == Spec => []ClusterInv
  <1>1. Init => ClusterInv BY InitOk
  <1>2. ClusterInv /\ [Next]_vars => ClusterInv'
    <2>. SUFFICES ASSUME ClusterInv, [Next]_vars PROVE ClusterInv' OBVIOUS
    <2>1. CASE PassStep
      BY <2>1, ReconcileOk, BuildStepsOk, TeardownStepsOk, CloseObjectOk, CloseStatusOk DEF PassStep
    <2>2. CASE Environment
      BY <2>2, SyncOk, LookupFailsOk, CrashOk, EditOk, DeleteOk, MachinesAppearOk, MachinesVanishOk, CloudStepOk
         DEF Environment
    <2>3. CASE Done BY <2>3, StutterOk DEF Done
    <2>4. CASE UNCHANGED vars BY <2>4, StutterOk
    <2>. QED BY <2>1, <2>2, <2>3, <2>4 DEF Next
  <1>. QED BY <1>1, <1>2, PTL DEF Spec
--------------------------------------------------------------------------------
(* Until the deletion, and as long as there are Machines, all that was made is there. *)
LEMMA NotDeleted == ASSUME ClusterInv, ~obj.del \/ machines PROVE TypeOK /\ CloudOk /\ CopiesOk
  <1>1. Spared BY DEF ClusterInv, Passes, Spared
  <1>. QED BY <1>1 DEF ClusterInv, BuildInv

(* In every behaviour of the OscCluster controller every variable keeps    *)
(* its type: every handler leaves a cloud and an object of the API.        *)
THEOREM ClusterTypeCorrect == Spec => []TypeOK
  <1>1. ClusterInv => TypeOK BY DEF ClusterInv
  <1>. QED BY <1>1, ClusterInvariant, PTL

(* What SetReconciliationGeneration has recorded for the object's          *)
(* generation is in the cloud and can be found from its status, for any    *)
(* options and any number of faults and edits.                             *)
THEOREM RecordedIsBuiltAlways == Spec => []RecordedIsBuilt
  <1>1. ClusterInv => RecordedIsBuilt
    <2>. SUFFICES ASSUME ClusterInv, ~obj.del, NEW k \in Reconcilers, obj.rec[k] = obj.gen PROVE Built(k, obj)
      BY DEF RecordedIsBuilt
    <2>1. TypeOK /\ CloudOk /\ CopiesOk BY NotDeleted
    <2>2. obj \in OscCluster /\ CopyOk(obj) BY <2>1 DEF TypeOK, CopiesOk
    <2>3. StatusOk(obj) /\ Made(k, obj.spec) BY <2>2 DEF CopyOk, RecordOk
    <2>. QED BY <2>1, <2>2, <2>3, MadeIsBuilt
  <1>. QED BY <1>1, ClusterInvariant, PTL

(* A cluster that setReady has published, or that Machines run in, has the *)
(* whole infrastructure of some version of its spec.                       *)
THEOREM ReadyIsBuiltAlways == Spec => []ReadyIsBuilt
  <1>1. ClusterInv => ReadyIsBuilt
    <2>. SUFFICES ASSUME ClusterInv, (obj.ready /\ ~obj.del) \/ machines
                  PROVE  \E s \in Specs : \A k \in Owned : Built(k, [obj EXCEPT !.spec = s])
      BY DEF ReadyIsBuilt
    <2>1. TypeOK /\ CloudOk /\ CopiesOk BY NotDeleted
    <2>2. obj \in OscCluster /\ CopyOk(obj) BY <2>1 DEF TypeOK, CopiesOk
    <2>3. AllMade BY <2>1, <2>2 DEF CopyOk, CopiesOk
    <2>4. PICK s \in Specs : \A k \in Owned : Made(k, s) BY <2>3 DEF AllMade
    <2>5. PICK m : m = [obj EXCEPT !.spec = s] OBVIOUS
    <2>6. m \in OscCluster /\ m.spec = s /\ m.st = obj.st BY <2>2, <2>5 DEF OscCluster
    <2>7. StatusOk(m) BY <2>2, <2>6 DEF CopyOk, StatusOk
    <2>8. \A k \in Owned : Built(k, m) BY <2>1, <2>4, <2>6, <2>7, OwnedFacts, MadeIsBuilt
    <2>. QED BY <2>5, <2>8
  <1>. QED BY <1>1, ClusterInvariant, PTL

(* A NAT service is only ever created in a net with an internet service    *)
(* and a public subnet that is routed to it.                               *)
THEOREM NatBehindGatewayAlways == Spec => []NatBehindGateway
  <1>1. ClusterInv => NatBehindGateway
    <2>. SUFFICES ASSUME ClusterInv, ~obj.del, NEW n \in cloud.nats
                  PROVE  /\ \E i \in cloud.iss : i.net = n.net
                         /\ \E s \in cloud.subnets, t \in cloud.rts :
                              s.net = n.net /\ s.range = Pub /\ t.sub = s.id /\ t.routed
      BY DEF NatBehindGateway
    <2>1. CloudOk BY NotDeleted
    <2>2. Gateway /\ InNet(cloud.nats) /\ ~ReuseNet BY <2>1 DEF CloudOk, NatsOk
    <2>3. InNet(Linked) /\ InNet(cloud.subnets) BY <2>1, <2>2 DEF CloudOk, ServicesOk, SubnetsOk
    <2>4. \A x, y \in Tagged(cloud.nets) : x = y BY <2>1 DEF CloudOk, NetsOk, AtMostOne
    <2>5. PICK net \in Tagged(cloud.nets) : n.net = net.id BY <2>2 DEF InNet
    <2>6. PICK i \in Linked : i.net = net.id BY <2>2, <2>3, <2>4, <2>5 DEF Gateway, InNet
    <2>7. PICK t \in cloud.rts : t.routed /\ Serves(t, Pub) BY <2>2 DEF Gateway
    <2>8. PICK s \in cloud.subnets : s.range = Pub /\ t.sub = s.id BY <2>7 DEF Serves
    <2>9. s.net = net.id BY <2>3, <2>4, <2>5, <2>8 DEF InNet
    <2>. QED BY <2>5, <2>6, <2>7, <2>8, <2>9 DEF Linked
  <1>. QED BY <1>1, ClusterInvariant, PTL

(* No pass builds a second copy of what a lookup can find: on however      *)
(* stale a status, after however many lost replies and crashes.            *)
THEOREM NoDuplicatesAlways == Spec => []NoDuplicates
  <1>1. ClusterInv => NoDuplicates BY DEF ClusterInv
  <1>. QED BY <1>1, ClusterInvariant, PTL

(* The cluster holds no more public IPs than it has users of one and than  *)
(* there were faults.                                                      *)
THEOREM ClusterIpsBounded == Spec => []IpsBounded
  <1>1. ClusterInv => IpsBounded BY DEF ClusterInv
  <1>. QED BY <1>1, ClusterInvariant, PTL

(* A cluster that reuses its security groups keeps all that it reuses, its *)
(* net and subnets too, as config-cluster-reuse.md says.                   *)
THEOREM ReusedKeptAlways == Spec => [](ReuseSG => ReusedKept)
  <1>1. ClusterInv => (ReuseSG => ReusedKept) BY DEF ClusterInv
  <1>. QED BY <1>1, ClusterInvariant, PTL
================================================================================
