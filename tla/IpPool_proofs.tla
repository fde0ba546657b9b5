------------------------------ MODULE IpPool_proofs ------------------------------
(***************************************************************************)
(* No IP is deleted under a NAT service or VM that was asked for with it,  *)
(* for any number of clusters and machines, pools of any size, and any     *)
(* number of faults and of edits that join or leave the pool.              *)
(***************************************************************************)
EXTENDS IpPool, TLAPS

Resource == [state : {"none", "pending", "up", "deleting"}, ip : Nat, attached : BOOLEAN]
Cloud == [ips : SUBSET Nat, next : Nat, res : [Holders -> Resource]]
Places == {"idle", "find", "allocate", "link", "delete", "deallocate", "finalize", "close"}

(* What h has of an IP: its objects' status, or its resource. *)
Names(h) == {mem[h].ip, obj[h].ip, cache[h].ip, cloud.res[h].ip}

(* An IP that is not the pool's was created for one holder, and only that  *)
(* holder ever names it.                                                   *)
Owned == \A h, k \in Holders : \A i \in Names(h) \cap Names(k) : i \in Pool \cup {0} \/ h = k

(* New IPs are new. *)
Fresh ==
  /\ fleet.size < cloud.next /\ 0 \notin cloud.ips
  /\ \A h \in Holders : \A i \in Names(h) : i < cloud.next

(* A pass links an IP that is there, and gives one back only after it has  *)
(* deleted what used it.                                                   *)
LinksWhatIsThere == \A h \in Holders : at[h] = "link" => mem[h].ip \in cloud.ips
DeletesFirst == \A h \in Holders : at[h] = "deallocate" => cloud.res[h].state \in {"none", "deleting"}

Types == TypeOK /\ at \in [Holders -> Places]

IpInv == Types /\ Owned /\ Fresh /\ LinksWhatIsThere /\ DeletesFirst /\ IpsInUseKept

(* At first nobody has an IP. *)
LEMMA InitInvariant == Init => IpInv
<1> SUFFICES ASSUME Init PROVE IpInv
  OBVIOUS
<1>1. fleet \in Fleets /\ fleet.size \in Nat
  BY PoolAssumption DEF Init
<1>2. /\ cloud.ips = Pool /\ cloud.next = fleet.size + 1 /\ cloud \in Cloud
      /\ \A h \in Holders : cloud.res[h] = NoRes
  <2>1. NoRes \in Resource /\ fleet.size + 1 \in Nat /\ Pool \subseteq Nat
    BY <1>1 DEF Pool, NoRes, Resource
  <2>2. cloud = [ips |-> Pool, next |-> fleet.size + 1, res |-> [h \in Holders |-> NoRes]]
    BY DEF Init
  <2> QED
    BY <2>1, <2>2 DEF Cloud
<1>3. NewObject \in Object /\ NewObject.ip = 0
  BY DEF NewObject, Object
<1>4. \A h \in Holders : obj[h] \in Object /\ obj[h].ip = 0
  <2> TAKE h \in Holders
  <2> DEFINE b == h \in fleet.holders
             q == h \in fleet.pooled
  <2>1. b \in BOOLEAN /\ q \in BOOLEAN
    OBVIOUS
  <2>2. obj[h] = [exists |-> b, del |-> FALSE, pooled |-> q, ip |-> 0]
    BY DEF Init, NewObject
  <2> HIDE DEF b, q
  <2> QED
    BY <2>1, <2>2 DEF Object
<1>5. Types
  BY <1>1, <1>2, <1>3, <1>4 DEF Init, Types, TypeOK, Places, Cloud, Resource
<1>6. \A h \in Holders : Names(h) = {0}
  BY <1>2, <1>3, <1>4 DEF Init, Names, NoRes
<1>7. 0 \notin Pool
  BY <1>1 DEF Pool
<1>8. Owned /\ Fresh
  BY <1>1, <1>2, <1>6, <1>7 DEF Owned, Fresh
<1>9. LinksWhatIsThere /\ DeletesFirst /\ IpsInUseKept
  BY <1>2 DEF Init, LinksWhatIsThere, DeletesFirst, IpsInUseKept, NoRes
<1> QED
  BY <1>5, <1>8, <1>9 DEF IpInv

(* What one pass may do to the cloud, the scope and its place without      *)
(* harm: it names an IP of the pool, one it named before or a new one,     *)
(* takes away at most an IP that it names itself, and touches no resource  *)
(* of another holder.                                                      *)
LEMMA StepKeeps ==
  ASSUME IpInv, NEW h \in Holders, NEW p \in Places, NEW o \in Object, NEW c \in Cloud,
         fleet' = fleet, obj' = obj, cache' = cache, cloud' = c,
         mem' = [mem EXCEPT ![h] = o], at' = [at EXCEPT ![h] = p],
         cloud.next <= c.next, 0 \notin c.ips,
         o.ip \in Names(h) \cup Pool \cup {0} \/ (cloud.next <= o.ip /\ o.ip < c.next),
         c.res[h].ip \in Names(h) \cup {0},
         \A k \in Holders \ {h} : c.res[k] = cloud.res[k],
         \A i \in cloud.ips \ c.ips : i \in Names(h) \ Pool,
         p = "link" => o.ip \in c.ips,
         p = "deallocate" => c.res[h].state \in {"none", "deleting"},
         c.res[h].state \in {"pending", "up"} => c.res[h].ip \in c.ips
  PROVE  IpInv'
<1>0. /\ fleet.size \in Nat /\ cloud.next \in Nat /\ c.next \in Nat /\ Pool \subseteq Nat /\ Pool' = Pool
      /\ o.ip \in Nat /\ cloud.ips \subseteq Nat /\ c.ips \subseteq Nat
      /\ \A k \in Holders : Names(k) \subseteq Nat
  BY PoolAssumption DEF IpInv, Types, TypeOK, Pool, Names, Object, Cloud, Resource
<1>1. Types'
  BY DEF IpInv, Types, TypeOK, Cloud, Resource
<1>2. /\ \A k \in Holders : mem'[k] = IF k = h THEN o ELSE mem[k]
      /\ \A k \in Holders : at'[k] = IF k = h THEN p ELSE at[k]
  BY DEF IpInv, Types, TypeOK
<1>3. \A k \in Holders \ {h} : Names(k)' = Names(k)
  BY <1>2 DEF Names
<1>4. \A i \in Names(h)' : i \in Names(h) \cup Pool \cup {0} \/ (cloud.next <= i /\ i < c.next)
  BY <1>2 DEF Names
<1>5. Fresh'
  <2>1. \A i \in Pool : i < cloud.next
    BY <1>0 DEF IpInv, Fresh, Pool
  <2>2. ASSUME NEW i \in Names(h)' PROVE i < c.next
    <3>1. \A j \in Names(h) \cup Pool \cup {0} : j \in Nat /\ j < cloud.next
      <4>1. fleet.size < cloud.next /\ \A j \in Names(h) : j < cloud.next
        BY DEF IpInv, Fresh
      <4>2. 0 < cloud.next
        BY <1>0, <4>1
      <4>3. Names(h) \subseteq Nat
        BY <1>0
      <4>4. \A j \in Pool : j \in Nat /\ j < cloud.next
        BY <1>0, <2>1
      <4> QED
        BY <4>1, <4>2, <4>3, <4>4
    <3> QED
      BY <1>0, <1>4, <3>1
  <2>3. \A k \in Holders \ {h} : \A i \in Names(k)' : i < c.next
    BY <1>0, <1>3 DEF IpInv, Fresh
  <2> QED
    BY <1>0, <2>2, <2>3 DEF IpInv, Fresh
<1>6. Owned'
  <2>1. ASSUME NEW k \in Holders \ {h}, NEW i \in Names(h)' \cap Names(k)'
        PROVE  i \in Pool \cup {0}
    <3>1. i \in Names(k) /\ i < cloud.next
      BY <1>3 DEF IpInv, Fresh
    <3>2. i \in Names(h) \cup Pool \cup {0}
      BY <1>0, <1>4, <3>1
    <3> QED
      BY <3>1, <3>2 DEF IpInv, Owned
  <2> QED
    BY <1>0, <1>3, <2>1 DEF IpInv, Owned
(* An IP that the pass takes away is named by nobody else. *)
<1>7. ASSUME NEW k \in Holders \ {h}, NEW i \in Names(k), i \in cloud.ips
      PROVE  i \in c.ips
  BY <1>7 DEF IpInv, Owned, Fresh
<1>8. LinksWhatIsThere'
  <2>1. ASSUME NEW k \in Holders \ {h}, at[k] = "link" PROVE mem[k].ip \in c.ips
    BY <1>7, <2>1 DEF IpInv, LinksWhatIsThere, Names
  <2> QED
    BY <1>2, <2>1 DEF LinksWhatIsThere
<1>9. DeletesFirst'
  BY <1>2 DEF IpInv, DeletesFirst
<1>10. IpsInUseKept'
  <2>1. ASSUME NEW k \in Holders \ {h}, cloud.res[k].state \in {"pending", "up"} PROVE cloud.res[k].ip \in c.ips
    BY <1>7, <2>1 DEF IpInv, IpsInUseKept, Names
  <2> QED
    BY <2>1 DEF IpsInUseKept
<1> QED
  BY <1>1, <1>5, <1>6, <1>8, <1>9, <1>10 DEF IpInv

(* A step that only reads. *)
LEMMA ContinueKeeps ==
  ASSUME IpInv, NEW h \in Holders, NEW p \in Places, NEW o \in Object,
         o.ip \in Names(h) \cup Pool \cup {0},
         p = "link" => o.ip \in cloud.ips,
         p = "deallocate" => cloud.res[h].state \in {"none", "deleting"},
         Continue(h, p, o)
  PROVE  IpInv'
<1>1. cloud \in Cloud /\ 0 \notin cloud.ips /\ cloud.next \in Nat
  BY DEF IpInv, Types, TypeOK, Cloud, Resource, Fresh
<1>2. cloud.res[h].ip \in Names(h)
  BY DEF Names
<1>3. cloud.res[h].state \in {"pending", "up"} => cloud.res[h].ip \in cloud.ips
  BY DEF IpInv, IpsInUseKept
<1>4. cloud.next <= cloud.next
  BY <1>1
<1> QED
  BY <1>1, <1>2, <1>3, <1>4, StepKeeps DEF Continue

(* A request: it is answered, or the pass ends with what the scope has.    *)
LEMMA CallKeeps ==
  ASSUME IpInv, NEW h \in Holders, NEW p \in Places, NEW o \in Object, NEW c \in Cloud,
         cloud.next <= c.next, 0 \notin c.ips,
         o.ip \in Names(h) \cup Pool \cup {0} \/ (cloud.next <= o.ip /\ o.ip < c.next),
         c.res[h].ip \in Names(h) \cup {0},
         \A k \in Holders \ {h} : c.res[k] = cloud.res[k],
         \A i \in cloud.ips \ c.ips : i \in Names(h) \ Pool,
         p = "link" => o.ip \in c.ips,
         p = "deallocate" => c.res[h].state \in {"none", "deleting"},
         c.res[h].state \in {"pending", "up"} => c.res[h].ip \in c.ips,
         Call(h, c, p, o)
  PROVE  IpInv'
<1>1. CASE cloud' = c /\ at' = [at EXCEPT ![h] = p] /\ mem' = [mem EXCEPT ![h] = o]
  BY <1>1, StepKeeps DEF Call
<1>2. CASE cloud' \in {c, cloud} /\ at' = [at EXCEPT ![h] = "close"] /\ mem' = mem
  <2>1. mem[h] \in Object /\ mem' = [mem EXCEPT ![h] = mem[h]] /\ "close" \in Places
    BY <1>2 DEF IpInv, Types, TypeOK, Places
  <2>2. mem[h].ip \in Names(h)
    BY DEF Names
  <2>3. CASE cloud' = c
    BY <1>2, <2>1, <2>2, <2>3, StepKeeps DEF Call
  <2>4. CASE cloud' = cloud
    <3>1. Continue(h, "close", mem[h]) \/ IpInv'
      <4>1. cloud \in Cloud /\ 0 \notin cloud.ips /\ cloud.next \in Nat /\ cloud.res[h].ip \in Names(h)
        BY DEF IpInv, Types, TypeOK, Cloud, Resource, Fresh, Names
      <4>2. cloud.res[h].state \in {"pending", "up"} => cloud.res[h].ip \in cloud.ips
        BY DEF IpInv, IpsInUseKept
      <4>3. cloud.next <= cloud.next
        BY <4>1
      <4> QED
        BY <1>2, <2>1, <2>2, <2>4, <4>1, <4>2, <4>3, StepKeeps DEF Call
    <3> QED
      BY <2>1, <2>2, <3>1, ContinueKeeps
  <2> QED
    BY <1>2, <2>3, <2>4
<1> QED
  BY <1>1, <1>2 DEF Call

(* The steps that copy, between the scope, the API server and the          *)
(* informers, what a holder has: nobody names a new IP.                    *)
LEMMA CopyKeeps ==
  ASSUME IpInv, Types', fleet' = fleet, cloud'.ips = cloud.ips, cloud'.next = cloud.next,
         \A h \in Holders : Names(h)' \subseteq Names(h) \cup {0},
         \A h \in Holders : at'[h] \in {at[h], "idle", "close"} /\ (at'[h] = "link" => mem'[h] = mem[h]),
         \A h \in Holders : \/ cloud'.res[h].state = cloud.res[h].state /\ cloud'.res[h].ip = cloud.res[h].ip
                            \/ cloud'.res[h].state = "none"
                            \/ /\ cloud.res[h].state = "pending" /\ cloud'.res[h].state = "up"
                               /\ cloud'.res[h].ip = cloud.res[h].ip
  PROVE  IpInv'
<1>0. Pool' = Pool /\ fleet.size \in Nat /\ cloud.next \in Nat
  BY PoolAssumption DEF Pool, IpInv, Types, TypeOK
<1>1. Owned'
  BY <1>0 DEF IpInv, Owned
<1>2. Fresh'
  BY <1>0 DEF IpInv, Fresh
<1>3. LinksWhatIsThere'
  BY DEF IpInv, LinksWhatIsThere
<1>4. DeletesFirst'
  BY DEF IpInv, DeletesFirst
<1>5. IpsInUseKept'
  BY DEF IpInv, IpsInUseKept
<1> QED
  BY <1>1, <1>2, <1>3, <1>4, <1>5 DEF IpInv

(* Close writes what the scope has, or leaves the object. *)
LEMMA CloseKeeps ==
  ASSUME IpInv, NEW h \in Holders, Close(h)
  PROVE  IpInv'
<1>0. mem[h] \in Object /\ obj[h] \in Object /\ NewObject \in Object /\ NewObject.ip = 0
  BY DEF IpInv, Types, TypeOK, NewObject, Object
<1>1. Patched(h) \in Object /\ Patched(h).ip \in {obj[h].ip, mem[h].ip}
  BY <1>0 DEF Patched, Object
<1>2. /\ obj' = [obj EXCEPT ![h] = Patched(h)] \/ obj' = obj
      /\ at' = [at EXCEPT ![h] = "idle"] /\ mem' = [mem EXCEPT ![h] = NewObject]
      /\ UNCHANGED <<fleet, cloud, cache>>
  BY DEF Close
<1>3. Types'
  BY <1>0, <1>1, <1>2 DEF IpInv, Types, TypeOK, Places
<1>4. \A k \in Holders : Names(k)' \subseteq Names(k) \cup {0}
  BY <1>0, <1>1, <1>2 DEF Names, IpInv, Types, TypeOK
<1>5. \A k \in Holders : at'[k] \in {at[k], "idle", "close"} /\ (at'[k] = "link" => mem'[k] = mem[k])
  BY <1>2 DEF IpInv, Types, TypeOK
<1> QED
  BY <1>2, <1>3, <1>4, <1>5, CopyKeeps

(* Every step of a pass. *)
LEMMA PassInvariant ==
  ASSUME IpInv, NEW h \in Holders, Pass(h)
  PROVE  IpInv'
<1>0. /\ cloud \in Cloud /\ mem[h] \in Object /\ cache[h] \in Object /\ cloud.res[h] \in Resource
      /\ cloud.next \in Nat /\ cloud.ips \subseteq Nat /\ 0 \notin cloud.ips
  BY DEF IpInv, Types, TypeOK, Cloud, Resource, Fresh
<1>n. /\ mem[h].ip \in Names(h) /\ cloud.res[h].ip \in Names(h) /\ cache[h].ip \in Names(h)
      /\ cloud.next <= cloud.next
      /\ cloud.res[h].state \in {"pending", "up"} => cloud.res[h].ip \in cloud.ips
  BY <1>0 DEF Names, IpInv, IpsInUseKept
<1>p. Places = {"idle", "find", "allocate", "link", "delete", "deallocate", "finalize", "close"}
  BY DEF Places
<1>t. Tracked(h) \in Object /\ Tracked(h).ip \in Names(h)
  BY <1>0, <1>n DEF Tracked, Object, Resource
<1>i. \A i \in Nat : [mem[h] EXCEPT !.ip = i] \in Object /\ [mem[h] EXCEPT !.ip = i].ip = i
  BY <1>0 DEF Object
<1>1. CASE Reconcile(h)
  <2> DEFINE p == IF cache[h].del THEN "delete" ELSE "find"
  <2>1. p \in Places /\ p # "link" /\ p # "deallocate"
    BY DEF Places
  <2>2. at' = [at EXCEPT ![h] = p] /\ mem' = [mem EXCEPT ![h] = cache[h]] /\ UNCHANGED <<fleet, cloud, obj, cache>>
    BY <1>1 DEF Reconcile
  <2> HIDE DEF p
  <2> QED
    BY <1>0, <1>n, <2>1, <2>2, StepKeeps
<1>2. CASE Find(h)
  BY <1>0, <1>n, <1>p, <1>t, <1>2, ContinueKeeps DEF Find
<1>3. CASE AllocateIP(h)
  <2>1. CASE FreeIp(mem[h].ip) /\ Continue(h, "link", mem[h])
    BY <1>0, <1>n, <1>p, <2>1, ContinueKeeps DEF FreeIp
  <2>2. ASSUME NEW i \in Pool, FreeIp(i), Continue(h, "link", [mem[h] EXCEPT !.ip = i])
        PROVE  IpInv'
    <3>1. i \in Nat /\ i \in cloud.ips
      BY <1>0, <2>2 DEF FreeIp
    <3> QED
      BY <1>i, <1>p, <2>2, <3>1, ContinueKeeps
  <2>3. CASE Continue(h, "close", mem[h])
    BY <1>0, <1>n, <1>p, <2>3, ContinueKeeps
  <2>4. CASE Call(h, IpCreated, "link", [mem[h] EXCEPT !.ip = cloud.next])
    <3>1. /\ IpCreated \in Cloud /\ IpCreated.next = cloud.next + 1
          /\ IpCreated.ips = cloud.ips \cup {cloud.next} /\ IpCreated.res = cloud.res
      <4>1. cloud.next + 1 \in Nat /\ cloud.ips \cup {cloud.next} \in SUBSET Nat
        BY <1>0
      <4> QED
        BY <1>0, <4>1 DEF IpCreated, Cloud
    <3>2. cloud.next # 0 /\ cloud.next <= IpCreated.next /\ cloud.next < IpCreated.next
      <4>1. fleet.size \in Nat /\ fleet.size < cloud.next
        BY PoolAssumption DEF IpInv, Types, TypeOK, Fresh
      <4> QED
        BY <1>0, <3>1, <4>1
    <3> QED
      BY <1>0, <1>i, <1>n, <1>p, <2>4, <3>1, <3>2, CallKeeps
  <2> QED
    BY <1>3, <2>1, <2>2, <2>3, <2>4 DEF AllocateIP
<1>4. CASE CreateNatService(h)
  <2> DEFINE r == [state |-> "up", ip |-> mem[h].ip, attached |-> TRUE]
             c == [cloud EXCEPT !.res[h] = r]
  <2>1. CASE FreeIp(mem[h].ip) /\ Call(h, c, "close", mem[h])
    <3>1. r \in Resource /\ r.ip = mem[h].ip
      BY <1>0 DEF Resource, Object
    <3>2. c \in Cloud /\ c.ips = cloud.ips /\ c.next = cloud.next /\ c.res[h] = r
          /\ \A k \in Holders \ {h} : c.res[k] = cloud.res[k]
      BY <1>0, <3>1 DEF Cloud
    <3> HIDE DEF c, r
    <3> QED
      BY <1>0, <1>n, <1>p, <2>1, <3>1, <3>2, CallKeeps DEF FreeIp
  <2>2. CASE Continue(h, "close", mem[h])
    BY <1>0, <1>n, <1>p, <2>2, ContinueKeeps
  <2> QED
    BY <1>4, <2>1, <2>2 DEF CreateNatService
<1>5. CASE CreateVm(h)
  <2> DEFINE r == [state |-> "pending", ip |-> mem[h].ip, attached |-> FALSE]
             c == [cloud EXCEPT !.res[h] = r]
  <2>1. CASE at[h] = "link" /\ Call(h, c, "close", mem[h])
    <3>0. mem[h].ip \in cloud.ips
      BY <2>1 DEF IpInv, LinksWhatIsThere
    <3>1. r \in Resource /\ r.ip = mem[h].ip
      BY <1>0 DEF Resource, Object
    <3>2. c \in Cloud /\ c.ips = cloud.ips /\ c.next = cloud.next /\ c.res[h] = r
          /\ \A k \in Holders \ {h} : c.res[k] = cloud.res[k]
      BY <1>0, <3>1 DEF Cloud
    <3> HIDE DEF c, r
    <3> QED
      BY <1>0, <1>n, <1>p, <2>1, <3>0, <3>1, <3>2, CallKeeps
  <2>2. CASE Continue(h, "close", mem[h])
    BY <1>0, <1>n, <1>p, <2>2, ContinueKeeps
  <2> QED
    BY <1>5, <2>1, <2>2 DEF CreateVm
<1>6. CASE DeleteResource(h)
  <2> DEFINE r == [cloud.res[h] EXCEPT !.state = "deleting"]
             c == [cloud EXCEPT !.res[h].state = "deleting"]
             o == IF h \in Vms THEN Tracked(h) ELSE mem[h]
  <2>1. CASE Call(h, c, "deallocate", o)
    <3>1. r \in Resource /\ r.ip = cloud.res[h].ip /\ r.state = "deleting"
      BY <1>0 DEF Resource
    <3>2. c \in Cloud /\ c.ips = cloud.ips /\ c.next = cloud.next /\ c.res[h] = r
          /\ \A k \in Holders \ {h} : c.res[k] = cloud.res[k]
      BY <1>0, <3>1 DEF Cloud
    <3>3. o \in Object /\ o.ip \in Names(h)
      BY <1>0, <1>n, <1>t
    <3> HIDE DEF c, r, o
    <3> QED
      BY <1>0, <1>n, <1>p, <2>1, <3>1, <3>2, <3>3, CallKeeps
  <2>2. CASE cloud.res[h].state = "none" /\ Continue(h, "deallocate", mem[h])
    BY <1>0, <1>n, <1>p, <2>2, ContinueKeeps
  <2> QED
    BY <1>6, <2>1, <2>2 DEF DeleteResource
<1>7. CASE DeallocateIP(h)
  <2> DEFINE done == [mem[h] EXCEPT !.ip = 0]
  <2>1. done \in Object /\ done.ip = 0
    BY <1>i
  <2>2. CASE FreeIp(mem[h].ip) /\ CanDelete(mem[h].ip) /\ Call(h, IpDeleted(mem[h].ip), "finalize", done)
    <3> DEFINE c == IpDeleted(mem[h].ip)
    <3>1. c \in Cloud /\ c.ips = cloud.ips \ {mem[h].ip} /\ c.next = cloud.next /\ c.res = cloud.res
      BY <1>0 DEF IpDeleted, Cloud
    <3>2. \A i \in cloud.ips \ c.ips : i \in Names(h) \ Pool
      BY <1>n, <2>2, <3>1 DEF CanDelete
    <3>3. cloud.res[h].state \in {"none", "deleting"}
      BY <1>7 DEF DeallocateIP, IpInv, DeletesFirst
    <3> HIDE DEF c, done
    <3>4. Call(h, c, "finalize", done)
      BY <2>2 DEF c
    <3> QED
      BY <1>0, <1>n, <1>p, <2>1, <3>1, <3>2, <3>3, <3>4, CallKeeps
  <2>3. CASE Continue(h, "finalize", done)
    BY <1>0, <1>n, <1>p, <2>1, <2>3, ContinueKeeps
  <2>4. CASE Continue(h, "close", mem[h]) \/ Continue(h, "finalize", mem[h])
    BY <1>0, <1>n, <1>p, <2>4, ContinueKeeps
  <2> QED
    BY <1>7, <2>2, <2>3, <2>4 DEF DeallocateIP
<1>8. CASE RemoveFinalizer(h)
  <2>1. [mem[h] EXCEPT !.exists = FALSE] \in Object /\ [mem[h] EXCEPT !.exists = FALSE].ip = mem[h].ip
    BY <1>0 DEF Object
  <2> QED
    BY <1>n, <1>p, <1>8, <2>1, ContinueKeeps DEF RemoveFinalizer
<1>9. CASE Close(h)
  BY <1>9, CloseKeeps
<1> QED
  BY <1>1, <1>2, <1>3, <1>4, <1>5, <1>6, <1>7, <1>8, <1>9 DEF Pass

(* Every step of the others: the users, the informers, the cloud, the      *)
(* process that dies.                                                      *)
LEMMA NextInvariant == IpInv /\ [Next]_vars => IpInv'
<1> SUFFICES ASSUME IpInv, [Next]_vars PROVE IpInv'
  OBVIOUS
<1>0. /\ cloud \in Cloud /\ at \in [Holders -> Places] /\ NewObject \in Object /\ NewObject.ip = 0
      /\ \A h \in Holders : mem[h] \in Object /\ obj[h] \in Object /\ cache[h] \in Object
  BY DEF IpInv, Types, TypeOK, NewObject, Object, Cloud, Resource
<1>1. ASSUME NEW h \in Holders, Pass(h) PROVE IpInv'
  BY <1>1, PassInvariant
<1>2. ASSUME NEW h \in Holders, PassFails(h) PROVE IpInv'
  <2>1. at' = [at EXCEPT ![h] = "close"] /\ UNCHANGED <<fleet, cloud, obj, cache, mem>>
    BY <1>2 DEF PassFails
  <2>2. Types'
    BY <2>1 DEF IpInv, Types, TypeOK, Places
  <2>3. \A k \in Holders : Names(k)' = Names(k) /\ at'[k] \in {at[k], "close"}
    BY <1>0, <2>1 DEF Names
  <2> QED
    BY <2>1, <2>2, <2>3, CopyKeeps
<1>3. ASSUME NEW h \in Holders, Delete(h) \/ Edit(h) PROVE IpInv'
  <2>1. /\ obj' = [obj EXCEPT ![h].del = TRUE] \/ obj' = [obj EXCEPT ![h].pooled = ~obj[h].pooled]
        /\ UNCHANGED <<fleet, cloud, cache, mem, at>>
    BY <1>3 DEF Delete, Edit
  <2>2. obj' \in [Holders -> Object] /\ \A k \in Holders : obj'[k].ip = obj[k].ip
    <3>1. /\ [obj[h] EXCEPT !.del = TRUE] \in Object /\ [obj[h] EXCEPT !.del = TRUE].ip = obj[h].ip
          /\ [obj[h] EXCEPT !.pooled = ~obj[h].pooled] \in Object
          /\ [obj[h] EXCEPT !.pooled = ~obj[h].pooled].ip = obj[h].ip
      <4>1. obj[h] \in Object /\ (~obj[h].pooled) \in BOOLEAN
        BY <1>0
      <4> QED
        BY <4>1 DEF Object
    <3> QED
      BY <2>1, <3>1 DEF IpInv, Types, TypeOK
  <2>3. Types'
    BY <2>1, <2>2 DEF IpInv, Types, TypeOK
  <2>4. \A k \in Holders : Names(k)' = Names(k)
    BY <2>1, <2>2 DEF Names
  <2> QED
    BY <2>1, <2>3, <2>4, CopyKeeps
<1>4. ASSUME NEW h \in Holders, Sync(h) PROVE IpInv'
  <2>1. cache' = [cache EXCEPT ![h] = obj[h]] /\ UNCHANGED <<fleet, cloud, obj, mem, at>>
    BY <1>4 DEF Sync
  <2>2. Types'
    BY <1>0, <2>1 DEF IpInv, Types, TypeOK
  <2>3. \A k \in Holders : Names(k)' \subseteq Names(k)
    BY <2>1 DEF Names, IpInv, Types, TypeOK
  <2> QED
    BY <2>1, <2>2, <2>3, CopyKeeps
<1>5. ASSUME NEW h \in Holders, VmBoots(h) \/ Terminates(h) PROVE IpInv'
  <2>1. PICK r \in Resource :
          /\ \/ cloud.res[h].state = "pending" /\ r.state = "up" /\ r.ip = cloud.res[h].ip
             \/ r.state = "none" /\ r.ip = 0
          /\ CloudStep(h, r)
    <3>1. NoRes \in Resource /\ NoRes.state = "none" /\ NoRes.ip = 0
      BY DEF NoRes, Resource
    <3>2. cloud.res[h] \in Resource
      BY <1>0 DEF Cloud
    <3>3. /\ [cloud.res[h] EXCEPT !.state = "up"] \in Resource
          /\ [cloud.res[h] EXCEPT !.state = "up", !.attached = TRUE] \in Resource
      BY <3>2 DEF Resource
    <3>4. /\ [cloud.res[h] EXCEPT !.state = "up"].state = "up"
          /\ [cloud.res[h] EXCEPT !.state = "up"].ip = cloud.res[h].ip
          /\ [cloud.res[h] EXCEPT !.state = "up", !.attached = TRUE].state = "up"
          /\ [cloud.res[h] EXCEPT !.state = "up", !.attached = TRUE].ip = cloud.res[h].ip
      BY <3>2 DEF Resource
    <3> QED
      BY <1>5, <3>1, <3>3, <3>4 DEF VmBoots, Terminates
  <2>2. cloud' = [cloud EXCEPT !.res[h] = r] /\ UNCHANGED <<fleet, obj, cache, mem, at>>
    BY <2>1 DEF CloudStep
  <2>3. /\ cloud' \in Cloud /\ cloud'.ips = cloud.ips /\ cloud'.next = cloud.next /\ cloud'.res[h] = r
        /\ \A k \in Holders \ {h} : cloud'.res[k] = cloud.res[k]
    BY <1>0, <2>1, <2>2 DEF Cloud
  <2>4. Types'
    BY <2>2, <2>3 DEF IpInv, Types, TypeOK, Cloud, Resource
  <2>5. \A k \in Holders : Names(k)' \subseteq Names(k) \cup {0}
    BY <2>1, <2>2, <2>3 DEF Names
  <2>6. \A k \in Holders : \/ cloud'.res[k].state = cloud.res[k].state /\ cloud'.res[k].ip = cloud.res[k].ip
                           \/ cloud'.res[k].state = "none"
                           \/ /\ cloud.res[k].state = "pending" /\ cloud'.res[k].state = "up"
                              /\ cloud'.res[k].ip = cloud.res[k].ip
    BY <2>1, <2>3
  <2> QED
    BY <2>2, <2>3, <2>4, <2>5, <2>6, CopyKeeps
<1>6. CASE Restart
  <2>1. /\ at' = [k \in Holders |-> "idle"] /\ mem' = [k \in Holders |-> NewObject]
        /\ UNCHANGED <<fleet, cloud, obj, cache>>
    BY <1>6 DEF Restart
  <2>2. Types'
    BY <1>0, <2>1 DEF IpInv, Types, TypeOK, Places
  <2>3. \A k \in Holders : Names(k)' \subseteq Names(k) \cup {0}
    BY <1>0, <2>1 DEF Names
  <2>4. \A k \in Holders : at'[k] = "idle"
    BY <2>1
  <2> QED
    BY <2>1, <2>2, <2>3, <2>4, CopyKeeps
<1>7. CASE UNCHANGED vars
  <2>1. UNCHANGED <<fleet, cloud, obj, cache, mem, at>>
    BY <1>7 DEF vars
  <2>2. Types'
    BY <2>1 DEF IpInv, Types, TypeOK
  <2>3. \A k \in Holders : Names(k)' = Names(k)
    BY <2>1 DEF Names
  <2> QED
    BY <2>1, <2>2, <2>3, CopyKeeps
<1> QED
  BY <1>1, <1>2, <1>3, <1>4, <1>5, <1>6, <1>7 DEF Next

(* A NAT service or VM that was asked for with an IP has it until its own  *)
(* deletion, whatever the other holders of the pool do and however the     *)
(* specs, the calls and the process change in between: DeallocateIP.       *)
THEOREM IpsInUseKeptAlways == Spec => []IpsInUseKept
<1>1. IpInv => IpsInUseKept
  BY DEF IpInv
<1> QED
  BY InitInvariant, NextInvariant, <1>1, PTL DEF Spec

==================================================================================
