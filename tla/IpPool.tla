---------------------------------- MODULE IpPool ----------------------------------
(***************************************************************************)
(* The public IP allocator, as NAT services of several clusters and VMs of *)
(* several machines use it at the same time, most of them with one pool of *)
(* public IPs.  A holder is an OscCluster with a NAT service or an         *)
(* OscMachine with a public IP.                                            *)
(***************************************************************************)
EXTENDS Naturals, FiniteSets

CONSTANTS
  Nats,       (* clusters                                                *)
  Vms,        (* machines                                                *)
  Fleets      (* the pools, the holders that may share one, and bounds:  *)
              (* faults (failed or unanswered calls, restarts) and edits *)

Holders == Nats \cup Vms

ASSUME PoolAssumption ==
  /\ Nats \cap Vms = {}
  /\ Fleets \subseteq [size : Nat, holders : SUBSET Holders, pooled : SUBSET Holders,
                       faults : Nat, edits : Nat]

VARIABLES
  fleet,   (* how many IPs have the tag of the pool, the objects that    *)
           (* there are, and those whose first spec names the pool       *)
  cloud,   (* the public IPs, the next one, each holder's NAT service    *)
           (* or VM; 0 is no IP                                          *)
  obj,     (* the objects in the API server: whether the spec names the  *)
           (* pool, and the IP that the status tracks                    *)
  cache,   (* the informer's versions of them                            *)
  old,     (* the IP that the patch helper has copied                    *)
  mem,     (* the scope's object                                         *)
  at,      (* where each pass is                                         *)
  faults, edits

vars == <<fleet, cloud, obj, cache, old, mem, at, faults, edits>>

Pool == 1 .. fleet.size
NewObject == [exists |-> TRUE, del |-> FALSE, pooled |-> FALSE, ip |-> 0]
NoRes == [state |-> "none", ip |-> 0, attached |-> FALSE]
LinkedIp(i) == \E h \in Holders : cloud.res[h].attached /\ cloud.res[h].ip = i
FreeIp(i) == i \in cloud.ips /\ ~LinkedIp(i)

IpCreated == [cloud EXCEPT !.ips = @ \cup {cloud.next}, !.next = @ + 1]
IpDeleted(i) == [cloud EXCEPT !.ips = @ \ {i}]

(* Mutant: whatever was allocated is deleted. *)
AnyIp(i) == TRUE

CanDelete(i) == i \notin Pool
--------------------------------------------------------------------------------
(* The pass over h goes on, without or with a request to the cloud that    *)
(* leaves it as given; a request may be lost, or its answer, and then the  *)
(* pass ends with an error.                                                *)
Continue(h, p, o) ==
  /\ at' = [at EXCEPT ![h] = p]
  /\ mem' = [mem EXCEPT ![h] = o]
  /\ UNCHANGED <<fleet, cloud, obj, cache, old, faults, edits>>

Call(h, after, p, o) ==
  /\ UNCHANGED <<fleet, obj, cache, old, edits>>
  /\ \/ /\ cloud' = after
        /\ at' = [at EXCEPT ![h] = p]
        /\ mem' = [mem EXCEPT ![h] = o]
        /\ UNCHANGED faults
     \/ /\ faults < fleet.faults
        /\ faults' = faults + 1
        /\ cloud' \in {after, cloud}
        /\ at' = [at EXCEPT ![h] = "close"]
        /\ UNCHANGED mem

Reconcile(h) ==
  /\ at[h] = "idle" /\ cache[h].exists
  /\ at' = [at EXCEPT ![h] = IF cache[h].del THEN "delete" ELSE "find"]
  /\ mem' = [mem EXCEPT ![h] = cache[h]]
  /\ old' = [old EXCEPT ![h] = cache[h].ip]
  /\ UNCHANGED <<fleet, cloud, obj, cache, faults, edits>>

(* getNatService tracks the IP of the NAT service; getVm tracks the one of *)
(* the VM if none is tracked (RetrackIP).                                  *)
Tracked(h) ==
  IF cloud.res[h].attached /\ (h \in Nats \/ mem[h].ip = 0)
  THEN [mem[h] EXCEPT !.ip = cloud.res[h].ip] ELSE mem[h]

Find(h) ==
  /\ at[h] = "find"
  /\ IF cloud.res[h].state = "none" THEN Continue(h, "allocate", mem[h])
     ELSE Continue(h, "close", Tracked(h))

(* Mutant: a known IP is used again, whoever has it. *)
UseKnownIp(h) ==
  /\ at[h] = "allocate"
  /\ \/ mem[h].ip \in cloud.ips /\ Continue(h, "link", mem[h])
     \/ /\ mem[h].ip \notin cloud.ips /\ mem[h].pooled
        /\ \E i \in Pool : FreeIp(i) /\ Continue(h, "link", [mem[h] EXCEPT !.ip = i])
     \/ /\ mem[h].ip \notin cloud.ips /\ ~mem[h].pooled
        /\ Call(h, IpCreated, "link", [mem[h] EXCEPT !.ip = cloud.next])

(* AllocateIP: the known IP if it is free, else one of the pool that the   *)
(* list shows free, which another pass may have chosen too, else a new one.*)
AllocateIP(h) ==
  /\ at[h] = "allocate"
  /\ \/ FreeIp(mem[h].ip) /\ Continue(h, "link", mem[h])
     \/ /\ ~FreeIp(mem[h].ip) /\ mem[h].pooled
        /\ \/ \E i \in Pool : FreeIp(i) /\ Continue(h, "link", [mem[h] EXCEPT !.ip = i])
           \/ ~(\E i \in Pool : FreeIp(i)) /\ Continue(h, "close", mem[h])
     \/ /\ ~FreeIp(mem[h].ip) /\ ~mem[h].pooled
        /\ Call(h, IpCreated, "link", [mem[h] EXCEPT !.ip = cloud.next])

(* CreateNatService links the IP, and is refused one that is linked.       *)
CreateNatService(h) ==
  /\ h \in Nats /\ at[h] = "link"
  /\ IF FreeIp(mem[h].ip)
     THEN Call(h, [cloud EXCEPT !.res[h] = [state |-> "up", ip |-> mem[h].ip, attached |-> TRUE]],
               "close", mem[h])
     ELSE Continue(h, "close", mem[h])

(* CreateVm only names the IP in a tag, which the VM gets when it boots. A *)
(* request that names an IP in use may be refused.                         *)
CreateVm(h) ==
  /\ h \in Vms /\ at[h] = "link"
  /\ \/ Call(h, [cloud EXCEPT !.res[h] = [state |-> "pending", ip |-> mem[h].ip, attached |-> FALSE]],
             "close", mem[h])
     \/ ~FreeIp(mem[h].ip) /\ Continue(h, "close", mem[h])
--------------------------------------------------------------------------------
(* reconcileDeleteNatService and reconcileDeleteVm; the VM is looked up    *)
(* with getVm, the NAT services are listed.                                *)
DeleteResource(h) ==
  LET o == IF h \in Vms THEN Tracked(h) ELSE mem[h]
  IN /\ at[h] = "delete"
     /\ IF cloud.res[h].state = "none" THEN Continue(h, "deallocate", mem[h])
        ELSE Call(h, [cloud EXCEPT !.res[h].state = "deleting"], "deallocate", o)

(* Mutant: an IP that is not there is an error. *)
MissingIpIsError(h) ==
  /\ at[h] = "deallocate"
  /\ CASE h \in Vms /\ mem[h].pooled -> Continue(h, "finalize", mem[h])
       [] LinkedIp(mem[h].ip) \/ mem[h].ip \notin cloud.ips \cup {0} -> Continue(h, "close", mem[h])
       [] ~CanDelete(mem[h].ip) -> Continue(h, "finalize", [mem[h] EXCEPT !.ip = 0])
       [] OTHER -> Call(h, IpDeleted(mem[h].ip), "finalize", [mem[h] EXCEPT !.ip = 0])

(* reconcileDeletePublicIp: of a machine nothing is done when its spec     *)
(* names a pool; of a cluster DeallocateIP decides, which refuses an IP    *)
(* that is linked before it asks whether the IP is the pool's.             *)
DeallocateIP(h) ==
  LET done == [mem[h] EXCEPT !.ip = 0]
  IN /\ at[h] = "deallocate"
     /\ CASE h \in Vms /\ mem[h].pooled -> Continue(h, "finalize", mem[h])
          [] ~(h \in Vms /\ mem[h].pooled) /\ LinkedIp(mem[h].ip) -> Continue(h, "close", mem[h])
          [] ~(h \in Vms /\ mem[h].pooled) /\ FreeIp(mem[h].ip) /\ CanDelete(mem[h].ip) ->
               Call(h, IpDeleted(mem[h].ip), "finalize", done)
          [] OTHER -> Continue(h, "finalize", done)

RemoveFinalizer(h) ==
  /\ at[h] = "finalize"
  /\ Continue(h, "close", [mem[h] EXCEPT !.exists = FALSE])

(* A read fails, or a later step of the pass does. *)
PassFails(h) ==
  /\ at[h] \notin {"idle", "close"} /\ faults < fleet.faults
  /\ faults' = faults + 1
  /\ at' = [at EXCEPT ![h] = "close"]
  /\ UNCHANGED <<fleet, cloud, obj, cache, old, mem, edits>>

(* Close: without its finalizer the object goes, else the status is        *)
(* patched with the IP that the pass has changed.                          *)
Patched(h) ==
  IF ~obj[h].exists THEN obj[h]
  ELSE [obj[h] EXCEPT !.exists = mem[h].exists, !.ip = IF mem[h].ip = old[h] THEN @ ELSE mem[h].ip]

Close(h) ==
  /\ at[h] = "close"
  /\ \/ /\ obj' = [obj EXCEPT ![h] = Patched(h)]
        /\ UNCHANGED faults
     \/ faults < fleet.faults /\ faults' = faults + 1 /\ UNCHANGED obj
  /\ at' = [at EXCEPT ![h] = "idle"]
  /\ old' = [old EXCEPT ![h] = 0]
  /\ mem' = [mem EXCEPT ![h] = NewObject]
  /\ UNCHANGED <<fleet, cloud, cache, edits>>
--------------------------------------------------------------------------------
(* The process dies and comes back. *)
Restart ==
  /\ \E h \in Holders : at[h] # "idle"
  /\ faults < fleet.faults
  /\ faults' = faults + 1
  /\ at' = [h \in Holders |-> "idle"]
  /\ old' = [h \in Holders |-> 0]
  /\ mem' = [h \in Holders |-> NewObject]
  /\ UNCHANGED <<fleet, cloud, obj, cache, edits>>

Delete(h) ==
  /\ obj[h].exists /\ ~obj[h].del
  /\ obj' = [obj EXCEPT ![h].del = TRUE]
  /\ UNCHANGED <<fleet, cloud, cache, old, mem, at, faults, edits>>

(* The pool is added to a spec or taken out of it; no webhook objects. *)
Edit(h) ==
  /\ obj[h].exists /\ edits < fleet.edits
  /\ obj' = [obj EXCEPT ![h].pooled = ~@]
  /\ edits' = edits + 1
  /\ UNCHANGED <<fleet, cloud, cache, old, mem, at, faults>>

Sync(h) ==
  /\ cache[h] # obj[h]
  /\ cache' = [cache EXCEPT ![h] = obj[h]]
  /\ UNCHANGED <<fleet, cloud, obj, old, mem, at, faults, edits>>

(* A pending VM gets its IP unless another resource has it, and a resource *)
(* that is deleted frees its own.                                          *)
CloudStep(h, r) ==
  /\ cloud' = [cloud EXCEPT !.res[h] = r]
  /\ UNCHANGED <<fleet, obj, cache, old, mem, at, faults, edits>>

VmBoots(h) ==
  /\ cloud.res[h].state = "pending"
  /\ \/ FreeIp(cloud.res[h].ip) /\ CloudStep(h, [cloud.res[h] EXCEPT !.state = "up", !.attached = TRUE])
     \/ ~FreeIp(cloud.res[h].ip) /\ CloudStep(h, [cloud.res[h] EXCEPT !.state = "up"])

Terminates(h) ==
  /\ cloud.res[h].state = "deleting"
  /\ CloudStep(h, NoRes)
--------------------------------------------------------------------------------
(* The objects carry their finalizers, and no IP was asked for. *)
Init ==
  /\ fleet \in Fleets
  /\ cloud = [ips |-> Pool, next |-> fleet.size + 1, res |-> [h \in Holders |-> NoRes]]
  /\ obj = [h \in Holders |-> [NewObject EXCEPT !.exists = h \in fleet.holders, !.pooled = h \in fleet.pooled]]
  /\ cache = obj
  /\ mem = [h \in Holders |-> NewObject] /\ old = [h \in Holders |-> 0]
  /\ at = [h \in Holders |-> "idle"]
  /\ faults = 0 /\ edits = 0

Pass(h) ==
  \/ Reconcile(h) \/ Find(h) \/ AllocateIP(h) \/ CreateNatService(h) \/ CreateVm(h)
  \/ DeleteResource(h) \/ DeallocateIP(h) \/ RemoveFinalizer(h) \/ Close(h)

Next ==
  \/ \E h \in Holders : \/ Pass(h) \/ PassFails(h) \/ Delete(h) \/ Edit(h) \/ Sync(h)
                        \/ VmBoots(h) \/ Terminates(h)
  \/ Restart

Spec == Init /\ [][Next]_vars

(* Errors, watches and the resync period start passes again; the informer  *)
(* follows the API server and the cloud completes what it began.           *)
FairSpec ==
  /\ Spec
  /\ \A h \in Holders : WF_vars(Pass(h)) /\ WF_vars(Sync(h)) /\ WF_vars(VmBoots(h) \/ Terminates(h))
--------------------------------------------------------------------------------
(* The cloud's part of the state has the fields that the requests change.  *)
Object == [exists : BOOLEAN, del : BOOLEAN, pooled : BOOLEAN, ip : Nat]
TypeOK ==
  /\ fleet \in Fleets
  /\ cloud \in [ips : SUBSET Nat, next : Nat,
                res : [Holders -> [state : {"none", "pending", "up", "deleting"},
                                   ip : Nat, attached : BOOLEAN]]]
  /\ mem \in [Holders -> Object] /\ obj \in [Holders -> Object] /\ cache \in [Holders -> Object]

(* No IP is deleted under a user of it: a NAT service or VM that was asked *)
(* for with an IP has that IP to stand on until its own deletion, whoever  *)
(* else tracks the same IP of the pool, was given it first, lost it or is  *)
(* deleted with it, and whatever its spec says of the pool by then         *)
(* (DeallocateIP asks the IP's tag, not the spec).                         *)
IpsInUseKept ==
  \A h \in Holders : cloud.res[h].state \in {"pending", "up"} => cloud.res[h].ip \in cloud.ips

(* Whoever loses the race for an IP of the pool is served in the end, if   *)
(* its request was refused: the next pass finds the known IP linked and    *)
(* takes another one, as long as the pool has one (the comment of          *)
(* allocateFromPool, which expects the creation of the VM to fail).  The   *)
(* cloud may also accept a VM whose IP is taken; it then comes up without, *)
(* and nothing reallocates.                                                *)
Served(h) == ~obj[h].exists \/ obj[h].del \/ cloud.res[h].attached
PoolEmpty(h) == obj[h].pooled /\ ~(\E i \in Pool : FreeIp(i))
UpWithoutIp(h) == h \in Vms /\ cloud.res[h].state = "up" /\ ~cloud.res[h].attached
PoolSettles == \A h \in Holders : []<>(Served(h) \/ PoolEmpty(h) \/ UpWithoutIp(h))

(* A deleted cluster or machine goes, unless the IP it tracks is linked to *)
(* another's resource, which DeallocateIP takes for its own.               *)
OthersHold(h) == \E k \in Holders \ {h} : cloud.res[k].attached /\ cloud.res[k].ip = obj[h].ip
PoolDeletionCompletes == \A h \in Holders : []<>(obj[h].del => ~obj[h].exists \/ OthersHold(h))
================================================================================
