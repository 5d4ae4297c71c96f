--------------------------- MODULE DOClusterProofs ---------------------------
(***************************************************************************)
(* Proofs about DOCluster, for every set of names and ports, every number  *)
(* of load balancers, edits and mishaps, every kind of mishap included.    *)
(*                                                                         *)
(* As for DOMachine, the inductive invariant says what every copy of the   *)
(* object has in common with the one in the API server, what is true at    *)
(* each step of a reconciliation, and what follows once the finalizer has  *)
(* been persisted.  Two things are different: users may rename the control *)
(* plane, and the webhook may refuse the first request of Close while the  *)
(* second one is still sent.  The port and the record have an invariant    *)
(* each on top of this one, with its argument at its head.  The contract   *)
(* of an infrastructure object and the account of lost load balancers are  *)
(* in DOClusterContract.                                                   *)
(***************************************************************************)
EXTENDS DOCluster, ManagedObjectProofs

RecordCalls == {"GetDomainRecord", "UpsertDomainRecord", "CheckDNSPropagated"}
NormalCalls == {"GetLoadBalancer", "CreateLoadBalancer"} \union RecordCalls
DeleteCalls == {"DeleteDomainRecord", "DeleteGetLoadBalancer", "DeleteLoadBalancer"}
PatchCalls == {"PatchSpec", "PatchStatus"}

\* The record of the name is gone.
Unrecorded(name) == name # NoName => records[name] = NoAddress

\* An endpoint without a host comes from a load balancer without an address.
HostOK(o) == Announced(o) => o.host # NoName \/ bare

\* What any copy of the object, however old, tells about the API server.
CopyOK(o) ==
  /\ o.finalizer => protected
  /\ o.phase = "deleting" => o.finalizer
  /\ o.phase # "live" => store.phase # "live"
  /\ o.phase # "live" /\ edits["lateDNS"] = 0 => o.dns = store.dns
  /\ Announced(o) => Announced(store)
  /\ HostOK(o)
  /\ o.lbID # NoLB => store.lbID # NoLB

Copies == \A o : Copy(o) \/ o = orig => CopyOK(o)

\* What the running reconciliation may rely on.
RunOK ==
  /\ mem.dns = orig.dns
  /\ pc \in CloudCalls =>
       /\ mem.finalizer /\ mem.host = orig.host /\ mem.endpointPort = orig.endpointPort
       /\ mem.ready = orig.ready /\ mem.lbID = orig.lbID
  /\ pc \in NormalCalls => orig.phase = "live" /\ mem.port # 0
  /\ pc \in RecordCalls => mem.lbID # NoLB /\ mem.dns # NoName
  /\ pc \in DeleteCalls => orig.phase = "deleting"
  /\ pc = "DeleteDomainRecord" => mem.dns # NoName
  /\ pc \in {"DeleteGetLoadBalancer", "DeleteLoadBalancer"} => Unrecorded(orig.dns)
  /\ pc # "idle" /\ orig.phase = "deleting" => cache.phase # "live"
  /\ pc \in PatchCalls =>
       /\ mem.ready /\ ~orig.ready => Announced(mem) /\ mem.lbID # NoLB
       /\ orig.lbID # NoLB => mem.lbID # NoLB
       /\ HostOK(mem) /\ (Announced(orig) => Announced(mem))
       /\ ~mem.finalizer =>
            /\ orig.phase = "deleting" /\ Unrecorded(orig.dns)
            /\ mem.host = orig.host /\ mem.endpointPort = orig.endpointPort
            /\ mem.lbID = orig.lbID /\ mem.ready = orig.ready

\* The first request of Close did what it should, unless it failed.
SpecArrived ==
  pc = "PatchStatus" /\ ~Happened("patchError") /\ store.phase # "gone" =>
    /\ mem.ready /\ ~orig.ready => Announced(store)
    /\ mem.finalizer => protected

\* What the persisted finalizer buys.
ProtectionOK ==
  /\ protected /\ store.phase # "gone" => store.finalizer
  /\ Announced(store) => protected
  /\ store.lbID # NoLB /\ ~Happened("patchError") => protected
  /\ protected /\ store.phase = "gone" =>
       /\ edits["lateDNS"] = 0 => Unrecorded(store.dns)
       /\ cache.phase # "live" /\ pc \notin NormalCalls

\* The history variable remembers every active load balancer without address.
BareOK == \A l \in LBIDs : lbs[l] = "active" /\ ~hasIP[l] => bare

IInv ==
  /\ TypeOK /\ BareOK
  /\ CacheFollows /\ PhaseOrder /\ Copies
  /\ RunOK /\ SpecArrived
  /\ ProtectionOK
  /\ ReadyHasEndpoint
  /\ store.ready => store.lbID # NoLB

ApiTypeOK ==
  /\ store \in Objects /\ cache \in Objects /\ watch \in Seq(Objects)
  /\ protected \in BOOLEAN

CloudOK ==
  /\ lbs \in [LBIDs -> LBStatuses] /\ hasIP \in [LBIDs -> BOOLEAN]
  /\ bare \in BOOLEAN /\ BareOK
  /\ lbPort \in [LBIDs -> Ports \union {0}]
  /\ records \in [Names -> LBIDs \union {NoAddress}]
  /\ advertised \in [Names -> LBIDs \union {NoAddress}]

-----------------------------------------------------------------------------
(* The copies of the object.                                               *)

\* The new object is an object.
LEMMA NewObjectType == NewObject \in Objects
BY ClusterAssumption DEF NewObject, Objects, Phases, LBIDs, NoLB

\* The invariant, taken apart.
LEMMA Typed ==
  ASSUME IInv
  PROVE  /\ ApiTypeOK /\ CloudOK /\ mishaps \in MishapCounts
         /\ orig \in Objects /\ mem \in Objects /\ pc \in PCs /\ addressed \in BOOLEAN
         /\ edits \in [EditKinds -> 0..MaxEdits]
         /\ CopyOK(store) /\ CopyOK(cache) /\ CopyOK(orig)
BY DEF IInv, TypeOK, ApiTypeOK, CloudOK, Copies, Copy

\* A new object tells nothing.
LEMMA NewCopy == CopyOK(NewObject)'
BY DEF CopyOK, HostOK, Announced, NewObject

\* What a copy tells stays true while the API server moves on.
LEMMA CopyStays ==
  ASSUME NEW o, CopyOK(o),
         protected => protected',
         store.phase # "live" => store'.phase # "live",
         edits'["lateDNS"] = 0 =>
           edits["lateDNS"] = 0 /\ (store.phase # "live" => store'.dns = store.dns),
         Announced(store) => Announced(store)',
         store.lbID # NoLB => store'.lbID # NoLB,
         bare => bare'
  PROVE  CopyOK(o)'
BY DEF CopyOK, HostOK, Announced

\* A write that takes nothing back adds a copy and keeps the others.
LEMMA WriteKeeps ==
  ASSUME IInv, NEW obj \in Objects, Write(obj), orig' \in {orig, NewObject},
         store.phase # "live" => obj.phase # "live",
         edits'["lateDNS"] = 0 =>
           edits["lateDNS"] = 0 /\ (store.phase # "live" => obj.dns = store.dns),
         Announced(store) => Announced(obj),
         store.lbID # NoLB => obj.lbID # NoLB,
         obj.phase = "deleting" => obj.finalizer,
         HostOK(obj), bare' = bare
  PROVE  /\ ApiTypeOK' /\ CacheFollows' /\ PhaseOrder' /\ Copies'
         /\ store' = obj /\ cache' = cache /\ protected' = (protected \/ obj.finalizer)
<1>1. /\ store' = obj /\ cache' = cache /\ protected' = (protected \/ obj.finalizer)
  BY DEF Write
<1>2. /\ watch \in Seq(Objects) /\ store \in Objects /\ cache \in Objects
      /\ protected \in BOOLEAN /\ CacheFollows /\ PhaseOrder /\ Copies
  BY DEF IInv, TypeOK
<1>3. /\ \A o : Copy(o)' => Copy(o) \/ o = obj
      /\ CacheFollows' /\ watch' \in Seq(Objects)
  BY <1>2, WriteCopies
<1>4. PhaseOrder'
  <2>1. \A o : Copy(o) /\ o.phase # "live" => obj.phase # "live"
    BY <1>2 DEF Copies, CopyOK
  <2> QED
    BY <1>2, <2>1, WritePhases
<1>5. CopyOK(obj)'
  BY <1>1, Zenon DEF CopyOK, HostOK, Announced
<1>6. ASSUME NEW o, CopyOK(o) PROVE CopyOK(o)'
  <2>1. Announced(store) => Announced(store)'
    BY <1>1 DEF Announced
  <2> QED
    BY <1>1, <1>6, <2>1, CopyStays, Zenon
<1>7. Copies'
  BY <1>2, <1>3, <1>5, <1>6, NewCopy DEF Copies
<1>8. ApiTypeOK'
  BY <1>1, <1>2, <1>3 DEF ApiTypeOK
<1> QED
  BY <1>1, <1>3, <1>4, <1>7, <1>8

\* A step that leaves the API server and the cache alone.
LEMMA RestKeeps ==
  ASSUME IInv, UNCHANGED <<api, edits>>, orig' \in {orig, NewObject}, bare => bare'
  PROVE  ApiTypeOK' /\ CacheFollows' /\ PhaseOrder' /\ Copies'
<1>1. /\ store' = store /\ cache' = cache /\ watch' = watch /\ protected' = protected
      /\ edits' = edits
  BY DEF api
<1>2. CacheFollows' /\ \A o : Copy(o)' => Copy(o)
  BY StutterCopies DEF IInv
<1>3. ASSUME NEW o, CopyOK(o) PROVE CopyOK(o)'
  BY <1>1, <1>3, CopyStays DEF Announced
<1>4. Copies'
  BY <1>1, <1>2, <1>3, NewCopy DEF IInv, Copies
<1>5. PhaseOrder' /\ ApiTypeOK'
  BY <1>1, Zenon DEF IInv, PhaseOrder, TypeOK, ApiTypeOK
<1> QED
  BY <1>2, <1>4, <1>5

\* A step has at most one mishap.
LEMMA AtMostOneMishap ==
  ASSUME [Next]_vars
  PROVE  NoMishap \/ \E k \in MishapKinds : Mishap(k)
<1> USE DEF NoMishap, MishapKinds
<1>1. CASE Controller
  BY <1>1
  DEF Controller, CallSucceeds, CallFails, ReplyLost, StartReconcile, ReadCache,
      PatchSpec, PatchStatus, RequestFails, GetLoadBalancer, CreateLoadBalancer,
      GetDomainRecord, UpsertDomainRecord, CheckDNSPropagated, DeleteDomainRecord,
      DeleteGetLoadBalancer, DeleteLoadBalancer
<1>2. CASE Environment
  BY <1>2
  DEF Environment, DeliverEvent, Deliver, UserDelete, Delete, UserUpdate,
      LBAddress, LBProgress, DNSProgress, ExternalChange, Crash, Restart
<1>3. CASE Finished \/ UNCHANGED vars
  BY <1>3 DEF Finished, vars
<1> QED
  BY <1>1, <1>2, <1>3 DEF Next

\* What happened has happened.
LEMMA StepMishaps ==
  ASSUME IInv, [Next]_vars
  PROVE  /\ mishaps' \in MishapCounts
         /\ Happened("patchError") => Happened("patchError")'
         /\ Happened("staleRead") => Happened("staleRead")'
         /\ Happened("crash") => Happened("crash")'
<1>1. NoMishap \/ \E k \in MishapKinds : Mishap(k)
  BY AtMostOneMishap
<1>2. mishaps \in MishapCounts
  BY DEF IInv, TypeOK
<1>3. mishaps' \in MishapCounts
  BY <1>1, <1>2, MishapsKept
<1> QED
  BY <1>1, <1>2, <1>3, HappenedStays DEF MishapKinds

-----------------------------------------------------------------------------
(* The initial state and the environment.                                  *)

\* The invariant holds at the start.
LEMMA InitIInv == Init => IInv
<1> SUFFICES ASSUME Init PROVE IInv
  OBVIOUS
<1> USE DEF Init, InitObject
<1>1. TypeOK
  <2>1. /\ store \in Objects /\ cache \in Objects /\ orig \in Objects
        /\ mem \in Objects
    BY NewObjectType
  <2>2. watch \in Seq(Objects)
    OBVIOUS
  <2>3. protected \in BOOLEAN /\ mishaps \in MishapCounts
    BY NoMishapsYet, Zenon
  <2>4. /\ lbs \in [LBIDs -> LBStatuses] /\ lbPort \in [LBIDs -> Ports \union {0}]
        /\ pc \in PCs /\ addressed \in BOOLEAN
        /\ hasIP \in [LBIDs -> BOOLEAN] /\ bare \in BOOLEAN
    BY ZenonT(60) DEF LBStatuses, PCs
  <2>5. /\ records \in [Names -> LBIDs \union {NoAddress}]
        /\ advertised \in [Names -> LBIDs \union {NoAddress}]
    OBVIOUS
  <2>6. edits \in [EditKinds -> 0..MaxEdits]
    BY ClusterAssumption
  <2> QED
    BY <2>1, <2>2, <2>3, <2>4, <2>5, <2>6 DEF TypeOK
<1>2. Copies
  BY DEF Copies, Copy, CopyOK, HostOK, Announced, NewObject
<1>3. CacheFollows /\ PhaseOrder /\ BareOK
  BY DEF CacheFollows, PhaseOrder, BareOK
<1>4. RunOK /\ SpecArrived
  BY DEF RunOK, SpecArrived, CloudCalls, NormalCalls, RecordCalls, DeleteCalls, PatchCalls
<1>5. ProtectionOK /\ ReadyHasEndpoint /\ ~store.ready
  BY DEF ProtectionOK, ReadyHasEndpoint, Announced, NewObject
<1> QED
  BY <1>1, <1>2, <1>3, <1>4, <1>5 DEF IInv

\* A step of DigitalOcean or of DNS, or none at all.
LEMMA QuietStep ==
  ASSUME IInv, UNCHANGED <<api, run, edits, mishaps, records>>,
         CloudOK', bare => bare'
  PROVE  IInv'
<1>1. ApiTypeOK' /\ CacheFollows' /\ PhaseOrder' /\ Copies'
  BY RestKeeps DEF run
<1>2. TypeOK' /\ BareOK'
  BY <1>1 DEF IInv, TypeOK, ApiTypeOK, CloudOK, run
<1>3. RunOK'
  BY DEF IInv, RunOK, HostOK, Announced, Unrecorded, api, run
<1>4. SpecArrived' /\ ReadyHasEndpoint' /\ (store'.ready => store'.lbID # NoLB)
  BY DEF IInv, SpecArrived, ReadyHasEndpoint, Announced, Happened, api, run
<1>5. ProtectionOK'
  BY DEF IInv, ProtectionOK, Announced, Unrecorded, Happened, api, run
<1> QED
  BY <1>1, <1>2, <1>3, <1>4, <1>5 DEF IInv

\* DigitalOcean and its DNS move on.
LEMMA WorldIInv ==
  ASSUME IInv, (\E l \in LBIDs : LBAddress(l) \/ LBProgress(l) \/ ExternalChange(l))
                 \/ (\E n \in Names : DNSProgress(n))
  PROVE  IInv'
<1>1. CloudOK
  BY Typed
<1>2. ASSUME NEW l \in LBIDs, LBAddress(l) \/ LBProgress(l) \/ ExternalChange(l)
      PROVE  IInv'
  <2>1. /\ UNCHANGED <<api, run, edits, mishaps, records, lbPort, advertised>>
        /\ bare => bare'
    BY <1>2 DEF LBAddress, LBProgress, ExternalChange
  <2>2. /\ lbs' \in [LBIDs -> LBStatuses] /\ hasIP' \in [LBIDs -> BOOLEAN]
        /\ bare' \in BOOLEAN
    BY <1>1, <1>2, ZenonT(60) DEF LBAddress, LBProgress, ExternalChange, Destroyed, CloudOK, LBStatuses
  <2>3. BareOK'
    BY <1>1, <1>2 DEF LBAddress, LBProgress, ExternalChange, Destroyed, CloudOK, BareOK
  <2> QED
    BY <1>1, <2>1, <2>2, <2>3, QuietStep DEF CloudOK
<1>3. CASE \E n \in Names : DNSProgress(n)
  <2>1. UNCHANGED <<api, run, edits, mishaps, records, lbPort, lbs, hasIP, bare>>
    BY <1>3 DEF DNSProgress
  <2>2. advertised' \in [Names -> LBIDs \union {NoAddress}]
    BY <1>1, <1>3 DEF DNSProgress, CloudOK
  <2>3. BareOK'
    BY <1>1, <2>1 DEF CloudOK, BareOK
  <2> QED
    BY <1>1, <2>1, <2>2, <2>3, QuietStep DEF CloudOK
<1> QED
  BY <1>2, <1>3

\* The cache catches up.
LEMMA DeliverIInv ==
  ASSUME IInv, DeliverEvent
  PROVE  IInv'
<1>1. /\ Deliver /\ UNCHANGED <<store, protected, mishaps, cloud, run, edits>>
  BY DEF DeliverEvent, Deliver
<1>2. /\ watch \in Seq(Objects) /\ CacheFollows /\ PhaseOrder /\ Copies
  BY DEF IInv, TypeOK
<1>3. /\ \A o : Copy(o)' => Copy(o)
      /\ CacheFollows' /\ watch' \in Seq(Objects) /\ Copy(cache')
  BY <1>1, <1>2, DeliverCopies
<1>4. PhaseOrder' /\ (cache.phase # "live" => cache'.phase # "live")
  BY <1>1, <1>2, DeliverPhases
<1>5. ASSUME NEW o, CopyOK(o) PROVE CopyOK(o)'
  BY <1>1, <1>5, CopyStays DEF Announced, cloud
<1>6. Copies'
  BY <1>1, <1>2, <1>3, <1>5 DEF Copies, run
<1>7. cache' \in Objects
  BY <1>3 DEF Copy, IInv, TypeOK
<1>8. TypeOK' /\ BareOK'
  BY <1>1, <1>3, <1>7 DEF IInv, TypeOK, BareOK, cloud, run
<1>9. RunOK'
  BY <1>1, <1>4 DEF IInv, RunOK, HostOK, Announced, Unrecorded, cloud, run
<1>10. SpecArrived' /\ ReadyHasEndpoint' /\ (store'.ready => store'.lbID # NoLB)
  BY <1>1 DEF IInv, SpecArrived, ReadyHasEndpoint, Announced, Happened, cloud, run
<1>11. ProtectionOK'
  BY <1>1, <1>4 DEF IInv, ProtectionOK, Announced, Unrecorded, Happened, cloud, run
<1> QED
  BY <1>3, <1>4, <1>6, <1>8, <1>9, <1>10, <1>11 DEF IInv

\* The manager restarts: the reconciliation is forgotten.
LEMMA CrashIInv ==
  ASSUME IInv, Crash, mishaps' \in MishapCounts,
         Happened("patchError") => Happened("patchError")'
  PROVE  IInv'
<1>1. /\ Restart /\ Idle /\ UNCHANGED <<store, protected, cloud, edits>>
      /\ cache' = store /\ watch' = <<>>
  BY DEF Crash, Restart
<1>2. /\ \A o : Copy(o)' => Copy(o)
      /\ CacheFollows' /\ PhaseOrder'
  BY <1>1, RestartCopies, RestartPhases
<1>3. ASSUME NEW o, CopyOK(o) PROVE CopyOK(o)'
  BY <1>1, <1>3, CopyStays DEF Announced, cloud
<1>4. CopyOK(NewObject)'
  BY NewCopy
<1>5. Copies'
  BY <1>1, <1>2, <1>3, <1>4 DEF IInv, Copies, Idle
<1>6. TypeOK' /\ BareOK'
  <2>1. addressed' \in BOOLEAN
    BY <1>1, ZenonT(60) DEF Idle
  <2>2. bare' = bare /\ hasIP' = hasIP /\ lbs' = lbs
    BY <1>1 DEF cloud
  <2>3. TypeOK'
    BY <1>1, <2>1, <2>2, NewObjectType DEF IInv, TypeOK, Idle, PCs, cloud
  <2> QED
    BY <2>2, <2>3 DEF IInv, BareOK
<1>7. RunOK' /\ SpecArrived'
  BY <1>1
  DEF RunOK, SpecArrived, Idle, CloudCalls, NormalCalls, RecordCalls, DeleteCalls, PatchCalls
<1>8. ReadyHasEndpoint' /\ (store'.ready => store'.lbID # NoLB)
  BY <1>1 DEF IInv, ReadyHasEndpoint, Announced, cloud
<1>9. ProtectionOK'
  BY <1>1 DEF IInv, ProtectionOK, Announced, Unrecorded, Idle, cloud, NormalCalls, RecordCalls
<1> QED
  BY <1>2, <1>5, <1>6, <1>7, <1>8, <1>9 DEF IInv

\* Somebody deletes the object.
LEMMA UserDeleteIInv ==
  ASSUME IInv, UserDelete, mishaps' \in MishapCounts,
         Happened("patchError") => Happened("patchError")'
  PROVE  IInv'
<1> DEFINE obj == Finalized([store EXCEPT !.phase = "deleting"])
<1>1. /\ store.phase = "live" /\ Write(obj) /\ UNCHANGED <<cloud, run, edits>>
      /\ store \in Objects /\ CopyOK(store)
  BY Typed DEF UserDelete, Delete, ApiTypeOK
<1>2. /\ obj \in Objects /\ obj.dns = store.dns /\ obj.finalizer = store.finalizer
      /\ obj.host = store.host /\ obj.endpointPort = store.endpointPort
      /\ obj.lbID = store.lbID /\ obj.ready = store.ready
      /\ obj.phase = IF store.finalizer THEN "deleting" ELSE "gone"
  BY <1>1, Zenon DEF Finalized, Objects, Phases
<1> HIDE DEF obj
<1>3. /\ ApiTypeOK' /\ CacheFollows' /\ PhaseOrder' /\ Copies'
      /\ store' = obj /\ cache' = cache /\ protected' = (protected \/ obj.finalizer)
  BY <1>1, <1>2, WriteKeeps DEF run, cloud, CopyOK, HostOK, Announced
<1>4. TypeOK' /\ BareOK'
  BY <1>1, <1>3 DEF IInv, TypeOK, BareOK, ApiTypeOK, cloud, run
<1>5. RunOK'
  BY <1>1, <1>3 DEF IInv, RunOK, HostOK, Announced, Unrecorded, cloud, run
<1>6. SpecArrived' /\ ReadyHasEndpoint' /\ (store'.ready => store'.lbID # NoLB)
  BY <1>1, <1>2, <1>3, ZenonT(60)
  DEF IInv, SpecArrived, ReadyHasEndpoint, Announced, run, cloud
<1>7. ProtectionOK'
  BY <1>1, <1>2, <1>3, Zenon DEF IInv, ProtectionOK, Announced, CopyOK
<1> QED
  BY <1>3, <1>4, <1>5, <1>6, <1>7 DEF IInv

\* What a user's edit leaves alone.
LEMMA UserUpdateFacts ==
  ASSUME IInv, UserUpdate
  PROVE  \E f \in Editable, obj \in Objects :
           /\ Write(obj) /\ edits' = [edits EXCEPT ![EditKind(f)] = @ + 1]
           /\ edits["port"] + edits["dns"] + edits["lateDNS"] < MaxEdits
           /\ store.phase # "gone"
           /\ obj.phase = store.phase /\ obj.finalizer = store.finalizer
           /\ obj.host = store.host /\ obj.endpointPort = store.endpointPort
           /\ obj.lbID = store.lbID /\ obj.ready = store.ready
           /\ f # "dns" => obj.dns = store.dns
           /\ f # "port" => obj.port = store.port
           /\ obj.dnsReady = store.dnsReady
<1>1. store \in Objects
  BY Typed DEF ApiTypeOK
<1>2. PICK f \in Editable :
        /\ edits' = [edits EXCEPT ![EditKind(f)] = @ + 1]
        /\ \E new \in IF f = "port" THEN {[store EXCEPT !.port = p] : p \in Ports}
                      ELSE {[store EXCEPT !.dns = n] : n \in Names \union {NoName}} :
             Write(new)
  BY Zenon DEF UserUpdate
<1>3. store.phase # "gone" /\ edits["port"] + edits["dns"] + edits["lateDNS"] < MaxEdits
  BY DEF UserUpdate
<1>4. f \in {"port", "dns"}
  BY ClusterAssumption DEF Fields
<1>5. CASE f = "port"
  <2>1. PICK p \in Ports : Write([store EXCEPT !.port = p])
    BY <1>2, <1>5
  <2>2. [store EXCEPT !.port = p] \in Objects
    BY <1>1 DEF Objects
  <2> QED
    BY <1>1, <1>2, <1>3, <1>5, <2>1, <2>2, ZenonT(60) DEF Objects
<1>6. CASE f = "dns"
  <2>1. PICK n \in Names \union {NoName} : Write([store EXCEPT !.dns = n])
    BY <1>2, <1>6
  <2>2. [store EXCEPT !.dns = n] \in Objects
    BY <1>1 DEF Objects
  <2> QED
    BY <1>1, <1>2, <1>3, <1>6, <2>1, <2>2, ZenonT(60) DEF Objects
<1> QED
  BY <1>4, <1>5, <1>6

\* A user edits the port or the name.
LEMMA UserUpdateIInv ==
  ASSUME IInv, UserUpdate
  PROVE  IInv'
<1>1. PICK f \in Editable, obj \in Objects :
        /\ Write(obj) /\ edits' = [edits EXCEPT ![EditKind(f)] = @ + 1]
        /\ edits["port"] + edits["dns"] + edits["lateDNS"] < MaxEdits
        /\ store.phase # "gone"
        /\ obj.phase = store.phase /\ obj.finalizer = store.finalizer
        /\ obj.host = store.host /\ obj.endpointPort = store.endpointPort
        /\ obj.lbID = store.lbID /\ obj.ready = store.ready
        /\ f # "dns" => obj.dns = store.dns
  BY UserUpdateFacts
<1>2. /\ UNCHANGED <<cloud, run, mishaps>>
      /\ f \in {"port", "dns"} /\ edits \in [EditKinds -> 0..MaxEdits]
      /\ CopyOK(store) /\ store \in Objects
  BY Typed, ClusterAssumption DEF UserUpdate, Fields, ApiTypeOK
<1>3. edits' \in [EditKinds -> 0..MaxEdits]
  <2>1. EditKind(f) \in EditKinds /\ edits[EditKind(f)] + 1 \in 0..MaxEdits
    BY <1>1, <1>2, ClusterAssumption DEF EditKind, EditKinds, Fields
  <2> QED
    BY <1>1, <1>2, <2>1
<1>4. edits'["lateDNS"] = 0 =>
        edits["lateDNS"] = 0 /\ (store.phase # "live" => obj.dns = store.dns)
  BY <1>1, <1>2 DEF EditKind, EditKinds, Fields, Objects, Phases
<1>5. /\ ApiTypeOK' /\ CacheFollows' /\ PhaseOrder' /\ Copies'
      /\ store' = obj /\ cache' = cache /\ protected' = (protected \/ obj.finalizer)
  BY <1>1, <1>2, <1>4, WriteKeeps DEF run, cloud, CopyOK, HostOK, Announced
<1>6. TypeOK' /\ BareOK'
  BY <1>2, <1>3, <1>5 DEF IInv, TypeOK, BareOK, ApiTypeOK, cloud, run
<1>7. RunOK'
  BY <1>2, <1>5 DEF IInv, RunOK, HostOK, Announced, Unrecorded, cloud, run
<1>8. SpecArrived' /\ ReadyHasEndpoint' /\ (store'.ready => store'.lbID # NoLB)
  BY <1>1, <1>2, <1>5, ZenonT(60)
  DEF IInv, SpecArrived, ReadyHasEndpoint, Announced, Happened, run, cloud
<1>9. ProtectionOK'
  BY <1>1, <1>2, <1>5, Zenon DEF IInv, ProtectionOK, Announced, CopyOK, Happened
<1> QED
  BY <1>5, <1>6, <1>7, <1>8, <1>9 DEF IInv

-----------------------------------------------------------------------------
(* Reconcile.                                                              *)

\* A reconciliation starts from whatever the cache holds.
LEMMA StartIInv ==
  ASSUME IInv, StartReconcile, mishaps' \in MishapCounts,
         Happened("patchError") => Happened("patchError")'
  PROVE  IInv'
<1>1. /\ orig' = cache /\ UNCHANGED <<api, cloud, edits>>
      /\ cache \in Objects /\ CopyOK(cache) /\ CloudOK
  BY Typed DEF StartReconcile, NewClusterScope, ReadCache, ApiTypeOK
<1>2. /\ store' = store /\ cache' = cache /\ watch' = watch /\ protected' = protected
      /\ edits' = edits /\ records' = records
  BY <1>1 DEF api, cloud
<1>3. CacheFollows' /\ \A o : Copy(o)' => Copy(o)
  BY <1>1, StutterCopies DEF IInv
<1>4. ASSUME NEW o, CopyOK(o) PROVE CopyOK(o)'
  BY <1>1, <1>2, <1>4, CopyStays DEF Announced, cloud
<1>5. Copies'
  BY <1>1, <1>3, <1>4 DEF IInv, Copies
<1>6. PhaseOrder' /\ ApiTypeOK'
  BY <1>2 DEF IInv, PhaseOrder, TypeOK, ApiTypeOK
<1>7. \/ /\ cache.phase = "live" /\ pc' = "GetLoadBalancer"
         /\ mem' = [cache EXCEPT !.finalizer = TRUE, !.port = ApplyDefault(@)]
      \/ /\ cache.phase = "deleting" /\ mem' = cache
         /\ pc' = IF cache.dns # NoName THEN "DeleteDomainRecord"
                                        ELSE "DeleteGetLoadBalancer"
  BY DEF StartReconcile, Reconcile, ReconcileDelete
<1>8. /\ mem' \in Objects /\ mem'.finalizer /\ mem'.dns = cache.dns
      /\ mem'.host = cache.host /\ mem'.endpointPort = cache.endpointPort
      /\ mem'.lbID = cache.lbID /\ mem'.ready = cache.ready
  BY <1>1, <1>7, ClusterAssumption, ZenonT(120) DEF Objects, ApplyDefault, CopyOK
<1>13. pc' \in NormalCalls => mem'.port # 0
  BY <1>1, <1>7, ClusterAssumption, ZenonT(60) DEF Objects, ApplyDefault, NormalCalls, RecordCalls
<1>9. TypeOK' /\ BareOK'
  BY <1>1, <1>6, <1>7, <1>8
  DEF StartReconcile, IInv, TypeOK, BareOK, ApiTypeOK, PCs, CloudCalls, cloud
<1>10. RunOK' /\ SpecArrived'
  BY <1>1, <1>2, <1>7, <1>8, <1>13
  DEF RunOK, SpecArrived, Unrecorded, NormalCalls, RecordCalls, DeleteCalls, PatchCalls
<1>11. ReadyHasEndpoint' /\ (store'.ready => store'.lbID # NoLB)
  BY <1>1, <1>2 DEF IInv, ReadyHasEndpoint, Announced, cloud
<1>12. ProtectionOK'
  BY <1>2, <1>7 DEF IInv, ProtectionOK, Announced, Unrecorded, NormalCalls, RecordCalls
<1> QED
  BY <1>3, <1>5, <1>6, <1>9, <1>10, <1>11, <1>12 DEF IInv

\* A call to DigitalOcean, whatever comes of it.
LEMMA CallStep ==
  ASSUME IInv, UNCHANGED <<api, orig, edits>>, mishaps' \in MishapCounts,
         Happened("patchError") => Happened("patchError")',
         CloudOK', pc \in CloudCalls, pc' \in CloudCalls \union {"PatchSpec"},
         pc' \in NormalCalls => pc \in NormalCalls,
         records' = records \/ pc \in NormalCalls \/ RecordDeleted,
         mem' \in Objects, RunOK', addressed' \in BOOLEAN, bare' = bare
  PROVE  IInv'
<1>1. ApiTypeOK' /\ CacheFollows' /\ PhaseOrder' /\ Copies'
  BY RestKeeps
<1>2. TypeOK' /\ BareOK'
  BY <1>1 DEF IInv, TypeOK, ApiTypeOK, CloudOK, PCs
<1>3. SpecArrived' /\ ReadyHasEndpoint' /\ (store'.ready => store'.lbID # NoLB)
  BY DEF IInv, SpecArrived, ReadyHasEndpoint, Announced, api, CloudCalls
<1>4. Unrecorded(store.dns) => Unrecorded(store.dns)' \/ pc \in NormalCalls
  <2>1. CASE RecordDeleted
    <3>1. records' = [records EXCEPT ![mem.dns] = NoAddress] /\ store' = store
      BY <2>1 DEF RecordDeleted, api
    <3>2. store.dns \in Names \union {NoName} /\ records \in [Names -> LBIDs \union {NoAddress}]
      BY DEF IInv, TypeOK, Objects
    <3> QED
      BY <3>1, <3>2 DEF Unrecorded
  <2> QED
    BY <2>1 DEF Unrecorded, api
<1>5. ProtectionOK'
  BY <1>4 DEF IInv, ProtectionOK, Announced, api
<1> QED
  BY <1>1, <1>2, <1>3, <1>5 DEF IInv

\* The reconciliation ends without an endpoint: it waits, or a call failed.
LEMMA Waits ==
  ASSUME IInv, pc \in CloudCalls, UNCHANGED <<api, orig>>, pc' = "PatchSpec",
         mem'.finalizer, mem'.dns = mem.dns, mem'.host = mem.host,
         mem'.endpointPort = mem.endpointPort, mem'.ready = mem.ready,
         mem'.lbID = mem.lbID \/ mem'.lbID # NoLB, bare' = bare
  PROVE  RunOK'
<1>1. CopyOK(orig)
  BY Typed
<1> QED
  BY <1>1
  DEF IInv, RunOK, CopyOK, HostOK, Announced, api, CloudCalls, NormalCalls, RecordCalls, DeleteCalls, PatchCalls

\* The reconciliation ends with an endpoint.
LEMMA Finishes ==
  ASSUME IInv, pc \in CloudCalls, UNCHANGED <<api, orig, bare>>,
         NEW obj \in Objects, NEW ip \in BOOLEAN, Finish(obj, ip),
         obj.finalizer, obj.dns = mem.dns, obj.lbID # NoLB, obj.port # 0,
         obj.dns = NoName /\ ~ip => bare
  PROVE  RunOK' /\ mem' \in Objects /\ pc' = "PatchSpec" /\ addressed' = FALSE
<1> DEFINE host == IF obj.dns # NoName THEN obj.dns ELSE IF ip THEN obj.lbID ELSE NoName
<1>1. host \in LBIDs \union Names \union {NoName} /\ (host # NoName \/ bare)
  BY ClusterAssumption DEF Objects, LBIDs
<1>2. /\ pc' = "PatchSpec" /\ addressed' = FALSE
      /\ mem' = [obj EXCEPT !.host = host, !.endpointPort = obj.port, !.ready = TRUE]
  BY DEF Finish, Return
<1>3. /\ mem' \in Objects /\ mem'.host = host /\ mem'.finalizer /\ mem'.dns = mem.dns
      /\ mem'.lbID = obj.lbID /\ mem'.endpointPort = obj.port
  BY <1>1, <1>2, ZenonT(60) DEF Objects
<1>4. Announced(mem)' /\ HostOK(mem)'
  BY <1>1, <1>3 DEF Announced, HostOK
<1> QED
  BY <1>2, <1>3, <1>4, ZenonT(60)
  DEF IInv, RunOK, api, CloudCalls, NormalCalls, RecordCalls, DeleteCalls, PatchCalls

\* The reconciliation of a deletion ends and gives the finalizer back.
LEMMA LetsGo ==
  ASSUME IInv, pc \in DeleteCalls, UNCHANGED <<api, orig>>,
         Return([mem EXCEPT !.finalizer = FALSE]), Unrecorded(orig.dns)', bare' = bare
  PROVE  RunOK' /\ mem' \in Objects /\ pc' = "PatchSpec"
<1>1. mem \in Objects /\ CopyOK(orig)
  BY Typed
<1>2. /\ pc' = "PatchSpec" /\ mem' = [mem EXCEPT !.finalizer = FALSE]
  BY DEF Return
<1>3. /\ mem' \in Objects /\ ~mem'.finalizer /\ mem'.dns = mem.dns /\ mem'.host = mem.host
      /\ mem'.endpointPort = mem.endpointPort /\ mem'.ready = mem.ready
      /\ mem'.lbID = mem.lbID
  BY <1>1, <1>2, Zenon DEF Objects
<1> QED
  BY <1>1, <1>2, <1>3
  DEF IInv, RunOK, CopyOK, HostOK, Announced, api, CloudCalls, NormalCalls, RecordCalls, DeleteCalls, PatchCalls

\* What a reconciliation knows at every call.
LEMMA AtCall ==
  ASSUME IInv, pc \in CloudCalls
  PROVE  /\ mem \in Objects /\ orig \in Objects /\ CloudOK
         /\ mem.finalizer /\ mem.dns = orig.dns /\ mem.lbID = orig.lbID
         /\ mem.host = orig.host /\ mem.endpointPort = orig.endpointPort
         /\ mem.ready = orig.ready /\ addressed \in BOOLEAN
         /\ pc \in NormalCalls => mem.port # 0
BY Typed DEF IInv, RunOK

\* A load balancer is found, or it is created.
LEMMA LoadBalancerIInv ==
  ASSUME IInv, GetLoadBalancer \/ CreateLoadBalancer
  PROVE  IInv'
<1>1. /\ pc \in CloudCalls /\ pc \in NormalCalls /\ UNCHANGED <<api, mishaps, edits, records>>
      /\ pc \in {"GetLoadBalancer", "CreateLoadBalancer"}
      /\ UNCHANGED <<advertised, bare>> /\ mishaps' \in MishapCounts
      /\ Happened("patchError") => Happened("patchError")'
  BY Typed, Zenon
  DEF GetLoadBalancer, CreateLoadBalancer, LBCreated, CloudCalls, NormalCalls, cloud, Happened
<1>2. /\ mem \in Objects /\ CloudOK /\ mem.finalizer /\ mem.port # 0
      /\ addressed \in BOOLEAN
  BY <1>1, AtCall
<1>3. ASSUME NEW id \in LBIDs, HaveLB(id, lbs[id], hasIP[id]), UNCHANGED cloud, id = mem.lbID
      PROVE  IInv'
  <2> DEFINE obj == [mem EXCEPT !.lbID = id]
  <2>1. obj = mem /\ id # NoLB /\ orig' = orig
    BY <1>2, <1>3 DEF Objects, NoLB, LBIDs, HaveLB, LBReady, Return, Finish
  <2>2. CloudOK' /\ hasIP[id] \in BOOLEAN
    BY <1>2, <1>3 DEF CloudOK, BareOK, cloud
  <2>3. CASE Return(mem)
    <3>1. RunOK' /\ mem' \in Objects /\ pc' = "PatchSpec" /\ addressed' \in BOOLEAN
      BY <1>1, <1>2, <2>1, <2>3, Waits, ZenonT(60) DEF Return
    <3> QED
      BY <1>1, <2>1, <2>2, <3>1, CallStep DEF NormalCalls, RecordCalls
  <2>4. CASE (lbs[id] = "active" \/ hasIP[id]) /\ Finish(mem, hasIP[id])
    <3>1. ~hasIP[id] => bare
      BY <1>2, <2>4 DEF CloudOK, BareOK
    <3>2. RunOK' /\ mem' \in Objects /\ pc' = "PatchSpec" /\ addressed' \in BOOLEAN
      BY <1>1, <1>2, <1>3, <2>1, <2>2, <2>4, <3>1, Finishes, ZenonT(60)
    <3> QED
      BY <1>1, <2>1, <2>2, <3>2, CallStep DEF NormalCalls, RecordCalls
  <2>5. CASE /\ mem.dns # NoName /\ pc' = "GetDomainRecord" /\ mem' = mem
             /\ addressed' = hasIP[id]
    <3>1. pc' = "GetDomainRecord" /\ mem' = mem /\ addressed' \in BOOLEAN
      BY <2>2, <2>5
    <3>2. RunOK'
      BY <1>1, <1>3, <2>1, <2>5, <3>1
      DEF IInv, RunOK, api, CloudCalls, NormalCalls, RecordCalls, DeleteCalls, PatchCalls
    <3> QED
      BY <1>1, <1>2, <2>1, <2>2, <3>1, <3>2, CallStep DEF NormalCalls, RecordCalls, CloudCalls
  <2> QED
    BY <1>3, <2>1, <2>3, <2>4, <2>5 DEF HaveLB, LBReady
<1>4. CASE GetLoadBalancer
  <2>1. CASE Found(mem.lbID)
    BY <1>2, <1>3, <1>4, <2>1 DEF GetLoadBalancer, Found, Objects
  <2>2. CASE ~Found(mem.lbID)
    <3>1. /\ pc' = "CreateLoadBalancer" /\ mem' = mem /\ orig' = orig /\ UNCHANGED cloud
          /\ addressed' = addressed
      BY <1>4, <2>2 DEF GetLoadBalancer, Call
    <3>2. RunOK'
      BY <1>1, <3>1
      DEF IInv, RunOK, api, CloudCalls, NormalCalls, RecordCalls, DeleteCalls, PatchCalls
    <3>3. CloudOK'
      BY <1>2, <3>1 DEF CloudOK, BareOK, cloud
    <3> QED
      BY <1>1, <1>2, <3>1, <3>2, <3>3, CallStep DEF NormalCalls, RecordCalls, CloudCalls
  <2> QED
    BY <2>1, <2>2
<1>5. CASE CreateLoadBalancer
  <2>1. PICK l \in LBIDs : LBCreated(l) /\ Return([mem EXCEPT !.lbID = l])
    BY <1>5 DEF CreateLoadBalancer
  <2>2. /\ pc' = "PatchSpec" /\ orig' = orig /\ mem' \in Objects /\ mem'.lbID # NoLB
        /\ mem'.finalizer /\ mem'.dns = mem.dns /\ mem'.host = mem.host
        /\ mem'.endpointPort = mem.endpointPort /\ mem'.ready = mem.ready
    BY <1>2, <2>1 DEF Return, Objects, NoLB, LBIDs
  <2>3. RunOK'
    BY <1>1, <2>2, Waits
  <2>4. CloudOK'
    BY <1>1, <1>2, <2>1 DEF LBCreated, CloudOK, BareOK, LBStatuses, Objects
  <2>5. addressed' \in BOOLEAN
    BY <2>1, ZenonT(60) DEF Return
  <2> QED
    BY <1>1, <2>2, <2>3, <2>4, <2>5, CallStep DEF NormalCalls, RecordCalls
<1> QED
  BY <1>4, <1>5

\* The record is looked up, written, and awaited.
LEMMA RecordIInv ==
  ASSUME IInv, GetDomainRecord \/ UpsertDomainRecord \/ CheckDNSPropagated
  PROVE  IInv'
<1>1. /\ pc \in CloudCalls /\ pc \in NormalCalls /\ pc \in RecordCalls
      /\ UNCHANGED <<api, mishaps, edits, lbs, hasIP, lbPort, advertised, bare>>
      /\ mishaps' \in MishapCounts
      /\ Happened("patchError") => Happened("patchError")'
  BY Typed
  DEF GetDomainRecord, UpsertDomainRecord, CheckDNSPropagated, RecordUpserted, CloudCalls,
      NormalCalls, RecordCalls, cloud, Happened
<1>2. /\ mem \in Objects /\ CloudOK /\ mem.finalizer /\ mem.port # 0
      /\ addressed \in BOOLEAN
  BY <1>1, AtCall
<1>3. mem.lbID # NoLB /\ mem.dns # NoName /\ mem.lbID \in LBIDs /\ mem.dns \in Names
  BY <1>1, <1>2 DEF IInv, RunOK, Objects
<1>4. CloudOK'
  <2>1. \/ records' = records
        \/ records' = [records EXCEPT ![mem.dns] = IF addressed THEN mem.lbID ELSE @]
    BY DEF GetDomainRecord, UpsertDomainRecord, CheckDNSPropagated, RecordUpserted, cloud
  <2> QED
    BY <1>1, <1>2, <1>3, <2>1 DEF CloudOK, BareOK
<1>5. ASSUME NEW obj \in Objects, Finish(obj, addressed),
             obj.finalizer, obj.dns = mem.dns, obj.lbID = mem.lbID, obj.port = mem.port
      PROVE  IInv'
  <2>1. RunOK' /\ mem' \in Objects /\ pc' = "PatchSpec" /\ orig' = orig /\ addressed' \in BOOLEAN
    BY <1>2, <1>1, <1>3, <1>5, Finishes, Zenon DEF Finish, Return
  <2> QED
    BY <1>1, <1>4, <2>1, CallStep DEF NormalCalls, RecordCalls
<1>6. ASSUME NEW step \in RecordCalls, NEW ready \in BOOLEAN,
             Call(step, [mem EXCEPT !.dnsReady = ready])
      PROVE  IInv'
  <2>1. /\ pc' = step /\ orig' = orig /\ mem' \in Objects
        /\ mem'.finalizer = mem.finalizer /\ mem'.dns = mem.dns /\ mem'.host = mem.host
        /\ mem'.endpointPort = mem.endpointPort /\ mem'.ready = mem.ready
        /\ mem'.lbID = mem.lbID /\ mem'.port = mem.port /\ addressed' = addressed
    BY <1>2, <1>6, Zenon DEF Call, Objects
  <2>2. RunOK'
    BY <1>1, <1>6, <2>1
    DEF IInv, RunOK, api, CloudCalls, NormalCalls, RecordCalls, DeleteCalls, PatchCalls
  <2> QED
    BY <1>1, <1>2, <1>4, <1>6, <2>1, <2>2, CallStep DEF NormalCalls, RecordCalls, CloudCalls
<1>7. mem = [mem EXCEPT !.dnsReady = mem.dnsReady] /\ mem.dnsReady \in BOOLEAN
  BY <1>2 DEF Objects
<1>8. CASE GetDomainRecord
  <2>1. \/ Call("UpsertDomainRecord", [mem EXCEPT !.dnsReady = FALSE])
        \/ Finish(mem, addressed) \/ Call("CheckDNSPropagated", mem)
    BY <1>8 DEF GetDomainRecord, RecordWritten
  <2> QED
    BY <1>2, <1>5, <1>6, <1>7, <2>1, Zenon DEF RecordCalls
<1>9. CASE UpsertDomainRecord
  BY <1>6, <1>7, <1>9 DEF UpsertDomainRecord, RecordCalls
<1>10. CASE CheckDNSPropagated
  <2>1. CASE Return(mem)
    <3>1. /\ RunOK' /\ mem' \in Objects /\ pc' = "PatchSpec" /\ orig' = orig
          /\ addressed' \in BOOLEAN
      BY <1>1, <1>2, <2>1, Waits, ZenonT(60) DEF Return
    <3> QED
      BY <1>1, <1>4, <3>1, CallStep DEF NormalCalls, RecordCalls
  <2>2. CASE Finish([mem EXCEPT !.dnsReady = TRUE], addressed)
    <3>1. [mem EXCEPT !.dnsReady = TRUE] \in Objects
      BY <1>2, Zenon DEF Objects
    <3> QED
      BY <1>2, <1>5, <2>2, <3>1 DEF Objects
  <2> QED
    BY <1>10, <2>1, <2>2 DEF CheckDNSPropagated
<1> QED
  BY <1>8, <1>9, <1>10

\* The record and the load balancer are deleted.
LEMMA DeletesIInv ==
  ASSUME IInv, DeleteDomainRecord \/ DeleteGetLoadBalancer \/ DeleteLoadBalancer
  PROVE  IInv'
<1>1. /\ pc \in CloudCalls /\ pc \in DeleteCalls
      /\ UNCHANGED <<api, orig, mishaps, edits, bare>>
      /\ mishaps' \in MishapCounts /\ addressed' \in BOOLEAN
      /\ Happened("patchError") => Happened("patchError")'
  BY Typed, ZenonT(60)
  DEF DeleteDomainRecord, DeleteGetLoadBalancer, DeleteLoadBalancer, CloudCalls,
      RecordDeleted, LBDeleted, cloud, DeleteCalls, Happened, Call, Return
<1>2. /\ mem \in Objects /\ orig \in Objects /\ CloudOK /\ mem.dns = orig.dns
  BY <1>1, AtCall
<1>3. CloudOK'
  BY <1>2, ZenonT(60)
  DEF DeleteDomainRecord, DeleteGetLoadBalancer, DeleteLoadBalancer, RecordDeleted, LBDeleted,
      Destroyed, CloudOK, BareOK, LBStatuses, cloud, NoAddress
<1>4. records' = records \/ RecordDeleted
  BY DEF DeleteDomainRecord, DeleteGetLoadBalancer, DeleteLoadBalancer, LBDeleted, cloud
<1>5. Unrecorded(orig.dns)'
  <2>1. CASE DeleteDomainRecord
    BY <1>1, <1>2, <2>1 DEF DeleteDomainRecord, RecordDeleted, Unrecorded, CloudOK, Objects
  <2>2. CASE DeleteGetLoadBalancer \/ DeleteLoadBalancer
    BY <1>1, <2>2
    DEF DeleteGetLoadBalancer, DeleteLoadBalancer, LBDeleted, cloud, IInv, RunOK, Unrecorded
  <2> QED
    BY <2>1, <2>2
<1>6. CASE Return([mem EXCEPT !.finalizer = FALSE])
  <2>1. RunOK' /\ mem' \in Objects /\ pc' = "PatchSpec"
    BY <1>1, <1>5, <1>6, LetsGo
  <2> QED
    BY <1>1, <1>3, <1>4, <2>1, CallStep DEF NormalCalls, RecordCalls
<1>7. ASSUME NEW step \in {"DeleteGetLoadBalancer", "DeleteLoadBalancer"}, Call(step, mem)
      PROVE  IInv'
  <2>1. pc' = step /\ mem' = mem
    BY <1>7 DEF Call
  <2>2. RunOK'
    BY <1>1, <1>5, <1>7, <2>1, ZenonT(60)
    DEF IInv, RunOK, api, CloudCalls, NormalCalls, RecordCalls, DeleteCalls, PatchCalls
  <2> QED
    BY <1>1, <1>2, <1>3, <1>4, <1>7, <2>1, <2>2, CallStep DEF NormalCalls, RecordCalls, CloudCalls
<1> QED
  BY <1>6, <1>7 DEF DeleteDomainRecord, DeleteGetLoadBalancer, DeleteLoadBalancer

\* A call fails, or takes effect and its answer is lost.
LEMMA ErrorIInv ==
  ASSUME IInv, CallFails \/ ReplyLost, mishaps' \in MishapCounts,
         Happened("patchError") => Happened("patchError")'
  PROVE  IInv'
<1>1. /\ pc \in CloudCalls /\ UNCHANGED <<api, orig, edits>>
      /\ pc' = "PatchSpec" /\ mem' = mem /\ addressed' \in BOOLEAN /\ bare' = bare
  BY ZenonT(60) DEF CallFails, ReplyLost, Return, CloudCalls, cloud, RecordUpserted, RecordDeleted,
         LBDeleted, LBCreated
<1>2. /\ mem \in Objects /\ CloudOK /\ mem.finalizer
  BY <1>1, AtCall
<1>3. RunOK'
  BY <1>1, <1>2, Waits
<1>4. pc = "UpsertDomainRecord" => mem.lbID \in LBIDs /\ mem.dns \in Names
  BY <1>2 DEF IInv, RunOK, RecordCalls, Objects
<1>5. CloudOK'
  <2>1. CASE UNCHANGED cloud
    BY <1>2, <2>1 DEF cloud, CloudOK, BareOK
  <2>2. CASE pc = "UpsertDomainRecord" /\ RecordUpserted
    BY <1>2, <1>4, <2>2 DEF RecordUpserted, CloudOK, BareOK
  <2>3. CASE RecordDeleted \/ LBDeleted
    BY <1>2, <2>3, ZenonT(60) DEF RecordDeleted, LBDeleted, Destroyed, CloudOK, BareOK, LBStatuses, NoAddress
  <2>4. CASE \E l \in LBIDs : LBCreated(l)
    BY <1>2, <2>4 DEF LBCreated, CloudOK, BareOK, LBStatuses, Objects
  <2> QED
    BY <2>1, <2>2, <2>3, <2>4 DEF CallFails, ReplyLost
<1>6. records' = records \/ pc \in NormalCalls \/ RecordDeleted
  BY DEF CallFails, ReplyLost, LBDeleted, LBCreated, cloud, NormalCalls, RecordCalls
<1> QED
  BY <1>1, <1>2, <1>3, <1>5, <1>6, CallStep DEF NormalCalls, RecordCalls

-----------------------------------------------------------------------------
(* Close.                                                                  *)

\* The first request, field by field.
LEMMA SpecPatchFacts ==
  ASSUME store \in Objects, orig \in Objects, mem \in Objects
  PROVE  /\ SpecPatch \in Objects
         /\ SpecPatch.finalizer = Merged(store.finalizer, orig.finalizer, mem.finalizer)
         /\ SpecPatch.host = Merged(store.host, orig.host, mem.host)
         /\ SpecPatch.endpointPort =
              Merged(store.endpointPort, orig.endpointPort, mem.endpointPort)
         /\ SpecPatch.dns = store.dns /\ SpecPatch.lbID = store.lbID
         /\ SpecPatch.ready = store.ready /\ SpecPatch.dnsReady = store.dnsReady
         /\ SpecPatch.port = Merged(store.port, orig.port, mem.port)
         /\ SpecPatch.phase = IF store.phase = "deleting" /\ ~SpecPatch.finalizer
                              THEN "gone" ELSE store.phase
<1>1. PICK finalizer \in BOOLEAN, port \in Ports \union {0},
           host \in LBIDs \union Names \union {NoName}, endpointPort \in Ports \union {0} :
        /\ finalizer = Merged(store.finalizer, orig.finalizer, mem.finalizer)
        /\ port = Merged(store.port, orig.port, mem.port)
        /\ host = Merged(store.host, orig.host, mem.host)
        /\ endpointPort = Merged(store.endpointPort, orig.endpointPort, mem.endpointPort)
  BY DEF Merged, Objects
<1> DEFINE merged == [store EXCEPT !.finalizer = finalizer, !.port = port, !.host = host,
                                   !.endpointPort = endpointPort]
<1>2. /\ merged \in Objects /\ merged.phase = store.phase
      /\ merged.finalizer = finalizer /\ merged.host = host
      /\ merged.endpointPort = endpointPort /\ merged.port = port
      /\ merged.dnsReady = store.dnsReady
      /\ merged.dns = store.dns /\ merged.lbID = store.lbID /\ merged.ready = store.ready
  <2>1. merged \in Objects
    BY ZenonT(60) DEF Objects
  <2>2. merged.phase = store.phase /\ merged.dns = store.dns /\ merged.lbID = store.lbID
    BY DEF Objects
  <2>3. merged.host = host /\ merged.endpointPort = endpointPort
    BY DEF Objects
  <2>4. merged.finalizer = finalizer
    BY DEF Objects
  <2>5. merged.ready = store.ready /\ merged.dnsReady = store.dnsReady
    BY DEF Objects
  <2>6. merged.port = port
    BY DEF Objects
  <2> QED
    BY <2>1, <2>2, <2>3, <2>4, <2>5, <2>6
<1>3. SpecPatch = Finalized(merged)
  BY <1>1 DEF SpecPatch
<1> HIDE DEF merged
<1>4. SpecPatch = [merged EXCEPT !.phase = "gone"] \/ SpecPatch = merged
  BY <1>3 DEF Finalized
<1> QED
  BY <1>1, <1>2, <1>3, <1>4 DEF Finalized, Objects, Phases

\* The first request writes the endpoint of the reconciliation, or none.
LEMMA EndpointPatch ==
  ASSUME IInv, ValidateUpdate(store, SpecPatch)
  PROVE  \/ /\ Announced(store)
            /\ SpecPatch.host = store.host /\ SpecPatch.endpointPort = store.endpointPort
         \/ /\ ~Announced(store) /\ ~Announced(orig)
            /\ SpecPatch.host = mem.host /\ SpecPatch.endpointPort = mem.endpointPort
<1>1. /\ SpecPatch.host = Merged(store.host, orig.host, mem.host)
      /\ SpecPatch.endpointPort =
           Merged(store.endpointPort, orig.endpointPort, mem.endpointPort)
      /\ CopyOK(orig)
  BY Typed, SpecPatchFacts DEF ApiTypeOK
<1> QED
  BY <1>1 DEF ValidateUpdate, Announced, CopyOK, Merged

\* The first request arrives.
LEMMA SpecWritten ==
  ASSUME IInv, pc = "PatchSpec", pc' = "PatchStatus", Write(SpecPatch), store.phase # "gone",
         ValidateUpdate(store, SpecPatch), UNCHANGED <<mishaps, orig, mem, addressed, cloud, edits>>
  PROVE  IInv'
<1>1. /\ store \in Objects /\ orig \in Objects /\ mem \in Objects
      /\ CopyOK(store) /\ CopyOK(orig)
      /\ Happened("patchError")' = Happened("patchError")
  BY Typed DEF ApiTypeOK, Happened
<1>2. /\ SpecPatch \in Objects
      /\ SpecPatch.finalizer = Merged(store.finalizer, orig.finalizer, mem.finalizer)
      /\ SpecPatch.host = Merged(store.host, orig.host, mem.host)
      /\ SpecPatch.endpointPort =
           Merged(store.endpointPort, orig.endpointPort, mem.endpointPort)
      /\ SpecPatch.dns = store.dns /\ SpecPatch.lbID = store.lbID
      /\ SpecPatch.ready = store.ready
      /\ SpecPatch.phase = IF store.phase = "deleting" /\ ~SpecPatch.finalizer
                           THEN "gone" ELSE store.phase
  BY <1>1, SpecPatchFacts
<1>3. /\ mem.ready /\ ~orig.ready => Announced(mem)
      /\ HostOK(mem)
      /\ ~mem.finalizer =>
           /\ orig.phase = "deleting" /\ Unrecorded(orig.dns)
           /\ mem.host = orig.host /\ mem.endpointPort = orig.endpointPort
  BY DEF IInv, RunOK, PatchCalls
<1>4. Announced(store) => Announced(SpecPatch)
  BY EndpointPatch DEF Announced
<1>13. HostOK(SpecPatch)
  BY <1>1, <1>3, EndpointPatch DEF HostOK, Announced, CopyOK
<1>5. /\ ApiTypeOK' /\ CacheFollows' /\ PhaseOrder' /\ Copies'
      /\ store' = SpecPatch /\ cache' = cache
      /\ protected' = (protected \/ SpecPatch.finalizer)
  BY <1>1, <1>2, <1>4, <1>13, WriteKeeps, ZenonT(60) DEF CopyOK, cloud
<1>6. TypeOK' /\ BareOK'
  BY <1>5 DEF IInv, TypeOK, BareOK, ApiTypeOK, cloud, PCs
<1>7. RunOK'
  BY <1>5
  DEF IInv, RunOK, HostOK, Announced, Unrecorded, cloud, CloudCalls, NormalCalls, RecordCalls, DeleteCalls,
      PatchCalls
<1>8. mem.finalizer => protected'
  BY <1>1, <1>2, <1>5, Zenon DEF Merged, CopyOK
<1>9. SpecArrived'
  <2>1. mem.ready /\ ~orig.ready => Announced(store)'
    BY <1>3, <1>5, EndpointPatch DEF Announced
  <2> QED
    BY <1>8, <2>1 DEF SpecArrived
<1>10. ReadyHasEndpoint' /\ (store'.ready => store'.lbID # NoLB)
  BY <1>1, <1>2, <1>4, <1>5, <1>13 DEF IInv, ReadyHasEndpoint, HostOK, Announced, cloud
<1>11. ~mem.finalizer => store.phase = "deleting" /\ cache.phase # "live"
  <2>1. SUFFICES ASSUME ~mem.finalizer PROVE store.phase = "deleting" /\ cache.phase # "live"
    OBVIOUS
  <2>2. orig.phase = "deleting"
    BY <1>3, <2>1
  <2> QED
    BY <1>1, <2>2 DEF CopyOK, Objects, Phases, IInv, RunOK
<1>12. ProtectionOK'
  <2>1. protected' /\ store'.phase # "gone" => store'.finalizer
    BY <1>1, <1>2, <1>5, <1>11 DEF IInv, ProtectionOK, Merged, Objects, CopyOK
  <2>2. Announced(store)' => protected'
    BY <1>3, <1>5, <1>8, EndpointPatch, ZenonT(60) DEF IInv, ProtectionOK, Announced
  <2>3. store'.lbID # NoLB /\ ~Happened("patchError")' => protected'
    BY <1>1, <1>2, <1>5, Zenon DEF IInv, ProtectionOK
  <2>4. ASSUME protected', store'.phase = "gone"
        PROVE  /\ edits'["lateDNS"] = 0 => Unrecorded(store.dns)'
               /\ cache'.phase # "live" /\ pc' \notin NormalCalls
    <3>1. ~mem.finalizer
      BY <1>1, <1>2, <1>5, <2>4 DEF Merged, CopyOK
    <3>2. Unrecorded(orig.dns) /\ orig.phase # "live"
      BY <1>3, <3>1
    <3>3. edits["lateDNS"] = 0 => orig.dns = store.dns
      BY <1>1, <3>2 DEF CopyOK
    <3> QED
      BY <1>2, <1>5, <1>11, <3>1, <3>2, <3>3, ZenonT(60) DEF Unrecorded, cloud, NormalCalls, RecordCalls
  <2> QED
    BY <2>1, <2>2, <2>3, <2>4 DEF ProtectionOK
<1> QED
  BY <1>5, <1>6, <1>7, <1>9, <1>10, <1>12 DEF IInv

\* The first request, also when the webhook refuses it or it fails.
LEMMA PatchSpecIInv ==
  ASSUME IInv, PatchSpec, mishaps' \in MishapCounts,
         Happened("patchError") => Happened("patchError")'
  PROVE  IInv'
<1>1. /\ pc = "PatchSpec" /\ pc' = "PatchStatus"
      /\ UNCHANGED <<orig, mem, addressed, cloud, edits>> /\ CopyOK(store)
  BY Typed DEF PatchSpec
<1>2. CASE /\ store.phase # "gone" /\ ValidateUpdate(store, SpecPatch)
           /\ Write(SpecPatch) /\ NoMishap
  BY <1>1, <1>2, SpecWritten DEF NoMishap
<1>3. CASE UNCHANGED api
  <2>1. ApiTypeOK' /\ CacheFollows' /\ PhaseOrder' /\ Copies'
    BY <1>1, <1>3, RestKeeps DEF cloud
  <2>2. TypeOK' /\ BareOK'
    BY <1>1, <2>1 DEF IInv, TypeOK, BareOK, ApiTypeOK, cloud, PCs
  <2>3. RunOK'
    BY <1>1, <1>3, ZenonT(60)
    DEF IInv, RunOK, HostOK, Announced, Unrecorded, api, cloud, CloudCalls, NormalCalls, RecordCalls,
        DeleteCalls, PatchCalls
  <2>4. ReadyHasEndpoint' /\ (store'.ready => store'.lbID # NoLB)
    BY <1>1, <1>3 DEF IInv, ReadyHasEndpoint, Announced, api, cloud
  <2>5. ProtectionOK'
    BY <1>1, <1>3
    DEF IInv, ProtectionOK, Announced, Unrecorded, api, cloud, NormalCalls, RecordCalls
  <2>6. SpecArrived'
    <3>1. CASE RequestFails
      <4>1. Happened("patchError")'
        BY <3>1, MishapHappens DEF RequestFails, IInv, TypeOK
      <4> QED
        BY <4>1 DEF SpecArrived
    <3>2. CASE store.phase = "gone"
      BY <1>3, <3>2 DEF SpecArrived, api
    <3>3. CASE ~ValidateUpdate(store, SpecPatch)
      <4>1. Announced(store)
        BY <3>3 DEF ValidateUpdate
      <4>2. Announced(store)' /\ protected'
        BY <1>3, <4>1 DEF IInv, ProtectionOK, Announced, api
      <4> QED
        BY <4>2 DEF SpecArrived
    <3>4. CASE /\ store.phase # "gone" /\ ValidateUpdate(store, SpecPatch)
               /\ Write(SpecPatch) /\ NoMishap
      <4>1. IInv'
        BY <1>2, <3>4
      <4> QED
        BY <4>1 DEF IInv
    <3> QED
      BY <3>1, <3>2, <3>3, <3>4 DEF PatchSpec
  <2> QED
    BY <2>1, <2>2, <2>3, <2>4, <2>5, <2>6 DEF IInv
<1> QED
  BY <1>2, <1>3 DEF PatchSpec, RequestFails

\* The second request, field by field.
LEMMA StatusPatchFacts ==
  ASSUME store \in Objects, orig \in Objects, mem \in Objects
  PROVE  /\ StatusPatch \in Objects /\ StatusPatch.phase = store.phase
         /\ StatusPatch.finalizer = store.finalizer /\ StatusPatch.dns = store.dns
         /\ StatusPatch.host = store.host /\ StatusPatch.endpointPort = store.endpointPort
         /\ StatusPatch.lbID = Merged(store.lbID, orig.lbID, mem.lbID)
         /\ StatusPatch.ready = Merged(store.ready, orig.ready, mem.ready)
         /\ StatusPatch.dnsReady = Merged(store.dnsReady, orig.dnsReady, mem.dnsReady)
         /\ StatusPatch.port = store.port
<1>1. PICK lbID \in LBIDs \union {NoLB}, dnsReady \in BOOLEAN, ready \in BOOLEAN :
        /\ lbID = Merged(store.lbID, orig.lbID, mem.lbID)
        /\ dnsReady = Merged(store.dnsReady, orig.dnsReady, mem.dnsReady)
        /\ ready = Merged(store.ready, orig.ready, mem.ready)
  BY DEF Merged, Objects
<1>2. StatusPatch = [store EXCEPT !.lbID = lbID, !.dnsReady = dnsReady, !.ready = ready]
  BY <1>1 DEF StatusPatch
<1> DEFINE new == [store EXCEPT !.lbID = lbID, !.dnsReady = dnsReady, !.ready = ready]
<1>3. new \in Objects
  BY ZenonT(60) DEF Objects
<1>4. new.phase = store.phase /\ new.dns = store.dns /\ new.host = store.host
  BY DEF Objects
<1>5. new.endpointPort = store.endpointPort /\ new.lbID = lbID /\ new.port = store.port
  BY DEF Objects
<1>6. new.finalizer = store.finalizer
  BY DEF Objects
<1>7. new.ready = ready
  BY DEF Objects
<1>8. new.dnsReady = dnsReady
  BY DEF Objects
<1> HIDE DEF new
<1> QED
  BY <1>1, <1>2, <1>3, <1>4, <1>5, <1>6, <1>7, <1>8 DEF new

\* The second request ends the reconciliation, whether it arrives or not.
LEMMA PatchStatusIInv ==
  ASSUME IInv, PatchStatus, mishaps' \in MishapCounts,
         Happened("patchError") => Happened("patchError")'
  PROVE  IInv'
<1>1. /\ pc = "PatchStatus" /\ pc' = "idle" /\ orig' = NewObject /\ mem' = NewObject
      /\ addressed' \in BOOLEAN /\ UNCHANGED <<cloud, edits>>
      /\ store \in Objects /\ orig \in Objects /\ mem \in Objects
      /\ CopyOK(store) /\ CopyOK(orig)
  BY Typed, ZenonT(60) DEF PatchStatus, Idle, ApiTypeOK
<1>2. RunOK' /\ SpecArrived'
  BY <1>1
  DEF RunOK, SpecArrived, CloudCalls, NormalCalls, RecordCalls, DeleteCalls, PatchCalls
<1>3. CASE UNCHANGED api
  <2>1. ApiTypeOK' /\ CacheFollows' /\ PhaseOrder' /\ Copies'
    BY <1>1, <1>3, RestKeeps DEF cloud
  <2>2. TypeOK' /\ BareOK'
    BY <1>1, <2>1, NewObjectType DEF IInv, TypeOK, BareOK, ApiTypeOK, cloud, PCs
  <2>3. ReadyHasEndpoint' /\ (store'.ready => store'.lbID # NoLB)
    BY <1>1, <1>3 DEF IInv, ReadyHasEndpoint, Announced, api, cloud
  <2>4. ProtectionOK'
    BY <1>1, <1>3
    DEF IInv, ProtectionOK, Announced, Unrecorded, api, cloud, NormalCalls, RecordCalls
  <2> QED
    BY <1>2, <2>1, <2>2, <2>3, <2>4 DEF IInv
<1>4. CASE store.phase # "gone" /\ Write(StatusPatch)
  <2>1. /\ StatusPatch \in Objects /\ StatusPatch.phase = store.phase
        /\ StatusPatch.finalizer = store.finalizer /\ StatusPatch.dns = store.dns
        /\ StatusPatch.host = store.host /\ StatusPatch.endpointPort = store.endpointPort
        /\ StatusPatch.lbID = Merged(store.lbID, orig.lbID, mem.lbID)
        /\ StatusPatch.ready = Merged(store.ready, orig.ready, mem.ready)
    BY <1>1, StatusPatchFacts
  <2>2. /\ mem.ready /\ ~orig.ready => mem.lbID # NoLB
        /\ orig.lbID # NoLB => mem.lbID # NoLB
        /\ ~mem.finalizer => mem.lbID = orig.lbID
    BY <1>1 DEF IInv, RunOK, PatchCalls
  <2>3. store.lbID # NoLB => StatusPatch.lbID # NoLB
    BY <2>1, <2>2 DEF Merged
  <2>4. /\ ApiTypeOK' /\ CacheFollows' /\ PhaseOrder' /\ Copies'
        /\ store' = StatusPatch /\ cache' = cache
        /\ protected' = (protected \/ StatusPatch.finalizer)
    BY <1>1, <1>4, <2>1, <2>3, WriteKeeps, ZenonT(60) DEF CopyOK, HostOK, Announced, cloud
  <2>5. TypeOK' /\ BareOK'
    BY <1>1, <2>4, NewObjectType DEF IInv, TypeOK, BareOK, ApiTypeOK, cloud, PCs
  <2>6. ReadyHasEndpoint'
    <3>1. CASE StatusPatch.ready /\ ~store.ready
      <4>1. mem.ready /\ ~orig.ready
        BY <1>1, <2>1, <3>1 DEF Merged, Objects
      <4>2. Announced(store) \/ Happened("patchError")
        BY <1>1, <1>4, <4>1 DEF IInv, SpecArrived
      <4>3. HostOK(store)
        BY <1>1 DEF CopyOK
      <4> QED
        BY <1>1, <2>1, <2>4, <4>2, <4>3 DEF HostOK, ReadyHasEndpoint, Announced, cloud
    <3>2. CASE ~StatusPatch.ready \/ store.ready
      BY <1>1, <2>1, <2>4, <3>2 DEF IInv, ReadyHasEndpoint, Announced, cloud
    <3> QED
      BY <3>1, <3>2
  <2>7. store'.ready => store'.lbID # NoLB
    <3>1. CASE StatusPatch.ready /\ ~store.ready
      <4>1. mem.lbID # NoLB
        BY <1>1, <2>1, <2>2, <3>1 DEF Merged, Objects
      <4> QED
        BY <1>1, <2>1, <2>4, <4>1 DEF Merged, CopyOK
    <3>2. CASE ~StatusPatch.ready \/ store.ready
      BY <2>3, <2>4, <3>2, ZenonT(60) DEF IInv
    <3> QED
      BY <3>1, <3>2
  <2>8. ProtectionOK'
    <3>1. ASSUME StatusPatch.lbID # NoLB, ~Happened("patchError")' PROVE protected'
      <4>1. CASE store.lbID # NoLB
        BY <2>4, <3>1, <4>1, Zenon DEF IInv, ProtectionOK
      <4>2. CASE store.lbID = NoLB
        <5>1. mem.lbID # orig.lbID
          BY <2>1, <3>1, <4>2 DEF Merged
        <5>2. protected
          BY <1>1, <1>4, <2>2, <3>1, <5>1 DEF IInv, SpecArrived
        <5> QED
          BY <2>4, <5>2, Zenon
      <4> QED
        BY <4>1, <4>2
    <3> QED
      BY <1>1, <1>4, <2>1, <2>4, <3>1, ZenonT(60)
      DEF IInv, ProtectionOK, Announced, NormalCalls, RecordCalls
  <2> QED
    BY <1>2, <2>4, <2>5, <2>6, <2>7, <2>8 DEF IInv
<1> QED
  BY <1>3, <1>4 DEF PatchStatus, RequestFails

-----------------------------------------------------------------------------
(* What follows.                                                           *)

\* Every step keeps the invariant.
LEMMA NextIInv == IInv /\ [Next]_vars => IInv'
<1> SUFFICES ASSUME IInv, [Next]_vars PROVE IInv'
  OBVIOUS
<1>0. mishaps' \in MishapCounts /\ (Happened("patchError") => Happened("patchError")')
  BY StepMishaps
<1>1. CASE Controller
  BY <1>0, <1>1, StartIInv, LoadBalancerIInv, RecordIInv, DeletesIInv, ErrorIInv,
     PatchSpecIInv, PatchStatusIInv
  DEF Controller, CallSucceeds
<1>2. CASE Environment
  BY <1>0, <1>2, DeliverIInv, UserDeleteIInv, UserUpdateIInv, WorldIInv, CrashIInv
  DEF Environment
<1>3. CASE UNCHANGED vars
  <2>1. CloudOK'
    BY <1>3, Typed DEF vars, CloudOK, BareOK
  <2> QED
    BY <1>3, <2>1, QuietStep DEF vars, api, run
<1> QED
  BY <1>1, <1>2, <1>3 DEF Next, Finished

\* In every behaviour of the controller the inductive invariant holds.
THEOREM Invariance == Spec => []IInv
BY InitIInv, NextIInv, PTL DEF Spec

\* Every variable keeps its type: above all, no record is written for a
\* cluster without a name, or with the address of no load balancer.
THEOREM TypeCorrect == Spec => []TypeOK
<1>1. IInv => TypeOK
  BY DEF IInv
<1> QED
  BY <1>1, Invariance, PTL

\* A DOCluster whose finalizer was persisted leaves no record of its name
\* behind (reconcileDelete, under all mishaps and renamings but late ones).
THEOREM RecordsAreReclaimed == Spec => []RecordsReclaimed
<1>1. IInv => RecordsReclaimed
  BY DEF IInv, ProtectionOK, Unrecorded, RecordsReclaimed
<1> QED
  BY <1>1, Invariance, PTL

\* A cluster that is ready has an endpoint with a host, with two exceptions that
\* the code makes: the first request of a Close failed, and then nothing is
\* announced yet (clusterScope.Close), or a load balancer was active before it
\* had an address (reconcile does not wait for it).
THEOREM ReadyAfterEndpoint == Spec => []ReadyHasEndpoint
<1>1. IInv => ReadyHasEndpoint
  BY DEF IInv
<1> QED
  BY <1>1, Invariance, PTL

\* An endpoint that was announced never changes: no edit, no patch computed
\* from an old copy and no new load balancer gets past the webhook, and the
\* requests that the webhook does not see do not touch it.
THEOREM EndpointStaysPut == Spec => EndpointStable
<1> DEFINE Stable ==
      Announced(store) =>
        store'.host = store.host /\ store'.endpointPort = store.endpointPort
<1>1. ASSUME IInv, [Next]_vars PROVE Stable
  <2>1. store \in Objects
    BY <1>1, Typed DEF ApiTypeOK
  <2>2. ASSUME NEW new, ValidateUpdate(store, new), store' = new PROVE Stable
    BY <2>2 DEF ValidateUpdate
  <2>3. ASSUME UNCHANGED store PROVE Stable
    BY <2>3
  <2>4. CASE UserDelete
    BY <2>1, <2>4 DEF UserDelete, Delete, Write, Finalized, Objects
  <2>5. CASE UserUpdate
    BY <2>2, <2>5 DEF UserUpdate, Write
  <2>6. CASE PatchSpec
    BY <2>2, <2>3, <2>6 DEF PatchSpec, Write, RequestFails, api
  <2>7. CASE PatchStatus
    BY <2>1, <2>3, <2>7, Zenon DEF PatchStatus, Write, StatusPatch, RequestFails, api, Objects
  <2>8. CASE Controller /\ ~PatchSpec /\ ~PatchStatus
    BY <2>3, <2>8
    DEF Controller, CallSucceeds, CallFails, ReplyLost, StartReconcile, ReadCache,
        GetLoadBalancer, CreateLoadBalancer, GetDomainRecord, UpsertDomainRecord,
        CheckDNSPropagated, DeleteDomainRecord, DeleteGetLoadBalancer, DeleteLoadBalancer, api
  <2>9. CASE Environment /\ ~UserDelete /\ ~UserUpdate
    BY <2>3, <2>9
    DEF Environment, DeliverEvent, Deliver, LBAddress, LBProgress, DNSProgress,
        ExternalChange, Crash, Restart, api
  <2>10. CASE Finished \/ UNCHANGED vars
    BY <2>3, <2>10 DEF Finished, vars
  <2> QED
    BY <1>1, <2>4, <2>5, <2>6, <2>7, <2>8, <2>9, <2>10 DEF Next
<1>2. IInv /\ [Next]_vars => [Stable]_vars
  BY <1>1
<1> QED
  BY <1>2, Invariance, PTL DEF Spec, EndpointStable
-----------------------------------------------------------------------------
(* What a call to DigitalOcean does to the object in memory.               *)

\* What the reconciliation knows of port, endpoint and record after a call.
CallEffect ==
  /\ UNCHANGED <<api, orig, edits, advertised>>
  /\ pc \in CloudCalls /\ pc' \in CloudCalls \union {"PatchSpec"}
  /\ mem'.port = mem.port /\ mem'.dns = mem.dns
  /\ \/ mem'.host = mem.host /\ mem'.endpointPort = mem.endpointPort
     \/ pc \in NormalCalls /\ mem'.endpointPort = mem.port
  /\ pc' \in NormalCalls => pc \in NormalCalls
  /\ \/ mem'.dnsReady = mem.dnsReady /\ pc' # "UpsertDomainRecord"
     \/ ~mem'.dnsReady /\ pc' = "UpsertDomainRecord"
     \/ /\ pc = "CheckDNSPropagated" /\ pc' = "PatchSpec"
        /\ addressed /\ advertised[mem.dns] = mem.lbID
  /\ pc' = "CheckDNSPropagated" =>
       /\ mem' = mem /\ addressed' = addressed
       /\ addressed => records'[mem.dns] = mem.lbID
       /\ pc = "UpsertDomainRecord" \/ ~mem.dnsReady
  /\ \/ records' = records
     \/ pc = "UpsertDomainRecord" /\ records' = [records EXCEPT ![mem.dns] = mem.lbID]
     \/ pc \in DeleteCalls
  /\ \A l \in LBIDs : lbs'[l] # "none" =>
       \/ lbs[l] # "none" /\ lbPort'[l] = lbPort[l]
       \/ pc \in NormalCalls /\ lbPort'[l] = mem.port

\* Every call keeps to it, whether it succeeds, fails or loses its answer.
LEMMA CallEffects ==
  ASSUME IInv, CallSucceeds \/ CallFails \/ ReplyLost
  PROVE  CallEffect
<1>1. mem \in Objects /\ CloudOK /\ RunOK
  BY Typed DEF IInv
<1>2. ASSUME pc \in CloudCalls, UNCHANGED <<api, edits, cloud>>, pc \in NormalCalls,
             NEW ip, Finish(mem, ip)
      PROVE  CallEffect
  <2>1. /\ orig' = orig /\ pc' = "PatchSpec" /\ mem'.port = mem.port /\ mem'.dns = mem.dns
        /\ mem'.endpointPort = mem.port /\ mem'.dnsReady = mem.dnsReady
    BY <1>1, <1>2 DEF Finish, Return, Objects
  <2> QED
    BY <1>2, <2>1
    DEF CallEffect, cloud, CloudCalls, NormalCalls, RecordCalls, DeleteCalls
<1>3. CASE GetLoadBalancer
  <2>1. ASSUME Found(mem.lbID) PROVE [mem EXCEPT !.lbID = mem.lbID] = mem
    BY <1>1 DEF Objects
  <2> QED
    BY <1>1, <1>2, <1>3, <2>1
    DEF GetLoadBalancer, HaveLB, LBReady, Call, Return, CallEffect, cloud, CloudCalls, NormalCalls,
        RecordCalls, DeleteCalls
<1>4. ASSUME NEW l \in LBIDs, LBCreated(l), pc = "CreateLoadBalancer", UNCHANGED <<api, edits>>,
             Return(mem) \/ Return([mem EXCEPT !.lbID = l])
      PROVE  CallEffect
  <2>1. mem'.port = mem.port /\ mem'.dns = mem.dns /\ mem'.host = mem.host
        /\ mem'.endpointPort = mem.endpointPort /\ mem'.dnsReady = mem.dnsReady
        /\ pc' = "PatchSpec" /\ orig' = orig
    BY <1>1, <1>4 DEF Return, Objects
  <2>2. \A k \in LBIDs : lbs'[k] # "none" =>
          \/ lbs[k] # "none" /\ lbPort'[k] = lbPort[k]
          \/ lbPort'[k] = mem.port
    BY <1>1, <1>4 DEF LBCreated, CloudOK
  <2> QED
    BY <1>4, <2>1, <2>2 DEF LBCreated, CallEffect, CloudCalls, NormalCalls, RecordCalls, DeleteCalls
<1>5. CASE CreateLoadBalancer
  BY <1>4, <1>5 DEF CreateLoadBalancer
<1>6. CASE GetDomainRecord
  <2>1. CASE Call("UpsertDomainRecord", [mem EXCEPT !.dnsReady = FALSE])
    BY <1>1, <1>6, <2>1
    DEF GetDomainRecord, Call, CallEffect, cloud, CloudCalls, NormalCalls, RecordCalls,
        DeleteCalls, Objects
  <2>2. CASE RecordRight /\ ~mem.dnsReady /\ Call("CheckDNSPropagated", mem)
    BY <1>1, <1>6, <2>2
    DEF GetDomainRecord, RecordRight, Call, CallEffect, cloud, CloudCalls, NormalCalls,
        RecordCalls, DeleteCalls
  <2> QED
    BY <1>2, <1>6, <2>1, <2>2
    DEF GetDomainRecord, RecordWritten, CloudCalls, NormalCalls, RecordCalls
<1>7. pc \in RecordCalls => mem.dns \in Names
  BY <1>1 DEF RunOK, Objects
<1>8. CASE UpsertDomainRecord
  BY <1>1, <1>7, <1>8, ZenonT(60)
  DEF UpsertDomainRecord, RecordUpserted, Call, CallEffect, CloudCalls, NormalCalls,
      RecordCalls, DeleteCalls, CloudOK
<1>9. CASE CheckDNSPropagated
  <2>1. CASE Return(mem)
    BY <1>9, <2>1
    DEF CheckDNSPropagated, Return, CallEffect, cloud, CloudCalls, NormalCalls, RecordCalls
  <2>2. CASE /\ Propagated(mem.dns, mem.lbID)
             /\ Finish([mem EXCEPT !.dnsReady = TRUE], addressed)
    <3>1. /\ orig' = orig /\ pc' = "PatchSpec" /\ mem'.port = mem.port /\ mem'.dns = mem.dns
          /\ mem'.endpointPort = mem.port
      BY <1>1, <2>2 DEF Finish, Return, Objects
    <3> QED
      BY <1>9, <2>2, <3>1
      DEF CheckDNSPropagated, Propagated, CallEffect, cloud, CloudCalls, NormalCalls, RecordCalls
  <2> QED
    BY <1>9, <2>1, <2>2 DEF CheckDNSPropagated
<1>10. CASE DeleteDomainRecord \/ DeleteGetLoadBalancer \/ DeleteLoadBalancer
  <2>1. /\ UNCHANGED <<api, orig, edits, advertised, lbPort>> /\ pc \in DeleteCalls
        /\ pc' \in DeleteCalls \union {"PatchSpec"}
        /\ mem' = mem \/ mem' = [mem EXCEPT !.finalizer = FALSE]
    BY <1>10
    DEF DeleteDomainRecord, DeleteGetLoadBalancer, DeleteLoadBalancer, RecordDeleted, LBDeleted,
        Call, Return, cloud, DeleteCalls
  <2>2. \A l \in LBIDs : lbs'[l] # "none" => lbs[l] # "none"
    BY <1>1, <1>10
    DEF DeleteDomainRecord, DeleteGetLoadBalancer, DeleteLoadBalancer, RecordDeleted, LBDeleted,
        Destroyed, cloud, CloudOK, Found
  <2>3. /\ mem'.port = mem.port /\ mem'.dns = mem.dns /\ mem'.host = mem.host
        /\ mem'.endpointPort = mem.endpointPort /\ mem'.dnsReady = mem.dnsReady
    BY <1>1, <2>1 DEF Objects
  <2> QED
    BY <2>1, <2>2, <2>3
    DEF CallEffect, CloudCalls, NormalCalls, RecordCalls, DeleteCalls
<1>11. CASE CallFails
  BY <1>11, ZenonT(60)
  DEF CallFails, Return, CallEffect, cloud, CloudCalls, NormalCalls, RecordCalls, DeleteCalls
<1>12. CASE ReplyLost
  <2>1. CASE pc = "UpsertDomainRecord" /\ RecordUpserted
    BY <1>1, <1>7, <1>12, <2>1, ZenonT(60)
    DEF ReplyLost, RecordUpserted, Return, CallEffect, CloudCalls, NormalCalls, RecordCalls,
        DeleteCalls, CloudOK
  <2>2. CASE pc \in DeleteCalls /\ (RecordDeleted \/ LBDeleted)
    BY <1>1, <1>12, <2>2
    DEF ReplyLost, RecordDeleted, LBDeleted, Destroyed, Found, Return, CallEffect, CloudCalls, NormalCalls,
        RecordCalls, DeleteCalls, CloudOK
  <2>3. CASE pc = "CreateLoadBalancer"
    BY <1>4, <1>12, <2>3 DEF ReplyLost
  <2> QED
    BY <1>12, <2>1, <2>2, <2>3 DEF ReplyLost, DeleteCalls
<1> QED
  BY <1>3, <1>5, <1>6, <1>8, <1>9, <1>10, <1>11, <1>12 DEF CallSucceeds

-----------------------------------------------------------------------------
(* The port.  Unless a user edits it, there is one port that every load    *)
(* balancer forwards and every endpoint announces: the one the object was  *)
(* created with, or its default, which every reconciliation computes anew  *)
(* until Close has persisted it.                                           *)

ServedPort == ApplyDefault(InitialPort)

PortOK(o) ==
  /\ o.port \in {InitialPort, ServedPort}
  /\ Announced(o) => o.endpointPort = ServedPort

PortCopies == \A o : Copy(o) \/ o = orig \/ o = mem => PortOK(o)

PortInv ==
  edits["port"] = 0 =>
    /\ PortCopies
    /\ pc \in NormalCalls => mem.port = ServedPort
    /\ \A l \in LBIDs : lbs[l] # "none" => lbPort[l] = ServedPort

\* The default is a port, and it is its own default.
LEMMA ServedPortFacts ==
  /\ ServedPort # 0
  /\ \A p \in {InitialPort, ServedPort} : ApplyDefault(p) = ServedPort
BY ClusterAssumption DEF ServedPort, ApplyDefault

\* A new object announces no port.
LEMMA NewPort == PortOK(NewObject)
BY DEF PortOK, Announced, NewObject

\* The port invariant holds at the start.
LEMMA InitPort == Init => PortInv
BY NewPort DEF Init, InitObject, PortInv, PortCopies, Copy, NormalCalls, RecordCalls

\* A write of an object with the right port.
LEMMA WritePort ==
  ASSUME IInv, PortCopies, NEW obj \in Objects, Write(obj), PortOK(obj),
         orig' \in {orig, NewObject}, mem' \in {mem, NewObject}
  PROVE  PortCopies'
<1>1. \A o : Copy(o)' => Copy(o) \/ o = obj
  BY WriteCopies DEF IInv, TypeOK
<1> QED
  BY <1>1, NewPort DEF PortCopies, PortOK

\* The first request of Close writes the right port.
LEMMA SpecPatchPort ==
  ASSUME IInv, PortCopies, ValidateUpdate(store, SpecPatch)
  PROVE  SpecPatch \in Objects /\ PortOK(SpecPatch)
<1>1. /\ store \in Objects /\ orig \in Objects /\ mem \in Objects
      /\ PortOK(store) /\ PortOK(orig) /\ PortOK(mem)
  BY Typed DEF ApiTypeOK, PortCopies, Copy
<1>2. /\ SpecPatch \in Objects
      /\ SpecPatch.port = Merged(store.port, orig.port, mem.port)
  BY <1>1, SpecPatchFacts
<1>3. SpecPatch.port \in {InitialPort, ServedPort}
  BY <1>1, <1>2 DEF Merged, PortOK
<1>4. Announced(SpecPatch) => SpecPatch.endpointPort = ServedPort
  BY <1>1, EndpointPatch DEF PortOK, Announced
<1> QED
  BY <1>2, <1>3, <1>4 DEF PortOK

\* Every step of the environment keeps the port invariant.
LEMMA EnvironmentPort ==
  ASSUME IInv, PortInv, Environment
  PROVE  PortInv'
<1>1. edits \in [EditKinds -> 0..MaxEdits] /\ store \in Objects
  BY Typed DEF ApiTypeOK
<1>2. CASE DeliverEvent
  <2>1. \A o : Copy(o)' => Copy(o)
    BY <1>2, DeliverCopies DEF IInv, TypeOK, DeliverEvent
  <2> QED
    BY <1>2, <2>1 DEF DeliverEvent, PortInv, PortCopies, PortOK, Announced, run, cloud
<1>3. CASE UserDelete
  <2> DEFINE obj == Finalized([store EXCEPT !.phase = "deleting"])
  <2>1. /\ Write(obj) /\ UNCHANGED <<cloud, run, edits>> /\ obj \in Objects
        /\ obj.port = store.port /\ obj.host = store.host
        /\ obj.endpointPort = store.endpointPort
    BY <1>1, <1>3, Zenon DEF UserDelete, Delete, Finalized, Objects, Phases
  <2> HIDE DEF obj
  <2>2. PortCopies => PortCopies'
    <3>1. PortCopies => PortOK(obj)
      BY <2>1 DEF PortCopies, PortOK, Announced, Copy
    <3> QED
      BY <2>1, <3>1, WritePort DEF run
  <2> QED
    BY <2>1, <2>2 DEF PortInv, run, cloud
<1>4. CASE UserUpdate
  <2>1. PICK f \in Editable, obj \in Objects :
          /\ Write(obj) /\ edits' = [edits EXCEPT ![EditKind(f)] = @ + 1]
          /\ obj.host = store.host /\ obj.endpointPort = store.endpointPort
          /\ f # "port" => obj.port = store.port
    BY <1>4, UserUpdateFacts
  <2>2. UNCHANGED <<cloud, run>>
    BY <1>4 DEF UserUpdate
  <2>3. edits'["port"] = 0 => edits["port"] = 0 /\ obj.port = store.port
    BY <1>1, <2>1, ClusterAssumption DEF EditKind, EditKinds, Fields
  <2>4. ASSUME edits'["port"] = 0, PortCopies PROVE PortCopies'
    <3>1. PortOK(obj)
      BY <2>1, <2>3, <2>4 DEF PortCopies, PortOK, Announced, Copy
    <3> QED
      BY <2>1, <2>2, <2>4, <3>1, WritePort DEF run
  <2> QED
    BY <2>2, <2>3, <2>4 DEF PortInv, run, cloud
<1>5. CASE \E l \in LBIDs : LBAddress(l) \/ LBProgress(l) \/ ExternalChange(l)
  <2>1. UNCHANGED <<api, run, edits, lbPort>>
    BY <1>5 DEF LBAddress, LBProgress, ExternalChange
  <2>2. \A l \in LBIDs : lbs'[l] # "none" => lbs[l] # "none"
    BY <1>5, Typed DEF LBAddress, LBProgress, ExternalChange, Destroyed, Found, CloudOK
  <2>3. PortCopies => PortCopies'
    BY <2>1, ZenonT(60) DEF PortCopies, PortOK, Copy, api, run
  <2> QED
    BY <2>1, <2>2, <2>3 DEF PortInv, run
<1>6. CASE \E n \in Names : DNSProgress(n)
  BY <1>6 DEF DNSProgress, PortInv, PortCopies, PortOK, Copy, api, run
<1>7. CASE Crash
  <2>1. \A o : Copy(o)' => Copy(o)
    BY <1>7, RestartCopies DEF Crash
  <2> QED
    BY <1>7, <2>1, NewPort, ZenonT(60)
    DEF Crash, Idle, PortInv, PortCopies, PortOK, cloud, NormalCalls, RecordCalls
<1> QED
  BY <1>2, <1>3, <1>4, <1>5, <1>6, <1>7 DEF Environment

\* Every step of the controller keeps the port invariant.
LEMMA ControllerPort ==
  ASSUME IInv, PortInv, Controller
  PROVE  PortInv'
<1>1. /\ store \in Objects /\ cache \in Objects /\ orig \in Objects /\ mem \in Objects
  BY Typed DEF ApiTypeOK
<1>2. CASE StartReconcile
  <2>1. /\ orig' = cache /\ UNCHANGED <<api, cloud, edits>>
        /\ \/ pc' = "GetLoadBalancer" /\ mem'.port = ApplyDefault(cache.port)
           \/ pc' \notin NormalCalls /\ mem'.port = cache.port
        /\ mem'.host = cache.host /\ mem'.endpointPort = cache.endpointPort
    BY <1>1, <1>2, Zenon
    DEF StartReconcile, Reconcile, ReconcileDelete, NewClusterScope, ReadCache, Objects,
        NormalCalls, RecordCalls
  <2>2. \A o : Copy(o)' => Copy(o)
    BY <2>1, StutterCopies
  <2>3. PortCopies => PortOK(cache)
    BY DEF PortCopies, Copy
  <2>4. PortOK(cache) => PortOK(mem')
    BY <2>1, ServedPortFacts DEF PortOK, Announced
  <2>5. PortCopies => PortCopies'
    BY <2>1, <2>2, <2>3, <2>4 DEF PortCopies, PortOK
  <2>6. PortOK(cache) /\ pc' \in NormalCalls => mem'.port = ServedPort
    BY <2>1, ServedPortFacts DEF PortOK
  <2> QED
    BY <2>1, <2>3, <2>5, <2>6 DEF PortInv, cloud
<1>3. CASE CallSucceeds \/ CallFails \/ ReplyLost
  <2>1. CallEffect
    BY <1>3, CallEffects
  <2>2. \A o : Copy(o)' => Copy(o)
    BY <2>1, StutterCopies, Zenon DEF CallEffect
  <2>3. ASSUME edits["port"] = 0 PROVE PortOK(mem')
    BY <2>1, <2>3 DEF CallEffect, PortInv, PortCopies, PortOK, Announced
  <2>4. edits["port"] = 0 => PortCopies'
    BY <2>1, <2>2, <2>3, ZenonT(60) DEF CallEffect, PortInv, PortCopies, PortOK
  <2> QED
    BY <2>1, <2>4 DEF CallEffect, PortInv
<1>4. CASE PatchSpec
  <2>1. /\ pc = "PatchSpec" /\ pc' = "PatchStatus" /\ UNCHANGED <<orig, mem, cloud, edits>>
        /\ (ValidateUpdate(store, SpecPatch) /\ Write(SpecPatch)) \/ UNCHANGED api
    BY <1>4 DEF PatchSpec, RequestFails
  <2>2. PortCopies => PortCopies'
    <3>1. CASE ValidateUpdate(store, SpecPatch) /\ Write(SpecPatch)
      BY <2>1, <3>1, SpecPatchPort, WritePort
    <3>2. CASE UNCHANGED api
      BY <2>1, <3>2 DEF PortCopies, PortOK, Copy, api
    <3> QED
      BY <2>1, <3>1, <3>2
  <2> QED
    BY <2>1, <2>2 DEF PortInv, cloud, NormalCalls, RecordCalls
<1>5. CASE PatchStatus
  <2>1. /\ pc' = "idle" /\ orig' = NewObject /\ mem' = NewObject
        /\ UNCHANGED <<cloud, edits>> /\ (Write(StatusPatch) \/ UNCHANGED api)
    BY <1>5 DEF PatchStatus, RequestFails, Idle
  <2>2. PortCopies => PortCopies'
    <3>1. CASE Write(StatusPatch)
      <4>1. /\ StatusPatch \in Objects /\ StatusPatch.host = store.host
            /\ StatusPatch.endpointPort = store.endpointPort /\ StatusPatch.port = store.port
        BY <1>1, StatusPatchFacts
      <4>2. PortCopies => PortOK(StatusPatch)
        BY <4>1 DEF PortCopies, PortOK, Announced, Copy
      <4> QED
        BY <2>1, <3>1, <4>1, <4>2, WritePort
    <3>2. CASE UNCHANGED api
      BY <2>1, <3>2, NewPort DEF PortCopies, PortOK, Copy, api
    <3> QED
      BY <2>1, <3>1, <3>2
  <2> QED
    BY <2>1, <2>2 DEF PortInv, cloud, NormalCalls, RecordCalls
<1> QED
  BY <1>2, <1>3, <1>4, <1>5 DEF Controller

\* A ready cluster is announced on the port that its load balancer forwards,
\* however often the load balancer was replaced, unless a user edited the
\* port (reconcile, CreateLoadBalancer and clusterScope.Close together).
THEOREM EndpointPortIsServed == Spec => []EndpointPortServed
<1>1. IInv /\ PortInv /\ [Next]_vars => PortInv'
  <2>1. ASSUME PortInv, UNCHANGED vars PROVE PortInv'
    BY <2>1 DEF vars, PortInv, PortCopies, PortOK, Copy
  <2> QED
    BY <2>1, EnvironmentPort, ControllerPort DEF Next, Finished
<1>2. IInv /\ PortInv => EndpointPortServed
  <2> SUFFICES ASSUME IInv, PortInv, store.ready, Found(store.lbID), ~Happened("patchError"),
                      edits["port"] = 0
               PROVE  store.endpointPort = lbPort[store.lbID]
    BY DEF EndpointPortServed
  <2>1. Announced(store) /\ store \in Objects
    BY DEF IInv, ReadyHasEndpoint, Announced, TypeOK
  <2>2. store.endpointPort = ServedPort
    BY <2>1 DEF PortInv, PortCopies, PortOK, Copy
  <2>3. store.lbID \in LBIDs /\ lbs[store.lbID] # "none"
    BY <2>1 DEF Found, Objects
  <2> QED
    BY <2>2, <2>3 DEF PortInv
<1> QED
  BY <1>1, <1>2, InitPort, Invariance, PTL DEF Spec

-----------------------------------------------------------------------------
(* The record.  Before the object is renamed only the name it was created  *)
(* with has a record, and afterwards the new name joins it, when no        *)
(* reconciliation of the old name is left.  The status of a name that was  *)
(* never touched may be wrong in no way that matters: record and DNS       *)
(* servers agree on nothing.                                               *)

\* The status in the API server is the last one that was decided on.
Undisturbed ==
  /\ ~Happened("crash") /\ ~Happened("patchError") /\ ~Happened("staleRead")
  /\ store.phase = "live" /\ edits["dns"] <= 1

Untouched(n) == n # NoName => records[n] = NoAddress /\ advertised[n] = NoAddress

Agrees(n) == n # NoName => advertised[n] = records[n]

NamesOK ==
  /\ edits["dns"] = 0 => store.dns = InitialDNS
  /\ \A n \in Names : n # InitialDNS /\ n # store.dns => Untouched(n)

\* What the running reconciliation knows of the record.
RecordRun ==
  /\ orig.dnsReady = store.dnsReady
  /\ orig.dns # store.dns =>
       orig.dns = InitialDNS /\ edits["dns"] = 1 /\ Untouched(store.dns)
  /\ mem.dnsReady => Agrees(mem.dns)
  /\ pc \in {"UpsertDomainRecord", "CheckDNSPropagated"} => ~mem.dnsReady
  /\ pc = "CheckDNSPropagated" /\ addressed => records[mem.dns] = mem.lbID

RecordInv ==
  Undisturbed =>
    /\ NamesOK
    /\ pc = "idle" /\ store.dnsReady => Agrees(store.dns)
    /\ pc # "idle" => RecordRun

\* The record invariant holds at the start.
LEMMA InitRecord == Init => RecordInv
BY DEF Init, InitObject, NewObject, RecordInv, NamesOK, Untouched, Agrees

\* A step that leaves names, flags and records alone.
LEMMA RestRecord ==
  ASSUME RecordInv, Undisturbed, UNCHANGED <<run, edits, records, advertised>>,
         store'.dns = store.dns, store'.dnsReady = store.dnsReady
  PROVE  RecordInv'
BY Zenon DEF RecordInv, NamesOK, RecordRun, Untouched, Agrees, run

\* Every step of the environment keeps the record invariant.
LEMMA EnvironmentRecord ==
  ASSUME IInv, RecordInv, Environment,
         Happened("crash") => Happened("crash")',
         Happened("patchError") => Happened("patchError")',
         Happened("staleRead") => Happened("staleRead")'
  PROVE  RecordInv'
<1>1. /\ edits \in [EditKinds -> 0..MaxEdits] /\ store \in Objects /\ CloudOK
  BY Typed DEF ApiTypeOK
<1>2. CASE DeliverEvent
  BY <1>2, RestRecord DEF DeliverEvent, Deliver, RecordInv, Undisturbed, run, cloud
<1>3. CASE UserDelete
  <2>1. store'.phase # "live"
    BY <1>1, <1>3 DEF UserDelete, Delete, Write, Finalized, Objects
  <2> QED
    BY <2>1 DEF RecordInv, Undisturbed
<1>4. CASE UserUpdate
  <2>1. PICK f \in Editable, obj \in Objects :
          /\ Write(obj) /\ edits' = [edits EXCEPT ![EditKind(f)] = @ + 1]
          /\ obj.phase = store.phase
          /\ f # "dns" => obj.dns = store.dns
          /\ obj.dnsReady = store.dnsReady
    BY <1>4, UserUpdateFacts
  <2>2. /\ store' = obj /\ UNCHANGED <<pc, orig, mem, addressed, records, advertised, mishaps>>
        /\ obj.dns \in Names \union {NoName} /\ f \in {"dns", "port"}
    BY <1>4, <2>1, ClusterAssumption DEF Write, UserUpdate, run, cloud, Objects, Fields
  <2>3. SUFFICES ASSUME Undisturbed' PROVE RecordInv'
    BY DEF RecordInv
  <2>4. CASE f = "port"
    <3>1. edits'["dns"] = edits["dns"]
      BY <1>1, <2>1, <2>4 DEF EditKind, EditKinds, Fields
    <3> QED
      BY <2>1, <2>2, <2>3, <2>4, <3>1, ZenonT(60)
      DEF RecordInv, Undisturbed, Happened, NamesOK, RecordRun, Untouched, Agrees
  <2>5. CASE f = "dns"
    <3>1. store.phase = "live"
      BY <2>1, <2>2, <2>3 DEF Undisturbed
    <3>2. edits'["dns"] = edits["dns"] + 1 /\ edits["dns"] \in Nat
      BY <1>1, <2>1, <2>5, <3>1, ClusterAssumption DEF EditKind, EditKinds, Fields
    <3>3. edits["dns"] = 0 /\ edits'["dns"] = 1 /\ Undisturbed
      BY <2>2, <2>3, <3>1, <3>2 DEF Undisturbed, Happened
    <3>4. /\ store.dns = InitialDNS
          /\ pc # "idle" => orig.dns = InitialDNS
          /\ \A n \in Names : n # InitialDNS => Untouched(n)
      BY <3>3, Zenon DEF RecordInv, NamesOK, RecordRun
    <3>5. NamesOK'
      <4>1. \A n \in Names : Untouched(n)' <=> Untouched(n)
        BY <2>2, Zenon DEF Untouched
      <4>2. edits'["dns"] # 0
        BY <3>3
      <4> QED
        BY <3>4, <4>1, <4>2, Zenon DEF NamesOK
    <3>6. obj.dns # InitialDNS => Untouched(obj.dns)
      BY <2>2, <3>4 DEF Untouched
    <3>7. pc' = "idle" /\ store'.dnsReady => Agrees(store.dns)'
      BY <2>1, <2>2, <3>3, <3>4, <3>6 DEF RecordInv, Untouched, Agrees
    <3>8. pc' # "idle" => RecordRun'
      <4>1. pc # "idle" => RecordRun
        BY <3>3 DEF RecordInv
      <4>2. Untouched(obj.dns) => Untouched(store.dns)'
        BY <2>2 DEF Untouched
      <4>3. Agrees(mem.dns) => Agrees(mem.dns)'
        BY <2>2 DEF Agrees
      <4> QED
        BY <2>1, <2>2, <3>3, <3>4, <3>6, <4>1, <4>2, <4>3, Zenon DEF RecordRun
    <3> QED
      BY <3>5, <3>7, <3>8 DEF RecordInv
  <2> QED
    BY <2>2, <2>4, <2>5
<1>5. CASE \E l \in LBIDs : LBAddress(l) \/ LBProgress(l) \/ ExternalChange(l)
  BY <1>5, RestRecord
  DEF LBAddress, LBProgress, ExternalChange, RecordInv, Undisturbed, api, run, Happened
<1>6. CASE \E n \in Names : DNSProgress(n)
  <2>1. PICK n \in Names : DNSProgress(n)
    BY <1>6
  <2>2. /\ UNCHANGED <<api, mishaps, records, run, edits>> /\ records[n] # advertised[n]
        /\ advertised' = [advertised EXCEPT ![n] = records[n]]
    BY <2>1, ZenonT(60) DEF DNSProgress
  <2>3. ASSUME NEW m \in Names \union {NoName}
        PROVE  (Agrees(m) => Agrees(m)') /\ (Untouched(m) => Untouched(m)')
    BY <1>1, <2>2 DEF Agrees, Untouched, CloudOK
  <2>4. store.dns \in Names \union {NoName} /\ mem.dns \in Names \union {NoName}
    BY Typed DEF ApiTypeOK, Objects
  <2>5. Undisturbed' => Undisturbed
    BY <2>2 DEF Undisturbed, api, Happened
  <2>6. NamesOK => NamesOK'
    <3>1. ASSUME NEW m \in Names, Untouched(m) PROVE Untouched(m)'
      BY <2>3, <3>1
    <3> QED
      BY <2>2, <3>1 DEF NamesOK, api
  <2>7. store.dnsReady /\ Agrees(store.dns) => Agrees(store.dns)'
    BY <2>2, <2>3, <2>4 DEF api, Agrees
  <2>8. RecordRun => RecordRun'
    <3>1. Untouched(store.dns) => Untouched(store.dns)'
      BY <2>2, <2>3, <2>4 DEF api, Untouched
    <3>2. Agrees(mem.dns) => Agrees(mem.dns)'
      BY <2>2, <2>3, <2>4 DEF run, Agrees
    <3> QED
      BY <2>2, <3>1, <3>2, Zenon DEF RecordRun, api, run
  <2> QED
    BY <2>2, <2>5, <2>6, <2>7, <2>8 DEF RecordInv, api, run
<1>7. CASE Crash
  <2>1. Happened("crash")'
    BY <1>7, MishapHappens DEF Crash, Restart, IInv, TypeOK
  <2> QED
    BY <2>1 DEF RecordInv, Undisturbed
<1> QED
  BY <1>2, <1>3, <1>4, <1>5, <1>6, <1>7 DEF Environment

\* Every step of the controller keeps the record invariant.
LEMMA ControllerRecord ==
  ASSUME IInv, RecordInv, Controller, RunOK',
         Happened("crash") => Happened("crash")',
         Happened("patchError") => Happened("patchError")',
         Happened("staleRead") => Happened("staleRead")'
  PROVE  RecordInv'
<1>1. /\ store \in Objects /\ cache \in Objects /\ orig \in Objects /\ mem \in Objects
      /\ CloudOK /\ CopyOK(orig) /\ mem.dns = orig.dns /\ mishaps \in MishapCounts
  BY Typed, Zenon DEF ApiTypeOK, IInv, RunOK
<1>2. SUFFICES ASSUME Undisturbed' PROVE RecordInv'
  BY DEF RecordInv
<1>3. CASE StartReconcile
  <2>1. /\ orig' = cache /\ UNCHANGED <<api, cloud, edits>> /\ pc = "idle"
        /\ pc' \notin {"idle", "UpsertDomainRecord", "CheckDNSPropagated"}
        /\ mem'.dns = cache.dns /\ mem'.dnsReady = cache.dnsReady
    BY <1>1, <1>3, Zenon
    DEF StartReconcile, Reconcile, ReconcileDelete, NewClusterScope, ReadCache, Objects
  <2>2. cache = store
    <3>1. watch = <<>> \/ Happened("staleRead")'
      BY <1>1, <1>3, MishapHappens DEF StartReconcile, ReadCache
    <3> QED
      BY <1>2, <3>1 DEF Undisturbed, IInv, CacheFollows
  <2>3. Undisturbed /\ store' = store /\ records' = records /\ advertised' = advertised
    BY <1>2, <2>1 DEF Undisturbed, api, cloud
  <2>4. NamesOK /\ (store.dnsReady => Agrees(store.dns))
    BY <2>1, <2>3 DEF RecordInv
  <2>5. NamesOK' /\ (store.dnsReady => Agrees(mem.dns)')
    BY <2>1, <2>2, <2>3, <2>4 DEF NamesOK, Untouched, Agrees
  <2> QED
    BY <2>1, <2>2, <2>3, <2>5, Zenon DEF RecordInv, RecordRun
<1>4. CASE CallSucceeds \/ CallFails \/ ReplyLost
  <2>1. CallEffect
    BY <1>4, CallEffects
  <2>2. store' = store /\ orig' = orig /\ edits' = edits /\ advertised' = advertised
    BY <2>1 DEF CallEffect, api
  <2>3. Undisturbed /\ pc # "idle" /\ pc' # "idle"
    BY <1>2, <2>1, <2>2 DEF Undisturbed, CallEffect, CloudCalls
  <2>4. NamesOK /\ RecordRun
    BY <2>3 DEF RecordInv
  <2>5. pc \notin DeleteCalls
    BY <1>1, <2>3, Zenon DEF IInv, RunOK, CopyOK, Undisturbed
  <2>6. \/ records' = records
        \/ /\ pc = "UpsertDomainRecord" /\ mem.dns \in Names /\ ~mem.dnsReady
           /\ records' = [records EXCEPT ![mem.dns] = mem.lbID]
    BY <1>1, <2>1, <2>4, <2>5, ZenonT(60) DEF CallEffect, RecordRun, IInv, RunOK, RecordCalls, Objects
  <2>7. ASSUME NEW n \in Names \union {NoName}, n # mem.dns, Untouched(n)
        PROVE  Untouched(n)'
    BY <1>1, <2>2, <2>6, <2>7 DEF Untouched, CloudOK
  <2>8. mem.dns \in {InitialDNS, store.dns}
    BY <1>1, <2>4 DEF RecordRun
  <2>9. NamesOK'
    <3>1. ASSUME NEW n \in Names, n # InitialDNS, n # store.dns PROVE Untouched(n)'
      BY <2>4, <2>7, <2>8, <3>1 DEF NamesOK
    <3> QED
      BY <2>2, <2>4, <3>1 DEF NamesOK
  <2>10. ASSUME mem'.dnsReady PROVE Agrees(mem.dns)'
    <3>1. CASE mem'.dnsReady = mem.dnsReady
      BY <2>1, <2>2, <2>4, <2>6, <2>10, <3>1, Zenon DEF RecordRun, Agrees, CallEffect
    <3>2. CASE pc = "CheckDNSPropagated" /\ addressed /\ advertised[mem.dns] = mem.lbID
      BY <2>1, <2>2, <2>4, <2>6, <3>2 DEF RecordRun, Agrees, CallEffect
    <3> QED
      BY <2>1, <2>10, <3>1, <3>2, Zenon DEF CallEffect
  <2>11. orig.dns # store.dns => Untouched(store.dns)'
    BY <1>1, <2>2, <2>4, <2>7, Zenon DEF RecordRun, Objects, Untouched
  <2>12. pc' \in {"UpsertDomainRecord", "CheckDNSPropagated"} => ~mem'.dnsReady
    BY <2>1, <2>4, Zenon DEF CallEffect, RecordRun
  <2>13. pc' = "CheckDNSPropagated" /\ addressed' => records'[mem'.dns] = mem'.lbID
    BY <2>1, Zenon DEF CallEffect
  <2>14. RecordRun'
    BY <2>2, <2>4, <2>10, <2>11, <2>12, <2>13 DEF RecordRun, Untouched
  <2> QED
    BY <2>3, <2>9, <2>14 DEF RecordInv
<1>5. CASE PatchSpec
  <2>1. /\ pc = "PatchSpec" /\ pc' = "PatchStatus"
        /\ UNCHANGED <<orig, mem, addressed, edits, records, advertised>>
        /\ store' = SpecPatch \/ store' = store
    BY <1>5 DEF PatchSpec, Write, RequestFails, api, cloud
  <2>2. /\ SpecPatch.dns = store.dns /\ SpecPatch.dnsReady = store.dnsReady
        /\ SpecPatch.phase = "live" => store.phase = "live"
    BY <1>1, SpecPatchFacts
  <2>3. Undisturbed
    BY <1>2, <2>1, <2>2 DEF Undisturbed
  <2>4. NamesOK /\ RecordRun
    BY <2>1, <2>3 DEF RecordInv
  <2>5. NamesOK' /\ RecordRun'
    BY <2>1, <2>2, <2>4 DEF NamesOK, RecordRun, Untouched, Agrees
  <2> QED
    BY <2>1, <2>5 DEF RecordInv
<1>6. CASE PatchStatus
  <2>1. /\ pc = "PatchStatus" /\ pc' = "idle" /\ UNCHANGED <<edits, records, advertised>>
    BY <1>6 DEF PatchStatus, Idle, cloud
  <2>2. store' = StatusPatch
    <3>1. CASE store.phase = "gone" /\ UNCHANGED api
      BY <1>2, <3>1 DEF Undisturbed, api
    <3>2. CASE RequestFails
      BY <1>1, <1>2, <3>2, MishapHappens DEF RequestFails, Undisturbed
    <3> QED
      BY <1>6, <3>1, <3>2 DEF PatchStatus, Write
  <2>3. /\ StatusPatch.dns = store.dns /\ StatusPatch.phase = store.phase
        /\ StatusPatch.dnsReady = Merged(store.dnsReady, orig.dnsReady, mem.dnsReady)
    BY <1>1, StatusPatchFacts
  <2>4. Undisturbed
    BY <1>2, <2>1, <2>2, <2>3, ZenonT(60) DEF Undisturbed
  <2>5. NamesOK /\ RecordRun
    BY <2>1, <2>4 DEF RecordInv
  <2>6. NamesOK'
    BY <2>1, <2>2, <2>3, <2>5 DEF NamesOK, Untouched
  <2>7. ASSUME store'.dnsReady PROVE Agrees(store.dns)
    <3>1. CASE orig.dns # store.dns
      BY <2>5, <3>1 DEF RecordRun, Untouched, Agrees
    <3>2. CASE orig.dns = store.dns
      BY <1>1, <2>2, <2>3, <2>5, <2>7, <3>2 DEF RecordRun, Merged
    <3> QED
      BY <3>1, <3>2
  <2> QED
    BY <2>1, <2>2, <2>3, <2>6, <2>7, Zenon DEF RecordInv, Agrees
<1> QED
  BY <1>3, <1>4, <1>5, <1>6 DEF Controller

\* As long as no status is lost and none is decided from an old copy, the
\* readiness of the record means that the DNS servers advertise what the
\* record says, whatever becomes of the load balancer, and through one
\* renaming at any moment (reconcileControlPlaneDNSRecord).
THEOREM ReadyRecordsAreAdvertised == Spec => []ReadyRecordIsAdvertised
<1>1. IInv /\ RecordInv /\ [Next]_vars => RecordInv'
  <2> SUFFICES ASSUME IInv, RecordInv, [Next]_vars PROVE RecordInv'
    OBVIOUS
  <2>1. /\ Happened("crash") => Happened("crash")'
        /\ Happened("patchError") => Happened("patchError")'
        /\ Happened("staleRead") => Happened("staleRead")'
    BY StepMishaps
  <2>2. ASSUME UNCHANGED vars PROVE RecordInv'
    BY <2>2, Zenon DEF vars, RecordInv, Undisturbed, Happened, NamesOK, RecordRun, Untouched, Agrees
  <2>3. RunOK'
    BY NextIInv, Zenon DEF IInv
  <2> QED
    BY <2>1, <2>2, <2>3, EnvironmentRecord, ControllerRecord DEF Next, Finished
<1>2. RecordInv => ReadyRecordIsAdvertised
  BY DEF RecordInv, Undisturbed, Agrees, ReadyRecordIsAdvertised, DNSRecordReadyMeansPropagated
<1> QED
  BY <1>1, <1>2, InitRecord, Invariance, PTL DEF Spec
=============================================================================
