------------------------------ MODULE DOCluster ------------------------------
(***************************************************************************)
(* One DOCluster object, the reconciler that owns it                       *)
(* (controllers/docluster_controller.go), the cluster scope that persists  *)
(* what the reconciler decided (cloud/scope/cluster.go) and the            *)
(* DigitalOcean calls it makes (cloud/services/networking): the load       *)
(* balancer in front of the API server and the DNS record that names it.   *)
(*                                                                         *)
(* A reconciliation is cut at every remote call, as in DOMachine.          *)
(*                                                                         *)
(* Abstractions.  The address of a load balancer, once it has one, is its  *)
(* ID.  A DNS name has at most one record: the controller never makes a    *)
(* second one, and finding several is one more way for a call to fail.  Of *)
(* the spec of the load balancer only the port is kept; region, algorithm, *)
(* health check and VPC take part in no decision.  ResourceStatus repeats  *)
(* the status of the load balancer and is never read.  The Cluster owns    *)
(* the object from the start: without it Reconcile returns and changes     *)
(* nothing.  Nothing is paused.                                            *)
(***************************************************************************)
EXTENDS ManagedObject, FiniteSets

CONSTANTS
  Names,          \* DNS names the control plane can be given
  NoName,         \* ControlPlaneDNS is not set
  InitialDNS,     \* ControlPlaneDNS the object is created with
  Ports,          \* ports the API server can be given
  InitialPort,    \* port the object is created with, 0 if none
  DefaultLBPort,  \* the port ApplyDefault chooses
  Editable,       \* spec fields that users edit in this instance
  MaxLBs,         \* bound: number of load balancers ever created
  MaxEdits        \* bound: number of user updates

Fields == {"port", "dns"}

\* A change of the name while the object is being deleted is counted apart.
EditKinds == Fields \union {"lateDNS"}

ASSUME ClusterAssumption ==
  /\ NoName \notin Names \union (1..MaxLBs)
  /\ Names \intersect (1..MaxLBs) = {}
  /\ InitialDNS \in Names \union {NoName}
  /\ Ports \subseteq Nat \ {0} /\ DefaultLBPort \in Ports
  /\ InitialPort \in Ports \union {0}
  /\ Editable \subseteq Fields
  /\ MaxLBs \in Nat /\ MaxEdits \in Nat

VARIABLES
  lbs,         \* DigitalOcean: status of every load balancer
  hasIP,       \* DigitalOcean: which load balancers have got an address
  lbPort,      \* DigitalOcean: the port every load balancer forwards
  records,     \* DigitalOcean: the address in the record of every name
  advertised,  \* the address the authoritative DNS servers answer
  pc,          \* next remote call of the running reconciliation
  orig,        \* the object as read (the patch helper's "before")
  mem,         \* the object as changed by the running reconciliation
  addressed,   \* the load balancer it read has an address (loadbalancer.IP)
  edits,       \* number of user updates of each kind so far
  bare         \* history: a load balancer was active without an address

vars == <<store, cache, watch, protected, mishaps, lbs, hasIP, lbPort, records,
          advertised, pc, orig, mem, addressed, edits, bare>>
cloud == <<lbs, hasIP, lbPort, records, advertised, bare>>
run == <<pc, orig, mem, addressed>>

NoLB == 0
NoAddress == 0
LBIDs == 1..MaxLBs
LBStatuses == {"none", "new", "active", "errored", "deleted"}

\* An endpoint host is the address of a load balancer, a DNS name or nothing
\* (NoName: the empty string; with port 0 it is the zero APIEndpoint).
Objects ==
  [phase: Phases, finalizer: BOOLEAN, dns: Names \union {NoName},
   port: Ports \union {0}, host: LBIDs \union Names \union {NoName},
   endpointPort: Ports \union {0}, lbID: LBIDs \union {NoLB},
   dnsReady: BOOLEAN, ready: BOOLEAN]

NewObject ==
  [phase |-> "live", finalizer |-> FALSE, dns |-> InitialDNS, port |-> InitialPort,
   host |-> NoName, endpointPort |-> 0, lbID |-> NoLB, dnsReady |-> FALSE,
   ready |-> FALSE]

CloudCalls == {"GetLoadBalancer", "CreateLoadBalancer", "GetDomainRecord",
               "UpsertDomainRecord", "CheckDNSPropagated",
               "DeleteDomainRecord", "DeleteGetLoadBalancer",
               "DeleteLoadBalancer"}
PCs == CloudCalls \union {"idle", "PatchSpec", "PatchStatus"}

Init ==
  /\ InitObject(NewObject)
  /\ lbs = [l \in LBIDs |-> "none"]
  /\ hasIP = [l \in LBIDs |-> FALSE]
  /\ bare = FALSE
  /\ lbPort = [l \in LBIDs |-> 0]
  /\ records = [n \in Names |-> NoAddress]
  /\ advertised = [n \in Names |-> NoAddress]
  /\ pc = "idle" /\ orig = NewObject /\ mem = NewObject /\ addressed = FALSE
  /\ edits = [k \in EditKinds |-> 0]

-----------------------------------------------------------------------------
(* What the properties and the actions say about a state.                  *)

\* A lookup by ID finds the load balancer (no 404).
Found(id) == id # NoLB /\ lbs[id] \in {"new", "active", "errored"}

\* An endpoint other than the zero APIEndpoint has been written.
Announced(obj) == obj.host # NoName \/ obj.endpointPort # 0

\* Load balancers that neither the object nor the running reconciliation name.
Orphans ==
  {l \in LBIDs : /\ Found(l)
                 /\ store.phase = "gone" \/ l # store.lbID
                 /\ pc = "idle" \/ l # mem.lbID}

-----------------------------------------------------------------------------
(* Users of the API server, and admission.                                 *)

\* Mutant: nothing is immutable.
ValidateUpdateAnything(old, new) == TRUE

\* (*DOCluster).ValidateUpdate: an endpoint that is set is immutable.
ValidateUpdate(old, new) ==
  \/ ~Announced(old)
  \/ new.host = old.host /\ new.endpointPort = old.endpointPort

DeliverEvent ==
  /\ Deliver
  /\ UNCHANGED <<cloud, run, edits>>

\* kubectl delete, or the Cluster controller deleting its infrastructure.
UserDelete ==
  /\ Delete(pc # "idle")
  /\ UNCHANGED <<cloud, run, edits>>

EditKind(f) == IF f = "dns" /\ store.phase = "deleting" THEN "lateDNS" ELSE f

\* A user updates the port of the load balancer or the DNS name.
UserUpdate ==
  /\ store.phase # "gone"
  /\ edits["port"] + edits["dns"] + edits["lateDNS"] < MaxEdits
  /\ \E f \in Editable :
       /\ edits' = [edits EXCEPT ![EditKind(f)] = @ + 1]
       /\ \E new \in IF f = "port" THEN {[store EXCEPT !.port = p] : p \in Ports}
                     ELSE {[store EXCEPT !.dns = n] : n \in Names \union {NoName}} :
            new # store /\ ValidateUpdate(store, new) /\ Write(new)
  /\ UNCHANGED <<cloud, run, mishaps>>

-----------------------------------------------------------------------------
(* The rest of the world: DigitalOcean, DNS, the process.                  *)

\* A load balancer gets its address, before it is active or after.
LBAddress(l) ==
  /\ lbs[l] \in {"new", "active"} /\ ~hasIP[l]
  /\ hasIP' = [hasIP EXCEPT ![l] = TRUE]
  /\ UNCHANGED <<api, mishaps, lbs, lbPort, records, advertised, bare, run, edits>>

\* A load balancer becomes active before it has an address (once: bound).  With
\* an address its status makes no difference to reconcile any more, so the
\* step from new to active is left out for those that have one.
LBProgress(l) ==
  /\ lbs[l] = "new" /\ ~hasIP[l] /\ ~bare
  /\ lbs' = [lbs EXCEPT ![l] = "active"]
  /\ bare' = TRUE
  /\ UNCHANGED <<api, mishaps, hasIP, lbPort, records, advertised, run, edits>>

\* The authoritative DNS servers take over the record.
DNSProgress(n) ==
  /\ advertised[n] # records[n]
  /\ advertised' = [advertised EXCEPT ![n] = records[n]]
  /\ UNCHANGED <<api, mishaps, lbs, hasIP, lbPort, records, bare, run, edits>>

\* A load balancer is gone, and its address with it.
Destroyed(l) ==
  /\ lbs' = [lbs EXCEPT ![l] = "deleted"]
  /\ hasIP' = [hasIP EXCEPT ![l] = FALSE]

\* A load balancer fails before it has an address, or somebody destroys it in
\* the DigitalOcean console (only while another can still be created: bound).
ExternalChange(l) ==
  /\ "external" \in Mishaps
  /\ \/ /\ lbs[l] = "new" /\ ~hasIP[l]
        /\ lbs' = [lbs EXCEPT ![l] = "errored"]
        /\ UNCHANGED hasIP
     \/ /\ Found(l)
        /\ lbs[MaxLBs] = "none"
        /\ Destroyed(l)
  /\ UNCHANGED <<api, mishaps, lbPort, records, advertised, bare, run, edits>>

\* The reconciliation is over and its memory is dropped.
Idle ==
  /\ pc' = "idle" /\ orig' = NewObject /\ mem' = NewObject /\ addressed' = FALSE

Crash ==
  /\ Restart
  /\ Idle
  /\ UNCHANGED <<cloud, edits>>

-----------------------------------------------------------------------------
(* Reconcile, up to its first remote call.                                 *)

\* The deferred clusterScope.Close runs next.
Return(obj) ==
  /\ pc' = "PatchSpec"
  /\ mem' = obj
  /\ addressed' = FALSE
  /\ UNCHANGED orig

\* The reconciliation goes on with a remote call.
Call(step, obj) ==
  /\ pc' = step
  /\ mem' = obj
  /\ UNCHANGED <<orig, addressed>>

\* NewClusterScope: the patch helper keeps a copy of the object as read.
NewClusterScope == orig' = cache

\* Mutant: the default is off by one.
ApplyDefaultOff(port) == IF port = 0 THEN DefaultLBPort + 1 ELSE port

\* DOLoadBalancer.ApplyDefault
ApplyDefault(port) == IF port = 0 THEN DefaultLBPort ELSE port

\* reconcile: finalizer and defaults are set in memory only.
Reconcile ==
  /\ cache.phase = "live"
  /\ mem' = [cache EXCEPT !.finalizer = TRUE, !.port = ApplyDefault(@)]
  /\ pc' = "GetLoadBalancer"

\* Mutant: the DNS record is forgotten.
ReconcileDeleteNoDNS ==
  /\ cache.phase = "deleting"
  /\ mem' = cache
  /\ pc' = "DeleteGetLoadBalancer"

\* reconcileDelete
ReconcileDelete ==
  /\ cache.phase = "deleting"
  /\ mem' = cache
  /\ pc' = IF cache.dns # NoName THEN "DeleteDomainRecord"
                                 ELSE "DeleteGetLoadBalancer"

StartReconcile ==
  /\ pc = "idle"
  /\ NewClusterScope
  /\ Reconcile \/ ReconcileDelete
  /\ ReadCache
  /\ UNCHANGED <<cloud, addressed, edits>>

-----------------------------------------------------------------------------
(* reconcile.                                                              *)

\* The last statements of reconcile: endpoint and readiness.  The host is the
\* name, if there is one, and otherwise what loadbalancer.IP holds (ip: it is
\* not empty).
Finish(obj, ip) ==
  Return([obj EXCEPT !.host = IF obj.dns # NoName THEN obj.dns
                              ELSE IF ip THEN obj.lbID ELSE NoName,
                     !.endpointPort = obj.port,
                     !.ready = TRUE])

\* reconcile with a load balancer that is active or has an address.
LBReady(obj, ip) ==
  \/ obj.dns = NoName /\ Finish(obj, ip)
  \/ /\ obj.dns # NoName
     /\ pc' = "GetDomainRecord"
     /\ mem' = obj
     /\ addressed' = ip
     /\ UNCHANGED orig

\* Mutant: a load balancer that is new need not have an address.
HaveLBEarly(id, status, ip) ==
  LBReady([mem EXCEPT !.lbID = id], ip)

\* reconcile once it has a load balancer: it waits as long as that is neither
\* active nor has an address.
HaveLB(id, status, ip) ==
  LET obj == [mem EXCEPT !.lbID = id]
  IN  \/ status # "active" /\ ~ip /\ Return(obj)
      \/ (status = "active" \/ ip) /\ LBReady(obj, ip)

\* Mutant: any error of the lookup counts as "not found".
GetLoadBalancerUnsure ==
  /\ pc = "GetLoadBalancer"
  /\ \/ Found(mem.lbID) /\ HaveLB(mem.lbID, lbs[mem.lbID], hasIP[mem.lbID])
     \/ Call("CreateLoadBalancer", mem)
  /\ UNCHANGED <<api, mishaps, cloud, edits>>

GetLoadBalancer ==
  /\ pc = "GetLoadBalancer"
  /\ \/ Found(mem.lbID) /\ HaveLB(mem.lbID, lbs[mem.lbID], hasIP[mem.lbID])
     \/ ~Found(mem.lbID) /\ Call("CreateLoadBalancer", mem)
  /\ UNCHANGED <<api, mishaps, cloud, edits>>

\* Mutant: the port is taken from the object before ApplyDefault.
LBCreatedBare(l) ==
  /\ lbs[l] = "none"
  /\ \A k \in LBIDs : k < l => lbs[k] # "none"
  /\ lbs' = [lbs EXCEPT ![l] = "new"]
  /\ lbPort' = [lbPort EXCEPT ![l] = orig.port]
  /\ UNCHANGED <<hasIP, records, advertised, bare>>

\* The request is granted: a load balancer without an address yet.
LBCreated(l) ==
  /\ lbs[l] = "none"
  /\ \A k \in LBIDs : k < l => lbs[k] # "none"
  /\ lbs' = [lbs EXCEPT ![l] = "new"]
  /\ lbPort' = [lbPort EXCEPT ![l] = mem.port]
  /\ UNCHANGED <<hasIP, records, advertised, bare>>

CreateLoadBalancer ==
  /\ pc = "CreateLoadBalancer"
  /\ \E l \in LBIDs : LBCreated(l) /\ Return([mem EXCEPT !.lbID = l])
  /\ UNCHANGED <<api, mishaps, edits>>

\* The record has the address of the load balancer (and no record has the
\* empty one).
RecordRight == addressed /\ records[mem.dns] = mem.lbID

\* A record that was ready once is not looked up at the DNS servers again.
RecordWritten(obj) ==
  IF obj.dnsReady THEN Finish(obj, addressed) ELSE Call("CheckDNSPropagated", obj)

\* Mutant: a wrong record keeps its readiness.
GetDomainRecordNoReset ==
  /\ pc = "GetDomainRecord"
  /\ \/ ~RecordRight /\ Call("UpsertDomainRecord", mem)
     \/ RecordRight /\ RecordWritten(mem)
  /\ UNCHANGED <<api, mishaps, cloud, edits>>

\* Mutant: only a missing record is written, never a wrong one.
GetDomainRecordNoUpdate ==
  /\ pc = "GetDomainRecord"
  /\ \/ /\ records[mem.dns] = NoAddress
        /\ Call("UpsertDomainRecord", [mem EXCEPT !.dnsReady = FALSE])
     \/ records[mem.dns] # NoAddress /\ RecordWritten(mem)
  /\ UNCHANGED <<api, mishaps, cloud, edits>>

\* A record that is missing or wrong takes the readiness of the record back.
GetDomainRecord ==
  /\ pc = "GetDomainRecord"
  /\ \/ /\ ~RecordRight
        /\ Call("UpsertDomainRecord", [mem EXCEPT !.dnsReady = FALSE])
     \/ RecordRight /\ RecordWritten(mem)
  /\ UNCHANGED <<api, mishaps, cloud, edits>>

\* The request is granted.  DigitalOcean creates no record without an address,
\* and an edit that gives none (the field is left out) changes nothing.
RecordUpserted ==
  /\ addressed \/ records[mem.dns] # NoAddress
  /\ records' = [records EXCEPT ![mem.dns] = IF addressed THEN mem.lbID ELSE @]
  /\ UNCHANGED <<lbs, hasIP, lbPort, advertised, bare>>

UpsertDomainRecord ==
  /\ pc = "UpsertDomainRecord"
  /\ RecordUpserted
  /\ Call("CheckDNSPropagated", mem)
  /\ UNCHANGED <<api, mishaps, edits>>

\* dnsutil.CheckDNSPropagated: the authoritative server of the zone answers
\* with the address (and never with the empty one).
Propagated(name, address) == addressed /\ advertised[name] = address

\* Mutant: the reconciliation ends once the record is propagated.
CheckDNSPropagatedOnly ==
  /\ pc = "CheckDNSPropagated"
  /\ Return(mem)
  /\ UNCHANGED <<api, mishaps, cloud, edits>>

\* A record that was never ready is not trusted before it is propagated.
CheckDNSPropagated ==
  /\ pc = "CheckDNSPropagated"
  /\ \/ ~Propagated(mem.dns, mem.lbID) /\ Return(mem)
     \/ /\ Propagated(mem.dns, mem.lbID)
        /\ Finish([mem EXCEPT !.dnsReady = TRUE], addressed)
  /\ UNCHANGED <<api, mishaps, cloud, edits>>

-----------------------------------------------------------------------------
(* reconcileDelete.                                                        *)

RecordDeleted ==
  /\ records' = [records EXCEPT ![mem.dns] = NoAddress]
  /\ UNCHANGED <<lbs, hasIP, lbPort, advertised, bare>>

DeleteDomainRecord ==
  /\ pc = "DeleteDomainRecord"
  /\ RecordDeleted
  /\ Call("DeleteGetLoadBalancer", mem)
  /\ UNCHANGED <<api, mishaps, edits>>

\* Mutant: the load balancer is left to somebody else.
DeleteGetLoadBalancerSkip ==
  /\ pc = "DeleteGetLoadBalancer"
  /\ Return([mem EXCEPT !.finalizer = FALSE])
  /\ UNCHANGED <<api, mishaps, cloud, edits>>

\* Mutant: the finalizer stays when there is no load balancer to delete.
DeleteGetLoadBalancerStuck ==
  /\ pc = "DeleteGetLoadBalancer"
  /\ \/ Found(mem.lbID) /\ Call("DeleteLoadBalancer", mem)
     \/ ~Found(mem.lbID) /\ Return(mem)
  /\ UNCHANGED <<api, mishaps, cloud, edits>>

DeleteGetLoadBalancer ==
  /\ pc = "DeleteGetLoadBalancer"
  /\ \/ Found(mem.lbID) /\ Call("DeleteLoadBalancer", mem)
     \/ ~Found(mem.lbID) /\ Return([mem EXCEPT !.finalizer = FALSE])
  /\ UNCHANGED <<api, mishaps, cloud, edits>>

LBDeleted ==
  /\ Found(mem.lbID)
  /\ Destroyed(mem.lbID)
  /\ UNCHANGED <<lbPort, records, advertised, bare>>

DeleteLoadBalancer ==
  /\ pc = "DeleteLoadBalancer"
  /\ LBDeleted
  /\ Return([mem EXCEPT !.finalizer = FALSE])
  /\ UNCHANGED <<api, mishaps, edits>>

-----------------------------------------------------------------------------
(* Failed calls, and clusterScope.Close.                                   *)

\* The call fails and has no effect; what was changed so far is persisted.
CallFails ==
  /\ pc \in CloudCalls
  /\ Return(mem)
  /\ UNCHANGED <<api, mishaps, cloud, edits>>

\* The call takes effect and its answer is lost.  Only for the creation of a
\* load balancer, whose ID nobody learns, is that a mishap.
ReplyLost ==
  /\ "lostReply" \in Mishaps
  /\ \/ pc = "UpsertDomainRecord" /\ RecordUpserted /\ NoMishap
     \/ pc = "DeleteDomainRecord" /\ RecordDeleted /\ NoMishap
     \/ pc = "DeleteLoadBalancer" /\ LBDeleted /\ NoMishap
     \/ /\ pc = "CreateLoadBalancer"
        /\ \E l \in LBIDs : LBCreated(l)
        /\ Mishap("lostReply")
  /\ Return(mem)
  /\ UNCHANGED <<api, edits>>

\* Close, first request: finalizer, port and endpoint, through the webhook.
SpecPatch ==
  Finalized([store EXCEPT
    !.finalizer = Merged(@, orig.finalizer, mem.finalizer),
    !.port = Merged(@, orig.port, mem.port),
    !.host = Merged(@, orig.host, mem.host),
    !.endpointPort = Merged(@, orig.endpointPort, mem.endpointPort)])

\* The webhook refuses the whole patch or none of it.
PatchSpec ==
  /\ pc = "PatchSpec"
  /\ \/ /\ store.phase # "gone" /\ ValidateUpdate(store, SpecPatch)
        /\ Write(SpecPatch) /\ NoMishap
     \/ /\ store.phase # "gone" => ~ValidateUpdate(store, SpecPatch)
        /\ UNCHANGED api /\ NoMishap
     \/ RequestFails
  /\ pc' = "PatchStatus"
  /\ UNCHANGED <<orig, mem, addressed, cloud, edits>>

\* Close, second request, sent whatever became of the first: the status,
\* which no webhook looks at.
StatusPatch ==
  [store EXCEPT
    !.lbID = Merged(@, orig.lbID, mem.lbID),
    !.dnsReady = Merged(@, orig.dnsReady, mem.dnsReady),
    !.ready = Merged(@, orig.ready, mem.ready)]

PatchStatus ==
  /\ pc = "PatchStatus"
  /\ \/ store.phase # "gone" /\ Write(StatusPatch) /\ NoMishap
     \/ store.phase = "gone" /\ UNCHANGED api /\ NoMishap
     \/ RequestFails
  /\ Idle
  /\ UNCHANGED <<cloud, edits>>

-----------------------------------------------------------------------------
\* The object is gone, everybody knows, and nothing is left to do.
Finished ==
  /\ store.phase = "gone" /\ pc = "idle" /\ watch = <<>>
  /\ UNCHANGED vars

CallSucceeds ==
  \/ GetLoadBalancer \/ CreateLoadBalancer
  \/ GetDomainRecord \/ UpsertDomainRecord \/ CheckDNSPropagated
  \/ DeleteDomainRecord \/ DeleteGetLoadBalancer \/ DeleteLoadBalancer

Controller ==
  \/ StartReconcile \/ CallSucceeds \/ CallFails \/ ReplyLost
  \/ PatchSpec \/ PatchStatus

Environment ==
  \/ DeliverEvent \/ UserDelete \/ UserUpdate
  \/ \E l \in LBIDs : LBAddress(l) \/ LBProgress(l) \/ ExternalChange(l)
  \/ \E n \in Names : DNSProgress(n)
  \/ Crash

Next == Controller \/ Environment \/ Finished

Spec == Init /\ [][Next]_vars

\* The queue retries errors with back-off, honours RequeueAfter and resyncs
\* every object, so a reconciliation is always started again and runs to its
\* end; events are delivered, load balancers get addresses and the DNS servers
\* take records over.
Fairness ==
  /\ WF_vars(DeliverEvent)
  /\ WF_vars(Controller /\ NoMishap)
  /\ WF_vars(\E l \in LBIDs : LBAddress(l))
  /\ WF_vars(\E n \in Names : DNSProgress(n))

FairSpec == Spec /\ Fairness

-----------------------------------------------------------------------------
TypeOK ==
  /\ store \in Objects /\ cache \in Objects /\ watch \in Seq(Objects)
  /\ protected \in BOOLEAN /\ mishaps \in MishapCounts
  /\ lbs \in [LBIDs -> LBStatuses]
  /\ hasIP \in [LBIDs -> BOOLEAN] /\ bare \in BOOLEAN
  /\ lbPort \in [LBIDs -> Ports \union {0}]
  /\ records \in [Names -> LBIDs \union {NoAddress}]
  /\ advertised \in [Names -> LBIDs \union {NoAddress}]
  /\ pc \in PCs
  /\ orig \in Objects /\ mem \in Objects /\ addressed \in BOOLEAN
  /\ edits \in [EditKinds -> 0..MaxEdits]

\* The finalizer keeps its word for DNS: once it has been persisted, the
\* DOCluster leaves the API server only when the record of the name in its
\* spec is gone, whatever crashes, failed calls, lost answers, stale reads
\* and renamings came before, unless the name is changed after the deletion
\* began (reconcileDelete looks the record up by name).
RecordsReclaimed ==
  protected /\ store.phase = "gone" /\ store.dns # NoName /\ edits["lateDNS"] = 0 =>
    records[store.dns] = NoAddress

\* A load balancer escapes the controller's bookkeeping only through a
\* mishap, and each mishap costs at most one load balancer.
LeaksBoundedByMishaps ==
  Cardinality(Orphans) <= MishapTotal

\* Without a mishap the cluster never has two load balancers, and each mishap
\* adds at most one: a load balancer is created only when the one the object
\* names is not found (GetLoadBalancer before CreateLoadBalancer).
OneLBPerCluster ==
  Cardinality({l \in LBIDs : Found(l)}) <= MishapTotal + 1

\* Without a mishap a DOCluster that has left the API server has left nothing
\* in DigitalOcean, at whatever moment it was deleted: no load balancer, and
\* no record of the name in its spec unless that was changed too late (the
\* finalizer, reconcileDelete and Close together).
NothingLeftBehind ==
  MishapTotal = 0 /\ store.phase = "gone" /\ pc = "idle" =>
    /\ \A l \in LBIDs : ~Found(l)
    /\ store.dns # NoName /\ edits["lateDNS"] = 0 => records[store.dns] = NoAddress

\* An endpoint that is the address of a load balancer is the address of the
\* one the object names, for as long as that load balancer is left: what the
\* two requests of Close write agrees, unless a stale read made the controller
\* replace a load balancer that was still there.
EndpointIsNamedLB ==
  store.host \in LBIDs /\ Found(store.host) /\ ~Happened("staleRead") =>
    store.lbID = store.host

\* No reader of the API server ever sees the endpoint of a cluster change
\* once it was announced, although load balancers come and go and patches
\* are computed from old copies (ValidateUpdate).  That holds of an endpoint
\* without a host as well, which is never repaired.
EndpointStable ==
  [][Announced(store) =>
       store'.host = store.host /\ store'.endpointPort = store.endpointPort]_vars

\* Status.Ready is never seen before an endpoint with a host: Close writes the
\* spec first, and a crash or a stale copy in between does not turn them
\* round.  There are two ways to a ready cluster without a host, and no third:
\* the first request of a Close failed and the second one was still sent (the
\* endpoint is not announced, and ProvisioningCompletes says that it will be),
\* or a load balancer was active before it had an address, for which reconcile
\* does not wait.
ReadyHasEndpoint ==
  store.ready =>
    \/ store.host # NoName
    \/ ~Announced(store) /\ Happened("patchError")
    \/ Announced(store) /\ bare

\* A ready cluster is announced on the port its load balancer forwards, also
\* after the load balancer was replaced, unless a user edited the port, which
\* the webhook lets pass although the endpoint cannot follow.
EndpointPortServed ==
  store.ready /\ Found(store.lbID) /\ ~Happened("patchError") /\ edits["port"] = 0
    => store.endpointPort = lbPort[store.lbID]

\* Between reconciliations, ControlPlaneDNSRecordReady says that the DNS
\* servers advertise what the record says (SetControlPlaneDNSRecordReady).
DNSRecordReadyMeansPropagated ==
  pc = "idle" /\ store.phase = "live" /\ store.dnsReady /\ store.dns # NoName
    => advertised[store.dns] = records[store.dns]

\* The same as long as every status the controller decided on was stored,
\* and decided from the last one: a wrong record takes readiness back.  One
\* renaming does no harm, because the new name has no record at first.  The
\* status does not say which name it speaks of, though: a user who goes back
\* to a name whose record is not propagated yet finds it ready.
ReadyRecordIsAdvertised ==
  ~Happened("crash") /\ ~Happened("patchError") /\ ~Happened("staleRead")
    /\ edits["dns"] <= 1
    => DNSRecordReadyMeansPropagated

\* The object as InfraContract sees it: it names a load balancer, and stale
\* reads and failed patches lead the controller astray.  (Where DOMachine
\* writes the ID of the droplet together with the finalizer, DOCluster writes
\* the ID of the load balancer in the second request of Close.)
Contract == INSTANCE InfraContract WITH
  NoID <- NoLB, phase <- store.phase, id <- store.lbID,
  running <- Found(store.lbID), ready <- store.ready, failed <- FALSE,
  astray <- Happened("staleRead") \/ Happened("patchError")

\* A DOCluster keeps the contract of an infrastructure object, whatever
\* crashes, lost answers, early deletions and edits happen: it never names a
\* second load balancer while the first one is left, it leaves only after its
\* load balancer, and readiness is not taken back (reconcile, reconcileDelete
\* and Close together).
KeepsContract == Contract!Spec

\* Cloud calls never stop failing.  (A call that succeeds and tells the
\* reconciliation to wait has the effect of a failed one; that does not count.)
CallsFailForever == []<><<CallFails /\ ~CallSucceeds>>_vars

\* When the load balancer of the object is replaced, the record of the
\* control plane name follows to the address of the new one, unless calls to
\* DigitalOcean fail for ever (reconcile compares the record every time).
RecordFollowsLB ==
  CallsFailForever \/
  []<>(\/ store.phase # "live" \/ store.dns = NoName \/ store.lbID = NoLB
       \/ ~Found(store.lbID) \/ ~hasIP[store.lbID]
       \/ records[store.dns] = store.lbID)

\* A DOCluster becomes ready with an endpoint announced, and stays so, also
\* when a request of Close failed in between, unless it is deleted, its
\* load balancer fails before it has an address, or calls to DigitalOcean fail
\* for ever.
ProvisioningCompletes ==
  CallsFailForever \/
  []<>(\/ store.ready /\ Announced(store)
       \/ store.phase # "live"
       \/ store.lbID # NoLB /\ lbs[store.lbID] = "errored")

\* A DOCluster under deletion leaves the API server, unless calls to
\* DigitalOcean fail for ever.  (The deletion is never taken back, so to be
\* found outside it again and again is to have left.)
DeletionCompletes ==
  CallsFailForever \/ []<>(store.phase # "deleting")

\* api/v1alpha4/docluster_types.go:39: "ControlPlaneEndpoint represents the
\* endpoint used to communicate with the control plane. If ControlPlaneDNS is
\* unset, the DO load-balancer IP of the Kubernetes API Server is used."
EndpointFollowsLB ==
  CallsFailForever \/
  \A l \in LBIDs :
    (store.phase = "live" /\ store.dns = NoName /\ store.lbID = l /\ Found(l) /\ hasIP[l])
      ~> (store.host = l \/ store.phase # "live" \/ store.lbID # l \/ ~Found(l))
=============================================================================
