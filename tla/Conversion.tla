----------------------------- MODULE Conversion -----------------------------
(***************************************************************************)
(* The two served versions of the API.  Objects are stored as v1alpha4,    *)
(* the hub; clients of v1alpha3 reach them through the conversion webhook  *)
(* (api/v1alpha3/*_conversion.go and the generated field copies).  Objects *)
(* stored by an older release are still v1alpha3.                          *)
(*                                                                         *)
(* One object of one kind, the API server in front of it (external: it     *)
(* converts, asks the webhooks of api/v1alpha4/*_webhook.go, stores), a    *)
(* client of each version and the controller that writes the status.       *)
(*                                                                         *)
(* Of the metadata only the annotation that carries conversion data is     *)
(* kept.  Strings and numbers are Values, a nil slice or pointer and an    *)
(* empty status string are Nil, and <<>> is a list that somebody wrote as  *)
(* [].                                                                     *)
(***************************************************************************)
EXTENDS Integers, Sequences

CONSTANTS
  Values,     \* values of strings and numbers
  Nil,        \* a nil pointer or slice, an absent annotation
  Garbage,    \* an annotation that does not parse
  Absent,     \* no object
  MaxWrites   \* bound: number of changes by clients

ASSUME ConversionAssumption ==
  /\ Nil \notin Values /\ Garbage \notin Values \union {Nil}
  /\ Values # {} /\ MaxWrites \in Nat

Kinds == {"DOCluster", "DOMachine", "DOMachineTemplate"}
Versions == {"v1alpha3", "v1alpha4"}

VARIABLES
  kind,       \* the kind of the object
  stored,     \* the object in etcd
  storedAs,   \* the version it is stored in
  held,       \* the copy a v1alpha3 client works on, perhaps an old one
  written,    \* history: the last spec and the last status that were accepted
  byHand,     \* history: a v1alpha4 client wrote conversion data itself
  writes      \* number of changes so far

vars == <<kind, stored, storedAs, held, written, byHand, writes>>

-----------------------------------------------------------------------------
(* The types, which both versions share.                                   *)

DataDisk ==
  [nameSuffix: Values, diskSizeGB: Values, filesystemType: Values,
   filesystemLabel: Values]

DOMachineSpec ==
  [providerID: Values \union {Nil}, size: Values, image: Values,
   dataDisks: Seq(DataDisk) \union {Nil}, sshKeys: Seq(Values),
   additionalTags: Seq(Values) \union {Nil}]

DOMachineStatus ==
  [ready: BOOLEAN, addresses: Seq(Values) \union {Nil},
   instanceStatus: Values \union {Nil}, failureReason: Values \union {Nil},
   failureMessage: Values \union {Nil}]

DOMachineTemplateSpec == [template: [spec: DOMachineSpec]]

DOLoadBalancer ==
  [port: Values, algorithm: Values,
   healthCheck: [interval: Values, timeout: Values,
                 unhealthyThreshold: Values, healthyThreshold: Values]]

DOControlPlaneDNS == [domain: Values, name: Values]

DOClusterSpec ==
  [region: Values,
   network: [apiServerLoadbalancers: DOLoadBalancer, vpc: [vpcuuid: Values]],
   controlPlaneEndpoint: [host: Values, port: Values] \union {Nil},
   controlPlaneDNS: DOControlPlaneDNS \union {Nil}]

DOClusterStatus ==
  [ready: BOOLEAN, controlPlaneDNSRecordReady: BOOLEAN,
   network: [apiServerLoadbalancersRef:
               [resourceID: Values \union {Nil}, resourceStatus: Values \union {Nil}]]]

SpecType(k) == CASE k = "DOCluster" -> DOClusterSpec
              [] k = "DOMachine" -> DOMachineSpec
              [] k = "DOMachineTemplate" -> DOMachineTemplateSpec

StatusType(k) == CASE k = "DOCluster" -> DOClusterStatus
                [] k = "DOMachine" -> DOMachineStatus
                [] k = "DOMachineTemplate" -> {Nil}

Objects(k) ==
  [annotation: {Nil, Garbage} \union [spec: SpecType(k), status: StatusType(k)],
   spec: SpecType(k), status: StatusType(k)]

\* Conversion data parse.
ASSUME GarbageAssumption ==
  \A k \in Kinds : Garbage \notin [spec: SpecType(k), status: StatusType(k)]

-----------------------------------------------------------------------------
(* Encoding.  Decoding a document into the Go type and encoding it again   *)
(* loses an explicit empty list in the fields marked omitempty.            *)

OmitEmpty(list) == IF list = <<>> THEN Nil ELSE list

TypedMachineSpec(s) ==
  [s EXCEPT !.dataDisks = OmitEmpty(@), !.additionalTags = OmitEmpty(@)]

Typed(k, s) ==
  CASE k = "DOCluster" -> s
    [] k = "DOMachine" -> TypedMachineSpec(s)
    [] k = "DOMachineTemplate" -> [s EXCEPT !.template.spec = TypedMachineSpec(@)]

-----------------------------------------------------------------------------
(* The generated copies.  Each is the same list of assignments in both     *)
(* directions.  Slices and pointers are cast, not copied: the layouts are  *)
(* the same, so a cast slice reads as its elements converted one by one.   *)

ConvertDataDisk(in) ==
  [nameSuffix |-> in.nameSuffix, diskSizeGB |-> in.diskSizeGB,
   filesystemType |-> in.filesystemType, filesystemLabel |-> in.filesystemLabel]

ConvertDOMachineSpec(in) ==
  [providerID |-> in.providerID, size |-> in.size, image |-> in.image,
   dataDisks |-> IF in.dataDisks = Nil THEN Nil
                 ELSE [i \in DOMAIN in.dataDisks |-> ConvertDataDisk(in.dataDisks[i])],
   sshKeys |-> in.sshKeys, additionalTags |-> in.additionalTags]

ConvertDOMachineStatus(in) ==
  [ready |-> in.ready, addresses |-> in.addresses,
   instanceStatus |-> in.instanceStatus, failureReason |-> in.failureReason,
   failureMessage |-> in.failureMessage]

ConvertDOMachineTemplateResource(in) == [spec |-> ConvertDOMachineSpec(in.spec)]

ConvertDOMachineTemplateSpec(in) ==
  [template |-> ConvertDOMachineTemplateResource(in.template)]

ConvertDOLoadBalancerHealthCheck(in) ==
  [interval |-> in.interval, timeout |-> in.timeout,
   unhealthyThreshold |-> in.unhealthyThreshold,
   healthyThreshold |-> in.healthyThreshold]

ConvertDOLoadBalancer(in) ==
  [port |-> in.port, algorithm |-> in.algorithm,
   healthCheck |-> ConvertDOLoadBalancerHealthCheck(in.healthCheck)]

ConvertDOVPC(in) == [vpcuuid |-> in.vpcuuid]

ConvertDONetwork(in) ==
  [apiServerLoadbalancers |-> ConvertDOLoadBalancer(in.apiServerLoadbalancers),
   vpc |-> ConvertDOVPC(in.vpc)]

ConvertDOControlPlaneDNS(in) == [domain |-> in.domain, name |-> in.name]

\* The conversion of APIEndpoint is the one of Cluster API.
ConvertAPIEndpoint(in) == in

ConvertDOClusterSpec(in) ==
  [region |-> in.region, network |-> ConvertDONetwork(in.network),
   controlPlaneEndpoint |-> ConvertAPIEndpoint(in.controlPlaneEndpoint),
   controlPlaneDNS |-> IF in.controlPlaneDNS = Nil THEN Nil
                       ELSE ConvertDOControlPlaneDNS(in.controlPlaneDNS)]

ConvertDOResourceReference(in) ==
  [resourceID |-> in.resourceID, resourceStatus |-> in.resourceStatus]

ConvertDONetworkResource(in) ==
  [apiServerLoadbalancersRef |->
     ConvertDOResourceReference(in.apiServerLoadbalancersRef)]

ConvertDOClusterStatus(in) ==
  [ready |-> in.ready,
   controlPlaneDNSRecordReady |-> in.controlPlaneDNSRecordReady,
   network |-> ConvertDONetworkResource(in.network)]

\* out.ObjectMeta = in.ObjectMeta: the two objects share their annotations.
ConvertDOCluster(in) ==
  [annotation |-> in.annotation, spec |-> ConvertDOClusterSpec(in.spec),
   status |-> ConvertDOClusterStatus(in.status)]

ConvertDOMachine(in) ==
  [annotation |-> in.annotation, spec |-> ConvertDOMachineSpec(in.spec),
   status |-> ConvertDOMachineStatus(in.status)]

ConvertDOMachineTemplate(in) ==
  [annotation |-> in.annotation, spec |-> ConvertDOMachineTemplateSpec(in.spec),
   status |-> in.status]

\* The webhook decodes the object it is sent, converts it and encodes it.
Convert(k, in) ==
  LET obj == [in EXCEPT !.spec = Typed(k, @)]
  IN  CASE k = "DOCluster" -> ConvertDOCluster(obj)
        [] k = "DOMachine" -> ConvertDOMachine(obj)
        [] k = "DOMachineTemplate" -> ConvertDOMachineTemplate(obj)

\* ConvertTo fails when the annotation does not parse.
ConvertToFails(src) == src.annotation = Garbage

\* Mutant: what the annotation holds is restored.
ConvertToRestoring(k, src) ==
  LET dst == Convert(k, src)
  IN  [dst EXCEPT !.annotation = Nil,
                  !.spec = IF src.annotation = Nil THEN @ ELSE src.annotation.spec]

\* Mutant: the annotation is deleted from a copy of the annotations.
ConvertToUnshared(k, src) == Convert(k, src)

\* (*DOCluster).ConvertTo, and the same for the other kinds: UnmarshalData
\* deletes the annotation of src, which dst shares.  What it holds is parsed
\* and not used.
ConvertTo(k, src) == [Convert(k, src) EXCEPT !.annotation = Nil]

\* Mutant: conversion data are not written.
ConvertFromBare(k, src) == Convert(k, src)

\* (*DOCluster).ConvertFrom, and the same for the other kinds: MarshalData
\* puts spec and status of the hub into the annotation.
ConvertFrom(k, src) ==
  [Convert(k, src) EXCEPT
     !.annotation = [spec |-> Typed(k, src.spec), status |-> src.status]]

-----------------------------------------------------------------------------
(* Admission, in terms of v1alpha4.                                        *)

\* Mutant: a template may name a droplet.
ValidateCreateAnything(k, new) == TRUE

\* (*DOMachineTemplate).ValidateCreate; the other kinds accept everything.
ValidateCreate(k, new) ==
  k = "DOMachineTemplate" => new.template.spec.providerID = Nil

ValidateUpdateDOCluster(old, new) ==
  /\ new.region = old.region
  /\ old.controlPlaneEndpoint # Nil =>
       new.controlPlaneEndpoint = old.controlPlaneEndpoint

\* Mutant: data disks may be changed like tags.
ValidateUpdateDOMachineDisks(old, new) ==
  [TypedMachineSpec(new) EXCEPT !.providerID = Nil, !.additionalTags = Nil, !.dataDisks = Nil]
   = [TypedMachineSpec(old) EXCEPT !.providerID = Nil, !.additionalTags = Nil, !.dataDisks = Nil]

\* Both specs are turned into maps, where empty lists do not appear.
ValidateUpdateDOMachine(old, new) ==
  [TypedMachineSpec(new) EXCEPT !.providerID = Nil, !.additionalTags = Nil]
   = [TypedMachineSpec(old) EXCEPT !.providerID = Nil, !.additionalTags = Nil]

\* reflect.DeepEqual on the structs tells an empty list from a nil one.
ValidateUpdateDOMachineTemplate(old, new) == new = old

ValidateUpdate(k, old, new) ==
  CASE k = "DOCluster" -> ValidateUpdateDOCluster(old, new)
    [] k = "DOMachine" -> ValidateUpdateDOMachine(old, new)
    [] k = "DOMachineTemplate" -> ValidateUpdateDOMachineTemplate(old, new)

\* The defaulting webhooks set nothing, but the answer is the patch that
\* leads to their typed copy of the object.  Templates have no such webhook.
Default(k, s) == IF k = "DOMachineTemplate" THEN s ELSE Typed(k, s)

-----------------------------------------------------------------------------
(* The API server.                                                         *)

\* The object as a client of the version reads it.
ReadAs(version) ==
  CASE version = storedAs -> stored
    [] version = "v1alpha4" /\ storedAs = "v1alpha3" -> ConvertTo(kind, stored)
    [] version = "v1alpha3" /\ storedAs = "v1alpha4" -> ConvertFrom(kind, stored)

\* An object in a request as the hub sees it.
Hub(version, obj) == IF version = "v1alpha3" THEN ConvertTo(kind, obj) ELSE obj

Readable(version, obj) == version = "v1alpha4" \/ ~ConvertToFails(obj)

\* A request for the object itself does not touch the status.
Admitted(version, obj) ==
  /\ Readable(version, obj)
  /\ LET new == Default(kind, Hub(version, obj).spec)
     IN  IF stored = Absent THEN ValidateCreate(kind, new)
         ELSE ValidateUpdate(kind, Hub(version, ReadAs(version)).spec, new)

\* What is stored is v1alpha4, whatever version was sent and was stored before.
Accept(version, obj) ==
  LET hub == Hub(version, obj)
      status == IF stored = Absent THEN obj.status
                ELSE Hub(version, ReadAs(version)).status
  IN  /\ stored' = [hub EXCEPT !.spec = Default(kind, @), !.status = status]
      /\ storedAs' = "v1alpha4"
      /\ written' = [spec |-> obj.spec, status |-> IF stored = Absent THEN obj.status
                                                     ELSE written.status]
      /\ byHand' = (version = "v1alpha4" /\ obj.annotation # Nil)

-----------------------------------------------------------------------------
(* Clients.                                                                *)

Disk(v) ==
  [nameSuffix |-> v, diskSizeGB |-> v, filesystemType |-> v, filesystemLabel |-> v]

\* An object all of whose fields have the same value, without a status yet.
Uniform(k, v) ==
  LET machine == [providerID |-> Nil, size |-> v, image |-> v,
                  dataDisks |-> <<Disk(v)>>, sshKeys |-> <<v>>,
                  additionalTags |-> <<v>>]
      health == [interval |-> v, timeout |-> v, unhealthyThreshold |-> v,
                 healthyThreshold |-> v]
  IN  [annotation |-> Nil,
       spec |->
         CASE k = "DOCluster" ->
                [region |-> v,
                 network |-> [apiServerLoadbalancers |->
                                [port |-> v, algorithm |-> v, healthCheck |-> health],
                              vpc |-> [vpcuuid |-> v]],
                 controlPlaneEndpoint |-> Nil, controlPlaneDNS |-> Nil]
           [] k = "DOMachine" -> machine
           [] k = "DOMachineTemplate" -> [template |-> [spec |-> machine]],
       status |->
         CASE k = "DOCluster" ->
                [ready |-> FALSE, controlPlaneDNSRecordReady |-> FALSE,
                 network |-> [apiServerLoadbalancersRef |->
                                [resourceID |-> Nil, resourceStatus |-> Nil]]]
           [] k = "DOMachine" ->
                [ready |-> FALSE, addresses |-> Nil, instanceStatus |-> Nil,
                 failureReason |-> Nil, failureMessage |-> Nil]
           [] k = "DOMachineTemplate" -> Nil]

Lists(v) == {Nil, <<>>, <<v>>}

\* Machine specs that differ in one field, v being the new value.
MachineEdits(s, v) ==
  {[s EXCEPT !.providerID = v], [s EXCEPT !.size = v]}
  \union {[s EXCEPT !.dataDisks = l] : l \in {Nil, <<>>, <<Disk(v)>>}}
  \union {[s EXCEPT !.additionalTags = l] : l \in Lists(v)}

SpecEdits(k, s, v) ==
  CASE k = "DOCluster" ->
         {[s EXCEPT !.region = v],
          [s EXCEPT !.network.apiServerLoadbalancers.port = v],
          [s EXCEPT !.network.apiServerLoadbalancers.healthCheck.timeout = v],
          [s EXCEPT !.network.vpc.vpcuuid = v],
          [s EXCEPT !.controlPlaneEndpoint = [host |-> v, port |-> v]],
          [s EXCEPT !.controlPlaneDNS = [domain |-> v, name |-> v]],
          [s EXCEPT !.controlPlaneDNS = Nil]}
    [] k = "DOMachine" -> MachineEdits(s, v)
    [] k = "DOMachineTemplate" ->
         {[s EXCEPT !.template.spec = m] : m \in MachineEdits(s.template.spec, v)}

StatusEdits(k, st, v) ==
  CASE k = "DOCluster" ->
         {[st EXCEPT !.ready = TRUE], [st EXCEPT !.controlPlaneDNSRecordReady = ~@],
          [st EXCEPT !.network.apiServerLoadbalancersRef.resourceID = v]}
    [] k = "DOMachine" ->
         {[st EXCEPT !.ready = TRUE], [st EXCEPT !.addresses = <<v>>],
          [st EXCEPT !.instanceStatus = v], [st EXCEPT !.failureReason = v]}
    [] k = "DOMachineTemplate" -> {}

\* An edit of a manifest: one field, or the annotation.
Edited(obj) ==
  (UNION {{[obj EXCEPT !.spec = s] : s \in SpecEdits(kind, obj.spec, v)} : v \in Values})
  \union {[obj EXCEPT !.annotation = a] : a \in {Nil, Garbage}}

Counted == writes < MaxWrites /\ writes' = writes + 1

Init ==
  /\ kind \in Kinds
  /\ \/ stored = Absent /\ storedAs = "v1alpha4" /\ written = Nil
     \/ \E v \in Values : /\ stored = Uniform(kind, v) /\ storedAs = "v1alpha3"
                          /\ written = [spec |-> stored.spec, status |-> stored.status]
  /\ held = Absent /\ byHand = FALSE /\ writes = 0

\* A client of either version creates the object from a manifest.
Create ==
  /\ stored = Absent
  /\ Counted
  /\ \E version \in Versions, v \in Values :
       \E obj \in {Uniform(kind, v)} \union Edited(Uniform(kind, v)) :
         Admitted(version, obj) /\ Accept(version, obj)
  /\ UNCHANGED <<kind, held>>

\* A v1alpha3 client reads the object, or saves it to a file.
ReadV1alpha3 ==
  /\ stored # Absent
  /\ held' = ReadAs("v1alpha3")
  /\ UNCHANGED <<kind, stored, storedAs, written, byHand, writes>>

EditV1alpha3 ==
  /\ held # Absent
  /\ Counted
  /\ held' \in Edited(held)
  /\ UNCHANGED <<kind, stored, storedAs, written, byHand>>

\* It writes its copy back, however old; nobody checks the resource version.
WriteV1alpha3 ==
  /\ held # Absent /\ stored # Absent
  /\ Admitted("v1alpha3", held)
  /\ Accept("v1alpha3", held)
  /\ UNCHANGED <<kind, held, writes>>

\* A v1alpha4 client edits the object in place.
WriteV1alpha4 ==
  /\ stored # Absent
  /\ Counted
  /\ \E obj \in Edited(ReadAs("v1alpha4")) :
       Admitted("v1alpha4", obj) /\ Accept("v1alpha4", obj)
  /\ UNCHANGED <<kind, held>>

\* The controller, a v1alpha4 client, writes the status and nothing else.
WriteStatus ==
  /\ stored # Absent /\ kind # "DOMachineTemplate"
  /\ Counted
  /\ \E st \in UNION {StatusEdits(kind, ReadAs("v1alpha4").status, v) : v \in Values} :
       /\ stored' = [ReadAs("v1alpha4") EXCEPT !.status = st]
       /\ written' = [written EXCEPT !.status = st]
  /\ storedAs' = "v1alpha4"
  /\ UNCHANGED <<kind, held, byHand>>

Next ==
  \/ Create \/ ReadV1alpha3 \/ EditV1alpha3 \/ WriteV1alpha3
  \/ WriteV1alpha4 \/ WriteStatus

Spec == Init /\ [][Next]_vars

-----------------------------------------------------------------------------
TypeOK ==
  /\ kind \in Kinds
  /\ stored \in Objects(kind) \union {Absent}
  /\ storedAs \in Versions
  /\ held \in Objects(kind) \union {Absent}
  /\ written \in [spec: SpecType(kind), status: StatusType(kind)] \union {Nil}
  /\ byHand \in BOOLEAN
  /\ writes \in 0..MaxWrites

\* Clients of both versions read the spec of the last accepted request,
\* whichever version it came in, up to empty lists, and the last status the
\* controller wrote: the conversion loses no field, and old copies and old
\* conversion data undo neither an edit nor a status (ConvertTo, ConvertFrom).
LastWriteIsRead ==
  stored # Absent =>
    \A version \in Versions :
      /\ Typed(kind, ReadAs(version).spec) = Typed(kind, written.spec)
      /\ ReadAs(version).status = written.status

\* Conversion data that v1alpha3 readers see and write back never reach the
\* hub: they are stored only if a v1alpha4 client wrote them itself.
HubHasNoConversionData ==
  stored # Absent /\ ReadAs("v1alpha4").annotation # Nil => byHand

\* A v1alpha3 client may always write back what it has just read: neither
\* the conversion nor a webhook refuses it, whatever v1alpha4 clients left
\* in the annotation and however empty lists were written.
ReadThenWriteAccepted ==
  stored # Absent => Admitted("v1alpha3", ReadAs("v1alpha3"))

\* The parts of a spec that are immutable in v1alpha4.
Fixed(s) ==
  CASE kind = "DOCluster" -> <<s.region>>
    [] kind = "DOMachine" ->
         <<[TypedMachineSpec(s) EXCEPT !.providerID = Nil, !.additionalTags = Nil]>>
    [] kind = "DOMachineTemplate" -> <<Typed(kind, s)>>

\* What the webhooks of v1alpha4 protect cannot be changed through v1alpha3
\* either: not with an old copy, nor by way of an object of an older release.
ImmutableInEveryVersion ==
  [][stored # Absent =>
       /\ Fixed(stored'.spec) = Fixed(stored.spec)
       /\ kind = "DOCluster" /\ stored.spec.controlPlaneEndpoint # Nil =>
            stored'.spec.controlPlaneEndpoint = stored.spec.controlPlaneEndpoint]_vars

\* No template names a droplet, in whatever version it was created and
\* however often it is rewritten (ValidateCreate, ValidateUpdate).
TemplateNamesNoDroplet ==
  kind = "DOMachineTemplate" /\ stored # Absent =>
    stored.spec.template.spec.providerID = Nil
=============================================================================
