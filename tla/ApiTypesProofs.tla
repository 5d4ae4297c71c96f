--------------------------- MODULE ApiTypesProofs ---------------------------
(***************************************************************************)
(* Proofs about the API types, for every set of the values that the fields *)
(* can have: what the webhooks do to the objects, and the names and tags   *)
(* that the scopes build from their fields.                                *)
(*                                                                         *)
(* First, kind by kind, the conversions: the field copies of one direction *)
(* undo those of the other, up to what the encoding of an object does to   *)
(* its empty lists, and doing so twice changes nothing more.  Then the API *)
(* server: whichever version the object is stored in, it is the one that   *)
(* was written last, up to that encoding, and carries conversion data only *)
(* if somebody wrote them by hand.  Last, when two volume names, or two    *)
(* tags, are equal: for all names, and so for those of the instance.       *)
(***************************************************************************)
EXTENDS MCConversion, SequenceTheorems, TLAPS

-----------------------------------------------------------------------------
(* The conversion webhook.                                                 *)

\* An encoded machine spec is a machine spec, and stays as it is.
LEMMA TypedMachine ==
  ASSUME NEW s \in DOMachineSpec
  PROVE  /\ TypedMachineSpec(s) \in DOMachineSpec
         /\ TypedMachineSpec(TypedMachineSpec(s)) = TypedMachineSpec(s)
         /\ TypedMachineSpec(s).providerID = s.providerID
<1>1. \A list : /\ OmitEmpty(OmitEmpty(list)) = OmitEmpty(list)
                /\ OmitEmpty(list) \in {list, Nil}
  BY DEF OmitEmpty
<1> DEFINE t == TypedMachineSpec(s)
<1>2. t \in DOMachineSpec /\ t.providerID = s.providerID
  BY <1>1, Zenon DEF TypedMachineSpec, DOMachineSpec
<1>3. t.dataDisks = OmitEmpty(s.dataDisks) /\ t.additionalTags = OmitEmpty(s.additionalTags)
  BY DEF TypedMachineSpec, DOMachineSpec
<1> HIDE DEF t
<1>4. OmitEmpty(t.dataDisks) = t.dataDisks /\ OmitEmpty(t.additionalTags) = t.additionalTags
  BY <1>1, <1>3
<1>5. TypedMachineSpec(t) = t
  BY <1>2, <1>4, Zenon DEF TypedMachineSpec, DOMachineSpec
<1> QED
  BY <1>2, <1>5 DEF t

\* What the types of each kind are.
LEMMA KindTypes ==
  /\ SpecType("DOCluster") = DOClusterSpec /\ StatusType("DOCluster") = DOClusterStatus
  /\ SpecType("DOMachine") = DOMachineSpec /\ StatusType("DOMachine") = DOMachineStatus
  /\ SpecType("DOMachineTemplate") = DOMachineTemplateSpec
  /\ StatusType("DOMachineTemplate") = {Nil}
BY DEF SpecType, StatusType

\* What encoding does to a spec of each kind.
LEMMA KindTyped ==
  ASSUME NEW s
  PROVE  /\ Typed("DOCluster", s) = s
         /\ Typed("DOMachine", s) = TypedMachineSpec(s)
         /\ s \in DOMachineTemplateSpec =>
              /\ s.template.spec \in DOMachineSpec
              /\ Typed("DOMachineTemplate", s)
                   = [template |-> [spec |-> TypedMachineSpec(s.template.spec)]]
<1>1. Typed("DOCluster", s) = s /\ Typed("DOMachine", s) = TypedMachineSpec(s)
  BY DEF Typed
<1>2. Typed("DOMachineTemplate", s) = [s EXCEPT !.template.spec = TypedMachineSpec(@)]
  BY DEF Typed
<1>3. ASSUME s \in DOMachineTemplateSpec
      PROVE  /\ s.template.spec \in DOMachineSpec
             /\ [s EXCEPT !.template.spec = TypedMachineSpec(@)]
                  = [template |-> [spec |-> TypedMachineSpec(s.template.spec)]]
  <2>1. s = [template |-> s.template] /\ s.template = [spec |-> s.template.spec]
        /\ s.template.spec \in DOMachineSpec
    BY <1>3 DEF DOMachineTemplateSpec
  <2> QED
    BY <2>1
<1> QED
  BY <1>1, <1>2, <1>3

\* Encoding a spec gives a spec of the same type and has no further effect.
LEMMA TypedSpec ==
  ASSUME NEW k \in Kinds, NEW s \in SpecType(k)
  PROVE  /\ Typed(k, s) \in SpecType(k)
         /\ Typed(k, Typed(k, s)) = Typed(k, s)
<1>1. CASE k = "DOCluster"
  BY <1>1, KindTypes, KindTyped
<1>2. CASE k = "DOMachine"
  BY <1>2, KindTypes, KindTyped, TypedMachine
<1>3. CASE k = "DOMachineTemplate"
  <2> DEFINE m == s.template.spec
             t == TypedMachineSpec(m)
             o == [template |-> [spec |-> t]]
  <2>1. m \in DOMachineSpec /\ Typed(k, s) = o
    BY <1>3, KindTypes, KindTyped
  <2>2. t \in DOMachineSpec /\ TypedMachineSpec(t) = t
    BY <2>1, TypedMachine
  <2>3. o \in DOMachineTemplateSpec /\ o.template.spec = t
    BY <2>2 DEF DOMachineTemplateSpec
  <2> HIDE DEF m, t
  <2>4. Typed(k, o) = [template |-> [spec |-> TypedMachineSpec(o.template.spec)]]
    BY <1>3, <2>3, KindTyped
  <2> QED
    BY <1>3, <2>1, <2>2, <2>3, <2>4, KindTypes
<1> QED
  BY <1>1, <1>2, <1>3 DEF Kinds

\* The generated copies copy every field.
LEMMA CopyMachine ==
  /\ \A s \in DOMachineSpec : ConvertDOMachineSpec(s) = s
  /\ \A st \in DOMachineStatus : ConvertDOMachineStatus(st) = st
<1>1. \A d \in DataDisk : ConvertDataDisk(d) = d
  BY DEF DataDisk, ConvertDataDisk
<1>2. ASSUME NEW l \in Seq(DataDisk)
      PROVE  [i \in DOMAIN l |-> ConvertDataDisk(l[i])] = l
  <2>1. \A i \in DOMAIN l : ConvertDataDisk(l[i]) = l[i]
    BY <1>1
  <2>2. l = [i \in DOMAIN l |-> l[i]]
    OBVIOUS
  <2> QED
    BY <2>1, <2>2
<1>3. ASSUME NEW s \in DOMachineSpec
      PROVE  ConvertDOMachineSpec(s) = s
  <2> DEFINE disks == IF s.dataDisks = Nil THEN Nil
                      ELSE [i \in DOMAIN s.dataDisks |-> ConvertDataDisk(s.dataDisks[i])]
  <2>1. disks = s.dataDisks
    <3>1. s.dataDisks \in Seq(DataDisk) \union {Nil}
      BY DEF DOMachineSpec
    <3> QED
      BY <1>2, <3>1
  <2>2. ConvertDOMachineSpec(s) =
          [providerID |-> s.providerID, size |-> s.size, image |-> s.image,
           dataDisks |-> disks, sshKeys |-> s.sshKeys, additionalTags |-> s.additionalTags]
    BY DEF ConvertDOMachineSpec
  <2> HIDE DEF disks
  <2> QED
    BY <2>1, <2>2 DEF DOMachineSpec
<1>4. ASSUME NEW st \in DOMachineStatus PROVE ConvertDOMachineStatus(st) = st
  BY DEF DOMachineStatus, ConvertDOMachineStatus
<1> QED
  BY <1>3, <1>4

\* The same for templates.
LEMMA CopyTemplate ==
  \A s \in DOMachineTemplateSpec : ConvertDOMachineTemplateSpec(s) = s
<1> SUFFICES ASSUME NEW s \in DOMachineTemplateSpec
             PROVE  ConvertDOMachineTemplateSpec(s) = s
  OBVIOUS
<1>1. /\ s = [template |-> s.template] /\ s.template = [spec |-> s.template.spec]
      /\ s.template.spec \in DOMachineSpec
  BY DEF DOMachineTemplateSpec
<1> QED
  BY <1>1, CopyMachine DEF ConvertDOMachineTemplateSpec, ConvertDOMachineTemplateResource

\* The same for clusters.
LEMMA CopyCluster ==
  /\ \A s \in DOClusterSpec : ConvertDOClusterSpec(s) = s
  /\ \A st \in DOClusterStatus : ConvertDOClusterStatus(st) = st
<1>1. ASSUME NEW b \in DOLoadBalancer PROVE ConvertDOLoadBalancer(b) = b
  <2>1. b = [port |-> b.port, algorithm |-> b.algorithm, healthCheck |-> b.healthCheck]
    BY DEF DOLoadBalancer
  <2>2. ConvertDOLoadBalancerHealthCheck(b.healthCheck) = b.healthCheck
    BY DEF DOLoadBalancer, ConvertDOLoadBalancerHealthCheck
  <2> QED
    BY <2>1, <2>2 DEF ConvertDOLoadBalancer
<1>2. ASSUME NEW s \in DOClusterSpec PROVE ConvertDOClusterSpec(s) = s
  <2>1. /\ s = [region |-> s.region, network |-> s.network,
                controlPlaneEndpoint |-> s.controlPlaneEndpoint,
                controlPlaneDNS |-> s.controlPlaneDNS]
        /\ s.network = [apiServerLoadbalancers |-> s.network.apiServerLoadbalancers,
                        vpc |-> s.network.vpc]
        /\ s.network.apiServerLoadbalancers \in DOLoadBalancer
        /\ s.network.vpc = [vpcuuid |-> s.network.vpc.vpcuuid]
        /\ s.controlPlaneDNS \in DOControlPlaneDNS \union {Nil}
    BY DEF DOClusterSpec
  <2>2. ConvertDONetwork(s.network) = s.network
    BY <1>1, <2>1 DEF ConvertDONetwork, ConvertDOVPC
  <2>3. \A d \in DOControlPlaneDNS : ConvertDOControlPlaneDNS(d) = d
    BY DEF DOControlPlaneDNS, ConvertDOControlPlaneDNS
  <2> QED
    BY <2>1, <2>2, <2>3 DEF ConvertDOClusterSpec, ConvertAPIEndpoint
<1>3. ASSUME NEW st \in DOClusterStatus PROVE ConvertDOClusterStatus(st) = st
  <2>1. /\ st = [ready |-> st.ready,
                 controlPlaneDNSRecordReady |-> st.controlPlaneDNSRecordReady,
                 network |-> st.network]
        /\ st.network = [apiServerLoadbalancersRef |-> st.network.apiServerLoadbalancersRef]
        /\ st.network.apiServerLoadbalancersRef
             = [resourceID |-> st.network.apiServerLoadbalancersRef.resourceID,
                resourceStatus |-> st.network.apiServerLoadbalancersRef.resourceStatus]
    BY DEF DOClusterStatus
  <2> QED
    BY <2>1 DEF ConvertDOClusterStatus, ConvertDONetworkResource, ConvertDOResourceReference
<1> QED
  BY <1>2, <1>3

\* The parts of an object.
LEMMA ObjectParts ==
  ASSUME NEW k \in Kinds, NEW obj \in Objects(k)
  PROVE  /\ obj.spec \in SpecType(k) /\ obj.status \in StatusType(k)
         /\ obj.annotation \in {Nil, Garbage} \union [spec: SpecType(k), status: StatusType(k)]
         /\ obj = [annotation |-> obj.annotation, spec |-> obj.spec, status |-> obj.status]
BY DEF Objects

\* A conversion encodes the spec and changes nothing else.
LEMMA ConvertParts ==
  ASSUME NEW k \in Kinds, NEW in \in Objects(k)
  PROVE  Convert(k, in) = [annotation |-> in.annotation, spec |-> Typed(k, in.spec),
                           status |-> in.status]
<1> DEFINE obj == [in EXCEPT !.spec = Typed(k, @)]
<1>1. /\ in.spec \in SpecType(k) /\ in.status \in StatusType(k)
      /\ Typed(k, in.spec) \in SpecType(k)
  BY ObjectParts, TypedSpec
<1>2. /\ obj.annotation = in.annotation /\ obj.spec = Typed(k, in.spec)
      /\ obj.status = in.status
  BY ObjectParts
<1>3. Convert(k, in) = CASE k = "DOCluster" -> ConvertDOCluster(obj)
                         [] k = "DOMachine" -> ConvertDOMachine(obj)
                         [] k = "DOMachineTemplate" -> ConvertDOMachineTemplate(obj)
  BY DEF Convert
<1> HIDE DEF obj
<1>4. CASE k = "DOCluster"
  BY <1>1, <1>2, <1>3, <1>4, KindTypes, CopyCluster DEF ConvertDOCluster
<1>5. CASE k = "DOMachine"
  BY <1>1, <1>2, <1>3, <1>5, KindTypes, CopyMachine DEF ConvertDOMachine
<1>6. CASE k = "DOMachineTemplate"
  BY <1>1, <1>2, <1>3, <1>6, KindTypes, CopyTemplate DEF ConvertDOMachineTemplate
<1> QED
  BY <1>4, <1>5, <1>6 DEF Kinds

\* ConvertTo also drops the annotation.
LEMMA ConvertToParts ==
  ASSUME NEW k \in Kinds, NEW src \in Objects(k)
  PROVE  /\ ConvertTo(k, src) \in Objects(k)
         /\ ConvertTo(k, src).annotation = Nil
         /\ ConvertTo(k, src).spec = Typed(k, src.spec)
         /\ ConvertTo(k, src).status = src.status
<1>1. src.status \in StatusType(k) /\ Typed(k, src.spec) \in SpecType(k)
  BY ObjectParts, TypedSpec
<1>2. ConvertTo(k, src) = [annotation |-> Nil, spec |-> Typed(k, src.spec),
                           status |-> src.status]
  BY ConvertParts DEF ConvertTo
<1> QED
  BY <1>1, <1>2 DEF Objects

\* ConvertFrom puts spec and status into the annotation.
LEMMA ConvertFromParts ==
  ASSUME NEW k \in Kinds, NEW src \in Objects(k)
  PROVE  /\ ConvertFrom(k, src) \in Objects(k)
         /\ ConvertFrom(k, src).annotation \in [spec: SpecType(k), status: StatusType(k)]
         /\ ConvertFrom(k, src).spec = Typed(k, src.spec)
         /\ ConvertFrom(k, src).status = src.status
<1> DEFINE data == [spec |-> Typed(k, src.spec), status |-> src.status]
<1>1. src.status \in StatusType(k) /\ Typed(k, src.spec) \in SpecType(k)
  BY ObjectParts, TypedSpec
<1>2. data \in [spec: SpecType(k), status: StatusType(k)]
  BY <1>1
<1>3. ConvertFrom(k, src) = [annotation |-> data, spec |-> Typed(k, src.spec),
                             status |-> src.status]
  BY ConvertParts DEF ConvertFrom
<1> HIDE DEF data
<1> QED
  BY <1>1, <1>2, <1>3 DEF Objects

\* A round trip through the other version keeps spec and status, whichever
\* version it starts from, and restores the hub's annotations to none: the
\* field copies of the two directions are inverse to each other.
THEOREM RoundTrip ==
  ASSUME NEW k \in Kinds, NEW obj \in Objects(k)
  PROVE  /\ ConvertTo(k, ConvertFrom(k, obj)).spec = Typed(k, obj.spec)
         /\ ConvertTo(k, ConvertFrom(k, obj)).status = obj.status
         /\ ConvertTo(k, ConvertFrom(k, obj)).annotation = Nil
         /\ ConvertFrom(k, ConvertTo(k, obj)).spec = Typed(k, obj.spec)
         /\ ConvertFrom(k, ConvertTo(k, obj)).status = obj.status
<1>1. obj.spec \in SpecType(k)
  BY ObjectParts
<1> QED
  BY <1>1, ConvertToParts, ConvertFromParts, TypedSpec

-----------------------------------------------------------------------------
(* The API server.                                                         *)

\* The object that clients read.
LEMMA ReadParts ==
  ASSUME kind \in Kinds, stored \in Objects(kind), storedAs \in Versions,
         NEW version \in Versions
  PROVE  /\ ReadAs(version) \in Objects(kind)
         /\ ReadAs(version).spec \in {stored.spec, Typed(kind, stored.spec)}
         /\ Typed(kind, ReadAs(version).spec) = Typed(kind, stored.spec)
         /\ ReadAs(version).status = stored.status
         /\ version = storedAs => ReadAs(version) = stored
         /\ version = "v1alpha4" /\ storedAs = "v1alpha3" => ReadAs(version).annotation = Nil
         /\ version = "v1alpha3" /\ storedAs = "v1alpha4" =>
              ReadAs(version).annotation \in [spec: SpecType(kind), status: StatusType(kind)]
<1>1. stored.spec \in SpecType(kind)
  BY ObjectParts
<1>2. Typed(kind, Typed(kind, stored.spec)) = Typed(kind, stored.spec)
  BY <1>1, TypedSpec
<1>3. CASE version = storedAs
  BY <1>3 DEF ReadAs
<1>4. CASE version = "v1alpha4" /\ storedAs = "v1alpha3"
  <2>1. ReadAs(version) = ConvertTo(kind, stored)
    BY <1>4 DEF ReadAs
  <2> QED
    BY <1>2, <1>4, <2>1, ConvertToParts
<1>5. CASE version = "v1alpha3" /\ storedAs = "v1alpha4"
  <2>1. ReadAs(version) = ConvertFrom(kind, stored)
    BY <1>5 DEF ReadAs
  <2> QED
    BY <1>2, <1>5, <2>1, ConvertFromParts
<1> QED
  BY <1>3, <1>4, <1>5 DEF Versions

\* The object of a request as the hub sees it.
LEMMA HubParts ==
  ASSUME kind \in Kinds, NEW version \in Versions, NEW obj \in Objects(kind)
  PROVE  /\ Hub(version, obj) \in Objects(kind)
         /\ Hub(version, obj).spec \in SpecType(kind)
         /\ Typed(kind, Hub(version, obj).spec) = Typed(kind, obj.spec)
         /\ Hub(version, obj).status = obj.status
         /\ version = "v1alpha3" => /\ Hub(version, obj).annotation = Nil
                                    /\ Hub(version, obj).spec = Typed(kind, obj.spec)
         /\ version = "v1alpha4" => Hub(version, obj) = obj
<1>1. obj.spec \in SpecType(kind)
  BY ObjectParts
<1>2. CASE version = "v1alpha3"
  <2>1. Hub(version, obj) = ConvertTo(kind, obj)
    BY <1>2 DEF Hub
  <2> QED
    BY <1>1, <1>2, <2>1, ConvertToParts, TypedSpec
<1>3. CASE version = "v1alpha4"
  BY <1>1, <1>3 DEF Hub
<1> QED
  BY <1>2, <1>3 DEF Versions

\* Defaulting keeps the type and what a spec says.
LEMMA DefaultParts ==
  ASSUME NEW k \in Kinds, NEW s \in SpecType(k)
  PROVE  /\ Default(k, s) \in SpecType(k)
         /\ Typed(k, Default(k, s)) = Typed(k, s)
         /\ Default(k, s) \in {s, Typed(k, s)}
         /\ k = "DOMachineTemplate" => Default(k, s) = s
BY TypedSpec DEF Default

\* What an accepted request leaves behind.
LEMMA AcceptParts ==
  ASSUME kind \in Kinds, storedAs \in Versions, stored \in Objects(kind) \union {Absent},
         NEW version \in Versions, NEW obj \in Objects(kind), Accept(version, obj)
  PROVE  /\ stored' \in Objects(kind) /\ storedAs' = "v1alpha4"
         /\ stored'.spec = Default(kind, Hub(version, obj).spec)
         /\ Typed(kind, stored'.spec) = Typed(kind, obj.spec)
         /\ stored'.status = IF stored = Absent THEN obj.status ELSE stored.status
         /\ stored'.annotation # Nil => byHand'
         /\ byHand' \in BOOLEAN
         /\ written' = [spec |-> obj.spec,
                        status |-> IF stored = Absent THEN obj.status ELSE written.status]
<1> DEFINE hub == Hub(version, obj)
           status == IF stored = Absent THEN obj.status
                     ELSE Hub(version, ReadAs(version)).status
<1>1. /\ hub \in Objects(kind) /\ hub.spec \in SpecType(kind)
      /\ Typed(kind, hub.spec) = Typed(kind, obj.spec)
      /\ version = "v1alpha3" => hub.annotation = Nil
      /\ version = "v1alpha4" => hub = obj
  BY HubParts
<1>2. status = IF stored = Absent THEN obj.status ELSE stored.status
  BY ReadParts, HubParts
<1>3. status \in StatusType(kind)
  BY <1>2, ObjectParts
<1>4. /\ stored' = [hub EXCEPT !.spec = Default(kind, @), !.status = status]
      /\ storedAs' = "v1alpha4" /\ byHand' = (version = "v1alpha4" /\ obj.annotation # Nil)
      /\ written' = [spec |-> obj.spec,
                     status |-> IF stored = Absent THEN obj.status ELSE written.status]
  BY DEF Accept
<1> HIDE DEF hub, status
<1>5. hub = [annotation |-> hub.annotation, spec |-> hub.spec, status |-> hub.status]
  BY <1>1, ObjectParts
<1>6. stored' = [annotation |-> hub.annotation, spec |-> Default(kind, hub.spec),
                 status |-> status]
  BY <1>4, <1>5, Zenon
<1>7. stored' \in Objects(kind)
  BY <1>1, <1>3, <1>6, DefaultParts, ObjectParts DEF Objects
<1>8. Typed(kind, stored'.spec) = Typed(kind, obj.spec)
  BY <1>1, <1>6, DefaultParts
<1>9. stored'.annotation # Nil => byHand'
  BY <1>1, <1>4, <1>6, Zenon DEF Versions
<1> QED
  BY <1>2, <1>4, <1>6, <1>7, <1>8, <1>9 DEF hub

-----------------------------------------------------------------------------
(* Clients.                                                                *)

\* Machine specs of clients are well-typed.
LEMMA MachineEditsType ==
  ASSUME NEW s \in DOMachineSpec, NEW v \in Values
  PROVE  MachineEdits(s, v) \subseteq DOMachineSpec
<1>1. Disk(v) \in DataDisk
  BY DEF Disk, DataDisk
<1>2. \A l \in {Nil, <<>>, <<Disk(v)>>} : l \in Seq(DataDisk) \union {Nil}
  <2>1. <<>> \in Seq(DataDisk) /\ <<Disk(v)>> \in Seq(DataDisk)
    BY <1>1
  <2> QED
    BY <2>1, Zenon
<1>3. \A l \in Lists(v) : l \in Seq(Values) \union {Nil}
  <2>1. <<>> \in Seq(Values) /\ <<v>> \in Seq(Values)
    OBVIOUS
  <2> QED
    BY <2>1, Zenon DEF Lists
<1>4. /\ [s EXCEPT !.providerID = v] \in DOMachineSpec
      /\ [s EXCEPT !.size = v] \in DOMachineSpec
  BY SMTT(30) DEF DOMachineSpec
<1>5. \A l \in {Nil, <<>>, <<Disk(v)>>} : [s EXCEPT !.dataDisks = l] \in DOMachineSpec
  BY <1>2, Zenon DEF DOMachineSpec
<1>6. \A l \in Lists(v) : [s EXCEPT !.additionalTags = l] \in DOMachineSpec
  BY <1>3, SMTT(30) DEF DOMachineSpec
<1> QED
  BY <1>4, <1>5, <1>6 DEF MachineEdits

\* The same for all kinds.
LEMMA SpecEditsType ==
  ASSUME NEW k \in Kinds, NEW s \in SpecType(k), NEW v \in Values
  PROVE  SpecEdits(k, s, v) \subseteq SpecType(k)
<1>1. CASE k = "DOCluster"
  <2>1. s \in DOClusterSpec
    BY <1>1, KindTypes
  <2>2. /\ [s EXCEPT !.region = v] \in DOClusterSpec
        /\ [s EXCEPT !.controlPlaneEndpoint = [host |-> v, port |-> v]] \in DOClusterSpec
        /\ [s EXCEPT !.controlPlaneDNS = [domain |-> v, name |-> v]] \in DOClusterSpec
        /\ [s EXCEPT !.controlPlaneDNS = Nil] \in DOClusterSpec
    BY <2>1 DEF DOClusterSpec, DOControlPlaneDNS
  <2>3. [s EXCEPT !.network.vpc.vpcuuid = v] \in DOClusterSpec
    BY <2>1 DEF DOClusterSpec
  <2>4. [s EXCEPT !.network.apiServerLoadbalancers.port = v] \in DOClusterSpec
    BY <2>1 DEF DOClusterSpec, DOLoadBalancer
  <2>5. [s EXCEPT !.network.apiServerLoadbalancers.healthCheck.timeout = v] \in DOClusterSpec
    BY <2>1 DEF DOClusterSpec, DOLoadBalancer
  <2> QED
    BY <1>1, <2>2, <2>3, <2>4, <2>5, KindTypes DEF SpecEdits
<1>2. CASE k = "DOMachine"
  BY <1>2, KindTypes, MachineEditsType DEF SpecEdits
<1>3. CASE k = "DOMachineTemplate"
  <2>1. /\ s = [template |-> s.template] /\ s.template = [spec |-> s.template.spec]
        /\ s.template.spec \in DOMachineSpec
    <3>1. s \in DOMachineTemplateSpec
      BY <1>3, KindTypes
    <3> QED
      BY <3>1 DEF DOMachineTemplateSpec
  <2>2. \A m \in DOMachineSpec : [s EXCEPT !.template.spec = m] \in DOMachineTemplateSpec
    BY <2>1 DEF DOMachineTemplateSpec
  <2>3. SpecEdits(k, s, v)
          = {[s EXCEPT !.template.spec = m] : m \in MachineEdits(s.template.spec, v)}
    BY <1>3 DEF SpecEdits
  <2> QED
    BY <1>3, <2>1, <2>2, <2>3, KindTypes, MachineEditsType
<1> QED
  BY <1>1, <1>2, <1>3 DEF Kinds

\* What the controller writes is well-typed.
LEMMA StatusEditsType ==
  ASSUME NEW k \in Kinds, NEW st \in StatusType(k), NEW v \in Values
  PROVE  StatusEdits(k, st, v) \subseteq StatusType(k)
<1>1. CASE k = "DOCluster"
  <2>1. st \in DOClusterStatus
    BY <1>1, KindTypes
  <2>2. /\ [st EXCEPT !.ready = TRUE] \in DOClusterStatus
        /\ [st EXCEPT !.controlPlaneDNSRecordReady = ~@] \in DOClusterStatus
        /\ [st EXCEPT !.network.apiServerLoadbalancersRef.resourceID = v] \in DOClusterStatus
    BY <2>1, Zenon DEF DOClusterStatus
  <2> QED
    BY <1>1, <2>2, KindTypes DEF StatusEdits
<1>2. CASE k = "DOMachine"
  <2>1. st \in DOMachineStatus
    BY <1>2, KindTypes
  <2>2. /\ [st EXCEPT !.ready = TRUE] \in DOMachineStatus
        /\ [st EXCEPT !.addresses = <<v>>] \in DOMachineStatus
        /\ [st EXCEPT !.instanceStatus = v] \in DOMachineStatus
        /\ [st EXCEPT !.failureReason = v] \in DOMachineStatus
    <3>1. <<v>> \in Seq(Values)
      OBVIOUS
    <3> QED
      BY <2>1, <3>1, Zenon DEF DOMachineStatus
  <2> QED
    BY <1>2, <2>2, KindTypes DEF StatusEdits
<1>3. CASE k = "DOMachineTemplate"
  BY <1>3 DEF StatusEdits
<1> QED
  BY <1>1, <1>2, <1>3 DEF Kinds

\* So are the manifests they start from.
LEMMA UniformType ==
  ASSUME NEW k \in Kinds, NEW v \in Values
  PROVE  /\ Uniform(k, v) \in Objects(k)
         /\ Uniform(k, v).annotation = Nil
         /\ k = "DOMachineTemplate" => Uniform(k, v).spec.template.spec.providerID = Nil
<1> DEFINE machine == [providerID |-> Nil, size |-> v, image |-> v,
                       dataDisks |-> <<Disk(v)>>, sshKeys |-> <<v>>,
                       additionalTags |-> <<v>>]
           o == Uniform(k, v)
<1>1. machine \in DOMachineSpec /\ machine.providerID = Nil
  <2>1. <<Disk(v)>> \in Seq(DataDisk) /\ <<v>> \in Seq(Values)
    BY DEF Disk, DataDisk
  <2> QED
    BY <2>1 DEF DOMachineSpec
<1>2. o = [annotation |-> Nil, spec |-> o.spec, status |-> o.status]
  <2>1. \E sp, st : o = [annotation |-> Nil, spec |-> sp, status |-> st]
    BY Zenon DEF Uniform
  <2> HIDE DEF o
  <2> QED
    BY <2>1
<1>3. CASE k = "DOCluster"
  <2>1. o.spec \in DOClusterSpec
    BY <1>3 DEF Uniform, DOClusterSpec, DOLoadBalancer
  <2>2. o.status \in DOClusterStatus
    BY <1>3 DEF Uniform, DOClusterStatus
  <2> HIDE DEF o
  <2> QED
    BY <1>2, <1>3, <2>1, <2>2, KindTypes DEF o, Objects
<1>4. CASE k = "DOMachine"
  <2>1. o.spec = machine
    BY <1>4 DEF Uniform
  <2>2. o.status \in DOMachineStatus
    BY <1>4 DEF Uniform, DOMachineStatus
  <2> HIDE DEF o, machine
  <2> QED
    BY <1>1, <1>2, <1>4, <2>1, <2>2, KindTypes DEF o, Objects
<1>5. CASE k = "DOMachineTemplate"
  <2>1. o.spec = [template |-> [spec |-> machine]] /\ o.status = Nil
    BY <1>5 DEF Uniform
  <2>2. o.spec \in DOMachineTemplateSpec
    BY <1>1, <2>1 DEF DOMachineTemplateSpec
  <2> HIDE DEF o, machine
  <2> QED
    BY <1>1, <1>2, <1>5, <2>1, <2>2, KindTypes DEF o, Objects
<1> QED
  BY <1>3, <1>4, <1>5 DEF Kinds

\* So is an edited manifest.
LEMMA EditedType ==
  ASSUME kind \in Kinds, NEW obj \in Objects(kind)
  PROVE  Edited(obj) \subseteq Objects(kind)
<1>1. /\ obj.spec \in SpecType(kind) /\ obj.status \in StatusType(kind)
      /\ obj = [annotation |-> obj.annotation, spec |-> obj.spec, status |-> obj.status]
      /\ obj.annotation \in {Nil, Garbage} \union
                              [spec: SpecType(kind), status: StatusType(kind)]
  BY ObjectParts
<1>2. \A s \in SpecType(kind) : [obj EXCEPT !.spec = s] \in Objects(kind)
  BY <1>1 DEF Objects
<1>3. \A a \in {Nil, Garbage} : [obj EXCEPT !.annotation = a] \in Objects(kind)
  BY <1>1 DEF Objects
<1>4. \A v \in Values : SpecEdits(kind, obj.spec, v) \subseteq SpecType(kind)
  BY <1>1, SpecEditsType
<1> SUFFICES ASSUME NEW e \in Edited(obj) PROVE e \in Objects(kind)
  OBVIOUS
<1>5. CASE \E v \in Values : \E s \in SpecEdits(kind, obj.spec, v) : e = [obj EXCEPT !.spec = s]
  BY <1>2, <1>4, <1>5
<1>6. CASE \E a \in {Nil, Garbage} : e = [obj EXCEPT !.annotation = a]
  BY <1>3, <1>6
<1> QED
  BY <1>5, <1>6 DEF Edited

-----------------------------------------------------------------------------
(* The invariant.                                                          *)

\* What is stored says what was written last.  Conversion data are stored
\* only if somebody wrote them by hand, and never by an older release.
StoredOK ==
  /\ written \in [spec: SpecType(kind), status: StatusType(kind)]
  /\ Typed(kind, stored.spec) = Typed(kind, written.spec)
  /\ stored.status = written.status
  /\ storedAs = "v1alpha3" => stored.annotation = Nil
  /\ stored.annotation # Nil => byHand
  /\ TemplateNamesNoDroplet

CInv == TypeOK /\ (stored # Absent => StoredOK)

\* Of an admitted update, the hub's spec before and after.
LEMMA AdmittedUpdate ==
  ASSUME TypeOK, stored # Absent, NEW version \in Versions, NEW obj \in Objects(kind),
         Admitted(version, obj)
  PROVE  \E old \in SpecType(kind) :
           /\ Typed(kind, old) = Typed(kind, stored.spec)
           /\ old \in {stored.spec, Typed(kind, stored.spec)}
           /\ ValidateUpdate(kind, old, Default(kind, Hub(version, obj).spec))
<1> DEFINE old == Hub(version, ReadAs(version)).spec
<1>1. kind \in Kinds /\ stored \in Objects(kind) /\ storedAs \in Versions
  BY DEF TypeOK
<1>2. /\ ReadAs(version) \in Objects(kind)
      /\ ReadAs(version).spec \in {stored.spec, Typed(kind, stored.spec)}
      /\ Typed(kind, ReadAs(version).spec) = Typed(kind, stored.spec)
  BY <1>1, ReadParts
<1>3. /\ old \in SpecType(kind)
      /\ Typed(kind, old) = Typed(kind, stored.spec)
      /\ version = "v1alpha3" => old = Typed(kind, stored.spec)
      /\ version = "v1alpha4" => old = ReadAs(version).spec
  BY <1>1, <1>2, HubParts
<1>4. ValidateUpdate(kind, old, Default(kind, Hub(version, obj).spec))
  BY DEF Admitted
<1> HIDE DEF old
<1> QED
  BY <1>2, <1>3, <1>4 DEF Versions

\* The droplet a template names is not changed by encoding it.
LEMMA TypedTemplate ==
  ASSUME NEW s \in SpecType("DOMachineTemplate")
  PROVE  Typed("DOMachineTemplate", s).template.spec.providerID = s.template.spec.providerID
<1>1. /\ s.template.spec \in DOMachineSpec
      /\ Typed("DOMachineTemplate", s)
           = [template |-> [spec |-> TypedMachineSpec(s.template.spec)]]
  BY KindTypes, KindTyped
<1> QED
  BY <1>1, TypedMachine

\* An accepted request keeps the invariant.
LEMMA AcceptCInv ==
  ASSUME CInv, NEW version \in Versions, NEW obj \in Objects(kind),
         Admitted(version, obj), Accept(version, obj), UNCHANGED <<kind, held>>,
         writes' \in 0..MaxWrites
  PROVE  CInv'
<1>1. /\ kind \in Kinds /\ storedAs \in Versions /\ stored \in Objects(kind) \union {Absent}
      /\ stored # Absent => StoredOK
  BY DEF CInv, TypeOK
<1>2. /\ stored' \in Objects(kind) /\ storedAs' = "v1alpha4"
      /\ stored'.spec = Default(kind, Hub(version, obj).spec)
      /\ Typed(kind, stored'.spec) = Typed(kind, obj.spec)
      /\ stored'.status = IF stored = Absent THEN obj.status ELSE stored.status
      /\ stored'.annotation # Nil => byHand'
      /\ byHand' \in BOOLEAN
      /\ written' = [spec |-> obj.spec,
                     status |-> IF stored = Absent THEN obj.status ELSE written.status]
  BY <1>1, AcceptParts
<1>3. obj.spec \in SpecType(kind) /\ obj.status \in StatusType(kind)
  BY <1>1, ObjectParts
<1>4. /\ written' \in [spec: SpecType(kind), status: StatusType(kind)]
      /\ written'.spec = obj.spec /\ stored'.status = written'.status
  BY <1>1, <1>2, <1>3 DEF StoredOK
<1>5. TypeOK'
  BY <1>2, <1>4 DEF CInv, TypeOK, Versions
<1>6. ASSUME kind = "DOMachineTemplate" PROVE stored'.spec.template.spec.providerID = Nil
  <2>1. CASE stored = Absent
    BY <1>2, <1>6, <2>1 DEF Admitted, ValidateCreate
  <2>2. CASE stored # Absent
    <3>1. PICK old \in SpecType(kind) :
            /\ Typed(kind, old) = Typed(kind, stored.spec)
            /\ ValidateUpdate(kind, old, stored'.spec)
      BY <1>2, <2>2, AdmittedUpdate DEF CInv
    <3>2. stored'.spec = old
      BY <1>6, <3>1 DEF ValidateUpdate, ValidateUpdateDOMachineTemplate
    <3>3. stored.spec \in SpecType(kind) /\ stored.spec.template.spec.providerID = Nil
      BY <1>1, <1>6, <2>2, ObjectParts DEF StoredOK, TemplateNamesNoDroplet
    <3> QED
      BY <1>6, <3>1, <3>2, <3>3, TypedTemplate
  <2> QED
    BY <2>1, <2>2
<1>7. StoredOK'
  BY <1>2, <1>4, <1>6 DEF StoredOK, TemplateNamesNoDroplet
<1> QED
  BY <1>5, <1>7 DEF CInv

\* The controller's status update keeps the invariant.
LEMMA WriteStatusCInv ==
  ASSUME CInv, WriteStatus
  PROVE  CInv'
<1>1. /\ kind \in Kinds /\ storedAs \in Versions /\ stored \in Objects(kind) /\ StoredOK
      /\ kind # "DOMachineTemplate" /\ storedAs' = "v1alpha4" /\ UNCHANGED <<kind, held, byHand>>
      /\ writes' \in 0..MaxWrites
  BY ConversionAssumption DEF CInv, TypeOK, WriteStatus, Counted
<1> DEFINE r == ReadAs("v1alpha4")
<1>2. /\ r \in Objects(kind) /\ r.status = stored.status
      /\ Typed(kind, r.spec) = Typed(kind, stored.spec)
      /\ r.annotation \in {stored.annotation, Nil}
  BY <1>1, ReadParts DEF Versions
<1>3. PICK st \in UNION {StatusEdits(kind, r.status, v) : v \in Values} :
        /\ stored' = [r EXCEPT !.status = st]
        /\ written' = [written EXCEPT !.status = st]
  BY DEF WriteStatus
<1> HIDE DEF r
<1>4. st \in StatusType(kind)
  BY <1>1, <1>2, <1>3, ObjectParts, StatusEditsType
<1>5. /\ stored' \in Objects(kind) /\ stored'.status = st
      /\ stored'.spec = r.spec /\ stored'.annotation = r.annotation
  BY <1>2, <1>3, <1>4 DEF Objects
<1>6. /\ written' \in [spec: SpecType(kind), status: StatusType(kind)]
      /\ written'.status = st /\ written'.spec = written.spec
  BY <1>1, <1>3, <1>4 DEF StoredOK
<1>7. TypeOK'
  BY <1>1, <1>5, <1>6 DEF CInv, TypeOK, Versions
<1>8. StoredOK'
  BY <1>1, <1>2, <1>5, <1>6 DEF StoredOK, TemplateNamesNoDroplet
<1> QED
  BY <1>7, <1>8 DEF CInv

\* No object, or one that an older release stored.
LEMMA InitCInv == Init => CInv
<1> SUFFICES ASSUME Init PROVE CInv
  OBVIOUS
<1>1. kind \in Kinds /\ held = Absent /\ byHand = FALSE /\ writes \in 0..MaxWrites
  BY ConversionAssumption DEF Init
<1>2. CASE stored = Absent /\ storedAs = "v1alpha4" /\ written = Nil
  BY <1>1, <1>2, Zenon DEF CInv, TypeOK, Versions
<1>3. ASSUME NEW v \in Values, stored = Uniform(kind, v), storedAs = "v1alpha3",
             written = [spec |-> stored.spec, status |-> stored.status]
      PROVE  CInv
  <2>1. /\ stored \in Objects(kind) /\ stored.annotation = Nil
        /\ kind = "DOMachineTemplate" => stored.spec.template.spec.providerID = Nil
    BY <1>1, <1>3, UniformType
  <2>2. /\ written \in [spec: SpecType(kind), status: StatusType(kind)]
        /\ written.spec = stored.spec /\ written.status = stored.status
    BY <1>1, <1>3, <2>1, ObjectParts
  <2>3. TypeOK
    BY <1>1, <1>3, <2>1, <2>2, Zenon DEF TypeOK, Versions
  <2>4. StoredOK
    BY <2>1, <2>2 DEF StoredOK, TemplateNamesNoDroplet
  <2> QED
    BY <2>3, <2>4 DEF CInv
<1> QED
  BY <1>2, <1>3 DEF Init

\* A step writes through the API server, changes the status, or touches the
\* copy of the client only.
LEMMA Steps ==
  ASSUME CInv, Next
  PROVE  \/ /\ UNCHANGED <<kind, held>> /\ writes' \in 0..MaxWrites
            /\ \E version \in Versions, obj \in Objects(kind) :
                 Admitted(version, obj) /\ Accept(version, obj)
         \/ WriteStatus
         \/ /\ UNCHANGED <<kind, stored, storedAs, written, byHand>>
            /\ held' \in Objects(kind) /\ writes' \in 0..MaxWrites
<1>1. /\ kind \in Kinds /\ storedAs \in Versions /\ writes \in 0..MaxWrites
      /\ stored \in Objects(kind) \union {Absent} /\ held \in Objects(kind) \union {Absent}
  BY DEF CInv, TypeOK
<1>2. Counted => writes' \in 0..MaxWrites
  BY <1>1, ConversionAssumption DEF Counted
<1>3. "v1alpha3" \in Versions /\ "v1alpha4" \in Versions
  BY DEF Versions
<1>4. CASE Create
  <2>1. PICK version \in Versions, v \in Values :
          \E obj \in {Uniform(kind, v)} \union Edited(Uniform(kind, v)) :
            Admitted(version, obj) /\ Accept(version, obj)
    BY <1>4 DEF Create
  <2>2. Uniform(kind, v) \in Objects(kind) /\ Edited(Uniform(kind, v)) \subseteq Objects(kind)
    BY <1>1, UniformType, EditedType
  <2> QED
    BY <1>2, <1>4, <2>1, <2>2 DEF Create
<1>5. CASE ReadV1alpha3
  BY <1>1, <1>3, <1>5, ReadParts DEF ReadV1alpha3
<1>6. CASE EditV1alpha3
  BY <1>1, <1>2, <1>6, EditedType DEF EditV1alpha3
<1>7. CASE WriteV1alpha3
  BY <1>1, <1>3, <1>7 DEF WriteV1alpha3
<1>8. CASE WriteV1alpha4
  <2>1. Edited(ReadAs("v1alpha4")) \subseteq Objects(kind)
    BY <1>1, <1>3, <1>8, ReadParts, EditedType DEF WriteV1alpha4
  <2> QED
    BY <1>2, <1>3, <1>8, <2>1 DEF WriteV1alpha4
<1> QED
  BY <1>4, <1>5, <1>6, <1>7, <1>8 DEF Next

\* Every step keeps the invariant.
LEMMA NextCInv == CInv /\ [Next]_vars => CInv'
<1> SUFFICES ASSUME CInv, [Next]_vars PROVE CInv'
  OBVIOUS
<1>1. CASE UNCHANGED <<kind, stored, storedAs, written, byHand>>
           /\ held' \in Objects(kind) \union {Absent} /\ writes' \in 0..MaxWrites
  BY <1>1 DEF CInv, TypeOK, StoredOK, TemplateNamesNoDroplet
<1>2. CASE UNCHANGED vars
  BY <1>1, <1>2 DEF vars, CInv, TypeOK
<1>3. CASE Next
  BY <1>1, <1>3, Steps, AcceptCInv, WriteStatusCInv
<1> QED
  BY <1>2, <1>3

\* What is stored says what was written last.
THEOREM ConversionInvariant == Spec => []CInv
  BY InitCInv, NextCInv, PTL DEF Spec

\* Types: a conversion of a well-formed object is well-formed.
THEOREM ConversionTypes == Spec => []TypeOK
<1>1. CInv => TypeOK
  BY DEF CInv
<1> QED
  BY <1>1, ConversionInvariant, PTL

\* No client ever reads anything but the spec of the last accepted request
\* and the last status, in either version, for objects of any content
\* (ConvertTo, ConvertFrom).
THEOREM LastWriteIsAlwaysRead == Spec => []LastWriteIsRead
<1>1. CInv => LastWriteIsRead
  BY ReadParts DEF CInv, TypeOK, StoredOK, LastWriteIsRead
<1> QED
  BY <1>1, ConversionInvariant, PTL

\* Conversion data of v1alpha3 clients never reach the hub (UnmarshalData in
\* ConvertTo).
THEOREM ConversionDataStayOutside == Spec => []HubHasNoConversionData
<1>1. CInv => HubHasNoConversionData
  <2> SUFFICES ASSUME CInv, stored # Absent, ReadAs("v1alpha4").annotation # Nil PROVE byHand
    BY DEF HubHasNoConversionData
  <2>1. /\ kind \in Kinds /\ storedAs \in Versions /\ stored \in Objects(kind) /\ StoredOK
    BY DEF CInv, TypeOK
  <2>2. storedAs = "v1alpha4"
    BY <2>1, ReadParts DEF Versions
  <2>3. ReadAs("v1alpha4") = stored
    BY <2>1, <2>2, ReadParts
  <2> QED
    BY <2>1, <2>3 DEF StoredOK
<1> QED
  BY <1>1, ConversionInvariant, PTL

\* A v1alpha3 client may always write back what it has just read (ConvertTo,
\* ValidateUpdate of all kinds).
THEOREM ReadThenWriteAlwaysAccepted == Spec => []ReadThenWriteAccepted
<1>1. CInv => ReadThenWriteAccepted
  <2> SUFFICES ASSUME CInv, stored # Absent
               PROVE  Admitted("v1alpha3", ReadAs("v1alpha3"))
    BY DEF ReadThenWriteAccepted
  <2> DEFINE r == ReadAs("v1alpha3")
             h == Hub("v1alpha3", r).spec
  <2>1. /\ kind \in Kinds /\ storedAs \in Versions /\ stored \in Objects(kind) /\ StoredOK
        /\ "v1alpha3" \in Versions
    BY DEF CInv, TypeOK, Versions
  <2>2. r \in Objects(kind) /\ r.annotation # Garbage
    BY <2>1, ReadParts, ConversionAssumption, GarbageAssumption DEF StoredOK, Versions
  <2>3. h \in SpecType(kind) /\ h = Typed(kind, r.spec) /\ Typed(kind, h) = Typed(kind, r.spec)
    BY <2>1, <2>2, HubParts
  <2>4. Default(kind, h) = h
    BY <2>3 DEF Default
  <2>5. ValidateUpdate(kind, h, h)
    BY <2>1, Zenon DEF ValidateUpdate, ValidateUpdateDOCluster, ValidateUpdateDOMachine,
                ValidateUpdateDOMachineTemplate, Kinds
  <2>6. Admitted("v1alpha3", r) <=> /\ Readable("v1alpha3", r)
                                    /\ ValidateUpdate(kind, h, Default(kind, h))
    BY DEF Admitted
  <2> HIDE DEF h
  <2> QED
    BY <2>2, <2>4, <2>5, <2>6 DEF Readable, ConvertToFails
<1> QED
  BY <1>1, ConversionInvariant, PTL

\* No template ever names a droplet (ValidateCreate, ValidateUpdate).
THEOREM TemplatesNameNoDroplet == Spec => []TemplateNamesNoDroplet
<1>1. CInv => TemplateNamesNoDroplet
  BY DEF CInv, StoredOK, TemplateNamesNoDroplet
<1> QED
  BY <1>1, ConversionInvariant, PTL

-----------------------------------------------------------------------------
(* What may not change.                                                    *)

\* What is fixed in a spec survives encoding.
LEMMA FixedTyped ==
  ASSUME kind \in Kinds, NEW s \in SpecType(kind), NEW t \in SpecType(kind),
         Typed(kind, s) = Typed(kind, t)
  PROVE  /\ Fixed(s) = Fixed(t)
         /\ kind = "DOCluster" => s = t
<1>1. CASE kind = "DOCluster"
  BY <1>1, KindTyped
<1>2. CASE kind = "DOMachine"
  <2>1. TypedMachineSpec(s) = TypedMachineSpec(t)
    BY <1>2, KindTyped
  <2> QED
    BY <1>2, <2>1 DEF Fixed
<1>3. CASE kind = "DOMachineTemplate"
  BY <1>3 DEF Fixed
<1> QED
  BY <1>1, <1>2, <1>3 DEF Kinds

\* An update the webhook admits keeps what is fixed.
LEMMA FixedValidated ==
  ASSUME kind \in Kinds, NEW old \in SpecType(kind), NEW new \in SpecType(kind),
         ValidateUpdate(kind, old, new)
  PROVE  /\ Fixed(new) = Fixed(old)
         /\ kind = "DOCluster" /\ old.controlPlaneEndpoint # Nil =>
              new.controlPlaneEndpoint = old.controlPlaneEndpoint
<1>1. CASE kind = "DOCluster"
  BY <1>1 DEF Fixed, ValidateUpdate, ValidateUpdateDOCluster
<1>2. CASE kind = "DOMachine"
  BY <1>2 DEF Fixed, ValidateUpdate, ValidateUpdateDOMachine
<1>3. CASE kind = "DOMachineTemplate"
  BY <1>3 DEF Fixed, ValidateUpdate, ValidateUpdateDOMachineTemplate
<1> QED
  BY <1>1, <1>2, <1>3 DEF Kinds

\* What the webhooks of v1alpha4 protect cannot be changed through v1alpha3
\* either (ValidateUpdate of all kinds, ConvertTo, ConvertFrom).
THEOREM NothingFixedChanges == Spec => ImmutableInEveryVersion
<1>1. ASSUME CInv, Next, stored # Absent
      PROVE  /\ Fixed(stored'.spec) = Fixed(stored.spec)
             /\ kind = "DOCluster" /\ stored.spec.controlPlaneEndpoint # Nil =>
                  stored'.spec.controlPlaneEndpoint = stored.spec.controlPlaneEndpoint
  <2>1. /\ kind \in Kinds /\ storedAs \in Versions /\ stored \in Objects(kind)
        /\ stored.spec \in SpecType(kind) /\ "v1alpha4" \in Versions
    BY <1>1, ObjectParts DEF CInv, TypeOK, Versions
  <2>2. ASSUME NEW version \in Versions, NEW obj \in Objects(kind),
               Admitted(version, obj), Accept(version, obj)
        PROVE  /\ Fixed(stored'.spec) = Fixed(stored.spec)
               /\ kind = "DOCluster" /\ stored.spec.controlPlaneEndpoint # Nil =>
                    stored'.spec.controlPlaneEndpoint = stored.spec.controlPlaneEndpoint
    <3>1. stored' \in Objects(kind) /\ stored'.spec = Default(kind, Hub(version, obj).spec)
      BY <2>1, <2>2, AcceptParts
    <3>2. stored'.spec \in SpecType(kind)
      BY <2>1, <3>1, ObjectParts
    <3>3. PICK old \in SpecType(kind) :
            /\ Typed(kind, old) = Typed(kind, stored.spec)
            /\ ValidateUpdate(kind, old, stored'.spec)
      BY <1>1, <2>2, <3>1, AdmittedUpdate DEF CInv
    <3>4. Fixed(old) = Fixed(stored.spec) /\ (kind = "DOCluster" => old = stored.spec)
      BY <2>1, <3>3, FixedTyped
    <3> QED
      BY <2>1, <3>2, <3>3, <3>4, FixedValidated
  <2>3. CASE WriteStatus
    <3> DEFINE r == ReadAs("v1alpha4")
    <3>1. r \in Objects(kind) /\ Typed(kind, r.spec) = Typed(kind, stored.spec)
      BY <2>1, ReadParts
    <3>2. PICK st : stored' = [r EXCEPT !.status = st]
      BY <2>3, Zenon DEF WriteStatus
    <3> HIDE DEF r
    <3>3. stored'.spec = r.spec /\ r.spec \in SpecType(kind)
      BY <2>1, <3>1, <3>2, ObjectParts DEF Objects
    <3> QED
      BY <2>1, <3>1, <3>3, FixedTyped
  <2> QED
    BY <1>1, <2>2, <2>3, Steps
<1>2. CInv /\ [Next]_vars =>
        [stored # Absent =>
           /\ Fixed(stored'.spec) = Fixed(stored.spec)
           /\ kind = "DOCluster" /\ stored.spec.controlPlaneEndpoint # Nil =>
                stored'.spec.controlPlaneEndpoint = stored.spec.controlPlaneEndpoint]_vars
  BY <1>1
<1> QED
  BY <1>2, ConversionInvariant, PTL DEF Spec, ImmutableInEveryVersion

-----------------------------------------------------------------------------
(* Names and tags.                                                         *)

\* Two equal concatenations whose second parts begin with the same separator,
\* which occurs in neither of the first parts, have equal parts.
LEMMA SplitAtFirst ==
  ASSUME NEW c, NEW S, c \in S,
         NEW a \in Seq(S), NEW b \in Seq(S), NEW x \in Seq(S), NEW y \in Seq(S),
         Without(a, {c}), Without(x, {c}),
         a \o (<<c>> \o b) = x \o (<<c>> \o y)
  PROVE  a = x /\ b = y
<1> DEFINE l == a \o (<<c>> \o b)
           r == x \o (<<c>> \o y)
<1>1. Len(l) = Len(a) + 1 + Len(b) /\ Len(r) = Len(x) + 1 + Len(y)
  OBVIOUS
<1>2. /\ \A i \in 1..Len(a) : l[i] = a[i]
      /\ l[Len(a) + 1] = c
      /\ \A i \in 1..Len(b) : l[Len(a) + 1 + i] = b[i]
  OBVIOUS
<1>3. /\ \A i \in 1..Len(x) : r[i] = x[i]
      /\ r[Len(x) + 1] = c
      /\ \A i \in 1..Len(y) : r[Len(x) + 1 + i] = y[i]
  OBVIOUS
<1>4. l = r
  BY Zenon
<1>5. Len(a) = Len(x)
  <2>1. ASSUME Len(a) < Len(x) PROVE FALSE
    <3>1. Len(a) + 1 \in 1..Len(x)
      BY <2>1
    <3>2. x[Len(a) + 1] = c
      BY <1>2, <1>3, <1>4, <3>1, SMTT(30)
    <3> QED
      BY <3>1, <3>2 DEF Without
  <2>2. ASSUME Len(x) < Len(a) PROVE FALSE
    <3>1. Len(x) + 1 \in 1..Len(a)
      BY <2>2
    <3>2. a[Len(x) + 1] = c
      BY <1>2, <1>3, <1>4, <3>1
    <3> QED
      BY <3>1, <3>2 DEF Without
  <2> QED
    BY <2>1, <2>2
<1>6. Len(b) = Len(y)
  BY <1>1, <1>4, <1>5
<1>7. a = x
  <2>1. \A i \in 1..Len(a) : a[i] = x[i]
    BY <1>2, <1>3, <1>4, <1>5
  <2> QED
    BY <2>1, <1>5, SeqEqual
<1>8. b = y
  <2>1. \A i \in 1..Len(b) : b[i] = y[i]
    BY <1>2, <1>3, <1>4, <1>5, <1>6, Zenon
  <2> QED
    BY <2>1, <1>6, SeqEqual
<1> QED
  BY <1>7, <1>8

\* The part after a common prefix is determined.
LEMMA CancelPrefix ==
  ASSUME NEW S, NEW p \in Seq(S), NEW b \in Seq(S), NEW y \in Seq(S),
         p \o b = p \o y
  PROVE  b = y
<1> DEFINE l == p \o b
           r == p \o y
<1>1. l = r /\ Len(l) = Len(p) + Len(b) /\ Len(r) = Len(p) + Len(y)
  OBVIOUS
<1>2. Len(b) = Len(y)
  BY <1>1
<1>3. /\ \A i \in 1..Len(b) : l[Len(p) + i] = b[i]
      /\ \A i \in 1..Len(y) : r[Len(p) + i] = y[i]
  OBVIOUS
<1>4. \A i \in 1..Len(b) : b[i] = y[i]
  BY <1>1, <1>2, <1>3
<1> QED
  BY <1>2, <1>4, SeqEqual

-----------------------------------------------------------------------------
(* Volume names.                                                           *)

\* DOSafeName changes characters, never their number.
LEMMA SafeNameType ==
  ASSUME NEW n \in Name
  PROVE  /\ DOSafeName(n) \in Name
         /\ Len(DOSafeName(n)) = Len(n)
         /\ \A i \in 1..Len(n) : DOSafeName(n)[i] = SafeChar(n[i])
         /\ Without(DOSafeName(n), {".", "/"})
BY NamesAssumption DEF DOSafeName, SafeChar, Name, Without

\* A name that is safe already stays as it is: CreateDroplet hands a safe
\* name to NameTagFromName, which makes it safe once more.
THEOREM SafeNameIdempotent ==
  ASSUME NEW n \in Name
  PROVE  DOSafeName(DOSafeName(n)) = DOSafeName(n)
<1>1. \A i \in 1..Len(n) : SafeChar(SafeChar(n[i])) = SafeChar(n[i])
  BY DEF SafeChar
<1> QED
  BY <1>1, SafeNameType DEF DOSafeName

\* The characters of the name of a volume.
LEMMA DiskNameParts ==
  ASSUME NEW m \in Name, NEW s \in Name
  PROVE  /\ Len(DataDiskName(m, s)) = Len(m) + 1 + Len(s)
         /\ \A i \in 1..Len(m) : DataDiskName(m, s)[i] = DOSafeName(m)[i]
         /\ DataDiskName(m, s)[Len(m) + 1] = "-"
         /\ \A i \in 1..Len(s) : DataDiskName(m, s)[Len(m) + 1 + i] = SafeChar(s[i])
<1> DEFINE j == m \o (<<"-">> \o s)
<1>1. j \in Name /\ Len(j) = Len(m) + 1 + Len(s)
  BY NamesAssumption DEF Name
<1>2. /\ \A i \in 1..Len(m) : j[i] = m[i]
      /\ j[Len(m) + 1] = "-"
      /\ \A i \in 1..Len(s) : j[Len(m) + 1 + i] = s[i]
  BY SMTT(30) DEF Name
<1>3. SafeChar("-") = "-"
  BY DEF SafeChar
<1>4. Len(m) \in Nat /\ Len(s) \in Nat
  BY DEF Name
<1>5. DataDiskName(m, s) = DOSafeName(j)
  BY DEF DataDiskName
<1> HIDE DEF j
<1>6. /\ Len(DOSafeName(j)) = Len(j)
      /\ \A i \in 1..Len(j) : DOSafeName(j)[i] = SafeChar(j[i])
  BY <1>1, SafeNameType
<1>7. \A i \in 1..Len(m) : DOSafeName(m)[i] = SafeChar(m[i])
  BY SafeNameType
<1> QED
  BY <1>1, <1>2, <1>3, <1>4, <1>5, <1>6, <1>7

\* Where the suffix of the one name begins, the other has no dash.
LEMMA NameNotShorter ==
  ASSUME NEW m1 \in Name, NEW m2 \in Name, NEW s1 \in Name, NEW s2 \in Name,
         Without(s1, {".", "/", "-"}),
         DataDiskName(m1, s1) = DataDiskName(m2, s2)
  PROVE  Len(m2) <= Len(m1)
<1> DEFINE i == Len(m2) - Len(m1)
<1>1. Len(m1) \in Nat /\ Len(m2) \in Nat /\ Len(s1) \in Nat /\ Len(s2) \in Nat
  BY DEF Name
<1>2. SUFFICES ASSUME Len(m1) < Len(m2) PROVE FALSE
  BY <1>1
<1>3. /\ Len(DataDiskName(m1, s1)) = Len(m1) + 1 + Len(s1)
      /\ Len(DataDiskName(m2, s2)) = Len(m2) + 1 + Len(s2)
  BY DiskNameParts
<1>4. i \in 1..Len(s1)
  BY <1>1, <1>2, <1>3
<1>5. DataDiskName(m1, s1)[Len(m1) + 1 + i] = SafeChar(s1[i])
  BY <1>4, DiskNameParts, Zenon
<1>6. DataDiskName(m2, s2)[Len(m2) + 1] = "-"
  BY DiskNameParts, SMTT(30)
<1>7. SafeChar(s1[i]) # "-"
  BY <1>4 DEF Without, SafeChar
<1>8. Len(m1) + 1 + i = Len(m2) + 1
  BY <1>1
<1> QED
  BY <1>5, <1>6, <1>7, <1>8

\* The name of a volume determines the machine and the disk it belongs to,
\* up to the characters that DOSafeName does not tell apart, if suffixes are
\* free of them and of dashes (DataDiskName).
THEOREM DiskNamesAlwaysApart == DiskNamesApart(Name, Name)
<1> SUFFICES ASSUME NEW m1 \in Name, NEW m2 \in Name, NEW s1 \in Name, NEW s2 \in Name,
                    Without(s1, {".", "/", "-"}), Without(s2, {".", "/", "-"}),
                    DataDiskName(m1, s1) = DataDiskName(m2, s2)
             PROVE  DOSafeName(m1) = DOSafeName(m2) /\ s1 = s2
  BY DEF DiskNamesApart
<1> DEFINE d == DataDiskName(m1, s1)
<1>1. Len(m1) \in Nat /\ Len(m2) \in Nat /\ Len(s1) \in Nat /\ Len(s2) \in Nat
  BY DEF Name
<1>2. /\ Len(d) = Len(m1) + 1 + Len(s1)
      /\ \A i \in 1..Len(m1) : d[i] = DOSafeName(m1)[i]
      /\ \A i \in 1..Len(s1) : d[Len(m1) + 1 + i] = SafeChar(s1[i])
  BY DiskNameParts, SMTT(30)
<1>3. /\ Len(d) = Len(m2) + 1 + Len(s2)
      /\ \A i \in 1..Len(m2) : d[i] = DOSafeName(m2)[i]
      /\ \A i \in 1..Len(s2) : d[Len(m2) + 1 + i] = SafeChar(s2[i])
  <2>1. d = DataDiskName(m2, s2)
    OBVIOUS
  <2> HIDE DEF d
  <2> QED
    BY <2>1, DiskNameParts, Zenon
<1>4. Len(m1) = Len(m2)
  <2>1. Len(m2) <= Len(m1)
    BY NameNotShorter
  <2>2. Len(m1) <= Len(m2)
    BY NameNotShorter
  <2> QED
    BY <1>1, <2>1, <2>2
<1> HIDE DEF d
<1>5. Len(s1) = Len(s2)
  BY <1>1, <1>2, <1>3, <1>4
<1>6. DOSafeName(m1) = DOSafeName(m2)
  <2>1. \A i \in 1..Len(m1) : DOSafeName(m1)[i] = DOSafeName(m2)[i]
    BY <1>2, <1>3, <1>4
  <2>2. /\ DOSafeName(m1) \in Seq(Chars) /\ DOSafeName(m2) \in Seq(Chars)
        /\ Len(DOSafeName(m1)) = Len(m1) /\ Len(DOSafeName(m2)) = Len(m1)
    BY SafeNameType, <1>4 DEF Name
  <2> QED
    BY <2>1, <2>2, SeqEqual
<1>7. s1 = s2
  <2>1. \A i \in 1..Len(s1) : SafeChar(s1[i]) = SafeChar(s2[i])
    BY <1>2, <1>3, <1>4, <1>5
  <2>2. \A i \in 1..Len(s1) : s1[i] = s2[i]
    BY <2>1, <1>5 DEF Without, SafeChar
  <2> QED
    BY <2>2, <1>5, SeqEqual DEF Name
<1> QED
  BY <1>6, <1>7

-----------------------------------------------------------------------------
(* Tags.                                                                   *)

\* A concatenation contains its separator.
LEMMA HasSeparator ==
  ASSUME NEW c, NEW S, c \in S, NEW a \in Seq(S), NEW b \in Seq(S)
  PROVE  ~Without(a \o (<<c>> \o b), {c})
<1> DEFINE l == a \o (<<c>> \o b)
<1>1. Len(a) + 1 \in 1..Len(l) /\ l[Len(a) + 1] = c
  OBVIOUS
<1> QED
  BY <1>1 DEF Without

\* Tags of clusters are equal only if what follows the prefix is.
LEMMA ClusterTagsEqual ==
  ASSUME NEW x \in Name, NEW y \in Name, ClusterNameTag(x) = ClusterNameTag(y)
  PROVE  x = y
<1> DEFINE p == NameDigitalOceanProviderPrefix
<1>1. /\ p \in Seq(Chars) /\ ":" \in Chars
      /\ <<":">> \in Seq(Chars) /\ x \in Seq(Chars) /\ y \in Seq(Chars)
  BY NamesAssumption DEF Name
<1>2. <<":">> \o x \in Seq(Chars) /\ <<":">> \o y \in Seq(Chars)
  BY <1>1
<1>3. p \o (<<":">> \o x) = p \o (<<":">> \o y)
  BY DEF ClusterNameTag
<1> HIDE DEF p
<1>4. <<":">> \o x = <<":">> \o y
  BY <1>1, <1>2, <1>3, CancelPrefix, Zenon
<1> QED
  BY <1>1, <1>4, CancelPrefix, Zenon

\* Names are joined by a colon to a name.
LEMMA JoinType ==
  ASSUME NEW a \in Seq(Chars), NEW b \in Seq(Chars)
  PROVE  a \o (<<":">> \o b) \in Seq(Chars)
BY NamesAssumption

\* Two names that are joined by a colon can be told apart again.
LEMMA SplitAtColon ==
  ASSUME NEW a \in Seq(Chars), NEW b \in Seq(Chars),
         NEW x \in Seq(Chars), NEW y \in Seq(Chars),
         Without(a, {":"}), Without(x, {":"}),
         a \o (<<":">> \o b) = x \o (<<":">> \o y)
  PROVE  a = x /\ b = y
BY NamesAssumption, SplitAtFirst, Zenon

\* A safe name has a colon only if the name has one.
LEMMA SafeNameNoColon ==
  ASSUME NEW n \in Name, Without(n, {":"})
  PROVE  Without(DOSafeName(n), {":"})
BY SafeNameType DEF Without, SafeChar

\* The tag of a cluster, its UID and a role equals no shorter tag of a
\* cluster, and is equal only to itself among those of its kind.
LEMMA RoleTagsApart ==
  ASSUME NEW a1 \in Seq(Chars), NEW a2 \in Seq(Chars),
         NEW u1 \in Seq(Chars), NEW u2 \in Seq(Chars),
         NEW r1 \in Seq(Chars), NEW r2 \in Seq(Chars),
         Without(a1, {":"}), Without(a2, {":"}), Without(u1, {":"}),
         Without(u2, {":"}), Without(r2, {":"})
  PROVE  /\ ClusterNameUIDRoleTag(a1, u1, r1) # ClusterNameTag(a2)
         /\ ClusterNameUIDRoleTag(a1, u1, r1) # ClusterNameRoleTag(a2, r2)
         /\ ClusterNameUIDRoleTag(a1, u1, r1) = ClusterNameUIDRoleTag(a2, u2, r2)
              => a1 = a2 /\ u1 = u2 /\ r1 = r2
<1>1. ":" \in Chars
  BY NamesAssumption
<1>2. PICK v1 \in Seq(Chars) : v1 = u1 \o (<<":">> \o r1)
  BY JoinType, Zenon
<1>3. PICK v2 \in Seq(Chars) : v2 = u2 \o (<<":">> \o r2)
  BY JoinType, Zenon
<1>4. PICK w1 \in Name : w1 = a1 \o (<<":">> \o v1)
  BY JoinType, Zenon DEF Name
<1>5. PICK w2 \in Name : w2 = a2 \o (<<":">> \o v2)
  BY JoinType, Zenon DEF Name
<1>6. PICK w3 \in Name : w3 = a2 \o (<<":">> \o r2)
  BY JoinType, Zenon DEF Name
<1>7. /\ ClusterNameUIDRoleTag(a1, u1, r1) = ClusterNameTag(w1)
      /\ ClusterNameUIDRoleTag(a2, u2, r2) = ClusterNameTag(w2)
      /\ ClusterNameRoleTag(a2, r2) = ClusterNameTag(w3)
  BY <1>2, <1>3, <1>4, <1>5, <1>6 DEF ClusterNameUIDRoleTag, ClusterNameRoleTag
<1>8. w1 # a2
  BY <1>1, <1>4, HasSeparator, Zenon
<1>a. \A x, y \in Seq(Chars) :
        Without(x, {":"}) /\ a1 \o (<<":">> \o v1) = x \o (<<":">> \o y) => a1 = x /\ v1 = y
  BY SplitAtColon, ZenonT(60)
<1>b. \A x, y \in Seq(Chars) :
        Without(x, {":"}) /\ u1 \o (<<":">> \o r1) = x \o (<<":">> \o y) => u1 = x /\ r1 = y
  BY SplitAtColon, ZenonT(60)
<1>9. w1 # w3
  <2>1. SUFFICES ASSUME w1 = w3 PROVE FALSE
    OBVIOUS
  <2>2. a1 \o (<<":">> \o v1) = a2 \o (<<":">> \o r2)
    BY <1>4, <1>6, <2>1, Zenon
  <2>3. v1 = r2
    BY <2>2, <1>a, ZenonT(60)
  <2> QED
    BY <1>1, <1>2, <2>3, HasSeparator, Zenon
<1>10. ASSUME w1 = w2 PROVE a1 = a2 /\ u1 = u2 /\ r1 = r2
  <2>1. a1 \o (<<":">> \o v1) = a2 \o (<<":">> \o v2)
    BY <1>4, <1>5, <1>10, Zenon
  <2>2. a1 = a2 /\ v1 = v2
    BY <2>1, <1>a, ZenonT(60)
  <2>3. u1 \o (<<":">> \o r1) = u2 \o (<<":">> \o r2)
    BY <1>2, <1>3, <2>2, Zenon
  <2>4. u1 = u2 /\ r1 = r2
    BY <2>3, <1>b, ZenonT(60)
  <2> QED
    BY <2>2, <2>4
<1> QED
  BY <1>7, <1>8, <1>9, <1>10, ClusterTagsEqual DEF Name

\* The tag of the name of a droplet is no tag of a cluster.
LEMMA NameTagApart ==
  ASSUME NEW n \in Name, NEW w \in Name
  PROVE  NameTagFromName(n) # ClusterNameTag(w)
<1> DEFINE p == NameDigitalOceanProviderPrefix
           rest == <<":">> \o w
           safe == DOSafeName(n)
<1>1. p \in Seq(Chars) /\ p # <<>> /\ p[1] # "n" /\ rest \in Seq(Chars)
  BY NamesAssumption DEF Name
<1>2. safe \in Seq(Chars)
  BY SafeNameType DEF Name
<1>3. /\ NameTagFromName(n) = <<"n", "a", "m", "e", ":">> \o safe
      /\ ClusterNameTag(w) = p \o rest
  BY DEF NameTagFromName, ClusterNameTag
<1> HIDE DEF p, rest, safe
<1>4. (p \o rest)[1] = p[1]
  BY <1>1
<1>5. (<<"n", "a", "m", "e", ":">> \o safe)[1] = "n"
  BY <1>2
<1> QED
  BY <1>1, <1>3, <1>4, <1>5

\* The droplets that carry the tag of a cluster's load balancer are the
\* control plane droplets of that cluster, for all names without colons and
\* without additional tags (CreateLoadBalancer, CreateDroplet, BuildTags).
THEOREM BackendsAlwaysControlPlane == BackendsAreControlPlane(Name, Name, Name)
<1> SUFFICES ASSUME NEW c1 \in Name, NEW c2 \in Name, NEW u1 \in Name, NEW u2 \in Name,
                    NEW m \in Name, NEW controlPlane \in BOOLEAN,
                    Without(c1, {":"}), Without(c2, {":"}),
                    Without(u1, {":"}), Without(u2, {":"})
             PROVE  Selects(BackendTag(c1, u1), DropletTags(c2, u2, m, controlPlane, <<>>))
                      <=> DOSafeName(c1) = DOSafeName(c2) /\ u1 = u2 /\ controlPlane
  BY DEF BackendsAreControlPlane
<1>1. PICK a1 \in Name : a1 = DOSafeName(c1) /\ Without(a1, {":"})
  BY SafeNameType, SafeNameNoColon
<1>2. PICK a2 \in Name : a2 = DOSafeName(c2) /\ Without(a2, {":"})
  BY SafeNameType, SafeNameNoColon
<1>3. PICK r2 \in Name : /\ r2 = Role(controlPlane) /\ Without(r2, {":"})
                         /\ APIServerRoleTagValue = r2 <=> controlPlane
  BY NamesAssumption DEF Role
<1>4. PICK n \in Name : n = DOSafeName(m)
  BY SafeNameType
<1> DEFINE r1 == APIServerRoleTagValue
           tag == ClusterNameUIDRoleTag(a1, u1, r1)
           t1 == ClusterNameTag(a2)
           t2 == ClusterNameRoleTag(a2, r2)
           t3 == ClusterNameUIDRoleTag(a2, u2, r2)
           t4 == NameTagFromName(n)
<1>5. Selects(BackendTag(c1, u1), DropletTags(c2, u2, m, controlPlane, <<>>))
        <=> tag \in {t1, t2, t3, t4}
  <2>1. DropletTags(c2, u2, m, controlPlane, <<>>) = <<t1, t2, t3, t4>>
    BY <1>2, <1>3, <1>4 DEF DropletTags, BuildTags
  <2>2. BackendTag(c1, u1) = tag
    BY <1>1 DEF BackendTag
  <2> HIDE DEF tag, t1, t2, t3, t4
  <2> QED
    BY <2>1, <2>2 DEF Selects
<1>6. tag # t1 /\ tag # t2 /\ (tag = t3 => a1 = a2 /\ u1 = u2 /\ r1 = r2)
  <2>1. /\ a1 \in Seq(Chars) /\ a2 \in Seq(Chars) /\ u1 \in Seq(Chars)
        /\ u2 \in Seq(Chars) /\ r1 \in Seq(Chars) /\ r2 \in Seq(Chars)
    BY NamesAssumption DEF Name
  <2>2. /\ Without(a1, {":"}) /\ Without(a2, {":"}) /\ Without(r2, {":"})
    BY <1>1, <1>2, <1>3
  <2> HIDE DEF r1
  <2> QED
    BY <2>1, <2>2, RoleTagsApart, SMTT(30)
<1>7. tag # t4
  <2>1. PICK w \in Name : w = a1 \o (<<":">> \o (u1 \o (<<":">> \o r1)))
    BY JoinType, NamesAssumption, Zenon DEF Name
  <2>2. tag = ClusterNameTag(w)
    BY <2>1 DEF ClusterNameUIDRoleTag
  <2> QED
    BY <2>2, NameTagApart
<1>8. a1 = a2 /\ u1 = u2 /\ r1 = r2 => tag = t3
  OBVIOUS
<1>9. r1 = r2 <=> controlPlane
  BY <1>3
<1> HIDE DEF tag, t1, t2, t3, t4, r1
<1>10. tag \in {t1, t2, t3, t4} <=> a1 = a2 /\ u1 = u2 /\ controlPlane
  BY <1>6, <1>7, <1>8, <1>9
<1> QED
  BY <1>1, <1>2, <1>5, <1>10

-----------------------------------------------------------------------------
(* The instance.                                                           *)

\* The names of the instance are names.
LEMMA InstanceNames ==
  ASSUME NEW n \in Nat
  PROVE  NamesUpTo(n) \subseteq Name
<1> SUFFICES ASSUME NEW name \in NamesUpTo(n) PROVE name \in Seq(Chars)
  BY DEF Name
<1>1. PICK k \in 0..n : name \in [1..k -> {"a", "-", ".", ":"}]
  BY DEF NamesUpTo
<1>2. k \in Nat /\ \A i \in 1..k : name[i] \in Chars
  BY <1>1, NamesAssumption
<1>3. name = [i \in 1..k |-> name[i]]
  BY <1>1
<1>4. [i \in 1..k |-> name[i]] \in Seq(Chars)
  BY <1>2
<1> QED
  BY <1>3, <1>4, Zenon

\* The volume names of the instance are apart (DataDiskName).
THEOREM InstanceVolumeNamesApart == Spec => []VolumeNamesApart
<1>1. NamesUpTo(2) \subseteq Name /\ NamesUpTo(3) \subseteq Name
  BY InstanceNames
<1>2. DiskNamesApart(NamesUpTo(2), NamesUpTo(3))
  <2> DEFINE few == {s \in NamesUpTo(3) : Without(s, {".", "/", "-"})}
             all == {s \in Name : Without(s, {".", "/", "-"})}
  <2>1. few \subseteq all
    BY <1>1
  <2>2. \A m1, m2 \in Name : \A s1, s2 \in all :
          DataDiskName(m1, s1) = DataDiskName(m2, s2) => DOSafeName(m1) = DOSafeName(m2) /\ s1 = s2
    BY DiskNamesAlwaysApart DEF DiskNamesApart
  <2> HIDE DEF few, all
  <2>3. \A m1, m2 \in NamesUpTo(2) : \A s1, s2 \in few :
          DataDiskName(m1, s1) = DataDiskName(m2, s2) => DOSafeName(m1) = DOSafeName(m2) /\ s1 = s2
    <3> TAKE m1, m2 \in NamesUpTo(2)
    <3> TAKE s1, s2 \in few
    <3>1. m1 \in Name /\ m2 \in Name /\ s1 \in all /\ s2 \in all
      BY <1>1, <2>1, Zenon
    <3> QED
      BY <2>2, <3>1
  <2> QED
    BY <2>3 DEF DiskNamesApart, few
<1>3. VolumeNamesApart
  BY <1>2 DEF VolumeNamesApart
<1> QED
  BY <1>3, PTL

\* The backend tags of the instance are apart (BuildTags, CreateLoadBalancer).
THEOREM InstanceBackendTagsApart == Spec => []BackendTagsApart
<1>1. NamesUpTo(2) \subseteq Name /\ NamesUpTo(1) \subseteq Name
  BY InstanceNames
<1>2. BackendsAreControlPlane(NamesUpTo(2), NamesUpTo(1), NamesUpTo(1))
  BY <1>1, BackendsAlwaysControlPlane, ZenonT(60) DEF BackendsAreControlPlane
<1>3. BackendTagsApart
  BY <1>2 DEF BackendTagsApart
<1> QED
  BY <1>3, PTL
=============================================================================
