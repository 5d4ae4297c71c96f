-------------------------------- MODULE Names --------------------------------
(***************************************************************************)
(* Names and tags of DigitalOcean resources (api/v1alpha4/types.go and     *)
(* tags.go).  Nothing but its name ties a volume to its machine, and       *)
(* nothing but a tag makes a droplet a backend of a load balancer, so what *)
(* matters is when two names or two tags are equal.  They are sequences of *)
(* characters here; everywhere else in these modules they are values.      *)
(***************************************************************************)
EXTENDS Integers, Sequences

CONSTANTS
  Chars,                            \* the characters of names
  NameDigitalOceanProviderPrefix,   \* "sigs-k8s-io:capdo"
  APIServerRoleTagValue,            \* "apiserver"
  NodeRoleTagValue                  \* "node"

Name == Seq(Chars)

\* No character of the name is one of these.
Without(name, chars) == \A i \in 1..Len(name) : name[i] \notin chars

\* What the proofs need to know of the constants in tags.go.
ASSUME NamesAssumption ==
  /\ {".", "/", "-", ":", "n", "a", "m", "e"} \subseteq Chars
  /\ NameDigitalOceanProviderPrefix \in Name
  /\ NameDigitalOceanProviderPrefix # <<>>
  /\ NameDigitalOceanProviderPrefix[1] # "n"
  /\ APIServerRoleTagValue \in Name /\ Without(APIServerRoleTagValue, {":"})
  /\ NodeRoleTagValue \in Name /\ Without(NodeRoleTagValue, {":"})
  /\ APIServerRoleTagValue # NodeRoleTagValue

-----------------------------------------------------------------------------
SafeChar(c) == IF c \in {".", "/"} THEN "-" ELSE c

DOSafeName(name) == [i \in 1..Len(name) |-> SafeChar(name[i])]

\* Mutant: machine name and suffix are joined without a dash.
DataDiskNameJoined(machine, suffix) == DOSafeName(machine \o suffix)

DataDiskName(machine, suffix) == DOSafeName(machine \o (<<"-">> \o suffix))

-----------------------------------------------------------------------------
ClusterNameTag(cluster) == NameDigitalOceanProviderPrefix \o (<<":">> \o cluster)

ClusterNameRoleTag(cluster, role) == ClusterNameTag(cluster \o (<<":">> \o role))

\* Mutant: the tag of the backends does not tell clusters of one name apart.
ClusterNameUIDRoleTagShort(cluster, uid, role) == ClusterNameRoleTag(cluster, role)

ClusterNameUIDRoleTag(cluster, uid, role) ==
  ClusterNameTag(cluster \o (<<":">> \o (uid \o (<<":">> \o role))))

NameTagFromName(name) == <<"n", "a", "m", "e", ":">> \o DOSafeName(name)

BuildTags(params) ==
  <<ClusterNameTag(params.clusterName),
    ClusterNameRoleTag(params.clusterName, params.role),
    ClusterNameUIDRoleTag(params.clusterName, params.clusterUID, params.role),
    NameTagFromName(params.name)>> \o params.additional

\* (*MachineScope).Role
Role(controlPlane) == IF controlPlane THEN APIServerRoleTagValue ELSE NodeRoleTagValue

\* The tags of a droplet (CreateDroplet).
DropletTags(cluster, uid, machine, controlPlane, additional) ==
  BuildTags([clusterName |-> DOSafeName(cluster), clusterUID |-> uid,
             name |-> DOSafeName(machine), role |-> Role(controlPlane),
             additional |-> additional])

\* The tag whose droplets are the backends of a load balancer
\* (CreateLoadBalancer).
BackendTag(cluster, uid) ==
  ClusterNameUIDRoleTag(DOSafeName(cluster), uid, APIServerRoleTagValue)

\* The droplet is a backend of the load balancer that selects the tag.
Selects(tag, tags) == \E i \in 1..Len(tags) : tags[i] = tag

-----------------------------------------------------------------------------
\* Disks of two machines never get the same volume name as long as no suffix
\* contains a dash or a character that becomes one, unless the names of the
\* machines differ in nothing but such characters (DataDiskName).
DiskNamesApart(machines, suffixes) ==
  \A m1, m2 \in machines :
    \A s1, s2 \in {s \in suffixes : Without(s, {".", "/", "-"})} :
      DataDiskName(m1, s1) = DataDiskName(m2, s2) =>
        DOSafeName(m1) = DOSafeName(m2) /\ s1 = s2

\* Without additional tags, the backends of a cluster's load balancer are
\* exactly the control plane droplets of that cluster: neither its workers
\* nor the machines of another cluster of the same name, whatever the
\* machine is called (CreateLoadBalancer's Tag and CreateDroplet's Tags).
BackendsAreControlPlane(clusters, uids, machines) ==
  \A c1, c2 \in {c \in clusters : Without(c, {":"})},
     u1, u2 \in {u \in uids : Without(u, {":"})},
     m \in machines, controlPlane \in BOOLEAN :
    Selects(BackendTag(c1, u1), DropletTags(c2, u2, m, controlPlane, <<>>)) <=>
      DOSafeName(c1) = DOSafeName(c2) /\ u1 = u2 /\ controlPlane
=============================================================================
