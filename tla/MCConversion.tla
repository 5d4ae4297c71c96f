---------------------------- MODULE MCConversion ----------------------------
(* The instance of Conversion and of Names for TLC. *)
EXTENDS Conversion, Names

Prefix == <<"s", ":", "c">>
APIServer == <<"a">>
Node == <<"n">>

NamesUpTo(n) == UNION {[1..k -> {"a", "-", ".", ":"}] : k \in 0..n}

\* Names do not depend on the state, so one state is enough: there is no
\* DOMachine yet.
NoMachineYet == kind = "DOMachine" /\ stored = Absent

\* DiskNamesApart for names of up to three characters (DataDiskName).
VolumeNamesApart ==
  NoMachineYet => DiskNamesApart(NamesUpTo(2), NamesUpTo(3))

\* BackendsAreControlPlane for names of up to two characters (BuildTags,
\* CreateLoadBalancer).
BackendTagsApart ==
  NoMachineYet => BackendsAreControlPlane(NamesUpTo(2), NamesUpTo(1), NamesUpTo(1))
=============================================================================
