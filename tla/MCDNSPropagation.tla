-------------------------- MODULE MCDNSPropagation --------------------------
(* Instances of DNSPropagation for TLC. *)
EXTENDS DNSPropagation

TwoLocal == <<"l1", "l2">>
OneLocal == <<"l1">>
=============================================================================
