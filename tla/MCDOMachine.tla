----------------------------- MODULE MCDOMachine -----------------------------
(* Instances of DOMachine for TLC. *)
EXTENDS DOMachine

TwoDisks == <<"m-data", "m-logs">>
NoDisk == <<>>
AllMishaps == MishapKinds
=============================================================================
