------------------------ MODULE DNSPropagationProofs ------------------------
(***************************************************************************)
(* Proof that a positive verdict on the present record is true, for any    *)
(* number of servers, addresses and lookups by others.  The invariant needs *)
(* to know that nobody is ahead of the record: then a record that moves    *)
(* leaves every verdict, every check under way and every zone behind.      *)
(***************************************************************************)
EXTENDS DNSPropagation, TLAPS

NobodyAhead ==
  /\ ip <= record /\ checked <= record
  /\ \A s \in Servers : zone[s] <= record

PInv == TypeOK /\ NobodyAhead /\ PropagatedMeansServed

\* A check that ends keeps the types of its variables.
LEMMA EndCheckTypes ==
  ASSUME TypeOK, NobodyAhead, NEW v \in Verdicts, EndCheck(v)
  PROVE  /\ pc' = "idle" /\ next' \in 1..Len(Local) /\ ip' = 0
         /\ verdict' = v /\ checked' = ip
BY DNSAssumption DEF EndCheck, NoAddress

\* The part of a check that talks to the servers of resolv.conf ends it with
\* an error or leaves the verdict alone.
LEMMA LocalQueryFacts ==
  ASSUME TypeOK, NobodyAhead, LocalQuery
  PROVE  /\ UNCHANGED <<record, zone, health>> /\ negative' \in [Locals -> BOOLEAN]
         /\ pc' \in {"idle", "local", "authority"} /\ next' \in 1..Len(Local)
         /\ \/ ip' = 0 /\ verdict' = "error" /\ checked' = ip
            \/ UNCHANGED <<ip, verdict, checked>>
<1>1. /\ Len(Local) \in Nat \ {0} /\ next \in 1..Len(Local)
      /\ negative \in [Locals -> BOOLEAN] /\ pc \in {"idle", "local", "authority"}
  BY DNSAssumption DEF TypeOK
<1>2. ASSUME EndCheck("error")
      PROVE  /\ pc' = "idle" /\ next' \in 1..Len(Local) /\ ip' = 0
             /\ verdict' = "error" /\ checked' = ip
  BY <1>2, EndCheckTypes DEF Verdicts
<1>3. ASSUME NextServer
      PROVE  /\ pc' \in {"idle", "local", "authority"} /\ next' \in 1..Len(Local)
             /\ \/ ip' = 0 /\ verdict' = "error" /\ checked' = ip
                \/ UNCHANGED <<ip, verdict, checked>>
  BY <1>1, <1>2, <1>3 DEF NextServer
<1>4. ASSUME HaveAuthority
      PROVE  pc' = "authority" /\ next' \in 1..Len(Local) /\ UNCHANGED <<ip, verdict, checked>>
  BY <1>1, <1>4 DEF HaveAuthority
<1>5. ASSUME NEW l \in Locals, Recurse(l)
      PROVE  /\ negative' \in [Locals -> BOOLEAN]
             /\ NextServer \/ HaveAuthority
  BY <1>1, <1>5, Zenon DEF Recurse, NameError
<1>6. Local[next] \in Locals
  BY <1>1 DEF Locals
<1>7. /\ UNCHANGED <<record, zone, health>> /\ negative' \in [Locals -> BOOLEAN]
      /\ NextServer \/ HaveAuthority \/ EndCheck("error")
  BY <1>1, <1>5, <1>6 DEF LocalQuery
<1> QED
  BY <1>2, <1>3, <1>4, <1>7

\* No record, no zone has it, no check was made.
LEMMA InitPInv == Init => PInv
<1> SUFFICES ASSUME Init PROVE PInv
  OBVIOUS
<1>1. TypeOK
  BY DNSAssumption DEF Init, TypeOK, NoAddress, Health, Verdicts
<1> QED
  BY <1>1 DEF Init, PInv, NobodyAhead, PropagatedMeansServed, NoAddress

\* Every step keeps the invariant.
LEMMA NextPInv == PInv /\ [Next]_vars => PInv'
<1> SUFFICES ASSUME PInv, [Next]_vars PROVE PInv'
  OBVIOUS
<1>1. /\ TypeOK /\ NobodyAhead /\ PropagatedMeansServed
      /\ MaxAddresses \in Nat /\ Len(Local) \in Nat \ {0} /\ Primary \in Servers
  BY DNSAssumption DEF PInv
<1>2. CASE Upsert
  <2>1. TypeOK'
    BY <1>1, <1>2 DEF Upsert, TypeOK
  <2>2. NobodyAhead' /\ checked' < record'
    BY <1>1, <1>2 DEF Upsert, TypeOK, NobodyAhead
  <2> QED
    BY <1>1, <2>1, <2>2 DEF PInv, PropagatedMeansServed, TypeOK
<1>3. ASSUME NEW s \in Servers, ZoneProgress(s) PROVE PInv'
  <2>1. TypeOK'
    BY <1>1, <1>3 DEF ZoneProgress, TypeOK
  <2>2. NobodyAhead'
    BY <1>1, <1>3 DEF ZoneProgress, TypeOK, NobodyAhead
  <2>3. PropagatedMeansServed'
    BY <1>1, <1>3 DEF ZoneProgress, TypeOK, PropagatedMeansServed
  <2> QED
    BY <2>1, <2>2, <2>3 DEF PInv
<1>4. ASSUME NEW l \in Locals, CacheExpires(l) \/ OthersAsk(l) PROVE PInv'
  <2>1. /\ negative' \in [Locals -> BOOLEAN]
        /\ UNCHANGED <<record, zone, health, pc, next, ip, verdict, checked>>
    BY <1>1, <1>4, Zenon DEF CacheExpires, OthersAsk, TypeOK
  <2> QED
    BY <1>1, <2>1 DEF PInv, TypeOK, NobodyAhead, PropagatedMeansServed
<1>5. ASSUME NEW s \in Servers \union Locals, HealthChanges(s) PROVE PInv'
  <2>1. /\ health' \in [Servers \union Locals -> Health]
        /\ UNCHANGED <<record, zone, negative, pc, next, ip, verdict, checked>>
    BY <1>1, <1>5 DEF HealthChanges, TypeOK
  <2> QED
    BY <1>1, <2>1 DEF PInv, TypeOK, NobodyAhead, PropagatedMeansServed
<1>6. CASE StartCheck
  BY <1>1, <1>6 DEF StartCheck, world, PInv, TypeOK, NobodyAhead, PropagatedMeansServed
<1>7. CASE LocalQuery
  <2>1. /\ UNCHANGED <<record, zone, health>> /\ negative' \in [Locals -> BOOLEAN]
        /\ pc' \in {"idle", "local", "authority"} /\ next' \in 1..Len(Local)
        /\ \/ ip' = 0 /\ verdict' = "error" /\ checked' = ip
           \/ UNCHANGED <<ip, verdict, checked>>
    BY <1>1, <1>7, LocalQueryFacts
  <2>2. TypeOK'
    BY <1>1, <2>1 DEF TypeOK, Verdicts
  <2> QED
    BY <1>1, <2>1, <2>2 DEF PInv, TypeOK, NobodyAhead, PropagatedMeansServed
<1>8. CASE Query
  <2>1. PICK v \in Verdicts : EndCheck(v) /\ (v = "propagated" => zone[Primary] = ip)
    BY <1>8 DEF Query, AnswerHas, Verdicts
  <2>2. UNCHANGED <<record, zone, negative, health>>
    BY <1>8 DEF Query, world
  <2>3. /\ pc' = "idle" /\ next' \in 1..Len(Local) /\ ip' = 0
        /\ verdict' = v /\ checked' = ip
    BY <1>1, <2>1, EndCheckTypes
  <2>4. TypeOK'
    BY <1>1, <2>2, <2>3 DEF TypeOK
  <2> QED
    BY <1>1, <2>1, <2>2, <2>3, <2>4 DEF PInv, TypeOK, NobodyAhead, PropagatedMeansServed
<1>9. CASE UNCHANGED vars
  BY <1>1, <1>9 DEF vars, PInv, TypeOK, NobodyAhead, PropagatedMeansServed
<1> QED
  BY <1>2, <1>3, <1>4, <1>5, <1>6, <1>7, <1>8, <1>9 DEF Next, Check

\* Nobody is ahead of the record.
THEOREM DNSInvariant == Spec => []PInv
  BY InitPInv, NextPInv, PTL DEF Spec

\* Types: in particular the resolver never runs past the last server of
\* resolv.conf ((*resolver).Query).
THEOREM DNSTypes == Spec => []TypeOK
<1>1. PInv => TypeOK
  BY DEF PInv
<1> QED
  BY <1>1, DNSInvariant, PTL

\* A positive verdict on the present record is true, also when the record
\* moved while the check was under way (CheckDNSPropagated).
THEOREM PositiveVerdictsAreTrue == Spec => []PropagatedMeansServed
<1>1. PInv => PropagatedMeansServed
  BY DEF PInv
<1> QED
  BY <1>1, DNSInvariant, PTL
=============================================================================
