------------------------- MODULE ManagedObjectProofs -------------------------
(***************************************************************************)
(* What the proofs about both controllers use of the API server, the cache *)
(* and the counting of mishaps.                                            *)
(***************************************************************************)
EXTENDS ManagedObject, TLAPS

\* The counters start at zero.
LEMMA NoMishapsYet == [k \in MishapKinds |-> 0] \in MishapCounts
BY MishapAssumption DEF MishapCounts

\* A mishap is counted once, and never beyond the bound.
LEMMA MishapCounted ==
  ASSUME mishaps \in MishapCounts, NEW kind, Mishap(kind)
  PROVE  mishaps' \in MishapCounts /\ MishapTotal' = MishapTotal + 1
<1>1. kind \in MishapKinds /\ MishapTotal < MaxMishaps
      /\ mishaps' = [mishaps EXCEPT ![kind] = @ + 1]
  BY MishapAssumption DEF Mishap
<1>2. /\ mishaps["crash"] \in Nat /\ mishaps["lostReply"] \in Nat
      /\ mishaps["patchError"] \in Nat /\ mishaps["staleRead"] \in Nat
      /\ mishaps["unprotectedDelete"] \in Nat /\ mishaps["external"] \in Nat
  BY MishapAssumption DEF MishapCounts, MishapKinds
<1>3. mishaps[kind] < MaxMishaps /\ mishaps[kind] \in Nat
  BY <1>1, <1>2, MishapAssumption DEF MishapTotal, MishapKinds
<1>4. mishaps' \in MishapCounts
  BY <1>1, <1>3, MishapAssumption DEF MishapCounts
<1>5. MishapTotal' = MishapTotal + 1
  BY <1>1, <1>2 DEF MishapTotal, MishapKinds, MishapCounts
<1> QED
  BY <1>4, <1>5

\* The counters stay counters, whether a mishap happens or not.
LEMMA MishapsKept ==
  ASSUME mishaps \in MishapCounts,
         NoMishap \/ \E kind \in MishapKinds : Mishap(kind)
  PROVE  mishaps' \in MishapCounts
BY MishapCounted DEF NoMishap

\* What happened has happened.
LEMMA HappenedStays ==
  ASSUME mishaps \in MishapCounts,
         NoMishap \/ \E k \in MishapKinds : Mishap(k)
  PROVE  \A kind \in MishapKinds : Happened(kind) => Happened(kind)'
BY DEF Happened, NoMishap, Mishap, MishapCounts

\* A mishap happens.
LEMMA MishapHappens ==
  ASSUME mishaps \in MishapCounts, NEW kind, Mishap(kind)
  PROVE  Happened(kind)'
BY MishapAssumption DEF Happened, Mishap, MishapCounts

\* There are never less than no mishaps.
LEMMA MishapTotalNat ==
  ASSUME mishaps \in MishapCounts
  PROVE  MishapTotal \in Nat
BY MishapAssumption DEF MishapCounts, MishapKinds, MishapTotal

-----------------------------------------------------------------------------
(* The copies of the object in the API server, in the cache and in between.*)

\* The object is a copy that is around.
Copy(o) ==
  o = store \/ o = cache \/ \E i \in 1..Len(watch) : o = watch[i]

\* The cache ends up with what the API server holds.
CacheFollows ==
  IF watch = <<>> THEN cache = store ELSE watch[Len(watch)] = store

\* A write adds one copy and none but that one.
LEMMA WriteCopies ==
  ASSUME NEW S, watch \in Seq(S), store \in S, NEW obj \in S, Write(obj), CacheFollows
  PROVE  /\ \A o : Copy(o)' => Copy(o) \/ o = obj
         /\ CacheFollows' /\ watch' \in Seq(S)
<1>1. store' = obj /\ cache' = cache
  BY DEF Write
<1>2. CASE obj = store
  <2>1. watch' = watch /\ store' = store
    BY <1>1, <1>2 DEF Write
  <2> QED
    BY <1>1, <2>1 DEF Copy, CacheFollows
<1>3. CASE obj # store
  <2>1. watch' = Append(watch, obj)
    BY <1>3 DEF Write
  <2>2. /\ Len(watch') = Len(watch) + 1 /\ Len(watch) \in Nat
        /\ watch' \in Seq(S) /\ watch' # <<>>
        /\ \A i \in 1..Len(watch) : watch'[i] = watch[i]
        /\ watch'[Len(watch')] = obj
    BY <2>1
  <2>3. \A i \in 1..Len(watch') : i \in 1..Len(watch) \/ i = Len(watch')
    BY <2>2
  <2>4. CacheFollows'
    BY <1>1, <2>2 DEF CacheFollows
  <2>5. \A o : Copy(o)' => Copy(o) \/ o = obj
    BY <1>1, <2>2, <2>3 DEF Copy
  <2> QED
    BY <2>2, <2>4, <2>5
<1> QED
  BY <1>2, <1>3

\* The delivery of an event adds none.
LEMMA DeliverCopies ==
  ASSUME NEW S, watch \in Seq(S), Deliver, CacheFollows
  PROVE  /\ \A o : Copy(o)' => Copy(o)
         /\ CacheFollows' /\ watch' \in Seq(S) /\ Copy(cache')
<1>1. /\ store' = store /\ watch # <<>> /\ cache' = watch[1] /\ watch' = Tail(watch)
      /\ Len(watch) \in Nat /\ Len(watch) > 0
  BY DEF Deliver
<1>2. /\ watch' \in Seq(S) /\ Len(watch') = Len(watch) - 1
      /\ \A i \in 1..Len(watch') : watch'[i] = watch[i + 1]
  BY <1>1
<1>3. /\ 1 \in 1..Len(watch) /\ \A i \in 1..Len(watch') : i + 1 \in 1..Len(watch)
  BY <1>1, <1>2
<1>4. \A o : Copy(o)' => Copy(o)
  BY <1>1, <1>2, <1>3 DEF Copy
<1>5. CacheFollows'
  <2>1. CASE watch' = <<>>
    <3>1. Len(watch) = 1
      BY <1>1, <1>2, <2>1
    <3> QED
      BY <1>1, <2>1, <3>1 DEF CacheFollows
  <2>2. CASE watch' # <<>>
    <3>1. Len(watch') \in 1..Len(watch') /\ Len(watch') + 1 = Len(watch)
      BY <1>1, <1>2, <2>2
    <3> QED
      BY <1>1, <1>2, <2>2, <3>1 DEF CacheFollows
  <2> QED
    BY <2>1, <2>2
<1>6. Copy(cache')
  BY <1>1, <1>3 DEF Copy
<1> QED
  BY <1>2, <1>4, <1>5, <1>6

\* Nor does a restart of the manager.
LEMMA RestartCopies ==
  ASSUME Restart
  PROVE  /\ \A o : Copy(o)' => Copy(o)
         /\ CacheFollows' /\ watch' = <<>>
BY DEF Restart, Copy, CacheFollows

\* A step that leaves the API server and the cache alone keeps the copies.
LEMMA StutterCopies ==
  ASSUME UNCHANGED api
  PROVE  /\ \A o : Copy(o)' => Copy(o)
         /\ CacheFollows => CacheFollows'
BY DEF api, Copy, CacheFollows

\* Deletion is never taken back on the way from the API server to the cache.
PhaseOrder ==
  /\ cache.phase # "live" => \A i \in 1..Len(watch) : watch[i].phase # "live"
  /\ \A i, j \in 1..Len(watch) :
       i <= j /\ watch[i].phase # "live" => watch[j].phase # "live"

\* A write that takes no deletion back keeps the order.
LEMMA WritePhases ==
  ASSUME NEW S, watch \in Seq(S), NEW obj \in S, Write(obj), PhaseOrder,
         \A o : Copy(o) /\ o.phase # "live" => obj.phase # "live"
  PROVE  PhaseOrder' /\ cache' = cache
<1>1. cache' = cache
  BY DEF Write
<1>2. CASE watch' = watch
  BY <1>1, <1>2 DEF PhaseOrder
<1>3. CASE watch' = Append(watch, obj)
  <2>1. /\ Len(watch') = Len(watch) + 1 /\ Len(watch) \in Nat
        /\ \A i \in 1..Len(watch) : watch'[i] = watch[i]
        /\ watch'[Len(watch) + 1] = obj
    BY <1>3
  <2>2. \A i \in 1..Len(watch') : i \in 1..Len(watch) \/ i = Len(watch) + 1
    BY <2>1
  <2>3. /\ cache.phase # "live" => obj.phase # "live"
        /\ \A i \in 1..Len(watch) : watch[i].phase # "live" => obj.phase # "live"
    BY DEF Copy
  <2>4. cache'.phase # "live" => \A i \in 1..Len(watch') : watch'[i].phase # "live"
    BY <1>1, <2>1, <2>2, <2>3 DEF PhaseOrder
  <2>5. ASSUME NEW i \in 1..Len(watch'), NEW j \in 1..Len(watch'),
               i <= j, watch'[i].phase # "live"
        PROVE  watch'[j].phase # "live"
    <3>1. CASE j = Len(watch) + 1
      BY <2>1, <2>2, <2>3, <2>5, <3>1
    <3>2. CASE j \in 1..Len(watch)
      BY <2>1, <2>2, <2>5, <3>2 DEF PhaseOrder
    <3> QED
      BY <2>2, <3>1, <3>2
  <2> QED
    BY <1>1, <2>4, <2>5 DEF PhaseOrder
<1> QED
  BY <1>1, <1>2, <1>3 DEF Write

\* So does a delivery, and the cache never goes back.
LEMMA DeliverPhases ==
  ASSUME NEW S, watch \in Seq(S), Deliver, PhaseOrder
  PROVE  PhaseOrder' /\ (cache.phase # "live" => cache'.phase # "live")
<1>1. /\ Len(watch) \in Nat /\ Len(watch) > 0
      /\ cache' = watch[1] /\ watch' = Tail(watch)
  BY DEF Deliver
<1>2. /\ Len(watch') = Len(watch) - 1
      /\ \A i \in 1..Len(watch') : watch'[i] = watch[i + 1]
  BY <1>1
<1>3. /\ 1 \in 1..Len(watch)
      /\ \A i \in 1..Len(watch') : i + 1 \in 1..Len(watch)
  BY <1>1, <1>2
<1> QED
  BY <1>1, <1>2, <1>3 DEF PhaseOrder

\* So does a restart.
LEMMA RestartPhases ==
  ASSUME Restart
  PROVE  PhaseOrder'
BY DEF Restart, PhaseOrder
=============================================================================
