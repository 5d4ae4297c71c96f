-------------------------- MODULE DOClusterContract -------------------------
(***************************************************************************)
(* Proof that a DOCluster keeps the contract of an infrastructure object,  *)
(* and the account of the load balancers that it loses: how many it may    *)
(* have and lose, what it leaves behind when nothing goes wrong, and whose *)
(* address it announces.                                                   *)
(*                                                                         *)
(* To the invariant of DOClusterProofs this adds which load balancers the  *)
(* copies of the object can name, what a reconciliation knows of the load  *)
(* balancer it is about to replace or to let go, and how fresh the copy is *)
(* that it works on.                                                       *)
(***************************************************************************)
EXTENDS DOClusterProofs

\* The ID of a load balancer is that of one that was created.
KnownLB(o) == o.lbID # NoLB => lbs[o.lbID] # "none"

AllKnown == \A o : Copy(o) \/ o = orig \/ o = mem => KnownLB(o)

\* A load balancer that is replaced, or whose cluster is let go, is gone.
Superseded ==
  /\ pc = "CreateLoadBalancer" => ~Found(orig.lbID)
  /\ pc \in PatchCalls /\ (mem.lbID # orig.lbID \/ ~mem.finalizer) => ~Found(orig.lbID)

\* During a reconciliation nobody else writes the ID, so the copy it read
\* tells the one in the API server, unless it was stale.
CopyFresh ==
  ~Happened("staleRead") /\ pc # "idle" => orig.lbID = store.lbID

\* Readiness is not taken back.
Reports == orig.ready => mem.ready

DInv == AllKnown /\ Superseded /\ CopyFresh /\ Reports

\* What the cloud does to load balancers: none is forgotten, none comes back.
LBsAge ==
  \A l \in LBIDs :
    lbs[l] # "none" => lbs'[l] # "none" /\ (Found(l)' => Found(l))

-----------------------------------------------------------------------------
\* Every step ages the load balancers.
LEMMA StepAges ==
  ASSUME IInv, [Next]_vars
  PROVE  LBsAge
<1> USE DEF LBsAge, Found
<1>1. lbs \in [LBIDs -> LBStatuses]
  BY DEF IInv, TypeOK
<1>2. ASSUME lbs' = lbs PROVE LBsAge
  BY <1>2
<1>3. ASSUME NEW l \in LBIDs, LBAddress(l) \/ LBProgress(l) \/ ExternalChange(l) PROVE LBsAge
  BY <1>1, <1>3 DEF LBAddress, LBProgress, ExternalChange, Destroyed
<1>4. ASSUME NEW l \in LBIDs, LBCreated(l) PROVE LBsAge
  BY <1>1, <1>4 DEF LBCreated
<1>5. ASSUME LBDeleted PROVE LBsAge
  BY <1>1, <1>5 DEF LBDeleted, Destroyed
<1>6. CASE CreateLoadBalancer
  BY <1>4, <1>6 DEF CreateLoadBalancer
<1>7. CASE DeleteLoadBalancer
  BY <1>5, <1>7 DEF DeleteLoadBalancer
<1>8. CASE ReplyLost
  BY <1>2, <1>4, <1>5, <1>8 DEF ReplyLost, RecordUpserted, RecordDeleted
<1>9. CASE Controller /\ ~CreateLoadBalancer /\ ~DeleteLoadBalancer /\ ~ReplyLost
  BY <1>2, <1>9
  DEF Controller, CallSucceeds, StartReconcile, CallFails, PatchSpec, PatchStatus,
      GetLoadBalancer, GetDomainRecord, UpsertDomainRecord, RecordUpserted,
      CheckDNSPropagated, DeleteDomainRecord, RecordDeleted, DeleteGetLoadBalancer, cloud
<1>10. CASE Environment
  BY <1>2, <1>3, <1>10
  DEF Environment, DeliverEvent, UserDelete, UserUpdate, DNSProgress, Crash, cloud
<1>11. CASE Finished \/ UNCHANGED vars
  BY <1>2, <1>11 DEF Finished, vars
<1> QED
  BY <1>6, <1>7, <1>8, <1>9, <1>10, <1>11 DEF Next

\* A known load balancer stays known, and never comes back.
LEMMA KnownStays ==
  ASSUME LBsAge, NEW o \in Objects, KnownLB(o)
  PROVE  KnownLB(o)' /\ (Found(o.lbID)' => Found(o.lbID))
BY DEF LBsAge, KnownLB, Objects, Found

\* A step keeps the copies known if the new ones are.
LEMMA KnownKeeps ==
  ASSUME IInv, DInv, [Next]_vars, KnownLB(orig)', KnownLB(mem)',
         \A o : Copy(o)' => Copy(o) \/ KnownLB(o)'
  PROVE  AllKnown'
<1>1. LBsAge
  BY StepAges
<1>2. \A o : Copy(o) => o \in Objects /\ KnownLB(o)
  <2>1. \A o : Copy(o) => o \in Objects
    <3>1. store \in Objects /\ cache \in Objects /\ watch \in Seq(Objects)
      BY Typed DEF ApiTypeOK
    <3>2. \A i \in 1..Len(watch) : watch[i] \in Objects
      BY <3>1
    <3> QED
      BY <3>1, <3>2, Zenon DEF Copy
  <2>2. \A o : Copy(o) => KnownLB(o)
    BY Zenon DEF DInv, AllKnown
  <2> QED
    BY <2>1, <2>2, Zenon
<1>3. \A o : Copy(o) => KnownLB(o)'
  BY <1>1, <1>2, KnownStays
<1> QED
  BY <1>3, Zenon DEF AllKnown, KnownLB

\* The invariant holds at the start.
LEMMA InitDInv == Init => DInv
BY DEF Init, InitObject, DInv, AllKnown, Copy, KnownLB, Superseded, Reports, CopyFresh,
       NewObject, PatchCalls

\* A step of the world or of a user, who does not touch the status.
LEMMA OthersKeep ==
  ASSUME IInv, DInv, [Next]_vars, UNCHANGED run, store'.lbID = store.lbID,
         \A o : Copy(o)' => Copy(o) \/ o = store'
  PROVE  DInv'
<1>1. /\ LBsAge /\ orig' = orig /\ mem' = mem /\ pc' = pc
      /\ orig \in Objects /\ mem \in Objects /\ store \in Objects
      /\ KnownLB(orig) /\ KnownLB(mem) /\ KnownLB(store)
  BY StepAges, Zenon DEF run, IInv, TypeOK, DInv, AllKnown, Copy
<1>2. KnownLB(orig)' /\ KnownLB(mem)' /\ KnownLB(store)'
  BY <1>1, KnownStays, Zenon DEF KnownLB
<1>3. AllKnown'
  BY <1>2, KnownKeeps DEF KnownLB
<1>4. Found(orig.lbID)' => Found(orig.lbID)
  BY <1>1, KnownStays DEF Found
<1>5. Superseded'
  BY <1>1, <1>4 DEF DInv, Superseded
<1>6. CopyFresh' /\ Reports'
  BY <1>1, StepMishaps DEF DInv, CopyFresh, Reports
<1> QED
  BY <1>3, <1>5, <1>6 DEF DInv

\* A call to DigitalOcean leaves the API server alone.
LEMMA CallKeeps ==
  ASSUME IInv, DInv, [Next]_vars, UNCHANGED <<api, orig>>,
         pc \in CloudCalls, KnownLB(mem)', Superseded', Reports'
  PROVE  DInv'
<1>1. /\ LBsAge /\ orig' = orig /\ store' = store
      /\ orig \in Objects /\ KnownLB(orig)
  BY StepAges DEF api, IInv, TypeOK, DInv, AllKnown
<1>2. KnownLB(orig)'
  BY <1>1, KnownStays DEF KnownLB
<1>3. \A o : Copy(o)' => Copy(o)
  BY StutterCopies DEF api
<1>4. AllKnown'
  BY <1>2, <1>3, KnownKeeps
<1>5. CopyFresh'
  BY <1>1, StepMishaps DEF DInv, CopyFresh, CloudCalls
<1> QED
  BY <1>4, <1>5 DEF DInv

\* A call that creates no load balancer.
Keeps ==
  /\ mem'.lbID = mem.lbID
  /\ lbs' = lbs \/ LBDeleted
  /\ ~mem'.finalizer \/ pc' = "CreateLoadBalancer" => ~Found(mem.lbID)'

\* A call that creates one; its ID is lost with the answer.
Creates ==
  /\ pc = "CreateLoadBalancer" /\ pc' = "PatchSpec" /\ mem'.finalizer
  /\ \E l \in LBIDs :
       /\ LBCreated(l)
       /\ mem'.lbID = l \/ (mem'.lbID = mem.lbID /\ Mishap("lostReply"))

\* What the calls have in common.
LEMMA CallFacts ==
  ASSUME IInv, CallSucceeds \/ CallFails \/ ReplyLost
  PROVE  /\ pc \in CloudCalls /\ UNCHANGED <<api, orig>>
         /\ pc' \in CloudCalls \union {"PatchSpec"}
         /\ mem.ready => mem'.ready
         /\ Keeps \/ Creates
<1>1. pc \in CloudCalls
  BY DEF CallSucceeds, CallFails, ReplyLost, GetLoadBalancer, CreateLoadBalancer,
         GetDomainRecord, UpsertDomainRecord, CheckDNSPropagated,
         DeleteDomainRecord, DeleteGetLoadBalancer, DeleteLoadBalancer, CloudCalls
<1>2. /\ mem \in Objects /\ mem.finalizer /\ lbs \in [LBIDs -> LBStatuses]
  BY <1>1, AtCall DEF CloudOK
<1>3. UNCHANGED <<api, orig>>
  BY DEF CallSucceeds, CallFails, ReplyLost, GetLoadBalancer, CreateLoadBalancer,
         GetDomainRecord, UpsertDomainRecord, CheckDNSPropagated,
         DeleteDomainRecord, DeleteGetLoadBalancer, DeleteLoadBalancer,
         HaveLB, LBReady, RecordWritten, Finish, Return, Call
<1> DEFINE Goal == /\ pc' \in CloudCalls \union {"PatchSpec"}
                   /\ mem.ready => mem'.ready
                   /\ Keeps \/ Creates
<1> SUFFICES Goal
  BY <1>1, <1>3
<1>4. ASSUME lbs' = lbs \/ LBDeleted, mem'.lbID = mem.lbID, mem'.finalizer,
             mem.ready => mem'.ready, pc' \in CloudCalls \union {"PatchSpec"},
             pc' # "CreateLoadBalancer"
      PROVE  Goal
  BY <1>4 DEF Keeps
<1>5. ASSUME NEW obj \in Objects, obj.lbID = mem.lbID, obj.finalizer, lbs' = lbs,
             NEW ip, Finish(obj, ip)
      PROVE  Goal
  <2>1. /\ pc' = "PatchSpec" /\ mem'.lbID = obj.lbID /\ mem'.finalizer /\ mem'.ready
    BY <1>5 DEF Finish, Return, Objects
  <2> QED
    BY <1>4, <1>5, <2>1
<1>6. CASE GetLoadBalancer
  <2>1. CASE ~Found(mem.lbID)
    <3>1. pc' = "CreateLoadBalancer" /\ mem' = mem /\ lbs' = lbs
      BY <1>6, <2>1 DEF GetLoadBalancer, Call, cloud
    <3> QED
      BY <2>1, <3>1 DEF Keeps, Found, CloudCalls
  <2>2. CASE Found(mem.lbID)
    <3>1. /\ HaveLB(mem.lbID, lbs[mem.lbID], hasIP[mem.lbID])
          /\ lbs' = lbs /\ [mem EXCEPT !.lbID = mem.lbID] = mem
      BY <1>2, <1>6, <2>2 DEF GetLoadBalancer, cloud, Objects
    <3> QED
      BY <1>2, <1>4, <1>5, <3>1 DEF HaveLB, LBReady, Return, CloudCalls
  <2> QED
    BY <2>1, <2>2
<1>7. CASE CreateLoadBalancer
  <2>1. PICK l \in LBIDs : LBCreated(l) /\ Return([mem EXCEPT !.lbID = l])
    BY <1>7 DEF CreateLoadBalancer
  <2>2. /\ pc = "CreateLoadBalancer" /\ pc' = "PatchSpec" /\ mem'.lbID = l /\ mem'.finalizer
        /\ mem'.ready = mem.ready
    BY <1>2, <1>7, <2>1 DEF CreateLoadBalancer, Return, Objects
  <2> QED
    BY <2>1, <2>2 DEF Creates
<1>8. CASE GetDomainRecord
  <2>1. lbs' = lbs
    BY <1>8 DEF GetDomainRecord, cloud
  <2>2. CASE Call("UpsertDomainRecord", [mem EXCEPT !.dnsReady = FALSE])
    BY <1>2, <1>4, <2>1, <2>2 DEF Call, Objects, CloudCalls
  <2>3. CASE Finish(mem, addressed)
    BY <1>2, <1>5, <2>1, <2>3
  <2>4. CASE Call("CheckDNSPropagated", mem)
    BY <1>2, <1>4, <2>1, <2>4 DEF Call, CloudCalls
  <2> QED
    BY <1>8, <2>2, <2>3, <2>4 DEF GetDomainRecord, RecordWritten
<1>9. CASE UpsertDomainRecord \/ DeleteDomainRecord
  BY <1>2, <1>4, <1>9
  DEF UpsertDomainRecord, DeleteDomainRecord, RecordUpserted, RecordDeleted, Call, CloudCalls
<1>10. CASE CheckDNSPropagated
  <2>1. lbs' = lbs
    BY <1>10 DEF CheckDNSPropagated, cloud
  <2>2. CASE Return(mem)
    BY <1>2, <1>4, <2>1, <2>2 DEF Return
  <2>3. CASE Finish([mem EXCEPT !.dnsReady = TRUE], addressed)
    <3>1. /\ [mem EXCEPT !.dnsReady = TRUE] \in Objects
          /\ [mem EXCEPT !.dnsReady = TRUE].lbID = mem.lbID
          /\ [mem EXCEPT !.dnsReady = TRUE].finalizer
      BY <1>2, Zenon DEF Objects
    <3> QED
      BY <1>5, <2>1, <2>3, <3>1, Zenon
  <2> QED
    BY <1>10, <2>2, <2>3 DEF CheckDNSPropagated
<1>11. CASE DeleteGetLoadBalancer
  <2>1. lbs' = lbs
    BY <1>11 DEF DeleteGetLoadBalancer, cloud
  <2>2. CASE Call("DeleteLoadBalancer", mem)
    BY <1>2, <1>4, <2>1, <2>2 DEF Call, CloudCalls
  <2>3. CASE ~Found(mem.lbID) /\ Return([mem EXCEPT !.finalizer = FALSE])
    <3>1. pc' = "PatchSpec" /\ mem'.lbID = mem.lbID /\ mem'.ready = mem.ready
      BY <1>2, <2>3 DEF Return, Objects
    <3> QED
      BY <2>1, <2>3, <3>1 DEF Keeps, Found
  <2> QED
    BY <1>11, <2>2, <2>3 DEF DeleteGetLoadBalancer
<1>12. CASE DeleteLoadBalancer
  <2>1. /\ LBDeleted /\ pc' = "PatchSpec"
        /\ mem'.lbID = mem.lbID /\ mem'.ready = mem.ready
    BY <1>2, <1>12 DEF DeleteLoadBalancer, Return, Objects
  <2>2. ~Found(mem.lbID)'
    BY <1>2, <2>1 DEF LBDeleted, Destroyed, Found, Objects
  <2> QED
    BY <2>1, <2>2 DEF Keeps, Found
<1>13. CASE CallFails \/ ReplyLost
  <2>1. pc' = "PatchSpec" /\ mem' = mem
    BY <1>13 DEF CallFails, ReplyLost, Return
  <2>2. CASE lbs' = lbs \/ LBDeleted
    BY <1>2, <1>4, <2>1, <2>2
  <2>3. CASE pc = "CreateLoadBalancer" /\ (\E l \in LBIDs : LBCreated(l)) /\ Mishap("lostReply")
    BY <1>2, <2>1, <2>3 DEF Creates
  <2> QED
    BY <1>13, <2>2, <2>3 DEF CallFails, ReplyLost, RecordUpserted, RecordDeleted, cloud
<1> QED
  BY <1>6, <1>7, <1>8, <1>9, <1>10, <1>11, <1>12, <1>13 DEF CallSucceeds

\* The calls keep the invariant.
LEMMA CallsDInv ==
  ASSUME IInv, DInv, [Next]_vars, CallSucceeds \/ CallFails \/ ReplyLost
  PROVE  DInv'
<1>1. /\ pc \in CloudCalls /\ UNCHANGED <<api, orig>>
      /\ pc' \in CloudCalls \union {"PatchSpec"}
      /\ mem.ready => mem'.ready
      /\ Keeps \/ Creates
  BY CallFacts
<1>2. /\ mem \in Objects /\ orig \in Objects /\ mem.lbID = orig.lbID /\ mem.finalizer
      /\ lbs \in [LBIDs -> LBStatuses] /\ mem.ready = orig.ready
  BY <1>1, AtCall DEF CloudOK
<1>3. LBsAge /\ KnownLB(mem) /\ KnownLB(orig)
  BY StepAges DEF DInv, AllKnown
<1>4. KnownLB(orig)' /\ (Found(orig.lbID)' => Found(orig.lbID))
  <2>1. /\ (orig.lbID # NoLB => lbs'[orig.lbID] # "none")
        /\ (orig.lbID # NoLB /\ lbs'[orig.lbID] \in {"new", "active", "errored"}
              => Found(orig.lbID))
    BY <1>2, <1>3 DEF LBsAge, KnownLB, Objects, Found
  <2> QED
    BY <1>1, <2>1 DEF KnownLB, Found
<1>5. Reports'
  BY <1>1, <1>2 DEF Reports
<1>6. CASE Keeps
  <2>1. KnownLB(mem)'
    BY <1>1, <1>2, <1>4, <1>6 DEF KnownLB, Keeps
  <2>2. ~mem'.finalizer \/ pc' = "CreateLoadBalancer" => ~Found(orig.lbID)'
    BY <1>1, <1>2, <1>6 DEF Keeps, Found
  <2>3. Superseded'
    BY <1>1, <1>2, <1>6, <2>2 DEF Superseded, Keeps, Found, PatchCalls
  <2> QED
    BY <1>1, <1>5, <2>1, <2>3, CallKeeps
<1>7. CASE Creates
  <2>1. PICK l \in LBIDs : LBCreated(l) /\ (mem'.lbID = l \/ mem'.lbID = mem.lbID)
    BY <1>7 DEF Creates
  <2>2. lbs'[l] = "new"
    BY <1>2, <2>1 DEF LBCreated
  <2>3. KnownLB(mem)'
    BY <1>1, <1>2, <1>4, <2>1, <2>2 DEF KnownLB
  <2>4. ~Found(orig.lbID)'
    BY <1>4, <1>7 DEF Creates, DInv, Superseded
  <2>5. Superseded'
    BY <2>4 DEF Superseded
  <2> QED
    BY <1>1, <1>5, <2>3, <2>5, CallKeeps
<1> QED
  BY <1>1, <1>6, <1>7

\* A reconciliation starts from the copy in the cache.
LEMMA StartDInv ==
  ASSUME IInv, DInv, [Next]_vars, StartReconcile
  PROVE  DInv'
<1>1. /\ orig' = cache /\ UNCHANGED api /\ cache \in Objects /\ UNCHANGED lbs
      /\ pc' \notin PatchCalls \union {"CreateLoadBalancer"}
      /\ mem' = cache \/ mem' = [cache EXCEPT !.finalizer = TRUE, !.port = ApplyDefault(@)]
  BY Typed
  DEF StartReconcile, NewClusterScope, Reconcile, ReconcileDelete, ReadCache, cloud,
      ApiTypeOK, PatchCalls
<1>2. mem'.lbID = cache.lbID /\ mem'.ready = cache.ready
  BY <1>1, Zenon DEF Objects
<1>3. KnownLB(cache)
  BY DEF DInv, AllKnown, Copy
<1>4. KnownLB(orig)' /\ KnownLB(mem)'
  BY <1>1, <1>2, <1>3 DEF KnownLB
<1>5. AllKnown'
  BY <1>1, <1>4, StutterCopies, KnownKeeps
<1>6. Superseded' /\ Reports'
  BY <1>1, <1>2 DEF Superseded, Reports
<1>7. CASE watch = <<>>
  <2>1. store'.lbID = orig'.lbID
    BY <1>1, <1>7 DEF IInv, CacheFollows, api
  <2> QED
    BY <1>5, <1>6, <2>1 DEF DInv, CopyFresh
<1>8. CASE watch # <<>>
  <2>1. Happened("staleRead")'
    BY <1>8, Typed, MishapHappens DEF StartReconcile, ReadCache
  <2> QED
    BY <1>5, <1>6, <2>1 DEF DInv, CopyFresh
<1> QED
  BY <1>7, <1>8

\* The end of a reconciliation, which may have written the status.
LEMMA EndDInv ==
  ASSUME IInv, DInv, [Next]_vars, PatchStatus \/ Crash
  PROVE  DInv'
<1>1. /\ pc' = "idle" /\ orig' = NewObject /\ mem' = NewObject /\ UNCHANGED lbs
      /\ store \in Objects /\ orig \in Objects /\ mem \in Objects /\ watch \in Seq(Objects)
      /\ CacheFollows /\ KnownLB(store) /\ KnownLB(mem)
  BY Typed
  DEF PatchStatus, Crash, Idle, cloud, ApiTypeOK, IInv, DInv, AllKnown, Copy
<1>2. KnownLB(orig)' /\ KnownLB(mem)'
  BY <1>1, Zenon DEF KnownLB, NewObject
<1>3. \A o : Copy(o)' => Copy(o) \/ KnownLB(o)'
  <2>1. CASE UNCHANGED api
    BY <2>1, StutterCopies
  <2>2. CASE Restart
    BY <2>2, RestartCopies
  <2>3. CASE Write(StatusPatch)
    <3>1. /\ StatusPatch \in Objects
          /\ StatusPatch.lbID = Merged(store.lbID, orig.lbID, mem.lbID)
      BY <1>1, StatusPatchFacts
    <3>2. \A o : Copy(o)' => Copy(o) \/ o = StatusPatch
      BY <1>1, <2>3, <3>1, WriteCopies
    <3>3. \A o : o = StatusPatch => KnownLB(o)'
      BY <1>1, <3>1 DEF KnownLB, Merged
    <3> QED
      BY <3>2, <3>3
  <2> QED
    BY <2>1, <2>2, <2>3 DEF PatchStatus, Crash, RequestFails
<1>4. AllKnown'
  BY <1>2, <1>3, KnownKeeps
<1> QED
  BY <1>1, <1>4 DEF DInv, Superseded, CopyFresh, Reports, NewObject, PatchCalls

\* The first request of Close does not touch the status.
LEMMA PatchSpecDInv ==
  ASSUME IInv, DInv, [Next]_vars, PatchSpec
  PROVE  DInv'
<1>1. /\ pc = "PatchSpec" /\ pc' = "PatchStatus" /\ UNCHANGED <<orig, mem, lbs>>
      /\ store \in Objects /\ orig \in Objects /\ mem \in Objects /\ watch \in Seq(Objects)
      /\ CacheFollows /\ KnownLB(store) /\ KnownLB(orig) /\ KnownLB(mem)
  BY Typed, Zenon DEF PatchSpec, cloud, ApiTypeOK, IInv, DInv, AllKnown, Copy
<1>2. /\ store'.lbID = store.lbID
      /\ \A o : Copy(o)' => Copy(o) \/ KnownLB(o)'
  <2>1. CASE UNCHANGED api
    BY <2>1, StutterCopies DEF api
  <2>2. CASE Write(SpecPatch)
    <3>1. SpecPatch \in Objects /\ SpecPatch.lbID = store.lbID
      BY <1>1, SpecPatchFacts
    <3>2. \A o : Copy(o)' => Copy(o) \/ o = SpecPatch
      BY <1>1, <2>2, <3>1, WriteCopies
    <3>3. \A o : o = SpecPatch => KnownLB(o)'
      BY <1>1, <3>1 DEF KnownLB
    <3> QED
      BY <2>2, <3>1, <3>2, <3>3 DEF Write
  <2> QED
    BY <2>1, <2>2 DEF PatchSpec, RequestFails
<1>3. AllKnown'
  BY <1>1, <1>2, KnownKeeps DEF KnownLB
<1>4. Superseded' /\ Reports'
  BY <1>1 DEF DInv, Superseded, Reports, Found, PatchCalls
<1>5. CopyFresh'
  BY <1>1, <1>2, StepMishaps, Zenon DEF DInv, CopyFresh
<1> QED
  BY <1>3, <1>4, <1>5 DEF DInv

\* Users, who do not touch the status either.
LEMMA UsersDInv ==
  ASSUME IInv, DInv, [Next]_vars, UserDelete \/ UserUpdate
  PROVE  DInv'
<1>1. /\ store \in Objects /\ watch \in Seq(Objects) /\ CacheFollows
  BY Typed DEF ApiTypeOK, IInv
<1>2. PICK obj \in Objects : Write(obj) /\ obj.lbID = store.lbID
  <2>1. CASE UserDelete
    <3> DEFINE new == Finalized([store EXCEPT !.phase = "deleting"])
    <3>1. new \in Objects /\ new.lbID = store.lbID
      BY <1>1, Zenon DEF Finalized, Objects, Phases
    <3>2. Write(new)
      BY <2>1 DEF UserDelete, Delete
    <3> QED
      BY <3>1, <3>2
  <2>2. CASE UserUpdate
    BY <2>2, UserUpdateFacts
  <2> QED
    BY <2>1, <2>2
<1>3. \A o : Copy(o)' => Copy(o) \/ o = obj
  BY <1>1, <1>2, WriteCopies
<1> QED
  BY <1>2, <1>3, OthersKeep DEF UserDelete, UserUpdate, Write

\* Every step keeps the invariant.
LEMMA NextDInv == IInv /\ DInv /\ [Next]_vars => DInv'
<1> SUFFICES ASSUME IInv, DInv, [Next]_vars PROVE DInv'
  OBVIOUS
<1>1. CASE Controller
  BY <1>1, StartDInv, CallsDInv, PatchSpecDInv, EndDInv DEF Controller
<1>2. CASE UserDelete \/ UserUpdate \/ Crash
  BY <1>2, UsersDInv, EndDInv
<1>3. CASE DeliverEvent
  <2>1. /\ UNCHANGED run /\ Deliver /\ store' = store /\ watch \in Seq(Objects) /\ CacheFollows
    BY <1>3 DEF DeliverEvent, Deliver, IInv, TypeOK
  <2>2. \A o : Copy(o)' => Copy(o)
    BY <2>1, DeliverCopies
  <2> QED
    BY <2>1, <2>2, OthersKeep
<1>4. CASE UNCHANGED <<api, run>>
  <2>1. store' = store
    BY <1>4 DEF api
  <2> QED
    BY <1>4, <2>1, StutterCopies, OthersKeep
<1>5. Controller \/ UserDelete \/ UserUpdate \/ Crash \/ DeliverEvent \/ UNCHANGED <<api, run>>
  BY DEF Next, Environment, LBAddress, LBProgress, ExternalChange, DNSProgress, Finished,
         vars, api, run
<1> QED
  BY <1>1, <1>2, <1>3, <1>4, <1>5

\* Both invariants hold throughout.
THEOREM LBInvariance == Spec => [](IInv /\ DInv)
<1>1. Init => IInv /\ DInv
  BY InitIInv, InitDInv
<1>2. IInv /\ DInv /\ [Next]_vars => (IInv /\ DInv)'
  BY NextIInv, NextDInv
<1> QED
  BY <1>1, <1>2, PTL DEF Spec

-----------------------------------------------------------------------------
(* The contract.                                                           *)

Astray == Happened("staleRead") \/ Happened("patchError")

\* What the object says of its load balancer does not change.
SameSaid ==
  store'.phase = store.phase /\ store'.lbID = store.lbID /\ store'.ready = store.ready

\* Only stale reads and failed requests lead the controller astray.
LEMMA OtherMishap ==
  ASSUME mishaps \in MishapCounts,
         NoMishap \/ \E k \in MishapKinds \ {"staleRead", "patchError"} : Mishap(k)
  PROVE  Astray' = Astray
BY DEF Astray, Happened, NoMishap, Mishap, MishapCounts, MishapKinds

\* Nothing brings it back.
LEMMA AstrayStays ==
  ASSUME IInv, [Next]_vars
  PROVE  Astray => Astray'
BY StepMishaps DEF Astray

\* The object says the same; its load balancer may have stopped.
LEMMA StopRefines ==
  ASSUME IInv, DInv, [Next]_vars, SameSaid, Astray' = Astray
  PROVE  [Contract!Next]_(Contract!vars)
<1>1. store \in Objects /\ KnownLB(store) /\ LBsAge
  BY Typed, StepAges DEF ApiTypeOK, DInv, AllKnown, Copy
<1>2. Found(store.lbID)' => Found(store.lbID)
  BY <1>1 DEF SameSaid, LBsAge, KnownLB, Found, Objects
<1>3. Found(store.lbID) \in BOOLEAN /\ Found(store.lbID)' \in BOOLEAN
  BY DEF Found
<1> QED
  BY <1>2, <1>3, Zenon DEF SameSaid, Astray, Contract!Next, Contract!Stop, Contract!vars

\* The object says the same; the controller may have been led astray.
LEMMA AstrayRefines ==
  ASSUME IInv, DInv, [Next]_vars, SameSaid, UNCHANGED lbs
  PROVE  [Contract!Next]_(Contract!vars)
<1>1. Found(store.lbID)' = Found(store.lbID)
  BY DEF SameSaid, Found
<1>2. Astray \in BOOLEAN /\ Astray' \in BOOLEAN /\ (Astray => Astray')
  BY AstrayStays DEF Astray, Happened
<1> QED
  BY <1>1, <1>2 DEF SameSaid, Astray, Contract!Next, Contract!GoAstray, Contract!vars

\* The deletion of an object without a finalizer, or with one.
LEMMA DeleteRefines ==
  ASSUME IInv, DInv, [Next]_vars, UserDelete
  PROVE  [Contract!Next]_(Contract!vars)
<1> DEFINE obj == Finalized([store EXCEPT !.phase = "deleting"])
<1>1. /\ store' = obj /\ store.phase = "live" /\ store \in Objects /\ UNCHANGED lbs
      /\ Astray' = Astray
  <2>1. NoMishap \/ \E k \in MishapKinds \ {"staleRead", "patchError"} : Mishap(k)
    BY DEF UserDelete, Delete, MishapKinds
  <2> QED
    BY <2>1, Typed, OtherMishap DEF UserDelete, Delete, Write, ApiTypeOK, cloud
<1>2. /\ obj.lbID = store.lbID /\ obj.ready = store.ready
      /\ obj.phase = IF store.finalizer THEN "deleting" ELSE "gone"
  BY <1>1 DEF Finalized, Objects, Phases
<1>3. store.lbID # NoLB => store.finalizer \/ Astray
  BY <1>1 DEF IInv, ProtectionOK, Astray
<1>4. Found(store.lbID)' = Found(store.lbID)
  BY <1>1, <1>2 DEF Found
<1> QED
  BY <1>1, <1>2, <1>3, <1>4 DEF Astray, Contract!Next, Contract!Delete, Contract!vars

\* The first request of Close may let the object go.
LEMMA PatchSpecRefines ==
  ASSUME IInv, DInv, [Next]_vars, PatchSpec
  PROVE  [Contract!Next]_(Contract!vars)
<1>1. /\ pc = "PatchSpec" /\ UNCHANGED lbs
      /\ store \in Objects /\ orig \in Objects /\ mem \in Objects
      /\ ~Astray => orig.lbID = store.lbID
      /\ ~mem.finalizer => ~Found(orig.lbID)
      /\ store.phase = "deleting" => store.finalizer
  BY Typed
  DEF PatchSpec, cloud, ApiTypeOK, DInv, CopyFresh, Superseded, PatchCalls, CopyOK, Astray
<1>2. CASE UNCHANGED store
  BY <1>1, <1>2, AstrayRefines DEF SameSaid
<1>3. CASE Write(SpecPatch) /\ NoMishap
  <2>1. /\ store' = SpecPatch
        /\ SpecPatch.finalizer = Merged(store.finalizer, orig.finalizer, mem.finalizer)
        /\ SpecPatch.lbID = store.lbID /\ SpecPatch.ready = store.ready
        /\ SpecPatch.phase = IF store.phase = "deleting" /\ ~SpecPatch.finalizer
                             THEN "gone" ELSE store.phase
    BY <1>1, <1>3, SpecPatchFacts, Zenon DEF Write
  <2>2. CASE store'.phase = store.phase
    BY <1>1, <2>1, <2>2, AstrayRefines DEF SameSaid
  <2>3. CASE store'.phase # store.phase
    <3>1. store.phase = "deleting" /\ store'.phase = "gone" /\ ~mem.finalizer
      BY <1>1, <2>1, <2>3 DEF Merged, Objects
    <3>2. ~Found(store.lbID) \/ Astray
      BY <1>1, <3>1
    <3>3. Found(store.lbID)' = Found(store.lbID) /\ Astray' = Astray
      BY <1>1, <1>3, <2>1 DEF Found, Astray, Happened, NoMishap
    <3> QED
      BY <2>1, <3>1, <3>2, <3>3, Zenon DEF Astray, Contract!Next, Contract!Leave, Contract!vars
  <2> QED
    BY <2>2, <2>3
<1> QED
  BY <1>2, <1>3 DEF PatchSpec, RequestFails, api

\* The second request of Close names a load balancer and reports.
LEMMA PatchStatusRefines ==
  ASSUME IInv, IInv', DInv, [Next]_vars, PatchStatus
  PROVE  [Contract!Next]_(Contract!vars)
<1>1. /\ UNCHANGED lbs
      /\ store \in Objects /\ orig \in Objects /\ mem \in Objects
      /\ ~Astray => orig.lbID = store.lbID
      /\ mem.lbID # orig.lbID => ~Found(orig.lbID) /\ mem.lbID # NoLB
      /\ orig.ready => mem.ready
      /\ store'.ready => store'.lbID # NoLB
  BY Typed, Zenon
  DEF PatchStatus, cloud, ApiTypeOK, DInv, CopyFresh, Superseded, Reports, PatchCalls,
      Astray, IInv, RunOK
<1>2. CASE UNCHANGED store
  BY <1>1, <1>2, AstrayRefines DEF SameSaid
<1>3. CASE store.phase # "gone" /\ Write(StatusPatch) /\ NoMishap
  <2>1. /\ store' = StatusPatch /\ StatusPatch \in Objects
        /\ StatusPatch.phase = store.phase
        /\ StatusPatch.lbID = Merged(store.lbID, orig.lbID, mem.lbID)
        /\ StatusPatch.ready = Merged(store.ready, orig.ready, mem.ready)
    BY <1>1, <1>3, StatusPatchFacts, Zenon DEF Write
  <2>2. (store.ready => store'.ready) /\ store'.ready \in BOOLEAN
    BY <1>1, <2>1 DEF Merged, Objects
  <2>3. store'.lbID # store.lbID => store'.lbID # NoLB /\ (~Found(store.lbID) \/ Astray)
    BY <1>1, <2>1 DEF Merged
  <2>4. /\ store'.lbID = store.lbID => Found(store.lbID)' = Found(store.lbID)
        /\ Found(store.lbID)' \in BOOLEAN
        /\ Astray' = Astray
    BY <1>1, <1>3 DEF Found, Astray, Happened, NoMishap
  <2> QED
    BY <1>1, <1>3, <2>1, <2>2, <2>3, <2>4
    DEF Astray, Contract!Next, Contract!Record, Contract!vars
<1> QED
  BY <1>2, <1>3 DEF PatchStatus, RequestFails, api

\* Every step of the controller and of its world is one of the contract's.
LEMMA NextRefines ==
  IInv /\ IInv' /\ DInv /\ [Next]_vars => [Contract!Next]_(Contract!vars)
<1> SUFFICES ASSUME IInv, IInv', DInv, [Next]_vars PROVE [Contract!Next]_(Contract!vars)
  OBVIOUS
<1>1. CASE UserDelete \/ PatchSpec \/ PatchStatus
  BY <1>1, DeleteRefines, PatchSpecRefines, PatchStatusRefines
<1>2. CASE StartReconcile
  BY <1>2, AstrayRefines DEF StartReconcile, ReadCache, api, cloud, SameSaid
<1>3. CASE UserUpdate
  <2>1. SameSaid /\ UNCHANGED lbs
    BY <1>3, UserUpdateFacts, Zenon DEF SameSaid, Write, UserUpdate, cloud
  <2> QED
    BY <2>1, AstrayRefines
<1>4. CASE CallSucceeds \/ CallFails \/ ReplyLost
  <2>1. NoMishap \/ \E k \in MishapKinds \ {"staleRead", "patchError"} : Mishap(k)
    BY <1>4
    DEF CallSucceeds, CallFails, ReplyLost, GetLoadBalancer, CreateLoadBalancer,
        GetDomainRecord, UpsertDomainRecord, CheckDNSPropagated, DeleteDomainRecord,
        DeleteGetLoadBalancer, DeleteLoadBalancer, NoMishap, MishapKinds
  <2>2. SameSaid /\ Astray' = Astray
    BY <1>4, <2>1, Typed, CallFacts, OtherMishap DEF SameSaid, api
  <2> QED
    BY <2>2, StopRefines
<1>5. CASE Environment /\ ~UserDelete /\ ~UserUpdate
  <2>1. NoMishap \/ \E k \in MishapKinds \ {"staleRead", "patchError"} : Mishap(k)
    BY <1>5
    DEF Environment, DeliverEvent, Deliver, LBAddress, LBProgress, ExternalChange, DNSProgress,
        Crash, Restart, NoMishap, MishapKinds
  <2>2. SameSaid
    BY <1>5, Zenon
    DEF Environment, DeliverEvent, Deliver, LBAddress, LBProgress, ExternalChange, DNSProgress,
        Crash, Restart, SameSaid, api
  <2> QED
    BY <2>1, <2>2, Typed, OtherMishap, StopRefines
<1>6. CASE Finished \/ UNCHANGED vars
  BY <1>6, AstrayRefines DEF Finished, vars, SameSaid
<1> QED
  BY <1>1, <1>2, <1>3, <1>4, <1>5, <1>6 DEF Next, Controller

\* A DOCluster keeps the contract of an infrastructure object: InfraContract
\* is what DOCluster implements, whatever the mishaps (reconcile,
\* reconcileDelete and clusterScope.Close).
THEOREM ClusterKeepsContract == Spec => KeepsContract
<1>1. Init => Contract!Init
  BY DEF Init, InitObject, Contract!Init, NewObject, Found, Happened, MishapKinds
<1>2. IInv /\ IInv' /\ DInv /\ [Next]_vars => [Contract!Next]_(Contract!vars)
  BY NextRefines
<1> QED
  BY <1>1, <1>2, LBInvariance, PTL DEF Spec, KeepsContract, Contract!Spec

-----------------------------------------------------------------------------
(***************************************************************************)
(* The account of the load balancers of a DOCluster: each one that nobody  *)
(* names any more was paid for with a mishap, for every number of load     *)
(* balancers, edits and mishaps.                                           *)
(*                                                                         *)
(* As for DOMachine the mishap often comes long before the loss.  There is *)
(* one more debt to book: Close writes the ID of the load balancer in its  *)
(* second request, so when the first one fails the object names a load     *)
(* balancer and has no finalizer, and whoever deletes it then loses it.    *)
(***************************************************************************)

FoundLBs == {l \in LBIDs : Found(l)}

\* The load balancer that the object in the API server names.
Named == IF store.phase = "gone" THEN {} ELSE {store.lbID}

\* The load balancer that only the running reconciliation can still record.
Carried == IF pc # "idle" /\ mem.lbID # orig.lbID THEN {mem.lbID} ELSE {}

Lost == FoundLBs \ (Named \union Carried)

\* The running reconciliation may lose one: it read what is not there.
AtRisk ==
  /\ pc # "idle" /\ orig.lbID \notin Named
  /\ pc = "PatchStatus" => Carried # {}

\* A deletion may lose one: no finalizer stands in its way.
Unguarded ==
  /\ store.phase = "live" /\ ~store.finalizer
  /\ store.lbID # NoLB \/ (pc = "PatchStatus" /\ Carried # {})

One(b) == IF b THEN 1 ELSE 0

Accounted == Cardinality(Lost) + One(AtRisk) + One(Unguarded) <= MishapTotal

\* A step pays with a mishap, or it does not.
Pays == MishapTotal' = MishapTotal + 1
Free == MishapTotal' = MishapTotal

-----------------------------------------------------------------------------
(* Bookkeeping.                                                            *)

\* The library counts finite sets; its theorems come in under a name of their own.
Finite == INSTANCE FiniteSetTheorems

\* The library counts what Cardinality counts.
LEMMA SameCount ==
  /\ \A S : Finite!Cardinality(S) = Cardinality(S)
  /\ \A S : Finite!IsFiniteSet(S) <=> IsFiniteSet(S)
<1>1. \A S : Finite!Cardinality(S) = Cardinality(S)
  BY DEF Finite!Cardinality, Cardinality
<1>2. \A S : Finite!IsFiniteSet(S) <=> IsFiniteSet(S)
  BY DEF Finite!IsFiniteSet, IsFiniteSet
<1> QED
  BY <1>1, <1>2

\* What loses nothing does not grow.
LEMMA LoseNone ==
  ASSUME NEW A, NEW B, IsFiniteSet(A), B \subseteq A
  PROVE  /\ IsFiniteSet(B) /\ Cardinality(B) \in Nat /\ Cardinality(A) \in Nat
         /\ Cardinality(B) <= Cardinality(A)
<1>1. Finite!IsFiniteSet(A)
  BY SameCount, Zenon
<1>2. Finite!IsFiniteSet(B) /\ Finite!Cardinality(B) <= Finite!Cardinality(A)
  BY <1>1, Finite!FS_Subset
<1>3. Finite!Cardinality(B) \in Nat /\ Finite!Cardinality(A) \in Nat
  BY <1>1, <1>2, Finite!FS_CardinalityType
<1> QED
  BY <1>2, <1>3, SameCount, Zenon

\* What loses one thing grows by one.
LEMMA LoseOne ==
  ASSUME NEW A, NEW B, NEW x, IsFiniteSet(A), B \subseteq A \union {x}
  PROVE  /\ IsFiniteSet(B) /\ Cardinality(B) \in Nat /\ Cardinality(A) \in Nat
         /\ Cardinality(B) <= Cardinality(A) + 1
<1>1. Finite!IsFiniteSet(A)
  BY SameCount, Zenon
<1>2. /\ Finite!IsFiniteSet(A \union {x})
      /\ \/ Finite!Cardinality(A \union {x}) = Finite!Cardinality(A)
         \/ Finite!Cardinality(A \union {x}) = Finite!Cardinality(A) + 1
  BY <1>1, Finite!FS_AddElement
<1>3. /\ IsFiniteSet(A \union {x})
      /\ \/ Cardinality(A \union {x}) = Cardinality(A)
         \/ Cardinality(A \union {x}) = Cardinality(A) + 1
  BY <1>2, SameCount, Zenon
<1>4. Cardinality(A) \in Nat
  BY LoseNone
<1>5. /\ IsFiniteSet(B) /\ Cardinality(B) \in Nat /\ Cardinality(A \union {x}) \in Nat
      /\ Cardinality(B) <= Cardinality(A \union {x})
  BY <1>3, LoseNone
<1> QED
  BY <1>3, <1>4, <1>5

\* There are finitely many load balancers.
LEMMA FiniteLost ==
  IsFiniteSet(Lost) /\ Cardinality(Lost) \in Nat
<1>1. IsFiniteSet(LBIDs)
  BY ClusterAssumption, Finite!FS_Interval, SameCount DEF LBIDs
<1>2. Lost \subseteq LBIDs
  BY DEF Lost, FoundLBs
<1> QED
  BY <1>1, <1>2, LoseNone

\* A step pays or is free.
LEMMA StepPays ==
  ASSUME IInv, [Next]_vars
  PROVE  /\ MishapTotal \in Nat
         /\ NoMishap => Free
         /\ \A k : Mishap(k) => Pays
<1>1. mishaps \in MishapCounts
  BY Typed
<1>2. NoMishap => Free
  BY DEF NoMishap, Free, MishapTotal
<1>3. \A k : Mishap(k) => Pays
  BY <1>1, MishapCounted DEF Pays
<1> QED
  BY <1>1, <1>2, <1>3, MishapTotalNat

\* Nothing is lost, and a new risk is paid for.
LEMMA NothingLost ==
  ASSUME IInv, [Next]_vars, Pays \/ Free, Accounted, Lost' \subseteq Lost,
         One(AtRisk)' + One(Unguarded)' <=
           One(AtRisk) + One(Unguarded) + One(Pays)
  PROVE  Accounted'
<1>1. IsFiniteSet(Lost)
  BY FiniteLost
<1>2. /\ Cardinality(Lost') \in Nat /\ Cardinality(Lost) \in Nat
      /\ Cardinality(Lost') <= Cardinality(Lost)
  BY <1>1, LoseNone
<1>3. MishapTotal \in Nat
  BY StepPays
<1> DEFINE before == Cardinality(Lost)
           after == Cardinality(Lost')
           risk == One(AtRisk) + One(Unguarded)
           next == One(AtRisk)' + One(Unguarded)'
<1>4. /\ before \in Nat /\ after \in Nat /\ after <= before
      /\ risk \in Nat /\ next \in Nat
  BY <1>2 DEF One
<1>5. before + risk <= MishapTotal
  BY <1>2 DEF Accounted, One
<1>6. next <= risk + (IF Pays THEN 1 ELSE 0)
  BY DEF One
<1> HIDE DEF before, after, risk, next
<1>7. after + next <= MishapTotal'
  BY <1>3, <1>4, <1>5, <1>6 DEF Pays, Free
<1>8. Cardinality(Lost') + One(AtRisk)' + One(Unguarded)' = after + next
  BY <1>2 DEF after, next, One
<1> QED
  BY <1>7, <1>8 DEF Accounted, One

\* Nothing is lost, and no risk is new that is not paid for.
LEMMA NoNewRisk ==
  ASSUME IInv, [Next]_vars, Pays \/ Free, Accounted, Lost' \subseteq Lost,
         AtRisk' => AtRisk, Pays \/ (Unguarded' => Unguarded)
  PROVE  Accounted'
<1>1. /\ One(AtRisk)' \in Nat /\ One(Unguarded)' \in Nat
      /\ One(AtRisk) \in Nat /\ One(Unguarded) \in Nat /\ One(Pays) \in Nat
  BY DEF One
<1>2. One(AtRisk)' <= One(AtRisk)
  BY DEF One
<1>3. One(Unguarded)' <= One(Unguarded) + One(Pays)
  BY DEF One
<1>4. One(AtRisk)' + One(Unguarded)' <= One(AtRisk) + One(Unguarded) + One(Pays)
  BY <1>1, <1>2, <1>3
<1> QED
  BY <1>4, NothingLost, Zenon

\* Nothing is lost, and what is newly at risk is paid for.
LEMMA NewRiskPaid ==
  ASSUME IInv, [Next]_vars, Pays \/ Free, Accounted, Lost' \subseteq Lost,
         AtRisk' => AtRisk \/ Pays, Unguarded' => Unguarded
  PROVE  Accounted'
<1>1. /\ One(AtRisk)' \in Nat /\ One(Unguarded)' \in Nat
      /\ One(AtRisk) \in Nat /\ One(Unguarded) \in Nat /\ One(Pays) \in Nat
  BY DEF One
<1>2. One(AtRisk)' <= One(AtRisk) + One(Pays)
  BY DEF One
<1>3. One(Unguarded)' <= One(Unguarded)
  BY DEF One
<1>4. One(AtRisk)' + One(Unguarded)' <= One(AtRisk) + One(Unguarded) + One(Pays)
  BY <1>1, <1>2, <1>3
<1> QED
  BY <1>4, NothingLost, Zenon

\* One load balancer is lost; it was at risk or is paid for.
LEMMA OneLost ==
  ASSUME IInv, [Next]_vars, Pays \/ Free, Accounted, NEW x, Lost' \subseteq Lost \union {x},
         1 + One(AtRisk)' + One(Unguarded)' <=
           One(AtRisk) + One(Unguarded) + One(Pays)
  PROVE  Accounted'
<1>1. IsFiniteSet(Lost)
  BY FiniteLost
<1>2. /\ Cardinality(Lost') \in Nat /\ Cardinality(Lost) \in Nat
      /\ Cardinality(Lost') <= Cardinality(Lost) + 1
  BY <1>1, LoseOne, Zenon
<1>3. MishapTotal \in Nat
  BY StepPays
<1> DEFINE before == Cardinality(Lost)
           after == Cardinality(Lost')
           risk == One(AtRisk) + One(Unguarded)
           next == One(AtRisk)' + One(Unguarded)'
<1>4. /\ before \in Nat /\ after \in Nat /\ after <= before + 1
      /\ risk \in Nat /\ next \in Nat
  BY <1>2 DEF One
<1>5. before + risk <= MishapTotal
  BY <1>2 DEF Accounted, One
<1>6. 1 + next <= risk + (IF Pays THEN 1 ELSE 0)
  BY DEF One
<1> HIDE DEF before, after, risk, next
<1>7. after + next <= MishapTotal'
  BY <1>3, <1>4, <1>5, <1>6 DEF Pays, Free
<1>8. Cardinality(Lost') + One(AtRisk)' + One(Unguarded)' = after + next
  BY <1>2 DEF after, next, One
<1> QED
  BY <1>7, <1>8 DEF Accounted, One

\* The sums that the next three lemmas come down to.
LEMMA RiskSums ==
  ASSUME NEW a \in Nat, NEW b \in Nat, NEW c \in Nat, NEW d \in Nat, NEW e \in Nat
  PROVE  /\ c <= a /\ d <= b /\ e = 1 => 1 + c + d <= a + b + e
         /\ a = 1 /\ c = 0 /\ d <= b => 1 + c + d <= a + b + e
         /\ b = 1 /\ d = 0 /\ c <= e => 1 + c + d <= a + b + e
  OBVIOUS

\* A step that loses a load balancer pays for it.
LEMMA LossPaid ==
  ASSUME IInv, [Next]_vars, Pays \/ Free, Accounted, NEW x,
         Lost' \subseteq Lost \union {x},
         Pays, AtRisk' => AtRisk, Unguarded' => Unguarded
  PROVE  Accounted'
<1>1. /\ One(AtRisk)' \in Nat /\ One(Unguarded)' \in Nat
      /\ One(AtRisk) \in Nat /\ One(Unguarded) \in Nat /\ One(Pays) \in Nat
  BY DEF One
<1>2. One(AtRisk)' <= One(AtRisk) /\ One(Pays) = 1
  BY DEF One
<1>3. One(Unguarded)' <= One(Unguarded)
  BY DEF One
<1>4. 1 + One(AtRisk)' + One(Unguarded)' <= One(AtRisk) + One(Unguarded) + One(Pays)
  BY <1>1, <1>2, <1>3, RiskSums, ZenonT(30)
<1> QED
  BY <1>4, OneLost, Zenon

\* What is lost was at risk before.
LEMMA LossWasAtRisk ==
  ASSUME IInv, [Next]_vars, Pays \/ Free, Accounted, NEW x,
         Lost' \subseteq Lost \union {x},
         AtRisk, ~AtRisk', Unguarded' => Unguarded
  PROVE  Accounted'
<1>1. /\ One(AtRisk)' \in Nat /\ One(Unguarded)' \in Nat
      /\ One(AtRisk) \in Nat /\ One(Unguarded) \in Nat /\ One(Pays) \in Nat
  BY DEF One
<1>2. One(AtRisk) = 1 /\ One(AtRisk)' = 0
  BY DEF One
<1>3. One(Unguarded)' <= One(Unguarded)
  BY DEF One
<1>4. 1 + One(AtRisk)' + One(Unguarded)' <= One(AtRisk) + One(Unguarded) + One(Pays)
  BY <1>1, <1>2, <1>3, RiskSums, ZenonT(30)
<1> QED
  BY <1>4, OneLost, Zenon

\* What is lost was named by an object without its finalizer.
LEMMA LossWasUnguarded ==
  ASSUME IInv, [Next]_vars, Pays \/ Free, Accounted, NEW x,
         Lost' \subseteq Lost \union {x},
         Unguarded, ~Unguarded', AtRisk' => Pays
  PROVE  Accounted'
<1>1. /\ One(AtRisk)' \in Nat /\ One(Unguarded)' \in Nat
      /\ One(AtRisk) \in Nat /\ One(Unguarded) \in Nat /\ One(Pays) \in Nat
  BY DEF One
<1>2. One(AtRisk)' <= One(Pays)
  BY DEF One
<1>3. One(Unguarded) = 1 /\ One(Unguarded)' = 0
  BY DEF One
<1>4. 1 + One(AtRisk)' + One(Unguarded)' <= One(AtRisk) + One(Unguarded) + One(Pays)
  BY <1>1, <1>2, <1>3, RiskSums, ZenonT(30)
<1> QED
  BY <1>4, OneLost, Zenon

-----------------------------------------------------------------------------
(* The steps.                                                              *)

\* The account is empty at the start.
LEMMA InitAccounted == Init => Accounted
<1> SUFFICES ASSUME Init PROVE Accounted
  OBVIOUS
<1>1. FoundLBs = {} /\ ~AtRisk /\ ~Unguarded
  BY DEF Init, InitObject, FoundLBs, Found, AtRisk, Unguarded, NewObject
<1>2. Lost = {}
  BY <1>1 DEF Lost
<1>3. Cardinality(Lost) = 0
  BY <1>2, Finite!FS_EmptySet, SameCount
<1>4. MishapTotal = 0
  BY DEF Init, InitObject, MishapTotal, MishapKinds
<1> QED
  BY <1>1, <1>3, <1>4 DEF Accounted, One

\* A step that touches neither what the object says nor the reconciliation.
LEMMA QuietAccount ==
  ASSUME IInv, DInv, [Next]_vars, NoMishap, Accounted, UNCHANGED run, SameSaid,
         store'.finalizer = store.finalizer, FoundLBs' \subseteq FoundLBs
  PROVE  Accounted'
<1>1. Named' = Named /\ Carried' = Carried
  BY DEF Named, Carried, SameSaid, run
<1>2. AtRisk' = AtRisk /\ Unguarded' = Unguarded
  BY <1>1 DEF AtRisk, Unguarded, SameSaid, run
<1>3. Lost' \subseteq Lost
  BY <1>1 DEF Lost
<1> QED
  BY <1>2, <1>3, StepPays, NoNewRisk, Zenon

\* A reconciliation that starts from the latest version risks nothing.
LEMMA StartAccount ==
  ASSUME IInv, DInv, [Next]_vars, Accounted, StartReconcile
  PROVE  Accounted'
<1>1. /\ pc = "idle" /\ orig' = cache /\ UNCHANGED <<store, lbs>>
      /\ pc' \in CloudCalls
      /\ cache \in Objects /\ cache.phase # "gone"
      /\ mem' = cache \/ mem' = [cache EXCEPT !.finalizer = TRUE, !.port = ApplyDefault(@)]
  BY Typed
  DEF StartReconcile, NewClusterScope, Reconcile, ReconcileDelete, ReadCache,
      api, cloud, ApiTypeOK, CloudCalls
<1>2. mem'.lbID = cache.lbID
  BY <1>1, Zenon DEF Objects
<1>3. Named' = Named /\ Carried' = {} /\ Carried = {} /\ FoundLBs' = FoundLBs
  BY <1>1, <1>2 DEF Named, Carried, FoundLBs, Found
<1>4. Lost' \subseteq Lost /\ ~AtRisk /\ (Unguarded' => Unguarded)
  BY <1>1, <1>3 DEF Lost, AtRisk, Unguarded, CloudCalls
<1>5. CASE watch = <<>>
  <2>1. cache = store
    BY <1>5 DEF IInv, CacheFollows
  <2>2. ~AtRisk'
    BY <1>1, <2>1 DEF AtRisk, Named
  <2>3. Free
    BY <1>5, StepPays DEF StartReconcile, ReadCache
  <2> QED
    BY <1>4, <2>2, <2>3, NoNewRisk, Zenon
<1>6. CASE watch # <<>>
  <2>1. Pays
    BY <1>6, StepPays DEF StartReconcile, ReadCache
  <2> QED
    BY <1>4, <2>1, NewRiskPaid, Zenon
<1> QED
  BY <1>5, <1>6

\* The calls.  A new load balancer is carried by the reconciliation that
\* created it; when the answer is lost nobody names it, and that is a mishap.
LEMMA CallsAccount ==
  ASSUME IInv, DInv, [Next]_vars, Accounted, CallSucceeds \/ CallFails \/ ReplyLost
  PROVE  Accounted'
<1>1. /\ pc \in CloudCalls /\ orig' = orig /\ store' = store
      /\ pc' \in CloudCalls \union {"PatchSpec"}
      /\ Keeps \/ Creates
  BY CallFacts DEF api
<1>2. /\ mem \in Objects /\ orig \in Objects /\ mem.lbID = orig.lbID
      /\ lbs \in [LBIDs -> LBStatuses] /\ KnownLB(orig)
  BY <1>1, AtCall DEF CloudOK, DInv, AllKnown
<1>3. Named' = Named /\ Carried = {}
  BY <1>1, <1>2 DEF Named, Carried
<1>4. AtRisk' = AtRisk /\ Unguarded' = Unguarded
  BY <1>1, <1>3 DEF AtRisk, Unguarded, CloudCalls
<1>5. Pays \/ Free
  <2>1. NoMishap \/ Mishap("lostReply")
    BY DEF CallSucceeds, CallFails, ReplyLost, GetLoadBalancer, CreateLoadBalancer,
           GetDomainRecord, UpsertDomainRecord, CheckDNSPropagated, DeleteDomainRecord,
           DeleteGetLoadBalancer, DeleteLoadBalancer, NoMishap
  <2> QED
    BY <2>1, StepPays
<1>6. CASE Keeps
  <2>1. FoundLBs' \subseteq FoundLBs /\ Carried' = {}
    BY <1>1, <1>2, <1>6, Zenon DEF Keeps, LBDeleted, Destroyed, FoundLBs, Found, Carried
  <2>2. Lost' \subseteq Lost
    BY <1>3, <2>1 DEF Lost
  <2> QED
    BY <1>4, <1>5, <2>2, NoNewRisk, Zenon
<1>7. CASE Creates
  <2>1. PICK l \in LBIDs :
          /\ LBCreated(l)
          /\ mem'.lbID = l \/ (mem'.lbID = mem.lbID /\ Mishap("lostReply"))
    BY <1>7 DEF Creates
  <2>2. FoundLBs' \subseteq FoundLBs \union {l} /\ lbs[l] = "none"
    BY <1>2, <2>1 DEF FoundLBs, Found, LBCreated
  <2>3. l # orig.lbID
    BY <1>2, <2>2 DEF KnownLB, NoLB, LBIDs
  <2>4. CASE mem'.lbID = l
    <3>1. Carried' = {l}
      BY <1>1, <2>3, <2>4 DEF Carried, CloudCalls
    <3>2. Lost' \subseteq Lost
      BY <1>3, <2>2, <3>1 DEF Lost
    <3> QED
      BY <1>4, <1>5, <3>2, NoNewRisk, Zenon
  <2>5. CASE mem'.lbID = mem.lbID /\ Mishap("lostReply")
    <3>1. Lost' \subseteq Lost \union {l} /\ Pays
      BY <1>3, <2>2, <2>5, StepPays DEF Lost
    <3> QED
      BY <1>4, <3>1, LossPaid, Zenon
  <2> QED
    BY <2>1, <2>4, <2>5
<1> QED
  BY <1>1, <1>6, <1>7

\* The first request of Close loses the load balancer that the object names
\* only if the reconciliation had read something else there.  When it fails
\* the finalizer may be missing; when the webhook refuses it, it is not.
LEMMA PatchSpecAccount ==
  ASSUME IInv, DInv, [Next]_vars, Accounted, PatchSpec
  PROVE  Accounted'
<1>1. /\ pc = "PatchSpec" /\ pc' = "PatchStatus" /\ UNCHANGED <<orig, mem, lbs>>
      /\ store \in Objects /\ orig \in Objects /\ mem \in Objects
      /\ CopyOK(store) /\ CopyOK(orig)
  BY Typed DEF PatchSpec, cloud, ApiTypeOK
<1>2. /\ ~mem.finalizer => /\ orig.phase = "deleting" /\ mem.lbID = orig.lbID
                           /\ ~Found(orig.lbID)
      /\ protected /\ store.phase # "gone" => store.finalizer
      /\ Announced(store) => protected
  BY <1>1, Zenon DEF IInv, RunOK, ProtectionOK, DInv, Superseded, PatchCalls
<1>3. Carried' = Carried /\ FoundLBs' = FoundLBs
  BY <1>1 DEF Carried, FoundLBs, Found
<1>4. CASE UNCHANGED store
  <2>1. Lost' \subseteq Lost /\ (AtRisk' => AtRisk)
    BY <1>1, <1>3, <1>4 DEF Lost, Named, AtRisk
  <2>2. CASE RequestFails
    <3>1. Pays
      BY <2>2, StepPays DEF RequestFails
    <3> QED
      BY <2>1, <3>1, NoNewRisk, Zenon
  <2>3. CASE (store.phase # "gone" => ~ValidateUpdate(store, SpecPatch)) /\ NoMishap
    <3>1. store.phase # "gone" => store.finalizer
      BY <1>1, <1>2, <2>3, Zenon DEF ValidateUpdate
    <3>2. ~Unguarded' /\ Free
      BY <1>4, <2>3, <3>1, StepPays DEF Unguarded
    <3> QED
      BY <2>1, <3>2, NoNewRisk, Zenon
  <2>4. CASE Write(SpecPatch) /\ NoMishap /\ store.phase # "gone"
    <3>1. store.finalizer = Merged(store.finalizer, orig.finalizer, mem.finalizer)
      BY <1>1, <1>4, <2>4, SpecPatchFacts DEF Write
    <3>2. store.finalizer \/ store.phase # "live"
      BY <1>1, <1>2, <2>4, <3>1 DEF Merged, CopyOK, Objects
    <3>3. ~Unguarded' /\ Free
      BY <1>4, <2>4, <3>2, StepPays DEF Unguarded
    <3> QED
      BY <2>1, <3>3, NoNewRisk, Zenon
  <2> QED
    BY <2>2, <2>3, <2>4 DEF PatchSpec
<1>5. CASE store.phase # "gone" /\ Write(SpecPatch) /\ NoMishap
  <2>1. /\ store' = SpecPatch
        /\ SpecPatch.finalizer = Merged(store.finalizer, orig.finalizer, mem.finalizer)
        /\ SpecPatch.lbID = store.lbID
        /\ SpecPatch.phase = IF store.phase = "deleting" /\ ~SpecPatch.finalizer
                             THEN "gone" ELSE store.phase
    BY <1>1, <1>5, SpecPatchFacts DEF Write
  <2>2. Free
    BY <1>5, StepPays
  <2>3. CASE store'.phase = "gone"
    <3>1. ~mem.finalizer
      BY <1>1, <1>2, <1>5, <2>1, <2>3 DEF Merged, CopyOK, Objects
    <3>2. ~AtRisk' /\ ~Unguarded'
      BY <1>1, <1>2, <2>3, <3>1 DEF AtRisk, Unguarded, Carried
    <3>3. Lost' \subseteq Lost \union {store.lbID}
      BY <1>3 DEF Lost, Named
    <3>4. CASE store.lbID = orig.lbID
      <4>1. store.lbID \notin FoundLBs'
        BY <1>2, <1>3, <3>1, <3>4 DEF FoundLBs
      <4>2. Lost' \subseteq Lost
        BY <3>3, <4>1 DEF Lost
      <4> QED
        BY <2>2, <3>2, <4>2, NoNewRisk, Zenon
    <3>5. CASE store.lbID # orig.lbID
      <4>1. AtRisk
        BY <1>1, <3>5 DEF AtRisk, Named
      <4> QED
        BY <2>2, <3>2, <3>3, <4>1, LossWasAtRisk, Zenon
    <3> QED
      BY <3>4, <3>5
  <2>4. CASE store'.phase # "gone"
    <3>1. Named' = Named
      BY <1>5, <2>1, <2>4 DEF Named
    <3>2. Lost' \subseteq Lost /\ (AtRisk' => AtRisk)
      BY <1>1, <1>3, <3>1 DEF Lost, AtRisk
    <3>3. store'.finalizer \/ store'.phase # "live"
      BY <1>1, <1>2, <1>5, <2>1 DEF Merged, CopyOK, Objects
    <3>4. ~Unguarded'
      BY <3>3 DEF Unguarded
    <3> QED
      BY <2>2, <3>2, <3>4, NoNewRisk, Zenon
  <2> QED
    BY <2>3, <2>4
<1> QED
  BY <1>4, <1>5 DEF PatchSpec, RequestFails, api

\* The end of a reconciliation drops what it carried, unless it is recorded.
LEMMA EndAccount ==
  ASSUME IInv, DInv, [Next]_vars, Accounted, PatchStatus \/ Crash
  PROVE  Accounted'
<1>1. /\ pc' = "idle" /\ UNCHANGED lbs /\ Carried \subseteq {mem.lbID}
      /\ store \in Objects /\ orig \in Objects /\ mem \in Objects
  BY Typed DEF PatchStatus, Crash, Idle, cloud, Carried, ApiTypeOK
<1>2. Carried' = {} /\ ~AtRisk' /\ FoundLBs' = FoundLBs
  BY <1>1 DEF Carried, AtRisk, FoundLBs, Found
<1>3. CASE UNCHANGED store
  <2>1. /\ Named' = Named /\ (Unguarded' => Unguarded)
        /\ Lost' \subseteq Lost \union {mem.lbID}
    BY <1>1, <1>2, <1>3 DEF Named, Unguarded, Lost
  <2>2. CASE Pays
    BY <1>2, <2>1, <2>2, LossPaid, Zenon
  <2>3. CASE Free /\ Carried = {}
    <3>1. Lost' \subseteq Lost
      BY <1>2, <2>1, <2>3 DEF Lost
    <3> QED
      BY <1>2, <2>1, <2>3, <3>1, NoNewRisk, Zenon
  <2>4. CASE Free /\ Carried # {} /\ store.phase = "gone"
    <3>1. AtRisk /\ ~Unguarded'
      BY <1>3, <2>4 DEF AtRisk, Carried, Named, Unguarded
    <3> QED
      BY <1>2, <2>1, <2>4, <3>1, LossWasAtRisk, Zenon
  <2>5. CASE Write(StatusPatch) /\ store.phase # "gone" /\ pc = "PatchStatus" /\ Free
    <3>1. store.lbID = Merged(store.lbID, orig.lbID, mem.lbID)
      BY <1>1, <1>3, <2>5, StatusPatchFacts DEF Write
    <3>2. Carried \subseteq Named
      BY <2>5, <3>1 DEF Carried, Named, Merged
    <3>3. Lost' \subseteq Lost
      BY <1>2, <2>1, <3>2 DEF Lost
    <3> QED
      BY <1>2, <2>1, <2>5, <3>3, NoNewRisk, Zenon
  <2> QED
    BY <2>2, <2>3, <2>4, <2>5, StepPays DEF PatchStatus, RequestFails, Crash, Restart
<1>4. CASE store.phase # "gone" /\ Write(StatusPatch) /\ NoMishap /\ pc = "PatchStatus"
  <2>1. /\ store'.phase = store.phase /\ store'.finalizer = store.finalizer
        /\ store'.lbID = Merged(store.lbID, orig.lbID, mem.lbID) /\ Free
    BY <1>1, <1>4, StatusPatchFacts, StepPays DEF Write
  <2>2. CASE mem.lbID = orig.lbID
    <3>1. Named' = Named /\ Carried = {} /\ (Unguarded' => Unguarded)
      BY <1>1, <2>1, <2>2 DEF Named, Carried, Unguarded, Merged
    <3>2. Lost' \subseteq Lost
      BY <1>2, <3>1 DEF Lost
    <3> QED
      BY <1>2, <2>1, <3>1, <3>2, NoNewRisk, Zenon
  <2>3. CASE mem.lbID # orig.lbID
    <3>1. Named' = {mem.lbID} /\ Carried = {mem.lbID} /\ Named = {store.lbID}
      BY <1>4, <2>1, <2>3 DEF Named, Carried, Merged
    <3>2. /\ Unguarded' => Unguarded
          /\ Lost' \subseteq Lost \union {store.lbID}
      BY <1>1, <1>2, <1>4, <2>1, <3>1 DEF Unguarded, Lost
    <3>3. CASE store.lbID = orig.lbID
      <4>1. store.lbID \notin FoundLBs'
        BY <1>2, <1>4, <2>3, <3>3, Zenon DEF DInv, Superseded, PatchCalls, FoundLBs
      <4>2. Lost' \subseteq Lost
        BY <3>2, <4>1 DEF Lost
      <4> QED
        BY <1>2, <2>1, <3>2, <4>2, NoNewRisk, Zenon
    <3>4. CASE store.lbID # orig.lbID
      <4>1. AtRisk
        BY <1>4, <3>1, <3>4 DEF AtRisk
      <4> QED
        BY <1>2, <2>1, <3>2, <4>1, LossWasAtRisk, Zenon
    <3> QED
      BY <3>3, <3>4
  <2> QED
    BY <2>2, <2>3
<1> QED
  BY <1>3, <1>4 DEF PatchStatus, RequestFails, Crash, Restart, api

\* Without a finalizer the deletion is at once.
LEMMA DeleteAccount ==
  ASSUME IInv, DInv, [Next]_vars, Accounted, UserDelete
  PROVE  Accounted'
<1> DEFINE obj == Finalized([store EXCEPT !.phase = "deleting"])
<1>1. /\ store' = obj /\ store.phase = "live" /\ store \in Objects
      /\ UNCHANGED <<lbs, pc, orig, mem>>
      /\ Pays \/ Free
      /\ ~store.finalizer /\ pc # "idle" => Pays
  BY Typed, StepPays DEF UserDelete, Delete, Write, ApiTypeOK, cloud, run
<1>2. /\ obj.lbID = store.lbID
      /\ obj.phase = IF store.finalizer THEN "deleting" ELSE "gone"
  BY <1>1 DEF Finalized, Objects, Phases
<1>3. Carried' = Carried /\ FoundLBs' = FoundLBs /\ ~Unguarded'
  BY <1>1, <1>2 DEF Carried, FoundLBs, Found, Unguarded
<1>4. CASE store.finalizer
  <2>1. Named' = Named
    BY <1>1, <1>2, <1>4 DEF Named
  <2>2. (AtRisk' => AtRisk) /\ Lost' \subseteq Lost
    BY <1>1, <1>3, <2>1 DEF AtRisk, Lost
  <2> QED
    BY <1>1, <1>3, <2>2, NoNewRisk, Zenon
<1>5. CASE ~store.finalizer
  <2>1. AtRisk' => Pays
    BY <1>1, <1>5 DEF AtRisk
  <2>2. Lost' \subseteq Lost \union {store.lbID}
    BY <1>3 DEF Lost, Named
  <2>3. CASE store.lbID = NoLB
    <3>1. store.lbID \notin FoundLBs'
      BY <1>3, <2>3 DEF FoundLBs, Found
    <3>2. Lost' \subseteq Lost
      BY <2>2, <3>1 DEF Lost
    <3> QED
      BY <1>1, <1>3, <2>1, <3>2, NewRiskPaid, Zenon
  <2>4. CASE store.lbID # NoLB
    <3>1. Unguarded
      BY <1>1, <1>5, <2>4 DEF Unguarded
    <3> QED
      BY <1>1, <1>3, <2>1, <2>2, <3>1, LossWasUnguarded, Zenon
  <2> QED
    BY <2>3, <2>4
<1> QED
  BY <1>4, <1>5

\* Every step keeps the account.
LEMMA NextAccounted == IInv /\ DInv /\ Accounted /\ [Next]_vars => Accounted'
<1> SUFFICES ASSUME IInv, DInv, Accounted, [Next]_vars PROVE Accounted'
  OBVIOUS
<1>1. CASE Controller
  BY <1>1, StartAccount, CallsAccount, PatchSpecAccount, EndAccount DEF Controller
<1>2. CASE UserDelete \/ Crash
  BY <1>2, DeleteAccount, EndAccount
<1>3. CASE UserUpdate
  <2>1. SameSaid /\ store'.finalizer = store.finalizer
    BY <1>3, UserUpdateFacts DEF SameSaid, Write
  <2>2. UNCHANGED run /\ NoMishap /\ UNCHANGED lbs
    BY <1>3 DEF UserUpdate, cloud, NoMishap
  <2> QED
    BY <2>1, <2>2, QuietAccount DEF FoundLBs, Found
<1>4. CASE Environment /\ ~UserDelete /\ ~Crash /\ ~UserUpdate
  <2>1. UNCHANGED <<store, run, mishaps>>
    BY <1>4
    DEF Environment, DeliverEvent, Deliver, LBAddress, LBProgress, ExternalChange,
        DNSProgress, api
  <2>2. lbs \in [LBIDs -> LBStatuses]
    BY DEF IInv, TypeOK
  <2>3. FoundLBs' \subseteq FoundLBs
    BY <1>4, <2>2, ZenonT(60)
    DEF Environment, DeliverEvent, LBAddress, LBProgress, ExternalChange, Destroyed,
        DNSProgress, cloud, FoundLBs, Found
  <2> QED
    BY <2>1, <2>3, QuietAccount DEF SameSaid, NoMishap
<1>5. CASE Finished \/ UNCHANGED vars
  <2>1. UNCHANGED <<store, lbs, run, mishaps>>
    BY <1>5 DEF Finished, vars, run
  <2> QED
    BY <2>1, QuietAccount DEF SameSaid, NoMishap, FoundLBs, Found
<1> QED
  BY <1>1, <1>2, <1>3, <1>4, <1>5 DEF Next

\* The account balances in every state.
THEOREM AccountInvariance == Spec => [](IInv /\ DInv /\ Accounted)
<1>1. Init => Accounted
  BY InitAccounted
<1>2. IInv /\ DInv /\ Accounted /\ [Next]_vars => Accounted'
  BY NextAccounted
<1> QED
  BY <1>1, <1>2, LBInvariance, PTL DEF Spec

\* A load balancer of a DOCluster escapes the controller's bookkeeping only
\* through a mishap (a crash, a lost answer, a failed patch, a stale read, a
\* deletion before the finalizer arrived), and each mishap costs at most one
\* load balancer.
THEOREM LeaksAreBounded == Spec => []LeaksBoundedByMishaps
<1>1. IInv /\ Accounted => LeaksBoundedByMishaps
  <2> SUFFICES ASSUME IInv, Accounted PROVE LeaksBoundedByMishaps
    OBVIOUS
  <2>1. IsFiniteSet(Lost) /\ Cardinality(Lost) \in Nat
    BY FiniteLost
  <2>2. Orphans \subseteq Lost
    BY DEF Orphans, Lost, Named, Carried, FoundLBs
  <2>3. Cardinality(Orphans) \in Nat /\ Cardinality(Orphans) <= Cardinality(Lost)
    BY <2>1, <2>2, LoseNone
  <2>4. MishapTotal \in Nat
    BY Typed, MishapTotalNat
  <2> DEFINE lost == Cardinality(Lost)
  <2>5. lost \in Nat /\ lost + One(AtRisk) + One(Unguarded) <= MishapTotal
    BY <2>1 DEF Accounted
  <2> HIDE DEF lost
  <2>6. lost <= MishapTotal
    BY <2>4, <2>5 DEF One
  <2> QED
    BY <2>1, <2>3, <2>4, <2>6 DEF LeaksBoundedByMishaps, lost
<1> QED
  BY <1>1, AccountInvariance, PTL

-----------------------------------------------------------------------------
(* What the account says of the load balancers that are there.             *)

\* Of the load balancers that are not lost, one at most is there, or the
\* second is booked as a risk: a reconciliation replaces only one that is gone.
LEMMA OneIsKept ==
  ASSUME IInv, DInv
  PROVE  \E x, y : /\ FoundLBs \subseteq (Lost \union {x}) \union {y}
                   /\ x = y \/ AtRisk
<1> DEFINE Fits == \E x, y : /\ FoundLBs \subseteq (Lost \union {x}) \union {y}
                             /\ x = y \/ AtRisk
<1>1. FoundLBs \subseteq Lost \union Named \union Carried
  BY DEF Lost
<1>2. ASSUME NEW x, FoundLBs \subseteq Lost \union {x} PROVE Fits
  <2>1. FoundLBs \subseteq (Lost \union {x}) \union {x}
    BY <1>2, Zenon
  <2> QED
    BY <2>1, Zenon
<1>3. Named \subseteq {store.lbID} /\ Carried \subseteq {mem.lbID}
  BY DEF Named, Carried
<1>4. CASE Carried = {}
  <2>1. FoundLBs \subseteq Lost \union {store.lbID}
    BY <1>1, <1>3, <1>4, Zenon
  <2> QED
    BY <1>2, <2>1, Zenon
<1>5. CASE Carried # {} /\ ~AtRisk
  <2>1. pc # "idle" /\ mem.lbID # orig.lbID
    BY <1>5 DEF Carried
  <2>2. pc \in PatchCalls
    BY <2>1 DEF IInv, RunOK, TypeOK, PCs, PatchCalls
  <2>3. orig.lbID \in Named
    BY <1>5, <2>1 DEF AtRisk
  <2>4. orig.lbID \notin FoundLBs /\ Named = {orig.lbID}
    BY <1>3, <2>1, <2>2, <2>3, Zenon DEF DInv, Superseded, FoundLBs
  <2>5. FoundLBs \subseteq Lost \union {mem.lbID}
    BY <1>1, <1>3, <2>4, Zenon
  <2> QED
    BY <1>2, <2>5, Zenon
<1>6. CASE AtRisk
  <2>1. FoundLBs \subseteq (Lost \union {store.lbID}) \union {mem.lbID}
    BY <1>1, <1>3, Zenon
  <2> QED
    BY <1>6, <2>1, Zenon
<1> QED
  BY <1>4, <1>5, <1>6, Zenon

\* Without a mishap a DOCluster never has two load balancers, and each mishap
\* adds at most one (GetLoadBalancer before CreateLoadBalancer, Close after it).
THEOREM OneLB == Spec => []OneLBPerCluster
<1>1. IInv /\ DInv /\ Accounted => OneLBPerCluster
  <2> SUFFICES ASSUME IInv, DInv, Accounted
               PROVE  Cardinality(FoundLBs) <= MishapTotal + 1
    BY DEF OneLBPerCluster, FoundLBs
  <2>1. PICK x, y : FoundLBs \subseteq (Lost \union {x}) \union {y} /\ (x = y \/ AtRisk)
    BY OneIsKept, Zenon
  <2>2. IsFiniteSet(Lost)
    BY FiniteLost
  <2>3. /\ IsFiniteSet(Lost \union {x}) /\ Cardinality(Lost \union {x}) \in Nat
        /\ Cardinality(Lost) \in Nat
        /\ Cardinality(Lost \union {x}) <= Cardinality(Lost) + 1
    BY <2>2, LoseOne, ZenonT(60)
  <2>4. /\ Cardinality(FoundLBs) \in Nat
        /\ Cardinality(FoundLBs) <= Cardinality(Lost \union {x}) + 1
    BY <2>1, <2>3, LoseOne, ZenonT(60)
  <2>5. MishapTotal \in Nat
    BY Typed, MishapTotalNat
  <2>6. One(AtRisk) \in Nat /\ One(Unguarded) \in Nat
    BY DEF One
  <2>7. Cardinality(Lost) + One(AtRisk) <= MishapTotal
    BY <2>3, <2>5, <2>6 DEF Accounted
  <2>8. CASE AtRisk
    <3>1. Cardinality(Lost) + 1 <= MishapTotal
      BY <2>7, <2>8 DEF One
    <3> QED
      BY <2>3, <2>4, <2>5, <3>1
  <2>9. CASE ~AtRisk
    <3>1. FoundLBs \subseteq Lost \union {x}
      BY <2>1, <2>9, Zenon
    <3>2. Cardinality(FoundLBs) <= Cardinality(Lost) + 1
      BY <2>2, <3>1, LoseOne, ZenonT(60)
    <3> QED
      BY <2>3, <2>4, <2>5, <2>6, <2>7, <3>2
  <2> QED
    BY <2>8, <2>9
<1> QED
  BY <1>1, AccountInvariance, PTL

-----------------------------------------------------------------------------
(***************************************************************************)
(* What is left when a DOCluster is gone.  Once the finalizer has been     *)
(* persisted, RecordsReclaimed tells.  Before that, and without a mishap,  *)
(* no reconciliation has come to its end: there is no record yet, or the   *)
(* reconciliation that creates it is running and the object still there.   *)
(***************************************************************************)
NoRecords == \A n \in Names : records[n] = NoAddress

Clean ==
  MishapTotal = 0 /\ ~protected =>
    /\ pc = "idle" => NoRecords
    /\ pc # "idle" => store.phase = "live" /\ pc # "PatchStatus"

\* A step without a mishap, from a state without one.
LEMMA UnmarredStep ==
  ASSUME IInv, [Next]_vars, MishapTotal' = 0
  PROVE  MishapTotal = 0 /\ NoMishap /\ \A k : ~Mishap(k)
<1>1. MishapTotal \in Nat /\ (NoMishap => Free) /\ \A k : Mishap(k) => Pays
  BY StepPays
<1>2. \A k : ~Mishap(k)
  BY <1>1 DEF Pays
<1>3. NoMishap
  BY <1>2, AtMostOneMishap
<1> QED
  BY <1>1, <1>2, <1>3 DEF Free

\* The finalizer arrives with the first request of Close.
LEMMA CleanStep == IInv /\ Clean /\ [Next]_vars => Clean'
<1> SUFFICES ASSUME IInv, Clean, [Next]_vars, MishapTotal' = 0, ~protected'
             PROVE  /\ pc' = "idle" => NoRecords'
                    /\ pc' # "idle" => store'.phase = "live" /\ pc' # "PatchStatus"
  BY DEF Clean
<1>1. MishapTotal = 0 /\ NoMishap /\ \A k : ~Mishap(k)
  BY UnmarredStep
<1>2. /\ store \in Objects /\ orig \in Objects /\ mem \in Objects /\ cache \in Objects
      /\ CopyOK(store) /\ CopyOK(cache) /\ CopyOK(orig)
  BY Typed DEF ApiTypeOK
<1>3. ASSUME ~protected, UNCHANGED <<pc, records>>, store'.phase = store.phase
      PROVE  /\ pc' = "idle" => NoRecords'
             /\ pc' # "idle" => store'.phase = "live" /\ pc' # "PatchStatus"
  BY <1>1, <1>3 DEF Clean, NoRecords
<1>4. CASE StartReconcile
  <2>1. /\ UNCHANGED <<store, protected>> /\ watch = <<>>
        /\ cache.phase \in {"live", "deleting"}
        /\ pc' \in {"GetLoadBalancer", "DeleteDomainRecord", "DeleteGetLoadBalancer"}
    BY <1>1, <1>4 DEF StartReconcile, Reconcile, ReconcileDelete, ReadCache, api
  <2>2. store.phase = "live"
    BY <1>2, <2>1 DEF IInv, CacheFollows, CopyOK
  <2> QED
    BY <2>1, <2>2
<1>5. CASE CallSucceeds \/ CallFails \/ ReplyLost
  <2>1. /\ pc \in CloudCalls /\ UNCHANGED <<store, protected>>
        /\ pc' \in CloudCalls \union {"PatchSpec"}
    BY <1>5, CallFacts DEF api
  <2> QED
    BY <1>1, <2>1 DEF Clean, CloudCalls
<1>6. CASE PatchSpec
  <2>1. protected => protected'
    BY <1>1, <1>6, ZenonT(60) DEF PatchSpec, Write, RequestFails, api
  <2>2. store.phase = "live" /\ pc = "PatchSpec"
    BY <1>1, <1>6, <2>1 DEF PatchSpec, Clean
  <2>3. ~orig.finalizer /\ mem.finalizer
    BY <1>2, <2>1, <2>2 DEF CopyOK, IInv, RunOK, PatchCalls
  <2>4. SpecPatch.finalizer
    BY <1>2, <2>2, <2>3, SpecPatchFacts, ZenonT(60) DEF Merged
  <2>5. ~Announced(store)
    BY <2>1 DEF IInv, ProtectionOK
  <2>6. Write(SpecPatch)
    BY <1>1, <1>6, <2>2, <2>5 DEF PatchSpec, RequestFails, ValidateUpdate
  <2> QED
    BY <2>4, <2>6, ZenonT(60) DEF Write
<1>7. CASE PatchStatus
  <2>1. protected => protected'
    BY <1>1, <1>7, ZenonT(60) DEF PatchStatus, Write, RequestFails, api
  <2> QED
    BY <1>1, <1>7, <2>1 DEF PatchStatus, Clean
<1>8. CASE UserDelete
  <2>1. UNCHANGED <<pc, records>> /\ (protected => protected')
    BY <1>8, ZenonT(60) DEF UserDelete, Delete, Write, cloud, run
  <2>2. pc = "idle"
    BY <1>1, <1>2, <1>8, <2>1 DEF UserDelete, Delete, CopyOK
  <2> QED
    BY <1>1, <2>1, <2>2 DEF Clean, NoRecords
<1>9. CASE UserUpdate
  <2>1. UNCHANGED <<pc, records>> /\ (protected => protected')
    BY <1>9, ZenonT(60) DEF UserUpdate, Write, cloud, run
  <2>2. store'.phase = store.phase
    BY <1>9, UserUpdateFacts DEF Write
  <2> QED
    BY <1>3, <2>1, <2>2
<1>10. CASE Environment /\ ~UserDelete /\ ~UserUpdate
  <2>1. UNCHANGED <<store, protected, pc, records>>
    BY <1>1, <1>10
    DEF Environment, DeliverEvent, Deliver, LBAddress, LBProgress, DNSProgress, ExternalChange,
        Crash, Restart, api, cloud, run
  <2> QED
    BY <1>3, <2>1
<1>11. CASE Finished \/ UNCHANGED vars
  <2>1. UNCHANGED <<store, protected, pc, records>>
    BY <1>11 DEF Finished, vars
  <2> QED
    BY <1>3, <2>1
<1> QED
  BY <1>4, <1>5, <1>6, <1>7, <1>8, <1>9, <1>10, <1>11 DEF Next, Controller

\* Without a mishap a DOCluster that is gone has left neither a load balancer
\* nor the record of its name, at whatever moment it was deleted: what the
\* comment of ClusterFinalizer promises.
THEOREM NothingIsLeft == Spec => []NothingLeftBehind
<1>1. Init => Clean
  BY DEF Init, Clean, NoRecords
<1>2. Spec => []Clean
  BY <1>1, CleanStep, Invariance, PTL DEF Spec
<1>3. IInv /\ Clean /\ LeaksBoundedByMishaps => NothingLeftBehind
  <2> SUFFICES ASSUME IInv, Clean, LeaksBoundedByMishaps,
                      MishapTotal = 0, store.phase = "gone", pc = "idle"
               PROVE  /\ \A l \in LBIDs : ~Found(l)
                      /\ store.dns # NoName /\ edits["lateDNS"] = 0
                           => records[store.dns] = NoAddress
    BY DEF NothingLeftBehind
  <2>1. Orphans = FoundLBs
    BY DEF Orphans, FoundLBs
  <2>2. IsFiniteSet(LBIDs)
    BY ClusterAssumption, Finite!FS_Interval, SameCount DEF LBIDs
  <2>3. IsFiniteSet(FoundLBs) /\ Cardinality(FoundLBs) \in Nat
    BY <2>2, LoseNone DEF FoundLBs
  <2>4. Cardinality(FoundLBs) = 0
    BY <2>1, <2>3 DEF LeaksBoundedByMishaps
  <2>5. FoundLBs = {}
    BY <2>3, <2>4, Finite!FS_EmptySet, SameCount
  <2>6. store.dns \in Names \union {NoName}
    BY Typed DEF ApiTypeOK, Objects
  <2>7. store.dns # NoName /\ edits["lateDNS"] = 0 => records[store.dns] = NoAddress
    BY <2>6 DEF Clean, NoRecords, IInv, ProtectionOK, Unrecorded
  <2> QED
    BY <2>5, <2>7 DEF FoundLBs
<1> QED
  BY <1>2, <1>3, Invariance, LeaksAreBounded, PTL

-----------------------------------------------------------------------------
(***************************************************************************)
(* The endpoint and the load balancer.  The endpoint goes out with the     *)
(* first request of Close and the ID with the second, and the endpoint can *)
(* not be changed afterwards.  They agree because a reconciliation decides *)
(* on an endpoint only for the load balancer it found under the ID that it *)
(* had read, and replaces one only when it is gone.                        *)
(***************************************************************************)
LBHostOK ==
  store.host \in LBIDs =>
    lbs[store.host] # "none" /\ (Found(store.host) => store.lbID = store.host)

NewHostOK ==
  pc \in PatchCalls /\ mem.host # orig.host /\ mem.host \in LBIDs =>
    mem.host = mem.lbID /\ mem.lbID = orig.lbID

EndpointInv == ~Happened("staleRead") => LBHostOK /\ NewHostOK

\* What a call makes of the endpoint.
HostEffect ==
  \/ mem'.host = mem.host
  \/ mem'.host \notin LBIDs
  \/ mem'.host = mem.lbID /\ mem'.lbID = mem.lbID

\* The last statements of reconcile decide on it.
LEMMA FinishHost ==
  ASSUME NEW obj \in Objects, obj.lbID = mem.lbID, NEW ip, Finish(obj, ip)
  PROVE  HostEffect
<1>1. /\ mem'.host = IF obj.dns # NoName THEN obj.dns ELSE IF ip THEN obj.lbID ELSE NoName
      /\ mem'.lbID = obj.lbID
  BY DEF Finish, Return, Objects
<1>2. obj.dns \notin LBIDs /\ NoName \notin LBIDs
  BY ClusterAssumption, Zenon DEF Objects, LBIDs
<1> QED
  BY <1>1, <1>2 DEF HostEffect

\* Every call keeps to it.
LEMMA CallHost ==
  ASSUME IInv, CallSucceeds \/ CallFails \/ ReplyLost
  PROVE  HostEffect
<1>1. mem \in Objects
  BY Typed
<1>2. ASSUME mem'.host = mem.host PROVE HostEffect
  BY <1>2 DEF HostEffect
<1>3. CASE GetLoadBalancer
  <2>1. [mem EXCEPT !.lbID = mem.lbID] = mem
    BY <1>1 DEF Objects
  <2>2. Finish(mem, hasIP[mem.lbID]) \/ mem' = mem
    BY <1>3, <2>1 DEF GetLoadBalancer, HaveLB, LBReady, Return, Call
  <2> QED
    BY <1>1, <1>2, <2>2, FinishHost
<1>4. CASE CreateLoadBalancer
  <2>1. PICK l \in LBIDs : mem' = [mem EXCEPT !.lbID = l]
    BY <1>4 DEF CreateLoadBalancer, Return
  <2> QED
    BY <1>1, <1>2, <2>1 DEF Objects
<1>5. CASE GetDomainRecord
  <2>1. Finish(mem, addressed) \/ mem' = mem \/ mem' = [mem EXCEPT !.dnsReady = FALSE]
    BY <1>5 DEF GetDomainRecord, RecordWritten, Call
  <2> QED
    BY <1>1, <1>2, <2>1, FinishHost DEF Objects
<1>6. CASE CheckDNSPropagated
  <2> DEFINE obj == [mem EXCEPT !.dnsReady = TRUE]
  <2>1. Finish(obj, addressed) \/ mem' = mem
    BY <1>6 DEF CheckDNSPropagated, Return
  <2>2. obj \in Objects /\ obj.lbID = mem.lbID
    BY <1>1, Zenon DEF Objects
  <2> HIDE DEF obj
  <2> QED
    BY <1>2, <2>1, <2>2, FinishHost
<1>7. CASE UpsertDomainRecord \/ DeleteDomainRecord \/ CallFails \/ ReplyLost
  BY <1>2, <1>7 DEF UpsertDomainRecord, DeleteDomainRecord, CallFails, ReplyLost, Call, Return
<1>8. CASE DeleteGetLoadBalancer \/ DeleteLoadBalancer
  <2>1. mem' = mem \/ mem' = [mem EXCEPT !.finalizer = FALSE]
    BY <1>8 DEF DeleteGetLoadBalancer, DeleteLoadBalancer, Call, Return
  <2> QED
    BY <1>1, <1>2, <2>1 DEF Objects
<1> QED
  BY <1>3, <1>4, <1>5, <1>6, <1>7, <1>8 DEF CallSucceeds

\* What the object says of endpoint and load balancer does not change.
LEMMA SameHost ==
  ASSUME IInv, [Next]_vars, LBHostOK, store'.host = store.host, store'.lbID = store.lbID
  PROVE  LBHostOK'
<1>1. LBsAge
  BY StepAges
<1>2. CASE store.host \in LBIDs
  <2>1. lbs'[store.host] # "none"
    BY <1>1, <1>2 DEF LBHostOK, LBsAge
  <2>2. Found(store.host)' => Found(store.host)
    BY <1>1, <1>2 DEF LBHostOK, LBsAge, Found
  <2> QED
    BY <1>2, <2>1, <2>2 DEF LBHostOK
<1>3. CASE store.host \notin LBIDs
  BY <1>3 DEF LBHostOK
<1> QED
  BY <1>2, <1>3

\* Every step keeps the endpoint and the load balancer together.
LEMMA EndpointStep == IInv /\ DInv /\ EndpointInv /\ [Next]_vars => EndpointInv'
<1> SUFFICES ASSUME IInv, DInv, EndpointInv, [Next]_vars, ~Happened("staleRead")'
             PROVE  LBHostOK' /\ NewHostOK'
  BY DEF EndpointInv
<1>1. ~Happened("staleRead") /\ LBHostOK /\ NewHostOK
  BY StepMishaps DEF EndpointInv
<1>2. /\ store \in Objects /\ orig \in Objects /\ mem \in Objects
      /\ lbs \in [LBIDs -> LBStatuses]
  BY Typed DEF ApiTypeOK, CloudOK
<1>3. CASE StartReconcile
  <2>1. UNCHANGED store /\ pc' \notin PatchCalls
    BY <1>3 DEF StartReconcile, Reconcile, ReconcileDelete, ReadCache, api, PatchCalls
  <2> QED
    BY <1>1, <2>1, SameHost DEF NewHostOK
<1>4. CASE CallSucceeds \/ CallFails \/ ReplyLost
  <2>1. pc \in CloudCalls /\ UNCHANGED <<store, orig>> /\ HostEffect
    BY <1>4, CallFacts, CallHost DEF api
  <2>2. mem.host = orig.host /\ mem.lbID = orig.lbID
    BY <2>1, AtCall
  <2> QED
    BY <1>1, <2>1, <2>2, SameHost DEF NewHostOK, HostEffect
<1>5. CASE PatchSpec
  <2>1. UNCHANGED <<orig, mem, lbs>> /\ pc = "PatchSpec" /\ pc' = "PatchStatus"
    BY <1>5 DEF PatchSpec, cloud
  <2>2. NewHostOK'
    BY <1>1, <2>1 DEF NewHostOK, PatchCalls
  <2>3. CASE UNCHANGED api
    BY <1>1, <2>2, <2>3, SameHost DEF api
  <2>4. CASE Write(SpecPatch)
    <3>1. /\ store'.host = Merged(store.host, orig.host, mem.host)
          /\ store'.lbID = store.lbID
      BY <1>2, <2>4, SpecPatchFacts DEF Write
    <3>2. CASE store'.host = store.host
      BY <1>1, <2>2, <3>1, <3>2, SameHost
    <3>3. CASE store'.host # store.host
      <4>1. store'.host = mem.host /\ mem.host # orig.host
        BY <3>1, <3>3 DEF Merged
      <4>2. orig.lbID = store.lbID
        BY <1>1, <2>1 DEF DInv, CopyFresh
      <4>3. ASSUME mem.host \in LBIDs
            PROVE  mem.host = store.lbID /\ mem.host = mem.lbID /\ lbs[mem.lbID] # "none"
        <5>1. mem.host = mem.lbID /\ mem.lbID = orig.lbID
          BY <1>1, <2>1, <4>1, <4>3 DEF NewHostOK, PatchCalls
        <5>2. mem.lbID # NoLB
          BY <4>3, <5>1 DEF LBIDs, NoLB
        <5> QED
          BY <4>2, <5>1, <5>2, Zenon DEF DInv, AllKnown, KnownLB
      <4> QED
        BY <2>1, <2>2, <3>1, <4>1, <4>3, ZenonT(60) DEF LBHostOK
    <3> QED
      BY <3>2, <3>3
  <2> QED
    BY <1>5, <2>3, <2>4 DEF PatchSpec, RequestFails
<1>6. CASE PatchStatus
  <2>1. UNCHANGED lbs /\ pc = "PatchStatus" /\ pc' = "idle"
    BY <1>6 DEF PatchStatus, Idle, cloud
  <2>2. NewHostOK'
    BY <2>1 DEF NewHostOK, PatchCalls
  <2>3. CASE UNCHANGED api
    BY <1>1, <2>2, <2>3, SameHost DEF api
  <2>4. CASE Write(StatusPatch)
    <3>1. /\ store'.lbID = Merged(store.lbID, orig.lbID, mem.lbID)
          /\ store'.host = store.host
      BY <1>2, <2>4, StatusPatchFacts DEF Write
    <3>2. CASE mem.lbID = orig.lbID
      BY <1>1, <2>2, <3>1, <3>2, SameHost DEF Merged
    <3>3. CASE mem.lbID # orig.lbID
      <4>1. ~Found(orig.lbID) /\ orig.lbID = store.lbID
        BY <1>1, <2>1, <3>3 DEF DInv, Superseded, CopyFresh, PatchCalls
      <4> QED
        BY <1>1, <2>1, <2>2, <3>1, <4>1, ZenonT(60) DEF LBHostOK, Found
    <3> QED
      BY <3>2, <3>3
  <2> QED
    BY <1>6, <2>3, <2>4 DEF PatchStatus, RequestFails
<1>7. CASE UserDelete
  <2> DEFINE new == Finalized([store EXCEPT !.phase = "deleting"])
  <2>1. new.host = store.host /\ new.lbID = store.lbID
    BY <1>2, Zenon DEF Finalized, Objects
  <2>2. store' = new /\ UNCHANGED run
    BY <1>7 DEF UserDelete, Delete, Write
  <2> QED
    BY <1>1, <2>1, <2>2, SameHost DEF NewHostOK, run
<1>8. CASE UserUpdate
  <2>1. store'.host = store.host /\ store'.lbID = store.lbID
    BY <1>8, UserUpdateFacts DEF Write
  <2> QED
    BY <1>1, <1>8, <2>1, SameHost DEF UserUpdate, NewHostOK, run
<1>9. CASE Crash
  BY <1>1, <1>9, SameHost, ZenonT(60) DEF Crash, Restart, Idle, NewHostOK, PatchCalls
<1>10. CASE UNCHANGED <<store, run>>
  BY <1>1, <1>10, SameHost DEF NewHostOK, run
<1>11. \/ Controller \/ UserDelete \/ UserUpdate \/ Crash \/ UNCHANGED <<store, run>>
  BY ZenonT(60) DEF Next, Environment, DeliverEvent, Deliver, LBAddress, LBProgress, ExternalChange,
         DNSProgress, Finished, vars, api, run
<1> QED
  BY <1>3, <1>4, <1>5, <1>6, <1>7, <1>8, <1>9, <1>10, <1>11 DEF Controller

\* An endpoint that is the address of a load balancer is the address of the
\* one that the object names, as long as that one is left (Finish, and the
\* order of the two requests of Close).
THEOREM EndpointNamesLB == Spec => []EndpointIsNamedLB
<1>1. Init => EndpointInv
  BY ClusterAssumption
  DEF Init, InitObject, NewObject, EndpointInv, LBHostOK, NewHostOK, PatchCalls, LBIDs
<1>2. EndpointInv => EndpointIsNamedLB
  BY DEF EndpointInv, LBHostOK, EndpointIsNamedLB
<1> QED
  BY <1>1, <1>2, EndpointStep, LBInvariance, PTL DEF Spec
=============================================================================
