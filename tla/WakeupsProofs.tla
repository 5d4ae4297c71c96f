---------------------------- MODULE WakeupsProofs ----------------------------
(***************************************************************************)
(* Proof that no wake-up is lost, for every number of machines, pauses and *)
(* restarts of the manager.                                                *)
(*                                                                         *)
(* The inductive invariant says that whatever is due is in a queue.  An    *)
(* infrastructure object is due if the version in the informer asks for    *)
(* work that the object in the API server still needs, and everything the  *)
(* reconciler looks at before it does that work is in the informers too.   *)
(* Each of these conditions becomes true by an event, and SetupWithManager *)
(* turns each such event into a wake-up; a reconciliation leaves the queue *)
(* only when the work is done or one of the conditions fails.  Two more    *)
(* things are needed: informers are behind the API server but never        *)
(* contradict it, and an object with a finalizer was reconciled once, so   *)
(* that the informers have known its Cluster and its DOCluster.            *)
(*                                                                         *)
(* At the end: rest is not broken by the system itself, and a teardown     *)
(* that follows the order of Cluster API goes through.                     *)
(***************************************************************************)
EXTENDS Wakeups, TLAPS

\* The informers follow the API server.
Ages ==
  \A k \in Keys :
    /\ store[k].phase = "absent" => cache[k].phase = "absent"
    /\ store[k].phase = "live" => cache[k].phase \in {"absent", "live"}
    /\ store[k].phase = "deleting" => cache[k].phase # "gone" /\ store[k].finalizer
    /\ cache[k].owned => store[k].owned

\* What the objects in the API server have to do with each other.
Owners ==
  /\ store[Cluster].phase # "absent" /\ store[DOCluster].phase # "absent"
  /\ \A k \in Infra : store[k].finalizer => store[k].owned
  /\ \A m \in Machines :
       /\ store[Machine(m)].phase = "absent" => store[DOMachine(m)].phase = "absent"
       /\ Present(store[DOMachine(m)]) => Present(store[Machine(m)])
       /\ store[DOMachine(m)].finalizer =>
            cache[Cluster].phase # "absent" /\ cache[DOCluster].phase # "absent"

Awake(k) == cache[k].owned /\ ~cache[k].paused

\* There is work, and the informer knows what work.
HasWork(k) ==
  \/ cache[k].phase = "live" /\ store[k].phase = "live" /\ ~store[k].ready
  \/ cache[k].phase = "deleting" /\ store[k].phase = "deleting"

DOClusterDue == Awake(DOCluster) /\ HasWork(DOCluster)

\* A new machine waits for the bootstrap data and the infrastructure; a
\* machine under deletion only needs its owners to exist.
DOMachineDue(m) ==
  /\ Awake(DOMachine(m)) /\ HasWork(DOMachine(m))
  /\ Present(cache[Machine(m)]) /\ ~cache[Machine(m)].paused
  /\ Present(cache[Cluster]) /\ Present(cache[DOCluster])
  /\ cache[DOMachine(m)].phase = "live" =>
       /\ cache[Machine(m)].ready /\ cache[Cluster].ready
       /\ ~cache[Cluster].paused /\ Awake(DOCluster)

DueIsQueued ==
  /\ DOClusterDue => DOCluster \in queue
  /\ \A m \in Machines : DOMachineDue(m) => DOMachine(m) \in queue

WInv == TypeOK /\ Ages /\ Owners /\ DueIsQueued

-----------------------------------------------------------------------------
(* Keys and objects.                                                       *)

\* The keys are told apart.
LEMMA KeyFacts ==
  /\ Infra \subseteq Keys /\ Cluster \in Keys /\ DOCluster \in Infra
  /\ Cluster \notin Infra /\ Cluster # DOCluster
  /\ \A m \in Machines :
       /\ Machine(m) \in Keys /\ DOMachine(m) \in Infra /\ Machine(m) \notin Infra
       /\ Machine(m) # Cluster /\ DOMachine(m) # DOCluster
       /\ \A n \in Machines :
            /\ Machine(m) # DOMachine(n)
            /\ Machine(m) = Machine(n) => m = n
            /\ DOMachine(m) = DOMachine(n) => m = n
BY Zenon DEF Infra, Keys, Cluster, DOCluster, Machine, DOMachine

\* There are four kinds of keys.
LEMMA KeyKinds ==
  ASSUME NEW k \in Keys
  PROVE  \/ k = Cluster \/ k = DOCluster
         \/ \E m \in Machines : k = Machine(m) \/ k = DOMachine(m)
BY DEF Keys, Infra

\* The parts of a key.
LEMMA KeyParts ==
  /\ Cluster[1] = "Cluster" /\ DOCluster[1] = "DOCluster"
  /\ \A m : /\ Machine(m)[1] = "Machine" /\ Machine(m)[2] = m
            /\ DOMachine(m)[1] = "DOMachine"
BY DEF Cluster, DOCluster, Machine, DOMachine

\* How an object in the API server may change once it was created.
Moves(old, new) ==
  /\ \/ new.phase = old.phase
     \/ old.phase = "live" /\ new.phase \in {"deleting", "gone"}
     \/ old.phase = "deleting" /\ new.phase = "gone"
  /\ new.phase = "deleting" => new.finalizer
  /\ old.owned => new.owned
  /\ old.ready => new.ready

\* An update that does not bring an object back is such a change.
LEMMA FinalizedMoves ==
  ASSUME NEW old \in Objects, NEW obj \in Objects,
         old.phase = "deleting" => old.finalizer,
         obj.phase = old.phase \/ (old.phase = "live" /\ obj.phase = "deleting"),
         old.owned => obj.owned, old.ready => obj.ready
  PROVE  /\ Finalized(obj) \in Objects /\ Moves(old, Finalized(obj))
         /\ Finalized(obj).finalizer = obj.finalizer
         /\ Finalized(obj).owned = obj.owned /\ Finalized(obj).ready = obj.ready
         /\ Finalized(obj).phase =
              IF obj.phase = "deleting" /\ ~obj.finalizer THEN "gone" ELSE obj.phase
<1>1. CASE obj.phase = "deleting" /\ ~obj.finalizer
  <2>1. Finalized(obj) = [obj EXCEPT !.phase = "gone"]
    BY <1>1 DEF Finalized
  <2> DEFINE new == [obj EXCEPT !.phase = "gone"]
  <2>2. new \in Objects /\ new.phase = "gone"
    BY DEF Objects
  <2>3. new.finalizer = obj.finalizer /\ new.owned = obj.owned /\ new.ready = obj.ready
    BY DEF Objects
  <2> HIDE DEF new
  <2> QED
    BY <1>1, <2>1, <2>2, <2>3 DEF new, Moves, Objects
<1>2. CASE ~(obj.phase = "deleting" /\ ~obj.finalizer)
  BY <1>2 DEF Finalized, Moves
<1> QED
  BY <1>1, <1>2

-----------------------------------------------------------------------------
(* Steps that leave the informers alone.                                   *)

\* One object in the API server changes.
LEMMA StoreStep ==
  ASSUME WInv, UNCHANGED cache, NEW k \in Keys, NEW new \in Objects,
         store' = [store EXCEPT ![k] = new], Moves(store[k], new),
         k \in Infra => (new.finalizer => new.owned),
         \A m \in Machines :
           /\ k = Machine(m) /\ Present(store[DOMachine(m)]) => Present(new)
           /\ k = DOMachine(m) /\ new.finalizer =>
                cache[Cluster].phase # "absent" /\ cache[DOCluster].phase # "absent"
  PROVE  /\ store' \in [Keys -> Objects] /\ Ages' /\ Owners'
         /\ DOClusterDue' => DOClusterDue
         /\ \A m \in Machines : DOMachineDue(m)' => DOMachineDue(m)
<1>1. store \in [Keys -> Objects] /\ cache \in [Keys -> Objects] /\ Ages /\ Owners
  BY DEF WInv, TypeOK
<1>2. /\ store' \in [Keys -> Objects]
      /\ \A j \in Keys : j # k => store'[j] = store[j]
      /\ store'[k] = new
  BY <1>1
<1>3. Ages'
  BY <1>1, <1>2 DEF Ages, Moves, Objects
<1>4. \A j \in Keys : Moves(store[j], store'[j])
  BY <1>1, <1>2 DEF Moves, Ages
<1>5. Owners'
  <2>1. store'[Cluster].phase # "absent" /\ store'[DOCluster].phase # "absent"
    BY <1>1, <1>4, KeyFacts DEF Owners, Moves
  <2>2. \A j \in Infra : store'[j].finalizer => store'[j].owned
    BY <1>1, <1>2, KeyFacts DEF Owners
  <2>3. ASSUME NEW m \in Machines
        PROVE  /\ store'[Machine(m)].phase = "absent" => store'[DOMachine(m)].phase = "absent"
               /\ Present(store'[DOMachine(m)]) => Present(store'[Machine(m)])
               /\ store'[DOMachine(m)].finalizer =>
                    cache'[Cluster].phase # "absent" /\ cache'[DOCluster].phase # "absent"
    <3>1. Machine(m) \in Keys /\ DOMachine(m) \in Keys /\ Machine(m) # DOMachine(m)
      BY KeyFacts
    <3>2. Moves(store[Machine(m)], store'[Machine(m)])
          /\ Moves(store[DOMachine(m)], store'[DOMachine(m)])
      BY <1>4, <3>1
    <3>3. store'[Machine(m)].phase = "absent" => store'[DOMachine(m)].phase = "absent"
      BY <1>1, <3>2 DEF Owners, Moves
    <3>4. Present(store'[DOMachine(m)]) => Present(store'[Machine(m)])
      BY <1>1, <1>2, <3>1, <3>2 DEF Owners, Moves, Present
    <3>5. store'[DOMachine(m)].finalizer =>
            cache'[Cluster].phase # "absent" /\ cache'[DOCluster].phase # "absent"
      BY <1>1, <1>2, <3>1 DEF Owners
    <3> QED
      BY <3>3, <3>4, <3>5
  <2> QED
    BY <2>1, <2>2, <2>3 DEF Owners
<1>6. ASSUME NEW j \in Keys, HasWork(j)' PROVE HasWork(j)
  BY <1>1, <1>4, <1>6 DEF HasWork, Moves, Ages
<1>7. DOClusterDue' => DOClusterDue
  BY <1>6, KeyFacts DEF DOClusterDue, Awake
<1>8. ASSUME NEW m \in Machines, DOMachineDue(m)' PROVE DOMachineDue(m)
  BY <1>6, <1>8, KeyFacts DEF DOMachineDue, Awake
<1> QED
  BY <1>2, <1>3, <1>5, <1>7, <1>8

\* An update by a user or by Cluster API core.
LEMMA UpdateStep ==
  ASSUME WInv, UNCHANGED <<cache, queue, resource>>, incidents' \in 0..MaxIncidents,
         NEW k \in Keys, NEW obj \in Objects, Update(k, obj),
         obj.phase = store[k].phase \/ (store[k].phase = "live" /\ obj.phase = "deleting"),
         store[k].owned => obj.owned, store[k].ready => obj.ready,
         k \in Infra => obj.finalizer = store[k].finalizer,
         \A m \in Machines :
           k = Machine(m) /\ Present(store[DOMachine(m)])
             => (obj.phase = "deleting" => obj.finalizer)
  PROVE  WInv'
<1>1. /\ store \in [Keys -> Objects] /\ store[k] \in Objects
      /\ store[k].phase = "deleting" => store[k].finalizer
  BY DEF WInv, TypeOK, Ages
<1> DEFINE new == Finalized(obj)
<1>2. /\ new \in Objects /\ Moves(store[k], new)
      /\ new.finalizer = obj.finalizer /\ new.owned = obj.owned
      /\ new.phase = IF obj.phase = "deleting" /\ ~obj.finalizer THEN "gone" ELSE obj.phase
  BY <1>1, FinalizedMoves
<1>3. store' = [store EXCEPT ![k] = new]
  BY DEF Update
<1> HIDE DEF new
<1>4. k \in Infra => (new.finalizer => new.owned)
  BY <1>1, <1>2, Zenon DEF WInv, Owners
<1>5. ASSUME NEW m \in Machines, k = Machine(m), Present(store[DOMachine(m)])
      PROVE  Present(new)
  <2>1. Present(store[k])
    BY <1>5 DEF WInv, Owners
  <2> QED
    BY <1>1, <1>2, <1>5, <2>1 DEF Present, Objects
<1>6. ASSUME NEW m \in Machines, k = DOMachine(m), new.finalizer
      PROVE  cache[Cluster].phase # "absent" /\ cache[DOCluster].phase # "absent"
  BY <1>2, <1>6, KeyFacts, Zenon DEF WInv, Owners
<1>7. /\ store' \in [Keys -> Objects] /\ Ages' /\ Owners'
      /\ DOClusterDue' => DOClusterDue
      /\ \A m \in Machines : DOMachineDue(m)' => DOMachineDue(m)
  BY <1>2, <1>3, <1>4, <1>5, <1>6, StoreStep, Zenon
<1>8. DueIsQueued'
  BY <1>7 DEF WInv, DueIsQueued
<1>9. TypeOK'
  BY <1>7 DEF WInv, TypeOK
<1> QED
  BY <1>7, <1>8, <1>9 DEF WInv

\* A machine is created.
LEMMA CreateWInv ==
  ASSUME WInv, NEW m \in Machines, Create(m)
  PROVE  WInv'
<1>1. /\ store \in [Keys -> Objects] /\ cache \in [Keys -> Objects] /\ Ages /\ Owners
      /\ UNCHANGED <<cache, queue, resource, incidents>>
  BY DEF WInv, TypeOK, Create
<1>2. /\ Machine(m) \in Keys /\ DOMachine(m) \in Keys
      /\ store[Machine(m)].phase = "absent" /\ store[DOMachine(m)].phase = "absent"
  BY <1>1, KeyFacts DEF Create, Owners
<1>3. /\ store' \in [Keys -> Objects]
      /\ \A k \in Keys : k \notin {Machine(m), DOMachine(m)} => store'[k] = store[k]
      /\ \A k \in {Machine(m), DOMachine(m)} :
           /\ store'[k].phase = "live" /\ store'[k].owned = store[k].owned
           /\ store'[k].finalizer = store[k].finalizer
  BY <1>1, <1>2 DEF Create, Objects
<1>4. Ages'
  BY <1>1, <1>2, <1>3 DEF Ages
<1>5. Owners'
  <2>1. \A k \in Infra : store'[k].finalizer => store'[k].owned
    BY <1>1, <1>3, KeyFacts DEF Owners
  <2>2. store'[Cluster].phase # "absent" /\ store'[DOCluster].phase # "absent"
    BY <1>1, <1>3, KeyFacts DEF Owners
  <2>3. ASSUME NEW n \in Machines
        PROVE  /\ store'[Machine(n)].phase = "absent" => store'[DOMachine(n)].phase = "absent"
               /\ Present(store'[DOMachine(n)]) => Present(store'[Machine(n)])
               /\ store'[DOMachine(n)].finalizer =>
                    cache'[Cluster].phase # "absent" /\ cache'[DOCluster].phase # "absent"
    <3>1. CASE n = m
      BY <1>1, <1>2, <1>3, <3>1 DEF Owners, Present
    <3>2. CASE n # m
      <4>1. store'[Machine(n)] = store[Machine(n)] /\ store'[DOMachine(n)] = store[DOMachine(n)]
        BY <1>3, <3>2, KeyFacts
      <4> QED
        BY <1>1, <4>1 DEF Owners
    <3> QED
      BY <3>1, <3>2
  <2> QED
    BY <2>1, <2>2, <2>3 DEF Owners
<1>6. ASSUME NEW k \in Keys, HasWork(k)' PROVE HasWork(k)
  BY <1>1, <1>2, <1>3, <1>6 DEF HasWork, Ages
<1>7. DueIsQueued'
  BY <1>1, <1>6, KeyFacts DEF WInv, DueIsQueued, DOClusterDue, DOMachineDue, Awake
<1>8. TypeOK'
  BY <1>1, <1>3 DEF WInv, TypeOK
<1> QED
  BY <1>4, <1>5, <1>7, <1>8 DEF WInv

\* Users delete, pause and unpause.
LEMMA UsersWInv ==
  ASSUME WInv, NEW k \in Keys, UserDelete(k) \/ Pause(k) \/ Unpause(k)
  PROVE  WInv'
<1>1. /\ store[k] \in Objects /\ incidents \in 0..MaxIncidents
      /\ store[k].phase = "deleting" => store[k].finalizer
  BY DEF WInv, TypeOK, Ages
<1>2. CASE UserDelete(k)
  <2> DEFINE obj == [store[k] EXCEPT !.phase = "deleting", !.finalizer = @ \/ k = Cluster]
  <2>1. /\ k \in {Cluster, DOCluster} /\ store[k].phase = "live" /\ Update(k, obj)
        /\ UNCHANGED <<cache, queue, resource, incidents>>
    BY <1>2 DEF UserDelete
  <2>2. obj \in Objects /\ obj.phase = "deleting"
    BY <1>1, Zenon DEF Objects
  <2>3. obj.owned = store[k].owned /\ obj.ready = store[k].ready
    BY <1>1 DEF Objects
  <2>4. k \in Infra => obj.finalizer = store[k].finalizer
    <3>1. k \in Infra => k # Cluster
      BY KeyFacts
    <3>2. obj.finalizer = (store[k].finalizer \/ k = Cluster)
      BY <1>1 DEF Objects
    <3> QED
      BY <1>1, <3>1, <3>2 DEF Objects
  <2> HIDE DEF obj
  <2> QED
    BY <1>1, <2>1, <2>2, <2>3, <2>4, UpdateStep, KeyFacts
<1>3. ASSUME NEW b \in BOOLEAN, Update(k, [store[k] EXCEPT !.paused = b]),
             UNCHANGED <<cache, queue, resource>>, incidents' \in 0..MaxIncidents
      PROVE  WInv'
  <2> DEFINE obj == [store[k] EXCEPT !.paused = b]
  <2>1. /\ obj \in Objects /\ obj.phase = store[k].phase
    BY <1>1 DEF Objects
  <2>2. /\ obj.owned = store[k].owned /\ obj.ready = store[k].ready
        /\ obj.finalizer = store[k].finalizer
    BY <1>1 DEF Objects
  <2>3. Update(k, obj)
    BY <1>3
  <2> HIDE DEF obj
  <2> QED
    BY <1>1, <1>3, <2>1, <2>2, <2>3, UpdateStep
<1>4. CASE Pause(k)
  <2>1. incidents' \in 0..MaxIncidents
    BY <1>1, <1>4, WakeupsAssumption DEF Pause
  <2> QED
    BY <1>3, <1>4, <2>1, Zenon DEF Pause
<1>5. CASE Unpause(k)
  BY <1>1, <1>3, <1>5, Zenon DEF Unpause
<1> QED
  BY <1>2, <1>4, <1>5

\* Cluster API core adopts, reports, cascades deletion and lets go.
LEMMA CoreWInv ==
  ASSUME WInv, Core
  PROVE  WInv'
<1>1. /\ \A k \in Keys : /\ store[k] \in Objects
                         /\ store[k].phase = "deleting" => store[k].finalizer
      /\ UNCHANGED <<cache, queue, resource, incidents>> /\ incidents \in 0..MaxIncidents
  BY Zenon DEF WInv, TypeOK, Ages, Core, Adopt, Report, Cascade, Release
<1>2. ASSUME NEW owner, NEW k \in Keys, Adopt(owner, k) PROVE WInv'
  <2> DEFINE obj == [store[k] EXCEPT !.owned = TRUE]
  <2>1. obj \in Objects /\ obj.phase = store[k].phase
    BY <1>1, Zenon DEF Objects
  <2>2. obj.owned /\ obj.ready = store[k].ready /\ obj.finalizer = store[k].finalizer
    BY <1>1 DEF Objects
  <2>3. Update(k, obj)
    BY <1>2 DEF Adopt
  <2> HIDE DEF obj
  <2> QED
    BY <1>1, <2>1, <2>2, <2>3, UpdateStep
<1>3. ASSUME NEW k \in Keys, Report(k) PROVE WInv'
  <2> DEFINE obj == [store[k] EXCEPT !.ready = TRUE]
  <2>1. obj \in Objects /\ obj.phase = store[k].phase
    BY <1>1, Zenon DEF Objects
  <2>2. obj.ready /\ obj.owned = store[k].owned /\ obj.finalizer = store[k].finalizer
    BY <1>1 DEF Objects
  <2>3. Update(k, obj)
    BY <1>3 DEF Report
  <2> HIDE DEF obj
  <2> QED
    BY <1>1, <2>1, <2>2, <2>3, UpdateStep
<1>4. ASSUME NEW k \in Keys, Cascade(k) PROVE WInv'
  <2> DEFINE obj == [store[k] EXCEPT !.phase = "deleting", !.finalizer = @ \/ k[1] = "Machine"]
  <2>1. obj \in Objects /\ obj.phase = "deleting" /\ store[k].phase = "live"
    BY <1>1, <1>4, Zenon DEF Objects, Cascade, CanCascade
  <2>2. obj.owned = store[k].owned /\ obj.ready = store[k].ready
    BY <1>1 DEF Objects
  <2>3. obj.finalizer = (store[k].finalizer \/ k[1] = "Machine")
    BY <1>1 DEF Objects
  <2>4. Update(k, obj)
    BY <1>4 DEF Cascade
  <2>5. \A m \in Machines : k = Machine(m) => k[1] = "Machine"
    BY KeyParts
  <2>6. k \in Infra => k[1] # "Machine"
    BY KeyParts DEF Infra
  <2>7. k \in Infra => obj.finalizer = store[k].finalizer
    BY <1>1, <2>3, <2>6 DEF Objects
  <2> HIDE DEF obj
  <2> QED
    BY <1>1, <2>1, <2>2, <2>3, <2>4, <2>5, <2>7, UpdateStep, Zenon
<1>5. ASSUME NEW k \in Keys, Release(k) PROVE WInv'
  <2> DEFINE obj == [store[k] EXCEPT !.finalizer = FALSE]
  <2>1. obj \in Objects /\ obj.phase = store[k].phase
    BY <1>1, Zenon DEF Objects
  <2>2. obj.owned = store[k].owned /\ obj.ready = store[k].ready
    BY <1>1 DEF Objects
  <2>3. /\ Update(k, obj) /\ k \notin Infra
        /\ \A m \in Machines : k = Machine(m) => ~Present(store[DOMachine(m)])
    BY <1>5, KeyFacts DEF Release, CanRelease
  <2> HIDE DEF obj
  <2> QED
    BY <1>1, <2>1, <2>2, <2>3, UpdateStep
<1> QED
  BY <1>2, <1>3, <1>4, <1>5, KeyFacts DEF Core

-----------------------------------------------------------------------------
(* The reconcilers.                                                        *)

\* What Close does to the object, and to the work that is left.
LEMMA CloseStep ==
  ASSUME WInv, UNCHANGED cache, NEW k \in Infra, NEW finalizer \in BOOLEAN,
         NEW ready \in BOOLEAN, Close(k, finalizer, ready), cache[k].owned, Present(cache[k]),
         finalizer => cache[k].phase = "live",
         ~finalizer => cache[k].phase = "deleting",
         \A m \in Machines : k = DOMachine(m) =>
           cache[Cluster].phase # "absent" /\ cache[DOCluster].phase # "absent"
  PROVE  /\ store' \in [Keys -> Objects] /\ Ages' /\ Owners'
         /\ DOClusterDue' => DOClusterDue
         /\ \A m \in Machines : DOMachineDue(m)' => DOMachineDue(m)
         /\ ready \/ ~finalizer => ~HasWork(k)'
<1>1. /\ store \in [Keys -> Objects] /\ store[k] \in Objects /\ k \in Keys /\ Ages
      /\ store[k].phase = "deleting" => store[k].finalizer
      /\ store[k].owned
  BY KeyFacts DEF WInv, TypeOK, Ages
<1>2. CASE Present(store[k])
  <2> DEFINE obj == [store[k] EXCEPT !.finalizer = finalizer, !.ready = @ \/ ready]
             new == Finalized(obj)
  <2>1. obj \in Objects /\ obj.phase = store[k].phase
    BY <1>1, Zenon DEF Objects
  <2>2. obj.owned = store[k].owned
    BY <1>1, Zenon DEF Objects
  <2>3. obj.finalizer = finalizer
    BY <1>1 DEF Objects
  <2>4. obj.ready = (store[k].ready \/ ready)
    BY <1>1 DEF Objects
  <2>5. store' = [store EXCEPT ![k] = new]
    BY <1>2 DEF Close, Update
  <2> HIDE DEF obj
  <2>6. /\ new \in Objects /\ Moves(store[k], new) /\ new.owned
        /\ new.finalizer = finalizer /\ new.ready = (store[k].ready \/ ready)
        /\ new.phase = IF store[k].phase = "deleting" /\ ~finalizer
                       THEN "gone" ELSE store[k].phase
    BY <1>1, <2>1, <2>2, <2>3, <2>4, FinalizedMoves, ZenonT(60)
  <2> HIDE DEF new
  <2>7. \A m \in Machines : k # Machine(m)
    BY KeyFacts
  <2>8. /\ store' \in [Keys -> Objects] /\ Ages' /\ Owners'
        /\ DOClusterDue' => DOClusterDue
        /\ \A m \in Machines : DOMachineDue(m)' => DOMachineDue(m)
    BY <1>1, <2>5, <2>6, <2>7, StoreStep, Zenon
  <2>9. store'[k] = new
    BY <1>1, <2>5
  <2>10. ready \/ ~finalizer => ~HasWork(k)'
    <3>1. CASE ~finalizer
      <4>1. store[k].phase = "deleting"
        BY <1>1, <1>2, <3>1 DEF Ages, Present
      <4> QED
        BY <2>6, <2>9, <3>1, <4>1 DEF HasWork
    <3>2. CASE finalizer /\ ready
      BY <2>6, <2>9, <3>2, Zenon DEF HasWork
    <3> QED
      BY <3>1, <3>2
  <2> QED
    BY <2>8, <2>10
<1>3. CASE ~Present(store[k])
  <2>1. store' = store
    BY <1>3 DEF Close
  <2>2. Ages' /\ Owners'
    BY <2>1 DEF WInv, Ages, Owners
  <2>3. /\ DOClusterDue' => DOClusterDue
        /\ \A m \in Machines : DOMachineDue(m)' => DOMachineDue(m)
    BY <2>1 DEF DOClusterDue, DOMachineDue, Awake, HasWork
  <2>4. ~HasWork(k)'
    BY <1>3, <2>1 DEF HasWork, Present
  <2> QED
    BY <1>1, <2>1, <2>2, <2>3, <2>4
<1> QED
  BY <1>2, <1>3

\* A reconciliation leaves the queue only with an object that is not due.
LEMMA QueueStep ==
  ASSUME WInv, UNCHANGED <<cache, incidents>>, NEW k \in Infra,
         store' \in [Keys -> Objects], Ages', Owners',
         DOClusterDue' => DOClusterDue,
         \A m \in Machines : DOMachineDue(m)' => DOMachineDue(m),
         resource' \in [Infra -> {"none", "new", "active"}],
         \/ queue' = queue
         \/ /\ queue' = queue \ {k}
            /\ k = DOCluster => ~DOClusterDue'
            /\ \A m \in Machines : k = DOMachine(m) => ~DOMachineDue(m)'
  PROVE  WInv'
<1>1. DueIsQueued'
  BY KeyFacts DEF WInv, DueIsQueued
<1>2. TypeOK'
  BY DEF WInv, TypeOK
<1> QED
  BY <1>1, <1>2 DEF WInv

\* A reconciliation that returns without an error while the object is not due.
LEMMA SleepStep ==
  ASSUME WInv, UNCHANGED <<cache, incidents>>, NEW k \in Infra, Sleep(k),
         k = DOCluster => ~DOClusterDue,
         \A m \in Machines : k = DOMachine(m) => ~DOMachineDue(m)
  PROVE  WInv'
<1>1. /\ store' \in [Keys -> Objects] /\ resource' \in [Infra -> {"none", "new", "active"}]
      /\ UNCHANGED <<store, cache>> /\ queue' = queue \ {k}
  BY DEF WInv, TypeOK, Sleep, Done
<1>2. Ages' /\ Owners'
  BY <1>1 DEF WInv, Ages, Owners
<1>3. /\ DOClusterDue' <=> DOClusterDue
      /\ \A m \in Machines : DOMachineDue(m)' <=> DOMachineDue(m)
  BY <1>1 DEF DOClusterDue, DOMachineDue, Awake, HasWork
<1> QED
  BY <1>1, <1>2, <1>3, QueueStep

\* A reconciliation that gets as far as the cloud.
LEMMA WorkStep ==
  ASSUME WInv, UNCHANGED <<cache, incidents>>, NEW k \in Infra,
         Present(cache[k]), cache[k].owned,
         \A m \in Machines : k = DOMachine(m) =>
           cache[Cluster].phase # "absent" /\ cache[DOCluster].phase # "absent",
         \/ cache[k].phase = "deleting" /\ Deprovision(k)
         \/ cache[k].phase = "live" /\ Provision(k)
  PROVE  WInv'
<1>1. resource' \in [Infra -> {"none", "new", "active"}]
  BY Zenon DEF WInv, TypeOK, Provision, Deprovision
<1>2. PICK finalizer \in BOOLEAN, ready \in BOOLEAN :
        /\ Close(k, finalizer, ready)
        /\ finalizer => cache[k].phase = "live"
        /\ ~finalizer => cache[k].phase = "deleting"
        /\ \/ queue' = queue
           \/ queue' = queue \ {k} /\ (ready \/ ~finalizer)
  BY Zenon DEF Provision, Deprovision, Done, Again
<1>3. /\ store' \in [Keys -> Objects] /\ Ages' /\ Owners'
      /\ DOClusterDue' => DOClusterDue
      /\ \A m \in Machines : DOMachineDue(m)' => DOMachineDue(m)
      /\ ready \/ ~finalizer => ~HasWork(k)'
  BY <1>2, CloseStep
<1>4. ready \/ ~finalizer =>
        /\ k = DOCluster => ~DOClusterDue'
        /\ \A m \in Machines : k = DOMachine(m) => ~DOMachineDue(m)'
  BY <1>3 DEF DOClusterDue, DOMachineDue
<1> QED
  BY <1>1, <1>2, <1>3, <1>4, QueueStep

\* (*DOClusterReconciler).Reconcile.
LEMMA ReconcileDOClusterWInv ==
  ASSUME WInv, ReconcileDOCluster
  PROVE  WInv'
<1>1. UNCHANGED <<cache, incidents>> /\ DOCluster \in Infra
  BY KeyFacts DEF ReconcileDOCluster
<1>2. \A m \in Machines : DOCluster # DOMachine(m)
  BY KeyFacts, Zenon
<1>3. CASE ~(Present(cache[DOCluster]) /\ cache[DOCluster].owned) /\ Sleep(DOCluster)
  <2>1. ~DOClusterDue
    BY <1>3 DEF DOClusterDue, Awake, HasWork, Present
  <2> QED
    BY <1>1, <1>2, <1>3, <2>1, SleepStep
<1>4. CASE /\ cache[DOCluster].owned
           /\ \/ cache[DOCluster].phase = "deleting" /\ Deprovision(DOCluster)
              \/ cache[DOCluster].phase = "live" /\ Provision(DOCluster)
  <2>1. Present(cache[DOCluster])
    BY <1>4 DEF Present
  <2> QED
    BY <1>1, <1>2, <1>4, <2>1, WorkStep
<1> QED
  BY <1>3, <1>4 DEF ReconcileDOCluster

\* (*DOMachineReconciler).Reconcile.
LEMMA ReconcileDOMachineWInv ==
  ASSUME WInv, NEW m \in Machines, ReconcileDOMachine(m)
  PROVE  WInv'
<1> DEFINE k == DOMachine(m)
           HaveCluster == Present(cache[Cluster]) /\ Present(cache[DOCluster])
<1>1. /\ UNCHANGED <<cache, incidents>> /\ k \in Infra /\ k # DOCluster
      /\ \A n \in Machines : k = DOMachine(n) => n = m
  BY KeyFacts DEF ReconcileDOMachine
<1>2. HaveCluster => cache[Cluster].phase # "absent" /\ cache[DOCluster].phase # "absent"
  BY DEF Present
<1>3. CASE Sleep(k) /\ (~(Present(cache[k]) /\ cache[k].owned) \/ ~HaveCluster)
  <2>1. ~DOMachineDue(m)
    BY <1>3 DEF DOMachineDue, Awake, HasWork, Present
  <2> HIDE DEF k
  <2>2. \A n \in Machines : k = DOMachine(n) => ~DOMachineDue(n)
    BY <1>1, <2>1
  <2> QED
    BY <1>1, <1>3, <2>2, SleepStep
<1>4. CASE /\ Present(cache[k]) /\ cache[k].owned /\ HaveCluster
           /\ \/ cache[k].phase = "deleting" /\ Deprovision(k)
              \/ cache[k].phase = "live" /\ Provision(k)
  <2> HIDE DEF k, HaveCluster
  <2> QED
    BY <1>1, <1>2, <1>4, WorkStep
<1>5. CASE /\ Present(cache[k]) /\ cache[k].owned /\ HaveCluster
           /\ cache[k].phase = "live"
           /\ ~(cache[Cluster].ready /\ cache[Machine(m)].ready)
           /\ Close(k, TRUE, FALSE) /\ Done(k) /\ UNCHANGED resource
  <2>1. ~DOMachineDue(m)
    BY <1>5 DEF DOMachineDue
  <2> HIDE DEF k, HaveCluster
  <2>2. /\ store' \in [Keys -> Objects] /\ Ages' /\ Owners'
        /\ DOClusterDue' => DOClusterDue
        /\ \A n \in Machines : DOMachineDue(n)' => DOMachineDue(n)
    BY <1>1, <1>2, <1>5, CloseStep, Zenon
  <2>3. \A n \in Machines : k = DOMachine(n) => ~DOMachineDue(n)'
    BY <1>1, <2>1, <2>2
  <2>4. resource' \in [Infra -> {"none", "new", "active"}]
    BY <1>5 DEF WInv, TypeOK
  <2> QED
    BY <1>1, <1>5, <2>2, <2>3, <2>4, QueueStep DEF Done
<1> QED
  BY <1>3, <1>4, <1>5, Zenon DEF ReconcileDOMachine

-----------------------------------------------------------------------------
(* Events.                                                                 *)

\* Requests are for infrastructure objects.
LEMMA WokenInfra ==
  ASSUME NEW k \in Keys, NEW old, NEW new
  PROVE  Woken(k, old, new) \subseteq Infra
<1>1. WakesDOCluster(k, old, new) \subseteq Infra
  BY KeyFacts DEF WakesDOCluster
<1>2. WakesDOMachines(k, old, new) \subseteq Infra
  <2>1. CASE k = Cluster
    BY <2>1, KeyFacts DEF WakesDOMachines, ClusterToObjects
  <2>2. CASE k = DOCluster
    BY <2>2, KeyFacts, KeyParts DEF WakesDOMachines, DOClusterToDOMachines
  <2>3. ASSUME NEW m \in Machines, k = Machine(m)
        PROVE  WakesDOMachines(k, old, new) \subseteq Infra
    BY <2>3, KeyFacts, KeyParts DEF WakesDOMachines, MachineToInfrastructure
  <2>4. ASSUME NEW m \in Machines, k = DOMachine(m)
        PROVE  WakesDOMachines(k, old, new) \subseteq Infra
    BY <2>4, KeyFacts, KeyParts DEF WakesDOMachines
  <2> QED
    BY <2>1, <2>2, <2>3, <2>4, KeyKinds
<1> QED
  BY <1>1, <1>2 DEF Woken

\* What an event about an object that is there and not paused wakes.
LEMMA WokenByObject ==
  ASSUME NEW old, NEW new, Present(new), ~new.paused
  PROVE  /\ DOCluster \in Woken(DOCluster, old, new)
         /\ \A m \in Machines :
              /\ DOMachine(m) \in Woken(DOMachine(m), old, new)
              /\ DOMachine(m) \in Woken(Machine(m), old, new)
              /\ new.owned /\ Present(cache[Cluster]) /\ Present(cache[Machine(m)])
                   => DOMachine(m) \in Woken(DOCluster, old, new)
<1>1. ResourceNotPaused(old, new) /\ Carried(old, new) = new
  BY DEF ResourceNotPaused, Carried
<1>2. DOCluster \in Woken(DOCluster, old, new)
  BY <1>1 DEF Woken, WakesDOCluster
<1>3. ASSUME NEW m \in Machines
      PROVE  DOMachine(m) \in Woken(DOMachine(m), old, new)
  BY <1>1, KeyFacts, KeyParts DEF Woken, WakesDOMachines
<1>4. ASSUME NEW m \in Machines
      PROVE  DOMachine(m) \in Woken(Machine(m), old, new)
  BY <1>1, KeyFacts, KeyParts DEF Woken, WakesDOMachines, MachineToInfrastructure
<1>5. ASSUME NEW m \in Machines, new.owned, Present(cache[Cluster]), Present(cache[Machine(m)])
      PROVE  DOMachine(m) \in Woken(DOCluster, old, new)
  <2>1. DOMachine(m) \in DOClusterToDOMachines(new)
    BY <1>5 DEF DOClusterToDOMachines
  <2>2. WakesDOMachines(DOCluster, old, new) = DOClusterToDOMachines(new)
    BY <1>1, KeyFacts, KeyParts DEF WakesDOMachines
  <2> QED
    BY <2>1, <2>2 DEF Woken
<1> QED
  BY <1>2, <1>3, <1>4, <1>5

\* What the infrastructure that becomes ready wakes.
LEMMA WokenByCluster ==
  ASSUME NEW old, NEW new, Present(new), ClusterUnpausedAndInfrastructureReady(old, new),
         NEW m \in Machines, Present(cache[DOMachine(m)]), cache[DOMachine(m)].owned
  PROVE  DOMachine(m) \in Woken(Cluster, old, new)
<1>1. DOMachine(m) \in ClusterToObjects
  BY DEF ClusterToObjects
<1> QED
  BY <1>1 DEF Woken, WakesDOMachines

\* Every condition for work that an event brings also brings a wake-up.
LEMMA DeliverWInv ==
  ASSUME WInv, NEW k \in Keys, Deliver(k)
  PROVE  WInv'
<1>1. /\ store \in [Keys -> Objects] /\ cache \in [Keys -> Objects] /\ queue \subseteq Infra
      /\ Ages /\ Owners /\ DueIsQueued
      /\ UNCHANGED <<store, resource, incidents>>
      /\ queue' = queue \union Woken(k, cache[k], store[k])
  BY DEF WInv, TypeOK, Deliver
<1>2. /\ cache' \in [Keys -> Objects] /\ cache'[k] = store[k]
      /\ \A j \in Keys : j # k => cache'[j] = cache[j]
  BY <1>1 DEF Deliver
<1>3. Ages'
  BY <1>1, <1>2 DEF Ages, Objects
<1>4. Owners'
  <2>1. \A j \in {Cluster, DOCluster} : cache[j].phase # "absent" => cache'[j].phase # "absent"
    BY <1>1, <1>2, KeyFacts DEF Owners
  <2> QED
    BY <1>1, <2>1 DEF Owners
<1>5. TypeOK'
  BY <1>1, <1>2, WokenInfra DEF WInv, TypeOK
<1>6. ASSUME DOClusterDue' PROVE DOCluster \in queue'
  <2>1. CASE k = DOCluster
    <3>1. Present(store[k]) /\ ~store[k].paused
      BY <1>1, <1>2, <1>6, <2>1 DEF DOClusterDue, Awake, HasWork, Present
    <3> QED
      BY <1>1, <2>1, <3>1, WokenByObject
  <2>2. CASE k # DOCluster
    BY <1>1, <1>2, <1>6, <2>2, KeyFacts DEF DueIsQueued, DOClusterDue, Awake, HasWork
  <2> QED
    BY <2>1, <2>2
<1>7. ASSUME NEW m \in Machines, DOMachineDue(m)' PROVE DOMachine(m) \in queue'
  <2>1. /\ cache'[DOMachine(m)].owned /\ ~cache'[DOMachine(m)].paused
        /\ Present(cache'[DOMachine(m)]) /\ HasWork(DOMachine(m))'
        /\ Present(cache'[Machine(m)]) /\ ~cache'[Machine(m)].paused
        /\ Present(cache'[Cluster]) /\ Present(cache'[DOCluster])
        /\ cache'[DOMachine(m)].phase = "live" =>
             /\ cache'[Machine(m)].ready /\ cache'[Cluster].ready
             /\ ~cache'[Cluster].paused
             /\ cache'[DOCluster].owned /\ ~cache'[DOCluster].paused
    BY <1>7 DEF DOMachineDue, Awake, HasWork, Present
  <2>2. CASE k = DOMachine(m) \/ k = Machine(m)
    BY <1>1, <1>2, <2>1, <2>2, WokenByObject, SMTT(30)
  <2>3. ASSUME k \notin {DOMachine(m), Machine(m)}
        PROVE  /\ cache'[DOMachine(m)] = cache[DOMachine(m)]
               /\ cache'[Machine(m)] = cache[Machine(m)]
               /\ HasWork(DOMachine(m))
    <3>1. /\ cache'[DOMachine(m)] = cache[DOMachine(m)]
          /\ cache'[Machine(m)] = cache[Machine(m)]
      BY <1>2, <2>3, KeyFacts
    <3> QED
      BY <1>1, <2>1, <3>1 DEF HasWork
  <2>4. ASSUME k \in {Cluster, DOCluster}, cache[DOMachine(m)].phase # "live",
               HasWork(DOMachine(m))
        PROVE  Present(cache[Cluster]) /\ Present(cache[DOCluster])
    <3>1. store[DOMachine(m)].phase = "deleting"
      BY <2>4 DEF HasWork
    <3>2. cache[Cluster].phase # "absent" /\ cache[DOCluster].phase # "absent"
      BY <1>1, <3>1, KeyFacts DEF Ages, Owners
    <3>3. \A j \in Keys : cache[j].phase # "absent" /\ Present(store[j]) => Present(cache[j])
      BY <1>1 DEF Ages, Present, Objects
    <3>4. Present(store[k])
      BY <1>2, <2>1, <2>4
    <3> QED
      BY <1>2, <2>1, <2>4, <3>2, <3>3, <3>4, KeyFacts
  <2>5. CASE k = Cluster
    <3>1. /\ cache'[DOMachine(m)] = cache[DOMachine(m)] /\ HasWork(DOMachine(m))
          /\ cache'[Machine(m)] = cache[Machine(m)] /\ cache'[DOCluster] = cache[DOCluster]
      BY <1>2, <2>3, <2>5, KeyFacts
    <3>2. CASE cache[DOMachine(m)].phase # "live"
      <4>1. DOMachineDue(m)
        BY <2>1, <2>4, <2>5, <3>1, <3>2 DEF DOMachineDue, Awake
      <4> QED
        BY <1>1, <4>1 DEF DueIsQueued
    <3>3. CASE cache[DOMachine(m)].phase = "live"
      <4>1. store[k].ready /\ ~store[k].paused /\ Present(store[k])
        BY <1>2, <2>1, <2>5, <3>1, <3>3
      <4>2. CASE Present(cache[k]) /\ cache[k].ready /\ ~cache[k].paused
        <5>1. DOMachineDue(m)
          BY <2>1, <2>5, <3>1, <3>3, <4>2 DEF DOMachineDue, Awake
        <5> QED
          BY <1>1, <5>1 DEF DueIsQueued
      <4>3. CASE ~(Present(cache[k]) /\ cache[k].ready /\ ~cache[k].paused)
        <5>1. ClusterUnpausedAndInfrastructureReady(cache[k], store[k])
          BY <4>1, <4>3 DEF ClusterUnpausedAndInfrastructureReady, Created, Updated
        <5>2. Present(cache[DOMachine(m)]) /\ cache[DOMachine(m)].owned
          BY <2>1, <3>1
        <5> QED
          BY <1>1, <2>5, <4>1, <5>1, <5>2, WokenByCluster
      <4> QED
        BY <4>2, <4>3
    <3> QED
      BY <3>2, <3>3
  <2>6. CASE k = DOCluster
    <3>1. /\ cache'[DOMachine(m)] = cache[DOMachine(m)] /\ HasWork(DOMachine(m))
          /\ cache'[Machine(m)] = cache[Machine(m)] /\ cache'[Cluster] = cache[Cluster]
      BY <1>2, <2>3, <2>6, KeyFacts
    <3>2. CASE cache[DOMachine(m)].phase # "live"
      <4>1. DOMachineDue(m)
        BY <2>1, <2>4, <2>6, <3>1, <3>2 DEF DOMachineDue, Awake
      <4> QED
        BY <1>1, <4>1 DEF DueIsQueued
    <3>3. CASE cache[DOMachine(m)].phase = "live"
      <4>1. /\ store[k].owned /\ ~store[k].paused /\ Present(store[k])
            /\ Present(cache[Cluster]) /\ Present(cache[Machine(m)])
        BY <1>2, <2>1, <2>6, <3>1, <3>3
      <4> QED
        BY <1>1, <2>6, <4>1, WokenByObject
    <3> QED
      BY <3>2, <3>3
  <2>7. CASE k \notin {Cluster, DOCluster, DOMachine(m), Machine(m)}
    <3>1. /\ cache'[DOMachine(m)] = cache[DOMachine(m)] /\ HasWork(DOMachine(m))
          /\ cache'[Machine(m)] = cache[Machine(m)]
          /\ cache'[Cluster] = cache[Cluster] /\ cache'[DOCluster] = cache[DOCluster]
      BY <1>2, <2>3, <2>7, KeyFacts
    <3>2. DOMachineDue(m)
      BY <2>1, <3>1 DEF DOMachineDue, Awake
    <3> QED
      BY <1>1, <3>2 DEF DueIsQueued
  <2> QED
    BY <2>2, <2>5, <2>6, <2>7
<1>8. DueIsQueued'
  BY <1>6, <1>7 DEF DueIsQueued
<1> QED
  BY <1>3, <1>4, <1>5, <1>8 DEF WInv

\* After a restart every object is an event, and an object that is due wakes
\* its own reconciler.
LEMMA RestartWInv ==
  ASSUME WInv, Restart
  PROVE  WInv'
<1>1. /\ store \in [Keys -> Objects] /\ Ages /\ Owners
      /\ UNCHANGED <<store, resource>> /\ cache' = store
  BY DEF WInv, TypeOK, Restart
<1>2. Ages' /\ Owners'
  BY <1>1 DEF Ages, Owners
<1>3. TypeOK'
  BY <1>1, WakeupsAssumption DEF WInv, TypeOK, Restart
<1>4. ASSUME NEW k \in Infra, Present(store'[k]), ~store'[k].paused
      PROVE  k \in queue'
  <2>1. ResourceNotPaused(NotCreated, store[k])'
    BY <1>4 DEF ResourceNotPaused, Carried
  <2>2. k \in Woken(k, NotCreated, store[k])'
    <3>1. CASE k = DOCluster
      BY <1>4, <2>1, <3>1 DEF Woken, WakesDOCluster
    <3>2. CASE \E m \in Machines : k = DOMachine(m)
      <4>1. k # Cluster /\ k # DOCluster /\ k[1] = "DOMachine"
        BY <3>2, KeyFacts, KeyParts
      <4>2. k \in WakesDOMachines(k, NotCreated, store[k])'
        BY <1>4, <4>1 DEF WakesDOMachines, ResourceNotPaused, Carried, Present
      <4> QED
        BY <1>4, <4>2 DEF Woken
    <3> QED
      BY <3>1, <3>2 DEF Infra
  <2> QED
    BY <2>2, KeyFacts DEF Restart
<1>5. DueIsQueued'
  <2>1. ASSUME NEW k \in Infra, Awake(k)', HasWork(k)' PROVE k \in queue'
    BY <1>1, <1>4, <2>1 DEF Awake, HasWork, Present
  <2> QED
    BY <2>1, KeyFacts DEF DueIsQueued, DOClusterDue, DOMachineDue
<1> QED
  BY <1>2, <1>3, <1>5 DEF WInv

-----------------------------------------------------------------------------
(* The invariant.                                                          *)

\* Nothing is in the informers, so nothing is due.
LEMMA InitWInv == Init => WInv
<1> SUFFICES ASSUME Init PROVE WInv
  OBVIOUS
<1>1. \A k \in Keys : /\ cache[k] = NotCreated
                      /\ store[k] \in Objects /\ cache[k] \in Objects
                      /\ store[k].phase \in {"live", "absent"}
                      /\ ~store[k].finalizer /\ ~store[k].owned
                      /\ k \in {Cluster, DOCluster} => store[k].phase = "live"
                      /\ k \notin {Cluster, DOCluster} => store[k].phase = "absent"
  BY Zenon DEF Init, NotCreated, Objects
<1>2. NotCreated.phase = "absent" /\ ~NotCreated.owned
  BY DEF NotCreated
<1>3. TypeOK
  BY <1>1, WakeupsAssumption DEF Init, TypeOK
<1>4. Ages
  BY <1>1, <1>2 DEF Ages
<1>5. Owners
  BY <1>1, <1>2, KeyFacts DEF Owners, Present
<1>6. DueIsQueued
  BY <1>1, <1>2, KeyFacts DEF DueIsQueued, DOClusterDue, DOMachineDue, HasWork
<1> QED
  BY <1>3, <1>4, <1>5, <1>6 DEF WInv

\* Every step keeps the invariant.
LEMMA NextWInv == WInv /\ [Next]_vars => WInv'
<1> SUFFICES ASSUME WInv, [Next]_vars PROVE WInv'
  OBVIOUS
<1>1. ASSUME NEW k \in Infra, CloudProgress(k) PROVE WInv'
  <2>1. UNCHANGED <<store, cache, queue, incidents>>
        /\ resource' \in [Infra -> {"none", "new", "active"}]
    BY <1>1 DEF WInv, TypeOK, CloudProgress
  <2> QED
    BY <2>1 DEF WInv, TypeOK, Ages, Owners, DueIsQueued, DOClusterDue, DOMachineDue, Awake,
                HasWork
<1>2. CASE UNCHANGED vars
  BY <1>2 DEF vars, WInv, TypeOK, Ages, Owners, DueIsQueued, DOClusterDue, DOMachineDue,
              Awake, HasWork
<1>3. CASE Users
  BY <1>3, CreateWInv, UsersWInv DEF Users
<1>4. CASE System
  BY <1>1, <1>4, CoreWInv, DeliverWInv, ReconcileDOClusterWInv, ReconcileDOMachineWInv
     DEF System, Manager
<1>5. CASE Restart
  BY <1>5, RestartWInv
<1> QED
  BY <1>2, <1>3, <1>4, <1>5 DEF Next

\* Whatever is due is in a work queue.
THEOREM WhatIsDueIsQueued == Spec => []WInv
  BY InitWInv, NextWInv, PTL DEF Spec

\* Requests, objects and resources have their types: the mappers never ask
\* for anything but infrastructure objects.
THEOREM WakeupsTypes == Spec => []TypeOK
<1>1. WInv => TypeOK
  BY DEF WInv
<1> QED
  BY <1>1, WhatIsDueIsQueued, PTL

-----------------------------------------------------------------------------
(* At rest.                                                                *)

\* With nothing paused and the Cluster there, nothing is due at rest.
LEMMA NothingDueAtRest ==
  ASSUME WInv, AtRest, NothingPaused, Present(store[Cluster])
  PROVE  /\ cache = store
         /\ \A k \in Keys : ~store[k].paused
         /\ \A k \in Keys : Working(k)
         /\ ~DOClusterDue
         /\ \A m \in Machines : ~DOMachineDue(m)
<1>1. cache = store /\ \A k \in Keys : ~store[k].paused
  BY DEF AtRest, NothingPaused
<1>2. \A k \in Keys : Working(k)
  BY <1>1, KeyFacts DEF Working
<1>3. ~DOClusterDue
  BY <1>1 DEF WInv, DueIsQueued, AtRest, OwnerMissing
<1>4. ASSUME NEW m \in Machines PROVE ~DOMachineDue(m)
  <2>1. DOMachineDue(m) => Present(cache[Machine(m)])
    BY DEF DOMachineDue
  <2>2. DOMachineDue(m) => DOMachine(m) \in queue
    BY DEF WInv, DueIsQueued
  <2>3. DOMachine(m) \in queue => ~Present(cache[Machine(m)])
    BY DEF AtRest, OwnerMissing
  <2> QED
    BY <2>1, <2>2, <2>3
<1> QED
  BY <1>1, <1>2, <1>3, <1>4

\* Each missing part of a cluster that is wanted would be due.
LEMMA UpAtRest == WInv => RestsWhenUp
<1> SUFFICES ASSUME WInv, AtRest, NothingPaused, Live(Cluster), Live(DOCluster)
             PROVE  /\ store[Cluster].ready /\ store[DOCluster].ready
                    /\ \A m \in Machines : Live(DOMachine(m)) => store[DOMachine(m)].ready
  BY DEF RestsWhenUp
<1>1. Present(store[Cluster]) /\ Present(store[DOCluster])
  BY DEF Live, Present
<1>2. /\ cache = store
      /\ \A k \in Keys : ~store[k].paused
      /\ \A k \in Keys : Working(k)
      /\ ~DOClusterDue
      /\ \A m \in Machines : ~DOMachineDue(m)
  BY <1>1, NothingDueAtRest
<1>3. store[DOCluster].owned
  BY <1>1, <1>2, KeyFacts DEF AtRest, CanAdopt, Live
<1>4. store[DOCluster].ready
  BY <1>1, <1>2, <1>3, KeyFacts DEF DOClusterDue, Awake, HasWork, Live
<1>5. store[Cluster].ready
  BY <1>1, <1>2, <1>4, KeyFacts DEF AtRest, CanReport, Live
<1>6. ASSUME NEW m \in Machines, Live(DOMachine(m)) PROVE store[DOMachine(m)].ready
  <2>1. /\ Machine(m) \in Keys /\ DOMachine(m) \in Keys /\ Machine(m)[1] = "Machine"
        /\ DOCluster \in Keys /\ Cluster \in Keys
    BY KeyFacts, KeyParts
  <2>2. Present(store[DOMachine(m)]) /\ store[DOMachine(m)].phase = "live"
    BY <1>6 DEF Live, Present
  <2>3. Present(store[Machine(m)])
    BY <2>2 DEF WInv, Owners
  <2>4. store[Machine(m)].phase # "deleting"
    BY <1>2, <2>1, <2>2 DEF AtRest, CanCascade
  <2>5. store[Machine(m)].phase = "live"
    BY <2>3, <2>4 DEF Present
  <2>6. store[DOMachine(m)].owned
    BY <1>2, <2>1, <2>2, <2>5 DEF AtRest, CanAdopt
  <2>7. store[Machine(m)].ready
    BY <1>2, <1>5, <2>1, <2>5 DEF AtRest, CanReport
  <2> QED
    BY <1>1, <1>2, <1>3, <1>5, <2>1, <2>2, <2>3, <2>6, <2>7 DEF DOMachineDue, Awake, HasWork
<1> QED
  BY <1>4, <1>5, <1>6

\* Each remaining part of a deleted cluster would be due or released.
LEMMA DownAtRest == WInv => RestsWhenDown
<1> SUFFICES ASSUME WInv, AtRest, NothingPaused, store[Cluster].phase = "deleting"
             PROVE  Stranded
  BY DEF RestsWhenDown
<1>1. Present(store[Cluster])
  BY DEF Present
<1>2. /\ cache = store
      /\ \A k \in Keys : ~store[k].paused
      /\ \A k \in Keys : Working(k)
      /\ ~DOClusterDue
      /\ \A m \in Machines : ~DOMachineDue(m)
  BY <1>1, NothingDueAtRest
<1>3. \A k \in Infra : store[k].phase = "deleting" => store[k].owned
  BY KeyFacts DEF WInv, Ages, Owners
<1>4. ASSUME NEW m \in Machines, Present(store[Machine(m)]) PROVE Stranded
  <2>1. /\ Machine(m) \in Keys /\ DOMachine(m) \in Keys /\ DOMachine(m) \in Infra
        /\ Cluster \in Keys
    BY KeyFacts
  <2>2. store[Machine(m)].phase = "deleting"
    BY <1>2, <1>4, <2>1 DEF AtRest, CanCascade, Present
  <2>3. Present(store[DOMachine(m)])
    BY <1>2, <2>1, <2>2 DEF AtRest, CanRelease
  <2>4. store[DOMachine(m)].phase = "deleting"
    BY <1>2, <2>1, <2>2, <2>3 DEF AtRest, CanCascade, Present
  <2>5. ~Present(store[DOCluster])
    BY <1>1, <1>2, <1>3, <1>4, <2>1, <2>4 DEF DOMachineDue, Awake, HasWork
  <2> QED
    BY <2>3, <2>5 DEF Stranded
<1>5. CASE \A m \in Machines : ~Present(store[Machine(m)])
  <2>1. Cluster \in Keys /\ DOCluster \in Keys /\ DOCluster \in Infra
    BY KeyFacts
  <2>2. Present(store[DOCluster])
    BY <1>2, <1>5, <2>1 DEF AtRest, CanRelease
  <2>3. store[DOCluster].phase = "deleting"
    BY <1>2, <1>5, <2>1, <2>2 DEF AtRest, CanCascade, Present
  <2> QED
    BY <1>2, <1>3, <2>1, <2>3 DEF DOClusterDue, Awake, HasWork
<1> QED
  BY <1>4, <1>5

\* No wake-up is lost on the way up: at rest with nothing paused, a cluster
\* that is wanted has its load balancer, its readiness and its machines,
\* whatever the events, pauses and restarts before (SetupWithManager of both
\* controllers).
THEOREM NoWakeupLostOnTheWayUp == Spec => []RestsWhenUp
  BY WhatIsDueIsQueued, UpAtRest, PTL

\* No wake-up is lost on the way down: a deleted cluster comes to rest only
\* with a DOMachine that has no DOCluster left (reconcileDelete of both
\* controllers).
THEOREM NoWakeupLostOnTheWayDown == Spec => []RestsWhenDown
  BY WhatIsDueIsQueued, DownAtRest, PTL

-----------------------------------------------------------------------------
(***************************************************************************)
(* Rest, and a teardown that nobody interferes with.                       *)
(***************************************************************************)

\* A system at rest takes no step of its own, whatever is left in the queues:
\* only users and restarts of the manager end its rest (Reconcile of both
\* controllers returns an error only where AtRest says so).
THEOREM RestLasts == Spec => [][AtRest => ~System]_vars
<1>1. ASSUME AtRest, System PROVE FALSE
  <2>1. ~Core
    BY <1>1 DEF AtRest, Core, Adopt, Report, Cascade, Release
  <2>2. \A k \in Keys : ~Deliver(k)
    BY <1>1, Zenon DEF AtRest, Deliver
  <2>3. \A k \in Infra : ~CloudProgress(k)
    BY <1>1, Zenon DEF AtRest, CloudProgress
  <2>4. ~ReconcileDOCluster
    BY <1>1, Zenon DEF AtRest, OwnerMissing, ReconcileDOCluster
  <2>5. \A m \in Machines : ~ReconcileDOMachine(m)
    BY <1>1, Zenon DEF AtRest, OwnerMissing, ReconcileDOMachine
  <2> QED
    BY <1>1, <2>1, <2>2, <2>3, <2>4, <2>5 DEF System, Manager
<1> QED
  BY <1>1, PTL DEF Spec

\* The DOCluster goes last.
Orderly ==
  ~Live(DOCluster) =>
    ~Live(Cluster) /\ \A m \in Machines : ~Present(store[Machine(m)])

\* One object changes; it is not brought back, and starts to be deleted only
\* by a user or in a cascade.
Touches(k, obj) ==
  /\ Update(k, obj)
  /\ \/ obj.phase = store[k].phase
     \/ /\ store[k].phase = "live" /\ obj.phase = "deleting"
        /\ UserDelete(k) \/ CanCascade(k)

\* Close does not touch the phase.
LEMMA CloseTouches ==
  ASSUME WInv, NEW k \in Keys, NEW finalizer \in BOOLEAN, NEW ready \in BOOLEAN,
         Close(k, finalizer, ready)
  PROVE  UNCHANGED store \/ \E obj \in Objects : Touches(k, obj)
<1> DEFINE obj == [store[k] EXCEPT !.finalizer = finalizer, !.ready = @ \/ ready]
<1>1. store[k] \in Objects
  BY DEF WInv, TypeOK
<1>2. obj \in Objects /\ obj.phase = store[k].phase
  BY <1>1, Zenon DEF Objects
<1>3. UNCHANGED store \/ Update(k, obj)
  BY DEF Close
<1> HIDE DEF obj
<1> QED
  BY <1>2, <1>3, Zenon DEF Touches

\* What a step can do to the objects in the API server.
LEMMA StepTouches ==
  ASSUME WInv, [Next]_vars
  PROVE  \/ \E m \in Machines : Create(m)
         \/ UNCHANGED store
         \/ \E k \in Keys, obj \in Objects : Touches(k, obj)
<1>1. \A k \in Keys : store[k] \in Objects
  BY DEF WInv, TypeOK
<1>2. ASSUME NEW k \in Keys, UserDelete(k) PROVE \E obj \in Objects : Touches(k, obj)
  <2> DEFINE obj == [store[k] EXCEPT !.phase = "deleting", !.finalizer = @ \/ k = Cluster]
  <2>1. obj \in Objects /\ obj.phase = "deleting"
    BY <1>1, Zenon DEF Objects
  <2>2. Update(k, obj) /\ store[k].phase = "live"
    BY <1>2 DEF UserDelete
  <2> HIDE DEF obj
  <2> QED
    BY <1>2, <2>1, <2>2, Zenon DEF Touches
<1>3. ASSUME NEW k \in Keys, Cascade(k) PROVE \E obj \in Objects : Touches(k, obj)
  <2> DEFINE obj == [store[k] EXCEPT !.phase = "deleting", !.finalizer = @ \/ k[1] = "Machine"]
  <2>1. obj \in Objects /\ obj.phase = "deleting"
    BY <1>1, Zenon DEF Objects
  <2>2. Update(k, obj) /\ store[k].phase = "live" /\ CanCascade(k)
    BY <1>3 DEF Cascade, CanCascade
  <2> HIDE DEF obj
  <2> QED
    BY <2>1, <2>2, Zenon DEF Touches
<1>4. ASSUME NEW k \in Keys, NEW b \in BOOLEAN,
             \/ Update(k, [store[k] EXCEPT !.paused = b])
             \/ Update(k, [store[k] EXCEPT !.owned = b])
             \/ Update(k, [store[k] EXCEPT !.ready = b])
             \/ Update(k, [store[k] EXCEPT !.finalizer = b])
      PROVE  \E obj \in Objects : Touches(k, obj)
  <2>1. \A obj \in {[store[k] EXCEPT !.paused = b], [store[k] EXCEPT !.owned = b],
                    [store[k] EXCEPT !.ready = b], [store[k] EXCEPT !.finalizer = b]} :
          obj \in Objects /\ obj.phase = store[k].phase
    BY <1>1, Zenon DEF Objects
  <2> QED
    BY <1>4, <2>1, Zenon DEF Touches
<1>5. ASSUME NEW k \in Keys, Pause(k) \/ Unpause(k) PROVE \E obj \in Objects : Touches(k, obj)
  BY <1>4, <1>5, Zenon DEF Pause, Unpause
<1>6. ASSUME NEW k \in Keys, NEW owner, Adopt(owner, k) \/ Report(k) \/ Release(k)
      PROVE  \E obj \in Objects : Touches(k, obj)
  BY <1>4, <1>6, Zenon DEF Adopt, Report, Release
<1>7. ASSUME NEW k \in Infra, Sleep(k) \/ Provision(k) \/ Deprovision(k)
      PROVE  UNCHANGED store \/ \E obj \in Objects : Touches(k, obj)
  BY <1>7, CloseTouches, KeyFacts, Zenon DEF Sleep, Provision, Deprovision
<1>8. CASE Users
  BY <1>2, <1>5, <1>8, Zenon DEF Users
<1>9. CASE Core
  BY <1>3, <1>6, <1>9, KeyFacts, Zenon DEF Core
<1>10. CASE ReconcileDOCluster
  BY <1>7, <1>10, KeyFacts, Zenon DEF ReconcileDOCluster
<1>11. ASSUME NEW m \in Machines, ReconcileDOMachine(m)
       PROVE  UNCHANGED store \/ \E k \in Keys, obj \in Objects : Touches(k, obj)
  <2>1. Sleep(DOMachine(m)) \/ Provision(DOMachine(m)) \/ Deprovision(DOMachine(m))
        \/ Close(DOMachine(m), TRUE, FALSE)
    BY <1>11, Zenon DEF ReconcileDOMachine
  <2> QED
    BY <1>7, <2>1, CloseTouches, KeyFacts, Zenon
<1>12. CASE (\E k \in Keys : Deliver(k)) \/ (\E k \in Infra : CloudProgress(k)) \/ Restart
            \/ UNCHANGED vars
  BY <1>12, Zenon DEF Deliver, CloudProgress, Restart, vars
<1> QED
  BY <1>8, <1>9, <1>10, <1>11, <1>12, KeyFacts, Zenon DEF Next, System, Manager

\* An object that is touched is not brought back.
LEMMA TouchedPhases ==
  ASSUME WInv, NEW k \in Keys, NEW obj \in Objects, Touches(k, obj)
  PROVE  /\ \A j \in Keys : j # k => store'[j] = store[j]
         /\ store'[k].phase \in {obj.phase, "gone"}
         /\ store'[k].phase # obj.phase => obj.phase = "deleting"
         /\ \A j \in Keys : /\ Live(j)' => Live(j)
                            /\ Present(store'[j]) => Present(store[j])
<1>1. store \in [Keys -> Objects]
  BY DEF WInv, TypeOK
<1>2. store' = [store EXCEPT ![k] = Finalized(obj)]
  BY DEF Touches, Update
<1>3. /\ Finalized(obj).phase \in {obj.phase, "gone"}
      /\ Finalized(obj).phase # obj.phase => obj.phase = "deleting"
  BY DEF Finalized, Objects
<1>4. store'[k] = Finalized(obj) /\ \A j \in Keys : j # k => store'[j] = store[j]
  BY <1>1, <1>2
<1>5. Live(k)' => Live(k)
  BY <1>3, <1>4 DEF Touches, Live
<1>6. Present(store'[k]) => Present(store[k])
  BY <1>3, <1>4 DEF Touches, Present
<1> QED
  BY <1>3, <1>4, <1>5, <1>6 DEF Live

\* Cluster API core deletes the DOCluster only after the machines.
LEMMA OrderlyStep ==
  WInv /\ Orderly /\ [Next]_vars /\ ~UserDelete(DOCluster) => Orderly'
<1> SUFFICES ASSUME WInv, Orderly, [Next]_vars, ~UserDelete(DOCluster), ~Live(DOCluster)'
             PROVE  ~Live(Cluster)' /\ \A m \in Machines : ~Present(store'[Machine(m)])
  BY DEF Orderly
<1>1. /\ Cluster \in Keys /\ DOCluster \in Keys /\ Cluster # DOCluster
      /\ \A m \in Machines : /\ Machine(m) \in Keys
                              /\ Machine(m) # DOCluster /\ DOMachine(m) # DOCluster
  BY KeyFacts
<1>2. ASSUME NEW m \in Machines, Create(m) PROVE FALSE
  <2>1. Live(Cluster) /\ store'[DOCluster] = store[DOCluster]
    BY <1>1, <1>2 DEF Create, Live
  <2> QED
    BY <2>1 DEF Orderly, Live
<1>3. CASE UNCHANGED store
  BY <1>3 DEF Orderly, Live
<1>4. ASSUME NEW k \in Keys, NEW obj \in Objects, Touches(k, obj)
      PROVE  ~Live(Cluster)' /\ \A m \in Machines : ~Present(store'[Machine(m)])
  <2>1. /\ \A j \in Keys : j # k => store'[j] = store[j]
        /\ store'[k].phase # obj.phase => obj.phase = "deleting"
        /\ \A j \in Keys : /\ Live(j)' => Live(j)
                           /\ Present(store'[j]) => Present(store[j])
    BY <1>4, TouchedPhases
  <2>2. SUFFICES ~Live(Cluster) /\ \A m \in Machines : ~Present(store[Machine(m)])
    BY <1>1, <2>1, Zenon
  <2>3. CASE ~Live(DOCluster)
    BY <2>3 DEF Orderly
  <2>4. CASE Live(DOCluster)
    <3>1. k = DOCluster /\ obj.phase # "live"
      BY <1>1, <2>1, <2>4 DEF Live
    <3>2. CanCascade(DOCluster)
      BY <1>4, <2>4, <3>1 DEF Touches, Live
    <3>3. store[Cluster].phase = "deleting" /\ \A m \in Machines : ~Present(store[Machine(m)])
      BY <1>1, <3>2, Zenon DEF CanCascade
    <3> QED
      BY <3>3 DEF Live
  <2> QED
    BY <2>3, <2>4
<1> QED
  BY <1>2, <1>3, <1>4, StepTouches, Zenon

\* If nobody deletes the DOCluster behind the back of its Cluster, a deleted
\* cluster never comes to rest half-way: with nothing paused, the system is
\* at rest only once the Cluster, which goes last, is gone (reconcileDelete of
\* the DOMachine controller needs the DOCluster to the end).
THEOREM TeardownIsComplete ==
  Spec /\ [][~UserDelete(DOCluster)]_vars =>
    [](AtRest /\ NothingPaused => store[Cluster].phase # "deleting")
<1>1. Init => Orderly
  BY KeyFacts DEF Init, Orderly, Live, NotCreated
<1>2. WInv /\ Orderly => ~Stranded
  <2> SUFFICES ASSUME WInv, Orderly, NEW m \in Machines, Present(store[DOMachine(m)])
               PROVE  Present(store[DOCluster])
    BY DEF Stranded
  <2>1. Present(store[Machine(m)])
    BY DEF WInv, Owners
  <2> QED
    BY <2>1 DEF Orderly, Live, Present
<1>3. ~Stranded /\ RestsWhenDown => (AtRest /\ NothingPaused => store[Cluster].phase # "deleting")
  BY DEF RestsWhenDown
<1>4. WInv /\ Orderly /\ [Next]_vars /\ [~UserDelete(DOCluster)]_vars => Orderly'
  BY OrderlyStep DEF Orderly, Live, vars
<1> QED
  BY <1>1, <1>2, <1>3, <1>4, WhatIsDueIsQueued, NoWakeupLostOnTheWayDown, PTL DEF Spec
=============================================================================
