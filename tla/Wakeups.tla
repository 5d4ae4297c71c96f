------------------------------- MODULE Wakeups -------------------------------
(***************************************************************************)
(* The two controllers and Cluster API core together: which event wakes    *)
(* which reconciler, and whether a reconciler that went back to sleep      *)
(* because something was missing is woken when it is there.                *)
(*                                                                         *)
(* Every kind of object has an informer of its own in the manager, so what *)
(* a reconciliation reads may be of four different ages.  An informer      *)
(* hands an object over in its newest version; that versions in between    *)
(* can be skipped (a relist) means fewer events, the harder case here.     *)
(* The periodic resync, which would cover a lost wake-up ten minutes       *)
(* later, is left out on purpose.                                          *)
(*                                                                         *)
(* Abstractions.  A reconciliation is one step: what happens between its   *)
(* remote calls is in DOMachine and DOCluster, and the work queue never    *)
(* runs two for one object and keeps what arrives meanwhile.  A cloud      *)
(* resource is on its way or there.  The cluster label is set together     *)
(* with the owner reference.  Cluster API core is external: it adopts the  *)
(* infrastructure objects, reports readiness upwards and tears down from   *)
(* the machines to the cluster.                                            *)
(***************************************************************************)
EXTENDS Integers

CONSTANTS
  Machines,     \* names of the machines of the cluster
  Pausable,     \* kinds of objects that users pause in this instance
  MaxIncidents  \* bound: number of pauses and of restarts of the manager

Kinds == {"Cluster", "DOCluster", "Machine", "DOMachine"}

ASSUME WakeupsAssumption ==
  /\ Pausable \subseteq Kinds
  /\ MaxIncidents \in Nat

VARIABLES
  store,      \* the objects in the API server
  cache,      \* the objects in the informers of the manager
  queue,      \* the objects in the work queues of the two controllers
  resource,   \* DigitalOcean: the load balancer and the droplets
  incidents   \* number of pauses and restarts so far

vars == <<store, cache, queue, resource, incidents>>

Cluster == <<"Cluster", "">>
DOCluster == <<"DOCluster", "">>
Machine(m) == <<"Machine", m>>
DOMachine(m) == <<"DOMachine", m>>

Infra == {DOCluster} \union {DOMachine(m) : m \in Machines}
Keys == Infra \union {Cluster} \union {Machine(m) : m \in Machines}

\* "ready" is Status.InfrastructureReady of a Cluster, the bootstrap data of
\* a Machine and Status.Ready of a DOCluster or DOMachine.  "paused" is
\* Spec.Paused of a Cluster and the annotation of every other kind.
Objects ==
  [phase: {"absent", "live", "deleting", "gone"}, owned: BOOLEAN,
   paused: BOOLEAN, finalizer: BOOLEAN, ready: BOOLEAN]

NotCreated ==
  [phase |-> "absent", owned |-> FALSE, paused |-> FALSE,
   finalizer |-> FALSE, ready |-> FALSE]

Init ==
  /\ store = [k \in Keys |-> IF k \in {Cluster, DOCluster}
                            THEN [NotCreated EXCEPT !.phase = "live"]
                            ELSE NotCreated]
  /\ cache = [k \in Keys |-> NotCreated]
  /\ queue = {}
  /\ resource = [k \in Infra |-> "none"]
  /\ incidents = 0

Present(obj) == obj.phase \in {"live", "deleting"}

\* An object that is being deleted goes with its last finalizer.
Finalized(obj) ==
  IF obj.phase = "deleting" /\ ~obj.finalizer
  THEN [obj EXCEPT !.phase = "gone"]
  ELSE obj

Update(k, obj) == store' = [store EXCEPT ![k] = Finalized(obj)]

-----------------------------------------------------------------------------
(* Users.                                                                  *)

\* A machine is added to the cluster, which was created with its DOCluster.
\* When the manager learns of which object is up to its informers.
Create(m) ==
  /\ store[Machine(m)].phase = "absent"
  /\ store[Cluster].phase = "live"
  /\ store' = [k \in Keys |-> IF k \in {Machine(m), DOMachine(m)}
                             THEN [store[k] EXCEPT !.phase = "live"]
                             ELSE store[k]]
  /\ UNCHANGED <<cache, queue, resource, incidents>>

\* The cluster is deleted, or its DOCluster behind its back.
UserDelete(k) ==
  /\ k \in {Cluster, DOCluster}
  /\ store[k].phase = "live"
  /\ Update(k, [store[k] EXCEPT !.phase = "deleting",
                               !.finalizer = @ \/ k = Cluster])
  /\ UNCHANGED <<cache, queue, resource, incidents>>

Pause(k) ==
  /\ incidents < MaxIncidents
  /\ k[1] \in Pausable /\ Present(store[k]) /\ ~store[k].paused
  /\ Update(k, [store[k] EXCEPT !.paused = TRUE])
  /\ incidents' = incidents + 1
  /\ UNCHANGED <<cache, queue, resource>>

Unpause(k) ==
  /\ Present(store[k]) /\ store[k].paused
  /\ Update(k, [store[k] EXCEPT !.paused = FALSE])
  /\ UNCHANGED <<cache, queue, resource, incidents>>

-----------------------------------------------------------------------------
(* Cluster API core.  Its controllers rest while the Cluster or the object *)
(* they work on is paused.                                                 *)

Working(k) ==
  Present(store[Cluster]) /\ ~store[Cluster].paused /\ ~store[k].paused

\* The Cluster controller sets the owner of the DOCluster; the Machine
\* controller sets the owner and the cluster label of the DOMachine.
CanAdopt(owner, k) ==
  /\ Working(owner) /\ ~store[k].paused
  /\ store[owner].phase = "live" /\ Present(store[k]) /\ ~store[k].owned

Adopt(owner, k) ==
  /\ CanAdopt(owner, k)
  /\ Update(k, [store[k] EXCEPT !.owned = TRUE])
  /\ UNCHANGED <<cache, queue, resource, incidents>>

\* Status.InfrastructureReady follows the DOCluster; the bootstrap data of a
\* machine is made once the infrastructure is ready.
CanReport(k) ==
  /\ Working(k) /\ store[k].phase = "live" /\ ~store[k].ready
  /\ \/ k = Cluster /\ Present(store[DOCluster]) /\ store[DOCluster].ready
     \/ k[1] = "Machine" /\ store[Cluster].ready

Report(k) ==
  /\ CanReport(k)
  /\ Update(k, [store[k] EXCEPT !.ready = TRUE])
  /\ UNCHANGED <<cache, queue, resource, incidents>>

\* Deletion goes from the cluster to its machines, from a machine to its
\* DOMachine and, once no machine is left, from the cluster to its DOCluster.
CanCascade(k) ==
  /\ store[k].phase = "live"
  /\ \/ \E m \in Machines :
          \/ k = Machine(m) /\ Working(Cluster) /\ store[Cluster].phase = "deleting"
          \/ k = DOMachine(m) /\ Working(Machine(m)) /\ store[Machine(m)].phase = "deleting"
     \/ /\ k = DOCluster /\ Working(Cluster) /\ store[Cluster].phase = "deleting"
        /\ \A m \in Machines : ~Present(store[Machine(m)])

Cascade(k) ==
  /\ CanCascade(k)
  /\ Update(k, [store[k] EXCEPT !.phase = "deleting",
                               !.finalizer = @ \/ k[1] = "Machine"])
  /\ UNCHANGED <<cache, queue, resource, incidents>>

\* An owner goes when what it owns is gone.
CanRelease(k) ==
  /\ Working(k) /\ store[k].phase = "deleting"
  /\ \/ k = Cluster /\ ~Present(store[DOCluster])
        /\ \A m \in Machines : ~Present(store[Machine(m)])
     \/ \E m \in Machines : k = Machine(m) /\ ~Present(store[DOMachine(m)])

Release(k) ==
  /\ CanRelease(k)
  /\ Update(k, [store[k] EXCEPT !.finalizer = FALSE])
  /\ UNCHANGED <<cache, queue, resource, incidents>>

Core ==
  \/ Adopt(Cluster, DOCluster)
  \/ \E m \in Machines : Adopt(Machine(m), DOMachine(m))
  \/ \E k \in Keys : Report(k) \/ Cascade(k) \/ Release(k)

-----------------------------------------------------------------------------
(* Events.  "old" is the version the informer had and "new" the one it got; *)
(* a creation has no old version, a deletion no new one.                   *)

Created(old, new) == ~Present(old) /\ Present(new)
Updated(old, new) == Present(old) /\ Present(new)

\* The object an event carries.
Carried(old, new) == IF Present(new) THEN new ELSE old

\* Mutant: an update is judged by the version that it replaces.
ResourceNotPausedBefore(old, new) == ~(IF Present(old) THEN old ELSE new).paused

\* predicates.ResourceNotPaused
ResourceNotPaused(old, new) == ~Carried(old, new).paused

\* predicates.ClusterUnpaused
ClusterUnpaused(old, new) ==
  \/ Created(old, new) /\ ~new.paused
  \/ Updated(old, new) /\ old.paused /\ ~new.paused

\* Mutant: only the end of a pause counts.
ClusterUnpausedOnly(old, new) == ClusterUnpaused(old, new)

\* predicates.ClusterUnpausedAndInfrastructureReady
ClusterUnpausedAndInfrastructureReady(old, new) ==
  \/ Created(old, new) /\ ~new.paused /\ new.ready
  \/ /\ Updated(old, new)
     /\ \/ old.paused /\ ~new.paused
        \/ ~old.ready /\ new.ready

\* util.ClusterToObjectsMapper: the DOMachines that carry the cluster label.
ClusterToObjects ==
  {DOMachine(m) : m \in {n \in Machines : /\ Present(cache[DOMachine(n)])
                                         /\ cache[DOMachine(n)].owned}}

\* DOClusterToDOMachines: needs the owning Cluster, and goes by its Machines.
DOClusterToDOMachines(docluster) ==
  IF docluster.owned /\ Present(cache[Cluster])
  THEN {DOMachine(m) : m \in {n \in Machines : Present(cache[Machine(n)])}}
  ELSE {}

\* util.MachineToInfrastructureMapFunc
MachineToInfrastructure(m) == {DOMachine(m)}

\* (*DOClusterReconciler).SetupWithManager
WakesDOCluster(k, old, new) ==
  IF \/ k = DOCluster /\ ResourceNotPaused(old, new)
     \/ k = Cluster /\ ClusterUnpaused(old, new)
  THEN {DOCluster} ELSE {}

\* (*DOMachineReconciler).SetupWithManager
WakesDOMachines(k, old, new) ==
  IF k = Cluster
  THEN IF ClusterUnpausedAndInfrastructureReady(old, new) THEN ClusterToObjects ELSE {}
  ELSE IF ~ResourceNotPaused(old, new) THEN {}
  ELSE CASE k[1] = "DOMachine" -> {k}
         [] k[1] = "Machine" -> MachineToInfrastructure(k[2])
         [] k = DOCluster -> DOClusterToDOMachines(Carried(old, new))

\* What an event puts into the work queues.
Woken(k, old, new) ==
  IF Present(old) \/ Present(new)
  THEN WakesDOCluster(k, old, new) \union WakesDOMachines(k, old, new)
  ELSE {}

\* The informer of the kind hands the object over.
Deliver(k) ==
  /\ cache[k] # store[k]
  /\ cache' = [cache EXCEPT ![k] = store[k]]
  /\ queue' = queue \union Woken(k, cache[k], store[k])
  /\ UNCHANGED <<store, resource, incidents>>

\* The manager starts again: its informers list everything, and every object
\* is an event without an old version, handled when all of them are there.
Restart ==
  /\ incidents < MaxIncidents
  /\ incidents' = incidents + 1
  /\ UNCHANGED <<store, resource>>
  /\ cache' = store
  /\ queue' = {k \in Infra : \E e \in Keys : k \in Woken(e, NotCreated, store[e])'}

-----------------------------------------------------------------------------
(* The reconcilers.                                                        *)

Done(k) == queue' = queue \ {k}
Again(k) == UNCHANGED queue

\* Close: the changes of the reconciliation are merged into the object that
\* is stored now, if there is one.
Close(k, finalizer, ready) ==
  IF Present(store[k])
  THEN Update(k, [store[k] EXCEPT !.finalizer = finalizer, !.ready = @ \/ ready])
  ELSE UNCHANGED store

\* The cloud resource is created, waited for (RequeueAfter) and reported.
Provision(k) ==
  \/ /\ resource[k] = "none" /\ resource' = [resource EXCEPT ![k] = "new"]
     /\ Close(k, TRUE, FALSE) /\ Again(k)
  \/ resource[k] = "new" /\ Close(k, TRUE, FALSE) /\ UNCHANGED resource /\ Again(k)
  \/ resource[k] = "active" /\ Close(k, TRUE, TRUE) /\ UNCHANGED resource /\ Done(k)

\* reconcileDelete: the cloud resource and the finalizer go.
Deprovision(k) ==
  /\ resource' = [resource EXCEPT ![k] = "none"]
  /\ Close(k, FALSE, FALSE)
  /\ Done(k)

\* Mutant: the object stays in the queue.
SleepNever(k) == UNCHANGED <<queue, store, resource>>

\* Reconcile returns without an error and nothing brings it back but an event.
Sleep(k) == Done(k) /\ UNCHANGED <<store, resource>>

\* (*DOClusterReconciler).Reconcile.  That the owning Cluster cannot be read
\* is an error and retried: nothing changes.
ReconcileDOCluster ==
  /\ DOCluster \in queue
  /\ LET docluster == cache[DOCluster]
     IN  \/ ~(Present(docluster) /\ docluster.owned) /\ Sleep(DOCluster)
         \/ /\ docluster.owned /\ Present(cache[Cluster])
            /\ \/ docluster.phase = "deleting" /\ Deprovision(DOCluster)
               \/ docluster.phase = "live" /\ Provision(DOCluster)
  /\ UNCHANGED <<cache, incidents>>

\* (*DOMachineReconciler).Reconcile and the first part of reconcile.  That
\* the owning Machine cannot be read is an error and retried; a missing
\* Cluster or DOCluster is not.
ReconcileDOMachine(m) ==
  LET k == DOMachine(m)
      domachine == cache[k]
      HaveCluster == Present(cache[Cluster]) /\ Present(cache[DOCluster])
  IN  /\ k \in queue
      /\ \/ ~(Present(domachine) /\ domachine.owned) /\ Sleep(k)
         \/ /\ Present(domachine) /\ domachine.owned /\ Present(cache[Machine(m)])
            /\ \/ ~HaveCluster /\ Sleep(k)
               \/ HaveCluster /\ domachine.phase = "deleting" /\ Deprovision(k)
               \/ /\ HaveCluster /\ domachine.phase = "live"
                  /\ ~(cache[Cluster].ready /\ cache[Machine(m)].ready)
                  /\ Close(k, TRUE, FALSE) /\ Done(k) /\ UNCHANGED resource
               \/ /\ HaveCluster /\ domachine.phase = "live"
                  /\ cache[Cluster].ready /\ cache[Machine(m)].ready
                  /\ Provision(k)
      /\ UNCHANGED <<cache, incidents>>

\* A load balancer or droplet comes up.
CloudProgress(k) ==
  /\ resource[k] = "new"
  /\ resource' = [resource EXCEPT ![k] = "active"]
  /\ UNCHANGED <<store, cache, queue, incidents>>

-----------------------------------------------------------------------------
Users ==
  \/ \E m \in Machines : Create(m)
  \/ \E k \in Keys : UserDelete(k) \/ Pause(k) \/ Unpause(k)

Manager ==
  \/ \E k \in Keys : Deliver(k)
  \/ ReconcileDOCluster
  \/ \E m \in Machines : ReconcileDOMachine(m)

System == Core \/ Manager \/ \E k \in Infra : CloudProgress(k)

Next == Users \/ System \/ Restart

Spec == Init /\ [][Next]_vars

-----------------------------------------------------------------------------
TypeOK ==
  /\ store \in [Keys -> Objects] /\ cache \in [Keys -> Objects]
  /\ queue \subseteq Infra
  /\ resource \in [Infra -> {"none", "new", "active"}]
  /\ incidents \in 0..MaxIncidents

\* Reconcile of the object fails, and is retried: its owner cannot be read.
OwnerMissing(owner, k) ==
  Present(cache[k]) /\ cache[k].owned /\ ~Present(cache[owner])

\* Everything that happens without a user has happened; what is still in the
\* queues waits in vain for an owner.
AtRest ==
  /\ cache = store
  /\ \A k \in Infra : resource[k] # "new"
  /\ ~CanAdopt(Cluster, DOCluster)
  /\ \A m \in Machines : ~CanAdopt(Machine(m), DOMachine(m))
  /\ \A k \in Keys : ~CanReport(k) /\ ~CanCascade(k) /\ ~CanRelease(k)
  /\ DOCluster \in queue => OwnerMissing(Cluster, DOCluster)
  /\ \A m \in Machines :
       DOMachine(m) \in queue => OwnerMissing(Machine(m), DOMachine(m))

\* The system is at rest exactly when none of its steps would change anything:
\* no reconciler polls for what only an event can bring, and whatever has an
\* effect is done (Reconcile of both controllers returns an error or asks to
\* be requeued only where AtRest says so).
RestIsQuiet == AtRest <=> ~ENABLED <<System>>_vars

NothingPaused == \A k \in Keys : ~store[k].paused

Live(k) == store[k].phase = "live"

\* No wake-up is lost on the way up: whatever the order in which informers
\* catch up, owners appear, pauses end and the manager restarts, the system
\* comes to rest only when the load balancer, the infrastructure readiness
\* and every machine are there, without the help of the periodic resync
\* (SetupWithManager of both controllers, DOClusterToDOMachines,
\* RequeueAfter).
RestsWhenUp ==
  AtRest /\ NothingPaused /\ Live(Cluster) /\ Live(DOCluster) =>
    /\ store[Cluster].ready /\ store[DOCluster].ready
    /\ \A m \in Machines : Live(DOMachine(m)) => store[DOMachine(m)].ready

\* A DOMachine that cannot be deleted: reconcileDelete needs a DOCluster.
Stranded ==
  \E m \in Machines : Present(store[DOMachine(m)]) /\ ~Present(store[DOCluster])

\* No wake-up is lost on the way down: a deleted cluster goes with all that
\* belongs to it, unless somebody deleted the DOCluster behind the back of
\* its DOMachines, which then stay for ever (reconcileDelete of both).
RestsWhenDown ==
  AtRest /\ NothingPaused /\ store[Cluster].phase = "deleting" => Stranded

\* controllers/domachine_controller.go:57: "don't queue reconcile if resource
\* is paused"
PausedNotQueued ==
  [][\A k \in queue' \ queue : ~cache'[k].paused]_vars
=============================================================================
