------------------------------ MODULE DOMachine ------------------------------
(***************************************************************************)
(* One DOMachine object, the reconciler that owns it                       *)
(* (controllers/domachine_controller.go), the machine scope that persists  *)
(* what the reconciler decided (cloud/scope/machine.go) and the            *)
(* DigitalOcean calls it makes (cloud/services/computes).                  *)
(*                                                                         *)
(* A reconciliation is cut at every remote call: between two calls another *)
(* actor (the API server, a user, the Cluster API core, DigitalOcean) may  *)
(* move, and the manager may crash.  Reads of the object come from the     *)
(* manager's informer cache, which follows the API server with a delay.    *)
(*                                                                         *)
(* Abstractions.  The spec is its data disks (by the volume names          *)
(* DataDiskName gives them), its additional tags and its provider ID; all  *)
(* other spec fields share the fate of the data disks (immutable).         *)
(* Of FailureReason and FailureMessage only whether they are set is kept.  *)
(* Machine ownership is set from the start: without it Reconcile returns   *)
(* and changes nothing.  Nothing is paused.                                *)
(***************************************************************************)
EXTENDS ManagedObject, FiniteSets

CONSTANTS
  VolumeNames,    \* names of volumes in the region
  DataDisks,      \* volume names of the machine's data disks, in spec order
  MaxDroplets,    \* bound: number of droplets ever created
  MaxEdits        \* bound: number of user updates of the object

ASSUME MachineAssumption ==
  /\ DataDisks \in Seq(VolumeNames)
  /\ MaxDroplets \in Nat /\ MaxEdits \in Nat

VARIABLES
  cluster,    \* what Reconcile finds of Cluster, DOCluster and bootstrap data
  droplets,   \* DigitalOcean: status of every droplet
  volumes,    \* DigitalOcean: number of volumes of every name
  pc,         \* next remote call of the running reconciliation
  orig,       \* the object as read (the patch helper's "before")
  mem,        \* the object as changed by the running reconciliation
  disk        \* index of the data disk the reconciliation is at

vars == <<store, cache, watch, protected, mishaps, cluster, droplets, volumes,
          pc, orig, mem, disk>>
cloud == <<droplets, volumes>>
run == <<pc, orig, mem, disk>>

NoDroplet == 0
DropletIDs == 1..MaxDroplets
Statuses == {"none", "new", "active", "off", "leaving", "deleted"}

Objects ==
  [phase: Phases, finalizer: BOOLEAN,
   dataDisks: Seq(VolumeNames), additionalTags: 0..MaxEdits,
   providerID: {NoDroplet} \union DropletIDs, ready: BOOLEAN,
   failureReason: BOOLEAN, failureMessage: BOOLEAN,
   instanceStatus: Statuses \union {"errored"}]

NewObject ==
  [phase |-> "live", finalizer |-> FALSE, dataDisks |-> DataDisks,
   additionalTags |-> 0, providerID |-> NoDroplet, ready |-> FALSE,
   failureReason |-> FALSE, failureMessage |-> FALSE, instanceStatus |-> "none"]

CloudCalls == {"GetVolume", "CreateVolume", "GetDroplet", "CreateDroplet",
               "DeleteGetDroplet", "DeleteDroplet", "DeleteGetVolume",
               "DeleteVolume"}
PCs == CloudCalls \union {"idle", "PatchSpec", "PatchStatus"}

Init ==
  /\ InitObject(NewObject)
  /\ cluster = "missing"
  /\ droplets = [d \in DropletIDs |-> "none"]
  /\ volumes = [v \in VolumeNames |-> 0]
  /\ pc = "idle" /\ orig = NewObject /\ mem = NewObject /\ disk = 1

-----------------------------------------------------------------------------
(* What the properties and the actions say about a state.                  *)

\* Droplets that run, or will run, until somebody deletes them.
Live == {d \in DropletIDs : droplets[d] \in {"new", "active", "off"}}

\* A lookup by ID finds the droplet (no 404).
Found(id) == id # NoDroplet /\ droplets[id] \in {"new", "active", "off", "leaving"}

\* The droplet boots or has booted.
Up(id) == id # NoDroplet /\ droplets[id] \in {"new", "active"}

\* The object is in an error state.
Failed(obj) == obj.failureReason \/ obj.failureMessage

\* Volumes of the machine are attached to each of its droplets that is left.
Attached == \E d \in DropletIDs : Found(d)

\* Live droplets that neither the object nor the running reconciliation name.
Orphans ==
  {d \in Live : /\ store.phase = "gone" \/ d # store.providerID
                /\ pc = "idle" \/ d # mem.providerID}

-----------------------------------------------------------------------------
(* Users of the API server, and admission.                                 *)

\* Mutant: nothing in the spec is immutable.
ValidateUpdateAnything(old, new) == TRUE

\* (*DOMachine).ValidateUpdate: everything in the spec but the provider ID
\* and the additional tags is immutable.
ValidateUpdate(old, new) == new.dataDisks = old.dataDisks

DeliverEvent ==
  /\ Deliver
  /\ UNCHANGED <<cluster, cloud, run>>

\* kubectl delete, or the Machine controller deleting its infrastructure.
UserDelete ==
  /\ Delete(pc # "idle")
  /\ UNCHANGED <<cluster, cloud, run>>

\* A user tries to update the spec; the webhook decides.
UserUpdate ==
  /\ store.phase # "gone"
  /\ store.additionalTags < MaxEdits
  /\ \E disks \in {DataDisks, <<>>} :
       LET new == [store EXCEPT !.dataDisks = disks, !.additionalTags = @ + 1]
       IN  ValidateUpdate(store, new) /\ Write(new)
  /\ UNCHANGED <<cluster, cloud, run, mishaps>>

-----------------------------------------------------------------------------
(* The rest of the world: Cluster API core, DigitalOcean, the process.     *)

\* The Cluster and the DOCluster become readable.
ClusterAppears ==
  /\ cluster = "missing"
  /\ cluster' = "present"
  /\ UNCHANGED <<api, cloud, run, mishaps>>

\* Cluster.Status.InfrastructureReady and Machine.Spec.Bootstrap are set.
PrerequisitesMet ==
  /\ cluster = "present"
  /\ cluster' = "ready"
  /\ UNCHANGED <<api, cloud, run, mishaps>>

\* A droplet boots; a droplet whose deletion was accepted disappears.
DropletProgress(d) ==
  /\ \/ droplets[d] = "new" /\ droplets' = [droplets EXCEPT ![d] = "active"]
     \/ droplets[d] = "leaving" /\ droplets' = [droplets EXCEPT ![d] = "deleted"]
  /\ UNCHANGED <<api, cluster, volumes, run, mishaps>>

\* Somebody powers a droplet off or destroys it in the DigitalOcean console.
\* A droplet is destroyed only while another can still be created (bound).
ExternalChange(d) ==
  /\ "external" \in Mishaps
  /\ \/ droplets[d] = "active" /\ droplets' = [droplets EXCEPT ![d] = "off"]
     \/ /\ d \in Live
        /\ droplets[MaxDroplets] = "none"
        /\ droplets' = [droplets EXCEPT ![d] = "deleted"]
  /\ UNCHANGED <<api, cluster, volumes, run, mishaps>>

\* The reconciliation is over and its memory is dropped.
Idle ==
  /\ pc' = "idle" /\ orig' = NewObject /\ mem' = NewObject /\ disk' = 1

Crash ==
  /\ Restart
  /\ Idle
  /\ UNCHANGED <<cluster, cloud>>

-----------------------------------------------------------------------------
(* Reconcile, up to its first remote call.  The early returns that change  *)
(* nothing (object not found, cluster not found, failed machine) are       *)
(* stuttering steps.                                                       *)

\* The deferred machineScope.Close runs next.
Return(obj) ==
  /\ pc' = "PatchSpec"
  /\ mem' = obj
  /\ UNCHANGED <<orig, disk>>

\* reconcile proceeds with the i-th data disk, or with the droplet.
EnsureDisk(i) ==
  /\ pc' = IF i <= Len(mem'.dataDisks) THEN "GetVolume" ELSE "GetDroplet"
  /\ disk' = i

\* NewMachineScope: the patch helper keeps a copy of the object as read.
NewMachineScope == orig' = cache

\* Mutant: the finalizer is never added.
ReconcileWithoutFinalizer ==
  /\ cache.phase = "live"
  /\ ~Failed(cache)
  /\ mem' = cache
  /\ \/ cluster = "ready" /\ EnsureDisk(1)
     \/ cluster = "present" /\ pc' = "PatchSpec" /\ disk' = 1

\* Mutant: the error state does not stop the reconciliation.
ReconcileFailed ==
  /\ cache.phase = "live"
  /\ mem' = [cache EXCEPT !.finalizer = TRUE]
  /\ \/ cluster = "ready" /\ EnsureDisk(1)
     \/ cluster = "present" /\ pc' = "PatchSpec" /\ disk' = 1

\* Mutant: a machine that has a provider ID counts as done.
ReconcileOnce ==
  /\ cache.phase = "live"
  /\ ~Failed(cache)
  /\ mem' = [cache EXCEPT !.finalizer = TRUE]
  /\ \/ cluster = "ready" /\ cache.providerID = NoDroplet /\ EnsureDisk(1)
     \/ cluster = "present" /\ pc' = "PatchSpec" /\ disk' = 1

\* reconcile: an object in an error state is left alone.  The finalizer is
\* added in memory only.
Reconcile ==
  /\ cache.phase = "live"
  /\ ~Failed(cache)
  /\ mem' = [cache EXCEPT !.finalizer = TRUE]
  /\ \/ cluster = "ready" /\ EnsureDisk(1)
     \/ cluster = "present" /\ pc' = "PatchSpec" /\ disk' = 1

\* Mutant: a failed machine is torn down like a deleted one.
ReconcileDeleteFailed ==
  /\ cache.phase = "deleting" \/ (cache.phase = "live" /\ Failed(cache))
  /\ mem' = cache
  /\ pc' = "DeleteGetDroplet"
  /\ disk' = 1

\* reconcileDelete
ReconcileDelete ==
  /\ cache.phase = "deleting"
  /\ mem' = cache
  /\ pc' = "DeleteGetDroplet"
  /\ disk' = 1

StartReconcile ==
  /\ pc = "idle"
  /\ cluster # "missing"
  /\ NewMachineScope
  /\ Reconcile \/ ReconcileDelete
  /\ ReadCache
  /\ UNCHANGED <<cluster, cloud>>

-----------------------------------------------------------------------------
(* reconcileVolumes and the droplet part of reconcile.                     *)

\* Mutant: volumes are created without looking for them.
GetVolumeBlind ==
  /\ pc = "GetVolume"
  /\ pc' = "CreateVolume"
  /\ UNCHANGED <<orig, mem, disk, api, cluster, cloud, mishaps>>

\* GetVolumeByName: more than one volume of the name is an error.
GetVolume ==
  /\ pc = "GetVolume"
  /\ LET name == mem.dataDisks[disk]
     IN  \/ /\ volumes[name] = 0
            /\ pc' = "CreateVolume"
            /\ UNCHANGED <<orig, mem, disk>>
         \/ /\ volumes[name] = 1
            /\ UNCHANGED <<orig, mem>>
            /\ EnsureDisk(disk + 1)
  /\ UNCHANGED <<api, cluster, cloud, mishaps>>

VolumeCreated ==
  /\ volumes' = [volumes EXCEPT ![mem.dataDisks[disk]] = @ + 1]
  /\ UNCHANGED droplets

CreateVolume ==
  /\ pc = "CreateVolume"
  /\ VolumeCreated
  /\ UNCHANGED <<orig, mem>>
  /\ EnsureDisk(disk + 1)
  /\ UNCHANGED <<api, cluster, mishaps>>

\* GetDropletAddress, whether it fails: only a new droplet may lack networks.
GetDropletAddress(status) == IF status = "new" THEN BOOLEAN ELSE {FALSE}

\* reconcile once it has a droplet: provider ID, instance status, addresses
\* and the switch on the status.  Without an address it ends before the switch.
Settle(id, status) ==
  \E noNetworks \in GetDropletAddress(status) :
    Return([mem EXCEPT
      !.providerID = id,
      !.instanceStatus = status,
      !.ready = @ \/ status = "active",
      !.failureReason = @ \/ status \notin {"new", "active"},
      !.failureMessage = @ \/ noNetworks \/ status \notin {"new", "active"}])

\* Mutant: a droplet is created without looking for the recorded one.
GetDropletBlind ==
  /\ pc = "GetDroplet"
  /\ pc' = "CreateDroplet"
  /\ UNCHANGED <<orig, mem, disk, api, cluster, cloud, mishaps>>

GetDroplet ==
  /\ pc = "GetDroplet"
  /\ \/ /\ ~Found(mem.providerID)
        /\ pc' = "CreateDroplet"
        /\ UNCHANGED <<orig, mem, disk>>
     \/ /\ Found(mem.providerID)
        /\ Settle(mem.providerID, droplets[mem.providerID])
  /\ UNCHANGED <<api, cluster, cloud, mishaps>>

\* DigitalOcean numbers droplets in the order of their creation.
Fresh(d) ==
  /\ droplets[d] = "none"
  /\ \A e \in DropletIDs : e < d => droplets[e] # "none"

\* The request of CreateDroplet is granted; all of its volumes must exist.
DropletCreated(d) ==
  /\ Fresh(d)
  /\ \A i \in 1..Len(mem.dataDisks) : volumes[mem.dataDisks[i]] = 1
  /\ droplets' = [droplets EXCEPT ![d] = "new"]
  /\ UNCHANGED volumes

CreateDroplet ==
  /\ pc = "CreateDroplet"
  /\ \E d \in DropletIDs : DropletCreated(d) /\ Settle(d, "new")
  /\ UNCHANGED <<api, cluster, mishaps>>

-----------------------------------------------------------------------------
(* reconcileDelete and reconcileDeleteVolumes.                             *)

\* Mutant: the finalizer is never dropped.
ReleaseDiskOnly(i) ==
  IF i <= Len(mem.dataDisks)
  THEN pc' = "DeleteGetVolume" /\ disk' = i /\ UNCHANGED <<orig, mem>>
  ELSE Return(mem)

\* reconcileDelete proceeds with the i-th data disk, or drops the finalizer.
ReleaseDisk(i) ==
  IF i <= Len(mem.dataDisks)
  THEN pc' = "DeleteGetVolume" /\ disk' = i /\ UNCHANGED <<orig, mem>>
  ELSE Return([mem EXCEPT !.finalizer = FALSE])

DeleteGetDroplet ==
  /\ pc = "DeleteGetDroplet"
  /\ \/ /\ Found(mem.providerID)
        /\ pc' = "DeleteDroplet"
        /\ UNCHANGED <<orig, mem, disk>>
     \/ ~Found(mem.providerID) /\ ReleaseDisk(1)
  /\ UNCHANGED <<api, cluster, cloud, mishaps>>

DropletDeleted ==
  /\ mem.providerID \in Live
  /\ droplets' = [droplets EXCEPT ![mem.providerID] = "leaving"]
  /\ UNCHANGED volumes

DeleteDroplet ==
  /\ pc = "DeleteDroplet"
  /\ DropletDeleted
  /\ ReleaseDisk(1)
  /\ UNCHANGED <<api, cluster, mishaps>>

\* Mutant: a volume is deleted whether it was found or not.
DeleteGetVolumeBlind ==
  /\ pc = "DeleteGetVolume"
  /\ pc' = "DeleteVolume"
  /\ UNCHANGED <<orig, mem, disk, api, cluster, cloud, mishaps>>

DeleteGetVolume ==
  /\ pc = "DeleteGetVolume"
  /\ LET name == mem.dataDisks[disk]
     IN  \/ volumes[name] = 0 /\ ReleaseDisk(disk + 1)
         \/ /\ volumes[name] = 1
            /\ pc' = "DeleteVolume"
            /\ UNCHANGED <<orig, mem, disk>>
  /\ UNCHANGED <<api, cluster, cloud, mishaps>>

\* DigitalOcean refuses to delete a volume that is attached to a droplet.
VolumeDeleted ==
  /\ ~Attached
  /\ volumes' = [volumes EXCEPT ![mem.dataDisks[disk]] = @ - 1]
  /\ UNCHANGED droplets

DeleteVolume ==
  /\ pc = "DeleteVolume"
  /\ VolumeDeleted
  /\ ReleaseDisk(disk + 1)
  /\ UNCHANGED <<api, cluster, mishaps>>

-----------------------------------------------------------------------------
(* Failed calls, and machineScope.Close.                                   *)

\* Every error of a cloud call ends the reconciliation, which still persists
\* what it changed so far; a failed CreateDroplet also records itself.
AfterError ==
  Return(IF pc = "CreateDroplet" THEN [mem EXCEPT !.instanceStatus = "errored"]
                                 ELSE mem)

\* The call fails and has no effect.
CallFails ==
  /\ pc \in CloudCalls
  /\ AfterError
  /\ UNCHANGED <<api, cluster, cloud, mishaps>>

\* The call takes effect and its answer is lost.  Only for the creation of a
\* droplet, whose ID nobody learns, is that a mishap.
ReplyLost ==
  /\ "lostReply" \in Mishaps
  /\ \/ pc = "CreateVolume" /\ VolumeCreated /\ NoMishap
     \/ pc = "DeleteDroplet" /\ DropletDeleted /\ NoMishap
     \/ pc = "DeleteVolume" /\ VolumeDeleted /\ NoMishap
     \/ /\ pc = "CreateDroplet"
        /\ \E d \in DropletIDs : DropletCreated(d)
        /\ Mishap("lostReply")
  /\ AfterError
  /\ UNCHANGED <<api, cluster>>

\* Close, first request: finalizer and provider ID, through the webhook.
SpecPatch ==
  Finalized([store EXCEPT
    !.finalizer = Merged(@, orig.finalizer, mem.finalizer),
    !.providerID = Merged(@, orig.providerID, mem.providerID)])

PatchSpec ==
  /\ pc = "PatchSpec"
  /\ \/ /\ store.phase # "gone" /\ ValidateUpdate(store, SpecPatch)
        /\ Write(SpecPatch) /\ NoMishap
     \/ store.phase = "gone" /\ NoMishap /\ UNCHANGED api
     \/ RequestFails
  /\ pc' = "PatchStatus"
  /\ UNCHANGED <<orig, mem, disk, cluster, cloud>>

\* Close, second request, sent whatever became of the first: the status.
StatusPatch ==
  [store EXCEPT
    !.ready = Merged(@, orig.ready, mem.ready),
    !.failureReason = Merged(@, orig.failureReason, mem.failureReason),
    !.failureMessage = Merged(@, orig.failureMessage, mem.failureMessage),
    !.instanceStatus = Merged(@, orig.instanceStatus, mem.instanceStatus)]

PatchStatus ==
  /\ pc = "PatchStatus"
  /\ \/ store.phase # "gone" /\ Write(StatusPatch) /\ NoMishap
     \/ store.phase = "gone" /\ NoMishap /\ UNCHANGED api
     \/ RequestFails
  /\ Idle
  /\ UNCHANGED <<cluster, cloud>>

-----------------------------------------------------------------------------
\* The object is gone, everybody knows, and nothing is left to do.
Finished ==
  /\ store.phase = "gone" /\ pc = "idle" /\ watch = <<>>
  /\ UNCHANGED vars

CallSucceeds ==
  \/ GetVolume \/ CreateVolume \/ GetDroplet \/ CreateDroplet
  \/ DeleteGetDroplet \/ DeleteDroplet \/ DeleteGetVolume \/ DeleteVolume

Controller ==
  \/ StartReconcile \/ CallSucceeds \/ CallFails \/ ReplyLost
  \/ PatchSpec \/ PatchStatus

Environment ==
  \/ DeliverEvent \/ UserDelete \/ UserUpdate
  \/ ClusterAppears \/ PrerequisitesMet
  \/ \E d \in DropletIDs : DropletProgress(d) \/ ExternalChange(d)
  \/ Crash

Next == Controller \/ Environment \/ Finished

Spec == Init /\ [][Next]_vars

\* The queue retries errors with back-off and every object is resynced (every
\* ten minutes by default), so a reconciliation is always started again and
\* runs to its end; events are delivered and DigitalOcean makes progress.
Fairness ==
  /\ WF_vars(DeliverEvent)
  /\ WF_vars(Controller /\ NoMishap)
  /\ \A d \in DropletIDs : WF_vars(DropletProgress(d))

FairSpec == Spec /\ Fairness

-----------------------------------------------------------------------------
TypeOK ==
  /\ store \in Objects /\ cache \in Objects /\ watch \in Seq(Objects)
  /\ cluster \in {"missing", "present", "ready"}
  /\ droplets \in [DropletIDs -> Statuses]
  /\ volumes \in [VolumeNames -> Nat]
  /\ pc \in PCs
  /\ orig \in Objects /\ mem \in Objects
  /\ disk \in 1..(Len(DataDisks) + 1)
  /\ mishaps \in MishapCounts
  /\ protected \in BOOLEAN

\* The finalizer keeps its word for volumes: once the finalizer has been
\* persisted, the DOMachine leaves the API server only when none of its
\* volumes is left, whatever crashes, failed calls, lost answers and stale
\* reads came before (reconcileDelete looks every volume up by name).
VolumesReclaimed ==
  protected /\ store.phase = "gone" => \A v \in VolumeNames : volumes[v] = 0

\* No interleaving of retries, crashes and lost answers creates a second
\* volume of one name, so GetVolumeByName never reports that names are not
\* unique (reconcileVolumes looks before it creates, one worker at a time).
VolumeNamesUnique ==
  \A v \in VolumeNames : volumes[v] <= 1

\* A provider ID in the API server is always guarded by the finalizer: the
\* two travel in one patch, so nobody can delete the object and skip the
\* deletion of the droplet it names.
RecordedDropletProtected ==
  store.phase # "gone" /\ store.providerID # NoDroplet => store.finalizer

\* Status.Ready in the API server comes with a provider ID, although the two
\* are written by separate requests of which the first may fail (Close).
ReadyHasProviderID ==
  store.ready => store.providerID # NoDroplet

\* A droplet escapes the controller's bookkeeping only through a mishap, and
\* each mishap costs at most one droplet.
LeaksBoundedByMishaps ==
  Cardinality(Orphans) <= MishapTotal

\* Without a mishap the machine never has two droplets, and each mishap adds
\* at most one: a droplet is created only when the one the object names is
\* not found (GetDroplet before CreateDroplet).
OneDropletPerMachine ==
  Cardinality(Live) <= MishapTotal + 1

\* Without a mishap a DOMachine that has left the API server has left nothing
\* in DigitalOcean, neither a droplet nor a volume, at whatever moment it was
\* deleted (the finalizer, reconcileDelete and Close together).
NothingLeftBehind ==
  MishapTotal = 0 /\ store.phase = "gone" /\ pc = "idle" =>
    Live = {} /\ \A v \in VolumeNames : volumes[v] = 0

\* The controller never destroys a droplet or a volume of a DOMachine that
\* nobody has asked to delete, however old its view of the object is.
DestroyOnlyWhenDeleting ==
  [][(\/ \E d \in DropletIDs : droplets'[d] = "leaving" /\ droplets[d] # "leaving"
      \/ \E v \in VolumeNames : volumes'[v] < volumes[v])
     => store.phase # "live"]_vars

\* Once a failure is recorded the machine is frozen: no droplet is created
\* for it any more and its provider ID does not change (reconcile returns
\* early when FailureReason or FailureMessage is set), unless a stale read
\* overlooks the failure.
FailureFreezesMachine ==
  [][Failed(store) /\ ~Happened("staleRead") =>
       /\ store'.providerID = store.providerID
       /\ \A d \in DropletIDs : droplets[d] = "none" => droplets'[d] = "none"]_vars

\* The object as InfraContract sees it: it names a droplet, and only stale
\* reads lead the controller astray.
Contract == INSTANCE InfraContract WITH
  NoID <- NoDroplet, phase <- store.phase, id <- store.providerID,
  running <- store.providerID \in Live, ready <- store.ready,
  failed <- Failed(store), astray <- Happened("staleRead")

\* A DOMachine keeps the contract of an infrastructure object, whatever
\* crashes, failed patches, lost answers and early deletions happen: it never
\* names a second droplet while the first one runs, it leaves only after its
\* droplet, and neither readiness nor failure is taken back (reconcile,
\* reconcileDelete and Close together).
KeepsContract == Contract!Spec

\* Cloud calls never stop failing.  (A call that succeeds and tells the
\* reconciliation to wait has the effect of a failed one; that does not count.)
CallsFailForever == []<><<CallFails /\ ~CallSucceeds>>_vars

\* The machine has failed because its droplet had no network yet when
\* reconcile asked for its address, although it boots like any other
\* (FailureIsTerminal says what is wrong with that).
FailedBooting(obj) == obj.failureMessage /\ ~obj.failureReason

\* A machine whose prerequisites are met becomes ready, or it has failed for
\* good: its droplet is neither new nor active (or a stale read overlooked the
\* failure and gave it another droplet).  The exceptions are named: it failed
\* while its droplet was booting, it is deleted, one of its droplets leaked
\* (and holds its volumes), or calls to DigitalOcean fail for ever.
ProvisioningCompletes ==
  CallsFailForever \/
  ((store.phase = "live" /\ cluster = "ready")
    ~> (\/ store.ready
        \/ store.failureReason /\ (~Up(store.providerID) \/ Happened("staleRead"))
        \/ FailedBooting(store)
        \/ store.phase # "live" \/ Orphans # {}))

\* A DOMachine under deletion leaves the API server, unless a leaked droplet
\* keeps its volumes attached or calls to DigitalOcean fail for ever.
DeletionCompletes ==
  CallsFailForever \/
  ((store.phase = "deleting" /\ cluster # "missing")
    ~> (store.phase = "gone" \/ Orphans # {}))

\* api/v1alpha4/domachine_types.go:87, of FailureMessage: "This field should not
\* be set for transitive errors that a controller faces that are expected to be
\* fixed automatically over time".  So the droplet of a machine that has failed
\* is not one that came up by itself.
FailureIsTerminal ==
  Failed(store) /\ store.providerID # NoDroplet => droplets[store.providerID] # "active"

\* api/v1alpha4/domachine_types.go:27: "MachineFinalizer allows
\* ReconcileDOMachine to clean up DigitalOcean resources associated with
\* DOMachine before removing it from the apiserver."
FinalizerGuardsDroplets ==
  store.phase = "gone" /\ pc = "idle" => Live = {}
=============================================================================
